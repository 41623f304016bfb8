CONSTANTS
  Texts <- MCTexts
  FontLists <- MCFontLists
  Requests <- MCRequests
  Script <- MCScript
  Marks = {"m"}
  Contexts = {1, 2}
  Ideographs = {"c"}
SPECIFICATION TextSpec
INVARIANTS LinesTile LinesFit LongestLine DrawnAsMeasured EndSegmentLongest SelectsWholeWords
CHECK_DEADLOCK FALSE
