SPECIFICATION Spec
CONSTANTS
  W = 4
  H = 3
  Rects <- MCRects
  Sources <- MCSources
  Alignments = {1, 2, 4}
  None = None
INVARIANTS
  BuffersAgree
  RegionInPanel
  RefreshShows
  BlitExact
