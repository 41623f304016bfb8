------------------------------- MODULE XText -------------------------------
(***************************************************************************)
(* An XText object (xtext.cpp): a text that is measured once, when first   *)
(* needed, then cut into lines (XTextLine) that are shaped to be drawn.    *)
(* measureSegment and shapeSegment go by different loops over the main     *)
(* font and its fallbacks, and must choose the same glyphs.                *)
(*                                                                         *)
(* They are functions of a text x and of its fonts fs, the main one first. *)
(* What a font finds is a function of the range it is asked for, since its *)
(* fallback is asked for ranges that turn up on the way; each loop is a    *)
(* function of how far it has come.                                        *)
(*                                                                         *)
(* HarfBuzz is seen through its result: a glyph for each character, in     *)
(* clusters of a character and the marks after it, "notdef" where the font *)
(* lacks it.  Texts run from left to right: bidi is left out.              *)
(* X_... before X is a variant of X with a plausible bug.                  *)
(***************************************************************************)
EXTENDS XTextWords

CONSTANTS
  Texts,       \* the texts considered, sequences of characters
  FontLists,   \* sequences of fonts, each with a glyph for each character
  Ideographs   \* characters a line may be cut after

Characters == DOMAIN Script

\* A glyph: its advance, and whether the font has it.
Glyph == [width : Nat, found : BOOLEAN]

ASSUME TextsAssumption ==
  /\ \A x \in Texts : x \in Seq(Characters)
  /\ Marks \cap {"newline", "space", "tab", "shy", "hyphen"} = {}
  /\ "hyphen" \in Characters
  /\ \A c \in {"shy", "hyphen"} \cap Characters : Script[c] = "common"

\* A soft hyphen has no width in any font.
ASSUME FontsAssumption ==
  \A fs \in FontLists :
    /\ fs \in Seq([Characters -> Glyph]) /\ fs # <<>>
    /\ "shy" \in Characters => \A n \in DOMAIN fs : fs[n]["shy"].width = 0

VARIABLES
  font_list,
  m_is_measured, m_no_longer_usable, m_width

textVars == <<m_text, font_list, m_is_measured, m_no_longer_usable, m_width>>
objectVars == <<text, lineVars, textVars>>

TextTypeOK ==
  /\ LineTypeOK
  /\ m_text \in Texts /\ m_length = Len(m_text) /\ font_list \in FontLists
  /\ m_is_measured \in BOOLEAN /\ m_no_longer_usable \in BOOLEAN /\ m_width \in Nat

-----------------------------------------------------------------------------
(* measure(): what may happen at each character.                           *)

\* libunibreak: what may happen between two characters.
Breaks(p, n) ==
  IF p = "newline" THEN "must"
  ELSE IF /\ n \notin {"newline", "space", "tab", "shy"} \cup Marks
          /\ \/ p \in {"space", "tab", "shy"}
             \/ "nbsp" \notin {p, n} /\ {p, n} \cap Ideographs # {}
  THEN "allow" ELSE "no"

\* The break after character j, a letter standing after the end of the text.
BreakAfter(x, j) == Breaks(x[j + 1], IF j + 1 < Len(x) THEN x[j + 2] ELSE "Z")

\* Does character j start another script than the last one before it.
ChangesScript(x, j) ==
  /\ Script[x[j + 1]] # "common"
  /\ \E p \in 0 .. j - 1 : /\ Script[x[p + 1]] \notin {"common", Script[x[j + 1]]}
                           /\ \A q \in p + 1 .. j - 1 : Script[x[q + 1]] = "common"

BreakFlags(x, j) ==
  CASE x[j + 1] = "tab" -> {"CAN_WRAP_AFTER", "SKIP_ON_BREAK", "CAN_EXTEND_WIDTH", "TAB"}
    [] x[j + 1] # "tab" /\ BreakAfter(x, j) = "allow" ->
         {"CAN_WRAP_AFTER"} \cup
         (IF x[j + 1] = "space" THEN {"SKIP_ON_BREAK", "CAN_EXTEND_WIDTH"} ELSE {})
    [] x[j + 1] # "tab" /\ BreakAfter(x, j) = "must" -> {"MUST_BREAK_AFTER", "SKIP_ON_BREAK"}
    [] x[j + 1] = "nbsp" -> {"CAN_EXTEND_WIDTH"}
    [] OTHER -> {}

-----------------------------------------------------------------------------
(* HarfBuzz: the glyphs of a text in a font, and their clusters in a range *)
(* that ends at "end".                                                     *)

Chars(x) == 0 .. Len(x) - 1
Ranges(x) == (0 .. Len(x)) \X (0 .. Len(x))
IsMark(x, t) == x[t + 1] \in Marks

\* Where the cluster that starts with character j ends.
ClusterEnd(x, j, end) ==
  CHOOSE u \in j + 1 .. end : /\ u = end \/ ~IsMark(x, u)
                              /\ \A t \in j + 1 .. u - 1 : IsMark(x, t)

Glyphs(x, font) == [t \in Chars(x) |-> font[x[t + 1]]]
ClusterWidth(x, font, j, end) ==
  WidthOf(Glyphs(x, font), Len(x), j, ClusterEnd(x, j, end))

HasNotdef(x, font, j, end) ==
  \E t \in j .. ClusterEnd(x, j, end) - 1 : ~font[x[t + 1]].found

-----------------------------------------------------------------------------
(* measureSegment: the widths of the characters of a range.                *)

\* The first of them, or none, measured by "seg" too.
Remeasured(info, seg, from, end) ==
  [t \in DOMAIN info |->
     IF t \in from .. end - 1
     THEN [width |-> seg.info[t].width, tail |-> info[t].tail \/ seg.info[t].tail]
     ELSE info[t]]

Unmeasured(x) == [t \in Chars(x) |-> [width |-> 0, tail |-> FALSE]]
NotMeasured(x) == [measured |-> FALSE, info |-> Unmeasured(x), width |-> 0]

\* The loop so far: the characters, their width, and the first of those at
\* the end that the font lacks, with the width of these.
NoneMeasured(x) == [info |-> Unmeasured(x), width |-> 0, notdef |-> -1, notdef_width |-> 0]

\* Lets the fallback font measure the characters not found, up to offset t.
Fallback(acc, fallback, t) ==
  LET seg == fallback[<<acc.notdef, t>>]
  IN  CASE acc.notdef < 0 -> acc
        [] acc.notdef >= 0 /\ seg.measured ->
             [info |-> Remeasured(acc.info, seg, acc.notdef, t), notdef |-> -1,
              width |-> (acc.width - acc.notdef_width) + seg.width, notdef_width |-> 0]
        [] OTHER -> [acc EXCEPT !.notdef = -1, !.notdef_width = 0]

\* A cluster's glyphs are all met at its first character, which gets its
\* width; one that is found first sends what is pending to the fallback font.
X_MeasureCluster_MarksApart(acc0, x, font, fallback, j, end) ==
  LET acc == IF font[x[j + 1]].found THEN Fallback(acc0, fallback, j) ELSE acc0
      w   == ClusterWidth(x, font, j, end)
      bad == acc.notdef >= 0 \/ ~font[x[j + 1]].found
  IN  [info |-> [acc.info EXCEPT ![j].width = w], width |-> acc.width + w,
       notdef |-> IF acc.notdef < 0 /\ bad THEN j ELSE acc.notdef,
       notdef_width |-> acc.notdef_width + (IF bad THEN w ELSE 0)]

MeasureCluster(acc0, x, font, fallback, j, end) ==
  LET acc == IF font[x[j + 1]].found THEN Fallback(acc0, fallback, j) ELSE acc0
      w   == ClusterWidth(x, font, j, end)
      bad == acc.notdef >= 0 \/ HasNotdef(x, font, j, end)
  IN  [info |-> [acc.info EXCEPT ![j].width = w], width |-> acc.width + w,
       notdef |-> IF acc.notdef < 0 /\ bad THEN j ELSE acc.notdef,
       notdef_width |-> acc.notdef_width + (IF bad THEN w ELSE 0)]

MeasureTail(acc, t) == [acc EXCEPT !.info[t] = [width |-> 0, tail |-> TRUE]]

\* The loop over the characters of a range, up to each of them.
Measuring(x, font, fallback, from, end) ==
  LET loop[t \in 0 .. end] ==
        CASE t <= from -> NoneMeasured(x)
          [] t > from + 1 /\ IsMark(x, t - 1) -> MeasureTail(loop[t - 1], t - 1)
          [] OTHER -> MeasureCluster(loop[t - 1], x, font, fallback, t - 1, end)
  IN  loop

MeasureRange(x, font, fallback, from, end) ==
  LET last == Fallback(Measuring(x, font, fallback, from, end)[end], fallback, end)
  IN  IF end <= from THEN NotMeasured(x)
      ELSE [measured |-> TRUE, info |-> last.info, width |-> last.width]

\* What the last fonts find of each range, for each number of them.
Measured(x, fs) ==
  LET with[k \in 0 .. Len(fs)] ==
        [r \in Ranges(x) |->
           IF k = 0 THEN NotMeasured(x)
           ELSE MeasureRange(x, fs[Len(fs) + 1 - k], with[k - 1], r[1], r[2])]
  IN  with

measureSegment(x, fs, from, end) == Measured(x, fs)[Len(fs)][<<from, end>>]

\* Segments end where the script changes, after a hard break, which is not
\* measured, and with the text.
EndsSegment(x, u) == u = Len(x) \/ ChangesScript(x, u) \/ x[u] = "newline"

MeasureUpTo(acc, x, fs, u) ==
  LET end == IF x[u] = "newline" THEN u - 1 ELSE u
      seg == measureSegment(x, fs, acc.start, end)
  IN  IF ~EndsSegment(x, u) THEN acc
      ELSE [info |-> Remeasured(acc.info, seg, acc.start, end),
            width |-> acc.width + seg.width, start |-> u]

\* The loop of measure, up to each character.
MeasuringText(x, fs) ==
  LET loop[u \in 0 .. Len(x)] ==
        IF u = 0 THEN [info |-> Unmeasured(x), width |-> 0, start |-> 0]
        ELSE MeasureUpTo(loop[u - 1], x, fs, u)
  IN  loop

\* The characters of the text with their widths and flags, and its width.
measure(x, fs) ==
  LET all == MeasuringText(x, fs)[Len(x)]
  IN  [width |-> all.width,
       info  |-> [j \in Chars(x) |->
                    [width |-> all.info[j].width, soft |-> x[j + 1] = "shy",
                     flags |-> BreakFlags(x, j)
                               \cup (IF ChangesScript(x, j) THEN {"SCRIPT_CHANGE"} ELSE {})
                               \cup (IF all.info[j].tail THEN {"CLUSTER_TAIL"} ELSE {})]]]

\* The width of a hyphen in the first font that has one.
getHyphenWidth(fs) ==
  LET has == {n \in DOMAIN fs : fs[n]["hyphen"].found}
  IN  IF has = {} THEN 0 ELSE fs[Min(has)]["hyphen"].width

-----------------------------------------------------------------------------
(* shapeLine: the glyphs of a line, each with the font that has it.        *)

\* Is the cluster at j for the fallback font, if there is one.
Lacks(x, fs, n, j, end) == n < Len(fs) /\ HasNotdef(x, fs[n], j, end)

\* The next cluster after j that font n has whole, or the end.
NextWhole(x, fs, n, j, end) ==
  LET next == ClusterEnd(x, j, end)
  IN  CHOOSE u \in next .. end :
        /\ u = end \/ (~IsMark(x, u) /\ ~Lacks(x, fs, n, u, end))
        /\ \A t \in next .. u - 1 : IsMark(x, t) \/ Lacks(x, fs, n, t, end)

\* The clusters that font n lacks, up to the next that it has whole, go
\* together to the fallback font; a cluster it has is drawn with it.
ShapeCluster(acc, x, fs, n, fallback, j, end) ==
  LET whole == NextWhole(x, fs, n, j, end)
      next  == ClusterEnd(x, j, end)
  IN  IF Lacks(x, fs, n, j, end)
      THEN [glyphs |-> acc.glyphs \o fallback[<<j, whole>>], next |-> whole]
      ELSE [glyphs |-> acc.glyphs \o
                       [k \in 1 .. next - j |->
                          [font |-> n, text_index |-> j, width |-> fs[n][x[j + k]].width]],
            next |-> next]

\* shapeSegment's loop over the clusters of a range, up to each character.
Shaping(x, fs, n, fallback, from, end) ==
  LET loop[t \in 0 .. end] ==
        CASE t <= from -> [glyphs |-> <<>>, next |-> from]
          [] t > from /\ loop[t - 1].next # t - 1 -> loop[t - 1]
          [] OTHER -> ShapeCluster(loop[t - 1], x, fs, n, fallback, t - 1, end)
  IN  loop

\* How the last fonts draw each range, for each number of them.
Shaped(x, fs) ==
  LET with[k \in 0 .. Len(fs)] ==
        [r \in Ranges(x) |->
           IF k = 0 THEN <<>>
           ELSE Shaping(x, fs, Len(fs) + 1 - k, with[k - 1], r[1], r[2])[r[2]].glyphs]
  IN  with

shapeSegment(x, fs, from, end) == Shaped(x, fs)[Len(fs)][<<from, end>>]

\* The text as it is drawn: a soft hyphen at the line's end is a hyphen.
Hyphenated(x, end) == IF x[end] = "shy" THEN [x EXCEPT ![end] = "hyphen"] ELSE x

\* The characters from "from" up to end, in segments of one script, up to
\* each of them.
ShapingLine(x, fs, info, from, end) ==
  LET loop[u \in 0 .. end] ==
        CASE u <= from -> [glyphs |-> <<>>, start |-> from]
          [] u > from /\ (u = end \/ "SCRIPT_CHANGE" \in info[u].flags) ->
               [glyphs |-> loop[u - 1].glyphs \o shapeSegment(x, fs, loop[u - 1].start, u),
                start  |-> u]
          [] OTHER -> loop[u - 1]
  IN  loop

shapeLine(x, fs, info, from, end) ==
  ShapingLine(Hyphenated(x, end), fs, info, from, end)[end].glyphs

-----------------------------------------------------------------------------
(* The object.                                                             *)

Blank == [width |-> 0, flags |-> {}, soft |-> FALSE]

TextInit ==
  /\ m_text \in Texts /\ font_list \in FontLists /\ request \in Requests
  /\ m_length = Len(m_text) /\ m_charinfo = [j \in Chars(m_text) |-> Blank]
  /\ m_hyphen_width = getHyphenWidth(font_list) /\ m_width = 0
  /\ m_is_measured = FALSE /\ m_no_longer_usable = FALSE
  /\ LineInit

\* What every method that needs widths does first.
Measure ==
  /\ m_is_measured' = TRUE
  /\ IF m_is_measured
     THEN UNCHANGED <<m_charinfo, m_width>>
     ELSE /\ m_charinfo' = measure(m_text, font_list).info
          /\ m_width' = measure(m_text, font_list).width

\* XText:measure, getWidth, getSegmentFromEnd and shapeLine.
XText_measure ==
  /\ ~m_no_longer_usable /\ at = "idle" /\ Measure
  /\ UNCHANGED <<m_length, m_hyphen_width, request, m_text, font_list,
                 m_no_longer_usable, lineVars>>

XText_makeLine ==
  /\ ~m_no_longer_usable /\ Measure /\ makeLine
  /\ UNCHANGED <<m_length, m_hyphen_width, request, m_text, font_list, m_no_longer_usable>>

MakingLine == (Scan \/ ScanOver \/ Return) /\ UNCHANGED <<text, textVars>>

\* XText:free, and the collector after it or instead of it.
XText_free ==
  /\ at = "idle" /\ ~m_no_longer_usable /\ m_no_longer_usable' = TRUE
  /\ UNCHANGED <<text, lineVars, m_text, font_list, m_is_measured, m_width>>

TextNext == XText_measure \/ XText_makeLine \/ MakingLine \/ XText_free

TextSpec == TextInit /\ [][TextNext]_objectVars

-----------------------------------------------------------------------------
(* Properties.                                                             *)

\* The width of a sequence of glyphs.
DrawnWidth(glyphs) ==
  WidthOf([k \in 0 .. Len(glyphs) - 1 |-> glyphs[k + 1]], Len(glyphs), 0, Len(glyphs))

\* The line's last character is a soft hyphen where the line was not cut (the
\* text goes on with a space or a hard break, ends, or fits no further), or
\* no font has a hyphen.
KeptHyphen(l) ==
  /\ Char(l.end_offset) = "shy"
  /\ \/ l.next # l.end_offset + 1 \/ l.next = m_length \/ l.no_allowed_break_met
     \/ \A n \in DOMAIN font_list : ~font_list[n]["hyphen"].found

\* A line that starts with the space it is cut at keeps it, without its width.
LoneSpace(l) ==
  l.end_offset = l.offset /\ "SKIP_ON_BREAK" \in m_charinfo[l.offset].flags

\* A line starts with marks that were on the tab the one before was cut at.
LooseMarks(l) == l.offset > 0 /\ Char(l.offset - 1) = "tab" /\ Char(l.offset) \in Marks

\* A line is drawn as wide as makeLine found it, and the text as wide as
\* measure() found it: measuring characters and shaping glyphs go through the
\* fallback fonts by different loops, and must agree on the font of each
\* cluster.  Aside: tab stops, which the caller places; the space of a line
\* that is nothing else; a soft hyphen that is not a hyphenation; marks cut
\* from a tab.
DrawnAsMeasured ==
  /\ m_is_measured => m_width = Width(0, m_length)
  /\ \A k \in DOMAIN lines :
       LET l == lines[k]
       IN  l.end_offset >= l.offset /\ request.tabstop = 0
           /\ ~LoneSpace(l) /\ ~KeptHyphen(l) /\ ~LooseMarks(l)
           => DrawnWidth(shapeLine(m_text, font_list, m_charinfo,
                                   l.offset, l.end_offset + 1)) = l.width
=============================================================================
