----------------------------- MODULE XTextLine -----------------------------
(***************************************************************************)
(* XText:makeLine (xtext.cpp): how a measured text is cut into lines.  The *)
(* caller asks for a line from an offset and goes on from the line's       *)
(* next_start_offset.  Each turn of makeLine's loop, which looks at one    *)
(* character, is a step.  A single line that ends with the text is another *)
(* question, answered by walking back from there.                          *)
(*                                                                         *)
(* Offsets are C's: from 0, end included.  X_... before X is a variant of  *)
(* X with a plausible bug.                                                 *)
(***************************************************************************)
EXTENDS Integers, Sequences

CONSTANT Requests \* what makeLine can be asked for, the offset aside

ASSUME RequestsAssumption ==
  Requests \subseteq [width : Nat \ {0},      \* targeted_width
                      loose : BOOLEAN,        \* no_line_breaking_rules
                      tabstop : Nat,          \* tabstop_width
                      percent : Nat]          \* expansion_pct_rather_than_hyphen

Flags == {"CAN_WRAP_AFTER", "MUST_BREAK_AFTER", "SKIP_ON_BREAK",
          "CAN_EXTEND_WIDTH", "CLUSTER_TAIL", "SCRIPT_CHANGE", "TAB"}

CharInfo == [width : Nat, flags : SUBSET Flags, soft : BOOLEAN]

VARIABLES
  m_length, m_charinfo,  \* the text; "soft" is a soft hyphen in m_text
  m_hyphen_width,
  request,               \* the caller's arguments
  at,                    \* where makeLine is
  start, i, line_width,
  candidate_end, candidate_line_width, next_line_start_offset,
  candidate_is_soft_hyphen, extendable_width, forced_break,
  lines                  \* the lines made so far

text      == <<m_length, m_charinfo, m_hyphen_width, request>>
candidate == <<candidate_end, candidate_line_width, next_line_start_offset,
               candidate_is_soft_hyphen>>
lineVars  == <<at, start, i, line_width, candidate, extendable_width,
               forced_break, lines>>

Offsets == 0 .. m_length - 1
Line == [offset : Nat, end_offset : Int, width : Nat, next : Int,
         can_be_justified : BOOLEAN, no_allowed_break_met : BOOLEAN]

LineTypeOK ==
  /\ m_length \in Nat /\ m_hyphen_width \in Nat /\ request \in Requests
  /\ m_charinfo \in [Offsets -> CharInfo]
  /\ at \in {"idle", "scan", "end"}
  /\ start \in Nat /\ i \in Nat /\ line_width \in Nat
  /\ candidate_end \in Int /\ candidate_line_width \in Nat
  /\ next_line_start_offset \in Int /\ candidate_is_soft_hyphen \in BOOLEAN
  /\ extendable_width \in Nat /\ forced_break \in BOOLEAN
  /\ lines \in Seq(Line)

LineInit ==
  /\ at = "idle" /\ start = 0 /\ i = 0 /\ line_width = 0
  /\ candidate_end = -1 /\ candidate_line_width = 0 /\ next_line_start_offset = -1
  /\ candidate_is_soft_hyphen = TRUE /\ extendable_width = 0 /\ forced_break = FALSE
  /\ lines = <<>>

\* What measure() leaves: a hard break is also a character to skip, and a soft
\* hyphen is neither a tab nor skipped.
WellMeasured ==
  \A j \in Offsets :
    /\ "MUST_BREAK_AFTER" \in m_charinfo[j].flags => "SKIP_ON_BREAK" \in m_charinfo[j].flags
    /\ m_charinfo[j].soft => {"TAB", "SKIP_ON_BREAK"} \cap m_charinfo[j].flags = {}

AnyText ==
  /\ m_length \in Nat /\ m_hyphen_width \in Nat /\ request \in Requests
  /\ m_charinfo \in [Offsets -> CharInfo] /\ WellMeasured
  /\ LineInit

-----------------------------------------------------------------------------
(* The character at i.                                                     *)

CharFlags == m_charinfo[i].flags \cup (IF request.loose THEN {"CAN_WRAP_AFTER"} ELSE {})
CanBreak  == "CAN_WRAP_AFTER" \in CharFlags \/ "MUST_BREAK_AFTER" \in CharFlags
IsSkipped == CanBreak /\ "SKIP_ON_BREAK" \in CharFlags
IsHyphen  == CanBreak /\ ~IsSkipped /\ m_charinfo[i].soft
IsOther   == CanBreak /\ ~IsSkipped /\ ~IsHyphen

\* The line's width with this character, a tab reaching to the next tab stop.
NewWidth ==
  IF "TAB" \in CharFlags /\ request.tabstop > 0
  THEN (line_width \div request.tabstop + 1) * request.tabstop
  ELSE line_width + m_charinfo[i].width

X_Exceeds_WhenFull == NewWidth >= request.width

Exceeds == NewWidth > request.width

\* A soft hyphen is passed over when the previous candidate is not one and
\* would, justified, be as wide as wanted.
Avoided ==
  /\ request.percent > 0 /\ ~candidate_is_soft_hyphen
  /\ candidate_line_width + (extendable_width * request.percent) \div 100 >= request.width

HyphenFits == NewWidth + m_hyphen_width <= request.width

\* The loop stops at a character too wide, and also at a soft hyphen that
\* would be too wide as a hyphen.
Stops == Exceeds \/ (IsHyphen /\ ~Avoided /\ ~HyphenFits)

SetCandidate(end, width, soft) ==
  /\ candidate_end' = end /\ candidate_line_width' = width
  /\ next_line_start_offset' = i + 1 /\ candidate_is_soft_hyphen' = soft

X_Candidate_NoHyphen ==
  \/ IsSkipped /\ SetCandidate(IF i > start THEN i - 1 ELSE start, line_width, FALSE)
  \/ IsHyphen /\ ~Exceeds /\ ~Avoided /\ SetCandidate(i, NewWidth + m_hyphen_width, TRUE)
  \/ IsOther /\ ~Exceeds /\ SetCandidate(i, NewWidth, FALSE)
  \/ (~CanBreak \/ (IsHyphen /\ (Exceeds \/ Avoided)) \/ (IsOther /\ Exceeds))
     /\ UNCHANGED candidate

\* Where the line may end so far: before a skipped character, whose width is
\* not needed; after a soft hyphen if a hyphen fits; or after any other.
Candidate ==
  \/ IsSkipped /\ SetCandidate(IF i > start THEN i - 1 ELSE start, line_width, FALSE)
  \/ IsHyphen /\ ~Exceeds /\ ~Avoided /\ HyphenFits
     /\ SetCandidate(i, NewWidth + m_hyphen_width, TRUE)
  \/ IsOther /\ ~Exceeds /\ SetCandidate(i, NewWidth, FALSE)
  \/ (~CanBreak \/ (IsHyphen /\ (Stops \/ Avoided)) \/ (IsOther /\ Exceeds))
     /\ UNCHANGED candidate

-----------------------------------------------------------------------------
\* Where the caller goes on: at the first character, then after each line
\* unless the text is over or not even one character fitted.
NextOffset == IF lines = <<>> THEN 0 ELSE lines[Len(lines)].next

HasNextLine ==
  /\ NextOffset < m_length
  /\ lines # <<>> => lines[Len(lines)].next > lines[Len(lines)].offset

\* makeLine is called.
makeLine ==
  /\ at = "idle" /\ HasNextLine
  /\ at' = "scan" /\ start' = NextOffset /\ i' = NextOffset
  /\ line_width' = 0 /\ extendable_width' = 0 /\ forced_break' = FALSE
  /\ candidate_end' = -1 /\ candidate_line_width' = 0
  /\ next_line_start_offset' = -1 /\ candidate_is_soft_hyphen' = TRUE
  /\ UNCHANGED lines

\* One turn of the loop.
Scan ==
  /\ at = "scan" /\ i < m_length
  /\ Candidate
  /\ forced_break' = ("MUST_BREAK_AFTER" \in CharFlags)
  /\ IF forced_break' \/ Stops
     THEN at' = "end" /\ UNCHANGED <<i, line_width, extendable_width>>
     ELSE /\ i' = i + 1 /\ line_width' = NewWidth
          /\ extendable_width' = extendable_width +
               (IF "CAN_EXTEND_WIDTH" \in CharFlags THEN m_charinfo[i].width ELSE 0)
          /\ UNCHANGED at
  /\ UNCHANGED <<start, lines>>

ScanOver ==
  /\ at = "scan" /\ i = m_length /\ at' = "end"
  /\ UNCHANGED <<start, i, line_width, candidate, extendable_width, forced_break, lines>>

TakesAll == ~forced_break /\ (candidate_end < 0 \/ i = m_length)
IsEmpty  == forced_break /\ i = start

X_MadeLine_KeepsBreak ==
  [offset |-> start,
   end_offset |-> IF TakesAll THEN i - 1 ELSE candidate_end,
   width  |-> IF TakesAll THEN line_width ELSE candidate_line_width,
   next   |-> IF TakesAll THEN i ELSE next_line_start_offset,
   can_be_justified |-> ~forced_break /\ i # m_length,
   no_allowed_break_met |-> TakesAll /\ i # m_length]

\* The line returned: the candidate; all that fits when there is none or the
\* text is over; or an empty line for a break on its own.
MadeLine ==
  [offset |-> start,
   end_offset |-> CASE IsEmpty -> start - 1 [] TakesAll -> i - 1 [] OTHER -> candidate_end,
   width  |-> CASE IsEmpty -> 0 [] TakesAll -> line_width [] OTHER -> candidate_line_width,
   next   |-> IF TakesAll THEN i ELSE next_line_start_offset,
   can_be_justified |-> ~forced_break /\ i # m_length,
   no_allowed_break_met |-> TakesAll /\ i # m_length]

Return ==
  /\ at = "end" /\ at' = "idle"
  /\ lines' = Append(lines, MadeLine)
  /\ UNCHANGED <<start, i, line_width, candidate, extendable_width, forced_break>>

LineNext == makeLine \/ Scan \/ ScanOver \/ Return

\* The lines of any text that is measured already.
LineSpec == AnyText /\ [][LineNext /\ UNCHANGED text]_<<text, lineVars>>

-----------------------------------------------------------------------------
(* The end of the text that fits.                                          *)

X_TakeBack_CutsClusters(walk, c, j, limit) ==
  LET w == walk.walked + c.width
  IN  CASE walk.over -> walk
        [] ~walk.over /\ w > limit -> [walk EXCEPT !.over = TRUE]
        [] OTHER -> [start |-> j, width |-> w, walked |-> w, over |-> FALSE]

\* One more character c, at j, is walked over: the tail of a cluster, which
\* would fit; a cluster that does not fit, which ends the walk; or one that
\* does.
TakeBack(walk, c, j, limit) ==
  LET w == walk.walked + c.width
      tail == "CLUSTER_TAIL" \in c.flags
  IN  CASE walk.over -> walk
        [] ~walk.over /\ tail -> [walk EXCEPT !.walked = w]
        [] ~walk.over /\ ~tail /\ w > limit -> [walk EXCEPT !.over = TRUE]
        [] OTHER -> [start |-> j, width |-> w, walked |-> w, over |-> FALSE]

\* The walk over the last characters of n, for each number of them.
WalkBack(info, n, limit) ==
  LET walk[k \in 0 .. n] ==
        IF k = 0 THEN [start |-> 0, width |-> 0, walked |-> 0, over |-> FALSE]
        ELSE TakeBack(walk[k - 1], info[n - k], n - k, limit)
  IN  walk

getSegmentFromEnd(limit) == WalkBack(m_charinfo, m_length, limit)[m_length]

-----------------------------------------------------------------------------
(* Properties.                                                             *)

\* The widths of the first characters of n, for each number of them.
Widths(info, n) ==
  LET sum[k \in 0 .. n] == IF k = 0 THEN 0 ELSE sum[k - 1] + info[k - 1].width
  IN  sum

\* The width of the characters from "from" up to end, of the first n of info.
WidthOf(info, n, from, end) == Widths(info, n)[end] - Widths(info, n)[from]

Width(from, end) == WidthOf(m_charinfo, m_length, from, end)

\* Line l goes on from offset "from".
GoesOn(l, from) ==
  /\ l.offset = from
  /\ l.next \in l.offset .. m_length
  /\ l.end_offset \in l.offset - 1 .. l.next - 1
  /\ l.end_offset # l.next - 1 =>
       /\ l.end_offset = l.next - 2
       /\ "SKIP_ON_BREAK" \in m_charinfo[l.next - 1].flags
  /\ \A j \in l.offset .. l.end_offset : "MUST_BREAK_AFTER" \notin m_charinfo[j].flags
  /\ l.next = l.offset =>
       l.no_allowed_break_met /\
       ( \/ m_charinfo[l.offset].width > request.width
         \/ "TAB" \in m_charinfo[l.offset].flags /\ request.tabstop > request.width
         \/ /\ m_charinfo[l.offset].soft
            /\ m_charinfo[l.offset].width + m_hyphen_width > request.width )

\* Lines follow each other without losing or repeating a character: between
\* a line and the next at most one is left out, and only one meant to be
\* skipped; no line holds a hard break; a line that does not advance starts
\* with a character too wide.
LinesTile ==
  \A k \in DOMAIN lines : GoesOn(lines[k], IF k = 1 THEN 0 ELSE lines[k - 1].next)

\* No line is wider than asked for, the hyphen it may end with included.
LinesFit == \A k \in DOMAIN lines : lines[k].width <= request.width

\* Where a line from "from" may end, whether it fits when it ends there, and
\* where the search is over: at a hard break, or a soft hyphen that does not fit.
Ends(j)  == request.loose \/ {"CAN_WRAP_AFTER", "MUST_BREAK_AFTER"} \cap m_charinfo[j].flags # {}
Skips(j) == "SKIP_ON_BREAK" \in m_charinfo[j].flags
Must(j)  == "MUST_BREAK_AFTER" \in m_charinfo[j].flags
Fits(from, j) ==
  Width(from, IF Skips(j) THEN j ELSE j + 1)
  + (IF m_charinfo[j].soft THEN m_hyphen_width ELSE 0) <= request.width
Over(from, j) == Must(j) \/ (Ends(j) /\ m_charinfo[j].soft /\ ~Fits(from, j))

NotOver(from, end) == \A h \in from .. end - 1 : ~Over(from, h)
Places(from) == {j \in from .. m_length - 1 : Ends(j) /\ Fits(from, j) /\ NotOver(from, j)}

\* Line l is as long as it can be.
IsLongest(l) ==
  LET rest    == Width(l.offset, m_length) <= request.width /\ NotOver(l.offset, m_length)
      fitting == {e \in l.offset .. m_length : Width(l.offset, e) <= request.width}
  IN  CASE rest -> l.next = m_length /\ l.end_offset = m_length - 1
        [] ~rest /\ Places(l.offset) # {} ->
             /\ l.next - 1 \in Places(l.offset)
             /\ \A j \in Places(l.offset) : j <= l.next - 1
        [] OTHER -> /\ l.no_allowed_break_met /\ l.next = l.end_offset + 1
                    /\ l.next \in fitting
                    /\ l.next + 1 \in fitting => Over(l.offset, l.next)

\* Without tab stops and expansion, a line is as long as it can be: of the
\* places where it may end, the last that fits before the search is over; the
\* whole rest of the text if that fits; and with no such place as many
\* characters as fit.
LongestLine ==
  request.tabstop = 0 /\ request.percent = 0 => \A k \in DOMAIN lines : IsLongest(lines[k])

\* What is kept of a text cut at its start fits, starts with a cluster, and
\* is all that fits; the width returned is the one it is drawn with.
EndSegmentLongest ==
  LET seg    == getSegmentFromEnd(request.width)
      starts == {j \in Offsets : /\ "CLUSTER_TAIL" \notin m_charinfo[j].flags
                                 /\ Width(j, m_length) <= request.width}
  IN  starts # {} => /\ seg.start \in starts /\ \A j \in starts : seg.start <= j
                     /\ seg.width = Width(seg.start, m_length)

-----------------------------------------------------------------------------
(* What holds at every turn of the loop, for the proof.                    *)

\* No hard break in the line so far, but the one it may end at.
NoBreakBefore(end) ==
  \A j \in start .. end : "MUST_BREAK_AFTER" \notin m_charinfo[j].flags

\* The candidate is a line that fits, up to the character before i, or up to i
\* when the loop ended on it.
CandidateFits ==
  /\ candidate_line_width <= request.width
  /\ next_line_start_offset \in start + 1 .. i + 1
  /\ at = "scan" => next_line_start_offset <= i
  /\ next_line_start_offset <= m_length
  /\ candidate_end \in start .. next_line_start_offset - 1
  /\ candidate_end # next_line_start_offset - 1 =>
       /\ candidate_end = next_line_start_offset - 2
       /\ "SKIP_ON_BREAK" \in m_charinfo[next_line_start_offset - 1].flags
  /\ ~IsEmpty => NoBreakBefore(candidate_end)

\* The loop ended on a hard break, which is a candidate, or on a character
\* too wide, or with the text.
LoopEnd ==
  IF forced_break
  THEN /\ i < m_length /\ Must(i) /\ Skips(i)
       /\ candidate_end >= 0 /\ next_line_start_offset = i + 1
  ELSE i < m_length => Exceeds \/ (IsHyphen /\ ~HyphenFits)

Scanning ==
  /\ HasNextLine /\ start = NextOffset /\ i \in start .. m_length
  /\ line_width <= request.width /\ (i = start => line_width = 0)
  /\ NoBreakBefore(i - 1)
  /\ candidate_end = -1 \/ CandidateFits
  /\ at = "scan" => ~forced_break
  /\ at = "end" => LoopEnd

IInv == /\ LineTypeOK /\ WellMeasured /\ LinesTile /\ LinesFit
        /\ at # "idle" => Scanning

\* The characters looked at as places for the end of the line.
Looked == IF at = "end" /\ i < m_length THEN i + 1 ELSE i
Found(j) == j \in start .. Looked - 1 /\ Ends(j) /\ Fits(start, j)

\* The search is not over yet, and the candidate is the last place it found.
LongestSoFar ==
  request.tabstop = 0 /\ request.percent = 0 =>
    /\ line_width = Width(start, i) /\ NotOver(start, i)
    /\ IF candidate_end = -1 THEN \A j \in Offsets : ~Found(j)
       ELSE /\ Found(next_line_start_offset - 1)
            /\ \A j \in Offsets : Found(j) => j <= next_line_start_offset - 1

LongestInv == IInv /\ LongestLine /\ (at # "idle" => LongestSoFar)
=============================================================================
