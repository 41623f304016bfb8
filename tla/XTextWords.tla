----------------------------- MODULE XTextWords -----------------------------
(***************************************************************************)
(* XText:getSelectedWordIndices (xtext.cpp): a selection in a text is      *)
(* extended to whole words, which libunibreak finds among the characters   *)
(* around it.  X_... before X is a variant of X with a plausible bug.      *)
(***************************************************************************)
EXTENDS XTextLine, FiniteSetsExt

CONSTANTS
  Script,      \* a character's script, or "common"
  Marks,       \* characters that combine with the one before
  Contexts     \* how many characters around a selection may be inspected

ASSUME ContextsAssumption == Contexts \subseteq Nat \ {0}

VARIABLE m_text

Char(j) == m_text[j + 1]

-----------------------------------------------------------------------------
\* libunibreak: does a word end between two characters.
WordEnds(p, n) ==
  ~(n \in Marks \cup {"shy"} /\ p # "newline")
  /\ ~(Script[p] # "common" /\ Script[n] # "common") /\ ~(p = "space" /\ n = "space")

X_WordStart_FromStart(from, first, ends) ==
  LET before == ends \cap (first .. from)
  IN  IF before = {} THEN Max({first - 1, 0}) ELSE Max(before) + 1

\* Back from the character before, to the one after the end of a word; at the
\* text's start, back from the first itself.  Where no word ends, the character
\* before the first one inspected.
WordStart(from, first, ends) ==
  LET before == ends \cap (first .. Max({from - 1, 0}))
  IN  IF before = {} THEN Max({first - 1, 0}) ELSE Max(before) + 1

\* The characters from "from" up to end with the rest of the words cut there,
\* looked for among "context" characters, whose last one ends a word.
getSelectedWordIndices(from, end, context) ==
  LET first == Max({from - context, 0})
      over  == Min({end + context, m_length})
      ends  == {t \in first .. over - 1 : t = over - 1 \/ WordEnds(Char(t), Char(t + 1))}
      after == ends \cap (end .. over - 1)
  IN  [start |-> WordStart(from, first, ends),
       end   |-> IF after = {} THEN over ELSE Min(after) + 1]

-----------------------------------------------------------------------------
\* A word starts or ends at offset t, or the text does.
Boundary(t) == t \in {0, m_length} \/ WordEnds(Char(t - 1), Char(t))

\* Where the word starts in which a selection does, and where the word ends
\* that holds the character after it.
LastBoundary(t) == Max({u \in 0 .. t : Boundary(u)})
NextBoundary(t) == Min({u \in t + 1 .. m_length : Boundary(u)} \cup {m_length})

\* A selection is extended to whole words and by no more: back to where the
\* word starts that it cuts, and on to where the one ends that holds the next
\* character, although only the characters inspected are searched
\* (xtext.cpp:2078).  A longer word is cut: at the end of what is inspected,
\* and at its start one character before it, which is not inspected, so that
\* of a word that starts just where the inspection does, the character before
\* is taken too (xtext.cpp:2120-2127).  A selection from the text's first
\* character starts there, or loses it when it is a word (xtext.cpp:2120).
SelectsWholeWords ==
  \A from \in 0 .. m_length - 1, context \in Contexts :
    \A end \in from + 1 .. m_length :
      LET seg  == getSelectedWordIndices(from, end, context)
          word == LastBoundary(from)
      IN  /\ seg.end = Min({NextBoundary(end), end + context})
          /\ from = 0 => seg.start = 0 \/ (seg.start = 1 /\ Boundary(1))
          /\ from > 0 => seg.start = IF word > from - context THEN word
                                    ELSE Max({from - context - 1, 0})
=============================================================================
