------------------------------ MODULE MCXText ------------------------------
(***************************************************************************)
(* XText on every text of up to four of eight characters and on a few      *)
(* longer ones, with one font or with two fallback fonts, for four ways of *)
(* asking for lines.                                                       *)
(***************************************************************************)
EXTENDS XText

\* "a" and "b" are latin letters, "g" a greek one, "m" a mark, "c" an
\* ideograph.
MCScript == [x \in {"a", "b", "g", "m", "c", "space", "nbsp", "tab", "newline", "shy", "hyphen", "Z"} |->
               CASE x \in {"a", "b"} -> "latin" [] x = "g" -> "greek" [] OTHER -> "common"]

MCChars == {"a", "g", "m", "c", "space", "tab", "newline", "shy"}

Font(found, wide) ==
  [x \in DOMAIN MCScript |->
     [found |-> x \in found \cup {"space", "nbsp", "tab", "newline", "shy"},
      width |-> CASE x \in {"newline", "shy"} -> 0
                  [] x \in wide -> 2
                  [] x = "m" -> 0
                  [] OTHER -> 1]]

MCFontLists ==
  {<<Font({"a", "b", "c", "m", "hyphen"}, {"c", "g", "m"})>>,
   <<Font({"a", "c"}, {"c", "m"}), Font({"g", "m", "hyphen"}, {"a", "b"}),
     Font({"a", "m", "b"}, {"g", "b", "m"})>>}

Request(width, loose, tabstop, percent) ==
  [width |-> width, loose |-> loose, tabstop |-> tabstop, percent |-> percent]

MCRequests == {Request(2, FALSE, 0, 0), Request(3, FALSE, 0, 0), Request(1, TRUE, 0, 0),
               Request(4, FALSE, 3, 100)}

MCTexts ==
  UNION {[1 .. n -> MCChars] : n \in 1 .. 4}
  \cup {<<"a", "b", "space", "g", "m", "shy", "a", "b">>,
        <<"a", "nbsp", "a", "space", "space", "a", "shy", "a">>,
        <<"g", "a", "m", "g", "b", "m", "c", "c">>,
        <<"space", "a", "b", "a", "newline", "newline", "a", "tab", "a">>}
=============================================================================
