------------------------------ MODULE MCScreen ------------------------------
(***************************************************************************)
(* Screen for TLC: a panel of 4 by 3 pixels and rectangles that lie        *)
(* within, cross or miss each of its borders, in every orientation.        *)
(***************************************************************************)
EXTENDS Screen

\* Offset and length along one axis.
Spans == {<<-1, 3>>, <<-2, 1>>, <<0, 2>>, <<1, 2>>, <<1, 3>>, <<3, 2>>, <<4, 1>>}

MCRects   == {At(i[1], j[1], i[2], j[2]) :
                i \in Spans \cup {<<0, W>>}, j \in Spans \cup {<<0, H>>}}

From(x, y, w, h, alike) == [x |-> x, y |-> y, w |-> w, h |-> h, alike |-> alike]

\* Those alike are as wide as the panel or as some viewports of it.
MCSources == {From(0, 0, 3, 2, FALSE), From(1, -1, 2, 3, FALSE), From(-1, 1, 2, 2, FALSE),
              From(2, 0, 2, 4, FALSE),
              From(0, 0, W, H, TRUE), From(0, 0, 2, 2, TRUE), From(-1, 0, 2, 2, TRUE)}
=============================================================================
