-------------------------- MODULE MCKotasyncUpdate --------------------------
(* KotasyncUpdate with three files and three versions: the first lacks the  *)
(* outer two files (two ranges), the second all of them (one range), the    *)
(* third leaves the first file as in the second and is otherwise new.       *)
EXTENDS KotasyncUpdate

MCSeed     == <<0, 0, 0>>
MCContents == <<<<1, 0, 1>>, <<2, 1, 1>>, <<2, 2, 2>>>>
=============================================================================
