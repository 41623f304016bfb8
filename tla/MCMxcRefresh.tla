---------------------------- MODULE MCMxcRefresh ----------------------------
(* MxcRefresh on five kinds of devices: a Kindle with a Pearl screen, a     *)
(* Kindle with the Rex board, a Kobo of the seventh mark, a colour Kobo     *)
(* with an MTK board, and the Kobo_condor, whose own rules undo some of the *)
(* MTK boards'.                                                             *)
EXTENDS MxcRefresh

Pearl == [full |-> "GC16", partial |-> "GL16_FAST", ui |-> "GC16_FAST",
          flashui |-> "GC16_FAST", fast |-> "DU", a2 |-> "A2", reagl |-> "none",
          night |-> "GC16", flashnight |-> "GC16", night_is_reagl |-> FALSE,
          kaleido |-> FALSE, color |-> "none", color_reagl |-> "none",
          before |-> TRUE, after |-> FALSE]

Rex == [Pearl EXCEPT !.partial = "GLR16", !.reagl = "GLR16", !.ui = "AUTO",
                     !.flashui = "GC16", !.night = "GLKW16",
                     !.flashnight = "GCK16", !.night_is_reagl = TRUE]

Mark7 == [Pearl EXCEPT !.partial = "REAGL", !.ui = "AUTO", !.flashui = "AUTO",
                       !.before = FALSE]

MtkColour == [Rex EXCEPT !.flashui = "AUTO", !.kaleido = TRUE, !.color = "GCC16",
                         !.color_reagl = "GLRC16", !.before = FALSE, !.after = TRUE]

Condor == [MtkColour EXCEPT !.kaleido = FALSE, !.after = FALSE, !.reagl = "none",
                            !.night_is_reagl = FALSE]

MCDevices == {Pearl, Rex, Mark7, MtkColour, Condor}
=============================================================================
