-------------------------------- MODULE MCGui --------------------------------
(* Values of Gui's constants for TLC. *)
EXTENDS Gui

CONSTANTS f1, f2, f3

MCTwoFiles == {f1, f2}
MCThreeFiles == {f1, f2, f3}
MCNoFile == <<>>
MCOneFile == <<f1>>

=============================================================================
