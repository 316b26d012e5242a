---------------------------- MODULE MCFrameList -----------------------------
(* Finite instances of FrameList for TLC; negative and set-valued          *)
(* constants that a configuration file cannot write are defined here.      *)
EXTENDS FrameList

ShiftNone == {0}
ShiftPast == {-2}
ShiftBoth == {-2, 3}

=============================================================================
