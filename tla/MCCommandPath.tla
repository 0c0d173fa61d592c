--------------------------- MODULE MCCommandPath ---------------------------
(* Phones and commands for TLC.  c3 may be served while remote control is    *)
(* paused.                                                                   *)
EXTENDS CommandPath, TLC
CONSTANTS d1, d2, c1, c3
TwoPhones == {d1, d2}
TwoCmds   == {c1, c3}
Status    == {c3}
=============================================================================
