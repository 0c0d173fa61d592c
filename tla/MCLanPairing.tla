---------------------------- MODULE MCLanPairing ----------------------------
(***************************************************************************)
(* LanPairing for TLC: a phone whose clock is behind.                      *)
(***************************************************************************)
EXTENDS LanPairing, TLC

CONSTANT p1

OnePhone == {p1}
IsLate   == [p \in OnePhone |-> 1]
=============================================================================
