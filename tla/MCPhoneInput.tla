---------------------------- MODULE MCPhoneInput ----------------------------
(***************************************************************************)
(* PhoneInput for TLC: one session in a workspace that takes files, names  *)
(* for two more, two files, and a store for two of them.                   *)
(***************************************************************************)
EXTENDS PhoneInput, TLC

CONSTANTS s0, s1, s2, w1, w2, f1, f2

HomeOfOne == [s \in {s0} |-> w1]
OneEach   == [f \in {f1, f2} |-> 1]
Alike     == Permutations({s1, s2}) \union Permutations({f1, f2})
=============================================================================
