-------------------------- MODULE MCMobileChannel --------------------------
(***************************************************************************)
(* MobileChannel for TLC: two numbers per unit of time, two frames in the  *)
(* hands of the browser, so that they can overtake each other.             *)
(***************************************************************************)
EXTENDS MobileChannel
=============================================================================
