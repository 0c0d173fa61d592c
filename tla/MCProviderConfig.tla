-------------------------- MODULE MCProviderConfig --------------------------
(***************************************************************************)
(* ProviderConfig for TLC: one API supplier and the official one.          *)
(***************************************************************************)
EXTENDS ProviderConfig
=============================================================================
