--------------------------- MODULE MCCodexSessions --------------------------
(***************************************************************************)
(* CodexSessions for TLC: one session Codex has, one that may be created.   *)
(***************************************************************************)
EXTENDS CodexSessions
=============================================================================
