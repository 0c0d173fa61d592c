-------------------------- MODULE MCRemoteRuntime --------------------------
(* Two requests at a time, two tasks, and two forms a user may save: switched *)
(* on with the LAN server, and switched off.                                  *)
EXTENDS RemoteRuntime
CONSTANTS c1, c2, t1, t2
TwoCallers == {c1, c2}
TwoTasks   == {t1, t2}
On       == [enabled |-> TRUE, paused |-> FALSE, lan |-> TRUE]
TwoForms == {On, [On EXCEPT !.enabled = FALSE]}
=============================================================================
