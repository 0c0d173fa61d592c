---------------------------- MODULE MCCodexData ----------------------------
(***************************************************************************)
(* CodexData for TLC: two sessions, two databases, two providers.          *)
(***************************************************************************)
EXTENDS CodexData, TLC
CONSTANTS t1, t2, d1, d2, r1, r2, p, q
Sessions  == {t1, t2}
Databases == {d1, d2}
Repairers == {r1, r2}
TwoProviders == {p, q}
\* One session has rows in both databases, as after an update of Codex.
RowsOf == [t \in Sessions |-> IF t = t1 THEN {{d1, d2}} ELSE {{d1}}]
OneRow == [t \in Sessions |-> {{d1}}]
Symmetric == Permutations(Repairers) \union Permutations(TwoProviders)
=============================================================================
