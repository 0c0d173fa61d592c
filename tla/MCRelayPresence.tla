-------------------------- MODULE MCRelayPresence --------------------------
EXTENDS RelayPresence, TLC

CONSTANTS s1, s2, s3, s4, p1, p2, p3, d1, d2, i1

Symmetric == Permutations({s1, s2, s3, s4}) \union Permutations({p1, p2, p3}) \union Permutations({d1, d2})
=============================================================================
