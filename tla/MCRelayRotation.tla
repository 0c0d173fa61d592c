-------------------------- MODULE MCRelayRotation --------------------------
(***************************************************************************)
(* RelayRotation for TLC: every strategy, settings that drop the aggregate, *)
(* settings with a member that lacks its key, and hot switching.           *)
(***************************************************************************)
EXTENDS RelayRotation, TLC

CONSTANTS m1, m2, m3

Member(x, w) == [relay |-> x, weight |-> w]
Aggregate(strategy, members) == [strategy |-> strategy, members |-> members]
Three == <<Member(m1, 1), Member(m2, 1), Member(m3, 1)>>
Plan(hot, agg, route, usable) == [hot |-> hot, agg |-> agg, route |-> route, usable |-> usable]

MCRelays == {m1, m2, m3}
MCPlans ==
  { Plan(FALSE, Aggregate("failover", Three), <<m1>>, {m1, m2, m3}),
    Plan(FALSE, Aggregate("conversation", Three), <<m1>>, {m1, m2, m3}),
    Plan(FALSE, Aggregate("weighted", <<Member(m1, 2), Member(m2, 0)>>), <<m1>>, {m1, m2, m3}),
    Plan(FALSE, Aggregate("request", <<Member(m3, 1), Member(m1, 1)>>), <<m1>>, {m1, m2, m3}),
    Plan(FALSE, Aggregate("failover", Three), <<m1>>, {m1, m2}),
    Plan(FALSE, NoAggregate, <<m2>>, {m1, m2, m3}),
    Plan(TRUE, NoAggregate, <<m2, m3>>, {m1, m2}) }

Alike == Permutations(Requests)
=============================================================================
