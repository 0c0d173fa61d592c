--------------------------- MODULE RelayRotation ---------------------------
(***************************************************************************)
(* The gateway on 8787: a request of Codex is sent to the members of an    *)
(* aggregate supplier one after the other until one answers with 2xx.      *)
(* Which member comes first is decided by the one selector of the process  *)
(* (GLOBAL_SELECTOR), shared by all requests under a mutex; a request works *)
(* with the settings it loaded first, which may be older than the          *)
(* selector, and holds no lock while it waits for an upstream.             *)
(*                                                                         *)
(* A selector has three indices in the code, of which its strategy uses    *)
(* one: here it is `index', a position in the cycle of its strategy.       *)
(***************************************************************************)
EXTENDS Naturals, Sequences, FiniteSets, SequencesExt

CONSTANTS
  Requests,       \* connections of the gateway
  Conversations,  \* conversation ids a request may carry
  NoConversation,
  Relays,
  Plans,          \* settings that may be saved, as far as a request reads them
  NoAggregate, NoSelector,
  MaxSaves, MaxPicks   \* bounds: changes of the settings, picks of one selector

Strategies == {"failover", "conversation", "request", "weighted"}

\* An aggregate lists its members in order, each with a weight.
IsAggregate(a) ==
  /\ a.strategy \in Strategies
  /\ a.members \in Seq([relay : Relays, weight : Nat])
  /\ a.members # <<>>
  /\ \A i, j \in DOMAIN a.members : a.members[i].relay = a.members[j].relay => i = j

\* hot: hot switching; route: the relays of a request outside an aggregate, first
\* choice first; usable: the relays that have a base URL and a key.
ASSUME PlanAssumption == \A p \in Plans :
  /\ p.hot \in BOOLEAN
  /\ p.route \in Seq(Relays) /\ p.route # <<>>
  /\ p.usable \subseteq Relays
  /\ p.agg # NoAggregate => IsAggregate(p.agg)
  /\ p.hot => p.agg = NoAggregate
ASSUME RelayAssumption == IsFiniteSet(Relays)
ASSUME BoundAssumption == MaxSaves \in Nat /\ MaxPicks \in Nat
ASSUME ConversationAssumption == NoConversation \notin Conversations

VARIABLES
  settings,  \* what is saved
  selector,  \* GLOBAL_SELECTOR
  req,       \* per request: phase, the settings it loaded, its candidates, the attempt
  picks,     \* history: how often the selector's index chose each relay
  seen,      \* history, per request: what became of the selector since it chose for it
  saves

vars == <<settings, selector, req, picks, seen, saves>>

Idle == [phase |-> "idle"]
Over == {"served", "exhausted", "refused"}

-----------------------------------------------------------------------------
(* The selector.                                                             *)

Members(a) == [i \in DOMAIN a.members |-> a.members[i].relay]

\* A weighted aggregate repeats a member as often as its weight says, at least once.
WeightedSchedule(a) ==
  FlattenSeq([i \in DOMAIN a.members |->
    [k \in 1..(IF a.members[i].weight = 0 THEN 1 ELSE a.members[i].weight) |-> a.members[i].relay]])

Cycle(a) == IF a.strategy = "weighted" THEN WeightedSchedule(a) ELSE Members(a)

\* The position after i among n, and the k-th after it, counted in a circle.
Around(i, n) == IF i > n THEN i - n ELSE i

NextIndexOfMembers(s) ==   \* wrong: weights do not lengthen the cycle
  Around(s.index + 1, Len(s.agg.members))

NextIndex(s) == Around(s.index + 1, Len(Cycle(s.agg)))

FreshSelector(a) == [agg |-> a, index |-> 1, assigned |-> [c \in {} |-> 0]]

Valid(p) == \A i \in DOMAIN p.agg.members : p.agg.members[i].relay \in p.usable

SelectorForAny(a) ==   \* wrong: whatever aggregate the selector is for
  IF selector = NoSelector THEN FreshSelector(a) ELSE selector

\* The selector a request finds: one for another aggregate is replaced.
SelectorFor(a) ==
  IF selector = NoSelector \/ selector.agg # a THEN FreshSelector(a) ELSE selector

Assigned(s, c) == s.agg.strategy = "conversation" /\ c \in DOMAIN s.assigned

Picked(s, c) == IF Assigned(s, c) THEN s.assigned[c] ELSE Cycle(s.agg)[s.index]

\* Failover moves its index with failures only, the others with every pick.
Moves(s, c) == s.agg.strategy # "failover" /\ ~Assigned(s, c)

AfterPickUnassigned(s, c) ==   \* wrong: the conversation is not remembered
  IF ~Moves(s, c) THEN s ELSE [s EXCEPT !.index = NextIndex(s)]

AfterPick(s, c) ==
  IF ~Moves(s, c) THEN s
  ELSE [s EXCEPT !.index = NextIndex(s),
                 !.assigned = IF s.agg.strategy = "conversation" /\ c # NoConversation
                              THEN [x \in DOMAIN @ \union {c} |-> IF x = c THEN Picked(s, c) ELSE @[x]]
                              ELSE @]

\* fallback_relays_after: the other members, from the one after the first choice on; a
\* first choice that is no member counts as the place before them all.
Candidates(a, relay) ==
  LET n      == Len(a.members)
      places == {i \in 1..n : a.members[i].relay = relay}
      pos    == IF places = {} THEN 0 ELSE CHOOSE i \in places : TRUE
  IN  [k \in 1..n |-> IF k = 1 THEN relay ELSE a.members[Around(pos + k - 1, n)].relay]

\* record_relay_request_event: it reads the selector of the moment, whoever chose with it.
RecordedAlways(p, ok) ==   \* wrong: a success moves the index as well
  IF p.agg = NoAggregate THEN NoSelector
  ELSE IF selector = NoSelector \/ selector.agg.strategy # "failover" THEN selector
  ELSE [selector EXCEPT !.index = NextIndex(selector)]

Recorded(p, ok) ==
  IF p.agg = NoAggregate THEN NoSelector
  ELSE IF selector = NoSelector \/ ok \/ selector.agg.strategy # "failover" THEN selector
  ELSE [selector EXCEPT !.index = NextIndex(selector)]

-----------------------------------------------------------------------------
NoPicks == [x \in Relays |-> 0]

Init ==
  /\ settings \in Plans
  /\ selector = NoSelector
  /\ req = [r \in Requests |-> Idle]
  /\ picks = NoPicks
  /\ seen = [r \in Requests |-> "other"]
  /\ saves = 0

\* History: r used the selector and left it as s.  Requests whose selector it was know
\* that somebody else changed it, or that it is gone.
Touch(r, s, chose) ==
  LET gone == selector = NoSelector \/ s = NoSelector \/ s.agg # selector.agg
  IN  seen' = [x \in Requests |->
                IF x = r THEN IF chose THEN "alone" ELSE IF gone THEN "other" ELSE seen[x]
                ELSE IF gone THEN "other"
                ELSE IF seen[x] = "alone" /\ s # selector THEN "same" ELSE seen[x]]

\* The user saves settings; requests under way keep theirs.
Save(p) ==
  /\ saves < MaxSaves /\ p # settings
  /\ settings' = p /\ saves' = saves + 1
  /\ UNCHANGED <<selector, req, picks, seen>>

\* A request arrives and loads the settings.
Load(r, c) ==
  /\ req[r].phase = "idle"
  /\ req' = [req EXCEPT ![r] = [phase |-> "loaded", plan |-> settings, conv |-> c,
                                cand |-> <<>>, at |-> 0]]
  /\ UNCHANGED <<settings, selector, picks, seen, saves>>

\* validate_upstream ends the whole request at a relay without URL or key.
Attempt(q, k) ==
  [q EXCEPT !.at = k,
            !.phase = IF q.cand[k] \in q.plan.usable THEN "sending" ELSE "refused"]

Started(r, cand) == req' = [req EXCEPT ![r] = Attempt([@ EXCEPT !.cand = cand], 1)]
Refused(r) == req' = [req EXCEPT ![r].phase = "refused"]

\* Hot switching routes by model and leaves the selector alone; a model without a
\* mapping is refused.
Route(r) ==
  /\ req[r].phase = "loaded" /\ req[r].plan.hot
  /\ Started(r, req[r].plan.route) \/ Refused(r)
  /\ UNCHANGED <<settings, selector, picks, seen, saves>>

\* select_relay_for_request without an aggregate forgets the selector.
SelectPlain(r) ==
  /\ req[r].phase = "loaded" /\ ~req[r].plan.hot /\ req[r].plan.agg = NoAggregate
  /\ selector' = NoSelector /\ picks' = NoPicks
  /\ Touch(r, NoSelector, FALSE)
  /\ Started(r, req[r].plan.route)
  /\ UNCHANGED <<settings, saves>>

SelectInvalid(r) ==
  /\ req[r].phase = "loaded" /\ req[r].plan.agg # NoAggregate /\ ~Valid(req[r].plan)
  /\ Refused(r)
  /\ UNCHANGED <<settings, selector, picks, seen, saves>>

SelectMember(r) ==
  LET a == req[r].plan.agg
      c == req[r].conv
      s == SelectorFor(a)
      base == IF s = selector THEN picks ELSE NoPicks
  IN  /\ req[r].phase = "loaded" /\ a # NoAggregate /\ Valid(req[r].plan)
      /\ \A x \in Relays : base[x] < MaxPicks
      /\ selector' = AfterPick(s, c)
      /\ picks' = IF Moves(s, c) THEN [base EXCEPT ![Picked(s, c)] = @ + 1] ELSE base
      /\ Touch(r, s, TRUE)
      /\ Started(r, Candidates(a, Picked(s, c)))
      /\ UNCHANGED <<settings, saves>>

\* A list of models or a transcription peeks: it may create or forget the selector, but
\* moves no index and records no result.
Probe(r) ==
  LET a == req[r].plan.agg
      s == IF a = NoAggregate THEN NoSelector
           ELSE IF Valid(req[r].plan) THEN SelectorFor(a) ELSE selector
  IN  /\ req[r].phase = "loaded"
      /\ selector' = s
      /\ picks' = IF s = selector THEN picks ELSE NoPicks
      /\ Touch(r, s, FALSE)
      /\ req' = [req EXCEPT ![r] = Idle]
      /\ UNCHANGED <<settings, saves>>

\* An upstream answers with 2xx, or not: another status, no connection, or no header in
\* time.  Only then is the next candidate tried.
Answer(r, ok) ==
  LET q == req[r]
      s == Recorded(q.plan, ok)
  IN  /\ q.phase = "sending"
      /\ selector' = s
      /\ picks' = IF s = NoSelector THEN NoPicks ELSE picks
      /\ Touch(r, s, FALSE)
      /\ req' = [req EXCEPT ![r] = IF ok THEN [q EXCEPT !.phase = "served"]
                                   ELSE IF q.at < Len(q.cand) THEN Attempt(q, q.at + 1)
                                   ELSE [q EXCEPT !.phase = "exhausted"]]
      /\ UNCHANGED <<settings, saves>>

Done(r) ==
  /\ req[r].phase \in Over
  /\ req' = [req EXCEPT ![r] = Idle]
  /\ seen' = [seen EXCEPT ![r] = "other"]
  /\ UNCHANGED <<settings, selector, picks, saves>>

Next ==
  \/ \E p \in Plans : Save(p)
  \/ \E r \in Requests :
       \/ \E c \in Conversations \union {NoConversation} : Load(r, c)
       \/ Route(r) \/ SelectPlain(r) \/ SelectInvalid(r) \/ SelectMember(r) \/ Probe(r)
       \/ \E ok \in BOOLEAN : Answer(r, ok)
       \/ Done(r)

Spec == Init /\ [][Next]_vars

-----------------------------------------------------------------------------
(* Properties.                                                               *)

Chosen(r) == req[r].phase \in Over \union {"sending"} /\ req[r].cand # <<>>

IsSelector(s) ==
  \E p \in Plans : p.agg # NoAggregate /\
    \E i \in DOMAIN Cycle(p.agg), C \in SUBSET Conversations :
      \E f \in [C -> Range(Members(p.agg))] : s = [agg |-> p.agg, index |-> i, assigned |-> f]

Request == [phase : {"loaded", "sending"} \union Over, plan : Plans,
            conv : Conversations \union {NoConversation}, cand : Seq(Relays), at : Nat]

\* What the variables hold: a selector's index stays in the cycle of its strategy, and
\* every conversation is assigned to a member.
TypeOK ==
  /\ settings \in Plans
  /\ selector # NoSelector => IsSelector(selector)
  /\ req \in [Requests -> Request \union {Idle}]
  /\ \A r \in Requests : req[r].phase \in {"sending", "served"} => req[r].at \in DOMAIN req[r].cand
  /\ picks \in [Relays -> 0..MaxPicks]
  /\ seen \in [Requests -> {"alone", "same", "other"}]
  /\ saves \in 0..MaxSaves

\* A request that gives up has tried every member of the aggregate of its own settings
\* once, although the member it started with came from a selector that other requests,
\* with other settings, replace and move (fallback_relays_after, open_responses_...).
TriedAll ==
  \A r \in Requests :
    (req[r].phase = "exhausted" /\ req[r].plan.agg # NoAggregate) =>
       LET a == req[r].plan.agg
       IN  /\ req[r].at = Len(a.members) /\ Len(req[r].cand) = Len(a.members)
           /\ Range(req[r].cand) = Range(Members(a))

\* Rotation is fair however requests overlap: while a selector lives, after any number
\* of picks each member has had its share of every full round and at most its share of
\* the round under way.
Fair ==
  selector # NoSelector /\ selector.agg.strategy # "failover" =>
    LET members  == selector.agg.members
        share(m) == IF selector.agg.strategy = "weighted" /\ m.weight > 0 THEN m.weight ELSE 1
        round    == FoldLeft(LAMBDA n, m : n + share(m), 0, members)
        rounds   == FoldFunction(+, 0, picks) \div round
    IN  \A m \in Range(members) : /\ rounds * share(m) <= picks[m.relay]
                                   /\ picks[m.relay] <= (rounds + 1) * share(m)

\* Failover remembers what worked: when nobody else changed the selector since the
\* request chose, the selector points at the member that answered it.
AloneLands ==
  \A r \in Requests :
    /\ req[r].phase = "served" /\ seen[r] = "alone"
    /\ selector # NoSelector /\ selector.agg.strategy = "failover"
    => Cycle(selector.agg)[selector.index] = req[r].cand[req[r].at]

\* Requests of one conversation start with the same member as long as the selector that
\* chose for both of them lives, whatever other conversations rotate in between.
Sticky ==
  \A r, t \in Requests :
    /\ Chosen(r) /\ Chosen(t) /\ seen[r] # "other" /\ seen[t] # "other"
    /\ selector # NoSelector /\ selector.agg.strategy = "conversation"
    /\ req[r].conv = req[t].conv /\ req[r].conv # NoConversation
    => req[r].cand[1] = req[t].cand[1]

\* The selector of the process is the memory of the gateway: it keeps what worked and
\* who a conversation talks to.
SelectorRemembers == AloneLands /\ Sticky
=============================================================================
