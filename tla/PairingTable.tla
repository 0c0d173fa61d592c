---------------------------- MODULE PairingTable ----------------------------
(***************************************************************************)
(* What the relay knows about pairings that are under way                  *)
(* (PresenceRegistry.pairingRoute in relay-core.mjs): a table from pairing *)
(* ids to the two parties and a state, and the rules by which a message of *)
(* one party is refused, or is forwarded and changes the table.  A message *)
(* is [kind, pid, phone, desk, by] with by the role of its sender.         *)
(***************************************************************************)
CONSTANTS Pids, NoPairing

PhoneKinds == {"request", "proof", "cancelled"}
DeskKinds  == {"invite", "challenge", "completed", "rejected", "error", "cancelled"}
Opening    == {"request", "invite"}
Terminal   == {"completed", "rejected", "cancelled"}
States     == {"requested", "invited", "challenged", "proof"}

Messages(phones, desks) ==
  [kind : PhoneKinds, pid : Pids, phone : phones, desk : desks, by : {"phone"}] \union
  [kind : DeskKinds, pid : Pids, phone : phones, desk : desks, by : {"desk"}]

Pairings(phones, desks) == [phone : phones, desk : desks, state : States]

EmptyTable == [i \in Pids |-> NoPairing]

\* The states in which the relay takes a message of a kind.
Expected(kind, state) ==
  /\ kind = "challenge" => state = "requested"
  /\ kind = "proof"     => state \in {"invited", "challenged", "proof"}
  /\ kind = "completed" => state = "proof"

\* wrong: any message of the two parties is taken
AllowedAtAnyTime(table, m) ==
  LET p == table[m.pid] IN
  IF m.kind \in Opening
    THEN p = NoPairing
    ELSE p # NoPairing /\ p.phone = m.phone /\ p.desk = m.desk

Allowed(table, m) ==
  LET p == table[m.pid] IN
  IF m.kind \in Opening
    THEN p = NoPairing
    ELSE p # NoPairing /\ p.phone = m.phone /\ p.desk = m.desk /\ Expected(m.kind, p.state)

\* wrong: a completed pairing stays in the table
ForwardedAndKept(table, m) ==
  [table EXCEPT ![m.pid] =
     CASE m.kind \in Opening ->
            [phone |-> m.phone, desk |-> m.desk,
             state |-> IF m.kind = "request" THEN "requested" ELSE "invited"]
       [] m.kind \in {"rejected", "cancelled"} -> NoPairing
       [] m.kind = "challenge" -> [@ EXCEPT !.state = "challenged"]
       [] m.kind = "proof"     -> [@ EXCEPT !.state = "proof"]
       [] OTHER -> @]

\* The table after a message was forwarded.
Forwarded(table, m) ==
  [table EXCEPT ![m.pid] =
     CASE m.kind \in Opening ->
            [phone |-> m.phone, desk |-> m.desk,
             state |-> IF m.kind = "request" THEN "requested" ELSE "invited"]
       [] m.kind \in Terminal  -> NoPairing
       [] m.kind = "challenge" -> [@ EXCEPT !.state = "challenged"]
       [] m.kind = "proof"     -> [@ EXCEPT !.state = "proof"]
       [] OTHER -> @]

\* A connection of device x is removed: so are all its pairings.
Without(table, x) ==
  [i \in Pids |->
     IF table[i] # NoPairing /\ x \in {table[i].phone, table[i].desk} THEN NoPairing ELSE table[i]]
=============================================================================
