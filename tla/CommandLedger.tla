--------------------------- MODULE CommandLedger ---------------------------
(***************************************************************************)
(* What the desktop promises to the phones, command by command, without    *)
(* frames, guards, caches or connections.  A command is unknown, being     *)
(* worked on, or settled with an answer.  Only an unknown command is       *)
(* begun, Codex is given it at most once before it is settled, and what is *)
(* replied is the answer it was settled with.  The desktop may forget      *)
(* commands; it then starts over with them.                                *)
(***************************************************************************)
EXTENDS Naturals

CONSTANTS Commands,  \* the commands, each with the phone it came from
          Answers,   \* what a command may be settled with
          NoAnswer   \* none of them

VARIABLES
  state,    \* per command: "unknown", "working" or "settled"
  given,    \* per command: times Codex was given it since it was last unknown
  settled,  \* per command: its answer
  replies   \* per command: the answers replied since it was last unknown

ledger == <<state, given, settled, replies>>

Init ==
  /\ state   = [c \in Commands |-> "unknown"]
  /\ given   = [c \in Commands |-> 0]
  /\ settled = [c \in Commands |-> NoAnswer]
  /\ replies = [c \in Commands |-> {}]

\* One command at a time.
Begin(c) ==
  /\ state[c] = "unknown"
  /\ \A b \in Commands : state[b] # "working"
  /\ state' = [state EXCEPT ![c] = "working"]
  /\ UNCHANGED <<given, settled, replies>>

Give(c) ==
  /\ state[c] = "working" /\ given[c] = 0
  /\ given' = [given EXCEPT ![c] = 1]
  /\ UNCHANGED <<state, settled, replies>>

\* Settling a command may cost the desktop its record of others.
Settle(c, a, lost) ==
  /\ state[c] = "working"
  /\ \A b \in lost : state[b] = "settled"
  /\ state'   = [b \in Commands |-> IF b = c THEN "settled"
                                    ELSE IF b \in lost THEN "unknown" ELSE state[b]]
  /\ given'   = [b \in Commands |-> IF b \in lost THEN 0 ELSE given[b]]
  /\ settled' = [b \in Commands |-> IF b = c THEN a
                                    ELSE IF b \in lost THEN NoAnswer ELSE settled[b]]
  /\ replies' = [b \in Commands |-> IF b \in lost THEN {} ELSE replies[b]]

Reply(c) ==
  /\ state[c] = "settled"
  /\ replies' = [replies EXCEPT ![c] = @ \union {settled[c]}]
  /\ UNCHANGED <<state, given, settled>>

Forget(lost) ==
  /\ state'   = [b \in Commands |-> IF b \in lost THEN "unknown" ELSE state[b]]
  /\ given'   = [b \in Commands |-> IF b \in lost THEN 0 ELSE given[b]]
  /\ settled' = [b \in Commands |-> IF b \in lost THEN NoAnswer ELSE settled[b]]
  /\ replies' = [b \in Commands |-> IF b \in lost THEN {} ELSE replies[b]]

Next ==
  \/ \E c \in Commands : Begin(c) \/ Give(c) \/ Reply(c)
  \/ \E c \in Commands, a \in Answers, lost \in SUBSET Commands : Settle(c, a, lost)
  \/ \E lost \in SUBSET Commands : Forget(lost)

Spec == Init /\ [][Next]_ledger
=============================================================================
