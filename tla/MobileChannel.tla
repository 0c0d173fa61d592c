--------------------------- MODULE MobileChannel ---------------------------
(***************************************************************************)
(* The encrypted channel as the phone's page keeps it (web/app.js): frames *)
(* are numbered before they are encrypted and sent once the browser has    *)
(* encrypted them; frames of the desktop are checked when they arrive and  *)
(* noted once the browser has decrypted them.  Both run in the background, *)
(* several at a time, and may end in any order.  The page can be reloaded  *)
(* between any two steps; what it wrote to localStorage stays.             *)
(*                                                                         *)
(* A frame is its sequence number: nothing between honest ends duplicates  *)
(* one, so the identifiers the guards remember never decide.  The desktop  *)
(* drops a frame that comes after one with a higher number, and a frame    *)
(* can be overtaken: in the browser's hands, or by a newer connection.     *)
(***************************************************************************)
EXTENDS Naturals, Sequences, FiniteSets, Functions

CONSTANTS
  PerTick,    \* sequence numbers per unit of time (1000 per millisecond)
  MaxClock,   \* bound: the desktop's clock, and what the phone's may show
  MaxSent,    \* bound: frames the phone numbers
  MaxBusy     \* bound: frames in the hands of the browser's crypto, each way

ASSUME ChannelAssumption == PerTick \in Nat \ {0} /\ {MaxClock, MaxSent, MaxBusy} \subseteq Nat

VARIABLES
  linked,      \* the page's connection is open and authenticated
  sequence,    \* state.sequence: the next number
  stored,      \* localStorage: the number given last
  encrypting,  \* frames numbered and not sent yet
  up,          \* frames sent, on their way to the desktop
  late,        \* frames of earlier connections that may still arrive
  deskHigh,    \* the desktop's ReplayGuard for this phone: highest number
  refused,     \* frames the desktop dropped for their number
  overtaken,   \* history: frames behind which one numbered later was sent, or, if they
               \* were of an older connection, one of a newer connection arrived
  clock,       \* the desktop's clock
  deskNext,    \* outgoing_sequence of the desktop's run
  down,        \* frames on their way to the page
  decrypting,  \* frames that passed the check
  highest,     \* state.highestSequence
  storedHigh,  \* localStorage: its copy
  rejected,    \* frames the page refused
  numbered     \* how many frames the phone has numbered

upVars   == <<sequence, stored, encrypting, up, late, deskHigh, refused, overtaken, numbered>>
downVars == <<clock, deskNext, down, decrypting, highest, storedHigh, rejected>>
channelVars     == <<linked, upVars, downVars>>

-----------------------------------------------------------------------------
Later(a, b) == IF a > b THEN a ELSE b

FirstNumberByClock(now) == Later(now * PerTick, 1)   \* wrong: the clock alone

\* Date.now() of the phone may be anything; what is stored keeps the order.
FirstNumber(now) == Later(now * PerTick, stored + 1)

ChannelInit ==
  /\ linked = FALSE
  /\ stored = 0 /\ encrypting = {} /\ up = <<>> /\ late = <<>> /\ deskHigh = 0 /\ numbered = 0
  /\ refused = {} /\ overtaken = {}
  /\ \E now \in 0..MaxClock : sequence = FirstNumber(now)
  /\ clock = 1 /\ deskNext = PerTick
  /\ down = <<>> /\ decrypting = {} /\ highest = 0 /\ storedHigh = 0
  /\ rejected = {}

SocketOpens ==
  /\ ~linked /\ linked' = TRUE
  /\ UNCHANGED <<upVars, downVars>>

\* The connection is gone; the relay may still hand over what it has read.
Disconnected ==
  /\ late' = late \o up
  /\ up' = <<>>
  /\ down' = <<>>
  /\ linked' = FALSE

SocketCloses ==
  /\ linked
  /\ Disconnected
  /\ UNCHANGED <<sequence, stored, encrypting, deskHigh, refused, overtaken, numbered,
                 clock, deskNext, decrypting, highest, storedHigh, rejected>>

\* The page is loaded again: all it had in hand is gone.
PageLoads ==
  /\ Disconnected
  /\ \E now \in 0..MaxClock : sequence' = FirstNumber(now)
  /\ encrypting' = {} /\ decrypting' = {}
  /\ highest' = storedHigh
  /\ UNCHANGED <<stored, deskHigh, refused, overtaken, numbered,
                 clock, deskNext, storedHigh, rejected>>

-----------------------------------------------------------------------------
(* To the desktop *)

\* send() up to the await: the number is taken and stored.
Send ==
  /\ linked /\ numbered < MaxSent /\ Cardinality(encrypting) < MaxBusy
  /\ numbered' = numbered + 1
  /\ encrypting' = encrypting \union {sequence}
  /\ sequence' = sequence + 1
  /\ stored' = sequence
  /\ UNCHANGED <<linked, up, late, deskHigh, refused, overtaken, downVars>>

\* crypto.subtle.encrypt has ended: the frame goes to the socket there is now,
\* and nowhere when there is none.  Those numbered before it that are still being
\* encrypted will be sent behind it.
Encrypted(f) ==
  /\ f \in encrypting
  /\ encrypting' = encrypting \ {f}
  /\ \/ linked /\ up' = Append(up, f)
        /\ overtaken' = overtaken \union {g \in encrypting : g < f}
     \/ ~linked /\ UNCHANGED <<up, overtaken>>
  /\ UNCHANGED <<linked, sequence, stored, late, deskHigh, refused, numbered, downVars>>

\* ReplayGuard::accept on the desktop: a number that is not above all others is refused,
\* and the frame with it, without an answer.
Accept(f) ==
  \/ f > deskHigh /\ deskHigh' = f /\ UNCHANGED refused
  \/ f <= deskHigh /\ refused' = refused \union {f} /\ UNCHANGED deskHigh

DesktopReceives ==
  /\ up # <<>>
  /\ Accept(Head(up))
  /\ up' = Tail(up)
  /\ overtaken' = overtaken \union Range(late)
  /\ UNCHANGED <<linked, sequence, stored, encrypting, late, numbered, downVars>>

DesktopReceivesLate ==
  /\ late # <<>>
  /\ late' = Tail(late)
  /\ \/ Accept(Head(late))
     \/ UNCHANGED <<deskHigh, refused>>   \* lost
  /\ UNCHANGED <<linked, sequence, stored, encrypting, up, overtaken, numbered, downVars>>

-----------------------------------------------------------------------------
(* From the desktop *)

\* A run starts; one unit of time at least lies between two starts.
RunStartAtOne(t) == 1   \* wrong: every run counts from one

RunStart(t) == t * PerTick

\* The guards outlast the run, not the process.
RunBegins ==
  /\ clock < MaxClock
  /\ clock' = clock + 1
  /\ deskNext' = RunStart(clock')
  /\ deskHigh' \in {deskHigh, 0}
  /\ UNCHANGED <<linked, sequence, stored, encrypting, up, late, refused, overtaken, numbered,
                 down, decrypting, highest, storedHigh, rejected>>

\* A run sends no more frames than its clock has numbers for.  The relay drops
\* what it sends while the page is away.
DesktopSends ==
  /\ deskNext < (clock + 1) * PerTick
  /\ down' = IF linked THEN Append(down, deskNext) ELSE down
  /\ deskNext' = deskNext + 1
  /\ UNCHANGED <<linked, upVars, clock, decrypting, highest, storedHigh, rejected>>

\* decryptMessage up to the await.
PassesInRow(f) == f = highest + 1   \* wrong: gaps are refused

Passes(f) == f > highest

PageReceives ==
  /\ down # <<>> /\ Cardinality(decrypting) < MaxBusy
  /\ LET f == Head(down) IN
     IF Passes(f) THEN decrypting' = decrypting \union {f} /\ UNCHANGED rejected
                  ELSE rejected' = rejected \union {f} /\ UNCHANGED decrypting
  /\ down' = Tail(down)
  /\ UNCHANGED <<linked, upVars, clock, deskNext, highest, storedHigh>>

\* crypto.subtle.decrypt has ended: the frame is noted, whatever came in between.
Decrypted(f) ==
  /\ f \in decrypting
  /\ decrypting' = decrypting \ {f}
  /\ highest' = f /\ storedHigh' = f
  /\ UNCHANGED <<linked, upVars, clock, deskNext, down, rejected>>

-----------------------------------------------------------------------------
ChannelNext ==
  \/ SocketOpens \/ SocketCloses \/ PageLoads
  \/ Send \/ (\E f \in encrypting : Encrypted(f)) \/ DesktopReceives \/ DesktopReceivesLate
  \/ RunBegins \/ DesktopSends \/ PageReceives \/ (\E f \in decrypting : Decrypted(f))

ChannelSpec == ChannelInit /\ [][ChannelNext]_channelVars

-----------------------------------------------------------------------------
ChannelTypeOK ==
  /\ linked \in BOOLEAN
  /\ {sequence, stored, deskHigh, clock, deskNext, highest, storedHigh, numbered} \subseteq Nat
  /\ encrypting \subseteq Nat /\ decrypting \subseteq Nat /\ rejected \subseteq Nat
  /\ refused \subseteq Nat /\ overtaken \subseteq Nat
  /\ up \in Seq(Nat) /\ late \in Seq(Nat) /\ down \in Seq(Nat)

\* A number is given once, over all reloads and whatever the phone's clock shows,
\* and the next one is above all the desktop has seen: a phone is never locked
\* out by its own past (state.sequence, outgoingSequenceKey).
NeverLockedOut ==
  \A f \in encrypting \union Range(up) \union Range(late) \union {deskHigh} : f < sequence

\* The desktop drops a frame for its number only when the frame was overtaken: the page
\* had sent one numbered later while this one was being encrypted (send awaits
\* encryptMessage), or its connection was lost and the next one was heard before it.
\* Reloads, the phone's clock and lost frames are no reason.
RefusesOvertaken == refused \subseteq overtaken

\* The page refuses no frame of the desktop, however the decryptions end, over
\* reloads and over the desktop's runs: the check comes before the wait
\* (decryptMessage).
NoneRejected == rejected = {}

\* For its number a frame of the phone is refused only if it was overtaken, and a frame of
\* the desktop never is (ReplayGuard::accept, decryptMessage).
OnlyOvertakenRefused == NeverLockedOut /\ RefusesOvertaken /\ NoneRejected
=============================================================================
