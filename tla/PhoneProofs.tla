----------------------------- MODULE PhoneProofs -----------------------------
(***************************************************************************)
(* What the phone's page keeps, for every value of the constants: its      *)
(* channel (MobileChannel) gives no number twice, the desktop drops only   *)
(* frames that were overtaken, and the page drops none; its forms          *)
(* (PhoneInput) do not mix up what is submitted, Codex gets all files of   *)
(* an input or not the input, and the relay's store of uploads hands each  *)
(* out once and counts what it holds.                                      *)
(***************************************************************************)
EXTENDS MobileChannel, PhoneInput, SequenceTheorems, FiniteSetTheorems, WellFoundedInduction, TLAPS

(*                            The page's channel                           *)

(* Numbers the phone has given: all are up to the one that is stored. *)

UpType ==
  /\ sequence \in Nat /\ stored \in Nat /\ deskHigh \in Nat
  /\ encrypting \subseteq Nat /\ refused \subseteq Nat /\ overtaken \subseteq Nat
  /\ up \in Seq(Nat) /\ late \in Seq(Nat)

Given ==
  /\ stored < sequence
  /\ deskHigh <= stored
  /\ \A f \in encrypting : f <= stored
  /\ \A i \in DOMAIN up : up[i] <= stored
  /\ \A i \in DOMAIN late : late[i] <= stored

(* A frame that was not overtaken lies above all that left before it, those *)
(* of older connections and what the desktop has seen included.             *)

InOrder ==
  /\ \A f \in encrypting \ overtaken :
       /\ deskHigh < f
       /\ \A i \in DOMAIN up : up[i] < f
       /\ \A i \in DOMAIN late : late[i] < f
  /\ \A i \in DOMAIN up : up[i] \notin overtaken =>
       /\ deskHigh < up[i]
       /\ \A j \in DOMAIN late : late[j] < up[i]
       /\ \A j \in DOMAIN up : j < i => up[j] < up[i]
  /\ \A i \in DOMAIN late : late[i] \notin overtaken =>
       /\ deskHigh < late[i]
       /\ \A j \in DOMAIN late : j < i => late[j] < late[i]

Numbered == UpType /\ Given

UpInv == Numbered /\ InOrder /\ RefusesOvertaken

(* Frames of the desktop: those under way increase, lie above all that were *)
(* noted or are being decrypted, and below the desktop's next number.       *)

DownType ==
  /\ clock \in Nat /\ deskNext \in Nat
  /\ down \in Seq(Nat)
  /\ decrypting \subseteq Nat
  /\ highest \in Nat /\ storedHigh \in Nat

Ascending ==
  /\ \A i, j \in DOMAIN down : i < j => down[i] < down[j]
  /\ \A i \in DOMAIN down : highest < down[i] /\ storedHigh < down[i] /\ down[i] < deskNext
  /\ \A f \in decrypting : f < deskNext /\ \A i \in DOMAIN down : f < down[i]
  /\ highest < deskNext /\ storedHigh < deskNext
  /\ deskNext <= (clock + 1) * PerTick

DownInv == DownType /\ Ascending /\ NoneRejected

-----------------------------------------------------------------------------
\* A clock that has ticked has more numbers.
LEMMA MoreNumbers ==
  ASSUME NEW t \in Nat
  PROVE  /\ t * PerTick \in Nat
         /\ (t + 1) * PerTick \in Nat
         /\ (t + 1) * PerTick <= ((t + 1) + 1) * PerTick
         /\ 0 < (t + 1) * PerTick
<1>1. PerTick \in Nat /\ PerTick > 0
  BY ChannelAssumption
<1>2. (t + 1) * PerTick = t * PerTick + PerTick
  BY <1>1
<1>3. ((t + 1) + 1) * PerTick = (t + 1) * PerTick + PerTick
  BY <1>1
<1>4. t * PerTick \in Nat
  BY <1>1
<1> QED
  BY <1>1, <1>2, <1>3, <1>4

\* A reload goes on above the number that is stored, whatever the clock shows.
LEMMA FirstIsNew ==
  ASSUME stored \in Nat, NEW now \in 0..MaxClock
  PROVE  FirstNumber(now) \in Nat /\ stored < FirstNumber(now)
<1>1. MaxClock \in Nat /\ now \in Nat
  BY ChannelAssumption
<1>2. now * PerTick \in Nat
  BY <1>1, MoreNumbers
<1> QED
  BY <1>2 DEF FirstNumber, Later

\* The first state satisfies both halves.
LEMMA ChannelStarts == ChannelInit => UpInv /\ DownInv
<1> SUFFICES ASSUME ChannelInit PROVE UpInv /\ DownInv
  OBVIOUS
<1>1. stored = 0 /\ stored \in Nat
  BY DEF ChannelInit
<1>2. PICK now \in 0..MaxClock : sequence = FirstNumber(now)
  BY DEF ChannelInit
<1>3. sequence \in Nat /\ stored < sequence
  BY <1>1, <1>2, FirstIsNew
<1>4. UpInv
  BY <1>1, <1>3 DEF ChannelInit, UpInv, Numbered, UpType, Given, InOrder, RefusesOvertaken
<1>5. PerTick \in Nat /\ PerTick > 0 /\ PerTick <= (1 + 1) * PerTick
  BY ChannelAssumption
<1>6. DownInv
  BY <1>5 DEF ChannelInit, DownInv, DownType, Ascending, NoneRejected
<1> QED
  BY <1>4, <1>6

-----------------------------------------------------------------------------
\* Every step keeps what is said of the phone's numbers.
LEMMA NumbersStep == Numbered /\ [ChannelNext]_channelVars => Numbered'
<1> SUFFICES ASSUME Numbered, [ChannelNext]_channelVars PROVE Numbered'
  OBVIOUS
<1> USE DEF Numbered, UpType, Given
<1>a. ASSUME late' = late \o up, up' = <<>>
      PROVE  /\ up' \in Seq(Nat) /\ late' \in Seq(Nat)
             /\ \A i \in DOMAIN up' : up'[i] <= stored
             /\ \A i \in DOMAIN late' : late'[i] <= stored
  <2>1. late' \in Seq(Nat)
    BY <1>a
  <2>2. ASSUME NEW i \in DOMAIN late' PROVE late'[i] <= stored
    <3>1. i \in 1..(Len(late) + Len(up))
      BY <1>a, <2>2
    <3>2. CASE i <= Len(late)
      BY <3>1, <3>2, <1>a
    <3>3. CASE i > Len(late)
      <4>1. late'[i] = up[i - Len(late)] /\ i - Len(late) \in DOMAIN up
        BY <3>1, <3>3, <1>a
      <4> QED
        BY <4>1
    <3> QED
      BY <3>1, <3>2, <3>3
  <2> QED
    BY <1>a, <2>1, <2>2
<1>1. CASE SocketOpens
  BY <1>1 DEF SocketOpens, upVars
<1>2. CASE SocketCloses
  BY <1>2, <1>a DEF SocketCloses, Disconnected
<1>3. CASE PageLoads
  <2>1. PICK now \in 0..MaxClock : sequence' = FirstNumber(now)
    BY <1>3 DEF PageLoads
  <2>2. sequence' \in Nat /\ stored < sequence'
    BY <2>1, FirstIsNew
  <2> QED
    BY <1>3, <1>a, <2>2 DEF PageLoads, Disconnected
<1>4. CASE Send
  BY <1>4 DEF Send
<1>5. ASSUME NEW f \in encrypting, Encrypted(f) PROVE Numbered'
  <2>0. \A g \in encrypting : g \in Nat
    OBVIOUS
  <2>1. f \in Nat /\ f <= stored
    OBVIOUS
  <2>2. Append(up, f) \in Seq(Nat)
    BY <2>1
  <2>3. \A i \in DOMAIN Append(up, f) : Append(up, f)[i] <= stored
    BY <2>1
  <2>4. overtaken' \subseteq Nat
    BY <1>5, <2>0 DEF Encrypted
  <2> QED
    BY <1>5, <2>1, <2>2, <2>3, <2>4 DEF Encrypted
<1>6. CASE DesktopReceives
  <2>1. Head(up) \in Nat /\ Head(up) <= stored
    BY <1>6 DEF DesktopReceives
  <2>2. Tail(up) \in Seq(Nat) /\ \A i \in DOMAIN Tail(up) : Tail(up)[i] <= stored
    BY <1>6 DEF DesktopReceives
  <2>3. overtaken' \subseteq Nat
    <3>1. Range(late) \subseteq Nat
      BY DEF Range
    <3> QED
      BY <1>6, <3>1 DEF DesktopReceives
  <2> QED
    BY <1>6, <2>1, <2>2, <2>3 DEF DesktopReceives, Accept
<1>7. CASE DesktopReceivesLate
  <2>1. Head(late) \in Nat /\ Head(late) <= stored
    BY <1>7 DEF DesktopReceivesLate
  <2>2. Tail(late) \in Seq(Nat) /\ \A i \in DOMAIN Tail(late) : Tail(late)[i] <= stored
    BY <1>7 DEF DesktopReceivesLate
  <2> QED
    BY <1>7, <2>1, <2>2 DEF DesktopReceivesLate, Accept
<1>8. CASE RunBegins
  <2>1. deskHigh' \in Nat /\ deskHigh' <= deskHigh
    BY <1>8 DEF RunBegins
  <2>2. UNCHANGED <<sequence, stored, encrypting, up, late, refused, overtaken>>
    BY <1>8 DEF RunBegins
  <2> QED
    BY <2>1, <2>2
<1>9. CASE DesktopSends \/ PageReceives
  BY <1>9 DEF DesktopSends, PageReceives, upVars
<1>10. ASSUME NEW f \in decrypting, Decrypted(f) PROVE Numbered'
  BY <1>10 DEF Decrypted, upVars
<1>11. CASE UNCHANGED channelVars
  BY <1>11 DEF channelVars, upVars
<1> QED
  BY <1>1, <1>2, <1>3, <1>4, <1>5, <1>6, <1>7, <1>8, <1>9, <1>10, <1>11 DEF ChannelNext

\* Every step keeps the order of the frames that were not overtaken, and refuses no other.
LEMMA OrderStep ==
  UpInv /\ [ChannelNext]_channelVars => InOrder' /\ RefusesOvertaken'
<1> SUFFICES ASSUME UpInv, [ChannelNext]_channelVars PROVE InOrder' /\ RefusesOvertaken'
  OBVIOUS
<1> USE DEF UpInv, Numbered, UpType, Given, InOrder, RefusesOvertaken
<1>1. CASE SocketOpens
  BY <1>1 DEF SocketOpens, upVars
<1>a. ASSUME late' = late \o up, up' = <<>>, UNCHANGED <<deskHigh, overtaken>>,
             encrypting' \subseteq encrypting
      PROVE  InOrder'
  <2>1. late' \in Seq(Nat) /\ Len(late') = Len(late) + Len(up)
    BY <1>a
  <2>2. \A i \in DOMAIN late' :
           \/ i \in DOMAIN late /\ late'[i] = late[i]
           \/ i > Len(late) /\ i - Len(late) \in DOMAIN up /\ late'[i] = up[i - Len(late)]
    BY <1>a
  <2>3. ASSUME NEW i \in DOMAIN late', late'[i] \notin overtaken
        PROVE  deskHigh < late'[i] /\ \A j \in DOMAIN late' : j < i => late'[j] < late'[i]
    <3>1. i \in Nat /\ (\A j \in DOMAIN late' : j \in Nat) /\ DOMAIN late = 1..Len(late) /\ Len(late) \in Nat
      BY <2>1
    <3>2. CASE i \in DOMAIN late
      <4>1. late'[i] = late[i] /\ i <= Len(late)
        BY <2>2, <3>1, <3>2
      <4>2. deskHigh < late[i] /\ \A j \in DOMAIN late : j < i => late[j] < late[i]
        BY <2>3, <3>2, <4>1
      <4>3. ASSUME NEW j \in DOMAIN late', j < i PROVE late'[j] < late'[i]
        <5>1. j \in DOMAIN late /\ late'[j] = late[j]
          BY <2>2, <3>1, <4>1, <4>3
        <5> QED
          BY <4>1, <4>2, <4>3, <5>1
      <4> QED
        BY <4>1, <4>2, <4>3
    <3>3. CASE i > Len(late)
      <4>1. PICK k \in DOMAIN up : k = i - Len(late) /\ late'[i] = up[k]
        BY <2>2, <3>3
      <4>2. deskHigh < up[k] /\ (\A j \in DOMAIN late : late[j] < up[k])
                             /\ \A j \in DOMAIN up : j < k => up[j] < up[k]
        BY <2>3, <4>1
      <4>3. ASSUME NEW j \in DOMAIN late', j < i PROVE late'[j] < up[k]
        <5>1. CASE j \in DOMAIN late /\ late'[j] = late[j]
          BY <4>2, <5>1
        <5>2. CASE j - Len(late) \in DOMAIN up /\ late'[j] = up[j - Len(late)]
          <6>1. PICK l \in DOMAIN up : l = j - Len(late) /\ late'[j] = up[l]
            BY <5>2
          <6>2. l < k
            BY <3>1, <4>1, <4>3, <6>1
          <6> QED
            BY <4>2, <6>1, <6>2
        <5> QED
          BY <2>2, <5>1, <5>2
      <4> QED
        BY <4>1, <4>2, <4>3
    <3> QED
      BY <2>2, <3>2, <3>3
  <2>4. \A f \in encrypting' \ overtaken' :
           deskHigh' < f /\ \A i \in DOMAIN late' : late'[i] < f
    BY <1>a, <2>2
  <2> QED
    BY <1>a, <2>3, <2>4
<1>2. CASE SocketCloses
  BY <1>2, <1>a DEF SocketCloses, Disconnected
<1>3. CASE PageLoads
  BY <1>3, <1>a DEF PageLoads, Disconnected
<1>4. CASE Send
  <2>1. stored < sequence
    OBVIOUS
  <2> QED
    BY <1>4, <2>1 DEF Send
<1>5. ASSUME NEW f \in encrypting, Encrypted(f) PROVE InOrder' /\ RefusesOvertaken'
  <2>1. CASE ~linked
    BY <1>5, <2>1 DEF Encrypted
  <2>2. CASE linked
    <3> DEFINE more == Append(up, f)
               behind == {g \in encrypting : g < f}
    <3>1. /\ up' = more /\ overtaken' = overtaken \union behind
          /\ encrypting' = encrypting \ {f}
          /\ UNCHANGED <<deskHigh, late, refused>>
      BY <1>5, <2>2 DEF Encrypted
    <3>2. \A i \in DOMAIN more :
            \/ i \in DOMAIN up /\ more[i] = up[i]
            \/ i = Len(up) + 1 /\ more[i] = f
      OBVIOUS
    <3>3. f \in Nat /\ DOMAIN more \subseteq Nat /\ more \in Seq(Nat)
      OBVIOUS
    <3>4. ASSUME NEW e \in encrypting, e # f, e \notin overtaken, e \notin behind
          PROVE  deskHigh < e /\ (\A i \in DOMAIN more : more[i] < e) /\ \A i \in DOMAIN late : late[i] < e
      <4>1. f < e
        BY <3>3, <3>4
      <4> QED
        BY <3>2, <3>4, <4>1
    <3>5. ASSUME NEW i \in DOMAIN more, more[i] \notin overtaken
          PROVE  /\ deskHigh < more[i]
                 /\ \A j \in DOMAIN late : late[j] < more[i]
                 /\ \A j \in DOMAIN more : j < i => more[j] < more[i]
      <4>1. CASE i \in DOMAIN up /\ more[i] = up[i]
        BY <3>2, <3>3, <3>5, <4>1
      <4>2. CASE i = Len(up) + 1 /\ more[i] = f
        <5>1. \A j \in DOMAIN more : j < i => j \in DOMAIN up /\ more[j] = up[j]
          BY <3>2, <3>3, <4>2
        <5> QED
          BY <3>5, <4>2, <5>1
      <4> QED
        BY <3>2, <4>1, <4>2
    <3> HIDE DEF more, behind
    <3>6. \A e \in encrypting' \ overtaken' :
            deskHigh' < e /\ (\A i \in DOMAIN up' : up'[i] < e) /\ \A i \in DOMAIN late' : late'[i] < e
      BY <3>1, <3>4
    <3> QED
      BY <3>1, <3>5, <3>6
  <2> QED
    BY <2>1, <2>2
<1>6. CASE DesktopReceives
  <2> DEFINE f == Head(up)
  <2>1. /\ up # <<>> /\ up' = Tail(up) /\ overtaken' = overtaken \union Range(late)
        /\ UNCHANGED <<encrypting, late>>
    BY <1>6 DEF DesktopReceives
  <2>2. 1 \in DOMAIN up /\ f = up[1] /\ f \in Nat
    BY <2>1
  <2>3. up' \in Seq(Nat) /\ \A i \in DOMAIN up' : i + 1 \in DOMAIN up /\ 1 < i + 1 /\ up'[i] = up[i + 1]
    BY <2>1
  <2>4. \/ f > deskHigh /\ deskHigh' = f /\ refused' = refused
        \/ f <= deskHigh /\ refused' = refused \union {f} /\ deskHigh' = deskHigh
    BY <1>6 DEF DesktopReceives, Accept
  <2>5. f \notin overtaken => deskHigh < f
    BY <2>2
  <2> HIDE DEF f
  <2>6. RefusesOvertaken'
    <3>1. f <= deskHigh => f \in overtaken
      BY <2>2, <2>5
    <3>2. refused \subseteq overtaken /\ (refused' = refused \/ (refused' = refused \union {f} /\ f \in overtaken))
      BY <2>4, <3>1
    <3>3. overtaken \subseteq overtaken'
      BY <2>1
    <3> QED
      BY <3>2, <3>3
  <2>7. \A i \in DOMAIN late' : late'[i] \in overtaken'
    BY <2>1 DEF Range
  <2>8. ASSUME NEW i \in DOMAIN up', up'[i] \notin overtaken'
        PROVE  /\ deskHigh' < up'[i]
               /\ \A j \in DOMAIN late' : late'[j] < up'[i]
               /\ \A j \in DOMAIN up' : j < i => up'[j] < up'[i]
    <3>1. i \in Nat /\ i + 1 \in DOMAIN up /\ up'[i] = up[i + 1] /\ up[i + 1] \notin overtaken
      BY <2>1, <2>3, <2>8
    <3>2. /\ deskHigh < up[i + 1] /\ (\A j \in DOMAIN late : late[j] < up[i + 1])
          /\ \A j \in DOMAIN up : j < i + 1 => up[j] < up[i + 1]
      BY <3>1
    <3>3. f < up[i + 1]
      BY <2>2, <2>3, <3>2
    <3>4. deskHigh' < up'[i]
      BY <2>4, <3>1, <3>2, <3>3
    <3>5. ASSUME NEW j \in DOMAIN up', j < i PROVE up'[j] < up'[i]
      <4>1. j \in Nat /\ j + 1 \in DOMAIN up /\ up'[j] = up[j + 1] /\ j + 1 < i + 1
        BY <2>3, <3>1, <3>5
      <4> QED
        BY <3>1, <3>2, <4>1
    <3> QED
      BY <2>1, <3>1, <3>2, <3>4, <3>5
  <2>9. ASSUME NEW e \in encrypting', e \notin overtaken'
        PROVE  deskHigh' < e /\ (\A i \in DOMAIN up' : up'[i] < e) /\ \A i \in DOMAIN late' : late'[i] < e
    <3>1. e \in encrypting \ overtaken
      BY <2>1, <2>9
    <3>2. deskHigh < e /\ (\A i \in DOMAIN up : up[i] < e) /\ \A i \in DOMAIN late : late[i] < e
      BY <3>1
    <3> QED
      BY <2>1, <2>2, <2>3, <2>4, <3>2
  <2> QED
    BY <2>6, <2>7, <2>8, <2>9
<1>7. CASE DesktopReceivesLate
  <2> DEFINE f == Head(late)
  <2>1. late # <<>> /\ late' = Tail(late) /\ UNCHANGED <<encrypting, up, overtaken>>
    BY <1>7 DEF DesktopReceivesLate
  <2>2. 1 \in DOMAIN late /\ f = late[1] /\ f \in Nat
    BY <2>1
  <2>3. late' \in Seq(Nat)
        /\ \A i \in DOMAIN late' : i + 1 \in DOMAIN late /\ 1 < i + 1 /\ late'[i] = late[i + 1]
    BY <2>1
  <2>4. \/ f > deskHigh /\ deskHigh' = f /\ refused' = refused
        \/ f <= deskHigh /\ refused' = refused \union {f} /\ deskHigh' = deskHigh
        \/ deskHigh' = deskHigh /\ refused' = refused
    BY <1>7 DEF DesktopReceivesLate, Accept
  <2>5. f \notin overtaken => deskHigh < f
    BY <2>2
  <2> HIDE DEF f
  <2>6. RefusesOvertaken'
    <3>1. f <= deskHigh => f \in overtaken
      BY <2>2, <2>5
    <3>2. refused \subseteq overtaken /\ (refused' = refused \/ (refused' = refused \union {f} /\ f \in overtaken))
      BY <2>4, <3>1
    <3>3. overtaken \subseteq overtaken'
      BY <2>1
    <3> QED
      BY <3>2, <3>3
  <2>7. ASSUME NEW i \in DOMAIN late', late'[i] \notin overtaken
        PROVE  deskHigh' < late'[i] /\ \A j \in DOMAIN late' : j < i => late'[j] < late'[i]
    <3>1. i \in Nat /\ i + 1 \in DOMAIN late /\ late'[i] = late[i + 1]
      BY <2>3
    <3>2. deskHigh < late[i + 1] /\ \A j \in DOMAIN late : j < i + 1 => late[j] < late[i + 1]
      BY <2>7, <3>1
    <3>3. f < late[i + 1]
      BY <2>2, <2>3, <3>2
    <3>4. deskHigh' < late'[i]
      BY <2>4, <3>1, <3>2, <3>3
    <3>5. ASSUME NEW j \in DOMAIN late', j < i PROVE late'[j] < late'[i]
      <4>1. j \in Nat /\ j + 1 \in DOMAIN late /\ late'[j] = late[j + 1] /\ j + 1 < i + 1
        BY <2>3, <3>1, <3>5
      <4> QED
        BY <3>1, <3>2, <4>1
    <3> QED
      BY <3>4, <3>5
  <2>8. ASSUME NEW i \in DOMAIN up, up[i] \notin overtaken
        PROVE  deskHigh' < up[i] /\ \A j \in DOMAIN late' : late'[j] < up[i]
    <3>1. deskHigh < up[i] /\ \A j \in DOMAIN late : late[j] < up[i]
      BY <2>8
    <3> QED
      BY <2>2, <2>3, <2>4, <3>1
  <2>9. ASSUME NEW e \in encrypting, e \notin overtaken
        PROVE  deskHigh' < e /\ \A i \in DOMAIN late' : late'[i] < e
    <3>1. deskHigh < e /\ \A i \in DOMAIN late : late[i] < e
      BY <2>9
    <3> QED
      BY <2>2, <2>3, <2>4, <3>1
  <2> QED
    BY <2>1, <2>6, <2>7, <2>8, <2>9
<1>8. CASE RunBegins
  <2>1. deskHigh' \in Nat /\ deskHigh' <= deskHigh
    BY <1>8 DEF RunBegins
  <2> QED
    BY <1>8, <2>1 DEF RunBegins
<1>9. CASE DesktopSends \/ PageReceives
  BY <1>9 DEF DesktopSends, PageReceives, upVars
<1>10. ASSUME NEW f \in decrypting, Decrypted(f) PROVE InOrder' /\ RefusesOvertaken'
  BY <1>10 DEF Decrypted, upVars
<1>11. CASE UNCHANGED channelVars
  BY <1>11 DEF channelVars, upVars
<1> QED
  BY <1>1, <1>2, <1>3, <1>4, <1>5, <1>6, <1>7, <1>8, <1>9, <1>10, <1>11 DEF ChannelNext

\* Both together.
LEMMA UpStep == UpInv /\ [ChannelNext]_channelVars => UpInv'
  BY NumbersStep, OrderStep DEF UpInv

\* Every step keeps what is said of the desktop's frames.
LEMMA DownStep == DownInv /\ [ChannelNext]_channelVars => DownInv'
<1> SUFFICES ASSUME DownInv, [ChannelNext]_channelVars PROVE DownInv'
  OBVIOUS
<1> USE DEF DownInv, DownType, Ascending, NoneRejected
<1>1. CASE SocketOpens \/ Send \/ DesktopReceives \/ DesktopReceivesLate
  BY <1>1 DEF SocketOpens, Send, DesktopReceives, DesktopReceivesLate, downVars
<1>2. CASE SocketCloses
  BY <1>2 DEF SocketCloses, Disconnected
<1>3. CASE PageLoads
  BY <1>3 DEF PageLoads, Disconnected
<1>4. ASSUME NEW f \in encrypting, Encrypted(f) PROVE DownInv'
  BY <1>4 DEF Encrypted, downVars
<1>5. CASE RunBegins
  <2>1. clock' = clock + 1 /\ deskNext' = (clock + 1) * PerTick
    BY <1>5 DEF RunBegins, RunStart
  <2>2. deskNext' \in Nat /\ deskNext <= deskNext' /\ deskNext' <= (clock' + 1) * PerTick
    BY <2>1, MoreNumbers
  <2> QED
    BY <1>5, <2>1, <2>2 DEF RunBegins
<1>6. CASE DesktopSends
  <2>0. PICK bound \in Nat : bound = (clock + 1) * PerTick
    BY MoreNumbers
  <2>1. deskNext + 1 <= (clock + 1) * PerTick
    <3>1. deskNext < bound
      BY <1>6, <2>0 DEF DesktopSends
    <3> QED
      BY <2>0, <3>1
  <2>2. CASE ~linked
    BY <1>6, <2>1, <2>2 DEF DesktopSends
  <2>3. CASE linked
    <3> DEFINE more == Append(down, deskNext)
    <3>1. down' = more /\ deskNext' = deskNext + 1
      BY <1>6, <2>3 DEF DesktopSends
    <3>2. more \in Seq(Nat)
      OBVIOUS
    <3>3. \A i \in DOMAIN more :
            \/ i \in DOMAIN down /\ more[i] = down[i]
            \/ i = Len(down) + 1 /\ more[i] = deskNext
      OBVIOUS
    <3>4. \A i, j \in DOMAIN more : i < j => more[i] < more[j]
      BY <3>3
    <3>5. \A i \in DOMAIN more : highest < more[i] /\ storedHigh < more[i] /\ more[i] < deskNext + 1
      BY <3>3
    <3>6. \A f \in decrypting : f < deskNext + 1 /\ \A i \in DOMAIN more : f < more[i]
      BY <3>3
    <3>7. /\ clock' = clock /\ highest' = highest /\ storedHigh' = storedHigh
          /\ decrypting' = decrypting /\ rejected' = rejected
      BY <1>6 DEF DesktopSends
    <3>8. DownType'
      BY <3>1, <3>2, <3>7
    <3> HIDE DEF more
    <3>9. Ascending'
      BY <2>1, <3>1, <3>2, <3>4, <3>5, <3>6, <3>7
    <3> QED
      BY <3>7, <3>8, <3>9
  <2> QED
    BY <2>2, <2>3
<1>7. CASE PageReceives
  <2>1. down # <<>> /\ down' = Tail(down)
    BY <1>7 DEF PageReceives
  <2>2. 1 \in DOMAIN down /\ Head(down) = down[1] /\ Head(down) \in Nat
    BY <2>1
  <2>3. Passes(Head(down)) /\ Head(down) < deskNext
    BY <2>2 DEF Passes
  <2>4. decrypting' = decrypting \union {Head(down)} /\ rejected' = rejected
    BY <1>7, <2>3 DEF PageReceives
  <2>5. Tail(down) \in Seq(Nat)
    BY <2>1
  <2>6. \A i \in DOMAIN Tail(down) : i + 1 \in DOMAIN down /\ Tail(down)[i] = down[i + 1]
    BY <2>1
  <2>7. \A i \in DOMAIN Tail(down) : Head(down) < Tail(down)[i]
    BY <2>2, <2>6
  <2>8. \A i, j \in DOMAIN Tail(down) : i < j => Tail(down)[i] < Tail(down)[j]
    BY <2>6
  <2> QED
    BY <1>7, <2>1, <2>2, <2>3, <2>4, <2>5, <2>6, <2>7, <2>8 DEF PageReceives
<1>8. ASSUME NEW f \in decrypting, Decrypted(f) PROVE DownInv'
  BY <1>8 DEF Decrypted
<1>9. CASE UNCHANGED channelVars
  BY <1>9 DEF channelVars, downVars
<1> QED
  BY <1>1, <1>2, <1>3, <1>4, <1>5, <1>6, <1>7, <1>8, <1>9 DEF ChannelNext

-----------------------------------------------------------------------------
\* What both halves leave out.
LEMMA ChannelRestStep ==
  ASSUME linked \in BOOLEAN, numbered \in Nat, [ChannelNext]_channelVars
  PROVE  linked' \in BOOLEAN /\ numbered' \in Nat
<1>1. CASE SocketOpens \/ SocketCloses \/ PageLoads
  BY <1>1 DEF SocketOpens, SocketCloses, PageLoads, Disconnected, upVars
<1>2. CASE Send \/ DesktopReceives \/ DesktopReceivesLate
  BY <1>2 DEF Send, DesktopReceives, DesktopReceivesLate
<1>3. CASE DesktopSends \/ PageReceives
  BY <1>3 DEF DesktopSends, PageReceives, upVars
<1>6. CASE RunBegins
  BY <1>6 DEF RunBegins
<1>4. CASE \/ \E f \in encrypting : Encrypted(f)
           \/ \E f \in decrypting : Decrypted(f)
  BY <1>4 DEF Encrypted, Decrypted, upVars
<1>5. CASE UNCHANGED channelVars
  BY <1>5 DEF channelVars, upVars
<1> QED
  BY <1>1, <1>2, <1>3, <1>4, <1>5, <1>6 DEF ChannelNext

\* Numbers are numbers, whatever the clocks show.
THEOREM ChannelTypeCorrect == ChannelSpec => []ChannelTypeOK
<1> DEFINE Inv == UpInv /\ DownInv /\ linked \in BOOLEAN /\ numbered \in Nat
<1>1. ChannelInit => Inv
  <2>1. ChannelInit => linked = FALSE /\ numbered = 0
    BY DEF ChannelInit
  <2>2. 0 \in Nat /\ FALSE \in BOOLEAN
    OBVIOUS
  <2> QED
    BY <2>1, <2>2, ChannelStarts
<1>2. Inv /\ [ChannelNext]_channelVars => Inv'
  BY UpStep, DownStep, ChannelRestStep
<1>3. Inv => ChannelTypeOK
  BY DEF UpInv, Numbered, UpType, DownInv, DownType, NoneRejected, ChannelTypeOK
<1> HIDE DEF Inv
<1> QED
  BY <1>1, <1>2, <1>3, PTL DEF ChannelSpec

\* Over all reloads, clocks and connections the phone gives no number twice, and
\* its next one is above all the desktop has seen.
THEOREM NeverLockedOutAlways == ChannelSpec => []NeverLockedOut
<1>1. ChannelInit => UpInv
  BY ChannelStarts
<1>2. UpInv /\ [ChannelNext]_channelVars => UpInv'
  BY UpStep
<1>3. UpInv => NeverLockedOut
  <2> SUFFICES ASSUME UpInv, NEW f \in encrypting \union Range(up) \union Range(late) \union {deskHigh}
               PROVE  f < sequence
    BY DEF NeverLockedOut
  <2> USE DEF UpInv, Numbered, UpType, Given
  <2>1. \/ f \in encrypting \/ f = deskHigh
        \/ \E i \in DOMAIN up : f = up[i]
        \/ \E i \in DOMAIN late : f = late[i]
    BY DEF Range
  <2>2. f \in Nat /\ f <= stored
    BY <2>1
  <2> QED
    BY <2>2
<1> QED
  BY <1>1, <1>2, <1>3, PTL DEF ChannelSpec

\* The page refuses no frame of the desktop, in whatever order decryptions end.
THEOREM NoneRejectedAlways == ChannelSpec => []NoneRejected
<1>1. ChannelInit => DownInv
  BY ChannelStarts
<1>2. DownInv /\ [ChannelNext]_channelVars => DownInv'
  BY DownStep
<1>3. DownInv => NoneRejected
  BY DEF DownInv
<1> QED
  BY <1>1, <1>2, <1>3, PTL DEF ChannelSpec

\* The desktop drops a frame only if one that was numbered later left the page before it, or
\* came over a newer connection before it.
THEOREM RefusesOvertakenAlways == ChannelSpec => []RefusesOvertaken
<1>1. ChannelInit => UpInv
  BY ChannelStarts
<1>2. UpInv /\ [ChannelNext]_channelVars => UpInv'
  BY UpStep
<1>3. UpInv => RefusesOvertaken
  BY DEF UpInv
<1> QED
  BY <1>1, <1>2, <1>3, PTL DEF ChannelSpec

\* Whatever the clocks show and however often the page is loaded again, the desktop refuses
\* a frame for its number only if it was overtaken, and the page refuses none.
THEOREM OnlyOvertakenRefusedAlways == ChannelSpec => []OnlyOvertakenRefused
  BY NeverLockedOutAlways, RefusesOvertakenAlways, NoneRejectedAlways, PTL
  DEF OnlyOvertakenRefused

-----------------------------------------------------------------------------
(*                             The page's forms                            *)

\* The files of an input in the desktop's hands, and the input as it was sent with them.
FilesOf(j) == j.left \union {u.f : u \in j.got}
AsInput(x, files) == [n |-> x.n, to |-> x.to, files |-> files]
Numbers == 1..Len(aim)

Frames ==
  [kind : {"input"}, n : Nat, to : Sessions, files : SUBSET Files] \union
  [kind : {"create"}, n : Nat, at : Workspaces \union {Nothing}]

\* Submissions are numbered as they come; what the page holds belongs to one of them.
PageTypes ==
  /\ DOMAIN home \subseteq Sessions /\ view \in DOMAIN home \union {Nothing}
  /\ choice \in Workspaces \union {Nothing}
  /\ picked \in [Forms -> SUBSET Files]
  /\ aim \in Seq([form : Forms, at : Sessions \union Workspaces, files : SUBSET Files])
  /\ upload # Nothing =>
       /\ upload \in [n : Numbers, form : Forms, left : SUBSET Files, done : SUBSET Files, shared : BOOLEAN]
       /\ upload.n = Len(aim)
  /\ queued # Nothing => queued \in [n : Numbers, files : SUBSET Files]
  /\ heard \subseteq Numbers /\ crossed \subseteq Numbers

\* So does what is on its way, created or sent.
QueueTypes ==
  /\ frames \in Seq(Frames) /\ answers \subseteq [n : Nat, s : Sessions]
  /\ sent \subseteq [n : Nat, to : Sessions, files : SUBSET Files]
  /\ \A j \in 1..Len(frames) : frames[j].n \in Numbers
  /\ \A a \in answers : a.n \in Numbers
  /\ DOMAIN made \subseteq Numbers
  /\ \A x \in sent : x.n \in Numbers

\* Sessions that are talked about exist.
Homes ==
  /\ \A j \in 1..Len(frames) : frames[j].kind = "input" => frames[j].to \in DOMAIN home
  /\ \A a \in answers : a.s \in DOMAIN home
  /\ \A n \in DOMAIN made : made[n] \in DOMAIN home
  /\ \A x \in sent : x.to \in DOMAIN home

\* The desktop works on an input the page has sent, with all of its files.
JobWhole == job # Nothing =>
  /\ job = [n |-> job.n, to |-> job.to, left |-> job.left, got |-> job.got]
  /\ AsInput(job, FilesOf(job)) \in sent /\ job.to \in DOMAIN home
  /\ FilesOf(job) # {} => home[job.to] \in Allows

\* So did Codex get it.
GivenWhole == given # Nothing =>
  /\ given \in sent /\ given.to \in DOMAIN home
  /\ given.files # {} => home[given.to] \in Allows

Whole ==
  /\ \A j \in 1..Len(frames) : frames[j].kind = "input" => AsInput(frames[j], frames[j].files) \in sent
  /\ JobWhole /\ GivenWhole

\* A submission whose session is to be created, was created, or either.
Creating(n) == \E j \in 1..Len(frames) : frames[j].kind = "create" /\ frames[j].n = n
Answering(n) == \E a \in answers : a.n = n
Pending(n) == Creating(n) \/ Answering(n)

\* The submission being uploaded has left no trace yet.
Fresh == upload # Nothing =>
  /\ \A j \in 1..Len(frames) : frames[j].n # upload.n
  /\ ~Answering(upload.n)
  /\ queued # Nothing => queued.n # upload.n
  /\ upload.n \notin DOMAIN made /\ upload.n \notin heard
  /\ \A x \in sent : x.n # upload.n

\* Unless something got in its way it is what the user saw; while a new session is
\* prepared whatever is still to be reported has been marked.
UnderWay == upload # Nothing =>
  /\ upload.form = aim[upload.n].form
  /\ upload.form = "new" => \A n : Pending(n) => n \in crossed
  /\ upload.n \notin crossed =>
       /\ upload.left \union upload.done = aim[upload.n].files
       /\ Target(upload.form) = aim[upload.n].at
       /\ upload.form = "new" => \A n : ~Pending(n)

\* Each session is requested once and reported once, and is what its request said.
OnceEach ==
  /\ \A j \in 1..Len(frames) : frames[j].kind = "create" =>
       /\ frames[j].n \notin DOMAIN made
       /\ frames[j].n \notin crossed => aim[frames[j].n].form = "new" /\ aim[frames[j].n].at = frames[j].at
       /\ \A l \in 1..Len(frames) : frames[l].kind = "create" /\ frames[l].n = frames[j].n => l = j
  /\ \A a \in answers : a.n \in DOMAIN made /\ made[a.n] = a.s
  /\ \A n \in DOMAIN made \ crossed : aim[n].form = "new" /\ home[made[n]] = aim[n].at

\* The slot has the prompt of the only session that is still to be reported.
Slot ==
  /\ queued # Nothing /\ queued.n \notin crossed =>
       /\ queued.files = aim[queued.n].files /\ aim[queued.n].form = "new"
       /\ \A n : Pending(n) => n = queued.n
  /\ \A n : Pending(n) /\ n \notin crossed => queued # Nothing /\ queued.n = n

\* A session is created for one submission, a prompt leaves the slot when it is sent, and
\* the session it went to is not reported again.
SentOnce ==
  /\ \A m, l \in DOMAIN made : made[m] = made[l] => m = l
  /\ queued # Nothing => aim[queued.n].form = "new" /\ \A x \in sent : x.n # queued.n
  /\ \A x \in sent : aim[x.n].form = "new" =>
       \E m \in DOMAIN made : made[m] = x.to /\ ~Answering(m)
  /\ OnePromptEach

\* The inductive invariant.
IInv ==
  /\ PageTypes /\ QueueTypes /\ Homes /\ Whole
  /\ Fresh /\ UnderWay /\ OnceEach /\ Slot /\ SentOnce
  /\ ReachesItsSession /\ PromptFollows

-----------------------------------------------------------------------------
\* What is left of a queue.
Part(p, q) == \E d \in Nat : \A j \in 1..Len(p) : j + d \in 1..Len(q) /\ p[j] = q[j + d]

\* A queue, its rest, a beginning of it and the empty queue are parts of it.
LEMMA Parts ==
  ASSUME NEW S, NEW q \in Seq(S)
  PROVE  /\ Part(q, q) /\ Part(<<>>, q) /\ <<>> \in Seq(S)
         /\ q # <<>> => Part(Tail(q), q) /\ Tail(q) \in Seq(S) /\ Head(q) = q[1] /\ 1 \in 1..Len(q)
         /\ \A k \in 0..Len(q) : Part(SubSeq(q, 1, k), q) /\ SubSeq(q, 1, k) \in Seq(S)
<1>1. Part(q, q)
  <2>1. \A j \in 1..Len(q) : j + 0 \in 1..Len(q) /\ q[j] = q[j + 0]
    OBVIOUS
  <2> QED
    BY <2>1 DEF Part
<1>2. Part(<<>>, q)
  <2>1. \A j \in 1..Len(<<>>) : j + 0 \in 1..Len(q) /\ <<>>[j] = q[j + 0]
    OBVIOUS
  <2> QED
    BY <2>1 DEF Part
<1>3. q # <<>> => Part(Tail(q), q)
  <2>1. q # <<>> => \A j \in 1..Len(Tail(q)) : j + 1 \in 1..Len(q) /\ Tail(q)[j] = q[j + 1]
    OBVIOUS
  <2> QED
    BY <2>1 DEF Part
<1>4. ASSUME NEW k \in 0..Len(q)
      PROVE  Part(SubSeq(q, 1, k), q) /\ SubSeq(q, 1, k) \in Seq(S)
  <2>1. \A j \in 1..Len(SubSeq(q, 1, k)) : j + 0 \in 1..Len(q) /\ SubSeq(q, 1, k)[j] = q[j + 0]
    OBVIOUS
  <2>2. SubSeq(q, 1, k) \in Seq(S)
    OBVIOUS
  <2> QED
    BY <2>1, <2>2 DEF Part
<1> QED
  BY <1>1, <1>2, <1>3, <1>4

\* The submissions go on as they were: queues only lose, and more may be in their way.
Quiet ==
  /\ Part(frames', frames) /\ frames' \in Seq(Frames)
  /\ answers' \subseteq answers
  /\ UNCHANGED <<home, made, sent, aim, heard>>
  /\ crossed \subseteq crossed' /\ crossed' \subseteq Numbers

\* What was sent stays sent once while nothing is sent and no session created.
LEMMA SentOnceKeeps ==
  ASSUME IInv, UNCHANGED <<sent, made>>, queued' = queued \/ queued' = Nothing,
         answers' \subseteq answers, \A m \in Numbers : aim'[m] = aim[m]
  PROVE  SentOnce'
<1> USE DEF IInv
<1>1. \A m : Answering(m)' => Answering(m)
  BY DEF Answering
<1>2. \A x \in sent : aim'[x.n] = aim[x.n]
  BY DEF QueueTypes
<1>3. queued # Nothing => aim'[queued.n] = aim[queued.n]
  BY DEF PageTypes
<1>4. OnePromptEach'
  BY <1>2 DEF SentOnce, OnePromptEach
<1> QED
  BY <1>1, <1>2, <1>3, <1>4 DEF SentOnce

\* What is only lost disturbs nothing that is said of queues, sessions and inputs.
LEMMA QuietKeeps ==
  ASSUME IInv, Quiet
  PROVE  /\ QueueTypes' /\ Homes' /\ OnceEach' /\ ReachesItsSession' /\ PromptFollows'
         /\ \A j \in 1..Len(frames') : frames'[j].kind = "input" =>
               AsInput(frames'[j], frames'[j].files) \in sent'
         /\ \A n : /\ (Pending(n)' => Pending(n)) /\ (Answering(n)' => Answering(n))
                   /\ (\A j \in 1..Len(frames) : frames[j].n # n) => (\A j \in 1..Len(frames') : frames'[j].n # n)
<1> USE DEF IInv
<1>1. PICK d \in Nat : \A j \in 1..Len(frames') : j + d \in 1..Len(frames) /\ frames'[j] = frames[j + d]
  BY DEF Quiet, Part
<1>2. answers' \subseteq answers
  BY DEF Quiet
<1>3. /\ UNCHANGED <<home, made, sent, aim, heard>> /\ crossed \subseteq crossed' /\ crossed' \subseteq Numbers
      /\ frames' \in Seq(Frames) /\ Numbers' = Numbers
  BY DEF Quiet, Numbers
<1>4. QueueTypes'
  BY <1>1, <1>2, <1>3 DEF QueueTypes
<1>5. Homes'
  BY <1>1, <1>2, <1>3 DEF Homes
<1>6. OnceEach'
  <2>1. ASSUME NEW j \in 1..Len(frames'), frames'[j].kind = "create"
        PROVE  /\ frames'[j].n \notin DOMAIN made'
               /\ frames'[j].n \notin crossed' => aim'[frames'[j].n].form = "new" /\ aim'[frames'[j].n].at = frames'[j].at
               /\ \A l \in 1..Len(frames') : frames'[l].kind = "create" /\ frames'[l].n = frames'[j].n => l = j
    <3>1. ASSUME NEW l \in 1..Len(frames'), frames'[l].kind = "create", frames'[l].n = frames'[j].n
          PROVE  l = j
      <4>0. /\ l + d \in 1..Len(frames) /\ frames'[l] = frames[l + d]
            /\ j + d \in 1..Len(frames) /\ frames'[j] = frames[j + d]
        BY <1>1, <2>1, <3>1
      <4>1. l + d = j + d
        BY <4>0, <2>1, <3>1 DEF OnceEach
      <4>2. l \in Int /\ j \in Int
        OBVIOUS
      <4> QED
        BY <4>1, <4>2
    <3>2. j + d \in 1..Len(frames) /\ frames'[j] = frames[j + d]
      BY <1>1
    <3>3. /\ frames[j + d].n \notin DOMAIN made
          /\ frames[j + d].n \notin crossed =>
               aim[frames[j + d].n].form = "new" /\ aim[frames[j + d].n].at = frames[j + d].at
      BY <3>2, <2>1 DEF OnceEach
    <3> QED
      BY <1>3, <3>1, <3>2, <3>3
  <2>2. \A a \in answers' : a.n \in DOMAIN made' /\ made'[a.n] = a.s
    BY <1>2, <1>3 DEF OnceEach
  <2>3. \A n \in DOMAIN made' \ crossed' : aim'[n].form = "new" /\ home'[made'[n]] = aim'[n].at
    BY <1>3 DEF OnceEach
  <2> QED
    BY <2>1, <2>2, <2>3 DEF OnceEach
<1>7. ReachesItsSession' /\ PromptFollows'
  BY <1>3 DEF ReachesItsSession, PromptFollows
<1>8. \A n : /\ (Pending(n)' => Pending(n)) /\ (Answering(n)' => Answering(n))
             /\ (\A j \in 1..Len(frames) : frames[j].n # n) => (\A j \in 1..Len(frames') : frames'[j].n # n)
  BY <1>1, <1>2 DEF Pending, Creating, Answering
<1>9. \A j \in 1..Len(frames') : frames'[j].kind = "input" =>
               AsInput(frames'[j], frames'[j].files) \in sent'
  BY <1>1, <1>3 DEF Whole
<1> QED
  BY <1>4, <1>5, <1>6, <1>7, <1>8, <1>9

\* What the user and the page do to the forms: the upload goes on as it was, is crossed or ends.
FormOnly ==
  /\ UNCHANGED <<frames, answers, deskVars, aim, sent, heard>>
  /\ crossed \subseteq crossed' /\ crossed' \subseteq Numbers
  /\ PageTypes'
  /\ upload' # Nothing =>
       /\ upload # Nothing /\ upload'.n = upload.n /\ upload'.form = upload.form
       /\ upload.n \notin crossed' =>
            /\ upload'.left \union upload'.done = upload.left \union upload.done
            /\ \A g \in Forms : g = upload.form => Target(g)' = Target(g)
  /\ queued' # queued => upload # Nothing /\ upload.form = "new" /\ queued' = Nothing /\ upload' = Nothing

\* A change of the forms keeps the invariant, when it marks what it crosses.
LEMMA FormKeeps ==
  ASSUME IInv, FormOnly
  PROVE  IInv'
<1> USE DEF IInv
<1>0. Quiet
  BY Parts DEF FormOnly, Quiet, QueueTypes, deskVars
<1>1. QueueTypes' /\ Homes' /\ OnceEach' /\ ReachesItsSession' /\ PromptFollows'
  BY <1>0, QuietKeeps
<1>2. \A n : (Pending(n)' <=> Pending(n)) /\ (Answering(n)' <=> Answering(n))
  BY DEF FormOnly, Pending, Creating, Answering
<1>3. Whole'
  BY DEF FormOnly, Whole, JobWhole, GivenWhole, FilesOf, deskVars
<1>4. Fresh'
  BY <1>2 DEF Fresh, FormOnly, deskVars
<1>5. UnderWay'
  <2> SUFFICES ASSUME upload' # Nothing
               PROVE  /\ upload'.form = aim'[upload'.n].form
                      /\ upload'.form = "new" => \A n : Pending(n)' => n \in crossed'
                      /\ upload'.n \notin crossed' =>
                           /\ upload'.left \union upload'.done = aim'[upload'.n].files
                           /\ Target(upload.form)' = aim'[upload'.n].at
                           /\ upload'.form = "new" => \A n : ~Pending(n)'
    BY DEF UnderWay
  <2>1. upload # Nothing /\ upload'.n = upload.n /\ upload'.form = upload.form /\ aim' = aim
    BY DEF FormOnly
  <2>2. upload.form \in Forms
    BY <2>1 DEF PageTypes
  <2>3. PICK g \in Forms : g = upload.form
    BY <2>2
  <2>4. upload.n \notin crossed' => Target(g)' = Target(g) /\ Target(g) = aim[upload.n].at
    BY <2>1, <2>3 DEF FormOnly, UnderWay
  <2>5. upload.n \notin crossed' => Target(upload.form)' = aim'[upload'.n].at
    BY <2>1, <2>3, <2>4 DEF Target
  <2>6. upload.n \notin crossed' => upload.n \notin crossed
    BY DEF FormOnly
  <2> QED
    BY <1>2, <2>1, <2>5, <2>6 DEF FormOnly, UnderWay
<1>7. SentOnce'
  BY SentOnceKeeps DEF FormOnly, deskVars
<1>6. Slot'
  <2>1. CASE queued' = queued
    BY <1>2, <2>1 DEF Slot, FormOnly
  <2>2. CASE queued' # queued
    BY <1>2, <2>2 DEF Slot, FormOnly, UnderWay
  <2> QED
    BY <2>1, <2>2
<1> QED
  BY <1>1, <1>3, <1>4, <1>5, <1>6, <1>7 DEF FormOnly

\* The same, for the steps below: what each of them has to show.
LEMMA FormsStep ==
  ASSUME IInv, UNCHANGED <<frames, answers, deskVars, aim, sent, heard>>,
         picked' \in [Forms -> SUBSET Files], choice' \in Workspaces \union {Nothing},
         view' \in DOMAIN home \union {Nothing},
         crossed \subseteq crossed', crossed' \subseteq Numbers,
         queued' = queued \/ (upload # Nothing /\ upload.form = "new" /\ queued' = Nothing /\ upload' = Nothing),
         upload' # Nothing =>
            /\ upload # Nothing /\ upload'.n = upload.n /\ upload'.form = upload.form
            /\ upload' \in [n : Numbers, form : Forms, left : SUBSET Files, done : SUBSET Files, shared : BOOLEAN]
            /\ upload.n \notin crossed' =>
                 /\ upload'.left \union upload'.done = upload.left \union upload.done
                 /\ \A g \in Forms : g = upload.form => Target(g)' = Target(g)
  PROVE  IInv'
<1>1. Numbers' = Numbers
  BY DEF Numbers
<1>2. PageTypes'
  BY <1>1 DEF IInv, PageTypes, deskVars
<1>3. FormOnly
  BY <1>2 DEF FormOnly
<1> QED
  BY <1>3, FormKeeps

\* Cross marks the submission of its own form, and no number that was not given.
LEMMA CrossesOwn ==
  ASSUME IInv, NEW form, Cross(form)
  PROVE  /\ crossed \subseteq crossed' /\ crossed' \subseteq Numbers
         /\ upload # Nothing /\ upload.form = form => upload.n \in crossed'
  BY DEF Cross, Uploading, IInv, PageTypes

AnUpload == [n : Numbers, form : Forms, left : SUBSET Files, done : SUBSET Files, shared : BOOLEAN]

\* An upload whose list changes, or is no longer shared, is the same submission.
LEMMA Edits ==
  ASSUME NEW u \in AnUpload
  PROVE  /\ \A l \in SUBSET Files :
              /\ [u EXCEPT !.left = l] \in AnUpload
              /\ [u EXCEPT !.left = l].n = u.n /\ [u EXCEPT !.left = l].form = u.form
         /\ [u EXCEPT !.shared = FALSE] \in AnUpload
         /\ [u EXCEPT !.shared = FALSE].n = u.n /\ [u EXCEPT !.shared = FALSE].form = u.form
         /\ [u EXCEPT !.shared = FALSE].left = u.left /\ [u EXCEPT !.shared = FALSE].done = u.done
  BY DEF AnUpload

\* An upload that lost its list goes on with the files it had.
LEMMA DetachedKeeps ==
  ASSUME IInv, NEW form, upload' = Detached(form), upload' # Nothing
  PROVE  /\ upload # Nothing /\ upload'.n = upload.n /\ upload'.form = upload.form
         /\ upload' \in AnUpload
         /\ upload'.left = upload.left /\ upload'.done = upload.done
<1>1. upload # Nothing
  BY DEF Detached, Uploading
<1>2. upload \in AnUpload
  BY <1>1 DEF IInv, PageTypes, AnUpload
<1> QED
  BY <1>1, <1>2, Edits DEF Detached

\* A file picked during an upload marks the submission when it joins its list.
LEMMA PickStep ==
  ASSUME IInv, NEW form \in Forms, NEW f \in Files, Pick(form, f)
  PROVE  IInv'
<1> USE DEF Pick
<1>1. picked' \in [Forms -> SUBSET Files]
  BY DEF IInv, PageTypes
<1>2. ASSUME upload' # Nothing
      PROVE  /\ upload # Nothing /\ upload'.n = upload.n /\ upload'.form = upload.form
             /\ upload' \in AnUpload
             /\ upload.n \notin crossed' => upload' = upload
  <2>1. upload # Nothing
    BY <1>2 DEF Uploading
  <2>2. upload \in AnUpload
    BY <2>1 DEF IInv, PageTypes, AnUpload
  <2>3. CASE upload' = upload
    BY <2>1, <2>2, <2>3
  <2>4. CASE Uploading(form) /\ upload' = [upload EXCEPT !.left = @ \union {f}]
    <3>1. upload.left \union {f} \in SUBSET Files
      BY <2>2 DEF AnUpload
    <3>2. upload.n \in crossed'
      BY <2>1, <2>4, CrossesOwn DEF Uploading
    <3> QED
      BY <2>1, <2>2, <2>4, <3>1, <3>2, Edits
  <2> QED
    BY <2>3, <2>4
<1>3. upload # Nothing /\ upload.n \notin crossed' =>
        \A g \in Forms : g = upload.form => Target(g)' = Target(g)
  BY DEF Target
<1> QED
  BY <1>1, <1>2, <1>3, CrossesOwn, FormsStep DEF IInv, PageTypes, AnUpload

\* A file taken back leaves the upload its own list.
LEMMA UnpickStep ==
  ASSUME IInv, NEW form \in Forms, NEW f \in Files, Unpick(form, f)
  PROVE  IInv'
<1>1. picked' \in [Forms -> SUBSET Files]
  BY DEF Unpick, IInv, PageTypes
<1>2. \A g \in Forms : Target(g)' = Target(g)
  BY DEF Unpick, Target
<1>3. upload' = Detached(form) /\ Cross(form)
  BY DEF Unpick
<1> QED
  BY <1>1, <1>2, <1>3, CrossesOwn, DetachedKeeps, FormsStep DEF Unpick, IInv, PageTypes, AnUpload

\* A form that is changed is crossed when it is being sent; the other keeps its target.
LEMMA Other ==
  ASSUME NEW form \in Forms, form = "new" => view' = view, form = "composer" => choice' = choice
  PROVE  \A g \in Forms : g # form => Target(g)' = Target(g)
  BY DEF Target, Forms

\* Another session is shown: an input being sent is marked.
LEMMA OpenStep ==
  ASSUME IInv, NEW s \in Sessions, Open(s)
  PROVE  IInv'
<1> USE DEF Open, Shows
<1>1. picked' \in [Forms -> SUBSET Files]
  BY DEF IInv, PageTypes, Forms
<1>2. upload # Nothing /\ upload.n \notin crossed' =>
        \A g \in Forms : g = upload.form => Target(g)' = Target(g)
  BY CrossesOwn, Other DEF IInv, PageTypes, Forms
<1>3. upload' = Detached("composer") /\ Cross("composer")
  OBVIOUS
<1> QED
  BY <1>1, <1>2, <1>3, CrossesOwn, DetachedKeeps, FormsStep DEF IInv, PageTypes, AnUpload

\* The session is left: an input being sent is marked.
LEMMA BackStep ==
  ASSUME IInv, Back
  PROVE  IInv'
<1>2. upload # Nothing /\ upload.n \notin crossed' =>
        \A g \in Forms : g = upload.form => Target(g)' = Target(g)
  BY CrossesOwn, Other DEF Back, IInv, PageTypes, Forms
<1> QED
  BY <1>2, CrossesOwn, FormsStep DEF Back, IInv, PageTypes

\* Another workspace is chosen: a new session being prepared is marked.
LEMMA ChooseStep ==
  ASSUME IInv, NEW w \in Workspaces, ChooseWorkspace(w)
  PROVE  IInv'
<1> USE DEF ChooseWorkspace
<1>1. picked' \in [Forms -> SUBSET Files]
  BY DEF IInv, PageTypes, Forms
<1>2. upload # Nothing /\ upload.n \notin crossed' =>
        \A g \in Forms : g = upload.form => Target(g)' = Target(g)
  BY CrossesOwn, Other DEF IInv, PageTypes, Forms
<1>3. upload' = Detached("new") /\ Cross("new")
  OBVIOUS
<1> QED
  BY <1>1, <1>2, <1>3, CrossesOwn, DetachedKeeps, FormsStep DEF IInv, PageTypes, AnUpload

\* The list of workspaces arrives and chooses by itself: the same.
LEMMA ListedStep ==
  ASSUME IInv, Listed
  PROVE  IInv'
<1>2. upload # Nothing /\ upload.n \notin crossed' =>
        \A g \in Forms : g = upload.form => Target(g)' = Target(g)
  BY CrossesOwn, Other DEF Listed, IInv, PageTypes, Forms
<1>3. choice' \in Workspaces
  BY WorkspaceAssumption DEF Listed
<1> QED
  BY <1>2, <1>3, CrossesOwn, FormsStep DEF Listed, IInv, PageTypes

\* A file goes from those left to those done.
LEMMA UploadStep ==
  ASSUME IInv, NEW f \in Files, UploadFile(f)
  PROVE  IInv'
<1> USE DEF UploadFile
<1>1. upload \in AnUpload
  BY DEF IInv, PageTypes, AnUpload
<1>2. /\ upload' \in AnUpload /\ upload'.n = upload.n /\ upload'.form = upload.form
      /\ upload'.left \union upload'.done = upload.left \union upload.done
  BY <1>1 DEF AnUpload
<1>3. \A g \in Forms : Target(g)' = Target(g)
  BY DEF Target
<1> QED
  BY <1>1, <1>2, <1>3, FormsStep DEF IInv, PageTypes, AnUpload, pageLog

\* An upload that fails ends; with a new session the slot is emptied, whose own
\* prompt then was marked when the upload began.
LEMMA FailsStep ==
  ASSUME IInv, (\E f \in Files : UploadFails(f)) \/ FinishFails
  PROVE  IInv'
<1>1. /\ upload # Nothing /\ Fails
      /\ UNCHANGED <<link, view, choice, picked, frames, answers, deskVars, pageLog>>
  BY DEF UploadFails, FinishFails, Ready, Uploading
<1> QED
  BY <1>1, FormsStep DEF Fails, IInv, PageTypes, pageLog

\* The store and the connection are no concern of the invariant.
LEMMA UntouchedStep ==
  ASSUME IInv, UNCHANGED <<view, choice, picked, upload, queued, frames, answers, deskVars, pageLog>>
  PROVE  IInv'
<1>1. \A g \in Forms : Target(g)' = Target(g)
  BY DEF Target
<1> QED
  BY <1>1, FormsStep DEF IInv, PageTypes, pageLog

\* Losing frames, answers or what the page had in hand keeps the invariant.
LEMMA QuietStep ==
  ASSUME IInv, Quiet, PageTypes', JobWhole', GivenWhole',
         UNCHANGED <<upload, view, choice>> \/ upload' = Nothing,
         queued' = queued \/ (queued' = Nothing /\ \A n : Pending(n)' => n \in crossed')
  PROVE  IInv'
<1> USE DEF IInv
<1>1. /\ QueueTypes' /\ Homes' /\ OnceEach' /\ ReachesItsSession' /\ PromptFollows'
      /\ \A j \in 1..Len(frames') : frames'[j].kind = "input" => AsInput(frames'[j], frames'[j].files) \in sent'
      /\ \A n : /\ (Pending(n)' => Pending(n)) /\ (Answering(n)' => Answering(n))
                /\ (\A j \in 1..Len(frames) : frames[j].n # n) => (\A j \in 1..Len(frames') : frames'[j].n # n)
  BY QuietKeeps
<1>2. UNCHANGED <<home, made, sent, aim, heard>> /\ crossed \subseteq crossed'
  BY DEF Quiet
<1>3. Whole'
  BY <1>1 DEF Whole
<1>4. Fresh'
  BY <1>1, <1>2 DEF Fresh
<1>5. UnderWay'
  <2>1. CASE upload' = Nothing
    BY <2>1 DEF UnderWay
  <2>2. CASE UNCHANGED <<upload, view, choice>>
    BY <1>1, <1>2, <2>2 DEF UnderWay, Target
  <2> QED
    BY <2>1, <2>2
<1>6. Slot'
  BY <1>1, <1>2 DEF Slot
<1>7. SentOnce'
  BY SentOnceKeeps DEF Quiet
<1> QED
  BY <1>1, <1>3, <1>4, <1>5, <1>6, <1>7

\* The desktop takes a command, or loses all: nothing else about the queues changes.
LEMMA DeskStep ==
  ASSUME IInv, UNCHANGED <<pageVars, pageLog, answers, home, made>>,
         frames' = frames \/ frames' = <<>> \/ (frames # <<>> /\ frames' = Tail(frames)),
         JobWhole', GivenWhole'
  PROVE  IInv'
<1>1. Part(frames', frames) /\ frames' \in Seq(Frames)
  BY Parts DEF IInv, QueueTypes
<1>3. Quiet
  BY <1>1 DEF Quiet, pageLog, IInv, PageTypes
<1>4. PageTypes'
  BY DEF IInv, PageTypes, Numbers, pageVars, pageLog
<1> QED
  BY <1>3, <1>4, QuietStep DEF pageVars

\* The job has all files of the input left.
LEMMA TakeInputStep ==
  ASSUME IInv, TakeInput
  PROVE  IInv'
<1> USE DEF TakeInput, Takes
<1>1. Head(frames) = frames[1] /\ 1 \in 1..Len(frames)
  BY Parts DEF IInv, QueueTypes
<1>2. FilesOf(job') = Head(frames).files
  BY DEF FilesOf
<1>3. Head(frames).to \in DOMAIN home /\ AsInput(Head(frames), Head(frames).files) \in sent
  BY <1>1 DEF IInv, Homes, Whole
<1>4. job' = [n |-> Head(frames).n, to |-> Head(frames).to, left |-> Head(frames).files, got |-> {}]
  OBVIOUS
<1>5. /\ job'.n = Head(frames).n /\ job'.to = Head(frames).to
      /\ job' = [n |-> job'.n, to |-> job'.to, left |-> job'.left, got |-> job'.got]
  BY <1>4
<1>6. Head(frames).files # {} => home[Head(frames).to] \in Allows
  OBVIOUS
<1>7. sent' = sent /\ home' = home
  BY DEF pageLog
<1>8. JobWhole'
  BY <1>2, <1>3, <1>5, <1>6, <1>7 DEF JobWhole, AsInput
<1>9. GivenWhole'
  BY <1>7 DEF GivenWhole, IInv, Whole
<1> QED
  BY <1>8, <1>9, DeskStep

\* A file goes from those left to those got.
LEMMA FetchStep ==
  ASSUME IInv, NEW f \in Files, Fetch(f)
  PROVE  IInv'
<1> USE DEF Fetch
<1>1. PICK u \in store : u.f = f /\ job' = [job EXCEPT !.left = @ \ {f}, !.got = @ \union {u}]
  BY DEF Named
<1>2. /\ job = [n |-> job.n, to |-> job.to, left |-> job.left, got |-> job.got]
      /\ AsInput(job, FilesOf(job)) \in sent /\ job.to \in DOMAIN home
      /\ FilesOf(job) # {} => home[job.to] \in Allows
  BY DEF IInv, Whole, JobWhole
<1>3. job' = [n |-> job.n, to |-> job.to, left |-> job.left \ {f}, got |-> job.got \union {u}]
  BY <1>1, <1>2
<1>4. FilesOf(job') = FilesOf(job)
  <2>1. FilesOf(job') = (job.left \ {f}) \union {v.f : v \in job.got \union {u}}
    BY <1>3 DEF FilesOf
  <2>2. {v.f : v \in job.got \union {u}} = {v.f : v \in job.got} \union {f}
    BY <1>1
  <2> QED
    BY <2>1, <2>2 DEF FilesOf
<1>5. JobWhole'
  BY <1>2, <1>3, <1>4 DEF JobWhole, AsInput, pageLog
<1>6. GivenWhole'
  BY DEF GivenWhole, IInv, Whole, pageLog
<1> QED
  BY <1>5, <1>6, DeskStep

\* Codex gets what was fetched, which is everything.
LEMMA GiveStep ==
  ASSUME IInv, Give
  PROVE  IInv'
<1> USE DEF Give
<1>1. /\ AsInput(job, FilesOf(job)) \in sent /\ job.to \in DOMAIN home
      /\ FilesOf(job) # {} => home[job.to] \in Allows
  BY DEF IInv, Whole, JobWhole
<1>2. FilesOf(job) = {u.f : u \in job.got}
  BY DEF FilesOf
<1>3. given' = AsInput(job, FilesOf(job)) /\ given'.to = job.to /\ given'.files = FilesOf(job)
  BY <1>2 DEF AsInput
<1>4. GivenWhole'
  BY <1>1, <1>3 DEF GivenWhole, pageLog
<1>5. JobWhole'
  BY DEF JobWhole
<1> QED
  BY <1>4, <1>5, DeskStep

\* A command is over with nothing given to Codex.
LEMMA OverStep ==
  ASSUME IInv, DesktopRestarts \/ Refuse \/ Decline \/ \E f \in Files : FetchFails(f)
  PROVE  IInv'
<1>1. /\ UNCHANGED <<pageVars, pageLog, answers, home, made, given>> /\ job' = Nothing
      /\ frames' = frames \/ frames' = <<>> \/ (frames # <<>> /\ frames' = Tail(frames))
  BY DEF DesktopRestarts, Refuse, Decline, FetchFails, deskVars
<1>2. JobWhole' /\ GivenWhole'
  BY <1>1 DEF JobWhole, GivenWhole, IInv, Whole, pageLog
<1> QED
  BY <1>1, <1>2, DeskStep

\* A connection that is cut loses the rest of the frames.
LEMMA Cuts ==
  ASSUME IInv, Cut
  PROVE  Part(frames', frames) /\ frames' \in Seq(Frames)
<1>1. PICK k \in 0..Len(frames) : frames' = SubSeq(frames, 1, k)
  BY DEF Cut
<1> QED
  BY <1>1, Parts DEF IInv, QueueTypes

\* The page keeps its forms and the slot.
LEMMA ConnectionLostStep ==
  ASSUME IInv, ConnectionLost
  PROVE  IInv'
<1>1. Quiet
  BY Cuts DEF ConnectionLost, Quiet, pageLog, deskVars, IInv, PageTypes
<1>2. PageTypes'
  BY DEF ConnectionLost, IInv, PageTypes, Numbers, deskVars, pageLog
<1>3. JobWhole' /\ GivenWhole'
  BY DEF ConnectionLost, IInv, Whole, JobWhole, GivenWhole, FilesOf, deskVars, pageLog
<1> QED
  BY <1>1, <1>2, <1>3, QuietStep DEF ConnectionLost

\* Creations are the submissions whose session may still be reported.
LEMMA PendingCreations ==
  ASSUME IInv, NEW n
  PROVE  (Pending(n) <=> n \in Creations) /\ Creations \subseteq Numbers
<1>1. Creating(n) <=> n \in {frames[i].n : i \in {j \in DOMAIN frames : frames[j].kind = "create"}}
  BY DEF IInv, QueueTypes, Creating
<1>2. Answering(n) <=> n \in {a.n : a \in answers}
  BY DEF Answering
<1>3. \A i \in DOMAIN frames : frames[i].kind = "create" => frames[i].n \in Numbers
  BY DEF IInv, QueueTypes
<1>4. \A a \in answers : a.n \in Numbers
  BY DEF IInv, QueueTypes
<1> QED
  BY <1>1, <1>2, <1>3, <1>4 DEF Pending, Creations

\* What is still to be reported was marked: its prompt is gone.
LEMMA ReloadStep ==
  ASSUME IInv, Reload
  PROVE  IInv'
<1>1. Quiet
  BY Cuts, PendingCreations DEF Reload, Quiet, deskVars, IInv, PageTypes
<1>2. PageTypes'
  <2>1. picked' \in [Forms -> SUBSET Files]
    BY DEF Reload
  <2>2. crossed' \subseteq Numbers
    BY <1>1 DEF Quiet
  <2> QED
    BY <2>1, <2>2 DEF Reload, IInv, PageTypes, Numbers, deskVars
<1>3. JobWhole' /\ GivenWhole'
  BY DEF Reload, IInv, Whole, JobWhole, GivenWhole, FilesOf, deskVars
<1>4. \A n : Pending(n)' => n \in crossed'
  BY <1>1, QuietKeeps, PendingCreations DEF Reload
<1> QED
  BY <1>1, <1>2, <1>3, <1>4, QuietStep DEF Reload


\* What is appended is last; the rest stays where it was.
LEMMA Appended ==
  ASSUME NEW S, NEW q \in Seq(S), NEW x \in S
  PROVE  /\ Append(q, x) \in Seq(S) /\ Len(Append(q, x)) = Len(q) + 1
         /\ \A j \in 1..Len(q) : j \in 1..Len(Append(q, x)) /\ Append(q, x)[j] = q[j]
         /\ \A j \in 1..Len(Append(q, x)) : j \in 1..Len(q) \/ (j = Len(q) + 1 /\ Append(q, x)[j] = x)
         /\ Len(q) + 1 \in 1..Len(Append(q, x)) /\ Append(q, x)[Len(q) + 1] = x /\ Len(q) + 1 \notin 1..Len(q)
  OBVIOUS

Aims == [form : Forms, at : Sessions \union Workspaces, files : SUBSET Files]

\* A new submission has a number of its own; with sessions still being created all
\* of them are marked.
LEMMA SubmitStep ==
  ASSUME IInv, NEW form \in Forms, Submit(form)
  PROVE  IInv'
<1> DEFINE n == Len(aim) + 1
           a == [form |-> form, at |-> Target(form), files |-> picked[form]]
<1> USE DEF IInv
<1>1. /\ upload' = [n |-> n, form |-> form, left |-> picked[form], done |-> {}, shared |-> TRUE]
      /\ aim' = Append(aim, a)
      /\ crossed' = IF form = "new" /\ Creations # {} THEN crossed \union Creations \union {n} ELSE crossed
      /\ UNCHANGED <<view, choice, picked, queued, frames, answers, deskVars, sent, heard>>
  BY DEF Submit
<1>2. UNCHANGED <<home, made, job, given>>
  BY <1>1 DEF deskVars
<1>3. Target(form) \in Sessions \union Workspaces
  BY DEF Submit, Target, PageTypes
<1>4. a \in Aims /\ aim \in Seq(Aims)
  BY <1>3 DEF Aims, PageTypes
<1>5. /\ aim' \in Seq(Aims) /\ Len(aim') = n /\ aim'[n] = a /\ n \in 1..Len(aim') /\ n \notin Numbers
      /\ \A m \in Numbers : m \in 1..Len(aim') /\ aim'[m] = aim[m]
  BY <1>1, <1>4, Appended DEF Numbers
<1>6. Numbers' = 1..Len(aim') /\ Numbers \subseteq Numbers' /\ n \in Numbers'
  BY <1>5 DEF Numbers
<1>7. crossed \subseteq crossed' /\ crossed' \subseteq Numbers' /\ (n \in crossed' <=> form = "new" /\ Creations # {})
  BY <1>1, <1>5, <1>6, PendingCreations DEF PageTypes
<1>8. \A m : (Pending(m)' <=> Pending(m)) /\ (Answering(m)' <=> Answering(m))
  BY <1>1 DEF Pending, Creating, Answering
<1>9. upload'.n = n /\ upload'.form = form /\ upload'.left = picked[form] /\ upload'.done = {}
  BY <1>1
<1>10. PageTypes'
  <2>1. upload' \in [n : Numbers', form : Forms, left : SUBSET Files, done : SUBSET Files, shared : BOOLEAN]
    BY <1>1, <1>6 DEF PageTypes
  <2>2. queued' # Nothing => queued' \in [n : Numbers', files : SUBSET Files]
    BY <1>1, <1>6 DEF PageTypes
  <2> QED
    BY <1>1, <1>2, <1>5, <1>6, <1>7, <1>9, <2>1, <2>2 DEF PageTypes, Aims
<1>11. QueueTypes'
  BY <1>1, <1>2, <1>6 DEF QueueTypes
<1>12. Homes'
  BY <1>1, <1>2 DEF Homes
<1>13. Whole'
  BY <1>1, <1>2 DEF Whole, JobWhole, GivenWhole, FilesOf
<1>14. Fresh'
  <2>1. /\ \A j \in 1..Len(frames) : frames[j].n # n
        /\ ~Answering(n)
        /\ queued # Nothing => queued.n # n
        /\ n \notin DOMAIN made /\ n \notin heard
        /\ \A x \in sent : x.n # n
    BY <1>5 DEF QueueTypes, PageTypes, Answering
  <2> QED
    BY <1>1, <1>2, <1>8, <1>9, <2>1 DEF Fresh
<1>15. UnderWay'
  <2>1. form = "new" => \A m : Pending(m) => m \in crossed'
    BY <1>1, PendingCreations
  <2>2. n \notin crossed' /\ form = "new" => \A m : ~Pending(m)
    BY <1>7, PendingCreations
  <2>3. Target(upload.form)' = Target(form)
    BY <1>1, <1>9 DEF Target
  <2> QED
    BY <1>5, <1>8, <1>9, <2>1, <2>2, <2>3 DEF UnderWay
<1>16. OnceEach'
  <2>1. ASSUME NEW j \in 1..Len(frames), frames[j].kind = "create", frames[j].n \notin crossed'
        PROVE  aim'[frames[j].n].form = "new" /\ aim'[frames[j].n].at = frames[j].at
    BY <1>5, <1>7, <2>1 DEF OnceEach, QueueTypes
  <2>2. \A m \in DOMAIN made \ crossed' : aim'[m].form = "new" /\ home[made[m]] = aim'[m].at
    BY <1>5, <1>7 DEF OnceEach, QueueTypes
  <2> QED
    BY <1>1, <1>2, <2>1, <2>2 DEF OnceEach
<1>17. Slot'
  <2>1. queued # Nothing => aim'[queued.n] = aim[queued.n]
    BY <1>5 DEF PageTypes
  <2> QED
    BY <1>1, <1>7, <1>8, <2>1 DEF Slot
<1>18. ReachesItsSession' /\ PromptFollows'
  BY <1>1, <1>2, <1>5, <1>7 DEF ReachesItsSession, PromptFollows, QueueTypes
<1>19. SentOnce'
  BY <1>1, <1>2, <1>5, SentOnceKeeps
<1> QED
  BY <1>10, <1>11, <1>12, <1>13, <1>14, <1>15, <1>16, <1>17, <1>18, <1>19

\* An input that was not marked goes to the session it was written for.
LEMMA FinishInputStep ==
  ASSUME IInv, FinishInput
  PROVE  IInv'
<1> DEFINE n == upload.n
           c == [kind |-> "input", n |-> n, to |-> view, files |-> upload.done]
           i == [n |-> n, to |-> view, files |-> upload.done]
<1> USE DEF IInv
<1>1. /\ upload # Nothing /\ upload.form = "composer" /\ upload.left = {} /\ view # Nothing
      /\ frames' = Append(frames, c) /\ sent' = sent \union {i}
      /\ picked' = [picked EXCEPT !["composer"] = {}] /\ upload' = Nothing
      /\ UNCHANGED <<view, choice, queued, answers, home, job, given, made, heard, aim, crossed>>
  BY DEF FinishInput, Ready, Uploading, SendInput, deskVars
<1>2. upload \in AnUpload /\ n \in Numbers /\ n \in Nat /\ upload.done \in SUBSET Files
  BY <1>1 DEF PageTypes, AnUpload, Numbers
<1>3. view \in DOMAIN home /\ view \in Sessions
  BY <1>1 DEF PageTypes
<1>4. c \in Frames /\ frames \in Seq(Frames)
  BY <1>2, <1>3 DEF Frames, QueueTypes
<1>5. /\ frames' \in Seq(Frames)
      /\ \A j \in 1..Len(frames) : j \in 1..Len(frames') /\ frames'[j] = frames[j]
      /\ \A j \in 1..Len(frames') : j \in 1..Len(frames) \/ frames'[j] = c
  BY <1>1, <1>4, Appended
<1>6. Numbers' = Numbers
  BY <1>1 DEF Numbers
<1>7. c.kind = "input" /\ c.n = n /\ c.to = view /\ c.files = upload.done /\ i.n = n /\ i.to = view /\ i.files = upload.done
  OBVIOUS
<1>8. \A m : (Pending(m)' <=> Pending(m)) /\ (Answering(m)' <=> Answering(m))
  BY <1>1, <1>5, <1>7 DEF Pending, Creating, Answering
<1>9. PageTypes'
  BY <1>1, <1>6 DEF PageTypes
<1>10. QueueTypes'
  BY <1>1, <1>2, <1>3, <1>5, <1>6, <1>7 DEF QueueTypes
<1>11. Homes'
  BY <1>1, <1>3, <1>5, <1>7 DEF Homes
<1>12. Whole'
  <2>1. AsInput(c, c.files) = i
    BY DEF AsInput
  <2>2. \A j \in 1..Len(frames') : frames'[j].kind = "input" => AsInput(frames'[j], frames'[j].files) \in sent'
    BY <1>1, <1>5, <2>1 DEF Whole
  <2> QED
    BY <1>1, <2>2 DEF Whole, JobWhole, GivenWhole, FilesOf
<1>13. Fresh' /\ UnderWay'
  BY <1>1 DEF Fresh, UnderWay
<1>14. OnceEach'
  BY <1>1, <1>5, <1>7 DEF OnceEach
<1>15. Slot'
  BY <1>1, <1>8 DEF Slot
<1>16. ReachesItsSession'
  <2>1. n \notin crossed => upload.done = aim[n].files /\ aim[n].form = "composer" /\ view = aim[n].at
    BY <1>1 DEF UnderWay, Target
  <2> QED
    BY <1>1, <1>7, <2>1 DEF ReachesItsSession
<1>17. PromptFollows'
  BY <1>1 DEF PromptFollows
<1>18. SentOnce'
  <2>1. aim[n].form # "new"
    BY <1>1 DEF UnderWay
  <2>2. {x \in sent' : aim'[x.n].form = "new"} = {x \in sent : aim[x.n].form = "new"}
    BY <1>1, <1>7, <2>1
  <2>3. OnePromptEach'
    BY <1>1, <2>2 DEF SentOnce, OnePromptEach
  <2>4. queued # Nothing => queued.n # n
    BY <1>1 DEF Fresh
  <2> QED
    BY <1>1, <1>7, <1>8, <2>1, <2>3, <2>4 DEF SentOnce
<1> QED
  BY <1>9, <1>10, <1>11, <1>12, <1>13, <1>14, <1>15, <1>16, <1>17, <1>18

\* The prompt takes the slot: whoever had it was marked.
LEMMA FinishNewStep ==
  ASSUME IInv, FinishNew
  PROVE  IInv'
<1> DEFINE n == upload.n
           c == [kind |-> "create", n |-> n, at |-> choice]
<1> USE DEF IInv
<1>1. /\ upload # Nothing /\ upload.form = "new" /\ upload.left = {}
      /\ frames' = Append(frames, c) /\ queued' = [n |-> n, files |-> upload.done]
      /\ picked' = [picked EXCEPT !["new"] = {}] /\ upload' = Nothing
      /\ UNCHANGED <<view, choice, answers, home, job, given, made, heard, aim, crossed, sent>>
  BY DEF FinishNew, Ready, Uploading, deskVars, pageLog
<1>2. upload \in AnUpload /\ n \in Numbers /\ n \in Nat /\ upload.done \in SUBSET Files
  BY <1>1 DEF PageTypes, AnUpload, Numbers
<1>4. c \in Frames /\ frames \in Seq(Frames)
  BY <1>2 DEF Frames, QueueTypes, PageTypes
<1>5. /\ frames' \in Seq(Frames)
      /\ \A j \in 1..Len(frames) : j \in 1..Len(frames') /\ frames'[j] = frames[j]
      /\ \A j \in 1..Len(frames') : j \in 1..Len(frames) \/ (j = Len(frames) + 1 /\ frames'[j] = c)
      /\ Len(frames) + 1 \in 1..Len(frames') /\ frames'[Len(frames) + 1] = c
  BY <1>1, <1>4, Appended
<1>6. Numbers' = Numbers
  BY <1>1 DEF Numbers
<1>7. c.kind = "create" /\ c.n = n /\ c.at = choice /\ queued'.n = n /\ queued'.files = upload.done /\ queued' # Nothing
  BY <1>1, <1>2, LimitAssumption
<1>8. \A m : (Pending(m)' <=> Pending(m) \/ m = n) /\ (Answering(m)' <=> Answering(m))
  BY <1>1, <1>5, <1>7 DEF Pending, Creating, Answering
<1>9. PageTypes'
  BY <1>1, <1>2, <1>6 DEF PageTypes
<1>10. QueueTypes'
  BY <1>1, <1>2, <1>5, <1>6, <1>7 DEF QueueTypes
<1>11. Homes'
  BY <1>1, <1>5, <1>7 DEF Homes
<1>12. Whole'
  <2>1. \A j \in 1..Len(frames') : frames'[j].kind = "input" => AsInput(frames'[j], frames'[j].files) \in sent'
    BY <1>1, <1>5, <1>7 DEF Whole
  <2> QED
    BY <1>1, <2>1 DEF Whole, JobWhole, GivenWhole, FilesOf
<1>13. Fresh' /\ UnderWay'
  BY <1>1 DEF Fresh, UnderWay
<1>14. n \notin crossed => /\ upload.done = aim[n].files /\ aim[n].form = "new" /\ choice = aim[n].at
                            /\ \A m : ~Pending(m)
  BY <1>1 DEF UnderWay, Target
<1>15. OnceEach'
  <2>1. \A j \in 1..Len(frames) : frames[j].n # n
    BY <1>1 DEF Fresh
  <2>2. n \notin DOMAIN made
    BY <1>1 DEF Fresh
  <2>3. ASSUME NEW j \in 1..Len(frames'), frames'[j].kind = "create"
        PROVE  /\ frames'[j].n \notin DOMAIN made
               /\ frames'[j].n \notin crossed => aim[frames'[j].n].form = "new" /\ aim[frames'[j].n].at = frames'[j].at
               /\ \A l \in 1..Len(frames') : frames'[l].kind = "create" /\ frames'[l].n = frames'[j].n => l = j
    <3>1. CASE j \in 1..Len(frames)
      BY <1>5, <1>7, <2>1, <2>3, <3>1 DEF OnceEach
    <3>2. CASE j = Len(frames) + 1 /\ frames'[j] = c
      BY <1>5, <1>7, <1>14, <2>1, <2>2, <3>2
    <3> QED
      BY <1>5, <3>1, <3>2
  <2> QED
    BY <1>1, <2>3 DEF OnceEach
<1>16. Slot'
  <2>1. \A m : Pending(m) => m \in crossed
    BY <1>1 DEF UnderWay
  <2> QED
    BY <1>1, <1>7, <1>8, <1>14, <2>1 DEF Slot
<1>17. ReachesItsSession' /\ PromptFollows'
  BY <1>1 DEF ReachesItsSession, PromptFollows
<1>18. SentOnce'
  <2>1. aim[n].form = "new" /\ \A x \in sent : x.n # n
    BY <1>1 DEF UnderWay, Fresh
  <2>2. OnePromptEach'
    BY <1>1 DEF SentOnce, OnePromptEach
  <2> QED
    BY <1>1, <1>7, <1>8, <2>1, <2>2 DEF SentOnce
<1> QED
  BY <1>9, <1>10, <1>11, <1>12, <1>13, <1>15, <1>16, <1>17, <1>18


\* The session is new; the request that made it is not answered twice.
LEMMA CreateStep ==
  ASSUME IInv, NEW s \in Sessions, Create(s)
  PROVE  IInv'
<1> DEFINE n == Head(frames).n
           a == [n |-> n, s |-> s]
<1> USE DEF IInv
<1>1. /\ frames # <<>> /\ Head(frames).kind = "create" /\ frames' = Tail(frames)
      /\ s \notin DOMAIN home
      /\ home' = [x \in DOMAIN home \union {s} |-> IF x = s THEN Head(frames).at ELSE home[x]]
      /\ made' = [m \in DOMAIN made \union {n} |-> IF m = n THEN s ELSE made[m]]
      /\ answers' = answers \union {a} \/ answers' = answers
      /\ UNCHANGED <<view, choice, picked, upload, queued, job, given, sent, heard, aim, crossed>>
  BY DEF Create, Takes, pageVars, pageLog
<1>2. Head(frames) = frames[1] /\ 1 \in 1..Len(frames) /\ frames' \in Seq(Frames)
  BY <1>1, Parts DEF QueueTypes
<1>3. n \in Numbers /\ n \in Nat /\ frames[1].n = n
  BY <1>2 DEF QueueTypes, Numbers
<1>4. \A j \in 1..Len(frames') : j + 1 \in 1..Len(frames) /\ frames'[j] = frames[j + 1] /\ j + 1 # 1
  BY <1>1, <1>2 DEF QueueTypes
<1>5. n \notin DOMAIN made /\ (n \notin crossed => aim[n].form = "new" /\ aim[n].at = Head(frames).at)
  BY <1>1, <1>2 DEF OnceEach
<1>6. /\ DOMAIN home' = DOMAIN home \union {s} /\ home'[s] = Head(frames).at
      /\ \A x \in DOMAIN home : home'[x] = home[x]
      /\ DOMAIN made' = DOMAIN made \union {n} /\ made'[n] = s
      /\ \A m \in DOMAIN made : made'[m] = made[m]
  BY <1>1, <1>5
<1>7. Numbers' = Numbers
  BY <1>1 DEF Numbers
<1>8. a \in [n : Nat, s : Sessions] /\ a.n = n /\ a.s = s
  BY <1>3
<1>9. \A b \in answers' : b \in answers \/ b = a
  BY <1>1
<1>10. \A b \in answers : b.n # n
  BY <1>5 DEF OnceEach
<1>11. \A j \in 1..Len(frames') : frames'[j].kind = "create" => frames'[j].n # n
  BY <1>1, <1>2, <1>4 DEF OnceEach
<1>12. \A m : /\ (Pending(m)' => Pending(m)) /\ (Answering(m)' => Answering(m) \/ m = n)
  BY <1>1, <1>2, <1>3, <1>4, <1>8, <1>9 DEF Pending, Creating, Answering
<1>13. PageTypes'
  BY <1>1, <1>6, <1>7 DEF PageTypes
<1>14. QueueTypes'
  <2>1. \A j \in 1..Len(frames') : frames'[j].n \in Numbers
    BY <1>4 DEF QueueTypes
  <2>2. answers' \subseteq [n : Nat, s : Sessions] /\ \A b \in answers' : b.n \in Numbers
    BY <1>3, <1>8, <1>9 DEF QueueTypes
  <2> QED
    BY <1>1, <1>2, <1>3, <1>6, <1>7, <2>1, <2>2 DEF QueueTypes
<1>15. Homes'
  BY <1>1, <1>4, <1>6, <1>8, <1>9 DEF Homes
<1>16. Whole'
  <2>1. \A j \in 1..Len(frames') : frames'[j].kind = "input" => AsInput(frames'[j], frames'[j].files) \in sent'
    BY <1>1, <1>4 DEF Whole
  <2>2. JobWhole'
    BY <1>1, <1>6 DEF Whole, JobWhole, FilesOf
  <2>3. GivenWhole'
    BY <1>1, <1>6 DEF Whole, GivenWhole
  <2> QED
    BY <2>1, <2>2, <2>3 DEF Whole
<1>17. Fresh'
  <2>1. upload # Nothing => upload.n # n
    BY <1>2, <1>3 DEF Fresh
  <2> QED
    BY <1>1, <1>4, <1>6, <1>12, <2>1 DEF Fresh
<1>18. UnderWay'
  BY <1>1, <1>12 DEF UnderWay, Target
<1>19. OnceEach'
  <2>1. ASSUME NEW j \in 1..Len(frames'), frames'[j].kind = "create"
        PROVE  /\ frames'[j].n \notin DOMAIN made'
               /\ frames'[j].n \notin crossed => aim[frames'[j].n].form = "new" /\ aim[frames'[j].n].at = frames'[j].at
               /\ \A l \in 1..Len(frames') : frames'[l].kind = "create" /\ frames'[l].n = frames'[j].n => l = j
    <3>1. ASSUME NEW l \in 1..Len(frames'), frames'[l].kind = "create", frames'[l].n = frames'[j].n
          PROVE  l = j
      <4>0. /\ l + 1 \in 1..Len(frames) /\ frames'[l] = frames[l + 1]
            /\ j + 1 \in 1..Len(frames) /\ frames'[j] = frames[j + 1]
        BY <1>4, <2>1, <3>1
      <4>1. l + 1 = j + 1
        BY <4>0, <2>1, <3>1 DEF OnceEach
      <4> QED
        BY <4>1
    <3>2. j + 1 \in 1..Len(frames) /\ frames'[j] = frames[j + 1]
      BY <1>4
    <3>3. /\ frames[j + 1].n \notin DOMAIN made
          /\ frames[j + 1].n \notin crossed =>
               aim[frames[j + 1].n].form = "new" /\ aim[frames[j + 1].n].at = frames[j + 1].at
      BY <3>2, <2>1 DEF OnceEach
    <3> QED
      BY <1>6, <1>11, <2>1, <3>1, <3>2, <3>3
  <2>2. \A b \in answers' : b.n \in DOMAIN made' /\ made'[b.n] = b.s
    BY <1>6, <1>8, <1>9 DEF OnceEach
  <2>3. ASSUME NEW m \in DOMAIN made' \ crossed
        PROVE  aim[m].form = "new" /\ home'[made'[m]] = aim[m].at
    <3>1. CASE m = n
      BY <1>5, <1>6, <2>3, <3>1
    <3>2. CASE m \in DOMAIN made
      BY <1>6, <2>3, <3>2 DEF OnceEach, Homes
    <3> QED
      BY <1>6, <3>1, <3>2
  <2>4. \A m \in DOMAIN made' \ crossed' : aim'[m].form = "new" /\ home'[made'[m]] = aim'[m].at
    BY <1>1, <2>3
  <2>5. crossed' = crossed /\ aim' = aim
    BY <1>1
  <2> QED
    BY <2>1, <2>2, <2>4, <2>5 DEF OnceEach
<1>20. Slot'
  BY <1>1, <1>12 DEF Slot
<1>21. ReachesItsSession'
  <2>1. ASSUME NEW x \in sent, x.n \notin crossed
        PROVE  /\ x.files = aim[x.n].files
               /\ aim[x.n].form = "composer" => x.to = aim[x.n].at
               /\ aim[x.n].form # "composer" =>
                     x.n \in DOMAIN made' /\ made'[x.n] = x.to /\ home'[x.to] = aim[x.n].at
    <3>1. x.to \in DOMAIN home
      BY DEF Homes
    <3> QED
      BY <1>6, <2>1, <3>1 DEF ReachesItsSession
  <2> QED
    BY <1>1, <2>1 DEF ReachesItsSession
<1>22. PromptFollows'
  BY <1>1 DEF PromptFollows
<1>23. SentOnce'
  <2>1. \A m, l \in DOMAIN made' : made'[m] = made'[l] => m = l
    BY <1>1, <1>6 DEF SentOnce, Homes
  <2>2. ASSUME NEW x \in sent, aim[x.n].form = "new"
        PROVE  \E m \in DOMAIN made' : made'[m] = x.to /\ ~Answering(m)'
    <3>1. PICK m \in DOMAIN made : made[m] = x.to /\ ~Answering(m)
      BY <2>2 DEF SentOnce
    <3> QED
      BY <1>5, <1>6, <1>12, <3>1
  <2>3. \A x, y \in sent : aim[x.n].form = "new" /\ aim[y.n].form = "new" => (x.n = y.n <=> x.to = y.to)
    BY DEF SentOnce, OnePromptEach
  <2>4. OnePromptEach'
    BY <1>1, <2>2, <2>3 DEF OnePromptEach
  <2> QED
    BY <1>1, <2>1, <2>2, <2>4 DEF SentOnce
<1> QED
  BY <1>13, <1>14, <1>15, <1>16, <1>17, <1>18, <1>19, <1>20, <1>21, <1>22, <1>23

\* The session reported is that of the prompt in the slot, or one of them is marked.
LEMMA CreatedStep ==
  ASSUME IInv, NEW a \in answers, Created(a)
  PROVE  IInv'
<1> DEFINE n == a.n
           s == a.s
           c == [kind |-> "input", n |-> queued.n, to |-> s, files |-> queued.files]
           i == [n |-> queued.n, to |-> s, files |-> queued.files]
<1> USE DEF IInv
<1>1. /\ answers' = answers \ {a}
      /\ view' = s /\ picked' = [picked EXCEPT !["composer"] = {}]
      /\ upload' = Detached("composer") /\ Cross("composer") /\ queued' = Nothing
      /\ heard' = heard \union {n} \/ heard' = heard
      /\ UNCHANGED <<choice, home, job, given, made, aim>>
  BY DEF Created, Shows, deskVars
<1>2. \/ queued # Nothing /\ frames' = Append(frames, c) /\ sent' = sent \union {i}
      \/ frames' = frames /\ sent' = sent
  BY DEF Created, SendInput
<1>3. answers' \subseteq answers /\ \A b \in answers' : b.n # n
  <2>1. \A b \in answers : b = [n |-> b.n, s |-> b.s]
    BY DEF QueueTypes
  <2>2. \A b \in answers : b.n = n => b = a
    BY <2>1 DEF OnceEach
  <2> QED
    BY <1>1, <2>2
<1>4. /\ n \in Numbers /\ s \in DOMAIN home /\ s \in Sessions /\ n \in DOMAIN made /\ made[n] = s
  BY DEF QueueTypes, Homes, PageTypes, OnceEach
<1>5. Numbers' = Numbers /\ crossed \subseteq crossed' /\ crossed' \subseteq Numbers
  BY <1>1, CrossesOwn DEF Numbers
<1>6. queued # Nothing => queued.n \in Numbers /\ queued.n \in Nat /\ queued.files \in SUBSET Files
  BY DEF PageTypes, Numbers
<1>7. /\ queued # Nothing => c \in Frames
      /\ c.kind = "input" /\ c.n = queued.n /\ c.to = s /\ c.files = queued.files
      /\ i.n = queued.n /\ i.to = s /\ i.files = queued.files
  BY <1>4, <1>6 DEF Frames
<1>8. /\ frames' \in Seq(Frames)
      /\ \A j \in 1..Len(frames) : j \in 1..Len(frames') /\ frames'[j] = frames[j]
      /\ \A j \in 1..Len(frames') : j \in 1..Len(frames) \/ (queued # Nothing /\ frames'[j] = c)
  <2>1. frames \in Seq(Frames)
    BY DEF QueueTypes
  <2>2. CASE queued # Nothing /\ frames' = Append(frames, c)
    BY <1>7, <2>1, <2>2, Appended
  <2>3. CASE frames' = frames
    BY <2>1, <2>3
  <2> QED
    BY <1>2, <2>2, <2>3
<1>9. \A m : /\ (Creating(m)' <=> Creating(m)) /\ (Answering(m)' => Answering(m) /\ m # n)
  <2>1. \A m : Creating(m)' <=> Creating(m)
    BY <1>7, <1>8 DEF Creating
  <2>2. \A m : Answering(m)' => Answering(m) /\ m # n
    BY <1>3 DEF Answering
  <2> QED
    BY <2>1, <2>2
<1>10. \A m : Pending(m)' => Pending(m) /\ m # n
  <2>1. ~Creating(n)
    BY <1>4 DEF Creating, OnceEach
  <2> QED
    BY <1>9, <2>1 DEF Pending
<1>11. Pending(n)
  BY DEF Pending, Answering
<1>12. PageTypes'
  <2>1. upload' # Nothing => upload' \in AnUpload /\ upload'.n = Len(aim)
    BY <1>1, DetachedKeeps DEF PageTypes
  <2>2. picked' \in [Forms -> SUBSET Files]
    BY <1>1 DEF PageTypes, Forms
  <2>3. heard' \subseteq Numbers
    BY <1>1, <1>4 DEF PageTypes
  <2> QED
    BY <1>1, <1>4, <1>5, <2>1, <2>2, <2>3 DEF PageTypes, AnUpload
<1>13. QueueTypes'
  <2>1. \A j \in 1..Len(frames') : frames'[j].n \in Numbers
    BY <1>6, <1>7, <1>8 DEF QueueTypes
  <2>2. answers' \subseteq [n : Nat, s : Sessions] /\ \A b \in answers' : b.n \in Numbers
    BY <1>3 DEF QueueTypes
  <2>3. sent' \subseteq [n : Nat, to : Sessions, files : SUBSET Files] /\ \A x \in sent' : x.n \in Numbers
    BY <1>2, <1>4, <1>6, <1>7 DEF QueueTypes
  <2> QED
    BY <1>1, <1>3, <1>5, <1>8, <2>1, <2>2, <2>3 DEF QueueTypes
<1>14. Homes'
  <2>1. \A j \in 1..Len(frames') : frames'[j].kind = "input" => frames'[j].to \in DOMAIN home
    BY <1>4, <1>7, <1>8 DEF Homes
  <2>2. \A b \in answers' : b.s \in DOMAIN home
    BY <1>3 DEF Homes
  <2>3. \A x \in sent' : x.to \in DOMAIN home
    BY <1>2, <1>4, <1>7 DEF Homes
  <2> QED
    BY <1>1, <2>1, <2>2, <2>3 DEF Homes
<1>15. Whole'
  <2>1. AsInput(c, c.files) = i
    BY DEF AsInput
  <2>2. \A j \in 1..Len(frames') : frames'[j].kind = "input" => AsInput(frames'[j], frames'[j].files) \in sent'
    BY <1>2, <1>8, <2>1 DEF Whole
  <2>3. sent \subseteq sent'
    BY <1>2
  <2> QED
    BY <1>1, <2>2, <2>3 DEF Whole, JobWhole, GivenWhole, FilesOf
<1>16. Fresh'
  <2> SUFFICES ASSUME upload' # Nothing
               PROVE  Fresh'
    BY DEF Fresh
  <2>1. upload # Nothing /\ upload'.n = upload.n
    BY <1>1, DetachedKeeps
  <2>2. /\ \A j \in 1..Len(frames) : frames[j].n # upload.n
        /\ ~Answering(upload.n) /\ (queued # Nothing => queued.n # upload.n)
        /\ upload.n \notin DOMAIN made /\ upload.n \notin heard
        /\ \A x \in sent : x.n # upload.n
    BY <2>1 DEF Fresh
  <2>3. \A j \in 1..Len(frames') : frames'[j].n # upload.n
    BY <1>7, <1>8, <2>2
  <2>4. \A x \in sent' : x.n # upload.n
    BY <1>2, <1>7, <2>2
  <2>5. n # upload.n
    BY <1>4, <2>2
  <2> QED
    BY <1>1, <1>9, <2>1, <2>2, <2>3, <2>4, <2>5 DEF Fresh
<1>17. UnderWay'
  <2> SUFFICES ASSUME upload' # Nothing
               PROVE  UnderWay'
    BY DEF UnderWay
  <2>1. /\ upload # Nothing /\ upload'.n = upload.n /\ upload'.form = upload.form
        /\ upload'.left = upload.left /\ upload'.done = upload.done
    BY <1>1, DetachedKeeps
  <2>2. upload.form = "composer" => upload.n \in crossed'
    BY <1>1, <2>1, CrossesOwn
  <2>3. upload.form \in Forms
    BY <2>1 DEF PageTypes
  <2>4. upload.form = "new" => Target(upload.form)' = Target(upload.form)
    BY <1>1, <2>1 DEF Target
  <2> QED
    BY <1>1, <1>5, <1>10, <2>1, <2>2, <2>3, <2>4 DEF UnderWay, Forms
<1>18. OnceEach'
  <2>1. ASSUME NEW j \in 1..Len(frames'), frames'[j].kind = "create"
        PROVE  /\ j \in 1..Len(frames) /\ frames'[j] = frames[j]
    BY <1>7, <1>8, <2>1
  <2>2. \A b \in answers' : b.n \in DOMAIN made /\ made[b.n] = b.s
    BY <1>3 DEF OnceEach
  <2> QED
    BY <1>1, <1>5, <2>1, <2>2 DEF OnceEach
<1>19. Slot'
  <2>1. ASSUME NEW m, Pending(m)', m \notin crossed'
        PROVE  FALSE
    <3>1. Pending(m) /\ m # n /\ m \notin crossed
      BY <1>5, <1>10, <2>1
    <3>2. queued # Nothing /\ queued.n = m
      BY <3>1 DEF Slot
    <3>3. n = queued.n
      BY <1>11, <3>1, <3>2 DEF Slot
    <3> QED
      BY <3>1, <3>2, <3>3
  <2> QED
    BY <1>1, <2>1 DEF Slot
<1>20. ReachesItsSession'
  <2>1. ASSUME queued # Nothing, queued.n \notin crossed'
        PROVE  /\ queued.files = aim[queued.n].files /\ aim[queued.n].form = "new"
               /\ queued.n \in DOMAIN made /\ made[queued.n] = s /\ home[s] = aim[queued.n].at
    <3>1. queued.n \notin crossed
      BY <1>5, <2>1
    <3>2. n = queued.n
      BY <1>11, <2>1, <3>1 DEF Slot
    <3> QED
      BY <1>4, <2>1, <3>1, <3>2 DEF Slot, OnceEach
  <2> QED
    BY <1>1, <1>2, <1>5, <1>7, <2>1 DEF ReachesItsSession
<1>21. PromptFollows'
  <2>1. ASSUME Linked, n \notin crossed'
        PROVE  \E x \in sent' : x.n = n
    <3>1. queued # Nothing /\ queued.n = n
      BY <1>5, <1>11, <2>1 DEF Slot
    <3>2. sent' = sent \union {i}
      BY <2>1, <3>1 DEF Created, SendInput
    <3> QED
      BY <1>7, <3>1, <3>2
  <2>2. ~Linked => heard' = heard
    BY DEF Created
  <2> QED
    BY <1>1, <1>2, <1>5, <2>1, <2>2 DEF PromptFollows
<1>22. SentOnce'
  <2>1. \A m : Answering(m)' => Answering(m) /\ m # n
    BY <1>9
  <2>2. CASE sent' = sent
    <3>1. OnePromptEach'
      BY <1>1, <2>2 DEF SentOnce, OnePromptEach
    <3> QED
      BY <1>1, <2>1, <2>2, <3>1 DEF SentOnce
  <2>3. CASE queued # Nothing /\ sent' = sent \union {i}
    <3>1. aim[queued.n].form = "new" /\ \A x \in sent : x.n # queued.n
      BY <2>3 DEF SentOnce
    <3>2. ASSUME NEW x \in sent, aim[x.n].form = "new" PROVE x.to # s
      <4>1. PICK m \in DOMAIN made : made[m] = x.to /\ ~Answering(m)
        BY <3>2 DEF SentOnce
      <4>2. Answering(n)
        BY DEF Answering
      <4> QED
        BY <1>4, <4>1, <4>2 DEF SentOnce
    <3>3. ASSUME NEW x \in sent', aim[x.n].form = "new"
          PROVE  \E m \in DOMAIN made : made[m] = x.to /\ ~Answering(m)'
      <4>1. CASE x \in sent
        BY <2>1, <3>3, <4>1 DEF SentOnce
      <4>2. CASE x = i
        BY <1>4, <1>7, <2>1, <4>2
      <4> QED
        BY <2>3, <4>1, <4>2
    <3>4. ASSUME NEW x \in sent', NEW y \in sent', aim[x.n].form = "new", aim[y.n].form = "new"
          PROVE  x.n = y.n <=> x.to = y.to
      <4>1. CASE x \in sent /\ y \in sent
        BY <3>4, <4>1 DEF SentOnce, OnePromptEach
      <4>2. CASE x = i /\ y = i
        BY <4>2
      <4>3. CASE x \in sent /\ y = i
        BY <1>7, <3>1, <3>2, <3>4, <4>3
      <4>4. CASE x = i /\ y \in sent
        BY <1>7, <3>1, <3>2, <3>4, <4>4
      <4> QED
        BY <2>3, <4>1, <4>2, <4>3, <4>4
    <3>5. OnePromptEach'
      BY <1>1, <3>3, <3>4 DEF OnePromptEach
    <3> QED
      BY <1>1, <3>3, <3>5 DEF SentOnce
  <2> QED
    BY <1>2, <2>2, <2>3
<1> QED
  BY <1>12, <1>13, <1>14, <1>15, <1>16, <1>17, <1>18, <1>19, <1>20, <1>21, <1>22

\* The first state satisfies the invariant.
LEMMA InputInit ==
  ASSUME Init
  PROVE  IInv
<1> USE DEF Init
<1>1. DOMAIN home \subseteq Sessions
  BY KnownAssumption
<1>2. PageTypes /\ QueueTypes
  BY <1>1 DEF PageTypes, QueueTypes
<1>3. /\ Homes /\ Whole /\ Fresh /\ UnderWay /\ OnceEach /\ Slot /\ SentOnce
      /\ ReachesItsSession /\ PromptFollows
  BY DEF Homes, Whole, JobWhole, GivenWhole, Fresh, UnderWay, OnceEach, Slot, SentOnce, Pending,
         Creating, Answering, ReachesItsSession, PromptFollows, OnePromptEach
<1> QED
  BY <1>2, <1>3 DEF IInv

\* Every step keeps the invariant.
LEMMA InputStep ==
  ASSUME IInv, [Next]_vars
  PROVE  IInv'
<1>1. CASE User
  BY <1>1, PickStep, UnpickStep, OpenStep, BackStep, ChooseStep, SubmitStep DEF User
<1>2. CASE Page
  BY <1>2, UploadStep, FailsStep, FinishInputStep, FinishNewStep, CreatedStep DEF Page
<1>3. CASE Relay
  <2>1. CASE Purge
    BY <2>1, UntouchedStep DEF Purge, pageVars
  <2>2. CASE \E u \in store : Expire(u)
    BY <2>2, UntouchedStep DEF Expire, pageVars
  <2>3. CASE Connect
    BY <2>3, UntouchedStep DEF Connect, pageVars
  <2> QED
    BY <1>3, <2>1, <2>2, <2>3, ListedStep, ConnectionLostStep, ReloadStep DEF Relay
<1>4. CASE Desktop
  BY <1>4, OverStep, TakeInputStep, GiveStep, CreateStep, FetchStep DEF Desktop
<1>5. CASE UNCHANGED vars
  BY <1>5, UntouchedStep DEF vars, pageVars
<1> QED
  BY <1>1, <1>2, <1>3, <1>4, <1>5 DEF Next

\* Codex gets an input the page has sent with all of its files, and files only in a
\* workspace that takes them, however uploads, connections and runs of the desktop end
\* (prepare_attachments).
THEOREM InputsAlwaysWhole == Spec => []InputsWhole
<1>1. IInv => InputsWhole
  BY DEF IInv, Whole, GivenWhole, InputsWhole
<1> QED
  BY InputInit, InputStep, <1>1, PTL DEF Spec

\* What was not marked goes with its files to the session it was written or created
\* for; a session that was created gets its prompt if the page had a connection when it
\* handled session.created; and, marked or not, no prompt is sent twice and no created
\* session gets two: for any number of submissions, losses and reloads, in whatever order
\* the answers are decrypted (queuedPrompt, handleRemoteMessage of session.created).
THEOREM SubmissionsAlwaysKeptApart == Spec => []SubmissionsKeptApart
<1>1. IInv => SubmissionsKeptApart
  BY DEF IInv, SentOnce, SubmissionsKeptApart
<1> QED
  BY InputInit, InputStep, <1>1, PTL DEF Spec

-----------------------------------------------------------------------------
(* The weight of a set of uploads. *)

\* Among the subsets of a finite set that have a property there is a smallest one.
LEMMA Smallest ==
  ASSUME NEW S, IsFiniteSet(S), NEW T \in SUBSET SUBSET S, T # {}
  PROVE  \E m \in T : \A k \in T : k \subseteq m => k = m
<1>1. T \in SUBSET FiniteSubsetsOf(S)
  <2>1. \A k \in T : k \in SUBSET S /\ IsFiniteSet(k)
    BY FS_Subset
  <2> QED
    BY <2>1 DEF FiniteSubsetsOf
<1>2. PICK m \in T : \A k \in T : ~(<<k, m>> \in StrictSubsetOrdering(S))
  BY <1>1, FS_StrictSubsetOrderingWellFounded, WFMin, Zenon
<1>3. ASSUME NEW k \in T, k \subseteq m, k # m
      PROVE  FALSE
  <2>1. <<k, m>> \in (SUBSET S) \X (SUBSET S)
    BY Zenon
  <2>2. <<k, m>> \in StrictSubsetOrdering(S)
    BY <1>3, <2>1, Zenon DEF StrictSubsetOrdering
  <2> QED
    BY <1>2, <2>2
<1> QED
  BY <1>2, <1>3

\* The element that a sum takes first.
Some(s) == CHOOSE u \in s : TRUE

\* What a sum over a set is defined by.
Sums(g, S) == g = [s \in SUBSET S |-> IF s = {} THEN 0 ELSE Size[Some(s).f] + g[s \ {Some(s)}]]

\* The weight is a value of such a function, if there is one.
LEMMA WeightIs ==
  ASSUME NEW S, NEW g, Sums(g, S)
  PROVE  \E h : Sums(h, S) /\ Weight(S) = h[S]
<1> DEFINE Is(h) == h = [s \in SUBSET S |-> IF s = {} THEN 0
                          ELSE Size[(CHOOSE u \in s : TRUE).f] + h[s \ {CHOOSE u \in s : TRUE}]]
<1>1. \A h : Is(h) <=> Sums(h, S)
  BY DEF Sums, Some
<1>2. \E h : Is(h)
  <2> HIDE DEF Is
  <2> QED
    BY <1>1
<1>3. Is(CHOOSE h : Is(h))
  BY <1>2
<1>4. Weight(S) = (CHOOSE h : Is(h))[S]
  BY DEF Weight, MapThenSumSet, MapThenFoldSet
<1> QED
  BY <1>1, <1>3, <1>4

\* Two such functions agree where both are defined.
LEMMA SumsAgree ==
  ASSUME NEW S, IsFiniteSet(S), NEW R \in SUBSET S, NEW g, Sums(g, S), NEW h, Sums(h, R)
  PROVE  \A s \in SUBSET R : g[s] = h[s]
<1> DEFINE T == {s \in SUBSET R : g[s] # h[s]}
<1> SUFFICES ASSUME T # {} PROVE FALSE
  OBVIOUS
<1>1. PICK m \in T : \A k \in T : k \subseteq m => k = m
  <2>1. IsFiniteSet(R) /\ T \in SUBSET SUBSET R
    BY FS_Subset
  <2> HIDE DEF T
  <2> QED
    BY <2>1, Smallest
<1>2. m \in SUBSET R /\ m \in SUBSET S
  OBVIOUS
<1>3. m # {}
  BY <1>1, <1>2 DEF Sums
<1>4. Some(m) \in m
  BY <1>3 DEF Some
<1> DEFINE r == m \ {Some(m)}
<1>5. r \in SUBSET R /\ r \subseteq m /\ r # m
  BY <1>2, <1>4
<1>6. g[r] = h[r]
  BY <1>1, <1>5
<1>7. g[m] = Size[Some(m).f] + g[r] /\ h[m] = Size[Some(m).f] + h[r]
  BY <1>2, <1>3 DEF Sums
<1> QED
  BY <1>1, <1>6, <1>7

\* There is one for every finite set, whose values are the weights.
LEMMA WeightSums ==
  ASSUME NEW S, IsFiniteSet(S)
  PROVE  Sums([s \in SUBSET S |-> Weight(s)], S)
<1> DEFINE G(A) == [s \in SUBSET A |-> Weight(s)]
           T == {A \in SUBSET S : ~Sums(G(A), A)}
<1> SUFFICES ASSUME T # {} PROVE FALSE
  OBVIOUS
<1>1. PICK A \in T : \A k \in T : k \subseteq A => k = A
  <2>1. T \in SUBSET SUBSET S
    OBVIOUS
  <2> HIDE DEF T
  <2> QED
    BY <2>1, Smallest
<1>2. A \in SUBSET S /\ IsFiniteSet(A)
  BY FS_Subset
<1>3. \A B \in SUBSET A : B # A => Sums(G(B), B)
  BY <1>1, <1>2
<1>4. PICK v : v = IF A = {} THEN 0 ELSE Size[Some(A).f] + Weight(A \ {Some(A)})
  OBVIOUS
<1> DEFINE g == [s \in SUBSET A |-> IF s = A THEN v ELSE Weight(s)]
<1>5. ASSUME NEW s \in SUBSET A
      PROVE  g[s] = IF s = {} THEN 0 ELSE Size[Some(s).f] + g[s \ {Some(s)}]
  <2>1. s # {} => Some(s) \in s /\ s \ {Some(s)} \in SUBSET A /\ s \ {Some(s)} # A
    BY DEF Some
  <2>2. CASE s = A
    BY <1>4, <2>1, <2>2
  <2>3. CASE s # A
    <3>1. Sums(G(s), s)
      BY <1>3, <2>3
    <3>2. s \in SUBSET s /\ s \ {Some(s)} \in SUBSET s
      OBVIOUS
    <3>3. Weight(s) = IF s = {} THEN 0 ELSE Size[Some(s).f] + Weight(s \ {Some(s)})
      BY <3>1, <3>2 DEF Sums
    <3> QED
      BY <2>1, <2>3, <3>3
  <2> QED
    BY <2>2, <2>3
<1>6. Sums(g, A)
  BY <1>5 DEF Sums
<1>7. PICK h : Sums(h, A) /\ Weight(A) = h[A]
  <2> HIDE DEF g
  <2> QED
    BY <1>6, WeightIs
<1>8. g[A] = h[A]
  <2> HIDE DEF g
  <2>1. A \in SUBSET A
    OBVIOUS
  <2> QED
    BY <1>2, <1>6, <1>7, <2>1, SumsAgree
<1>9. g = G(A)
  BY <1>7, <1>8
<1> QED
  BY <1>1, <1>6, <1>9

\* A weight is the size of any element and the weight of the others.
LEMMA WeightStep ==
  ASSUME NEW S, IsFiniteSet(S), \A u \in S : Size[u.f] \in Nat
  PROVE  \A A \in SUBSET S :
           /\ Weight(A) \in Nat
           /\ \A x \in A : Weight(A) = Size[x.f] + Weight(A \ {x})
<1> DEFINE Right(A) == Weight(A) \in Nat /\ \A x \in A : Weight(A) = Size[x.f] + Weight(A \ {x})
           T == {A \in SUBSET S : ~Right(A)}
<1> SUFFICES ASSUME T # {} PROVE FALSE
  OBVIOUS
<1>1. PICK A \in T : \A k \in T : k \subseteq A => k = A
  <2>1. T \in SUBSET SUBSET S
    OBVIOUS
  <2> HIDE DEF T
  <2> QED
    BY <2>1, Smallest
<1>2. A \in SUBSET S /\ ~Right(A)
  OBVIOUS
<1>3. ASSUME NEW x \in A
      PROVE  A \ {x} \in SUBSET S /\ Right(A \ {x})
  BY <1>1, <1>2
<1>4. A = {} => Weight(A) = 0
  BY <1>2, WeightSums DEF Sums
<1>5. A # {} => Some(A) \in A /\ Weight(A) = Size[Some(A).f] + Weight(A \ {Some(A)})
  <2>1. A # {} => Some(A) \in A /\ A \ {Some(A)} \in SUBSET S
    BY <1>2 DEF Some
  <2> DEFINE W == [s \in SUBSET S |-> Weight(s)]
  <2>2. A # {} => W[A] = Size[Some(A).f] + W[A \ {Some(A)}]
    <3>1. Sums(W, S)
      BY WeightSums
    <3> HIDE DEF W
    <3> QED
      BY <1>2, <3>1 DEF Sums
  <2> QED
    BY <1>2, <2>1, <2>2
<1>6. CASE A = {}
  BY <1>2, <1>4, <1>6
<1>7. CASE A # {}
  <2> DEFINE c == Some(A)
  <2>1. c \in A /\ Weight(A) = Size[c.f] + Weight(A \ {c})
    BY <1>5, <1>7
  <2>2. Weight(A \ {c}) \in Nat /\ Size[c.f] \in Nat
    BY <1>2, <1>3, <2>1
  <2>3. ASSUME NEW x \in A
        PROVE  Weight(A) = Size[x.f] + Weight(A \ {x})
    <3>1. CASE x = c
      BY <2>1, <3>1
    <3>2. CASE x # c
      <4>1. Size[x.f] \in Nat /\ x \in A \ {c} /\ c \in A \ {x}
        BY <1>2, <2>1, <3>2
      <4>2. Weight(A \ {c}) = Size[x.f] + Weight((A \ {c}) \ {x})
        BY <1>3, <2>1, <4>1
      <4>3. Weight(A \ {x}) = Size[c.f] + Weight((A \ {x}) \ {c})
        BY <1>3, <4>1
      <4>4. (A \ {x}) \ {c} = (A \ {c}) \ {x}
        OBVIOUS
      <4>5. Weight((A \ {x}) \ {c}) \in Nat
        <5>1. (A \ {x}) \ {c} # A /\ (A \ {x}) \ {c} \in SUBSET S /\ (A \ {x}) \ {c} \subseteq A
          BY <1>2
        <5> QED
          BY <1>1, <5>1
      <4>6. Weight((A \ {x}) \ {c}) = Weight((A \ {c}) \ {x})
        BY <4>4
      <4> DEFINE sx == Size[x.f]
                 sc == Size[c.f]
                 rest == Weight((A \ {c}) \ {x})
                 noc == Weight(A \ {c})
                 nox == Weight(A \ {x})
                 all == Weight(A)
      <4>7. all = sc + noc /\ noc = sx + rest /\ nox = sc + rest /\ {sx, sc, rest} \subseteq Nat
        BY <2>1, <2>2, <4>1, <4>2, <4>3, <4>5, <4>6
      <4> HIDE DEF sx, sc, rest, noc, nox, all
      <4>8. all = sx + nox
        BY <4>7
      <4> QED
        BY <4>8 DEF sx, nox, all
    <3> QED
      BY <3>1, <3>2
  <2> QED
    BY <1>2, <2>1, <2>2, <2>3
<1> QED
  BY <1>6, <1>7

\* What is taken out of a set and what stays weigh together what it weighed.
LEMMA WeightSplits ==
  ASSUME NEW S, IsFiniteSet(S), \A u \in S : Size[u.f] \in Nat, NEW R \in SUBSET S
  PROVE  Weight(S \ R) \in Nat /\ Weight(R) \in Nat /\ Weight(S) = Weight(S \ R) + Weight(R)
<1> DEFINE T == {A \in SUBSET R : Weight(S) # Weight(S \ A) + Weight(A)}
<1>0. /\ \A A \in SUBSET S : Weight(A) \in Nat /\ \A x \in A : Weight(A) = Size[x.f] + Weight(A \ {x})
      /\ IsFiniteSet(R)
  BY WeightStep, FS_Subset
<1> SUFFICES ASSUME T # {} PROVE FALSE
  BY <1>0
<1>1. PICK A \in T : \A k \in T : k \subseteq A => k = A
  <2>1. T \in SUBSET SUBSET R
    OBVIOUS
  <2> HIDE DEF T
  <2> QED
    BY <1>0, <2>1, Smallest
<1>2. A \in SUBSET R /\ Weight(S) # Weight(S \ A) + Weight(A)
  OBVIOUS
<1>3. A # {}
  <2>1. Weight({}) = 0
    BY WeightSums DEF Sums
  <2>2. S \ {} = S /\ Weight(S) \in Nat
    BY <1>0
  <2>3. Weight(S) = Weight(S \ {}) + Weight({})
    BY <2>1, <2>2
  <2> QED
    BY <1>2, <2>3
<1>4. PICK x \in A : TRUE
  BY <1>3
<1>5. Weight(S) = Weight(S \ (A \ {x})) + Weight(A \ {x})
  <2>1. A \ {x} \in SUBSET R /\ A \ {x} # A /\ A \ {x} \subseteq A
    BY <1>2, <1>4
  <2> QED
    BY <1>1, <2>1
<1>6. Weight(A) = Size[x.f] + Weight(A \ {x})
  BY <1>0, <1>2, <1>4
<1>7. Weight(S \ (A \ {x})) = Size[x.f] + Weight(S \ A)
  <2>1. S \ (A \ {x}) \in SUBSET S /\ x \in S \ (A \ {x}) /\ (S \ (A \ {x})) \ {x} = S \ A
    BY <1>2, <1>4
  <2> QED
    BY <1>0, <2>1
<1>8. Size[x.f] \in Nat /\ Weight(S \ A) \in Nat /\ Weight(A \ {x}) \in Nat
  <2>1. S \ A \in SUBSET S /\ A \ {x} \in SUBSET S /\ x \in S
    BY <1>2, <1>4
  <2> QED
    BY <1>0, <2>1
<1> QED
  BY <1>2, <1>5, <1>6, <1>7, <1>8


-----------------------------------------------------------------------------
(* The store of uploads. *)

\* The count of bytes is what the store holds, and the store holds no more than it may.
StoreCounted ==
  /\ IsFiniteSet(store) /\ store \subseteq [n : Numbers, f : Files, old : BOOLEAN]
  /\ bytes = Weight(store) /\ bytes <= StoreLimit

\* A file of a submission is stored once.
StoredOnce == \A u, v \in store : u.n = v.n /\ u.f = v.f => u = v

\* What is still to be uploaded is not stored.  As long as the upload shares the list of
\* its form it uploads what is picked, so no file that is picked then was uploaded before.
NotYetStored == upload # Nothing =>
  /\ upload.left \intersect upload.done = {}
  /\ upload.shared => upload.left \union upload.done = picked[upload.form]
  /\ \A u \in store : u.n = upload.n => u.f \in upload.done

\* What was handed out was not too old and is gone.
GoneOnceGot == job # Nothing =>
  \A u \in job.got : ~u.old /\ ~\E v \in store : v.n = job.n /\ v.f = u.f

StoreInv == StoreCounted /\ StoredOnce /\ NotYetStored /\ GoneOnceGot

\* A part of the store is finite and has a weight, and with an upload more it weighs more.
LEMMA Weighs ==
  ASSUME StoreInv, NEW R \in SUBSET store
  PROVE  /\ IsFiniteSet(R) /\ Weight(R) \in Nat /\ Weight(store \ R) \in Nat
         /\ Weight(store) = Weight(store \ R) + Weight(R)
         /\ \A u \in R : /\ Weight(R) = Weight(R \ {u}) + Size[u.f]
                         /\ Size[u.f] \in Nat /\ Weight(R \ {u}) \in Nat
<1>1. \A u \in store : Size[u.f] \in Nat
  BY SizeAssumption DEF StoreInv, StoreCounted
<1>2. IsFiniteSet(store)
  BY DEF StoreInv, StoreCounted
<1>3. IsFiniteSet(R)
  BY <1>2, FS_Subset
<1>4. Weight(R) \in Nat /\ Weight(store \ R) \in Nat /\ Weight(store) = Weight(store \ R) + Weight(R)
  BY <1>1, <1>2, WeightSplits
<1>5. ASSUME NEW u \in R
      PROVE  Weight(R) = Weight(R \ {u}) + Size[u.f] /\ Size[u.f] \in Nat /\ Weight(R \ {u}) \in Nat
  <2>1. R \ {u} \in SUBSET R /\ R \in SUBSET R /\ \A v \in R : Size[v.f] \in Nat
    BY <1>1
  <2>2. Weight(R) = Size[u.f] + Weight(R \ {u}) /\ Weight(R \ {u}) \in Nat
    BY <1>3, <2>1, WeightStep
  <2> QED
    BY <2>1, <2>2
<1> QED
  BY <1>3, <1>4, <1>5

\* With one more upload a set weighs so much more.
LEMMA WeighsMore ==
  ASSUME NEW R, IsFiniteSet(R), \A v \in R : Size[v.f] \in Nat, NEW u, u \notin R, Size[u.f] \in Nat
  PROVE  IsFiniteSet(R \union {u}) /\ Weight(R \union {u}) = Weight(R) + Size[u.f] /\ Weight(R) \in Nat
<1> DEFINE A == R \union {u}
<1>1. IsFiniteSet(A)
  BY FS_AddElement
<1>2. A \in SUBSET A /\ R \in SUBSET A /\ A \ {u} = R /\ u \in A /\ \A v \in A : Size[v.f] \in Nat
  OBVIOUS
<1>3. Weight(A) = Size[u.f] + Weight(A \ {u}) /\ Weight(R) \in Nat
  <2> HIDE DEF A
  <2> QED
    BY <1>1, <1>2, WeightStep
<1>4. Weight(A \ {u}) = Weight(R)
  BY <1>2
<1> HIDE DEF A
<1>5. Weight(A) = Weight(R) + Size[u.f]
  BY <1>3, <1>4
<1> QED
  BY <1>1, <1>3, <1>5 DEF A

\* The first state satisfies it.
LEMMA StoreInit ==
  ASSUME Init
  PROVE  StoreInv
<1>1. Weight({}) = 0
  BY FS_EmptySet, WeightSums DEF Sums
<1>2. StoreCounted
  BY <1>1, FS_EmptySet, LimitAssumption DEF Init, StoreCounted
<1> QED
  BY <1>2 DEF Init, StoreInv, StoredOnce, NotYetStored, GoneOnceGot

\* An input that the desktop works on has left the page before.
LEMMA JobIsSent ==
  ASSUME IInv, job # Nothing
  PROVE  job.n \in Numbers /\ (upload # Nothing => job.n # upload.n)
<1>1. PICK x \in sent : x.n = job.n
  BY DEF IInv, Whole, JobWhole, AsInput
<1> QED
  BY <1>1 DEF IInv, QueueTypes, Fresh

\* Without what has expired the count is right, and there is room for what the store takes.
LEMMA PurgedRight ==
  ASSUME StoreInv
  PROVE  /\ Purged.uploads \in SUBSET store /\ IsFiniteSet(Purged.uploads)
         /\ Purged.bytes = Weight(Purged.uploads) /\ Purged.bytes \in Nat /\ Purged.bytes <= StoreLimit
         /\ \A u \in Purged.uploads : ~u.old
<1>1. Old \in SUBSET store /\ store \ Old \in SUBSET store
  BY DEF Old
<1>2. Weight(Old) \in Nat /\ Weight(store \ Old) \in Nat /\ Weight(store) = Weight(store \ Old) + Weight(Old)
  BY <1>1, Weighs
<1>3. IsFiniteSet(store \ Old)
  BY <1>1, Weighs
<1>4. bytes = Weight(store) /\ bytes <= StoreLimit /\ StoreLimit \in Nat
  BY LimitAssumption DEF StoreInv, StoreCounted
<1>5. Purged.uploads = store \ Old /\ Purged.bytes = bytes - Weight(Old)
  BY DEF Purged
<1>6. \A u \in store \ Old : ~u.old
  BY DEF Old
<1>7. Purged.bytes = Weight(store \ Old)
  BY <1>2, <1>4, <1>5
<1>8. Purged.bytes <= StoreLimit
  BY <1>2, <1>4, <1>7
<1> QED
  BY <1>1, <1>2, <1>3, <1>5, <1>6, <1>7, <1>8

\* What was handed out stays gone when the store only loses.
LEMMA StillGone ==
  ASSUME StoreInv, store' \in SUBSET store, job' = job
  PROVE  GoneOnceGot' /\ StoredOnce'
  BY DEF StoreInv, GoneOnceGot, StoredOnce

\* A part of the store that is counted rightly is as it should be.
LEMMA SmallerStore ==
  ASSUME IInv, StoreInv, store' \in SUBSET store, bytes' = Weight(store'), bytes' <= StoreLimit,
         Numbers \subseteq Numbers'
  PROVE  StoreCounted'
<1>1. IsFiniteSet(store')
  BY FS_Subset DEF StoreInv, StoreCounted
<1> QED
  BY <1>1 DEF StoreInv, StoreCounted

\* A file that is put was not stored before, and is counted.
LEMMA PutRight ==
  ASSUME IInv, StoreInv, NEW f \in Files, upload # Nothing, f \in upload.left, Put(f),
         job' = job, aim' = aim
  PROVE  /\ StoreCounted' /\ StoredOnce' /\ GoneOnceGot'
         /\ \A u \in store' : u \in store \/ u.f = f
<1> DEFINE new == [n |-> upload.n, f |-> f, old |-> FALSE]
           kept == Purged.uploads
<1>1. /\ kept \in SUBSET store /\ IsFiniteSet(kept) /\ Purged.bytes = Weight(kept)
      /\ Purged.bytes + Size[f] <= StoreLimit
  BY PurgedRight DEF Put, Fits
<1>2. upload.n \in Numbers /\ new \in [n : Numbers, f : Files, old : BOOLEAN]
  BY DEF IInv, PageTypes
<1>3. \A u \in store : ~(u.n = upload.n /\ u.f = f)
  BY DEF StoreInv, NotYetStored
<1>4. new \notin kept
  BY <1>1, <1>3
<1>5. \A u \in kept : Size[u.f] \in Nat
  BY <1>1, SizeAssumption DEF StoreInv, StoreCounted
<1>6. Size[f] \in Nat
  BY SizeAssumption
<1>7. store' = kept \union {new} /\ bytes' = Purged.bytes + Size[f]
  BY DEF Put
<1> HIDE DEF kept
<1>8. IsFiniteSet(store') /\ Weight(store') = Weight(kept) + Size[f]
  <2>1. new.f = f
    OBVIOUS
  <2> HIDE DEF new
  <2> QED
    BY <1>1, <1>4, <1>5, <1>6, <1>7, <2>1, WeighsMore
<1>9. bytes' = Weight(store') /\ bytes' <= StoreLimit
  BY <1>1, <1>7, <1>8
<1>10. Numbers' = Numbers
  BY DEF Numbers
<1>11. StoreCounted'
  BY <1>1, <1>2, <1>7, <1>8, <1>9, <1>10 DEF StoreInv, StoreCounted
<1>12. new.n = upload.n /\ new.f = f
  OBVIOUS
<1> HIDE DEF new
<1>13. StoredOnce'
  BY <1>1, <1>3, <1>7, <1>12 DEF StoreInv, StoredOnce
<1>14. GoneOnceGot'
  BY <1>1, <1>7, <1>12, JobIsSent DEF StoreInv, GoneOnceGot
<1> QED
  BY <1>1, <1>7, <1>11, <1>12, <1>13, <1>14

\* What is handed out is new enough, leaves nothing of its name, and is not counted any more.
LEMMA ConsumeRight ==
  ASSUME IInv, StoreInv, NEW u \in store, Consume(u), aim' = aim
  PROVE  /\ StoreCounted' /\ StoredOnce' /\ store' \in SUBSET store /\ ~u.old
         /\ \A v \in store' : ~(v.n = u.n /\ v.f = u.f)
<1> DEFINE kept == Purged.uploads
<1>1. /\ kept \in SUBSET store /\ u \in kept /\ ~u.old
      /\ Purged.bytes = Weight(kept) /\ Purged.bytes <= StoreLimit /\ StoreLimit \in Nat
  BY PurgedRight, LimitAssumption DEF Consume
<1>2. store' = kept \ {u} /\ bytes' = Purged.bytes - Size[u.f]
  BY DEF Consume
<1> HIDE DEF kept
<1>3. Weight(kept) = Weight(kept \ {u}) + Size[u.f] /\ Size[u.f] \in Nat /\ Weight(kept \ {u}) \in Nat
  BY <1>1, Weighs
<1>4. bytes' = Weight(store') /\ bytes' <= StoreLimit
  <2>1. Weight(store') = Weight(kept \ {u})
    BY <1>2
  <2> QED
    BY <1>1, <1>2, <1>3, <2>1
<1>5. store' \in SUBSET store /\ Numbers' = Numbers
  BY <1>1, <1>2 DEF Numbers
<1>6. StoreCounted'
  BY <1>4, <1>5, SmallerStore
<1>7. StoredOnce'
  BY <1>5 DEF StoreInv, StoredOnce
<1>8. \A v \in store' : ~(v.n = u.n /\ v.f = u.f)
  BY <1>1, <1>2 DEF StoreInv, StoredOnce
<1> QED
  BY <1>1, <1>5, <1>6, <1>7, <1>8

\* Steps that leave the store alone.
LEMMA StoreKept ==
  ASSUME IInv, StoreInv, UNCHANGED storeVars, Numbers \subseteq Numbers',
         job' = job \/ job' = Nothing \/ job'.got = {}, NotYetStored'
  PROVE  StoreInv'
<1>1. StoreCounted'
  BY DEF StoreInv, StoreCounted, storeVars
<1>2. StoredOnce'
  BY DEF StoreInv, StoredOnce, storeVars
<1>3. GoneOnceGot'
  BY DEF StoreInv, GoneOnceGot, storeVars
<1> QED
  BY <1>1, <1>2, <1>3 DEF StoreInv

\* An upload that lost its list, or has kept it, has not stored what is left.
LEMMA DetachedStores ==
  ASSUME IInv, StoreInv, store' = store, NEW form \in Forms, upload' = Detached(form),
         \A g \in Forms : g # form => picked'[g] = picked[g]
  PROVE  NotYetStored'
<1> SUFFICES ASSUME upload' # Nothing
             PROVE  /\ upload'.left \intersect upload'.done = {}
                    /\ upload'.shared => upload'.left \union upload'.done = picked'[upload'.form]
                    /\ \A u \in store' : u.n = upload'.n => u.f \in upload'.done
  BY DEF NotYetStored
<1>1. upload # Nothing /\ upload'.n = upload.n /\ upload'.form = upload.form
      /\ upload'.left = upload.left /\ upload'.done = upload.done
  BY DetachedKeeps
<1>2. upload \in AnUpload
  BY <1>1 DEF IInv, PageTypes, AnUpload
<1>3. upload'.shared => upload' = upload /\ upload.form # form
  BY <1>1, <1>2 DEF Detached, Uploading, AnUpload
<1> QED
  BY <1>1, <1>2, <1>3 DEF StoreInv, NotYetStored, AnUpload

\* A file that is picked while its form is being sent was not uploaded before.
LEMMA PickStores ==
  ASSUME IInv, StoreInv, NEW form \in Forms, NEW f \in Files, Pick(form, f)
  PROVE  NotYetStored'
<1> USE DEF Pick
<1>0. picked \in [Forms -> SUBSET Files] /\ upload # Nothing => upload \in AnUpload
  BY DEF IInv, PageTypes, AnUpload
<1>1. CASE upload # Nothing /\ upload.form = form /\ upload.shared
  <2>1. upload' = [upload EXCEPT !.left = upload.left \union {f}] /\ store' = store
    BY <1>1 DEF Uploading, storeVars
  <2>2. upload \in AnUpload
    BY <1>1 DEF IInv, PageTypes, AnUpload
  <2>3. /\ upload'.left = upload.left \union {f} /\ upload'.done = upload.done
        /\ upload'.n = upload.n /\ upload'.form = form
    BY <1>1, <2>1, <2>2 DEF AnUpload
  <2>4. picked'[form] = picked[form] \union {f} /\ f \notin picked[form]
    BY DEF IInv, PageTypes
  <2>5. upload.left \union upload.done = picked[form] /\ upload.left \intersect upload.done = {}
    BY <1>1 DEF StoreInv, NotYetStored
  <2> QED
    BY <1>1, <2>1, <2>3, <2>4, <2>5 DEF StoreInv, NotYetStored
<1>2. CASE ~(upload # Nothing /\ upload.form = form /\ upload.shared)
  <2>1. upload' = upload /\ store' = store
    BY <1>2 DEF Uploading, storeVars
  <2>2. \A g \in Forms : g # form => picked'[g] = picked[g]
    BY DEF IInv, PageTypes
  <2>3. upload # Nothing /\ upload.shared => picked'[upload.form] = picked[upload.form]
    BY <1>2, <2>2 DEF IInv, PageTypes
  <2> QED
    BY <2>1, <2>3 DEF StoreInv, NotYetStored
<1> QED
  BY <1>1, <1>2

\* What the user does keeps the store right.
LEMMA UserStores ==
  ASSUME IInv, StoreInv, User
  PROVE  StoreInv'
<1>0. /\ UNCHANGED storeVars /\ job' = job
      /\ (\E form \in Forms : Submit(form)) \/ aim' = aim
  BY DEF User, Pick, Unpick, Open, Back, ChooseWorkspace, Submit, deskVars
<1>1. Numbers \subseteq Numbers'
  <2>1. CASE aim' = aim
    BY <2>1 DEF Numbers
  <2>2. CASE \E form \in Forms : Submit(form)
    <3>1. Len(aim) \in Nat /\ Len(aim') = Len(aim) + 1
      BY <2>2 DEF Submit, IInv, PageTypes
    <3> QED
      BY <3>1 DEF Numbers
  <2> QED
    BY <1>0, <2>1, <2>2
<1>2. store' = store
  BY <1>0 DEF storeVars
<1>3. NotYetStored'
  <2>1. ASSUME NEW form \in Forms, NEW f \in Files, Unpick(form, f)
        PROVE  NotYetStored'
    <3>1. upload' = Detached(form) /\ \A g \in Forms : g # form => picked'[g] = picked[g]
      BY <2>1 DEF Unpick, IInv, PageTypes
    <3> QED
      BY <1>2, <3>1, DetachedStores
  <2>2. ASSUME NEW s \in Sessions, Open(s)
        PROVE  NotYetStored'
    <3>1. upload' = Detached("composer") /\ \A g \in Forms : g # "composer" => picked'[g] = picked[g]
      BY <2>2 DEF Open, Shows, IInv, PageTypes
    <3>2. "composer" \in Forms
      BY DEF Forms
    <3> QED
      BY <1>2, <3>1, <3>2, DetachedStores
  <2>3. CASE Back
    BY <1>2, <2>3 DEF Back, StoreInv, NotYetStored
  <2>4. ASSUME NEW w \in Workspaces, ChooseWorkspace(w)
        PROVE  NotYetStored'
    <3>1. upload' = Detached("new") /\ \A g \in Forms : g # "new" => picked'[g] = picked[g]
      BY <2>4 DEF ChooseWorkspace, IInv, PageTypes
    <3>2. "new" \in Forms
      BY DEF Forms
    <3> QED
      BY <1>2, <3>1, <3>2, DetachedStores
  <2>5. ASSUME NEW form \in Forms, Submit(form)
        PROVE  NotYetStored'
    <3>1. /\ upload' = [n |-> Len(aim) + 1, form |-> form, left |-> picked[form], done |-> {}, shared |-> TRUE]
          /\ picked' = picked
      BY <2>5 DEF Submit
    <3>2. \A u \in store' : u.n # upload'.n
      BY <1>2, <3>1 DEF StoreInv, StoreCounted, Numbers, IInv, PageTypes
    <3>3. upload'.left = picked[form] /\ upload'.done = {} /\ upload'.form = form
      BY <3>1
    <3> QED
      BY <3>1, <3>2, <3>3 DEF NotYetStored
  <2> QED
    BY <2>1, <2>2, <2>3, <2>4, <2>5, PickStores DEF User
<1> QED
  BY <1>0, <1>1, <1>3, StoreKept

\* So does the page: what it puts is taken from what is left.
LEMMA PageStores ==
  ASSUME IInv, StoreInv, Page
  PROVE  StoreInv'
<1>0. aim' = aim /\ job' = job
  BY DEF Page, UploadFile, UploadFails, FinishInput, FinishNew, FinishFails, Created, deskVars, pageLog
<1>1. ASSUME NEW f \in Files, UploadFile(f)
      PROVE  StoreInv'
  <2>1. upload # Nothing /\ f \in upload.left /\ Put(f) /\ picked' = picked
    BY <1>1 DEF UploadFile
  <2>2. /\ StoreCounted' /\ StoredOnce' /\ GoneOnceGot'
        /\ \A u \in store' : u \in store \/ u.f = f
    BY <1>0, <2>1, PutRight
  <2>3. /\ upload'.left = upload.left \ {f} /\ upload'.done = upload.done \union {f}
        /\ upload'.n = upload.n /\ upload'.form = upload.form /\ upload'.shared = upload.shared
    BY <1>1 DEF UploadFile, IInv, PageTypes
  <2>4. NotYetStored'
    BY <2>1, <2>2, <2>3 DEF StoreInv, NotYetStored
  <2> QED
    BY <2>2, <2>4 DEF StoreInv
<1>2. ASSUME NEW f \in Files, UploadFails(f)
      PROVE  StoreInv'
  <2>1. upload # Nothing /\ f \in upload.left /\ upload' = Nothing
    BY <1>2 DEF UploadFails, Fails
  <2>2. NotYetStored'
    BY <2>1 DEF NotYetStored
  <2>3. CASE Put(f)
    BY <1>0, <2>1, <2>2, <2>3, PutRight DEF StoreInv
  <2>4. CASE UNCHANGED <<store, bytes>>
    BY <1>0, <2>2, <2>4, StoreKept DEF storeVars, Numbers
  <2> QED
    BY <1>2, <2>3, <2>4 DEF UploadFails
<1>3. ASSUME FinishInput \/ FinishNew \/ FinishFails
      PROVE  StoreInv'
  <2>1. UNCHANGED storeVars /\ upload' = Nothing
    BY <1>3 DEF FinishInput, FinishNew, FinishFails, Fails
  <2>2. NotYetStored'
    BY <2>1 DEF NotYetStored
  <2> QED
    BY <1>0, <2>1, <2>2, StoreKept DEF Numbers
<1>4. ASSUME NEW a \in answers, Created(a)
      PROVE  StoreInv'
  <2>1. /\ UNCHANGED storeVars /\ store' = store /\ upload' = Detached("composer")
        /\ \A g \in Forms : g # "composer" => picked'[g] = picked[g]
    BY <1>4 DEF Created, Shows, storeVars, IInv, PageTypes
  <2>2. "composer" \in Forms
    BY DEF Forms
  <2>3. NotYetStored'
    BY <2>1, <2>2, DetachedStores
  <2> QED
    BY <1>0, <2>1, <2>3, StoreKept DEF Numbers
<1> QED
  BY <1>1, <1>2, <1>3, <1>4 DEF Page

\* Steps of the relay: time, purges and connections.
LEMMA RelayStores ==
  ASSUME IInv, StoreInv, Relay
  PROVE  StoreInv'
<1>0. aim' = aim /\ job' = job /\ Numbers' = Numbers
  BY DEF Relay, Purge, Expire, Connect, Listed, ConnectionLost, Reload, deskVars, pageLog, Numbers
<1>1. CASE Purge
  <2>1. store' \in SUBSET store /\ bytes' = Weight(store') /\ bytes' <= StoreLimit
    BY <1>1, PurgedRight DEF Purge
  <2>2. StoreCounted' /\ StoredOnce' /\ GoneOnceGot'
    BY <1>0, <2>1, SmallerStore, StillGone
  <2>3. NotYetStored'
    BY <1>1, <2>1 DEF Purge, pageVars, StoreInv, NotYetStored
  <2> QED
    BY <2>2, <2>3 DEF StoreInv
<1>2. ASSUME NEW u \in store, Expire(u)
      PROVE  StoreInv'
  <2> DEFINE old == [u EXCEPT !.old = TRUE]
             kept == store \ {u}
  <2>1. u \in [n : Numbers, f : Files, old : BOOLEAN]
    BY DEF StoreInv, StoreCounted
  <2>2. old \in [n : Numbers, f : Files, old : BOOLEAN] /\ old.n = u.n /\ old.f = u.f
    BY <2>1
  <2>3. store' = kept \union {old} /\ bytes' = bytes
    BY <1>2 DEF Expire
  <2>4. kept \in SUBSET store /\ store \in SUBSET store /\ \A v \in kept : ~(v.n = u.n /\ v.f = u.f)
    BY DEF StoreInv, StoredOnce
  <2>5. old \notin kept
    BY <2>2, <2>4
  <2>6. /\ IsFiniteSet(kept) /\ Weight(store) = Weight(kept) + Size[u.f] /\ Size[u.f] \in Nat
        /\ \A v \in kept : Size[v.f] \in Nat
    BY <2>4, Weighs
  <2> HIDE DEF old, kept
  <2>7. IsFiniteSet(store') /\ Weight(store') = Weight(store)
    <3>1. IsFiniteSet(kept \union {old}) /\ Weight(kept \union {old}) = Weight(kept) + Size[old.f]
      BY <2>2, <2>5, <2>6, WeighsMore
    <3> QED
      BY <2>2, <2>3, <2>6, <3>1
  <2>8. StoreCounted'
    BY <1>0, <2>2, <2>3, <2>4, <2>7 DEF StoreInv, StoreCounted
  <2>9. StoredOnce' /\ GoneOnceGot'
    BY <1>0, <2>2, <2>3, <2>4 DEF StoreInv, StoredOnce, GoneOnceGot
  <2>10. NotYetStored'
    BY <1>2, <2>2, <2>3, <2>4 DEF Expire, pageVars, StoreInv, NotYetStored
  <2> QED
    BY <2>8, <2>9, <2>10 DEF StoreInv
<1>3. CASE Connect \/ Listed \/ ConnectionLost \/ Reload
  <2>1. UNCHANGED storeVars /\ (UNCHANGED <<picked, upload>> \/ upload' = Nothing)
    BY <1>3 DEF Connect, Listed, ConnectionLost, Reload
  <2>2. NotYetStored'
    BY <2>1 DEF StoreInv, NotYetStored, storeVars
  <2> QED
    BY <1>0, <2>1, <2>2, StoreKept
<1> QED
  BY <1>1, <1>2, <1>3 DEF Relay

\* Steps of the desktop: what it is handed is gone.
LEMMA DesktopStores ==
  ASSUME IInv, StoreInv, Desktop
  PROVE  StoreInv'
<1>0. aim' = aim /\ UNCHANGED pageVars
  BY DEF Desktop, DesktopRestarts, TakeInput, Refuse, Give, Decline, Create, Fetch, FetchFails, pageLog
<1>1. ASSUME store' \in SUBSET store
      PROVE  NotYetStored'
  BY <1>0, <1>1 DEF StoreInv, NotYetStored, pageVars
<1>2. ASSUME NEW f \in Files, Fetch(f)
      PROVE  StoreInv'
  <2>1. PICK u \in store : Named(u, f) /\ Consume(u) /\ job' = [job EXCEPT !.left = @ \ {f}, !.got = @ \union {u}]
    BY <1>2 DEF Fetch
  <2>2. /\ StoreCounted' /\ StoredOnce' /\ store' \in SUBSET store /\ ~u.old
        /\ \A v \in store' : ~(v.n = u.n /\ v.f = u.f)
    BY <1>0, <2>1, ConsumeRight
  <2>3. job # Nothing /\ u.n = job.n
    BY <1>2, <2>1 DEF Fetch, Named
  <2>4. job'.n = job.n /\ job'.got = job.got \union {u}
    <3>1. job = [n |-> job.n, to |-> job.to, left |-> job.left, got |-> job.got]
      BY <2>3 DEF IInv, Whole, JobWhole
    <3> QED
      BY <2>1, <3>1
  <2>5. GoneOnceGot'
    BY <2>2, <2>3, <2>4 DEF StoreInv, GoneOnceGot
  <2> QED
    BY <1>1, <2>2, <2>5 DEF StoreInv
<1>3. ASSUME NEW f \in Files, FetchFails(f)
      PROVE  StoreInv'
  <2>1. GoneOnceGot'
    BY <1>3 DEF FetchFails, GoneOnceGot
  <2>2. CASE \E u \in store : Named(u, f) /\ Consume(u)
    <3>1. PICK u \in store : Consume(u)
      BY <2>2
    <3>2. StoreCounted' /\ StoredOnce' /\ store' \in SUBSET store
      BY <1>0, <3>1, ConsumeRight
    <3> QED
      BY <1>1, <2>1, <3>2 DEF StoreInv
  <2>3. CASE UNCHANGED storeVars
    BY <1>0, <1>1, <1>3, <2>3, StoreKept DEF FetchFails, storeVars, Numbers
  <2> QED
    BY <1>3, <2>2, <2>3 DEF FetchFails
<1>4. ASSUME DesktopRestarts \/ TakeInput \/ Refuse \/ Give \/ Decline \/ (\E s \in Sessions : Create(s))
      PROVE  StoreInv'
  <2>1. UNCHANGED storeVars
    BY <1>4 DEF DesktopRestarts, TakeInput, Refuse, Give, Decline, Create
  <2>2. TakeInput => job'.got = {}
    BY DEF TakeInput
  <2>3. DesktopRestarts \/ Give \/ Decline => job' = Nothing
    BY DEF DesktopRestarts, Give, Decline
  <2>4. Refuse \/ (\E s \in Sessions : Create(s)) => job' = job
    BY DEF Refuse, Create, deskVars
  <2> QED
    BY <1>0, <1>1, <1>4, <2>1, <2>2, <2>3, <2>4, StoreKept DEF storeVars, Numbers
<1> QED
  BY <1>2, <1>3, <1>4 DEF Desktop

\* Every step keeps the store right.
LEMMA StoreStep ==
  ASSUME IInv, StoreInv, [Next]_vars
  PROVE  StoreInv'
<1>1. CASE UNCHANGED vars
  <2>1. UNCHANGED storeVars /\ Numbers' = Numbers /\ job' = job
    BY <1>1 DEF vars, deskVars, pageLog, Numbers
  <2>2. NotYetStored'
    BY <1>1 DEF vars, pageVars, storeVars, StoreInv, NotYetStored
  <2> QED
    BY <2>1, <2>2, StoreKept
<1> QED
  BY <1>1, UserStores, PageStores, RelayStores, DesktopStores DEF Next

\* The relay hands an upload out once and never after its time, and it refuses none for
\* files that are gone, for any number and size of files, and however they are put,
\* fetched, purged and forgotten (EncryptedUploadStore).
THEOREM UploadsAlwaysOneShot == Spec => []UploadsOneShot
<1>1. StoreInv => UploadsOneShot
  BY DEF StoreInv, StoreCounted, GoneOnceGot, UploadsOneShot, Named
<1>2. Init => IInv /\ StoreInv
  BY InputInit, StoreInit
<1>3. IInv /\ StoreInv /\ [Next]_vars => IInv' /\ StoreInv'
  BY InputStep, StoreStep
<1> QED
  BY <1>1, <1>2, <1>3, PTL DEF Spec

=============================================================================
