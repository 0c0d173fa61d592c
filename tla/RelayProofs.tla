----------------------------- MODULE RelayProofs -----------------------------
(***************************************************************************)
(* What the relay keeps for every number of sockets, phones, desktops and  *)
(* pairings.  Of its registries: they are exact, so the late close of a    *)
(* replaced connection harms nobody; what the clients were told agrees     *)
(* with them; and no pairing outlives the connections of its parties.  The *)
(* inductive invariant is their conjunction: who a message reaches is read *)
(* from the registries, so the views rest on the registries being exact,   *)
(* and these on a connection being a stranger until its first frame and    *)
(* after its close.                                                        *)
(*                                                                         *)
(* Of a pairing that it carries, the arguments are that an opening message *)
(* arrives at most once, a request, without which the desktop opens no     *)
(* record, and an invitation, without which the page opens no dialog for a *)
(* pairing it did not ask for itself; and, for the answer that is under    *)
(* way, that a verdict is the last message of its pairing.                 *)
(***************************************************************************)
EXTENDS RelayPresence, RelayPairing, SequenceTheorems, TLAPS

-----------------------------------------------------------------------------
(***************************************************************************)
(* The registries.                                                         *)
(***************************************************************************)

\* A desktop is in its own room.
OwnRoom == \A s \in Sockets : IsDesk(s) => conn[s].room = conn[s].dev

PresenceInv ==
  PresenceTypeOK /\ NoGhosts /\ OpenIsReachable /\ OwnRoom /\ PhoneViewExact /\ NoOrphanPairing

RoomConn(r, x) == [channel |-> "room", room |-> r, dev |-> x]
PhoneConn(p) == [channel |-> "presence", dev |-> p]

\* A connection is a stranger, one of a room, or a phone's presence.
LEMMA ConnCases ==
  ASSUME PresenceTypeOK, NEW s \in Sockets
  PROVE  \/ conn[s] = Stranger /\ ~IsDesk(s) /\ ~IsPhone(s) /\ conn[s].channel = "none"
         \/ /\ conn[s].channel = "room" /\ conn[s].room \in Desktops /\ conn[s].dev \in Devices
            /\ conn[s] = RoomConn(conn[s].room, conn[s].dev)
            /\ conn[s] # Stranger /\ ~IsPhone(s)
         \/ /\ conn[s].channel = "presence" /\ conn[s].dev \in Phones
            /\ conn[s] = PhoneConn(conn[s].dev)
            /\ conn[s] # Stranger /\ IsPhone(s) /\ ~IsDesk(s)
<1>1. conn[s] \in Conns
  BY DEF PresenceTypeOK
<1>2. CASE conn[s] = Stranger
  BY <1>2 DEF Stranger, IsDesk, IsPhone
<1>3. CASE conn[s] \in [channel : {"room"}, room : Desktops, dev : Devices]
  BY <1>3 DEF Stranger, IsPhone, RoomConn
<1>4. CASE conn[s] \in [channel : {"presence"}, dev : Phones]
  BY <1>4 DEF Stranger, IsPhone, IsDesk, PhoneConn
<1> QED
  BY <1>1, <1>2, <1>3, <1>4 DEF Conns

LEMMA ConnRecords ==
  /\ \A r \in Desktops, x \in Devices :
       /\ RoomConn(r, x) \in Conns /\ RoomConn(r, x) # Stranger
       /\ RoomConn(r, x).channel = "room" /\ RoomConn(r, x).room = r /\ RoomConn(r, x).dev = x
  /\ \A p \in Phones :
       /\ PhoneConn(p) \in Conns /\ PhoneConn(p) # Stranger
       /\ PhoneConn(p).channel = "presence" /\ PhoneConn(p).dev = p
BY DEF RoomConn, PhoneConn, Conns, Stranger

\* The sockets a registry names are connections of the device it names them for.
LEMMA RegistryFacts ==
  ASSUME PresenceTypeOK, NoGhosts
  PROVE  /\ \A r \in Desktops, x \in Devices : rooms[r][x] # NoSocket =>
              /\ rooms[r][x] \in Sockets /\ conn[rooms[r][x]] = RoomConn(r, x)
              /\ ~IsPhone(rooms[r][x]) /\ phase[rooms[r][x]] # "gone"
         /\ \A p \in Phones : mobiles[p] # NoSocket =>
              /\ mobiles[p] \in Sockets /\ conn[mobiles[p]] = PhoneConn(p)
              /\ IsPhone(mobiles[p]) /\ ~IsDesk(mobiles[p]) /\ phase[mobiles[p]] # "gone"
         /\ \A d \in Desktops : desktops[d] # NoSocket =>
              /\ desktops[d] \in Sockets /\ conn[desktops[d]] = RoomConn(d, d)
              /\ ~IsPhone(desktops[d]) /\ IsDesk(desktops[d]) /\ phase[desktops[d]] # "gone"
<1>1. ASSUME NEW r \in Desktops, NEW x \in Devices, rooms[r][x] # NoSocket
      PROVE  /\ rooms[r][x] \in Sockets /\ conn[rooms[r][x]] = RoomConn(r, x)
             /\ ~IsPhone(rooms[r][x]) /\ phase[rooms[r][x]] # "gone"
  <2>1. rooms[r][x] \in Sockets /\ conn[rooms[r][x]] = RoomConn(r, x)
    BY <1>1 DEF PresenceTypeOK, NoGhosts, RoomConn
  <2> QED
    BY <2>1, ConnRecords DEF PresenceTypeOK, IsPhone
<1>2. ASSUME NEW p \in Phones, mobiles[p] # NoSocket
      PROVE  /\ mobiles[p] \in Sockets /\ conn[mobiles[p]] = PhoneConn(p)
             /\ IsPhone(mobiles[p]) /\ ~IsDesk(mobiles[p]) /\ phase[mobiles[p]] # "gone"
  <2>1. mobiles[p] \in Sockets /\ conn[mobiles[p]] = PhoneConn(p)
    BY <1>2 DEF PresenceTypeOK, NoGhosts, PhoneConn
  <2> QED
    BY <2>1, ConnRecords DEF PresenceTypeOK, IsPhone, IsDesk
<1>3. ASSUME NEW d \in Desktops, desktops[d] # NoSocket
      PROVE  /\ desktops[d] \in Sockets /\ conn[desktops[d]] = RoomConn(d, d)
             /\ ~IsPhone(desktops[d]) /\ IsDesk(desktops[d]) /\ phase[desktops[d]] # "gone"
  <2>1. desktops[d] \in Sockets /\ conn[desktops[d]] = RoomConn(d, d)
    BY <1>3 DEF PresenceTypeOK, NoGhosts, RoomConn
  <2> QED
    BY <2>1, ConnRecords DEF PresenceTypeOK, IsPhone, IsDesk, Devices
<1> QED
  BY <1>1, <1>2, <1>3

LEMMA StrangerIsNobody ==
  ASSUME PresenceTypeOK, NoGhosts, NEW s \in Sockets, conn[s] = Stranger
  PROVE  /\ \A p \in Phones : mobiles[p] # s
         /\ \A d \in Desktops : desktops[d] # s
         /\ \A r \in Desktops, x \in Devices : rooms[r][x] # s
<1>1. s # NoSocket
  BY SocketAssumption
<1>2. \A d \in Desktops : d \in Devices
  BY DEF Devices
<1>3. ASSUME NEW p \in Phones PROVE mobiles[p] # s
  BY <1>1, RegistryFacts, ConnRecords
<1>4. ASSUME NEW d \in Desktops PROVE desktops[d] # s
  BY <1>1, <1>2, RegistryFacts, ConnRecords
<1>5. ASSUME NEW r \in Desktops, NEW x \in Devices PROVE rooms[r][x] # s
  BY <1>1, RegistryFacts, ConnRecords
<1> QED
  BY <1>3, <1>4, <1>5

\* A broadcast reaches the open sockets a registry names.
LEMMA AudienceFacts ==
  ASSUME PresenceTypeOK, NoGhosts, NEW ph, NEW s \in Sockets
  PROVE  /\ s \in Audience(desktops, ph) => IsDesk(s)
         /\ s \in Audience(mobiles, ph) => IsPhone(s)
         /\ \A p \in Phones : mobiles[p] = s /\ ph[s] = "open" => s \in Audience(mobiles, ph)
         /\ \A d \in Desktops : desktops[d] = s /\ ph[s] = "open" => s \in Audience(desktops, ph)
<1>1. DOMAIN desktops = Desktops /\ DOMAIN mobiles = Phones
  BY DEF PresenceTypeOK
<1>2. s # NoSocket
  BY SocketAssumption
<1> QED
  BY <1>1, <1>2, RegistryFacts DEF Audience

LEMMA ListedTypes ==
  ASSUME PresenceTypeOK
  PROVE  Listed(mobiles) \subseteq Devices /\ Listed(desktops) \subseteq Devices
BY DEF PresenceTypeOK, Listed, Devices

LEMMA BelievedTypes ==
  ASSUME PresenceTypeOK, NEW x \in Devices, NEW heard
  PROVE  Online(x, heard) \in [Sockets -> SUBSET Devices]
         /\ Offline(x, heard) \in [Sockets -> SUBSET Devices]
BY DEF PresenceTypeOK, Online, Offline

\* Connections that go on keep their pairings.
LEMMA PairingsStay ==
  ASSUME PresenceTypeOK, NoOrphanPairing, pairings' = pairings,
         \A s \in Sockets : conn[s] # Stranger => conn'[s] = conn[s]
  PROVE  NoOrphanPairing'
<1> SUFFICES ASSUME NEW i \in Pids, pairings[i] # NoPairing,
                    NEW x \in {pairings[i].phone, pairings[i].desk}
             PROVE  \E s \in Sockets : conn'[s] # Stranger /\ conn'[s].dev = x
  BY DEF NoOrphanPairing
<1>1. PICK s \in Sockets : conn[s] # Stranger /\ conn[s].dev = x
  BY DEF NoOrphanPairing
<1> QED
  BY <1>1

LEMMA OpenStep ==
  ASSUME PresenceInv, NEW s \in Sockets, Open(s)
  PROVE  PresenceInv'
<1>1. /\ phase[s] = "gone" /\ phase' = [phase EXCEPT ![s] = "open"]
      /\ conn' = conn /\ rooms' = rooms /\ mobiles' = mobiles /\ desktops' = desktops
      /\ pairings' = pairings /\ told' = told
  BY DEF Open
<1>2. conn[s] = Stranger
  BY <1>1 DEF PresenceInv, PresenceTypeOK
<1>3. PresenceTypeOK'
  BY <1>1, <1>2 DEF PresenceInv, PresenceTypeOK
<1>4. NoGhosts'
  BY <1>1 DEF PresenceInv, NoGhosts
<1>5. OpenIsReachable'
  BY <1>1, <1>2 DEF PresenceInv, PresenceTypeOK, OpenIsReachable, Stranger
<1>6. PhoneViewExact'
  <2>1. \A p \in Phones : mobiles[p] # s
    BY <1>1, RegistryFacts, SocketAssumption DEF PresenceInv
  <2> QED
    BY <1>1, <2>1 DEF PresenceInv, PresenceTypeOK, PhoneViewExact, Listed
<1>7. NoOrphanPairing'
  BY <1>1, PairingsStay DEF PresenceInv
<1>8. OwnRoom'
  BY <1>1 DEF PresenceInv, OwnRoom, IsDesk
<1> QED
  BY <1>3, <1>4, <1>5, <1>6, <1>7, <1>8 DEF PresenceInv

LEMMA CloseStep ==
  ASSUME PresenceInv, NEW s \in Sockets, Close(s)
  PROVE  PresenceInv'
<1>1. /\ phase[s] = "open" /\ phase' = [phase EXCEPT ![s] = "closing"]
      /\ conn' = conn /\ rooms' = rooms /\ mobiles' = mobiles /\ desktops' = desktops
      /\ pairings' = pairings /\ told' = [told EXCEPT ![s] = {}]
  BY DEF Close
<1>2. PresenceTypeOK'
  BY <1>1 DEF PresenceInv, PresenceTypeOK
<1>3. NoGhosts'
  BY <1>1 DEF PresenceInv, NoGhosts
<1>4. OpenIsReachable'
  BY <1>1 DEF PresenceInv, PresenceTypeOK, OpenIsReachable
<1>5. PhoneViewExact'
  <2> SUFFICES ASSUME NEW p \in Phones, mobiles[p] # NoSocket, phase'[mobiles[p]] = "open"
               PROVE  told'[mobiles[p]] = Listed(desktops)
    BY <1>1 DEF PhoneViewExact, Listed
  <2>1. mobiles[p] \in Sockets
    BY DEF PresenceInv, PresenceTypeOK
  <2>2. mobiles[p] # s /\ phase[mobiles[p]] = "open"
    BY <1>1, <2>1 DEF PresenceInv, PresenceTypeOK
  <2> QED
    BY <1>1, <2>1, <2>2 DEF PresenceInv, PresenceTypeOK, PhoneViewExact
<1>6. NoOrphanPairing'
  BY <1>1, PairingsStay DEF PresenceInv
<1>7. OwnRoom'
  BY <1>1 DEF PresenceInv, OwnRoom, IsDesk
<1> QED
  BY <1>2, <1>3, <1>4, <1>5, <1>6, <1>7 DEF PresenceInv

\* A stranger's first frame replaces at most the connection of the same device.
LEMMA ReplacedFacts ==
  ASSUME PresenceTypeOK, NEW old, phase' = Replaced(old)
  PROVE  /\ phase' \in [Sockets -> {"gone", "open", "closing"}]
         /\ \A t \in Sockets : /\ phase'[t] = "gone" => phase[t] = "gone"
                               /\ phase'[t] = "open" <=> phase[t] = "open" /\ t # old
BY DEF PresenceTypeOK, Replaced, Hears

LEMMA AuthenticateStep ==
  ASSUME PresenceInv, NEW s \in Sockets, NEW r \in Desktops, NEW x \in Devices, Authenticate(s, r, x)
  PROVE  PresenceInv'
<1> DEFINE c == RoomConn(r, x)
<1>1. /\ phase[s] # "gone" /\ conn[s] = Stranger
  BY DEF Authenticate, Hears
<1>2. /\ phase' = Replaced(rooms[r][x])
      /\ rooms' = [rooms EXCEPT ![r][x] = s]
      /\ conn' = [conn EXCEPT ![s] = c]
      /\ mobiles' = mobiles /\ desktops' = desktops /\ pairings' = pairings
      /\ told' = [t \in Sockets |->
           CASE t = rooms[r][x] -> {}
             [] t = s /\ phase[s] = "open" /\ x \in Desktops -> Listed(mobiles)
             [] OTHER -> told[t]]
  BY DEF Authenticate, RoomConn
<1>3. c \in Conns /\ c # Stranger /\ c.channel = "room" /\ c.room = r /\ c.dev = x
  BY ConnRecords
<1> HIDE DEF c
<1>4. /\ \A q \in Phones : mobiles[q] # s
      /\ \A d \in Desktops : desktops[d] # s
      /\ \A q \in Desktops, y \in Devices : rooms[q][y] # s
  BY <1>1, StrangerIsNobody DEF PresenceInv
<1>5. /\ phase' \in [Sockets -> {"gone", "open", "closing"}]
      /\ \A t \in Sockets : /\ phase'[t] = "gone" => phase[t] = "gone"
                            /\ phase'[t] = "open" <=> phase[t] = "open" /\ t # rooms[r][x]
  BY <1>2, ReplacedFacts DEF PresenceInv
<1>6. /\ \A q \in Desktops, y \in Devices :
           rooms'[q][y] = IF q = r /\ y = x THEN s ELSE rooms[q][y]
      /\ rooms' \in [Desktops -> [Devices -> Sockets \union {NoSocket}]]
  BY <1>2 DEF PresenceInv, PresenceTypeOK
<1>7. /\ \A t \in Sockets \ {s} : conn'[t] = conn[t]
      /\ conn'[s] = c /\ conn' \in [Sockets -> Conns]
  BY <1>2, <1>3 DEF PresenceInv, PresenceTypeOK
<1>8. PresenceTypeOK'
  <2>1. told' \in [Sockets -> SUBSET Devices]
    BY <1>2, ListedTypes DEF PresenceInv, PresenceTypeOK
  <2>2. \A t \in Sockets : phase'[t] = "gone" => conn'[t] = Stranger
    BY <1>1, <1>5, <1>7 DEF PresenceInv, PresenceTypeOK
  <2> QED
    BY <1>2, <1>5, <1>6, <1>7, <2>1, <2>2 DEF PresenceInv, PresenceTypeOK
<1>9. NoGhosts'
  <2>1. ASSUME NEW q \in Desktops, NEW y \in Devices, rooms'[q][y] # NoSocket
        PROVE  conn'[rooms'[q][y]] = RoomConn(q, y)
    <3>1. CASE q = r /\ y = x
      BY <1>6, <1>7, <3>1 DEF c
    <3>2. CASE ~(q = r /\ y = x)
      BY <1>4, <1>6, <1>7, <2>1, <3>2, RegistryFacts DEF PresenceInv
    <3> QED
      BY <3>1, <3>2
  <2>2. ASSUME NEW p \in Phones, mobiles[p] # NoSocket PROVE conn'[mobiles[p]] = PhoneConn(p)
    BY <1>4, <1>7, <2>2, RegistryFacts DEF PresenceInv
  <2>3. ASSUME NEW d \in Desktops, desktops[d] # NoSocket
        PROVE  conn'[desktops[d]] = RoomConn(d, d)
    BY <1>4, <1>7, <2>3, RegistryFacts DEF PresenceInv
  <2> QED
    BY <1>2, <2>1, <2>2, <2>3 DEF NoGhosts, RoomConn, PhoneConn
<1>10. OpenIsReachable'
  <2> SUFFICES ASSUME NEW t \in Sockets, phase'[t] = "open"
               PROVE  /\ conn'[t].channel = "room" => rooms'[conn'[t].room][conn'[t].dev] = t
                      /\ conn'[t].channel = "presence" => mobiles[conn'[t].dev] = t
    BY <1>2 DEF OpenIsReachable
  <2>1. CASE t = s
    BY <1>3, <1>6, <1>7, <2>1
  <2>2. CASE t # s
    <3>1. conn'[t] = conn[t] /\ phase[t] = "open" /\ t # rooms[r][x]
      BY <1>5, <1>7, <2>2
    <3>2. /\ conn[t].channel = "room" => rooms[conn[t].room][conn[t].dev] = t
          /\ conn[t].channel = "presence" => mobiles[conn[t].dev] = t
      BY <3>1 DEF PresenceInv, OpenIsReachable
    <3>3. ASSUME conn[t].channel = "room" PROVE rooms'[conn[t].room][conn[t].dev] = t
      <4>1. conn[t].room \in Desktops /\ conn[t].dev \in Devices
        BY <3>3, ConnCases DEF PresenceInv
      <4> QED
        BY <1>6, <3>1, <3>2, <3>3, <4>1
    <3> QED
      BY <3>1, <3>2, <3>3
  <2> QED
    BY <2>1, <2>2
<1>11. PhoneViewExact'
  <2> SUFFICES ASSUME NEW p \in Phones, mobiles[p] # NoSocket, phase'[mobiles[p]] = "open"
               PROVE  told'[mobiles[p]] = Listed(desktops)
    BY <1>2 DEF PhoneViewExact, Listed
  <2>1. mobiles[p] \in Sockets /\ mobiles[p] # s /\ phase[mobiles[p]] = "open"
        /\ mobiles[p] # rooms[r][x]
    BY <1>4, <1>5, RegistryFacts DEF PresenceInv
  <2>2. told'[mobiles[p]] = told[mobiles[p]]
    BY <1>2, <2>1
  <2> QED
    BY <2>1, <2>2 DEF PresenceInv, PhoneViewExact
<1>12. NoOrphanPairing'
  BY <1>1, <1>2, <1>7, PairingsStay DEF PresenceInv
<1>13. OwnRoom'
  <2>1. x \in Desktops => x = r
    BY DEF Authenticate
  <2> QED
    BY <1>3, <1>7, <2>1 DEF PresenceInv, OwnRoom, IsDesk
<1> QED
  BY <1>8, <1>9, <1>10, <1>11, <1>12, <1>13 DEF PresenceInv

LEMMA RegisterMobileStep ==
  ASSUME PresenceInv, NEW s \in Sockets, NEW p \in Phones, RegisterMobile(s, p)
  PROVE  PresenceInv'
<1> DEFINE c == PhoneConn(p)
<1>1. /\ phase[s] # "gone" /\ conn[s] = Stranger
  BY DEF RegisterMobile, Hears
<1>2. /\ phase' = Replaced(mobiles[p])
      /\ mobiles' = [mobiles EXCEPT ![p] = s]
      /\ conn' = [conn EXCEPT ![s] = c]
      /\ rooms' = rooms /\ desktops' = desktops /\ pairings' = pairings
      /\ told' = [t \in Sockets |->
           CASE t = mobiles[p] -> {}
             [] t = s /\ phase[s] = "open" -> Listed(desktops)
             [] OTHER -> Online(p, Audience(desktops, phase'))[t]]
  BY DEF RegisterMobile, PhoneConn
<1>3. c \in Conns /\ c # Stranger /\ c.channel = "presence" /\ c.dev = p
  BY ConnRecords
<1> HIDE DEF c
<1>4. /\ \A q \in Phones : mobiles[q] # s
      /\ \A d \in Desktops : desktops[d] # s
      /\ \A q \in Desktops, y \in Devices : rooms[q][y] # s
  BY <1>1, StrangerIsNobody DEF PresenceInv
<1>5. /\ phase' \in [Sockets -> {"gone", "open", "closing"}]
      /\ \A t \in Sockets : /\ phase'[t] = "gone" => phase[t] = "gone"
                            /\ phase'[t] = "open" <=> phase[t] = "open" /\ t # mobiles[p]
  BY <1>2, ReplacedFacts DEF PresenceInv
<1>6. /\ \A q \in Phones : mobiles'[q] = IF q = p THEN s ELSE mobiles[q]
      /\ mobiles' \in [Phones -> Sockets \union {NoSocket}]
  BY <1>2 DEF PresenceInv, PresenceTypeOK
<1>7. /\ \A t \in Sockets \ {s} : conn'[t] = conn[t]
      /\ conn'[s] = c /\ conn' \in [Sockets -> Conns]
  BY <1>2, <1>3 DEF PresenceInv, PresenceTypeOK
<1>8. PresenceTypeOK'
  <2>1. told' \in [Sockets -> SUBSET Devices]
    <3>1. p \in Devices
      BY DEF Devices
    <3>2. Online(p, Audience(desktops, phase')) \in [Sockets -> SUBSET Devices]
      BY <3>1, BelievedTypes DEF PresenceInv
    <3> QED
      BY <1>2, <3>2, ListedTypes DEF PresenceInv
  <2>2. \A t \in Sockets : phase'[t] = "gone" => conn'[t] = Stranger
    BY <1>1, <1>5, <1>7 DEF PresenceInv, PresenceTypeOK
  <2> QED
    BY <1>2, <1>5, <1>6, <1>7, <2>1, <2>2 DEF PresenceInv, PresenceTypeOK
<1>9. NoGhosts'
  <2>1. ASSUME NEW q \in Phones, mobiles'[q] # NoSocket PROVE conn'[mobiles'[q]] = PhoneConn(q)
    <3>1. CASE q = p
      BY <1>6, <1>7, <3>1 DEF c
    <3>2. CASE q # p
      BY <1>4, <1>6, <1>7, <2>1, <3>2, RegistryFacts DEF PresenceInv
    <3> QED
      BY <3>1, <3>2
  <2>2. ASSUME NEW q \in Desktops, NEW y \in Devices, rooms[q][y] # NoSocket
        PROVE  conn'[rooms[q][y]] = RoomConn(q, y)
    BY <1>4, <1>7, <2>2, RegistryFacts DEF PresenceInv
  <2>3. ASSUME NEW d \in Desktops, desktops[d] # NoSocket
        PROVE  conn'[desktops[d]] = RoomConn(d, d)
    BY <1>4, <1>7, <2>3, RegistryFacts DEF PresenceInv
  <2> QED
    BY <1>2, <2>1, <2>2, <2>3 DEF NoGhosts, RoomConn, PhoneConn
<1>10. OpenIsReachable'
  <2> SUFFICES ASSUME NEW t \in Sockets, phase'[t] = "open"
               PROVE  /\ conn'[t].channel = "room" => rooms[conn'[t].room][conn'[t].dev] = t
                      /\ conn'[t].channel = "presence" => mobiles'[conn'[t].dev] = t
    BY <1>2 DEF OpenIsReachable
  <2>1. CASE t = s
    BY <1>3, <1>6, <1>7, <2>1
  <2>2. CASE t # s
    <3>1. conn'[t] = conn[t] /\ phase[t] = "open" /\ t # mobiles[p]
      BY <1>5, <1>7, <2>2
    <3>2. /\ conn[t].channel = "room" => rooms[conn[t].room][conn[t].dev] = t
          /\ conn[t].channel = "presence" => mobiles[conn[t].dev] = t
      BY <3>1 DEF PresenceInv, OpenIsReachable
    <3>3. ASSUME conn[t].channel = "presence" PROVE mobiles'[conn[t].dev] = t
      <4>1. conn[t].dev \in Phones
        BY <3>3, ConnCases DEF PresenceInv
      <4> QED
        BY <1>6, <3>1, <3>2, <3>3, <4>1
    <3> QED
      BY <3>1, <3>2, <3>3
  <2> QED
    BY <2>1, <2>2
<1>11. PhoneViewExact'
  <2> SUFFICES ASSUME NEW q \in Phones, mobiles'[q] # NoSocket, phase'[mobiles'[q]] = "open"
               PROVE  told'[mobiles'[q]] = Listed(desktops)
    BY <1>2 DEF PhoneViewExact, Listed
  <2>1. mobiles[p] # s
    BY <1>4
  <2>2. CASE q = p
    <3>1. mobiles'[q] = s /\ phase[s] = "open"
      BY <1>5, <1>6, <2>2
    <3> QED
      BY <1>2, <2>1, <3>1
  <2>3. CASE q # p
    <3>1. /\ mobiles'[q] = mobiles[q] /\ mobiles[q] \in Sockets /\ mobiles[q] # s
          /\ conn[mobiles[q]] = PhoneConn(q) /\ ~IsDesk(mobiles[q])
      BY <1>4, <1>6, <2>3, RegistryFacts DEF PresenceInv
    <3>2. phase[mobiles[q]] = "open" /\ mobiles[q] # mobiles[p]
      BY <1>5, <3>1
    <3>3. mobiles[q] \notin Audience(desktops, phase')
      BY <3>1, AudienceFacts DEF PresenceInv
    <3>4. told'[mobiles[q]] = told[mobiles[q]]
      BY <1>2, <3>1, <3>2, <3>3 DEF Online
    <3> QED
      BY <3>1, <3>2, <3>4 DEF PresenceInv, PhoneViewExact
  <2> QED
    BY <2>2, <2>3
<1>12. NoOrphanPairing'
  BY <1>1, <1>2, <1>7, PairingsStay DEF PresenceInv
<1>13. OwnRoom'
  BY <1>3, <1>7 DEF PresenceInv, OwnRoom, IsDesk
<1> QED
  BY <1>8, <1>9, <1>10, <1>11, <1>12, <1>13 DEF PresenceInv

\* A desktop that announces itself is listed, and every phone that is open hears of it.
LEMMA RegisterDesktopStep ==
  ASSUME PresenceInv, NEW s \in Sockets, RegisterDesktop(s)
  PROVE  PresenceInv'
<1> DEFINE d == conn[s].dev
<1>1. /\ phase[s] # "gone" /\ IsDesk(s) /\ d \in Desktops
      /\ desktops' = [desktops EXCEPT ![d] = s]
      /\ told' = Online(d, Audience(mobiles, phase))
      /\ phase' = phase /\ conn' = conn /\ rooms' = rooms /\ mobiles' = mobiles
      /\ pairings' = pairings
  BY DEF RegisterDesktop, Hears, IsDesk
<1>2. conn[s] = RoomConn(d, d)
  <2>1. conn[s] = RoomConn(conn[s].room, d) /\ conn[s].room = d
    BY <1>1, ConnCases DEF PresenceInv, OwnRoom
  <2> QED
    BY <2>1
<1> HIDE DEF d
<1>3. /\ \A e \in Desktops : desktops'[e] = IF e = d THEN s ELSE desktops[e]
      /\ desktops' \in [Desktops -> Sockets \union {NoSocket}]
      /\ Listed(desktops') = Listed(desktops) \union {d}
  BY <1>1, SocketAssumption DEF PresenceInv, PresenceTypeOK, Listed
<1>4. PresenceTypeOK'
  <2>1. told' \in [Sockets -> SUBSET Devices]
    BY <1>1, BelievedTypes DEF PresenceInv, Devices
  <2> QED
    BY <1>1, <1>3, <2>1 DEF PresenceInv, PresenceTypeOK
<1>5. NoGhosts'
  BY <1>1, <1>2, <1>3 DEF PresenceInv, NoGhosts, RoomConn
<1>6. OpenIsReachable' /\ OwnRoom'
  BY <1>1 DEF PresenceInv, OpenIsReachable, OwnRoom, IsDesk
<1>7. PhoneViewExact'
  <2> SUFFICES ASSUME NEW p \in Phones, mobiles[p] # NoSocket, phase[mobiles[p]] = "open"
               PROVE  told'[mobiles[p]] = Listed(desktops')
    BY <1>1 DEF PhoneViewExact, Listed
  <2>1. mobiles[p] \in Sockets /\ mobiles[p] \in Audience(mobiles, phase)
    BY RegistryFacts, AudienceFacts DEF PresenceInv
  <2>2. told'[mobiles[p]] = told[mobiles[p]] \union {d}
    BY <1>1, <2>1 DEF Online
  <2>3. told[mobiles[p]] = Listed(desktops)
    BY DEF PresenceInv, PhoneViewExact
  <2> QED
    BY <1>3, <2>2, <2>3
<1>8. NoOrphanPairing'
  BY <1>1, PairingsStay DEF PresenceInv
<1> QED
  BY <1>4, <1>5, <1>6, <1>7, <1>8 DEF PresenceInv

LEMMA AskListStep ==
  ASSUME PresenceInv, NEW s \in Sockets, AskList(s)
  PROVE  PresenceInv'
<1>1. /\ phase[s] = "open" /\ (IsDesk(s) \/ IsPhone(s))
      /\ told' = [told EXCEPT ![s] = IF IsDesk(s) THEN Listed(mobiles) ELSE Listed(desktops)]
      /\ phase' = phase /\ conn' = conn /\ rooms' = rooms /\ mobiles' = mobiles
      /\ desktops' = desktops /\ pairings' = pairings
  BY DEF AskList
<1>2. PresenceTypeOK'
  BY <1>1, ListedTypes DEF PresenceInv, PresenceTypeOK
<1>3. NoGhosts' /\ OpenIsReachable' /\ OwnRoom'
  BY <1>1 DEF PresenceInv, NoGhosts, OpenIsReachable, OwnRoom, IsDesk
<1>4. PhoneViewExact'
  <2> SUFFICES ASSUME NEW p \in Phones, mobiles[p] # NoSocket, phase[mobiles[p]] = "open"
               PROVE  told'[mobiles[p]] = Listed(desktops)
    BY <1>1 DEF PhoneViewExact, Listed
  <2>1. mobiles[p] \in Sockets /\ ~IsDesk(mobiles[p])
    BY RegistryFacts DEF PresenceInv
  <2>2. told[mobiles[p]] = Listed(desktops)
    BY DEF PresenceInv, PhoneViewExact
  <2> QED
    BY <1>1, <2>1, <2>2 DEF PresenceInv, PresenceTypeOK
<1>5. NoOrphanPairing'
  BY <1>1, PairingsStay DEF PresenceInv
<1> QED
  BY <1>2, <1>3, <1>4, <1>5 DEF PresenceInv

\* What a forwarded message makes of the table: its entry is gone, or one of its parties.
LEMMA ForwardedFacts ==
  ASSUME PresenceTypeOK, NEW m \in Messages(Phones, Desktops), Allowed(pairings, m)
  PROVE  /\ Forwarded(pairings, m) \in [Pids -> Pairings(Phones, Desktops) \union {NoPairing}]
         /\ \A i \in Pids : Forwarded(pairings, m)[i] # NoPairing =>
              \/ pairings[i] # NoPairing /\ Forwarded(pairings, m)[i].phone = pairings[i].phone
                 /\ Forwarded(pairings, m)[i].desk = pairings[i].desk
              \/ Forwarded(pairings, m)[i].phone = m.phone /\ Forwarded(pairings, m)[i].desk = m.desk
<1> DEFINE new ==
      CASE m.kind \in Opening ->
             [phone |-> m.phone, desk |-> m.desk,
              state |-> IF m.kind = "request" THEN "requested" ELSE "invited"]
        [] m.kind \in Terminal  -> NoPairing
        [] m.kind = "challenge" -> [pairings[m.pid] EXCEPT !.state = "challenged"]
        [] m.kind = "proof"     -> [pairings[m.pid] EXCEPT !.state = "proof"]
        [] OTHER -> pairings[m.pid]
<1>1. m.pid \in Pids /\ m.phone \in Phones /\ m.desk \in Desktops
  BY DEF Messages
<1>2. Forwarded(pairings, m) = [pairings EXCEPT ![m.pid] = new]
  BY DEF Forwarded
<1>3. new \in Pairings(Phones, Desktops) \union {NoPairing}
      /\ (new # NoPairing => \/ pairings[m.pid] # NoPairing /\ new.phone = pairings[m.pid].phone
                                /\ new.desk = pairings[m.pid].desk
                             \/ new.phone = m.phone /\ new.desk = m.desk)
  <2>1. CASE m.kind \in Opening
    <3>1. new = [phone |-> m.phone, desk |-> m.desk,
                 state |-> IF m.kind = "request" THEN "requested" ELSE "invited"]
      BY <2>1 DEF Opening, Terminal
    <3> HIDE DEF new
    <3> QED
      BY <1>1, <3>1 DEF Pairings, States
  <2>2. CASE m.kind \in Terminal
    <3>1. new = NoPairing
      BY <2>2 DEF Opening, Terminal
    <3> QED
      BY <3>1
  <2>3. CASE m.kind \notin Opening \union Terminal
    <3>1. pairings[m.pid] \in Pairings(Phones, Desktops) /\ pairings[m.pid] # NoPairing
      BY <1>1, <2>3 DEF Allowed, PresenceTypeOK
    <3>2. new \in {[pairings[m.pid] EXCEPT !.state = "challenged"],
                   [pairings[m.pid] EXCEPT !.state = "proof"], pairings[m.pid]}
      BY <2>3 DEF Opening, Terminal
    <3> HIDE DEF new
    <3> QED
      BY <3>1, <3>2 DEF Pairings, States
  <2> QED
    BY <2>1, <2>2, <2>3
<1> HIDE DEF new
<1>4. \A i \in Pids : Forwarded(pairings, m)[i] = IF i = m.pid THEN new ELSE pairings[i]
  BY <1>1, <1>2 DEF PresenceTypeOK
<1> QED
  BY <1>1, <1>2, <1>3, <1>4 DEF PresenceTypeOK

LEMMA RouteStep ==
  ASSUME PresenceInv, NEW s \in Sockets, NEW m \in Messages(Phones, Desktops), Route(s, m)
  PROVE  PresenceInv'
<1>1. /\ phase[s] # "gone" /\ Allowed(pairings, m) /\ pairings' = Forwarded(pairings, m)
      /\ \/ IsPhone(s) /\ m.phone = conn[s].dev /\ desktops[m.desk] # NoSocket
         \/ IsDesk(s)  /\ m.desk = conn[s].dev  /\ mobiles[m.phone] # NoSocket
      /\ phase' = phase /\ conn' = conn /\ rooms' = rooms /\ mobiles' = mobiles
      /\ desktops' = desktops /\ told' = told
  BY DEF Route, Hears
<1>2. m.phone \in Phones /\ m.desk \in Desktops
  BY DEF Messages
<1>3. PresenceTypeOK'
  BY <1>1, ForwardedFacts DEF PresenceInv, PresenceTypeOK
<1>4. NoGhosts' /\ OpenIsReachable' /\ OwnRoom' /\ PhoneViewExact'
  BY <1>1 DEF PresenceInv, NoGhosts, OpenIsReachable, OwnRoom, IsDesk, PhoneViewExact, Listed
<1>5. \A x \in {m.phone, m.desk} : \E t \in Sockets : conn[t] # Stranger /\ conn[t].dev = x
  <2>1. conn[s] # Stranger
    BY <1>1, ConnCases DEF PresenceInv
  <2>2. CASE IsPhone(s) /\ m.phone = conn[s].dev /\ desktops[m.desk] # NoSocket
    <3>1. /\ desktops[m.desk] \in Sockets /\ conn[desktops[m.desk]] # Stranger
          /\ conn[desktops[m.desk]].dev = m.desk
      BY <1>2, <2>2, RegistryFacts, ConnRecords DEF PresenceInv, Devices
    <3> QED
      BY <2>1, <2>2, <3>1
  <2>3. CASE IsDesk(s) /\ m.desk = conn[s].dev /\ mobiles[m.phone] # NoSocket
    <3>1. /\ mobiles[m.phone] \in Sockets /\ conn[mobiles[m.phone]] # Stranger
          /\ conn[mobiles[m.phone]].dev = m.phone
      BY <1>2, <2>3, RegistryFacts, ConnRecords DEF PresenceInv
    <3> QED
      BY <2>1, <2>3, <3>1
  <2> QED
    BY <1>1, <2>2, <2>3
<1>6. NoOrphanPairing'
  <2> SUFFICES ASSUME NEW i \in Pids, pairings'[i] # NoPairing,
                      NEW x \in {pairings'[i].phone, pairings'[i].desk}
               PROVE  \E t \in Sockets : conn[t] # Stranger /\ conn[t].dev = x
    BY <1>1 DEF NoOrphanPairing
  <2>1. \/ pairings[i] # NoPairing /\ x \in {pairings[i].phone, pairings[i].desk}
        \/ x \in {m.phone, m.desk}
    BY <1>1, ForwardedFacts DEF PresenceInv
  <2> QED
    BY <1>5, <2>1 DEF PresenceInv, NoOrphanPairing
<1> QED
  BY <1>3, <1>4, <1>6 DEF PresenceInv

LEMMA PurgeStep ==
  ASSUME PresenceInv, NEW i \in Pids, Purge(i)
  PROVE  PresenceInv'
<1>1. /\ pairings' = [pairings EXCEPT ![i] = NoPairing]
      /\ phase' = phase /\ conn' = conn /\ rooms' = rooms /\ mobiles' = mobiles
      /\ desktops' = desktops /\ told' = told
  BY DEF Purge
<1>2. PresenceTypeOK'
  BY <1>1 DEF PresenceInv, PresenceTypeOK
<1>3. NoGhosts' /\ OpenIsReachable' /\ OwnRoom' /\ PhoneViewExact'
  BY <1>1 DEF PresenceInv, NoGhosts, OpenIsReachable, OwnRoom, IsDesk, PhoneViewExact, Listed
<1>4. NoOrphanPairing'
  <2>1. \A j \in Pids : pairings'[j] # NoPairing => pairings'[j] = pairings[j]
    BY <1>1 DEF PresenceInv, PresenceTypeOK
  <2> QED
    BY <1>1, <2>1 DEF PresenceInv, NoOrphanPairing
<1> QED
  BY <1>2, <1>3, <1>4 DEF PresenceInv

-----------------------------------------------------------------------------
(* The close event. *)

\* What it leaves of the registries.
LEMMA ClosedFacts ==
  ASSUME PresenceInv, NEW s \in Sockets, Closed(s)
  PROVE  /\ phase' = [phase EXCEPT ![s] = "gone"]
         /\ conn' = [conn EXCEPT ![s] = Stranger]
         /\ \A q \in Desktops, y \in Devices :
              rooms'[q][y] = IF rooms[q][y] = s THEN NoSocket ELSE rooms[q][y]
         /\ \A p \in Phones : mobiles'[p] = IF mobiles[p] = s THEN NoSocket ELSE mobiles[p]
         /\ \A d \in Desktops : desktops'[d] = IF desktops[d] = s THEN NoSocket ELSE desktops[d]
         /\ rooms' \in [Desktops -> [Devices -> Sockets \union {NoSocket}]]
         /\ mobiles' \in [Phones -> Sockets \union {NoSocket}]
         /\ desktops' \in [Desktops -> Sockets \union {NoSocket}]
<1> DEFINE c == conn[s]
<1>1. s # NoSocket
  BY SocketAssumption
<1>2. \A q \in Desktops, y \in Devices : rooms[q][y] = s => c = RoomConn(q, y)
  BY <1>1, RegistryFacts DEF PresenceInv
<1>3. \A p \in Phones : mobiles[p] = s => c = PhoneConn(p)
  BY <1>1, RegistryFacts DEF PresenceInv
<1>4. \A d \in Desktops : desktops[d] = s => c = RoomConn(d, d) /\ IsDesk(s)
  BY <1>1, RegistryFacts DEF PresenceInv
<1>5. /\ phase' = [phase EXCEPT ![s] = "gone"] /\ conn' = [conn EXCEPT ![s] = Stranger]
      /\ rooms' = IF c.channel = "room"
                    THEN [rooms EXCEPT ![c.room] = Dropped(@, c.dev, s)] ELSE rooms
      /\ mobiles' = IF IsPhone(s) THEN Dropped(mobiles, c.dev, s) ELSE mobiles
      /\ desktops' = IF IsDesk(s) THEN Dropped(desktops, c.dev, s) ELSE desktops
  BY DEF Closed
<1> HIDE DEF c
<1>6. /\ \A q \in Desktops, y \in Devices :
           rooms'[q][y] = IF rooms[q][y] = s THEN NoSocket ELSE rooms[q][y]
      /\ rooms' \in [Desktops -> [Devices -> Sockets \union {NoSocket}]]
  <2>1. CASE c.channel = "room"
    <3>1. c.room \in Desktops /\ c.dev \in Devices
      BY <2>1, ConnCases DEF c, PresenceInv
    <3>2. rooms' = [rooms EXCEPT ![c.room] = Dropped(rooms[c.room], c.dev, s)]
      BY <1>5, <2>1
    <3>3. /\ Dropped(rooms[c.room], c.dev, s) \in [Devices -> Sockets \union {NoSocket}]
          /\ \A y \in Devices : Dropped(rooms[c.room], c.dev, s)[y] =
               IF rooms[c.room][y] = s THEN NoSocket ELSE rooms[c.room][y]
      <4>1. rooms[c.room] \in [Devices -> Sockets \union {NoSocket}]
        BY <3>1 DEF PresenceInv, PresenceTypeOK
      <4>2. \A y \in Devices : rooms[c.room][y] = s => y = c.dev
        BY <1>2, <3>1, ConnRecords
      <4> QED
        BY <3>1, <4>1, <4>2 DEF Dropped
    <3>4. \A q \in Desktops : q # c.room => \A y \in Devices : rooms[q][y] # s
      BY <1>2, ConnRecords
    <3> QED
      BY <3>1, <3>2, <3>3, <3>4 DEF PresenceInv, PresenceTypeOK
  <2>2. CASE c.channel # "room"
    <3>1. \A q \in Desktops, y \in Devices : rooms[q][y] # s
      BY <1>2, <2>2, ConnRecords
    <3> QED
      BY <1>5, <2>2, <3>1 DEF PresenceInv, PresenceTypeOK
  <2> QED
    BY <2>1, <2>2
<1>7. /\ \A p \in Phones : mobiles'[p] = IF mobiles[p] = s THEN NoSocket ELSE mobiles[p]
      /\ mobiles' \in [Phones -> Sockets \union {NoSocket}]
  <2>1. \A p \in Phones : mobiles[p] = s => p = c.dev /\ IsPhone(s)
    BY <1>3, ConnRecords DEF IsPhone, c
  <2>2. IsPhone(s) => c.dev \in Phones
    BY ConnCases DEF c, PresenceInv
  <2> QED
    BY <1>5, <2>1, <2>2 DEF Dropped, PresenceInv, PresenceTypeOK
<1>8. /\ \A d \in Desktops : desktops'[d] = IF desktops[d] = s THEN NoSocket ELSE desktops[d]
      /\ desktops' \in [Desktops -> Sockets \union {NoSocket}]
  <2>1. \A d \in Desktops : desktops[d] = s => d = c.dev /\ IsDesk(s)
    BY <1>4, ConnRecords DEF Devices
  <2>2. IsDesk(s) => c.dev \in Desktops
    BY DEF IsDesk, c
  <2> QED
    BY <1>5, <2>1, <2>2 DEF Dropped, PresenceInv, PresenceTypeOK
<1> QED
  BY <1>5, <1>6, <1>7, <1>8

\* Who hears that the device behind s went offline.
LEMMA ToldAfterFacts ==
  ASSUME PresenceInv, NEW s \in Sockets, Closed(s), NEW t \in Sockets \ {s}
  PROVE  /\ IsPhone(t) =>
              told'[t] = IF IsDesk(s) /\ desktops[conn[s].dev] = s /\ t \in Audience(mobiles, phase)
                           THEN told[t] \ {conn[s].dev} ELSE told[t]
         /\ IsDesk(t) =>
              told'[t] = IF IsPhone(s) /\ mobiles[conn[s].dev] = s /\ t \in Audience(desktops, phase)
                           THEN told[t] \ {conn[s].dev} ELSE told[t]
         /\ told' \in [Sockets -> SUBSET Devices]
<1> DEFINE x == conn[s].dev
           spread == IF IsPhone(s) /\ mobiles[x] = s THEN Offline(x, Audience(desktops, phase))
                     ELSE IF IsDesk(s) /\ desktops[x] = s THEN Offline(x, Audience(mobiles, phase))
                     ELSE told
<1>1. told' = [spread EXCEPT ![s] = {}]
  BY DEF Closed, ToldAfter
<1>2. spread \in [Sockets -> SUBSET Devices]
  <2>1. IsPhone(s) \/ IsDesk(s) => x \in Devices
    BY ConnCases DEF PresenceInv, IsDesk, Devices
  <2> QED
    BY <2>1, BelievedTypes DEF PresenceInv, PresenceTypeOK
<1>3. ~(IsPhone(t) /\ IsDesk(t)) /\ ~(IsPhone(s) /\ IsDesk(s))
  BY ConnCases DEF PresenceInv
<1>4. /\ t \in Audience(desktops, phase) => IsDesk(t)
      /\ t \in Audience(mobiles, phase) => IsPhone(t)
  BY AudienceFacts DEF PresenceInv
<1>5. spread[t] = IF \/ IsPhone(s) /\ mobiles[x] = s /\ t \in Audience(desktops, phase)
                     \/ IsDesk(s) /\ desktops[x] = s /\ t \in Audience(mobiles, phase)
                    THEN told[t] \ {x} ELSE told[t]
  BY <1>3 DEF Offline
<1>6. told'[t] = spread[t] /\ told' \in [Sockets -> SUBSET Devices]
  <2> HIDE DEF spread
  <2> QED
    BY <1>1, <1>2
<1> QED
  BY <1>3, <1>4, <1>5, <1>6

LEMMA ClosedStep ==
  ASSUME PresenceInv, NEW s \in Sockets, Closed(s)
  PROVE  PresenceInv'
<1>1. /\ phase' = [phase EXCEPT ![s] = "gone"]
      /\ conn' = [conn EXCEPT ![s] = Stranger]
      /\ \A q \in Desktops, y \in Devices :
           rooms'[q][y] = IF rooms[q][y] = s THEN NoSocket ELSE rooms[q][y]
      /\ \A p \in Phones : mobiles'[p] = IF mobiles[p] = s THEN NoSocket ELSE mobiles[p]
      /\ \A d \in Desktops : desktops'[d] = IF desktops[d] = s THEN NoSocket ELSE desktops[d]
      /\ rooms' \in [Desktops -> [Devices -> Sockets \union {NoSocket}]]
      /\ mobiles' \in [Phones -> Sockets \union {NoSocket}]
      /\ desktops' \in [Desktops -> Sockets \union {NoSocket}]
  BY ClosedFacts
<1>2. /\ \A t \in Sockets \ {s} : phase'[t] = phase[t] /\ conn'[t] = conn[t]
      /\ phase'[s] = "gone" /\ conn'[s] = Stranger /\ Stranger \in Conns
  BY <1>1 DEF PresenceInv, PresenceTypeOK, Conns
<1>3. \A t \in Sockets \ {s} : IsDesk(t)' = IsDesk(t)
  BY <1>2 DEF IsDesk
<1>4. pairings' = PairingsAfter(s)
  BY DEF Closed
<1>5. \A i \in Pids : pairings'[i] # NoPairing =>
        /\ pairings'[i] = pairings[i]
        /\ conn[s] # Stranger => conn[s].dev \notin {pairings[i].phone, pairings[i].desk}
  BY <1>4 DEF PairingsAfter, Without
<1>6. PresenceTypeOK'
  <2>1. told' \in [Sockets -> SUBSET Devices]
    <3> DEFINE x == conn[s].dev
               spread == IF IsPhone(s) /\ mobiles[x] = s THEN Offline(x, Audience(desktops, phase))
                         ELSE IF IsDesk(s) /\ desktops[x] = s THEN Offline(x, Audience(mobiles, phase))
                         ELSE told
    <3>1. told' = [spread EXCEPT ![s] = {}]
      BY DEF Closed, ToldAfter
    <3>2. IsPhone(s) \/ IsDesk(s) => x \in Devices
      BY ConnCases DEF PresenceInv, IsDesk, Devices
    <3>3. spread \in [Sockets -> SUBSET Devices]
      BY <3>2, BelievedTypes DEF PresenceInv, PresenceTypeOK
    <3> HIDE DEF spread
    <3> QED
      BY <3>1, <3>3
  <2>2. pairings' \in [Pids -> Pairings(Phones, Desktops) \union {NoPairing}]
    BY <1>4 DEF PairingsAfter, Without, PresenceInv, PresenceTypeOK
  <2>3. phase' \in [Sockets -> {"gone", "open", "closing"}] /\ conn' \in [Sockets -> Conns]
    BY <1>1, <1>2 DEF PresenceInv, PresenceTypeOK
  <2>4. \A t \in Sockets : phase'[t] = "gone" => conn'[t] = Stranger
    BY <1>2 DEF PresenceInv, PresenceTypeOK
  <2> QED
    BY <1>1, <2>1, <2>2, <2>3, <2>4 DEF PresenceTypeOK
<1>7. NoGhosts'
  <2>1. ASSUME NEW q \in Desktops, NEW y \in Devices, rooms'[q][y] # NoSocket
        PROVE  conn'[rooms'[q][y]] = RoomConn(q, y)
    BY <1>1, <1>2, <2>1, RegistryFacts DEF PresenceInv
  <2>2. ASSUME NEW p \in Phones, mobiles'[p] # NoSocket PROVE conn'[mobiles'[p]] = PhoneConn(p)
    BY <1>1, <1>2, <2>2, RegistryFacts DEF PresenceInv
  <2>3. ASSUME NEW d \in Desktops, desktops'[d] # NoSocket
        PROVE  conn'[desktops'[d]] = RoomConn(d, d)
    BY <1>1, <1>2, <2>3, RegistryFacts DEF PresenceInv
  <2> QED
    BY <2>1, <2>2, <2>3 DEF NoGhosts, RoomConn, PhoneConn
<1>8. OpenIsReachable'
  <2> SUFFICES ASSUME NEW t \in Sockets, phase'[t] = "open"
               PROVE  /\ conn'[t].channel = "room" => rooms'[conn'[t].room][conn'[t].dev] = t
                      /\ conn'[t].channel = "presence" => mobiles'[conn'[t].dev] = t
    BY DEF OpenIsReachable
  <2>1. t # s /\ phase[t] = "open" /\ conn'[t] = conn[t]
    BY <1>2
  <2>2. /\ conn[t].channel = "room" => rooms[conn[t].room][conn[t].dev] = t
        /\ conn[t].channel = "presence" => mobiles[conn[t].dev] = t
    BY <2>1 DEF PresenceInv, OpenIsReachable
  <2>3. /\ conn[t].channel = "room" => conn[t].room \in Desktops /\ conn[t].dev \in Devices
        /\ conn[t].channel = "presence" => conn[t].dev \in Phones
    BY ConnCases DEF PresenceInv
  <2> QED
    BY <1>1, <2>1, <2>2, <2>3
<1>9. OwnRoom'
  <2>1. ASSUME NEW t \in Sockets, IsDesk(t)' PROVE conn'[t].room = conn'[t].dev
    <3>1. t # s
      BY <1>2, <2>1 DEF IsDesk, Stranger
    <3> QED
      BY <1>2, <1>3, <2>1, <3>1 DEF PresenceInv, OwnRoom
  <2> QED
    BY <2>1 DEF OwnRoom
<1>10. PhoneViewExact'
  <2> SUFFICES ASSUME NEW p \in Phones, mobiles'[p] # NoSocket, phase'[mobiles'[p]] = "open"
               PROVE  told'[mobiles'[p]] = Listed(desktops')
    BY DEF PhoneViewExact, Listed
  <2> DEFINE t == mobiles[p]
             x == conn[s].dev
  <2>1. /\ mobiles'[p] = t /\ t \in Sockets /\ t # s /\ IsPhone(t) /\ phase[t] = "open"
        /\ t \in Audience(mobiles, phase) /\ told[t] = Listed(desktops)
    <3>1. mobiles'[p] = t /\ t # s /\ t # NoSocket
      BY <1>1
    <3>2. t \in Sockets /\ IsPhone(t)
      BY <3>1, RegistryFacts DEF PresenceInv
    <3>3. phase[t] = "open"
      BY <1>2, <3>1, <3>2
    <3> QED
      BY <3>1, <3>2, <3>3, AudienceFacts DEF PresenceInv, PhoneViewExact
  <2>2. told'[t] = IF IsDesk(s) /\ desktops[x] = s THEN Listed(desktops) \ {x}
                   ELSE Listed(desktops)
    BY <2>1, ToldAfterFacts
  <2>3. \A d \in Desktops : desktops[d] = s => IsDesk(s) /\ d = x
    BY RegistryFacts, ConnRecords, SocketAssumption DEF PresenceInv, Devices
  <2>4. IsDesk(s) => x \in Desktops
    BY DEF IsDesk
  <2>5. Listed(desktops') = IF IsDesk(s) /\ desktops[x] = s THEN Listed(desktops) \ {x}
                            ELSE Listed(desktops)
    BY <1>1, <2>3, <2>4, SocketAssumption DEF Listed, PresenceInv, PresenceTypeOK
  <2> QED
    BY <2>1, <2>2, <2>5
<1>11. NoOrphanPairing'
  <2> SUFFICES ASSUME NEW i \in Pids, pairings'[i] # NoPairing,
                      NEW x \in {pairings'[i].phone, pairings'[i].desk}
               PROVE  \E t \in Sockets : conn'[t] # Stranger /\ conn'[t].dev = x
    BY DEF NoOrphanPairing
  <2>1. /\ pairings[i] # NoPairing /\ x \in {pairings[i].phone, pairings[i].desk}
        /\ conn[s] # Stranger => conn[s].dev # x
    BY <1>5
  <2>2. PICK t \in Sockets : conn[t] # Stranger /\ conn[t].dev = x
    BY <2>1 DEF PresenceInv, NoOrphanPairing
  <2> QED
    BY <1>2, <2>1, <2>2
<1> QED
  BY <1>6, <1>7, <1>8, <1>9, <1>10, <1>11 DEF PresenceInv

-----------------------------------------------------------------------------
(* The theorems. *)

LEMMA PresenceHolds == PresenceInit => PresenceInv
<1> SUFFICES ASSUME PresenceInit PROVE PresenceInv
  OBVIOUS
<1>1. PresenceTypeOK
  BY DEF PresenceInit, PresenceTypeOK, Conns, EmptyTable
<1>2. NoGhosts /\ PhoneViewExact /\ NoOrphanPairing
  BY DEF PresenceInit, NoGhosts, PhoneViewExact, NoOrphanPairing, EmptyTable
<1>3. OpenIsReachable /\ OwnRoom
  BY DEF PresenceInit, OpenIsReachable, OwnRoom, IsDesk, Stranger
<1> QED
  BY <1>1, <1>2, <1>3 DEF PresenceInv

LEMMA PresenceStep == PresenceInv /\ [PresenceNext]_presenceVars => PresenceInv'
<1> SUFFICES ASSUME PresenceInv, [PresenceNext]_presenceVars PROVE PresenceInv'
  OBVIOUS
<1>1. ASSUME NEW s \in Sockets, Open(s) \/ Close(s) \/ RegisterDesktop(s) \/ AskList(s) \/ Closed(s)
      PROVE  PresenceInv'
  BY <1>1, OpenStep, CloseStep, RegisterDesktopStep, AskListStep, ClosedStep
<1>2. ASSUME NEW s \in Sockets, NEW r \in Desktops, NEW x \in Devices, Authenticate(s, r, x)
      PROVE  PresenceInv'
  BY <1>2, AuthenticateStep
<1>3. ASSUME NEW s \in Sockets, NEW p \in Phones, RegisterMobile(s, p) PROVE PresenceInv'
  BY <1>3, RegisterMobileStep
<1>4. ASSUME NEW s \in Sockets, NEW m \in Messages(Phones, Desktops), Route(s, m) PROVE PresenceInv'
  BY <1>4, RouteStep
<1>5. ASSUME NEW i \in Pids, Purge(i) PROVE PresenceInv'
  BY <1>5, PurgeStep
<1>6. CASE UNCHANGED presenceVars
  BY <1>6 DEF presenceVars, PresenceInv, PresenceTypeOK, NoGhosts, OpenIsReachable, OwnRoom, IsDesk, PhoneViewExact,
              Listed, NoOrphanPairing
<1> QED
  BY <1>1, <1>2, <1>3, <1>4, <1>5, <1>6 DEF PresenceNext

LEMMA PresenceAlways == PresenceSpec => []PresenceInv
<1> QED
  BY PresenceHolds, PresenceStep, PTL DEF PresenceSpec

\* The variables keep their types, and a connection that is gone has no device.
THEOREM PresenceTypeCorrect == PresenceSpec => []PresenceTypeOK
<1>1. PresenceInv => PresenceTypeOK
  BY DEF PresenceInv
<1> QED
  BY <1>1, PresenceAlways, PTL

\* The registries are exact, whatever is replaced, closed late and still heard.
THEOREM RegistriesExactAlways == PresenceSpec => []RegistriesExact
<1>1. PresenceInv => RegistriesExact
  BY DEF PresenceInv, RegistriesExact
<1> QED
  BY <1>1, PresenceAlways, PTL

\* A phone's page that has read everything shows the desktops the relay lists.
THEOREM PhoneViewExactAlways == PresenceSpec => []PhoneViewExact
<1>1. PresenceInv => PhoneViewExact
  BY DEF PresenceInv
<1> QED
  BY <1>1, PresenceAlways, PTL

\* No pairing outlives the connections of its parties.
THEOREM NoOrphanPairingAlways == PresenceSpec => []NoOrphanPairing
<1>1. PresenceInv => NoOrphanPairing
  BY DEF PresenceInv
<1> QED
  BY <1>1, PresenceAlways, PTL

\* Registries and pairings together.
THEOREM RegistriesSoundAlways == PresenceSpec => []RegistriesSound
  BY RegistriesExactAlways, NoOrphanPairingAlways, PTL DEF RegistriesSound

\* The view of one desktop through one step: a phone that comes or goes is announced to it.
LEMMA ViewStep ==
  ASSUME PresenceInv, PresenceNext, NEW d \in Desktops, desktops[d] # NoSocket, phase[desktops[d]] = "open",
         told[desktops[d]] = Listed(mobiles),
         desktops'[d] = desktops[d], phase'[desktops[d]] = "open"
  PROVE  told'[desktops[d]] = Listed(mobiles')
<1> DEFINE s == desktops[d]
<1>1. /\ s \in Sockets /\ IsDesk(s) /\ ~IsPhone(s) /\ conn[s] # Stranger
      /\ \A p \in Phones : mobiles[p] # s
      /\ \A ph : s \notin Audience(mobiles, ph)
  <2>1. s \in Sockets /\ IsDesk(s) /\ ~IsPhone(s)
    BY RegistryFacts DEF PresenceInv
  <2>2. conn[s] # Stranger
    BY <2>1, ConnCases DEF PresenceInv
  <2>3. \A p \in Phones : mobiles[p] # s
    BY <2>1, RegistryFacts, SocketAssumption DEF PresenceInv
  <2>4. \A ph : s \notin Audience(mobiles, ph)
    BY <2>1, AudienceFacts DEF PresenceInv
  <2> QED
    BY <2>1, <2>2, <2>3, <2>4
<1>2. ASSUME NEW t \in Sockets, Open(t) \/ Close(t) PROVE told'[s] = Listed(mobiles')
  <2>1. mobiles' = mobiles /\ (told' = told \/ (told' = [told EXCEPT ![t] = {}] /\ t # s))
    BY <1>1, <1>2 DEF Open, Close, PresenceInv, PresenceTypeOK
  <2> QED
    BY <1>1, <2>1 DEF Listed, PresenceInv, PresenceTypeOK
<1>3. ASSUME NEW t \in Sockets, RegisterDesktop(t) PROVE told'[s] = Listed(mobiles')
  <2>1. mobiles' = mobiles /\ told'[s] = told[s]
    BY <1>1, <1>3 DEF RegisterDesktop, Online
  <2> QED
    BY <2>1 DEF Listed
<1>4. ASSUME NEW t \in Sockets, AskList(t) PROVE told'[s] = Listed(mobiles')
  BY <1>1, <1>4 DEF AskList, PresenceInv, PresenceTypeOK, Listed
<1>5. ASSUME NEW t \in Sockets, Closed(t) PROVE told'[s] = Listed(mobiles')
  <2> DEFINE x == conn[t].dev
  <2>1. t # s
    BY <1>5 DEF Closed, PresenceInv, PresenceTypeOK
  <2>2. s \in Audience(desktops, phase)
    BY <1>1, AudienceFacts DEF PresenceInv
  <2>3. told'[s] = IF IsPhone(t) /\ mobiles[x] = t THEN Listed(mobiles) \ {x} ELSE Listed(mobiles)
    BY <1>1, <1>5, <2>1, <2>2, ToldAfterFacts
  <2>4. \A p \in Phones : mobiles'[p] = IF mobiles[p] = t THEN NoSocket ELSE mobiles[p]
    BY <1>5, ClosedFacts
  <2>5. \A p \in Phones : mobiles[p] = t => IsPhone(t) /\ p = x
    BY RegistryFacts, ConnRecords, SocketAssumption DEF PresenceInv
  <2>6. IsPhone(t) => x \in Phones
    BY ConnCases DEF PresenceInv
  <2>7. DOMAIN mobiles' = Phones /\ DOMAIN mobiles = Phones
    BY <1>5, ClosedFacts DEF PresenceInv, PresenceTypeOK
  <2> QED
    BY <2>3, <2>4, <2>5, <2>6, <2>7, SocketAssumption DEF Listed
<1>6. ASSUME NEW t \in Sockets, NEW r \in Desktops, NEW x \in Devices, Authenticate(t, r, x)
      PROVE  told'[s] = Listed(mobiles')
  <2>1. t # s /\ s # rooms[r][x]
    BY <1>1, <1>6, ReplacedFacts DEF Authenticate, PresenceInv
  <2> QED
    BY <1>1, <1>6, <2>1 DEF Authenticate, Listed
<1>7. ASSUME NEW t \in Sockets, NEW p \in Phones, RegisterMobile(t, p)
      PROVE  told'[s] = Listed(mobiles')
  <2>1. t # s /\ s # mobiles[p] /\ mobiles' = [mobiles EXCEPT ![p] = t]
    BY <1>1, <1>7 DEF RegisterMobile
  <2>2. s \in Audience(desktops, phase')
    BY <1>1, AudienceFacts DEF PresenceInv
  <2>3. told'[s] = told[s] \union {p}
    BY <1>1, <1>7, <2>1, <2>2 DEF RegisterMobile, Online
  <2>4. Listed(mobiles') = Listed(mobiles) \union {p}
    BY <2>1, SocketAssumption DEF Listed, PresenceInv, PresenceTypeOK
  <2> QED
    BY <2>3, <2>4
<1>8. ASSUME NEW t \in Sockets, NEW m \in Messages(Phones, Desktops), Route(t, m)
      PROVE  told'[s] = Listed(mobiles')
  BY <1>8 DEF Route, Listed
<1>9. ASSUME NEW i \in Pids, Purge(i) PROVE told'[s] = Listed(mobiles')
  BY <1>9 DEF Purge, Listed
<1> QED
  BY <1>2, <1>3, <1>4, <1>5, <1>6, <1>7, <1>8, <1>9 DEF PresenceNext

\* A desktop's view of the phones, once right, stays right on its connection.
THEOREM DesktopViewAlwaysKept == PresenceSpec => DesktopViewKept
<1>1. PresenceInv /\ [PresenceNext]_presenceVars =>
        [\A d \in Desktops :
           LET s == desktops[d] IN
           (s # NoSocket /\ phase[s] = "open" /\ told[s] = Listed(mobiles)
             /\ desktops'[d] = s /\ phase'[s] = "open")
           => told'[s] = Listed(mobiles')]_presenceVars
  BY ViewStep
<1> QED
  BY <1>1, PresenceAlways, PTL DEF PresenceSpec, DesktopViewKept

-----------------------------------------------------------------------------
(***************************************************************************)
(* A pairing.                                                              *)
(***************************************************************************)

\* A message of kind k for pairing i is at one place of one of two hops at most.
Once(q, k, i) ==
  \A a, b \in 1..Len(q) :
    q[a].m.kind = k /\ q[b].m.kind = k /\ q[a].m.pid = i /\ q[b].m.pid = i => a = b
Coming(qa, qb, k, i) == Pending(qa, {k}, i) \/ Pending(qb, {k}, i)
OneOf(qa, qb, k, i) ==
  /\ Once(qa, k, i) /\ Once(qb, k, i)
  /\ ~(Pending(qa, {k}, i) /\ Pending(qb, {k}, i))

\* The desktop can still open a record for the pairing.
Unopened(i) == i \notin used \/ Coming(p2r, r2d, "request", i)

\* The page can still open a dialog for the pairing.
Unseen(i) == i \notin used \/ Coming(d2r, r2p, "invite", i)

RequestedOnce ==
  \A i \in Pids :
    /\ OneOf(p2r, r2d, "request", i)
    /\ i \notin used => ~Coming(p2r, r2d, "request", i)

InvitedOnce ==
  \A i \in Pids :
    /\ OneOf(d2r, r2p, "invite", i)
    /\ i \notin used => ~Coming(d2r, r2p, "invite", i)

Judged ==
  \A i \in Pids :
    /\ Unopened(i) => records[i] = NoRecord /\ verdict[i] = "open" /\ guesses[i] = 0
    /\ records[i] # NoRecord => guesses[i] <= records[i] /\ verdict[i] = "open"
    /\ guesses[i] <= MaxFailed

Held ==
  \A i \in Pids :
    /\ Unseen(i) => dialog.pid # i /\ paired # i /\ i \notin withdrawn
    /\ dialog.pid = i => paired # i /\ i \notin withdrawn
    /\ paired = i => i \notin withdrawn

Told ==
  \A i \in Pids :
    Coming(d2r, r2p, "completed", i) \/ paired = i => verdict[i] = "completed"

Mail == Sent("phone", PhoneKinds, Pids) \union Sent("desk", DeskKinds, Pids)
          \union Sent("relay", {"refused"}, Pids) \union Sent("relay", {"offline"}, {NoPid})

IInv == TypeOK /\ RequestedOnce /\ InvitedOnce /\ Judged /\ Held /\ Told

-----------------------------------------------------------------------------
(* What is sent, and the queues it waits in.                                 *)

\* Messages of the phone are mail of the phone.
LEMMA FromPhoneMail ==
  ASSUME NEW i \in Pids, NEW k \in PhoneKinds, NEW x \in 0..MaxExchanges, NEW r \in BOOLEAN
  PROVE  With(FromPhone(k, i), x, r) \in Sent("phone", PhoneKinds, Pids)
BY DEF With, FromPhone, Sent

\* Messages of the desktop are mail of the desktop.
LEMMA FromDeskMail ==
  ASSUME NEW i \in Pids, NEW k \in DeskKinds, NEW x \in 0..MaxExchanges, NEW r \in BOOLEAN
  PROVE  With(FromDesk(k, i), x, r) \in Sent("desk", DeskKinds, Pids)
BY DEF With, FromDesk, Sent

\* Notices of the relay are mail of the relay.
LEMMA NoticeMail ==
  ASSUME NEW k, NEW pids, NEW i \in pids
  PROVE  Notice(k, i) \in Sent("relay", {k}, pids)
<1>1. 0 \in 0..MaxExchanges
  BY BoundAssumption
<1> QED
  BY <1>1 DEF Notice, Plain, With, Sent

\* What mail says of itself.
LEMMA SentFields ==
  ASSUME NEW by, NEW kinds, NEW pids, NEW e \in Sent(by, kinds, pids)
  PROVE  /\ e.m.kind \in kinds /\ e.m.pid \in pids /\ e.m.by = by
         /\ e.m.phone = Phone /\ e.m.desk = Desk
         /\ e.x \in 0..MaxExchanges /\ e.right \in BOOLEAN
BY DEF Sent

\* A queue is given one more element, or loses its first.
LEMMA QueueType ==
  ASSUME NEW S, NEW q \in Seq(S)
  PROVE  /\ <<>> \in Seq(S)
         /\ \A e \in S : Append(q, e) \in Seq(S)
         /\ q # <<>> => Tail(q) \in Seq(S) /\ Head(q) \in S
OBVIOUS

\* A larger set of messages makes a larger set of queues.
LEMMA QueueWiden ==
  ASSUME NEW S, NEW T, S \subseteq T, NEW q \in Seq(S)
  PROVE  q \in Seq(T)
OBVIOUS

\* A message at the end of a queue adds itself.
LEMMA PendingAppend ==
  ASSUME NEW S, NEW q \in Seq(S), NEW e \in S, NEW k, NEW i
  PROVE  Pending(Append(q, e), {k}, i) <=> Pending(q, {k}, i) \/ (e.m.kind = k /\ e.m.pid = i)
<1>1. /\ Len(Append(q, e)) = Len(q) + 1 /\ Append(q, e)[Len(q) + 1] = e
      /\ \A n \in 1..Len(q) : Append(q, e)[n] = q[n]
  OBVIOUS
<1>2. Len(q) \in Nat
  OBVIOUS
<1>3. 1..(Len(q) + 1) = (1..Len(q)) \union {Len(q) + 1}
  BY <1>2
<1>4. ASSUME Pending(q, {k}, i)
      PROVE  Pending(Append(q, e), {k}, i)
  BY <1>1, <1>3, <1>4, Zenon DEF Pending
<1>5. ASSUME e.m.kind = k, e.m.pid = i
      PROVE  Pending(Append(q, e), {k}, i)
  BY <1>1, <1>3, <1>5, Zenon DEF Pending
<1>6. ASSUME Pending(Append(q, e), {k}, i)
      PROVE  Pending(q, {k}, i) \/ (e.m.kind = k /\ e.m.pid = i)
  BY <1>1, <1>3, <1>6, Zenon DEF Pending
<1> QED
  BY <1>4, <1>5, <1>6

\* It is there once if it was not, or is another.
LEMMA OnceAppend ==
  ASSUME NEW S, NEW q \in Seq(S), NEW e \in S, NEW k, NEW i, Once(q, k, i),
         Pending(q, {k}, i) => ~(e.m.kind = k /\ e.m.pid = i)
  PROVE  Once(Append(q, e), k, i)
<1>1. /\ Len(Append(q, e)) = Len(q) + 1 /\ Append(q, e)[Len(q) + 1] = e
      /\ \A n \in 1..Len(q) : Append(q, e)[n] = q[n]
  OBVIOUS
<1>2. 1..(Len(q) + 1) = (1..Len(q)) \union {Len(q) + 1}
  OBVIOUS
<1> SUFFICES ASSUME NEW a \in 1..(Len(q) + 1), NEW b \in 1..(Len(q) + 1),
                    Append(q, e)[a].m.kind = k, Append(q, e)[b].m.kind = k,
                    Append(q, e)[a].m.pid = i, Append(q, e)[b].m.pid = i
             PROVE  a = b
  BY <1>1, Zenon DEF Once
<1>3. CASE a \in 1..Len(q) /\ b \in 1..Len(q)
  BY <1>1, <1>3, Zenon DEF Once
<1>4. CASE a = Len(q) + 1 /\ b \in 1..Len(q)
  BY <1>1, <1>4, Zenon DEF Pending
<1>5. CASE a \in 1..Len(q) /\ b = Len(q) + 1
  BY <1>1, <1>5, Zenon DEF Pending
<1> QED
  BY <1>2, <1>3, <1>4, <1>5, Zenon

\* The rest of a queue holds what the queue holds, less the first message.
LEMMA PendingTail ==
  ASSUME NEW S, NEW q \in Seq(S), q # <<>>, NEW k, NEW i
  PROVE  /\ Pending(Tail(q), {k}, i) => Pending(q, {k}, i)
         /\ Head(q).m.kind = k /\ Head(q).m.pid = i => Pending(q, {k}, i)
         /\ Once(q, k, i) => Once(Tail(q), k, i)
         /\ Once(q, k, i) /\ Head(q).m.kind = k /\ Head(q).m.pid = i => ~Pending(Tail(q), {k}, i)
<1>1. /\ Len(q) \in Nat \ {0} /\ Len(Tail(q)) = Len(q) - 1 /\ Head(q) = q[1]
      /\ \A n \in 1..Len(Tail(q)) : Tail(q)[n] = q[n + 1]
  OBVIOUS
<1>2. 1 \in 1..Len(q) /\ \A n \in 1..Len(Tail(q)) : n + 1 \in 1..Len(q) /\ n + 1 # 1
  BY <1>1
<1>3. ASSUME Pending(Tail(q), {k}, i)
      PROVE  Pending(q, {k}, i)
  <2>1. PICK n \in 1..Len(Tail(q)) : Tail(q)[n].m.pid = i /\ Tail(q)[n].m.kind \in {k}
    BY <1>3 DEF Pending
  <2> QED
    BY <2>1, <1>1, <1>2 DEF Pending
<1>4. Head(q).m.kind = k /\ Head(q).m.pid = i => Pending(q, {k}, i)
  BY <1>1, <1>2 DEF Pending
<1>5. ASSUME Once(q, k, i)
      PROVE  Once(Tail(q), k, i)
  <2> SUFFICES ASSUME NEW a \in 1..Len(Tail(q)), NEW b \in 1..Len(Tail(q)),
                      Tail(q)[a].m.kind = k, Tail(q)[b].m.kind = k,
                      Tail(q)[a].m.pid = i, Tail(q)[b].m.pid = i
               PROVE  a = b
    BY DEF Once
  <2>1. a + 1 = b + 1
    BY <1>1, <1>2, <1>5 DEF Once
  <2> QED
    BY <2>1, <1>1
<1>6. ASSUME Once(q, k, i), Head(q).m.kind = k, Head(q).m.pid = i, Pending(Tail(q), {k}, i)
      PROVE  FALSE
  <2>1. PICK n \in 1..Len(Tail(q)) : Tail(q)[n].m.pid = i /\ Tail(q)[n].m.kind \in {k}
    BY <1>6 DEF Pending
  <2>2. q[n + 1].m.kind = k /\ q[n + 1].m.pid = i
    BY <2>1, <1>1
  <2>3. n + 1 = 1
    BY <2>2, <1>1, <1>2, <1>6 DEF Once
  <2> QED
    BY <2>3, <1>2
<1> QED
  BY <1>3, <1>4, <1>5, <1>6

\* An empty queue holds nothing.
LEMMA PendingNone ==
  ASSUME NEW k, NEW i
  PROVE  Once(<<>>, k, i) /\ ~Pending(<<>>, {k}, i)
BY DEF Once, Pending

-----------------------------------------------------------------------------
(* Types                                                                     *)

\* The program starts within its types.
LEMMA InitTypeOK == Init => TypeOK
<1>1. 0 \in 0..MaxFailed /\ MaxFailed \in 0..MaxFailed /\ 0 \in 0..MaxExchanges /\ 0 \in 0..MaxLosses
  BY BoundAssumption
<1>2. \A S : <<>> \in Seq(S)
  OBVIOUS
<1> QED
  BY <1>1, <1>2 DEF Init, TypeOK, NoDialog, NoRecord, EmptyTable

\* A dialog with a key, or any but the closed one, is about a pairing.
LEMMA DialogPid ==
  ASSUME TypeOK, dialog # NoDialog \/ dialog.key
  PROVE  dialog.pid \in Pids
BY PidAssumption DEF TypeOK, NoDialog

\* What the user does keeps the types.
LEMMA TypeUser == TypeOK /\ User => TypeOK'
<1> SUFFICES ASSUME TypeOK, User PROVE TypeOK'
  OBVIOUS
<1>0. 0 \in 0..MaxExchanges /\ 0 \in 0..MaxFailed /\ MaxFailed \in 0..MaxFailed
  BY BoundAssumption
<1>1. CASE Cancel
  <2>1. dialog.pid \in Pids
    BY <1>1, DialogPid DEF Cancel
  <2>2. Plain(FromPhone("cancelled", dialog.pid)) \in Sent("phone", PhoneKinds, Pids)
    BY <2>1, <1>0, FromPhoneMail DEF Plain, PhoneKinds
  <2>3. p2r' \in Seq(Sent("phone", PhoneKinds, Pids))
    BY <1>1, <2>2, QueueType DEF Cancel, TypeOK
  <2> QED
    BY <1>0, <1>1, <2>1, <2>3 DEF Cancel, TypeOK, NoDialog, deskVars
<1>2. ASSUME NEW right \in BOOLEAN, Submit(right)
      PROVE  TypeOK'
  <2>0. typed \in 0..MaxExchanges
    BY DEF TypeOK
  <2>1. dialog.pid \in Pids /\ dialog.pid # NoPid /\ typed + 1 \in 0..MaxExchanges
    <3>1. typed < MaxExchanges /\ dialog.key
      BY <1>2 DEF Submit
    <3>2. typed + 1 \in 0..MaxExchanges
      BY <2>0, <3>1, BoundAssumption
    <3> QED
      BY <3>1, <3>2, DialogPid, PidAssumption
  <2>2. With(FromPhone("proof", dialog.pid), typed + 1, right) \in Sent("phone", PhoneKinds, Pids)
    BY <2>1, FromPhoneMail DEF PhoneKinds
  <2> DEFINE D == [pid : Pids \union {NoPid}, stage : {"closed", "waiting", "ready", "verifying"},
                   key : BOOLEAN, x : 0..MaxExchanges]
             e == With(FromPhone("proof", dialog.pid), typed + 1, right)
             S == Sent("phone", PhoneKinds, Pids)
  <2>3. p2r' \in Seq(S)
    <3>1. p2r \in Seq(S) /\ e \in S
      BY <2>2 DEF TypeOK
    <3>2. Append(p2r, e) \in Seq(S)
      BY <3>1, QueueType
    <3>3. p2r' = Append(p2r, e) \/ p2r' = p2r
      BY <1>2 DEF Submit
    <3> QED
      BY <3>1, <3>2, <3>3
  <2>4. dialog' \in D /\ dialog'.pid = dialog.pid
    <3>1. dialog \in D
      BY DEF TypeOK
    <3>2. \/ dialog' = [dialog EXCEPT !.stage = "verifying", !.x = typed + 1]
          \/ dialog' = [dialog EXCEPT !.stage = "ready", !.x = typed + 1]
      BY <1>2, Zenon DEF Submit
    <3> QED
      BY <2>1, <3>1, <3>2
  <2>5. UNCHANGED <<online, paired, deskVars, table, late, r2p, d2r, r2d, used, losses, verdict,
                    guesses, withdrawn, disturbed>> /\ typed' = typed + 1
    BY <1>2, Zenon DEF Submit
  <2> QED
    BY <2>1, <2>3, <2>4, <2>5 DEF TypeOK, deskVars
<1>3. ASSUME NEW i \in Pids, Request(i)
      PROVE  TypeOK'
  <2>1. Plain(FromPhone("request", i)) \in Sent("phone", PhoneKinds, Pids)
    BY <1>0, FromPhoneMail DEF Plain, PhoneKinds
  <2>2. p2r' \in Seq(Sent("phone", PhoneKinds, Pids))
    BY <1>3, <2>1, QueueType DEF Request, TypeOK
  <2> QED
    BY <1>0, <1>3, <2>2, PidAssumption DEF Request, TypeOK, deskVars
<1>4. ASSUME NEW i \in Pids, Invite(i)
      PROVE  TypeOK'
  <2>1. Plain(FromDesk("invite", i)) \in Sent("desk", DeskKinds, Pids)
    BY <1>0, FromDeskMail DEF Plain, DeskKinds
  <2>2. d2r' \in Seq(Sent("desk", DeskKinds, Pids))
    BY <1>4, <2>1, QueueType DEF Invite, TypeOK
  <2> QED
    BY <1>0, <1>4, <2>2 DEF Invite, TypeOK, phoneVars
<1>5. ASSUME NEW i \in Pids, Reject(i)
      PROVE  TypeOK'
  <2>1. Plain(FromDesk("rejected", i)) \in Sent("desk", DeskKinds, Pids)
    BY <1>0, FromDeskMail DEF Plain, DeskKinds
  <2>2. d2r' \in Seq(Sent("desk", DeskKinds, Pids))
    BY <1>5, <2>1, QueueType DEF Reject, TypeOK
  <2> QED
    BY <1>0, <1>5, <2>2 DEF Reject, TypeOK, phoneVars, NoRecord
<1> QED
  BY <1>1, <1>2, <1>3, <1>4, <1>5 DEF User

\* The relay only keeps pairings of its parties.
LEMMA TableType ==
  ASSUME NEW t \in [Pids -> Pairings({Phone}, {Desk}) \union {NoPairing}],
         NEW m, m.pid \in Pids, m.phone = Phone, m.desk = Desk, Allowed(t, m)
  PROVE  Forwarded(t, m) \in [Pids -> Pairings({Phone}, {Desk}) \union {NoPairing}]
<1> DEFINE p == t[m.pid]
<1>1. m.kind \notin Opening => p \in Pairings({Phone}, {Desk})
  BY DEF Allowed
<1>2. CASE m.kind \in Opening
  <2> DEFINE new == [phone |-> m.phone, desk |-> m.desk,
                     state |-> IF m.kind = "request" THEN "requested" ELSE "invited"]
  <2>1. new \in Pairings({Phone}, {Desk})
    BY DEF Pairings, States
  <2>2. Forwarded(t, m) = [t EXCEPT ![m.pid] = new]
    BY <1>2 DEF Forwarded, Opening, Terminal
  <2> QED
    BY <2>1, <2>2
<1>3. CASE m.kind \in Terminal /\ m.kind \notin Opening
  <2>1. Forwarded(t, m) = [t EXCEPT ![m.pid] = NoPairing]
    BY <1>3 DEF Forwarded, Opening, Terminal
  <2> QED
    BY <2>1
<1>4. CASE m.kind \notin Opening /\ m.kind \notin Terminal
  <2>1. \A st \in States : [p EXCEPT !.state = st] \in Pairings({Phone}, {Desk})
    BY <1>1, <1>4 DEF Pairings
  <2>2. "challenged" \in States /\ "proof" \in States
    BY DEF States
  <2>3. CASE m.kind = "challenge"
    BY <1>4, <2>1, <2>2, <2>3 DEF Forwarded
  <2>4. CASE m.kind = "proof"
    BY <1>4, <2>1, <2>2, <2>4 DEF Forwarded
  <2>5. CASE m.kind # "challenge" /\ m.kind # "proof"
    BY <1>4, <2>5 DEF Forwarded
  <2> QED
    BY <2>3, <2>4, <2>5
<1> QED
  BY <1>2, <1>3, <1>4

\* Removing a device only empties entries.
LEMMA WithoutType ==
  ASSUME NEW t \in [Pids -> Pairings({Phone}, {Desk}) \union {NoPairing}], NEW x
  PROVE  Without(t, x) \in [Pids -> Pairings({Phone}, {Desk}) \union {NoPairing}]
BY DEF Without

\* A loss is counted.
LEMMA LoseType ==
  ASSUME TypeOK, NEW pids, pids \subseteq Pids, Lose(pids)
  PROVE  disturbed' \subseteq Pids /\ losses' \in 0..MaxLosses
<1>1. losses \in 0..MaxLosses /\ losses < MaxLosses /\ losses' = losses + 1
  BY DEF TypeOK, Lose
<1>2. losses' \in 0..MaxLosses
  BY <1>1, BoundAssumption
<1> QED
  BY <1>2 DEF TypeOK, Lose

\* What the relay does keeps the types.
LEMMA TypeRelay == TypeOK /\ Relay => TypeOK'
<1> SUFFICES ASSUME TypeOK, Relay PROVE TypeOK'
  OBVIOUS
<1> DEFINE FromP == Sent("phone", PhoneKinds, Pids)
           FromD == Sent("desk", DeskKinds, Pids)
           ToP == FromD \union Sent("relay", {"refused"}, Pids)
           ToD == FromP \union Sent("relay", {"offline"}, {NoPid})
<1>0. p2r \in Seq(FromP) /\ d2r \in Seq(FromD) /\ r2p \in Seq(ToP) /\ r2d \in Seq(ToD)
  BY DEF TypeOK
<1>a. p2r # <<>> => /\ Tail(p2r) \in Seq(FromP) /\ Head(p2r) \in FromP /\ Head(p2r).m.pid \in Pids
                    /\ Head(p2r).m.phone = Phone /\ Head(p2r).m.desk = Desk
  BY <1>0, QueueType, SentFields
<1>b. d2r # <<>> => /\ Tail(d2r) \in Seq(FromD) /\ Head(d2r) \in FromD /\ Head(d2r).m.pid \in Pids
                    /\ Head(d2r).m.phone = Phone /\ Head(d2r).m.desk = Desk
  BY <1>0, QueueType, SentFields
<1>c. \A i \in Pids : Append(r2p, Notice("refused", i)) \in Seq(ToP)
  BY <1>0, QueueType, NoticeMail
<1>d. Head(p2r) \in FromP => Append(r2d, Head(p2r)) \in Seq(ToD)
  BY <1>0, QueueType
<1>e. Head(d2r) \in FromD => Append(r2p, Head(d2r)) \in Seq(ToP)
  BY <1>0, QueueType
<1> HIDE DEF FromP, FromD, ToP, ToD
<1>1. CASE RelayFromPhone
  <2>1. table' \in [Pids -> Pairings({Phone}, {Desk}) \union {NoPairing}]
    <3>1. \/ table' = table
          \/ p2r # <<>> /\ Allowed(table, Head(p2r).m) /\ table' = Forwarded(table, Head(p2r).m)
      BY <1>1 DEF RelayFromPhone
    <3>2. table \in [Pids -> Pairings({Phone}, {Desk}) \union {NoPairing}]
      BY DEF TypeOK
    <3> QED
      BY <3>1, <3>2, <1>a, TableType
  <2>2. p2r' \in Seq(FromP) /\ r2p' \in Seq(ToP) /\ r2d' \in Seq(ToD) /\ d2r' \in Seq(FromD)
    BY <1>0, <1>1, <1>a, <1>c, <1>d DEF RelayFromPhone
  <2>3. disturbed' \subseteq Pids
    BY <1>1, <1>a DEF RelayFromPhone, TypeOK
  <2> QED
    BY <1>1, <2>1, <2>2, <2>3 DEF RelayFromPhone, TypeOK, phoneVars, deskVars, FromP, FromD, ToP, ToD
<1>2. CASE RelayFromDesk
  <2>1. table' \in [Pids -> Pairings({Phone}, {Desk}) \union {NoPairing}]
    <3>1. \/ table' = table
          \/ d2r # <<>> /\ Allowed(table, Head(d2r).m) /\ table' = Forwarded(table, Head(d2r).m)
      BY <1>2 DEF RelayFromDesk
    <3>2. table \in [Pids -> Pairings({Phone}, {Desk}) \union {NoPairing}]
      BY DEF TypeOK
    <3> QED
      BY <3>1, <3>2, <1>b, TableType
  <2>2. p2r' \in Seq(FromP) /\ r2p' \in Seq(ToP) /\ r2d' \in Seq(ToD) /\ d2r' \in Seq(FromD)
    BY <1>0, <1>2, <1>b, <1>e DEF RelayFromDesk
  <2>3. disturbed' \subseteq Pids
    BY <1>2, <1>b DEF RelayFromDesk, TypeOK
  <2> QED
    BY <1>2, <2>1, <2>2, <2>3 DEF RelayFromDesk, TypeOK, phoneVars, deskVars, FromP, FromD, ToP, ToD
<1>3. CASE RelayRefuses
  <2>2. p2r' \in Seq(FromP) /\ r2p' \in Seq(ToP) /\ r2d' \in Seq(ToD) /\ d2r' \in Seq(FromD)
    BY <1>0, <1>3, <1>a, <1>b, <1>c DEF RelayRefuses
  <2>3. disturbed' \subseteq Pids /\ losses' \in 0..MaxLosses
    BY <1>3, <1>a, <1>b, LoseType DEF RelayRefuses
  <2> QED
    BY <1>3, <2>2, <2>3 DEF RelayRefuses, TypeOK, phoneVars, deskVars, FromP, FromD, ToP, ToD
<1>4. ASSUME NEW i \in Pids, RelayExpires(i)
      PROVE  TypeOK'
  <2>1. disturbed' \subseteq Pids /\ losses' \in 0..MaxLosses
    BY <1>4, LoseType DEF RelayExpires
  <2> QED
    BY <1>4, <2>1 DEF RelayExpires, TypeOK, phoneVars, deskVars
<1>5. ASSUME NEW i \in Pids, DeskExpires(i)
      PROVE  TypeOK'
  <2>1. disturbed' \subseteq Pids /\ losses' \in 0..MaxLosses
    BY <1>5, LoseType DEF DeskExpires
  <2>2. NoRecord \in 0..MaxFailed
    BY BoundAssumption DEF NoRecord
  <2> QED
    BY <1>5, <2>1, <2>2 DEF DeskExpires, TypeOK, phoneVars
<1> QED
  BY <1>1, <1>2, <1>3, <1>4, <1>5 DEF Relay

\* Connections that come and go keep the types.
LEMMA TypeLinks == TypeOK /\ Links => TypeOK'
<1> SUFFICES ASSUME TypeOK, Links PROVE TypeOK'
  OBVIOUS
<1> DEFINE FromP == Sent("phone", PhoneKinds, Pids)
           FromD == Sent("desk", DeskKinds, Pids)
           ToP == FromD \union Sent("relay", {"refused"}, Pids)
           ToD == FromP \union Sent("relay", {"offline"}, {NoPid})
           T == [Pids -> Pairings({Phone}, {Desk}) \union {NoPairing}]
<1>0. p2r \in Seq(FromP) /\ d2r \in Seq(FromD) /\ r2p \in Seq(ToP) /\ r2d \in Seq(ToD)
  BY DEF TypeOK
<1>a. <<>> \in Seq(FromP) /\ <<>> \in Seq(FromD) /\ <<>> \in Seq(ToP) /\ <<>> \in Seq(ToD)
  BY <1>0, QueueType
<1>b. Append(r2d, Notice("offline", NoPid)) \in Seq(ToD)
  BY <1>0, QueueType, NoticeMail
<1>c. table \in T /\ \A x : Without(table, x) \in T
  <2>1. table \in T
    BY DEF TypeOK
  <2> QED
    BY <2>1, WithoutType
<1> HIDE DEF FromP, FromD, ToP, ToD, T
<1>1. CASE PhoneLost
  <2>1. p2r' \in Seq(FromP) /\ r2p' \in Seq(ToP) /\ r2d' \in Seq(ToD) /\ d2r' \in Seq(FromD) /\ table' \in T
    BY <1>0, <1>1, <1>a, <1>b, <1>c DEF PhoneLost
  <2>2. disturbed' \subseteq Pids /\ losses' \in 0..MaxLosses
    BY <1>1, LoseType DEF PhoneLost
  <2>3. late' \subseteq {Phone, Desk}
    BY <1>1 DEF PhoneLost, TypeOK
  <2> QED
    BY <1>1, <2>1, <2>2, <2>3 DEF PhoneLost, TypeOK, deskVars, FromP, FromD, ToP, ToD, T
<1>2. CASE PhoneBack
  BY <1>2 DEF PhoneBack, TypeOK, deskVars, pastVars
<1>3. CASE DeskLost
  <2>1. p2r' \in Seq(FromP) /\ r2p' \in Seq(ToP) /\ r2d' \in Seq(ToD) /\ d2r' \in Seq(FromD) /\ table' \in T
    BY <1>0, <1>3, <1>a, <1>c DEF DeskLost
  <2>2. disturbed' \subseteq Pids /\ losses' \in 0..MaxLosses
    BY <1>3, LoseType DEF DeskLost
  <2>3. late' \subseteq {Phone, Desk} /\ NoRecord \in 0..MaxFailed
    BY <1>3, BoundAssumption DEF DeskLost, TypeOK, NoRecord
  <2> QED
    BY <1>3, <2>1, <2>2, <2>3 DEF DeskLost, TypeOK, phoneVars, FromP, FromD, ToP, ToD, T
<1>4. CASE DeskBack
  BY <1>4 DEF DeskBack, TypeOK, phoneVars, pastVars
<1>5. ASSUME NEW x \in {Phone, Desk}, LateClose(x)
      PROVE  TypeOK'
  <2>1. p2r' \in Seq(FromP) /\ r2p' \in Seq(ToP) /\ r2d' \in Seq(ToD) /\ d2r' \in Seq(FromD) /\ table' \in T
    BY <1>0, <1>5, <1>b, <1>c DEF LateClose
  <2> QED
    BY <1>5, <2>1 DEF LateClose, TypeOK, phoneVars, deskVars, FromP, FromD, ToP, ToD, T
<1> QED
  BY <1>1, <1>2, <1>3, <1>4, <1>5 DEF Links

\* What the desktop takes from its queue.
LEMMA DeskHead ==
  ASSUME TypeOK, NEW k, DeskTakes(k)
  PROVE  /\ r2d' \in Seq(Sent("phone", PhoneKinds, Pids) \union Sent("relay", {"offline"}, {NoPid}))
         /\ k # "offline" => Head(r2d).m.pid \in Pids
         /\ Head(r2d).x \in 0..MaxExchanges /\ Head(r2d).right \in BOOLEAN
<1> DEFINE FromP == Sent("phone", PhoneKinds, Pids)
           Other == Sent("relay", {"offline"}, {NoPid})
<1>1. r2d \in Seq(FromP \union Other) /\ r2d # <<>> /\ Head(r2d).m.kind = k /\ r2d' = Tail(r2d)
  BY DEF TypeOK, DeskTakes
<1>2. Tail(r2d) \in Seq(FromP \union Other) /\ Head(r2d) \in FromP \union Other
  BY <1>1, QueueType
<1>3. CASE Head(r2d) \in FromP
  BY <1>1, <1>2, <1>3, SentFields
<1>4. CASE Head(r2d) \in Other
  BY <1>1, <1>2, <1>4, SentFields
<1> QED
  BY <1>2, <1>3, <1>4

\* What the desktop does keeps the types.
LEMMA TypeDesktop == TypeOK /\ Desktop => TypeOK'
<1> SUFFICES ASSUME TypeOK, Desktop PROVE TypeOK'
  OBVIOUS
<1> DEFINE FromP == Sent("phone", PhoneKinds, Pids)
           FromD == Sent("desk", DeskKinds, Pids)
           ToP == FromD \union Sent("relay", {"refused"}, Pids)
           ToD == FromP \union Sent("relay", {"offline"}, {NoPid})
           i == Head(r2d).m.pid
           Rest == /\ records' \in [Pids -> 0..MaxFailed]
                   /\ d2r' \in Seq(FromD)
                   /\ verdict' \in [Pids -> {"open", "rejected", "completed"}]
                   /\ guesses' \in [Pids -> Nat]
<1>0. /\ d2r \in Seq(FromD) /\ records \in [Pids -> 0..MaxFailed] /\ guesses \in [Pids -> Nat]
      /\ verdict \in [Pids -> {"open", "rejected", "completed"}]
      /\ 0 \in 0..MaxFailed /\ NoRecord \in 0..MaxFailed /\ 0 \in 0..MaxExchanges
  BY BoundAssumption DEF TypeOK, NoRecord
<1>a. \A e \in FromD : Append(d2r, e) \in Seq(FromD)
  BY <1>0, QueueType
<1>b. \A k \in {"challenge", "completed", "rejected", "error"} : k \in DeskKinds
  BY DEF DeskKinds
<1>c. ASSUME NEW k, DeskTakes(k), Rest
      PROVE  TypeOK'
  <2>1. r2d' \in Seq(ToD)
    BY <1>c, DeskHead
  <2> HIDE DEF FromP, FromD, ToP, ToD
  <2>2. UNCHANGED <<phoneVars, running, table, late, p2r, r2p, used, typed, losses, withdrawn, disturbed>>
    BY <1>c DEF DeskTakes
  <2> QED
    BY <1>c, <2>1, <2>2 DEF TypeOK, phoneVars, FromP, FromD, ToP, ToD
<1> HIDE DEF FromD
<1>1. CASE AcceptRequest
  <2>1. DeskTakes("request") /\ i \in Pids
    BY <1>1, DeskHead DEF AcceptRequest
  <2>2. Plain(FromDesk("challenge", i)) \in FromD
    BY <2>1, <1>0, <1>b, FromDeskMail DEF Plain, FromD
  <2>3. Rest
    BY <1>0, <1>1, <1>a, <2>1, <2>2 DEF AcceptRequest
  <2> QED
    BY <1>c, <2>1, <2>3
<1>2. CASE ProofUnknown
  BY <1>0, <1>2, <1>c DEF ProofUnknown
<1>3. CASE ProofWrong
  <2>1. DeskTakes("proof") /\ i \in Pids /\ records[i] # NoRecord
    BY <1>3, DeskHead DEF ProofWrong
  <2>2. \E kept \in 0..MaxFailed, reply \in {"rejected", "error"} : JudgeWrong(i, kept, reply)
    <3>1. records[i] + 1 < MaxFailed => records[i] + 1 \in 0..MaxFailed
      BY <1>0, <2>1, BoundAssumption
    <3>2. \/ JudgeWrong(i, NoRecord, "rejected")
          \/ records[i] + 1 < MaxFailed /\ JudgeWrong(i, records[i] + 1, "error")
      BY <1>0, <1>3, <2>1, BoundAssumption DEF ProofWrong
    <3> QED
      BY <1>0, <3>1, <3>2
  <2>3. PICK kept \in 0..MaxFailed, reply \in {"rejected", "error"} : JudgeWrong(i, kept, reply)
    BY <2>2
  <2>4. Plain(FromDesk(reply, i)) \in FromD
    BY <2>1, <1>0, <1>b, FromDeskMail DEF Plain, FromD
  <2>5. Rest
    BY <1>0, <1>a, <2>1, <2>3, <2>4 DEF JudgeWrong
  <2> QED
    BY <1>c, <2>1, <2>5
<1>4. CASE ProofRight
  <2>1. DeskTakes("proof") /\ i \in Pids
    BY <1>4, DeskHead DEF ProofRight
  <2>2. With(FromDesk("completed", i), Head(r2d).x, TRUE) \in FromD
    BY <2>1, <1>b, DeskHead, FromDeskMail DEF FromD
  <2>3. Rest
    BY <1>0, <1>4, <1>a, <2>1, <2>2 DEF ProofRight
  <2> QED
    BY <1>c, <2>1, <2>3
<1>5. CASE DeskCancelled
  <2>1. Rest
    BY <1>0, <1>5 DEF DeskCancelled
  <2> QED
    BY <1>5, <1>c, <2>1 DEF DeskCancelled
<1>6. CASE DeskOffline
  <2>1. Rest
    BY <1>0, <1>6 DEF DeskOffline
  <2> QED
    BY <1>6, <1>c, <2>1 DEF DeskOffline
<1> QED
  BY <1>1, <1>2, <1>3, <1>4, <1>5, <1>6 DEF Desktop

\* What the page takes from its queue.
LEMMA PageHead ==
  ASSUME TypeOK, NEW k, PageTakes(k)
  PROVE  /\ r2p' \in Seq(Sent("desk", DeskKinds, Pids) \union Sent("relay", {"refused"}, Pids))
         /\ Head(r2p).m.pid \in Pids
<1> DEFINE FromD == Sent("desk", DeskKinds, Pids)
           Other == Sent("relay", {"refused"}, Pids)
<1>1. r2p \in Seq(FromD \union Other) /\ r2p # <<>> /\ r2p' = Tail(r2p)
  BY DEF TypeOK, PageTakes
<1>2. Tail(r2p) \in Seq(FromD \union Other) /\ Head(r2p) \in FromD \union Other
  BY <1>1, QueueType
<1>3. CASE Head(r2p) \in FromD
  BY <1>1, <1>2, <1>3, SentFields
<1>4. CASE Head(r2p) \in Other
  BY <1>1, <1>2, <1>4, SentFields
<1> QED
  BY <1>2, <1>3, <1>4

\* A dialog the page may show.
Dialogs == [pid : Pids \union {NoPid}, stage : {"closed", "waiting", "ready", "verifying"},
            key : BOOLEAN, x : 0..MaxExchanges]

\* What the page does keeps the types.
LEMMA TypePage == TypeOK /\ Page => TypeOK'
<1> SUFFICES ASSUME TypeOK, Page PROVE TypeOK'
  OBVIOUS
<1> DEFINE i == Head(r2p).m.pid
           New == /\ dialog' \in Dialogs /\ (dialog'.pid = NoPid => dialog' = NoDialog)
                  /\ paired' \in Pids \union {NoPid} /\ online' = online /\ p2r' = p2r
<1>0. /\ dialog \in Dialogs /\ (dialog.pid = NoPid => dialog = NoDialog)
      /\ paired \in Pids \union {NoPid} /\ 0 \in 0..MaxExchanges
  BY BoundAssumption DEF TypeOK, Dialogs
<1>a. NoDialog \in Dialogs /\ NoDialog.pid = NoPid
  BY <1>0 DEF NoDialog, Dialogs
<1>b. \A st \in {"waiting", "ready"}, y \in 0..MaxExchanges :
        /\ [dialog EXCEPT !.stage = st] \in Dialogs /\ [dialog EXCEPT !.stage = st].pid = dialog.pid
        /\ [dialog EXCEPT !.stage = st, !.x = y] \in Dialogs
        /\ [dialog EXCEPT !.stage = st, !.x = y].pid = dialog.pid
        /\ [dialog EXCEPT !.stage = st, !.key = TRUE] \in Dialogs
        /\ [dialog EXCEPT !.stage = st, !.key = TRUE].pid = dialog.pid
  BY <1>0 DEF Dialogs
<1>c. ASSUME NEW k, PageTakes(k), New
      PROVE  TypeOK'
  <2>1. r2p' \in Seq(Sent("desk", DeskKinds, Pids) \union Sent("relay", {"refused"}, Pids))
    BY <1>c, PageHead
  <2>2. UNCHANGED <<deskVars, table, late, d2r, r2d, used, typed, losses, verdict, guesses, withdrawn, disturbed>>
    BY <1>c DEF PageTakes
  <2> QED
    BY <1>c, <2>1, <2>2 DEF TypeOK, deskVars, Dialogs
<1>d. \A k : PageTakes(k) => i \in Pids /\ i # NoPid
  BY PageHead, PidAssumption
<1>1. CASE PageInvited
  <2>1. New
    BY <1>0, <1>1, <1>d DEF PageInvited, Dialogs
  <2> QED
    BY <1>1, <1>c, <2>1 DEF PageInvited
<1>2. CASE PageChallenged
  <2>1. New
    BY <1>0, <1>2, <1>b, <1>d DEF PageChallenged, Current
  <2> QED
    BY <1>2, <1>c, <2>1 DEF PageChallenged
<1>3. CASE PageCompleted
  <2>1. New
    BY <1>0, <1>3, <1>a, <1>b, <1>d DEF PageCompleted, Current
  <2> QED
    BY <1>3, <1>c, <2>1 DEF PageCompleted
<1>4. CASE PageError
  <2>1. New
    BY <1>0, <1>4, <1>b, <1>d DEF PageError, Current
  <2> QED
    BY <1>4, <1>c, <2>1 DEF PageError
<1>5. CASE PageRejected
  <2>1. New
    BY <1>0, <1>5, <1>a DEF PageRejected
  <2> QED
    BY <1>5, <1>c, <2>1 DEF PageRejected
<1>6. CASE PageRefused
  <2>1. New
    BY <1>0, <1>6, <1>b, <1>d DEF PageRefused, Current
  <2> QED
    BY <1>6, <1>c, <2>1 DEF PageRefused
<1> QED
  BY <1>1, <1>2, <1>3, <1>4, <1>5, <1>6 DEF Page

\* Every step keeps the types.
LEMMA TypeStep == TypeOK /\ [Next]_vars => TypeOK'
<1>1. TypeOK /\ UNCHANGED vars => TypeOK'
  BY DEF vars, phoneVars, deskVars, pastVars, TypeOK
<1> QED
  BY <1>1, TypeUser, TypeRelay, TypeLinks, TypeDesktop, TypePage DEF Next

-----------------------------------------------------------------------------
(* Two hops in a row.  Unless it sends one itself, a step loses messages of a *)
(* kind or hands them on, and makes no second one.                           *)

Moves(qa, qb, qa1, qb1, k) ==
  \/ qa1 = qa /\ qb1 = qb
  \/ qb1 = qb /\ \E e \in Mail : e.m.kind # k /\ qa1 = Append(qa, e)
  \/ qa1 = qa /\ \E e \in Mail : e.m.kind # k /\ qb1 = Append(qb, e)
  \/ qa1 = <<>> /\ qb1 = qb
  \/ qa1 = <<>> /\ \E e \in Mail : e.m.kind # k /\ qb1 = Append(qb, e)
  \/ qa1 = qa /\ qb1 = <<>>
  \/ qa # <<>> /\ qa1 = Tail(qa) /\ qb1 = qb
  \/ qa # <<>> /\ qa1 = Tail(qa) /\ qb1 = Append(qb, Head(qa))
  \/ qa # <<>> /\ qa1 = Tail(qa) /\ \E e \in Mail : e.m.kind # k /\ qb1 = Append(qb, e)
  \/ qb # <<>> /\ qa1 = qa /\ qb1 = Tail(qb)
  \/ qb # <<>> /\ qb1 = Tail(qb) /\ \E e \in Mail : e.m.kind # k /\ qa1 = Append(qa, e)

\* The four queues hold mail.
LEMMA QueuesHoldMail ==
  TypeOK => p2r \in Seq(Mail) /\ d2r \in Seq(Mail) /\ r2p \in Seq(Mail) /\ r2d \in Seq(Mail)
<1> SUFFICES ASSUME TypeOK
             PROVE  p2r \in Seq(Mail) /\ d2r \in Seq(Mail) /\ r2p \in Seq(Mail) /\ r2d \in Seq(Mail)
  OBVIOUS
<1>1. /\ Sent("phone", PhoneKinds, Pids) \subseteq Mail
      /\ Sent("desk", DeskKinds, Pids) \subseteq Mail
      /\ (Sent("desk", DeskKinds, Pids) \union Sent("relay", {"refused"}, Pids)) \subseteq Mail
      /\ (Sent("phone", PhoneKinds, Pids) \union Sent("relay", {"offline"}, {NoPid})) \subseteq Mail
  BY DEF Mail
<1>2. /\ p2r \in Seq(Sent("phone", PhoneKinds, Pids)) /\ d2r \in Seq(Sent("desk", DeskKinds, Pids))
      /\ r2p \in Seq(Sent("desk", DeskKinds, Pids) \union Sent("relay", {"refused"}, Pids))
      /\ r2d \in Seq(Sent("phone", PhoneKinds, Pids) \union Sent("relay", {"offline"}, {NoPid}))
  BY DEF TypeOK
<1> QED
  BY <1>1, <1>2, QueueWiden

\* A queue that is given another kind of message holds the same ones of this kind.
LEMMA OtherAppended ==
  ASSUME NEW q \in Seq(Mail), NEW k, NEW i, NEW e \in Mail, e.m.kind # k
  PROVE  /\ Pending(Append(q, e), {k}, i) <=> Pending(q, {k}, i)
         /\ Once(q, k, i) => Once(Append(q, e), k, i)
BY PendingAppend, OnceAppend

\* What a move does to one message: it is not made twice, and not made.
LEMMA MovesKeepOne ==
  ASSUME NEW qa \in Seq(Mail), NEW qb \in Seq(Mail), NEW qa1, NEW qb1, NEW k, NEW i,
         Moves(qa, qb, qa1, qb1, k)
  PROVE  /\ OneOf(qa, qb, k, i) => OneOf(qa1, qb1, k, i)
         /\ Coming(qa1, qb1, k, i) => Coming(qa, qb, k, i)
<1>a. \A e \in Mail : e.m.kind # k =>
        /\ Pending(Append(qa, e), {k}, i) <=> Pending(qa, {k}, i)
        /\ Once(qa, k, i) => Once(Append(qa, e), k, i)
        /\ Pending(Append(qb, e), {k}, i) <=> Pending(qb, {k}, i)
        /\ Once(qb, k, i) => Once(Append(qb, e), k, i)
  BY OtherAppended
<1>b. Once(<<>>, k, i) /\ ~Pending(<<>>, {k}, i)
  BY PendingNone
<1>c. qa # <<>> =>
        /\ Pending(Tail(qa), {k}, i) => Pending(qa, {k}, i)
        /\ Head(qa).m.kind = k /\ Head(qa).m.pid = i => Pending(qa, {k}, i)
        /\ Once(qa, k, i) => Once(Tail(qa), k, i)
        /\ Once(qa, k, i) /\ Head(qa).m.kind = k /\ Head(qa).m.pid = i => ~Pending(Tail(qa), {k}, i)
        /\ Head(qa) \in Mail
  BY PendingTail, QueueType
<1>d. qb # <<>> => /\ Pending(Tail(qb), {k}, i) => Pending(qb, {k}, i)
                   /\ Once(qb, k, i) => Once(Tail(qb), k, i)
  BY PendingTail
<1>e. qa # <<>> =>
        /\ Pending(Append(qb, Head(qa)), {k}, i)
             <=> Pending(qb, {k}, i) \/ (Head(qa).m.kind = k /\ Head(qa).m.pid = i)
        /\ Once(qb, k, i) /\ (Pending(qb, {k}, i) => ~(Head(qa).m.kind = k /\ Head(qa).m.pid = i))
             => Once(Append(qb, Head(qa)), k, i)
  BY <1>c, PendingAppend, OnceAppend
<1>1. CASE qa1 = qa /\ qb1 = qb
  BY <1>1
<1>2. CASE qb1 = qb /\ \E e \in Mail : e.m.kind # k /\ qa1 = Append(qa, e)
  BY <1>2, <1>a, Zenon DEF OneOf, Coming
<1>3. CASE qa1 = qa /\ \E e \in Mail : e.m.kind # k /\ qb1 = Append(qb, e)
  BY <1>3, <1>a, Zenon DEF OneOf, Coming
<1>4. CASE qa1 = <<>> /\ qb1 = qb
  BY <1>4, <1>b, Zenon DEF OneOf, Coming
<1>5. CASE qa1 = <<>> /\ \E e \in Mail : e.m.kind # k /\ qb1 = Append(qb, e)
  BY <1>5, <1>a, <1>b, Zenon DEF OneOf, Coming
<1>6. CASE qa1 = qa /\ qb1 = <<>>
  BY <1>6, <1>b, Zenon DEF OneOf, Coming
<1>7. CASE qa # <<>> /\ qa1 = Tail(qa) /\ qb1 = qb
  BY <1>7, <1>c, Zenon DEF OneOf, Coming
<1>8. CASE qa # <<>> /\ qa1 = Tail(qa) /\ qb1 = Append(qb, Head(qa))
  BY <1>8, <1>c, <1>e, Zenon DEF OneOf, Coming
<1>9. CASE qa # <<>> /\ qa1 = Tail(qa) /\ \E e \in Mail : e.m.kind # k /\ qb1 = Append(qb, e)
  BY <1>9, <1>a, <1>c, Zenon DEF OneOf, Coming
<1>10. CASE qb # <<>> /\ qa1 = qa /\ qb1 = Tail(qb)
  BY <1>10, <1>d, Zenon DEF OneOf, Coming
<1>11. CASE qb # <<>> /\ qb1 = Tail(qb) /\ \E e \in Mail : e.m.kind # k /\ qa1 = Append(qa, e)
  BY <1>11, <1>a, <1>d, Zenon DEF OneOf, Coming
<1> QED
  BY <1>1, <1>2, <1>3, <1>4, <1>5, <1>6, <1>7, <1>8, <1>9, <1>10, <1>11 DEF Moves

\* The first message of the second hop, once taken, comes no more.
LEMMA TakenOnce ==
  ASSUME NEW qa, NEW qb \in Seq(Mail), qb # <<>>, NEW k, NEW i, OneOf(qa, qb, k, i),
         Head(qb).m.kind = k, Head(qb).m.pid = i
  PROVE  Coming(qa, qb, k, i) /\ ~Coming(qa, Tail(qb), k, i)
BY PendingTail DEF OneOf, Coming

\* A message that was not coming comes once after it was sent.
LEMMA SentOnce ==
  ASSUME NEW qa \in Seq(Mail), NEW qb, NEW k, NEW e \in Mail, e.m.kind = k,
         OneOf(qa, qb, k, e.m.pid), ~Coming(qa, qb, k, e.m.pid)
  PROVE  OneOf(Append(qa, e), qb, k, e.m.pid)
BY PendingAppend, OnceAppend DEF OneOf, Coming

\* It leaves those of other pairings where they were.
LEMMA SentOthers ==
  ASSUME NEW qa \in Seq(Mail), NEW qb, NEW k, NEW e \in Mail, NEW i, e.m.pid # i
  PROVE  /\ OneOf(qa, qb, k, i) => OneOf(Append(qa, e), qb, k, i)
         /\ Coming(Append(qa, e), qb, k, i) => Coming(qa, qb, k, i)
BY PendingAppend, OnceAppend DEF OneOf, Coming

\* What is sent is mail of its kind, for its pairing.
LEMMA NewMail ==
  ASSUME NEW i \in Pids, NEW x \in 0..MaxExchanges, NEW r \in BOOLEAN
  PROVE  /\ \A k \in PhoneKinds : /\ With(FromPhone(k, i), x, r) \in Mail
                                  /\ With(FromPhone(k, i), x, r).m.kind = k
                                  /\ With(FromPhone(k, i), x, r).m.pid = i
         /\ \A k \in DeskKinds : /\ With(FromDesk(k, i), x, r) \in Mail
                                 /\ With(FromDesk(k, i), x, r).m.kind = k
                                 /\ With(FromDesk(k, i), x, r).m.pid = i
<1>1. \A k : /\ With(FromPhone(k, i), x, r).m.kind = k /\ With(FromPhone(k, i), x, r).m.pid = i
             /\ With(FromDesk(k, i), x, r).m.kind = k /\ With(FromDesk(k, i), x, r).m.pid = i
  BY DEF With, FromPhone, FromDesk
<1>2. \A k \in PhoneKinds : With(FromPhone(k, i), x, r) \in Mail
  BY FromPhoneMail DEF Mail
<1>3. \A k \in DeskKinds : With(FromDesk(k, i), x, r) \in Mail
  BY FromDeskMail DEF Mail
<1> QED
  BY <1>1, <1>2, <1>3

\* So is mail that belongs to no exchange.
LEMMA NewPlainMail ==
  ASSUME NEW i \in Pids
  PROVE  /\ \A k \in PhoneKinds : /\ Plain(FromPhone(k, i)) \in Mail
                                  /\ Plain(FromPhone(k, i)).m.kind = k /\ Plain(FromPhone(k, i)).m.pid = i
         /\ \A k \in DeskKinds : /\ Plain(FromDesk(k, i)) \in Mail
                                 /\ Plain(FromDesk(k, i)).m.kind = k /\ Plain(FromDesk(k, i)).m.pid = i
<1>1. 0 \in 0..MaxExchanges
  BY BoundAssumption
<1> QED
  BY <1>1, NewMail DEF Plain

\* Notices are mail of their kind.
LEMMA NewNotice ==
  /\ \A i \in Pids : Notice("refused", i) \in Mail /\ Notice("refused", i).m.kind = "refused"
  /\ Notice("offline", NoPid) \in Mail /\ Notice("offline", NoPid).m.kind = "offline"
<1>1. \A i \in Pids : Notice("refused", i) \in Sent("relay", {"refused"}, Pids)
  BY NoticeMail
<1>2. Notice("offline", NoPid) \in Sent("relay", {"offline"}, {NoPid})
  BY NoticeMail
<1>3. \A k, i : Notice(k, i).m.kind = k
  BY DEF Notice, Plain, With
<1> QED
  BY <1>1, <1>2, <1>3 DEF Mail

\* Requests are only made by Request.
LEMMA RequestsMove ==
  ASSUME TypeOK, [Next]_vars, \A i \in Pids : ~Request(i)
  PROVE  Moves(p2r, r2d, p2r', r2d', "request")
<1> DEFINE Goal == Moves(p2r, r2d, p2r', r2d', "request")
<1>0. Notice("offline", NoPid) \in Mail /\ Notice("offline", NoPid).m.kind # "request"
  BY NewNotice
<1>1. CASE User
  <2>1. CASE Cancel
    <3>1. dialog.pid \in Pids
      BY <2>1, DialogPid DEF Cancel
    <3>2. Plain(FromPhone("cancelled", dialog.pid)) \in Mail
          /\ Plain(FromPhone("cancelled", dialog.pid)).m.kind # "request"
      BY <3>1, NewPlainMail DEF PhoneKinds
    <3> QED
      BY <2>1, <3>2 DEF Cancel, Moves
  <2>2. ASSUME NEW right \in BOOLEAN, Submit(right)
        PROVE  Goal
    <3>1. dialog.pid \in Pids
      BY <2>2, DialogPid DEF Submit
    <3>2. typed + 1 \in 0..MaxExchanges
      <4>1. typed \in 0..MaxExchanges
        BY DEF TypeOK
      <4> QED
        BY <2>2, <4>1, BoundAssumption DEF Submit
    <3> DEFINE e == With(FromPhone("proof", dialog.pid), typed + 1, right)
    <3>3. e \in Mail /\ e.m.kind # "request"
      BY <3>1, <3>2, NewMail DEF PhoneKinds
    <3>4. (p2r' = Append(p2r, e) \/ p2r' = p2r) /\ r2d' = r2d
      BY <2>2 DEF Submit
    <3> QED
      BY <3>3, <3>4 DEF Moves
  <2>3. ASSUME NEW i \in Pids, Invite(i) \/ Reject(i)
        PROVE  Goal
    BY <2>3 DEF Invite, Reject, Moves
  <2> QED
    BY <1>1, <2>1, <2>2, <2>3 DEF User
<1>2. CASE Relay
  <2>1. CASE RelayFromPhone
    BY <2>1 DEF RelayFromPhone, Moves
  <2>2. CASE RelayFromDesk
    BY <2>2 DEF RelayFromDesk, Moves
  <2>3. CASE RelayRefuses
    BY <2>3 DEF RelayRefuses, Moves
  <2>4. ASSUME NEW i \in Pids, RelayExpires(i) \/ DeskExpires(i)
        PROVE  Goal
    BY <2>4 DEF RelayExpires, DeskExpires, Moves
  <2> QED
    BY <1>2, <2>1, <2>2, <2>3, <2>4 DEF Relay
<1>3. CASE Links
  <2>1. CASE PhoneLost
    BY <1>0, <2>1 DEF PhoneLost, Moves
  <2>2. CASE PhoneBack \/ DeskBack
    BY <2>2 DEF PhoneBack, DeskBack, Moves
  <2>3. CASE DeskLost
    BY <2>3 DEF DeskLost, Moves
  <2>4. ASSUME NEW x \in {Phone, Desk}, LateClose(x)
        PROVE  Goal
    BY <1>0, <2>4 DEF LateClose, Moves
  <2> QED
    BY <1>3, <2>1, <2>2, <2>3, <2>4 DEF Links
<1>4. CASE Desktop
  <2>1. \E k : DeskTakes(k)
    BY <1>4 DEF Desktop, AcceptRequest, ProofUnknown, ProofWrong, ProofRight, DeskCancelled, DeskOffline
  <2> QED
    BY <2>1 DEF DeskTakes, Moves
<1>5. CASE Page
  <2>1. p2r' = p2r /\ r2d' = r2d
    BY <1>5 DEF Page, PageInvited, PageChallenged, PageCompleted, PageError, PageRejected, PageRefused,
                PageTakes
  <2> QED
    BY <2>1 DEF Moves
<1>6. CASE UNCHANGED vars
  BY <1>6 DEF vars, Moves
<1> QED
  BY <1>1, <1>2, <1>3, <1>4, <1>5, <1>6 DEF Next

\* Invitations are only made by Invite, credentials only sent by ProofRight.
LEMMA AnswersMove ==
  ASSUME TypeOK, [Next]_vars, NEW k \in {"invite", "completed"},
         k = "invite" => \A i \in Pids : ~Invite(i),
         k = "completed" => ~ProofRight
  PROVE  Moves(d2r, r2p, d2r', r2p', k)
<1> DEFINE Goal == Moves(d2r, r2p, d2r', r2p', k)
<1>0. \A i \in Pids : Notice("refused", i) \in Mail /\ Notice("refused", i).m.kind # k
  BY NewNotice
<1>a. p2r # <<>> => Head(p2r).m.pid \in Pids
  BY QueueType, SentFields DEF TypeOK
<1>b. \A i \in Pids, r \in {"challenge", "rejected", "error"} :
        Plain(FromDesk(r, i)) \in Mail /\ Plain(FromDesk(r, i)).m.kind # k
  BY NewPlainMail DEF DeskKinds
<1>c. \A i \in Pids : k = "completed" =>
        Plain(FromDesk("invite", i)) \in Mail /\ Plain(FromDesk("invite", i)).m.kind # k
  BY NewPlainMail DEF DeskKinds
<1>1. CASE User
  <2>1. CASE Cancel
    BY <2>1 DEF Cancel, Moves
  <2>2. ASSUME NEW right \in BOOLEAN, Submit(right)
        PROVE  Goal
    BY <2>2 DEF Submit, Moves
  <2>3. ASSUME NEW i \in Pids, Request(i)
        PROVE  Goal
    BY <2>3 DEF Request, Moves
  <2>4. ASSUME NEW i \in Pids, Invite(i)
        PROVE  Goal
    BY <1>c, <2>4 DEF Invite, Moves
  <2>5. ASSUME NEW i \in Pids, Reject(i)
        PROVE  Goal
    BY <1>b, <2>5 DEF Reject, Moves
  <2> QED
    BY <1>1, <2>1, <2>2, <2>3, <2>4, <2>5 DEF User
<1>2. CASE Relay
  <2>1. CASE RelayFromPhone
    BY <1>0, <1>a, <2>1 DEF RelayFromPhone, Moves
  <2>2. CASE RelayFromDesk
    BY <2>2 DEF RelayFromDesk, Moves
  <2>3. CASE RelayRefuses
    BY <1>0, <1>a, <2>3 DEF RelayRefuses, Moves
  <2>4. ASSUME NEW i \in Pids, RelayExpires(i) \/ DeskExpires(i)
        PROVE  Goal
    BY <2>4 DEF RelayExpires, DeskExpires, Moves
  <2> QED
    BY <1>2, <2>1, <2>2, <2>3, <2>4 DEF Relay
<1>3. CASE Links
  <2>1. CASE PhoneLost
    BY <2>1 DEF PhoneLost, Moves
  <2>2. CASE PhoneBack \/ DeskBack
    BY <2>2 DEF PhoneBack, DeskBack, Moves
  <2>3. CASE DeskLost
    BY <2>3 DEF DeskLost, Moves
  <2>4. ASSUME NEW x \in {Phone, Desk}, LateClose(x)
        PROVE  Goal
    BY <2>4 DEF LateClose, Moves
  <2> QED
    BY <1>3, <2>1, <2>2, <2>3, <2>4 DEF Links
<1>4. CASE Desktop
  <2> DEFINE i == Head(r2d).m.pid
  <2>0. \A kind : DeskTakes(kind) => r2p' = r2p /\ (kind # "offline" => i \in Pids)
    BY DeskHead DEF DeskTakes
  <2>1. CASE AcceptRequest
    <3>1. r2p' = r2p /\ i \in Pids
      BY <2>0, <2>1 DEF AcceptRequest
    <3>2. d2r' = d2r \/ d2r' = Append(d2r, Plain(FromDesk("challenge", i)))
      BY <2>1 DEF AcceptRequest
    <3> QED
      BY <1>b, <3>1, <3>2 DEF Moves
  <2>2. CASE ProofUnknown
    BY <2>0, <2>2 DEF ProofUnknown, Moves
  <2>3. CASE ProofWrong
    <3>1. r2p' = r2p /\ i \in Pids
      BY <2>0, <2>3 DEF ProofWrong
    <3>2. \E r \in {"rejected", "error"} : d2r' = Append(d2r, Plain(FromDesk(r, i)))
      BY <2>3 DEF ProofWrong, JudgeWrong
    <3> QED
      BY <1>b, <3>1, <3>2 DEF Moves
  <2>4. CASE ProofRight
    <3>1. r2p' = r2p /\ i \in Pids
      BY <2>0, <2>4 DEF ProofRight
    <3> DEFINE e == With(FromDesk("completed", i), Head(r2d).x, TRUE)
    <3>2. d2r' = Append(d2r, e) /\ DeskTakes("proof")
      BY <2>4 DEF ProofRight
    <3>a. Head(r2d).x \in 0..MaxExchanges /\ "completed" \in DeskKinds
      BY <3>2, DeskHead DEF DeskKinds
    <3>b. \A x \in 0..MaxExchanges : With(FromDesk("completed", i), x, TRUE) \in Mail
      BY <3>1, <3>a, FromDeskMail DEF Mail
    <3>3. e \in Mail /\ e.m.kind = "completed"
      BY <3>a, <3>b DEF With, FromDesk
    <3>4. k # "completed"
      BY <2>4
    <3> QED
      BY <3>1, <3>2, <3>3, <3>4 DEF Moves
  <2>5. CASE DeskCancelled \/ DeskOffline
    BY <2>0, <2>5 DEF DeskCancelled, DeskOffline, Moves
  <2> QED
    BY <1>4, <2>1, <2>2, <2>3, <2>4, <2>5 DEF Desktop
<1>5. CASE Page
  <2>1. \E kind : PageTakes(kind)
    BY <1>5 DEF Page, PageInvited, PageChallenged, PageCompleted, PageError, PageRejected, PageRefused
  <2> QED
    BY <2>1 DEF PageTakes, Moves
<1>6. CASE UNCHANGED vars
  BY <1>6 DEF vars, Moves
<1> QED
  BY <1>1, <1>2, <1>3, <1>4, <1>5, <1>6 DEF Next

-----------------------------------------------------------------------------
(* Openings arrive once                                                      *)

\* A pairing id that was drawn stays drawn, and most steps draw none.
LEMMA UsedStep ==
  ASSUME [Next]_vars
  PROVE  \/ used' = used
         \/ \E i \in Pids : i \notin used /\ used' = used \union {i} /\ (Request(i) \/ Invite(i))
<1>1. CASE User
  BY <1>1 DEF User, Cancel, Submit, Request, Invite, Reject
<1>2. CASE Relay
  BY <1>2 DEF Relay, RelayFromPhone, RelayFromDesk, RelayRefuses, RelayExpires, DeskExpires
<1>3. CASE Links
  BY <1>3 DEF Links, PhoneLost, PhoneBack, DeskLost, DeskBack, LateClose, pastVars
<1>4. CASE Desktop
  BY <1>4 DEF Desktop, AcceptRequest, ProofUnknown, ProofWrong, ProofRight, DeskCancelled, DeskOffline,
              DeskTakes
<1>5. CASE Page
  BY <1>5 DEF Page, PageInvited, PageChallenged, PageCompleted, PageError, PageRejected, PageRefused,
              PageTakes
<1>6. CASE UNCHANGED vars
  BY <1>6 DEF vars, pastVars
<1> QED
  BY <1>1, <1>2, <1>3, <1>4, <1>5, <1>6 DEF Next

\* A request arrives at the desktop once, and none arrives of a pairing that was opened.
LEMMA RequestsStep ==
  ASSUME TypeOK, RequestedOnce, [Next]_vars
  PROVE  RequestedOnce' /\ \A i \in Pids : Unopened(i)' => Unopened(i)
<1>0. p2r \in Seq(Mail) /\ r2d \in Seq(Mail)
  BY QueuesHoldMail
<1>1. used \subseteq used'
  BY UsedStep
<1>2. CASE \A i \in Pids : ~Request(i)
  <2>1. Moves(p2r, r2d, p2r', r2d', "request")
    BY <1>2, RequestsMove
  <2>2. \A i \in Pids : /\ OneOf(p2r, r2d, "request", i) => OneOf(p2r', r2d', "request", i)
                        /\ Coming(p2r', r2d', "request", i) => Coming(p2r, r2d, "request", i)
    BY <1>0, <2>1, MovesKeepOne, Zenon
  <2>3. RequestedOnce'
    BY <1>1, <2>2 DEF RequestedOnce
  <2>4. \A i \in Pids : Unopened(i)' => Unopened(i)
    BY <1>1, <2>2 DEF Unopened
  <2> QED
    BY <2>3, <2>4
<1>3. ASSUME NEW j \in Pids, Request(j)
      PROVE  RequestedOnce' /\ \A i \in Pids : Unopened(i)' => Unopened(i)
  <2> DEFINE e == Plain(FromPhone("request", j))
  <2>1. p2r' = Append(p2r, e) /\ r2d' = r2d /\ used' = used \union {j} /\ j \notin used
    BY <1>3 DEF Request
  <2>2. e \in Mail /\ e.m.kind = "request" /\ e.m.pid = j
    BY NewPlainMail DEF PhoneKinds
  <2> HIDE DEF e
  <2>3. OneOf(p2r', r2d', "request", j)
    BY <1>0, <2>1, <2>2, SentOnce DEF RequestedOnce
  <2>4. \A i \in Pids : i # j =>
          /\ OneOf(p2r, r2d, "request", i) => OneOf(p2r', r2d', "request", i)
          /\ Coming(p2r', r2d', "request", i) => Coming(p2r, r2d, "request", i)
    BY <1>0, <2>1, <2>2, SentOthers
  <2>5. RequestedOnce'
    BY <1>1, <2>1, <2>3, <2>4 DEF RequestedOnce
  <2>6. \A i \in Pids : Unopened(i)' => Unopened(i)
    BY <1>1, <2>1, <2>4 DEF Unopened
  <2> QED
    BY <2>5, <2>6
<1> QED
  BY <1>2, <1>3

\* An invitation arrives at the page once, and none arrives of a pairing it has seen.
LEMMA InvitesStep ==
  ASSUME TypeOK, InvitedOnce, [Next]_vars
  PROVE  InvitedOnce' /\ \A i \in Pids : Unseen(i)' => Unseen(i)
<1>0. d2r \in Seq(Mail) /\ r2p \in Seq(Mail)
  BY QueuesHoldMail
<1>1. used \subseteq used'
  BY UsedStep
<1>2. CASE \A i \in Pids : ~Invite(i)
  <2>1. Moves(d2r, r2p, d2r', r2p', "invite")
    BY <1>2, AnswersMove
  <2>2. \A i \in Pids : /\ OneOf(d2r, r2p, "invite", i) => OneOf(d2r', r2p', "invite", i)
                        /\ Coming(d2r', r2p', "invite", i) => Coming(d2r, r2p, "invite", i)
    BY <1>0, <2>1, MovesKeepOne, Zenon
  <2>3. InvitedOnce'
    BY <1>1, <2>2 DEF InvitedOnce
  <2>4. \A i \in Pids : Unseen(i)' => Unseen(i)
    BY <1>1, <2>2 DEF Unseen
  <2> QED
    BY <2>3, <2>4
<1>3. ASSUME NEW j \in Pids, Invite(j)
      PROVE  InvitedOnce' /\ \A i \in Pids : Unseen(i)' => Unseen(i)
  <2> DEFINE e == Plain(FromDesk("invite", j))
  <2>1. d2r' = Append(d2r, e) /\ r2p' = r2p /\ used' = used \union {j} /\ j \notin used
    BY <1>3 DEF Invite
  <2>2. e \in Mail /\ e.m.kind = "invite" /\ e.m.pid = j
    BY NewPlainMail DEF DeskKinds
  <2> HIDE DEF e
  <2>3. OneOf(d2r', r2p', "invite", j)
    BY <1>0, <2>1, <2>2, SentOnce DEF InvitedOnce
  <2>4. \A i \in Pids : i # j =>
          /\ OneOf(d2r, r2p, "invite", i) => OneOf(d2r', r2p', "invite", i)
          /\ Coming(d2r', r2p', "invite", i) => Coming(d2r, r2p, "invite", i)
    BY <1>0, <2>1, <2>2, SentOthers
  <2>5. InvitedOnce'
    BY <1>1, <2>1, <2>3, <2>4 DEF InvitedOnce
  <2>6. \A i \in Pids : Unseen(i)' => Unseen(i)
    BY <1>1, <2>1, <2>4 DEF Unseen
  <2> QED
    BY <2>5, <2>6
<1> QED
  BY <1>2, <1>3

-----------------------------------------------------------------------------
(* The desktop's side                                                        *)

\* The steps that touch what the desktop has decided.
LEMMA DeskUnchanged ==
  ASSUME [Next]_vars
  PROVE  \/ UNCHANGED <<records, verdict, guesses>>
         \/ \E i \in Pids : Invite(i) \/ Reject(i) \/ DeskExpires(i)
         \/ DeskLost \/ Desktop
<1>1. CASE User
  BY <1>1 DEF User, Cancel, Submit, Request, deskVars
<1>2. CASE Relay
  BY <1>2 DEF Relay, RelayFromPhone, RelayFromDesk, RelayRefuses, RelayExpires, deskVars
<1>3. CASE Links
  BY <1>3 DEF Links, PhoneLost, PhoneBack, DeskBack, LateClose, pastVars, deskVars
<1>4. CASE Page
  BY <1>4 DEF Page, PageInvited, PageChallenged, PageCompleted, PageError, PageRejected, PageRefused,
              PageTakes, deskVars
<1>5. CASE UNCHANGED vars
  BY <1>5 DEF vars, pastVars, deskVars
<1> QED
  BY <1>1, <1>2, <1>3, <1>4, <1>5 DEF Next

\* A request that is taken opens its pairing, and no other comes.
LEMMA TakenRequest ==
  ASSUME TypeOK, RequestedOnce, DeskTakes("request"), UNCHANGED <<used, p2r>>,
         NEW i \in Pids, i = Head(r2d).m.pid
  PROVE  Unopened(i) /\ ~Unopened(i)'
<1>0. r2d \in Seq(Mail) /\ r2d # <<>> /\ Head(r2d).m.kind = "request" /\ r2d' = Tail(r2d)
  BY QueuesHoldMail DEF DeskTakes
<1>1. Coming(p2r, r2d, "request", i) /\ ~Coming(p2r, Tail(r2d), "request", i)
  BY <1>0, TakenOnce DEF RequestedOnce
<1>2. i \in used
  BY <1>0, <1>1 DEF RequestedOnce
<1> QED
  BY <1>0, <1>1, <1>2 DEF Unopened

\* What one judgement, or the end of a record, does to a pairing.
Settles(i) ==
  \/ records'[i] = NoRecord /\ verdict'[i] = verdict[i] /\ guesses'[i] = guesses[i]
  \/ /\ records[i] # NoRecord
     /\ \/ records'[i] = NoRecord /\ guesses'[i] \in {guesses[i], guesses[i] + 1}
        \/ /\ records'[i] = records[i] + 1 /\ guesses'[i] = guesses[i] + 1
           /\ verdict'[i] = verdict[i]

\* Records only open for pairings that can still be opened, and are settled one by one.
LEMMA DeskStep ==
  ASSUME TypeOK, RequestedOnce, Judged, [Next]_vars
  PROVE  \A i \in Pids :
           \/ records'[i] = records[i] /\ verdict'[i] = verdict[i] /\ guesses'[i] = guesses[i]
           \/ /\ Unopened(i) /\ ~Unopened(i)'
              /\ records'[i] = 0 /\ verdict'[i] = verdict[i] /\ guesses'[i] = guesses[i]
           \/ Settles(i)
<1> DEFINE Goal(i) ==
      \/ records'[i] = records[i] /\ verdict'[i] = verdict[i] /\ guesses'[i] = guesses[i]
      \/ /\ Unopened(i) /\ ~Unopened(i)'
         /\ records'[i] = 0 /\ verdict'[i] = verdict[i] /\ guesses'[i] = guesses[i]
      \/ Settles(i)
    h == Head(r2d).m.pid
<1>0. /\ records \in [Pids -> 0..MaxFailed] /\ guesses \in [Pids -> Nat] /\ DOMAIN verdict = Pids
      /\ MaxFailed \in Nat \ {0}
  BY BoundAssumption DEF TypeOK
<1> SUFFICES \A i \in Pids : Goal(i)
  OBVIOUS
<1>1. CASE UNCHANGED <<records, verdict, guesses>>
  BY <1>1
<1>2. ASSUME NEW j \in Pids, Invite(j)
      PROVE  \A i \in Pids : Goal(i)
  <2>1. j \notin used /\ records' = [records EXCEPT ![j] = 0] /\ UNCHANGED <<verdict, guesses, p2r, r2d>>
        /\ used' = used \union {j}
    BY <1>2 DEF Invite
  <2>2. Unopened(j) /\ ~Unopened(j)'
    BY <2>1 DEF Unopened, RequestedOnce
  <2> QED
    BY <1>0, <2>1, <2>2
<1>3. ASSUME NEW j \in Pids, Reject(j) \/ DeskExpires(j)
      PROVE  \A i \in Pids : Goal(i)
  BY <1>0, <1>3 DEF Reject, DeskExpires, Settles
<1>4. CASE DeskLost
  BY <1>0, <1>4 DEF DeskLost, Settles
<1>5. CASE AcceptRequest
  <2>1. UNCHANGED <<verdict, guesses, used, p2r>> /\ DeskTakes("request")
    BY <1>5 DEF AcceptRequest, DeskTakes
  <2>a. PICK j \in Pids : j = h
    BY <2>1, DeskHead
  <2>2. Unopened(j) /\ ~Unopened(j)'
    BY <2>1, <2>a, TakenRequest
  <2>3. records' = records \/ records' = [records EXCEPT ![j] = 0]
    BY <1>5, <2>a DEF AcceptRequest
  <2> QED
    BY <1>0, <2>1, <2>2, <2>3
<1>6. CASE ProofUnknown
  BY <1>6 DEF ProofUnknown
<1>7. CASE ProofWrong
  <2>1. h \in Pids /\ records[h] # NoRecord
    BY <1>7, DeskHead DEF ProofWrong
  <2>2. \/ JudgeWrong(h, NoRecord, "rejected")
        \/ JudgeWrong(h, records[h] + 1, "error")
    BY <1>7 DEF ProofWrong
  <2>3. CASE JudgeWrong(h, NoRecord, "rejected")
    BY <1>0, <2>1, <2>3 DEF JudgeWrong, Settles
  <2>4. CASE JudgeWrong(h, records[h] + 1, "error")
    BY <1>0, <2>1, <2>4 DEF JudgeWrong, Settles
  <2> QED
    BY <2>2, <2>3, <2>4
<1>8. CASE ProofRight
  <2>1. h \in Pids /\ records[h] # NoRecord
    BY <1>8, DeskHead DEF ProofRight
  <2> QED
    BY <1>0, <1>8, <2>1 DEF ProofRight, Settles
<1>9. CASE DeskCancelled \/ DeskOffline
  BY <1>0, <1>9 DEF DeskCancelled, DeskOffline, Settles
<1> QED
  BY <1>1, <1>2, <1>3, <1>4, <1>5, <1>6, <1>7, <1>8, <1>9, DeskUnchanged DEF Desktop

\* The desktop's books stay in order.
LEMMA JudgedStep ==
  ASSUME TypeOK, RequestedOnce, Judged, [Next]_vars
  PROVE  Judged'
<1>0. /\ records \in [Pids -> 0..MaxFailed] /\ guesses \in [Pids -> Nat]
      /\ MaxFailed \in Nat \ {0} /\ NoRecord = MaxFailed
  BY BoundAssumption DEF TypeOK, NoRecord
<1>1. \A i \in Pids : Unopened(i)' => Unopened(i)
  BY RequestsStep
<1> SUFFICES ASSUME NEW i \in Pids
             PROVE  /\ Unopened(i)' => records'[i] = NoRecord /\ verdict'[i] = "open" /\ guesses'[i] = 0
                    /\ records'[i] # NoRecord => guesses'[i] <= records'[i] /\ verdict'[i] = "open"
                    /\ guesses'[i] <= MaxFailed
  BY DEF Judged, NoRecord
<1>2. /\ Unopened(i) => records[i] = NoRecord /\ verdict[i] = "open" /\ guesses[i] = 0
      /\ records[i] # NoRecord => guesses[i] <= records[i] /\ verdict[i] = "open"
      /\ guesses[i] <= MaxFailed
  BY DEF Judged
<1>3. CASE records'[i] = records[i] /\ verdict'[i] = verdict[i] /\ guesses'[i] = guesses[i]
  BY <1>1, <1>2, <1>3
<1>4. CASE /\ Unopened(i) /\ ~Unopened(i)'
           /\ records'[i] = 0 /\ verdict'[i] = verdict[i] /\ guesses'[i] = guesses[i]
  BY <1>0, <1>2, <1>4
<1>5. CASE Settles(i)
  BY <1>0, <1>1, <1>2, <1>5 DEF Settles
<1> QED
  BY <1>3, <1>4, <1>5, DeskStep

\* A verdict stands.
LEMMA VerdictStands ==
  ASSUME TypeOK, RequestedOnce, Judged, [Next]_vars, NEW i \in Pids, verdict[i] # "open"
  PROVE  verdict'[i] = verdict[i]
BY DeskStep DEF Judged, Settles

-----------------------------------------------------------------------------
(* The phone's side                                                          *)

\* The steps that touch the dialog, what is stored and what is withdrawn.
LEMMA PhoneUnchanged ==
  ASSUME [Next]_vars
  PROVE  \/ UNCHANGED <<dialog, paired, withdrawn>>
         \/ Cancel \/ (\E r \in BOOLEAN : Submit(r)) \/ (\E i \in Pids : Request(i)) \/ Page
<1>1. CASE User
  BY <1>1 DEF User, Invite, Reject, phoneVars
<1>2. CASE Relay
  BY <1>2 DEF Relay, RelayFromPhone, RelayFromDesk, RelayRefuses, RelayExpires, DeskExpires, phoneVars
<1>3. CASE Links
  BY <1>3 DEF Links, PhoneLost, PhoneBack, DeskLost, DeskBack, LateClose, pastVars, phoneVars
<1>4. CASE Desktop
  BY <1>4 DEF Desktop, AcceptRequest, ProofUnknown, ProofWrong, ProofRight, DeskCancelled, DeskOffline,
              DeskTakes, phoneVars
<1>5. CASE UNCHANGED vars
  BY <1>5 DEF vars, pastVars, phoneVars
<1> QED
  BY <1>1, <1>2, <1>3, <1>4, <1>5 DEF Next

\* An invitation that is taken is seen, and no other comes.
LEMMA TakenInvitation ==
  ASSUME TypeOK, InvitedOnce, PageTakes("invite"),
         NEW i \in Pids, i = Head(r2p).m.pid
  PROVE  Unseen(i) /\ ~Unseen(i)'
<1>0. /\ r2p \in Seq(Mail) /\ r2p # <<>> /\ Head(r2p).m.kind = "invite" /\ r2p' = Tail(r2p)
      /\ UNCHANGED <<used, d2r>>
  BY QueuesHoldMail DEF PageTakes
<1>1. Coming(d2r, r2p, "invite", i) /\ ~Coming(d2r, Tail(r2p), "invite", i)
  BY <1>0, TakenOnce DEF InvitedOnce
<1>2. i \in used
  BY <1>0, <1>1 DEF InvitedOnce
<1> QED
  BY <1>0, <1>1, <1>2 DEF Unseen

\* Credentials that are taken were coming.
LEMMA TakenCredentials ==
  ASSUME TypeOK, PageTakes("completed")
  PROVE  Coming(d2r, r2p, "completed", Head(r2p).m.pid)
<1>0. r2p \in Seq(Mail) /\ r2p # <<>> /\ Head(r2p).m.kind = "completed"
  BY QueuesHoldMail DEF PageTakes
<1>1. 1 \in 1..Len(r2p) /\ Head(r2p) = r2p[1]
  BY <1>0
<1>2. Pending(r2p, {"completed"}, Head(r2p).m.pid)
  BY <1>0, <1>1, Zenon DEF Pending
<1> QED
  BY <1>2, Zenon DEF Coming

\* A step opens a dialog for a pairing not seen yet, keeps the one there is, or closes it;
\* what it closes is paired with once the desktop has sent the credentials, or withdrawn.
LEMMA PhoneStep ==
  ASSUME TypeOK, InvitedOnce, [Next]_vars
  PROVE  \/ dialog'.pid = dialog.pid /\ UNCHANGED <<paired, withdrawn>>
         \/ /\ UNCHANGED <<paired, withdrawn>>
            /\ \E j \in Pids : dialog'.pid = j /\ Unseen(j) /\ ~Unseen(j)'
         \/ dialog'.pid = NoPid /\ UNCHANGED <<paired, withdrawn>>
         \/ /\ dialog'.pid = NoPid /\ paired' = paired
            /\ dialog.pid \in Pids /\ withdrawn' = withdrawn \union {dialog.pid}
         \/ /\ dialog'.pid = NoPid /\ paired' = dialog.pid /\ dialog.pid \in Pids
            /\ withdrawn' = withdrawn /\ Coming(d2r, r2p, "completed", dialog.pid)
<1>0. NoDialog.pid = NoPid
  BY DEF NoDialog
<1>a. dialog \in Dialogs
  BY DEF TypeOK, Dialogs
<1>b. \A st, y : /\ [dialog EXCEPT !.stage = st].pid = dialog.pid
                 /\ [dialog EXCEPT !.stage = st, !.x = y].pid = dialog.pid
                 /\ [dialog EXCEPT !.stage = st, !.key = TRUE].pid = dialog.pid
  BY <1>a DEF Dialogs
<1>1. CASE UNCHANGED <<dialog, paired, withdrawn>>
  BY <1>1
<1>2. CASE Cancel
  <2>1. dialog.pid \in Pids
    BY <1>2, DialogPid DEF Cancel
  <2> QED
    BY <1>0, <1>2, <2>1 DEF Cancel
<1>3. ASSUME NEW r \in BOOLEAN, Submit(r)
      PROVE  dialog'.pid = dialog.pid /\ UNCHANGED <<paired, withdrawn>>
  <2>1. \/ dialog' = [dialog EXCEPT !.stage = "verifying", !.x = typed + 1]
        \/ dialog' = [dialog EXCEPT !.stage = "ready", !.x = typed + 1]
    BY <1>3, Zenon DEF Submit
  <2>2. UNCHANGED <<paired, withdrawn>>
    BY <1>3, Zenon DEF Submit
  <2> QED
    BY <1>b, <2>1, <2>2, Zenon
<1>4. ASSUME NEW j \in Pids, Request(j)
      PROVE  /\ UNCHANGED <<paired, withdrawn>> /\ dialog'.pid = j
             /\ Unseen(j) /\ ~Unseen(j)'
  <2>1. /\ j \notin used /\ used' = used \union {j} /\ UNCHANGED <<d2r, r2p, paired, withdrawn>>
        /\ dialog'.pid = j
    BY <1>4 DEF Request
  <2> QED
    BY <2>1 DEF Unseen, InvitedOnce
<1>5. CASE PageInvited
  <2>1. PageTakes("invite") /\ paired' = paired /\ dialog'.pid = Head(r2p).m.pid
    BY <1>5 DEF PageInvited
  <2>2. PICK j \in Pids : j = Head(r2p).m.pid
    BY <2>1, PageHead
  <2>3. Unseen(j) /\ ~Unseen(j)' /\ withdrawn' = withdrawn
    BY <2>1, <2>2, TakenInvitation DEF PageTakes
  <2> QED
    BY <2>1, <2>2, <2>3
<1>6. CASE PageCompleted
  <2>1. PageTakes("completed") /\ withdrawn' = withdrawn
    BY <1>6 DEF PageCompleted, PageTakes
  <2>2. CASE Current /\ dialog.x # 0 /\ dialog.x = Head(r2p).x
    <3>1. dialog.pid \in Pids /\ Coming(d2r, r2p, "completed", dialog.pid)
      BY <2>1, <2>2, PageHead, TakenCredentials DEF Current
    <3>2. paired' = dialog.pid /\ dialog' = NoDialog
      BY <1>6, <2>2 DEF PageCompleted
    <3> QED
      BY <1>0, <2>1, <3>1, <3>2
  <2>3. CASE ~(Current /\ dialog.x # 0 /\ dialog.x = Head(r2p).x)
    BY <1>6, <1>b, <2>1, <2>3 DEF PageCompleted
  <2> QED
    BY <2>2, <2>3
<1>7. CASE PageChallenged \/ PageError \/ PageRejected \/ PageRefused
  <2>1. UNCHANGED <<paired, withdrawn>>
    BY <1>7 DEF PageChallenged, PageError, PageRejected, PageRefused, PageTakes
  <2>2. dialog'.pid = dialog.pid \/ dialog' = NoDialog
    <3>1. \/ dialog' = dialog \/ dialog' = NoDialog
          \/ dialog' = [dialog EXCEPT !.stage = "ready", !.key = TRUE]
          \/ dialog' = [dialog EXCEPT !.stage = "ready", !.x = 0]
          \/ \E st \in {"ready", "waiting"} : dialog' = [dialog EXCEPT !.stage = st]
      BY <1>7 DEF PageChallenged, PageError, PageRejected, PageRefused
    <3>2. \A st : [dialog EXCEPT !.stage = st].pid = dialog.pid
      BY <1>b
    <3>3. /\ [dialog EXCEPT !.stage = "ready", !.key = TRUE].pid = dialog.pid
          /\ [dialog EXCEPT !.stage = "ready", !.x = 0].pid = dialog.pid
      BY <1>b
    <3> QED
      BY <3>1, <3>2, <3>3
  <2> QED
    BY <1>0, <2>1, <2>2
<1> QED
  BY <1>1, <1>2, <1>3, <1>4, <1>5, <1>6, <1>7, PhoneUnchanged DEF Page

\* A pairing has one dialog: what was withdrawn or is paired has none left to come.
LEMMA HeldStep ==
  ASSUME TypeOK, InvitedOnce, Held, [Next]_vars
  PROVE  Held'
<1>0. \A i \in Pids : Unseen(i)' => Unseen(i)
  BY InvitesStep
<1> SUFFICES ASSUME NEW i \in Pids
             PROVE  /\ Unseen(i)' => dialog'.pid # i /\ paired' # i /\ i \notin withdrawn'
                    /\ dialog'.pid = i => paired' # i /\ i \notin withdrawn'
                    /\ paired' = i => i \notin withdrawn'
  BY DEF Held
<1>1. /\ Unseen(i) => dialog.pid # i /\ paired # i /\ i \notin withdrawn
      /\ dialog.pid = i => paired # i /\ i \notin withdrawn
      /\ paired = i => i \notin withdrawn
  BY DEF Held
<1>2. CASE dialog'.pid = dialog.pid /\ UNCHANGED <<paired, withdrawn>>
  BY <1>0, <1>1, <1>2
<1>3. CASE /\ UNCHANGED <<paired, withdrawn>>
           /\ \E j \in Pids : dialog'.pid = j /\ Unseen(j) /\ ~Unseen(j)'
  BY <1>0, <1>1, <1>3
<1>4. CASE dialog'.pid = NoPid /\ UNCHANGED <<paired, withdrawn>>
  BY <1>0, <1>1, <1>4, PidAssumption
<1>5. CASE /\ dialog'.pid = NoPid /\ paired' = paired
           /\ dialog.pid \in Pids /\ withdrawn' = withdrawn \union {dialog.pid}
  BY <1>0, <1>1, <1>5, PidAssumption
<1>6. CASE /\ dialog'.pid = NoPid /\ paired' = dialog.pid /\ dialog.pid \in Pids
           /\ withdrawn' = withdrawn
  BY <1>0, <1>1, <1>6, PidAssumption
<1> QED
  BY <1>2, <1>3, <1>4, <1>5, <1>6, PhoneStep

\* Credentials are under way, or stored, of completed pairings only.
LEMMA ToldStep ==
  ASSUME TypeOK, RequestedOnce, InvitedOnce, Judged, Told, [Next]_vars
  PROVE  Told'
<1>0. d2r \in Seq(Mail) /\ r2p \in Seq(Mail)
  BY QueuesHoldMail
<1>1. \A i \in Pids : verdict[i] = "completed" => verdict'[i] = "completed"
  BY VerdictStands
<1>2. \A i \in Pids : Coming(d2r', r2p', "completed", i) => verdict'[i] = "completed"
  <2>1. CASE ~ProofRight
    <3>1. Moves(d2r, r2p, d2r', r2p', "completed")
      BY <2>1, AnswersMove
    <3>2. \A i \in Pids : Coming(d2r', r2p', "completed", i) => Coming(d2r, r2p, "completed", i)
      BY <1>0, <3>1, MovesKeepOne, Zenon
    <3> QED
      BY <1>1, <3>2 DEF Told
  <2>2. CASE ProofRight
    <3> DEFINE h == Head(r2d).m.pid
               e == With(FromDesk("completed", h), Head(r2d).x, TRUE)
    <3>1. DeskTakes("proof") /\ verdict' = [verdict EXCEPT ![h] = "completed"] /\ d2r' = Append(d2r, e)
          /\ r2p' = r2p
      BY <2>2 DEF ProofRight, DeskTakes
    <3>2. h \in Pids /\ Head(r2d).x \in 0..MaxExchanges /\ "completed" \in DeskKinds
      BY <3>1, DeskHead DEF DeskKinds
    <3>3. e \in Mail /\ e.m.pid = h
      <4>1. \A x \in 0..MaxExchanges : With(FromDesk("completed", h), x, TRUE) \in Mail
        BY <3>2, FromDeskMail DEF Mail
      <4> QED
        BY <3>2, <4>1 DEF With, FromDesk
    <3>4. DOMAIN verdict = Pids
      BY DEF TypeOK
    <3> HIDE DEF h, e
    <3>5. \A i \in Pids : i # h /\ Coming(d2r', r2p', "completed", i) => Coming(d2r, r2p, "completed", i)
      BY <1>0, <3>1, <3>3, PendingAppend DEF Coming
    <3> QED
      BY <1>1, <3>1, <3>2, <3>4, <3>5 DEF Told
  <2> QED
    BY <2>1, <2>2
<1>3. \A i \in Pids : paired' = i => verdict'[i] = "completed"
  BY <1>1, PhoneStep DEF Told
<1> QED
  BY <1>2, <1>3 DEF Told

-----------------------------------------------------------------------------
(* The theorems                                                              *)

LEMMA InitIInv == Init => IInv
<1> SUFFICES ASSUME Init PROVE IInv
  OBVIOUS
<1>1. TypeOK
  BY InitTypeOK
<1>2. \A k, i : OneOf(<<>>, <<>>, k, i) /\ ~Coming(<<>>, <<>>, k, i)
  BY PendingNone DEF OneOf, Coming
<1>3. /\ p2r = <<>> /\ r2p = <<>> /\ d2r = <<>> /\ r2d = <<>>
      /\ \A i \in Pids : records[i] = NoRecord /\ verdict[i] = "open" /\ guesses[i] = 0
      /\ dialog.pid = NoPid /\ paired = NoPid /\ withdrawn = {}
  BY DEF Init, NoDialog
<1>4. RequestedOnce /\ InvitedOnce
  BY <1>2, <1>3 DEF RequestedOnce, InvitedOnce
<1>5. Judged
  <2>1. 0 <= MaxFailed
    BY BoundAssumption
  <2> QED
    BY <1>3, <2>1, Zenon DEF Judged
<1>6. Held
  BY <1>3, PidAssumption DEF Held
<1>7. Told
  BY <1>2, <1>3, PidAssumption DEF Told
<1> QED
  BY <1>1, <1>4, <1>5, <1>6, <1>7 DEF IInv

LEMMA NextIInv == IInv /\ [Next]_vars => IInv'
<1> SUFFICES ASSUME IInv, [Next]_vars PROVE IInv'
  OBVIOUS
<1> USE DEF IInv
<1>1. TypeOK'
  BY TypeStep
<1>2. RequestedOnce' /\ InvitedOnce'
  BY RequestsStep, InvitesStep
<1>3. Judged' /\ Held' /\ Told'
  BY JudgedStep, HeldStep, ToldStep
<1> QED
  BY <1>1, <1>2, <1>3

\* The inductive invariant holds in every behaviour.
LEMMA InvariantHolds == Spec => []IInv
BY InitIInv, NextIInv, PTL DEF Spec

\* Every variable keeps its type, and the mail of each hop comes from its sender.
THEOREM PairingTypeCorrect == Spec => []TypeOK
<1>1. IInv => TypeOK
  BY DEF IInv
<1> QED
  BY <1>1, InvariantHolds, PTL

\* The phone only has credentials of a pairing that the desktop has completed and that
\* nobody has called off, for any number of pairings, guesses and losses.
THEOREM PairedByConsentAlways == Spec => []PairedByConsent
<1>1. IInv => PairedByConsent
  BY DEF IInv, TypeOK, Held, Told, PairedByConsent
<1> QED
  BY <1>1, InvariantHolds, PTL

\* No code is guessed at more than MAX_FAILED_PROOFS times, whatever that number is.
THEOREM GuessesAlwaysBounded == Spec => []GuessesBounded
<1>1. IInv => GuessesBounded
  BY DEF IInv, Judged, GuessesBounded
<1> QED
  BY <1>1, InvariantHolds, PTL

\* What the desktop has decided about a pairing stands.
THEOREM VerdictAlwaysFinal == Spec => VerdictFinal
<1>1. IInv /\ [Next]_vars => [\A i \in Pids : verdict[i] # "open" => verdict'[i] = verdict[i]]_vars
  BY VerdictStands DEF IInv
<1> QED
  BY <1>1, InvariantHolds, PTL DEF Spec, VerdictFinal

-----------------------------------------------------------------------------
(* The answer that is under way.  A proof is lost on its way only where the  *)
(* relay or the desktop no longer knows the pairing; that both know it, or   *)
(* the verdict is under way, rests on the order of the desktop's messages:   *)
(* the verdict is the last.                                                  *)

Verdicts == {"completed", "rejected"}
Answers  == Verdicts \union {"error"}

\* The page has the key, or it is coming with a message of the desktop.
Keyed(i) ==
  \/ dialog.pid = i /\ dialog.key
  \/ Coming(d2r, r2p, "invite", i) \/ Coming(d2r, r2p, "challenge", i)

\* A proof, or the answer to one that was read, is on its way to the relay or the desktop.
Tried(i) == Coming(p2r, r2d, "proof", i) \/ Pending(d2r, {"completed", "error"}, i)

\* A page that waits has a key, and its exchange has a number.
Typing == dialog.stage = "verifying" => dialog.key /\ dialog.x # 0

\* Calls and notices under way are true, and the desktop cancels nothing.
NoticesTrue ==
  /\ Pending(r2d, {"offline"}, NoPid) => disturbed = Pids
  /\ \A i \in Pids : /\ ~Pending(d2r, {"cancelled"}, i)
                     /\ Coming(p2r, r2d, "cancelled", i) => i \in withdrawn
                     /\ Pending(d2r, {"rejected"}, i) => verdict[i] # "open"

\* What has a key, or was tried, has no opening left to arrive.
Opened ==
  \A i \in Pids : /\ Keyed(i) => ~Unopened(i)
                  /\ Tried(i) => ~Unopened(i) /\ ~Unseen(i)

\* While the desktop has a proof to read or credentials on their way, the relay awaits a verdict.
InProof ==
  \A i \in Pids : Pending(r2d, {"proof"}, i) \/ Pending(d2r, {"completed"}, i) =>
                    table[i] = NoPairing \/ table[i].state = "proof"

\* Nothing of a pairing is behind its verdict.
VerdictsLast ==
  \A a, b \in 1..Len(d2r) : a < b /\ d2r[a].m.kind \in Verdicts => d2r[b].m.pid # d2r[a].m.pid

\* After its verdict a pairing is gone at the relay, or the verdict has not come so far.
Over ==
  \A i \in Pids \ disturbed : verdict[i] # "open" =>
    \/ Pending(d2r, Verdicts, i)
    \/ table[i] = NoPairing /\ ~Pending(d2r, {"invite"}, i)

\* The desktop is at work on the pairing.
AtWork(i) == Pending(d2r, Answers, i) \/ records[i] # NoRecord \/ Pending(r2d, {"request"}, i)

\* What the desktop is at work on, the relay knows.
OnTable ==
  \A i \in Pids \ (disturbed \union withdrawn) :
    AtWork(i) /\ ~Pending(d2r, {"invite"}, i) => table[i] # NoPairing

\* What the page has a key for, the desktop knows until its verdict.
Recorded ==
  \A i \in Pids \ (disturbed \union withdrawn) :
    Keyed(i) /\ verdict[i] = "open" => records[i] # NoRecord

\* AnswerUnderWay, with a proof at the desktop only counting before the verdict.
Awaited ==
  LET i == dialog.pid IN
  dialog.stage = "verifying" /\ i \notin disturbed =>
    \/ Pending(p2r, {"proof"}, i)
    \/ Pending(r2d, {"proof"}, i) /\ verdict[i] = "open"
    \/ Pending(d2r, Answers, i) \/ Pending(r2p, Answers \union {"refused"}, i)

AInv == IInv /\ Typing /\ NoticesTrue /\ Opened /\ InProof /\ VerdictsLast /\ Over /\ OnTable
        /\ Recorded /\ Awaited

-----------------------------------------------------------------------------
\* A message at the end of a queue adds itself.
LEMMA Appended ==
  ASSUME NEW q \in Seq(Mail), NEW e \in Mail, NEW kinds, NEW i
  PROVE  Pending(Append(q, e), kinds, i) <=> Pending(q, kinds, i) \/ (e.m.kind \in kinds /\ e.m.pid = i)
<1>1. /\ Append(q, e)[Len(q) + 1] = e /\ Len(Append(q, e)) = Len(q) + 1
      /\ \A n \in 1..Len(q) : Append(q, e)[n] = q[n]
      /\ 1..(Len(q) + 1) = (1..Len(q)) \union {Len(q) + 1}
  OBVIOUS
<1> QED
  BY <1>1, Zenon DEF Pending

\* A queue holds its first message and the rest.
LEMMA Taken ==
  ASSUME NEW q \in Seq(Mail), q # <<>>, NEW kinds, NEW i
  PROVE  Pending(q, kinds, i) <=>
           Pending(Tail(q), kinds, i) \/ (Head(q).m.kind \in kinds /\ Head(q).m.pid = i)
<1>1. /\ Len(q) \in Nat \ {0} /\ Len(Tail(q)) = Len(q) - 1 /\ Head(q) = q[1]
      /\ \A n \in 1..Len(Tail(q)) : Tail(q)[n] = q[n + 1] /\ n + 1 \in 1..Len(q)
      /\ \A n \in 1..Len(q) : n # 1 => n - 1 \in 1..Len(Tail(q)) /\ Tail(q)[n - 1] = q[n]
      /\ 1 \in 1..Len(q)
  OBVIOUS
<1>2. ASSUME Pending(Tail(q), kinds, i)
      PROVE  Pending(q, kinds, i)
  BY <1>1, <1>2, Zenon DEF Pending
<1>3. ASSUME Head(q).m.kind \in kinds, Head(q).m.pid = i
      PROVE  Pending(q, kinds, i)
  BY <1>1, <1>3, Zenon DEF Pending
<1>4. ASSUME Pending(q, kinds, i), ~Pending(Tail(q), kinds, i)
      PROVE  Head(q).m.kind \in kinds /\ Head(q).m.pid = i
  <2>1. PICK n \in 1..Len(q) : q[n].m.pid = i /\ q[n].m.kind \in kinds
    BY <1>4 DEF Pending
  <2>2. n = 1
    BY <1>1, <1>4, <2>1, Zenon DEF Pending
  <2> QED
    BY <1>1, <2>1, <2>2
<1> QED
  BY <1>2, <1>3, <1>4

\* An empty queue holds nothing.
LEMMA NoneIn == \A kinds, i : ~Pending(<<>>, kinds, i)
BY DEF Pending

\* More kinds find no less.
LEMMA Kinds ==
  ASSUME NEW i
  PROVE  /\ \A q, a, b : Pending(q, a \union b, i) <=> Pending(q, a, i) \/ Pending(q, b, i)
         /\ \A q : Pending(q, Verdicts, i) <=> Pending(q, {"completed"}, i) \/ Pending(q, {"rejected"}, i)
         /\ \A q : Pending(q, Answers, i) <=> Pending(q, Verdicts, i) \/ Pending(q, {"error"}, i)
         /\ \A q : Pending(q, {"completed", "error"}, i)
                     <=> Pending(q, {"completed"}, i) \/ Pending(q, {"error"}, i)
BY DEF Pending, Verdicts, Answers

\* What is behind a verdict is about other pairings.
LEMMA LastTaken ==
  ASSUME NEW q \in Seq(Mail), q # <<>>, NEW kinds,
         \A a, b \in 1..Len(q) : a < b /\ q[a].m.kind \in Verdicts => q[b].m.pid # q[a].m.pid
  PROVE  /\ Head(q).m.kind \in Verdicts => ~Pending(Tail(q), kinds, Head(q).m.pid)
         /\ \A a, b \in 1..Len(Tail(q)) :
              a < b /\ Tail(q)[a].m.kind \in Verdicts => Tail(q)[b].m.pid # Tail(q)[a].m.pid
<1>1. /\ Len(q) \in Nat \ {0} /\ Len(Tail(q)) = Len(q) - 1 /\ Head(q) = q[1]
      /\ \A n \in 1..Len(Tail(q)) : Tail(q)[n] = q[n + 1] /\ n + 1 \in 1..Len(q) /\ 1 < n + 1
      /\ 1 \in 1..Len(q)
      /\ \A a, b \in 1..Len(Tail(q)) : a < b => a + 1 < b + 1
  OBVIOUS
<1>2. ASSUME Head(q).m.kind \in Verdicts, NEW n \in 1..Len(Tail(q)), Tail(q)[n].m.pid = Head(q).m.pid
      PROVE  FALSE
  <2>1. n + 1 \in 1..Len(q) /\ 1 \in 1..Len(q) /\ 1 < n + 1 /\ q[n + 1] = Tail(q)[n] /\ q[1] = Head(q)
    BY <1>1
  <2> QED
    BY <1>2, <2>1
<1>3. ASSUME NEW a \in 1..Len(Tail(q)), NEW b \in 1..Len(Tail(q)), a < b, Tail(q)[a].m.kind \in Verdicts
      PROVE  Tail(q)[b].m.pid # Tail(q)[a].m.pid
  <2>1. /\ a + 1 \in 1..Len(q) /\ b + 1 \in 1..Len(q) /\ a + 1 < b + 1
        /\ q[a + 1] = Tail(q)[a] /\ q[b + 1] = Tail(q)[b]
    BY <1>1, <1>3
  <2> QED
    BY <1>3, <2>1
<1> QED
  BY <1>2, <1>3 DEF Pending

\* A message may follow as long as the verdict of its pairing is not there.
LEMMA LastAppended ==
  ASSUME NEW q \in Seq(Mail), NEW e \in Mail, ~Pending(q, Verdicts, e.m.pid),
         \A a, b \in 1..Len(q) : a < b /\ q[a].m.kind \in Verdicts => q[b].m.pid # q[a].m.pid
  PROVE  \A a, b \in 1..Len(Append(q, e)) :
           a < b /\ Append(q, e)[a].m.kind \in Verdicts => Append(q, e)[b].m.pid # Append(q, e)[a].m.pid
<1>1. /\ Append(q, e)[Len(q) + 1] = e /\ Len(Append(q, e)) = Len(q) + 1
      /\ \A n \in 1..Len(q) : Append(q, e)[n] = q[n] /\ ~(Len(q) + 1 < n)
      /\ 1..(Len(q) + 1) = (1..Len(q)) \union {Len(q) + 1}
      /\ ~(Len(q) + 1 < Len(q) + 1)
  OBVIOUS
<1> SUFFICES ASSUME NEW a \in 1..Len(Append(q, e)), NEW b \in 1..Len(Append(q, e)), a < b,
                    Append(q, e)[a].m.kind \in Verdicts
             PROVE  Append(q, e)[b].m.pid # Append(q, e)[a].m.pid
  OBVIOUS
<1>2. a \in 1..Len(q)
  BY <1>1
<1>3. CASE b \in 1..Len(q)
  BY <1>1, <1>2, <1>3
<1>4. CASE b = Len(q) + 1
  BY <1>1, <1>2, <1>4, Zenon DEF Pending
<1> QED
  BY <1>1, <1>3, <1>4

-----------------------------------------------------------------------------
(* What a step does to each hop and to the table.                            *)

\* What is called off, or met a loss, stays so.
LEMMA Grows ==
  ASSUME TypeOK, [Next]_vars
  PROVE  disturbed \subseteq disturbed' /\ withdrawn \subseteq withdrawn'
<1>0. disturbed \subseteq Pids
  BY DEF TypeOK
<1>1. CASE User
  BY <1>1 DEF User, Cancel, Submit, Request, Invite, Reject
<1>2. CASE Relay
  BY <1>2 DEF Relay, RelayFromPhone, RelayFromDesk, RelayRefuses, RelayExpires, DeskExpires, Lose
<1>3. CASE Links
  BY <1>0, <1>3 DEF Links, PhoneLost, PhoneBack, DeskLost, DeskBack, LateClose, pastVars, Lose
<1>4. CASE Desktop
  BY <1>4 DEF Desktop, AcceptRequest, ProofUnknown, ProofWrong, ProofRight, DeskCancelled, DeskOffline,
              DeskTakes
<1>5. CASE Page
  BY <1>5 DEF Page, PageInvited, PageChallenged, PageCompleted, PageError, PageRejected, PageRefused,
              PageTakes
<1>6. CASE UNCHANGED vars
  BY <1>6 DEF vars, pastVars
<1> QED
  BY <1>1, <1>2, <1>3, <1>4, <1>5, <1>6 DEF Next

\* The first messages of the queues.
LEMMA Heads ==
  ASSUME TypeOK
  PROVE  /\ p2r \in Seq(Mail) /\ d2r \in Seq(Mail) /\ r2p \in Seq(Mail) /\ r2d \in Seq(Mail)
         /\ p2r # <<>> => /\ Head(p2r) \in Mail /\ Head(p2r).m.pid \in Pids /\ Head(p2r).m.kind \in PhoneKinds
                          /\ Head(p2r).m.phone = Phone /\ Head(p2r).m.desk = Desk
         /\ d2r # <<>> => /\ Head(d2r) \in Mail /\ Head(d2r).m.pid \in Pids /\ Head(d2r).m.kind \in DeskKinds
                          /\ Head(d2r).m.phone = Phone /\ Head(d2r).m.desk = Desk
         /\ r2p # <<>> => /\ Head(r2p) \in Mail /\ Head(r2p).m.pid \in Pids
                          /\ Head(r2p).m.kind \in DeskKinds \union {"refused"}
         /\ r2d # <<>> => /\ Head(r2d) \in Mail
                          /\ \/ Head(r2d).m.kind \in PhoneKinds /\ Head(r2d).m.pid \in Pids
                             \/ Head(r2d).m.kind = "offline" /\ Head(r2d).m.pid = NoPid
<1>1. p2r \in Seq(Mail) /\ d2r \in Seq(Mail) /\ r2p \in Seq(Mail) /\ r2d \in Seq(Mail)
  BY QueuesHoldMail
<1> DEFINE FromP == Sent("phone", PhoneKinds, Pids)
           FromD == Sent("desk", DeskKinds, Pids)
           Ref == Sent("relay", {"refused"}, Pids)
           Off == Sent("relay", {"offline"}, {NoPid})
<1>2. /\ p2r # <<>> => Head(p2r) \in FromP /\ Head(p2r) \in Mail
      /\ d2r # <<>> => Head(d2r) \in FromD /\ Head(d2r) \in Mail
      /\ r2p # <<>> => Head(r2p) \in FromD \union Ref /\ Head(r2p) \in Mail
      /\ r2d # <<>> => Head(r2d) \in FromP \union Off /\ Head(r2d) \in Mail
  BY <1>1, QueueType DEF TypeOK
<1>3. /\ \A e \in FromP : /\ e.m.kind \in PhoneKinds /\ e.m.pid \in Pids
                          /\ e.m.phone = Phone /\ e.m.desk = Desk
      /\ \A e \in FromD : /\ e.m.kind \in DeskKinds /\ e.m.pid \in Pids
                          /\ e.m.phone = Phone /\ e.m.desk = Desk
  BY SentFields
<1>4. /\ \A e \in Ref : e.m.kind = "refused" /\ e.m.pid \in Pids
      /\ \A e \in Off : e.m.kind = "offline" /\ e.m.pid = NoPid
  BY SentFields
<1> HIDE DEF FromP, FromD, Ref, Off
<1> QED
  BY <1>1, <1>2, <1>3, <1>4

\* What the desktop sends, and when.
Replies(e) ==
  /\ e \in Mail /\ e.m.pid \in Pids /\ UNCHANGED <<table, r2p, disturbed>>
  /\ \/ e.m.kind = "invite" /\ Invite(e.m.pid)
     \/ e.m.kind = "challenge" /\ AcceptRequest /\ Head(r2d).m.pid = e.m.pid /\ records'[e.m.pid] = 0
     \/ e.m.kind = "rejected" /\ records[e.m.pid] # NoRecord /\ verdict'[e.m.pid] = "rejected"
     \/ /\ e.m.kind \in {"completed", "error"} /\ records[e.m.pid] # NoRecord
        /\ DeskTakes("proof") /\ Head(r2d).m.pid = e.m.pid

\* The queue of the desktop.
LEMMA DeskQueueStep ==
  ASSUME TypeOK, [Next]_vars
  PROVE  \/ d2r' = d2r
         \/ d2r' = <<>> /\ disturbed' = Pids
         \/ d2r # <<>> /\ d2r' = Tail(d2r) /\ (RelayFromDesk \/ Head(d2r).m.pid \in disturbed')
         \/ \E e \in Mail : d2r' = Append(d2r, e) /\ Replies(e)
<1> DEFINE Goal == \/ d2r' = d2r
                   \/ d2r' = <<>> /\ disturbed' = Pids
                   \/ d2r # <<>> /\ d2r' = Tail(d2r) /\ (RelayFromDesk \/ Head(d2r).m.pid \in disturbed')
                   \/ \E e \in Mail : d2r' = Append(d2r, e) /\ Replies(e)
           i == Head(r2d).m.pid
<1>0. /\ \A j \in Pids, k \in {"invite", "challenge", "rejected", "error"} :
           /\ Plain(FromDesk(k, j)) \in Mail
           /\ Plain(FromDesk(k, j)).m.kind = k /\ Plain(FromDesk(k, j)).m.pid = j
      /\ disturbed \subseteq Pids /\ DOMAIN records = Pids /\ DOMAIN verdict = Pids
  BY NewPlainMail DEF DeskKinds, TypeOK
<1>1. ASSUME NEW j \in Pids, Invite(j)
      PROVE  Goal
  <2>1. d2r' = Append(d2r, Plain(FromDesk("invite", j))) /\ UNCHANGED <<table, r2p, disturbed>>
    BY <1>1 DEF Invite
  <2> QED
    BY <1>0, <1>1, <2>1 DEF Replies
<1>2. ASSUME NEW j \in Pids, Reject(j)
      PROVE  Goal
  <2>1. /\ d2r' = Append(d2r, Plain(FromDesk("rejected", j))) /\ UNCHANGED <<table, r2p, disturbed>>
        /\ records[j] # NoRecord /\ verdict'[j] = "rejected"
    BY <1>0, <1>2 DEF Reject
  <2> QED
    BY <1>0, <2>1 DEF Replies
<1>3. CASE AcceptRequest
  <2>1. i \in Pids /\ UNCHANGED <<table, r2p, disturbed>>
    BY <1>3, DeskHead DEF AcceptRequest, DeskTakes
  <2>2. \/ d2r' = d2r
        \/ d2r' = Append(d2r, Plain(FromDesk("challenge", i))) /\ records'[i] = 0
    BY <1>0, <1>3, <2>1 DEF AcceptRequest
  <2> QED
    BY <1>0, <1>3, <2>1, <2>2 DEF Replies
<1>4. CASE ProofWrong
  <2>1. /\ i \in Pids /\ UNCHANGED <<table, r2p, disturbed>> /\ DeskTakes("proof")
        /\ records[i] # NoRecord
    BY <1>4, DeskHead DEF ProofWrong, DeskTakes
  <2>2. \/ d2r' = Append(d2r, Plain(FromDesk("error", i)))
        \/ d2r' = Append(d2r, Plain(FromDesk("rejected", i))) /\ verdict'[i] = "rejected"
    BY <1>0, <1>4, <2>1 DEF ProofWrong, JudgeWrong
  <2> QED
    BY <1>0, <2>1, <2>2 DEF Replies
<1>5. CASE ProofRight
  <2>1. /\ i \in Pids /\ UNCHANGED <<table, r2p, disturbed>> /\ DeskTakes("proof")
        /\ records[i] # NoRecord /\ Head(r2d).x \in 0..MaxExchanges
        /\ d2r' = Append(d2r, With(FromDesk("completed", i), Head(r2d).x, TRUE))
    BY <1>5, DeskHead DEF ProofRight, DeskTakes
  <2>2. \A x \in 0..MaxExchanges :
          /\ With(FromDesk("completed", i), x, TRUE) \in Mail
          /\ With(FromDesk("completed", i), x, TRUE).m.kind = "completed"
          /\ With(FromDesk("completed", i), x, TRUE).m.pid = i
    <3>1. \A x \in 0..MaxExchanges : With(FromDesk("completed", i), x, TRUE) \in Mail
      BY <2>1, FromDeskMail DEF DeskKinds, Mail
    <3> QED
      BY <3>1 DEF With, FromDesk
  <2> QED
    BY <2>1, <2>2 DEF Replies
<1>6. CASE ProofUnknown \/ DeskCancelled \/ DeskOffline
  BY <1>6 DEF ProofUnknown, DeskCancelled, DeskOffline
<1>7. CASE Cancel \/ (\E r \in BOOLEAN : Submit(r)) \/ \E j \in Pids : Request(j)
  BY <1>7 DEF Cancel, Submit, Request
<1>8. CASE RelayFromPhone \/ \E j \in Pids : RelayExpires(j) \/ DeskExpires(j)
  BY <1>8 DEF RelayFromPhone, RelayExpires, DeskExpires
<1>9. CASE RelayFromDesk \/ RelayRefuses
  BY <1>9 DEF RelayFromDesk, RelayRefuses, Lose
<1>10. CASE Links
  BY <1>0, <1>10 DEF Links, PhoneLost, PhoneBack, DeskLost, DeskBack, LateClose, pastVars, Lose
<1>11. CASE Page
  BY <1>11 DEF Page, PageInvited, PageChallenged, PageCompleted, PageError, PageRejected, PageRefused,
               PageTakes
<1>12. CASE UNCHANGED vars
  BY <1>12 DEF vars
<1> QED
  BY <1>1, <1>2, <1>3, <1>4, <1>5, <1>6, <1>7, <1>8, <1>9, <1>10, <1>11, <1>12
     DEF Next, User, Relay, Desktop

\* The queue of the phone.
LEMMA PhoneQueueStep ==
  ASSUME TypeOK, [Next]_vars
  PROVE  \/ p2r' = p2r
         \/ p2r' = <<>> /\ disturbed' = Pids
         \/ p2r # <<>> /\ p2r' = Tail(p2r) /\ (RelayFromPhone \/ Head(p2r).m.pid \in disturbed')
         \/ \E e \in Mail :
              /\ p2r' = Append(p2r, e) /\ e.m.pid \in Pids
              /\ \/ e.m.kind = "request" /\ Request(e.m.pid)
                 \/ e.m.kind = "proof" /\ e.m.pid = dialog.pid /\ dialog.key
                 \/ e.m.kind = "cancelled" /\ e.m.pid \in withdrawn'
<1> DEFINE Goal == \/ p2r' = p2r
                   \/ p2r' = <<>> /\ disturbed' = Pids
                   \/ p2r # <<>> /\ p2r' = Tail(p2r) /\ (RelayFromPhone \/ Head(p2r).m.pid \in disturbed')
                   \/ \E e \in Mail :
                        /\ p2r' = Append(p2r, e) /\ e.m.pid \in Pids
                        /\ \/ e.m.kind = "request" /\ Request(e.m.pid)
                           \/ e.m.kind = "proof" /\ e.m.pid = dialog.pid /\ dialog.key
                           \/ e.m.kind = "cancelled" /\ e.m.pid \in withdrawn'
<1>0. /\ \A j \in Pids, k \in PhoneKinds :
           /\ Plain(FromPhone(k, j)) \in Mail
           /\ Plain(FromPhone(k, j)).m.kind = k /\ Plain(FromPhone(k, j)).m.pid = j
      /\ disturbed \subseteq Pids /\ "request" \in PhoneKinds /\ "cancelled" \in PhoneKinds
      /\ "proof" \in PhoneKinds
  BY NewPlainMail DEF PhoneKinds, TypeOK
<1>1. CASE Cancel
  <2>1. dialog.pid \in Pids
    BY <1>1, DialogPid DEF Cancel
  <2>2. /\ dialog.pid \in withdrawn'
        /\ p2r' = p2r \/ p2r' = Append(p2r, Plain(FromPhone("cancelled", dialog.pid)))
    BY <1>1 DEF Cancel
  <2> QED
    BY <1>0, <2>1, <2>2
<1>2. ASSUME NEW r \in BOOLEAN, Submit(r)
      PROVE  Goal
  <2>1. dialog.pid \in Pids /\ dialog.key
    BY <1>2, DialogPid DEF Submit
  <2>2. typed + 1 \in 0..MaxExchanges
    <3>1. typed \in 0..MaxExchanges /\ typed < MaxExchanges
      BY <1>2 DEF TypeOK, Submit
    <3> QED
      BY <3>1, BoundAssumption
  <2> DEFINE e == With(FromPhone("proof", dialog.pid), typed + 1, r)
  <2>3. e \in Mail /\ e.m.kind = "proof" /\ e.m.pid = dialog.pid
    BY <1>0, <2>1, <2>2, NewMail
  <2>4. p2r' = Append(p2r, e) \/ p2r' = p2r
    BY <1>2 DEF Submit
  <2> HIDE DEF e
  <2> QED
    BY <2>1, <2>3, <2>4
<1>3. ASSUME NEW j \in Pids, Request(j)
      PROVE  Goal
  <2>1. p2r' = Append(p2r, Plain(FromPhone("request", j)))
    BY <1>3 DEF Request
  <2> QED
    BY <1>0, <1>3, <2>1
<1>4. CASE \E j \in Pids : Invite(j) \/ Reject(j)
  BY <1>4 DEF Invite, Reject
<1>5. CASE RelayFromDesk \/ \E j \in Pids : RelayExpires(j) \/ DeskExpires(j)
  BY <1>5 DEF RelayFromDesk, RelayExpires, DeskExpires
<1>6. CASE RelayFromPhone \/ RelayRefuses
  BY <1>6 DEF RelayFromPhone, RelayRefuses, Lose
<1>7. CASE Links
  BY <1>0, <1>7 DEF Links, PhoneLost, PhoneBack, DeskLost, DeskBack, LateClose, pastVars, Lose
<1>8. CASE Desktop
  BY <1>8 DEF Desktop, AcceptRequest, ProofUnknown, ProofWrong, ProofRight, DeskCancelled, DeskOffline,
              DeskTakes
<1>9. CASE Page
  BY <1>9 DEF Page, PageInvited, PageChallenged, PageCompleted, PageError, PageRejected, PageRefused
<1>10. CASE UNCHANGED vars
  BY <1>10 DEF vars
<1> QED
  BY <1>1, <1>2, <1>3, <1>4, <1>5, <1>6, <1>7, <1>8, <1>9, <1>10 DEF Next, User, Relay

\* The queue to the desktop.
LEMMA ToDeskStep ==
  ASSUME TypeOK, [Next]_vars
  PROVE  \/ r2d' = r2d
         \/ r2d' = <<>> /\ disturbed' = Pids
         \/ r2d # <<>> /\ r2d' = Tail(r2d) /\ Desktop
         \/ \E e \in Mail : r2d' = Append(r2d, e) /\ e.m.kind = "offline" /\ disturbed' = Pids
         \/ /\ RelayFromPhone /\ p2r # <<>> /\ r2d' = Append(r2d, Head(p2r))
            /\ Allowed(table, Head(p2r).m) /\ table' = Forwarded(table, Head(p2r).m)
<1>0. disturbed \subseteq Pids /\ Notice("offline", NoPid) \in Mail /\ Notice("offline", NoPid).m.kind = "offline"
  BY NewNotice DEF TypeOK
<1>1. CASE User
  BY <1>1 DEF User, Cancel, Submit, Request, Invite, Reject
<1>2. CASE RelayFromPhone
  BY <1>2 DEF RelayFromPhone
<1>3. CASE RelayFromDesk \/ RelayRefuses \/ \E j \in Pids : RelayExpires(j) \/ DeskExpires(j)
  BY <1>3 DEF RelayFromDesk, RelayRefuses, RelayExpires, DeskExpires
<1>4. CASE Links
  BY <1>0, <1>4 DEF Links, PhoneLost, PhoneBack, DeskLost, DeskBack, LateClose, pastVars, Lose
<1>5. CASE Desktop
  BY <1>5 DEF Desktop, AcceptRequest, ProofUnknown, ProofWrong, ProofRight, DeskCancelled, DeskOffline,
              DeskTakes
<1>6. CASE Page
  BY <1>6 DEF Page, PageInvited, PageChallenged, PageCompleted, PageError, PageRejected, PageRefused,
              PageTakes
<1>7. CASE UNCHANGED vars
  BY <1>7 DEF vars
<1> QED
  BY <1>1, <1>2, <1>3, <1>4, <1>5, <1>6, <1>7 DEF Next, Relay

\* The queue to the page.
LEMMA ToPageStep ==
  ASSUME TypeOK, [Next]_vars
  PROVE  \/ r2p' = r2p
         \/ r2p' = <<>> /\ disturbed' = Pids
         \/ r2p # <<>> /\ r2p' = Tail(r2p) /\ Page
         \/ /\ p2r # <<>> /\ p2r' = Tail(p2r)
            /\ \E e \in Mail : /\ r2p' = Append(r2p, e)
                              /\ e.m.kind = "refused" /\ e.m.pid = Head(p2r).m.pid
         \/ RelayFromDesk /\ d2r # <<>> /\ d2r' = Tail(d2r) /\ r2p' = Append(r2p, Head(d2r))
<1>0. /\ \A i \in Pids : /\ Notice("refused", i) \in Mail /\ Notice("refused", i).m.kind = "refused"
                         /\ Notice("refused", i).m.pid = i
      /\ p2r # <<>> => Head(p2r).m.pid \in Pids
      /\ disturbed \subseteq Pids
  BY NewNotice, Heads DEF TypeOK, Notice, Plain, With
<1>1. CASE User
  BY <1>1 DEF User, Cancel, Submit, Request, Invite, Reject
<1>2. CASE RelayFromPhone
  BY <1>0, <1>2 DEF RelayFromPhone
<1>3. CASE RelayFromDesk \/ \E j \in Pids : RelayExpires(j) \/ DeskExpires(j)
  BY <1>3 DEF RelayFromDesk, RelayExpires, DeskExpires
<1>4. CASE RelayRefuses
  BY <1>0, <1>4 DEF RelayRefuses
<1>5. CASE Links
  BY <1>0, <1>5 DEF Links, PhoneLost, PhoneBack, DeskLost, DeskBack, LateClose, pastVars, Lose
<1>6. CASE Desktop
  BY <1>6 DEF Desktop, AcceptRequest, ProofUnknown, ProofWrong, ProofRight, DeskCancelled, DeskOffline,
              DeskTakes
<1>7. CASE Page
  BY <1>7 DEF Page, PageInvited, PageChallenged, PageCompleted, PageError, PageRejected, PageRefused,
              PageTakes
<1>8. CASE UNCHANGED vars
  BY <1>8 DEF vars
<1> QED
  BY <1>1, <1>2, <1>3, <1>4, <1>5, <1>6, <1>7, <1>8 DEF Next, Relay

\* The entry of a pairing in the relay's table.
LEMMA TableStep ==
  ASSUME TypeOK, [Next]_vars, NEW i \in Pids
  PROVE  \/ table'[i] = table[i]
         \/ table'[i] = NoPairing /\ i \in disturbed'
         \/ /\ RelayFromPhone /\ p2r # <<>> /\ Head(p2r).m.pid = i
            /\ Allowed(table, Head(p2r).m) /\ table' = Forwarded(table, Head(p2r).m)
         \/ /\ RelayFromDesk /\ d2r # <<>> /\ Head(d2r).m.pid = i
            /\ Allowed(table, Head(d2r).m) /\ table' = Forwarded(table, Head(d2r).m)
<1>0. /\ disturbed \subseteq Pids /\ DOMAIN table = Pids
      /\ \A x : Without(table, x)[i] \in {table[i], NoPairing}
      /\ \A m : m.pid # i => Forwarded(table, m)[i] = table[i]
  BY DEF TypeOK, Without, Forwarded
<1>1. CASE User
  BY <1>1 DEF User, Cancel, Submit, Request, Invite, Reject
<1>2. CASE RelayFromPhone
  BY <1>0, <1>2 DEF RelayFromPhone
<1>3. CASE RelayFromDesk
  BY <1>0, <1>3 DEF RelayFromDesk
<1>4. CASE RelayRefuses \/ \E j \in Pids : RelayExpires(j) \/ DeskExpires(j)
  BY <1>0, <1>4 DEF RelayRefuses, RelayExpires, DeskExpires, Lose
<1>5. CASE Links
  BY <1>0, <1>5 DEF Links, PhoneLost, PhoneBack, DeskLost, DeskBack, LateClose, pastVars, Lose
<1>6. CASE Desktop
  BY <1>6 DEF Desktop, AcceptRequest, ProofUnknown, ProofWrong, ProofRight, DeskCancelled, DeskOffline,
              DeskTakes
<1>7. CASE Page
  BY <1>7 DEF Page, PageInvited, PageChallenged, PageCompleted, PageError, PageRejected, PageRefused,
              PageTakes
<1>8. CASE UNCHANGED vars
  BY <1>8 DEF vars
<1> QED
  BY <1>1, <1>2, <1>3, <1>4, <1>5, <1>6, <1>7, <1>8 DEF Next, Relay

\* What forwarding makes of the entry of its pairing.
LEMMA ForwardedEntry ==
  ASSUME TypeOK, NEW m, m.pid \in Pids, m.phone = Phone, m.desk = Desk, Allowed(table, m)
  PROVE  LET p == Forwarded(table, m)[m.pid] IN
         /\ m.kind \in Opening => table[m.pid] = NoPairing /\ p # NoPairing
         /\ m.kind \notin Opening => table[m.pid] # NoPairing
         /\ m.kind \in Terminal => p = NoPairing
         /\ m.kind \in {"challenge", "proof", "error"} => p # NoPairing
         /\ m.kind = "proof" => p.state = "proof"
         /\ m.kind = "error" => p = table[m.pid]
         /\ m.kind = "challenge" => table[m.pid].state = "requested"
<1> DEFINE p == Forwarded(table, m)[m.pid]
           old == table[m.pid]
           P == Pairings({Phone}, {Desk})
<1>1. table \in [Pids -> P \union {NoPairing}] /\ NoPairing \notin P
  BY PartiesAssumption DEF TypeOK
<1>2. CASE m.kind \in Opening
  <2>1. old = NoPairing
    BY <1>2 DEF Allowed
  <2>2. p = [phone |-> m.phone, desk |-> m.desk,
             state |-> IF m.kind = "request" THEN "requested" ELSE "invited"]
    BY <1>1, <1>2 DEF Forwarded, Opening, Terminal
  <2>3. p \in P
    BY <2>2 DEF Pairings, States
  <2> QED
    BY <1>1, <1>2, <2>1, <2>3 DEF Opening, Terminal
<1>3. CASE m.kind \in Terminal
  BY <1>1, <1>3 DEF Forwarded, Allowed, Opening, Terminal
<1>4. CASE m.kind \in {"challenge", "proof", "error"}
  <2>1. m.kind \notin Opening /\ m.kind \notin Terminal
    BY <1>4 DEF Opening, Terminal
  <2>2. old # NoPairing /\ Expected(m.kind, old.state) /\ old \in P
    BY <1>1, <2>1 DEF Allowed
  <2>3. \A st \in States : [old EXCEPT !.state = st] \in P /\ [old EXCEPT !.state = st].state = st
    BY <2>2 DEF Pairings
  <2>4. p = CASE m.kind = "challenge" -> [old EXCEPT !.state = "challenged"]
              [] m.kind = "proof" -> [old EXCEPT !.state = "proof"]
              [] OTHER -> old
    BY <1>1, <2>1 DEF Forwarded
  <2>5. /\ m.kind = "challenge" => p \in P
        /\ m.kind = "proof" => p \in P /\ p.state = "proof"
        /\ m.kind = "error" => p = old
    BY <2>2, <2>3, <2>4 DEF States
  <2> QED
    BY <1>1, <1>4, <2>1, <2>2, <2>5 DEF Expected
<1>5. m.kind \notin Opening => old # NoPairing
  BY DEF Allowed
<1> QED
  BY <1>2, <1>3, <1>4, <1>5 DEF Opening, Terminal

-----------------------------------------------------------------------------
(* The same, said of one pairing: what is new in a queue, and what is gone.  *)

\* What is new in the queue of the phone: the page sent it just now.
LEMMA PhoneSends ==
  ASSUME TypeOK, [Next]_vars, NEW i, NEW kinds, Pending(p2r', kinds, i)
  PROVE  \/ Pending(p2r, kinds, i)
         \/ /\ i \in Pids
            /\ \/ "request" \in kinds /\ Request(i)
               \/ "proof" \in kinds /\ dialog.pid = i /\ dialog.key
               \/ "cancelled" \in kinds /\ i \in withdrawn'
<1>0. p2r \in Seq(Mail)
  BY Heads
<1>1. CASE p2r' = p2r
  BY <1>1
<1>a. CASE p2r' = <<>>
  BY <1>a, NoneIn
<1>b. CASE p2r # <<>> /\ p2r' = Tail(p2r)
  BY <1>0, <1>b, Taken
<1>2. ASSUME NEW e \in Mail, p2r' = Append(p2r, e), e.m.pid \in Pids,
             \/ e.m.kind = "request" /\ Request(e.m.pid)
             \/ e.m.kind = "proof" /\ e.m.pid = dialog.pid /\ dialog.key
             \/ e.m.kind = "cancelled" /\ e.m.pid \in withdrawn',
             ~Pending(p2r, kinds, i)
      PROVE  /\ i \in Pids
             /\ \/ "request" \in kinds /\ Request(i)
                \/ "proof" \in kinds /\ dialog.pid = i /\ dialog.key
                \/ "cancelled" \in kinds /\ i \in withdrawn'
  <2>1. e.m.kind \in kinds /\ e.m.pid = i
    BY <1>0, <1>2, Appended
  <2> QED
    BY <1>2, <2>1
<1> QED
  BY <1>1, <1>a, <1>b, <1>2, PhoneQueueStep

\* What is new in the queue of the desktop: the desktop sent it just now.
LEMMA DeskSends ==
  ASSUME TypeOK, [Next]_vars, NEW i, NEW kinds, Pending(d2r', kinds, i)
  PROVE  \/ Pending(d2r, kinds, i)
         \/ \E e \in Mail : Replies(e) /\ e.m.kind \in kinds /\ e.m.pid = i
<1>0. d2r \in Seq(Mail)
  BY Heads
<1>1. CASE d2r' = d2r
  BY <1>1
<1>a. CASE d2r' = <<>>
  BY <1>a, NoneIn
<1>b. CASE d2r # <<>> /\ d2r' = Tail(d2r)
  BY <1>0, <1>b, Taken
<1>2. ASSUME NEW e \in Mail, d2r' = Append(d2r, e), Replies(e), ~Pending(d2r, kinds, i)
      PROVE  e.m.kind \in kinds /\ e.m.pid = i
  BY <1>0, <1>2, Appended
<1> QED
  BY <1>1, <1>a, <1>b, <1>2, DeskQueueStep

\* What is new in the queue to the desktop: a notice, or the phone sent it and the relay let it pass.
LEMMA ToDeskSends ==
  ASSUME TypeOK, [Next]_vars, NEW i, NEW kinds, Pending(r2d', kinds, i)
  PROVE  \/ Pending(r2d, kinds, i)
         \/ "offline" \in kinds /\ disturbed' = Pids
         \/ /\ RelayFromPhone /\ p2r # <<>> /\ Head(p2r).m.kind \in kinds /\ Head(p2r).m.pid = i
            /\ Pending(p2r, kinds, i)
            /\ Allowed(table, Head(p2r).m) /\ table' = Forwarded(table, Head(p2r).m)
<1>0. r2d \in Seq(Mail) /\ p2r \in Seq(Mail) /\ (p2r # <<>> => Head(p2r) \in Mail)
  BY Heads
<1>1. CASE r2d' = r2d
  BY <1>1
<1>a. CASE r2d' = <<>>
  BY <1>a, NoneIn
<1>b. CASE r2d # <<>> /\ r2d' = Tail(r2d)
  BY <1>0, <1>b, Taken
<1>2. ASSUME NEW e \in Mail, r2d' = Append(r2d, e), e.m.kind = "offline", ~Pending(r2d, kinds, i)
      PROVE  "offline" \in kinds
  BY <1>0, <1>2, Appended
<1>3. ASSUME p2r # <<>>, r2d' = Append(r2d, Head(p2r)), ~Pending(r2d, kinds, i)
      PROVE  Head(p2r).m.kind \in kinds /\ Head(p2r).m.pid = i /\ Pending(p2r, kinds, i)
  BY <1>0, <1>3, Appended, Taken
<1> QED
  BY <1>1, <1>a, <1>b, <1>2, <1>3, ToDeskStep

\* What is new in the queue to the page: a refusal, or the desktop sent it.
LEMMA ToPageSends ==
  ASSUME TypeOK, [Next]_vars, NEW i, NEW kinds, Pending(r2p', kinds, i)
  PROVE  Pending(r2p, kinds, i) \/ "refused" \in kinds \/ Pending(d2r, kinds, i)
<1>0. r2p \in Seq(Mail) /\ d2r \in Seq(Mail) /\ (d2r # <<>> => Head(d2r) \in Mail)
  BY Heads
<1>1. CASE r2p' = r2p
  BY <1>1
<1>a. CASE r2p' = <<>>
  BY <1>a, NoneIn
<1>b. CASE r2p # <<>> /\ r2p' = Tail(r2p)
  BY <1>0, <1>b, Taken
<1>2. ASSUME NEW e \in Mail, r2p' = Append(r2p, e), e.m.kind = "refused", ~Pending(r2p, kinds, i)
      PROVE  "refused" \in kinds
  BY <1>0, <1>2, Appended
<1>3. ASSUME d2r # <<>>, r2p' = Append(r2p, Head(d2r)), ~Pending(r2p, kinds, i)
      PROVE  Pending(d2r, kinds, i)
  BY <1>0, <1>3, Appended, Taken
<1> QED
  BY <1>1, <1>a, <1>b, <1>2, <1>3, ToPageStep

\* What leaves the queue of the phone undisturbed, the relay has read.
LEMMA PhoneLoses ==
  ASSUME TypeOK, [Next]_vars, NEW i \in Pids, NEW kinds, Pending(p2r, kinds, i), i \notin disturbed'
  PROVE  \/ Pending(p2r', kinds, i)
         \/ /\ RelayFromPhone /\ p2r # <<>>
            /\ Head(p2r).m.kind \in kinds /\ Head(p2r).m.pid = i
<1>0. p2r \in Seq(Mail)
  BY Heads
<1>1. CASE p2r # <<>> /\ p2r' = Tail(p2r) /\ (RelayFromPhone \/ Head(p2r).m.pid \in disturbed')
  BY <1>0, <1>1, Taken
<1>2. CASE \E e \in Mail : p2r' = Append(p2r, e)
  BY <1>0, <1>2, Appended
<1> QED
  BY <1>1, <1>2, PhoneQueueStep

\* What leaves the queue of the desktop undisturbed, the relay has read.
LEMMA DeskLoses ==
  ASSUME TypeOK, [Next]_vars, NEW i \in Pids, NEW kinds, Pending(d2r, kinds, i), i \notin disturbed'
  PROVE  \/ Pending(d2r', kinds, i)
         \/ /\ RelayFromDesk /\ d2r # <<>> /\ d2r' = Tail(d2r)
            /\ Head(d2r).m.kind \in kinds /\ Head(d2r).m.pid = i
<1>0. d2r \in Seq(Mail)
  BY Heads
<1>1. CASE d2r # <<>> /\ d2r' = Tail(d2r) /\ (RelayFromDesk \/ Head(d2r).m.pid \in disturbed')
  BY <1>0, <1>1, Taken
<1>2. CASE \E e \in Mail : d2r' = Append(d2r, e)
  BY <1>0, <1>2, Appended
<1> QED
  BY <1>1, <1>2, DeskQueueStep

\* What leaves the queue to the desktop undisturbed, the desktop has read.
LEMMA ToDeskLoses ==
  ASSUME TypeOK, [Next]_vars, NEW i \in Pids, NEW kinds, Pending(r2d, kinds, i), i \notin disturbed'
  PROVE  \/ Pending(r2d', kinds, i)
         \/ Desktop /\ r2d # <<>> /\ Head(r2d).m.kind \in kinds /\ Head(r2d).m.pid = i
<1>0. r2d \in Seq(Mail) /\ (p2r # <<>> => Head(p2r) \in Mail)
  BY Heads
<1>1. CASE r2d # <<>> /\ r2d' = Tail(r2d) /\ Desktop
  BY <1>0, <1>1, Taken
<1>2. CASE \E e \in Mail : r2d' = Append(r2d, e)
  BY <1>0, <1>2, Appended
<1> QED
  BY <1>0, <1>1, <1>2, ToDeskStep

\* What leaves the queue to the page undisturbed, the page has read.
LEMMA ToPageLoses ==
  ASSUME TypeOK, [Next]_vars, NEW i \in Pids, NEW kinds, Pending(r2p, kinds, i), i \notin disturbed'
  PROVE  \/ Pending(r2p', kinds, i)
         \/ Page /\ r2p # <<>> /\ Head(r2p).m.kind \in kinds /\ Head(r2p).m.pid = i
<1>0. r2p \in Seq(Mail) /\ (d2r # <<>> => Head(d2r) \in Mail)
  BY Heads
<1>1. CASE r2p # <<>> /\ r2p' = Tail(r2p) /\ Page
  BY <1>0, <1>1, Taken
<1>2. CASE \E e \in Mail : r2p' = Append(r2p, e)
  BY <1>0, <1>2, Appended
<1> QED
  BY <1>0, <1>1, <1>2, ToPageStep

-----------------------------------------------------------------------------
(* The parts of the invariant                                                *)

\* What a step makes of the dialog.
LEMMA DialogStep ==
  ASSUME TypeOK, [Next]_vars
  PROVE  \/ dialog' = dialog
         \/ /\ \E r \in BOOLEAN : Submit(r)
            /\ dialog.key /\ dialog'.pid = dialog.pid /\ dialog'.key /\ dialog'.x # 0
            /\ dialog'.stage = "verifying" => Pending(p2r', {"proof"}, dialog.pid)
         \/ /\ dialog'.stage # "verifying"
            /\ dialog'.key => \/ dialog.key /\ dialog'.pid = dialog.pid
                              \/ /\ r2p # <<>> /\ Head(r2p).m.kind \in {"invite", "challenge"}
                                 /\ dialog'.pid = Head(r2p).m.pid
<1> DEFINE Goal == \/ /\ dialog'.stage # "verifying"
                      /\ dialog'.key => \/ dialog.key /\ dialog'.pid = dialog.pid
                                        \/ /\ r2p # <<>> /\ Head(r2p).m.kind \in {"invite", "challenge"}
                                           /\ dialog'.pid = Head(r2p).m.pid
                   \/ dialog' = dialog
<1>0. dialog \in Dialogs /\ NoDialog.stage = "closed" /\ ~NoDialog.key
  BY DEF TypeOK, Dialogs, NoDialog
<1>1. CASE UNCHANGED <<dialog, paired, withdrawn>>
  BY <1>1
<1>2. CASE Cancel
  BY <1>0, <1>2 DEF Cancel
<1>3. ASSUME NEW r \in BOOLEAN, Submit(r)
      PROVE  /\ dialog.key /\ dialog'.pid = dialog.pid /\ dialog'.key /\ dialog'.x # 0
             /\ dialog'.stage = "verifying" => Pending(p2r', {"proof"}, dialog.pid)
  <2>1. dialog.pid \in Pids /\ dialog.key
    BY <1>3, DialogPid DEF Submit
  <2>2. typed + 1 \in 0..MaxExchanges /\ typed + 1 # 0
    <3>1. typed \in 0..MaxExchanges /\ typed < MaxExchanges
      BY <1>3 DEF TypeOK, Submit
    <3> QED
      BY <3>1, BoundAssumption
  <2> DEFINE e == With(FromPhone("proof", dialog.pid), typed + 1, r)
  <2>3. e \in Mail /\ e.m.kind = "proof" /\ e.m.pid = dialog.pid
    BY <2>1, <2>2, NewMail DEF PhoneKinds
  <2>4. \/ /\ dialog' = [dialog EXCEPT !.stage = "verifying", !.x = typed + 1]
           /\ p2r' = Append(p2r, e)
        \/ dialog' = [dialog EXCEPT !.stage = "ready", !.x = typed + 1]
    BY <1>3 DEF Submit
  <2> HIDE DEF e
  <2>5. p2r' = Append(p2r, e) => Pending(p2r', {"proof"}, dialog.pid)
    BY <2>3, Appended, Heads
  <2>6. /\ [dialog EXCEPT !.stage = "verifying", !.x = typed + 1].pid = dialog.pid
        /\ [dialog EXCEPT !.stage = "verifying", !.x = typed + 1].key = dialog.key
        /\ [dialog EXCEPT !.stage = "verifying", !.x = typed + 1].x = typed + 1
        /\ [dialog EXCEPT !.stage = "ready", !.x = typed + 1].pid = dialog.pid
        /\ [dialog EXCEPT !.stage = "ready", !.x = typed + 1].key = dialog.key
        /\ [dialog EXCEPT !.stage = "ready", !.x = typed + 1].x = typed + 1
        /\ [dialog EXCEPT !.stage = "ready", !.x = typed + 1].stage = "ready"
    BY <1>0 DEF Dialogs
  <2> QED
    BY <2>1, <2>2, <2>4, <2>5, <2>6
<1>4. ASSUME NEW j \in Pids, Request(j)
      PROVE  Goal
  BY <1>4 DEF Request
<1>5. CASE PageInvited
  BY <1>5 DEF PageInvited, PageTakes
<1>6. CASE PageChallenged
  BY <1>0, <1>6 DEF PageChallenged, PageTakes, Current, Dialogs
<1>7. CASE PageCompleted
  BY <1>0, <1>7 DEF PageCompleted, Dialogs
<1>8. CASE PageError \/ PageRejected
  BY <1>0, <1>8 DEF PageError, PageRejected, Dialogs
<1>9. CASE PageRefused
  BY <1>0, <1>9 DEF PageRefused, Dialogs
<1> QED
  BY <1>1, <1>2, <1>3, <1>4, <1>5, <1>6, <1>7, <1>8, <1>9, PhoneUnchanged DEF Page

\* An answer that the page takes ends the waiting.
LEMMA PageAnswered ==
  ASSUME TypeOK, Typing, Page, Head(r2p).m.kind \in Answers \union {"refused"},
         Head(r2p).m.pid = dialog.pid, dialog.pid \in Pids
  PROVE  dialog'.stage # "verifying"
<1>0. /\ dialog \in Dialogs /\ NoDialog.stage = "closed" /\ dialog # NoDialog
      /\ dialog.stage = "verifying" => dialog.x # 0
  BY PidAssumption DEF TypeOK, Dialogs, NoDialog, Typing
<1>1. CASE PageInvited \/ PageChallenged
  BY <1>1 DEF PageInvited, PageChallenged, PageTakes, Answers, Verdicts
<1>2. CASE PageCompleted
  BY <1>0, <1>2 DEF PageCompleted, Current, Dialogs
<1>3. CASE PageError \/ PageRejected
  BY <1>0, <1>3 DEF PageError, PageRejected, Current, Dialogs
<1>4. CASE PageRefused
  BY <1>0, <1>4 DEF PageRefused, Current, Dialogs
<1> QED
  BY <1>1, <1>2, <1>3, <1>4 DEF Page

\* A dialog that waits has a key and an exchange.
LEMMA TypingStep ==
  ASSUME TypeOK, Typing, [Next]_vars
  PROVE  Typing'
BY DialogStep DEF Typing

\* Notices and calls that are under way are true.
LEMMA NoticesStep ==
  ASSUME AInv, [Next]_vars
  PROVE  NoticesTrue'
<1> USE DEF AInv, IInv
<1>0. disturbed \subseteq disturbed' /\ withdrawn \subseteq withdrawn' /\ disturbed' \subseteq Pids
  BY Grows, TypeStep DEF TypeOK
<1>1. ASSUME Pending(r2d', {"offline"}, NoPid)
      PROVE  disturbed' = Pids
  <2>1. p2r # <<>> => Head(p2r).m.kind \notin {"offline"}
    BY Heads DEF PhoneKinds
  <2> QED
    BY <1>0, <1>1, <2>1, ToDeskSends DEF NoticesTrue
<1>2. ASSUME NEW i \in Pids
      PROVE  ~Pending(d2r', {"cancelled"}, i)
  BY DeskSends DEF NoticesTrue, Replies
<1>3. ASSUME NEW i \in Pids, Coming(p2r', r2d', "cancelled", i)
      PROVE  i \in withdrawn'
  BY <1>0, <1>3, PhoneSends, ToDeskSends DEF NoticesTrue, Coming
<1>4. ASSUME NEW i \in Pids, Pending(d2r', {"rejected"}, i)
      PROVE  verdict'[i] # "open"
  <2>1. CASE Pending(d2r, {"rejected"}, i)
    BY <2>1, VerdictStands DEF NoticesTrue
  <2>2. CASE ~Pending(d2r, {"rejected"}, i)
    BY <1>4, <2>2, DeskSends DEF Replies
  <2> QED
    BY <2>1, <2>2
<1> QED
  BY <1>1, <1>2, <1>3, <1>4 DEF NoticesTrue

\* The page comes to a key by an invitation, or by a request that is being read.
LEMMA KeyedStarts ==
  ASSUME TypeOK, [Next]_vars, NEW i \in Pids, Keyed(i)', ~Keyed(i)
  PROVE  records'[i] = 0 /\ (Invite(i) \/ (AcceptRequest /\ Head(r2d).m.pid = i))
<1>0. DOMAIN records = Pids
  BY DEF TypeOK
<1>1. CASE dialog'.pid = i /\ dialog'.key
  <2>1. r2p # <<>> /\ Head(r2p).m.kind \in {"invite", "challenge"} /\ Head(r2p).m.pid = i
    BY <1>1, DialogStep DEF Keyed
  <2>2. Pending(r2p, {"invite"}, i) \/ Pending(r2p, {"challenge"}, i)
    BY <2>1, Heads, Taken
  <2> QED
    BY <2>2 DEF Keyed, Coming
<1>2. CASE Pending(r2p', {"invite"}, i) \/ Pending(r2p', {"challenge"}, i)
  BY <1>2, ToPageSends DEF Keyed, Coming
<1>3. CASE Pending(d2r', {"invite"}, i) \/ Pending(d2r', {"challenge"}, i)
  <2>1. \/ Invite(i)
        \/ AcceptRequest /\ Head(r2d).m.pid = i /\ records'[i] = 0
    BY <1>3, DeskSends DEF Keyed, Coming, Replies
  <2> QED
    BY <1>0, <2>1 DEF Invite
<1> QED
  BY <1>1, <1>2, <1>3 DEF Keyed, Coming

\* Who has the key has seen an opening that was read, and so has whoever has tried it.
LEMMA OpenedStep ==
  ASSUME AInv, [Next]_vars
  PROVE  Opened'
<1> USE DEF AInv, IInv
<1>0. \A i \in Pids : (Unopened(i)' => Unopened(i)) /\ (Unseen(i)' => Unseen(i))
  BY RequestsStep, InvitesStep
<1>1. ASSUME NEW i \in Pids, Keyed(i)'
      PROVE  ~Unopened(i)'
  <2>1. CASE Keyed(i)
    BY <1>0, <2>1 DEF Opened
  <2>2. CASE ~Keyed(i) /\ Invite(i)
    BY <2>2 DEF Invite, Unopened, RequestedOnce, Coming
  <2>3. CASE ~Keyed(i) /\ AcceptRequest /\ Head(r2d).m.pid = i
    <3>1. DeskTakes("request") /\ UNCHANGED <<used, p2r>>
      BY <2>3 DEF AcceptRequest, DeskTakes
    <3> QED
      BY <2>3, <3>1, TakenRequest
  <2> QED
    BY <1>1, <2>1, <2>2, <2>3, KeyedStarts
<1>2. ASSUME NEW i \in Pids, Tried(i)'
      PROVE  ~Unopened(i)' /\ ~Unseen(i)'
  <2>1. CASE Tried(i)
    BY <1>0, <2>1 DEF Opened
  <2>2. CASE Pending(p2r', {"proof"}, i) /\ ~Pending(p2r, {"proof"}, i)
    <3>1. dialog.pid = i /\ dialog.key
      BY <2>2, PhoneSends
    <3> QED
      BY <1>0, <3>1 DEF Opened, Held, Keyed
  <2>3. CASE Pending(r2d', {"proof"}, i) /\ ~Pending(r2d, {"proof"}, i)
    BY <2>1, <2>3, ToDeskSends DEF Tried, Coming
  <2>4. CASE Pending(d2r', {"completed", "error"}, i) /\ ~Pending(d2r, {"completed", "error"}, i)
    <3>1. DeskTakes("proof") /\ Head(r2d).m.pid = i
      BY <2>4, DeskSends DEF Replies
    <3>2. Pending(r2d, {"proof"}, i)
      BY <3>1, Heads, Taken DEF DeskTakes
    <3> QED
      BY <2>1, <3>2 DEF Tried, Coming
  <2> QED
    BY <1>2, <2>1, <2>2, <2>3, <2>4 DEF Tried, Coming
<1> QED
  BY <1>1, <1>2 DEF Opened

\* While a proof is at the desktop, or credentials are on their way, the relay is in that state.
LEMMA InProofStep ==
  ASSUME AInv, [Next]_vars
  PROVE  InProof'
<1> USE DEF AInv, IInv
<1> SUFFICES ASSUME NEW i \in Pids, Pending(r2d', {"proof"}, i) \/ Pending(d2r', {"completed"}, i)
             PROVE  table'[i] = NoPairing \/ table'[i].state = "proof"
  BY DEF InProof
<1> DEFINE Read == Pending(r2d, {"proof"}, i) \/ Pending(d2r, {"completed"}, i)
<1>1. CASE Read
  <2>1. table[i] = NoPairing \/ table[i].state = "proof"
    BY <1>1 DEF InProof
  <2>2. ~Unopened(i) /\ ~Unseen(i)
    BY <1>1, Kinds DEF Opened, Tried, Coming
  <2>3. CASE /\ RelayFromPhone /\ p2r # <<>> /\ Head(p2r).m.pid = i
             /\ Allowed(table, Head(p2r).m) /\ table' = Forwarded(table, Head(p2r).m)
    <3>1. Head(p2r).m.kind # "request"
      <4>1. Head(p2r).m.kind = "request" => Pending(p2r, {"request"}, i)
        BY <2>3, Heads, Taken
      <4> QED
        BY <2>2, <4>1 DEF Unopened, Coming
    <3>2. Head(p2r).m.kind \in {"proof", "cancelled"}
      BY <2>3, <3>1, Heads DEF PhoneKinds
    <3> QED
      BY <2>3, <3>2, Heads, ForwardedEntry DEF Terminal
  <2>4. CASE /\ RelayFromDesk /\ d2r # <<>> /\ Head(d2r).m.pid = i
             /\ Allowed(table, Head(d2r).m) /\ table' = Forwarded(table, Head(d2r).m)
    <3>1. Head(d2r).m.kind # "invite"
      <4>1. Head(d2r).m.kind = "invite" => Pending(d2r, {"invite"}, i)
        BY <2>4, Heads, Taken
      <4> QED
        BY <2>2, <4>1 DEF Unseen, Coming
    <3>2. Head(d2r).m.kind \in {"challenge", "completed", "rejected", "error", "cancelled"}
      BY <2>4, <3>1, Heads DEF DeskKinds
    <3> QED
      BY <2>1, <2>4, <3>2, Heads, ForwardedEntry DEF Terminal, Opening
  <2> QED
    BY <2>1, <2>3, <2>4, TableStep
<1>2. CASE ~Read /\ Pending(r2d', {"proof"}, i)
  <2>1. /\ p2r # <<>> /\ Head(p2r).m.kind = "proof" /\ Head(p2r).m.pid = i
        /\ Allowed(table, Head(p2r).m) /\ table' = Forwarded(table, Head(p2r).m)
    BY <1>2, ToDeskSends
  <2> QED
    BY <2>1, Heads, ForwardedEntry
<1>3. CASE ~Read /\ Pending(d2r', {"completed"}, i)
  <2>1. DeskTakes("proof") /\ Head(r2d).m.pid = i
    BY <1>3, DeskSends DEF Replies
  <2>2. Pending(r2d, {"proof"}, i)
    BY <2>1, Heads, Taken DEF DeskTakes
  <2> QED
    BY <1>3, <2>2
<1> QED
  BY <1>1, <1>2, <1>3

\* The verdict remains the last of the desktop's messages.
LEMMA VerdictsLastStep ==
  ASSUME AInv, [Next]_vars
  PROVE  VerdictsLast'
<1> USE DEF AInv, IInv
<1>0. d2r \in Seq(Mail)
  BY Heads
<1>1. CASE d2r' = d2r \/ d2r' = <<>>
  BY <1>1 DEF VerdictsLast
<1>2. CASE d2r # <<>> /\ d2r' = Tail(d2r)
  BY <1>0, <1>2, LastTaken DEF VerdictsLast
<1>3. ASSUME NEW e \in Mail, d2r' = Append(d2r, e), Replies(e)
      PROVE  VerdictsLast'
  <2>1. e.m.pid \in Pids
    BY <1>3 DEF Replies
  <2>2. verdict[e.m.pid] = "open"
    <3>1. CASE Invite(e.m.pid)
      BY <2>1, <3>1 DEF Invite, Judged, Unopened
    <3>2. CASE AcceptRequest /\ Head(r2d).m.pid = e.m.pid
      <4>1. DeskTakes("request") /\ UNCHANGED <<used, p2r>>
        BY <3>2 DEF AcceptRequest, DeskTakes
      <4> QED
        BY <2>1, <3>2, <4>1, TakenRequest DEF Judged
    <3>3. CASE records[e.m.pid] # NoRecord
      BY <2>1, <3>3 DEF Judged
    <3> QED
      BY <1>3, <3>1, <3>2, <3>3 DEF Replies
  <2>3. ~Pending(d2r, Verdicts, e.m.pid)
    BY <2>1, <2>2, Kinds DEF NoticesTrue, Told, Coming
  <2> QED
    BY <1>0, <1>3, <2>3, LastAppended DEF VerdictsLast
<1> QED
  BY <1>1, <1>2, <1>3, DeskQueueStep

\* A verdict is sent when it is decided.
LEMMA VerdictSent ==
  ASSUME TypeOK, [Next]_vars, NEW i \in Pids, verdict'[i] # verdict[i]
  PROVE  Pending(d2r', Verdicts, i)
<1>0. d2r \in Seq(Mail) /\ DOMAIN verdict = Pids
  BY Heads DEF TypeOK
<1>1. ASSUME NEW e \in Mail, d2r' = Append(d2r, e), e.m.kind \in Verdicts, e.m.pid = i
      PROVE  Pending(d2r', Verdicts, i)
  BY <1>0, <1>1, Appended
<1>2. \A j \in Pids : /\ Plain(FromDesk("rejected", j)) \in Mail
                      /\ Plain(FromDesk("rejected", j)).m.kind \in Verdicts
                      /\ Plain(FromDesk("rejected", j)).m.pid = j
  BY NewPlainMail DEF DeskKinds, Verdicts
<1>3. ASSUME NEW j \in Pids, Reject(j)
      PROVE  Pending(d2r', Verdicts, i)
  <2>1. d2r' = Append(d2r, Plain(FromDesk("rejected", j))) /\ i = j
    BY <1>0, <1>3 DEF Reject
  <2> QED
    BY <1>1, <1>2, <2>1
<1>4. CASE ProofWrong
  <2>1. /\ i = Head(r2d).m.pid
        /\ d2r' = Append(d2r, Plain(FromDesk("rejected", Head(r2d).m.pid)))
    BY <1>0, <1>4 DEF ProofWrong, JudgeWrong
  <2> QED
    BY <1>1, <1>2, <2>1
<1>5. CASE ProofRight
  <2>1. /\ i = Head(r2d).m.pid /\ Head(r2d).x \in 0..MaxExchanges
        /\ d2r' = Append(d2r, With(FromDesk("completed", i), Head(r2d).x, TRUE))
    BY <1>0, <1>5, DeskHead DEF ProofRight
  <2>2. \A x \in 0..MaxExchanges :
          /\ With(FromDesk("completed", i), x, TRUE) \in Mail
          /\ With(FromDesk("completed", i), x, TRUE).m.kind \in Verdicts
          /\ With(FromDesk("completed", i), x, TRUE).m.pid = i
    <3>1. \A x \in 0..MaxExchanges : With(FromDesk("completed", i), x, TRUE) \in Mail
      BY FromDeskMail DEF DeskKinds, Mail
    <3> QED
      BY <3>1 DEF With, FromDesk, Verdicts
  <2> QED
    BY <1>1, <2>1, <2>2
<1>6. CASE (\E j \in Pids : Invite(j) \/ DeskExpires(j)) \/ DeskLost
  BY <1>6 DEF Invite, DeskExpires, DeskLost
<1>7. CASE AcceptRequest \/ ProofUnknown \/ DeskCancelled \/ DeskOffline
  BY <1>7 DEF AcceptRequest, ProofUnknown, DeskCancelled, DeskOffline
<1> QED
  BY <1>3, <1>4, <1>5, <1>6, <1>7, DeskUnchanged DEF Desktop

\* What the relay does with the next message of the desktop while the phone is there.
LEMMA Relayed ==
  ASSUME TypeOK, RelayFromDesk, Head(d2r).m.pid \notin disturbed'
  PROVE  \/ /\ Allowed(table, Head(d2r).m) /\ table' = Forwarded(table, Head(d2r).m)
            /\ r2p' = Append(r2p, Head(d2r))
         \/ /\ ~Allowed(table, Head(d2r).m) /\ table' = table
BY DEF RelayFromDesk, PhoneListed

\* What the relay allows of the desktop.
LEMMA AllowedOfDesk ==
  ASSUME TypeOK, d2r # <<>>, table[Head(d2r).m.pid] # NoPairing,
         Head(d2r).m.kind \in Answers,
         Head(d2r).m.kind = "completed" => table[Head(d2r).m.pid].state = "proof"
  PROVE  Allowed(table, Head(d2r).m)
<1>1. table[Head(d2r).m.pid] \in Pairings({Phone}, {Desk})
  BY Heads DEF TypeOK
<1>2. Head(d2r).m.phone = Phone /\ Head(d2r).m.desk = Desk
  BY Heads
<1> QED
  BY <1>1, <1>2 DEF Allowed, Expected, Opening, Answers, Verdicts, Pairings

\* A verdict is on its way to the relay, or the relay has let go of the pairing.
LEMMA OverStep ==
  ASSUME AInv, [Next]_vars
  PROVE  Over'
<1> USE DEF AInv, IInv
<1> SUFFICES ASSUME NEW i \in Pids \ disturbed', verdict'[i] # "open", ~Pending(d2r', Verdicts, i)
             PROVE  table'[i] = NoPairing /\ ~Pending(d2r', {"invite"}, i)
  BY DEF Over
<1>0. i \in Pids /\ i \notin disturbed /\ verdict[i] # "open" /\ ~Unopened(i)
  BY Grows, VerdictSent DEF Judged
<1>1. CASE Pending(d2r, Verdicts, i)
  <2>1. /\ RelayFromDesk /\ d2r # <<>> /\ d2r' = Tail(d2r)
        /\ Head(d2r).m.kind \in Verdicts /\ Head(d2r).m.pid = i
    BY <1>0, <1>1, DeskLoses
  <2>2. ~Pending(d2r', {"invite"}, i)
    BY <2>1, Heads, LastTaken DEF VerdictsLast
  <2>3. table'[i] = NoPairing
    <3>1. CASE Allowed(table, Head(d2r).m) /\ table' = Forwarded(table, Head(d2r).m)
      BY <2>1, <3>1, Heads, ForwardedEntry DEF Verdicts, Terminal
    <3>2. CASE ~Allowed(table, Head(d2r).m) /\ table' = table
      <4>1. Head(d2r).m.kind = "completed" => Pending(d2r, {"completed"}, i)
        BY <2>1, Heads, Taken
      <4> QED
        BY <2>1, <3>2, <4>1, AllowedOfDesk DEF Answers, InProof
    <3> QED
      BY <2>1, <3>1, <3>2, Relayed
  <2> QED
    BY <2>2, <2>3
<1>2. CASE ~Pending(d2r, Verdicts, i)
  <2>1. table[i] = NoPairing /\ ~Pending(d2r, {"invite"}, i)
    BY <1>0, <1>2 DEF Over
  <2>2. ~Pending(d2r', {"invite"}, i)
    <3>1. ~Invite(i)
      BY <1>0 DEF Unopened, Invite
    <3> QED
      BY <2>1, <3>1, DeskSends DEF Replies
  <2>3. table'[i] = NoPairing
    <3>1. ~(p2r # <<>> /\ Head(p2r).m.pid = i /\ Head(p2r).m.kind = "request")
      <4>1. p2r # <<>> /\ Head(p2r).m.pid = i /\ Head(p2r).m.kind = "request" => Pending(p2r, {"request"}, i)
        BY Heads, Taken
      <4> QED
        BY <1>0, <4>1 DEF Unopened, Coming
    <3>2. ~(d2r # <<>> /\ Head(d2r).m.pid = i /\ Head(d2r).m.kind = "invite")
      <4>1. d2r # <<>> /\ Head(d2r).m.pid = i /\ Head(d2r).m.kind = "invite" => Pending(d2r, {"invite"}, i)
        BY Heads, Taken
      <4> QED
        BY <2>1, <4>1
    <3>3. p2r # <<>> => Head(p2r).m.kind # "invite"
      BY Heads DEF PhoneKinds
    <3>4. d2r # <<>> => Head(d2r).m.kind # "request"
      BY Heads DEF DeskKinds
    <3> QED
      BY <1>0, <2>1, <3>1, <3>2, <3>3, <3>4, TableStep DEF Allowed, Opening
  <2> QED
    BY <2>2, <2>3
<1> QED
  BY <1>1, <1>2

\* A record is opened by Invite, or by a request that was read.
LEMMA RecordOpened ==
  ASSUME TypeOK, [Next]_vars, NEW i \in Pids, records[i] = NoRecord, records'[i] # NoRecord
  PROVE  Invite(i) \/ Pending(r2d, {"request"}, i)
<1>0. DOMAIN records = Pids
  BY DEF TypeOK
<1>1. ASSUME NEW j \in Pids, Invite(j) \/ Reject(j) \/ DeskExpires(j)
      PROVE  Invite(i)
  BY <1>0, <1>1 DEF Invite, Reject, DeskExpires
<1>2. CASE AcceptRequest
  <2>1. Head(r2d).m.pid = i /\ DeskTakes("request")
    BY <1>0, <1>2 DEF AcceptRequest
  <2> QED
    BY <2>1, Heads, Taken DEF DeskTakes
<1>3. CASE ProofWrong \/ ProofRight
  BY <1>0, <1>3 DEF ProofWrong, ProofRight, JudgeWrong
<1>4. CASE DeskLost \/ ProofUnknown \/ DeskCancelled \/ DeskOffline
  BY <1>0, <1>4 DEF DeskLost, ProofUnknown, DeskCancelled, DeskOffline
<1> QED
  BY <1>1, <1>2, <1>3, <1>4, DeskUnchanged DEF Desktop

\* What the desktop starts to work on it was invited to by the relay, or invites to itself.
LEMMA WorkStarts ==
  ASSUME TypeOK, [Next]_vars, NEW i \in Pids, AtWork(i)', ~AtWork(i)
  PROVE  \/ Invite(i)
         \/ /\ p2r # <<>> /\ Head(p2r).m.kind = "request" /\ Head(p2r).m.pid = i
            /\ Allowed(table, Head(p2r).m) /\ table' = Forwarded(table, Head(p2r).m)
<1>1. CASE Pending(d2r', Answers, i)
  <2>1. records[i] # NoRecord
    BY <1>1, DeskSends DEF AtWork, Replies, Answers, Verdicts
  <2> QED
    BY <2>1 DEF AtWork
<1>2. CASE records'[i] # NoRecord
  BY <1>2, RecordOpened DEF AtWork
<1>3. CASE Pending(r2d', {"request"}, i)
  BY <1>3, ToDeskSends DEF AtWork
<1> QED
  BY <1>1, <1>2, <1>3 DEF AtWork, NoRecord

\* What the desktop is at work on, the relay knows.
LEMMA ListedStep ==
  ASSUME AInv, [Next]_vars
  PROVE  OnTable'
<1> USE DEF AInv, IInv
<1> SUFFICES ASSUME NEW i \in Pids, i \notin disturbed', i \notin withdrawn',
                    AtWork(i)', ~Pending(d2r', {"invite"}, i)
             PROVE  table'[i] # NoPairing
  BY DEF OnTable
<1>0. i \notin disturbed /\ i \notin withdrawn
  BY Grows
<1>1. CASE ~AtWork(i)
  <2>1. ~Invite(i)
    <3>1. ASSUME Invite(i)
          PROVE  Pending(d2r', {"invite"}, i)
      <4>1. d2r' = Append(d2r, Plain(FromDesk("invite", i)))
        BY <3>1 DEF Invite
      <4> QED
        BY <4>1, NewPlainMail, Heads, Appended DEF DeskKinds
    <3> QED
      BY <3>1
  <2> QED
    BY <1>1, <2>1, WorkStarts, Heads, ForwardedEntry DEF Opening
<1>2. CASE AtWork(i) /\ Pending(d2r, {"invite"}, i)
  <2>1. /\ RelayFromDesk /\ d2r # <<>> /\ Head(d2r).m.kind = "invite" /\ Head(d2r).m.pid = i
    BY <1>2, DeskLoses
  <2> QED
    BY <2>1, Relayed, Heads, ForwardedEntry DEF Allowed, Opening
<1>3. CASE AtWork(i) /\ ~Pending(d2r, {"invite"}, i)
  <2>1. table[i] # NoPairing
    BY <1>0, <1>3 DEF OnTable
  <2>2. CASE /\ RelayFromPhone /\ p2r # <<>> /\ Head(p2r).m.pid = i
             /\ Allowed(table, Head(p2r).m) /\ table' = Forwarded(table, Head(p2r).m)
    <3>1. Head(p2r).m.kind # "cancelled"
      <4>1. Head(p2r).m.kind = "cancelled" => Pending(p2r, {"cancelled"}, i)
        BY <2>2, Heads, Taken
      <4> QED
        BY <1>0, <4>1 DEF NoticesTrue, Coming
    <3>2. Head(p2r).m.kind \in {"request", "proof"}
      BY <2>2, <3>1, Heads DEF PhoneKinds
    <3> QED
      BY <2>2, <3>2, Heads, ForwardedEntry DEF Opening
  <2>3. CASE /\ RelayFromDesk /\ d2r # <<>> /\ Head(d2r).m.pid = i
             /\ Allowed(table, Head(d2r).m) /\ table' = Forwarded(table, Head(d2r).m)
    <3>0. \A kinds : Head(d2r).m.kind \in kinds => Pending(d2r, kinds, i)
      BY <2>3, Heads, Taken
    <3>1. Head(d2r).m.kind \notin {"invite", "cancelled"}
      BY <1>3, <3>0 DEF NoticesTrue
    <3>2. CASE Head(d2r).m.kind \in {"challenge", "error"}
      BY <2>3, <3>2, Heads, ForwardedEntry
    <3>3. CASE Head(d2r).m.kind \in Verdicts
      <4>1. verdict[i] # "open" /\ ~Unopened(i) /\ records[i] = NoRecord
        BY <3>0, <3>3 DEF NoticesTrue, Told, Coming, Judged, Verdicts, NoRecord
      <4>2. UNCHANGED <<records, r2d>> /\ d2r' = Tail(d2r)
        BY <2>3 DEF RelayFromDesk, deskVars
      <4>3. ~Pending(d2r', Answers, i)
        BY <2>3, <3>3, <4>2, Heads, LastTaken DEF VerdictsLast
      <4>4. ~Pending(r2d, {"request"}, i)
        BY <4>1 DEF Unopened, Coming
      <4> QED
        BY <4>1, <4>2, <4>3, <4>4 DEF AtWork, NoRecord
    <3> QED
      BY <2>3, <3>1, <3>2, <3>3, Heads DEF DeskKinds, Verdicts
  <2> QED
    BY <2>1, <2>2, <2>3, TableStep
<1> QED
  BY <1>1, <1>2, <1>3

\* A record that is gone has a verdict, or the user of the phone called the pairing off.
LEMMA RecordEnds ==
  ASSUME TypeOK, NoticesTrue, [Next]_vars, NEW i \in Pids, i \notin disturbed',
         records[i] # NoRecord, records'[i] = NoRecord
  PROVE  verdict'[i] # "open" \/ i \in withdrawn
<1>0. DOMAIN records = Pids /\ DOMAIN verdict = Pids /\ records \in [Pids -> 0..MaxFailed]
  BY DEF TypeOK
<1>1. CASE \E j \in Pids : Invite(j) \/ Reject(j) \/ DeskExpires(j)
  <2>1. 0 # NoRecord
    BY BoundAssumption DEF NoRecord
  <2> QED
    BY <1>0, <1>1, <2>1 DEF Invite, Reject, DeskExpires, Lose
<1>2. CASE DeskLost
  BY <1>2 DEF DeskLost, Lose
<1>3. CASE AcceptRequest \/ ProofUnknown
  <2>1. 0 # NoRecord
    BY BoundAssumption DEF NoRecord
  <2> QED
    BY <1>0, <1>3, <2>1 DEF AcceptRequest, ProofUnknown
<1>4. CASE ProofWrong
  <2> DEFINE h == Head(r2d).m.pid
  <2>1. records[h] # NoRecord
    BY <1>4 DEF ProofWrong
  <2>2. CASE records[h] + 1 >= MaxFailed
    <3>1. JudgeWrong(h, NoRecord, "rejected")
      BY <1>4, <2>2 DEF ProofWrong
    <3> QED
      BY <1>0, <3>1 DEF JudgeWrong
  <2>3. CASE ~(records[h] + 1 >= MaxFailed)
    <3>1. JudgeWrong(h, records[h] + 1, "error")
      BY <1>4, <2>3 DEF ProofWrong
    <3>2. h = i => records[h] + 1 # NoRecord
      BY <1>0, <2>3, BoundAssumption DEF NoRecord
    <3> QED
      BY <1>0, <3>1, <3>2 DEF JudgeWrong
  <2> QED
    BY <2>2, <2>3
<1>5. CASE ProofRight
  BY <1>0, <1>5 DEF ProofRight
<1>6. CASE DeskCancelled
  <2>1. Head(r2d).m.pid = i /\ DeskTakes("cancelled")
    BY <1>0, <1>6 DEF DeskCancelled
  <2>2. Pending(r2d, {"cancelled"}, i)
    BY <2>1, Heads, Taken DEF DeskTakes
  <2> QED
    BY <2>2 DEF NoticesTrue, Coming
<1>7. CASE DeskOffline
  <2>1. DeskTakes("offline") /\ disturbed' = disturbed
    BY <1>7 DEF DeskOffline, DeskTakes
  <2>2. Pending(r2d, {"offline"}, NoPid)
    BY <2>1, Heads, Taken DEF DeskTakes, PhoneKinds
  <2> QED
    BY <2>1, <2>2 DEF NoticesTrue
<1> QED
  BY <1>1, <1>2, <1>3, <1>4, <1>5, <1>6, <1>7, DeskUnchanged DEF Desktop, NoRecord

\* What the page has a key for, the desktop knows until its verdict.
LEMMA RecordedStep ==
  ASSUME AInv, [Next]_vars
  PROVE  Recorded'
<1> USE DEF AInv, IInv
<1> SUFFICES ASSUME NEW i \in Pids, i \notin disturbed', i \notin withdrawn', Keyed(i)', verdict'[i] = "open"
             PROVE  records'[i] # NoRecord
  BY DEF Recorded, NoRecord
<1>0. i \notin disturbed /\ i \notin withdrawn /\ verdict[i] = "open"
  BY Grows, VerdictStands
<1>1. CASE Keyed(i)
  BY <1>0, <1>1, RecordEnds DEF Recorded
<1>2. CASE ~Keyed(i)
  <2>1. records'[i] = 0
    BY <1>2, KeyedStarts
  <2> QED
    BY <2>1, BoundAssumption DEF NoRecord
<1> QED
  BY <1>1, <1>2

\* A proof that the desktop reads of a pairing it knows is answered.
LEMMA ProofAnswered ==
  ASSUME TypeOK, [Next]_vars, Desktop, NEW i \in Pids, Head(r2d).m.kind = "proof", Head(r2d).m.pid = i,
         records[i] # NoRecord
  PROVE  Pending(d2r', Answers, i)
<1>0. d2r \in Seq(Mail)
  BY Heads
<1>1. ~(AcceptRequest \/ ProofUnknown \/ DeskCancelled \/ DeskOffline)
  BY DEF AcceptRequest, ProofUnknown, DeskCancelled, DeskOffline, DeskTakes
<1>2. CASE ProofWrong
  <2>1. \E k \in {"error", "rejected"} : d2r' = Append(d2r, Plain(FromDesk(k, i)))
    BY <1>2 DEF ProofWrong, JudgeWrong
  <2>2. \A k \in {"error", "rejected"} :
          /\ Plain(FromDesk(k, i)) \in Mail /\ Plain(FromDesk(k, i)).m.kind = k
          /\ Plain(FromDesk(k, i)).m.pid = i
    BY NewPlainMail DEF DeskKinds
  <2>3. \A k \in {"error", "rejected"} : Pending(Append(d2r, Plain(FromDesk(k, i))), Answers, i)
    BY <1>0, <2>2, Appended DEF Answers, Verdicts
  <2> QED
    BY <2>1, <2>3
<1>3. CASE ProofRight
  <2>1. verdict'[i] = "completed" /\ d2r' = Append(d2r, With(FromDesk("completed", i), Head(r2d).x, TRUE))
        /\ DeskTakes("proof")
    BY <1>3 DEF ProofRight, TypeOK
  <2>2. Head(r2d).x \in 0..MaxExchanges
    BY <2>1, DeskHead
  <2>3. With(FromDesk("completed", i), Head(r2d).x, TRUE) \in Mail
    BY <2>2, FromDeskMail DEF DeskKinds, Mail
  <2>4. /\ With(FromDesk("completed", i), Head(r2d).x, TRUE).m.kind = "completed"
        /\ With(FromDesk("completed", i), Head(r2d).x, TRUE).m.pid = i
    BY DEF With, FromDesk
  <2> QED
    BY <1>0, <2>1, <2>3, <2>4, Appended DEF Answers, Verdicts
<1> QED
  BY <1>1, <1>2, <1>3 DEF Desktop

\* While the phone waits, an answer is under way, or its proof to a desktop that will answer.
LEMMA AwaitedStep ==
  ASSUME AInv, [Next]_vars
  PROVE  Awaited'
<1> USE DEF AInv, IInv
<1> DEFINE i == dialog.pid
           Told1 == \/ Pending(p2r', {"proof"}, i)
                    \/ Pending(r2d', {"proof"}, i) /\ verdict'[i] = "open"
                    \/ Pending(d2r', Answers, i) \/ Pending(r2p', Answers \union {"refused"}, i)
<1>1. CASE dialog' # dialog
  BY <1>1, DialogStep DEF Awaited
<1>2. CASE dialog' = dialog
  <2> SUFFICES ASSUME dialog.stage = "verifying", dialog'.stage = "verifying", i \notin disturbed'
               PROVE  Told1
    BY <1>2 DEF Awaited
  <2>0. /\ i \in Pids /\ dialog.key /\ i \notin disturbed /\ i \notin withdrawn
        /\ ~Unopened(i) /\ ~Unseen(i) /\ Keyed(i)
    <3>1. dialog.key
      BY DEF Typing
    <3>2. i \in Pids
      BY <3>1, DialogPid
    <3> QED
      BY <3>1, <3>2, Grows DEF Held, Opened, Keyed
  <2>1. CASE Pending(p2r, {"proof"}, i)
    <3>1. CASE ~Pending(p2r', {"proof"}, i)
      <4>1. RelayFromPhone /\ p2r # <<>> /\ Head(p2r).m.kind = "proof" /\ Head(p2r).m.pid = i
        BY <2>0, <2>1, <3>1, PhoneLoses
      <4>2. running /\ d2r' = d2r /\ verdict' = verdict
        BY <2>0, <4>1 DEF RelayFromPhone, deskVars
      <4>3. CASE Allowed(table, Head(p2r).m)
        <5>1. r2d' = Append(r2d, Head(p2r)) /\ table[i] # NoPairing
          BY <4>1, <4>2, <4>3 DEF RelayFromPhone, DeskListed, Allowed, Opening
        <5>2. Pending(r2d', {"proof"}, i)
          BY <4>1, <5>1, Heads, Appended
        <5>3. verdict[i] = "open" \/ Pending(d2r, Verdicts, i)
          BY <2>0, <5>1 DEF Over
        <5> QED
          BY <4>2, <5>2, <5>3, Kinds
      <4>4. CASE ~Allowed(table, Head(p2r).m)
        <5>1. r2p' = Append(r2p, Notice("refused", i))
          BY <4>1, <4>4 DEF RelayFromPhone
        <5>2. /\ Notice("refused", i) \in Mail /\ Notice("refused", i).m.kind = "refused"
              /\ Notice("refused", i).m.pid = i
          BY <2>0, NewNotice DEF Notice, Plain, With
        <5> QED
          BY <5>1, <5>2, Heads, Appended
      <4> QED
        BY <4>3, <4>4
    <3> QED
      BY <3>1
  <2>2. CASE Pending(r2d, {"proof"}, i) /\ verdict[i] = "open"
    <3>1. CASE verdict'[i] # "open"
      BY <2>0, <2>2, <3>1, VerdictSent, Kinds
    <3>2. CASE ~Pending(r2d', {"proof"}, i)
      <4>1. Desktop /\ r2d # <<>> /\ Head(r2d).m.kind = "proof" /\ Head(r2d).m.pid = i
        BY <2>0, <2>2, <3>2, ToDeskLoses
      <4>2. records[i] # NoRecord
        BY <2>0, <2>2 DEF Recorded
      <4> QED
        BY <2>0, <4>1, <4>2, ProofAnswered
    <3> QED
      BY <3>1, <3>2
  <2>3. CASE Pending(d2r, Answers, i)
    <3>1. CASE ~Pending(d2r', Answers, i)
      <4>1. RelayFromDesk /\ d2r # <<>> /\ Head(d2r).m.kind \in Answers /\ Head(d2r).m.pid = i
        BY <2>0, <2>3, <3>1, DeskLoses
      <4>2. table[i] # NoPairing
        BY <2>0, <2>3 DEF OnTable, AtWork, Unseen, Coming
      <4>3. Head(d2r).m.kind = "completed" => table[i].state = "proof"
        <5>1. Head(d2r).m.kind = "completed" => Pending(d2r, {"completed"}, i)
          BY <4>1, Heads, Taken
        <5> QED
          BY <2>0, <4>2, <5>1 DEF InProof
      <4>4. r2p' = Append(r2p, Head(d2r))
        BY <2>0, <4>1, <4>2, <4>3, AllowedOfDesk, Relayed
      <4> QED
        BY <4>1, <4>4, Heads, Appended
    <3> QED
      BY <3>1
  <2>4. CASE Pending(r2p, Answers \union {"refused"}, i)
    <3>1. CASE ~Pending(r2p', Answers \union {"refused"}, i)
      <4>1. Page /\ Head(r2p).m.kind \in Answers \union {"refused"} /\ Head(r2p).m.pid = i
        BY <2>0, <2>4, <3>1, ToPageLoses
      <4> QED
        BY <2>0, <4>1, PageAnswered
    <3> QED
      BY <3>1
  <2> QED
    BY <2>0, <2>1, <2>2, <2>3, <2>4 DEF Awaited
<1> QED
  BY <1>1, <1>2

\* The larger invariant holds at the start.
LEMMA InitAInv == Init => AInv
<1> SUFFICES ASSUME Init PROVE AInv
  OBVIOUS
<1>1. IInv
  BY InitIInv
<1>2. /\ p2r = <<>> /\ r2p = <<>> /\ d2r = <<>> /\ r2d = <<>> /\ dialog = NoDialog
      /\ \A i \in Pids : records[i] = NoRecord /\ verdict[i] = "open"
  BY DEF Init
<1>3. \A kinds, i : ~Pending(<<>>, kinds, i)
  BY NoneIn
<1>4. \A i \in Pids : ~Keyed(i) /\ ~Tried(i) /\ ~AtWork(i)
  BY <1>2, <1>3 DEF Keyed, Tried, AtWork, Coming, NoDialog
<1>5. Typing /\ Awaited
  BY <1>2 DEF Typing, Awaited, NoDialog
<1>6. NoticesTrue /\ Opened /\ InProof /\ Over /\ OnTable /\ Recorded
  BY <1>2, <1>3, <1>4 DEF NoticesTrue, Opened, InProof, Over, OnTable, Recorded, Coming
<1>7. VerdictsLast
  BY <1>2 DEF VerdictsLast
<1> QED
  BY <1>1, <1>5, <1>6, <1>7 DEF AInv

\* Every step keeps the larger invariant.
LEMMA NextAInv == AInv /\ [Next]_vars => AInv'
<1> SUFFICES ASSUME AInv, [Next]_vars PROVE AInv'
  OBVIOUS
<1>1. IInv'
  BY NextIInv DEF AInv
<1>2. Typing' /\ NoticesTrue' /\ Opened' /\ InProof' /\ VerdictsLast'
  BY TypingStep, NoticesStep, OpenedStep, InProofStep, VerdictsLastStep DEF AInv, IInv
<1>3. Over' /\ OnTable' /\ Recorded' /\ Awaited'
  BY OverStep, ListedStep, RecordedStep, AwaitedStep
<1> QED
  BY <1>1, <1>2, <1>3 DEF AInv

\* While the phone waits for a verdict and nothing was lost, its proof or the answer is on
\* its way, for any number of pairings, codes and losses.
THEOREM AnswerAlwaysUnderWay == Spec => []AnswerUnderWay
<1>1. AInv => AnswerUnderWay
  BY DEF AInv, Awaited, AnswerUnderWay, Answers, Verdicts, Pending
<1>2. Init => AInv
  BY InitAInv
<1>3. AInv /\ [Next]_vars => AInv'
  BY NextAInv
<1> QED
  BY <1>1, <1>2, <1>3, PTL DEF Spec
=============================================================================
