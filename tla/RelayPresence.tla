--------------------------- MODULE RelayPresence ---------------------------
(***************************************************************************)
(* The relay server's registries (relay-core.mjs) and the connection       *)
(* handler that drives them (index.mjs).  The server is one event loop:    *)
(* every handler is one step.  What makes it hard is the life of a socket: *)
(* close() only starts the closing handshake, frames that were under way   *)
(* are still handled, and the close event, which removes the connection,   *)
(* comes later, often after the device has connected again.                *)
(*                                                                         *)
(* A room belongs to one desktop and is named after it.                    *)
(***************************************************************************)
EXTENDS PairingTable, Naturals, FiniteSets

CONSTANTS
  Sockets,      \* names for connections, used again after the close event
  NoSocket,
  Phones, Desktops,
  MaxMobiles    \* MAX_DISCOVERY_MOBILES

Devices == Phones \union Desktops

ASSUME DeviceAssumption == Phones \intersect Desktops = {}
ASSUME SocketAssumption == NoSocket \notin Sockets
ASSUME PairingAssumption == NoPairing \notin Pairings(Phones, Desktops)
ASSUME MobilesAssumption == MaxMobiles \in Nat

VARIABLES
  phase,      \* per socket: "gone", "open" or "closing" (readyState)
  conn,       \* per socket: [channel, room, dev] once it is authenticated, else Stranger
  rooms,      \* room.connections: the socket of each device, per room
  mobiles,    \* PresenceRegistry.mobiles: the socket of each phone
  desktops,   \* PresenceRegistry.desktops: the socket of each desktop that has announced itself
  pairings,
  told        \* per open socket: the devices its client believes to be online

presenceVars == <<phase, conn, rooms, mobiles, desktops, pairings, told>>

Stranger == [channel |-> "none"]
Conns ==
  {Stranger} \union [channel : {"room"}, room : Desktops, dev : Devices]
             \union [channel : {"presence"}, dev : Phones]

IsDesk(s)  == conn[s].channel = "room" /\ conn[s].dev \in Desktops
IsPhone(s) == conn[s].channel = "presence"

\* Frames are handled until the close event, also after close() was called.
Hears(s) == phase[s] # "gone"

Listed(reg) == {x \in DOMAIN reg : reg[x] # NoSocket}

\* The sockets of a registry a broadcast reaches: only open ones are written to.
Audience(reg, ph) == {s \in Sockets : ph[s] = "open" /\ \E x \in DOMAIN reg : reg[x] = s}

\* What the clients believe once the sockets that heard it know x is online, or offline.
Online(x, heard)  == [s \in Sockets |-> IF s \in heard THEN told[s] \union {x} ELSE told[s]]
Offline(x, heard) == [s \in Sockets |-> IF s \in heard THEN told[s] \ {x} ELSE told[s]]

-----------------------------------------------------------------------------
PresenceInit ==
  /\ phase = [s \in Sockets |-> "gone"]
  /\ conn = [s \in Sockets |-> Stranger]
  /\ rooms = [r \in Desktops |-> [x \in Devices |-> NoSocket]]
  /\ mobiles = [p \in Phones |-> NoSocket]
  /\ desktops = [d \in Desktops |-> NoSocket]
  /\ pairings = EmptyTable
  /\ told = [s \in Sockets |-> {}]

Open(s) ==
  /\ phase[s] = "gone"
  /\ phase' = [phase EXCEPT ![s] = "open"]
  /\ UNCHANGED <<conn, rooms, mobiles, desktops, pairings, told>>

\* socket.close(): a first frame that is refused or late, the rate limit, an
\* invalid frame, a frame that is too large.
Close(s) ==
  /\ phase[s] = "open"
  /\ phase' = [phase EXCEPT ![s] = "closing"]
  /\ told' = [told EXCEPT ![s] = {}]
  /\ UNCHANGED <<conn, rooms, mobiles, desktops, pairings>>

\* existing.socket.close(4002, 'replaced')
Replaced(old) == [s \in Sockets |-> IF s = old /\ Hears(s) THEN "closing" ELSE phase[s]]

\* The first frame of s, with the token of the room.  A phone cannot open a room.
Authenticate(s, r, x) ==
  /\ Hears(s) /\ conn[s] = Stranger
  /\ x \in Phones => Listed(rooms[r]) # {}
  /\ x \in Desktops => x = r
  /\ phase' = Replaced(rooms[r][x])
  /\ rooms' = [rooms EXCEPT ![r][x] = s]
  /\ conn' = [conn EXCEPT ![s] = [channel |-> "room", room |-> r, dev |-> x]]
  /\ told' = [t \in Sockets |->
       CASE t = rooms[r][x] -> {}
         [] t = s /\ phase[s] = "open" /\ x \in Desktops -> Listed(mobiles)
         [] OTHER -> told[t]]
  /\ UNCHANGED <<mobiles, desktops, pairings>>

\* A phone's web page comes online; the list of phones has a limit.
RegisterMobile(s, p) ==
  /\ Hears(s) /\ conn[s] = Stranger
  /\ mobiles[p] # NoSocket \/ Cardinality(Listed(mobiles)) < MaxMobiles
  /\ phase' = Replaced(mobiles[p])
  /\ mobiles' = [mobiles EXCEPT ![p] = s]
  /\ conn' = [conn EXCEPT ![s] = [channel |-> "presence", dev |-> p]]
  /\ told' = [t \in Sockets |->
       CASE t = mobiles[p] -> {}
         [] t = s /\ phase[s] = "open" -> Listed(desktops)
         [] OTHER -> Online(p, Audience(desktops, phase'))[t]]
  /\ UNCHANGED <<rooms, desktops, pairings>>

\* presence.desktop.status, at the start and with every heartbeat.
RegisterDesktop(s) ==
  /\ Hears(s) /\ IsDesk(s)
  /\ LET d == conn[s].dev
     IN  /\ desktops' = [desktops EXCEPT ![d] = s]
         /\ told' = Online(d, Audience(mobiles, phase))
  /\ UNCHANGED <<phase, conn, rooms, mobiles, pairings>>

\* presence.mobile.list.request and presence.desktop.list.request
AskList(s) ==
  /\ phase[s] = "open" /\ (IsDesk(s) \/ IsPhone(s))
  /\ told' = [told EXCEPT ![s] = IF IsDesk(s) THEN Listed(mobiles) ELSE Listed(desktops)]
  /\ UNCHANGED <<phase, conn, rooms, mobiles, desktops, pairings>>

\* pairingRoute for a message of the device behind s: its target must be listed.
Route(s, m) ==
  /\ Hears(s)
  /\ \/ IsPhone(s) /\ m.by = "phone" /\ m.phone = conn[s].dev /\ desktops[m.desk] # NoSocket
     \/ IsDesk(s)  /\ m.by = "desk"  /\ m.desk = conn[s].dev  /\ mobiles[m.phone] # NoSocket
  /\ Allowed(pairings, m)
  /\ pairings' = Forwarded(pairings, m)
  /\ UNCHANGED <<phase, conn, rooms, mobiles, desktops, told>>

\* Two minutes went by.
Purge(i) ==
  /\ pairings[i] # NoPairing
  /\ pairings' = [pairings EXCEPT ![i] = NoPairing]
  /\ UNCHANGED <<phase, conn, rooms, mobiles, desktops, told>>

\* wrong: whoever is registered for the device is removed
DroppedByDevice(reg, x, s) == [reg EXCEPT ![x] = NoSocket]

\* A registry entry of device x is only removed by the connection it holds.
Dropped(reg, x, s) == IF reg[x] = s THEN [reg EXCEPT ![x] = NoSocket] ELSE reg

\* wrong: pairings only go with the entry of a registry
PairingsAfterIfListed(s) ==
  IF \/ IsPhone(s) /\ mobiles[conn[s].dev] = s
     \/ IsDesk(s) /\ desktops[conn[s].dev] = s
    THEN Without(pairings, conn[s].dev) ELSE pairings

\* The pairings of the device go with any of its connections.
PairingsAfter(s) == IF conn[s] = Stranger THEN pairings ELSE Without(pairings, conn[s].dev)

\* wrong: the clients are not told
ToldAfterQuietly(s) == [told EXCEPT ![s] = {}]

\* wrong: also when another connection has taken over
ToldAfterAlways(s) ==
  LET x == conn[s].dev
      spread == IF IsPhone(s) THEN Offline(x, Audience(desktops, phase))
                ELSE IF IsDesk(s) THEN Offline(x, Audience(mobiles, phase))
                ELSE told
  IN  [spread EXCEPT ![s] = {}]

\* The other side hears that the device went offline.
ToldAfter(s) ==
  LET x == conn[s].dev
      spread == IF IsPhone(s) /\ mobiles[x] = s THEN Offline(x, Audience(desktops, phase))
                ELSE IF IsDesk(s) /\ desktops[x] = s THEN Offline(x, Audience(mobiles, phase))
                ELSE told
  IN  [spread EXCEPT ![s] = {}]

\* The close event: registry.remove, then presence.remove.
Closed(s) ==
  /\ Hears(s)
  /\ phase' = [phase EXCEPT ![s] = "gone"]
  /\ conn' = [conn EXCEPT ![s] = Stranger]
  /\ rooms' = IF conn[s].channel = "room"
                THEN [rooms EXCEPT ![conn[s].room] = Dropped(@, conn[s].dev, s)] ELSE rooms
  /\ mobiles' = IF IsPhone(s) THEN Dropped(mobiles, conn[s].dev, s) ELSE mobiles
  /\ desktops' = IF IsDesk(s) THEN Dropped(desktops, conn[s].dev, s) ELSE desktops
  /\ pairings' = PairingsAfter(s)
  /\ told' = ToldAfter(s)

-----------------------------------------------------------------------------
PresenceNext ==
  \/ \E s \in Sockets :
       \/ Open(s) \/ Close(s) \/ RegisterDesktop(s) \/ AskList(s) \/ Closed(s)
       \/ \E r \in Desktops, x \in Devices : Authenticate(s, r, x)
       \/ \E p \in Phones : RegisterMobile(s, p)
       \/ \E m \in Messages(Phones, Desktops) : Route(s, m)
  \/ \E i \in Pids : Purge(i)

PresenceSpec == PresenceInit /\ [][PresenceNext]_presenceVars

-----------------------------------------------------------------------------
PresenceTypeOK ==
  /\ phase \in [Sockets -> {"gone", "open", "closing"}]
  /\ conn \in [Sockets -> Conns]
  /\ rooms \in [Desktops -> [Devices -> Sockets \union {NoSocket}]]
  /\ mobiles \in [Phones -> Sockets \union {NoSocket}]
  /\ desktops \in [Desktops -> Sockets \union {NoSocket}]
  /\ pairings \in [Pids -> Pairings(Phones, Desktops) \union {NoPairing}]
  /\ told \in [Sockets -> SUBSET Devices]
  /\ \A s \in Sockets : phase[s] = "gone" => conn[s] = Stranger

\* No registry names a connection that is gone or belongs to another device.
NoGhosts ==
  /\ \A r \in Desktops, x \in Devices : rooms[r][x] # NoSocket =>
       conn[rooms[r][x]] = [channel |-> "room", room |-> r, dev |-> x]
  /\ \A p \in Phones : mobiles[p] # NoSocket =>
       conn[mobiles[p]] = [channel |-> "presence", dev |-> p]
  /\ \A d \in Desktops : desktops[d] # NoSocket =>
       conn[desktops[d]] = [channel |-> "room", room |-> d, dev |-> d]

\* A device can be reached at its open connection, and no device has two.
OpenIsReachable ==
  \A s \in Sockets : phase[s] = "open" =>
    /\ conn[s].channel = "room" => rooms[conn[s].room][conn[s].dev] = s
    /\ conn[s].channel = "presence" => mobiles[conn[s].dev] = s

\* The registries are exact: the late close event of a replaced connection
\* neither leaves a connection in them nor takes the new one out.
RegistriesExact == NoGhosts /\ OpenIsReachable

\* What a phone's page shows, once it has read all it was sent, is the list of
\* desktops the relay has.
PhoneViewExact ==
  \A p \in Phones :
    LET s == mobiles[p] IN
    s # NoSocket => (phase[s] = "open" => told[s] = Listed(desktops))

\* The desktop's view of the phones, once it is right, stays right as long as
\* its connection is the one that is listed.
DesktopViewKept ==
  [][\A d \in Desktops :
       LET s == desktops[d] IN
       (s # NoSocket /\ phase[s] = "open" /\ told[s] = Listed(mobiles)
         /\ desktops'[d] = s /\ phase'[s] = "open")
       => told'[s] = Listed(mobiles')]_presenceVars

\* A pairing does not outlive the connections of its parties: each has one that
\* is not closed yet.
NoOrphanPairing ==
  \A i \in Pids : pairings[i] # NoPairing =>
    \A x \in {pairings[i].phone, pairings[i].desk} :
      \E s \in Sockets : conn[s] # Stranger /\ conn[s].dev = x

\* What the relay keeps is about connections there are, and about all of them: a close
\* event of a replaced or forgotten connection takes away what was its own and no more.
RegistriesSound == RegistriesExact /\ NoOrphanPairing
=============================================================================
