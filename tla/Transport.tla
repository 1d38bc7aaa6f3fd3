----------------------------- MODULE Transport ------------------------------
(***************************************************************************)
(* The tasks of transport.rs and what the client loop makes of their events: *)
(* the dialler brings links up one at a time, each link has a pump that ends *)
(* it, the router writes outbound frames to the links, and they share the    *)
(* link table.  Steps between two awaits, and between two locks of the       *)
(* table, are separate actions.  Which candidate is dialled is Dialling's    *)
(* concern: here it is any that the table does not hold.                     *)
(***************************************************************************)
EXTENDS Integers, Sequences, FiniteSets, FiniteSetTheorems, TLAPS

CONSTANTS
  Addresses,
  MaxLinks,    \* MAX_LINKS
  Depth,       \* LINK_INBOX_DEPTH
  EventRoom,   \* capacity of the event channel
  Grace,       \* OFFLINE_GRACE, in ticks
  MaxDials,    \* bound: links brought up
  MaxTime      \* bound: ticks

\* What the values of the constants have to be.
TransportAssumption ==
  Addresses # {} /\ {MaxLinks, Depth, EventRoom, MaxDials, MaxTime, Grace} \subseteq Nat

None == -1
Links == 1 .. MaxDials     \* one number per link brought up

VARIABLES
  table,     \* LinkSet: the link registered under each address, 0 if none
  dialler,   \* where the dialler is, and with which address
  dials,     \* links brought up so far
  pump,      \* per link: its address, where its task is, the count it has read
  radio,     \* addresses the Bluetooth stack holds a connection to
  inbox,     \* per link: frames its pump has yet to write
  outbound,  \* frames on their way to the router: their destination
  events,    \* the event channel
  links,     \* the client loop's set of links
  offline,   \* offline_since
  connected, \* App.connected
  lost,      \* ghost: when the client loop's last link went
  greeted,   \* ghost: links that were given an announce, or whose inbox was full
  now

transport == <<table, dialler, dials, pump, radio, inbox>>
client == <<links, offline, connected, lost>>
vars == <<table, dialler, dials, pump, radio, inbox, outbound, events, links,
          offline, connected, lost, greeted, now>>

PumpStates == {"none", "running", "leaving", "removed", "disconnected", "counted", "settling", "done"}
Diallers == [at : {"idle", "connecting", "up", "inserted", "counted"}, address : Addresses, held : Nat]
Pumps == [address : Addresses, at : PumpStates, held : Nat]

TypeOK ==
  /\ table \in [Addresses -> 0 .. MaxDials]
  /\ dialler \in Diallers
  /\ pump \in [Links -> Pumps]
  /\ radio \subseteq Addresses /\ links \subseteq Addresses
  /\ inbox \in [Links -> 0 .. Depth]
  /\ Len(events) <= EventRoom
  /\ offline \in {None} \cup 0 .. MaxTime /\ connected \in BOOLEAN

Init ==
  LET first == CHOOSE a \in Addresses : TRUE
  IN /\ table = [a \in Addresses |-> 0] /\ dials = 0 /\ radio = {}
     /\ dialler = [at |-> "idle", address |-> first, held |-> 0]
     /\ pump = [l \in Links |-> [address |-> first, at |-> "none", held |-> 0]]
     /\ inbox = [l \in Links |-> 0]
     /\ outbound = <<>> /\ events = <<>>
     /\ links = {} /\ offline = None /\ connected = FALSE /\ lost = 0 /\ greeted = {} /\ now = 0

Registered == {table[a] : a \in Addresses} \ {0}
Count == Cardinality({a \in Addresses : table[a] # 0})
-----------------------------------------------------------------------------
(* The dialler *)

\* Candidates are filtered by the table, and the limit is read before each.
Pick(a) ==
  /\ dialler.at = "idle" /\ dials < MaxDials
  /\ table[a] = 0 /\ Count < MaxLinks
  /\ dialler' = [dialler EXCEPT !.at = "connecting", !.address = a]
  /\ UNCHANGED <<table, dials, pump, radio, inbox, outbound, events, client, greeted, now>>

\* establish: a connection the stack still holds is used as it is.
Establish ==
  /\ dialler.at = "connecting"
  /\ dialler' = [dialler EXCEPT !.at = "up"]
  /\ radio' = radio \cup {dialler.address}
  /\ UNCHANGED <<table, dials, pump, inbox, outbound, events, client, greeted, now>>

EstablishFails ==
  /\ dialler.at = "connecting"
  /\ dialler' = [dialler EXCEPT !.at = "idle"]
  /\ radio' = radio \ {dialler.address}
  /\ UNCHANGED <<table, dials, pump, inbox, outbound, events, client, greeted, now>>

Insert ==
  /\ dialler.at = "up"
  /\ dials' = dials + 1
  /\ table' = [table EXCEPT ![dialler.address] = dials + 1]
  /\ dialler' = [dialler EXCEPT !.at = "inserted"]
  /\ UNCHANGED <<pump, radio, inbox, outbound, events, client, greeted, now>>

CountUp ==
  /\ dialler.at = "inserted"
  /\ dialler' = [dialler EXCEPT !.at = "counted", !.held = Count]
  /\ UNCHANGED <<table, dials, pump, radio, inbox, outbound, events, client, greeted, now>>

\* The event, and then the pump is spawned.
SendUp ==
  /\ dialler.at = "counted" /\ Len(events) < EventRoom
  /\ events' = Append(events, [kind |-> "up", address |-> dialler.address, held |-> dialler.held])
  /\ pump' = [pump EXCEPT ![dials] = [address |-> dialler.address, at |-> "running", held |-> 0]]
  /\ dialler' = [dialler EXCEPT !.at = "idle"]
  /\ UNCHANGED <<table, dials, radio, inbox, outbound, client, greeted, now>>
-----------------------------------------------------------------------------
(* The pump of link l *)

Advance(l, from, to) ==
  pump[l].at = from /\ pump' = [pump EXCEPT ![l].at = to]

\* The other end goes away; the stack may notice at any time.
Disappear(a) ==
  /\ a \in radio /\ radio' = radio \ {a}
  /\ UNCHANGED <<table, dialler, dials, pump, inbox, outbound, events, client, greeted, now>>

\* One frame to the characteristic; a write on a dead connection ends the loop.
Write(l) ==
  /\ pump[l].at = "running" /\ inbox[l] > 0
  /\ inbox' = [inbox EXCEPT ![l] = @ - 1]
  /\ pump' = [pump EXCEPT ![l].at = IF pump[l].address \in radio THEN "running" ELSE "leaving"]
  /\ UNCHANGED <<table, dialler, dials, radio, outbound, events, client, greeted, now>>

\* The stream ends, the liveness poll fails, or the link has been silent.
Leave(l) ==
  /\ Advance(l, "running", "leaving")
  /\ UNCHANGED <<table, dialler, dials, radio, inbox, outbound, events, client, greeted, now>>

\* A pump that leaves its entry behind if somebody has connected again.
RemoveIfDown(l) ==
  /\ Advance(l, "leaving", "removed")
  /\ table' = [table EXCEPT ![pump[l].address] = IF pump[l].address \in radio THEN @ ELSE 0]
  /\ UNCHANGED <<dialler, dials, radio, inbox, outbound, events, client, greeted, now>>

Remove(l) ==
  /\ Advance(l, "leaving", "removed")
  /\ table' = [table EXCEPT ![pump[l].address] = 0]
  /\ UNCHANGED <<dialler, dials, radio, inbox, outbound, events, client, greeted, now>>

Disconnect(l) ==
  /\ Advance(l, "removed", "disconnected")
  /\ radio' = radio \ {pump[l].address}
  /\ UNCHANGED <<table, dialler, dials, inbox, outbound, events, client, greeted, now>>

CountDown(l) ==
  /\ pump[l].at = "disconnected"
  /\ pump' = [pump EXCEPT ![l].at = "counted", ![l].held = Count]
  /\ UNCHANGED <<table, dialler, dials, radio, inbox, outbound, events, client, greeted, now>>

SendDown(l) ==
  /\ Advance(l, "counted", "settling") /\ Len(events) < EventRoom
  /\ events' = Append(events, [kind |-> "down", address |-> pump[l].address, held |-> pump[l].held])
  /\ UNCHANGED <<table, dialler, dials, radio, inbox, outbound, client, greeted, now>>

\* The sleep of SETTLE_AFTER_LINK_LOSS is over.
Settle(l) ==
  /\ Advance(l, "settling", "done")
  /\ UNCHANGED <<table, dialler, dials, radio, inbox, outbound, events, client, greeted, now>>
-----------------------------------------------------------------------------
(* The router: one frame to the inboxes with room *)

\* A router that takes no notice of a full inbox.
RouteUnbounded ==
  LET to == IF outbound = <<>> THEN {} ELSE
            {l \in Registered : CASE Head(outbound).kind = "all" -> TRUE
                                  [] Head(outbound).kind = "except" -> table[Head(outbound).address] # l
                                  [] Head(outbound).kind = "only" -> table[Head(outbound).address] = l}
  IN /\ outbound # <<>> /\ outbound' = Tail(outbound)
     /\ inbox' = [l \in Links |-> IF l \in to THEN inbox[l] + 1 ELSE inbox[l]]
     /\ greeted' = greeted \cup {l \in to : Head(outbound).kind = "all" \/ inbox[l] = Depth}
     /\ UNCHANGED <<table, dialler, dials, pump, radio, events, client, now>>

Route ==
  LET to == IF outbound = <<>> THEN {} ELSE
            {l \in Registered : CASE Head(outbound).kind = "all" -> TRUE
                                  [] Head(outbound).kind = "except" -> table[Head(outbound).address] # l
                                  [] Head(outbound).kind = "only" -> table[Head(outbound).address] = l}
  IN /\ outbound # <<>> /\ outbound' = Tail(outbound)
     /\ inbox' = [l \in Links |-> IF l \in to /\ inbox[l] < Depth THEN inbox[l] + 1 ELSE inbox[l]]
     /\ greeted' = greeted \cup {l \in to : Head(outbound).kind = "all" \/ inbox[l] = Depth}
     /\ UNCHANGED <<table, dialler, dials, pump, radio, events, client, now>>
-----------------------------------------------------------------------------
(* The client loop *)

\* LinkUp that announces on the links it knows of before this one.
LinkUpFirstOnly(e) ==
  /\ links' = links \cup {e.address} /\ offline' = None
  /\ connected' = (connected \/ e.held = 1)
  /\ outbound' = IF e.held = 1 THEN Append(outbound, [kind |-> "all"]) ELSE outbound
  /\ UNCHANGED lost

\* LinkUp: an announce goes to every link.
LinkUp(e) ==
  /\ links' = links \cup {e.address} /\ offline' = None
  /\ connected' = (connected \/ e.held = 1)
  /\ outbound' = Append(outbound, [kind |-> "all"])
  /\ UNCHANGED lost

\* LinkDown: not offline yet, but the clock starts with the last link.
LinkDown(e) ==
  /\ links' = links \ {e.address}
  /\ offline' = IF e.held = 0 /\ offline = None THEN now ELSE offline
  /\ lost' = IF links # {} /\ links' = {} THEN now ELSE lost
  /\ UNCHANGED <<connected, outbound>>

TakeEvent ==
  /\ events # <<>> /\ events' = Tail(events)
  /\ IF Head(events).kind = "up" THEN LinkUp(Head(events)) ELSE LinkDown(Head(events))
  /\ UNCHANGED <<transport, greeted, now>>

\* A frame from a link is answered on it, or passed on to the others.
Answer(a, kind) ==
  /\ a \in links /\ Len(outbound) = 0 /\ kind \in {"only", "except"}
  /\ outbound' = Append(outbound, [kind |-> kind, address |-> a])
  /\ UNCHANGED <<transport, events, client, greeted, now>>

\* The maintenance tick declares an outage.
GiveUp ==
  /\ offline # None /\ now - offline >= Grace /\ links = {}
  /\ offline' = None /\ connected' = FALSE
  /\ UNCHANGED <<transport, outbound, events, links, lost, greeted, now>>

Tick == now < MaxTime /\ now' = now + 1 /\ UNCHANGED <<transport, outbound, events, client, greeted>>

Next ==
  \/ \E a \in Addresses : Pick(a) \/ Disappear(a) \/ \E k \in {"only", "except"} : Answer(a, k)
  \/ Establish \/ EstablishFails \/ Insert \/ CountUp \/ SendUp
  \/ \E l \in Links : \/ Write(l) \/ Leave(l) \/ Remove(l) \/ Disconnect(l)
                      \/ CountDown(l) \/ SendDown(l) \/ Settle(l)
  \/ Route \/ TakeEvent \/ GiveUp \/ Tick

Spec == Init /\ [][Next]_vars
-----------------------------------------------------------------------------
(* Properties *)

\* An entry of the table always leads to a pump that will serve it or take it
\* out, and no pump leaves without taking out its own: slots are not leaked,
\* and there are never more than MAX_LINKS.
TableServed ==
  /\ Count <= MaxLinks
  /\ \A a \in Addresses : table[a] # 0 =>
       \/ pump[table[a]].address = a /\ pump[table[a]].at \in {"running", "leaving"}
       \/ table[a] = dials /\ dialler.at \in {"inserted", "counted"}

\* When everything has been handed over, every link that is up has been given an
\* announce, unless its inbox was full when the router came to it.
LinkGreeted ==
  (events = <<>> /\ outbound = <<>> /\ dialler.at \notin {"inserted", "counted"})
    => Registered \subseteq greeted

\* Every entry of the link table leads to a pump that serves it or takes it out, and when all
\* is handed over every link that is up has had an announce unless its inbox was full.
LinksServed == TypeOK /\ TableServed /\ LinkGreeted

\* What TransportEvent says of held ("the first one - which means we are on the
\* mesh"): once the events are handled, a client with a working link shows
\* itself connected.
LinkedIsConnected ==
  (events = <<>> /\ dialler.at \notin {"inserted", "counted"})
    => \A a \in radio : table[a] # 0 => connected

\* The client loop's comment on the grace period: an outage is declared only
\* when every link has been gone that long.
GraceHolds ==
  [][(connected /\ ~connected') => now - lost >= Grace]_vars

\* The comment at the end of pump: an address just lost is out of reach until
\* the stack has settled.
SettlesFirst ==
  (dialler.at = "connecting") =>
    \A l \in Links : pump[l].address = dialler.address =>
      pump[l].at \notin {"removed", "disconnected", "counted", "settling"}

\* The client loop's comment on offline_since: None means that we are linked,
\* or have already said that we are not.
OfflineAccounted == offline = None => (links # {} \/ ~connected)
-----------------------------------------------------------------------------
(* Proofs: for every set of addresses, number of links, depth of the queues and *)
(* interleaving of the dialler, the pumps, the router and the client loop.    *)

\* What the two queues carry.
Event == [kind : {"up", "down"}, address : Addresses, held : Nat]
Order == [kind : {"all"}] \cup [kind : {"only", "except"}, address : Addresses]

\* The addresses in the table.
Taken == {a \in Addresses : table[a] # 0}

\* The dialler has registered a link that has no pump yet.
Spawning == dialler.at \in {"inserted", "counted"}

\* The types, with those of the queues, the links' numbers and the clock.
Typed ==
  /\ TypeOK
  /\ dials \in 0 .. MaxDials /\ now \in 0 .. MaxTime
  /\ events \in Seq(Event) /\ outbound \in Seq(Order)

\* There is room for the link being dialled: only the dialler adds to the table.
Room ==
  /\ IsFiniteSet(Taken) /\ Cardinality(Taken) <= MaxLinks
  /\ dialler.at \in {"connecting", "up"} =>
       /\ Cardinality(Taken) < MaxLinks /\ dials < MaxDials
       /\ table[dialler.address] = 0

\* The pumps that run and the entries of the table are one to one, but for the link whose
\* pump the dialler has yet to spawn.
Matched ==
  /\ \A a \in Addresses : table[a] # 0 =>
       \/ pump[table[a]].address = a /\ pump[table[a]].at \in {"running", "leaving"}
       \/ Spawning /\ table[a] = dials /\ a = dialler.address
  /\ \A l \in Links : pump[l].at \in {"running", "leaving"} => table[pump[l].address] = l
  /\ \A l \in Links : l > dials => pump[l].at = "none"
  /\ Spawning => dials > 0 /\ table[dialler.address] = dials /\ pump[dials].at = "none"

\* A link without an announce has one coming: its own LinkUp, or an announce to all.
Greeting ==
  \A l \in Registered :
    \/ l \in greeted
    \/ Spawning /\ l = dials
    \/ \E i \in DOMAIN events : events[i].kind = "up"
    \/ \E i \in DOMAIN outbound : outbound[i].kind = "all"

\* The inductive invariant.
TransportInv == Typed /\ Room /\ Matched /\ Greeting

\* The constants one by one.
LEMMA Bounds ==
  ASSUME TransportAssumption
  PROVE  /\ MaxLinks \in Nat /\ Depth \in Nat /\ EventRoom \in Nat /\ MaxDials \in Nat
         /\ MaxTime \in Nat /\ Grace \in Nat /\ Addresses # {}
BY DEF TransportAssumption

\* LinkSet::len counts a finite table.
LEMMA CountIsNat ==
  ASSUME Room
  PROVE  Count \in Nat /\ Count = Cardinality(Taken)
<1>1. IsFiniteSet(Taken)
  BY DEF Room
<1>2. Cardinality(Taken) \in Nat
  BY <1>1, FS_CardinalityType
<1>3. QED BY <1>2 DEF Count, Taken

\* Nothing is up when the tasks start.
LEMMA TransportInit ==
  ASSUME TransportAssumption, Init
  PROVE  TransportInv
<1> DEFINE first == CHOOSE a \in Addresses : TRUE
<1>1. first \in Addresses
  BY Bounds
<1>2. /\ table = [a \in Addresses |-> 0] /\ dials = 0 /\ radio = {}
      /\ dialler = [at |-> "idle", address |-> first, held |-> 0]
      /\ pump = [l \in Links |-> [address |-> first, at |-> "none", held |-> 0]]
      /\ inbox = [l \in Links |-> 0]
      /\ outbound = <<>> /\ events = <<>>
      /\ links = {} /\ offline = None /\ connected = FALSE /\ lost = 0 /\ greeted = {} /\ now = 0
  BY DEF Init
<1> HIDE DEF first
<1>3. Typed
  <2>1. 0 \in Nat /\ 0 \in 0 .. MaxDials /\ 0 \in 0 .. Depth /\ 0 \in 0 .. MaxTime /\ Len(<<>>) <= EventRoom
    BY Bounds
  <2>2. [address |-> first, at |-> "none", held |-> 0] \in Pumps
    BY <1>1, <2>1 DEF PumpStates, Pumps
  <2>3. dialler \in Diallers
    BY <1>1, <1>2, <2>1 DEF Diallers
  <2>4. pump \in [Links -> Pumps]
    BY <1>2, <2>2
  <2>5. table \in [Addresses -> 0 .. MaxDials] /\ inbox \in [Links -> 0 .. Depth]
    BY <1>2, <2>1
  <2>6. radio \subseteq Addresses /\ links \subseteq Addresses
    BY <1>2
  <2>7. Len(events) <= EventRoom /\ events \in Seq(Event) /\ outbound \in Seq(Order)
    BY <1>2, <2>1
  <2>8. offline \in {None} \cup 0 .. MaxTime /\ connected \in BOOLEAN
    BY <1>2
  <2>9. TypeOK
    BY <2>3, <2>4, <2>5, <2>6, <2>7, <2>8 DEF TypeOK
  <2>10. QED BY <1>2, <2>1, <2>7, <2>9 DEF Typed
<1>4. Room
  <2>1. Taken = {}
    BY <1>2 DEF Taken
  <2>2. IsFiniteSet(Taken) /\ Cardinality(Taken) = 0
    BY <2>1, FS_EmptySet
  <2>3. QED BY <1>2, <2>2, Bounds DEF Room
<1>5. Matched
  BY <1>2 DEF Matched, Spawning
<1>6. Greeting
  BY <1>2 DEF Greeting, Registered
<1>7. QED BY <1>3, <1>4, <1>5, <1>6 DEF TransportInv

-----------------------------------------------------------------------------
\* Steps that leave the table, the dialler and the pumps alone.
LEMMA TableStands ==
  ASSUME Room, Matched, UNCHANGED <<table, dialler, dials, pump>>
  PROVE  Room' /\ Matched'
<1>1. Taken' = Taken /\ Spawning' = Spawning
  BY DEF Taken, Spawning
<1>2. Room'
  BY <1>1 DEF Room
<1>3. Matched'
  BY <1>1 DEF Matched, Spawning
<1>4. QED BY <1>2, <1>3

\* Steps that take no announce from anybody.
LEMMA GreetingStands ==
  ASSUME Greeting, UNCHANGED <<events, outbound>>, Registered' \subseteq Registered,
         greeted \subseteq greeted', Spawning => Spawning' /\ dials' = dials
  PROVE  Greeting'
BY DEF Greeting

\* The dialler picks an address that is not in the table while there is room.
LEMMA PickStep ==
  ASSUME TransportAssumption, TransportInv, NEW a \in Addresses, Pick(a)
  PROVE  TransportInv'
<1>1. /\ dialler.at = "idle" /\ dials < MaxDials /\ table[a] = 0 /\ Count < MaxLinks
      /\ dialler' = [dialler EXCEPT !.at = "connecting", !.address = a]
      /\ UNCHANGED <<table, dials, pump, radio, inbox, outbound, events, client, greeted, now>>
  BY DEF Pick
<1>2. dialler \in Diallers
  BY DEF TransportInv, Typed, TypeOK
<1>3. /\ dialler' \in Diallers
      /\ dialler'.at = "connecting" /\ dialler'.address = a
  BY <1>1, <1>2 DEF Diallers
<1>4. Typed'
  BY <1>1, <1>3 DEF TransportInv, Typed, TypeOK, client
<1>5. Taken' = Taken /\ ~Spawning /\ ~Spawning'
  BY <1>1, <1>3 DEF Taken, Spawning
<1>6. Room'
  BY <1>1, <1>3, <1>5, CountIsNat DEF TransportInv, Room
<1>7. Matched'
  BY <1>1, <1>5 DEF TransportInv, Matched
<1>8. Greeting'
  BY <1>1, <1>5, GreetingStands DEF TransportInv, Registered
<1>9. QED BY <1>4, <1>6, <1>7, <1>8 DEF TransportInv

\* The dialler moves on without touching the table: connected, refused, counted.
LEMMA DiallerMoves ==
  ASSUME TransportAssumption, TransportInv,
         \/ dialler.at = "connecting" /\ dialler'.at \in {"up", "idle"}
         \/ dialler.at = "inserted" /\ dialler'.at = "counted",
         dialler'.address = dialler.address, dialler'.held \in Nat,
         dialler' = [at |-> dialler'.at, address |-> dialler'.address, held |-> dialler'.held],
         radio' \subseteq Addresses,
         UNCHANGED <<table, dials, pump, inbox, outbound, events, client, greeted, now>>
  PROVE  TransportInv'
<1>1. dialler \in Diallers
  BY DEF TransportInv, Typed, TypeOK
<1>2. dialler' \in Diallers
  <2>1. dialler'.at \in {"idle", "connecting", "up", "inserted", "counted"} /\ dialler'.address \in Addresses
    BY <1>1 DEF Diallers
  <2>2. QED BY <2>1 DEF Diallers
<1>3. Typed'
  BY <1>2 DEF TransportInv, Typed, TypeOK, client
<1>4. Taken' = Taken /\ (Spawning' <=> Spawning)
  BY DEF Taken, Spawning
<1>5. Room'
  BY <1>4 DEF TransportInv, Room
<1>6. Matched'
  BY <1>4 DEF TransportInv, Matched
<1>7. Greeting'
  BY <1>4, GreetingStands DEF TransportInv, Registered
<1>8. QED BY <1>3, <1>5, <1>6, <1>7 DEF TransportInv

\* establish, in either way, and the reading of the count.
LEMMA DiallerSteps ==
  ASSUME TransportAssumption, TransportInv, Establish \/ EstablishFails \/ CountUp
  PROVE  TransportInv'
<1>1. dialler \in Diallers
  BY DEF TransportInv, Typed, TypeOK
<1>2. radio \subseteq Addresses
  BY DEF TransportInv, Typed, TypeOK
<1>3. CASE Establish
  <2>1. /\ dialler.at = "connecting" /\ dialler' = [dialler EXCEPT !.at = "up"]
        /\ radio' = radio \cup {dialler.address}
        /\ UNCHANGED <<table, dials, pump, inbox, outbound, events, client, greeted, now>>
    BY <1>3 DEF Establish
  <2>2. /\ dialler'.at = "up" /\ dialler'.address = dialler.address /\ dialler'.held \in Nat
        /\ dialler' = [at |-> dialler'.at, address |-> dialler'.address, held |-> dialler'.held]
    BY <1>1, <2>1 DEF Diallers
  <2>3. radio' \subseteq Addresses
    BY <1>1, <1>2, <2>1 DEF Diallers
  <2>4. QED BY <2>1, <2>2, <2>3, DiallerMoves
<1>4. CASE EstablishFails
  <2>1. /\ dialler.at = "connecting" /\ dialler' = [dialler EXCEPT !.at = "idle"]
        /\ radio' = radio \ {dialler.address}
        /\ UNCHANGED <<table, dials, pump, inbox, outbound, events, client, greeted, now>>
    BY <1>4 DEF EstablishFails
  <2>2. /\ dialler'.at = "idle" /\ dialler'.address = dialler.address /\ dialler'.held \in Nat
        /\ dialler' = [at |-> dialler'.at, address |-> dialler'.address, held |-> dialler'.held]
    BY <1>1, <2>1 DEF Diallers
  <2>3. radio' \subseteq Addresses
    BY <1>2, <2>1
  <2>4. QED BY <2>1, <2>2, <2>3, DiallerMoves
<1>5. CASE CountUp
  <2>1. /\ dialler.at = "inserted" /\ dialler' = [dialler EXCEPT !.at = "counted", !.held = Count]
        /\ UNCHANGED <<table, dials, pump, radio, inbox, outbound, events, client, greeted, now>>
    BY <1>5 DEF CountUp
  <2>2. Count \in Nat
    BY CountIsNat DEF TransportInv
  <2>3. /\ dialler'.at = "counted" /\ dialler'.address = dialler.address /\ dialler'.held \in Nat
        /\ dialler' = [at |-> dialler'.at, address |-> dialler'.address, held |-> dialler'.held]
    BY <1>1, <2>1, <2>2 DEF Diallers
  <2>4. QED BY <1>2, <2>1, <2>3, DiallerMoves
<1>6. QED BY <1>3, <1>4, <1>5

\* The new link takes its place in the table; the pumps that run keep theirs.
LEMMA InsertStep ==
  ASSUME TransportAssumption, TransportInv, Insert
  PROVE  TransportInv'
<1> DEFINE a == dialler.address
<1>1. /\ dialler.at = "up" /\ dials' = dials + 1 /\ table' = [table EXCEPT ![a] = dials + 1]
      /\ dialler' = [dialler EXCEPT !.at = "inserted"]
      /\ UNCHANGED <<pump, radio, inbox, outbound, events, client, greeted, now>>
  BY DEF Insert
<1>2. /\ dialler \in Diallers
      /\ table \in [Addresses -> 0 .. MaxDials] /\ dials \in 0 .. MaxDials /\ MaxDials \in Nat
      /\ a \in Addresses /\ MaxLinks \in Nat
  BY Bounds DEF TransportInv, Typed, TypeOK, Diallers
<1>3. /\ Cardinality(Taken) < MaxLinks /\ dials < MaxDials /\ table[a] = 0 /\ IsFiniteSet(Taken)
  BY <1>1 DEF TransportInv, Room
<1>4. /\ dialler' \in Diallers
      /\ dialler'.at = "inserted" /\ dialler'.address = a
  BY <1>1, <1>2 DEF Diallers
<1>5. dials' \in 1 .. MaxDials /\ table' \in [Addresses -> 0 .. MaxDials]
  BY <1>1, <1>2, <1>3
<1>6. /\ table'[a] = dials + 1
      /\ \A b \in Addresses : b # a => table'[b] = table[b]
  BY <1>1, <1>2
<1>7. ~Spawning /\ Spawning'
  BY <1>1, <1>4 DEF Spawning
<1>8. Typed'
  BY <1>1, <1>4, <1>5 DEF TransportInv, Typed, TypeOK, client
<1>9. Room'
  <2>1. Taken' = Taken \cup {a} /\ a \notin Taken
    BY <1>2, <1>3, <1>6 DEF Taken
  <2>2. IsFiniteSet(Taken') /\ Cardinality(Taken') = Cardinality(Taken) + 1 /\ Cardinality(Taken) \in Nat
    BY <1>3, <2>1, FS_AddElement, FS_CardinalityType
  <2>3. QED BY <1>2, <1>3, <1>4, <2>2 DEF Room
<1>10. Matched'
  <2>1. pump' = pump /\ dials' \in Links
    BY <1>1, <1>5 DEF Links
  <2>2. pump[dials'].at = "none"
    BY <1>1, <1>2, <2>1 DEF TransportInv, Matched
  <2>3. ASSUME NEW b \in Addresses, table'[b] # 0
        PROVE  \/ pump'[table'[b]].address = b /\ pump'[table'[b]].at \in {"running", "leaving"}
               \/ Spawning' /\ table'[b] = dials' /\ b = dialler'.address
    BY <1>1, <1>4, <1>6, <1>7, <2>1, <2>3 DEF TransportInv, Matched
  <2>4. ASSUME NEW l \in Links, pump'[l].at \in {"running", "leaving"} PROVE table'[pump'[l].address] = l
    <3>1. table[pump[l].address] = l /\ pump[l].address \in Addresses
      BY <2>1, <2>4 DEF TransportInv, Matched, Typed, TypeOK, Diallers, Pumps
    <3>2. l # 0
      BY DEF Links
    <3>3. QED BY <1>3, <1>6, <2>1, <3>1, <3>2
  <2>5. ASSUME NEW l \in Links, l > dials' PROVE pump'[l].at = "none"
    <3>1. l > dials
      BY <1>1, <1>2, <2>5 DEF Links
    <3>2. QED BY <2>1, <3>1 DEF TransportInv, Matched
  <2>6. dials' > 0 /\ table'[dialler'.address] = dials' /\ pump'[dials'].at = "none"
    BY <1>1, <1>4, <1>5, <1>6, <2>1, <2>2
  <2>7. QED BY <2>3, <2>4, <2>5, <2>6 DEF Matched
<1>11. Greeting'
  <2>1. Registered' \subseteq Registered \cup {dials'}
    BY <1>1, <1>6 DEF Registered
  <2>2. QED BY <1>1, <1>7, <2>1 DEF TransportInv, Greeting
<1>12. QED BY <1>8, <1>9, <1>10, <1>11 DEF TransportInv

\* A queue with one element more.
LEMMA OneMore ==
  ASSUME NEW S, NEW q \in Seq(S), NEW e \in S
  PROVE  /\ Append(q, e) \in Seq(S) /\ Len(Append(q, e)) = Len(q) + 1 /\ Len(q) \in Nat
         /\ Append(q, e)[Len(q) + 1] = e /\ Len(q) + 1 \in DOMAIN Append(q, e)
         /\ \A i \in DOMAIN q : i \in DOMAIN Append(q, e) /\ Append(q, e)[i] = q[i]
OBVIOUS

\* The link is announced to the client loop and gets its pump.
LEMMA SendUpStep ==
  ASSUME TransportAssumption, TransportInv, SendUp
  PROVE  TransportInv'
<1> DEFINE a == dialler.address
           e == [kind |-> "up", address |-> a, held |-> dialler.held]
           d == [address |-> a, at |-> "running", held |-> 0]
<1>1. /\ dialler.at = "counted" /\ Len(events) < EventRoom /\ events' = Append(events, e)
      /\ pump' = [pump EXCEPT ![dials] = d] /\ dialler' = [dialler EXCEPT !.at = "idle"]
      /\ UNCHANGED <<table, dials, radio, inbox, outbound, client, greeted, now>>
  BY DEF SendUp
<1>2. /\ dialler \in Diallers
      /\ pump \in [Links -> Pumps]
      /\ table \in [Addresses -> 0 .. MaxDials] /\ dials \in 0 .. MaxDials /\ MaxDials \in Nat
      /\ events \in Seq(Event) /\ EventRoom \in Nat /\ a \in Addresses
  BY Bounds DEF TransportInv, Typed, TypeOK, Diallers
<1>3. Spawning /\ dials > 0 /\ table[a] = dials /\ pump[dials].at = "none" /\ dials \in Links
  BY <1>1, <1>2 DEF TransportInv, Matched, Spawning, Links
<1>4. /\ dialler' \in Diallers
      /\ dialler'.at = "idle"
  BY <1>1, <1>2 DEF Diallers
<1>5. e \in Event /\ e.kind = "up"
  BY <1>2 DEF Event, Diallers
<1>6. d \in Pumps
  BY <1>2 DEF PumpStates, Diallers, Pumps
<1>7. d.address = a /\ d.at = "running"
  OBVIOUS
<1> HIDE DEF d, e
<1>8. events' \in Seq(Event) /\ Len(events') <= EventRoom /\ \E i \in DOMAIN events' : events'[i].kind = "up"
  BY <1>1, <1>2, <1>5, OneMore
<1>9. /\ pump' \in [Links -> Pumps]
      /\ pump'[dials] = d /\ \A l \in Links : l # dials => pump'[l] = pump[l]
  BY <1>1, <1>2, <1>3, <1>6
<1>10. Typed'
  BY <1>1, <1>4, <1>8, <1>9 DEF TransportInv, Typed, TypeOK, client
<1>11. Room'
  <2>1. Taken' = Taken
    BY <1>1 DEF Taken
  <2>2. QED BY <1>4, <2>1 DEF TransportInv, Room
<1>12. ~Spawning'
  BY <1>4 DEF Spawning
<1>13. Matched'
  <2>1. table' = table /\ dials' = dials
    BY <1>1
  <2>2. ASSUME NEW b \in Addresses, table[b] # 0
        PROVE  pump'[table[b]].address = b /\ pump'[table[b]].at \in {"running", "leaving"}
    <3>1. table[b] \in Links
      BY <1>2, <2>2 DEF Links
    <3>2. CASE table[b] = dials
      <4>1. b = a
        BY <1>3, <2>2, <3>2 DEF TransportInv, Matched
      <4>2. QED BY <1>7, <1>9, <3>2, <4>1
    <3>3. CASE table[b] # dials
      <4>1. pump[table[b]].address = b /\ pump[table[b]].at \in {"running", "leaving"}
        BY <2>2, <3>3 DEF TransportInv, Matched
      <4>2. QED BY <1>9, <3>1, <3>3, <4>1
    <3>4. QED BY <3>2, <3>3
  <2>3. ASSUME NEW l \in Links, pump'[l].at \in {"running", "leaving"} PROVE table[pump'[l].address] = l
    <3>1. CASE l = dials
      BY <1>3, <1>7, <1>9, <3>1
    <3>2. CASE l # dials
      BY <1>9, <2>3, <3>2 DEF TransportInv, Matched
    <3>3. QED BY <3>1, <3>2
  <2>4. ASSUME NEW l \in Links, l > dials PROVE pump'[l].at = "none"
    <3>1. l # dials
      BY <1>2, <2>4
    <3>2. QED BY <1>9, <2>4, <3>1 DEF TransportInv, Matched
  <2>5. QED BY <1>12, <2>1, <2>2, <2>3, <2>4 DEF Matched
<1>14. Greeting'
  BY <1>8 DEF Greeting
<1>15. QED BY <1>10, <1>11, <1>13, <1>14 DEF TransportInv

\* A pump whose loop has not handed back its entry.
Serving == {"running", "leaving"}

\* A pump moves on without touching the table, and keeps serving or has long stopped.
LEMMA PumpMoves ==
  ASSUME TransportInv, NEW l \in Links,
         pump' \in [Links -> Pumps],
         \A k \in Links : k # l => pump'[k] = pump[k],
         pump'[l].address = pump[l].address,
         pump'[l].at \in Serving <=> pump[l].at \in Serving,
         pump[l].at # "none",
         UNCHANGED <<table, dialler, dials>>
  PROVE  Room' /\ Matched'
<1>1. Taken' = Taken /\ (Spawning' <=> Spawning)
  BY DEF Taken, Spawning
<1>2. Room'
  BY <1>1 DEF TransportInv, Room
<1>3. \A k \in Links : /\ pump'[k].address = pump[k].address
                       /\ pump'[k].at \in Serving <=> pump[k].at \in Serving
  OBVIOUS
<1>4. table \in [Addresses -> 0 .. MaxDials] /\ dials \in 0 .. MaxDials
  BY DEF TransportInv, Typed, TypeOK
<1>5. \A a \in Addresses : table[a] # 0 => table[a] \in Links
  BY <1>4 DEF Links
<1>6. l <= dials
  BY <1>4 DEF TransportInv, Matched, Links
<1>7. \A k \in Links : k > dials => pump'[k].at = "none"
  BY <1>4, <1>6 DEF TransportInv, Matched, Links
<1>8. Spawning => dials # l /\ dials \in Links
  BY <1>4 DEF TransportInv, Matched, Links
<1>9. Matched'
  <2>1. ASSUME NEW a \in Addresses, table[a] # 0
        PROVE  \/ pump'[table[a]].address = a /\ pump'[table[a]].at \in {"running", "leaving"}
               \/ Spawning' /\ table[a] = dials /\ a = dialler.address
    BY <1>1, <1>3, <1>5, <2>1 DEF TransportInv, Matched, Serving
  <2>2. \A k \in Links : pump'[k].at \in {"running", "leaving"} => table[pump'[k].address] = k
    BY <1>3 DEF TransportInv, Matched, Serving
  <2>3. Spawning => dials > 0 /\ table[dialler.address] = dials /\ pump'[dials].at = "none"
    BY <1>8 DEF TransportInv, Matched
  <2>4. QED BY <1>1, <1>7, <2>1, <2>2, <2>3 DEF Matched
<1>10. QED BY <1>2, <1>9

\* The steps of a pump that leave the table alone.
LEMMA PumpSteps ==
  ASSUME TransportAssumption, TransportInv, NEW l \in Links,
         \/ Write(l) \/ Leave(l) \/ Disconnect(l) \/ CountDown(l) \/ SendDown(l) \/ Settle(l)
  PROVE  TransportInv'
<1>1. /\ pump \in [Links -> Pumps] /\ pump[l] \in Pumps
      /\ radio \subseteq Addresses /\ inbox \in [Links -> 0 .. Depth] /\ Depth \in Nat
      /\ events \in Seq(Event) /\ EventRoom \in Nat /\ Len(events) <= EventRoom
  BY Bounds DEF TransportInv, Typed, TypeOK
<1>2. /\ UNCHANGED <<table, dialler, dials, outbound, client, greeted, now>>
      /\ radio' \subseteq Addresses /\ inbox' \in [Links -> 0 .. Depth]
  <2>1. CASE Write(l)
    <3>1. inbox[l] > 0 /\ inbox' = [inbox EXCEPT ![l] = @ - 1]
      BY <2>1 DEF Write
    <3>2. inbox[l] - 1 \in 0 .. Depth
      BY <1>1, <3>1
    <3>3. inbox' \in [Links -> 0 .. Depth]
      BY <1>1, <3>1, <3>2
    <3>4. QED BY <1>1, <2>1, <3>3 DEF Write
  <2>2. CASE Leave(l)
    BY <1>1, <2>2 DEF Leave
  <2>3. CASE Disconnect(l)
    BY <1>1, <2>3 DEF Disconnect
  <2>4. CASE CountDown(l)
    BY <1>1, <2>4 DEF CountDown
  <2>5. CASE SendDown(l)
    BY <1>1, <2>5 DEF SendDown
  <2>6. CASE Settle(l)
    BY <1>1, <2>6 DEF Settle
  <2>7. QED BY <2>1, <2>2, <2>3, <2>4, <2>5, <2>6
<1> DEFINE Moves == \E p \in Pumps : /\ pump' = [pump EXCEPT ![l] = p]
                                     /\ p.address = pump[l].address
                                     /\ (p.at \in Serving) <=> (pump[l].at \in Serving)
                                     /\ pump[l].at # "none"
<1>3. Moves
  <2>1. ASSUME NEW from \in PumpStates, NEW to \in PumpStates, Advance(l, from, to),
               (from \in Serving) <=> (to \in Serving), from # "none"
        PROVE  Moves
    <3> DEFINE p == [pump[l] EXCEPT !.at = to]
    <3>1. p \in Pumps /\ p.address = pump[l].address /\ p.at = to
      BY <1>1 DEF Pumps
    <3>2. pump' = [pump EXCEPT ![l] = p] /\ pump[l].at = from
      BY <2>1 DEF Advance
    <3>3. QED BY <2>1, <3>1, <3>2
  <2> HIDE DEF Moves
  <2>2. CASE \/ Write(l) \/ Leave(l) \/ Disconnect(l) \/ SendDown(l) \/ Settle(l)
    <3>1. \/ Advance(l, "running", "running") \/ Advance(l, "running", "leaving")
          \/ Advance(l, "removed", "disconnected")
          \/ Advance(l, "counted", "settling") \/ Advance(l, "settling", "done")
      BY <2>2 DEF Write, Leave, Disconnect, SendDown, Settle, Advance
    <3>2. CASE Advance(l, "running", "running")
      BY <2>1, <3>2 DEF PumpStates, Serving
    <3>3. CASE Advance(l, "running", "leaving")
      BY <2>1, <3>3 DEF PumpStates, Serving
    <3>4. CASE Advance(l, "removed", "disconnected")
      BY <2>1, <3>4 DEF PumpStates, Serving
    <3>5. CASE Advance(l, "counted", "settling")
      BY <2>1, <3>5 DEF PumpStates, Serving
    <3>6. CASE Advance(l, "settling", "done")
      BY <2>1, <3>6 DEF PumpStates, Serving
    <3>7. QED BY <3>1, <3>2, <3>3, <3>4, <3>5, <3>6
  <2>3. CASE CountDown(l)
    <3> DEFINE p == [pump[l] EXCEPT !.at = "counted", !.held = Count]
    <3>1. Count \in Nat
      BY CountIsNat DEF TransportInv
    <3>2. p \in Pumps /\ p.address = pump[l].address /\ p.at = "counted"
      BY <1>1, <3>1 DEF PumpStates, Pumps
    <3>3. pump' = [pump EXCEPT ![l].at = "counted", ![l].held = Count] /\ pump[l].at = "disconnected"
      BY <2>3 DEF CountDown
    <3>4. pump' = [pump EXCEPT ![l] = p]
      BY <1>1, <3>3
    <3>5. QED BY <3>2, <3>3, <3>4 DEF Serving, Moves
  <2>4. QED BY <2>2, <2>3
<1>4. /\ pump' \in [Links -> Pumps] /\ \A k \in Links : k # l => pump'[k] = pump[k]
      /\ pump'[l].address = pump[l].address /\ pump[l].at # "none"
      /\ pump'[l].at \in Serving <=> pump[l].at \in Serving
  <2>1. PICK p \in Pumps : /\ pump' = [pump EXCEPT ![l] = p] /\ p.address = pump[l].address
                           /\ (p.at \in Serving) <=> (pump[l].at \in Serving)
                           /\ pump[l].at # "none"
    BY <1>3
  <2>2. pump'[l] = p /\ pump' \in [Links -> Pumps] /\ \A k \in Links : k # l => pump'[k] = pump[k]
    BY <1>1, <2>1
  <2>3. QED BY <2>1, <2>2
<1>5. /\ events' \in Seq(Event) /\ Len(events') <= EventRoom
      /\ \A i \in DOMAIN events : i \in DOMAIN events' /\ events'[i] = events[i]
  <2>1. CASE events' = events
    BY <1>1, <2>1
  <2>2. CASE SendDown(l)
    <3> DEFINE e == [kind |-> "down", address |-> pump[l].address, held |-> pump[l].held]
    <3>1. e \in Event
      BY <1>1 DEF Event, Pumps
    <3>2. Len(events) < EventRoom /\ events' = Append(events, e)
      BY <2>2 DEF SendDown
    <3> HIDE DEF e
    <3>3. QED BY <1>1, <3>1, <3>2, OneMore
  <2>3. QED BY <2>1, <2>2 DEF Write, Leave, Disconnect, CountDown, Settle
<1>6. Room' /\ Matched'
  BY <1>2, <1>4, PumpMoves
<1>7. Typed'
  BY <1>2, <1>4, <1>5 DEF TransportInv, Typed, TypeOK, client
<1>8. Greeting'
  <2>1. Registered' = Registered /\ (Spawning' <=> Spawning)
    BY <1>2 DEF Registered, Spawning
  <2>2. QED BY <1>2, <1>5, <2>1 DEF TransportInv, Greeting
<1>9. QED BY <1>6, <1>7, <1>8 DEF TransportInv

\* A pump takes out the entry of its address, which is its own.
LEMMA RemoveStep ==
  ASSUME TransportAssumption, TransportInv, NEW l \in Links, Remove(l)
  PROVE  TransportInv'
<1> DEFINE a == pump[l].address
<1>1. /\ pump[l].at = "leaving" /\ pump' = [pump EXCEPT ![l].at = "removed"]
      /\ table' = [table EXCEPT ![a] = 0]
      /\ UNCHANGED <<dialler, dials, radio, inbox, outbound, events, client, greeted, now>>
  BY DEF Remove, Advance
<1>2. /\ pump \in [Links -> Pumps] /\ pump[l] \in Pumps /\ a \in Addresses
      /\ table \in [Addresses -> 0 .. MaxDials] /\ dials \in 0 .. MaxDials /\ MaxDials \in Nat
  BY Bounds DEF TransportInv, Typed, TypeOK, Pumps
<1>3. table[a] = l /\ l <= dials
  BY <1>1, <1>2 DEF TransportInv, Matched, Links
<1>4. /\ pump' \in [Links -> Pumps] /\ \A k \in Links : k # l => pump'[k] = pump[k]
      /\ pump'[l].at = "removed"
  BY <1>1, <1>2 DEF PumpStates, Pumps
<1>5. /\ table' \in [Addresses -> 0 .. MaxDials] /\ table'[a] = 0
      /\ \A b \in Addresses : b # a => table'[b] = table[b]
  BY <1>1, <1>2
<1>6. Typed'
  BY <1>1, <1>4, <1>5 DEF TransportInv, Typed, TypeOK, client
<1>7. Spawning' <=> Spawning
  BY <1>1 DEF Spawning
<1>8. Room'
  <2>1. Taken' \subseteq Taken /\ IsFiniteSet(Taken) /\ MaxLinks \in Nat
    BY <1>5, Bounds DEF Taken, TransportInv, Room
  <2>2. IsFiniteSet(Taken') /\ Cardinality(Taken') <= Cardinality(Taken)
    BY <2>1, FS_Subset
  <2>3. Cardinality(Taken') \in Nat /\ Cardinality(Taken) \in Nat
    BY <2>1, <2>2, FS_CardinalityType
  <2>4. dialler.at \in {"connecting", "up"} => table'[dialler.address] = 0
    BY <1>2, <1>5 DEF TransportInv, Room, Typed, TypeOK, Diallers
  <2>5. QED BY <1>1, <2>1, <2>2, <2>3, <2>4 DEF TransportInv, Room
<1>9. Spawning => dialler.address # a /\ dials # l
  BY <1>1, <1>3 DEF TransportInv, Matched
<1>10. Matched'
  <2>1. ASSUME NEW b \in Addresses, table'[b] # 0
        PROVE  \/ pump'[table'[b]].address = b /\ pump'[table'[b]].at \in {"running", "leaving"}
               \/ Spawning' /\ table'[b] = dials' /\ b = dialler'.address
    <3>1. b # a /\ table'[b] = table[b] /\ table[b] \in Links
      BY <1>2, <1>5, <2>1 DEF Links
    <3>2. CASE pump[table[b]].address = b /\ pump[table[b]].at \in {"running", "leaving"}
      <4>1. table[b] # l
        BY <3>1, <3>2
      <4>2. QED BY <1>4, <3>1, <3>2, <4>1
    <3>3. CASE Spawning /\ table[b] = dials /\ b = dialler.address
      BY <1>1, <1>7, <3>1, <3>3
    <3>4. QED BY <2>1, <3>1, <3>2, <3>3 DEF TransportInv, Matched
  <2>2. ASSUME NEW k \in Links, pump'[k].at \in {"running", "leaving"} PROVE table'[pump'[k].address] = k
    <3>1. k # l /\ pump'[k] = pump[k] /\ pump[k].address \in Addresses
      BY <1>2, <1>4, <2>2 DEF Pumps
    <3>2. table[pump[k].address] = k
      BY <2>2, <3>1 DEF TransportInv, Matched
    <3>3. pump[k].address # a
      BY <1>3, <3>1, <3>2
    <3>4. QED BY <1>5, <3>1, <3>2, <3>3
  <2>3. ASSUME NEW k \in Links, k > dials PROVE pump'[k].at = "none"
    <3>1. k # l
      BY <1>2, <1>3, <2>3 DEF Links
    <3>2. QED BY <1>4, <2>3, <3>1 DEF TransportInv, Matched
  <2>4. ASSUME Spawning PROVE dials > 0 /\ table'[dialler.address] = dials /\ pump'[dials].at = "none"
    <3>1. /\ dials > 0 /\ table[dialler.address] = dials /\ pump[dials].at = "none"
          /\ dials \in Links /\ dialler.address \in Addresses
      BY <1>2, <2>4 DEF TransportInv, Matched, Links, Typed, TypeOK, Diallers
    <3>2. QED BY <1>4, <1>5, <1>9, <2>4, <3>1
  <2>5. dialler' = dialler /\ dials' = dials
    BY <1>1
  <2>6. QED BY <1>7, <2>1, <2>2, <2>3, <2>4, <2>5 DEF Matched
<1>11. Greeting'
  <2>1. Registered' \subseteq Registered
    BY <1>5 DEF Registered
  <2>2. QED BY <1>1, <1>7, <2>1, GreetingStands DEF TransportInv
<1>12. QED BY <1>6, <1>8, <1>10, <1>11 DEF TransportInv

\* The queue without its head.
LEMMA OneLess ==
  ASSUME NEW S, NEW q \in Seq(S), q # <<>>
  PROVE  /\ Tail(q) \in Seq(S) /\ Len(Tail(q)) <= Len(q) /\ Head(q) \in S /\ Head(q) = q[1]
         /\ \A i \in DOMAIN q : i = 1 \/ (i - 1 \in DOMAIN Tail(q) /\ Tail(q)[i - 1] = q[i])
OBVIOUS

\* A frame for all reaches every link in the table, so no announce is lost in the queue.
LEMMA RouteStep ==
  ASSUME TransportAssumption, TransportInv, Route
  PROVE  TransportInv'
<1> DEFINE to == {l \in Registered : CASE Head(outbound).kind = "all" -> TRUE
                    [] Head(outbound).kind = "except" -> table[Head(outbound).address] # l
                    [] Head(outbound).kind = "only" -> table[Head(outbound).address] = l}
<1>1. /\ outbound # <<>> /\ outbound' = Tail(outbound)
      /\ inbox' = [l \in Links |-> IF l \in to /\ inbox[l] < Depth THEN inbox[l] + 1 ELSE inbox[l]]
      /\ greeted' = greeted \cup {l \in to : Head(outbound).kind = "all" \/ inbox[l] = Depth}
      /\ UNCHANGED <<table, dialler, dials, pump, radio, events, client, now>>
  BY DEF Route
<1>2. Head(outbound).kind = "all" => to = Registered
  OBVIOUS
<1> HIDE DEF to
<1>3. outbound \in Seq(Order) /\ inbox \in [Links -> 0 .. Depth] /\ Depth \in Nat
  BY Bounds DEF TransportInv, Typed, TypeOK
<1>4. inbox' \in [Links -> 0 .. Depth]
  <2>1. ASSUME NEW l \in Links
        PROVE  (IF l \in to /\ inbox[l] < Depth THEN inbox[l] + 1 ELSE inbox[l]) \in 0 .. Depth
    BY <1>3
  <2>2. QED BY <1>1, <2>1
<1>5. /\ outbound' \in Seq(Order)
      /\ \A i \in DOMAIN outbound :
           \/ outbound[i] = Head(outbound)
           \/ i - 1 \in DOMAIN outbound' /\ outbound'[i - 1] = outbound[i]
  BY <1>1, <1>3, OneLess
<1>6. Typed'
  BY <1>1, <1>4, <1>5 DEF TransportInv, Typed, TypeOK, client
<1>7. Room' /\ Matched'
  BY <1>1, TableStands DEF TransportInv
<1>8. Greeting'
  <2>1. Registered' = Registered /\ (Spawning' <=> Spawning) /\ dials' = dials /\ events' = events
    BY <1>1 DEF Registered, Spawning
  <2>2. CASE Head(outbound).kind = "all"
    <3>1. Registered \subseteq greeted'
      BY <1>1, <1>2, <2>2
    <3>2. QED BY <2>1, <3>1 DEF Greeting
  <2>3. CASE Head(outbound).kind # "all"
    <3>1. greeted \subseteq greeted'
      BY <1>1
    <3>2. (\E i \in DOMAIN outbound : outbound[i].kind = "all")
            => \E i \in DOMAIN outbound' : outbound'[i].kind = "all"
      BY <1>5, <2>3
    <3>3. QED BY <2>1, <3>1, <3>2 DEF TransportInv, Greeting
  <2>4. QED BY <2>2, <2>3
<1>9. QED BY <1>6, <1>7, <1>8 DEF TransportInv

\* The event of a new link becomes an announce to all: between the two it is never lost.
LEMMA TakeEventStep ==
  ASSUME TransportAssumption, TransportInv, TakeEvent
  PROVE  TransportInv'
<1>1. /\ events # <<>> /\ events' = Tail(events)
      /\ UNCHANGED <<table, dialler, dials, pump, radio, inbox, greeted, now>>
  BY DEF TakeEvent, transport
<1>2. /\ events \in Seq(Event) /\ Len(events) <= EventRoom /\ outbound \in Seq(Order)
      /\ links \subseteq Addresses /\ connected \in BOOLEAN /\ now \in 0 .. MaxTime
      /\ offline \in {None} \cup 0 .. MaxTime /\ EventRoom \in Nat
  BY Bounds DEF TransportInv, Typed, TypeOK
<1>3. /\ events' \in Seq(Event) /\ Len(events') <= EventRoom /\ Head(events) \in Event
      /\ \A i \in DOMAIN events :
           \/ events[i] = Head(events)
           \/ i - 1 \in DOMAIN events' /\ events'[i - 1] = events[i]
  <2>1. Len(events') <= Len(events) /\ Len(events) \in Nat /\ Len(events') \in Nat
    BY <1>1, <1>2, OneLess
  <2>2. QED BY <1>1, <1>2, <2>1, OneLess
<1>4. Head(events).address \in Addresses
  BY <1>3 DEF Event
<1>5. [kind |-> "all"] \in Order /\ [kind |-> "all"].kind = "all"
  BY DEF Order
<1>6. Room' /\ Matched'
  BY <1>1, TableStands DEF TransportInv
<1>7. Registered' = Registered /\ (Spawning' <=> Spawning)
  BY <1>1 DEF Registered, Spawning
<1>8. CASE Head(events).kind = "up"
  <2>1. LinkUp(Head(events))
    BY <1>8 DEF TakeEvent
  <2>2. /\ links' = links \cup {Head(events).address} /\ offline' = None
        /\ connected' \in BOOLEAN /\ outbound' = Append(outbound, [kind |-> "all"])
    BY <2>1 DEF LinkUp
  <2>3. outbound' \in Seq(Order) /\ \E i \in DOMAIN outbound' : outbound'[i].kind = "all"
    <3> DEFINE o == [kind |-> "all"]
    <3>1. o \in Order /\ o.kind = "all" /\ outbound' = Append(outbound, o)
      BY <1>5, <2>2
    <3> HIDE DEF o
    <3>2. QED BY <1>2, <3>1, OneMore
  <2>4. Typed'
    BY <1>1, <1>2, <1>3, <1>4, <2>2, <2>3 DEF TransportInv, Typed, TypeOK
  <2>5. Greeting'
    BY <2>3 DEF Greeting
  <2>6. QED BY <1>6, <2>4, <2>5 DEF TransportInv
<1>9. CASE Head(events).kind # "up"
  <2>1. LinkDown(Head(events))
    BY <1>9 DEF TakeEvent
  <2>2. /\ links' = links \ {Head(events).address} /\ connected' = connected /\ outbound' = outbound
        /\ offline' = IF Head(events).held = 0 /\ offline = None THEN now ELSE offline
    BY <2>1 DEF LinkDown
  <2>3. offline' \in {None} \cup 0 .. MaxTime
    BY <1>2, <2>2
  <2>4. Typed'
    BY <1>1, <1>2, <1>3, <2>2, <2>3 DEF TransportInv, Typed, TypeOK
  <2>5. (\E i \in DOMAIN events : events[i].kind = "up") => \E i \in DOMAIN events' : events'[i].kind = "up"
    BY <1>3, <1>9
  <2>6. Greeting'
    BY <1>1, <1>7, <2>2, <2>5 DEF TransportInv, Greeting
  <2>7. QED BY <1>6, <2>4, <2>6 DEF TransportInv
<1>10. QED BY <1>8, <1>9

\* The steps that touch neither the table nor an announce: the other end goes away, a frame
\* is answered, the outage is declared, time passes.
LEMMA QuietSteps ==
  ASSUME TransportAssumption, TransportInv,
         \/ \E a \in Addresses : Disappear(a) \/ \E k \in {"only", "except"} : Answer(a, k)
         \/ GiveUp \/ Tick
  PROVE  TransportInv'
<1>1. /\ UNCHANGED <<table, dialler, dials, pump, inbox, events, greeted, links>>
      /\ radio' \subseteq radio /\ offline' \in {offline, None} /\ connected' \in {connected, FALSE}
      /\ now' \in 0 .. MaxTime
  <2>1. now \in 0 .. MaxTime /\ MaxTime \in Nat
    BY Bounds DEF TransportInv, Typed
  <2>2. CASE Tick
    <3>1. now' \in 0 .. MaxTime
      BY <2>1, <2>2 DEF Tick
    <3>2. QED BY <2>2, <3>1 DEF Tick, transport, client
  <2>3. CASE ~Tick
    BY <2>1, <2>3 DEF Disappear, Answer, GiveUp, transport, client
  <2>4. QED BY <2>2, <2>3
<1>2. outbound \in Seq(Order)
  BY DEF TransportInv, Typed
<1>3. /\ outbound' \in Seq(Order)
      /\ \A i \in DOMAIN outbound : i \in DOMAIN outbound' /\ outbound'[i] = outbound[i]
  <2>1. CASE outbound' = outbound
    BY <1>2, <2>1
  <2>2. CASE \E a \in Addresses : \E k \in {"only", "except"} : Answer(a, k)
    <3>1. PICK a \in Addresses, k \in {"only", "except"} : Answer(a, k)
      BY <2>2
    <3> DEFINE o == [kind |-> k, address |-> a]
    <3>2. o \in Order /\ outbound' = Append(outbound, o)
      BY <3>1 DEF Answer, Order
    <3> HIDE DEF o
    <3>3. QED BY <1>2, <3>2, OneMore
  <2>3. QED BY <2>1, <2>2 DEF Disappear, GiveUp, Tick
<1>4. Typed'
  BY <1>1, <1>3 DEF TransportInv, Typed, TypeOK
<1>5. Room' /\ Matched'
  BY <1>1, TableStands DEF TransportInv
<1>6. Registered' = Registered /\ (Spawning' <=> Spawning)
  BY <1>1 DEF Registered, Spawning
<1>7. Greeting'
  BY <1>1, <1>3, <1>6 DEF TransportInv, Greeting
<1>8. QED BY <1>4, <1>5, <1>7 DEF TransportInv

\* Every step of the transport and the client loop keeps the invariant.
LEMMA TransportStep ==
  ASSUME TransportAssumption, TransportInv, [Next]_vars
  PROVE  TransportInv'
<1>1. CASE UNCHANGED vars
  <2>1. UNCHANGED <<table, dialler, dials, pump, radio, inbox, outbound, events, links,
                    offline, connected, greeted, now>>
    BY <1>1 DEF vars
  <2>2. Typed'
    BY <2>1 DEF TransportInv, Typed, TypeOK
  <2>3. Room' /\ Matched'
    BY <2>1, TableStands DEF TransportInv
  <2>4. Greeting'
    BY <2>1 DEF TransportInv, Greeting, Registered, Spawning
  <2>5. QED BY <2>2, <2>3, <2>4 DEF TransportInv
<1>2. CASE \E a \in Addresses : Pick(a)
  BY <1>2, PickStep
<1>3. CASE \/ \E a \in Addresses : Disappear(a) \/ \E k \in {"only", "except"} : Answer(a, k)
           \/ GiveUp \/ Tick
  BY <1>3, QuietSteps
<1>4. CASE Establish \/ EstablishFails \/ CountUp
  BY <1>4, DiallerSteps
<1>5. CASE Insert
  BY <1>5, InsertStep
<1>6. CASE SendUp
  BY <1>6, SendUpStep
<1>7. CASE \E l \in Links : \/ Write(l) \/ Leave(l) \/ Disconnect(l)
                           \/ CountDown(l) \/ SendDown(l) \/ Settle(l)
  BY <1>7, PumpSteps
<1>8. CASE \E l \in Links : Remove(l)
  BY <1>8, RemoveStep
<1>9. CASE Route
  BY <1>9, RouteStep
<1>10. CASE TakeEvent
  BY <1>10, TakeEventStep
<1>11. QED BY <1>1, <1>2, <1>3, <1>4, <1>5, <1>6, <1>7, <1>8, <1>9, <1>10 DEF Next

\* For every number of addresses, links and queue slots and every interleaving of the
\* dialler, the pumps, the router and the client loop: an entry of the link table always
\* leads to a pump that serves it or takes it out, there are never more than MAX_LINKS, and
\* when all is handed over every link that is up has been announced to (or was full).
THEOREM LinksStayServed ==
  ASSUME TransportAssumption
  PROVE  Spec => []LinksServed
<1>1. Init => TransportInv
  BY TransportInit
<1>2. TransportInv /\ [Next]_vars => TransportInv'
  BY TransportStep
<1>3. TransportInv => LinksServed
  <2>1. SUFFICES ASSUME TransportInv PROVE LinksServed
    OBVIOUS
  <2>2. TypeOK
    BY <2>1 DEF TransportInv, Typed
  <2>3. Count <= MaxLinks
    BY <2>1, CountIsNat DEF TransportInv, Room
  <2>4. TableServed
    BY <2>1, <2>3 DEF TransportInv, Matched, TableServed, Spawning
  <2>5. LinkGreeted
    BY <2>1 DEF TransportInv, Greeting, LinkGreeted, Spawning
  <2>6. QED BY <2>2, <2>4, <2>5 DEF LinksServed
<1>4. QED BY <1>1, <1>2, <1>3, PTL DEF Spec
=============================================================================
