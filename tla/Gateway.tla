------------------------------ MODULE Gateway -------------------------------
(***************************************************************************)
(* Gateway mode (gateway.rs and its callers in main.rs and mesh.rs): signed  *)
(* channel events of mesh-only peers go to the relays, what the relays send  *)
(* goes onto the mesh, and three bounded sets of ids keep either from coming *)
(* back around.  Peers, other gateways and the relays are the environment;   *)
(* a relay offers an event of a joined cell as often as it likes.            *)
(***************************************************************************)
EXTENDS Integers, Sequences, FiniteSets, SequencesExt

CONSTANTS
  Peers,
  Events,          \* [id, cell, at, valid, fits]: fits says the JSON is within MAX_EVENT_JSON_BYTES
  Cells,
  MaxQueued,       \* MAX_QUEUED_UPLINKS
  MaxPerPeer,      \* MAX_QUEUED_PER_DEPOSITOR
  UplinkBudget,    \* UPLINKS_PER_MINUTE_PER_DEPOSITOR
  DownlinkBudget,  \* DOWNLINKS_PER_MINUTE
  MaxAge,          \* MAX_EVENT_AGE_SECONDS
  MaxTracked,      \* MAX_TRACKED_IDS
  Window,          \* RATE_WINDOW_SECONDS
  MaxNow           \* bound: the clock

\* What the values of the constants have to be.
GatewayAssumption ==
  {MaxQueued, MaxPerPeer, UplinkBudget, DownlinkBudget, MaxAge, MaxTracked, Window, MaxNow} \subseteq Nat

VARIABLES
  now,
  enabled,
  fromMesh, published, rebroadcast,   \* Seen: ids, oldest first
  deposits,    \* peer -> stamps of its deposits
  broadcasts,  \* stamps of our broadcasts
  held,        \* <<[from, event]>>
  up,          \* relays_up
  ready,       \* mesh.gateway_ready, what the announce says
  joined,      \* cells with a subscription
  relayed,     \* events the relays have
  sent,        \* ghost: event -> times handed to the relay pool, up to two
  aired        \* ghost: event -> times put on the mesh, up to two

vars == <<now, enabled, fromMesh, published, rebroadcast, deposits, broadcasts, held, up, ready,
          joined, relayed, sent, aired>>

Directions == {"toGateway", "fromGateway", "bridge"}

TypeOK ==
  /\ \A seen \in {fromMesh, published, rebroadcast} : IsInjective(seen) /\ Len(seen) <= MaxTracked
  /\ Len(held) <= MaxQueued
  /\ \A p \in Peers : Len(SelectSeq(held, LAMBDA h : h.from = p)) <= MaxPerPeer
  /\ Len(broadcasts) <= DownlinkBudget /\ \A p \in Peers : Len(deposits[p]) <= UplinkBudget
-----------------------------------------------------------------------------
Remember(seen, id) ==
  IF Contains(seen, id) THEN seen
  ELSE LET all == Append(seen, id) IN IF Len(all) > MaxTracked THEN Tail(all) ELSE all

RememberAll(seen, ids) == FoldLeft(Remember, seen, ids)

\* A stamp that is a whole window old is gone.
Prune(stamps) == SelectSeq(stamps, LAMBDA t : now - t < Window)

Ids(s) == [i \in DOMAIN s |-> s[i].event.id]

Count(tally, events) ==
  [e \in Events |-> LET n == tally[e] + Cardinality({i \in DOMAIN events : events[i] = e}) IN IF n > 2 THEN 2 ELSE n]
-----------------------------------------------------------------------------
(* accept_uplink *)

\* What refuses a deposit before it is counted.
Refused(e) ==
  \/ ~enabled \/ Contains(fromMesh, e.id) \/ Contains(published, e.id)
  \/ now - e.at > MaxAge \/ e.at - now > MaxAge

Counted(p) == [deposits EXCEPT ![p] = Append(Prune(@), now)]
Pruned(p) == [deposits EXCEPT ![p] = Prune(@)]

\* The subscription of a cell takes the event to its relays; without one it goes nowhere.
Reaches(events) == {e \in ToSet(events) : e.cell \in joined /\ up}

\* A full mailbag takes one more.
HoldAll(p, e) == Append(held, [from |-> p, event |-> e])

\* The oldest makes room.
Hold(p, e) == Append(IF Len(held) >= MaxQueued THEN Tail(held) ELSE held, [from |-> p, event |-> e])

AcceptUplink(p, e) ==
  IF Refused(e) THEN UNCHANGED <<deposits, published, held, sent, relayed>>
  ELSE IF Len(Prune(deposits[p])) >= UplinkBudget
  THEN deposits' = Pruned(p) /\ UNCHANGED <<published, held, sent, relayed>>
  ELSE IF up
  THEN /\ published' = Remember(published, e.id) /\ deposits' = Counted(p)
       /\ sent' = Count(sent, <<e>>) /\ relayed' = relayed \cup Reaches(<<e>>) /\ UNCHANGED held
  ELSE IF Len(SelectSeq(held, LAMBDA h : h.from = p)) >= MaxPerPeer
  THEN deposits' = Pruned(p) /\ UNCHANGED <<published, held, sent, relayed>>
  ELSE deposits' = Counted(p) /\ held' = Hold(p, e) /\ UNCHANGED <<published, sent, relayed>>

\* A carrier from the mesh, addressed to us or to everyone: handle_carrier lets through what
\* is addressed the way its direction asks, and uplink what is signed.
HearCarrier(p, direction, directed, e) ==
  /\ e.fits
  /\ IF ~e.valid THEN UNCHANGED <<fromMesh, deposits, published, held, sent, relayed>>
     ELSE \/ /\ direction = "toGateway" /\ directed
             /\ AcceptUplink(p, e) /\ UNCHANGED fromMesh
          \/ /\ direction = "fromGateway" /\ ~directed
             /\ fromMesh' = Remember(fromMesh, e.id)
             /\ UNCHANGED <<deposits, published, held, sent, relayed>>
          \/ /\ ~(direction = "toGateway" /\ directed) /\ ~(direction = "fromGateway" /\ ~directed)
             /\ UNCHANGED <<fromMesh, deposits, published, held, sent, relayed>>
  /\ UNCHANGED <<now, enabled, rebroadcast, broadcasts, up, ready, joined, aired>>
-----------------------------------------------------------------------------
(* accept_downlink: a verified event of a joined cell, offered while we carry *)

\* Anything that was not on the mesh before.
MayAirHeard(e) == enabled /\ ~Contains(rebroadcast, e.id)

MayAir(e) ==
  enabled /\ ~Contains(published, e.id) /\ ~Contains(fromMesh, e.id) /\ ~Contains(rebroadcast, e.id)

\* An event that does not fit is refused before the policy is asked.
Carryable(e) ==
  /\ e \in relayed /\ e.cell \in joined /\ e.valid /\ e.fits /\ MayAir(e)
  /\ IF Len(Prune(broadcasts)) >= DownlinkBudget
     THEN broadcasts' = Prune(broadcasts) /\ UNCHANGED <<rebroadcast, aired>>
     ELSE /\ rebroadcast' = Remember(rebroadcast, e.id)
          /\ broadcasts' = Append(Prune(broadcasts), now) /\ aired' = Count(aired, <<e>>)
  /\ UNCHANGED <<now, enabled, fromMesh, published, deposits, held, up, ready, joined, relayed, sent>>
-----------------------------------------------------------------------------
(* The user and the upkeep *)

\* The mailbag survives the switch.
SetGatewayKeeping(wanted) ==
  /\ enabled' = wanted /\ ready' = (wanted /\ up)
  /\ UNCHANGED <<now, fromMesh, published, rebroadcast, deposits, broadcasts, held, up, joined, relayed, sent, aired>>

SetGateway(wanted) ==
  /\ enabled' = wanted /\ ready' = (wanted /\ up)
  /\ held' = IF wanted THEN held ELSE <<>>
  /\ UNCHANGED <<now, fromMesh, published, rebroadcast, deposits, broadcasts, up, joined, relayed, sent, aired>>

\* The mailbag is handed over and nothing is noted.
TakeHeldUnmarked == published

\* take_held marks what it hands over.
TakeHeld == RememberAll(published, Ids(held))

\* The offer is brought in line with the relays only when the mode is switched.
MaintainSilently == UNCHANGED vars

Maintain ==
  LET offering == enabled /\ up
  IN /\ ready' = offering
     /\ IF offering /\ held # <<>>
        THEN LET events == [i \in DOMAIN held |-> held[i].event]
             IN /\ published' = TakeHeld /\ held' = <<>>
                /\ sent' = Count(sent, events) /\ relayed' = relayed \cup Reaches(events)
        ELSE UNCHANGED <<published, held, sent, relayed>>
     /\ UNCHANGED <<now, enabled, fromMesh, rebroadcast, deposits, broadcasts, up, joined, aired>>

Join(c) ==
  /\ c \notin joined /\ joined' = joined \cup {c}
  /\ UNCHANGED <<now, enabled, fromMesh, published, rebroadcast, deposits, broadcasts, held, up, ready, relayed, sent, aired>>

Leave(c) ==
  /\ c \in joined /\ joined' = joined \ {c}
  /\ UNCHANGED <<now, enabled, fromMesh, published, rebroadcast, deposits, broadcasts, held, up, ready, relayed, sent, aired>>

\* The relays of the pool answer, or the last of them fails; those of private mail count too.
Relays ==
  /\ up' = ~up
  /\ UNCHANGED <<now, enabled, fromMesh, published, rebroadcast, deposits, broadcasts, held, ready, joined, relayed, sent, aired>>

\* Somebody posts to the relays directly.
Post(e) ==
  /\ e \notin relayed /\ relayed' = relayed \cup {e}
  /\ UNCHANGED <<now, enabled, fromMesh, published, rebroadcast, deposits, broadcasts, held, up, ready, joined, sent, aired>>

Tick ==
  /\ now < MaxNow /\ now' = now + 1
  /\ UNCHANGED <<enabled, fromMesh, published, rebroadcast, deposits, broadcasts, held, up, ready, joined, relayed, sent, aired>>

Init ==
  /\ now = 0 /\ enabled = FALSE /\ fromMesh = <<>> /\ published = <<>> /\ rebroadcast = <<>>
  /\ deposits = [p \in Peers |-> <<>>] /\ broadcasts = <<>> /\ held = <<>>
  /\ up = FALSE /\ ready = FALSE /\ joined = {} /\ relayed = {} /\ sent = [e \in Events |-> 0] /\ aired = [e \in Events |-> 0]

Next ==
  \/ \E p \in Peers, d \in Directions, directed \in BOOLEAN, e \in Events : HearCarrier(p, d, directed, e)
  \/ \E e \in Events : Carryable(e) \/ Post(e)
  \/ \E wanted \in BOOLEAN : SetGateway(wanted)
  \/ Maintain \/ Relays \/ Tick
  \/ \E c \in Cells : Join(c) \/ Leave(c)

Spec == Init /\ [][Next]_vars

\* The loop maintains every second.
FairSpec == Spec /\ WF_vars(Maintain)
-----------------------------------------------------------------------------
Heard(e) == Contains(fromMesh, e.id)

\* What this gateway published, what another gateway aired and what it aired itself is never
\* put on the mesh: not when the mailbag goes out after an outage, not when the mode was off
\* in between, not for a second copy of a relay.
NoEchoStep == \A e \in Events : aired'[e] # aired[e] => ~Heard(e) /\ sent[e] = 0 /\ aired[e] = 0
NoEcho == [][NoEchoStep]_vars

\* Nothing is kept of the mailbag once the offer is withdrawn, and nothing leaves it then.
OffMeansEmpty == enabled \/ held = <<>>

\* While relays answer, what is held goes out.
HeldGoesOut ==
  \A e \in Events :
    (up /\ \E i \in DOMAIN held : held[i].event = e) ~> (sent[e] > 0 \/ ~enabled \/ ~up)

\* An offer that cannot be kept is withdrawn.
OfferWithdrawn == (ready /\ ~up) ~> (~ready \/ up)

\* An event is published at most once.
PublishedOnce == \A e \in Events : sent[e] <= 1

\* What another gateway aired is never published.
HeardNotPublished ==
  [][\A e \in Events : sent'[e] # sent[e] => ~Heard(e)]_vars

\* What is marked as published has reached the relays.
PublishedReached == \A e \in Events : Contains(published, e.id) => e \in relayed
=============================================================================
