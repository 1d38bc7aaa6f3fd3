-------------------------------- MODULE Relay --------------------------------
(***************************************************************************)
(* Flooding over the mesh: relay.rs (the plan and the memory of what was     *)
(* forwarded) and the frame handling of the client loop in main.rs, on every *)
(* node at once.  A frame takes any time to cross its link; a link may go    *)
(* down with what is on it.                                                  *)
(***************************************************************************)
EXTENDS Naturals, Sequences, FiniteSets, SequencesExt

CONSTANTS
  Nodes,
  Edges,            \* which nodes may hold a link: a set of two-element sets
  Packets,          \* what is sent: records of origin, recipient and kind
  Broadcast,        \* the recipient of a packet addressed to everyone
  MaxTtl,           \* relay::MAX_TTL and mesh::MESSAGE_TTL, 7 in the code
  SendTtls,         \* hop counts a packet may start with
  ForwardedLimit,   \* FORWARDED_LIMIT, 1024 in the code
  LinkFailures      \* bound: links that go down

\* What the values of the constants have to be.
RelayAssumption ==
  /\ \A e \in Edges : e \subseteq Nodes /\ Cardinality(e) = 2
  /\ \A p \in Packets : p.origin \in Nodes /\ p.to \in Nodes \cup {Broadcast}
  /\ MaxTtl \in Nat /\ SendTtls \subseteq Nat
  /\ ForwardedLimit \in Nat \ {0} /\ LinkFailures \in Nat

VARIABLES
  links,      \* links that are up
  wire,       \* frames crossing a link
  seen,       \* Forwarded.seen, per node
  order,      \* Forwarded.order, per node
  sent,       \* packets their origin has sent
  heard,      \* ghost: packets that reached handle_frame, per node
  carried     \* ghost: how often each packet was put on each link, per
              \* direction: 0, 1 or 2 for more than once

vars == <<links, wire, seen, order, sent, heard, carried>>

\* kind "Announce" stands for what stays on its link (presence, sync requests,
\* types this version does not know), "Message" for everything else.
Frames == [pkt : Packets, from : Nodes, to : Nodes, ttl : Nat]

TypeOK ==
  /\ links \subseteq Edges
  /\ wire \subseteq Frames
  /\ seen \in [Nodes -> SUBSET Packets]
  /\ order \in [Nodes -> Seq(Packets)]
  /\ sent \subseteq Packets
  /\ heard \in [Nodes -> SUBSET Packets]
  /\ carried \in [Nodes \X Nodes \X Packets -> 0 .. 2]

Init ==
  /\ links = Edges
  /\ wire = {}
  /\ seen = [n \in Nodes |-> {}]
  /\ order = [n \in Nodes |-> <<>>]
  /\ sent = {}
  /\ heard = [n \in Nodes |-> {}]
  /\ carried = [x \in Nodes \X Nodes \X Packets |-> 0]

Neighbours(n) == {m \in Nodes : {n, m} \in links}

\* Outbound::All or Outbound::Except: one frame per link.
Frame(p, n, m, ttl) == [pkt |-> p, from |-> n, to |-> m, ttl |-> ttl]
PutOn(n, targets, p, ttl) == {Frame(p, n, m, ttl) : m \in targets}
OneMore(count) == IF count < 2 THEN count + 1 ELSE 2

\* Counted while the burst fits the memory; a larger one may be carried again.
Fits == IsFiniteSet(Packets) /\ Cardinality(Packets) <= ForwardedLimit
Count(n, targets, p) ==
  [x \in DOMAIN carried |->
     IF Fits /\ x[1] = n /\ x[2] \in targets /\ x[3] = p THEN OneMore(carried[x]) ELSE carried[x]]

Originate(p, ttl) ==
  LET n == p.origin
  IN /\ p \notin sent
     /\ sent' = sent \cup {p}
     /\ wire' = wire \cup PutOn(n, Neighbours(n), p, ttl)
     /\ carried' = Count(n, Neighbours(n), p)
     /\ UNCHANGED <<links, seen, order, heard>>

\* plan without the rule that presence stays on its link.
WantsForwardPresence(n, f) ==
  /\ f.pkt.origin # n
  /\ f.ttl > 1 /\ f.ttl <= MaxTtl
  /\ f.pkt.to # n
  /\ Neighbours(n) \ {f.from} # {}

\* plan without a look at the hop count.
WantsForwardForever(n, f) ==
  /\ f.pkt.origin # n
  /\ f.pkt.to # n
  /\ f.pkt.kind # "Announce"
  /\ Neighbours(n) \ {f.from} # {}

\* plan with an off-by-one on the last hop.
WantsForwardShort(n, f) ==
  /\ f.pkt.origin # n
  /\ f.ttl > 2 /\ f.ttl <= MaxTtl
  /\ f.pkt.to # n
  /\ f.pkt.kind # "Announce"
  /\ Neighbours(n) \ {f.from} # {}

\* plan: the reasons to suppress, in the order of the code.
WantsForward(n, f) ==
  /\ f.pkt.origin # n
  /\ f.ttl > 1 /\ f.ttl <= MaxTtl
  /\ f.pkt.to # n
  /\ f.pkt.kind # "Announce"
  /\ Neighbours(n) \ {f.from} # {}

\* accept that refreshes order but forgets to take the oldest out of seen.
AcceptKeepingSeen(n, p) ==
  /\ seen' = [seen EXCEPT ![n] = @ \cup {p}]
  /\ order' = [order EXCEPT ![n] =
       IF Len(@) < ForwardedLimit THEN Append(@, p) ELSE Append(Tail(@), p)]

\* Forwarded::accept on a first sighting: record it, and past the limit drop
\* the oldest from both the queue and the set.
Accept(n, p) ==
  IF Len(order[n]) < ForwardedLimit
  THEN /\ seen' = [seen EXCEPT ![n] = @ \cup {p}]
       /\ order' = [order EXCEPT ![n] = Append(@, p)]
  ELSE /\ seen' = [seen EXCEPT ![n] = (@ \cup {p}) \ {Head(Append(order[n], p))}]
       /\ order' = [order EXCEPT ![n] = Tail(Append(@, p))]

\* Every path's copy counts as new.
IsNewAlways(n, p) == TRUE

IsNew(n, p) == p \notin seen[n]

\* The onward copy keeps its hop count.
NoHopLess(ttl) == ttl

OneHopLess(ttl) == ttl - 1

\* TransportEvent::Frame: the relay decision first, then handle_frame, then
\* the onward copy with one hop less, to every link but the one it came on.
Receive(f) ==
  LET n == f.to
      onward == Neighbours(n) \ {f.from}
      rest == wire \ {f}
  IN /\ heard' = [heard EXCEPT ![n] = @ \cup {f.pkt}]
     /\ IF WantsForward(n, f) /\ IsNew(n, f.pkt)
        THEN /\ Accept(n, f.pkt)
             /\ wire' = rest \cup PutOn(n, onward, f.pkt, OneHopLess(f.ttl))
             /\ carried' = Count(n, onward, f.pkt)
        ELSE /\ wire' = rest
             /\ UNCHANGED <<seen, order, carried>>
     /\ UNCHANGED <<links, sent>>

\* A link drops, and with it what was crossing it.
LinkDown(e) ==
  /\ e \in links /\ Cardinality(Edges \ links) < LinkFailures
  /\ links' = links \ {e}
  /\ wire' = {f \in wire : {f.from, f.to} # e}
  /\ UNCHANGED <<seen, order, sent, heard, carried>>

Next ==
  \/ \E p \in Packets, ttl \in SendTtls : Originate(p, ttl)
  \/ \E f \in wire : Receive(f)
  \/ \E e \in links : LinkDown(e)

Spec == Init /\ [][Next]_vars

\* Frames on a link arrive, and the client loop drains what arrived.
Arrivals == \E f \in wire : Receive(f)
FairSpec == Spec /\ WF_vars(Arrivals)
-----------------------------------------------------------------------------
(* Properties *)

\* The memory of forwarded packets is consistent and bounded: the queue lists
\* each remembered packet once, and never more than the limit.
MemoryConsistent ==
  \A n \in Nodes :
    /\ Len(order[n]) <= ForwardedLimit
    /\ seen[n] = {order[n][i] : i \in DOMAIN order[n]}
    /\ IsInjective(order[n])

\* While a burst fits the memory, no packet is put on the same link in the
\* same direction twice: not by forwarding two copies that came over two
\* paths, not by forwarding back what the node itself had sent.
CarriedOnce ==
  Fits => \A x \in DOMAIN carried : carried[x] <= 1

\* Presence is heard by neighbours only, however the flood runs.
PresenceStaysLocal ==
  \A n \in Nodes, p \in Packets :
    (p \in heard[n] /\ p.kind = "Announce") => {n, p.origin} \in Edges

\* A flood uses no link twice in a direction while the burst fits the memory, whichever copy
\* wins each race, and presence stays with the neighbours whatever hop count it came with.
FloodContained == CarriedOnce /\ PresenceStaysLocal

\* Every flood ends, even when the memory is too small for the burst and
\* packets are forwarded again: the hop count runs out.
FloodEnds == <>[](wire = {})

\* A broadcast started with as many hops as the longest path has reaches every
\* node, whichever copy wins at each fork: a node that forwards a copy that took
\* a detour refuses the direct one, and the detour still has hops left.
FloodReachesAll ==
  \A p \in Packets, n \in Nodes :
    (p \in sent /\ p.to = Broadcast /\ p.kind = "Message" /\ n # p.origin)
       ~> (p \in heard[n])
=============================================================================
