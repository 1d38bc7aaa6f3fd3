------------------------------ MODULE Topology ------------------------------
(***************************************************************************)
(* The picture of the mesh (topology.rs), built on every frame from the     *)
(* table of peers: who announced itself and whom it says it can see.  The    *)
(* true links change underneath; announces come over a link or in the        *)
(* answer to a sync request, and an entry stays until it is pruned.          *)
(***************************************************************************)
EXTENDS Integers, Sequences, FiniteSets, FiniteSetsExt

CONSTANTS
  N,       \* peers are 1..N, in the order of their IDs
  Fillers, \* peers whose announce says whom they see; others leave it out
  Synced   \* whether announces also come in answers to sync requests

\* What the values of the constants have to be.
TopologyAssumption == N \in Nat \ {0} /\ Fillers \subseteq 1..N /\ Synced \in BOOLEAN

us == 0
Ids == 1..N
Everyone == 0..N

VARIABLES
  links,   \* pairs {a, b} that hold a Bluetooth link
  peers,   \* the peers in the table
  claims,  \* claims_neighbors of each
  last     \* what each announced last, which others hold in their archive

vars == <<links, peers, claims, last>>
-----------------------------------------------------------------------------
Linked(a, b) == {a, b} \in links
Sees(p) == {q \in Everyone : q # p /\ Linked(p, q)}

\* A peer's claim of us is kept.
BuildWhole(p) == claims[p] \ {p}

\* Topology::build: what is drawn of a peer's claims, without us and without itself
Build(p) == claims[p] \ {us, p}

\* Everybody that is named, whether we hear them or not
GossipedAll == UNION {Build(p) : p \in peers}

\* gossiped
Gossiped == UNION {Build(p) : p \in peers} \ peers

Sorted(S) == [i \in 1..Cardinality(S) |-> CHOOSE x \in S : Cardinality({y \in S : y < x}) = i - 1]

\* nodes: us, then who we hear, then who is named
Nodes ==
  LET node(p, hops) == [id |-> p, hops |-> hops]
      direct == Sorted(peers)
      named == Sorted(Gossiped)
  IN <<node(us, 0)>> \o [i \in DOMAIN direct |-> node(direct[i], 1)]
                     \o [i \in DOMAIN named |-> node(named[i], 2)]

\* edges: our links, and each claim once however often it is made
Edges ==
  {[from |-> us, to |-> p, observed |-> TRUE] : p \in peers}
  \cup UNION {{[from |-> Min({p, q}), to |-> Max({p, q}), observed |-> FALSE] : q \in Build(p)} : p \in peers}

\* Who a claim leads to, from the one that makes it only
AdjacentOneWay(p) == IF p \in peers THEN Build(p) ELSE {}

\* A way through us counts.
AdjacentThroughUs(p) ==
  (IF p \in peers THEN Build(p) \cup peers ELSE {}) \cup {q \in peers : p \in Build(q)}

\* adjacency of islands_without_us: a claim joins both ways
Adjacent(p) ==
  (IF p \in peers THEN Build(p) ELSE {}) \cup {q \in peers : p \in Build(q)}

\* The inner loop: all that can be reached from start and was not seen before
Flood(start, seen) ==
  LET f[n \in 0..N] ==
        IF n = 0 THEN {start}
        ELSE f[n-1] \cup (UNION {Adjacent(p) : p \in f[n-1]} \ seen)
  IN f[N]

\* islands_without_us
Islands ==
  LET all == peers \cup Gossiped
      g[k \in 0..N] ==
        IF k = 0 THEN [seen |-> {}, islands |-> {}]
        ELSE IF k \notin all \/ k \in g[k-1].seen THEN g[k-1]
        ELSE LET island == Flood(k, g[k-1].seen)
             IN [seen |-> g[k-1].seen \cup island, islands |-> g[k-1].islands \cup {island}]
  IN g[N].islands

WeAreABridge == Cardinality(Islands) > 1

\* layout: a named peer is drawn beyond the first, in the order of IDs, of those
\* that name it
Anchor(p) == Min({q \in peers : p \in Build(q)})

\* layout: the ring of each and the neighbour it is drawn beyond
Layout ==
  [p \in {us} \cup peers \cup Gossiped |->
     IF p = us THEN <<0, us>> ELSE IF p \in peers THEN <<1, us>> ELSE <<2, Anchor(p)>>]
-----------------------------------------------------------------------------
Init ==
  /\ links = {} /\ peers = {}
  /\ claims = [p \in Ids |-> {}] /\ last = [p \in Ids |-> {}]

LinkUp(a, b) ==
  /\ a # b /\ ~Linked(a, b)
  /\ links' = links \cup {{a, b}}
  /\ UNCHANGED <<peers, claims, last>>

LinkDown(a, b) ==
  /\ Linked(a, b)
  /\ links' = links \ {{a, b}}
  /\ UNCHANGED <<peers, claims, last>>

\* A peer announces itself to its neighbours; relays do not carry it further.
\* The list replaces the one held before.
Announce(p) ==
  /\ last' = [last EXCEPT ![p] = IF p \in Fillers THEN Sees(p) ELSE {}]
  /\ IF Linked(us, p)
     THEN peers' = peers \cup {p} /\ claims' = [claims EXCEPT ![p] = last'[p]]
     ELSE UNCHANGED <<peers, claims>>
  /\ UNCHANGED links

\* A neighbour answers our sync request with the announce of p it has archived.
SyncReply(p) ==
  /\ Synced
  /\ \E q \in Ids : q # p /\ Linked(us, q) /\ Linked(q, p)
  /\ peers' = peers \cup {p} /\ claims' = [claims EXCEPT ![p] = last[p]]
  /\ UNCHANGED <<links, last>>

\* prune_peers, or the peer says that it leaves
Forget(p) ==
  /\ p \in peers
  /\ peers' = peers \ {p} /\ claims' = [claims EXCEPT ![p] = {}]
  /\ UNCHANGED <<links, last>>

Next ==
  \/ \E a \in Everyone, b \in Ids : a < b /\ (LinkUp(a, b) \/ LinkDown(a, b))
  \/ \E p \in Ids : Announce(p) \/ SyncReply(p) \/ Forget(p)

Spec == Init /\ [][Next]_vars
-----------------------------------------------------------------------------
(* Properties *)

\* Every peer is one node, both ends of every edge are nodes, and a named peer
\* is drawn beyond a neighbour that names it, in every table that stale and
\* contradicting claims produce (nodes, edges, layout).
Drawable ==
  LET ids == {Nodes[i].id : i \in DOMAIN Nodes}
      place == Layout
  IN /\ Cardinality(ids) = Len(Nodes)
     /\ \A e \in Edges : e.from \in ids /\ e.to \in ids
     /\ \A p \in Gossiped : place[p][1] = 2 /\ p \in Build(place[p][2])
     /\ \A e \in Edges : e.observed = (e.from = us)

\* The islands are a partition of all peers known, and no claim joins two of
\* them: which peer the search starts from makes no difference
\* (islands_without_us).
IslandsApart ==
  LET islands == Islands IN
  /\ UNION islands = peers \cup Gossiped
  /\ \A a \in islands, b \in islands : a # b =>
       /\ a \cap b = {}
       /\ \A e \in Edges : e.observed \/ ~(e.from \in a /\ e.to \in b)

\* Reached(p): the peers that p reaches over true links without us.
Reached(p) ==
  LET f[n \in 0..N] == IF n = 0 THEN {p} ELSE {q \in Ids : q \in f[n-1] \/ \E r \in f[n-1] : Linked(r, q)}
  IN f[N]

\* The claims held are what their peers see now.
Fresh == \A p \in peers : Linked(us, p) /\ claims[p] \subseteq Sees(p)

\* While the claims held are true, a mesh that falls apart without us is shown
\* as one we bridge (we_are_a_bridge).
NoMissedBridge ==
  Fresh /\ (\E p \in peers, q \in peers : q \notin Reached(p)) => WeAreABridge

\* When the picture says that we are the only path, we are (we_are_a_bridge).
BridgeIsReal ==
  Fresh /\ WeAreABridge => \E p \in peers \cup Gossiped, q \in peers \cup Gossiped : q \notin Reached(p)

\* A peer drawn as a neighbour was linked when its entry was made or refreshed
\* (Reach::Direct).
HeardOverALink == [][\A p \in Ids : p \in peers' \ peers => Linked(us, p)]_vars
=============================================================================
