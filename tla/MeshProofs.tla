----------------------------- MODULE MeshProofs -----------------------------
(***************************************************************************)
(* What the packets of the mesh may never do, for every mesh, burst and      *)
(* memory.  The flood: the memory of forwarded packets stays consistent, a   *)
(* burst that fits it crosses each link at most once per direction, and      *)
(* presence stays with the neighbours.  Fragments: an assembly yields one    *)
(* transfer, whole, and gives up no progress for a newcomer.  Presence: what *)
(* is shown, what is offered to the room and what is held of a listed peer   *)
(* agree.                                                                    *)
(***************************************************************************)
EXTENDS Relay, Fragments, Presence, FiniteSetTheorems, TLAPS

\* A frame crosses a link of the mesh, and presence only the links of its origin.
WireLocal ==
  \A f \in wire :
    /\ {f.from, f.to} \in Edges
    /\ f.pkt.kind = "Announce" => f.from = f.pkt.origin

\* While the burst fits, what a node has put on a link it has sent itself or remembers.
CarriedKnown ==
  Fits => \A n, m \in Nodes, p \in Packets :
            carried[<<n, m, p>>] # 0 => IF p.origin = n THEN p \in sent ELSE p \in seen[n]

\* Inductive: what the next step may rely on.
FloodInv ==
  /\ TypeOK
  /\ MemoryConsistent
  /\ WireLocal
  /\ CarriedKnown
  /\ CarriedOnce
  /\ PresenceStaysLocal
-----------------------------------------------------------------------------
\* A memory that has room for the burst never forgets: while a packet of the burst is
\* unknown, the queue is not full (FORWARDED_LIMIT in relay.rs).
LEMMA RoomLeft ==
  ASSUME RelayAssumption, TypeOK, MemoryConsistent, Fits,
         NEW n \in Nodes, NEW p \in Packets, p \notin seen[n]
  PROVE  Len(order[n]) < ForwardedLimit
<1> DEFINE q == order[n]
           others == Packets \ {p}
<1>1. q \in Seq(Packets) /\ Len(q) \in Nat /\ ForwardedLimit \in Nat
  BY DEF TypeOK, RelayAssumption
<1>2. \A i \in 1 .. Len(q) : q[i] \in others
  BY <1>1 DEF MemoryConsistent
<1>3. IsFiniteSet(others) /\ Cardinality(others) = Cardinality(Packets) - 1
        /\ Cardinality(Packets) \in Nat
  BY FS_RemoveElement, FS_CardinalityType DEF Fits
<1>4. IsFiniteSet(1 .. Len(q)) /\ Cardinality(1 .. Len(q)) = Len(q)
  BY <1>1, FS_Interval
<1>5. q \in [1 .. Len(q) -> others]
  BY <1>1, <1>2
<1>6. SUFFICES ASSUME Len(q) >= ForwardedLimit PROVE FALSE
  BY <1>1
<1>7. Cardinality(others) < Cardinality(1 .. Len(q))
  BY <1>1, <1>3, <1>4, <1>6 DEF Fits
<1>8. \E x, y \in 1 .. Len(q) : x # y /\ q[x] = q[y]
  <2> HIDE DEF q, others
  <2> QED BY <1>3, <1>4, <1>5, <1>7, FS_PigeonHole
<1>9. QED
  BY <1>1, <1>8 DEF MemoryConsistent, IsInjective

\* accept keeps the queue and the set of one node the same packets, each once, within
\* the limit.
LEMMA AcceptConsistent ==
  ASSUME RelayAssumption, TypeOK, MemoryConsistent,
         NEW n \in Nodes, NEW p \in Packets, p \notin seen[n], Accept(n, p)
  PROVE  /\ seen' \in [Nodes -> SUBSET Packets]
         /\ order' \in [Nodes -> Seq(Packets)]
         /\ MemoryConsistent'
         /\ Fits => \A k \in Nodes : seen'[k] = IF k = n THEN seen[k] \cup {p} ELSE seen[k]
<1> DEFINE q == order[n]
<1>1. q \in Seq(Packets) /\ Len(q) \in Nat /\ ForwardedLimit \in Nat \ {0}
      /\ seen \in [Nodes -> SUBSET Packets] /\ order \in [Nodes -> Seq(Packets)]
  BY DEF TypeOK, RelayAssumption
<1>2. /\ Len(q) <= ForwardedLimit
      /\ seen[n] = {q[i] : i \in 1 .. Len(q)}
      /\ \A i, j \in 1 .. Len(q) : q[i] = q[j] => i = j
  BY <1>1 DEF MemoryConsistent, IsInjective
<1>3. /\ Append(q, p) \in Seq(Packets)
      /\ Len(Append(q, p)) = Len(q) + 1
      /\ \A i \in 1 .. Len(q) : Append(q, p)[i] = q[i]
      /\ Append(q, p)[Len(q) + 1] = p
  BY <1>1
<1>4. CASE Len(q) < ForwardedLimit
  <2>1. /\ seen' = [seen EXCEPT ![n] = seen[n] \cup {p}]
        /\ order' = [order EXCEPT ![n] = Append(q, p)]
    BY <1>4 DEF Accept
  <2>2. seen' \in [Nodes -> SUBSET Packets] /\ order' \in [Nodes -> Seq(Packets)]
    BY <2>1, <1>1, <1>3
  <2>3. MemoryConsistent'
    <3> SUFFICES ASSUME NEW k \in Nodes
                 PROVE  /\ Len(order'[k]) <= ForwardedLimit
                        /\ seen'[k] = {order'[k][i] : i \in DOMAIN order'[k]}
                        /\ IsInjective(order'[k])
      BY DEF MemoryConsistent
    <3>1. CASE k # n
      BY <3>1, <2>1, <1>1 DEF MemoryConsistent
    <3>2. CASE k = n
      <4> DEFINE r == Append(q, p)
      <4>1. order'[k] = r /\ seen'[k] = seen[n] \cup {p}
        BY <3>2, <2>1, <1>1
      <4>2. DOMAIN r = 1 .. Len(q) + 1
        BY <1>3
      <4>3. \A i \in 1 .. Len(q) + 1 :
              \/ i \in 1 .. Len(q) /\ r[i] = q[i] /\ r[i] \in seen[n]
              \/ i = Len(q) + 1 /\ r[i] = p
        <5> TAKE i \in 1 .. Len(q) + 1
        <5>1. CASE i = Len(q) + 1
          BY <5>1, <1>3
        <5>2. CASE i # Len(q) + 1
          <6>1. i \in 1 .. Len(q)
            BY <5>2, <1>1
          <6>2. r[i] = q[i]
            BY <6>1, <1>3
          <6>3. q[i] \in seen[n]
            BY <6>1, <1>2
          <6> HIDE DEF r
          <6>4. QED BY <6>1, <6>2, <6>3
        <5>3. QED BY <5>1, <5>2
      <4>4. \A i \in 1 .. Len(q) : i \in 1 .. Len(q) + 1 /\ r[i] = q[i]
        BY <1>1, <1>3
      <4>5. Len(q) + 1 \in 1 .. Len(q) + 1 /\ r[Len(q) + 1] = p /\ Len(r) = Len(q) + 1
        BY <1>1, <1>3
      <4> HIDE DEF r
      <4>6. seen'[k] = {order'[k][i] : i \in DOMAIN order'[k]}
        <5>1. \A x \in seen[n] \cup {p} : \E i \in 1 .. Len(q) + 1 : x = r[i]
          BY <4>4, <4>5, <1>2
        <5>2. \A i \in 1 .. Len(q) + 1 : r[i] \in seen[n] \cup {p}
          BY <4>3
        <5>3. QED BY <5>1, <5>2, <4>1, <4>2
      <4>7. \A i, j \in 1 .. Len(q) + 1 : r[i] = r[j] => i = j
        BY <4>3, <1>2
      <4>8. Len(r) <= ForwardedLimit
        BY <4>5, <1>1, <1>4
      <4>9. QED BY <4>1, <4>2, <4>6, <4>7, <4>8 DEF IsInjective
    <3>3. QED BY <3>1, <3>2
  <2>4. QED BY <2>1, <2>2, <2>3, <1>1
<1>5. CASE ~(Len(q) < ForwardedLimit)
  <2> DEFINE r == Tail(Append(q, p))
  <2>1. /\ seen' = [seen EXCEPT ![n] = (seen[n] \cup {p}) \ {Head(Append(q, p))}]
        /\ order' = [order EXCEPT ![n] = r]
    BY <1>5 DEF Accept
  <2>2. /\ Len(q) = ForwardedLimit /\ Len(q) >= 1
        /\ Head(Append(q, p)) = q[1]
        /\ r \in Seq(Packets) /\ Len(r) = Len(q)
        /\ \A i \in 1 .. Len(q) : r[i] = Append(q, p)[i + 1]
    <3>1. Len(q) = ForwardedLimit /\ Len(q) >= 1
      BY <1>1, <1>2, <1>5
    <3> DEFINE s == Append(q, p)
    <3>2. s \in Seq(Packets) /\ Len(s) = Len(q) + 1 /\ s[1] = q[1]
      BY <3>1, <1>1, <1>3
    <3> HIDE DEF s
    <3>3. Head(s) = s[1] /\ Tail(s) \in Seq(Packets) /\ Len(Tail(s)) = Len(q)
          /\ \A i \in 1 .. Len(q) : Tail(s)[i] = s[i + 1]
      BY <3>1, <3>2, <1>1
    <3>4. QED BY <3>1, <3>2, <3>3 DEF s
  <2>3. seen' \in [Nodes -> SUBSET Packets] /\ order' \in [Nodes -> Seq(Packets)]
    BY <2>1, <2>2, <1>1
  <2>4. MemoryConsistent'
    <3> SUFFICES ASSUME NEW k \in Nodes
                 PROVE  /\ Len(order'[k]) <= ForwardedLimit
                        /\ seen'[k] = {order'[k][i] : i \in DOMAIN order'[k]}
                        /\ IsInjective(order'[k])
      BY DEF MemoryConsistent
    <3>1. CASE k # n
      BY <3>1, <2>1, <1>1 DEF MemoryConsistent
    <3>2. CASE k = n
      <4>1. order'[k] = r /\ seen'[k] = (seen[n] \cup {p}) \ {q[1]}
        BY <3>2, <2>1, <2>2, <1>1
      <4>2. DOMAIN r = 1 .. Len(q)
        BY <2>2
      <4> HIDE DEF r
      <4>3. \A i, j \in 1 .. Len(q) : r[i] = r[j] => i = j
        BY <1>1, <1>2, <1>3, <2>2
      <4>4. \A i \in 1 .. Len(q) : r[i] \in (seen[n] \cup {p}) \ {q[1]}
        BY <1>1, <1>2, <1>3, <2>2
      <4>5. \A x \in (seen[n] \cup {p}) \ {q[1]} : \E i \in 1 .. Len(q) : x = r[i]
        <5>1. r[Len(q)] = p
          BY <1>1, <1>3, <2>2
        <5>2. \A i \in 1 .. Len(q) : i # 1 => i - 1 \in 1 .. Len(q) /\ r[i - 1] = q[i]
          BY <1>1, <1>3, <2>2
        <5>3. \A x \in seen[n] \ {q[1]} : \E i \in 1 .. Len(q) : x = r[i]
          <6> TAKE x \in seen[n] \ {q[1]}
          <6>1. PICK i \in 1 .. Len(q) : x = q[i]
            BY <1>2
          <6>2. i # 1
            BY <6>1
          <6>3. QED BY <6>1, <6>2, <5>2
        <5>4. Len(q) \in 1 .. Len(q)
          BY <1>1, <2>2
        <5>5. QED BY <5>1, <5>3, <5>4
      <4>6. seen'[k] = {order'[k][i] : i \in DOMAIN order'[k]}
        BY <4>1, <4>2, <4>4, <4>5
      <4>7. IsInjective(r)
        BY <4>2, <4>3 DEF IsInjective
      <4>8. Len(r) <= ForwardedLimit
        BY <2>2, <1>1
      <4>9. QED BY <4>1, <4>6, <4>7, <4>8
    <3>3. QED BY <3>1, <3>2
  <2>5. ~Fits
    BY <1>1, <1>5, RoomLeft
  <2>6. QED BY <2>3, <2>4, <2>5
<1>6. QED BY <1>4, <1>5
-----------------------------------------------------------------------------
\* Nothing has been sent or heard yet.
LEMMA FloodInit == ASSUME RelayAssumption PROVE Init => FloodInv
<1> SUFFICES ASSUME Init PROVE FloodInv
  OBVIOUS
<1>1. TypeOK
  BY DEF Init, TypeOK
<1>2. MemoryConsistent
  BY DEF Init, MemoryConsistent, IsInjective, RelayAssumption
<1>3. WireLocal /\ CarriedKnown /\ CarriedOnce /\ PresenceStaysLocal
  BY DEF Init, WireLocal, CarriedKnown, CarriedOnce, PresenceStaysLocal
<1>4. QED BY <1>1, <1>2, <1>3 DEF FloodInv

\* The frames one node puts on its links.
LEMMA FramesPut ==
  ASSUME RelayAssumption, links \subseteq Edges,
         NEW n \in Nodes, NEW p \in Packets, NEW ttl \in Nat,
         NEW targets, targets \subseteq Neighbours(n)
  PROVE  /\ PutOn(n, targets, p, ttl) \subseteq Frames
         /\ \A f \in PutOn(n, targets, p, ttl) :
              f.pkt = p /\ f.from = n /\ {f.from, f.to} \in Edges
<1> SUFFICES ASSUME NEW f \in PutOn(n, targets, p, ttl)
             PROVE  f \in Frames /\ f.pkt = p /\ f.from = n /\ {f.from, f.to} \in Edges
  OBVIOUS
<1>1. PICK m \in targets : f = [pkt |-> p, from |-> n, to |-> m, ttl |-> ttl]
  BY DEF PutOn, Frame
<1>2. m \in Nodes /\ {n, m} \in Edges
  BY DEF Neighbours
<1>3. QED BY <1>1, <1>2 DEF Frames

\* Putting a packet on links it has not crossed before counts one on those and leaves the
\* others.
LEMMA CountedOnce ==
  ASSUME TypeOK, NEW n \in Nodes, NEW p \in Packets, NEW targets, carried' = Count(n, targets, p),
         CarriedOnce, Fits => \A m \in Nodes : carried[<<n, m, p>>] = 0
  PROVE  /\ carried' \in [Nodes \X Nodes \X Packets -> 0 .. 2]
         /\ CarriedOnce'
         /\ \A k, m \in Nodes, x \in Packets :
              k # n \/ x # p => carried'[<<k, m, x>>] = carried[<<k, m, x>>]
<1>1. DOMAIN carried = Nodes \X Nodes \X Packets
      /\ \A x \in Nodes \X Nodes \X Packets : carried[x] \in 0 .. 2
  BY DEF TypeOK
<1>2. \A c \in 0 .. 2 : OneMore(c) \in 0 .. 2
  BY DEF OneMore
<1>3. OneMore(0) = 1
  BY DEF OneMore
<1>4. /\ DOMAIN carried' = Nodes \X Nodes \X Packets
      /\ carried' = [x \in Nodes \X Nodes \X Packets |-> carried'[x]]
      /\ \A x \in Nodes \X Nodes \X Packets :
           carried'[x] = IF Fits /\ x[1] = n /\ x[2] \in targets /\ x[3] = p
                         THEN OneMore(carried[x]) ELSE carried[x]
  BY <1>1 DEF Count
<1>5. carried' \in [Nodes \X Nodes \X Packets -> 0 .. 2]
  BY <1>1, <1>2, <1>4
<1>6. CarriedOnce'
  <2> SUFFICES ASSUME Fits, NEW x \in Nodes \X Nodes \X Packets PROVE carried'[x] <= 1
    BY <1>4 DEF CarriedOnce, Fits
  <2>1. carried[x] <= 1
    BY <1>1 DEF CarriedOnce
  <2>2. CASE x[1] = n /\ x[2] \in targets /\ x[3] = p
    <3>1. x = <<n, x[2], p>> /\ x[2] \in Nodes
      BY <2>2
    <3>2. carried[x] = 0
      BY <3>1
    <3>3. QED BY <3>2, <2>2, <1>3, <1>4
  <2>3. QED BY <2>1, <2>2, <1>4
<1>7. \A k, m \in Nodes, x \in Packets :
        k # n \/ x # p => carried'[<<k, m, x>>] = carried[<<k, m, x>>]
  BY <1>4
<1>8. QED BY <1>5, <1>6, <1>7

\* originate_packet and its callers put a packet of this node on its links, once.
LEMMA OriginateStep ==
  ASSUME RelayAssumption, FloodInv, NEW p \in Packets, NEW ttl \in SendTtls, Originate(p, ttl)
  PROVE  FloodInv'
<1> DEFINE n == p.origin
<1>1. TypeOK /\ n \in Nodes /\ ttl \in Nat /\ links \subseteq Edges
  BY DEF FloodInv, TypeOK, RelayAssumption
<1>2. /\ p \notin sent /\ sent' = sent \cup {p}
      /\ wire' = wire \cup PutOn(n, Neighbours(n), p, ttl)
      /\ carried' = Count(n, Neighbours(n), p)
      /\ links' = links /\ seen' = seen /\ order' = order /\ heard' = heard
  BY DEF Originate
<1>3. Fits => \A m \in Nodes : carried[<<n, m, p>>] = 0
  BY <1>1, <1>2 DEF FloodInv, CarriedKnown
<1>4. /\ carried' \in [Nodes \X Nodes \X Packets -> 0 .. 2]
      /\ CarriedOnce'
      /\ \A k, m \in Nodes, x \in Packets :
           k # n \/ x # p => carried'[<<k, m, x>>] = carried[<<k, m, x>>]
  BY <1>1, <1>2, <1>3, CountedOnce DEF FloodInv
<1>5. /\ PutOn(n, Neighbours(n), p, ttl) \subseteq Frames
      /\ \A f \in PutOn(n, Neighbours(n), p, ttl) :
           f.pkt = p /\ f.from = n /\ {f.from, f.to} \in Edges
  BY <1>1, FramesPut
<1>6. TypeOK'
  BY <1>1, <1>2, <1>4, <1>5 DEF TypeOK
<1>7. WireLocal'
  BY <1>2, <1>5 DEF FloodInv, WireLocal
<1>8. CarriedKnown'
  <2> SUFFICES ASSUME Fits, NEW k \in Nodes, NEW m \in Nodes, NEW x \in Packets,
                      carried'[<<k, m, x>>] # 0
               PROVE  IF x.origin = k THEN x \in sent' ELSE x \in seen'[k]
    BY DEF CarriedKnown, Fits
  <2>1. CASE k = n /\ x = p
    BY <2>1, <1>2
  <2>2. CASE k # n \/ x # p
    BY <2>2, <1>2, <1>4 DEF FloodInv, CarriedKnown
  <2>3. QED BY <2>1, <2>2
<1>9. MemoryConsistent' /\ PresenceStaysLocal'
  BY <1>2 DEF FloodInv, MemoryConsistent, PresenceStaysLocal
<1>10. QED BY <1>4, <1>6, <1>7, <1>8, <1>9 DEF FloodInv

\* A frame taken off a link is accepted once and forwarded at most once, on the other links.
LEMMA ReceiveStep ==
  ASSUME RelayAssumption, FloodInv, NEW f \in wire, Receive(f)
  PROVE  FloodInv'
<1> DEFINE n == f.to
           p == f.pkt
           onward == Neighbours(n) \ {f.from}
<1>1. /\ TypeOK /\ f \in Frames /\ n \in Nodes /\ p \in Packets /\ f.ttl \in Nat
      /\ links \subseteq Edges /\ wire \subseteq Frames
  BY DEF FloodInv, TypeOK, Frames
<1>2. /\ heard' = [heard EXCEPT ![n] = heard[n] \cup {p}]
      /\ links' = links /\ sent' = sent
  BY DEF Receive
<1>3. PresenceStaysLocal'
  <2>1. p.kind = "Announce" => {n, p.origin} \in Edges
    <3>1. {f.from, f.to} \in Edges /\ (p.kind = "Announce" => f.from = p.origin)
      BY DEF FloodInv, WireLocal
    <3>2. {f.from, n} = {n, f.from}
      OBVIOUS
    <3>3. QED BY <3>1, <3>2
  <2>2. heard \in [Nodes -> SUBSET Packets]
    BY <1>1 DEF TypeOK
  <2>3. QED BY <1>2, <2>1, <2>2 DEF FloodInv, PresenceStaysLocal
<1>4. heard' \in [Nodes -> SUBSET Packets]
  BY <1>1, <1>2 DEF TypeOK
<1>5. CASE WantsForward(n, f) /\ IsNew(n, p)
  <2>1. /\ Accept(n, p)
        /\ wire' = (wire \ {f}) \cup PutOn(n, onward, p, OneHopLess(f.ttl))
        /\ carried' = Count(n, onward, p)
    BY <1>5 DEF Receive
  <2>2. p.origin # n /\ p.kind # "Announce" /\ p \notin seen[n] /\ OneHopLess(f.ttl) \in Nat
    BY <1>1, <1>5 DEF WantsForward, IsNew, OneHopLess
  <2>3. /\ seen' \in [Nodes -> SUBSET Packets]
        /\ order' \in [Nodes -> Seq(Packets)]
        /\ MemoryConsistent'
        /\ Fits => \A k \in Nodes : seen'[k] = IF k = n THEN seen[k] \cup {p} ELSE seen[k]
    BY <1>1, <2>1, <2>2, AcceptConsistent DEF FloodInv
  <2>4. Fits => \A m \in Nodes : carried[<<n, m, p>>] = 0
    BY <1>1, <2>2 DEF FloodInv, CarriedKnown
  <2>5. /\ carried' \in [Nodes \X Nodes \X Packets -> 0 .. 2]
        /\ CarriedOnce'
        /\ \A k, m \in Nodes, x \in Packets :
             k # n \/ x # p => carried'[<<k, m, x>>] = carried[<<k, m, x>>]
    BY <1>1, <2>1, <2>4, CountedOnce DEF FloodInv
  <2>6. /\ PutOn(n, onward, p, OneHopLess(f.ttl)) \subseteq Frames
        /\ \A g \in PutOn(n, onward, p, OneHopLess(f.ttl)) :
             g.pkt = p /\ g.from = n /\ {g.from, g.to} \in Edges
    <3>1. onward \subseteq Neighbours(n)
      OBVIOUS
    <3> HIDE DEF n, p, onward
    <3>2. QED BY <1>1, <2>2, <3>1, FramesPut
  <2>7. TypeOK'
    BY <1>1, <1>2, <1>4, <2>1, <2>3, <2>5, <2>6 DEF TypeOK
  <2>8. WireLocal'
    BY <2>1, <2>2, <2>6 DEF FloodInv, WireLocal
  <2>9. CarriedKnown'
    <3> SUFFICES ASSUME Fits, NEW k \in Nodes, NEW m \in Nodes, NEW x \in Packets,
                        carried'[<<k, m, x>>] # 0
                 PROVE  IF x.origin = k THEN x \in sent' ELSE x \in seen'[k]
      BY DEF CarriedKnown, Fits
    <3>1. CASE k = n /\ x = p
      BY <3>1, <2>2, <2>3
    <3>2. CASE k # n \/ x # p
      <4>1. carried[<<k, m, x>>] # 0
        BY <3>2, <2>5
      <4>2. IF x.origin = k THEN x \in sent ELSE x \in seen[k]
        BY <4>1 DEF FloodInv, CarriedKnown
      <4>3. QED BY <4>2, <1>2, <2>3
    <3>3. QED BY <3>1, <3>2
  <2>10. QED BY <1>3, <2>3, <2>5, <2>7, <2>8, <2>9 DEF FloodInv
<1>6. CASE ~(WantsForward(n, f) /\ IsNew(n, p))
  <2>1. wire' = wire \ {f} /\ seen' = seen /\ order' = order /\ carried' = carried
    BY <1>6 DEF Receive
  <2>2. TypeOK'
    BY <1>1, <1>2, <1>4, <2>1 DEF TypeOK
  <2>3. MemoryConsistent' /\ WireLocal'
    BY <2>1 DEF FloodInv, MemoryConsistent, WireLocal
  <2>4. CarriedKnown' /\ CarriedOnce'
    BY <1>2, <2>1 DEF FloodInv, CarriedKnown, CarriedOnce, Fits
  <2>5. QED BY <1>3, <2>2, <2>3, <2>4 DEF FloodInv
<1>7. QED BY <1>5, <1>6

\* A link that goes takes its frames with it.
LEMMA LinkDownStep ==
  ASSUME FloodInv, NEW e \in links, LinkDown(e)
  PROVE  FloodInv'
<1>1. /\ links' \subseteq links /\ wire' \subseteq wire
      /\ seen' = seen /\ order' = order /\ sent' = sent /\ heard' = heard /\ carried' = carried
  BY DEF LinkDown
<1>2. TypeOK'
  BY <1>1 DEF FloodInv, TypeOK
<1>3. MemoryConsistent' /\ WireLocal' /\ PresenceStaysLocal'
  BY <1>1 DEF FloodInv, MemoryConsistent, WireLocal, PresenceStaysLocal
<1>4. CarriedKnown' /\ CarriedOnce'
  BY <1>1 DEF FloodInv, CarriedKnown, CarriedOnce, Fits
<1>5. QED BY <1>2, <1>3, <1>4 DEF FloodInv

\* Every step of the flood keeps the inductive invariant.
LEMMA FloodStep == ASSUME RelayAssumption PROVE FloodInv /\ [Next]_vars => FloodInv'
<1> SUFFICES ASSUME FloodInv, [Next]_vars PROVE FloodInv'
  OBVIOUS
<1>1. CASE UNCHANGED vars
  <2> USE <1>1 DEF vars, FloodInv
  <2>1. TypeOK'
    BY DEF TypeOK
  <2>2. MemoryConsistent' /\ WireLocal' /\ PresenceStaysLocal'
    BY DEF MemoryConsistent, WireLocal, PresenceStaysLocal
  <2>3. CarriedKnown' /\ CarriedOnce'
    BY DEF CarriedKnown, CarriedOnce, Fits
  <2>4. QED BY <2>1, <2>2, <2>3
<1>2. CASE \E p \in Packets, ttl \in SendTtls : Originate(p, ttl)
  BY <1>2, OriginateStep
<1>3. CASE \E f \in wire : Receive(f)
  BY <1>3, ReceiveStep
<1>4. CASE \E e \in links : LinkDown(e)
  BY <1>4, LinkDownStep
<1>5. QED BY <1>1, <1>2, <1>3, <1>4 DEF Next
-----------------------------------------------------------------------------
\* The inductive invariant holds in every reachable state.
LEMMA FloodInvariant == ASSUME RelayAssumption PROVE Spec => []FloodInv
<1>1. Init => FloodInv
  BY FloodInit
<1>2. FloodInv /\ [Next]_vars => FloodInv'
  BY FloodStep
<1>3. QED BY <1>1, <1>2, PTL DEF Spec

\* In every mesh and for every burst: a flood that fits the memory puts a packet on no link
\* twice in one direction, whichever of its copies arrives first where and whatever links go
\* down, and an announce is heard by the neighbours of its origin only (plan and accept in
\* relay.rs, the frame branch of the client loop).
THEOREM FloodStaysContained == ASSUME RelayAssumption PROVE Spec => []FloodContained
<1>1. FloodInv => FloodContained
  BY DEF FloodInv, FloodContained
<1>2. QED BY <1>1, FloodInvariant, PTL

\* The memory of forwarded packets lists what its set holds, each once and within
\* FORWARDED_LIMIT, also while it overflows (Forwarded::accept).
THEOREM MemoryStaysConsistent == ASSUME RelayAssumption PROVE Spec => []MemoryConsistent
<1>1. FloodInv => MemoryConsistent
  BY DEF FloodInv
<1>2. QED BY <1>1, FloodInvariant, PTL
-----------------------------------------------------------------------------
(* Fragments *)

Transfers == [sender : Senders, id : Ids, total : Nat \ {0}]
Pieces == [sender : Senders, id : Ids, index : Nat, total : Nat, of : Nat]
Assemblies == [started : Nat, pieces : Seq(Nat)]

\* A fragment carries a piece of a transfer that was started; its total may be one too high
\* when its sender started over.
Genuine(f, ts) ==
  /\ f.of \in DOMAIN ts
  /\ f.sender = ts[f.of].sender /\ f.id = ts[f.of].id
  /\ f.index \in 1 .. ts[f.of].total
  /\ f.total = ts[f.of].total \/ f.total = ts[f.of].total + 1

\* An assembly holds pieces of the one transfer of its key.  A place past the end of that
\* transfer stays empty.
Filled(k, e, ts) ==
  \E t \in DOMAIN ts :
    /\ k = <<ts[t].sender, ts[t].id>>
    /\ Len(e.pieces) = ts[t].total \/ Len(e.pieces) = ts[t].total + 1
    /\ \A i \in DOMAIN e.pieces : e.pieces[i] = 0 \/ (e.pieces[i] = t /\ i <= ts[t].total)

\* What an assembly keeps between two fragments: a piece, room for one, and its size.
InProgress(e, t) ==
  /\ Received(e) \in 1 .. MaxBytes
  /\ \E i \in DOMAIN e.pieces : e.pieces[i] = 0
  /\ e.started <= t

Good(ts) == {f \in Pieces : Genuine(f, ts)}

\* No sender draws an id twice (a fresh random id per split).
DistinctIds(ts) ==
  \A t, u \in DOMAIN ts : ts[t].sender = ts[u].sender /\ ts[t].id = ts[u].id => t = u

\* Assemblies in flight, each of them of one transfer.
FlightSound(a, ts) ==
  /\ a \in [DOMAIN a -> Assemblies]
  /\ IsFiniteSet(DOMAIN a) /\ Cardinality(DOMAIN a) <= MaxInFlight
  /\ \A k \in DOMAIN a : Filled(k, a[k], ts)

\* Inductive: what the next fragment may rely on.
AssemblyInv ==
  /\ transfers \in Seq(Transfers) /\ whole \in Seq(Nat) /\ Len(whole) = Len(transfers)
  /\ DistinctIds(transfers)
  /\ sending \in [Senders -> Seq(Good(transfers))]
  /\ inbox \in [Senders -> Seq(Good(transfers))]
  /\ \A s \in Senders : Len(inbox[s]) <= Depth
  /\ air \subseteq Good(transfers)
  /\ FlightSound(asm, transfers)
  /\ \A k \in DOMAIN asm : InProgress(asm[k], now)
  /\ NeverSpliced
  /\ now \in Nat

\* Starting another transfer leaves every fragment and every assembly what it was.
LEMMA TransferAdded ==
  ASSUME NEW ts \in Seq(Transfers), NEW x \in Transfers
  PROVE  /\ Append(ts, x) \in Seq(Transfers)
         /\ Len(ts) \in Nat /\ Len(Append(ts, x)) = Len(ts) + 1 /\ Append(ts, x)[Len(ts) + 1] = x
         /\ Good(ts) \subseteq Good(Append(ts, x))
         /\ \A k, e : Filled(k, e, ts) => Filled(k, e, Append(ts, x))
<1> DEFINE us == Append(ts, x)
<1>1. /\ us \in Seq(Transfers) /\ Len(ts) \in Nat /\ Len(us) = Len(ts) + 1 /\ us[Len(ts) + 1] = x
      /\ \A t \in DOMAIN ts : t \in DOMAIN us /\ us[t] = ts[t]
  OBVIOUS
<1> HIDE DEF us
<1>2. Good(ts) \subseteq Good(us)
  BY <1>1 DEF Good, Genuine
<1>3. ASSUME NEW k, NEW e, Filled(k, e, ts) PROVE Filled(k, e, us)
  <2>1. PICK t \in DOMAIN ts :
          /\ k = <<ts[t].sender, ts[t].id>>
          /\ Len(e.pieces) = ts[t].total \/ Len(e.pieces) = ts[t].total + 1
          /\ \A i \in DOMAIN e.pieces : e.pieces[i] = 0 \/ (e.pieces[i] = t /\ i <= ts[t].total)
    BY <1>3 DEF Filled
  <2>2. t \in DOMAIN us /\ us[t] = ts[t]
    BY <1>1
  <2>3. QED BY <2>1, <2>2 DEF Filled
<1>4. QED BY <1>1, <1>2, <1>3 DEF us

\* A transfer that was started has a place and a total.
LEMMA TransferAt ==
  ASSUME NEW ts \in Seq(Transfers), NEW t \in DOMAIN ts
  PROVE  ts[t] \in Transfers /\ ts[t].total \in Nat /\ t \in Nat /\ t # 0
<1>1. ts[t] \in Transfers /\ t \in Nat /\ t # 0
  OBVIOUS
<1>2. QED BY <1>1 DEF Transfers

\* A complete assembly is the transfer its last fragment belongs to, and all of it.
LEMMA CompleteIsWhole ==
  ASSUME NEW ts \in Seq(Transfers), DistinctIds(ts), NEW f \in Good(ts), NEW e \in Assemblies,
         Filled(Key(f), e, ts), Complete(e)
  PROVE  Len(e.pieces) = ts[f.of].total /\ \A i \in DOMAIN e.pieces : e.pieces[i] = f.of
<1> DEFINE q == e.pieces
<1>1. q \in Seq(Nat) /\ Len(q) \in Nat /\ DOMAIN q = 1 .. Len(q)
  BY DEF Assemblies
<1>2. PICK t \in DOMAIN ts :
        /\ Key(f) = <<ts[t].sender, ts[t].id>>
        /\ Len(q) = ts[t].total \/ Len(q) = ts[t].total + 1
        /\ \A i \in DOMAIN q : q[i] = 0 \/ (q[i] = t /\ i <= ts[t].total)
  BY DEF Filled
<1>3. \A i \in DOMAIN q : q[i] # 0
  BY DEF Complete
<1> HIDE DEF q
<1>4. f.of = t
  BY <1>2 DEF Good, Genuine, Key, DistinctIds
<1>5. ts[t].total \in Nat
  BY TransferAt
<1>6. Len(q) # ts[t].total + 1
  <2> SUFFICES ASSUME Len(q) = ts[t].total + 1 PROVE FALSE
    OBVIOUS
  <2>1. ts[t].total + 1 \in DOMAIN q
    BY <1>1, <1>5
  <2>2. ts[t].total + 1 <= ts[t].total
    BY <1>2, <1>3, <2>1
  <2>3. QED BY <1>5, <2>2
<1>7. QED BY <1>2, <1>3, <1>4, <1>6 DEF q

\* The places that hold a piece are finitely many; one more piece makes them one more.
LEMMA OnePieceMore ==
  ASSUME NEW q \in Seq(Nat), NEW r \in Seq(Nat), DOMAIN r = DOMAIN q, NEW j \in DOMAIN q,
         q[j] = 0, r[j] # 0, \A i \in DOMAIN q : i # j => r[i] = q[i]
  PROVE  /\ Cardinality({i \in DOMAIN r : r[i] # 0}) = Cardinality({i \in DOMAIN q : q[i] # 0}) + 1
         /\ Cardinality({i \in DOMAIN q : q[i] # 0}) \in Nat
<1> DEFINE A == {i \in DOMAIN q : q[i] # 0}
           B == {i \in DOMAIN r : r[i] # 0}
<1>1. Len(q) \in Nat /\ DOMAIN q = 1 .. Len(q)
  OBVIOUS
<1>2. IsFiniteSet(DOMAIN q)
  <2> DEFINE n == Len(q)
  <2>1. n \in Int /\ 1 \in Int
    BY <1>1
  <2> HIDE DEF n
  <2>2. IsFiniteSet(1 .. n)
    BY <2>1, FS_Interval
  <2>3. QED BY <1>1, <2>2 DEF n
<1>3. A \subseteq DOMAIN q /\ j \notin A /\ B = A \cup {j}
  OBVIOUS
<1> HIDE DEF A, B
<1>4. IsFiniteSet(A) /\ Cardinality(A) \in Nat
  BY <1>2, <1>3, FS_Subset, FS_CardinalityType
<1>5. Cardinality(B) = Cardinality(A) + 1
  BY <1>3, <1>4, FS_AddElement
<1>6. QED BY <1>4, <1>5 DEF A, B

\* A fragment that an assembly lacks is put in its place.
LEMMA PieceAdded ==
  ASSUME NEW ts \in Seq(Transfers), DistinctIds(ts), NEW f \in Good(ts), NEW e \in Assemblies,
         Filled(Key(f), e, ts), Len(e.pieces) = f.total, e.pieces[f.index] = 0
  PROVE  LET g == [e EXCEPT !.pieces[f.index] = f.of]
         IN  /\ g \in Assemblies /\ g.started = e.started /\ Filled(Key(f), g, ts)
             /\ Received(g) = Received(e) + 1 /\ Received(e) \in Nat
<1> DEFINE q == e.pieces
           r == [q EXCEPT ![f.index] = f.of]
           g == [e EXCEPT !.pieces[f.index] = f.of]
<1>1. q \in Seq(Nat) /\ Len(q) \in Nat /\ DOMAIN q = 1 .. Len(q) /\ e.started \in Nat
  BY DEF Assemblies
<1>2. /\ f.of \in DOMAIN ts /\ f.of \in Nat /\ f.of # 0 /\ f.index \in Nat
      /\ 1 <= f.index /\ f.index <= ts[f.of].total /\ f.total \in Nat
      /\ f.total = ts[f.of].total \/ f.total = ts[f.of].total + 1
      /\ ts[f.of].total \in Nat
  <2>1. f \in Pieces /\ Genuine(f, ts) /\ f.of \in DOMAIN ts
    BY DEF Good, Genuine
  <2>2. ts[f.of] \in Transfers /\ ts[f.of].total \in Nat /\ f.of # 0
    BY <2>1, TransferAt
  <2>3. f.of \in Nat /\ f.index \in Nat /\ f.total \in Nat
    BY <2>1 DEF Pieces
  <2>4. QED BY <2>1, <2>2, <2>3 DEF Genuine
<1>3. f.index \in DOMAIN q
  <2>1. f.index <= f.total
    BY <1>2
  <2>2. QED BY <1>1, <1>2, <2>1
<1>4. g = [e EXCEPT !.pieces = r] /\ g.pieces = r /\ g.started = e.started
  BY DEF Assemblies
<1>5. /\ r \in Seq(Nat) /\ Len(r) = Len(q) /\ DOMAIN r = DOMAIN q /\ r[f.index] = f.of
      /\ \A i \in DOMAIN q : i # f.index => r[i] = q[i]
  BY <1>1, <1>2, <1>3
<1>6. g \in Assemblies
  BY <1>1, <1>4, <1>5 DEF Assemblies
<1>7. PICK t \in DOMAIN ts :
        /\ Key(f) = <<ts[t].sender, ts[t].id>>
        /\ Len(q) = ts[t].total \/ Len(q) = ts[t].total + 1
        /\ \A i \in DOMAIN q : q[i] = 0 \/ (q[i] = t /\ i <= ts[t].total)
  BY DEF Filled
<1>8. f.of = t
  BY <1>7 DEF Good, Genuine, Key, DistinctIds
<1> HIDE DEF q, r, g
<1>9. Filled(Key(f), g, ts)
  <2>1. \A i \in DOMAIN r : r[i] = 0 \/ (r[i] = t /\ i <= ts[t].total)
    BY <1>2, <1>5, <1>7, <1>8
  <2>2. Len(r) = ts[t].total \/ Len(r) = ts[t].total + 1
    BY <1>5, <1>7
  <2>3. /\ Key(f) = <<ts[t].sender, ts[t].id>>
        /\ Len(g.pieces) = ts[t].total \/ Len(g.pieces) = ts[t].total + 1
        /\ \A i \in DOMAIN g.pieces : g.pieces[i] = 0 \/ (g.pieces[i] = t /\ i <= ts[t].total)
    BY <1>4, <1>7, <2>1, <2>2
  <2>4. QED BY <2>3 DEF Filled
<1>10. Received(g) = Received(e) + 1 /\ Received(e) \in Nat
  <2>1. q[f.index] = 0 /\ r[f.index] # 0 /\ q = e.pieces
    BY <1>2, <1>5 DEF q
  <2>2. /\ Cardinality({i \in DOMAIN r : r[i] # 0}) = Cardinality({i \in DOMAIN q : q[i] # 0}) + 1
        /\ Cardinality({i \in DOMAIN q : q[i] # 0}) \in Nat
    <3> DEFINE j == f.index
    <3>1. /\ q \in Seq(Nat) /\ r \in Seq(Nat) /\ DOMAIN r = DOMAIN q /\ j \in DOMAIN q
          /\ q[j] = 0 /\ r[j] # 0 /\ \A i \in DOMAIN q : i # j => r[i] = q[i]
      BY <1>1, <1>3, <1>5, <2>1
    <3> HIDE DEF j
    <3>2. QED BY <3>1, OnePieceMore
  <2>3. QED BY <1>4, <2>1, <2>2 DEF Received
<1>11. QED BY <1>4, <1>6, <1>9, <1>10 DEF g

\* The first fragment of a transfer starts an assembly of one piece.
LEMMA FirstPiece ==
  ASSUME NEW ts \in Seq(Transfers), NEW f \in Good(ts), NEW t0 \in Nat
  PROVE  LET g == [started |-> t0,
                   pieces |-> [i \in 1 .. f.total |-> IF i = f.index THEN f.of ELSE 0]]
         IN  g \in Assemblies /\ Filled(Key(f), g, ts) /\ Received(g) = 1
<1> DEFINE r == [i \in 1 .. f.total |-> IF i = f.index THEN f.of ELSE 0]
           g == [started |-> t0, pieces |-> r]
<1>1. /\ f.of \in DOMAIN ts /\ f.of \in Nat /\ f.of # 0 /\ f.index \in Nat
      /\ 1 <= f.index /\ f.index <= ts[f.of].total /\ f.total \in Nat
      /\ f.total = ts[f.of].total \/ f.total = ts[f.of].total + 1
      /\ ts[f.of].total \in Nat /\ Key(f) = <<ts[f.of].sender, ts[f.of].id>>
  <2>1. f \in Pieces /\ Genuine(f, ts) /\ f.of \in DOMAIN ts
    BY DEF Good, Genuine
  <2>2. ts[f.of] \in Transfers /\ ts[f.of].total \in Nat /\ f.of # 0
    BY <2>1, TransferAt
  <2>3. f.of \in Nat /\ f.index \in Nat /\ f.total \in Nat
    BY <2>1 DEF Pieces
  <2>4. Key(f) = <<ts[f.of].sender, ts[f.of].id>>
    BY <2>1 DEF Genuine, Key
  <2>5. QED BY <2>1, <2>2, <2>3, <2>4 DEF Genuine
<1>2. f.index \in 1 .. f.total
  BY <1>1
<1>3. r \in [1 .. f.total -> Nat] /\ DOMAIN r = 1 .. f.total
  BY <1>1
<1>4. r \in Seq(Nat) /\ Len(r) = f.total
  <2>1. f.total \in Nat
    BY <1>1
  <2> HIDE DEF r
  <2>2. QED BY <1>3, <2>1
<1>5. r[f.index] = f.of /\ \A i \in DOMAIN r : r[i] = 0 \/ (r[i] = f.of /\ i = f.index)
  BY <1>2
<1>6. {i \in DOMAIN r : r[i] # 0} = {f.index}
  BY <1>1, <1>2, <1>3, <1>5
<1> HIDE DEF r
<1>7. g.pieces = r /\ g \in Assemblies
  BY <1>4 DEF Assemblies
<1>8. Filled(Key(f), g, ts)
  <2>1. \A i \in DOMAIN r : r[i] = 0 \/ (r[i] = f.of /\ i <= ts[f.of].total)
    BY <1>1, <1>5
  <2>2. Len(r) = ts[f.of].total \/ Len(r) = ts[f.of].total + 1
    BY <1>1, <1>4
  <2>3. QED BY <1>1, <1>7, <2>1, <2>2 DEF Filled
<1>9. Received(g) = 1
  BY <1>6, <1>7, FS_Singleton DEF Received
<1>10. QED BY <1>7, <1>8, <1>9 DEF r

\* Fewer assemblies are within the limit as well.
LEMMA FlightShrinks ==
  ASSUME FragmentsAssumption, NEW ts, NEW a, FlightSound(a, ts), NEW b, b = [k \in DOMAIN b |-> b[k]],
         DOMAIN b \subseteq DOMAIN a, \A k \in DOMAIN b : b[k] = a[k]
  PROVE  FlightSound(b, ts)
<1>1. IsFiniteSet(DOMAIN b) /\ Cardinality(DOMAIN b) <= Cardinality(DOMAIN a)
      /\ Cardinality(DOMAIN a) \in Nat /\ Cardinality(DOMAIN b) \in Nat
  BY FS_Subset, FS_CardinalityType DEF FlightSound
<1>2. Cardinality(DOMAIN b) <= MaxInFlight
  BY <1>1 DEF FlightSound, FragmentsAssumption
<1>3. b \in [DOMAIN b -> Assemblies]
  <2>1. \A k \in DOMAIN b : b[k] \in Assemblies
    BY DEF FlightSound
  <2>2. QED BY <2>1
<1>4. \A k \in DOMAIN b : Filled(k, b[k], ts)
  BY DEF FlightSound
<1>5. QED BY <1>1, <1>2, <1>3, <1>4 DEF FlightSound

\* What append leaves in flight: every assembly of one transfer still, all but the
\* fragment's own as they were, and that one given up only for a fragment that contradicts
\* it or would make it too large (Assembler::append in fragment.rs).
LEMMA AppendSound ==
  ASSUME FragmentsAssumption, NEW ts \in Seq(Transfers), DistinctIds(ts), NEW f \in Good(ts),
         NEW a, FlightSound(a, ts), now \in Nat,
         \A k \in DOMAIN a : Received(a[k]) \in 1 .. MaxBytes /\ a[k].started <= now
  PROVE  LET b == Appended(a, f)
         IN  /\ FlightSound(b, ts)
             /\ \A k \in DOMAIN b : k # Key(f) => k \in DOMAIN a /\ b[k] = a[k]
             /\ \A k \in DOMAIN b : Received(b[k]) \in 1 .. MaxBytes /\ b[k].started <= now
             /\ \A k \in DOMAIN a :
                  k \in DOMAIN b
                    \/ (k = Key(f) /\ (f.total # Len(a[k].pieces) \/ Received(a[k]) >= MaxBytes))
<1> DEFINE key == Key(f)
           b == Appended(a, f)
           Goal(c) ==
             /\ FlightSound(c, ts)
             /\ \A k \in DOMAIN c : k # key => k \in DOMAIN a /\ c[k] = a[k]
             /\ \A k \in DOMAIN c : Received(c[k]) \in 1 .. MaxBytes /\ c[k].started <= now
             /\ \A k \in DOMAIN a :
                  k \in DOMAIN c
                    \/ (k = key /\ (f.total # Len(a[k].pieces) \/ Received(a[k]) >= MaxBytes))
<1>1. MaxBytes \in Nat /\ MaxBytes >= 1 /\ MaxInFlight \in Nat
  BY DEF FragmentsAssumption
<1>2. a \in [DOMAIN a -> Assemblies] /\ IsFiniteSet(DOMAIN a) /\ Cardinality(DOMAIN a) \in Nat
      /\ Cardinality(DOMAIN a) <= MaxInFlight /\ \A k \in DOMAIN a : Filled(k, a[k], ts)
  BY FS_CardinalityType DEF FlightSound
<1>3. Goal(a)
  OBVIOUS
<1>4. ASSUME key \in DOMAIN a, f.total # Len(a[key].pieces) \/ Received(a[key]) >= MaxBytes
      PROVE  Goal(Dropping(a, key))
  <2> DEFINE c == Dropping(a, key)
  <2>1. DOMAIN c = DOMAIN a \ {key} /\ c = [k \in DOMAIN c |-> c[k]]
        /\ \A k \in DOMAIN c : c[k] = a[k]
    BY DEF Dropping
  <2> HIDE DEF c, key
  <2>2. FlightSound(c, ts)
    BY <2>1, FlightShrinks
  <2>3. QED BY <1>4, <2>1, <2>2 DEF c
<1>5. ASSUME NEW g, g \in Assemblies, Filled(key, g, ts), Received(g) \in 1 .. MaxBytes,
             g.started <= now, Fill(a, f) = [k \in DOMAIN a \cup {key} |-> IF k = key THEN g ELSE a[k]],
             key \in DOMAIN a \/ Cardinality(DOMAIN a) < MaxInFlight
      PROVE  Goal(Fill(a, f))
  <2> DEFINE c == Fill(a, f)
  <2>1. DOMAIN c = DOMAIN a \cup {key} /\ c[key] = g /\ \A k \in DOMAIN a : k # key => c[k] = a[k]
    BY <1>5
  <2>2. c \in [DOMAIN c -> Assemblies]
    BY <1>2, <1>5
  <2> HIDE DEF c, key
  <2>3. IsFiniteSet(DOMAIN c) /\ Cardinality(DOMAIN c) <= MaxInFlight
    <3>1. CASE key \in DOMAIN a
      BY <1>2, <2>1, <3>1
    <3>2. CASE key \notin DOMAIN a
      <4>1. IsFiniteSet(DOMAIN c) /\ Cardinality(DOMAIN c) = Cardinality(DOMAIN a) + 1
        BY <1>2, <2>1, <3>2, FS_AddElement
      <4>2. QED BY <1>1, <1>2, <1>5, <3>2, <4>1
    <3>3. QED BY <3>1, <3>2
  <2>4. \A k \in DOMAIN c : Filled(k, c[k], ts)
    BY <1>2, <1>5, <2>1
  <2>5. \A k \in DOMAIN c : Received(c[k]) \in 1 .. MaxBytes /\ c[k].started <= now
    BY <1>5, <2>1
  <2>6. FlightSound(c, ts)
    BY <2>2, <2>3, <2>4 DEF FlightSound
  <2>7. QED BY <2>1, <2>5, <2>6 DEF c
<1>6. CASE Full(a, f)
  <2>1. b = a
    BY <1>6 DEF Appended
  <2>2. QED BY <1>3, <2>1
<1>7. CASE ~Full(a, f) /\ key \notin DOMAIN a
  <2> DEFINE g == [started |-> now,
                   pieces |-> [i \in 1 .. f.total |-> IF i = f.index THEN f.of ELSE 0]]
  <2>1. b = Fill(a, f)
    BY <1>7 DEF Appended, Taken
  <2>2. Fill(a, f) = [k \in DOMAIN a \cup {key} |-> IF k = key THEN g ELSE a[k]]
    BY <1>7 DEF Fill
  <2>3. g \in Assemblies /\ Filled(key, g, ts) /\ Received(g) = 1 /\ g.started = now
    BY FirstPiece
  <2>4. Cardinality(DOMAIN a) < MaxInFlight
    BY <1>1, <1>2, <1>7 DEF Full
  <2> HIDE DEF g, key
  <2>5. Received(g) \in 1 .. MaxBytes /\ g.started <= now
    BY <1>1, <2>3
  <2>6. Goal(Fill(a, f))
    BY <1>5, <2>2, <2>3, <2>4, <2>5
  <2>7. QED BY <2>1, <2>6 DEF key
<1>8. CASE key \in DOMAIN a /\ Len(a[key].pieces) # f.total
  <2>1. b = Dropping(a, key)
    BY <1>8 DEF Appended, Taken, Full
  <2>2. QED BY <1>4, <1>8, <2>1
<1>9. CASE key \in DOMAIN a /\ Len(a[key].pieces) = f.total /\ a[key].pieces[f.index] # 0
  <2>1. b = a
    BY <1>9 DEF Appended, Taken, Full
  <2>2. QED BY <1>3, <2>1
<1>10. CASE key \in DOMAIN a /\ Len(a[key].pieces) = f.total /\ a[key].pieces[f.index] = 0
            /\ Received(a[key]) >= MaxBytes
  <2>1. b = Dropping(a, key)
    BY <1>10 DEF Appended, Taken, Full
  <2>2. QED BY <1>4, <1>10, <2>1
<1>11. CASE key \in DOMAIN a /\ Len(a[key].pieces) = f.total /\ a[key].pieces[f.index] = 0
            /\ ~(Received(a[key]) >= MaxBytes)
  <2> DEFINE e == a[key]
             g == [e EXCEPT !.pieces[f.index] = f.of]
  <2>1. b = Fill(a, f)
    BY <1>11 DEF Appended, Taken, Full
  <2>2. Fill(a, f) = [k \in DOMAIN a \cup {key} |-> IF k = key THEN g ELSE a[k]]
    BY <1>11 DEF Fill
  <2>3. /\ e \in Assemblies /\ Filled(key, e, ts) /\ Received(e) \in 1 .. MaxBytes
        /\ e.started <= now /\ Len(e.pieces) = f.total /\ e.pieces[f.index] = 0
        /\ ~(Received(e) >= MaxBytes)
    BY <1>2, <1>11
  <2> HIDE DEF e
  <2>4. /\ g \in Assemblies /\ g.started = e.started /\ Filled(key, g, ts)
        /\ Received(g) = Received(e) + 1 /\ Received(e) \in Nat
    BY <2>3, PieceAdded
  <2> HIDE DEF g, key
  <2>5. Received(g) \in 1 .. MaxBytes /\ g.started <= now
    BY <1>1, <2>3, <2>4
  <2>6. Goal(Fill(a, f))
    BY <1>5, <1>11, <2>2, <2>4, <2>5
  <2>7. QED BY <2>1, <2>6 DEF key
<1>12. QED BY <1>6, <1>7, <1>8, <1>9, <1>10, <1>11

\* A fragment arrives, and what it completes is handled: the assembly it completes is the
\* transfer it belongs to, and no other is touched unless its lifetime is over.
LEMMA HandleStep ==
  ASSUME FragmentsAssumption, AssemblyInv, NEW f \in air, HandleFragment(f)
  PROVE  AssemblyInv' /\ ProgressKeptStep
<1> DEFINE a == Expire(asm)
           key == Key(f)
           b == Appended(a, f)
           done == key \in DOMAIN b /\ Complete(b[key])
           content == b[key].pieces
           sound == Len(content) = transfers[f.of].total /\ \A i \in DOMAIN content : content[i] = f.of
<1>1. /\ asm' = IF done THEN Dropping(b, key) ELSE b
      /\ whole' = IF done /\ sound THEN [whole EXCEPT ![f.of] = @ + 1] ELSE whole
      /\ spliced' = (spliced \/ (done /\ ~sound))
      /\ UNCHANGED <<transfers, sending, inbox, air, now>>
  BY DEF HandleFragment
<1>2. /\ transfers \in Seq(Transfers) /\ DistinctIds(transfers) /\ f \in Good(transfers)
      /\ FlightSound(asm, transfers) /\ now \in Nat /\ Lifetime \in Nat
      /\ \A k \in DOMAIN asm : InProgress(asm[k], now)
  BY DEF AssemblyInv, FragmentsAssumption
<1>3. /\ a = [k \in DOMAIN a |-> a[k]] /\ DOMAIN a \subseteq DOMAIN asm
      /\ \A k \in DOMAIN a : a[k] = asm[k]
      /\ \A k \in DOMAIN asm : k \in DOMAIN a \/ ~(now - asm[k].started < Lifetime)
  BY DEF Expire
<1> HIDE DEF a
<1>4. FlightSound(a, transfers)
  BY <1>2, <1>3, FlightShrinks
<1>5. \A k \in DOMAIN a : InProgress(a[k], now)
  BY <1>2, <1>3
<1>6. \A k \in DOMAIN a : Received(a[k]) \in 1 .. MaxBytes /\ a[k].started <= now
  BY <1>5 DEF InProgress
<1>7. /\ FlightSound(b, transfers)
      /\ \A k \in DOMAIN b : k # key => k \in DOMAIN a /\ b[k] = a[k]
      /\ \A k \in DOMAIN b : Received(b[k]) \in 1 .. MaxBytes /\ b[k].started <= now
      /\ \A k \in DOMAIN a :
           k \in DOMAIN b
             \/ (k = key /\ (f.total # Len(a[k].pieces) \/ Received(a[k]) >= MaxBytes))
  BY <1>2, <1>4, <1>6, AppendSound
<1> HIDE DEF b
<1>8. done => sound
  <2> SUFFICES ASSUME done PROVE sound
    OBVIOUS
  <2>1. b[key] \in Assemblies /\ Filled(key, b[key], transfers) /\ Complete(b[key])
    BY <1>7 DEF FlightSound
  <2> DEFINE e == b[key]
  <2> HIDE DEF e
  <2>2. e \in Assemblies /\ Filled(Key(f), e, transfers) /\ Complete(e)
    BY <2>1 DEF e
  <2>3. Len(e.pieces) = transfers[f.of].total /\ \A i \in DOMAIN e.pieces : e.pieces[i] = f.of
    BY <1>2, <2>2, CompleteIsWhole
  <2>4. QED BY <2>3 DEF e
<1> HIDE DEF sound, content
<1>9. ~spliced'
  BY <1>1, <1>8 DEF AssemblyInv, NeverSpliced
<1>10. /\ whole \in Seq(Nat) /\ f.of \in DOMAIN whole /\ whole[f.of] \in Nat
  <2>1. f.of \in DOMAIN transfers /\ Len(whole) = Len(transfers) /\ whole \in Seq(Nat)
    BY <1>2 DEF AssemblyInv, Good, Genuine
  <2>2. f.of \in DOMAIN whole
    BY <1>2, <2>1
  <2>3. QED BY <2>1, <2>2
<1>11. whole' \in Seq(Nat) /\ Len(whole') = Len(whole)
  <2> DEFINE w == [whole EXCEPT ![f.of] = @ + 1]
             o == f.of
  <2>1. whole' = w \/ whole' = whole
    BY <1>1
  <2>2. w \in Seq(Nat) /\ Len(w) = Len(whole)
    <3>1. o \in DOMAIN whole /\ whole[o] + 1 \in Nat /\ w = [whole EXCEPT ![o] = whole[o] + 1]
      BY <1>10
    <3> HIDE DEF o
    <3>2. QED BY <1>10, <3>1
  <2> HIDE DEF w
  <2>3. QED BY <1>10, <2>1, <2>2
<1>12. done => whole' # whole
  <2>1. done => whole'[f.of] = whole[f.of] + 1
    BY <1>1, <1>8, <1>10
  <2>2. whole[f.of] + 1 # whole[f.of]
    BY <1>10
  <2>3. QED BY <2>1, <2>2
<1>13. /\ FlightSound(asm', transfers)
       /\ DOMAIN asm' = IF done THEN DOMAIN b \ {key} ELSE DOMAIN b
       /\ \A k \in DOMAIN asm' : asm'[k] = b[k]
  <2>1. CASE ~done
    BY <1>1, <1>7, <2>1
  <2>2. CASE done
    <3> DEFINE c == Dropping(b, key)
    <3>1. DOMAIN c = DOMAIN b \ {key} /\ c = [k \in DOMAIN c |-> c[k]]
          /\ \A k \in DOMAIN c : c[k] = b[k]
      BY DEF Dropping
    <3>2. asm' = c
      BY <1>1, <2>2
    <3> HIDE DEF c, key
    <3>3. FlightSound(c, transfers)
      BY <1>7, <3>1, FlightShrinks
    <3>4. QED BY <2>2, <3>1, <3>2, <3>3
  <2>3. QED BY <2>1, <2>2
<1>14. \A k \in DOMAIN asm' : InProgress(asm'[k], now)
  <2> SUFFICES ASSUME NEW k \in DOMAIN asm' PROVE InProgress(b[k], now)
    BY <1>13
  <2>1. k \in DOMAIN b
    BY <1>13
  <2>2. CASE k # key
    BY <1>5, <1>7, <2>1, <2>2
  <2>3. CASE k = key
    <3>1. ~Complete(b[k])
      BY <1>13, <2>1, <2>3
    <3>2. \E i \in DOMAIN b[k].pieces : b[k].pieces[i] = 0
      BY <3>1 DEF Complete
    <3>3. QED BY <1>7, <2>1, <3>2 DEF InProgress
  <2>4. QED BY <2>2, <2>3
<1>15. AssemblyInv'
  <2>1. /\ transfers' \in Seq(Transfers) /\ whole' \in Seq(Nat) /\ Len(whole') = Len(transfers')
        /\ DistinctIds(transfers')
    BY <1>1, <1>2, <1>11 DEF AssemblyInv
  <2>2. /\ sending' \in [Senders -> Seq(Good(transfers'))]
        /\ inbox' \in [Senders -> Seq(Good(transfers'))]
        /\ \A s \in Senders : Len(inbox'[s]) <= Depth
        /\ air' \subseteq Good(transfers')
    BY <1>1 DEF AssemblyInv
  <2>3. FlightSound(asm', transfers') /\ \A k \in DOMAIN asm' : InProgress(asm'[k], now')
    BY <1>1, <1>13, <1>14
  <2>4. NeverSpliced' /\ now' \in Nat
    BY <1>1, <1>9 DEF AssemblyInv, NeverSpliced
  <2>5. QED BY <2>1, <2>2, <2>3, <2>4 DEF AssemblyInv
<1>16. ProgressKeptStep
  <2> SUFFICES ASSUME NEW k \in DOMAIN asm, k \notin DOMAIN asm', whole' = whole,
                      ~(now - asm[k].started >= Lifetime)
               PROVE  Key(f) = k /\ (f.total # Len(asm[k].pieces) \/ Received(asm[k]) >= MaxBytes)
    BY DEF ProgressKeptStep
  <2>1. now - asm[k].started < Lifetime
    <3>1. asm[k] \in Assemblies
      BY <1>2 DEF FlightSound
    <3>2. asm[k].started \in Nat
      BY <3>1 DEF Assemblies
    <3>3. QED BY <1>2, <3>2
  <2>2. k \in DOMAIN a /\ a[k] = asm[k]
    BY <1>3, <2>1
  <2>3. ~done
    BY <1>12
  <2>4. k \notin DOMAIN b
    BY <1>13, <2>3
  <2>5. QED BY <1>7, <2>2, <2>4
<1>17. QED BY <1>15, <1>16

\* Transfers, ids and queues before anything is sent.
LEMMA AssemblyInit ==
  ASSUME FragmentsAssumption, FragmentsInit
  PROVE  AssemblyInv
<1>1. /\ transfers = <<>> /\ air = {} /\ asm = <<>> /\ whole = <<>> /\ spliced = FALSE
      /\ sending = [s \in Senders |-> <<>>] /\ inbox = [s \in Senders |-> <<>>] /\ now = 0
  BY DEF FragmentsInit
<1>2. DOMAIN asm = {}
  BY <1>1
<1>3. FlightSound(asm, transfers) /\ \A k \in DOMAIN asm : InProgress(asm[k], now)
  <2>1. IsFiniteSet(DOMAIN asm) /\ Cardinality(DOMAIN asm) = 0
    BY <1>2, FS_EmptySet
  <2>2. asm \in [DOMAIN asm -> Assemblies]
    BY <1>1
  <2>3. QED BY <1>2, <2>1, <2>2 DEF FlightSound, FragmentsAssumption
<1>4. /\ transfers \in Seq(Transfers) /\ whole \in Seq(Nat) /\ Len(whole) = Len(transfers)
      /\ DistinctIds(transfers)
  BY <1>1 DEF DistinctIds
<1>5. /\ sending \in [Senders -> Seq(Good(transfers))]
      /\ inbox \in [Senders -> Seq(Good(transfers))]
      /\ \A s \in Senders : Len(inbox[s]) <= Depth
  BY <1>1 DEF FragmentsAssumption
<1>6. QED BY <1>1, <1>3, <1>4, <1>5 DEF AssemblyInv, NeverSpliced

\* A file is split under an id its sender has not used.
LEMMA FileStep ==
  ASSUME FragmentsAssumption, AssemblyInv, NEW s \in Senders, NEW id \in Ids, NEW total \in Totals,
         FileFrames(s, id, total)
  PROVE  AssemblyInv'
<1> DEFINE x == [sender |-> s, id |-> id, total |-> total]
           ts == Append(transfers, x)
           n == Len(transfers) + 1
           cut == Split(n, s, id, total)
<1>1. /\ transfers' = ts /\ whole' = Append(whole, 0)
      /\ sending' = [sending EXCEPT ![s] = cut]
      /\ \A i \in DOMAIN transfers : transfers[i].sender # s \/ transfers[i].id # id
      /\ UNCHANGED <<inbox, air, asm, spliced, now>>
  BY DEF FileFrames
<1>2. /\ transfers \in Seq(Transfers) /\ whole \in Seq(Nat) /\ Len(whole) = Len(transfers)
      /\ x \in Transfers /\ total \in Nat
  BY DEF AssemblyInv, FragmentsAssumption, Transfers
<1>3. x.sender = s /\ x.id = id /\ x.total = total
  OBVIOUS
<1> HIDE DEF x
<1>4. /\ ts \in Seq(Transfers) /\ Len(transfers) \in Nat /\ Len(ts) = n /\ ts[n] = x
      /\ Good(transfers) \subseteq Good(ts)
      /\ \A k, e : Filled(k, e, transfers) => Filled(k, e, ts)
  BY <1>2, TransferAdded
<1>5. n \in DOMAIN ts /\ n \in Nat /\ DOMAIN ts = DOMAIN transfers \cup {n}
      /\ \A i \in DOMAIN transfers : ts[i] = transfers[i]
  BY <1>2, <1>4
<1> HIDE DEF ts, n
<1>6. DistinctIds(ts)
  BY <1>1, <1>3, <1>4, <1>5 DEF DistinctIds, AssemblyInv
<1>7. cut \in Seq(Good(ts))
  <2>1. \A i \in 1 .. total : cut[i] \in Good(ts)
    <3> TAKE i \in 1 .. total
    <3>1. cut[i] = [sender |-> s, id |-> id, index |-> i, total |-> total, of |-> n]
      BY DEF Split
    <3>2. cut[i] \in Pieces
      BY <1>2, <1>5, <3>1 DEF Pieces
    <3>3. Genuine(cut[i], ts)
      BY <1>3, <1>4, <1>5, <3>1 DEF Genuine
    <3>4. QED BY <3>2, <3>3 DEF Good
  <2>2. cut \in [1 .. total -> Good(ts)]
    BY <2>1 DEF Split
  <2> HIDE DEF cut
  <2>3. QED BY <1>2, <2>2
<1> HIDE DEF cut
<1>8. sending' \in [Senders -> Seq(Good(ts))] /\ inbox' \in [Senders -> Seq(Good(ts))]
  <2>1. \A q : q \in Seq(Good(transfers)) => q \in Seq(Good(ts))
    BY <1>4
  <2>2. \A r \in Senders : sending[r] \in Seq(Good(ts)) /\ inbox[r] \in Seq(Good(ts))
    BY <2>1 DEF AssemblyInv
  <2>3. QED BY <1>1, <1>7, <2>2 DEF AssemblyInv
<1>9. whole' \in Seq(Nat) /\ Len(whole') = n
  BY <1>1, <1>2 DEF n
<1>10. FlightSound(asm, ts)
  BY <1>4 DEF AssemblyInv, FlightSound
<1>11. air \subseteq Good(ts)
  BY <1>4 DEF AssemblyInv
<1>12. QED
  BY <1>1, <1>4, <1>6, <1>8, <1>9, <1>10, <1>11 DEF AssemblyInv, NeverSpliced

\* The router hands a fragment to the link, or loses it when the queue is full.
LEMMA RouteStep ==
  ASSUME FragmentsAssumption, AssemblyInv, NEW s \in Senders, Route(s)
  PROVE  AssemblyInv'
<1> DEFINE G == Good(transfers)
           q == sending[s]
           r == inbox[s]
<1>1. /\ q # <<>> /\ sending' = [sending EXCEPT ![s] = Tail(q)]
      /\ inbox' = IF Len(r) < Depth THEN [inbox EXCEPT ![s] = Append(r, Head(q))] ELSE inbox
      /\ UNCHANGED <<transfers, air, asm, whole, spliced, now>>
  BY DEF Route
<1>2. /\ sending \in [Senders -> Seq(G)] /\ inbox \in [Senders -> Seq(G)] /\ Depth \in Nat
      /\ q \in Seq(G) /\ r \in Seq(G)
  BY DEF AssemblyInv, FragmentsAssumption
<1> HIDE DEF G, q, r
<1>3. Head(q) \in G /\ Tail(q) \in Seq(G)
  BY <1>1, <1>2
<1>4. Append(r, Head(q)) \in Seq(G) /\ Len(Append(r, Head(q))) = Len(r) + 1 /\ Len(r) \in Nat
  BY <1>2, <1>3
<1>5. sending' \in [Senders -> Seq(G)]
  BY <1>1, <1>2, <1>3
<1>6. inbox' \in [Senders -> Seq(G)]
  BY <1>1, <1>2, <1>4
<1>7. \A p \in Senders : Len(inbox'[p]) <= Depth
  <2> TAKE p \in Senders
  <2>1. Len(inbox[p]) <= Depth
    BY DEF AssemblyInv
  <2>2. CASE inbox' = inbox
    BY <2>1, <2>2
  <2>3. CASE Len(r) < Depth /\ inbox' = [inbox EXCEPT ![s] = Append(r, Head(q))]
    <3>1. inbox'[p] = IF p = s THEN Append(r, Head(q)) ELSE inbox[p]
      BY <1>2, <2>3
    <3>2. Len(r) + 1 <= Depth
      BY <1>2, <1>4, <2>3
    <3>3. QED BY <1>4, <2>1, <3>1, <3>2
  <2>4. QED BY <1>1, <2>2, <2>3
<1>8. QED BY <1>1, <1>5, <1>6, <1>7 DEF AssemblyInv, NeverSpliced, G

\* The link writes the next fragment.
LEMMA WriteStep ==
  ASSUME FragmentsAssumption, AssemblyInv, NEW s \in Senders, Write(s)
  PROVE  AssemblyInv'
<1> DEFINE G == Good(transfers)
           r == inbox[s]
<1>1. /\ r # <<>> /\ inbox' = [inbox EXCEPT ![s] = Tail(r)] /\ air' = air \cup {Head(r)}
      /\ UNCHANGED <<transfers, sending, asm, whole, spliced, now>>
  BY DEF Write
<1>2. inbox \in [Senders -> Seq(G)] /\ r \in Seq(G) /\ Depth \in Nat /\ air \subseteq G /\ Len(r) <= Depth
  BY DEF AssemblyInv, FragmentsAssumption
<1> HIDE DEF G, r
<1>3. Head(r) \in G /\ Tail(r) \in Seq(G) /\ Len(Tail(r)) = Len(r) - 1 /\ Len(r) \in Nat
  BY <1>1, <1>2
<1>4. inbox' \in [Senders -> Seq(G)] /\ air' \subseteq G
  BY <1>1, <1>2, <1>3
<1>5. \A p \in Senders : Len(inbox'[p]) <= Depth
  <2> TAKE p \in Senders
  <2>1. Len(inbox[p]) <= Depth
    BY DEF AssemblyInv
  <2>2. inbox'[p] = IF p = s THEN Tail(r) ELSE inbox[p]
    BY <1>1, <1>2
  <2>3. Len(Tail(r)) <= Depth
    BY <1>2, <1>3
  <2>4. QED BY <2>1, <2>2, <2>3
<1>6. QED BY <1>1, <1>4, <1>5 DEF AssemblyInv, NeverSpliced, G

\* A sender that starts over counts one fragment more.
LEMMA RecountStep ==
  ASSUME AssemblyInv, NEW f \in air, Recount(f)
  PROVE  AssemblyInv'
<1> DEFINE g == [f EXCEPT !.total = @ + 1]
<1>1. /\ f.total = transfers[f.of].total /\ air' = air \cup {g}
      /\ UNCHANGED <<transfers, sending, inbox, asm, whole, spliced, now>>
  BY DEF Recount
<1>2. f \in Pieces /\ Genuine(f, transfers)
  BY DEF AssemblyInv, Good
<1>3. /\ g \in Pieces /\ g.of = f.of /\ g.sender = f.sender /\ g.id = f.id /\ g.index = f.index
      /\ g.total = f.total + 1
  BY <1>2 DEF Pieces
<1> HIDE DEF g
<1>4. Genuine(g, transfers)
  BY <1>1, <1>2, <1>3 DEF Genuine
<1>5. air' \subseteq Good(transfers)
  BY <1>1, <1>3, <1>4 DEF Good, AssemblyInv
<1>6. QED BY <1>1, <1>5 DEF AssemblyInv, NeverSpliced

\* Every step keeps the invariant, and gives up no assembly for a newcomer.
LEMMA AssemblyStep ==
  ASSUME FragmentsAssumption, AssemblyInv, [FragmentsNext]_fragmentVars
  PROVE  AssemblyInv' /\ [ProgressKeptStep]_fragmentVars
<1>1. CASE \E s \in Senders, id \in Ids, total \in Totals : FileFrames(s, id, total)
  <2>1. asm' = asm
    BY <1>1 DEF FileFrames
  <2>2. QED BY <1>1, <2>1, FileStep DEF ProgressKeptStep
<1>2. CASE \E s \in Senders : Route(s)
  <2>1. asm' = asm
    BY <1>2 DEF Route
  <2>2. QED BY <1>2, <2>1, RouteStep DEF ProgressKeptStep
<1>3. CASE \E s \in Senders : Write(s)
  <2>1. asm' = asm
    BY <1>3 DEF Write
  <2>2. QED BY <1>3, <2>1, WriteStep DEF ProgressKeptStep
<1>4. CASE \E f \in air : Recount(f)
  <2>1. asm' = asm
    BY <1>4 DEF Recount
  <2>2. QED BY <1>4, <2>1, RecountStep DEF ProgressKeptStep
<1>5. CASE \E f \in air : HandleFragment(f)
  BY <1>5, HandleStep
<1>6. CASE Tick
  <2>1. /\ now' = now + 1 /\ UNCHANGED <<transfers, sending, inbox, air, asm, whole, spliced>>
    BY <1>6 DEF Tick
  <2>2. \A k \in DOMAIN asm : InProgress(asm[k], now')
    <3> SUFFICES ASSUME NEW k \in DOMAIN asm PROVE asm[k].started <= now'
      BY DEF AssemblyInv, InProgress
    <3>1. asm[k] \in Assemblies /\ asm[k].started <= now /\ now \in Nat
      BY DEF AssemblyInv, InProgress, FlightSound
    <3>2. asm[k].started \in Nat
      BY <3>1 DEF Assemblies
    <3>3. QED BY <2>1, <3>1, <3>2
  <2>3. now' \in Nat
    BY <2>1 DEF AssemblyInv
  <2>4. QED BY <2>1, <2>2, <2>3 DEF AssemblyInv, NeverSpliced, ProgressKeptStep
<1>7. CASE UNCHANGED fragmentVars
  BY <1>7 DEF fragmentVars, AssemblyInv, NeverSpliced, InProgress, Received
<1>8. QED BY <1>1, <1>2, <1>3, <1>4, <1>5, <1>6, <1>7 DEF FragmentsNext

\* Fragmented packets: for every set of senders, ids, totals and limits, what an assembly
\* yields is one transfer, whole and in order; assemblies and queues stay within their limits;
\* and one in progress is never given up for a newcomer (Assembler in fragment.rs).
THEOREM AssemblyStaysWhole == ASSUME FragmentsAssumption PROVE FragmentsSpec => AssembledWhole
<1>1. AssemblyInv => FragmentsTypeOK /\ NeverSpliced
  <2> SUFFICES ASSUME AssemblyInv PROVE FragmentsTypeOK /\ NeverSpliced
    OBVIOUS
  <2>1. \A k \in DOMAIN asm : asm[k].pieces \in Seq(0 .. Len(transfers))
    <3> SUFFICES ASSUME NEW k \in DOMAIN asm PROVE asm[k].pieces \in Seq(0 .. Len(transfers))
      OBVIOUS
    <3> DEFINE q == asm[k].pieces
    <3>1. asm[k] \in Assemblies /\ Filled(k, asm[k], transfers) /\ transfers \in Seq(Transfers)
      BY DEF AssemblyInv, FlightSound
    <3>2. q \in Seq(Nat)
      BY <3>1 DEF Assemblies
    <3>3. PICK t \in DOMAIN transfers : \A i \in DOMAIN q : q[i] = 0 \/ q[i] = t
      BY <3>1 DEF Filled
    <3>4. Len(transfers) \in Nat /\ t \in 0 .. Len(transfers) /\ 0 \in 0 .. Len(transfers)
      BY <3>1
    <3> HIDE DEF q
    <3>5. \A i \in 1 .. Len(q) : q[i] \in 0 .. Len(transfers)
      BY <3>2, <3>3, <3>4
    <3>6. q \in Seq(0 .. Len(transfers))
      BY <3>2, <3>5
    <3>7. QED BY <3>6 DEF q
  <2>2. \A k \in DOMAIN asm : InProgress(asm[k], now)
    BY DEF AssemblyInv
  <2>3. QED BY <2>1, <2>2 DEF AssemblyInv, FlightSound, InProgress, Received, FragmentsTypeOK
<1>2. FragmentsInit => AssemblyInv
  BY AssemblyInit
<1>3. AssemblyInv /\ [FragmentsNext]_fragmentVars => AssemblyInv' /\ [ProgressKeptStep]_fragmentVars
  BY AssemblyStep
<1>4. QED BY <1>1, <1>2, <1>3, PTL DEF FragmentsSpec, AssembledWhole
-----------------------------------------------------------------------------
(* The peer table, the public messages and the archive: the inductive invariant *)

Origins == Peers \cup {Me}
MessageIds == {"message"} \X Origins \X Nat \X Bodies

OnAir ==
       [kind : {"announce"}, from : Peers, at : Nat, id : {"announce"} \X Peers \X Nat \X Nicks,
        nick : Nicks, gateway : BOOLEAN, key : Nat, sound : BOOLEAN]
  \cup [kind : {"message"}, from : Peers, at : Nat, id : {"message"} \X Peers \X Nat \X Bodies,
        long : BOOLEAN, key : Nat, sound : BOOLEAN]
  \cup [kind : {"file"}, from : Peers, at : Nat, id : {"file"} \X Peers \X Nat \X Bodies]
  \cup [kind : {"leave"}, from : Peers, at : Nat, id : {"leave"} \X Peers \X Nat]

Entries == [nick : Nicks, gateway : BOOLEAN, key : Nat, heard : Nat]

\* The packets on the air are the peers', and the table lists nobody who is blocked.
Listing ==
  /\ clock \in Nat /\ signing \in [Peers -> Nat] /\ packets \subseteq OnAir
  /\ DOMAIN peers \subseteq Peers \ blocked /\ peers \in [DOMAIN peers -> Entries]
  /\ \A p \in DOMAIN peers : peers[p].heard <= clock

\* The memory is the end of the log, in which nothing is there twice, and a message
\* of our own that is remembered was shown.
OwnPacket(id) ==
  [kind |-> "message", from |-> Me, at |-> id[3], id |-> id, long |-> FALSE, key |-> 0,
   sound |-> TRUE]
Remembering ==
  /\ log \in Seq(MessageIds) /\ Len(log) <= SeenLimit + 1 /\ IsInjective(log)
  /\ seenOrder = IF Len(log) <= SeenLimit THEN log ELSE Tail(log)
  /\ \A i \in DOMAIN seenOrder : seenOrder[i][2] = Me => OwnPacket(seenOrder[i]) \in shown

\* An archive whose stores hold packets of S, no more than they have room for.
Stocked(a, S) ==
  /\ a = [store |-> a.store, announces |-> a.announces]
  /\ a.store \in [Kinds -> Seq(S)]
  /\ \A k \in Kinds : Len(a.store[k]) <= Capacity[k]
  /\ DOMAIN a.announces \subseteq Origins

PresenceInv == Listing /\ Remembering /\ Stocked(archive, shown)

-----------------------------------------------------------------------------
(* What the helpers keep *)

\* Retaining some places keeps their packets and no others, and makes nothing longer: the
\* k-th of them exists for every k up to their number.
LEMMA RetainedOver ==
  ASSUME NEW S, NEW store \in Seq(S), NEW places \in SUBSET (1 .. Len(store))
  PROVE  Retained(store, places) \in Seq(S) /\ Len(Retained(store, places)) <= Len(store)
<1> DEFINE c == Cardinality(places)
           Upto(i) == {j \in places : j <= i}
           rank == [i \in places |-> Cardinality(Upto(i))]
           at == [k \in 1 .. c |-> CHOOSE i \in places : Cardinality(Upto(i)) = k]
<1>1. Len(store) \in Nat /\ \A i \in places : i \in Nat
  OBVIOUS
<1>2. IsFiniteSet(places) /\ c \in Nat /\ c <= Len(store)
  <2> DEFINE n == Len(store)
  <2>1. n \in Nat /\ n \in Int /\ 1 \in Int
    BY <1>1
  <2>2. places \in SUBSET (1 .. n)
    OBVIOUS
  <2> HIDE DEF n
  <2>3. IsFiniteSet(1 .. n) /\ Cardinality(1 .. n) = IF 1 > n THEN 0 ELSE n - 1 + 1
    BY <2>1, FS_Interval
  <2>4. Cardinality(1 .. n) = n
    BY <2>1, <2>3
  <2>5. IsFiniteSet(places) /\ c <= n
    BY <2>2, <2>3, <2>4, FS_Subset
  <2>6. c \in Nat
    BY <2>5, FS_CardinalityType
  <2>7. QED BY <2>5, <2>6 DEF n
<1>3. \A i \in places : /\ IsFiniteSet(Upto(i)) /\ Cardinality(Upto(i)) \in 1 .. c
                        /\ rank[i] = Cardinality(Upto(i))
  <2> TAKE i \in places
  <2>1. Upto(i) \in SUBSET places /\ i \in Upto(i)
    BY <1>1
  <2>2. rank[i] = Cardinality(Upto(i))
    OBVIOUS
  <2> HIDE DEF Upto, rank
  <2>3. IsFiniteSet(Upto(i)) /\ Cardinality(Upto(i)) \in Nat /\ Cardinality(Upto(i)) <= c
    BY <1>2, <2>1, FS_Subset, FS_CardinalityType
  <2>4. Cardinality(Upto(i)) # 0
    BY <2>1, <2>3, FS_EmptySet
  <2>5. QED BY <1>2, <2>2, <2>3, <2>4
<1>4. ASSUME NEW i \in places, NEW j \in places, i < j PROVE rank[i] # rank[j]
  <2>0. i \in Nat /\ j \in Nat
    BY <1>1
  <2>1. Upto(i) \in SUBSET Upto(j)
    <3>1. \A x \in Upto(i) : x \in places /\ x <= j
      BY <1>1, <1>4, <2>0
    <3>2. QED BY <3>1
  <2>2. j \in Upto(j) /\ j \notin Upto(i)
    BY <1>4, <2>0
  <2> HIDE DEF Upto, rank
  <2>3. Upto(i) # Upto(j)
    BY <2>2
  <2>4. Cardinality(Upto(i)) # Cardinality(Upto(j))
    BY <1>3, <2>1, <2>3, FS_Subset
  <2>5. QED BY <1>3, <2>4
<1>5. \A k \in 1 .. c : \E i \in places : rank[i] = k
  <2>1. rank \in [places -> 1 .. c]
    BY <1>3
  <2> HIDE DEF rank
  <2>2. \A i, j \in places : rank[i] = rank[j] => i = j
    <3> SUFFICES ASSUME NEW i \in places, NEW j \in places, i # j PROVE rank[i] # rank[j]
      OBVIOUS
    <3>1. i < j \/ j < i
      BY <1>1
    <3>2. QED BY <1>4, <3>1
  <2>3. rank \in Injection(places, 1 .. c)
    BY <2>1, <2>2 DEF Injection, IsInjective
  <2>4. IsFiniteSet(1 .. c) /\ Cardinality(1 .. c) = c
    <3>1. c \in Int /\ 1 \in Int
      BY <1>2
    <3> HIDE DEF c
    <3>2. IsFiniteSet(1 .. c) /\ Cardinality(1 .. c) = IF 1 > c THEN 0 ELSE c - 1 + 1
      BY <3>1, FS_Interval
    <3>3. QED BY <1>2, <3>2
  <2>5. rank \in Surjection(places, 1 .. c)
    BY <1>2, <2>3, <2>4, FS_Injection
  <2>6. QED BY <2>5 DEF Surjection
<1>6. \A k \in 1 .. c : at[k] \in places
  <2> TAKE k \in 1 .. c
  <2>1. PICK i \in places : Cardinality(Upto(i)) = k
    BY <1>3, <1>5
  <2> HIDE DEF Upto
  <2>2. (CHOOSE j \in places : Cardinality(Upto(j)) = k) \in places
    BY <2>1
  <2>3. QED BY <2>2 DEF at
<1>7. Retained(store, places) = [k \in 1 .. c |-> store[at[k]]]
  BY DEF Retained
<1> HIDE DEF at, c
<1>8. \A k \in 1 .. c : store[at[k]] \in S
  <2> TAKE k \in 1 .. c
  <2>1. at[k] \in 1 .. Len(store)
    BY <1>6
  <2>2. QED BY <2>1
<1>9. [k \in 1 .. c |-> store[at[k]]] \in [1 .. c -> S]
  BY <1>8
<1>10. [k \in 1 .. c |-> store[at[k]]] \in Seq(S) /\ Len([k \in 1 .. c |-> store[at[k]]]) = c
  BY <1>2, <1>9
<1>11. QED BY <1>2, <1>7, <1>10

\* A packet that is filed is in the store or makes room for itself; nothing else comes in.
LEMMA InsertedOver ==
  ASSUME NEW S, NEW store \in Seq(S), NEW p, NEW capacity \in Nat, Len(store) <= capacity
  PROVE  /\ InsertPacket(store, p, capacity) \in Seq(S \cup {p})
         /\ Len(InsertPacket(store, p, capacity)) <= capacity
<1> DEFINE all == Append(store, p)
           T == S \cup {p}
<1>1. Len(store) \in Nat /\ store \in Seq(T)
  OBVIOUS
<1>2. CASE capacity = 0
  BY <1>1, <1>2 DEF InsertPacket
<1>3. CASE capacity > 0 /\ Holds(store, p)
  <2>1. InsertPacket(store, p, capacity) = [i \in DOMAIN store |-> IF store[i].id = p.id THEN p ELSE store[i]]
    BY <1>3 DEF InsertPacket
  <2>2. DOMAIN store = 1 .. Len(store) /\ \A i \in 1 .. Len(store) : store[i] \in S
    OBVIOUS
  <2>3. InsertPacket(store, p, capacity) \in [1 .. Len(store) -> T]
    BY <2>1, <2>2
  <2> HIDE DEF T
  <2>4. InsertPacket(store, p, capacity) \in Seq(T) /\ Len(InsertPacket(store, p, capacity)) = Len(store)
    BY <1>1, <2>3
  <2>5. QED BY <2>4 DEF T
<1>4. CASE capacity > 0 /\ ~Holds(store, p)
  <2>0. p \in T
    OBVIOUS
  <2> HIDE DEF T
  <2>1. all \in Seq(T) /\ Len(all) = Len(store) + 1
    BY <1>1, <2>0
  <2> DEFINE first == 1 + Len(all) - (IF Len(all) > capacity THEN capacity ELSE Len(all))
  <2>2. InsertPacket(store, p, capacity) = SubSeq(all, first, Len(all))
    <3>1. capacity # 0 /\ ~(capacity > 0 /\ Holds(store, p))
      BY <1>4
    <3> HIDE DEF all, first
    <3>2. InsertPacket(store, p, capacity) = SubSeq(Append(store, p), 1 + Len(Append(store, p)) -
            (IF Len(Append(store, p)) > capacity THEN capacity ELSE Len(Append(store, p))), Len(Append(store, p)))
      BY <3>1, Zenon DEF InsertPacket
    <3>3. QED BY <3>2 DEF all, first
  <2> HIDE DEF all
  <2>3. first \in 1 .. Len(all) /\ Len(all) - first + 1 <= capacity
    <3>1. Len(all) \in Nat /\ Len(all) <= capacity + 1 /\ Len(all) >= 1 /\ capacity >= 1
      BY <1>1, <1>4, <2>1
    <3>2. CASE Len(all) > capacity
      <4>1. first = 2 /\ Len(all) = capacity + 1
        BY <3>1, <3>2
      <4> HIDE DEF first
      <4>2. QED BY <3>1, <4>1
    <3>3. CASE ~(Len(all) > capacity)
      <4>1. first = 1
        BY <3>1, <3>3
      <4> HIDE DEF first
      <4>2. QED BY <3>1, <3>3, <4>1
    <3>4. QED BY <3>2, <3>3
  <2> HIDE DEF first
  <2>4. /\ SubSeq(all, first, Len(all)) \in Seq(T)
        /\ Len(SubSeq(all, first, Len(all))) = Len(all) - first + 1
    BY <2>1, <2>3
  <2>5. QED BY <2>2, <2>3, <2>4 DEF T
<1>5. QED BY <1>2, <1>3, <1>4

\* More may have been shown than an archive was stocked from.
LEMMA StockedMore ==
  ASSUME NEW a, NEW S, NEW T, S \subseteq T, Stocked(a, S)
  PROVE  Stocked(a, T)
<1>1. \A k \in Kinds : a.store[k] \in Seq(T)
  <2> TAKE k \in Kinds
  <2>1. a.store[k] \in Seq(S)
    BY DEF Stocked
  <2>2. QED BY <2>1
<1>2. a.store \in [Kinds -> Seq(T)]
  BY <1>1 DEF Stocked
<1>3. QED BY <1>2 DEF Stocked

\* A message or a file is filed with its kind.
LEMMA RecordedPacket ==
  ASSUME ArchiveAssumption, NEW a, NEW S, Stocked(a, S), NEW p, NEW t,
         p.kind \in {"message", "file"}
  PROVE  Stocked(Record(a, p, t), S \cup {p})
<1> DEFINE T == S \cup {p}
           b == [a EXCEPT !.store[p.kind] = InsertPacket(@, p, Capacity[p.kind])]
<1>1. Stocked(a, T)
  BY StockedMore
<1>2. p.kind \in Kinds /\ p.kind # "announce"
  BY DEF Kinds
<1>3. Record(a, p, t) = a \/ Record(a, p, t) = b
  BY <1>2 DEF Record
<1>4. Stocked(b, T)
  <2> DEFINE new == InsertPacket(a.store[p.kind], p, Capacity[p.kind])
  <2>1. /\ a.store[p.kind] \in Seq(S) /\ Len(a.store[p.kind]) <= Capacity[p.kind]
        /\ Capacity[p.kind] \in Nat
    BY <1>2 DEF Stocked, ArchiveAssumption
  <2>2. new \in Seq(T) /\ Len(new) <= Capacity[p.kind]
    BY <2>1, InsertedOver
  <2> HIDE DEF new
  <2>3. /\ a = [store |-> a.store, announces |-> a.announces] /\ a.store \in [Kinds -> Seq(T)]
        /\ \A k \in Kinds : Len(a.store[k]) <= Capacity[k]
        /\ DOMAIN a.announces \subseteq Origins
    BY <1>1 DEF Stocked
  <2>4. b = [store |-> [a.store EXCEPT ![p.kind] = new], announces |-> a.announces]
    <3>1. b = [a EXCEPT !.store = [a.store EXCEPT ![p.kind] = new]]
      BY DEF new
    <3> HIDE DEF b
    <3>2. QED BY <2>3, <3>1
  <2> HIDE DEF b, T
  <2>5. b.store = [a.store EXCEPT ![p.kind] = new] /\ b.announces = a.announces
    BY <2>4
  <2>6. b.store \in [Kinds -> Seq(T)]
    BY <2>2, <2>3, <2>5
  <2>7. \A k \in Kinds : Len(b.store[k]) <= Capacity[k]
    BY <2>2, <2>3, <2>5
  <2>8. b = [store |-> b.store, announces |-> b.announces]
    BY <2>4, <2>5
  <2>9. QED BY <2>3, <2>5, <2>6, <2>7, <2>8 DEF Stocked
<1>5. QED BY <1>1, <1>3, <1>4

\* An announce changes the announces only.
LEMMA RecordedAnnounce ==
  ASSUME NEW a, NEW S, Stocked(a, S), NEW p, NEW t, p.kind = "announce", p.from \in Origins
  PROVE  Stocked(Record(a, p, t), S)
<1> DEFINE others == Without(a.announces, p.from)
           with == [q \in DOMAIN a.announces \cup {p.from} |-> IF q = p.from THEN p ELSE a.announces[q]]
           next == IF Age(p, t) > RecordAge THEN others ELSE with
<1>1. DOMAIN next \subseteq Origins
  BY DEF Stocked, Without
<1>2. Record(a, p, t) = a \/ Record(a, p, t) = [a EXCEPT !.announces = next]
  <2>1. CASE ~IsFresh(p, t)
    BY <2>1 DEF Record
  <2>2. CASE IsFresh(p, t)
    <3>1. p.kind \notin Kinds
      BY DEF Kinds
    <3>2. Record(a, p, t) = [a EXCEPT !.announces = next]
      BY <2>2, <3>1 DEF Record
    <3>3. QED BY <3>2
  <2>3. QED BY <2>1, <2>2
<1> HIDE DEF next
<1>3. [a EXCEPT !.announces = next] = [store |-> a.store, announces |-> next]
  BY DEF Stocked
<1>4. Stocked([store |-> a.store, announces |-> next], S)
  BY <1>1 DEF Stocked
<1>5. QED BY <1>2, <1>3, <1>4

\* What has aged out goes; the rest stays.
LEMMA StaleDropped ==
  ASSUME ArchiveAssumption, NEW a, NEW S, Stocked(a, S), NEW t
  PROVE  Stocked(DropStale(a, t), S)
<1> DEFINE b == DropStale(a, t)
<1>1. \A k \in Kinds : Fresh(a, k, t) \in Seq(S) /\ Len(Fresh(a, k, t)) <= Capacity[k]
  <2> TAKE k \in Kinds
  <2> DEFINE places == {i \in DOMAIN a.store[k] : IsFresh(a.store[k][i], t)}
  <2>1. a.store[k] \in Seq(S) /\ Len(a.store[k]) <= Capacity[k]
    BY DEF Stocked
  <2>2. places \in SUBSET (1 .. Len(a.store[k]))
    BY <2>1
  <2>3. Fresh(a, k, t) = Retained(a.store[k], places)
    BY DEF Fresh
  <2> HIDE DEF places
  <2>4. Retained(a.store[k], places) \in Seq(S) /\ Len(Retained(a.store[k], places)) <= Len(a.store[k])
    BY <2>1, <2>2, RetainedOver
  <2>5. Capacity[k] \in Nat /\ Len(a.store[k]) \in Nat
    BY <2>1 DEF ArchiveAssumption
  <2> HIDE DEF b
  <2>6. Len(Fresh(a, k, t)) \in Nat
    BY <2>3, <2>4
  <2>7. QED BY <2>1, <2>3, <2>4, <2>5, <2>6
<1>2. b.store = [k \in Kinds |-> Fresh(a, k, t)]
  BY DEF DropStale
<1>3. DOMAIN b.announces \subseteq DOMAIN a.announces
  BY DEF DropStale
<1>4. b = [store |-> b.store, announces |-> b.announces]
  BY DEF DropStale
<1> HIDE DEF b
<1>5. b.store \in [Kinds -> Seq(S)]
  BY <1>1, <1>2
<1>6. \A k \in Kinds : Len(b.store[k]) <= Capacity[k]
  BY <1>1, <1>2
<1>7. DOMAIN b.announces \subseteq Origins
  BY <1>3 DEF Stocked
<1>8. QED BY <1>4, <1>5, <1>6, <1>7 DEF Stocked, b

\* A message that is not remembered is taken down at the end of the log and the memory, and
\* the memory still is the end of the log.
LEMMA TakenDown ==
  ASSUME PresenceAssumption, Remembering, NEW id \in MessageIds, id \notin Range(seenOrder)
  PROVE  /\ Logged(id) \in Seq(MessageIds) /\ Len(Logged(id)) <= SeenLimit + 1
         /\ IsInjective(Logged(id))
         /\ Remembered(seenOrder, id) = IF Len(Logged(id)) <= SeenLimit THEN Logged(id) ELSE Tail(Logged(id))
         /\ \A i \in DOMAIN Remembered(seenOrder, id) :
              Remembered(seenOrder, id)[i] = id \/ \E j \in DOMAIN seenOrder : Remembered(seenOrder, id)[i] = seenOrder[j]
<1> DEFINE L == SeenLimit
           M == MessageIds
<1>0. L \in Nat /\ L > 0
  BY DEF PresenceAssumption
<1>1. /\ log \in Seq(M) /\ Len(log) \in Nat /\ Len(log) <= L + 1
      /\ seenOrder = IF Len(log) <= L THEN log ELSE Tail(log)
      /\ \A i, j \in 1 .. Len(log) : log[i] = log[j] => i = j
  BY DEF Remembering, IsInjective
<1>2. \A i \in DOMAIN seenOrder : seenOrder[i] # id
  BY DEF Range
<1> DEFINE all == Append(log, id)
<1>3. all \in Seq(M) /\ Len(all) = Len(log) + 1
  BY <1>1
<1>4. CASE Len(log) < L
  <2>1. Logged(id) = all /\ seenOrder = log /\ Remembered(seenOrder, id) = all
    BY <1>0, <1>1, <1>3, <1>4 DEF Logged, Remembered
  <2>2. \A i \in 1 .. Len(log) : all[i] = log[i] /\ log[i] # id
    BY <1>1, <1>2, <2>1
  <2>3. all[Len(log) + 1] = id /\ DOMAIN all = 1 .. Len(log) + 1 /\ DOMAIN log = 1 .. Len(log)
    BY <1>1
  <2> HIDE DEF all, M, L
  <2>4. \A i \in 1 .. Len(log) + 1 : i \in 1 .. Len(log) \/ i = Len(log) + 1
    BY <1>1
  <2>5. IsInjective(all)
    BY <1>1, <2>2, <2>3, <2>4 DEF IsInjective
  <2>6. \A i \in DOMAIN all : all[i] = id \/ \E j \in DOMAIN log : all[i] = log[j]
    BY <2>2, <2>3, <2>4
  <2>7. Len(all) <= L
    BY <1>0, <1>1, <1>3, <1>4
  <2>8. QED BY <1>0, <1>3, <2>1, <2>5, <2>6, <2>7 DEF M, L
<1>5. CASE Len(log) = L
  <2>1. Logged(id) = all /\ seenOrder = log /\ Remembered(seenOrder, id) = Append(Tail(log), id)
    BY <1>0, <1>1, <1>3, <1>5 DEF Logged, Remembered
  <2>2. \A i \in 1 .. Len(log) : all[i] = log[i] /\ log[i] # id
    BY <1>1, <1>2, <2>1
  <2>3. all[Len(log) + 1] = id /\ DOMAIN all = 1 .. Len(log) + 1 /\ DOMAIN log = 1 .. Len(log)
    BY <1>1
  <2>4. Tail(all) = Append(Tail(log), id)
    BY <1>0, <1>1, <1>5
  <2>5. Len(Tail(all)) = Len(log) /\ \A i \in 1 .. Len(log) : Tail(all)[i] = all[i + 1]
    BY <1>0, <1>1, <1>3, <1>5
  <2>10. DOMAIN Tail(all) = 1 .. Len(log)
    BY <1>0, <1>1, <1>3, <1>5
  <2> HIDE DEF all, M, L
  <2>6. \A i \in 1 .. Len(log) + 1 : i \in 1 .. Len(log) \/ i = Len(log) + 1
    BY <1>1
  <2>7. IsInjective(all)
    BY <1>1, <2>2, <2>3, <2>6 DEF IsInjective
  <2>8. \A i \in 1 .. Len(log) : Tail(all)[i] = id \/ \E j \in DOMAIN log : Tail(all)[i] = log[j]
    <3> TAKE i \in 1 .. Len(log)
    <3>1. i + 1 \in 1 .. Len(log) \/ i + 1 = Len(log) + 1
      BY <1>1
    <3>2. QED BY <2>2, <2>3, <2>5, <3>1
  <2>9. Len(all) = L + 1
    BY <1>0, <1>1, <1>3, <1>5
  <2>11. QED BY <1>0, <1>3, <2>1, <2>4, <2>7, <2>8, <2>9, <2>10 DEF M, L
<1>6. CASE Len(log) = L + 1
  <2> DEFINE old == Tail(log)
             new == Append(old, id)
  <2>1. /\ old \in Seq(M) /\ Len(old) = L /\ DOMAIN old = 1 .. L
        /\ \A i \in 1 .. L : old[i] = log[i + 1]
    BY <1>0, <1>1, <1>6
  <2>2. seenOrder = old
    BY <1>0, <1>1, <1>6
  <2>3. Tail(all) = new
    BY <1>0, <1>1, <1>6
  <2>4. Logged(id) = new
    BY <1>0, <1>1, <1>3, <1>6, <2>3 DEF Logged
  <2> HIDE DEF all, M, L, old
  <2>5. Remembered(seenOrder, id) = Append(Tail(old), id)
    BY <2>1, <2>2 DEF Remembered, L
  <2>6. /\ new \in Seq(M) /\ Len(new) = L + 1 /\ DOMAIN new = 1 .. L + 1
        /\ \A i \in 1 .. L : new[i] = old[i] /\ old[i] # id
        /\ new[L + 1] = id
    BY <1>0, <1>2, <2>1, <2>2 DEF M
  <2>7. Tail(new) = Append(Tail(old), id)
    BY <1>0, <2>1
  <2>8. DOMAIN Tail(new) = 1 .. L /\ \A i \in 1 .. L : Tail(new)[i] = new[i + 1]
    BY <1>0, <2>6
  <2> HIDE DEF new
  <2>9. \A i \in 1 .. L + 1 : i \in 1 .. L \/ i = L + 1
    BY <1>0
  <2>10. IsInjective(new)
    <3>1. \A i, j \in 1 .. L : old[i] = old[j] => i = j
      <4> SUFFICES ASSUME NEW i \in 1 .. L, NEW j \in 1 .. L, old[i] = old[j] PROVE i = j
        OBVIOUS
      <4>1. i + 1 \in 1 .. Len(log) /\ j + 1 \in 1 .. Len(log) /\ log[i + 1] = log[j + 1]
        BY <1>0, <1>6, <2>1
      <4>2. i + 1 = j + 1
        BY <1>1, <4>1
      <4>3. QED BY <1>0, <4>2
    <3>2. QED BY <2>6, <2>9, <3>1 DEF IsInjective
  <2>11. \A i \in 1 .. L : Tail(new)[i] = id \/ \E j \in DOMAIN old : Tail(new)[i] = old[j]
    <3> TAKE i \in 1 .. L
    <3>1. i + 1 \in 1 .. L \/ i + 1 = L + 1
      BY <1>0
    <3>2. QED BY <2>1, <2>6, <2>8, <3>1
  <2>12. QED BY <1>0, <2>2, <2>4, <2>5, <2>6, <2>7, <2>8, <2>10, <2>11 DEF M, L
<1>7. Len(log) < L \/ Len(log) = L \/ Len(log) = L + 1
  BY <1>0, <1>1
<1>8. QED BY <1>4, <1>5, <1>6, <1>7

-----------------------------------------------------------------------------
(* Every step keeps the invariant *)

\* Packets of a kind are as that kind is sent.
LEMMA AirKinds ==
  ASSUME NEW pkt \in OnAir
  PROVE  /\ pkt.from \in Peers
         /\ pkt.kind = "announce" => pkt.nick \in Nicks /\ pkt.gateway \in BOOLEAN /\ pkt.key \in Nat
         /\ pkt.kind = "message" =>
              /\ pkt \in [kind : {"message"}, from : Peers, at : Nat,
                          id : {"message"} \X Peers \X Nat \X Bodies,
                          long : BOOLEAN, key : Nat, sound : BOOLEAN]
              /\ pkt.id \in {"message"} \X Peers \X Nat \X Bodies
  BY DEF OnAir

\* The client is as it starts.
LEMMA PresenceStarts ==
  ASSUME PresenceAssumption, ArchiveAssumption, PresenceInit
  PROVE  PresenceInv
<1>1. Listing
  <2>1. DOMAIN peers = {} /\ peers = [p \in {} |-> p]
    BY DEF PresenceInit
  <2>2. peers \in [{} -> Entries]
    BY <2>1
  <2>3. signing \in [Peers -> Nat] /\ clock \in Nat /\ packets \subseteq OnAir
    BY DEF PresenceInit
  <2>4. QED BY <2>1, <2>2, <2>3 DEF Listing
<1>2. Remembering
  <2>1. log = <<>> /\ seenOrder = <<>> /\ SeenLimit \in Nat
    BY DEF PresenceInit, PresenceAssumption
  <2>2. Len(log) = 0 /\ log \in Seq(MessageIds) /\ DOMAIN log = {}
    BY <2>1
  <2>3. QED BY <2>1, <2>2 DEF Remembering, IsInjective
<1>3. Stocked(archive, shown)
  <2>1. archive = Empty
    BY DEF PresenceInit
  <2>2. Stocked(Empty, shown)
    BY DEF Stocked, Empty, ArchiveAssumption
  <2>3. QED BY <2>1, <2>2
<1>4. QED BY <1>1, <1>2, <1>3 DEF PresenceInv

\* Nothing to restock: the archive alone decides, and showing more does no harm.
LEMMA StockStands ==
  ASSUME PresenceInv, archive' = archive, shown \subseteq shown'
  PROVE  Stocked(archive, shown)'
<1>1. Stocked(archive, shown')
  BY StockedMore DEF PresenceInv
<1>2. QED BY <1>1

\* The memory stands as it is.
LEMMA MemoryStands ==
  ASSUME PresenceInv, UNCHANGED <<seenOrder, log>>, shown \subseteq shown'
  PROVE  Remembering'
  BY DEF PresenceInv, Remembering

\* A new message is remembered.
LEMMA MemoryStep ==
  ASSUME PresenceAssumption, PresenceInv, NEW id \in MessageIds, id \notin Range(seenOrder),
         seenOrder' = Remembered(seenOrder, id), log' = Logged(id), shown \subseteq shown',
         id[2] = Me => OwnPacket(id) \in shown'
  PROVE  Remembering'
<1>1. Remembering
  BY DEF PresenceInv
<1>2. /\ log' \in Seq(MessageIds) /\ Len(log') <= SeenLimit + 1 /\ IsInjective(log')
      /\ seenOrder' = IF Len(log') <= SeenLimit THEN log' ELSE Tail(log')
      /\ \A i \in DOMAIN seenOrder' : seenOrder'[i] = id \/ \E j \in DOMAIN seenOrder : seenOrder'[i] = seenOrder[j]
  BY <1>1, TakenDown
<1>3. ASSUME NEW i \in DOMAIN seenOrder', seenOrder'[i][2] = Me PROVE OwnPacket(seenOrder'[i]) \in shown'
  <2>1. CASE seenOrder'[i] = id
    BY <1>3, <2>1
  <2>2. CASE \E j \in DOMAIN seenOrder : seenOrder'[i] = seenOrder[j]
    <3>1. PICK j \in DOMAIN seenOrder : seenOrder'[i] = seenOrder[j]
      BY <2>2
    <3>2. OwnPacket(seenOrder[j]) \in shown
      BY <1>1, <1>3, <3>1 DEF Remembering
    <3>3. QED BY <3>1, <3>2
  <2>3. QED BY <1>2, <2>1, <2>2
<1>4. MessageIds' = MessageIds
  BY DEF MessageIds, Origins
<1>5. QED BY <1>2, <1>3, <1>4 DEF Remembering, OwnPacket

\* The table after a step: nobody who is blocked, and no key changed.
LEMMA ListingStep ==
  ASSUME NEW pkt, Listing, UNCHANGED <<clock, signing, packets, blocked>>,
         \/ peers' = peers
         \/ \E P : peers' = [p \in DOMAIN peers \ P |-> peers[p]]
         \/ pkt.from \in DOMAIN peers /\ peers' = [peers EXCEPT ![pkt.from].heard = clock]
         \/ /\ pkt.from \in Peers \ blocked /\ pkt.nick \in Nicks /\ pkt.gateway \in BOOLEAN
            /\ pkt.key \in Nat /\ peers' = Listed(pkt)
  PROVE  Listing' /\ PinnedWhileListedStep
<1> DEFINE Well(f) == /\ DOMAIN f \subseteq Peers \ blocked /\ f \in [DOMAIN f -> Entries]
                      /\ \A p \in DOMAIN f : f[p].heard <= clock
                      /\ \A p \in DOMAIN peers \cap DOMAIN f : f[p].key = peers[p].key
<1>1. Well(peers) /\ clock \in Nat
  BY DEF Listing
<1>2. Well(peers')
  <2>1. CASE peers' = peers
    BY <1>1, <2>1
  <2>2. CASE \E P : peers' = [p \in DOMAIN peers \ P |-> peers[p]]
    BY <1>1, <2>2
  <2>3. CASE pkt.from \in DOMAIN peers /\ peers' = [peers EXCEPT ![pkt.from].heard = clock]
    <3>1. DOMAIN peers' = DOMAIN peers
      BY <2>3
    <3>2. ASSUME NEW p \in DOMAIN peers
          PROVE  peers'[p] \in Entries /\ peers'[p].heard <= clock /\ peers'[p].key = peers[p].key
      <4>1. peers[p] \in Entries /\ peers[p].heard <= clock
        BY <1>1
      <4>2. peers'[p] = IF p = pkt.from THEN [peers[p] EXCEPT !.heard = clock] ELSE peers[p]
        BY <1>1, <2>3
      <4>3. QED BY <1>1, <4>1, <4>2 DEF Entries
    <3>3. peers' = [p \in DOMAIN peers |-> peers'[p]]
      BY <1>1, <2>3
    <3>4. QED BY <1>1, <3>1, <3>2, <3>3
  <2>4. CASE /\ pkt.from \in Peers \ blocked /\ pkt.nick \in Nicks /\ pkt.gateway \in BOOLEAN
             /\ pkt.key \in Nat /\ peers' = Listed(pkt)
    <3>1. CASE pkt.from \in DOMAIN peers
      <4> DEFINE new == [peers[pkt.from] EXCEPT !.nick = pkt.nick, !.gateway = pkt.gateway, !.heard = clock]
      <4>1. peers' = [peers EXCEPT ![pkt.from] = new]
        BY <2>4, <3>1 DEF Listed
      <4>2. new \in Entries /\ new.heard <= clock /\ new.key = peers[pkt.from].key
        <5>1. peers[pkt.from] \in Entries
          BY <1>1, <3>1
        <5> DEFINE e == peers[pkt.from]
                   named == [e EXCEPT !.nick = pkt.nick]
                   open == [named EXCEPT !.gateway = pkt.gateway]
        <5>2. new = [open EXCEPT !.heard = clock]
          OBVIOUS
        <5>3. e \in Entries
          BY <5>1
        <5> HIDE DEF new, e
        <5>4. named \in Entries /\ named.key = e.key
          BY <2>4, <5>3 DEF Entries
        <5> HIDE DEF named
        <5>5. open \in Entries /\ open.key = e.key
          BY <2>4, <5>4 DEF Entries
        <5> HIDE DEF open
        <5>6. new \in Entries /\ new.key = e.key /\ new.heard = clock
          BY <1>1, <5>2, <5>5 DEF Entries
        <5>7. QED BY <1>1, <5>6 DEF e
      <4> HIDE DEF new
      <4>3. QED BY <1>1, <3>1, <4>1, <4>2
    <3>2. CASE pkt.from \notin DOMAIN peers
      <4> DEFINE new == [nick |-> pkt.nick, gateway |-> pkt.gateway, key |-> pkt.key, heard |-> clock]
      <4>1. peers' = [p \in DOMAIN peers \cup {pkt.from} |-> IF p = pkt.from THEN new ELSE peers[p]]
        BY <2>4, <3>2 DEF Listed
      <4>2. new \in Entries /\ new.heard <= clock
        BY <1>1, <2>4 DEF Entries
      <4> HIDE DEF new
      <4>3. QED BY <1>1, <2>4, <3>2, <4>1, <4>2
    <3>3. QED BY <3>1, <3>2
  <2>5. QED BY <2>1, <2>2, <2>3, <2>4
<1>3. QED BY <1>2 DEF Listing, PinnedWhileListedStep, OnAir, Entries

\* The peers speak, a copy loses its signature, a peer changes its key: this client stands.
LEMMA PeersStep ==
  ASSUME PresenceInv,
         \/ \E p \in Peers : Send(p) \/ Rekey(p)
         \/ \E pkt \in packets : Damage(pkt)
  PROVE  PresenceInv' /\ PinnedWhileListedStep
<1>1. UNCHANGED ours /\ clock' = clock
  <2>1. ASSUME NEW p \in Peers, Send(p) PROVE UNCHANGED ours /\ clock' = clock
    BY <2>1, Zenon DEF Send
  <2>2. ASSUME NEW p \in Peers, Rekey(p) PROVE UNCHANGED ours /\ clock' = clock
    BY <2>2, Zenon DEF Rekey
  <2>3. ASSUME NEW pkt \in packets, Damage(pkt) PROVE UNCHANGED ours /\ clock' = clock
    BY <2>3, Zenon DEF Damage
  <2>4. QED BY <2>1, <2>2, <2>3
<1>2. UNCHANGED <<peers, archive, blocked, seenOrder, log, shown, clock>>
  BY <1>1 DEF ours
<1>3. packets' \subseteq OnAir
  <2>1. packets \subseteq OnAir /\ signing \in [Peers -> Nat] /\ clock \in Nat
    BY DEF PresenceInv, Listing
  <2>2. ASSUME NEW p \in Peers, Send(p) PROVE packets' \subseteq OnAir
    <3>1. PICK pkt \in      {Announce(p, n, g) : n \in Nicks, g \in BOOLEAN}
                       \cup {Message(p, b, l) : b \in Bodies, l \in BOOLEAN}
                       \cup {File(p, b) : b \in Bodies} \cup {LeaveNotice(p)} :
                 packets' = packets \cup {pkt}
      BY <2>2 DEF Send
    <3>2. signing[p] \in Nat
      BY <2>1
    <3>3. CASE \E n \in Nicks, g \in BOOLEAN : pkt = Announce(p, n, g)
      <4>1. pkt \in OnAir
        BY <2>1, <3>2, <3>3 DEF Announce, OnAir
      <4>2. QED BY <2>1, <3>1, <4>1
    <3>4. CASE \E b \in Bodies, l \in BOOLEAN : pkt = Message(p, b, l)
      <4>1. pkt \in OnAir
        BY <2>1, <3>2, <3>4 DEF Message, OnAir
      <4>2. QED BY <2>1, <3>1, <4>1
    <3>5. CASE \E b \in Bodies : pkt = File(p, b)
      <4>1. pkt \in OnAir
        BY <2>1, <3>5 DEF File, OnAir
      <4>2. QED BY <2>1, <3>1, <4>1
    <3>6. CASE pkt = LeaveNotice(p)
      <4>1. pkt \in OnAir
        BY <2>1, <3>6 DEF LeaveNotice, OnAir
      <4>2. QED BY <2>1, <3>1, <4>1
    <3>7. QED BY <3>3, <3>4, <3>5, <3>6
  <2>3. ASSUME NEW p \in Peers, Rekey(p) PROVE packets' \subseteq OnAir
    BY <2>1, <2>3 DEF Rekey
  <2>4. ASSUME NEW pkt \in packets, Damage(pkt) PROVE packets' \subseteq OnAir
    <3>1. pkt.kind = "message" /\ packets' = packets \cup {[pkt EXCEPT !.sound = FALSE]}
      BY <2>4 DEF Damage
    <3>2. pkt \in [kind : {"message"}, from : Peers, at : Nat,
                   id : {"message"} \X Peers \X Nat \X Bodies,
                   long : BOOLEAN, key : Nat, sound : BOOLEAN]
      BY <2>1, <3>1, AirKinds
    <3>3. [pkt EXCEPT !.sound = FALSE] \in [kind : {"message"}, from : Peers, at : Nat,
                   id : {"message"} \X Peers \X Nat \X Bodies,
                   long : BOOLEAN, key : Nat, sound : BOOLEAN]
      BY <3>2
    <3>4. [pkt EXCEPT !.sound = FALSE] \in OnAir
      BY <3>3 DEF OnAir
    <3>5. QED BY <2>1, <3>1, <3>4
  <2>5. QED BY <2>2, <2>3, <2>4
<1>4. signing' \in [Peers -> Nat]
  <2>1. signing \in [Peers -> Nat]
    BY DEF PresenceInv, Listing
  <2>2. ASSUME NEW p \in Peers, Send(p) PROVE signing' = signing
    BY <2>2 DEF Send
  <2>3. ASSUME NEW p \in Peers, Rekey(p) PROVE signing' = [signing EXCEPT ![p] = 1]
    BY <2>3 DEF Rekey
  <2>4. ASSUME NEW pkt \in packets, Damage(pkt) PROVE signing' = signing
    BY <2>4 DEF Damage
  <2>5. signing' = signing \/ \E p \in Peers : signing' = [signing EXCEPT ![p] = 1]
    BY <2>2, <2>3, <2>4
  <2>6. QED BY <2>1, <2>5
<1>5. Listing'
  BY <1>2, <1>3, <1>4 DEF PresenceInv, Listing, OnAir, Entries
<1>6. Remembering' /\ Stocked(archive, shown)'
  BY <1>2, MemoryStands, StockStands
<1>7. PinnedWhileListedStep
  BY <1>2 DEF PinnedWhileListedStep
<1>8. QED BY <1>5, <1>6, <1>7 DEF PresenceInv

\* Hearing of a sender moves the time it was last heard, if it is listed.
LEMMA HeardOf ==
  ASSUME NEW p
  PROVE  \/ Heard(p) = peers
         \/ p \in DOMAIN peers /\ Heard(p) = [peers EXCEPT ![p].heard = clock]
  BY DEF Heard

\* Any packet on the air, handled at any time.
LEMMA PresenceHandles ==
  ASSUME PresenceAssumption, ArchiveAssumption, PresenceInv, NEW pkt \in packets, HandlePacket(pkt)
  PROVE  PresenceInv' /\ PinnedWhileListedStep
<1>1. Listing /\ Remembering /\ Stocked(archive, shown)
  BY DEF PresenceInv
<1>2. pkt \in OnAir /\ pkt.from \in Peers \ blocked
  BY <1>1, AirKinds DEF HandlePacket, Listing
<1>3. UNCHANGED <<packets, signing, clock>>
  BY DEF HandlePacket
<1>4. CASE HandleAnnounce(pkt)
  <2>1. /\ pkt.kind = "announce" /\ peers' = Listed(pkt) /\ archive' = Record(archive, pkt, clock)
        /\ UNCHANGED <<blocked, seenOrder, log, shown>>
    BY <1>4 DEF HandleAnnounce
  <2>2. Listing' /\ PinnedWhileListedStep
    <3>1. pkt.nick \in Nicks /\ pkt.gateway \in BOOLEAN /\ pkt.key \in Nat
      BY <1>2, <2>1, AirKinds
    <3>2. QED BY <1>1, <1>2, <1>3, <2>1, <3>1, ListingStep
  <2>3. Stocked(archive', shown)
    BY <1>1, <1>2, <2>1, RecordedAnnounce DEF Origins
  <2>4. Stocked(archive, shown)'
    BY <2>1, <2>3 DEF Stocked, Origins
  <2>5. Remembering'
    BY <2>1, MemoryStands
  <2>6. QED BY <2>2, <2>4, <2>5 DEF PresenceInv
<1>5. CASE HandlePublicMessage(pkt)
  <2>1. pkt.kind = "message" /\ blocked' = blocked
    BY <1>5 DEF HandlePublicMessage
  <2>2. pkt.id \in {"message"} \X Peers \X Nat \X Bodies
    BY <1>2, <2>1, AirKinds
  <2>3. pkt.id \in MessageIds /\ pkt.id[2] # Me
    BY <2>2 DEF MessageIds, Origins, PresenceAssumption
  <2>4. CASE pkt.id \in Range(seenOrder)
    <3>1. UNCHANGED <<peers, archive, seenOrder, log, shown>>
      BY <1>5, <2>4 DEF HandlePublicMessage
    <3>2. Listing' /\ PinnedWhileListedStep
      BY <1>1, <1>3, <2>1, <3>1, ListingStep
    <3>3. Remembering' /\ Stocked(archive, shown)'
      BY <3>1, MemoryStands, StockStands
    <3>4. QED BY <3>2, <3>3 DEF PresenceInv
  <2>5. CASE pkt.id \notin Range(seenOrder) /\ Refused(pkt)
    <3>1. /\ UNCHANGED <<peers, archive, shown>>
          /\ seenOrder' = Remembered(seenOrder, pkt.id) /\ log' = Logged(pkt.id)
      BY <1>5, <2>5 DEF HandlePublicMessage
    <3>2. Listing' /\ PinnedWhileListedStep
      BY <1>1, <1>3, <2>1, <3>1, ListingStep
    <3>3. Remembering'
      BY <2>3, <2>5, <3>1, MemoryStep
    <3>4. Stocked(archive, shown)'
      BY <3>1, StockStands
    <3>5. QED BY <3>2, <3>3, <3>4 DEF PresenceInv
  <2>6. CASE pkt.id \notin Range(seenOrder) /\ ~Refused(pkt)
    <3>1. /\ peers' = Heard(pkt.from) /\ archive' = Record(archive, pkt, clock)
          /\ shown' = shown \cup {pkt}
          /\ seenOrder' = Remembered(seenOrder, pkt.id) /\ log' = Logged(pkt.id)
      BY <1>5, <2>6 DEF HandlePublicMessage
    <3>2. Listing' /\ PinnedWhileListedStep
      BY <1>1, <1>3, <2>1, <3>1, HeardOf, ListingStep
    <3>3. Remembering'
      BY <2>3, <2>6, <3>1, MemoryStep
    <3>4. Stocked(archive', shown')
      BY <1>1, <2>1, <3>1, RecordedPacket
    <3>5. Stocked(archive, shown)'
      BY <3>4 DEF Stocked, Origins
    <3>6. QED BY <3>2, <3>3, <3>5 DEF PresenceInv
  <2>7. QED BY <2>4, <2>5, <2>6
<1>6. CASE HandleFile(pkt)
  <2>1. /\ pkt.kind = "file" /\ peers' = Heard(pkt.from) /\ archive' = Record(archive, pkt, clock)
        /\ shown' = shown \cup {pkt} /\ UNCHANGED <<blocked, seenOrder, log>>
    BY <1>6 DEF HandleFile
  <2>2. Listing' /\ PinnedWhileListedStep
    BY <1>1, <1>3, <2>1, HeardOf, ListingStep
  <2>3. Stocked(archive', shown')
    BY <1>1, <2>1, RecordedPacket
  <2>4. Stocked(archive, shown)'
    BY <2>3 DEF Stocked, Origins
  <2>5. Remembering'
    BY <2>1, MemoryStands
  <2>6. QED BY <2>2, <2>4, <2>5 DEF PresenceInv
<1>7. CASE HandleLeave(pkt)
  <2>1. peers' = Without(peers, pkt.from) /\ UNCHANGED <<archive, blocked, seenOrder, log, shown>>
    BY <1>7 DEF HandleLeave
  <2>2. Listing' /\ PinnedWhileListedStep
    <3>1. \E P : peers' = [p \in DOMAIN peers \ P |-> peers[p]]
      BY <2>1 DEF Without
    <3>2. QED BY <1>1, <1>3, <2>1, <3>1, ListingStep
  <2>3. Remembering' /\ Stocked(archive, shown)'
    BY <2>1, MemoryStands, StockStands
  <2>4. QED BY <2>2, <2>3 DEF PresenceInv
<1>8. QED BY <1>4, <1>5, <1>6, <1>7 DEF HandlePacket

\* What the client sends of its own is filed, and what it says is shown and remembered.
LEMMA PresenceSays ==
  ASSUME PresenceAssumption, ArchiveAssumption, PresenceInv,
         (\E n \in Nicks : AnnounceFrame(n, FALSE)) \/ \E b \in Bodies : Say(b)
  PROVE  PresenceInv' /\ PinnedWhileListedStep
<1>1. Listing /\ Remembering /\ Stocked(archive, shown) /\ clock \in Nat
  BY DEF PresenceInv, Listing
<1>2. UNCHANGED <<packets, signing, peers, blocked, clock>>
  BY DEF AnnounceFrame, Say
<1>3. Listing' /\ PinnedWhileListedStep
  BY <1>1, <1>2, ListingStep
<1>4. ASSUME NEW n \in Nicks, AnnounceFrame(n, FALSE) PROVE PresenceInv'
  <2> DEFINE pkt == [kind |-> "announce", from |-> Me, at |-> clock, id |-> <<"announce", Me, clock, n>>,
                     nick |-> n, gateway |-> FALSE, key |-> 0, sound |-> TRUE]
  <2>1. archive' = Record(archive, pkt, clock) /\ UNCHANGED <<seenOrder, log, shown>>
    BY <1>4 DEF AnnounceFrame
  <2>2. pkt.kind = "announce" /\ pkt.from \in Origins
    BY DEF Origins
  <2> HIDE DEF pkt
  <2>3. Stocked(archive', shown)
    BY <1>1, <2>1, <2>2, RecordedAnnounce
  <2>4. Stocked(archive, shown)'
    BY <2>1, <2>3 DEF Stocked, Origins
  <2>5. Remembering'
    BY <2>1, MemoryStands
  <2>6. QED BY <1>3, <2>4, <2>5 DEF PresenceInv
<1>5. ASSUME NEW b \in Bodies, Say(b) PROVE PresenceInv'
  <2> DEFINE id == <<"message", Me, clock, b>>
             pkt == [kind |-> "message", from |-> Me, at |-> clock, id |-> id, long |-> FALSE,
                     key |-> 0, sound |-> TRUE]
  <2>1. /\ pkt \notin shown /\ shown' = shown \cup {pkt} /\ archive' = Record(archive, pkt, clock)
        /\ seenOrder' = Remembered(seenOrder, id) /\ log' = Logged(id)
    BY <1>5 DEF Say
  <2>2. pkt = OwnPacket(id) /\ pkt.kind = "message" /\ id[2] = Me
    BY DEF OwnPacket
  <2>3. id \in MessageIds
    BY <1>1 DEF MessageIds, Origins
  <2> HIDE DEF pkt, id
  <2>4. id \notin Range(seenOrder)
    BY <1>1, <2>1, <2>2 DEF Remembering, Range
  <2>5. Remembering'
    BY <2>1, <2>2, <2>3, <2>4, MemoryStep
  <2>6. Stocked(archive', shown')
    BY <1>1, <2>1, <2>2, RecordedPacket
  <2>7. Stocked(archive, shown)'
    BY <2>6 DEF Stocked, Origins
  <2>8. QED BY <1>3, <2>5, <2>7 DEF PresenceInv
<1>6. QED BY <1>3, <1>4, <1>5

\* Blocks, the sweep, an outage, a wipe and the passing of time.
LEMMA PresenceOwnStep ==
  ASSUME PresenceAssumption, ArchiveAssumption, PresenceInv,
         \/ \E p \in Peers : Block(p) \/ Unblock(p)
         \/ Maintain \/ ClearPeers \/ Wipe \/ ClockTick
  PROVE  PresenceInv' /\ PinnedWhileListedStep
<1>1. Listing /\ Remembering /\ Stocked(archive, shown)
  BY DEF PresenceInv
<1>2. ASSUME NEW p \in Peers, Block(p) PROVE PresenceInv' /\ PinnedWhileListedStep
  <2>1. /\ blocked' = blocked \cup {p} /\ peers' = Without(peers, p)
        /\ UNCHANGED <<packets, signing, archive, seenOrder, log, shown, clock>>
    BY <1>2 DEF Block
  <2>2. peers' = [q \in DOMAIN peers \ {p} |-> peers[q]]
    BY <2>1 DEF Without
  <2>3. Listing'
    BY <1>1, <2>1, <2>2 DEF Listing, OnAir, Entries
  <2>4. PinnedWhileListedStep
    BY <2>2 DEF PinnedWhileListedStep
  <2>5. Remembering' /\ Stocked(archive, shown)'
    BY <2>1, MemoryStands, StockStands
  <2>6. QED BY <2>3, <2>4, <2>5 DEF PresenceInv
<1>3. ASSUME NEW p \in Peers, Unblock(p) PROVE PresenceInv' /\ PinnedWhileListedStep
  <2>1. /\ blocked' = blocked \ {p}
        /\ UNCHANGED <<packets, signing, peers, archive, seenOrder, log, shown, clock>>
    BY <1>3 DEF Unblock
  <2>2. Listing'
    BY <1>1, <2>1 DEF Listing, OnAir, Entries
  <2>3. PinnedWhileListedStep
    BY <2>1 DEF PinnedWhileListedStep
  <2>4. Remembering' /\ Stocked(archive, shown)'
    BY <2>1, MemoryStands, StockStands
  <2>5. QED BY <2>2, <2>3, <2>4 DEF PresenceInv
<1>4. CASE Maintain
  <2> DEFINE swept == [archive EXCEPT !.announces = [q \in DOMAIN @ \ Expired |-> @[q]]]
  <2>1. /\ peers' = [p \in DOMAIN peers \ Expired |-> peers[p]]
        /\ archive' = DropStale(swept, clock)
        /\ UNCHANGED <<packets, signing, blocked, seenOrder, log, shown, clock>>
    BY <1>4 DEF Maintain
  <2>2. Listing' /\ PinnedWhileListedStep
    BY <1>1, <2>1, ListingStep
  <2>3. Stocked(swept, shown)
    <3> DEFINE rest == [q \in DOMAIN archive.announces \ Expired |-> archive.announces[q]]
    <3>1. swept = [archive EXCEPT !.announces = rest]
      OBVIOUS
    <3>2. DOMAIN rest \subseteq DOMAIN archive.announces
      OBVIOUS
    <3> HIDE DEF swept, rest
    <3>3. archive = [store |-> archive.store, announces |-> archive.announces]
      BY <1>1 DEF Stocked
    <3>4. swept = [store |-> archive.store, announces |-> rest]
      BY <3>1, <3>3
    <3>5. swept.store = archive.store /\ swept.announces = rest
      BY <3>4
    <3>6. QED BY <1>1, <3>2, <3>4, <3>5 DEF Stocked
  <2> HIDE DEF swept
  <2>4. Stocked(archive', shown)
    BY <2>1, <2>3, StaleDropped
  <2>5. Stocked(archive, shown)'
    BY <2>1, <2>4 DEF Stocked, Origins
  <2>6. Remembering'
    BY <2>1, MemoryStands
  <2>7. QED BY <2>2, <2>5, <2>6 DEF PresenceInv
<1>5. CASE ClearPeers
  <2>1. peers' = <<>> /\ UNCHANGED <<packets, signing, archive, blocked, seenOrder, log, shown, clock>>
    BY <1>5 DEF ClearPeers
  <2>2. peers' = [p \in {} |-> p] /\ DOMAIN peers' = {}
    BY <2>1
  <2>3. Listing'
    BY <1>1, <2>1, <2>2 DEF Listing, OnAir, Entries
  <2>4. PinnedWhileListedStep
    BY <2>2 DEF PinnedWhileListedStep
  <2>5. Remembering' /\ Stocked(archive, shown)'
    BY <2>1, MemoryStands, StockStands
  <2>6. QED BY <2>3, <2>4, <2>5 DEF PresenceInv
<1>6. CASE Wipe
  <2>1. /\ peers' = <<>> /\ blocked' = {} /\ seenOrder' = <<>> /\ log' = <<>> /\ archive' = Empty
        /\ UNCHANGED <<packets, signing, shown, clock>>
    BY <1>6 DEF Wipe
  <2>2. peers' = [p \in {} |-> p] /\ DOMAIN peers' = {}
    BY <2>1
  <2>3. Listing'
    BY <1>1, <2>1, <2>2 DEF Listing, OnAir, Entries
  <2>4. PinnedWhileListedStep
    BY <2>2 DEF PinnedWhileListedStep
  <2>5. Remembering'
    <3>1. SeenLimit \in Nat /\ Len(log') = 0 /\ log' \in Seq(MessageIds) /\ DOMAIN log' = {}
      BY <2>1 DEF PresenceAssumption
    <3>2. QED BY <2>1, <3>1 DEF Remembering, IsInjective, MessageIds, Origins
  <2>6. Stocked(archive, shown)'
    <3>1. Stocked(Empty, shown')
      BY DEF Stocked, Empty, ArchiveAssumption
    <3>2. QED BY <2>1, <3>1 DEF Stocked, Origins
  <2>7. QED BY <2>3, <2>4, <2>5, <2>6 DEF PresenceInv
<1>7. CASE ClockTick
  <2>1. clock' = clock + 1 /\ UNCHANGED <<packets, signing, peers, archive, blocked, seenOrder, log, shown>>
    BY <1>7 DEF ClockTick, ours
  <2>2. Listing'
    <3>1. clock \in Nat /\ \A p \in DOMAIN peers : peers[p].heard \in Nat /\ peers[p].heard <= clock
      BY <1>1 DEF Listing, Entries
    <3>2. clock' \in Nat /\ \A p \in DOMAIN peers : peers[p].heard <= clock'
      BY <2>1, <3>1
    <3>3. QED BY <1>1, <2>1, <3>2 DEF Listing, OnAir, Entries
  <2>3. PinnedWhileListedStep
    BY <2>1 DEF PinnedWhileListedStep
  <2>4. Remembering' /\ Stocked(archive, shown)'
    BY <2>1, MemoryStands, StockStands
  <2>5. QED BY <2>2, <2>3, <2>4 DEF PresenceInv
<1>8. QED BY <1>2, <1>3, <1>4, <1>5, <1>6, <1>7

\* Every step keeps the invariant, and the keys of those who stay listed.
LEMMA PresenceStep ==
  ASSUME PresenceAssumption, ArchiveAssumption, PresenceInv, [PresenceNext]_presenceVars
  PROVE  PresenceInv' /\ [PinnedWhileListedStep]_presenceVars
<1>1. CASE UNCHANGED presenceVars
  <2>1. UNCHANGED <<packets, signing, peers, archive, blocked, seenOrder, log, shown, clock>>
    BY <1>1 DEF presenceVars
  <2>2. Listing'
    BY <2>1 DEF PresenceInv, Listing, OnAir, Entries
  <2>3. Remembering' /\ Stocked(archive, shown)'
    BY <2>1, MemoryStands, StockStands
  <2>4. QED BY <1>1, <2>2, <2>3 DEF PresenceInv
<1>2. CASE \/ \E p \in Peers : Send(p) \/ Rekey(p)
           \/ \E pkt \in packets : Damage(pkt)
  BY <1>2, PeersStep
<1>3. CASE \E pkt \in packets : HandlePacket(pkt)
  BY <1>3, PresenceHandles
<1>4. CASE (\E n \in Nicks : AnnounceFrame(n, FALSE)) \/ \E b \in Bodies : Say(b)
  BY <1>4, PresenceSays
<1>5. CASE \/ \E p \in Peers : Block(p) \/ Unblock(p)
           \/ Maintain \/ ClearPeers \/ Wipe \/ ClockTick
  BY <1>5, PresenceOwnStep
<1>6. QED BY <1>1, <1>2, <1>3, <1>4, <1>5 DEF PresenceNext

\* For every number of peers, every size of the memory and of the stores and every order in
\* which packets arrive, arrive again or have lost their signature: a message is shown again
\* only once the memory of it has been pushed out, what is offered to the room is what was
\* shown here, and a listed peer stays held to the key of the announce that listed it.
THEOREM ShownStaysKept ==
  ASSUME PresenceAssumption, ArchiveAssumption
  PROVE  PresenceSpec => ShownAndKept
<1>1. PresenceInit => PresenceInv
  BY PresenceStarts
<1>2. PresenceInv /\ [PresenceNext]_presenceVars => PresenceInv' /\ [PinnedWhileListedStep]_presenceVars
  BY PresenceStep
<1>3. PresenceInv => PresenceTypeOK /\ ShownAgainOnlyWhenForgotten /\ ArchiveOnlyShown
  <2> SUFFICES ASSUME PresenceInv
               PROVE  PresenceTypeOK /\ ShownAgainOnlyWhenForgotten /\ ArchiveOnlyShown
    OBVIOUS
  <2>1. Listing /\ Remembering /\ Stocked(archive, shown)
    BY DEF PresenceInv
  <2>2. /\ log \in Seq(MessageIds) /\ Len(log) \in Nat /\ SeenLimit \in Nat
        /\ \A i, j \in DOMAIN log : log[i] = log[j] => i = j
    BY <2>1 DEF Remembering, IsInjective, PresenceAssumption
  <2>3. Len(seenOrder) <= SeenLimit /\ IsInjective(seenOrder)
    <3>1. CASE Len(log) <= SeenLimit
      BY <2>1, <3>1 DEF Remembering
    <3>2. CASE Len(log) > SeenLimit
      <4>1. Len(log) = SeenLimit + 1 /\ seenOrder = Tail(log) /\ log # <<>>
        BY <2>1, <2>2, <3>2 DEF Remembering
      <4>2. /\ Len(seenOrder) = SeenLimit /\ DOMAIN seenOrder = 1 .. SeenLimit /\ DOMAIN log = 1 .. SeenLimit + 1
            /\ \A i \in 1 .. SeenLimit : seenOrder[i] = log[i + 1]
        BY <2>2, <4>1
      <4>3. ASSUME NEW i \in 1 .. SeenLimit, NEW j \in 1 .. SeenLimit, seenOrder[i] = seenOrder[j] PROVE i = j
        <5>1. i + 1 \in DOMAIN log /\ j + 1 \in DOMAIN log /\ log[i + 1] = log[j + 1]
          BY <2>2, <4>2, <4>3
        <5>2. i + 1 = j + 1
          BY <2>2, <5>1
        <5>3. QED BY <2>2, <5>2
      <4>4. QED BY <2>2, <4>2, <4>3 DEF IsInjective
    <3>3. QED BY <2>2, <3>1, <3>2
  <2>4. \A p \in DOMAIN peers : peers[p] \in [nick : Nicks, gateway : BOOLEAN, key : Nat, heard : 0 .. clock]
    <3> TAKE p \in DOMAIN peers
    <3>1. peers[p] \in Entries /\ peers[p].heard <= clock /\ clock \in Nat
      BY <2>1 DEF Listing
    <3>2. QED BY <3>1 DEF Entries
  <2>5. PresenceTypeOK
    BY <2>1, <2>3, <2>4 DEF PresenceTypeOK, Listing, Stocked, Origins
  <2>6. ShownAgainOnlyWhenForgotten
    <3> SUFFICES ASSUME NEW i \in DOMAIN log, NEW j \in DOMAIN log, i < j, log[i] = log[j] PROVE FALSE
      BY DEF ShownAgainOnlyWhenForgotten
    <3>1. i = j /\ i \in Nat
      BY <2>2
    <3>2. QED BY <3>1
  <2>7. ArchiveOnlyShown
    <3> SUFFICES ASSUME NEW k \in Kinds, NEW i \in DOMAIN archive.store[k]
                 PROVE  archive.store[k][i] \in shown
      BY DEF ArchiveOnlyShown, Held
    <3>1. archive.store[k] \in Seq(shown)
      BY <2>1 DEF Stocked
    <3>2. QED BY <3>1
  <2>8. QED BY <2>5, <2>6, <2>7
<1>4. QED BY <1>1, <1>2, <1>3, PTL DEF PresenceSpec, ShownAndKept
=============================================================================
