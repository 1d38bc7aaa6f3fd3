------------------------- MODULE DirectMessagesProofs -------------------------
(* TLAPS proofs about DirectMessages, for any set of nodes and every bound.    *)
EXTENDS DirectMessages, SequenceTheorems, FiniteSetTheorems, TLAPS

\* What the replay window makes of a nonce is a replay window again.
LEMMA WindowTypeKept ==
  ASSUME NEW w \in WindowType, NEW i \in Nat
  PROVE  MarkNonceAsSeen(w, i) \in WindowType
<1>1. w.highest \in Nat /\ w.seen \subseteq Nat /\ w = [highest |-> w.highest, seen |-> w.seen]
  BY DEF WindowType
<1>2. Retained(w, i) \subseteq Nat
  BY <1>1 DEF Retained
<1>3. CASE i > w.highest
  BY <1>1, <1>2, <1>3 DEF MarkNonceAsSeen, WindowType
<1>4. CASE ~(i > w.highest)
  BY <1>1, <1>4 DEF MarkNonceAsSeen, WindowType
<1> QED
  BY <1>3, <1>4

\* The sessions the manager builds are sessions.
LEMMA SessionTypes ==
  /\ NoSession \in SessionType
  /\ \A e \in Nat, role \in Roles : OpenHandshake(role, e) \in SessionType
  /\ \A s \in SessionType, k \in Nat :
       Establish(s, k) \in SessionType /\ AfterSealing(s, k) \in SessionType
  /\ \A s \in SessionType : Spoil(s) \in SessionType
<1>1. FreshWindow \in WindowType
  BY DEF FreshWindow, WindowType
<1>2. NoSession \in SessionType
  BY <1>1 DEF NoSession, SessionType, Roles
<1>3. \A e \in Nat, role \in Roles : OpenHandshake(role, e) \in SessionType
  BY <1>1 DEF OpenHandshake, NoSession, SessionType
<1>4. \A s \in SessionType, k \in Nat : Establish(s, k) \in SessionType
  BY <1>1 DEF Establish, SessionType
<1>5. \A s \in SessionType, k \in Nat : AfterSealing(s, k) \in SessionType
  BY DEF AfterSealing, SessionType
<1>6. \A s \in SessionType : Spoil(s) \in SessionType
  BY DEF Spoil, SessionType
<1> QED
  BY <1>2, <1>3, <1>4, <1>5, <1>6

\* handle_incoming_handshake returns a session, and a leg to answer with.
LEMMA HandshakeTypes ==
  ASSUME NEW s \in SessionType, NEW m \in Legs, NEW e \in Nat
  PROVE  /\ HandleIncomingHandshake(s, m, e).session \in SessionType
         /\ HandleIncomingHandshake(s, m, e).reply \in Legs
<1> DEFINE o == HandleIncomingHandshake(s, m, e)
<1>1. m.leg \in 1 .. 3 /\ m.of \in Nat /\ m.eph \in Nat /\ s.mine \in Nat
  BY DEF Legs, SessionType
<1>2. NoReply \in Legs
  BY DEF NoReply, Leg, Legs
<1>3. \A x, y \in Nat : Leg(2, x, y) \in Legs /\ Leg(3, x, y) \in Legs
  BY DEF Leg, Legs
<1>4. CASE s.state = "Established"
  BY <1>2, <1>4 DEF HandleIncomingHandshake, Outcome
<1>5. CASE s.state = "Absent"
  <2>1. /\ o.session = OpenHandshake("Responder", e)
        /\ o.reply = Leg(2, IF m.leg = 1 THEN m.eph ELSE 0, e)
    BY <1>5 DEF HandleIncomingHandshake, Outcome
  <2> QED
    BY <1>1, <1>3, <2>1, SessionTypes DEF Roles
<1>6. CASE s.state = "Handshaking"
  <2>1. \/ o.session = Establish(s, m.eph) /\ o.reply = Leg(3, m.eph, 0)
        \/ o.session = Establish(s, s.mine) /\ o.reply = NoReply
        \/ o.session = s /\ o.reply = NoReply
    BY <1>6 DEF HandleIncomingHandshake, Outcome
  <2> QED
    BY <1>1, <1>2, <1>3, <2>1, SessionTypes
<1> QED
  BY <1>4, <1>5, <1>6 DEF SessionType

\* Sealing a batch of bodies yields seals, each addressed as a frame.
LEMMA SealTypes ==
  ASSUME NEW s \in SessionType, NEW bodies, DOMAIN bodies \subseteq Nat \ {0},
         \A i \in DOMAIN bodies : bodies[i] \in Bodies,
         NEW n \in Nodes, NEW p \in Nodes
  PROVE  /\ SealAll(s, bodies) \subseteq Seals
         /\ SealedFramesOf(n, p, SealAll(s, bodies)) \subseteq SealedFrames
<1>1. s.nonce \in Nat /\ s.key \in Nat
  BY DEF SessionType
<1>2. SendCipher(s) \in Nat \X {1, 2}
  BY <1>1 DEF SendCipher
<1>3. \A i \in DOMAIN bodies : Sealed(s, i, bodies[i]) \in Seals
  BY <1>1, <1>2 DEF Sealed, Seals
<1>4. SealAll(s, bodies) \subseteq Seals
  BY <1>3 DEF SealAll
<1> QED
  BY <1>4 DEF SealedFramesOf, SealedFrames

\* A new process, and what it starts from, is well typed.
LEMMA InitTyped == Init => TypeOK
<1> SUFFICES ASSUME Init PROVE TypeOK
  OBVIOUS
<1>1. /\ running \in [Nodes -> BOOLEAN]
      /\ known \in [Nodes -> SUBSET Nodes] /\ blocked \in [Nodes -> SUBSET Nodes]
      /\ legs \subseteq LegFrames /\ sealed \subseteq SealedFrames /\ sealLog \subseteq Seals
      /\ receipted \in [Nodes -> SUBSET Ids]
      /\ told \in [Nodes -> [Nodes -> BOOLEAN]]
  BY DEF Init
<1>2. session \in [Nodes -> [Nodes -> SessionType]]
  BY SessionTypes DEF Init
<1>3. /\ pending \in [Nodes -> [Nodes -> Seq(Ids)]]
      /\ shown \in [Nodes -> [Nodes -> Seq(Ids)]]
  BY DEF Init
<1>4. /\ status \in [Nodes -> [Ids -> NotShown .. Read]]
      /\ opened \in [Ids -> Nat]
      /\ minted \in 0 .. MaxRecords /\ drawn \in 0 .. MaxEphemerals /\ faults \in 0 .. Faults
  BY BoundsAssumption DEF Init, NotShown, Read
<1> QED
  BY <1>1, <1>2, <1>3, <1>4 DEF TypeOK

\* The peer table and the block list.
LEMMA TablesTyped ==
  ASSUME TypeOK, NEW n \in Nodes, NEW p \in Nodes,
         HearAnnounce(n, p) \/ LosePeer(n, p) \/ Block(n, p) \/ Unblock(n, p)
  PROVE  TypeOK'
<1>1. CASE HearAnnounce(n, p)
  BY <1>1 DEF HearAnnounce, TypeOK, ui, ghosts
<1>2. CASE LosePeer(n, p)
  BY <1>2 DEF LosePeer, TypeOK, ui, ghosts
<1>3. CASE Block(n, p)
  BY <1>3, SessionTypes DEF Block, TypeOK, ui, ghosts
<1>4. CASE Unblock(n, p)
  BY <1>4 DEF Unblock, TypeOK, ui, ghosts
<1> QED
  BY <1>1, <1>2, <1>3, <1>4

\* A restart and a wipe leave typed tables behind.
LEMMA ForgettingTyped ==
  ASSUME TypeOK, NEW n \in Nodes, Restart(n) \/ Wipe(n)
  PROVE  TypeOK'
<1>1. Forget(n)
  BY DEF Restart, Wipe
<1>2. /\ known' \in [Nodes -> SUBSET Nodes]
      /\ receipted' \in [Nodes -> SUBSET Ids]
      /\ told' \in [Nodes -> [Nodes -> BOOLEAN]]
  BY <1>1 DEF Forget, TypeOK
<1>3. /\ pending' \in [Nodes -> [Nodes -> Seq(Ids)]]
      /\ shown' \in [Nodes -> [Nodes -> Seq(Ids)]]
  BY <1>1 DEF Forget, TypeOK
<1>4. status' \in [Nodes -> [Ids -> NotShown .. Read]]
  BY <1>1 DEF Forget, TypeOK, NotShown, Read
<1>5. /\ session' \in [Nodes -> [Nodes -> SessionType]]
      /\ running' \in [Nodes -> BOOLEAN] /\ blocked' \in [Nodes -> SUBSET Nodes]
      /\ faults' \in 0 .. Faults
  <2>1. CASE Restart(n)
    <3>1. [p \in Nodes |-> NoSession] \in [Nodes -> SessionType]
      BY SessionTypes
    <3>2. faults' \in 0 .. Faults
      BY <2>1, BoundsAssumption DEF Restart, TypeOK
    <3> QED
      BY <2>1, <3>1, <3>2 DEF Restart, TypeOK
  <2>2. CASE Wipe(n)
    <3> DEFINE kept == [p \in Nodes |-> IF p \in known[n] THEN NoSession ELSE session[n][p]]
    <3>1. kept \in [Nodes -> SessionType]
      BY SessionTypes DEF TypeOK
    <3>2. session' = [session EXCEPT ![n] = kept]
      BY <2>2 DEF Wipe
    <3>3. session' \in [Nodes -> [Nodes -> SessionType]]
      BY <3>1, <3>2 DEF TypeOK
    <3> QED
      BY <2>2, <3>3 DEF Wipe, TypeOK
  <2> QED
    BY <2>1, <2>2
<1>7. UNCHANGED <<legs, sealed, minted, drawn, ghosts>>
  BY DEF Restart, Wipe
<1> QED
  BY <1>2, <1>3, <1>4, <1>5, <1>7 DEF TypeOK, ghosts

\* The identifiers dm_frames mints are fresh identifiers within the bound.
LEMMA NewIdsTyped ==
  ASSUME TypeOK, NEW k \in 1 .. MaxChunks, minted + k <= MaxRecords
  PROVE  /\ NewIds(k) \in Seq(Ids)
         /\ minted + k \in 0 .. MaxRecords
         /\ minted + 1 \in Ids
         /\ DOMAIN Records(NewIds(k)) \subseteq Nat \ {0}
         /\ \A i \in DOMAIN Records(NewIds(k)) : Records(NewIds(k))[i] \in Bodies
<1>1. minted \in Nat /\ k \in Nat /\ k >= 1 /\ MaxRecords \in Nat
  BY BoundsAssumption DEF TypeOK
<1>2. \A i \in 1 .. k : minted + i \in Ids
  BY <1>1 DEF Ids
<1>3. NewIds(k) \in [1 .. k -> Ids]
  BY <1>2 DEF NewIds
<1>4. NewIds(k) \in Seq(Ids)
  BY <1>1, <1>3
<1>5. /\ DOMAIN Records(NewIds(k)) = 1 .. k
      /\ \A i \in 1 .. k : Records(NewIds(k))[i] = Body("PrivateMessage", NewIds(k)[i])
  BY <1>3 DEF Records
<1>6. \A i \in 1 .. k : Records(NewIds(k))[i] \in Bodies
  BY <1>3, <1>5 DEF Body, Bodies
<1> QED
  BY <1>1, <1>2, <1>4, <1>5, <1>6

\* dm_frames, in each of its three outcomes.
LEMMA SendingTyped ==
  ASSUME TypeOK, NEW n \in Nodes, NEW p \in Nodes, NEW k \in 1 .. MaxChunks,
         SendOnChannel(n, p, k) \/ SendAndOpen(n, p, k) \/ SendRefused(n, p, k)
  PROVE  TypeOK'
<1>1. minted + k <= MaxRecords /\ k \in Nat
  BY DEF SendOnChannel, SendAndOpen, SendRefused, MayType
<1>2. /\ NewIds(k) \in Seq(Ids) /\ minted + k \in 0 .. MaxRecords /\ minted + 1 \in Ids
      /\ DOMAIN Records(NewIds(k)) \subseteq Nat \ {0}
      /\ \A i \in DOMAIN Records(NewIds(k)) : Records(NewIds(k))[i] \in Bodies
  BY <1>1, NewIdsTyped
<1>3. session[n][p] \in SessionType
  BY DEF TypeOK
<1>4. Echoed \in NotShown .. Read
  BY DEF Echoed, NotShown, Read
<1>5. CASE SendOnChannel(n, p, k)
  <2> DEFINE new == SealAll(session[n][p], Records(NewIds(k)))
  <2>1. new \subseteq Seals /\ SealedFramesOf(n, p, new) \subseteq SealedFrames
    BY <1>2, <1>3, SealTypes
  <2>2. AfterSealing(session[n][p], k) \in SessionType
    BY <1>1, <1>3, SessionTypes
  <2>3. /\ sealed' = sealed \cup SealedFramesOf(n, p, new)
        /\ sealLog' = sealLog \cup new
        /\ session' = [session EXCEPT ![n][p] = AfterSealing(session[n][p], k)]
        /\ minted' = minted + k
        /\ status' = [status EXCEPT ![n][minted + 1] = Echoed]
        /\ UNCHANGED <<running, known, blocked, pending, legs, shown, receipted,
                       told, drawn, faults, opened>>
    BY <1>5 DEF SendOnChannel
  <2> HIDE DEF new
  <2>4. session' \in [Nodes -> [Nodes -> SessionType]]
    BY <2>2, <2>3 DEF TypeOK
  <2>5. status' \in [Nodes -> [Ids -> NotShown .. Read]]
    BY <1>2, <1>4, <2>3 DEF TypeOK
  <2> QED
    BY <1>2, <2>1, <2>3, <2>4, <2>5 DEF TypeOK
<1>6. CASE SendAndOpen(n, p, k)
  <2>1. drawn + 1 \in 0 .. MaxEphemerals /\ drawn + 1 \in Nat
    BY <1>6, BoundsAssumption DEF SendAndOpen, TypeOK
  <2>2. OpenHandshake("Initiator", drawn + 1) \in SessionType
    BY <2>1, SessionTypes DEF Roles
  <2>3. [from |-> n, to |-> p, msg |-> Leg(1, 0, drawn + 1)] \in LegFrames
    BY <2>1 DEF LegFrames, Leg, Legs
  <2>4. pending[n][p] \o NewIds(k) \in Seq(Ids)
    <3>1. pending[n][p] \in Seq(Ids)
      BY DEF TypeOK
    <3> QED
      BY <1>2, <3>1, ConcatProperties
  <2>5. session' \in [Nodes -> [Nodes -> SessionType]]
    BY <1>6, <2>2 DEF SendAndOpen, TypeOK
  <2>6. pending' \in [Nodes -> [Nodes -> Seq(Ids)]]
    BY <1>6, <2>4 DEF SendAndOpen, TypeOK
  <2>7. status' \in [Nodes -> [Ids -> NotShown .. Read]]
    BY <1>2, <1>4, <1>6 DEF SendAndOpen, TypeOK
  <2>8. legs' \subseteq LegFrames /\ drawn' \in 0 .. MaxEphemerals
    BY <1>6, <2>1, <2>3 DEF SendAndOpen, TypeOK
  <2> QED
    BY <1>2, <1>6, <2>5, <2>6, <2>7, <2>8 DEF SendAndOpen, TypeOK, ghosts
<1>7. CASE SendRefused(n, p, k)
  <2>1. session' \in [Nodes -> [Nodes -> SessionType]]
    BY <1>3, <1>7, SessionTypes DEF SendRefused, TypeOK
  <2>2. told' \in [Nodes -> [Nodes -> BOOLEAN]]
    BY <1>7 DEF SendRefused, TypeOK
  <2> QED
    BY <1>2, <1>7, <2>1, <2>2 DEF SendRefused, TypeOK, ui, ghosts
<1> QED
  BY <1>5, <1>6, <1>7

\* handle_noise_handshake on any leg, dropped or handled.
LEMMA LegTyped ==
  ASSUME TypeOK, NEW f \in legs, NEW keep \in BOOLEAN, ReceiveLeg(f, keep),
         faults' \in 0 .. Faults
  PROVE  TypeOK'
<1> DEFINE n == f.to
           p == f.from
           o == Handshake(f)
<1>1. n \in Nodes /\ p \in Nodes /\ f.msg \in Legs /\ legs \subseteq LegFrames
  BY DEF TypeOK, LegFrames
<1>2. session[n][p] \in SessionType /\ drawn + 1 \in Nat /\ pending[n][p] \in Seq(Ids)
  BY <1>1 DEF TypeOK
<1>3. o.session \in SessionType /\ o.reply \in Legs
  BY <1>1, <1>2, HandshakeTypes DEF Handshake
<1>4. [from |-> n, to |-> p, msg |-> o.reply] \in LegFrames
  BY <1>1, <1>3 DEF LegFrames
<1>5. Consume(legs, f, keep) \subseteq LegFrames
  BY <1>1 DEF Consume
<1>6. CASE DropLeg(f, keep)
  BY <1>5, <1>6 DEF DropLeg, TypeOK, ui, ghosts
<1>7. CASE FailHandshake(f, keep)
  <2>1. session' \in [Nodes -> [Nodes -> SessionType]]
    BY <1>1, <1>7, SessionTypes DEF FailHandshake, TypeOK
  <2>2. told' \in [Nodes -> [Nodes -> BOOLEAN]]
    BY <1>1, <1>7 DEF FailHandshake, TypeOK
  <2> QED
    BY <1>5, <1>7, <2>1, <2>2 DEF FailHandshake, TypeOK, ui, ghosts
<1>8. CASE AnswerOpening(f, keep)
  <2>1. /\ session' = [session EXCEPT ![n][p] = o.session]
        /\ legs' = Consume(legs, f, keep) \cup {[from |-> n, to |-> p, msg |-> o.reply]}
        /\ drawn < MaxEphemerals /\ drawn' = drawn + 1
        /\ UNCHANGED <<running, known, blocked, pending, sealed, ui, told, minted, ghosts>>
    BY <1>8 DEF AnswerOpening
  <2> HIDE DEF o, n, p
  <2>2. session' \in [Nodes -> [Nodes -> SessionType]]
    BY <1>1, <1>3, <2>1 DEF TypeOK
  <2>3. drawn' \in 0 .. MaxEphemerals
    BY <2>1, BoundsAssumption DEF TypeOK
  <2> QED
    BY <1>4, <1>5, <2>1, <2>2, <2>3 DEF TypeOK, ui, ghosts
<1>9. CASE CompleteHandshake(f, keep)
  <2> DEFINE records == Records(pending[n][p])
             new == SealAll(o.session, records)
             after == AfterSealing(o.session, Len(pending[n][p]))
  <2>1. DOMAIN records \subseteq Nat \ {0} /\ \A i \in DOMAIN records : records[i] \in Bodies
    BY <1>2 DEF Records, Body, Bodies
  <2>2. new \subseteq Seals /\ SealedFramesOf(n, p, new) \subseteq SealedFrames
    <3> HIDE DEF records, o, n, p
    <3> QED
      BY <1>1, <1>3, <2>1, SealTypes
  <2>3. after \in SessionType
    <3>1. Len(pending[n][p]) \in Nat
      BY <1>2
    <3> HIDE DEF o, n, p
    <3> QED
      BY <1>3, <3>1, SessionTypes
  <2>4. /\ session' = [session EXCEPT ![n][p] = after]
        /\ pending' = [pending EXCEPT ![n][p] = <<>>]
        /\ sealed' = sealed \cup SealedFramesOf(n, p, new)
        /\ sealLog' = sealLog \cup new
        /\ UNCHANGED <<running, known, blocked, ui, told, minted, drawn, opened>>
    BY <1>9 DEF CompleteHandshake
  <2>5. legs' \subseteq LegFrames
    BY <1>4, <1>5, <1>9 DEF CompleteHandshake
  <2> HIDE DEF new, after, o, n, p
  <2>6. session' \in [Nodes -> [Nodes -> SessionType]]
    BY <1>1, <2>3, <2>4 DEF TypeOK
  <2>7. pending' \in [Nodes -> [Nodes -> Seq(Ids)]]
    BY <1>1, <2>4 DEF TypeOK
  <2> QED
    BY <2>2, <2>4, <2>5, <2>6, <2>7 DEF TypeOK, ui
<1> QED
  BY <1>6, <1>7, <1>8, <1>9 DEF ReceiveLeg

\* handle_noise_encrypted on any frame, dropped or opened.
LEMMA SealedTyped ==
  ASSUME TypeOK, NEW f \in sealed, NEW keep \in BOOLEAN, ReceiveSealed(f, keep),
         faults' \in 0 .. Faults
  PROVE  TypeOK'
<1> DEFINE n == f.to
           p == f.from
           s == AfterOpening(session[n][p], f.seal)
           id == f.seal.body.id
<1>1. n \in Nodes /\ p \in Nodes /\ f.seal \in Seals /\ sealed \subseteq SealedFrames
  BY DEF TypeOK, SealedFrames
<1>2. f.seal.nonce \in Nat /\ f.seal.body \in Bodies /\ id \in Ids
  BY <1>1 DEF Seals, Bodies
<1>3. session[n][p] \in SessionType
  BY <1>1 DEF TypeOK
<1>4. s \in SessionType
  <2>1. MarkNonceAsSeen(session[n][p].rx, f.seal.nonce) \in WindowType
    BY <1>2, <1>3, WindowTypeKept DEF SessionType
  <2> QED
    BY <1>3, <2>1 DEF AfterOpening, SessionType
<1>5. Consume(sealed, f, keep) \subseteq SealedFrames
  BY <1>1 DEF Consume
<1>6. CASE DropSealed(f, keep)
  BY <1>5, <1>6 DEF DropSealed, TypeOK, ui, ghosts
<1>7. CASE OpenPrivateMessage(f, keep)
  <2> DEFINE batch == <<Body("Delivered", id)>>
             receipt == SealAll(s, batch)
  <2>1. DOMAIN batch \subseteq Nat \ {0} /\ \A i \in DOMAIN batch : batch[i] \in Bodies
    BY <1>2 DEF Body, Bodies
  <2>2. receipt \subseteq Seals /\ SealedFramesOf(n, p, receipt) \subseteq SealedFrames
    <3> HIDE DEF batch, s, n, p
    <3> QED
      BY <1>1, <1>4, <2>1, SealTypes
  <2>3. AfterSealing(s, 1) \in SessionType
    BY <1>4, SessionTypes
  <2>4. /\ shown' = [shown EXCEPT ![n][p] = Append(shown[n][p], id)]
        /\ opened' = [opened EXCEPT ![id] = opened[id] + 1]
        /\ session' = [session EXCEPT ![n][p] = AfterSealing(s, 1)]
        /\ sealed' = Consume(sealed, f, keep) \cup SealedFramesOf(n, p, receipt)
        /\ sealLog' = sealLog \cup receipt
        /\ UNCHANGED <<running, known, blocked, pending, legs, receipted, status,
                       told, minted, drawn>>
    BY <1>7 DEF OpenPrivateMessage
  <2> HIDE DEF receipt, s, n, p, id
  <2>5. Append(shown[n][p], id) \in Seq(Ids)
    BY <1>1, <1>2, AppendProperties DEF TypeOK
  <2>6. shown' \in [Nodes -> [Nodes -> Seq(Ids)]]
    BY <1>1, <2>4, <2>5 DEF TypeOK
  <2>7. opened' \in [Ids -> Nat]
    BY <1>2, <2>4 DEF TypeOK
  <2>8. session' \in [Nodes -> [Nodes -> SessionType]]
    BY <1>1, <2>3, <2>4 DEF TypeOK
  <2> QED
    BY <1>5, <2>2, <2>4, <2>6, <2>7, <2>8 DEF TypeOK
<1>8. CASE OpenReceipt(f, keep)
  <2>1. \A new \in NotShown .. Read :
          MarkDelivery(n, id, new) \in [Nodes -> [Ids -> NotShown .. Read]]
    BY <1>1, <1>2 DEF MarkDelivery, TypeOK
  <2>2. Read \in NotShown .. Read /\ Delivered \in NotShown .. Read
    BY DEF Read, Delivered, NotShown
  <2>3. /\ session' = [session EXCEPT ![n][p] = s]
        /\ \E new \in {Read, Delivered} : status' = MarkDelivery(n, id, new)
        /\ sealed' = Consume(sealed, f, keep)
        /\ UNCHANGED <<running, known, blocked, pending, legs, shown, receipted,
                       told, minted, drawn, ghosts>>
    BY <1>8 DEF OpenReceipt
  <2> HIDE DEF s, n, p, id
  <2>4. session' \in [Nodes -> [Nodes -> SessionType]]
    BY <1>1, <1>4, <2>3 DEF TypeOK
  <2>5. status' \in [Nodes -> [Ids -> NotShown .. Read]]
    BY <2>1, <2>2, <2>3
  <2> QED
    BY <1>5, <2>3, <2>4, <2>5 DEF TypeOK, ghosts
<1> QED
  BY <1>6, <1>7, <1>8 DEF ReceiveSealed

\* The read receipts of the draw loop: the ranks of the lines are counters.
LEMMA ViewTyped ==
  ASSUME TypeOK, NEW n \in Nodes, NEW p \in Nodes, ViewConversation(n, p)
  PROVE  TypeOK'
<1> DEFINE U == Unreceipted(n, p)
           R == ReadReceipts(n, p)
           Rank(i) == Cardinality({j \in U : j <= i})
<1>1. shown[n][p] \in Seq(Ids) /\ session[n][p] \in SessionType
  BY DEF TypeOK
<1>2. U \subseteq 1 .. Len(shown[n][p]) /\ \A i \in U : shown[n][p][i] \in Ids
  BY <1>1 DEF Unreceipted
<1>3. IsFiniteSet(U)
  BY <1>1, <1>2, FS_Interval, FS_Subset
<1>4. Cardinality(U) \in Nat
  BY <1>3, FS_CardinalityType
<1>5. \A i \in U : Rank(i) \in Nat \ {0}
  <2> SUFFICES ASSUME NEW i \in U PROVE Rank(i) \in Nat \ {0}
    OBVIOUS
  <2> DEFINE B == {j \in U : j <= i}
  <2>1. IsFiniteSet(B)
    BY <1>3, FS_Subset
  <2>2. i \in B
    BY <1>1, <1>2
  <2> QED
    BY <2>1, <2>2, FS_CardinalityType, FS_EmptySet
<1>6. R \subseteq Seals
  <2> SUFFICES ASSUME NEW i \in U
               PROVE  Sealed(session[n][p], Rank(i), Body("ReadReceipt", shown[n][p][i])) \in Seals
    BY DEF ReadReceipts
  <2> HIDE DEF Rank
  <2>1. session[n][p].nonce \in Nat /\ session[n][p].key \in Nat
    BY <1>1 DEF SessionType
  <2>2. SendCipher(session[n][p]) \in Nat \X {1, 2}
    BY <2>1 DEF SendCipher
  <2>3. Body("ReadReceipt", shown[n][p][i]) \in Bodies
    BY <1>2 DEF Body, Bodies
  <2>4. session[n][p].nonce + Rank(i) - 1 \in Nat
    BY <1>5, <2>1
  <2> QED
    BY <2>2, <2>3, <2>4 DEF Sealed, Seals
<1>7. SealedFramesOf(n, p, R) \subseteq SealedFrames
  BY <1>6 DEF SealedFramesOf, SealedFrames
<1>8. AfterSealing(session[n][p], Cardinality(U)) \in SessionType
  BY <1>1, <1>4, SessionTypes
<1>9. receipted' \in [Nodes -> SUBSET Ids]
  <2> DEFINE new == {shown[n][p][i] : i \in U}
  <2>1. new \subseteq Ids
    BY <1>2
  <2>2. receipted' = [receipted EXCEPT ![n] = receipted[n] \cup new]
    BY DEF ViewConversation
  <2> HIDE DEF new
  <2> QED
    BY <2>1, <2>2 DEF TypeOK
<1> DEFINE after == AfterSealing(session[n][p], Cardinality(U))
<1>10. \/ /\ session' = [session EXCEPT ![n][p] = after]
          /\ sealed' = sealed \cup SealedFramesOf(n, p, R)
          /\ sealLog' = sealLog \cup R
       \/ UNCHANGED <<session, sealed, sealLog>>
  BY DEF ViewConversation
<1> HIDE DEF U, R, after
<1>11. session' \in [Nodes -> [Nodes -> SessionType]]
  <2>1. after \in SessionType
    BY <1>8 DEF after
  <2>2. CASE session' = [session EXCEPT ![n][p] = after]
    BY <2>1, <2>2 DEF TypeOK
  <2>3. CASE session' = session
    BY <2>3 DEF TypeOK
  <2> QED
    BY <1>10, <2>2, <2>3
<1>12. sealed' \subseteq SealedFrames /\ sealLog' \subseteq Seals
  BY <1>6, <1>7, <1>10 DEF TypeOK
<1> QED
  BY <1>9, <1>11, <1>12 DEF ViewConversation, TypeOK

\* Every step keeps the types.
LEMMA NextTyped == TypeOK /\ [Next]_vars => TypeOK'
<1> SUFFICES ASSUME TypeOK, [Next]_vars PROVE TypeOK'
  OBVIOUS
<1>1. CASE UNCHANGED vars
  BY <1>1 DEF vars, TypeOK
<1>2. CASE Arrive
  <2>1. faults' \in 0 .. Faults
    BY <1>2 DEF Arrive, TypeOK
  <2> QED
    BY <1>2, <2>1, LegTyped, SealedTyped DEF Arrive
<1>3. CASE ArriveTwice
  <2>1. faults' \in 0 .. Faults
    BY <1>3, BoundsAssumption DEF ArriveTwice, TypeOK
  <2> QED
    BY <1>3, <2>1, LegTyped, SealedTyped DEF ArriveTwice
<1>4. CASE Lose
  <2>1. faults' \in 0 .. Faults
    BY <1>4, BoundsAssumption DEF Lose, TypeOK
  <2> QED
    BY <1>4, <2>1 DEF Lose, TypeOK, ui, ghosts
<1>5. ASSUME NEW n \in Nodes, NEW p \in Nodes,
             \/ HearAnnounce(n, p) \/ LosePeer(n, p) \/ ViewConversation(n, p)
             \/ Block(n, p) \/ Unblock(n, p)
      PROVE  TypeOK'
  BY <1>5, TablesTyped, ViewTyped
<1>6. ASSUME NEW n \in Nodes, NEW p \in Nodes, NEW k \in 1 .. MaxChunks,
             SendOnChannel(n, p, k) \/ SendAndOpen(n, p, k) \/ SendRefused(n, p, k)
      PROVE  TypeOK'
  BY <1>6, SendingTyped
<1>7. ASSUME NEW n \in Nodes, Restart(n) \/ Wipe(n)
      PROVE  TypeOK'
  BY <1>7, ForgettingTyped
<1> QED
  BY <1>1, <1>2, <1>3, <1>4, <1>5, <1>6, <1>7 DEF Next

\* The private-message state of every node stays well typed: sessions,
\* queues, frames on the mesh, conversations and ticks.
THEOREM TypeCorrect == Spec => []TypeOK
<1>1. Init => TypeOK
  BY InitTyped
<1>2. TypeOK /\ [Next]_vars => TypeOK'
  BY NextTyped
<1> QED
  BY <1>1, <1>2, PTL DEF Spec
-----------------------------------------------------------------------------
(* Channels: what a session with a peer implies about the block list, the     *)
(* peer table and the queue.                                                   *)

ChannelInv == TypeOK /\ BlockedPeerHasNoChannel /\ NothingQueuedBehindChannel

\* What the session operators do to the state of the channel.
LEMMA StatesOfSessions ==
  /\ ~HasEstablishedSession(NoSession)
  /\ \A e \in Nat, role \in Roles : ~HasEstablishedSession(OpenHandshake(role, e))
  /\ \A x \in SessionType, k \in Nat :
       HasEstablishedSession(AfterSealing(x, k)) <=> HasEstablishedSession(x)
  /\ \A x \in SessionType : HasEstablishedSession(Spoil(x)) <=> HasEstablishedSession(x)
  /\ \A x \in SessionType, f \in Seals :
       HasEstablishedSession(AfterOpening(x, f)) <=> HasEstablishedSession(x)
BY DEF HasEstablishedSession, NoSession, OpenHandshake, AfterSealing, Spoil,
       AfterOpening, SessionType

\* A step that touches the session with one peer that is not blocked.
LEMMA OneChannelStep ==
  ASSUME ChannelInv, NEW n \in Nodes, NEW p \in Nodes, NEW x,
         session' = [session EXCEPT ![n][p] = x],
         known' = known, blocked' = blocked, p \notin blocked[n],
         \A m, q \in Nodes : (m # n \/ q # p) => pending'[m][q] = pending[m][q],
         HasEstablishedSession(x) => pending'[n][p] = <<>>
  PROVE  BlockedPeerHasNoChannel' /\ NothingQueuedBehindChannel'
<1> USE DEF ChannelInv
<1>1. session \in [Nodes -> [Nodes -> SessionType]]
  BY DEF TypeOK
<1>2. session'[n][p] = x
  BY <1>1
<1>3. \A m, q \in Nodes : (m # n \/ q # p) => session'[m][q] = session[m][q]
  BY <1>1
<1>4. BlockedPeerHasNoChannel'
  BY <1>3 DEF BlockedPeerHasNoChannel
<1>5. NothingQueuedBehindChannel'
  <2> SUFFICES ASSUME NEW m \in Nodes, NEW q \in Nodes, HasEstablishedSession(session'[m][q])
               PROVE  pending'[m][q] = <<>>
    BY DEF NothingQueuedBehindChannel, HasEstablishedSession
  <2>1. CASE m = n /\ q = p
    BY <1>2, <2>1
  <2>2. CASE m # n \/ q # p
    BY <1>3, <2>2 DEF NothingQueuedBehindChannel
  <2> QED
    BY <2>1, <2>2
<1> QED
  BY <1>4, <1>5

\* A step that leaves sessions and queues alone, and takes nobody who is
\* blocked into the peer table.
LEMMA NoChannelStep ==
  ASSUME ChannelInv, UNCHANGED <<session, pending>>,
         \A m, q \in Nodes : q \in blocked'[m] => q \in blocked[m] /\ q \notin known'[m]
  PROVE  BlockedPeerHasNoChannel' /\ NothingQueuedBehindChannel'
BY DEF ChannelInv, BlockedPeerHasNoChannel, NothingQueuedBehindChannel, HasEstablishedSession

\* dm_frames: a queue grows only behind a handshake, never behind a channel.
LEMMA SendingChannels ==
  ASSUME ChannelInv, NEW n \in Nodes, NEW p \in Nodes, NEW k \in 1 .. MaxChunks,
         SendOnChannel(n, p, k) \/ SendAndOpen(n, p, k) \/ SendRefused(n, p, k)
  PROVE  BlockedPeerHasNoChannel' /\ NothingQueuedBehindChannel'
<1>1. /\ p \notin blocked[n] /\ k \in Nat /\ session[n][p] \in SessionType
      /\ pending \in [Nodes -> [Nodes -> Seq(Ids)]] /\ drawn + 1 \in Nat
  BY DEF ChannelInv, TypeOK, SendOnChannel, SendAndOpen, SendRefused, MayType
<1>2. HasEstablishedSession(session[n][p]) => pending[n][p] = <<>>
  BY DEF ChannelInv, NothingQueuedBehindChannel
<1>3. CASE SendOnChannel(n, p, k)
  <2>1. /\ session' = [session EXCEPT ![n][p] = AfterSealing(session[n][p], k)]
        /\ known' = known /\ blocked' = blocked /\ pending' = pending
    BY <1>3 DEF SendOnChannel
  <2>2. HasEstablishedSession(AfterSealing(session[n][p], k)) => pending'[n][p] = <<>>
    BY <1>1, <1>2, <2>1, StatesOfSessions
  <2> QED
    BY <1>1, <2>1, <2>2, OneChannelStep
<1>4. CASE SendAndOpen(n, p, k)
  <2> DEFINE fresh == OpenHandshake("Initiator", drawn + 1)
  <2>1. /\ session' = [session EXCEPT ![n][p] = fresh]
        /\ known' = known /\ blocked' = blocked
    BY <1>4 DEF SendAndOpen
  <2>2. pending' = [pending EXCEPT ![n][p] = @ \o NewIds(k)]
    BY <1>4 DEF SendAndOpen
  <2>3. \A m, q \in Nodes : (m # n \/ q # p) => pending'[m][q] = pending[m][q]
    BY <1>1, <2>2
  <2>4. ~HasEstablishedSession(fresh)
    BY <1>1, StatesOfSessions DEF Roles
  <2> HIDE DEF fresh
  <2> QED
    BY <1>1, <2>1, <2>3, <2>4, OneChannelStep
<1>5. CASE SendRefused(n, p, k)
  <2>1. /\ session' = [session EXCEPT ![n][p] = Spoil(session[n][p])]
        /\ known' = known /\ blocked' = blocked /\ pending' = pending
    BY <1>5 DEF SendRefused
  <2>2. HasEstablishedSession(Spoil(session[n][p])) => pending'[n][p] = <<>>
    BY <1>1, <1>2, <2>1, StatesOfSessions
  <2> QED
    BY <1>1, <2>1, <2>2, OneChannelStep
<1> QED
  BY <1>3, <1>4, <1>5

\* handle_noise_handshake: a blocked sender's legs stop before the session
\* manager, and the leg that completes a channel empties the queue.
LEMMA LegChannels ==
  ASSUME ChannelInv, NEW f \in legs, NEW keep \in BOOLEAN, ReceiveLeg(f, keep)
  PROVE  BlockedPeerHasNoChannel' /\ NothingQueuedBehindChannel'
<1> DEFINE n == f.to
           p == f.from
           o == Handshake(f)
<1>1. n \in Nodes /\ p \in Nodes
  BY DEF ChannelInv, TypeOK, LegFrames
<1>2. pending \in [Nodes -> [Nodes -> Seq(Ids)]] /\ drawn + 1 \in Nat
  BY DEF ChannelInv, TypeOK
<1>3. CASE DropLeg(f, keep)
  BY <1>3, NoChannelStep DEF DropLeg, ChannelInv, BlockedPeerHasNoChannel
<1>4. CASE FailHandshake(f, keep)
  <2>1. /\ session' = [session EXCEPT ![n][p] = NoSession]
        /\ known' = known /\ blocked' = blocked /\ pending' = pending
        /\ p \notin blocked[n]
    BY <1>4 DEF FailHandshake, Refuses
  <2> HIDE DEF n, p
  <2> QED
    BY <1>1, <2>1, StatesOfSessions, OneChannelStep
<1>5. CASE AnswerOpening(f, keep)
  <2>1. /\ session' = [session EXCEPT ![n][p] = o.session]
        /\ known' = known /\ blocked' = blocked /\ pending' = pending
        /\ p \notin blocked[n]
    BY <1>5 DEF AnswerOpening, Refuses
  <2>2. o.session = OpenHandshake("Responder", drawn + 1)
    BY <1>5 DEF AnswerOpening, Handshake, HandleIncomingHandshake, Outcome
  <2>3. ~HasEstablishedSession(o.session)
    BY <1>2, <2>2, StatesOfSessions DEF Roles
  <2> HIDE DEF n, p, o
  <2> QED
    BY <1>1, <2>1, <2>3, OneChannelStep
<1>6. CASE CompleteHandshake(f, keep)
  <2> DEFINE after == AfterSealing(o.session, Len(pending[n][p]))
  <2>1. /\ session' = [session EXCEPT ![n][p] = after]
        /\ pending' = [pending EXCEPT ![n][p] = <<>>]
        /\ known' = known /\ blocked' = blocked
        /\ p \notin blocked[n]
    BY <1>6 DEF CompleteHandshake, Refuses
  <2> HIDE DEF n, p, after
  <2>2. /\ pending'[n][p] = <<>>
        /\ \A m, q \in Nodes : (m # n \/ q # p) => pending'[m][q] = pending[m][q]
    BY <1>1, <1>2, <2>1
  <2> QED
    BY <1>1, <2>1, <2>2, OneChannelStep
<1> QED
  BY <1>3, <1>4, <1>5, <1>6 DEF ReceiveLeg

\* handle_noise_encrypted: opening and acknowledging keep the channel as it is.
LEMMA SealedChannels ==
  ASSUME ChannelInv, NEW f \in sealed, NEW keep \in BOOLEAN, ReceiveSealed(f, keep)
  PROVE  BlockedPeerHasNoChannel' /\ NothingQueuedBehindChannel'
<1> DEFINE n == f.to
           p == f.from
           s == AfterOpening(session[n][p], f.seal)
<1>1. n \in Nodes /\ p \in Nodes /\ f.seal \in Seals /\ f.seal.nonce \in Nat
  BY DEF ChannelInv, TypeOK, SealedFrames, Seals
<1>2. session[n][p] \in SessionType
  BY <1>1 DEF ChannelInv, TypeOK
<1>3. s \in SessionType
  <2>1. MarkNonceAsSeen(session[n][p].rx, f.seal.nonce) \in WindowType
    BY <1>1, <1>2, WindowTypeKept DEF SessionType
  <2> QED
    BY <1>2, <2>1 DEF AfterOpening, SessionType
<1>4. HasEstablishedSession(session[n][p]) => pending[n][p] = <<>>
  BY <1>1 DEF ChannelInv, NothingQueuedBehindChannel
<1>5. /\ HasEstablishedSession(s) => pending[n][p] = <<>>
      /\ HasEstablishedSession(AfterSealing(s, 1)) => pending[n][p] = <<>>
  <2> HIDE DEF n, p
  <2> QED
    BY <1>1, <1>2, <1>3, <1>4, StatesOfSessions
<1>6. CASE DropSealed(f, keep)
  BY <1>6, NoChannelStep DEF DropSealed, ChannelInv, BlockedPeerHasNoChannel
<1>7. CASE OpenPrivateMessage(f, keep)
  <2>1. /\ session' = [session EXCEPT ![n][p] = AfterSealing(s, 1)]
        /\ known' = known /\ blocked' = blocked /\ pending' = pending
        /\ p \notin blocked[n]
    BY <1>7 DEF OpenPrivateMessage, Refuses
  <2> HIDE DEF n, p, s
  <2> QED
    BY <1>1, <1>5, <2>1, OneChannelStep
<1>8. CASE OpenReceipt(f, keep)
  <2>1. /\ session' = [session EXCEPT ![n][p] = s]
        /\ known' = known /\ blocked' = blocked /\ pending' = pending
        /\ p \notin blocked[n]
    BY <1>8 DEF OpenReceipt, Refuses
  <2> HIDE DEF n, p, s
  <2> QED
    BY <1>1, <1>5, <2>1, OneChannelStep
<1> QED
  BY <1>6, <1>7, <1>8 DEF ReceiveSealed

\* read_receipt_frames: receipts go out on a channel that is up, to a peer in
\* the table, who is therefore not blocked.
LEMMA ViewChannels ==
  ASSUME ChannelInv, NEW n \in Nodes, NEW p \in Nodes, ViewConversation(n, p)
  PROVE  BlockedPeerHasNoChannel' /\ NothingQueuedBehindChannel'
<1> DEFINE after == AfterSealing(session[n][p], Cardinality(Unreceipted(n, p)))
<1>1. known' = known /\ blocked' = blocked /\ pending' = pending
  BY DEF ViewConversation
<1>2. \/ /\ session' = [session EXCEPT ![n][p] = after]
         /\ p \in known[n] /\ HasEstablishedSession(session[n][p])
      \/ session' = session
  BY DEF ViewConversation
<1> HIDE DEF after
<1>3. CASE session' = session
  BY <1>1, <1>3, NoChannelStep DEF ChannelInv, BlockedPeerHasNoChannel
<1>4. CASE /\ session' = [session EXCEPT ![n][p] = after]
           /\ p \in known[n] /\ HasEstablishedSession(session[n][p])
  <2>1. p \notin blocked[n] /\ pending[n][p] = <<>>
    BY <1>4 DEF ChannelInv, BlockedPeerHasNoChannel, NothingQueuedBehindChannel
  <2> QED
    BY <1>1, <1>4, <2>1, OneChannelStep
<1> QED
  BY <1>2, <1>3, <1>4

\* handle_announce, peer loss, block and unblock: block takes the session away
\* together with the peer.
LEMMA TablesChannels ==
  ASSUME ChannelInv, NEW n \in Nodes, NEW p \in Nodes,
         HearAnnounce(n, p) \/ LosePeer(n, p) \/ Block(n, p) \/ Unblock(n, p)
  PROVE  BlockedPeerHasNoChannel' /\ NothingQueuedBehindChannel'
<1>1. known \in [Nodes -> SUBSET Nodes] /\ blocked \in [Nodes -> SUBSET Nodes]
  BY DEF ChannelInv, TypeOK
<1>2. \A m, q \in Nodes : q \in blocked[m] => q \notin known[m]
  BY DEF ChannelInv, BlockedPeerHasNoChannel
<1>3. CASE HearAnnounce(n, p)
  <2>1. UNCHANGED <<session, pending>>
    BY <1>3 DEF HearAnnounce
  <2>2. \A m, q \in Nodes : q \in blocked'[m] => q \in blocked[m] /\ q \notin known'[m]
    BY <1>1, <1>2, <1>3 DEF HearAnnounce
  <2> QED
    BY <2>1, <2>2, NoChannelStep
<1>4. CASE LosePeer(n, p)
  <2>1. UNCHANGED <<session, pending>>
    BY <1>4 DEF LosePeer
  <2>2. \A m, q \in Nodes : q \in blocked'[m] => q \in blocked[m] /\ q \notin known'[m]
    BY <1>1, <1>2, <1>4 DEF LosePeer
  <2> QED
    BY <2>1, <2>2, NoChannelStep
<1>5. CASE Unblock(n, p)
  <2>1. UNCHANGED <<session, pending>>
    BY <1>5 DEF Unblock
  <2>2. \A m, q \in Nodes : q \in blocked'[m] => q \in blocked[m] /\ q \notin known'[m]
    BY <1>1, <1>2, <1>5 DEF Unblock
  <2> QED
    BY <2>1, <2>2, NoChannelStep
<1>6. CASE Block(n, p)
  <2>1. /\ session' = [session EXCEPT ![n][p] = NoSession]
        /\ known' = [known EXCEPT ![n] = @ \ {p}]
        /\ blocked' = [blocked EXCEPT ![n] = @ \cup {p}]
        /\ pending' = pending
    BY <1>6 DEF Block
  <2>2. session \in [Nodes -> [Nodes -> SessionType]]
    BY DEF ChannelInv, TypeOK
  <2>3. \A m, q \in Nodes : session'[m][q] = session[m][q] \/ session'[m][q] = NoSession
    BY <2>1, <2>2
  <2>4. session'[n][p] = NoSession
    BY <2>1, <2>2
  <2>5. NothingQueuedBehindChannel'
    <3> SUFFICES ASSUME NEW m \in Nodes, NEW q \in Nodes, HasEstablishedSession(session'[m][q])
                 PROVE  pending'[m][q] = <<>>
      BY DEF NothingQueuedBehindChannel, HasEstablishedSession
    <3>1. HasEstablishedSession(session[m][q])
      BY <2>3, StatesOfSessions
    <3> QED
      BY <2>1, <3>1 DEF ChannelInv, NothingQueuedBehindChannel
  <2>6. BlockedPeerHasNoChannel'
    <3> SUFFICES ASSUME NEW m \in Nodes, NEW q \in Nodes, q \in blocked'[m]
                 PROVE  session'[m][q] = NoSession /\ q \notin known'[m]
      BY DEF BlockedPeerHasNoChannel
    <3>1. CASE m = n /\ q = p
      BY <1>1, <2>1, <2>4, <3>1
    <3>2. CASE m # n \/ q # p
      <4>1. q \in blocked[m] /\ known'[m] \subseteq known[m]
        BY <1>1, <2>1, <3>2
      <4> QED
        BY <2>3, <4>1 DEF ChannelInv, BlockedPeerHasNoChannel
    <3> QED
      BY <3>1, <3>2
  <2> QED
    BY <2>5, <2>6
<1> QED
  BY <1>3, <1>4, <1>5, <1>6

\* A new process has no channel, and a wiped one blocks nobody.
LEMMA ForgettingChannels ==
  ASSUME ChannelInv, NEW n \in Nodes, Restart(n) \/ Wipe(n)
  PROVE  BlockedPeerHasNoChannel' /\ NothingQueuedBehindChannel'
<1>1. /\ known \in [Nodes -> SUBSET Nodes] /\ blocked \in [Nodes -> SUBSET Nodes]
      /\ session \in [Nodes -> [Nodes -> SessionType]]
      /\ pending \in [Nodes -> [Nodes -> Seq(Ids)]]
  BY DEF ChannelInv, TypeOK
<1>2. /\ known' = [known EXCEPT ![n] = {}]
      /\ pending' = [pending EXCEPT ![n] = [p \in Nodes |-> <<>>]]
  BY DEF Restart, Wipe, Forget
<1>3. \A q \in Nodes : pending'[n][q] = <<>> /\ q \notin known'[n]
  BY <1>1, <1>2
<1>4. \/ session' = [session EXCEPT ![n] = [p \in Nodes |-> NoSession]] /\ blocked' = blocked
      \/ /\ session' = [session EXCEPT ![n] =
                          [p \in Nodes |-> IF p \in known[n] THEN NoSession ELSE @[p]]]
         /\ blocked' = [blocked EXCEPT ![n] = {}]
  BY DEF Restart, Wipe
<1>5. \A q \in Nodes : q \in blocked'[n] => session'[n][q] = NoSession
  BY <1>1, <1>4
<1>6. \A m \in Nodes \ {n} : /\ session'[m] = session[m] /\ blocked'[m] = blocked[m]
                             /\ known'[m] = known[m] /\ pending'[m] = pending[m]
  BY <1>1, <1>2, <1>4
<1>7. BlockedPeerHasNoChannel'
  BY <1>3, <1>5, <1>6 DEF ChannelInv, BlockedPeerHasNoChannel
<1>8. NothingQueuedBehindChannel'
  BY <1>3, <1>6 DEF ChannelInv, NothingQueuedBehindChannel, HasEstablishedSession
<1> QED
  BY <1>7, <1>8

\* Every step keeps ChannelInv.
LEMMA NextChannels == ChannelInv /\ [Next]_vars => ChannelInv'
<1> SUFFICES ASSUME ChannelInv, [Next]_vars
             PROVE  BlockedPeerHasNoChannel' /\ NothingQueuedBehindChannel'
  BY NextTyped DEF ChannelInv
<1>1. CASE UNCHANGED vars
  BY <1>1, NoChannelStep DEF vars, ChannelInv, BlockedPeerHasNoChannel
<1>2. CASE Arrive
  BY <1>2, LegChannels, SealedChannels DEF Arrive
<1>3. CASE ArriveTwice
  BY <1>3, LegChannels, SealedChannels DEF ArriveTwice
<1>4. CASE Lose
  BY <1>4, NoChannelStep DEF Lose, ChannelInv, BlockedPeerHasNoChannel
<1>5. ASSUME NEW n \in Nodes, NEW p \in Nodes,
             \/ HearAnnounce(n, p) \/ LosePeer(n, p) \/ ViewConversation(n, p)
             \/ Block(n, p) \/ Unblock(n, p)
      PROVE  BlockedPeerHasNoChannel' /\ NothingQueuedBehindChannel'
  BY <1>5, TablesChannels, ViewChannels
<1>6. ASSUME NEW n \in Nodes, NEW p \in Nodes, NEW k \in 1 .. MaxChunks,
             SendOnChannel(n, p, k) \/ SendAndOpen(n, p, k) \/ SendRefused(n, p, k)
      PROVE  BlockedPeerHasNoChannel' /\ NothingQueuedBehindChannel'
  BY <1>6, SendingChannels
<1>7. ASSUME NEW n \in Nodes, Restart(n) \/ Wipe(n)
      PROVE  BlockedPeerHasNoChannel' /\ NothingQueuedBehindChannel'
  BY <1>7, ForgettingChannels
<1> QED
  BY <1>1, <1>2, <1>3, <1>4, <1>5, <1>6, <1>7 DEF Next

\* ChannelInv holds in every reachable state.
LEMMA ChannelsKept == Spec => []ChannelInv
<1>1. Init => ChannelInv
  <2>1. Init => BlockedPeerHasNoChannel /\ NothingQueuedBehindChannel
    BY DEF Init, BlockedPeerHasNoChannel, NothingQueuedBehindChannel
  <2> QED
    BY <2>1, InitTyped DEF ChannelInv
<1>2. ChannelInv /\ [Next]_vars => ChannelInv'
  BY NextChannels
<1> QED
  BY <1>1, <1>2, PTL DEF Spec

\* The block list holds against the channel: for any set of nodes, whatever
\* the mesh delivers late or twice and however blocks, unblocks, restarts and
\* handshakes interleave, no session with a blocked peer exists, not even half
\* of one (block, handle_packet, handle_announce).
THEOREM BlockedUnreachable == Spec => []BlockedPeerHasNoChannel
<1>1. ChannelInv => BlockedPeerHasNoChannel
  BY DEF ChannelInv
<1> QED
  BY <1>1, ChannelsKept, PTL

\* The queue is empty behind every channel: whichever leg completes the
\* handshake, drain_pending has taken all that dm_frames queued, and nothing
\* is queued afterwards.
THEOREM QueueDrained == Spec => []NothingQueuedBehindChannel
<1>1. ChannelInv => NothingQueuedBehindChannel
  BY DEF ChannelInv
<1> QED
  BY <1>1, ChannelsKept, PTL
-----------------------------------------------------------------------------
(* Keys: which channel may still come to use which key.  The invariant is     *)
(* stated over values (sessions S, handshake frames L, ephemerals drawn D,    *)
(* seals G, times shown O) so that a handler that does two things to them is  *)
(* two uses of the lemmas below.                                              *)

Ends == {"Initiator", "Responder"}
Opening(s) == s.state = "Handshaking"

\* The handshake s is in may still complete into a channel keyed k: a responder's
\* channel is keyed by its own ephemeral, an initiator's by a second leg under way.
CouldKey(s, L, k) ==
  /\ Opening(s)
  /\ \/ s.role = "Responder" /\ k = s.mine
     \/ /\ s.role = "Initiator"
        /\ \E g \in L : g.msg.leg = 2 /\ g.msg.of = s.mine /\ g.msg.eph = k

SendOn(k, role) == <<k, IF role = "Initiator" THEN 1 ELSE 2>>
ReceiveOn(k, role) == <<k, IF role = "Initiator" THEN 2 ELSE 1>>

\* Ephemerals and keys in use have been drawn.
KeyBounds(S, L, D, G) ==
  /\ \A m, q \in Nodes : Opening(S[m][q]) => S[m][q].role \in Ends /\ S[m][q].mine \in 1 .. D
  /\ \A m, q \in Nodes :
       HasEstablishedSession(S[m][q]) => S[m][q].role \in Ends /\ S[m][q].key \in 1 .. D
  /\ \A g \in L : g.msg.eph <= D /\ g.msg.of <= D /\ (g.msg.leg = 2 => g.msg.eph > 0)
  /\ \A x \in G : x.cipher[1] <= D

\* An ephemeral belongs to one handshake.
OneOwner(S) ==
  \A m, q, n, p \in Nodes :
    Opening(S[m][q]) /\ Opening(S[n][p]) /\ S[m][q].mine = S[n][p].mine => m = n /\ q = p

\* A responder answers one opening.
OneAnswer(L) ==
  \A g, h \in L : g.msg.leg = 2 /\ h.msg.leg = 2 /\ g.msg.eph = h.msg.eph => g.msg.of = h.msg.of

\* A key a handshake may still complete into is in nobody's use at this end of
\* the channel, and nothing has been sealed with it here.
KeysUnused(S, L, G) ==
  \A m, q \in Nodes, k \in Nat :
    CouldKey(S[m][q], L, k) =>
      /\ \A n, p \in Nodes : ~ /\ HasEstablishedSession(S[n][p])
                               /\ S[n][p].key = k /\ S[n][p].role = S[m][q].role
      /\ \A x \in G : x.cipher # SendOn(k, S[m][q].role)

\* Each end of a channel is one session.
OneEnd(S) ==
  \A m, q, n, p \in Nodes :
    /\ HasEstablishedSession(S[m][q]) /\ HasEstablishedSession(S[n][p])
    /\ S[m][q].key = S[n][p].key /\ S[m][q].role = S[n][p].role
    => m = n /\ q = p

\* The send counter is ahead of all that was sealed with its cipher.
NonceAhead(S, G) ==
  \A m, q \in Nodes, x \in G :
    HasEstablishedSession(S[m][q]) /\ x.cipher = SendCipher(S[m][q]) => x.nonce < S[m][q].nonce

\* A nonce in a replay window was sealed at the other end.
SeenSent(S, G) ==
  \A m, q \in Nodes : HasEstablishedSession(S[m][q]) =>
    \A i \in S[m][q].rx.seen : \E x \in G : x.cipher = ReceiveCipher(S[m][q]) /\ x.nonce = i

\* A record that has been shown will not open again: its nonce has left or fills
\* its place in the window of the session that opened it, and no other session
\* has, or may still get, the cipher.
OpenedGone(S, L, G, O) ==
  \A x \in G : x.body.kind = "PrivateMessage" /\ O[x.body.id] > 0 =>
    \A m, q \in Nodes :
      /\ HasEstablishedSession(S[m][q]) /\ ReceiveCipher(S[m][q]) = x.cipher
           => ~IsValidNonce(S[m][q].rx, x.nonce)
      /\ CouldKey(S[m][q], L, x.cipher[1]) => x.cipher # ReceiveOn(x.cipher[1], S[m][q].role)

NonceOnce(G) == \A x, y \in G : x.cipher = y.cipher /\ x.nonce = y.nonce => x = y

Keyed(S, L, D, G, O) ==
  /\ KeyBounds(S, L, D, G) /\ OneOwner(S) /\ OneAnswer(L)
  /\ KeysUnused(S, L, G) /\ OneEnd(S) /\ NonceAhead(S, G) /\ SeenSent(S, G)
  /\ OpenedGone(S, L, G, O) /\ NonceOnce(G)

\* The values range over what TypeOK allows.
KeyTypes(S, L, D, G, O) ==
  /\ \A m, q \in Nodes : S[m][q] \in SessionType
  /\ L \subseteq LegFrames /\ D \in Nat /\ G \subseteq Seals /\ O \in [Ids -> Nat]

\* Two sessions alike in all that keys depend on.
Alike(s, t) ==
  /\ s.state = t.state /\ s.role = t.role /\ s.mine = t.mine
  /\ s.key = t.key /\ s.nonce = t.nonce /\ s.rx = t.rx

\* Only the session of n with p differs.
Elsewhere(S, T, n, p) == \A m, q \in Nodes : m # n \/ q # p => T[m][q] = S[m][q]

\* c nonces' worth of seals, each under its own nonce from the counter of s on; of
\* the records among them none has been shown.
Batch(B, s, c, O) ==
  /\ B \subseteq Seals
  /\ \A x \in B : /\ x.cipher = SendCipher(s)
                  /\ s.nonce <= x.nonce /\ x.nonce < s.nonce + c
                  /\ x.body.kind = "PrivateMessage" => O[x.body.id] = 0
  /\ \A x, y \in B : x.nonce = y.nonce => x = y

\* Reading z may show the record in it, and nothing else.
Shows(z, O, P) ==
  \A i \in Ids : P[i] = O[i] \/ (z.body.kind = "PrivateMessage" /\ i = z.body.id)

\* Sessions forgotten or spoilt, frames gone: no key comes into use.
LEMMA KeysForgotten ==
  ASSUME NEW S, NEW T, NEW L, NEW M, NEW D, NEW G, NEW O,
         Keyed(S, L, D, G, O), M \subseteq L,
         \A m, q \in Nodes : T[m][q].state = "Absent" \/ Alike(T[m][q], S[m][q])
  PROVE  Keyed(T, M, D, G, O)
<1>1. \A m, q \in Nodes :
        /\ Opening(T[m][q]) => Opening(S[m][q]) /\ Alike(T[m][q], S[m][q])
        /\ HasEstablishedSession(T[m][q]) =>
             HasEstablishedSession(S[m][q]) /\ Alike(T[m][q], S[m][q])
  BY DEF Opening, HasEstablishedSession, Alike
<1>2. \A m, q \in Nodes : \A k : CouldKey(T[m][q], M, k) => CouldKey(S[m][q], L, k)
  BY <1>1 DEF CouldKey, Alike
<1>3. \A m, q \in Nodes : HasEstablishedSession(T[m][q]) =>
        /\ SendCipher(T[m][q]) = SendCipher(S[m][q])
        /\ ReceiveCipher(T[m][q]) = ReceiveCipher(S[m][q])
  BY <1>1 DEF SendCipher, ReceiveCipher, Alike
<1>4. KeyBounds(T, M, D, G)
  BY <1>1 DEF Keyed, KeyBounds, Alike
<1>5. OneOwner(T) /\ OneAnswer(M)
  BY <1>1 DEF Keyed, OneOwner, OneAnswer, Alike
<1>6. KeysUnused(T, M, G)
  <2> SUFFICES ASSUME NEW m \in Nodes, NEW q \in Nodes, NEW k \in Nat, CouldKey(T[m][q], M, k)
               PROVE  /\ \A n, p \in Nodes : ~ /\ HasEstablishedSession(T[n][p])
                                               /\ T[n][p].key = k /\ T[n][p].role = T[m][q].role
                      /\ \A x \in G : x.cipher # SendOn(k, T[m][q].role)
    BY DEF KeysUnused
  <2>1. CouldKey(S[m][q], L, k) /\ T[m][q].role = S[m][q].role
    BY <1>1, <1>2 DEF CouldKey, Alike
  <2> QED
    BY <1>1, <2>1 DEF Keyed, KeysUnused, Alike
<1>7. OneEnd(T)
  BY <1>1 DEF Keyed, OneEnd, Alike
<1>8. NonceAhead(T, G) /\ SeenSent(T, G)
  BY <1>1, <1>3 DEF Keyed, NonceAhead, SeenSent, Alike
<1>9. OpenedGone(T, M, G, O)
  <2> SUFFICES ASSUME NEW x \in G, x.body.kind = "PrivateMessage", O[x.body.id] > 0,
                      NEW m \in Nodes, NEW q \in Nodes
               PROVE  /\ HasEstablishedSession(T[m][q]) /\ ReceiveCipher(T[m][q]) = x.cipher
                           => ~IsValidNonce(T[m][q].rx, x.nonce)
                      /\ CouldKey(T[m][q], M, x.cipher[1])
                           => x.cipher # ReceiveOn(x.cipher[1], T[m][q].role)
    BY DEF OpenedGone
  <2>1. CouldKey(T[m][q], M, x.cipher[1]) => T[m][q].role = S[m][q].role
    BY <1>1 DEF CouldKey, Alike
  <2>2. /\ HasEstablishedSession(S[m][q]) /\ ReceiveCipher(S[m][q]) = x.cipher
             => ~IsValidNonce(S[m][q].rx, x.nonce)
        /\ CouldKey(S[m][q], L, x.cipher[1])
             => x.cipher # ReceiveOn(x.cipher[1], S[m][q].role)
    BY DEF Keyed, OpenedGone
  <2>3. HasEstablishedSession(T[m][q]) => T[m][q].rx = S[m][q].rx
    BY <1>1 DEF Alike
  <2> QED
    BY <1>1, <1>2, <1>3, <2>1, <2>2, <2>3
<1> QED
  BY <1>4, <1>5, <1>6, <1>7, <1>8, <1>9 DEF Keyed

\* A handshake opened, as either end, with a freshly drawn ephemeral.
LEMMA KeyOpened ==
  ASSUME NEW S, NEW T, NEW L, NEW M, NEW D, NEW G, NEW O,
         KeyTypes(S, L, D, G, O), Keyed(S, L, D, G, O),
         NEW n \in Nodes, NEW p \in Nodes, NEW role \in Ends, NEW g \in LegFrames,
         T[n][p] = OpenHandshake(role, D + 1),
         Elsewhere(S, T, n, p),
         M \subseteq L \cup {g}, g.msg.eph = D + 1, g.msg.of <= D
  PROVE  Keyed(T, M, D + 1, G, O)
<1> USE DEF Elsewhere
<1> DEFINE t == T[n][p]
<1>1. /\ Opening(t) /\ ~HasEstablishedSession(t)
      /\ t.role = role /\ t.mine = D + 1
  BY DEF Opening, HasEstablishedSession, OpenHandshake, NoSession
<1>2. /\ D \in Nat /\ L \subseteq LegFrames /\ G \subseteq Seals
      /\ \A h \in LegFrames : h.msg.leg \in 1 .. 3 /\ h.msg.of \in Nat /\ h.msg.eph \in Nat
      /\ \A x \in Seals : x.cipher[1] \in Nat
      /\ \A m, q \in Nodes : S[m][q].mine \in Nat /\ S[m][q].key \in Nat
  BY DEF KeyTypes, LegFrames, Legs, Seals, SessionType
<1>3. \A h \in M : h = g \/ h \in L
  OBVIOUS
<1> HIDE DEF t
<1>4. KeyBounds(T, M, D + 1, G)
  <2>1. \A m, q \in Nodes :
          Opening(T[m][q]) => T[m][q].role \in Ends /\ T[m][q].mine \in 1 .. D + 1
    <3> SUFFICES ASSUME NEW m \in Nodes, NEW q \in Nodes, Opening(T[m][q])
                 PROVE  T[m][q].role \in Ends /\ T[m][q].mine \in 1 .. D + 1
      OBVIOUS
    <3>1. CASE m = n /\ q = p
      BY <1>1, <1>2, <3>1 DEF t
    <3>2. CASE m # n \/ q # p
      BY <1>2, <3>2 DEF Keyed, KeyBounds
    <3> QED
      BY <3>1, <3>2
  <2>2. \A m, q \in Nodes : HasEstablishedSession(T[m][q]) =>
          T[m][q].role \in Ends /\ T[m][q].key \in 1 .. D + 1
    <3> SUFFICES ASSUME NEW m \in Nodes, NEW q \in Nodes, HasEstablishedSession(T[m][q])
                 PROVE  T[m][q].role \in Ends /\ T[m][q].key \in 1 .. D + 1
      OBVIOUS
    <3>1. T[m][q] = S[m][q]
      BY <1>1 DEF t
    <3> QED
      BY <1>2, <3>1 DEF Keyed, KeyBounds
  <2>3. /\ \A h \in M : h.msg.eph <= D + 1 /\ h.msg.of <= D + 1 /\ (h.msg.leg = 2 => h.msg.eph > 0)
        /\ \A x \in G : x.cipher[1] <= D + 1
    BY <1>2, <1>3 DEF Keyed, KeyBounds
  <2> QED
    BY <2>1, <2>2, <2>3 DEF KeyBounds
<1>5. \A m, q \in Nodes : m # n \/ q # p => (Opening(T[m][q]) => T[m][q].mine # D + 1)
  BY <1>2 DEF Keyed, KeyBounds
<1>6. OneOwner(T)
  <2> SUFFICES ASSUME NEW a \in Nodes, NEW b \in Nodes, NEW c \in Nodes, NEW d \in Nodes,
                      Opening(T[a][b]), Opening(T[c][d]), T[a][b].mine = T[c][d].mine
               PROVE  a = c /\ b = d
    BY DEF OneOwner
  <2>1. CASE T[a][b] = S[a][b] /\ T[c][d] = S[c][d]
    BY <2>1 DEF Keyed, OneOwner
  <2>2. CASE (a = n /\ b = p) \/ (c = n /\ d = p)
    BY <1>1, <1>5, <2>2 DEF t
  <2> QED
    BY <2>1, <2>2
<1>7. OneAnswer(M)
  <2>1. \A h \in L : h.msg.eph # D + 1
    BY <1>2 DEF Keyed, KeyBounds
  <2> QED
    BY <1>3, <2>1 DEF Keyed, OneAnswer
<1>8. \A m, q \in Nodes : \A k : CouldKey(T[m][q], M, k) =>
        \/ k = D + 1
        \/ T[m][q] = S[m][q] /\ CouldKey(S[m][q], L, k)
  <2> SUFFICES ASSUME NEW m \in Nodes, NEW q \in Nodes, NEW k, CouldKey(T[m][q], M, k), k # D + 1
               PROVE  T[m][q] = S[m][q] /\ CouldKey(S[m][q], L, k)
    OBVIOUS
  <2>1. CASE m = n /\ q = p
    <3>1. \A h \in M : h.msg.of # D + 1
      BY <1>2, <1>3 DEF Keyed, KeyBounds
    <3> QED
      BY <1>1, <2>1, <3>1 DEF CouldKey, t
  <2>2. CASE m # n \/ q # p
    BY <1>3, <2>2 DEF CouldKey
  <2> QED
    BY <2>1, <2>2
<1>9. KeysUnused(T, M, G)
  <2> SUFFICES ASSUME NEW m \in Nodes, NEW q \in Nodes, NEW k \in Nat, CouldKey(T[m][q], M, k)
               PROVE  /\ \A a, b \in Nodes : ~ /\ HasEstablishedSession(T[a][b])
                                               /\ T[a][b].key = k /\ T[a][b].role = T[m][q].role
                      /\ \A x \in G : x.cipher # SendOn(k, T[m][q].role)
    BY DEF KeysUnused
  <2>1. \A a, b \in Nodes : HasEstablishedSession(T[a][b]) => T[a][b] = S[a][b]
    BY <1>1 DEF t
  <2>2. CASE k = D + 1
    <3>1. \A a, b \in Nodes : HasEstablishedSession(T[a][b]) => T[a][b].key # D + 1
      BY <1>2, <2>1 DEF Keyed, KeyBounds
    <3>2. \A x \in G : x.cipher[1] # D + 1
      BY <1>2 DEF Keyed, KeyBounds
    <3> QED
      BY <2>2, <3>1, <3>2 DEF SendOn
  <2>3. CASE T[m][q] = S[m][q] /\ CouldKey(S[m][q], L, k)
    BY <2>1, <2>3 DEF Keyed, KeysUnused
  <2> QED
    BY <1>8, <2>2, <2>3
<1>10. OneEnd(T) /\ NonceAhead(T, G) /\ SeenSent(T, G)
  <2>1. \A a, b \in Nodes : HasEstablishedSession(T[a][b]) => T[a][b] = S[a][b]
    BY <1>1 DEF t
  <2>2. OneEnd(T)
    BY <2>1 DEF Keyed, OneEnd
  <2>3. NonceAhead(T, G)
    BY <2>1 DEF Keyed, NonceAhead
  <2>4. SeenSent(T, G)
    BY <2>1 DEF Keyed, SeenSent
  <2> QED
    BY <2>2, <2>3, <2>4
<1>11. OpenedGone(T, M, G, O)
  <2> SUFFICES ASSUME NEW x \in G, x.body.kind = "PrivateMessage", O[x.body.id] > 0,
                      NEW m \in Nodes, NEW q \in Nodes
               PROVE  /\ HasEstablishedSession(T[m][q]) /\ ReceiveCipher(T[m][q]) = x.cipher
                           => ~IsValidNonce(T[m][q].rx, x.nonce)
                      /\ CouldKey(T[m][q], M, x.cipher[1])
                           => x.cipher # ReceiveOn(x.cipher[1], T[m][q].role)
    BY DEF OpenedGone
  <2>1. /\ HasEstablishedSession(S[m][q]) /\ ReceiveCipher(S[m][q]) = x.cipher
             => ~IsValidNonce(S[m][q].rx, x.nonce)
        /\ CouldKey(S[m][q], L, x.cipher[1])
             => x.cipher # ReceiveOn(x.cipher[1], S[m][q].role)
    BY DEF Keyed, OpenedGone
  <2>2. x.cipher[1] # D + 1
    BY <1>2 DEF Keyed, KeyBounds
  <2>3. HasEstablishedSession(T[m][q]) => T[m][q] = S[m][q]
    BY <1>1 DEF t
  <2> QED
    BY <1>8, <2>1, <2>2, <2>3
<1> QED
  BY <1>4, <1>6, <1>7, <1>9, <1>10, <1>11 DEF Keyed

\* A handshake that completes into a key it could complete into; an initiator
\* answers with the third leg.
LEMMA KeyEstablished ==
  ASSUME NEW S, NEW T, NEW L, NEW M, NEW D, NEW G, NEW O,
         KeyTypes(S, L, D, G, O), Keyed(S, L, D, G, O),
         NEW n \in Nodes, NEW p \in Nodes, NEW k,
         CouldKey(S[n][p], L, k), T[n][p] = Establish(S[n][p], k),
         Elsewhere(S, T, n, p),
         \A g \in M : g \in L \/ (g.msg.leg = 3 /\ g.msg.of = k /\ g.msg.eph = 0)
  PROVE  Keyed(T, M, D, G, O)
<1> USE DEF Elsewhere
<1> DEFINE s == S[n][p]
           t == T[n][p]
<1>1. /\ HasEstablishedSession(t) /\ ~Opening(t)
      /\ t.role = s.role /\ t.key = k /\ t.nonce = 0 /\ t.rx.seen = {}
  BY DEF KeyTypes, SessionType, Opening, HasEstablishedSession, Establish, FreshWindow
<1>2. k \in 1 .. D /\ s.role \in Ends
  BY DEF Keyed, KeyBounds, CouldKey, KeyTypes, LegFrames, Legs
<1>3. D \in Nat /\ k \in Nat
  BY <1>2 DEF KeyTypes
<1>4. KeysUnused(S, L, G) /\ OneOwner(S) /\ OneAnswer(L) /\ KeyBounds(S, L, D, G)
  BY DEF Keyed
<1>5. \A m, q \in Nodes : Opening(T[m][q]) => (m # n \/ q # p) /\ T[m][q] = S[m][q]
  BY <1>1
<1>6. \A m, q \in Nodes : HasEstablishedSession(T[m][q]) =>
        (m = n /\ q = p) \/ T[m][q] = S[m][q]
  OBVIOUS
<1>7. \A m, q \in Nodes : \A j : CouldKey(T[m][q], M, j) =>
        (m # n \/ q # p) /\ T[m][q] = S[m][q] /\ CouldKey(S[m][q], L, j)
  BY <1>5 DEF CouldKey
\* nobody else is about to come by k at this end
<1>8. \A m, q \in Nodes : CouldKey(S[m][q], L, k) /\ S[m][q].role = s.role => m = n /\ q = p
  <2> SUFFICES ASSUME NEW m \in Nodes, NEW q \in Nodes,
                      CouldKey(S[m][q], L, k), S[m][q].role = s.role
               PROVE  m = n /\ q = p
    OBVIOUS
  <2>1. S[m][q].mine = s.mine
    BY <1>4 DEF CouldKey, OneAnswer
  <2> QED
    BY <1>4, <2>1 DEF CouldKey, OneOwner
<1> HIDE DEF s, t
<1>9. KeyBounds(T, M, D, G)
  <2>1. \A m, q \in Nodes :
          Opening(T[m][q]) => T[m][q].role \in Ends /\ T[m][q].mine \in 1 .. D
    BY <1>4, <1>5 DEF KeyBounds
  <2>2. \A m, q \in Nodes :
          HasEstablishedSession(T[m][q]) => T[m][q].role \in Ends /\ T[m][q].key \in 1 .. D
    <3> SUFFICES ASSUME NEW m \in Nodes, NEW q \in Nodes, HasEstablishedSession(T[m][q])
                 PROVE  T[m][q].role \in Ends /\ T[m][q].key \in 1 .. D
      OBVIOUS
    <3>1. CASE m = n /\ q = p
      BY <1>1, <1>2, <3>1 DEF t, s
    <3>2. CASE T[m][q] = S[m][q]
      BY <1>4, <3>2 DEF KeyBounds
    <3> QED
      BY <1>6, <3>1, <3>2
  <2>3. \A g \in M : g.msg.eph <= D /\ g.msg.of <= D /\ (g.msg.leg = 2 => g.msg.eph > 0)
    BY <1>2, <1>3, <1>4 DEF KeyBounds
  <2> QED
    BY <1>4, <2>1, <2>2, <2>3 DEF KeyBounds
<1>10. OneOwner(T) /\ OneAnswer(M)
  BY <1>4, <1>5 DEF OneOwner, OneAnswer
<1>11. KeysUnused(T, M, G)
  <2> SUFFICES ASSUME NEW m \in Nodes, NEW q \in Nodes, NEW j \in Nat, CouldKey(T[m][q], M, j)
               PROVE  /\ \A a, b \in Nodes : ~ /\ HasEstablishedSession(T[a][b])
                                               /\ T[a][b].key = j /\ T[a][b].role = T[m][q].role
                      /\ \A x \in G : x.cipher # SendOn(j, T[m][q].role)
    BY DEF KeysUnused
  <2>1. (m # n \/ q # p) /\ T[m][q] = S[m][q] /\ CouldKey(S[m][q], L, j)
    BY <1>7
  <2>2. ~(k = j /\ s.role = S[m][q].role)
    BY <1>8, <2>1
  <2>3. \A a, b \in Nodes : ~ /\ HasEstablishedSession(S[a][b])
                              /\ S[a][b].key = j /\ S[a][b].role = S[m][q].role
    BY <1>4, <2>1 DEF KeysUnused
  <2>4. \A x \in G : x.cipher # SendOn(j, S[m][q].role)
    BY <1>4, <2>1 DEF KeysUnused
  <2> QED
    BY <1>1, <1>6, <2>1, <2>2, <2>3, <2>4 DEF t
<1>12. OneEnd(T)
  <2> SUFFICES ASSUME NEW a \in Nodes, NEW b \in Nodes, NEW c \in Nodes, NEW d \in Nodes,
                      HasEstablishedSession(T[a][b]), HasEstablishedSession(T[c][d]),
                      T[a][b].key = T[c][d].key, T[a][b].role = T[c][d].role
               PROVE  a = c /\ b = d
    BY DEF OneEnd
  <2>1. \A u, v \in Nodes : ~ /\ HasEstablishedSession(S[u][v])
                              /\ S[u][v].key = k /\ S[u][v].role = s.role
    BY <1>3, <1>4 DEF KeysUnused, s
  <2>2. CASE T[a][b] = S[a][b] /\ T[c][d] = S[c][d]
    BY <2>2 DEF Keyed, OneEnd
  <2>3. CASE (a = n /\ b = p) \/ (c = n /\ d = p)
    BY <1>1, <2>1, <2>3 DEF t
  <2> QED
    BY <2>2, <2>3
<1>13. NonceAhead(T, G)
  <2> SUFFICES ASSUME NEW m \in Nodes, NEW q \in Nodes, NEW x \in G,
                      HasEstablishedSession(T[m][q]), x.cipher = SendCipher(T[m][q])
               PROVE  x.nonce < T[m][q].nonce
    BY DEF NonceAhead
  <2>1. CASE m = n /\ q = p
    <3>1. x.cipher = SendOn(k, s.role)
      BY <1>1, <2>1 DEF SendCipher, SendOn, t
    <3> QED
      BY <1>3, <1>4, <3>1 DEF KeysUnused, s
  <2>2. CASE T[m][q] = S[m][q]
    BY <2>2 DEF Keyed, NonceAhead
  <2> QED
    BY <2>1, <2>2
<1>14. SeenSent(T, G)
  <2> SUFFICES ASSUME NEW m \in Nodes, NEW q \in Nodes, HasEstablishedSession(T[m][q]),
                      NEW i \in T[m][q].rx.seen
               PROVE  \E x \in G : x.cipher = ReceiveCipher(T[m][q]) /\ x.nonce = i
    BY DEF SeenSent
  <2>1. T[m][q] = S[m][q]
    BY <1>1 DEF t
  <2> QED
    BY <2>1 DEF Keyed, SeenSent
<1>15. OpenedGone(T, M, G, O)
  <2> SUFFICES ASSUME NEW x \in G, x.body.kind = "PrivateMessage", O[x.body.id] > 0,
                      NEW m \in Nodes, NEW q \in Nodes
               PROVE  /\ HasEstablishedSession(T[m][q]) /\ ReceiveCipher(T[m][q]) = x.cipher
                           => ~IsValidNonce(T[m][q].rx, x.nonce)
                      /\ CouldKey(T[m][q], M, x.cipher[1])
                           => x.cipher # ReceiveOn(x.cipher[1], T[m][q].role)
    BY DEF OpenedGone
  <2>1. /\ HasEstablishedSession(S[m][q]) /\ ReceiveCipher(S[m][q]) = x.cipher
             => ~IsValidNonce(S[m][q].rx, x.nonce)
        /\ CouldKey(S[m][q], L, x.cipher[1])
             => x.cipher # ReceiveOn(x.cipher[1], S[m][q].role)
    BY DEF Keyed, OpenedGone
  <2>2. ~(m = n /\ q = p /\ ReceiveCipher(t) = x.cipher)
    <3>1. ReceiveCipher(t) = ReceiveOn(k, s.role) /\ ReceiveCipher(t)[1] = k
      BY <1>1 DEF ReceiveCipher, ReceiveOn
    <3> QED
      BY <2>1, <3>1 DEF s
  <2> QED
    BY <1>6, <1>7, <2>1, <2>2 DEF t
<1> QED
  BY <1>9, <1>10, <1>11, <1>12, <1>13, <1>14, <1>15 DEF Keyed

\* A batch sealed on a channel that is up, under nonces from its counter on.
LEMMA KeySealed ==
  ASSUME NEW S, NEW T, NEW L, NEW D, NEW G, NEW B, NEW O,
         KeyTypes(S, L, D, G, O), Keyed(S, L, D, G, O),
         NEW n \in Nodes, NEW p \in Nodes, NEW c \in Nat,
         HasEstablishedSession(S[n][p]), T[n][p] = AfterSealing(S[n][p], c),
         Elsewhere(S, T, n, p),
         Batch(B, S[n][p], c, O)
  PROVE  Keyed(T, L, D, G \cup B, O)
<1> USE DEF Batch, Elsewhere
<1> DEFINE s == S[n][p]
           t == T[n][p]
<1>1. /\ HasEstablishedSession(t) /\ ~Opening(t) /\ ~Opening(s)
      /\ t.role = s.role /\ t.key = s.key /\ t.nonce = s.nonce + c /\ t.rx = s.rx
      /\ s.nonce \in Nat
  BY DEF KeyTypes, SessionType, Opening, HasEstablishedSession, AfterSealing
<1>2. \A m, q \in Nodes :
        /\ Opening(T[m][q]) <=> Opening(S[m][q])
        /\ Opening(T[m][q]) => T[m][q] = S[m][q]
        /\ HasEstablishedSession(T[m][q]) <=> HasEstablishedSession(S[m][q])
        /\ T[m][q].role = S[m][q].role /\ T[m][q].key = S[m][q].key /\ T[m][q].rx = S[m][q].rx
  BY <1>1
<1>3. \A m, q \in Nodes : SendCipher(T[m][q]) = SendCipher(S[m][q])
                          /\ ReceiveCipher(T[m][q]) = ReceiveCipher(S[m][q])
  BY <1>2 DEF SendCipher, ReceiveCipher
<1>4. \A m, q \in Nodes : \A k : CouldKey(T[m][q], L, k) => CouldKey(S[m][q], L, k)
  BY <1>2 DEF CouldKey
<1>5. /\ KeyBounds(S, L, D, G) /\ OneOwner(S) /\ OneAnswer(L) /\ KeysUnused(S, L, G)
      /\ OneEnd(S) /\ NonceAhead(S, G) /\ SeenSent(S, G) /\ OpenedGone(S, L, G, O)
      /\ NonceOnce(G)
  BY DEF Keyed
<1>6. SendCipher(s)[1] = s.key /\ s.key \in 1 .. D /\ s.role \in Ends /\ D \in Nat
  BY <1>5 DEF KeyBounds, SendCipher, KeyTypes
<1> HIDE DEF s, t
<1>7. KeyBounds(T, L, D, G \cup B)
  <2>1. \A x \in B : x.cipher[1] <= D
    BY <1>6 DEF s
  <2> QED
    BY <1>2, <1>5, <2>1 DEF KeyBounds
<1>8. OneOwner(T)
  BY <1>2, <1>5 DEF OneOwner
<1>9. KeysUnused(T, L, G \cup B)
  <2> SUFFICES ASSUME NEW m \in Nodes, NEW q \in Nodes, NEW k \in Nat, CouldKey(T[m][q], L, k)
               PROVE  /\ \A a, b \in Nodes : ~ /\ HasEstablishedSession(T[a][b])
                                               /\ T[a][b].key = k /\ T[a][b].role = T[m][q].role
                      /\ \A x \in G \cup B : x.cipher # SendOn(k, T[m][q].role)
    BY DEF KeysUnused
  <2>1. CouldKey(S[m][q], L, k) /\ S[m][q].role \in Ends
    BY <1>4 DEF CouldKey, Ends
  <2>2. /\ \A a, b \in Nodes : ~ /\ HasEstablishedSession(S[a][b])
                                 /\ S[a][b].key = k /\ S[a][b].role = S[m][q].role
        /\ \A x \in G : x.cipher # SendOn(k, S[m][q].role)
    BY <1>5, <2>1 DEF KeysUnused
  <2>3. SendCipher(s) # SendOn(k, S[m][q].role)
    BY <1>6, <2>1, <2>2 DEF SendCipher, SendOn, s, Ends
  <2> QED
    BY <1>2, <2>2, <2>3 DEF s
<1>10. OneEnd(T)
  BY <1>2, <1>5 DEF OneEnd
<1>11. NonceAhead(T, G \cup B)
  <2> SUFFICES ASSUME NEW m \in Nodes, NEW q \in Nodes, NEW x \in G \cup B,
                      HasEstablishedSession(T[m][q]), x.cipher = SendCipher(T[m][q])
               PROVE  x.nonce < T[m][q].nonce
    BY DEF NonceAhead
  <2>1. HasEstablishedSession(S[m][q]) /\ x.cipher = SendCipher(S[m][q])
    BY <1>2, <1>3
  <2>2. x.nonce \in Nat
    BY DEF Seals, KeyTypes
  <2>3. CASE x \in G
    <3>1. x.nonce < S[m][q].nonce
      BY <1>5, <2>1, <2>3 DEF NonceAhead
    <3>2. T[m][q].nonce = S[m][q].nonce \/ (m = n /\ q = p)
      OBVIOUS
    <3> QED
      BY <1>1, <2>2, <3>1, <3>2 DEF s, t
  <2>4. CASE x \in B
    <3>1. SendCipher(S[m][q]) = SendCipher(s)
      BY <2>1, <2>4 DEF s
    <3>2. S[m][q].key = s.key /\ S[m][q].role = s.role
      <4>1. S[m][q].role \in Ends
        BY <1>5, <2>1 DEF KeyBounds
      <4> QED
        BY <1>6, <3>1, <4>1 DEF SendCipher, Ends
    <3>3. m = n /\ q = p
      BY <1>5, <2>1, <3>2 DEF OneEnd, s
    <3> QED
      BY <1>1, <2>4, <3>3 DEF s, t
  <2> QED
    BY <2>3, <2>4
<1>12. SeenSent(T, G \cup B)
  BY <1>2, <1>3, <1>5 DEF SeenSent
<1>13. OpenedGone(T, L, G \cup B, O)
  <2> SUFFICES ASSUME NEW x \in G \cup B, x.body.kind = "PrivateMessage", O[x.body.id] > 0,
                      NEW m \in Nodes, NEW q \in Nodes
               PROVE  /\ HasEstablishedSession(T[m][q]) /\ ReceiveCipher(T[m][q]) = x.cipher
                           => ~IsValidNonce(T[m][q].rx, x.nonce)
                      /\ CouldKey(T[m][q], L, x.cipher[1])
                           => x.cipher # ReceiveOn(x.cipher[1], T[m][q].role)
    BY DEF OpenedGone
  <2>1. x \in G
    OBVIOUS
  <2>2. /\ HasEstablishedSession(S[m][q]) /\ ReceiveCipher(S[m][q]) = x.cipher
             => ~IsValidNonce(S[m][q].rx, x.nonce)
        /\ CouldKey(S[m][q], L, x.cipher[1])
             => x.cipher # ReceiveOn(x.cipher[1], S[m][q].role)
    BY <1>5, <2>1 DEF OpenedGone
  <2> QED
    BY <1>2, <1>3, <1>4, <2>2
<1>14. NonceOnce(G \cup B)
  <2>1. \A x \in G, y \in B : x.cipher = y.cipher => x.nonce < y.nonce
    <3> SUFFICES ASSUME NEW x \in G, NEW y \in B, x.cipher = y.cipher PROVE x.nonce < y.nonce
      OBVIOUS
    <3>1. x.nonce < s.nonce
      BY <1>5 DEF NonceAhead, s
    <3>2. s.nonce <= y.nonce /\ x.nonce \in Nat /\ y.nonce \in Nat
      BY DEF s, Seals, KeyTypes
    <3> QED
      BY <1>1, <3>1, <3>2
  <2>2. \A x \in G \cup B : x.nonce \in Nat
    BY DEF Seals, KeyTypes
  <2> QED
    BY <1>5, <2>1, <2>2 DEF NonceOnce
<1> QED
  BY <1>5, <1>7, <1>8, <1>9, <1>10, <1>11, <1>12, <1>13, <1>14 DEF Keyed

\* What mark_nonce_as_seen does to the window's answers: a nonce it has marked,
\* and one it refused before, it refuses from now on, however the window slides.
LEMMA WindowRefuses ==
  ASSUME NEW w \in WindowType, NEW i \in Nat, NEW j \in Nat
  PROVE  /\ ~IsValidNonce(MarkNonceAsSeen(w, i), i)
         /\ ~IsValidNonce(w, j) => ~IsValidNonce(MarkNonceAsSeen(w, i), j)
         /\ MarkNonceAsSeen(w, i).seen \subseteq w.seen \cup {i}
<1> DEFINE v == MarkNonceAsSeen(w, i)
<1>1. w.highest \in Nat /\ w.seen \subseteq Nat /\ w = [highest |-> w.highest, seen |-> w.seen]
  BY DEF WindowType
<1>2. CASE i > w.highest
  <2>1. v.highest = i /\ v.seen = Retained(w, i) \cup {i}
    BY <1>2 DEF MarkNonceAsSeen
  <2>2. /\ Retained(w, i) \subseteq w.seen
        /\ \A m \in w.seen : m <= w.highest /\ m \notin Retained(w, i) => m + WindowSize <= i
    BY <1>1, <1>2, WindowSizeAssumption DEF Retained
  <2> HIDE DEF v
  <2>3. ~IsValidNonce(v, i)
    BY <2>1 DEF IsValidNonce
  <2>4. ~IsValidNonce(w, j) => ~IsValidNonce(v, j)
    BY <1>1, <1>2, <2>1, <2>2, WindowSizeAssumption DEF IsValidNonce
  <2> QED
    BY <2>1, <2>2, <2>3, <2>4 DEF v
<1>3. CASE ~(i > w.highest)
  <2>1. v.highest = w.highest /\ v.seen = w.seen \cup {i}
    BY <1>1, <1>3 DEF MarkNonceAsSeen
  <2> HIDE DEF v
  <2> QED
    BY <1>1, <1>3, <2>1 DEF IsValidNonce, v
<1> QED
  BY <1>2, <1>3

\* A seal opened and its nonce marked.  A private message counts as shown once
\* more: it had not been shown, and from now on it opens nowhere.
LEMMA KeyRead ==
  ASSUME NEW S, NEW T, NEW L, NEW D, NEW G, NEW O, NEW P,
         KeyTypes(S, L, D, G, O), Keyed(S, L, D, G, O),
         \A x, y \in G : x.body = y.body /\ x.body.kind = "PrivateMessage" => x = y,
         NEW n \in Nodes, NEW p \in Nodes, NEW z \in G,
         Opens(S[n][p], z), T[n][p] = AfterOpening(S[n][p], z),
         Elsewhere(S, T, n, p),
         Shows(z, O, P)
  PROVE  /\ Keyed(T, L, D, G, P)
         /\ z.body.kind = "PrivateMessage" => O[z.body.id] = 0
<1> USE DEF Elsewhere, Shows
<1> DEFINE s == S[n][p]
           t == T[n][p]
<1>1. /\ HasEstablishedSession(t) /\ ~Opening(t) /\ ~Opening(s) /\ HasEstablishedSession(s)
      /\ t.role = s.role /\ t.key = s.key /\ t.nonce = s.nonce
      /\ t.rx = MarkNonceAsSeen(s.rx, z.nonce)
  BY DEF KeyTypes, SessionType, Opening, HasEstablishedSession, AfterOpening, Opens
<1>2. /\ s.rx \in WindowType /\ z.nonce \in Nat /\ z.cipher = ReceiveCipher(s)
      /\ IsValidNonce(s.rx, z.nonce) /\ z.body.id \in Ids
  BY DEF KeyTypes, SessionType, Seals, Bodies, Opens
<1>3. \A m, q \in Nodes :
        /\ Opening(T[m][q]) <=> Opening(S[m][q])
        /\ Opening(T[m][q]) => T[m][q] = S[m][q]
        /\ HasEstablishedSession(T[m][q]) <=> HasEstablishedSession(S[m][q])
        /\ T[m][q].role = S[m][q].role /\ T[m][q].key = S[m][q].key
        /\ T[m][q].nonce = S[m][q].nonce
  BY <1>1
<1>4. \A m, q \in Nodes : SendCipher(T[m][q]) = SendCipher(S[m][q])
                          /\ ReceiveCipher(T[m][q]) = ReceiveCipher(S[m][q])
  BY <1>3 DEF SendCipher, ReceiveCipher
<1>5. \A m, q \in Nodes : \A k : CouldKey(T[m][q], L, k) => CouldKey(S[m][q], L, k)
  BY <1>3 DEF CouldKey
<1>6. /\ KeyBounds(S, L, D, G) /\ OneOwner(S) /\ OneAnswer(L) /\ KeysUnused(S, L, G)
      /\ OneEnd(S) /\ NonceAhead(S, G) /\ SeenSent(S, G) /\ OpenedGone(S, L, G, O)
      /\ NonceOnce(G)
  BY DEF Keyed
<1>7. ReceiveCipher(s)[1] = s.key /\ s.key \in Nat /\ s.role \in Ends
  BY <1>1, <1>6 DEF KeyBounds, ReceiveCipher, KeyTypes, SessionType
<1> HIDE DEF s, t
<1>8. z.body.kind = "PrivateMessage" => O[z.body.id] = 0
  <2>1. z.body.kind = "PrivateMessage" => ~(O[z.body.id] > 0)
    BY <1>1, <1>2, <1>6 DEF OpenedGone, s
  <2>2. O[z.body.id] \in Nat
    BY <1>2 DEF KeyTypes
  <2> QED
    BY <2>1, <2>2
<1>9. KeyBounds(T, L, D, G)
  BY <1>3, <1>6 DEF KeyBounds
<1>10. OneOwner(T)
  BY <1>3, <1>6 DEF OneOwner
<1>11. KeysUnused(T, L, G)
  <2> SUFFICES ASSUME NEW m \in Nodes, NEW q \in Nodes, NEW k \in Nat, CouldKey(T[m][q], L, k)
               PROVE  /\ \A a, b \in Nodes : ~ /\ HasEstablishedSession(T[a][b])
                                               /\ T[a][b].key = k /\ T[a][b].role = T[m][q].role
                      /\ \A x \in G : x.cipher # SendOn(k, T[m][q].role)
    BY DEF KeysUnused
  <2>1. CouldKey(S[m][q], L, k)
    BY <1>5
  <2> QED
    BY <1>3, <1>6, <2>1 DEF KeysUnused
<1>12. OneEnd(T)
  BY <1>3, <1>6 DEF OneEnd
<1>13. NonceAhead(T, G)
  BY <1>3, <1>4, <1>6 DEF NonceAhead
<1>14. SeenSent(T, G)
  <2> SUFFICES ASSUME NEW m \in Nodes, NEW q \in Nodes, HasEstablishedSession(T[m][q]),
                      NEW i \in T[m][q].rx.seen
               PROVE  \E x \in G : x.cipher = ReceiveCipher(T[m][q]) /\ x.nonce = i
    BY DEF SeenSent
  <2>1. CASE i \in S[m][q].rx.seen
    BY <1>3, <1>4, <1>6, <2>1 DEF SeenSent
  <2>2. CASE m = n /\ q = p /\ i = z.nonce
    BY <1>2, <1>4, <2>2 DEF s
  <2>3. t.rx.seen \subseteq s.rx.seen \cup {z.nonce}
    BY <1>1, <1>2, WindowRefuses
  <2> QED
    BY <2>1, <2>2, <2>3 DEF s, t
<1>15. OpenedGone(T, L, G, P)
  <2> SUFFICES ASSUME NEW x \in G, x.body.kind = "PrivateMessage", P[x.body.id] > 0,
                      NEW m \in Nodes, NEW q \in Nodes
               PROVE  /\ HasEstablishedSession(T[m][q]) /\ ReceiveCipher(T[m][q]) = x.cipher
                           => ~IsValidNonce(T[m][q].rx, x.nonce)
                      /\ CouldKey(T[m][q], L, x.cipher[1])
                           => x.cipher # ReceiveOn(x.cipher[1], T[m][q].role)
    BY DEF OpenedGone
  <2>1. x.body.id \in Ids /\ x.nonce \in Nat /\ x.body \in Bodies /\ z.body \in Bodies
    BY DEF KeyTypes, Seals, Bodies
  <2>2. CASE O[x.body.id] > 0
    <3>1. /\ HasEstablishedSession(S[m][q]) /\ ReceiveCipher(S[m][q]) = x.cipher
               => ~IsValidNonce(S[m][q].rx, x.nonce)
          /\ CouldKey(S[m][q], L, x.cipher[1])
               => x.cipher # ReceiveOn(x.cipher[1], S[m][q].role)
      BY <1>6, <2>2 DEF OpenedGone
    <3>2. ~IsValidNonce(S[m][q].rx, x.nonce) => ~IsValidNonce(T[m][q].rx, x.nonce)
      <4>1. CASE m = n /\ q = p
        BY <1>1, <1>2, <2>1, <4>1, WindowRefuses DEF s, t
      <4>2. CASE m # n \/ q # p
        BY <4>2
      <4> QED
        BY <4>1, <4>2
    <3> QED
      BY <1>3, <1>4, <1>5, <3>1, <3>2
  <2>3. CASE x = z
    <3>1. ReceiveCipher(S[m][q]) = x.cipher /\ HasEstablishedSession(S[m][q]) => m = n /\ q = p
      <4> SUFFICES ASSUME ReceiveCipher(S[m][q]) = x.cipher, HasEstablishedSession(S[m][q])
                   PROVE  m = n /\ q = p
        OBVIOUS
      <4>1. S[m][q].role \in Ends
        BY <1>6 DEF KeyBounds
      <4>2. ReceiveCipher(S[m][q]) = ReceiveCipher(s)
        BY <1>2, <2>3
      <4>3. S[m][q].key = s.key /\ S[m][q].role = s.role
        BY <1>7, <4>1, <4>2 DEF ReceiveCipher, Ends
      <4> QED
        BY <1>1, <1>6, <4>3 DEF OneEnd, s
    <3>2. ~IsValidNonce(t.rx, z.nonce)
      BY <1>1, <1>2, WindowRefuses
    <3>3. CouldKey(T[m][q], L, x.cipher[1]) => x.cipher # ReceiveOn(x.cipher[1], T[m][q].role)
      <4> SUFFICES ASSUME CouldKey(T[m][q], L, x.cipher[1]),
                          x.cipher = ReceiveOn(x.cipher[1], T[m][q].role)
                   PROVE  FALSE
        OBVIOUS
      <4>1. CouldKey(S[m][q], L, s.key) /\ S[m][q].role \in Ends
        <5>1. CouldKey(S[m][q], L, s.key)
          BY <1>2, <1>5, <1>7, <2>3
        <5> QED
          BY <5>1 DEF CouldKey, Ends
      <4>2. ReceiveOn(s.key, S[m][q].role) = ReceiveCipher(s)
        BY <1>2, <1>3, <1>7, <2>3
      <4>3. S[m][q].role = s.role
        BY <1>7, <4>1, <4>2 DEF ReceiveOn, ReceiveCipher, Ends
      <4> QED
        BY <1>1, <1>6, <1>7, <4>1, <4>3 DEF KeysUnused, s
    <3> QED
      BY <1>3, <1>4, <2>3, <3>1, <3>2, <3>3 DEF t
  <2>4. x = z \/ O[x.body.id] > 0
    <3>1. CASE P[x.body.id] = O[x.body.id]
      BY <3>1
    <3>2. CASE z.body.kind = "PrivateMessage" /\ x.body.id = z.body.id
      <4>1. x.body = z.body
        BY <2>1, <3>2 DEF Bodies
      <4> QED
        BY <4>1
    <3> QED
      BY <2>1, <3>1, <3>2
  <2> QED
    BY <2>2, <2>3, <2>4
<1> QED
  BY <1>6, <1>8, <1>9, <1>10, <1>11, <1>12, <1>13, <1>14, <1>15 DEF Keyed

-----------------------------------------------------------------------------
(* Each once: keys, records and ticks, in every reachable state.               *)

\* Nobody has a session, or shakes hands, with itself.
NoSelfTalk(S, L) ==
  /\ \A n \in Nodes : S[n][n].state = "Absent"
  /\ \A f \in L : f.from # f.to

KeyInv ==
  /\ Keyed(session, legs, drawn, sealLog, opened)
  /\ \A f \in sealed : f.seal \in sealLog
  /\ NoSelfTalk(session, legs)

IsRecord(x) == x.body.kind = "PrivateMessage"

\* What is queued has been minted, is queued in one place and has not been sealed.
PendingUnsealed ==
  \A n, p \in Nodes : \A i \in DOMAIN pending[n][p] :
    /\ pending[n][p][i] <= minted
    /\ \A x \in sealLog : IsRecord(x) => x.body.id # pending[n][p][i]

PendingOnce ==
  \A n, p, m, q \in Nodes : \A i \in DOMAIN pending[n][p], j \in DOMAIN pending[m][q] :
    pending[n][p][i] = pending[m][q][j] => n = m /\ p = q /\ i = j

SealedMinted == \A x \in sealLog : IsRecord(x) => x.body.id <= minted

ShownSealed ==
  \A id \in Ids : opened[id] > 0 => \E x \in sealLog : x.body = Body("PrivateMessage", id)

RecordInv ==
  PendingUnsealed /\ PendingOnce /\ SealedMinted /\ SealedOnce /\ ShownOnce /\ ShownSealed

\* Receipts are sealed, and lines stand in a conversation, only for what was shown.
ReceiptsEarned == \A x \in sealLog : ~IsRecord(x) => opened[x.body.id] > 0
LinesOpened == \A n, p \in Nodes : \A i \in DOMAIN shown[n][p] : opened[shown[n][p][i]] > 0
EchoesMinted == \A n \in Nodes, id \in Ids : status[n][id] # NotShown => id <= minted

TickInv == ReceiptsEarned /\ LinesOpened /\ EchoesMinted /\ TickMeansShown

OnceInv == TypeOK /\ KeyInv /\ RecordInv /\ TickInv

\* What TypeOK says of single variables, in the form the steps below use it.
LEMMA Typings ==
  /\ TypeOK => /\ session \in [Nodes -> [Nodes -> SessionType]]
               /\ pending \in [Nodes -> [Nodes -> Seq(Ids)]]
               /\ shown \in [Nodes -> [Nodes -> Seq(Ids)]]
               /\ status \in [Nodes -> [Ids -> NotShown .. Read]]
               /\ opened \in [Ids -> Nat] /\ minted \in Nat /\ drawn \in Nat
               /\ sealLog \subseteq Seals /\ legs \subseteq LegFrames
               /\ sealed \subseteq SealedFrames
  /\ Ids \subseteq Nat
  /\ \A x \in Seals : x.body \in Bodies /\ x.body.id \in Ids /\ x.nonce \in Nat
BY DEF TypeOK, Seals, Bodies, Ids

\* Every place of every pending queue holds an id.
LEMMA PendingIds ==
  ASSUME TypeOK
  PROVE  \A m, q \in Nodes : \A i \in DOMAIN pending[m][q] : pending[m][q][i] \in Ids
<1> SUFFICES ASSUME NEW m \in Nodes, NEW q \in Nodes
             PROVE  \A i \in DOMAIN pending[m][q] : pending[m][q][i] \in Ids
  OBVIOUS
<1> DEFINE x == pending[m][q]
<1>1. x \in Seq(Ids)
  BY DEF TypeOK
<1> HIDE DEF x
<1>2. x \in [1 .. Len(x) -> Ids]
  BY <1>1
<1>3. \A i \in DOMAIN x : x[i] \in Ids
  BY <1>2
<1> QED
  BY <1>3 DEF x

\* Two places of one batch that carry the same nonce are the same place.
LEMMA SameOffset ==
  ASSUME NEW a \in Nat, NEW b \in Nat, NEW c \in Nat, a + b - 1 = a + c - 1
  PROVE  b = c
OBVIOUS

\* TypeOK gives the lemmas on keys what they range over.
LEMMA KeysTyped == TypeOK => KeyTypes(session, legs, drawn, sealLog, opened)
BY DEF TypeOK, KeyTypes

\* One cell of the session table written.
LEMMA CellWritten ==
  ASSUME TypeOK, NEW n \in Nodes, NEW p \in Nodes, NEW x
  PROVE  LET T == [session EXCEPT ![n][p] = x]
         IN  /\ T[n][p] = x
             /\ Elsewhere(session, T, n, p)
<1>1. session \in [Nodes -> [Nodes -> SessionType]]
  BY DEF TypeOK
<1> QED
  BY <1>1 DEF Elsewhere

\* drain_pending and dm_frames on a channel: consecutive nonces, one per record.
LEMMA BatchSealed ==
  ASSUME NEW s \in SessionType, NEW ids \in Seq(Ids)
  PROVE  LET B == SealAll(s, Records(ids))
         IN  /\ B \subseteq Seals
             /\ \A x \in B : /\ x.cipher = SendCipher(s) /\ IsRecord(x)
                             /\ s.nonce <= x.nonce /\ x.nonce < s.nonce + Len(ids)
                             /\ \E i \in DOMAIN ids : x.body.id = ids[i] /\ x.nonce = s.nonce + i - 1
             /\ \A x, y \in B : x.nonce = y.nonce => x = y
             /\ \A x, y \in B : x.body = y.body =>
                  x = y \/ \E i, j \in DOMAIN ids : i # j /\ ids[i] = ids[j]
<1> DEFINE B == SealAll(s, Records(ids))
<1>1. DOMAIN ids = 1 .. Len(ids) /\ Len(ids) \in Nat /\ \A i \in DOMAIN ids : ids[i] \in Ids
  OBVIOUS
<1>2. DOMAIN Records(ids) = DOMAIN ids
      /\ \A i \in DOMAIN ids : Records(ids)[i] = Body("PrivateMessage", ids[i])
  BY DEF Records
<1>3. s.nonce \in Nat
  BY DEF SessionType
<1>4. B \subseteq Seals
  <2>1. DOMAIN Records(ids) \subseteq Nat \ {0}
    BY <1>1, <1>2
  <2>2. \A i \in DOMAIN Records(ids) : Records(ids)[i] \in Bodies
    BY <1>1, <1>2 DEF Body, Bodies
  <2>3. SendCipher(s) \in Nat \X {1, 2}
    BY DEF SendCipher, SessionType
  <2>4. \A i \in DOMAIN Records(ids) : Sealed(s, i, Records(ids)[i]) \in Seals
    BY <1>3, <2>1, <2>2, <2>3 DEF Sealed, Seals
  <2> QED
    BY <2>4 DEF SealAll
<1>5. ASSUME NEW x \in B
      PROVE  \E i \in DOMAIN ids : /\ x.cipher = SendCipher(s) /\ x.nonce = s.nonce + i - 1
                                   /\ x.body = Body("PrivateMessage", ids[i])
                                   /\ x.body.id = ids[i] /\ IsRecord(x)
                                   /\ x = Sealed(s, i, Body("PrivateMessage", ids[i]))
  <2>1. PICK i \in DOMAIN ids : x = Sealed(s, i, Body("PrivateMessage", ids[i]))
    BY <1>2 DEF SealAll
  <2> QED
    BY <2>1 DEF Sealed, Body, IsRecord
<1> HIDE DEF B
<1>6. \A x \in B : /\ x.cipher = SendCipher(s) /\ IsRecord(x)
                   /\ s.nonce <= x.nonce /\ x.nonce < s.nonce + Len(ids)
                   /\ \E i \in DOMAIN ids : x.body.id = ids[i] /\ x.nonce = s.nonce + i - 1
  BY <1>1, <1>3, <1>5
<1>7. \A x, y \in B : x.nonce = y.nonce => x = y
  <2> SUFFICES ASSUME NEW x \in B, NEW y \in B, x.nonce = y.nonce PROVE x = y
    OBVIOUS
  <2>1. PICK i \in DOMAIN ids : x.nonce = s.nonce + i - 1 /\ x = Sealed(s, i, Body("PrivateMessage", ids[i]))
    BY <1>5
  <2>2. PICK j \in DOMAIN ids : y.nonce = s.nonce + j - 1 /\ y = Sealed(s, j, Body("PrivateMessage", ids[j]))
    BY <1>5
  <2>3. i \in Nat /\ j \in Nat
    BY <1>1
  <2>4. i = j
    <3>1. s.nonce + i - 1 = s.nonce + j - 1
      BY <2>1, <2>2
    <3> QED
      BY <1>3, <2>3, <3>1
  <2> QED
    BY <2>1, <2>2, <2>4
<1>8. \A x, y \in B : x.body = y.body => x = y \/ \E i, j \in DOMAIN ids : i # j /\ ids[i] = ids[j]
  <2> SUFFICES ASSUME NEW x \in B, NEW y \in B, x.body = y.body
               PROVE  x = y \/ \E i, j \in DOMAIN ids : i # j /\ ids[i] = ids[j]
    OBVIOUS
  <2>1. PICK i \in DOMAIN ids : x.body.id = ids[i] /\ x = Sealed(s, i, Body("PrivateMessage", ids[i]))
    BY <1>5
  <2>2. PICK j \in DOMAIN ids : y.body.id = ids[j] /\ y = Sealed(s, j, Body("PrivateMessage", ids[j]))
    BY <1>5
  <2> QED
    BY <2>1, <2>2
<1> QED
  BY <1>4, <1>6, <1>7, <1>8 DEF B

\* No queue grows.
Drained(Q, R) == \A n, p \in Nodes : R[n][p] = Q[n][p] \/ R[n][p] = <<>>

\* Records nobody has sealed or keeps queued, one seal each.
FreshRecords(B, G, Q, k) ==
  /\ B \subseteq Seals
  /\ \A x \in B : IsRecord(x) =>
       /\ x.body.id <= k /\ \A y \in G : IsRecord(y) => y.body.id # x.body.id
       /\ \A n, p \in Nodes : \A i \in DOMAIN Q[n][p] : Q[n][p][i] # x.body.id
  /\ \A x, y \in B : IsRecord(x) /\ x.body = y.body => x = y

\* What comes on a screen was sealed, and was not on one before.
ShowsSealed(O, P, G) ==
  \A id \in Ids : \/ P[id] = O[id]
                  \/ /\ O[id] = 0 /\ P[id] = 1
                     /\ \E z \in G : z.body = Body("PrivateMessage", id)

\* A step that queues nothing: what it seals is fresh, what it shows was sealed.
LEMMA RecordStep ==
  ASSUME TypeOK, TypeOK', RecordInv, NEW B, Drained(pending, pending'), minted <= minted',
         sealLog' = sealLog \cup B, FreshRecords(B, sealLog, pending', minted'),
         ShowsSealed(opened, opened', sealLog)
  PROVE  RecordInv'
<1> USE DEF Drained, FreshRecords, ShowsSealed
<1>0. minted' \in Nat /\ opened' \in [Ids -> Nat]
  BY DEF TypeOK
<1>1. /\ minted \in Nat /\ sealLog \subseteq Seals
      /\ \A n, p \in Nodes : pending[n][p] \in Seq(Ids)
      /\ \A x \in Seals : x.body.id \in Nat
  BY DEF TypeOK, Seals, Bodies, Ids
<1>2. \A n, p \in Nodes : \A i \in DOMAIN pending'[n][p] :
        pending'[n][p] = pending[n][p] /\ i \in DOMAIN pending[n][p] /\ pending[n][p][i] \in Nat
  <2> SUFFICES ASSUME NEW n \in Nodes, NEW p \in Nodes, NEW i \in DOMAIN pending'[n][p]
               PROVE  /\ pending'[n][p] = pending[n][p] /\ i \in DOMAIN pending[n][p]
                      /\ pending[n][p][i] \in Nat
    OBVIOUS
  <2>1. pending'[n][p] = pending[n][p]
    OBVIOUS
  <2>2. pending[n][p] \in Seq(Ids) /\ i \in DOMAIN pending[n][p]
    BY <1>1, <2>1
  <2>3. pending[n][p][i] \in Ids
    BY <2>2
  <2> QED
    BY <2>1, <2>2, <2>3 DEF Ids
<1>3. PendingUnsealed'
  <2>1. \A n, p \in Nodes : \A i \in DOMAIN pending'[n][p] :
          /\ pending'[n][p][i] <= minted'
          /\ \A x \in sealLog \cup B : IsRecord(x) => x.body.id # pending'[n][p][i]
    BY <1>0, <1>1, <1>2 DEF RecordInv, PendingUnsealed
  <2> QED
    BY <2>1 DEF PendingUnsealed
<1>4. PendingOnce'
  BY <1>2 DEF RecordInv, PendingOnce
<1>5. SealedMinted'
  BY <1>0, <1>1 DEF RecordInv, SealedMinted
<1>6. SealedOnce'
  <2> SUFFICES ASSUME NEW x \in sealLog \cup B, NEW y \in sealLog \cup B,
                      x.body = y.body, IsRecord(x)
               PROVE  x = y
    BY DEF SealedOnce, IsRecord
  <2>1. IsRecord(y)
    BY DEF IsRecord
  <2> QED
    BY <2>1 DEF RecordInv, SealedOnce, IsRecord
<1>7. ShownOnce'
  <2>1. \A id \in Ids : opened[id] <= 1
    BY DEF RecordInv, ShownOnce
  <2>2. \A id \in Ids : opened'[id] <= 1
    BY <2>1
  <2> QED
    BY <2>2 DEF ShownOnce
<1>8. ShownSealed'
  BY DEF RecordInv, ShownSealed
<1> QED
  BY <1>3, <1>4, <1>5, <1>6, <1>7, <1>8 DEF RecordInv

\* A step in which receipts are sealed and lines shown only for what was shown,
\* and a tick rises only on a line that stands.
LEMMA TickStep ==
  ASSUME TypeOK, TypeOK', TickInv, minted <= minted',
         \A id \in Ids : opened[id] <= opened'[id],
         \A x \in sealLog' : x \in sealLog \/ IsRecord(x) \/ opened'[x.body.id] > 0,
         \A n, p \in Nodes : \A i \in DOMAIN shown'[n][p] :
           \/ i \in DOMAIN shown[n][p] /\ shown'[n][p][i] = shown[n][p][i]
           \/ opened'[shown'[n][p][i]] > 0,
         \A n \in Nodes, id \in Ids :
           \/ status'[n][id] = status[n][id]
           \/ status'[n][id] = NotShown
           \/ status'[n][id] = Echoed /\ id <= minted'
           \/ status[n][id] # NotShown /\ opened'[id] > 0
  PROVE  TickInv'
<1>1. /\ minted \in Nat /\ minted' \in Nat /\ opened \in [Ids -> Nat] /\ opened' \in [Ids -> Nat]
      /\ sealLog \subseteq Seals /\ \A x \in Seals : x.body.id \in Ids
      /\ \A n, p \in Nodes : shown[n][p] \in Seq(Ids)
      /\ Ids \subseteq Nat
  BY DEF TypeOK, Seals, Bodies, Ids
<1>2. \A id \in Ids : opened[id] > 0 => opened'[id] > 0
  BY <1>1
<1>3. ReceiptsEarned'
  BY <1>1, <1>2 DEF TickInv, ReceiptsEarned, IsRecord
<1>4. LinesOpened'
  <2> SUFFICES ASSUME NEW n \in Nodes, NEW p \in Nodes, NEW i \in DOMAIN shown'[n][p]
               PROVE  opened'[shown'[n][p][i]] > 0
    BY DEF LinesOpened
  <2>1. CASE i \in DOMAIN shown[n][p] /\ shown'[n][p][i] = shown[n][p][i]
    <3>1. shown[n][p][i] \in Ids
      BY <1>1, <2>1
    <3>2. opened[shown[n][p][i]] > 0
      BY <2>1 DEF TickInv, LinesOpened
    <3> QED
      BY <1>2, <2>1, <3>1, <3>2
  <2> QED
    BY <2>1
<1>5. EchoesMinted'
  BY <1>1 DEF TickInv, EchoesMinted
<1>6. TickMeansShown'
  BY <1>1, <1>2 DEF TickInv, TickMeansShown, Delivered, NotShown, Echoed
<1> QED
  BY <1>3, <1>4, <1>5, <1>6 DEF TickInv

\* A step that seals and shows nothing and opens no handshake.
LEMMA QuietStep ==
  ASSUME OnceInv, TypeOK', UNCHANGED <<drawn, sealLog, opened>>, minted <= minted',
         legs' \subseteq legs, sealed' \subseteq sealed,
         \A m, q \in Nodes : session'[m][q].state = "Absent" \/ Alike(session'[m][q], session[m][q]),
         Drained(pending, pending'), Drained(shown, shown'),
         \A m \in Nodes, id \in Ids : status'[m][id] = status[m][id] \/ status'[m][id] = NotShown
  PROVE  OnceInv'
<1>1. Keyed(session', legs', drawn', sealLog', opened')
  <2>1. Keyed(session, legs, drawn, sealLog, opened)
    BY DEF OnceInv, KeyInv
  <2>2. Keyed(session', legs', drawn, sealLog, opened)
    BY <2>1, KeysForgotten
  <2> QED
    BY <2>2
<1>2. NoSelfTalk(session', legs')
  BY DEF OnceInv, KeyInv, Alike, NoSelfTalk
<1>3. KeyInv'
  BY <1>1, <1>2 DEF OnceInv, KeyInv
<1>4. RecordInv'
  <2>1. sealLog' = sealLog \cup {}
    OBVIOUS
  <2>2. FreshRecords({}, sealLog, pending', minted') /\ ShowsSealed(opened, opened', sealLog)
    BY DEF FreshRecords, ShowsSealed
  <2> QED
    BY <2>1, <2>2, RecordStep DEF OnceInv
<1>5. TickInv'
  <2>1. \A id \in Ids : opened[id] <= opened'[id]
    BY DEF OnceInv, TypeOK
  <2>2. \A m, q \in Nodes : \A i \in DOMAIN shown'[m][q] :
          i \in DOMAIN shown[m][q] /\ shown'[m][q][i] = shown[m][q][i]
    <3> SUFFICES ASSUME NEW m \in Nodes, NEW q \in Nodes, NEW i \in DOMAIN shown'[m][q]
                 PROVE  i \in DOMAIN shown[m][q] /\ shown'[m][q][i] = shown[m][q][i]
      OBVIOUS
    <3>1. CASE shown'[m][q] = <<>>
      BY <3>1
    <3>2. CASE shown'[m][q] = shown[m][q]
      BY <3>2
    <3> QED
      BY <3>1, <3>2 DEF Drained
  <2> QED
    BY <2>1, <2>2, TickStep DEF OnceInv
<1> QED
  BY <1>3, <1>4, <1>5 DEF OnceInv

\* A session that is written over by one alike, or by none.
LEMMA QuietCell ==
  ASSUME TypeOK, NEW n \in Nodes, NEW p \in Nodes, NEW x,
         x.state = "Absent" \/ Alike(x, session[n][p]),
         session' = [session EXCEPT ![n][p] = x]
  PROVE  \A m, q \in Nodes : session'[m][q].state = "Absent" \/ Alike(session'[m][q], session[m][q])
<1>1. session'[n][p] = x /\ Elsewhere(session, session', n, p)
  BY CellWritten
<1> QED
  BY <1>1 DEF Alike, Elsewhere

\* The peer table, the block list, a refused send.
LEMMA TablesOnce ==
  ASSUME OnceInv, TypeOK', NEW n \in Nodes, NEW p \in Nodes, NEW k \in 1 .. MaxChunks,
         \/ HearAnnounce(n, p) \/ LosePeer(n, p) \/ Block(n, p) \/ Unblock(n, p)
         \/ SendRefused(n, p, k)
  PROVE  OnceInv'
<1>1. TypeOK /\ minted \in Nat
  BY Typings DEF OnceInv
<1>2. /\ UNCHANGED <<drawn, sealLog, opened, legs, sealed, pending, shown, status>>
      /\ minted <= minted'
  BY <1>1 DEF HearAnnounce, LosePeer, Block, Unblock, SendRefused, ui, ghosts
<1>3. NoSession.state = "Absent"
  BY DEF NoSession
<1>4. \A m, q \in Nodes : session'[m][q].state = "Absent" \/ Alike(session'[m][q], session[m][q])
  <2>1. CASE session' = session
    BY <2>1 DEF Alike
  <2>2. CASE session' = [session EXCEPT ![n][p] = NoSession]
    BY <1>1, <1>3, <2>2, QuietCell
  <2>3. CASE session' = [session EXCEPT ![n][p] = Spoil(session[n][p])]
    <3>1. session[n][p] \in SessionType
      BY <1>1 DEF TypeOK
    <3>2. Alike(Spoil(session[n][p]), session[n][p])
      BY <3>1 DEF Spoil, Alike, SessionType
    <3> HIDE DEF Spoil
    <3> QED
      BY <1>1, <2>3, <3>2, QuietCell
  <2> QED
    BY <2>1, <2>2, <2>3 DEF HearAnnounce, LosePeer, Block, Unblock, SendRefused
<1>5. Drained(pending, pending') /\ Drained(shown, shown')
  BY <1>2 DEF Drained
<1> QED
  BY <1>2, <1>4, <1>5, QuietStep

\* A restart and a wipe.
LEMMA ForgettingOnce ==
  ASSUME OnceInv, TypeOK', NEW n \in Nodes, Restart(n) \/ Wipe(n)
  PROVE  OnceInv'
<1>1. /\ TypeOK /\ minted \in Nat
      /\ session \in [Nodes -> [Nodes -> SessionType]]
      /\ pending \in [Nodes -> [Nodes -> Seq(Ids)]] /\ shown \in [Nodes -> [Nodes -> Seq(Ids)]]
      /\ status \in [Nodes -> [Ids -> NotShown .. Read]]
  BY DEF OnceInv, TypeOK
<1>2. /\ UNCHANGED <<drawn, sealLog, opened, legs, sealed, minted>> /\ minted <= minted'
  BY <1>1 DEF Restart, Wipe, ghosts
<1>3. /\ pending' = [pending EXCEPT ![n] = [p \in Nodes |-> <<>>]]
      /\ shown' = [shown EXCEPT ![n] = [p \in Nodes |-> <<>>]]
      /\ status' = [status EXCEPT ![n] = [i \in Ids |-> NotShown]]
  BY DEF Restart, Wipe, Forget
<1>4. /\ Drained(pending, pending') /\ Drained(shown, shown')
      /\ \A m \in Nodes, id \in Ids : status'[m][id] = status[m][id] \/ status'[m][id] = NotShown
  BY <1>1, <1>3 DEF Drained
<1>5. \A m, q \in Nodes : session'[m][q] = session[m][q] \/ session'[m][q] = NoSession
  <2>1. CASE Restart(n)
    BY <1>1, <2>1 DEF Restart
  <2>2. CASE Wipe(n)
    <3> DEFINE kept == [p \in Nodes |-> IF p \in known[n] THEN NoSession ELSE session[n][p]]
    <3>1. \A q \in Nodes : kept[q] = session[n][q] \/ kept[q] = NoSession
      OBVIOUS
    <3>2. session' = [session EXCEPT ![n] = kept]
      BY <2>2 DEF Wipe
    <3> HIDE DEF kept
    <3> QED
      BY <1>1, <3>1, <3>2
  <2> QED
    BY <2>1, <2>2
<1>6. \A m, q \in Nodes : session'[m][q].state = "Absent" \/ Alike(session'[m][q], session[m][q])
  BY <1>5 DEF NoSession, Alike
<1> QED
  BY <1>2, <1>4, <1>6, QuietStep

\* dm_frames without a session: a fresh ephemeral, fresh identifiers in the queue.
LEMMA SendAndOpenOnce ==
  ASSUME OnceInv, TypeOK', NEW n \in Nodes, NEW p \in Nodes, NEW k \in 1 .. MaxChunks,
         SendAndOpen(n, p, k)
  PROVE  OnceInv'
<1> DEFINE g == [from |-> n, to |-> p, msg |-> Leg(1, 0, drawn + 1)]
           fresh == OpenHandshake("Initiator", drawn + 1)
<1>1. /\ TypeOK /\ drawn \in Nat /\ minted \in Nat /\ k \in Nat /\ k >= 1 /\ minted + k <= MaxRecords
      /\ MaxRecords \in Nat /\ n # p
  BY BoundsAssumption, Typings DEF OnceInv, SendAndOpen, MayType
<1>2. /\ session' = [session EXCEPT ![n][p] = fresh]
      /\ drawn' = drawn + 1
      /\ legs' = legs \cup {g}
      /\ pending' = [pending EXCEPT ![n][p] = pending[n][p] \o NewIds(k)]
      /\ minted' = minted + k
      /\ status' = [status EXCEPT ![n][minted + 1] = Echoed]
      /\ UNCHANGED <<sealed, shown, sealLog, opened>>
  BY DEF SendAndOpen, ghosts
<1>3. /\ g \in LegFrames /\ g.msg.eph = drawn + 1 /\ g.msg.of <= drawn
      /\ g.from = n /\ g.to = p
  BY <1>1 DEF LegFrames, Legs, Leg
<1>4. /\ session'[n][p] = fresh
      /\ Elsewhere(session, session', n, p)
  <2>1. session' = [session EXCEPT ![n][p] = fresh]
    BY <1>2
  <2> HIDE DEF fresh
  <2> QED
    BY <1>1, <2>1, CellWritten
<1>5. KeyInv'
  <2>1. Keyed(session, legs, drawn, sealLog, opened)
        /\ KeyTypes(session, legs, drawn, sealLog, opened)
    BY <1>1, KeysTyped DEF OnceInv, KeyInv
  <2>2. Keyed(session', legs', drawn + 1, sealLog, opened)
    <3>1. "Initiator" \in Ends /\ legs' \subseteq legs \cup {g}
      BY <1>2 DEF Ends
    <3> HIDE DEF g
    <3> QED
      BY <1>3, <1>4, <2>1, <3>1, KeyOpened
  <2>3. NoSelfTalk(session, legs)
    BY DEF OnceInv, KeyInv
  <2>4. NoSelfTalk(session', legs')
    BY <1>1, <1>2, <1>3, <1>4, <2>3 DEF Elsewhere, NoSelfTalk
  <2> QED
    BY <1>2, <2>2, <2>4 DEF OnceInv, KeyInv
<1>6. RecordInv'
  <2> DEFINE old == pending[n][p]
             new == old \o NewIds(k)
  <2>1. /\ old \in Seq(Ids) /\ Len(old) \in Nat /\ DOMAIN old = 1 .. Len(old)
        /\ pending \in [Nodes -> [Nodes -> Seq(Ids)]]
    BY <1>1, Typings
  <2>2. NewIds(k) \in Seq(Ids) /\ Len(NewIds(k)) = k /\ \A i \in 1 .. k : NewIds(k)[i] = minted + i
    <3>1. NewIds(k) \in Seq(Ids)
      BY <1>1, NewIdsTyped
    <3> QED
      BY <1>1, <3>1 DEF NewIds
  <2>3. /\ DOMAIN new = 1 .. Len(old) + k
        /\ \A i \in DOMAIN new : new[i] = IF i <= Len(old) THEN old[i] ELSE minted + (i - Len(old))
    <3>1. Len(new) = Len(old) + k /\ new \in Seq(Ids)
      <4> HIDE DEF old
      <4>1. /\ old \o NewIds(k) \in Seq(Ids)
            /\ Len(old \o NewIds(k)) = Len(old) + Len(NewIds(k))
        BY <2>1, <2>2, ConcatProperties
      <4> QED
        BY <2>2, <4>1
    <3>2. DOMAIN new = 1 .. Len(old) + k
      BY <3>1
    <3> SUFFICES ASSUME NEW i \in DOMAIN new
                 PROVE  new[i] = IF i <= Len(old) THEN old[i] ELSE minted + (i - Len(old))
      BY <3>2
    <3>3. CASE i <= Len(old)
      BY <2>1, <2>2, <3>2, <3>3
    <3>4. CASE ~(i <= Len(old))
      <4>1. i - Len(old) \in 1 .. k
        BY <1>1, <2>1, <3>2, <3>4
      <4>2. new[i] = NewIds(k)[i - Len(old)]
        BY <2>1, <2>2, <3>2, <3>4
      <4> QED
        BY <2>2, <3>4, <4>1, <4>2
    <3> QED
      BY <3>3, <3>4
  <2>4. /\ pending'[n][p] = new
        /\ \A m, q \in Nodes : m # n \/ q # p => pending'[m][q] = pending[m][q]
    BY <1>2, <2>1
  <2> HIDE DEF new, old
  <2>5. \A i \in DOMAIN new :
          \/ i \in DOMAIN old /\ new[i] = old[i]
          \/ i > Len(old) /\ i \in Nat /\ new[i] = minted + (i - Len(old)) /\ i - Len(old) \in 1 .. k
    BY <1>1, <2>1, <2>3
  <2>6. \A m, q \in Nodes : \A i \in DOMAIN pending[m][q] :
          pending[m][q][i] <= minted /\ pending[m][q][i] \in Nat
    <3>1. \A m, q \in Nodes : \A i \in DOMAIN pending[m][q] : pending[m][q][i] \in Ids
      BY <1>1, PendingIds
    <3> QED
      BY <3>1 DEF OnceInv, RecordInv, PendingUnsealed, Ids
  <2>7. \A x \in sealLog : x.body.id \in Nat
    BY <1>1, Typings
  <2>8. PendingUnsealed'
    <3> SUFFICES ASSUME NEW m \in Nodes, NEW q \in Nodes, NEW i \in DOMAIN pending'[m][q]
                 PROVE  /\ pending'[m][q][i] <= minted + k
                        /\ \A x \in sealLog : IsRecord(x) => x.body.id # pending'[m][q][i]
      BY <1>2 DEF PendingUnsealed
    <3>1. CASE i \in DOMAIN pending[m][q] /\ pending'[m][q][i] = pending[m][q][i]
      BY <1>1, <2>6, <3>1 DEF OnceInv, RecordInv, PendingUnsealed
    <3>2. CASE \E j \in 1 .. k : pending'[m][q][i] = minted + j
      <4>1. \A x \in sealLog : IsRecord(x) => x.body.id <= minted
        BY DEF OnceInv, RecordInv, SealedMinted
      <4> QED
        BY <1>1, <2>7, <3>2, <4>1
    <3> QED
      BY <2>4, <2>5, <3>1, <3>2 DEF old
  <2>9. PendingOnce'
    <3> SUFFICES ASSUME NEW a \in Nodes, NEW b \in Nodes, NEW c \in Nodes, NEW d \in Nodes,
                        NEW i \in DOMAIN pending'[a][b], NEW j \in DOMAIN pending'[c][d],
                        pending'[a][b][i] = pending'[c][d][j]
                 PROVE  a = c /\ b = d /\ i = j
      BY DEF PendingOnce
    <3> DEFINE Old(u, v, w) == w \in DOMAIN pending[u][v] /\ pending'[u][v][w] = pending[u][v][w]
               New(u, v, w) == /\ u = n /\ v = p /\ w \in Nat /\ w > Len(old)
                               /\ pending'[u][v][w] = minted + (w - Len(old))
    <3>1. /\ Old(a, b, i) \/ New(a, b, i)
          /\ Old(c, d, j) \/ New(c, d, j)
      BY <2>4, <2>5 DEF old
    <3>2. CASE Old(a, b, i) /\ Old(c, d, j)
      <4>1. pending[a][b][i] = pending[c][d][j]
        BY <3>2
      <4>2. PendingOnce
        BY DEF OnceInv, RecordInv
      <4> QED
        BY <3>2, <4>1, <4>2 DEF PendingOnce
    <3>3. CASE New(a, b, i) /\ New(c, d, j)
      BY <1>1, <2>1, <3>3
    <3>4. \A u, v \in Nodes : \A w : \A x \in Nat :
            x > Len(old) => ~(Old(u, v, w) /\ pending'[u][v][w] = minted + (x - Len(old)))
      BY <1>1, <2>1, <2>6
    <3> QED
      BY <3>1, <3>2, <3>3, <3>4
  <2>10. SealedMinted'
    BY <1>1, <1>2, <2>7 DEF OnceInv, RecordInv, SealedMinted
  <2> QED
    BY <1>2, <2>8, <2>9, <2>10
       DEF OnceInv, RecordInv, SealedOnce, ShownOnce, ShownSealed
<1>7. TickInv'
  <2>1. /\ \A id \in Ids : opened[id] <= opened'[id]
        /\ minted <= minted'
    BY <1>1, <1>2, Typings
  <2>2. \A m \in Nodes, id \in Ids :
          status'[m][id] = status[m][id] \/ (status'[m][id] = Echoed /\ id <= minted')
    <3>1. status \in [Nodes -> [Ids -> NotShown .. Read]]
      BY <1>1 DEF TypeOK
    <3> QED
      BY <1>1, <1>2, <3>1
  <2> QED
    BY <1>1, <1>2, <2>1, <2>2, TickStep DEF OnceInv
<1> QED
  BY <1>5, <1>6, <1>7 DEF OnceInv

\* Identifiers nobody has sealed or keeps queued, each once.
FreshIds(ids, G, Q, k) ==
  /\ \A i \in DOMAIN ids :
       /\ ids[i] <= k /\ \A y \in G : IsRecord(y) => y.body.id # ids[i]
       /\ \A n, p \in Nodes : \A j \in DOMAIN Q[n][p] : Q[n][p][j] # ids[i]
  /\ \A i, j \in DOMAIN ids : ids[i] = ids[j] => i = j

\* A batch of records sealed on a channel: dm_frames with the channel up, and
\* drain_pending.  W is the session table once the channel is up.
LEMMA BatchOnce ==
  ASSUME OnceInv, TypeOK', NEW W, NEW n \in Nodes, NEW p \in Nodes, NEW ids \in Seq(Ids),
         KeyTypes(W, legs', drawn, sealLog, opened), Keyed(W, legs', drawn, sealLog, opened),
         HasEstablishedSession(W[n][p]),
         session'[n][p] = AfterSealing(W[n][p], Len(ids)), Elsewhere(W, session', n, p),
         NoSelfTalk(session', legs'),
         sealed' = sealed \cup SealedFramesOf(n, p, SealAll(W[n][p], Records(ids))),
         sealLog' = sealLog \cup SealAll(W[n][p], Records(ids)),
         drawn' = drawn, opened' = opened, minted <= minted',
         FreshIds(ids, sealLog, pending', minted'), Drained(pending, pending')
  PROVE  KeyInv' /\ RecordInv'
<1> DEFINE s == W[n][p]
           B == SealAll(s, Records(ids))
<1>1. TypeOK /\ s \in SessionType /\ Len(ids) \in Nat
  BY DEF OnceInv, KeyTypes
<1>2. /\ B \subseteq Seals
      /\ \A x \in B : /\ x.cipher = SendCipher(s) /\ IsRecord(x)
                      /\ s.nonce <= x.nonce /\ x.nonce < s.nonce + Len(ids)
                      /\ \E i \in DOMAIN ids : x.body.id = ids[i]
      /\ \A x, y \in B : x.nonce = y.nonce => x = y
      /\ \A x, y \in B : x.body = y.body => x = y
  <2> HIDE DEF s
  <2> QED
    BY <1>1, BatchSealed DEF FreshIds
<1> HIDE DEF B
<1>3. FreshRecords(B, sealLog, pending', minted')
  BY <1>2 DEF FreshRecords, FreshIds
<1>4. \A x \in B : opened[x.body.id] = 0
  <2> SUFFICES ASSUME NEW x \in B PROVE opened[x.body.id] = 0
    OBVIOUS
  <2>1. x.body.id \in Ids /\ opened[x.body.id] \in Nat
    BY <1>1, <1>2, Typings
  <2>2. \A y \in sealLog : IsRecord(y) => y.body.id # x.body.id
    BY <1>2, <1>3 DEF FreshRecords
  <2>3. ~(opened[x.body.id] > 0)
    <3> SUFFICES ASSUME opened[x.body.id] > 0 PROVE FALSE
      OBVIOUS
    <3>1. PICK y \in sealLog : y.body = Body("PrivateMessage", x.body.id)
      BY <2>1 DEF OnceInv, RecordInv, ShownSealed
    <3> QED
      BY <2>2, <3>1 DEF IsRecord, Body
  <2> QED
    BY <2>1, <2>3
<1>5. Batch(B, s, Len(ids), opened)
  BY <1>2, <1>4 DEF Batch
<1>6. sealLog' = sealLog \cup B
  BY DEF B
<1>7. KeyInv'
  <2>1. Keyed(session', legs', drawn, sealLog \cup B, opened)
    BY <1>1, <1>5, KeySealed
  <2>2. \A f \in sealed' : f.seal \in sealLog'
    BY DEF OnceInv, KeyInv, SealedFramesOf, B
  <2> QED
    BY <1>6, <2>1, <2>2 DEF KeyInv
<1>8. RecordInv'
  <2>1. ShowsSealed(opened, opened', sealLog)
    BY DEF ShowsSealed
  <2> HIDE DEF s
  <2> QED
    BY <1>1, <1>3, <1>6, <2>1, RecordStep DEF OnceInv
<1> QED
  BY <1>7, <1>8

\* dm_frames with the channel up.
LEMMA SendOnChannelOnce ==
  ASSUME OnceInv, TypeOK', NEW n \in Nodes, NEW p \in Nodes, NEW k \in 1 .. MaxChunks,
         SendOnChannel(n, p, k)
  PROVE  OnceInv'
<1> DEFINE s == session[n][p]
           new == SealAll(s, Records(NewIds(k)))
<1>1. /\ TypeOK /\ minted \in Nat /\ k \in Nat /\ k >= 1 /\ minted + k <= MaxRecords
      /\ n # p /\ HasEstablishedSession(s)
  BY Typings DEF OnceInv, SendOnChannel, MayType
<1>2. /\ sealed' = sealed \cup SealedFramesOf(n, p, new)
      /\ sealLog' = sealLog \cup new
      /\ session' = [session EXCEPT ![n][p] = AfterSealing(s, k)]
      /\ minted' = minted + k
      /\ status' = [status EXCEPT ![n][minted + 1] = Echoed]
      /\ UNCHANGED <<pending, legs, shown, drawn, opened>>
  BY DEF SendOnChannel
<1>3. NewIds(k) \in Seq(Ids) /\ Len(NewIds(k)) = k /\ DOMAIN NewIds(k) = 1 .. k
      /\ \A i \in 1 .. k : NewIds(k)[i] = minted + i
  <2>1. NewIds(k) \in Seq(Ids)
    BY <1>1, NewIdsTyped
  <2> QED
    BY <1>1, <2>1 DEF NewIds
<1>4. /\ session'[n][p] = AfterSealing(s, k)
      /\ Elsewhere(session, session', n, p)
  <2> DEFINE after == AfterSealing(s, k)
  <2>1. session' = [session EXCEPT ![n][p] = after] /\ TypeOK
    BY <1>1, <1>2
  <2> HIDE DEF s, after
  <2>2. session'[n][p] = after /\ Elsewhere(session, session', n, p)
    BY <2>1, CellWritten
  <2> QED
    BY <2>2 DEF after
<1>5. KeyInv' /\ RecordInv'
  <2>1. KeyTypes(session, legs, drawn, sealLog, opened)
        /\ Keyed(session, legs, drawn, sealLog, opened)
    BY <1>1, KeysTyped DEF OnceInv, KeyInv
  <2>2. NoSelfTalk(session', legs)
    BY <1>1, <1>4 DEF OnceInv, KeyInv, Elsewhere, NoSelfTalk
  <2>3. \A i \in DOMAIN NewIds(k) :
           /\ NewIds(k)[i] <= minted'
           /\ \A x \in sealLog : IsRecord(x) => x.body.id # NewIds(k)[i]
           /\ \A m, q \in Nodes : \A j \in DOMAIN pending'[m][q] : pending'[m][q][j] # NewIds(k)[i]
    <3> SUFFICES ASSUME NEW i \in 1 .. k
                 PROVE  /\ minted + i <= minted + k
                        /\ \A x \in sealLog : IsRecord(x) => x.body.id # minted + i
                        /\ \A m, q \in Nodes : \A j \in DOMAIN pending[m][q] :
                             pending[m][q][j] # minted + i
      BY <1>2, <1>3
    <3>1. \A x \in sealLog : IsRecord(x) => x.body.id <= minted /\ x.body.id \in Nat
      BY <1>1, Typings DEF OnceInv, RecordInv, SealedMinted
    <3>2. \A m, q \in Nodes : \A j \in DOMAIN pending[m][q] :
            pending[m][q][j] <= minted /\ pending[m][q][j] \in Nat
      <4>1. \A m, q \in Nodes : \A j \in DOMAIN pending[m][q] : pending[m][q][j] \in Ids
        BY <1>1, PendingIds
      <4> QED
        BY <4>1, Typings DEF OnceInv, RecordInv, PendingUnsealed
    <3> QED
      BY <1>1, <3>1, <3>2
  <2>4. \A i, j \in DOMAIN NewIds(k) : NewIds(k)[i] = NewIds(k)[j] => i = j
    BY <1>1, <1>3
  <2>5. minted <= minted' /\ legs' = legs /\ drawn' = drawn /\ opened' = opened
        /\ Drained(pending, pending')
    BY <1>1, <1>2 DEF Drained
  <2>6. /\ sealed' = sealed \cup SealedFramesOf(n, p, SealAll(session[n][p], Records(NewIds(k))))
        /\ sealLog' = sealLog \cup SealAll(session[n][p], Records(NewIds(k)))
        /\ session'[n][p] = AfterSealing(session[n][p], Len(NewIds(k)))
        /\ HasEstablishedSession(session[n][p])
    BY <1>1, <1>2, <1>3, <1>4
  <2>7. FreshIds(NewIds(k), sealLog, pending', minted')
    BY <2>3, <2>4 DEF FreshIds
  <2> QED
    BY <1>3, <1>4, <2>1, <2>2, <2>5, <2>6, <2>7, BatchOnce
<1>6. TickInv'
  <2>1. /\ \A id \in Ids : opened[id] <= opened'[id]
        /\ minted <= minted'
    BY <1>1, <1>2, Typings
  <2>2. \A m \in Nodes, id \in Ids :
          status'[m][id] = status[m][id] \/ (status'[m][id] = Echoed /\ id <= minted')
    <3>1. status \in [Nodes -> [Ids -> NotShown .. Read]]
      BY <1>1, Typings
    <3> QED
      BY <1>1, <1>2, <3>1
  <2>3. \A x \in sealLog' : x \in sealLog \/ IsRecord(x)
    BY <1>1, <1>2, <1>3, BatchSealed, Typings
  <2>4. shown' = shown
    BY <1>2
  <2> HIDE DEF s, new
  <2> QED
    BY <1>1, <2>1, <2>2, <2>3, <2>4, TickStep DEF OnceInv
<1> QED
  BY <1>5, <1>6 DEF OnceInv

\* handle_noise_handshake as a fresh responder: the answer carries a new ephemeral.
LEMMA AnswerOnce ==
  ASSUME OnceInv, TypeOK', NEW f \in legs, NEW keep \in BOOLEAN, AnswerOpening(f, keep)
  PROVE  OnceInv'
<1> DEFINE n == f.to
           p == f.from
           o == Handshake(f)
           g == [from |-> n, to |-> p, msg |-> o.reply]
           fresh == OpenHandshake("Responder", drawn + 1)
<1>1. /\ TypeOK /\ n \in Nodes /\ p \in Nodes /\ f.msg \in Legs /\ drawn \in Nat /\ minted \in Nat
      /\ f.msg.eph \in Nat
  BY Typings DEF OnceInv, LegFrames, Legs
<1>2. /\ session' = [session EXCEPT ![n][p] = o.session]
      /\ legs' = Consume(legs, f, keep) \cup {g}
      /\ drawn' = drawn + 1
      /\ UNCHANGED <<pending, sealed, shown, status, minted, sealLog, opened>>
      /\ session[n][p].state = "Absent"
  BY DEF AnswerOpening, ui, ghosts
<1>3. /\ o.session = fresh
      /\ o.reply = Leg(2, IF f.msg.leg = 1 THEN f.msg.eph ELSE 0, drawn + 1)
  BY <1>2 DEF Handshake, HandleIncomingHandshake, Outcome
<1>4. f.msg.eph <= drawn /\ n # p
  BY DEF OnceInv, KeyInv, Keyed, KeyBounds, NoSelfTalk
<1>5. /\ g \in LegFrames /\ g.msg.eph = drawn + 1 /\ g.msg.of <= drawn
      /\ g.from = n /\ g.to = p
  <2>1. /\ o.reply \in Legs /\ o.reply.eph = drawn + 1 /\ o.reply.of <= drawn
    BY <1>1, <1>3, <1>4 DEF Leg, Legs
  <2> HIDE DEF o
  <2> QED
    BY <1>1, <2>1 DEF LegFrames
<1>6. legs' \subseteq legs \cup {g}
  BY <1>2 DEF Consume
<1>7. session'[n][p] = fresh /\ Elsewhere(session, session', n, p)
  <2>1. session' = [session EXCEPT ![n][p] = fresh]
    BY <1>2, <1>3
  <2> HIDE DEF fresh, n, p, o, g
  <2> QED
    BY <1>1, <2>1, CellWritten
<1> HIDE DEF g, o, n, p
<1>8. KeyInv'
  <2>1. Keyed(session, legs, drawn, sealLog, opened)
        /\ KeyTypes(session, legs, drawn, sealLog, opened) /\ NoSelfTalk(session, legs)
    BY <1>1, KeysTyped DEF OnceInv, KeyInv
  <2>2. Keyed(session', legs', drawn + 1, sealLog, opened)
    <3>1. "Responder" \in Ends
      BY DEF Ends
    <3> QED
      BY <1>1, <1>5, <1>6, <1>7, <2>1, <3>1, KeyOpened
  <2>3. NoSelfTalk(session', legs')
    BY <1>4, <1>5, <1>6, <1>7, <2>1 DEF Elsewhere, NoSelfTalk
  <2> QED
    BY <1>2, <2>2, <2>3 DEF OnceInv, KeyInv
<1>9. RecordInv'
  BY <1>2 DEF OnceInv, RecordInv, PendingUnsealed, PendingOnce, SealedMinted, SealedOnce,
              ShownOnce, ShownSealed
<1>10. TickInv'
  BY <1>2 DEF OnceInv, TickInv, ReceiptsEarned, LinesOpened, EchoesMinted, TickMeansShown
<1> QED
  BY <1>8, <1>9, <1>10 DEF OnceInv

\* handle_noise_handshake with the channel up afterwards: this leg completes the
\* handshake, or the channel was up; then the queue is sealed.
LEMMA CompleteOnce ==
  ASSUME OnceInv, TypeOK', NEW f \in legs, NEW keep \in BOOLEAN, CompleteHandshake(f, keep)
  PROVE  OnceInv'
<1> DEFINE n == f.to
           p == f.from
           o == Handshake(f)
           s == session[n][p]
           ids == pending[n][p]
           W == [session EXCEPT ![n][p] = o.session]
           g == [from |-> n, to |-> p, msg |-> o.reply]
<1>1. /\ TypeOK /\ n \in Nodes /\ p \in Nodes /\ f \in LegFrames /\ f.msg \in Legs
      /\ drawn + 1 \in Nat
  BY Typings DEF OnceInv, LegFrames
<1>2. s \in SessionType /\ o.session \in SessionType /\ o.reply \in Legs /\ ids \in Seq(Ids)
  <2>1. s \in SessionType /\ ids \in Seq(Ids)
    BY <1>1, Typings
  <2> QED
    BY <1>1, <2>1, HandshakeTypes DEF Handshake
<1>3. n # p /\ NoSelfTalk(session, legs)
  BY DEF OnceInv, KeyInv, NoSelfTalk
<1>4. /\ session' = [session EXCEPT ![n][p] = AfterSealing(o.session, Len(ids))]
      /\ pending' = [pending EXCEPT ![n][p] = <<>>]
      /\ legs' = IF o.result = "reply" THEN Consume(legs, f, keep) \cup {g}
                 ELSE Consume(legs, f, keep)
      /\ sealed' = sealed \cup SealedFramesOf(n, p, SealAll(o.session, Records(ids)))
      /\ sealLog' = sealLog \cup SealAll(o.session, Records(ids))
      /\ HasEstablishedSession(o.session)
      /\ UNCHANGED <<shown, status, minted, drawn, opened>>
  BY DEF CompleteHandshake, ui
<1>5. W[n][p] = o.session /\ Elsewhere(session, W, n, p)
  <2> HIDE DEF o, n, p
  <2> QED
    BY <1>1, CellWritten
<1>6. \/ o.session = s /\ HasEstablishedSession(s) /\ o.result # "reply"
      \/ /\ Opening(s) /\ s.role = "Initiator" /\ f.msg.leg = 2 /\ f.msg.of = s.mine
         /\ o.session = Establish(s, f.msg.eph) /\ o.reply = Leg(3, f.msg.eph, 0)
      \/ /\ Opening(s) /\ s.role # "Initiator" /\ o.session = Establish(s, s.mine)
         /\ o.result # "reply"
  <2>1. CASE HasEstablishedSession(s)
    BY <2>1 DEF Handshake, HandleIncomingHandshake, Outcome, HasEstablishedSession
  <2>2. CASE s.state = "Absent"
    BY <1>4, <2>2 DEF Handshake, HandleIncomingHandshake, Outcome, HasEstablishedSession,
                      OpenHandshake, NoSession
  <2>3. CASE Opening(s)
    BY <1>4, <2>3 DEF Handshake, HandleIncomingHandshake, Outcome, HasEstablishedSession,
                      Opening, Authenticates
  <2> QED
    BY <1>2, <2>1, <2>2, <2>3 DEF SessionType, HasEstablishedSession, Opening
<1>7. Keyed(session, legs, drawn, sealLog, opened)
      /\ KeyTypes(session, legs, drawn, sealLog, opened)
  BY <1>1, KeysTyped DEF OnceInv, KeyInv
<1>8. Consume(legs, f, keep) \subseteq legs
  BY DEF Consume
<1>9. /\ g.from = n /\ g.to = p /\ g.msg = o.reply
      /\ g \in LegFrames
  BY <1>1, <1>2 DEF LegFrames
<1> HIDE DEF W, o, g, n, p
<1>10. Keyed(W, legs', drawn, sealLog, opened)
  <2>1. CASE o.session = s /\ o.result # "reply"
    <3>1. \A m, q \in Nodes : W[m][q] = session[m][q]
      BY <1>5, <2>1 DEF Elsewhere
    <3>2. \A m, q \in Nodes : W[m][q].state = "Absent" \/ Alike(W[m][q], session[m][q])
      BY <3>1 DEF Alike
    <3>3. legs' \subseteq legs
      BY <1>4, <1>8, <2>1
    <3> QED
      BY <1>7, <3>2, <3>3, KeysForgotten
  <2>2. CASE /\ Opening(s) /\ s.role = "Initiator" /\ f.msg.leg = 2 /\ f.msg.of = s.mine
             /\ o.session = Establish(s, f.msg.eph) /\ o.reply = Leg(3, f.msg.eph, 0)
    <3>1. CouldKey(session[n][p], legs, f.msg.eph)
      BY <2>2 DEF CouldKey
    <3>2. g.msg.leg = 3 /\ g.msg.of = f.msg.eph /\ g.msg.eph = 0
      BY <1>9, <2>2 DEF Leg
    <3>3. \A h \in legs' : h \in legs \/ (h.msg.leg = 3 /\ h.msg.of = f.msg.eph /\ h.msg.eph = 0)
      BY <1>4, <1>8, <3>2
    <3>4. W[n][p] = Establish(session[n][p], f.msg.eph)
      BY <1>5, <2>2
    <3> QED
      BY <1>1, <1>5, <1>7, <3>1, <3>3, <3>4, KeyEstablished
  <2>3. CASE /\ Opening(s) /\ s.role # "Initiator" /\ o.session = Establish(s, s.mine)
             /\ o.result # "reply"
    <3>1. CouldKey(session[n][p], legs, s.mine)
      BY <1>1, <1>7, <2>3 DEF CouldKey, Keyed, KeyBounds, Ends
    <3>2. \A h \in legs' : h \in legs \/ (h.msg.leg = 3 /\ h.msg.of = s.mine /\ h.msg.eph = 0)
      BY <1>4, <1>8, <2>3
    <3>3. W[n][p] = Establish(session[n][p], s.mine)
      BY <1>5, <2>3
    <3> QED
      BY <1>1, <1>5, <1>7, <3>1, <3>2, <3>3, KeyEstablished
  <2> QED
    BY <1>6, <2>1, <2>2, <2>3
<1>11. KeyTypes(W, legs', drawn, sealLog, opened)
  <2>1. \A m, q \in Nodes : W[m][q] \in SessionType
    BY <1>2, <1>5, <1>7 DEF Elsewhere, KeyTypes
  <2>2. legs' \subseteq LegFrames
    BY Typings DEF TypeOK
  <2> QED
    BY <1>7, <2>1, <2>2 DEF KeyTypes
<1>12. /\ session'[n][p] = AfterSealing(W[n][p], Len(ids)) /\ Elsewhere(W, session', n, p)
       /\ Elsewhere(session, session', n, p)
  <2> DEFINE after == AfterSealing(o.session, Len(ids))
  <2>1. session' = [session EXCEPT ![n][p] = after]
    BY <1>4
  <2> HIDE DEF after
  <2>2. session'[n][p] = after /\ Elsewhere(session, session', n, p)
    BY <1>1, <2>1, CellWritten
  <2> QED
    BY <1>5, <2>2 DEF Elsewhere, after
<1>13. NoSelfTalk(session', legs')
  BY <1>3, <1>4, <1>8, <1>9, <1>12 DEF NoSelfTalk, Elsewhere
<1>14. /\ Drained(pending, pending') /\ pending'[n][p] = <<>>
       /\ \A m, q \in Nodes : m # n \/ q # p => pending'[m][q] = pending[m][q]
  <2>1. pending \in [Nodes -> [Nodes -> Seq(Ids)]] /\ pending' = [pending EXCEPT ![n][p] = <<>>]
    BY <1>1, <1>4, Typings
  <2> QED
    BY <1>1, <2>1 DEF Drained
<1>15. FreshIds(ids, sealLog, pending', minted')
  <2>1. PendingUnsealed /\ PendingOnce /\ minted' = minted
    BY <1>4 DEF OnceInv, RecordInv
  <2>2. \A i \in DOMAIN ids : ids[i] <= minted' /\ \A y \in sealLog : IsRecord(y) => y.body.id # ids[i]
    BY <1>1, <2>1 DEF PendingUnsealed
  <2>3. \A i, j \in DOMAIN ids : ids[i] = ids[j] => i = j
    BY <1>1, <2>1 DEF PendingOnce
  <2>4. ASSUME NEW i \in DOMAIN ids, NEW m \in Nodes, NEW q \in Nodes, NEW j \in DOMAIN pending'[m][q]
        PROVE  pending'[m][q][j] # ids[i]
    <3>1. m # n \/ q # p
      BY <1>14
    <3> QED
      BY <1>1, <1>14, <2>1, <3>1 DEF PendingOnce
  <2> QED
    BY <2>2, <2>3, <2>4 DEF FreshIds
<1>16. KeyInv' /\ RecordInv'
  <2>1. /\ sealed' = sealed \cup SealedFramesOf(n, p, SealAll(W[n][p], Records(ids)))
        /\ sealLog' = sealLog \cup SealAll(W[n][p], Records(ids))
        /\ HasEstablishedSession(W[n][p])
    BY <1>4, <1>5
  <2>2. drawn' = drawn /\ opened' = opened /\ minted <= minted'
    BY <1>1, <1>4, Typings
  <2> HIDE DEF ids, s
  <2> QED
    BY <1>1, <1>2, <1>10, <1>11, <1>12, <1>13, <1>14, <1>15, <2>1, <2>2, BatchOnce
<1>17. TickInv'
  <2>1. \A x \in sealLog' : x \in sealLog \/ IsRecord(x)
    <3> HIDE DEF ids
    <3> QED
      BY <1>2, <1>4, BatchSealed
  <2> QED
    BY <1>4, <2>1 DEF OnceInv, TickInv, ReceiptsEarned, LinesOpened, EchoesMinted,
                      TickMeansShown
<1> QED
  BY <1>16, <1>17 DEF OnceInv

\* handle_noise_handshake on any leg.
LEMMA LegOnce ==
  ASSUME OnceInv, TypeOK', NEW f \in legs, NEW keep \in BOOLEAN, ReceiveLeg(f, keep)
  PROVE  OnceInv'
<1>1. TypeOK /\ f.to \in Nodes /\ f.from \in Nodes /\ minted \in Nat
  BY Typings DEF OnceInv, LegFrames
<1>2. ASSUME DropLeg(f, keep) \/ FailHandshake(f, keep) PROVE OnceInv'
  <2>1. /\ UNCHANGED <<drawn, sealLog, opened, sealed, pending, shown, status, minted>>
        /\ legs' \subseteq legs
    BY <1>2 DEF DropLeg, FailHandshake, Consume, ui, ghosts
  <2>2. minted <= minted' /\ Drained(pending, pending') /\ Drained(shown, shown')
    BY <1>1, <2>1 DEF Drained
  <2>3. \A m, q \in Nodes : session'[m][q].state = "Absent" \/ Alike(session'[m][q], session[m][q])
    <3>1. CASE session' = session
      BY <3>1 DEF Alike
    <3>2. CASE session' = [session EXCEPT ![f.to][f.from] = NoSession]
      <4>1. NoSession.state = "Absent"
        BY DEF NoSession
      <4> QED
        BY <1>1, <3>2, <4>1, QuietCell
    <3> QED
      BY <1>2, <3>1, <3>2 DEF DropLeg, FailHandshake
  <2> QED
    BY <2>1, <2>2, <2>3, QuietStep
<1> QED
  BY <1>2, AnswerOnce, CompleteOnce DEF ReceiveLeg

\* A frame that opens was sealed by somebody, for a channel that is not n's own.
LEMMA OpenedFacts ==
  ASSUME OnceInv, NEW f \in sealed, ~Refuses(f.to, f.from), Opens(session[f.to][f.from], f.seal)
  PROVE  /\ TypeOK /\ f.to \in Nodes /\ f.from \in Nodes /\ f.to # f.from
         /\ f.seal \in sealLog /\ f.seal \in Seals /\ f.seal.body \in Bodies
         /\ f.seal.body.id \in Ids /\ f.seal.nonce \in Nat
         /\ session[f.to][f.from] \in SessionType
         /\ AfterOpening(session[f.to][f.from], f.seal) \in SessionType
         /\ \A x, y \in sealLog : x.body = y.body /\ x.body.kind = "PrivateMessage" => x = y
<1>1. /\ TypeOK /\ f.to \in Nodes /\ f.from \in Nodes /\ f.seal \in Seals
  BY Typings DEF OnceInv, SealedFrames
<1>2. session[f.to][f.from] \in SessionType
  BY <1>1, Typings
<1>3. f.seal \in sealLog /\ f.to # f.from
  <2>1. session[f.to][f.from].state = "Established"
    BY DEF Opens, HasEstablishedSession
  <2> QED
    BY <1>1, <2>1 DEF OnceInv, KeyInv, NoSelfTalk
<1>4. /\ f.seal.body \in Bodies /\ f.seal.body.id \in Ids /\ f.seal.nonce \in Nat
  BY <1>1, Typings
<1>5. AfterOpening(session[f.to][f.from], f.seal) \in SessionType
  <2>1. MarkNonceAsSeen(session[f.to][f.from].rx, f.seal.nonce) \in WindowType
    BY <1>2, <1>4, WindowTypeKept DEF SessionType
  <2> QED
    BY <1>2, <2>1 DEF AfterOpening, SessionType
<1>6. \A x, y \in sealLog : x.body = y.body /\ x.body.kind = "PrivateMessage" => x = y
  BY DEF OnceInv, RecordInv, SealedOnce
<1> QED
  BY <1>1, <1>2, <1>3, <1>4, <1>5, <1>6

\* handle_noise_encrypted on a private message: shown for the first time, and
\* acknowledged on the same channel.
LEMMA PrivateMessageOnce ==
  ASSUME OnceInv, TypeOK', NEW f \in sealed, NEW keep \in BOOLEAN, OpenPrivateMessage(f, keep)
  PROVE  OnceInv'
<1> DEFINE n == f.to
           p == f.from
           z == f.seal
           id == z.body.id
           s == AfterOpening(session[n][p], z)
           W == [session EXCEPT ![n][p] = s]
           B == SealAll(s, <<Body("Delivered", id)>>)
<1>1. /\ ~Refuses(n, p) /\ Opens(session[n][p], z) /\ z.body.kind = "PrivateMessage"
      /\ shown' = [shown EXCEPT ![n][p] = Append(shown[n][p], id)]
      /\ opened' = [opened EXCEPT ![id] = opened[id] + 1]
      /\ session' = [session EXCEPT ![n][p] = AfterSealing(s, 1)]
      /\ sealed' = Consume(sealed, f, keep) \cup SealedFramesOf(n, p, B)
      /\ sealLog' = sealLog \cup B
      /\ UNCHANGED <<pending, legs, status, minted, drawn>>
  BY DEF OpenPrivateMessage
<1>2. /\ TypeOK /\ n \in Nodes /\ p \in Nodes /\ n # p /\ z \in sealLog
      /\ z.body \in Bodies /\ id \in Ids /\ session[n][p] \in SessionType /\ s \in SessionType
      /\ \A x, y \in sealLog : x.body = y.body /\ x.body.kind = "PrivateMessage" => x = y
  BY <1>1, OpenedFacts
<1>3. W[n][p] = s /\ Elsewhere(session, W, n, p)
  <2> HIDE DEF s, n, p
  <2> QED
    BY <1>2, CellWritten
<1>4. /\ session'[n][p] = AfterSealing(s, 1) /\ Elsewhere(session, session', n, p)
      /\ Elsewhere(W, session', n, p)
  <2> DEFINE after == AfterSealing(s, 1)
  <2>1. session' = [session EXCEPT ![n][p] = after]
    BY <1>1
  <2> HIDE DEF after, n, p, s, W
  <2>2. session'[n][p] = after /\ Elsewhere(session, session', n, p)
    BY <1>2, <2>1, CellWritten
  <2> QED
    BY <1>3, <2>2 DEF Elsewhere, after
<1>5. Keyed(session, legs, drawn, sealLog, opened)
      /\ KeyTypes(session, legs, drawn, sealLog, opened)
  BY <1>2, KeysTyped DEF OnceInv, KeyInv
<1>6. /\ opened \in [Ids -> Nat] /\ opened' \in [Ids -> Nat]
      /\ opened'[id] = opened[id] + 1
      /\ \A i \in Ids : opened'[i] = opened[i] \/ (z.body.kind = "PrivateMessage" /\ i = z.body.id)
  <2>1. opened \in [Ids -> Nat] /\ opened' = [opened EXCEPT ![id] = opened[id] + 1]
        /\ z.body.kind = "PrivateMessage" /\ id \in Ids
    BY <1>1, <1>2, Typings
  <2> HIDE DEF n, p, s, B, W
  <2> QED
    BY <2>1
<1>7. HasEstablishedSession(s)
  BY <1>1, <1>2 DEF Opens, HasEstablishedSession, AfterOpening, SessionType
<1>8. /\ B = {Sealed(s, 1, Body("Delivered", id))}
      /\ Batch(B, s, 1, opened')
      /\ \A x \in B : ~IsRecord(x) /\ x.body.id = id
  <2>1. B = {Sealed(s, 1, Body("Delivered", id))}
    BY DEF SealAll
  <2>2. s.nonce \in Nat /\ SendCipher(s) \in Nat \X {1, 2}
    BY <1>2 DEF SessionType, SendCipher
  <2>3. Sealed(s, 1, Body("Delivered", id)) \in Seals
    BY <1>2, <2>2 DEF Sealed, Seals, Body, Bodies
  <2> HIDE DEF B, s, id
  <2>4. \A x \in B : /\ x.cipher = SendCipher(s) /\ x.nonce = s.nonce + 1 - 1
                     /\ x.body.kind = "Delivered" /\ x.body.id = id
    BY <2>1 DEF Sealed, Body
  <2> QED
    BY <2>1, <2>2, <2>3, <2>4 DEF Batch, IsRecord
<1> HIDE DEF W, s, B
<1>9. Keyed(W, legs, drawn, sealLog, opened') /\ opened[id] = 0
  <2>1. W[n][p] = AfterOpening(session[n][p], z)
    BY <1>3 DEF s
  <2>2. Opens(session[n][p], z) /\ z.body.kind = "PrivateMessage"
    BY <1>1
  <2>3. Shows(z, opened, opened')
    BY <1>6 DEF Shows
  <2> HIDE DEF n, p, z
  <2>4. /\ n \in Nodes /\ p \in Nodes /\ z \in sealLog
        /\ \A x, y \in sealLog : x.body = y.body /\ x.body.kind = "PrivateMessage" => x = y
    BY <1>2
  <2>5. Elsewhere(session, W, n, p)
    BY <1>3
  <2> QED
    <3>1. Keyed(W, legs, drawn, sealLog, opened')
      BY <1>5, <2>1, <2>2, <2>3, <2>4, <2>5, KeyRead
    <3>2. z.body.kind = "PrivateMessage" => opened[z.body.id] = 0
      BY <1>5, <2>1, <2>2, <2>3, <2>4, <2>5, <3>1, KeyRead
    <3> QED
      BY <2>2, <3>1, <3>2
<1>10. KeyTypes(W, legs, drawn, sealLog, opened')
  BY <1>2, <1>3, <1>5, <1>6 DEF KeyTypes, Elsewhere
<1>11. KeyInv'
  <2>1. Keyed(session', legs, drawn, sealLog \cup B, opened')
    <3>1. /\ HasEstablishedSession(W[n][p]) /\ session'[n][p] = AfterSealing(W[n][p], 1)
          /\ Batch(B, W[n][p], 1, opened')
      BY <1>3, <1>4, <1>7, <1>8
    <3> HIDE DEF n, p, z
    <3> QED
      BY <1>2, <1>4, <1>9, <1>10, <3>1, KeySealed
  <2>2. NoSelfTalk(session', legs)
    BY <1>2, <1>4 DEF OnceInv, KeyInv, NoSelfTalk, Elsewhere
  <2>3. \A h \in sealed' : h.seal \in sealLog'
    BY <1>1 DEF OnceInv, KeyInv, SealedFramesOf, Consume
  <2> QED
    BY <1>1, <2>1, <2>2, <2>3 DEF KeyInv
<1>12. RecordInv'
  <2>1. Drained(pending, pending') /\ minted <= minted'
    BY <1>1, <1>2, Typings DEF Drained
  <2>2. FreshRecords(B, sealLog, pending', minted')
    BY <1>8 DEF FreshRecords, Batch
  <2>3. ShowsSealed(opened, opened', sealLog)
    <3>1. z.body = Body("PrivateMessage", id)
      BY <1>1, <1>2 DEF Bodies, Body
    <3> HIDE DEF z
    <3> QED
      BY <1>2, <1>6, <1>9, <3>1 DEF ShowsSealed
  <2>4. sealLog' = sealLog \cup B
    BY <1>1
  <2> QED
    BY <1>2, <2>1, <2>2, <2>3, <2>4, RecordStep DEF OnceInv
<1>13. TickInv'
  <2>1. /\ minted <= minted' /\ status' = status
        /\ \A i \in Ids : opened[i] <= opened'[i]
    <3>1. minted' = minted /\ minted \in Nat /\ status' = status
      BY <1>1, <1>2, Typings
    <3> HIDE DEF n, p, z
    <3>2. \A i \in Ids : opened[i] <= opened'[i]
      BY <1>6
    <3> QED
      BY <3>1, <3>2
  <2>2. opened'[id] > 0
    BY <1>6, <1>2
  <2>3. \A x \in sealLog' : x \in sealLog \/ IsRecord(x) \/ opened'[x.body.id] > 0
    BY <1>1, <1>8, <2>2
  <2>4. \A m, q \in Nodes : \A i \in DOMAIN shown'[m][q] :
           \/ i \in DOMAIN shown[m][q] /\ shown'[m][q][i] = shown[m][q][i]
           \/ opened'[shown'[m][q][i]] > 0
    <3> SUFFICES ASSUME NEW m \in Nodes, NEW q \in Nodes, NEW i \in DOMAIN shown'[m][q]
                 PROVE  \/ i \in DOMAIN shown[m][q] /\ shown'[m][q][i] = shown[m][q][i]
                        \/ opened'[shown'[m][q][i]] > 0
      OBVIOUS
    <3>1. shown \in [Nodes -> [Nodes -> Seq(Ids)]]
          /\ shown' = [shown EXCEPT ![n][p] = Append(shown[n][p], id)]
      BY <1>1, <1>2, Typings
    <3> HIDE DEF n, p, id
    <3>2. CASE m = n /\ q = p
      <4>1. shown'[m][q] = Append(shown[m][q], id) /\ shown[m][q] \in Seq(Ids)
        BY <1>2, <3>1, <3>2
      <4>2. /\ DOMAIN shown'[m][q] = 1 .. Len(shown[m][q]) + 1
            /\ \A j \in 1 .. Len(shown[m][q]) : shown'[m][q][j] = shown[m][q][j]
            /\ shown'[m][q][Len(shown[m][q]) + 1] = id
        BY <1>2, <4>1, AppendProperties
      <4>3. DOMAIN shown[m][q] = 1 .. Len(shown[m][q]) /\ Len(shown[m][q]) \in Nat
        BY <4>1
      <4>4. i \in DOMAIN shown[m][q] \/ i = Len(shown[m][q]) + 1
        BY <4>2, <4>3
      <4> QED
        BY <2>2, <4>2, <4>3, <4>4
    <3>3. CASE m # n \/ q # p
      BY <1>2, <3>1, <3>3
    <3> QED
      BY <3>2, <3>3
  <2> QED
    BY <1>2, <2>1, <2>3, <2>4, TickStep DEF OnceInv
<1> QED
  BY <1>11, <1>12, <1>13 DEF OnceInv

\* handle_noise_encrypted on a receipt: a tick rises for a record that was shown.
LEMMA ReceiptOnce ==
  ASSUME OnceInv, TypeOK', NEW f \in sealed, NEW keep \in BOOLEAN, OpenReceipt(f, keep)
  PROVE  OnceInv'
<1> DEFINE n == f.to
           p == f.from
           z == f.seal
           id == z.body.id
           s == AfterOpening(session[n][p], z)
<1>1. /\ ~Refuses(n, p) /\ Opens(session[n][p], z) /\ z.body.kind # "PrivateMessage"
      /\ session' = [session EXCEPT ![n][p] = s]
      /\ \E new \in {Read, Delivered} : status' = MarkDelivery(n, id, new)
      /\ sealed' = Consume(sealed, f, keep)
      /\ UNCHANGED <<pending, legs, shown, minted, drawn, sealLog, opened>>
  BY DEF OpenReceipt, ghosts
<1>2. /\ TypeOK /\ n \in Nodes /\ p \in Nodes /\ n # p /\ z \in sealLog
      /\ id \in Ids /\ session[n][p] \in SessionType
      /\ \A x, y \in sealLog : x.body = y.body /\ x.body.kind = "PrivateMessage" => x = y
  BY <1>1, OpenedFacts
<1>3. session'[n][p] = s /\ Elsewhere(session, session', n, p)
  <2>1. session' = [session EXCEPT ![n][p] = s]
    BY <1>1
  <2> HIDE DEF s, n, p
  <2> QED
    BY <1>2, <2>1, CellWritten
<1>4. Keyed(session, legs, drawn, sealLog, opened)
      /\ KeyTypes(session, legs, drawn, sealLog, opened)
  BY <1>2, KeysTyped DEF OnceInv, KeyInv
<1>5. KeyInv'
  <2>1. Shows(z, opened, opened)
    BY DEF Shows
  <2>2. Keyed(session', legs, drawn, sealLog, opened)
    <3>1. session'[n][p] = AfterOpening(session[n][p], z)
      BY <1>3
    <3> HIDE DEF n, p, z, s
    <3> QED
      BY <1>1, <1>2, <1>3, <1>4, <2>1, <3>1, KeyRead
  <2>3. NoSelfTalk(session', legs)
    BY <1>2, <1>3 DEF OnceInv, KeyInv, NoSelfTalk, Elsewhere
  <2>4. \A h \in sealed' : h.seal \in sealLog'
    BY <1>1 DEF OnceInv, KeyInv, Consume
  <2> QED
    BY <1>1, <2>2, <2>3, <2>4 DEF KeyInv
<1>6. RecordInv'
  BY <1>1 DEF OnceInv, RecordInv, PendingUnsealed, PendingOnce, SealedMinted, SealedOnce,
              ShownOnce, ShownSealed
<1>7. TickInv'
  <2>1. /\ minted <= minted' /\ \A i \in Ids : opened[i] <= opened'[i]
    BY <1>1, <1>2, Typings
  <2>2. opened[id] > 0
    BY <1>1, <1>2 DEF OnceInv, TickInv, ReceiptsEarned, IsRecord
  <2>3. \A m \in Nodes, i \in Ids :
           \/ status'[m][i] = status[m][i]
           \/ status[m][i] # NotShown /\ opened'[i] > 0
    <3>1. status \in [Nodes -> [Ids -> NotShown .. Read]] /\ opened' = opened
      BY <1>1, <1>2, Typings
    <3> HIDE DEF n, id
    <3> QED
      BY <1>1, <1>2, <2>2, <3>1 DEF MarkDelivery
  <2>4. shown' = shown /\ sealLog' = sealLog
    BY <1>1
  <2> QED
    BY <1>2, <2>1, <2>3, <2>4, TickStep DEF OnceInv
<1> QED
  BY <1>5, <1>6, <1>7 DEF OnceInv

\* The rank of a line among those without a receipt: counted from one, and each
\* line has its own.
LEMMA Ranks ==
  ASSUME NEW U, IsFiniteSet(U), U \subseteq Nat
  PROVE  LET Rank(i) == Cardinality({j \in U : j <= i})
         IN  /\ Cardinality(U) \in Nat
             /\ \A i \in U : Rank(i) \in 1 .. Cardinality(U)
             /\ \A i, j \in U : Rank(i) = Rank(j) => i = j
<1> DEFINE Below(i) == {j \in U : j <= i}
           Rank(i) == Cardinality(Below(i))
<1>1. Cardinality(U) \in Nat
  BY FS_CardinalityType
<1>2. \A i \in U : IsFiniteSet(Below(i)) /\ Rank(i) \in Nat /\ Rank(i) <= Cardinality(U)
  <2> SUFFICES ASSUME NEW i \in U
               PROVE  IsFiniteSet(Below(i)) /\ Rank(i) \in Nat /\ Rank(i) <= Cardinality(U)
    OBVIOUS
  <2>1. Below(i) \in SUBSET U
    OBVIOUS
  <2> QED
    BY <2>1, FS_Subset, FS_CardinalityType
<1>3. \A i \in U : Rank(i) # 0
  <2> SUFFICES ASSUME NEW i \in U PROVE Rank(i) # 0
    OBVIOUS
  <2>1. i \in Below(i)
    OBVIOUS
  <2> QED
    BY <1>2, <2>1, FS_EmptySet
<1>4. \A i, j \in U : i < j => Rank(i) < Rank(j)
  <2> SUFFICES ASSUME NEW i \in U, NEW j \in U, i < j PROVE Rank(i) < Rank(j)
    OBVIOUS
  <2>1. Below(i) \subseteq Below(j) /\ j \in Below(j) /\ j \notin Below(i)
    <3>1. i \in Nat /\ j \in Nat /\ ~(j <= i) /\ j <= j
      OBVIOUS
    <3>2. \A k \in U : k <= i => k <= j
      BY <3>1
    <3> QED
      BY <3>1, <3>2
  <2>2. Below(i) # Below(j)
    BY <2>1
  <2> HIDE DEF Below
  <2>3. Below(i) \in SUBSET Below(j) /\ IsFiniteSet(Below(j))
    BY <1>2, <2>1
  <2>4. Rank(i) <= Rank(j) /\ (Rank(j) = Rank(i) => Below(j) = Below(i))
    <3>1. /\ Cardinality(Below(i)) <= Cardinality(Below(j))
          /\ Cardinality(Below(j)) = Cardinality(Below(i)) => Below(j) = Below(i)
      BY <2>3, FS_Subset
    <3> QED
      BY <3>1
  <2>5. Rank(i) \in Nat /\ Rank(j) \in Nat
    BY <1>2
  <2> HIDE DEF Rank
  <2> QED
    BY <2>2, <2>4, <2>5
<1> HIDE DEF Rank, Below
<1>5. \A i \in U : Rank(i) \in 1 .. Cardinality(U)
  BY <1>1, <1>2, <1>3
<1>6. \A i, j \in U : Rank(i) = Rank(j) => i = j
  <2> SUFFICES ASSUME NEW i \in U, NEW j \in U, Rank(i) = Rank(j) PROVE i = j
    OBVIOUS
  <2>1. i \in Nat /\ j \in Nat /\ Rank(i) \in Nat
    BY <1>2
  <2>2. ~(i < j) /\ ~(j < i)
    BY <1>4, <2>1
  <2> QED
    BY <2>1, <2>2
<1> QED
  BY <1>1, <1>5, <1>6 DEF Rank, Below

\* The draw loop: read receipts for lines that stand in the conversation.
LEMMA ViewOnce ==
  ASSUME OnceInv, TypeOK', NEW n \in Nodes, NEW p \in Nodes, ViewConversation(n, p)
  PROVE  OnceInv'
<1> DEFINE U == Unreceipted(n, p)
           B == ReadReceipts(n, p)
           s == session[n][p]
           Rank(i) == Cardinality({j \in U : j <= i})
<1>1. /\ TypeOK /\ shown[n][p] \in Seq(Ids) /\ s \in SessionType /\ minted \in Nat
      /\ UNCHANGED <<pending, legs, shown, status, minted, drawn, opened>>
  BY Typings DEF OnceInv, ViewConversation
<1>2. Drained(pending, pending') /\ Drained(shown, shown') /\ minted <= minted'
  BY <1>1 DEF Drained
<1>3. CASE UNCHANGED <<session, sealed, sealLog>>
  <2>1. \A m, q \in Nodes : session'[m][q].state = "Absent" \/ Alike(session'[m][q], session[m][q])
    BY <1>3 DEF Alike
  <2> QED
    BY <1>1, <1>2, <1>3, <2>1, QuietStep
<1>4. ASSUME HasEstablishedSession(s),
             session' = [session EXCEPT ![n][p] = AfterSealing(s, Cardinality(U))],
             sealed' = sealed \cup SealedFramesOf(n, p, B),
             sealLog' = sealLog \cup B
      PROVE  OnceInv'
  <2>1. /\ IsFiniteSet(U) /\ U \subseteq Nat /\ U \subseteq DOMAIN shown[n][p]
        /\ \A i \in U : shown[n][p][i] \in Ids
    <3>1. U \subseteq 1 .. Len(shown[n][p]) /\ \A i \in U : shown[n][p][i] \in Ids
      BY <1>1 DEF Unreceipted
    <3>2. DOMAIN shown[n][p] = 1 .. Len(shown[n][p]) /\ Len(shown[n][p]) \in Nat
      BY <1>1
    <3> HIDE DEF U
    <3>3. IsFiniteSet(1 .. Len(shown[n][p])) /\ U \in SUBSET (1 .. Len(shown[n][p]))
      BY <3>1, <3>2, FS_Interval
    <3>4. IsFiniteSet(U)
      BY <3>3, FS_Subset
    <3> QED
      BY <3>1, <3>2, <3>4
  <2>2. /\ Cardinality(U) \in Nat
        /\ \A i \in U : Rank(i) \in 1 .. Cardinality(U)
        /\ \A i, j \in U : Rank(i) = Rank(j) => i = j
    BY <2>1, Ranks
  <2>3. \A x \in B : \E i \in U : x = Sealed(s, Rank(i), Body("ReadReceipt", shown[n][p][i]))
    BY DEF ReadReceipts
  <2>4. s.nonce \in Nat /\ SendCipher(s) \in Nat \X {1, 2} /\ n # p
    <3>1. s.nonce \in Nat /\ SendCipher(s) \in Nat \X {1, 2}
      BY <1>1 DEF SessionType, SendCipher
    <3>2. n # p
      BY <1>4 DEF OnceInv, KeyInv, NoSelfTalk, HasEstablishedSession
    <3> QED
      BY <3>1, <3>2
  <2> HIDE DEF U, B, Rank
  <2>5. \A x \in B : \E i \in U :
          /\ x.cipher = SendCipher(s) /\ x.nonce = s.nonce + Rank(i) - 1
          /\ x.body.kind = "ReadReceipt" /\ x.body.id = shown[n][p][i]
          /\ x = Sealed(s, Rank(i), Body("ReadReceipt", shown[n][p][i]))
    BY <2>3 DEF Sealed, Body
  <2>6. B \subseteq Seals
    <3>1. \A i \in U : Body("ReadReceipt", shown[n][p][i]) \in Bodies /\ s.nonce + Rank(i) - 1 \in Nat
      BY <2>1, <2>2, <2>4 DEF Body, Bodies
    <3> QED
      BY <2>3, <2>4, <3>1 DEF Sealed, Seals
  <2>7. \A x, y \in B : x.nonce = y.nonce => x = y
    <3> SUFFICES ASSUME NEW x \in B, NEW y \in B, x.nonce = y.nonce PROVE x = y
      OBVIOUS
    <3>1. PICK i \in U : /\ x.nonce = s.nonce + Rank(i) - 1
                         /\ x = Sealed(s, Rank(i), Body("ReadReceipt", shown[n][p][i]))
      BY <2>5
    <3>2. PICK j \in U : /\ y.nonce = s.nonce + Rank(j) - 1
                         /\ y = Sealed(s, Rank(j), Body("ReadReceipt", shown[n][p][j]))
      BY <2>5
    <3>3. s.nonce + Rank(i) - 1 = s.nonce + Rank(j) - 1
      BY <3>1, <3>2
    <3>4. Rank(i) \in Nat /\ Rank(j) \in Nat
      BY <2>2
    <3>5. Rank(i) = Rank(j)
      <4>1. s.nonce \in Nat
        BY <2>4
      <4> HIDE DEF s
      <4> QED
        BY <3>3, <3>4, <4>1, SameOffset
    <3>6. i = j
      BY <2>2, <3>5
    <3> QED
      BY <3>1, <3>2, <3>6
  <2>8. Batch(B, s, Cardinality(U), opened) /\ \A x \in B : ~IsRecord(x)
    <3>1. \A x \in B : /\ x.cipher = SendCipher(s) /\ x.body.kind = "ReadReceipt"
                       /\ s.nonce <= x.nonce /\ x.nonce < s.nonce + Cardinality(U)
      BY <2>2, <2>4, <2>5
    <3> QED
      BY <2>6, <2>7, <3>1 DEF Batch, IsRecord
  <2>9. \A x \in B : opened[x.body.id] > 0
    <3>1. \A i \in U : opened[shown[n][p][i]] > 0
      BY <2>1 DEF OnceInv, TickInv, LinesOpened
    <3> QED
      BY <2>5, <3>1
  <2>10. session'[n][p] = AfterSealing(s, Cardinality(U)) /\ Elsewhere(session, session', n, p)
    <3> DEFINE after == AfterSealing(s, Cardinality(U))
    <3>1. session' = [session EXCEPT ![n][p] = after]
      BY <1>4
    <3> HIDE DEF after
    <3>2. session'[n][p] = after /\ Elsewhere(session, session', n, p)
      BY <1>1, <3>1, CellWritten
    <3> QED
      BY <3>2 DEF after
  <2>11. KeyInv'
    <3>1. Keyed(session, legs, drawn, sealLog, opened)
          /\ KeyTypes(session, legs, drawn, sealLog, opened)
      BY <1>1, KeysTyped DEF OnceInv, KeyInv
    <3>2. Keyed(session', legs, drawn, sealLog \cup B, opened)
      BY <1>4, <2>2, <2>8, <2>10, <3>1, KeySealed
    <3>3. NoSelfTalk(session', legs)
      BY <2>4, <2>10 DEF OnceInv, KeyInv, NoSelfTalk, Elsewhere
    <3>4. \A h \in sealed' : h.seal \in sealLog'
      BY <1>4 DEF OnceInv, KeyInv, SealedFramesOf
    <3> QED
      BY <1>1, <1>4, <3>2, <3>3, <3>4 DEF KeyInv
  <2>12. RecordInv'
    <3>1. FreshRecords(B, sealLog, pending', minted') /\ ShowsSealed(opened, opened', sealLog)
      BY <1>1, <2>6, <2>8 DEF FreshRecords, ShowsSealed
    <3> QED
      BY <1>1, <1>2, <1>4, <3>1, RecordStep DEF OnceInv
  <2>13. TickInv'
    BY <1>1, <1>4, <2>9 DEF OnceInv, TickInv, ReceiptsEarned, LinesOpened, EchoesMinted,
                            TickMeansShown
  <2> QED
    BY <2>11, <2>12, <2>13 DEF OnceInv
<1> QED
  BY <1>3, <1>4 DEF ViewConversation

\* handle_noise_encrypted on any frame, and a frame the mesh loses.
LEMMA SealedOnceKept ==
  ASSUME OnceInv, TypeOK', NEW f \in sealed, NEW keep \in BOOLEAN, ReceiveSealed(f, keep)
  PROVE  OnceInv'
<1>1. CASE DropSealed(f, keep)
  <2>1. /\ UNCHANGED <<drawn, sealLog, opened, session, legs, pending, shown, status, minted>>
        /\ sealed' \subseteq sealed
    BY <1>1 DEF DropSealed, Consume, ui, ghosts
  <2>2. Drained(pending, pending') /\ Drained(shown, shown') /\ minted <= minted'
    BY <2>1, Typings DEF Drained, OnceInv
  <2>3. \A m, q \in Nodes : session'[m][q].state = "Absent" \/ Alike(session'[m][q], session[m][q])
    BY <2>1 DEF Alike
  <2> QED
    BY <2>1, <2>2, <2>3, QuietStep
<1> QED
  BY <1>1, PrivateMessageOnce, ReceiptOnce DEF ReceiveSealed

\* Every step keeps OnceInv.
LEMMA NextOnce == OnceInv /\ [Next]_vars => OnceInv'
<1> SUFFICES ASSUME OnceInv, [Next]_vars PROVE OnceInv'
  OBVIOUS
<1>1. TypeOK'
  BY NextTyped DEF OnceInv
<1>2. CASE UNCHANGED vars \/ Lose
  <2>1. /\ UNCHANGED <<drawn, sealLog, opened, session, pending, shown, status, minted>>
        /\ legs' \subseteq legs /\ sealed' \subseteq sealed
    BY <1>2 DEF Lose, vars, ui, ghosts
  <2>2. Drained(pending, pending') /\ Drained(shown, shown') /\ minted <= minted'
    BY <2>1, Typings DEF Drained, OnceInv
  <2>3. \A m, q \in Nodes : session'[m][q].state = "Absent" \/ Alike(session'[m][q], session[m][q])
    BY <2>1 DEF Alike
  <2> QED
    BY <1>1, <2>1, <2>2, <2>3, QuietStep
<1>3. CASE Arrive \/ ArriveTwice
  BY <1>1, <1>3, LegOnce, SealedOnceKept DEF Arrive, ArriveTwice
<1>4. ASSUME NEW n \in Nodes, NEW p \in Nodes,
             \/ HearAnnounce(n, p) \/ LosePeer(n, p) \/ ViewConversation(n, p)
             \/ Block(n, p) \/ Unblock(n, p)
      PROVE  OnceInv'
  <2>1. 1 \in 1 .. MaxChunks
    BY BoundsAssumption
  <2> QED
    BY <1>1, <1>4, <2>1, TablesOnce, ViewOnce
<1>5. ASSUME NEW n \in Nodes, NEW p \in Nodes, NEW k \in 1 .. MaxChunks,
             SendOnChannel(n, p, k) \/ SendAndOpen(n, p, k) \/ SendRefused(n, p, k)
      PROVE  OnceInv'
  BY <1>1, <1>5, SendOnChannelOnce, SendAndOpenOnce, TablesOnce
<1>6. ASSUME NEW n \in Nodes, Restart(n) \/ Wipe(n)
      PROVE  OnceInv'
  BY <1>1, <1>6, ForgettingOnce
<1> QED
  BY <1>2, <1>3, <1>4, <1>5, <1>6 DEF Next

\* OnceInv holds in every reachable state.
LEMMA OnceKept == Spec => []OnceInv
<1>1. Init => OnceInv
  <2> SUFFICES ASSUME Init PROVE OnceInv
    OBVIOUS
  <2>1. /\ TypeOK /\ drawn = 0 /\ minted = 0 /\ sealLog = {} /\ legs = {} /\ sealed = {}
        /\ \A n, p \in Nodes : /\ session[n][p].state = "Absent"
                               /\ pending[n][p] = <<>> /\ shown[n][p] = <<>>
        /\ \A n \in Nodes, i \in Ids : status[n][i] = NotShown
        /\ \A i \in Ids : opened[i] = 0
    BY InitTyped DEF Init, NoSession
  <2>2. \A n, p \in Nodes : ~Opening(session[n][p]) /\ ~HasEstablishedSession(session[n][p])
    BY <2>1 DEF Opening, HasEstablishedSession
  <2>3. Keyed(session, legs, drawn, sealLog, opened)
    BY <2>1, <2>2 DEF Keyed, KeyBounds, OneOwner, OneAnswer, KeysUnused, OneEnd, NonceAhead,
                      SeenSent, OpenedGone, NonceOnce, CouldKey
  <2>4. KeyInv
    BY <2>1, <2>3 DEF KeyInv, NoSelfTalk
  <2>5. \A n, p \in Nodes : DOMAIN pending[n][p] = {} /\ DOMAIN shown[n][p] = {}
    BY <2>1
  <2>6. RecordInv
    BY <2>1, <2>5 DEF RecordInv, PendingUnsealed, PendingOnce, SealedMinted, SealedOnce,
                      ShownOnce, ShownSealed
  <2>7. TickInv
    BY <2>1, <2>5 DEF TickInv, ReceiptsEarned, LinesOpened, EchoesMinted, TickMeansShown,
                      NotShown, Delivered
  <2> QED
    BY <2>1, <2>4, <2>6, <2>7 DEF OnceInv
<1>2. OnceInv /\ [Next]_vars => OnceInv'
  BY NextOnce
<1> QED
  BY <1>1, <1>2, PTL DEF Spec

\* Each once, for any set of nodes and every bound: however sends, queues drained,
\* receipts and handshakes interleave, whatever the mesh repeats, loses or reorders
\* and however often clients restart, no cipher seals two bodies under one nonce, no
\* record is sealed twice and none is shown twice (encrypt, drain_pending, decrypt
\* with its replay window).
THEOREM ShownAndSealedOnce == Spec => []EachOnce
<1>1. OnceInv => EachOnce
  BY DEF OnceInv, KeyInv, RecordInv, Keyed, NonceOnce, EachOnce, NoNonceReuse
<1> QED
  BY <1>1, OnceKept, PTL

\* A tick on one's own line means the peer's client showed the record: receipts are
\* sealed only for what was opened, and open only on the channel they were sealed for
\* (handle_noise_encrypted, receipt_frame, mark_delivery).
THEOREM TicksTruthful == Spec => []TickMeansShown
<1>1. OnceInv => TickMeansShown
  BY DEF OnceInv, TickInv
<1> QED
  BY <1>1, OnceKept, PTL

\* Sessions that agree on a key are the two ends of one channel: opposite roles, and
\* the replay window of one holds only nonces the other's cipher has already used
\* (get_transport_ciphers, encrypt, mark_nonce_as_seen).
THEOREM EndsMatch == Spec => []EndsAgree
<1>1. OnceInv => EndsAgree
  <2> SUFFICES ASSUME OnceInv, NEW n \in Nodes, NEW p \in Nodes,
                      HasEstablishedSession(session[n][p]), HasEstablishedSession(session[p][n]),
                      session[n][p].key = session[p][n].key
               PROVE  /\ session[n][p].role # session[p][n].role
                      /\ \A i \in session[n][p].rx.seen : i < session[p][n].nonce
    BY DEF EndsAgree
  <2> DEFINE s == session[n][p]
             t == session[p][n]
  <2>1. Keyed(session, legs, drawn, sealLog, opened) /\ NoSelfTalk(session, legs)
    BY DEF OnceInv, KeyInv
  <2>2. n # p
    BY <2>1 DEF NoSelfTalk, HasEstablishedSession
  <2>3. s.role # t.role
    BY <2>1, <2>2 DEF Keyed, OneEnd
  <2>4. s.role \in Ends /\ t.role \in Ends
    BY <2>1 DEF Keyed, KeyBounds
  <2>5. ReceiveCipher(s) = SendCipher(t)
    BY <2>3, <2>4 DEF ReceiveCipher, SendCipher, Ends
  <2>6. ASSUME NEW i \in s.rx.seen PROVE i < t.nonce
    <3>1. PICK x \in sealLog : x.cipher = ReceiveCipher(s) /\ x.nonce = i
      BY <2>1 DEF Keyed, SeenSent
    <3> QED
      BY <2>1, <2>5, <3>1 DEF Keyed, NonceAhead
  <2> QED
    BY <2>3, <2>6
<1> QED
  BY <1>1, OnceKept, PTL

\* A delivery status never goes back while its line is on screen: a new line takes
\* an identifier no line had, and a late Delivered does not undo a Read (mark_delivery).
THEOREM TicksRise == Spec => StatusOnlyRises
<1> DEFINE Rises == \A n \in Nodes, id \in Ids :
                      status'[n][id] >= status[n][id] \/ status'[n][id] = NotShown
<1>1. OnceInv /\ [Next]_vars => [Rises]_vars
  <2> SUFFICES ASSUME OnceInv, Next PROVE Rises
    OBVIOUS
  <2>1. /\ status \in [Nodes -> [Ids -> NotShown .. Read]] /\ minted \in Nat
        /\ \A n \in Nodes, id \in Ids : status[n][id] \in Nat
        /\ \A n \in Nodes, id \in Ids : status[n][id] # NotShown => id <= minted
    <3>1. status \in [Nodes -> [Ids -> NotShown .. Read]] /\ minted \in Nat
      BY Typings DEF OnceInv
    <3> QED
      BY <3>1 DEF OnceInv, TickInv, EchoesMinted, NotShown, Read
  <2>2. CASE status' = status
    BY <2>1, <2>2
  <2>3. ASSUME NEW n \in Nodes, status' = [status EXCEPT ![n][minted + 1] = Echoed]
        PROVE  Rises
    <3>1. minted + 1 \in Ids => status[n][minted + 1] = NotShown
      BY <2>1
    <3>2. Echoed >= NotShown
      BY DEF Echoed, NotShown
    <3> QED
      BY <2>1, <2>3, <3>1, <3>2
  <2>4. ASSUME NEW n \in Nodes, Forget(n) PROVE Rises
    BY <2>1, <2>4 DEF Forget
  <2>5. ASSUME NEW f \in sealed, NEW keep \in BOOLEAN, OpenReceipt(f, keep) PROVE Rises
    <3>1. PICK new \in {Read, Delivered} : status' = MarkDelivery(f.to, f.seal.body.id, new)
      BY <2>5 DEF OpenReceipt
    <3>2. new \in Nat
      BY DEF Read, Delivered
    <3> QED
      BY <2>1, <3>1, <3>2 DEF MarkDelivery
  <2>6. CASE Arrive \/ ArriveTwice
    BY <2>2, <2>5, <2>6 DEF Arrive, ArriveTwice, ReceiveLeg, ReceiveSealed, DropLeg,
         FailHandshake, AnswerOpening, CompleteHandshake, DropSealed, OpenPrivateMessage, ui
  <2>7. CASE Lose
    BY <2>2, <2>7 DEF Lose, ui
  <2>8. ASSUME NEW n \in Nodes, NEW p \in Nodes,
               \/ HearAnnounce(n, p) \/ LosePeer(n, p) \/ ViewConversation(n, p)
               \/ Block(n, p) \/ Unblock(n, p)
        PROVE  Rises
    BY <2>2, <2>8 DEF HearAnnounce, LosePeer, ViewConversation, Block, Unblock, ui
  <2>9. ASSUME NEW n \in Nodes, NEW p \in Nodes, NEW k \in 1 .. MaxChunks,
               SendOnChannel(n, p, k) \/ SendAndOpen(n, p, k) \/ SendRefused(n, p, k)
        PROVE  Rises
    BY <2>2, <2>3, <2>9 DEF SendOnChannel, SendAndOpen, SendRefused, ui
  <2>10. ASSUME NEW n \in Nodes, Restart(n) \/ Wipe(n) PROVE Rises
    BY <2>4, <2>10 DEF Restart, Wipe
  <2> QED
    BY <2>6, <2>7, <2>8, <2>9, <2>10 DEF Next
<1> QED
  BY <1>1, OnceKept, PTL DEF Spec, StatusOnlyRises
=============================================================================
