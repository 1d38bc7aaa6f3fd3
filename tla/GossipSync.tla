----------------------------- MODULE GossipSync -----------------------------
(***************************************************************************)
(* Answering a peer that asks what it missed: handle_request_sync of         *)
(* mesh.rs, sync/responder.rs, sync/rate_limit.rs, over the archive and the  *)
(* filter.  The peer that asks (external: this client only answers) says in  *)
(* each round what it holds; one tick is the time between two rounds.        *)
(*                                                                           *)
(* What a peer holds it says in a Golomb-coded set (sync/gcs.rs): ids are    *)
(* hashed into buckets, the sorted buckets are written as differences, a     *)
(* difference as a unary quotient and a remainder of p bits, and the last    *)
(* byte is filled with zeros.  A hash is a number (the first eight bytes of  *)
(* a digest); a bit string is a sequence of zeros and ones.                  *)
(***************************************************************************)
EXTENDS Archive, SequencesExt, FiniteSetsExt

CONSTANTS
  Hash,          \* per packet number: the first bytes of the digest of its id
  Param, Budget, \* the requester's p and its byte budget
  Depth,         \* LINK_INBOX_DEPTH
  MaxResponses,  \* MAX_RESPONSES
  Window,        \* WINDOW_MS
  MaxFiled,      \* bound: packets filed
  MaxTime        \* bound: ticks

\* What the values of the constants have to be.
SyncAssumption ==
  {Param, Budget, Depth, MaxResponses, Window, MaxFiled, MaxTime} \subseteq Nat

VARIABLES
  archive,
  filed,     \* packets filed so far
  has,       \* the packets the requester holds
  history,   \* ResponseRateLimiter.history of the requester
  answers,   \* ghost: when it was answered
  rounds,    \* ghost: whole answers to full requests since the archive last changed
  skipped,   \* ghost: what the last answer took for held and was not
  now

vars == <<archive, filed, has, history, answers, rounds, skipped, now>>

-----------------------------------------------------------------------------
(* The filter: sync/gcs.rs *)

ByteBits == 8
MaxP == 32

Larger(a, b) == IF a > b THEN a ELSE b
Smaller(a, b) == IF a < b THEN a ELSE b

\* An estimate that forgets the zero that ends a quotient.
EstimateTight(bytes, p) ==
  Larger(Larger(bytes * ByteBits, ByteBits) \div Larger(p + 1, 3), 1)

\* Elements that fit a byte budget, at p + 2 bits each.
EstimateMaxElements(bytes, p) ==
  Larger(Larger(bytes * ByteBits, ByteBits) \div Larger(p + 2, 3), 1)

\* The modulus: proportional to the number of elements, up to the largest integer.
HashRange(count, p) ==
  IF count = 0 THEN 1 ELSE Smaller(count * (2 ^ p), 2147483647)

\* Into 1 .. modulo - 1: zero goes to one, so that no difference is zero.
MapHash(hash, modulo) ==
  IF modulo <= 1 THEN 0 ELSE Larger(hash % modulo, 1)

Bucket(hash, m) == MapHash(hash, Larger(m, 1))

\* Strictly increasing, within range.
NormalizeMappedValues(values, modulo) ==
  IF modulo <= 1 THEN <<>>
  ELSE SetToSortSeq({Smaller(v, modulo - 1) : v \in values} \ {0}, <)

\* A writer that starts at the other end.
BitsReversed(value, count) == [i \in 1 .. count |-> (value \div (2 ^ (i - 1))) % 2]

\* The bits of value, most significant first.
BitsOf(value, count) == [i \in 1 .. count |-> (value \div (2 ^ (count - i))) % 2]
Ones(count) == [i \in 1 .. count |-> 1]

\* finish: the partial byte is filled with zeros.
Padded(bits) ==
  bits \o [i \in 1 .. (ByteBits - (Len(bits) % ByteBits)) % ByteBits |-> 0]

EncodeSorted(sorted, p) ==
  LET Delta(i) == sorted[i] - (IF i = 1 THEN 0 ELSE sorted[i - 1])
      Code(i) == Ones((Delta(i) - 1) \div (2 ^ p)) \o <<0>> \o BitsOf((Delta(i) - 1) % (2 ^ p), p)
  IN Padded(FlattenSeq([i \in DOMAIN sorted |-> Code(i)]))

\* The reader: counting ones of a quotient, or in the middle of a remainder.
ReadBit(state, bit, p, m) ==
  CASE state.done -> state
    [] ~state.done /\ state.left = 0 /\ bit = 1 -> [state EXCEPT !.q = @ + 1]
    [] ~state.done /\ state.left = 0 /\ bit = 0 -> [state EXCEPT !.left = p]
    [] OTHER ->
         LET r == 2 * state.r + bit
             acc == state.acc + state.q * (2 ^ p) + r + 1
         IN IF state.left > 1
            THEN [state EXCEPT !.r = r, !.left = @ - 1]
            ELSE [q |-> 0, r |-> 0, left |-> 0, acc |-> acc, done |-> acc >= m,
                  values |-> IF acc >= m THEN state.values ELSE state.values \cup {acc}]

ReadBits(bits, p, m) ==
  FoldLeft(LAMBDA state, bit : ReadBit(state, bit, p, m),
           [q |-> 0, r |-> 0, left |-> 0, acc |-> 0, done |-> FALSE, values |-> {}], bits)

\* A reader that makes a value of a quotient whose remainder was cut off.
DecodeCutOff(p, m, bits) ==
  IF p \notin 1 .. MaxP \/ m <= 1 THEN {}
  ELSE LET end == ReadBits(bits, p, m)
       IN end.values \cup (IF end.left > 0 THEN {end.acc + end.q * (2 ^ p) + end.r + 1} ELSE {})

\* What cannot be read decodes to nothing, and reads as a peer that holds nothing.
DecodeToSortedSet(p, m, bits) ==
  IF p \notin 1 .. MaxP \/ m <= 1 THEN {} ELSE ReadBits(bits, p, m).values

Bytes(bits) == Len(bits) \div ByteBits

\* A filter over the hashes of the ids, newest first, and how many of them it covers.
BuildFilter(hashes, maxBytes, p) ==
  LET first == Smaller(Len(hashes), EstimateMaxElements(maxBytes, p))
      m == HashRange(first, p)
      Encoded(count) ==
        EncodeSorted(NormalizeMappedValues({MapHash(hashes[i], m) : i \in 1 .. count}, m), p)
      \* The tail is trimmed by a tenth until the rest fits.
      fit[count \in 0 .. first] ==
        IF count <= 1 \/ Bytes(Encoded(count)) <= maxBytes THEN count
        ELSE fit[Larger((count * 9) \div 10, 1)]
      bits == Encoded(fit[first])
  IN IF hashes = <<>>
     THEN [p |-> p, m |-> 1, data |-> <<>>, included |-> 0]
     ELSE IF Bytes(bits) > maxBytes \/ bits = <<>>
          THEN [p |-> p, m |-> m, data |-> <<>>, included |-> 0]
          ELSE [p |-> p, m |-> m, data |-> bits, included |-> fit[first]]
-----------------------------------------------------------------------------
(* The archive and its rounds *)

MaxReplies == Depth \div 2      \* MAX_REPLIES_PER_ROUND
PublicMessages == {"announce", "message"}
Everything == PublicMessages \cup {"fragment", "file"}

Init ==
  /\ archive = Empty /\ filed = 0 /\ has = {} /\ history = <<>> /\ answers = <<>>
  /\ rounds = 0 /\ skipped = {} /\ now = 0

Packet(kind) ==
  [kind |-> kind, from |-> 0, at |-> now, id |-> filed + 1, stream |-> (filed + 1) % 2]

\* A packet passes a handler's checks and is filed, wherever the requester is.
ArchivePacket(kind, heard) ==
  /\ filed < MaxFiled /\ filed' = filed + 1
  /\ archive' = Record(archive, Packet(kind), now)
  /\ has' = IF heard THEN has \cup {Packet(kind)} ELSE has
  /\ rounds' = 0
  /\ UNCHANGED <<history, answers, skipped, now>>

\* A copy of a fragment or a file is filed again: nothing sorts copies of these out.
ArchiveCopy(pkt) ==
  /\ pkt.kind \in {"fragment", "file"}
  /\ archive' = Record(archive, pkt, now)
  /\ UNCHANGED <<filed, has, history, answers, rounds, skipped, now>>
-----------------------------------------------------------------------------
(* The request *)

Newest(packets) == SetToSortSeq(packets, LAMBDA a, b : a.id > b.id)

\* A filter over what the requester holds; where it does not cover everything, a
\* cursor at the oldest packet that it covers.
Request(types, streams) ==
  LET order == Newest(has)
      filter == BuildFilter([i \in DOMAIN order |-> Hash[order[i].id]], Budget, Param)
  IN [filter |-> filter, types |-> types, streams |-> streams,
      since |-> IF filter.included \in 1 .. Len(order) - 1 THEN order[filter.included].at ELSE 0]
-----------------------------------------------------------------------------
(* The answer *)

Missing(pkt, request, known) == Bucket(Hash[pkt.id], request.filter.m) \notin known

\* The cursor: of packets older than it the filter says nothing.
BeforeCursor(pkt, request) == pkt.at < request.since

\* A fragment filter names streams, and looks past the cursor for them.
Wanted(pkt, request) ==
  CASE pkt.kind = "announce" -> TRUE
    [] pkt.kind = "fragment" /\ request.streams # {} -> pkt.stream \in request.streams
    [] OTHER -> ~BeforeCursor(pkt, request)

Candidates(request) ==
  LET Of(kind) == IF kind \in request.types
                  THEN SelectSeq(Fresh(archive, kind, now), LAMBDA pkt : Wanted(pkt, request))
                  ELSE <<>>
  IN (IF "announce" \in request.types THEN SetToSeq(FreshAnnounces(archive, now)) ELSE <<>>)
       \o Of("message") \o Of("fragment") \o Of("file")

Cut(seq) == SubSeq(seq, 1, Smaller(Len(seq), MaxReplies))

\* The cut falls before the filter is applied.
RespondCutFirst(request) ==
  LET known == DecodeToSortedSet(request.filter.p, request.filter.m, request.filter.data)
  IN SelectSeq(Cut(Candidates(request)), LAMBDA pkt : Missing(pkt, request, known))

\* What the filter does not cover, announces first, up to half of a link's queue.
Respond(request) ==
  LET known == DecodeToSortedSet(request.filter.p, request.filter.m, request.filter.data)
  IN Cut(SelectSeq(Candidates(request), LAMBDA pkt : Missing(pkt, request, known)))

Recent == SelectSeq(history, LAMBDA at : at >= Larger(now - Window, 0))

\* should_respond: asking spends the budget.
ShouldRespond == Len(Recent) < MaxResponses

\* A request is answered on the link it came by; the router drops what does not fit.
Answer(types, streams, room) ==
  LET request == Request(types, streams)
      replies == Respond(request)
      sent == {replies[i] : i \in 1 .. Smaller(Len(replies), room)}
      known == DecodeToSortedSet(request.filter.p, request.filter.m, request.filter.data)
  IN /\ ShouldRespond
     /\ history' = Append(Recent, now)
     /\ answers' = Append(answers, now)
     /\ has' = has \cup sent
     /\ skipped' = {pkt \in ToSet(Candidates(request)) \ has : ~Missing(pkt, request, known)}
     /\ rounds' = IF types = Everything /\ streams = {} /\ room >= Len(replies) THEN rounds + 1 ELSE rounds
     /\ UNCHANGED <<archive, filed, now>>

\* Charged before it is read.
MalformedCharged ==
  /\ history' = IF ShouldRespond THEN Append(Recent, now) ELSE Recent
  /\ UNCHANGED <<archive, filed, has, answers, rounds, skipped, now>>

\* A request that has travelled, or cannot be read, is dropped before it is charged.
Malformed == UNCHANGED vars

\* A refused request leaves the pruned history behind.
Refuse ==
  /\ ~ShouldRespond
  /\ history' = Recent
  /\ UNCHANGED <<archive, filed, has, answers, rounds, skipped, now>>

\* A sweep that starts the window anew.
SweepAll ==
  /\ archive' = DropStale(archive, now)
  /\ history' = <<>>
  /\ rounds' = IF archive' = archive THEN rounds ELSE 0
  /\ UNCHANGED <<filed, has, answers, skipped, now>>

\* sweep_sync_state, once a second.
Sweep ==
  /\ archive' = DropStale(archive, now)
  /\ history' = Recent
  /\ rounds' = IF archive' = archive THEN rounds ELSE 0
  /\ UNCHANGED <<filed, has, answers, skipped, now>>

Tick == now < MaxTime /\ now' = now + 1 /\ UNCHANGED <<archive, filed, has, history, answers, rounds, skipped>>

Next ==
  \/ \E kind \in Everything, heard \in BOOLEAN : ArchivePacket(kind, heard)
  \/ \E types \in {PublicMessages, Everything}, streams \in {{}, {1}}, room \in 0 .. MaxReplies :
       Answer(types, streams, room)
  \/ \E pkt \in Held(archive) : ArchiveCopy(pkt)
  \/ Malformed \/ Refuse \/ Sweep \/ Tick

Spec == Init /\ [][Next]_vars
-----------------------------------------------------------------------------
Offered == FreshAnnounces(archive, now) \cup UNION {ToSet(Fresh(archive, k, now)) : k \in Kinds}

\* The cap on a round costs rounds, not packets: after as many whole answers as the
\* archive needs, the requester has everything that is fresh.
RoundsConverge ==
  rounds * MaxReplies >= Cardinality(Held(archive)) + Cardinality(DOMAIN archive.announces) => Offered \subseteq has

\* No window of the limiter's length holds more than MaxResponses answers to one
\* peer, whatever sweeps happen in between.
AnswersBounded ==
  \A i \in DOMAIN answers :
    i + MaxResponses \in DOMAIN answers => answers[i + MaxResponses] - answers[i] > Window

\* Only answers are charged: what was dropped unread costs a peer nothing.
ChargedWhenAnswered ==
  \A at \in ToSet(history) : Len(SelectSeq(history, LAMBDA a : a = at)) <= Len(SelectSeq(answers, LAMBDA a : a = at))

\* A copy of an old packet does not get ahead of newer ones: every store is in the
\* order in which its packets were first filed, which is the order of eviction.
StoresInOrder ==
  \A k \in Kinds : \A i, j \in DOMAIN archive.store[k] : i < j => archive.store[k][i].id < archive.store[k][j].id

\* What an answer skipped by a collision is not skipped again by the next.
NextRoundRepairs == [][answers' # answers => skipped \cap skipped' \cap Offered = {}]_vars
=============================================================================
