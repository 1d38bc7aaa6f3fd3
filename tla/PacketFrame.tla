----------------------------- MODULE PacketFrame -----------------------------
(***************************************************************************)
(* The frame a packet travels in (protocol.rs), the bytes its signature       *)
(* covers (announce.rs), and what a hop does to it: a relay and a sync reply   *)
(* decode and encode it again.  Sizes are scaled: an address, a timestamp and  *)
(* a signature take one byte, a length takes one byte in version 1 and two in  *)
(* version 2.  A signature is the byte Signature and stands for the one made   *)
(* over the bytes in signed.  Clients of the upstream project also compress.   *)
(***************************************************************************)
EXTENDS Integers, Sequences, FiniteSets, SequencesExt

CONSTANTS
  Byte,          \* values of a byte
  BlockSizes,    \* BLOCK_SIZES, ascending
  TagRoom,       \* optimal_block_size: room for an AEAD tag
  MaxPad,        \* longest padding a byte can name
  MaxFramed,     \* MAX_FRAMED_PAYLOAD
  Threshold,     \* COMPRESSION_THRESHOLD
  MaxChunk,      \* split_for_signing: bytes of a chunk
  MessageTtl,    \* MESSAGE_TTL
  Contents,      \* what the user says: sequences of word lengths
  Packets,       \* what upstream clients send
  MaxHops        \* bound: hops of a frame

VARIABLES origin, said, sent, signed, wire, hops, cut

vars == <<origin, said, sent, signed, wire, hops, cut>>

Signature == 1
Recipient == 1
HasSignature == 2
Compressed == 4
HasRoute == 8
Rsr == 16

Bytes(n, b) == [i \in 1..n |-> b]
Digits(n, version) == IF version = 2 THEN <<n \div Byte, n % Byte>> ELSE <<n>>
Flag(bit, on) == IF on THEN bit ELSE 0
-----------------------------------------------------------------------------
OptimalBlockSize(n) ==
  LET fitting == {i \in DOMAIN BlockSizes : n + TagRoom <= BlockSizes[i]}
  IN IF fitting = {} THEN n ELSE BlockSizes[CHOOSE i \in fitting : \A j \in fitting : i <= j]

Pad(data) ==
  LET needed == OptimalBlockSize(Len(data)) - Len(data)
  IN IF needed \in 1..MaxPad THEN data \o Bytes(needed, needed) ELSE data

Unpad(data) ==
  LET last == data[Len(data)]
  IN IF data = <<>> \/ last \notin 1..Len(data)
        \/ \E i \in Len(data) - last + 1..Len(data) : data[i] # last
     THEN data ELSE SubSeq(data, 1, Len(data) - last)

\* The fields in their order, around a payload that may be compressed
Framed(p, payload, compressed) ==
  LET route == IF p.version = 2 THEN p.route ELSE <<>>
  IN <<p.version, p.type, p.ttl, p.timestamp,
       Flag(Recipient, p.recipient # <<>>) + Flag(HasSignature, p.signature # <<>>)
         + Flag(Compressed, compressed) + Flag(HasRoute, route # <<>>) + Flag(Rsr, p.rsr)>>
     \o Digits(Len(payload), p.version) \o <<p.sender>> \o p.recipient
     \o (IF route = <<>> THEN <<>> ELSE <<Len(route)>> \o route) \o payload \o p.signature

\* encode: what does not fit its fields is not encoded
Encode(p) ==
  IF p.version \notin {1, 2} \/ (p.version = 1 /\ Len(p.payload) >= Byte) \/ Len(p.route) >= Byte
  THEN <<>> ELSE Pad(Framed(p, p.payload, FALSE))

\* should_compress
ShouldCompress(payload) ==
  /\ Len(payload) >= Threshold
  /\ 10 * Cardinality(ToSet(payload)) < 9 * Len(payload)

\* A deflate that shortens a run of one byte and nothing else
Deflates(payload) == ShouldCompress(payload) /\ Cardinality(ToSet(payload)) = 1
Deflate(payload) == <<payload[1], Len(payload)>>
Inflate(data, size) == IF Len(data) = 2 /\ data[2] = size THEN Bytes(data[2], data[1]) ELSE <<>>

\* The frame of an upstream client
EncodeUpstream(p) ==
  IF ~Deflates(p.payload) THEN Encode(p)
  ELSE Pad(Framed(p, Digits(Len(p.payload), p.version) \o Deflate(p.payload), TRUE))

Slice(raw, a, b) == SubSeq(raw, a, IF b < Len(raw) THEN b ELSE Len(raw))

\* The lengths are believed.
ShortNever(raw, end) == FALSE

\* read_slice: the frame must hold what its lengths say
Short(raw, end) == Len(raw) < end

\* decode_core: at most one packet.  What follows the last field is not looked at.
DecodeCore(raw) ==
  LET width == IF raw[1] = 2 THEN 2 ELSE 1
      has(bit) == (raw[5] \div bit) % 2 = 1
      number(at) == IF raw[1] = 2 THEN raw[at] * Byte + raw[at + 1] ELSE raw[at]
      size == number(6)
      routed == raw[1] = 2 /\ has(HasRoute)
      routeAt == 7 + width + Flag(1, has(Recipient))
      hopCount == IF routed THEN raw[routeAt] ELSE 0
      bodyAt == routeAt + Flag(1, routed) + hopCount
      end == bodyAt + size - 1 + Flag(1, has(HasSignature))
      body == Slice(raw, bodyAt, bodyAt + size - 1)
      inflated == Inflate(Slice(body, width + 1, size), number(bodyAt))
      payload == IF has(Compressed) THEN inflated ELSE body
  IN IF \/ Len(raw) < 7 \/ raw[1] \notin {1, 2} \/ Len(raw) < 6 + width \/ size > MaxFramed
        \/ (routed /\ Len(raw) < routeAt) \/ Short(raw, end)
        \/ (has(Compressed) /\ (size <= width \/ number(bodyAt) > MaxFramed \/ inflated = <<>>))
     THEN {}
     ELSE {[version |-> raw[1], type |-> raw[2], ttl |-> raw[3], timestamp |-> raw[4],
            sender |-> raw[6 + width], recipient |-> IF has(Recipient) THEN Slice(raw, 7 + width, 7 + width) ELSE <<>>,
            route |-> Slice(raw, bodyAt - hopCount, bodyAt - 1), payload |-> payload,
            signature |-> IF has(HasSignature) THEN Slice(raw, end, end) ELSE <<>>, rsr |-> has(Rsr)]}

\* The padding comes off first.
DecodeStripped(raw) == DecodeCore(Unpad(raw))

\* decode: as it stands, then without padding
Decode(raw) ==
  IF DecodeCore(raw) # {} THEN DecodeCore(raw)
  ELSE IF Unpad(raw) = raw THEN {} ELSE DecodeCore(Unpad(raw))

\* Signing bytes with the TTL left in.
UnsignedWithTtl(p) == [p EXCEPT !.signature = <<>>, !.rsr = FALSE]

\* Signing bytes that leave out whom the packet is for.
UnsignedUnaddressed(p) == [p EXCEPT !.signature = <<>>, !.ttl = 0, !.rsr = FALSE, !.recipient = <<>>]

\* signing_bytes: without signature, TTL and reply flag
Unsigned(p) == [p EXCEPT !.signature = <<>>, !.ttl = 0, !.rsr = FALSE]
SigningBytes(p) == Encode(Unsigned(p))

\* verify_packet
VerifyPacket(p) == p.signature # <<>> /\ SigningBytes(p) = signed

\* The signature check of an upstream client
VerifyUpstream(p) == p.signature # <<>> /\ EncodeUpstream(Unsigned(p)) = signed
-----------------------------------------------------------------------------
(* What is said in public *)

\* Pieces of word w, each of at most MaxChunk bytes
Pieces(w, length) ==
  [i \in 1..(length + MaxChunk - 1) \div MaxChunk |->
     <<w, (i - 1) * MaxChunk + 1, IF i * MaxChunk < length THEN i * MaxChunk ELSE length>>]

\* Bytes of a chunk: its pieces and the spaces between them
ChunkBytes(chunk) ==
  LET f[i \in 0..Len(chunk)] == IF i = 0 THEN Len(chunk) - 1 ELSE f[i-1] + chunk[i][3] - chunk[i][2] + 1
  IN f[Len(chunk)]

\* The chunk under way is dropped.
FlushedNot(s) == s.chunks

Flushed(s) == IF s.current = <<>> THEN s.chunks ELSE Append(s.chunks, s.current)

\* split_into_chunks, words in order
Chunks(words) ==
  LET whole == [w \in DOMAIN words |-> <<w, 1, words[w]>>]
      f[w \in 0..Len(words)] ==
        IF w = 0 THEN [chunks |-> <<>>, current |-> <<>>]
        ELSE LET s == f[w-1]
                 longer == Append(s.current, whole[w])
             IN IF words[w] > MaxChunk
                THEN [chunks |-> Flushed(s) \o [i \in DOMAIN Pieces(w, words[w]) |-> <<Pieces(w, words[w])[i]>>],
                      current |-> <<>>]
                ELSE IF ChunkBytes(longer) > MaxChunk
                THEN [chunks |-> Flushed(s), current |-> <<whole[w]>>]
                ELSE [s EXCEPT !.current = longer]
  IN IF ChunkBytes(whole) <= MaxChunk THEN <<whole>> ELSE Flushed(f[Len(words)])
-----------------------------------------------------------------------------
NoPacket == [version |-> 0, type |-> 0, ttl |-> 0, timestamp |-> 0, sender |-> 0, recipient |-> <<>>,
             payload |-> <<>>, signature |-> <<>>, route |-> <<>>, rsr |-> FALSE]

Init ==
  /\ origin = "none" /\ said = <<>> /\ sent = NoPacket /\ signed = <<>>
  /\ wire = <<>> /\ hops = 0 /\ cut = FALSE

\* Packet::new, sent to everyone in range
New(payload) == [NoPacket EXCEPT !.version = 1, !.type = 2, !.ttl = MessageTtl, !.timestamp = 3,
                                 !.sender = 4, !.payload = payload]

\* public_message_frames, of which one chunk is followed
Say(words) ==
  /\ origin = "none" /\ origin' = "ours" /\ said' = words
  /\ \E chunk \in ToSet(Chunks(words)) :
       LET p == New(Bytes(ChunkBytes(chunk), 2))
       IN /\ signed' = SigningBytes(p)
          /\ sent' = [p EXCEPT !.signature = <<Signature>>]
          /\ wire' = Encode(sent')
  /\ UNCHANGED <<hops, cut>>

\* noise_frame: addressed and not signed, so of any length
SendNoise(size) ==
  /\ origin = "none" /\ origin' = "ours"
  /\ sent' = [New(Bytes(size, 2)) EXCEPT !.recipient = <<5>>]
  /\ wire' = Encode(sent')
  /\ UNCHANGED <<said, signed, hops, cut>>

\* An upstream client sends a packet.
UpstreamSends(p) ==
  /\ origin = "none" /\ origin' = "upstream"
  /\ sent' = p
  /\ signed' = IF p.signature = <<>> THEN <<>> ELSE EncodeUpstream(Unsigned(p))
  /\ wire' = EncodeUpstream(p)
  /\ UNCHANGED <<said, hops, cut>>

Arrived == Decode(wire)

Hop == origin # "none" /\ hops < MaxHops /\ hops' = hops + 1 /\ UNCHANGED <<origin, said, sent, signed, cut>>

\* relay_plan, once the policy has said yes
RelayOn == Hop /\ \E p \in Arrived : p.ttl > 1 /\ wire' = Encode([p EXCEPT !.ttl = @ - 1])

\* as_reply: a sync reply of an archived packet
Reply == Hop /\ \E p \in Arrived : wire' = Encode([p EXCEPT !.ttl = 0, !.rsr = TRUE])

\* A link loses the end of a frame.
Cut ==
  /\ origin # "none" /\ ~cut /\ cut' = TRUE
  /\ \E n \in 1..Len(wire) - 1 : wire' = SubSeq(wire, 1, n)
  /\ UNCHANGED <<origin, said, sent, signed, hops>>

Next ==
  \/ \E words \in Contents : Say(words)
  \/ \E size \in 0..2 * Threshold : SendNoise(size)
  \/ \E p \in Packets : UpstreamSends(p)
  \/ RelayOn \/ Reply \/ Cut

Spec == Init /\ [][Next]_vars
-----------------------------------------------------------------------------
(* Properties *)

\* What a hop may change of a packet
Same(p, q) == [p EXCEPT !.ttl = 0, !.rsr = FALSE] = [q EXCEPT !.ttl = 0, !.rsr = FALSE]

\* A frame that was not cut reads as the packet that was sent, over any number of
\* relays and replies (encode, decode).
Intact == origin # "none" /\ ~cut => \E p \in Arrived : Same(p, sent)

\* A frame that was cut, even before a relay passed it on, reads as the packet
\* that was sent or as none (decode_core).
CutRefused == \A p \in Arrived : Same(p, sent)

\* The signature of a packet holds wherever the packet arrives: at an upstream
\* client, which signs what it would compress, and at this client unless the
\* payload is one it declares unverifiable (signing_bytes, split_for_signing).
SignedVerifies ==
  \A p \in Arrived : p.signature # <<>> =>
    VerifyUpstream(p) /\ (VerifyPacket(p) \/ ShouldCompress(p.payload))

\* A signature is good for one packet: any other that carries it, up to what a
\* hop may change, does not verify (signing_bytes, verify_packet).
OnlyAsSigned == \A p \in Packets : signed # <<>> /\ VerifyPacket(p) => Same([p EXCEPT !.signature = sent.signature], sent)

\* What was said goes out whole: the chunks hold every byte of every word once
\* and in order, and break only words that no chunk could hold
\* (split_into_chunks).
SpokenWhole ==
  LET pieces == FlattenSeq(Chunks(said))
  IN said # <<>> =>
       /\ \A i \in 1..Len(pieces) - 1 :
            \/ pieces[i+1][1] = pieces[i][1] /\ pieces[i+1][2] = pieces[i][3] + 1
            \/ pieces[i+1][1] = pieces[i][1] + 1 /\ pieces[i+1][2] = 1 /\ pieces[i][3] = said[pieces[i][1]]
       /\ pieces[1] \in {<<1, 1, e>> : e \in 1..said[1]}
       /\ LET last == pieces[Len(pieces)] IN last[1] = Len(said) /\ last[3] = said[Len(said)]
       /\ \A i \in DOMAIN pieces : pieces[i][2] > 1 => said[pieces[i][1]] > MaxChunk
=============================================================================
