----------------------------- MODULE TlvRecords -----------------------------
(***************************************************************************)
(* The records inside packets, all of them lists of tagged fields: announces   *)
(* (announce.rs), private messages (noise_payload.rs), files (file_packet.rs)  *)
(* and sync requests (sync/request.rs, sync/type_flags.rs).  Bytes are numbers *)
(* below Byte and sizes are scaled: lengths of one and of two bytes take one,  *)
(* of four bytes two, keys and times one or two.  In a text the bytes Lead and *)
(* Cont make one character, and are not UTF-8 apart.  A field that may be      *)
(* absent is a set of at most one value.                                      *)
(***************************************************************************)
EXTENDS Integers, Sequences, FiniteSets, SequencesExt, FiniteSetsExt

CONSTANTS
  Byte,          \* values of a byte
  Bits,          \* bits of a byte
  MaxTlv,        \* longest value a one-byte length can tell
  MaxNickname,   \* MAX_NICKNAME_BYTES
  Threshold,     \* COMPRESSION_THRESHOLD
  MaxNeighbors,  \* neighbours in an announce
  MaxCell,       \* bytes of a bridge geohash
  MaxContent,    \* MAX_PAYLOAD_BYTES of a file
  MaxAccept,     \* MAX_ACCEPT_BYTES
  MaxP,          \* MAX_P of a filter
  KnownBits,     \* MAPPED_TYPES, by bit index
  Nicknames, Announces, Messages, Files, Requests   \* what is sent

VARIABLES kind, record, raw, writer

vars == <<kind, record, raw, writer>>

Lead == 7
Cont == 8
IdBytes == 2
WordBytes == 8

\* from_utf8
Utf8(value) ==
  \A i \in DOMAIN value :
    /\ value[i] = Lead => i < Len(value) /\ value[i+1] = Cont
    /\ value[i] = Cont => i > 1 /\ value[i-1] = Lead

Texts(values) == {v \in values : Utf8(v)}

\* push_tlv
Field(tag, value) == <<tag, Len(value)>> \o value
Optional(tag, values) == IF values = {} THEN <<>> ELSE Field(tag, CHOOSE v \in values : TRUE)

Malformed == <<[tag |-> -1, value |-> <<>>]>>

\* The fields of a record.  The one at position i has a length of width(i) bytes,
\* which is number(i); a rest too short for a field reads as rest.
FieldsFrom(data, width(_), number(_), rest) ==
  LET f[i \in 1..Len(data) + 1] ==
        LET start == i + 1 + width(i)
            end == start + number(i) - 1
        IN IF i > Len(data) THEN <<>>
           ELSE IF start > Len(data) + 1 THEN rest
           ELSE IF end > Len(data) \/ f[end + 1] = Malformed THEN Malformed
           ELSE <<[tag |-> data[i], value |-> SubSeq(data, start, end)]>> \o f[end + 1]
  IN f[1]

Fields(data) == FieldsFrom(data, LAMBDA i : 1, LAMBDA i : data[i + 1], <<>>)

\* The value of the last field of that tag with a length that is right for it
LastOf(fields, tag, lengths) ==
  LET at == {i \in DOMAIN fields : fields[i].tag = tag /\ Len(fields[i].value) \in lengths}
  IN IF at = {} THEN {} ELSE {fields[Max(at)].value}

AnyLength == 0..Byte * Byte

\* All values of the fields of that tag
AllOf(fields, tag) == {fields[i].value : i \in {j \in DOMAIN fields : fields[j].tag = tag}}
-----------------------------------------------------------------------------
(* Announces *)

\* The nickname is cut where the bytes end.
TruncateBytes(nickname) == SubSeq(nickname, 1, IF Len(nickname) < MaxNickname THEN Len(nickname) ELSE MaxNickname)

\* truncate_nickname: at the end of a character
TruncateNickname(nickname) ==
  IF Len(nickname) <= MaxNickname THEN nickname
  ELSE SubSeq(nickname, 1, Max({end \in 0..MaxNickname : nickname[end + 1] # Cont}))

\* Capabilities: bits, the low byte first, at least one byte
CapabilityBytes(bits) ==
  LET value(i) == FoldSet(LAMBDA b, sum : sum + 2^(b - i * Bits), 0, {b \in bits : b \div Bits = i})
  IN [i \in 1..(IF bits = {} THEN 1 ELSE Max(bits) \div Bits + 1) |-> value(i - 1)]

BitsOf(bytes) == {b \in 0..Len(bytes) * Bits - 1 : (bytes[b \div Bits + 1] \div 2^(b % Bits)) % 2 = 1}

\* Whatever its length, a field goes in.
FitsAlways(data, value) == TRUE

\* Optional fields must leave the announce below the compression threshold.
Fits(data, value) == Len(data) + 2 + Len(value) < Threshold

\* Announcement::new and encode
EncodeAnnounce(a) ==
  LET with(data, tag, values) ==
        IF values = {} \/ ~Fits(data, CHOOSE v \in values : TRUE) THEN data ELSE data \o Optional(tag, values)
      neighbors == {FlattenSeq(SubSeq(n, 1, IF Len(n) < MaxNeighbors THEN Len(n) ELSE MaxNeighbors)) :
                      n \in a.neighbors \ {<<>>}}
      mandatory == Field(1, TruncateNickname(a.nickname)) \o Field(2, a.noise) \o Field(3, a.signing)
  IN with(with(with(mandatory, 4, neighbors), 5, {CapabilityBytes(b) : b \in a.capabilities}),
          6, {c \in a.cell : Len(c) \in 1..MaxCell})

\* Announcement::decode
DecodeAnnounce(data) ==
  LET fields == Fields(data)
      nickname == Texts(LastOf(fields, 1, AnyLength))
      noise == LastOf(fields, 2, AnyLength)
      signing == LastOf(fields, 3, AnyLength)
      ids(v) == [i \in 1..Len(v) \div IdBytes |-> SubSeq(v, (i - 1) * IdBytes + 1, i * IdBytes)]
  IN IF fields = Malformed THEN {}
     ELSE {[nickname |-> n, noise |-> k, signing |-> s,
            neighbors |-> {ids(v) : v \in LastOf(fields, 4, {l \in AnyLength : l > 0 /\ l % IdBytes = 0})},
            capabilities |-> {BitsOf(SubSeq(v, 1, Min({Len(v), WordBytes}))) : v \in LastOf(fields, 5, AnyLength)},
            cell |-> Texts(LastOf(fields, 6, 0..MaxCell))] : n \in nickname, k \in noise, s \in signing}
-----------------------------------------------------------------------------
(* Private messages *)

EncodeMessage(m) ==
  IF Len(m.id) > MaxTlv \/ Len(m.content) > MaxTlv THEN <<>> ELSE Field(0, m.id) \o Field(1, m.content)

\* Unknown fields are skipped.
DecodeMessageSkipping(data) ==
  {[id |-> i, content |-> c] : i \in LastOf(Fields(data), 0, AnyLength), c \in LastOf(Fields(data), 1, AnyLength)}

\* PrivateMessagePacket::decode: an unknown field or a text that is none spoils it
DecodeMessage(data) ==
  LET fields == Fields(data)
  IN IF \E i \in DOMAIN fields : fields[i].tag \notin {0, 1} \/ ~Utf8(fields[i].value) THEN {}
     ELSE {[id |-> i, content |-> c] : i \in LastOf(fields, 0, AnyLength), c \in LastOf(fields, 1, AnyLength)}
-----------------------------------------------------------------------------
(* Files *)

Number(n) == <<n \div Byte, n % Byte>>
Value(bytes) == LET f[i \in 0..Len(bytes)] == IF i = 0 THEN 0 ELSE f[i-1] * Byte + bytes[i] IN f[Len(bytes)]

\* FilePacket::encode; an older client tells the length of the content as of any field
EncodeFile(f, wide) ==
  IF Len(f.content) > MaxContent THEN <<>>
  ELSE Optional(1, f.name)
       \o Field(2, Number(IF f.size = {} THEN Len(f.content) ELSE CHOOSE n \in f.size : TRUE))
       \o Optional(3, f.mime)
       \o (IF wide THEN <<4>> \o Number(Len(f.content)) \o f.content ELSE Field(4, f.content))

\* The content has a wide length whether or not it fits.
WideAlways(data, i) == data[i] = 4 /\ i + 2 <= Len(data)

\* The content has a wide length when that fits in what is left.
Wide(data, i) == data[i] = 4 /\ i + 2 <= Len(data) /\ Value(SubSeq(data, i + 1, i + 2)) <= Len(data) - (i + 2)

\* FilePacket::decode.  A rest too short for a field spoils it.
DecodeFile(data) ==
  LET width(i) == IF Wide(data, i) THEN 2 ELSE 1
      fields == FieldsFrom(data, width, LAMBDA i : Value(SubSeq(data, i + 1, i + width(i))), Malformed)
  IN IF fields = Malformed \/ \E v \in AllOf(fields, 4) : Len(v) > MaxContent THEN {}
     ELSE {[name |-> Texts(LastOf(fields, 1, AnyLength)),
            size |-> {Value(v) : v \in LastOf(fields, 2, AnyLength) \ {<<>>}},
            mime |-> Texts(LastOf(fields, 3, AnyLength)),
            content |-> c] : c \in LastOf(fields, 4, AnyLength) \ {<<>>}}
-----------------------------------------------------------------------------
(* Sync requests *)

\* SyncTypeFlags: the low byte first, and no field at all for no types
EncodeRequest(q) ==
  Field(1, <<q.p>>) \o Field(2, Number(q.m)) \o Field(3, q.data)
    \o Optional(4, {CapabilityBytes(t) : t \in q.types \ {{}}})
    \o Optional(5, {Number(s) : s \in q.since}) \o Optional(6, q.filter)

\* Bits without a type stay.
TypesUnmasked(bytes) == BitsOf(bytes)

\* from_bytes, from_raw: bits nobody here knows are dropped
TypesOf(bytes) == BitsOf(bytes) \cap KnownBits

\* RequestSync::decode
DecodeRequest(data) ==
  LET fields == Fields(data)
      p == {v[1] : v \in LastOf(fields, 1, {1})}
      m == {Value(v) : v \in LastOf(fields, 2, {2})}
      filters == {i \in DOMAIN fields : fields[i].tag = 6 /\ Len(fields[i].value) <= MaxAccept /\ Utf8(fields[i].value)}
  IN IF fields = Malformed \/ \E v \in AllOf(fields, 3) : Len(v) > MaxAccept THEN {}
     ELSE {[p |-> pp, m |-> mm, data |-> d,
            types |-> {TypesOf(v) : v \in LastOf(fields, 4, 1..WordBytes)},
            since |-> {Value(v) : v \in LastOf(fields, 5, {2})},
            filter |-> IF filters = {} THEN {} ELSE {fields[Max(filters)].value}] :
              pp \in p \cap 1..MaxP, mm \in m \ {0}, d \in LastOf(fields, 3, AnyLength)}

\* requested_types, with PublicMessages the bits of announces and messages
PublicMessages == {0, 1}
RequestedTypes(q) == IF q.types = {} THEN PublicMessages ELSE UNION q.types
-----------------------------------------------------------------------------
Nothing == [nickname |-> <<>>]

Init == kind = "none" /\ record = Nothing /\ raw = <<>> /\ writer = "this"

Write(k, x, data) == kind = "none" /\ kind' = k /\ record' = x /\ raw' = data /\ UNCHANGED writer

Announce == \E a \in Announces, n \in Nicknames :
              LET x == [a EXCEPT !.nickname = n] IN Write("announce", x, EncodeAnnounce(x))
Message == \E m \in Messages : EncodeMessage(m) # <<>> /\ Write("message", m, EncodeMessage(m))
File == \E f \in Files : EncodeFile(f, TRUE) # <<>> /\ Write("file", f, EncodeFile(f, TRUE))
Request == \E q \in Requests : Write("request", q, EncodeRequest(q))

\* An older client writes the length of a file's content as of any other field.
OlderFile ==
  /\ kind = "file" /\ writer = "this" /\ writer' = "older" /\ Len(record.content) < Byte
  /\ raw' = EncodeFile(record, FALSE)
  /\ UNCHANGED <<kind, record>>

\* A newer client writes a field of its own before, between or behind the others.
NewerField ==
  LET fields == IF kind = "file" THEN FieldsFrom(raw, LAMBDA i : IF raw[i] = 4 THEN 2 ELSE 1,
                                                 LAMBDA i : IF raw[i] = 4 THEN Value(SubSeq(raw, i+1, i+2)) ELSE raw[i+1], <<>>)
                ELSE Fields(raw)
      written(f) == IF kind = "file" /\ f.tag = 4 THEN <<4>> \o Number(Len(f.value)) \o f.value ELSE Field(f.tag, f.value)
      bytes(fs) == FlattenSeq([i \in DOMAIN fs |-> written(fs[i])])
  IN /\ kind # "none" /\ writer = "this" /\ writer' = "newer"
     /\ \E at \in 0..Len(fields), size \in 0..2 :
          raw' = bytes(SubSeq(fields, 1, at)) \o Field(9, [i \in 1..size |-> 4]) \o bytes(SubSeq(fields, at + 1, Len(fields)))
     /\ UNCHANGED <<kind, record>>

Next == Announce \/ Message \/ File \/ Request \/ OlderFile \/ NewerField

Spec == Init /\ [][Next]_vars
-----------------------------------------------------------------------------
(* Properties *)

\* An announce is read by everyone, under a beginning of the nickname that was
\* set, and what it says of neighbours, capabilities and cell is what the sender
\* knows or nothing (Announcement::encode and decode, truncate_nickname).
AnnounceRead ==
  kind = "announce" =>
    \E a \in DecodeAnnounce(raw) :
      /\ IsPrefix(a.nickname, record.nickname) /\ Len(a.nickname) >= Min({Len(record.nickname), MaxNickname - 1})
      /\ a.noise = record.noise /\ a.signing = record.signing
      /\ a.capabilities \subseteq record.capabilities /\ a.cell \subseteq record.cell
      /\ \A n \in a.neighbors : \E m \in record.neighbors : IsPrefix(n, m)

\* No announce reaches the size from which a verifier compresses it, and the
\* capabilities are only left out for neighbours that went in (encode).
AnnounceUnderThreshold ==
  kind = "announce" /\ writer = "this" =>
    /\ Len(raw) < Threshold
    /\ \E a \in DecodeAnnounce(raw) : a.neighbors = {} => a.capabilities = record.capabilities

\* A private message reads as it was written, and one with a field of a newer
\* client is not read at all (PrivateMessagePacket::decode).
MessageExact ==
  kind = "message" => DecodeMessage(raw) = IF writer = "newer" THEN {} ELSE {record}

\* A file reads as it was written, by this client, by an older one with a short
\* length before the content, and by a newer one with other fields
\* (FilePacket::decode).
FileExact ==
  kind = "file" =>
    DecodeFile(raw) = IF record.content = <<>> THEN {}
                      ELSE {[record EXCEPT !.size = IF @ = {} THEN {Len(record.content)} ELSE @]}

\* A sync request reads as it was written, but for types nobody here knows, which
\* ask for nothing rather than for the default (RequestSync::decode, from_raw).
RequestExact ==
  kind = "request" =>
    \E q \in DecodeRequest(raw) :
      /\ [q EXCEPT !.types = {}] = [record EXCEPT !.types = {}]
      /\ \A t \in record.types \ {{}} : RequestedTypes(q) = t \cap KnownBits
=============================================================================
