------------------------------- MODULE MCMesh -------------------------------
(***************************************************************************)
(* Runs of the packets of the mesh: their bytes and records, their         *)
(* fragments, and the flood that relays them.                              *)
(***************************************************************************)
EXTENDS Relay, Fragments

\* The flood: a burst that fits the memory, one link failure, a peer that sends too many hops,
\* on a triangle with a tail.  The fragments: two senders that draw the same id.
Loop == {{"a", "b"}, {"a", "c"}, {"b", "c"}, {"c", "d"}}

Packet(from, to, kind, i) == [origin |-> from, to |-> to, kind |-> kind, num |-> i]

\* A broadcast, a private packet and an announce.
Mixed == {Packet("a", "all", "Message", 1), Packet("d", "a", "Message", 1), Packet("a", "all", "Announce", 2)}

Contents == UNION {[1 .. n -> 1 .. 4] : n \in 1 .. 3}
Framed ==
  {[version |-> v, type |-> 2, ttl |-> 3, timestamp |-> 3, sender |-> s, recipient |-> r, payload |-> payload,
    signature |-> g, route |-> IF v = 1 THEN <<>> ELSE route, rsr |-> FALSE] :
     v \in {1, 2}, s \in {4, 5}, r \in {<<>>, <<5>>}, g \in {<<>>, <<1>>}, route \in {<<>>, <<4>>, <<5, 4>>},
     payload \in {<<>>, <<1>>, <<5>>, <<2, 2>>, <<4, 5>>, <<2, 2, 2, 2>>, <<1, 2, 1, 2>>, <<1, 2, 2, 3, 3, 3>>}}

\* Text is UTF-8: a character of one byte, or a lead and a continuation byte.
Characters == {<<5>>, <<7, 8>>}
Nicknames == {n \in {FlattenSeq(s) : s \in SeqOf(Characters, 5)} : Len(n) <= 5}
Announces ==
  {[nickname |-> <<>>, noise |-> <<1>>, signing |-> <<2>>, neighbors |-> n, capabilities |-> c, cell |-> g] :
     n \in {{}, {<<>>}, {<< <<1, 2>> >>}, {<< <<1, 2>>, <<3, 4>>, <<5, 6>> >>}},
     c \in {{}, {{}}, {{2}}, {{0, 5}}}, g \in {{}, {<<5>>}, {<<5, 5, 5>>}}}
Texts == {<<>>, <<5>>, <<5, 7, 8>>}
PrivateMessages == {[id |-> i, content |-> c] : i \in Texts, c \in Texts \cup {<<5, 5, 5, 5, 5, 5, 5>>}}
Files ==
  {[name |-> n, size |-> s, mime |-> t, content |-> c] :
     n \in {{}, {<<5>>}, {<<4, 4>>}}, s \in {{}, {3}, {20}}, t \in {{}, {<<5>>}},
     c \in UNION {[1 .. k -> {0, 4}] : k \in 0 .. 4}}
Requests ==
  {[p |-> 1, m |-> m, data |-> d, types |-> t, since |-> s, filter |-> f] :
     m \in {1, 20}, d \in {<<>>, <<4, 1>>}, t \in {{}, {{1}}, {{0, 5}}, {{3}}, {{0, 6}}},
     s \in {{}, {17}}, f \in {{}, {<<5>>}}}

VARIABLES
  part,  \* the component that moves
  origin, said, frameSent, signed, frameWire, hops, cut,
  kind, record, raw, writer

frameVars == <<origin, said, frameSent, signed, frameWire, hops, cut>>
recordVars == <<kind, record, raw, writer>>

\* Every packet of Framed and every typed message of Contents.
Framing == INSTANCE PacketFrame WITH
  Byte <- 32, BlockSizes <- <<12, 18>>, TagRoom <- 1, MaxPad <- 3, MaxFramed <- 40,
  Threshold <- 4, MaxChunk <- 3, MessageTtl <- 3, Contents <- Contents, Packets <- Framed,
  MaxHops <- 3, sent <- frameSent, wire <- frameWire

\* Every record of the sets above, in bytes of sixteen values.
Records == INSTANCE TlvRecords WITH
  Byte <- 16, Bits <- 4, MaxTlv <- 6, MaxNickname <- 4, Threshold <- 17, MaxNeighbors <- 2,
  MaxCell <- 2, MaxContent <- 4, MaxAccept <- 3, MaxP <- 3, KnownBits <- {0, 1, 5},
  Nicknames <- Nicknames, Announces <- Announces, Messages <- PrivateMessages, Files <- Files,
  Requests <- Requests

\* The values given to the constants are ones the components allow.
ASSUME InstancesAssumption ==
  /\ RelayAssumption
  /\ FragmentsAssumption
-----------------------------------------------------------------------------
Parts == {"flood", "fragments", "frame", "records"}

\* One component moves, in its own initial state; the others rest in theirs.
MCInit ==
  /\ part \in Parts
  /\ Init
  /\ FragmentsInit
  /\ Framing!Init
  /\ Records!Init

MCNext ==
  \/ /\ part = "flood" /\ Next
     /\ UNCHANGED <<part, fragmentVars, frameVars, recordVars>>
  \/ /\ part = "fragments" /\ FragmentsNext
     /\ UNCHANGED <<part, vars, frameVars, recordVars>>
  \/ /\ part = "frame" /\ Framing!Next
     /\ UNCHANGED <<part, vars, fragmentVars, recordVars>>
  \/ /\ part = "records" /\ Records!Next
     /\ UNCHANGED <<part, vars, fragmentVars, frameVars>>

mcvars == <<part, vars, fragmentVars, frameVars, recordVars>>

MCSpec == MCInit /\ [][MCNext]_mcvars
-----------------------------------------------------------------------------

\* What is read is what was written or nothing: frames over any number of hops and cut
\* anywhere, the words of a message over its chunks, and each record between this client,
\* older and newer ones.
ReadAsWritten ==
  /\ part = "frame" => Framing!Intact /\ Framing!CutRefused /\ Framing!SpokenWhole
  /\ part = "records" =>
       /\ Records!AnnounceRead
       /\ Records!MessageExact
       /\ Records!FileExact
       /\ Records!RequestExact

\* A signature verifies wherever its packet arrives and on no other packet; an announce stays
\* under the size from which a verifier would compress it before checking.
SignaturesHold ==
  /\ part = "frame" => Framing!SignedVerifies /\ Framing!OnlyAsSigned
  /\ part = "records" => Records!AnnounceUnderThreshold
=============================================================================
