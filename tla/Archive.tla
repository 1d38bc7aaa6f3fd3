------------------------------- MODULE Archive ------------------------------
(***************************************************************************)
(* sync/archive.rs: the public traffic a client holds so that it can offer   *)
(* it to a peer that was away.  Messages, fragments and files have a store   *)
(* each, bounded and in order of arrival; of announces there is one per      *)
(* peer.  A packet is a record with at least kind, from and at (its          *)
(* timestamp); two packets with the same id are the same packet to the sync. *)
(***************************************************************************)
EXTENDS Integers, Sequences, FiniteSets

CONSTANTS
  MaxAge,      \* MAX_AGE_MS
  RecordAge,   \* ANNOUNCE_RECORD_MAX_AGE_MS
  Capacity     \* per kind: MESSAGE_CAPACITY, FRAGMENT_CAPACITY, FILE_CAPACITY

Kinds == {"message", "fragment", "file"}

\* What the values of the constants have to be.
ArchiveAssumption ==
  MaxAge \in Nat /\ RecordAge \in Nat /\ Capacity \in [Kinds -> Nat]

\* now.saturating_sub(timestamp): a packet from the future has no age.
Age(p, now) == IF p.at > now THEN 0 ELSE now - p.at

IsFresh(p, now) == Age(p, now) <= MaxAge

Holds(store, p) == \E i \in DOMAIN store : store[i].id = p.id

\* A packet that is held already keeps its place and takes the new value.
InsertPacket(store, p, capacity) ==
  CASE capacity = 0 -> store
    [] capacity > 0 /\ Holds(store, p) ->
         [i \in DOMAIN store |-> IF store[i].id = p.id THEN p ELSE store[i]]
    [] OTHER ->
         LET all == Append(store, p)
         IN SubSeq(all, 1 + Len(all) - (IF Len(all) > capacity THEN capacity ELSE Len(all)), Len(all))

Empty == [store |-> [k \in Kinds |-> <<>>], announces |-> <<>>]

Without(announces, p) == [q \in DOMAIN announces \ {p} |-> announces[q]]

\* Broadcast packets of the kinds that sync carries; of announces only recent ones.
Record(archive, p, now) ==
  CASE ~IsFresh(p, now) -> archive
    [] IsFresh(p, now) /\ p.kind = "announce" ->
         [archive EXCEPT !.announces =
           IF Age(p, now) > RecordAge
           THEN Without(@, p.from)
           ELSE [q \in DOMAIN @ \cup {p.from} |-> IF q = p.from THEN p ELSE @[q]]]
    [] IsFresh(p, now) /\ p.kind \in Kinds ->
         [archive EXCEPT !.store[p.kind] = InsertPacket(@, p, Capacity[p.kind])]
    [] OTHER -> archive

\* Vec::retain: the packets at the places that stay, in their order.
Retained(store, places) ==
  [k \in 1 .. Cardinality(places) |->
     store[CHOOSE i \in places : Cardinality({j \in places : j <= i}) = k]]

Fresh(archive, kind, now) ==
  LET store == archive.store[kind]
  IN Retained(store, {i \in DOMAIN store : IsFresh(store[i], now)})

FreshAnnounces(archive, now) ==
  {archive.announces[q] : q \in {r \in DOMAIN archive.announces : IsFresh(archive.announces[r], now)}}

DropStale(archive, now) ==
  [store |-> [k \in Kinds |-> Fresh(archive, k, now)],
   announces |->
     [q \in {r \in DOMAIN archive.announces : IsFresh(archive.announces[r], now)} |-> archive.announces[q]]]

ForgetPeer(archive, p) == [archive EXCEPT !.announces = Without(@, p)]

Held(archive) == UNION {{archive.store[k][i] : i \in DOMAIN archive.store[k]} : k \in Kinds}
=============================================================================
