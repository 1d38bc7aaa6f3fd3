------------------------------ MODULE Presence ------------------------------
(***************************************************************************)
(* The peer table, the public timeline and what is archived of them          *)
(* (mesh.rs): one client among peers whose announces, messages, files and    *)
(* leave notices reach it late, repeatedly and out of order, as they do over *)
(* two links or a relay.  A message that was relayed may have lost its       *)
(* signature on the way (an "unsound" copy).                                 *)
(***************************************************************************)
EXTENDS Archive, Functions

CONSTANTS
  Me, Peers,
  Nicks, Bodies,
  Retention,   \* PEER_RETENTION, in ticks
  SeenLimit,   \* SEEN_LIMIT
  MaxSent,     \* bound: packets the peers send
  MaxCopies,   \* bound: copies that lose their signature
  MaxSaid,     \* bound: messages of our own
  MaxClock     \* bound: ticks

\* What the values of the constants have to be.
PresenceAssumption ==
  /\ {Retention, MaxSent, MaxCopies, MaxSaid, MaxClock} \subseteq Nat
  /\ SeenLimit \in Nat \ {0}
  /\ Me \notin Peers

VARIABLES
  packets,   \* packets the peers have put on the air
  signing,   \* per peer: the signing key it uses
  peers,     \* MeshService.peers: of the peers listed
  archive,
  blocked,
  seenOrder, \* seen_order
  log,       \* ghost: the last message ids taken for new, since the last wipe
  shown,     \* ghost: packets shown
  latest,    \* ghost: per peer, time and key of the newest announce we accepted
  left,      \* ghost: peers whose leave notice was the last thing heard of them
  clock

ours == <<peers, archive, blocked, seenOrder, log, shown, latest, left>>
presenceVars == <<packets, signing, peers, archive, blocked, seenOrder, log, shown, latest, left, clock>>

PresenceTypeOK ==
  /\ DOMAIN peers \subseteq Peers \ blocked
  /\ \A p \in DOMAIN peers :
       peers[p] \in [nick : Nicks, gateway : BOOLEAN, key : Nat, heard : 0 .. clock]
  /\ Len(seenOrder) <= SeenLimit /\ IsInjective(seenOrder)
  /\ \A k \in Kinds : Len(archive.store[k]) <= Capacity[k]
  /\ DOMAIN archive.announces \subseteq Peers \cup {Me}

PresenceInit ==
  /\ packets = {} /\ signing = [p \in Peers |-> 0]
  /\ peers = <<>> /\ archive = Empty /\ blocked = {} /\ seenOrder = <<>> /\ log = <<>>
  /\ shown = {} /\ latest = [p \in Peers |-> [at |-> -1, key |-> 0]] /\ left = {} /\ clock = 0
-----------------------------------------------------------------------------
(* Packets.  The id leaves the signature out; of a message it is also the key *)
(* of the duplicate check: sender, time and text.                             *)

Announce(p, nick, gateway) ==
  [kind |-> "announce", from |-> p, at |-> clock, id |-> <<"announce", p, clock, nick>>,
   nick |-> nick, gateway |-> gateway, key |-> signing[p], sound |-> TRUE]
Message(p, body, long) ==
  [kind |-> "message", from |-> p, at |-> clock, id |-> <<"message", p, clock, body>>,
   long |-> long, key |-> signing[p], sound |-> TRUE]
File(p, body) == [kind |-> "file", from |-> p, at |-> clock, id |-> <<"file", p, clock, body>>]
LeaveNotice(p) == [kind |-> "leave", from |-> p, at |-> clock, id |-> <<"leave", p, clock>>]

\* A peer says something.
Send(p) ==
  /\ Cardinality({x \in packets : x.kind = "leave" \/ x.kind = "file" \/ x.sound}) < MaxSent
  /\ \E pkt \in    {Announce(p, n, g) : n \in Nicks, g \in BOOLEAN}
              \cup {Message(p, b, l) : b \in Bodies, l \in BOOLEAN}
              \cup {File(p, b) : b \in Bodies} \cup {LeaveNotice(p)} :
       pkt \notin packets /\ packets' = packets \cup {pkt}
  /\ UNCHANGED <<signing, ours, clock>>

\* A relayed copy of a message whose signature can no longer be verified.
Damage(pkt) ==
  /\ pkt.kind = "message" /\ pkt.sound
  /\ Cardinality({x \in packets : x.kind = "message" /\ ~x.sound}) < MaxCopies
  /\ packets' = packets \cup {[pkt EXCEPT !.sound = FALSE]}
  /\ UNCHANGED <<signing, ours, clock>>

\* A peer comes back with a new signing key and its old Noise key.
Rekey(p) ==
  /\ signing[p] = 0 /\ signing' = [signing EXCEPT ![p] = 1]
  /\ UNCHANGED <<packets, ours, clock>>
-----------------------------------------------------------------------------
(* Handlers *)

Verifies(pkt, k) == pkt.sound /\ pkt.key = k

\* Anything already remembered is a copy; the oldest makes room.
Remembered(order, id) ==
  IF Len(order) = SeenLimit THEN Append(Tail(order), id) ELSE Append(order, id)

Listed(pkt) ==
  IF pkt.from \in DOMAIN peers
  THEN [peers EXCEPT ![pkt.from] = [@ EXCEPT !.nick = pkt.nick, !.gateway = pkt.gateway, !.heard = clock]]
  ELSE [p \in DOMAIN peers \cup {pkt.from} |->
          IF p = pkt.from
          THEN [nick |-> pkt.nick, gateway |-> pkt.gateway, key |-> pkt.key, heard |-> clock]
          ELSE peers[p]]

\* The ghost keeps as much of the past as the property looks back.
Logged(id) ==
  LET all == Append(log, id)
  IN IF Len(all) > SeenLimit + 1 THEN Tail(all) ELSE all

HandleAnnounce(pkt) ==
  /\ pkt.kind = "announce"
  /\ archive' = Record(archive, pkt, clock)
  /\ peers' = Listed(pkt)
  /\ latest' = [latest EXCEPT ![pkt.from] = IF pkt.at >= @.at THEN [at |-> pkt.at, key |-> pkt.key] ELSE @]
  /\ left' = left \ {pkt.from}
  /\ UNCHANGED <<blocked, seenOrder, log, shown>>

Heard(p) == IF p \in DOMAIN peers THEN [peers EXCEPT ![p].heard = clock] ELSE peers

\* A known sender whose signature can be checked must have signed with the key it announced first.
Refused(pkt) ==
  /\ pkt.from \in DOMAIN peers /\ ~pkt.long
  /\ ~Verifies(pkt, peers[pkt.from].key)

\* Filed on arrival, before anything is known of its signature.
HandlePublicMessageUnvetted(pkt) ==
  /\ pkt.kind = "message"
  /\ archive' = Record(archive, pkt, clock)
  /\ IF pkt.id \in Range(seenOrder)
     THEN UNCHANGED <<peers, seenOrder, log, shown, left>>
     ELSE /\ seenOrder' = Remembered(seenOrder, pkt.id)
          /\ log' = Logged(pkt.id)
          /\ IF Refused(pkt)
             THEN UNCHANGED <<peers, shown, left>>
             ELSE peers' = Heard(pkt.from) /\ shown' = shown \cup {pkt} /\ left' = left \ {pkt.from}
  /\ UNCHANGED <<blocked, latest>>

HandlePublicMessage(pkt) ==
  /\ pkt.kind = "message"
  /\ IF pkt.id \in Range(seenOrder)
     THEN UNCHANGED <<peers, archive, seenOrder, log, shown, left>>
     ELSE /\ seenOrder' = Remembered(seenOrder, pkt.id)
          /\ log' = Logged(pkt.id)
          /\ IF Refused(pkt)
             THEN UNCHANGED <<peers, archive, shown, left>>
             ELSE /\ peers' = Heard(pkt.from)
                  /\ archive' = Record(archive, pkt, clock)
                  /\ shown' = shown \cup {pkt}
                  /\ left' = left \ {pkt.from}
  /\ UNCHANGED <<blocked, latest>>

HandleFile(pkt) ==
  /\ pkt.kind = "file"
  /\ peers' = Heard(pkt.from)
  /\ archive' = Record(archive, pkt, clock)
  /\ shown' = shown \cup {pkt}
  /\ left' = left \ {pkt.from}
  /\ UNCHANGED <<blocked, seenOrder, log, latest>>

\* The table forgets the peer; the archive does not.
HandleLeave(pkt) ==
  /\ pkt.kind = "leave"
  /\ peers' = Without(peers, pkt.from)
  /\ left' = left \cup {pkt.from}
  /\ UNCHANGED <<archive, blocked, seenOrder, log, shown, latest>>

\* handle_packet: any packet on the air, as often as it likes.
HandlePacket(pkt) ==
  /\ pkt.from \notin blocked
  /\ \/ HandleAnnounce(pkt)
     \/ HandlePublicMessage(pkt)
     \/ HandleFile(pkt)
     \/ HandleLeave(pkt)
  /\ UNCHANGED <<packets, signing, clock>>
-----------------------------------------------------------------------------
(* The client's own steps *)

\* announce_frame and public_message_frames file what we send.
AnnounceFrame(nick, gateway) ==
  /\ archive' = Record(archive,
       [kind |-> "announce", from |-> Me, at |-> clock, id |-> <<"announce", Me, clock, nick>>,
        nick |-> nick, gateway |-> gateway, key |-> 0, sound |-> TRUE], clock)
  /\ UNCHANGED <<packets, signing, peers, blocked, seenOrder, log, shown, latest, left, clock>>

Say(body) ==
  LET pkt == [kind |-> "message", from |-> Me, at |-> clock, id |-> <<"message", Me, clock, body>>,
              long |-> FALSE, key |-> 0, sound |-> TRUE]
  IN /\ pkt \notin shown /\ Cardinality({x \in shown : x.from = Me}) < MaxSaid
     /\ seenOrder' = Remembered(seenOrder, pkt.id) /\ log' = Logged(pkt.id)
     /\ archive' = Record(archive, pkt, clock)
     /\ shown' = shown \cup {pkt}
     /\ UNCHANGED <<packets, signing, peers, blocked, latest, left, clock>>

Block(p) ==
  /\ p \in DOMAIN peers /\ p \notin blocked
  /\ blocked' = blocked \cup {p} /\ peers' = Without(peers, p)
  /\ UNCHANGED <<packets, signing, archive, seenOrder, log, shown, latest, left, clock>>

Unblock(p) ==
  /\ p \in blocked /\ blocked' = blocked \ {p}
  /\ UNCHANGED <<packets, signing, peers, archive, seenOrder, log, shown, latest, left, clock>>

Expired == {p \in DOMAIN peers : clock - peers[p].heard > Retention}

\* prune_peers and sweep_sync_state.
Maintain ==
  /\ peers' = [p \in DOMAIN peers \ Expired |-> peers[p]]
  /\ archive' = DropStale([archive EXCEPT !.announces =
                             [q \in DOMAIN @ \ Expired |-> @[q]]], clock)
  /\ UNCHANGED <<packets, signing, blocked, seenOrder, log, shown, latest, left, clock>>

\* The last link is gone for good.
ClearPeers ==
  /\ peers # <<>> /\ peers' = <<>>
  /\ UNCHANGED <<packets, signing, archive, blocked, seenOrder, log, shown, latest, left, clock>>

Wipe ==
  /\ peers' = <<>> /\ blocked' = {} /\ seenOrder' = <<>> /\ log' = <<>> /\ archive' = Empty
  /\ UNCHANGED <<packets, signing, shown, latest, left, clock>>

ClockTick == clock < MaxClock /\ clock' = clock + 1 /\ UNCHANGED <<packets, signing, ours>>

PresenceNext ==
  \/ \E p \in Peers : Send(p) \/ Rekey(p) \/ Block(p) \/ Unblock(p)
  \/ \E pkt \in packets : Damage(pkt) \/ HandlePacket(pkt)
  \/ \E n \in Nicks : AnnounceFrame(n, FALSE)
  \/ \E b \in Bodies : Say(b)
  \/ Maintain \/ ClearPeers \/ Wipe \/ ClockTick

PresenceSpec == PresenceInit /\ [][PresenceNext]_presenceVars
-----------------------------------------------------------------------------
\* A message is taken for new a second time only once SeenLimit others have
\* been remembered since the first (remember_packet), or after a wipe.
ShownAgainOnlyWhenForgotten ==
  \A i, j \in DOMAIN log : i < j /\ log[i] = log[j] => j - i > SeenLimit

\* What a client offers to the room on a sender's behalf is, copy for copy, what
\* it was willing to show its own user (the archive field of MeshService).
ArchiveOnlyShown ==
  \A pkt \in Held(archive) : pkt \in shown

\* While a peer stays listed, its messages are held to the signing key of the
\* announce that listed it, whatever its later announces carry.
PinnedWhileListedStep ==
  \A p \in DOMAIN peers \cap DOMAIN peers' : peers'[p].key = peers[p].key

\* What was shown and what is kept of it agree: a message is shown again only once the memory
\* of it has been pushed out, what is offered to the room is what was shown here, and a
\* listed peer stays held to the key of the announce that listed it, however late, repeated
\* or out of order its packets arrive.
ShownAndKept ==
  /\ [](PresenceTypeOK /\ ShownAgainOnlyWhenForgotten /\ ArchiveOnlyShown)
  /\ [][PinnedWhileListedStep]_presenceVars

\* A listed peer's messages are held to the key of the newest announce accepted from
\* it: between two announces of a peer "only the nickname can move".
OnlyNicknameMoves == \A p \in DOMAIN peers : peers[p].key = latest[p].key

\* A message that is dropped as a copy is one that was shown.
CopyWasShown ==
  \A i \in DOMAIN seenOrder : \E pkt \in shown : pkt.id = seenOrder[i]

\* A peer that left is not announced to the room on its behalf.
LeaverForgotten == \A p \in left : p \notin DOMAIN archive.announces

\* The announce held for a peer is the latest that was accepted from it.
LatestAnnounce ==
  \A p \in Peers \cap DOMAIN archive.announces : archive.announces[p].at = latest[p].at
=============================================================================
