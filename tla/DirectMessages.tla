--------------------------- MODULE DirectMessages ---------------------------
(***************************************************************************)
(* Private messages between mesh peers: the direct-message half of           *)
(* MeshService (mesh.rs) over NoiseSession, with the parts of the client     *)
(* loop (main.rs) and of App (tui/app.rs) that send, show and acknowledge    *)
(* them.  Every node runs this client.  Handlers are atomic: the client loop *)
(* is one task.  The mesh between nodes reorders freely; with Faults > 0 it  *)
(* also loses frames, delivers copies (one per relay path, and nothing       *)
(* deduplicates noise frames) and nodes restart.                             *)
(***************************************************************************)
EXTENDS NoiseSession, Sequences, FiniteSets

CONSTANTS
  Nodes,          \* the peers
  Senders,        \* nodes whose user types private messages
  Favourites,     \* peers the senders keep as favourites, with no Nostr address
  Blockers,       \* nodes whose user blocks and unblocks peers
  Wipers,         \* nodes whose user may destroy the identity
  MaxRecords,     \* bound: records (chunks of private messages) minted
  MaxChunks,      \* bound: records one private message splits into
  MaxEphemerals,  \* bound: ephemeral keys drawn
  Faults          \* bound: losses, duplications and restarts

ASSUME NodesAssumption == Senders \cup Favourites \cup Blockers \cup Wipers \subseteq Nodes
ASSUME BoundsAssumption ==
  /\ MaxRecords \in Nat /\ MaxChunks \in Nat \ {0}
  /\ MaxEphemerals \in Nat /\ Faults \in Nat

VARIABLES
  running,     \* the process is up (a wiped client quits for good)
  known,       \* MeshService.peers: who has announced itself
  blocked,     \* MeshService.blocked, persisted in state.json
  session,     \* NoiseSessionManager.sessions
  pending,     \* MeshService.pending_dms
  legs,        \* handshake frames on the mesh
  sealed,      \* encrypted frames on the mesh
  shown,       \* App.dm_messages: records received, per conversation
  receipted,   \* App.read_receipts_sent
  status,      \* App: delivery status of our own echoed lines
  told,        \* the user has read that a handshake with this peer failed
  minted,      \* records minted so far; their ids are 1 .. minted
  drawn,       \* ephemeral keys drawn so far
  faults,      \* faults left
  sealLog,     \* ghost: everything ever sealed
  opened       \* ghost: how often each record was shown, restarts included

ui == <<shown, receipted, status>>
ghosts == <<sealLog, opened>>
vars == <<running, known, blocked, session, pending, legs, sealed, shown,
          receipted, status, told, minted, drawn, faults, sealLog, opened>>

Ids == 1 .. MaxRecords

\* App: not on screen, echoed, DeliveryStatus::Delivered, DeliveryStatus::Read.
NotShown == 0
Echoed == 1
Delivered == 2
Read == 3

Bodies == [kind : {"PrivateMessage", "Delivered", "ReadReceipt"}, id : Ids]
Body(kind, id) == [kind |-> kind, id |-> id]

Seals == [cipher : Nat \X {1, 2}, nonce : Nat, body : Bodies]

LegFrames == [from : Nodes, to : Nodes, msg : Legs]
SealedFrames == [from : Nodes, to : Nodes, seal : Seals]

TypeOK ==
  /\ running \in [Nodes -> BOOLEAN]
  /\ known \in [Nodes -> SUBSET Nodes]
  /\ blocked \in [Nodes -> SUBSET Nodes]
  /\ session \in [Nodes -> [Nodes -> SessionType]]
  /\ pending \in [Nodes -> [Nodes -> Seq(Ids)]]
  /\ legs \subseteq LegFrames
  /\ sealed \subseteq SealedFrames
  /\ shown \in [Nodes -> [Nodes -> Seq(Ids)]]
  /\ receipted \in [Nodes -> SUBSET Ids]
  /\ status \in [Nodes -> [Ids -> NotShown .. Read]]
  /\ told \in [Nodes -> [Nodes -> BOOLEAN]]
  /\ minted \in 0 .. MaxRecords
  /\ drawn \in 0 .. MaxEphemerals
  /\ faults \in 0 .. Faults
  /\ sealLog \subseteq Seals
  /\ opened \in [Ids -> Nat]

Init ==
  /\ running = [n \in Nodes |-> TRUE]
  /\ known = [n \in Nodes |-> {}]
  /\ blocked = [n \in Nodes |-> {}]
  /\ session = [n \in Nodes |-> [p \in Nodes |-> NoSession]]
  /\ pending = [n \in Nodes |-> [p \in Nodes |-> <<>>]]
  /\ legs = {}
  /\ sealed = {}
  /\ shown = [n \in Nodes |-> [p \in Nodes |-> <<>>]]
  /\ receipted = [n \in Nodes |-> {}]
  /\ status = [n \in Nodes |-> [i \in Ids |-> NotShown]]
  /\ told = [n \in Nodes |-> [p \in Nodes |-> FALSE]]
  /\ minted = 0
  /\ drawn = 0
  /\ faults = Faults
  /\ sealLog = {}
  /\ opened = [i \in Ids |-> 0]
-----------------------------------------------------------------------------
(* Sealing *)

\* The whole batch sealed under the counter it started from.
SealAllOnOneNonce(s, bodies) == {Sealed(s, 1, bodies[i]) : i \in DOMAIN bodies}

\* sealed_record_frame / receipt_frame for a sequence of bodies: one seal per
\* body under consecutive nonces, one frame each.
SealAll(s, bodies) == {Sealed(s, i, bodies[i]) : i \in DOMAIN bodies}

\* The session after its send cipher has sealed k bodies.
AfterSealing(s, k) == [s EXCEPT !.nonce = @ + k]

SealedFramesOf(n, p, seals) == {[from |-> n, to |-> p, seal |-> x] : x \in seals}

Records(ids) == [i \in DOMAIN ids |-> Body("PrivateMessage", ids[i])]

\* Identifiers that collide with the previous message's last one.
NewIdsOffByOne(k) == [i \in 1 .. k |-> minted + i - 1]

\* PrivateMessagePacket::new mints a fresh identifier per chunk.
NewIds(k) == [i \in 1 .. k |-> minted + i]
-----------------------------------------------------------------------------
(* The peer table.  handle_announce, handle_leave, prune_peers and           *)
(* clear_peers as far as private messages see them.                          *)

\* An announce from p reaches n; a blocked sender's frames stop earlier.
HearAnnounce(n, p) ==
  /\ running[n] /\ running[p] /\ n # p
  /\ p \notin blocked[n] /\ p \notin known[n]
  /\ known' = [known EXCEPT ![n] = @ \cup {p}]
  /\ UNCHANGED <<running, blocked, session, pending, legs, sealed, ui, told,
                 minted, drawn, faults, ghosts>>

\* p leaves, times out, or every link goes: the peer entry goes, its session
\* and its queued messages stay.
LosePeer(n, p) ==
  /\ running[n] /\ p \in known[n]
  /\ known' = [known EXCEPT ![n] = @ \ {p}]
  /\ UNCHANGED <<running, blocked, session, pending, legs, sealed, ui, told,
                 minted, drawn, faults, ghosts>>
-----------------------------------------------------------------------------
(* Sending *)

\* Whom the client addresses over the mesh: a peer it can currently see, or a
\* favourite out of sight when there is neither an internet address for it nor
\* anybody around to carry the message.
Addressable(n, p) ==
  p \in known[n] \/ (p \in Favourites /\ known[n] \ {p} = {})

MayType(n, p, k) ==
  /\ running[n] /\ n \in Senders /\ Addressable(n, p)
  /\ n # p /\ p \notin blocked[n]
  /\ minted + k <= MaxRecords

\* An echo that is ticked as soon as it has been handed to the radio.
SendOnChannelTicked(n, p, k) ==
  /\ MayType(n, p, k)
  /\ HasEstablishedSession(session[n][p])
  /\ LET s == session[n][p]
         new == SealAll(s, Records(NewIds(k)))
     IN /\ sealed' = sealed \cup SealedFramesOf(n, p, new)
        /\ sealLog' = sealLog \cup new
        /\ session' = [session EXCEPT ![n][p] = AfterSealing(s, k)]
  /\ minted' = minted + k
  /\ status' = [status EXCEPT ![n][minted + 1] = Delivered]
  /\ UNCHANGED <<running, known, blocked, pending, legs, shown, receipted,
                 told, drawn, faults, opened>>

\* dm_frames on an established channel: every record is sealed at once.
SendOnChannel(n, p, k) ==
  /\ MayType(n, p, k)
  /\ HasEstablishedSession(session[n][p])
  /\ LET s == session[n][p]
         new == SealAll(s, Records(NewIds(k)))
     IN /\ sealed' = sealed \cup SealedFramesOf(n, p, new)
        /\ sealLog' = sealLog \cup new
        /\ session' = [session EXCEPT ![n][p] = AfterSealing(s, k)]
  /\ minted' = minted + k
  /\ status' = [status EXCEPT ![n][minted + 1] = Echoed]
  /\ UNCHANGED <<running, known, blocked, pending, legs, shown, receipted,
                 told, drawn, faults, opened>>

\* dm_frames without a session: open a handshake, queue the records.
SendAndOpen(n, p, k) ==
  /\ MayType(n, p, k)
  /\ CanInitiate(session[n][p])
  /\ drawn < MaxEphemerals
  /\ drawn' = drawn + 1
  /\ session' = [session EXCEPT ![n][p] = OpenHandshake("Initiator", drawn + 1)]
  /\ legs' = legs \cup {[from |-> n, to |-> p, msg |-> Leg(1, 0, drawn + 1)]}
  /\ pending' = [pending EXCEPT ![n][p] = @ \o NewIds(k)]
  /\ minted' = minted + k
  /\ status' = [status EXCEPT ![n][minted + 1] = Echoed]
  /\ UNCHANGED <<running, known, blocked, sealed, shown, receipted, told, faults,
                 ghosts>>

\* dm_frames while a handshake is under way: initiate_handshake fails before
\* anything is queued and spoils the handshake; the user is told.
SendRefused(n, p, k) ==
  /\ MayType(n, p, k)
  /\ ~HasEstablishedSession(session[n][p])
  /\ ~CanInitiate(session[n][p])
  /\ session' = [session EXCEPT ![n][p] = Spoil(@)]
  /\ minted' = minted + k
  /\ told' = [told EXCEPT ![n][p] = TRUE]
  /\ UNCHANGED <<running, known, blocked, pending, legs, sealed, ui, drawn,
                 faults, ghosts>>
-----------------------------------------------------------------------------
(* Receiving.  With "keep" the frame stays on the mesh: another copy of it    *)
(* will arrive over another path.                                             *)

Consume(air, f, keep) == IF keep THEN air ELSE air \ {f}

\* handle_packet's early return for a blocked sender, and a client that is gone.
Refuses(n, p) == ~running[n] \/ p \in blocked[n]

\* A frame that handle_packet drops.
DropLeg(f, keep) ==
  /\ Refuses(f.to, f.from)
  /\ legs' = Consume(legs, f, keep)
  /\ UNCHANGED <<running, known, blocked, session, pending, sealed, ui, told,
                 minted, drawn, ghosts>>

\* What the session manager makes of a handshake frame.
Handshake(f) ==
  HandleIncomingHandshake(session[f.to][f.from], f.msg, drawn + 1)

\* The error arm without its notice.
FailHandshakeQuietly(f, keep) ==
  /\ ~Refuses(f.to, f.from)
  /\ Handshake(f).result = "error"
  /\ session' = [session EXCEPT ![f.to][f.from] = NoSession]
  /\ legs' = Consume(legs, f, keep)
  /\ UNCHANGED <<running, known, blocked, pending, sealed, ui, told, minted, drawn, ghosts>>

\* handle_noise_handshake, the error arm: the session is dropped, whatever was
\* queued stays queued, and the user is told.
FailHandshake(f, keep) ==
  /\ ~Refuses(f.to, f.from)
  /\ Handshake(f).result = "error"
  /\ session' = [session EXCEPT ![f.to][f.from] = NoSession]
  /\ told' = [told EXCEPT ![f.to][f.from] = TRUE]
  /\ legs' = Consume(legs, f, keep)
  /\ UNCHANGED <<running, known, blocked, pending, sealed, ui, minted, drawn, ghosts>>

\* handle_noise_handshake while the channel is not up yet: a fresh responder
\* answers an opening.
AnswerOpening(f, keep) ==
  LET n == f.to
      p == f.from
  IN /\ ~Refuses(n, p)
     /\ session[n][p].state = "Absent"
     /\ drawn < MaxEphemerals
     /\ drawn' = drawn + 1
     /\ session' = [session EXCEPT ![n][p] = Handshake(f).session]
     /\ legs' = Consume(legs, f, keep)
                   \cup {[from |-> n, to |-> p, msg |-> Handshake(f).reply]}
     /\ UNCHANGED <<running, known, blocked, pending, sealed, ui, told, minted, ghosts>>

\* drain_pending without taking the queue.
CompleteHandshakeKeepingQueue(f, keep) ==
  LET n == f.to
      p == f.from
      s == Handshake(f).session
      new == SealAll(s, Records(pending[n][p]))
  IN /\ ~Refuses(n, p)
     /\ HasEstablishedSession(s)
     /\ session' = [session EXCEPT ![n][p] = AfterSealing(s, Len(pending[n][p]))]
     /\ legs' = IF Handshake(f).result = "reply"
                THEN Consume(legs, f, keep)
                       \cup {[from |-> n, to |-> p, msg |-> Handshake(f).reply]}
                ELSE Consume(legs, f, keep)
     /\ sealed' = sealed \cup SealedFramesOf(n, p, new)
     /\ sealLog' = sealLog \cup new
     /\ UNCHANGED <<running, known, blocked, pending, ui, told, minted, drawn, opened>>

\* handle_noise_handshake with the channel up afterwards, because this leg
\* completed it or because it already was: the leg is answered if it was the
\* second one, and drain_pending seals the queue in order and empties it.
CompleteHandshake(f, keep) ==
  LET n == f.to
      p == f.from
      s == Handshake(f).session
      new == SealAll(s, Records(pending[n][p]))
  IN /\ ~Refuses(n, p)
     /\ HasEstablishedSession(s)
     /\ session' = [session EXCEPT ![n][p] = AfterSealing(s, Len(pending[n][p]))]
     /\ pending' = [pending EXCEPT ![n][p] = <<>>]
     /\ legs' = IF Handshake(f).result = "reply"
                THEN Consume(legs, f, keep)
                       \cup {[from |-> n, to |-> p, msg |-> Handshake(f).reply]}
                ELSE Consume(legs, f, keep)
     /\ sealed' = sealed \cup SealedFramesOf(n, p, new)
     /\ sealLog' = sealLog \cup new
     /\ UNCHANGED <<running, known, blocked, ui, told, minted, drawn, opened>>

ReceiveLeg(f, keep) ==
  \/ DropLeg(f, keep)
  \/ FailHandshake(f, keep)
  \/ AnswerOpening(f, keep)
  \/ CompleteHandshake(f, keep)

\* handle_noise_encrypted on a frame that does not open (no session, wrong
\* keys, a replayed nonce), or that handle_packet drops: nothing changes.
DropSealed(f, keep) ==
  /\ Refuses(f.to, f.from) \/ ~Opens(session[f.to][f.from], f.seal)
  /\ sealed' = Consume(sealed, f, keep)
  /\ UNCHANGED <<running, known, blocked, session, pending, legs, ui, told,
                 minted, drawn, ghosts>>

\* handle_noise_encrypted on a private message: it is shown, and a Delivered
\* receipt is sealed on the same channel.
OpenPrivateMessage(f, keep) ==
  LET n == f.to
      p == f.from
      s == AfterOpening(session[n][p], f.seal)
      id == f.seal.body.id
      receipt == SealAll(s, <<Body("Delivered", id)>>)
  IN /\ ~Refuses(n, p) /\ Opens(session[n][p], f.seal)
     /\ f.seal.body.kind = "PrivateMessage"
     /\ shown' = [shown EXCEPT ![n][p] = Append(@, id)]
     /\ opened' = [opened EXCEPT ![id] = @ + 1]
     /\ session' = [session EXCEPT ![n][p] = AfterSealing(s, 1)]
     /\ sealed' = Consume(sealed, f, keep) \cup SealedFramesOf(n, p, receipt)
     /\ sealLog' = sealLog \cup receipt
     /\ UNCHANGED <<running, known, blocked, pending, legs, receipted, status,
                    told, minted, drawn>>

\* mark_delivery without its comparison.
MarkDeliveryLatest(n, id, new) ==
  IF status[n][id] # NotShown THEN [status EXCEPT ![n][id] = new] ELSE status

\* App::mark_delivery: only a line still on screen, and only upwards.
MarkDelivery(n, id, new) ==
  IF status[n][id] # NotShown /\ new > status[n][id]
  THEN [status EXCEPT ![n][id] = new] ELSE status

\* handle_noise_encrypted on a receipt.
OpenReceipt(f, keep) ==
  LET n == f.to
      p == f.from
      body == f.seal.body
  IN /\ ~Refuses(n, p) /\ Opens(session[n][p], f.seal)
     /\ body.kind # "PrivateMessage"
     /\ session' = [session EXCEPT ![n][p] = AfterOpening(@, f.seal)]
     /\ status' = MarkDelivery(n, body.id,
                    IF body.kind = "ReadReceipt" THEN Read ELSE Delivered)
     /\ sealed' = Consume(sealed, f, keep)
     /\ UNCHANGED <<running, known, blocked, pending, legs, shown, receipted,
                    told, minted, drawn, ghosts>>

ReceiveSealed(f, keep) ==
  \/ DropSealed(f, keep)
  \/ OpenPrivateMessage(f, keep)
  \/ OpenReceipt(f, keep)

\* take_unreceipted_from: where p's conversation has lines without a receipt.
Unreceipted(n, p) == {i \in DOMAIN shown[n][p] : shown[n][p][i] \notin receipted[n]}

\* Their read receipts, sealed in the order of the conversation.
ReadReceipts(n, p) ==
  LET Rank(i) == Cardinality({j \in Unreceipted(n, p) : j <= i})
  IN {Sealed(session[n][p], Rank(i), Body("ReadReceipt", shown[n][p][i])) :
        i \in Unreceipted(n, p)}

\* The draw loop with p's conversation on screen: the new lines are marked as
\* receipted, then read_receipt_frames seals a receipt for each if the peer is
\* still known and the channel is up.
ViewConversation(n, p) ==
  /\ running[n] /\ Unreceipted(n, p) # {}
  /\ receipted' = [receipted EXCEPT ![n] =
                     @ \cup {shown[n][p][i] : i \in Unreceipted(n, p)}]
  /\ IF p \in known[n] /\ HasEstablishedSession(session[n][p])
     THEN /\ session' = [session EXCEPT ![n][p] =
                           AfterSealing(@, Cardinality(Unreceipted(n, p)))]
          /\ sealed' = sealed \cup SealedFramesOf(n, p, ReadReceipts(n, p))
          /\ sealLog' = sealLog \cup ReadReceipts(n, p)
     ELSE UNCHANGED <<session, sealed, sealLog>>
  /\ UNCHANGED <<running, known, blocked, pending, legs, shown, status, told,
                 minted, drawn, faults, opened>>
-----------------------------------------------------------------------------
(* Blocking, wiping, restarting *)

\* block, leaving the encrypted channel in place.
BlockKeepingSession(n, p) ==
  /\ running[n] /\ n \in Blockers /\ p \in known[n]
  /\ blocked' = [blocked EXCEPT ![n] = @ \cup {p}]
  /\ known' = [known EXCEPT ![n] = @ \ {p}]
  /\ UNCHANGED <<running, session, pending, legs, sealed, ui, told, minted,
                 drawn, faults, ghosts>>

\* block: only a peer that has announced itself; the peer and its session go,
\* the list is saved.
Block(n, p) ==
  /\ running[n] /\ n \in Blockers /\ p \in known[n]
  /\ blocked' = [blocked EXCEPT ![n] = @ \cup {p}]
  /\ known' = [known EXCEPT ![n] = @ \ {p}]
  /\ session' = [session EXCEPT ![n][p] = NoSession]
  /\ UNCHANGED <<running, pending, legs, sealed, ui, told, minted, drawn,
                 faults, ghosts>>

Unblock(n, p) ==
  /\ running[n] /\ p \in blocked[n]
  /\ blocked' = [blocked EXCEPT ![n] = @ \ {p}]
  /\ UNCHANGED <<running, known, session, pending, legs, sealed, ui, told,
                 minted, drawn, faults, ghosts>>

\* What a new process starts from, apart from what state.json holds.
Forget(n) ==
  /\ known' = [known EXCEPT ![n] = {}]
  /\ pending' = [pending EXCEPT ![n] = [p \in Nodes |-> <<>>]]
  /\ shown' = [shown EXCEPT ![n] = [p \in Nodes |-> <<>>]]
  /\ receipted' = [receipted EXCEPT ![n] = {}]
  /\ status' = [status EXCEPT ![n] = [i \in Ids |-> NotShown]]
  /\ told' = [told EXCEPT ![n] = [p \in Nodes |-> FALSE]]

\* The process is restarted: identity and block list are loaded, the rest is new.
Restart(n) ==
  /\ running[n] /\ faults > 0
  /\ faults' = faults - 1
  /\ Forget(n)
  /\ session' = [session EXCEPT ![n] = [p \in Nodes |-> NoSession]]
  /\ UNCHANGED <<running, blocked, legs, sealed, minted, drawn, ghosts>>

\* The wipe command: MeshService::wipe removes the sessions of the peers it
\* still lists, then everything else; App::wipe; the client quits.
Wipe(n) ==
  /\ running[n] /\ n \in Wipers
  /\ running' = [running EXCEPT ![n] = FALSE]
  /\ blocked' = [blocked EXCEPT ![n] = {}]
  /\ session' = [session EXCEPT ![n] =
                   [p \in Nodes |-> IF p \in known[n] THEN NoSession ELSE @[p]]]
  /\ Forget(n)
  /\ UNCHANGED <<legs, sealed, minted, drawn, faults, ghosts>>
-----------------------------------------------------------------------------
(* The mesh *)

Arrive ==
  /\ \/ \E f \in legs : ReceiveLeg(f, FALSE)
     \/ \E f \in sealed : ReceiveSealed(f, FALSE)
  /\ UNCHANGED faults

\* A copy arrives and another is still under way.
ArriveTwice ==
  /\ faults > 0 /\ faults' = faults - 1
  /\ \/ \E f \in legs : ReceiveLeg(f, TRUE)
     \/ \E f \in sealed : ReceiveSealed(f, TRUE)

Lose ==
  /\ faults > 0 /\ faults' = faults - 1
  /\ \/ \E f \in legs : legs' = legs \ {f} /\ UNCHANGED sealed
     \/ \E f \in sealed : sealed' = sealed \ {f} /\ UNCHANGED legs
  /\ UNCHANGED <<running, known, blocked, session, pending, ui, told, minted,
                 drawn, ghosts>>

Next ==
  \/ \E n, p \in Nodes :
       \/ HearAnnounce(n, p) \/ LosePeer(n, p)
       \/ \E k \in 1 .. MaxChunks :
            \/ SendOnChannel(n, p, k) \/ SendAndOpen(n, p, k) \/ SendRefused(n, p, k)
       \/ ViewConversation(n, p)
       \/ Block(n, p) \/ Unblock(n, p)
  \/ \E n \in Nodes : Restart(n) \/ Wipe(n)
  \/ Arrive \/ ArriveTwice \/ Lose

Spec == Init /\ [][Next]_vars

\* The link task delivers what is queued on it, and the client loop drains it.
FairSpec == Spec /\ WF_vars(Arrive)
-----------------------------------------------------------------------------
(* Properties *)

\* No cipher ever seals two different bodies under one nonce, across sends,
\* drained queues, receipts and re-established sessions.
NoNonceReuse ==
  \A x, y \in sealLog : (x.cipher = y.cipher /\ x.nonce = y.nonce) => x = y

\* A queued or sent record is sealed at most once in its life: never once from
\* the queue and once more on a later channel.
SealedOnce ==
  \A x, y \in sealLog :
    (x.body = y.body /\ x.body.kind = "PrivateMessage") => x = y

\* A record is shown to its reader at most once, whatever the mesh duplicates
\* and however often sessions are torn down and rebuilt.
ShownOnce == \A id \in Ids : opened[id] <= 1

\* Each once: a nonce of a cipher, a record in its sealing, a record on its reader's screen,
\* whatever the mesh repeats and however often sessions are torn down and rebuilt.
EachOnce == NoNonceReuse /\ SealedOnce /\ ShownOnce

\* Once a channel is up nothing for that peer is left in the queue: a message
\* queued during the handshake left with its completion.
NothingQueuedBehindChannel ==
  \A n, p \in Nodes : HasEstablishedSession(session[n][p]) => pending[n][p] = <<>>

\* A blocked peer is neither listed nor reachable: no session with it exists
\* and no half of a handshake with it is in progress.
BlockedPeerHasNoChannel ==
  \A n, p \in Nodes : p \in blocked[n] => session[n][p] = NoSession /\ p \notin known[n]

\* A tick on our own line means the peer's client really showed the record.
TickMeansShown ==
  \A n \in Nodes, id \in Ids : status[n][id] >= Delivered => opened[id] > 0

\* Two established sessions that agree on a key are the two ends of one
\* handshake: opposite roles, and neither has accepted a nonce the other's
\* send cipher has not produced yet.
EndsAgree ==
  \A n, p \in Nodes :
    LET s == session[n][p]
        t == session[p][n]
    IN (HasEstablishedSession(s) /\ HasEstablishedSession(t) /\ s.key = t.key)
         => /\ s.role # t.role
            /\ \A i \in s.rx.seen : i < t.nonce

\* A delivery status never goes back while the line is on screen
\* (mark_delivery: a late Delivered must not undo a Read).
StatusOnlyRises ==
  [][\A n \in Nodes, id \in Ids :
       status'[n][id] >= status[n][id] \/ status'[n][id] = NotShown]_vars

\* What dm_frames promises: a message queued behind a handshake goes out by
\* itself, the user never has to send it twice.
QueuedGoesOut ==
  \A n, p \in Nodes : pending[n][p] # <<>> ~> pending[n][p] = <<>>

\* A queued message goes out, or the user has been told of a failed handshake
\* with that peer: on a mesh that loses nothing, the first thing to go wrong is
\* never silent, whichever side it happens on.
QueuedGoesOutOrTold ==
  \A n, p \in Nodes :
    pending[n][p] # <<>> ~> (pending[n][p] = <<>> \/ told[n][p])

\* What handle_noise_handshake promises when it clears a failed session: the
\* next try starts clean instead of failing for ever.  An attempt to open a
\* channel ends, with the channel up or with the failure reported.
TriesEnd ==
  \A n, p \in Nodes :
    LET Trying == /\ session[n][p].state = "Handshaking"
                  /\ session[n][p].role = "Initiator"
                  /\ ~session[n][p].spoilt
    IN Trying ~> ~Trying

\* What wipe promises: every session is forgotten.
WipeForgetsSessions ==
  \A n, p \in Nodes : ~running[n] => session[n][p] = NoSession
=============================================================================
