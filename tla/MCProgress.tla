----------------------------- MODULE MCProgress -----------------------------
(***************************************************************************)
(* What has to happen in the end, under the fairness that the loops and    *)
(* tasks of the client justify: floods end and reach everyone, shelved     *)
(* mail and wraps are delivered, histories are passed on, what a gateway   *)
(* holds goes out, images load or fail, live peers are linked, mining      *)
(* ends.                                                                   *)
(***************************************************************************)
EXTENDS Naturals, Sequences

CONSTANTS None, letter

\* A triangle with a tail, and with a longer one.
Loop == {{"a", "b"}, {"a", "c"}, {"b", "c"}, {"c", "d"}}
Kite == Loop \cup {{"d", "e"}}

Packet(from, i) == [origin |-> from, to |-> "all", kind |-> "Message", num |-> i]
TwoOfOne == {Packet("d", 1), Packet("d", 2)}
Crossing == {Packet("a", 1), Packet("e", 1)}

Line(id, text, at, kind, valid) == [id |-> id, text |-> text, cell |-> "9q", at |-> at, kind |-> kind, valid |-> valid]
Lines == {Line("e1", "t1", 1, "chat", TRUE), Line("e4", "t4", 4, "presence", TRUE), Line("e5", "t5", 5, "chat", FALSE)}

Deposit(id, valid, fits) == [id |-> id, cell |-> "9q", at |-> 0, valid |-> valid, fits |-> fits]
Deposits == {Deposit("e1", TRUE, TRUE), Deposit("bad", FALSE, TRUE), Deposit("big", TRUE, FALSE)}

VARIABLES
  part,  \* the component that moves
  relayLinks, wire, relaySeen, order, relaySent, heard, carried,
  here, listed, postEnabled, postHeld, disk, air, opened, written, postShown, repeats, postNow,
  relay, file, wraps, letters, echo, blocked, nostrShown, ever, acked, failures, starts, wiped,
  stored, tasks, raw, poolSeen, backlog, sampled, carrying, passed, heat, offered, spawned,
  losses, got, ended, early, old,
  gatewayNow, gatewayEnabled, fromMesh, published, rebroadcast, deposits, broadcasts,
  gatewayHeld, up, ready, joined, relayed, gatewaySent, aired,
  talk, viewerLinks, index, open, load, pending, cache, fetching, steps, burst, posted,
  pc, wait, linked, cooling, queue, attempted, dialTarget, before, rescan, mishaps,
  miningTarget, tries, id, clock, created, phase, late

relayVars == <<relayLinks, wire, relaySeen, order, relaySent, heard, carried>>
postVars == <<here, listed, postEnabled, postHeld, disk, air, opened, written, postShown,
              repeats, postNow>>
nostrVars == <<relay, file, wraps, letters, echo, blocked, nostrShown, ever, acked, failures,
               starts, wiped>>
poolVars == <<stored, tasks, raw, poolSeen, backlog, sampled, carrying, passed, heat, offered,
              spawned, losses, got, ended, early, old>>
gatewayVars == <<gatewayNow, gatewayEnabled, fromMesh, published, rebroadcast, deposits,
                 broadcasts, gatewayHeld, up, ready, joined, relayed, gatewaySent, aired>>
viewerVars == <<talk, viewerLinks, index, open, load, pending, cache, fetching, steps, burst,
                posted>>
dialVars == <<pc, wait, linked, cooling, queue, attempted, dialTarget, before, rescan, mishaps>>
miningVars == <<miningTarget, tries, id, clock, created, phase, late>>

\* Two broadcasts for a memory of one; e is out of reach.
Burst == INSTANCE Relay WITH
  Nodes <- {"a", "b", "c", "d", "e"}, Edges <- Loop, Packets <- TwoOfOne, Broadcast <- "all",
  MaxTtl <- 4, SendTtls <- {4}, ForwardedLimit <- 1, LinkFailures <- 0, links <- relayLinks,
  seen <- relaySeen, sent <- relaySent

\* Broadcasts from two ends; what e gets depends on the race at c.
Reach == INSTANCE Relay WITH
  Nodes <- {"a", "b", "c", "d", "e"}, Edges <- Kite, Packets <- Crossing, Broadcast <- "all",
  MaxTtl <- 4, SendTtls <- {4}, ForwardedLimit <- 2, LinkFailures <- 0, links <- relayLinks,
  seen <- relaySeen, sent <- relaySent

\* Two letters; nobody walks away for good or restarts, and midnight passes.
Post == INSTANCE PostOffice WITH
  Nodes <- {"alice", "bob", "office"}, Offices <- {"office"}, Letters <- {"l1", "l2"},
  Author <- [l \in {"l1", "l2"} |-> "alice"], Recipient <- [l \in {"l1", "l2"} |-> "bob"],
  Mutual <- {<<"office", "alice">>, <<"alice", "office">>}, Blocks <- {}, Movers <- {},
  Restarters <- {}, MaxHeld <- 3, MaxVerifiedHeld <- 1, MaxPerFavourite <- 2,
  MaxPerVerified <- 1, MaxCopies <- 1, Lifetime <- 2, Slack <- 0, DayLength <- 1, MaxTime <- 1,
  Repeats <- 0, enabled <- postEnabled, held <- postHeld, shown <- postShown, now <- postNow

\* A message, a letter and a wrap that cannot be read, with a restart.
Relayed == INSTANCE NostrMail WITH
  Messages <- {"m1"}, Letters <- {letter}, Junk <- {"j1"}, Capacity <- 5, MaxStarts <- 1,
  MaxFailures <- 1, shown <- nostrShown

\* A line, a beacon and a forged line of a relay that may never end its history.
Pool == INSTANCE RelayPool WITH
  Cells <- {"9q"}, Relays <- {"r1"}, Chats <- Lines, Sampler <- "sampler", SeenLimit <- 8,
  MaxSpawns <- 1, MaxLosses <- 0, seen <- poolSeen

\* A good event, one that does not verify and one too large for the mesh.
Bridge == INSTANCE Gateway WITH
  Peers <- {"p1"}, Events <- Deposits, Cells <- {"9q"}, MaxQueued <- 2, MaxPerPeer <- 2,
  UplinkBudget <- 2, DownlinkBudget <- 1, MaxAge <- 2, MaxTracked <- 2, Window <- 2,
  MaxNow <- 1, now <- gatewayNow, enabled <- gatewayEnabled, held <- gatewayHeld,
  sent <- gatewaySent

\* Two links and a mesh image, with a cache of two.
Images == INSTANCE Viewer WITH
  Urls <- {"u", "v"}, MeshKeys <- {"m"}, Talks <- {"#public"}, Capacity <- 2, MaxFetches <- 2,
  MaxSteps <- 2, None <- None, links <- viewerLinks

\* Two ghosts, one of them with the strongest last signal, and two live peers that are heard.
Dialler == INSTANCE Dialling WITH
  Addresses <- {1, 2, 3, 4}, Ghosts <- {1, 2}, Position <- [a \in 1 .. 4 |-> a],
  Signal <- <<3, 0, 1, 2>>, MaxLinks <- 2, MaxAttempts <- 1, Cooldown <- 8, ScanTime <- 2,
  ScanTimeLinked <- 1, ConnectTime <- 3, BackoffStart <- 1, BackoffMax <- 3, IdlePoll <- 2,
  RescanMin <- 3, RescanMax <- 5, Mishaps <- 3, target <- dialTarget

\* Every fall of the first two bytes of the hash around the target of eight bits.
Miner == INSTANCE Mining WITH
  Bytes <- {0, 1, 3, 64, 255}, Target <- 8, CheckEvery <- 3, MaxClock <- 2,
  target <- miningTarget

\* The values given to the constants are ones the components allow.
ASSUME InstancesAssumption ==
  /\ Burst!RelayAssumption
  /\ Reach!RelayAssumption
  /\ Post!PostOfficeAssumption
  /\ Post!ShelfAssumption
  /\ Relayed!NostrMailAssumption
  /\ Pool!RelayPoolAssumption
  /\ Bridge!GatewayAssumption
  /\ Dialler!DiallingAssumption
  /\ Miner!MiningAssumption
-----------------------------------------------------------------------------
Parts == {"burst", "reach", "post", "relays", "pool", "gateway", "images", "dialler", "miner"}

\* One component moves, in its own initial state; the others rest in theirs.
Init ==
  /\ part \in Parts
  /\ IF part = "reach" THEN Reach!Init ELSE Burst!Init
  /\ Post!Init
  /\ Relayed!Init
  /\ Pool!Init
  /\ Bridge!Init
  /\ Images!Init
  /\ Dialler!Init
  /\ part = "dialler" \/ dialTarget = 1
  /\ Miner!Init
  /\ part = "miner" \/ id = <<0, 0>>

Next ==
  \/ /\ \/ part = "burst" /\ Burst!Next
        \/ part = "reach" /\ Reach!Next
     /\ UNCHANGED <<part, postVars, nostrVars, poolVars, gatewayVars, viewerVars, dialVars, miningVars>>
  \/ /\ part = "post" /\ Post!Next
     /\ UNCHANGED <<part, relayVars, nostrVars, poolVars, gatewayVars, viewerVars, dialVars, miningVars>>
  \/ /\ part = "relays" /\ Relayed!Next
     /\ UNCHANGED <<part, relayVars, postVars, poolVars, gatewayVars, viewerVars, dialVars, miningVars>>
  \/ /\ part = "pool" /\ Pool!Next
     /\ UNCHANGED <<part, relayVars, postVars, nostrVars, gatewayVars, viewerVars, dialVars, miningVars>>
  \/ /\ part = "gateway" /\ Bridge!Next
     /\ UNCHANGED <<part, relayVars, postVars, nostrVars, poolVars, viewerVars, dialVars, miningVars>>
  \/ /\ part = "images" /\ Images!Next
     /\ UNCHANGED <<part, relayVars, postVars, nostrVars, poolVars, gatewayVars, dialVars, miningVars>>
  \/ /\ part = "dialler" /\ Dialler!Next
     /\ UNCHANGED <<part, relayVars, postVars, nostrVars, poolVars, gatewayVars, viewerVars, miningVars>>
  \/ /\ part = "miner" /\ Miner!Next
     /\ UNCHANGED <<part, relayVars, postVars, nostrVars, poolVars, gatewayVars, viewerVars, dialVars>>

vars == <<part, relayVars, postVars, nostrVars, poolVars, gatewayVars, viewerVars, dialVars, miningVars>>

\* The fairness of each component's FairSpec, for the one that moves.
Spec ==
  /\ Init /\ [][Next]_vars
  /\ WF_relayVars(part = "burst" /\ Burst!Arrivals)
  /\ WF_relayVars(part = "reach" /\ Reach!Arrivals)
  /\ WF_postVars(part = "post" /\ \E f \in air : Post!Arrive(f))
  /\ \A n, p \in {"alice", "bob", "office"} : WF_postVars(part = "post" /\ Post!HearAnnounce(n, p))
  /\ \A n \in {"alice", "bob", "office"} : WF_postVars(part = "post" /\ Post!Maintain(n))
  /\ \A w \in Relayed!Wraps :
       WF_nostrVars(part = "relays" /\ (Relayed!OpenWrap(w, TRUE, TRUE) \/ Relayed!OpenWrap(w, TRUE, FALSE)))
  /\ WF_poolVars(part = "pool" /\ Pool!Tick("9q"))
  /\ WF_gatewayVars(part = "gateway" /\ Bridge!Maintain)
  /\ WF_viewerVars(part = "images" /\ Images!ServeRequest)
  /\ WF_viewerVars(part = "images" /\ Images!Draw)
  /\ \A url \in {"u", "v", "m"} : WF_viewerVars(part = "images" /\ Images!FetchEnds(url, FALSE))
  /\ WF_dialVars(part = "dialler" /\ Dialler!DiallerStep)
  /\ WF_miningVars(part = "miner" /\ Miner!Try)
  /\ WF_miningVars(part = "miner" /\ Miner!Deadline)
  /\ WF_miningVars(part = "miner" /\ Miner!Sign)
-----------------------------------------------------------------------------

\* A flood ends even when the memory of forwarded packets overflows, the memory staying
\* consistent, and it reaches everybody within its hops whichever copy wins each race.
FloodDelivers ==
  /\ part = "burst" => Burst!FloodEnds
  /\ part = "reach" => Reach!FloodReachesAll
  /\ [](part = "burst" => Burst!MemoryConsistent)
  /\ [](part = "burst" => Burst!TypeOK)

\* A letter left with a post office reaches its recipient, past midnight too, and every wrap
\* that the relays hold is shown or refused for good.
MailArrives ==
  /\ part = "post" => Post!MailDelivered
  /\ part = "relays" => Relayed!EveryWrapSettled

\* Whatever waits is let go: a history for relays that never end it, deposits for relays that
\* answer again, an offer for the announce that withdraws it, an image for its fetch, and an
\* event for proof of work, whose claim it meets.
WaitingEnds ==
  /\ part = "pool" => Pool!BufferedIsPassed
  /\ part = "gateway" => Bridge!HeldGoesOut /\ Bridge!OfferWithdrawn
  /\ part = "images" => Images!LoadingEnds
  /\ part = "miner" => Miner!MiningEnds
  /\ [](part = "miner" => Miner!HonestClaim)

\* A live peer gets its link although dead entries are tried before it, and one that is heard
\* is not kept waiting for one that was.
PeersLinked ==
  /\ part = "dialler" => Dialler!LivePeerLinked /\ Dialler!HeardPeerLinked
  /\ [](part = "dialler" => Dialler!TypeOK)
=============================================================================
