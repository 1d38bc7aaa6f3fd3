----------------------------- MODULE MCInternet -----------------------------
(***************************************************************************)
(* Runs of the client's internet side: the sockets to the relays, the pool *)
(* that merges what they send, the gateway between relays and mesh, the    *)
(* people of a location channel, and the envelopes of private mail.        *)
(***************************************************************************)
EXTENDS Envelope, TLC

\* The cell and the mailbox share a relay, or each has its own.
SharedRelay == "cell" :> {"r1", "r2"} @@ "mail" :> {"r1"}
OwnRelays == "cell" :> {"r2"} @@ "mail" :> {"r1"}

\* A chat line, and the same line republished.
Republished == {[id |-> id, text |-> "t1", cell |-> "9q", at |-> 1, kind |-> "chat", valid |-> TRUE] : id \in {"e1", "e2"}}

\* Events for the gateway, one of them older.
Event(name, at) == [id |-> name, cell |-> "9q", at |-> at, valid |-> TRUE, fits |-> TRUE]
OneEvent == {Event("e1", 0)}
TwoEvents == {Event("e1", 0), Event("e2", 2)}

VARIABLES
  part,  \* the component that moves
  task, backoff, strays, live, health, told, missed, leaves,
  stored, tasks, raw, seen, backlog, sampled, carrying, passed, heat, offered, spawned, losses,
  got, ended, early, old,
  now, enabled, fromMesh, published, rebroadcast, deposits, broadcasts, held, up, ready,
  joined, relayed, sent, aired,
  next, people, tick, nick, wire, upkeep, lost, met

socketVars == <<task, backoff, strays, live, health, told, missed, leaves>>
poolVars == <<stored, tasks, raw, seen, backlog, sampled, carrying, passed, heat, offered,
              spawned, losses, got, ended, early, old>>
gatewayVars == <<now, enabled, fromMesh, published, rebroadcast, deposits, broadcasts, held,
                 up, ready, joined, relayed, sent, aired>>
geoVars == <<next, people, tick, nick, wire, upkeep, lost, met>>

\* Two subscriptions with a relay in common fall and return in every order.
Notices == INSTANCE RelaySockets WITH
  Keys <- {"cell", "mail"}, Mail <- "mail", RelaysOf <- SharedRelay, MaxBackoff <- 2,
  FlapLimit <- 2, WriteFails <- TRUE, MaxMissed <- 0, MaxStrays <- 1, MaxLeaves <- 1

\* Relays that refuse, drop at once, last and drop.
Backoff == INSTANCE RelaySockets WITH
  Keys <- {"cell", "mail"}, Mail <- "mail", RelaysOf <- OwnRelays, MaxBackoff <- 8,
  FlapLimit <- 2, WriteFails <- FALSE, MaxMissed <- 4, MaxStrays <- 1, MaxLeaves <- 1

\* A line published twice, replayed at every join and reconnection, sampled and left.
Copies == INSTANCE RelayPool WITH
  Cells <- {"9q"}, Relays <- {"r1"}, Chats <- Republished, Sampler <- "sampler",
  SeenLimit <- 8, MaxSpawns <- 2, MaxLosses <- 1

\* Two relays replay, one may lose its socket.
History == INSTANCE RelayPool WITH
  Cells <- {"9q"}, Relays <- {"r1", "r2"}, Chats <- Republished, Sampler <- "sampler",
  SeenLimit <- 3, MaxSpawns <- 1, MaxLosses <- 1

\* Two peers deposit and retry through outages, switches and joins.
Policy == INSTANCE Gateway WITH
  Peers <- {"p1", "p2"}, Events <- OneEvent, Cells <- {"9q"}, MaxQueued <- 2, MaxPerPeer <- 2,
  UplinkBudget <- 2, DownlinkBudget <- 1, MaxAge <- 2, MaxTracked <- 2, Window <- 2,
  MaxNow <- 3

\* Two events of different ages share the budgets, the mailbag and the memories.
Ages == INSTANCE Gateway WITH
  Peers <- {"p1"}, Events <- TwoEvents, Cells <- {"9q"}, MaxQueued <- 2, MaxPerPeer <- 2,
  UplinkBudget <- 2, DownlinkBudget <- 1, MaxAge <- 1, MaxTracked <- 2, Window <- 2,
  MaxNow <- 2

\* Beacons every tick of 60 seconds, of which one in two may be lost.
City == INSTANCE GeoChannels WITH
  Clients <- {"ann", "bob"}, Names <- {"n1"}, Cells <- {"city"}, Coarse <- {"city"},
  PresenceMin <- 1, PresenceMax <- 1, Ttl <- 3, Unnamed <- "unnamed", MaxLost <- 1

\* A cell too fine for beacons.
Block == INSTANCE GeoChannels WITH
  Clients <- {"ann", "bob"}, Names <- {"n1", "n2"}, Cells <- {"block"}, Coarse <- {},
  PresenceMin <- 1, PresenceMax <- 1, Ttl <- 1, Unnamed <- "unnamed", MaxLost <- 0

\* The values given to the constants are ones the components allow.
ASSUME InstancesAssumption ==
  /\ Notices!RelaySocketsAssumption
  /\ Backoff!RelaySocketsAssumption
  /\ Copies!RelayPoolAssumption
  /\ History!RelayPoolAssumption
  /\ Policy!GatewayAssumption
  /\ Ages!GatewayAssumption
  /\ City!GeoAssumption
  /\ Block!GeoAssumption
  /\ EnvelopeAssumption
-----------------------------------------------------------------------------
Parts == {"notices", "backoff", "copies", "history", "policy", "ages", "city", "block", "wrapped"}

\* One component moves, in its own initial state; the others rest in theirs.
MCInit ==
  /\ part \in Parts
  /\ IF part = "backoff" THEN Backoff!Init ELSE Notices!Init
  /\ IF part = "history" THEN History!Init ELSE Copies!Init
  /\ IF part = "ages" THEN Ages!Init ELSE Policy!Init
  /\ IF part = "block" THEN Block!Init ELSE City!Init
  /\ Init
  /\ part \in {"city", "block"} \/ nick = [c \in {"ann", "bob"} |-> "n1"]

MCNext ==
  \/ /\ \/ part = "notices" /\ Notices!Next
        \/ part = "backoff" /\ Backoff!Next
     /\ UNCHANGED <<part, poolVars, gatewayVars, geoVars, vars>>
  \/ /\ \/ part = "copies" /\ Copies!Next
        \/ part = "history" /\ History!Next
     /\ UNCHANGED <<part, socketVars, gatewayVars, geoVars, vars>>
  \/ /\ \/ part = "policy" /\ Policy!Next
        \/ part = "ages" /\ Ages!Next
     /\ UNCHANGED <<part, socketVars, poolVars, geoVars, vars>>
  \/ /\ \/ part = "city" /\ City!Next
        \/ part = "block" /\ Block!Next
     /\ UNCHANGED <<part, socketVars, poolVars, gatewayVars, vars>>
  \/ /\ part = "wrapped" /\ Next
     /\ UNCHANGED <<part, socketVars, poolVars, gatewayVars, geoVars>>

mcvars == <<part, socketVars, poolVars, gatewayVars, geoVars, vars>>

MCSpec == MCInit /\ [][MCNext]_mcvars
-----------------------------------------------------------------------------

\* A host that fails is dialled ever less often until a connection has lasted, and the user
\* hears of it a bounded number of times, whichever tasks report it.
HostsHandled ==
  /\ part = "notices" => Notices!TypeOK /\ Notices!NoticesBounded
  /\ part = "backoff" => Backoff!BackoffGrows

\* Each line is passed on once, whichever relays replay or republish it, and a history closed
\* because every relay has ended holds all that they replayed.
HistoryWhole ==
  /\ part = "copies" => Copies!PassedOnce
  /\ part = "history" => History!TypeOK /\ History!PassedOnce /\ History!EoseMeansAll

\* Somebody who beacons stays listed through single losses and keeps the name once told; in a
\* cell too fine to beacon, only those who spoke are known to be there.
PeopleTruthful ==
  [][/\ part = "city" => (City!TypeOK)' /\ (City!StaysListed)' /\ City!KeepsNameStep
     /\ part = "block" => (Block!FineIsSilent)']_mcvars

\* What this gateway published, what another gateway aired and what it aired itself is never
\* put on the mesh: not when the mailbag goes out after an outage, not for a second copy of a
\* relay; and the mailbag is empty while the mode is off.
NoEcho ==
  [][/\ part = "policy" => (Policy!TypeOK)' /\ (Policy!OffMeansEmpty)' /\ Policy!NoEchoStep
     /\ part = "ages" => Ages!NoEchoStep]_mcvars
=============================================================================
