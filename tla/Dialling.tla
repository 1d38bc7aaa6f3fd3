------------------------------ MODULE Dialling ------------------------------
(***************************************************************************)
(* Which advertiser the dialler of transport.rs tries next, and when: the    *)
(* scan, the ranking of discovery.rs, the failure log and the waits between  *)
(* passes.  Time is counted in ticks; the sleeps, the scan window and the    *)
(* connect timeout of a dead address are all waits of the one dialler task.  *)
(***************************************************************************)
EXTENDS Naturals, Sequences, FiniteSets, SequencesExt

CONSTANTS
  Addresses,     \* what BlueZ lists: everything it has seen this session
  Ghosts,        \* those whose address has rotated away: connecting hangs
  Position,      \* the order of the addresses as strings
  Signal,        \* their rssi, 0 if none is reported
  MaxLinks,      \* MAX_LINKS
  MaxAttempts,   \* MAX_ATTEMPTS_PER_PASS
  Cooldown,      \* FAILURE_COOLDOWN
  ScanTime,      \* SCAN_TIMEOUT
  ScanTimeLinked,   \* SCAN_TIMEOUT_LINKED
  ConnectTime,   \* CONNECT_RATE_LIMIT and CONNECT_TIMEOUT
  BackoffStart,  \* RECONNECT_BACKOFF_START
  BackoffMax,    \* RECONNECT_BACKOFF_MAX
  IdlePoll,      \* IDLE_POLL
  RescanMin,     \* RESCAN_WITH_LINKS
  RescanMax,     \* RESCAN_MAX
  Mishaps        \* bound: links lost, scans refused and live peers that fail

\* What the values of the constants have to be.
DiallingAssumption ==
  /\ Ghosts \subseteq Addresses
  /\ Position \in [Addresses -> Nat] /\ Signal \in [Addresses -> Nat]
  /\ \A a, b \in Addresses : Position[a] = Position[b] => a = b

VARIABLES
  pc,         \* "pass", "scanning", "ranked" or "connecting"
  wait,       \* ticks left of the current sleep, scan or connect
  linked,     \* LinkSet
  cooling,    \* FailureLog: ticks until an address is forgotten, 0 if it is not there
  queue,      \* what is left of the ranking of this pass
  attempted,  \* connects tried in this pass
  target,     \* the address being connected to
  before,     \* held_before
  rescan,
  mishaps

vars == <<pc, wait, linked, cooling, queue, attempted, target, before, rescan, mishaps>>

TypeOK ==
  /\ pc \in {"pass", "scanning", "ranked", "connecting"}
  /\ wait \in Nat /\ attempted \in 0 .. MaxAttempts
  /\ linked \subseteq Addresses /\ Cardinality(linked) <= MaxLinks
  /\ cooling \in [Addresses -> 0 .. Cooldown]
  /\ queue \in Seq(Addresses) /\ target \in Addresses
  /\ rescan \in RescanMin .. RescanMax

Init ==
  /\ pc = "pass" /\ wait = 0 /\ linked = {} /\ queue = <<>> /\ attempted = 0
  /\ cooling = [a \in Addresses |-> 0]
  /\ target \in Addresses
  /\ before = 0 /\ rescan = RescanMin /\ mishaps = Mishaps

Live == Addresses \ Ghosts
Held == Cardinality(linked)

\* A ranking that forgets which addresses have just failed.
PrecedesBySignal(a, b) ==
  \/ Signal[a] > Signal[b]
  \/ Signal[a] = Signal[b] /\ Position[a] < Position[b]

\* rank: not cooling first, then heard ones by strength, then by address.
Precedes(a, b) ==
  LET Fails(x) == cooling[x] > 0
  IN \/ ~Fails(a) /\ Fails(b)
     \/ Fails(a) = Fails(b) /\ Signal[a] > Signal[b]
     \/ Fails(a) = Fails(b) /\ Signal[a] = Signal[b] /\ Position[a] < Position[b]

Rank(candidates) == SetToSortSeq(candidates, Precedes)

WorthDialling(a) == Held = 0 \/ Signal[a] > 0

Tick ==
  /\ wait > 0 /\ wait' = wait - 1
  /\ cooling' = [a \in Addresses |-> IF cooling[a] > 0 THEN cooling[a] - 1 ELSE 0]
  /\ UNCHANGED <<pc, linked, queue, attempted, target, before, rescan, mishaps>>

\* The head of the loop: poll while every slot is taken, else scan.
StartPass ==
  /\ pc = "pass" /\ wait = 0
  /\ before' = Held
  /\ IF Held >= MaxLinks
     THEN wait' = IdlePoll /\ UNCHANGED pc
     ELSE wait' = (IF Held > 0 THEN ScanTimeLinked ELSE ScanTime) /\ pc' = "scanning"
  /\ UNCHANGED <<linked, cooling, queue, attempted, target, rescan, mishaps>>

ScanFails ==
  /\ pc = "scanning" /\ wait = 0 /\ mishaps > 0
  /\ mishaps' = mishaps - 1 /\ wait' = BackoffMax /\ pc' = "pass"
  /\ UNCHANGED <<linked, cooling, queue, attempted, target, before, rescan>>

ScanEnds ==
  /\ pc = "scanning" /\ wait = 0
  /\ queue' = Rank(Addresses \ linked) /\ attempted' = 0 /\ pc' = "ranked"
  /\ UNCHANGED <<wait, linked, cooling, target, before, rescan, mishaps>>

\* One candidate of the ranking: skipped, or dialled.  A ghost takes the whole
\* timeout, a live peer answers.
Dial ==
  /\ pc = "ranked" /\ wait = 0 /\ queue # <<>>
  /\ Held < MaxLinks /\ attempted < MaxAttempts
  /\ queue' = Tail(queue)
  /\ IF WorthDialling(Head(queue))
     THEN /\ target' = Head(queue) /\ attempted' = attempted + 1 /\ pc' = "connecting"
          /\ wait' = IF Head(queue) \in Ghosts THEN ConnectTime ELSE 1
     ELSE UNCHANGED <<target, attempted, pc, wait>>
  /\ UNCHANGED <<linked, cooling, before, rescan, mishaps>>

Connected ==
  /\ pc = "connecting" /\ wait = 0 /\ target \in Live
  /\ linked' = linked \cup {target} /\ cooling' = [cooling EXCEPT ![target] = 0]
  /\ pc' = "ranked"
  /\ UNCHANGED <<wait, queue, attempted, target, before, rescan, mishaps>>

\* A failure that is not remembered.
FailedUnrecorded ==
  /\ pc = "connecting" /\ wait = 0
  /\ \/ target \in Ghosts /\ UNCHANGED mishaps
     \/ target \in Live /\ mishaps > 0 /\ mishaps' = mishaps - 1
  /\ pc' = "ranked" /\ UNCHANGED cooling
  /\ UNCHANGED <<wait, linked, queue, attempted, target, before, rescan>>

\* A ghost never answers; setting up the link to a live peer may fail too.
Failed ==
  /\ pc = "connecting" /\ wait = 0
  /\ \/ target \in Ghosts /\ UNCHANGED mishaps
     \/ target \in Live /\ mishaps > 0 /\ mishaps' = mishaps - 1
  /\ cooling' = [cooling EXCEPT ![target] = Cooldown] /\ pc' = "ranked"
  /\ UNCHANGED <<wait, linked, queue, attempted, target, before, rescan>>

Doubled(t) == IF 2 * t > RescanMax THEN RescanMax ELSE 2 * t

\* The interval doubled without its ceiling.
EndPassUncapped ==
  /\ pc = "ranked" /\ wait = 0
  /\ queue = <<>> \/ Held >= MaxLinks \/ attempted >= MaxAttempts
  /\ rescan' = IF Held = 0 \/ Held > before THEN RescanMin ELSE 2 * rescan
  /\ wait' = IF Held = 0 THEN BackoffStart ELSE rescan'
  /\ pc' = "pass"
  /\ UNCHANGED <<linked, cooling, queue, attempted, target, before, mishaps>>

EndPass ==
  /\ pc = "ranked" /\ wait = 0
  /\ queue = <<>> \/ Held >= MaxLinks \/ attempted >= MaxAttempts
  /\ rescan' = IF Held = 0 \/ Held > before THEN RescanMin ELSE Doubled(rescan)
  /\ wait' = IF Held = 0 THEN BackoffStart ELSE rescan'
  /\ pc' = "pass"
  /\ UNCHANGED <<linked, cooling, queue, attempted, target, before, mishaps>>

\* A pump ends and takes its link out of the set.
LoseLink(a) ==
  /\ a \in linked /\ mishaps > 0
  /\ linked' = linked \ {a} /\ mishaps' = mishaps - 1
  /\ UNCHANGED <<pc, wait, cooling, queue, attempted, target, before, rescan>>

DiallerStep ==
  Tick \/ StartPass \/ ScanEnds \/ Dial \/ Connected \/ Failed \/ EndPass

Next == DiallerStep \/ ScanFails \/ \E a \in Addresses : LoseLink(a)

Spec == Init /\ [][Next]_vars

\* The dialler task runs and time passes; a scan that works is not refused.
FairSpec == Spec /\ WF_vars(DiallerStep)
-----------------------------------------------------------------------------
\* discovery.rs on the cooldown: a dead entry cannot be retried forever while a
\* live peer sits next to it in the list, so with a live peer listed the client
\* always gets a link again.
LivePeerLinked == Live # {} => []<>(linked # {})

\* A live peer the adapter hears is linked in the end unless every slot is
\* taken, however strong the ghosts' last signal was.
HeardPeerLinked ==
  \A a \in Live : Signal[a] > 0 => []<>(a \in linked \/ Held = MaxLinks)

\* "With nobody, keep looking briskly - that is the whole job": while no
\* link is held, no wait is longer than the longest backoff.
BriskWithNobody == linked = {} => wait <= BackoffMax
=============================================================================
