------------------------------- MODULE Outbox -------------------------------
(***************************************************************************)
(* outbox.rs: messages held for peers that cannot be reached, retried with   *)
(* backoff until they are acknowledged, displaced or abandoned.  The caller  *)
(* (not written yet: the client so far takes only route from this file) is   *)
(* any sequence of calls that retries what due lists.  Time is counted in    *)
(* ticks.                                                                     *)
(***************************************************************************)
EXTENDS Naturals, Sequences, FiniteSets, SequencesExt

CONSTANTS
  Peers,          \* fingerprints
  Messages,       \* message identifiers
  Target,         \* the peer each message is for
  MaxPerPeer,     \* MAX_PER_PEER, 32 in the code
  MaxAge,         \* MAX_AGE, 24 hours
  BaseBackoff,    \* BASE_BACKOFF, 30 seconds
  MaxBackoff,     \* MAX_BACKOFF, 15 minutes
  MaxTime         \* bound: ticks

\* What the values of the constants have to be.
OutboxAssumption ==
  /\ Target \in [Messages -> Peers]
  /\ MaxPerPeer \in Nat \ {0} /\ MaxAge \in Nat /\ MaxTime \in Nat
  /\ BaseBackoff \in Nat /\ MaxBackoff \in Nat

VARIABLES
  queue,      \* Outbox.by_peer
  now,        \* the clock the calls are given
  report      \* what the caller was last told about each message that left

vars == <<queue, now, report>>

\* last is None (0 attempts) or the tick of the last attempt.
Entries == [id : Messages, at : 0 .. MaxTime, attempts : Nat, last : 0 .. MaxTime]

TypeOK ==
  /\ queue \in [Peers -> Seq(Entries)]
  /\ now \in 0 .. MaxTime
  /\ report \in [Messages -> {"New", "Acknowledged", "Abandoned", "Displaced", "Cleared"}]

Init ==
  /\ queue = [p \in Peers |-> <<>>]
  /\ now = 0
  /\ report = [m \in Messages |-> "New"]

IdsIn(q) == {q[i].id : i \in DOMAIN q}
Held(m) == m \in IdsIn(queue[Target[m]])

\* Pending::backoff after the given number of attempts.
Backoff(attempts) ==
  LET exponent == IF attempts = 0 THEN 0 ELSE IF attempts > 17 THEN 16 ELSE attempts - 1
      doubled == BaseBackoff * 2 ^ exponent
  IN IF doubled < MaxBackoff THEN doubled ELSE MaxBackoff

\* due on a message whose last attempt is forgotten.
DueAlways(e) == TRUE

\* Vec::retain: the elements at the positions that stay, in their order.
Rank(kept, i) == Cardinality({x \in kept : x <= i})
Retain(q, kept) ==
  [k \in 1 .. Cardinality(kept) |-> q[CHOOSE i \in kept : Rank(kept, i) = k]]

Due(e) == e.attempts = 0 \/ now - e.last >= Backoff(e.attempts)
Expired(e) == now - e.at >= MaxAge

\* hold without the check for an id already queued.
HoldTwice(m) ==
  LET q == Append(queue[Target[m]], [id |-> m, at |-> now, attempts |-> 0, last |-> 0])
  IN IF Len(q) > MaxPerPeer
     THEN /\ queue' = [queue EXCEPT ![Target[m]] = Tail(q)]
          /\ report' = [report EXCEPT ![Head(q).id] = "Displaced"]
          /\ UNCHANGED now
     ELSE /\ queue' = [queue EXCEPT ![Target[m]] = q]
          /\ UNCHANGED <<now, report>>

\* hold that makes room without saying so.
HoldSilently(m) ==
  LET q == Append(queue[Target[m]], [id |-> m, at |-> now, attempts |-> 0, last |-> 0])
  IN /\ ~Held(m)
     /\ queue' = [queue EXCEPT ![Target[m]] = IF Len(q) > MaxPerPeer THEN Tail(q) ELSE q]
     /\ UNCHANGED <<now, report>>

\* hold: a duplicate id changes nothing; past the cap the oldest is displaced.
Hold(m) ==
  LET q == Append(queue[Target[m]], [id |-> m, at |-> now, attempts |-> 0, last |-> 0])
  IN /\ ~Held(m)
     /\ IF Len(q) > MaxPerPeer
        THEN /\ queue' = [queue EXCEPT ![Target[m]] = Tail(q)]
             /\ report' = [report EXCEPT ![Head(q).id] = "Displaced"]
        ELSE /\ queue' = [queue EXCEPT ![Target[m]] = q]
             /\ UNCHANGED report
     /\ UNCHANGED now

\* mark_attempted that stores when the message is next due.
MarkAttemptedNextDue(m) ==
  \E i \in DOMAIN queue[Target[m]] :
    LET e == queue[Target[m]][i]
    IN /\ e.id = m /\ Due(e) /\ ~Expired(e)
       /\ queue' = [queue EXCEPT ![Target[m]][i] =
            [e EXCEPT !.attempts = @ + 1, !.last = now + Backoff(e.attempts + 1)]]
       /\ UNCHANGED <<now, report>>

\* mark_attempted on a message that due listed.
MarkAttempted(m) ==
  \E i \in DOMAIN queue[Target[m]] :
    LET e == queue[Target[m]][i]
    IN /\ e.id = m /\ Due(e) /\ ~Expired(e)
       /\ queue' = [queue EXCEPT ![Target[m]][i] =
                      [e EXCEPT !.attempts = @ + 1, !.last = now]]
       /\ UNCHANGED <<now, report>>

\* acknowledge: a delivery or read receipt, possibly late and repeated.
Acknowledge(m) ==
  /\ \E i \in DOMAIN queue[Target[m]] :
       /\ queue[Target[m]][i].id = m
       /\ queue' = [queue EXCEPT ![Target[m]] = RemoveAt(@, i)]
  /\ report' = [report EXCEPT ![m] = "Acknowledged"]
  /\ UNCHANGED now

\* expire: everything past its age leaves, and is reported.
Old(q) == {i \in DOMAIN q : Expired(q[i])}
Expire ==
  /\ \E p \in Peers : Old(queue[p]) # {}
  /\ queue' = [p \in Peers |-> Retain(queue[p], DOMAIN queue[p] \ Old(queue[p]))]
  /\ report' = [m \in Messages |->
       IF \E i \in Old(queue[Target[m]]) : queue[Target[m]][i].id = m THEN "Abandoned" ELSE report[m]]
  /\ UNCHANGED now

\* clear, on a wipe.
Clear ==
  /\ \E p \in Peers : queue[p] # <<>>
  /\ report' = [m \in Messages |-> IF Held(m) THEN "Cleared" ELSE report[m]]
  /\ queue' = [p \in Peers |-> <<>>]
  /\ UNCHANGED now

Tick ==
  /\ now < MaxTime
  /\ now' = now + 1
  /\ UNCHANGED <<queue, report>>

Next ==
  \/ \E m \in Messages : Hold(m) \/ MarkAttempted(m) \/ Acknowledge(m)
  \/ Expire \/ Clear \/ Tick

Spec == Init /\ [][Next]_vars
-----------------------------------------------------------------------------
(* Properties *)

\* Each peer's queue is within its cap, oldest message first, and holds no
\* message twice, whatever order holds, acknowledgements and expiries come in.
QueueWellFormed ==
  \A p \in Peers :
    LET q == queue[p]
    IN /\ Len(q) <= MaxPerPeer
       /\ \A i, j \in DOMAIN q : i < j => q[i].at <= q[j].at /\ q[i].id # q[j].id

\* The least time k attempts can take: all the backoffs between them.
LeastWait[k \in Nat] == IF k <= 1 THEN 0 ELSE LeastWait[k - 1] + Backoff(k - 1)

\* Retries are spaced by the doubling, capped backoff over the whole life of a
\* message: its k-th attempt is no earlier than the backoffs before it add up to.
BackoffHolds ==
  \A p \in Peers : \A i \in DOMAIN queue[p] :
    LET e == queue[p][i]
    IN e.attempts > 0 => e.last >= e.at + LeastWait[e.attempts]

\* The queue kept for a peer stays within its cap, oldest first and without doubles, and
\* every retry is as late as the doubling, capped backoffs before it add up to.
QueueKept == TypeOK /\ QueueWellFormed /\ BackoffHolds

\* What the caller can tell: a message is held, or it has been told why not.
Fate == INSTANCE MessageFate WITH
          fate <- [m \in Messages |-> IF Held(m) THEN "Held" ELSE report[m]]

\* No message leaves the queue unreported: the queue implements MessageFate.
NoneVanishes == Fate!Spec
=============================================================================
