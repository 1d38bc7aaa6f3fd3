---------------------------- MODULE RelaySockets ----------------------------
(***************************************************************************)
(* The sockets of the relay pool (relay_task of nostr/client.rs), one task   *)
(* per subscription and relay, and what the main loop makes of the           *)
(* connections and failures they report: the relays it believes alive and    *)
(* what nostr/health.rs tells the user.  A task whose subscription ends goes *)
(* on with the dial or the sleep it is in.                                   *)
(***************************************************************************)
EXTENDS Integers, FiniteSets, FiniteSetsExt

CONSTANTS
  Keys,         \* subscriptions: cells and the one for private mail
  Mail,         \* the key of private mail, which is never left
  RelaysOf,     \* key -> relays chosen for it
  MaxBackoff,   \* RECONNECT_BACKOFF_MAX in units of RECONNECT_BACKOFF_START
  FlapLimit,    \* FLAP_LIMIT
  WriteFails,   \* whether the first write on a new socket may fail
  MaxMissed,    \* bound: attempts counted
  MaxStrays,    \* bound: tasks without a subscription
  MaxLeaves     \* bound: subscriptions ended

\* What the values of the constants have to be.
RelaySocketsAssumption ==
  Mail \in Keys /\ {MaxBackoff, FlapLimit, MaxMissed, MaxStrays, MaxLeaves} \subseteq Nat

Relays == UNION {RelaysOf[k] : k \in Keys}
Sockets == UNION {{k} \X RelaysOf[k] : k \in Keys}

VARIABLES
  task,     \* socket -> phase of its task
  backoff,  \* socket -> what the task sleeps next
  strays,   \* relay -> tasks without a subscription, dialling or asleep
  live,     \* live_relays
  health,   \* relay -> [down, falls, muted]
  told,     \* ghost: relay -> notices shown
  missed,   \* ghost: socket -> attempts since the last connection that lasted
  leaves

vars == <<task, backoff, strays, live, health, told, missed, leaves>>

Phases == {"none", "dialling", "open", "lasting", "asleep"}
Start == 1

TypeOK ==
  /\ task \in [Sockets -> Phases] /\ backoff \in [Sockets -> 1..MaxBackoff]
  /\ live \subseteq Relays
  /\ \A r \in Relays : Cardinality(strays[r]) <= MaxStrays
-----------------------------------------------------------------------------
(* nostr/health.rs *)

FellOver(h) ==
  IF h.down THEN h
  ELSE [down |-> TRUE, falls |-> Min({h.falls + 1, FlapLimit + 1}),   \* counted as far as it is asked
        muted |-> h.muted \/ h.falls + 1 > FlapLimit]

Recovered(h) == [h EXCEPT !.down = FALSE]

\* Every failure the pool reports is a line.
SaidOfFallAlways(h) == 1

\* Down, or once Unstable; silent while it is known to be down and when muted.
SaidOfFall(h) == IF h.down \/ h.muted THEN 0 ELSE 1
SaidOfRecovery(h) == IF h.down /\ ~h.muted THEN 1 ELSE 0
-----------------------------------------------------------------------------
(* The events as the main loop applies them *)

ReportFailed(r) ==
  /\ live' = live \ {r}
  /\ told' = [told EXCEPT ![r] = @ + SaidOfFall(health[r])]
  /\ health' = [health EXCEPT ![r] = FellOver(@)]

ReportConnected(r) ==
  /\ live' = live \cup {r}
  /\ told' = [told EXCEPT ![r] = @ + SaidOfRecovery(health[r])]
  /\ health' = [health EXCEPT ![r] = Recovered(@)]

Silent == UNCHANGED <<live, told, health>>
-----------------------------------------------------------------------------
(* relay_task *)

Move(s, from, to) == task[s] = from /\ task' = [task EXCEPT ![s] = to]
Missed(s) == missed' = [missed EXCEPT ![s] = Min({@ + 1, MaxMissed})]

\* The moment a socket opens, it counts as having worked.
ConnectResetting(s) ==
  /\ Move(s, "dialling", "open") /\ ReportConnected(s[2])
  /\ backoff' = [backoff EXCEPT ![s] = Start]
  /\ UNCHANGED <<strays, missed, leaves>>

Connect(s) ==
  /\ Move(s, "dialling", "open") /\ ReportConnected(s[2])
  /\ UNCHANGED <<backoff, strays, missed, leaves>>

\* The socket opened and the subscription could not be written: dialled again at once.
RequestFails(s) ==
  /\ WriteFails /\ task[s] = "dialling" /\ ReportConnected(s[2]) /\ Missed(s)
  /\ UNCHANGED <<task, backoff, strays, leaves>>

Refuse(s) ==
  /\ Move(s, "dialling", "asleep") /\ ReportFailed(s[2]) /\ Missed(s)
  /\ UNCHANGED <<backoff, strays, leaves>>

\* STABLE_CONNECTION has passed.
Last(s) == Move(s, "open", "lasting") /\ Silent /\ UNCHANGED <<backoff, strays, missed, leaves>>

\* The socket is gone: a failure when it did not last, otherwise only a new start.
Drop(s) ==
  \/ Move(s, "open", "asleep") /\ ReportFailed(s[2]) /\ Missed(s) /\ UNCHANGED <<backoff, strays, leaves>>
  \/ /\ Move(s, "lasting", "asleep") /\ Silent
     /\ backoff' = [backoff EXCEPT ![s] = Start] /\ missed' = [missed EXCEPT ![s] = 0]
     /\ UNCHANGED <<strays, leaves>>

\* The curve has no cap.
WakeUncapped(s) ==
  /\ Move(s, "asleep", "dialling")
  /\ backoff' = [backoff EXCEPT ![s] = 2 * @]
  /\ Silent /\ UNCHANGED <<strays, missed, leaves>>

\* The sleep is over; the next one is twice as long.
Wake(s) ==
  /\ Move(s, "asleep", "dialling")
  /\ backoff' = [backoff EXCEPT ![s] = Min({2 * @, MaxBackoff})]
  /\ Silent /\ UNCHANGED <<strays, missed, leaves>>
-----------------------------------------------------------------------------
(* The supervisor *)

Subscribe(k) ==
  /\ \A r \in RelaysOf[k] : task[<<k, r>>] = "none"
  /\ task' = [s \in Sockets |-> IF s[1] = k THEN "dialling" ELSE task[s]]
  /\ backoff' = [s \in Sockets |-> IF s[1] = k THEN Start ELSE backoff[s]]
  /\ missed' = [s \in Sockets |-> IF s[1] = k THEN 0 ELSE missed[s]]
  /\ Silent /\ UNCHANGED <<strays, leaves>>

\* An open task closes without a word; the others are left to themselves.
Unsubscribe(k) ==
  LET alone(r) == task[<<k, r>>] \in {"dialling", "asleep"}
  IN /\ k # Mail /\ leaves < MaxLeaves /\ \E r \in RelaysOf[k] : task[<<k, r>>] # "none"
     /\ \A r \in RelaysOf[k] : alone(r) => Cardinality(strays[r]) < MaxStrays
     /\ task' = [s \in Sockets |-> IF s[1] = k THEN "none" ELSE task[s]]
     /\ strays' = [r \in Relays |->
          IF r \in RelaysOf[k] /\ alone(r) THEN strays[r] \cup {<<leaves, task[<<k, r>>]>>} ELSE strays[r]]
     /\ leaves' = leaves + 1
     /\ Silent /\ UNCHANGED <<backoff, missed>>

\* A task without a subscription wakes and dials once more; when the dial is answered it
\* reports the connection and closes, when it is refused it reports that and ends.
Stray(r, t) ==
  /\ t \in strays[r]
  /\ \/ /\ t[2] = "asleep" /\ strays' = [strays EXCEPT ![r] = (@ \ {t}) \cup {<<t[1], "dialling">>}]
        /\ Silent
     \/ /\ t[2] = "dialling" /\ strays' = [strays EXCEPT ![r] = @ \ {t}]
        /\ (ReportConnected(r) \/ ReportFailed(r))
  /\ UNCHANGED <<task, backoff, missed, leaves>>

Init ==
  /\ task = [s \in Sockets |-> IF s[1] = Mail THEN "dialling" ELSE "none"]
  /\ backoff = [s \in Sockets |-> Start] /\ strays = [r \in Relays |-> {}]
  /\ live = {} /\ health = [r \in Relays |-> [down |-> FALSE, falls |-> 0, muted |-> FALSE]]
  /\ told = [r \in Relays |-> 0] /\ missed = [s \in Sockets |-> 0] /\ leaves = 0

Next ==
  \/ \E s \in Sockets : Connect(s) \/ RequestFails(s) \/ Refuse(s) \/ Last(s) \/ Drop(s) \/ Wake(s)
  \/ \E k \in Keys : Subscribe(k) \/ Unsubscribe(k)
  \/ \E r \in Relays : \E t \in strays[r] : Stray(r, t)

Spec == Init /\ [][Next]_vars

-----------------------------------------------------------------------------
\* However often a relay falls and returns, on however many subscriptions, the user reads at
\* most one line for each fall and each return until FLAP_LIMIT, and one more.
NoticesBounded == \A r \in Relays : told[r] <= 2 * FlapLimit + 1

\* A relay that accepts connections and drops them is dialled as rarely as one that is dead.
BackoffGrows ==
  \A s \in Sockets : task[s] \in {"open", "dialling"} =>
    backoff[s] >= Min({2 ^ missed[s], MaxBackoff})

\* A relay that is believed alive has a task that would report its failure (the offer to be
\* a gateway rests on that belief).
LiveIsWatched == \A r \in live : strays[r] # {} \/ \E s \in Sockets : s[2] = r /\ task[s] # "none"

\* While a socket is open, some relay is believed alive.
OpenMeansLive == (\E s \in Sockets : task[s] \in {"open", "lasting"}) => live # {}
=============================================================================
