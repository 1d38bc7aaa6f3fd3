----------------------------- MODULE RelayPool ------------------------------
(***************************************************************************)
(* The supervisor of the relay pool (nostr/client.rs): subscriptions of      *)
(* joined cells and of the map's sampler, the history a relay replays before *)
(* its end-of-stored-events mark, the ring that collapses copies, and what   *)
(* is passed on to the channel.  Relays are external: they hold events and   *)
(* answer a request newest first.  A task that is dropped may leave          *)
(* messages it has already handed to the supervisor.                         *)
(***************************************************************************)
EXTENDS Integers, Sequences, FiniteSets, SequencesExt, TLC

CONSTANTS
  Cells,
  Relays,       \* the relays chosen for every cell
  Chats,        \* events: [id, text, cell, at, kind, valid]
  Sampler,      \* SAMPLER_KEY
  SeenLimit,    \* SEEN_LIMIT
  MaxSpawns,    \* bound: subscriptions made
  MaxLosses     \* bound: sockets lost

\* What the values of the constants have to be.
RelayPoolAssumption ==
  Sampler \notin Cells /\ {SeenLimit, MaxSpawns, MaxLosses} \subseteq Nat

VARIABLES
  stored,    \* relay -> events it holds
  tasks,     \* live tasks: [key, relay, born, open, todo]
  raw,       \* messages of dropped tasks: [key, relay, msg, at]
  seen,      \* seen_order
  backlog,   \* cell -> <<>> or <<[lines, pending]>>
  sampled,   \* sampler_cells
  carrying,
  passed,    \* cell -> GeoEvents sent for the channel, in order
  heat,      \* <<cell, event>> counted for the map
  offered,   \* events offered to the gateway
  spawned, losses,
  got,       \* ghost: cell -> chat handed over by the cell's own subscription since it was joined
  ended,     \* ghost: cell -> relays of this subscription that ended their history
  early,     \* ghost: cells whose history was closed by a mark while a relay had not ended it
  old        \* ghost: cell -> what the relays held when it was joined

vars == <<stored, tasks, raw, seen, backlog, sampled, carrying, passed, heat, offered, spawned, losses,
          got, ended, early, old>>
mainVars == <<stored, sampled, carrying, spawned, losses, old>>

\* GeoEvent::HistoryEnd, a line of its own kind.
Live == [id |-> "", text |-> "", cell |-> "", at |-> 0, kind |-> "divider", valid |-> TRUE]
Eose == [mark |-> TRUE]
Line(e) == [mark |-> FALSE, event |-> e]
Joined == {c \in Cells : \E t \in tasks : t.key = c}

TypeOK ==
  /\ Len(seen) <= SeenLimit /\ IsInjective(seen)
  /\ \A c \in Cells : Len(backlog[c]) <= 1 /\ (backlog[c] # <<>> => c \in Joined)
-----------------------------------------------------------------------------
(* The ring *)

\* A key that is seen again moves to the end, and is there twice.
RememberAgain(ring, id) ==
  LET all == Append(ring, id) IN IF Len(all) > SeenLimit THEN Tail(all) ELSE all

Remember(ring, id) ==
  IF Contains(ring, id) THEN ring
  ELSE LET all == Append(ring, id) IN IF Len(all) > SeenLimit THEN Tail(all) ELSE all

\* Only the id counts.
FreshId(e) == ~Contains(seen, e.id)

\* The id and the content key, both remembered whatever the other says.
Fresh(e) == ~Contains(seen, e.id) /\ ~Contains(Remember(seen, e.id), e.text)
Remembered(e) == IF e.kind = "chat" THEN Remember(Remember(seen, e.id), e.text) ELSE seen
-----------------------------------------------------------------------------
(* History *)

NewestFirst(es) == SortSeq(SetToSeq(es), LAMBDA a, b : a.at > b.at)
OldestFirst(s) == SortSeq(s, LAMBDA a, b : a.at < b.at)

\* The lines go with the backlog.
FlushedNothing(c) == passed[c] \o <<Live>>

\* flush_backlog: oldest first, and the divider when there was chat to divide from.
Flushed(c) ==
  LET lines == SelectSeq(OldestFirst(backlog[c][1].lines), LAMBDA e : e.kind = "chat")
  IN passed[c] \o lines \o (IF lines = <<>> THEN <<>> ELSE <<Live>>)

\* The first mark closes the history.
CompleteAtFirst(c, r) == TRUE

Complete(c, r) == backlog[c][1].pending \subseteq {r}

TakeMark(c, r, current) ==
  /\ ended' = IF current THEN [ended EXCEPT ![c] = @ \cup {r}] ELSE ended
  /\ IF backlog[c] = <<>> THEN UNCHANGED <<backlog, passed, early>>
     ELSE IF Complete(c, r)
     THEN /\ passed' = [passed EXCEPT ![c] = Flushed(c)] /\ backlog' = [backlog EXCEPT ![c] = <<>>]
          /\ early' = IF ended'[c] = Relays THEN early ELSE early \cup {c}
     ELSE /\ backlog' = [backlog EXCEPT ![c][1].pending = @ \ {r}] /\ UNCHANGED <<passed, early>>
  /\ UNCHANGED <<seen, heat, offered, got>>
-----------------------------------------------------------------------------
(* Events *)

TakeSampled(e) ==
  /\ IF e.valid /\ e.cell \in sampled /\ (e.kind = "chat" => Fresh(e))
     THEN heat' = heat \cup {<<e.cell, e>>} ELSE UNCHANGED heat
  /\ seen' = IF e.valid /\ e.cell \in sampled THEN Remembered(e) ELSE seen
  /\ UNCHANGED <<backlog, passed, offered, got, ended, early>>

\* Offered for the mesh when it is live chat; shown, or kept while history is coming in.
\* Beacons are passed on too; what is kept here is the chat.
TakeChannel(c, e) ==
  LET mine == e.valid /\ e.cell = c
      shows == mine /\ (e.kind = "chat" => Fresh(e))
  IN /\ seen' = IF mine THEN Remembered(e) ELSE seen
     /\ got' = IF mine /\ e.kind = "chat" /\ c \in Joined THEN [got EXCEPT ![c] = @ \cup {e}] ELSE got
     /\ offered' = IF shows /\ carrying /\ e.kind = "chat" /\ backlog[c] = <<>>
                   THEN offered \cup {e} ELSE offered
     /\ IF backlog[c] # <<>> THEN
          /\ backlog' = IF shows THEN [backlog EXCEPT ![c][1].lines = Append(@, e)] ELSE backlog
          /\ UNCHANGED passed
        ELSE
          /\ passed' = IF shows /\ e.kind = "chat" THEN [passed EXCEPT ![c] = Append(@, e)] ELSE passed
          /\ UNCHANGED backlog
     /\ UNCHANGED <<heat, ended, early>>

Take(key, r, msg, current) ==
  IF msg.mark
  THEN IF key = Sampler THEN UNCHANGED <<seen, backlog, passed, heat, offered, got, ended, early>>
       ELSE TakeMark(key, r, current)
  ELSE IF key = Sampler THEN TakeSampled(msg.event) ELSE TakeChannel(key, msg.event)

\* What a dropped task left comes before anything of a task spawned after the drop.
Handle(t) ==
  /\ t \in tasks /\ t.todo # <<>> /\ \A i \in DOMAIN raw : t.born < raw[i].at
  /\ tasks' = (tasks \ {t}) \cup {[t EXCEPT !.todo = Tail(@)]}
  /\ Take(t.key, t.relay, Head(t.todo), TRUE)
  /\ UNCHANGED <<raw, mainVars>>

HandleLeft ==
  /\ raw # <<>> /\ raw' = Tail(raw)
  /\ Take(Head(raw).key, Head(raw).relay, Head(raw).msg, FALSE)
  /\ UNCHANGED <<tasks, mainVars>>

\* The ticker: the deadline of a history has passed.
Tick(c) ==
  /\ backlog[c] # <<>>
  /\ passed' = [passed EXCEPT ![c] = Flushed(c)] /\ backlog' = [backlog EXCEPT ![c] = <<>>]
  /\ UNCHANGED <<tasks, raw, seen, heat, offered, got, ended, early, mainVars>>
-----------------------------------------------------------------------------
(* Commands *)

Of(key) == {t \in tasks : t.key = key}
Spawn(key) == {[key |-> key, relay |-> r, born |-> spawned, open |-> FALSE, todo |-> <<>>] : r \in Relays}

\* The sockets close; of what they had read, the supervisor may have a part already.
Left(key, n) ==
  LET parts == [t \in Of(key) |-> [i \in 1..(IF Len(t.todo) < n THEN Len(t.todo) ELSE n) |->
                  [key |-> key, relay |-> t.relay, msg |-> t.todo[i], at |-> spawned]]]
  IN raw \o FoldLeft(LAMBDA acc, t : acc \o parts[t], <<>>, SetToSeq(Of(key)))

Subscribe(c) ==
  /\ c \notin Joined /\ spawned < MaxSpawns /\ spawned' = spawned + 1
  /\ tasks' = tasks \cup Spawn(c)
  /\ backlog' = [backlog EXCEPT ![c] = <<[lines |-> <<>>, pending |-> Relays]>>]
  /\ got' = [got EXCEPT ![c] = {}] /\ ended' = [ended EXCEPT ![c] = {}]
  /\ old' = [old EXCEPT ![c] = UNION {stored[r] : r \in Relays}]
  /\ UNCHANGED <<stored, raw, seen, sampled, carrying, passed, heat, offered, losses, early>>

Unsubscribe(c, n) ==
  /\ c \in Joined
  /\ tasks' = tasks \ Of(c) /\ raw' = Left(c, n) /\ backlog' = [backlog EXCEPT ![c] = <<>>]
  /\ UNCHANGED <<seen, passed, heat, offered, got, ended, early, mainVars>>

Sample(cells) ==
  /\ spawned < MaxSpawns /\ spawned' = spawned + 1
  /\ tasks' = (tasks \ Of(Sampler)) \cup Spawn(Sampler) /\ raw' = Left(Sampler, 1) /\ sampled' = cells
  /\ UNCHANGED <<stored, seen, backlog, carrying, passed, heat, offered, losses, got, ended, early, old>>

StopSampling ==
  /\ Of(Sampler) # {} /\ tasks' = tasks \ Of(Sampler) /\ raw' = Left(Sampler, 1) /\ sampled' = {}
  /\ UNCHANGED <<stored, seen, backlog, carrying, passed, heat, offered, spawned, losses, got, ended, early, old>>

SetCarrying ==
  /\ carrying' = ~carrying
  /\ UNCHANGED <<stored, tasks, raw, seen, backlog, sampled, passed, heat, offered, spawned, losses,
                 got, ended, early, old>>
-----------------------------------------------------------------------------
(* Relays *)

Watches(t, e) == e.cell = t.key \/ (t.key = Sampler /\ e.cell \in sampled)

Post(e, rs) ==
  /\ \A r \in Relays : e \notin stored[r]
  /\ stored' = [r \in Relays |-> IF r \in rs THEN stored[r] \cup {e} ELSE stored[r]]
  /\ tasks' = {IF t.open /\ t.relay \in rs /\ Watches(t, e) THEN [t EXCEPT !.todo = Append(@, Line(e))] ELSE t :
                 t \in tasks}
  /\ UNCHANGED <<raw, seen, backlog, sampled, carrying, passed, heat, offered, spawned, losses,
                 got, ended, early, old>>

\* Connected: the filter goes out, what is stored comes back newest first, then the mark.
Answer(t) ==
  /\ t \in tasks /\ ~t.open
  /\ tasks' = (tasks \ {t}) \cup {[t EXCEPT !.open = TRUE,
       !.todo = [i \in 1..Cardinality({e \in stored[t.relay] : Watches(t, e)}) |->
                   Line(NewestFirst({e \in stored[t.relay] : Watches(t, e)})[i])] \o <<Eose>>]}
  /\ UNCHANGED <<raw, seen, backlog, passed, heat, offered, got, ended, early, mainVars>>

\* The socket is lost with what was on it; the task connects again.
Lose(t) ==
  /\ t \in tasks /\ t.open /\ losses < MaxLosses /\ losses' = losses + 1
  /\ tasks' = (tasks \ {t}) \cup {[t EXCEPT !.open = FALSE, !.todo = <<>>]}
  /\ UNCHANGED <<stored, raw, seen, backlog, sampled, carrying, passed, heat, offered, spawned,
                 got, ended, early, old>>
-----------------------------------------------------------------------------
Init ==
  /\ stored = [r \in Relays |-> {}] /\ tasks = {} /\ raw = <<>> /\ seen = <<>>
  /\ backlog = [c \in Cells |-> <<>>] /\ sampled = {} /\ carrying = FALSE
  /\ passed = [c \in Cells |-> <<>>] /\ heat = {} /\ offered = {} /\ spawned = 0 /\ losses = 0
  /\ got = [c \in Cells |-> {}] /\ ended = [c \in Cells |-> {}] /\ early = {}
  /\ old = [c \in Cells |-> {}]

Next ==
  \/ \E t \in tasks : Handle(t) \/ Answer(t) \/ Lose(t)
  \/ HandleLeft
  \/ \E c \in Cells : Tick(c) \/ Subscribe(c) \/ \E n \in 0..1 : Unsubscribe(c, n)
  \/ Sample(Cells) \/ StopSampling \/ SetCarrying
  \/ \E e \in Chats, rs \in SUBSET Relays : rs # {} /\ Post(e, rs)

Spec == Init /\ [][Next]_vars

\* The ticker runs every quarter of a second.
FairSpec == Spec /\ \A c \in Cells : WF_vars(Tick(c))
-----------------------------------------------------------------------------
Lines(c) == {i \in DOMAIN passed[c] : passed[c][i].kind # "divider"}
Texts(c) == {passed[c][i].text : i \in Lines(c)}
Chat(s) == SelectSeq(s, LAMBDA e : e.kind = "chat")
Kept(c) == IF backlog[c] = <<>> THEN {} ELSE {Chat(backlog[c][1].lines)[i].text : i \in DOMAIN Chat(backlog[c][1].lines)}

\* A text is passed on once to its channel, however many relays hold it, under however many ids,
\* and however often the sockets and the subscription come and go.
PassedOnce ==
  \A c \in Cells : \A i, j \in Lines(c) :
    passed[c][i].text = passed[c][j].text => i = j

\* When marks close the history, every relay of the subscription has ended its own.
EoseMeansAll == early = {}

\* What is buffered is passed on, even when a relay never ends its history, unless the
\* channel is left.
BufferedIsPassed ==
  \A c \in Cells, e \in Chats :
    (e.text \in Kept(c)) ~> (e.text \in Texts(c) \/ c \notin Joined)

\* What the joined channel's own subscription hands over is passed on or waiting for it.
NothingSwallowed ==
  \A c \in Joined : \A e \in got[c] : e.text \in Texts(c) \cup Kept(c)

\* After the divider comes nothing that was already stored when the channel was joined.
DividerTruthful ==
  \A c \in Cells : \A i, j \in DOMAIN passed[c] :
    i < j /\ passed[c][i].kind = "divider" /\ passed[c][j].kind # "divider" => passed[c][j] \notin old[c]
=============================================================================
