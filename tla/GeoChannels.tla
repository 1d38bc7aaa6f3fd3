---------------------------- MODULE GeoChannels -----------------------------
(***************************************************************************)
(* Location channels (geo.rs and its callers in main.rs): every client has a *)
(* key of its own for every cell, beacons its presence in coarse cells, and  *)
(* lists the keys it heard from.  Relays hand an event to everyone who has   *)
(* joined the cell, its author included.  The upkeep runs at every tick, and *)
(* what is on its way arrives or is lost within the tick (an author's own    *)
(* events always come back).                                                 *)
(***************************************************************************)
EXTENDS Integers, Sequences, FiniteSets, Functions

CONSTANTS
  Clients, Names,
  Cells,
  Coarse,        \* cells of a length in PRESENCE_PRECISIONS
  PresenceMin,   \* PRESENCE_MIN
  PresenceMax,   \* PRESENCE_MAX
  Ttl,           \* PARTICIPANT_TTL
  Unnamed,       \* no nickname told yet
  MaxLost        \* beacons of one client a listener may miss in a row

\* What the values of the constants have to be.
GeoAssumption ==
  /\ Coarse \subseteq Cells /\ Unnamed \notin Names /\ PresenceMin <= PresenceMax
  /\ {PresenceMin, PresenceMax, Ttl, MaxLost} \subseteq Nat

VARIABLES
  next,     \* client -> joined cell -> time until next_presence
  people,   \* client -> joined cell -> key -> [nick, age], age since last_seen
  tick,     \* client -> presence_tick
  nick,     \* client -> its nickname
  wire,     \* events on their way: [to, cell, key, nick]
  upkeep,   \* clients whose upkeep has run in this tick
  lost,     \* <<listener, author, cell>> -> events missed in a row
  met       \* ghost: <<listener, author, cell>> heard while both are in the cell

vars == <<next, people, tick, nick, wire, upkeep, lost, met>>

\* The key of a client in a cell.
KeyFor(c, cell) == <<c, cell>>
Keys == Clients \X Cells

Joined(c) == DOMAIN next[c]

TypeOK ==
  /\ \A c \in Clients : Joined(c) \subseteq Cells /\ DOMAIN people[c] = Joined(c)
  /\ \A c \in Clients : \A cell \in Joined(c) :
       \A k \in DOMAIN people[c][cell] : k \in Keys /\ k[2] = cell /\ people[c][cell][k].age <= Ttl
-----------------------------------------------------------------------------
(* geo.rs *)

Interval(c) == PresenceMin + (tick[c] % (PresenceMax - PresenceMin + 1))

\* Every joined cell is beaconed.
DueEverywhere(c) == {cell \in Joined(c) : next[c][cell] = 0}

Due(c) == {cell \in Joined(c) \cap Coarse : next[c][cell] = 0}

\* Any event refreshes an entry, and overwrites the name.
NotedBlank(list, e) == [k \in DOMAIN list \cup {e.key} |-> IF k = e.key THEN [nick |-> e.nick, age |-> 0] ELSE list[k]]

\* note_activity: a beacon carries no name and leaves the one we were told.
Noted(list, e) ==
  [k \in DOMAIN list \cup {e.key} |->
     IF k # e.key THEN list[k]
     ELSE [nick |-> IF e.nick # Unnamed \/ k \notin DOMAIN list THEN e.nick ELSE list[k].nick, age |-> 0]]

\* Nobody is forgotten.
FreshAll(list) == list

\* prune_participants
Fresh(list) == Restrict(list, {k \in DOMAIN list : list[k].age < Ttl})

\* What the relays of a cell hand on; private keys of a cell sign for that cell only.
Published(c, cell, name) ==
  {[to |-> d, cell |-> cell, key |-> KeyFor(c, cell), nick |-> name] : d \in {d \in Clients : cell \in Joined(d)}}
-----------------------------------------------------------------------------
Join(c, cell) ==
  /\ cell \notin Joined(c)
  /\ next' = [next EXCEPT ![c] = [x \in DOMAIN @ \cup {cell} |-> IF x = cell THEN 0 ELSE @[x]]]
  /\ people' = [people EXCEPT ![c] = [x \in DOMAIN @ \cup {cell} |-> IF x = cell THEN <<>> ELSE @[x]]]
  /\ lost' = [t \in DOMAIN lost |-> IF t[1] = c /\ t[3] = cell THEN 0 ELSE lost[t]]
  /\ UNCHANGED <<tick, nick, wire, upkeep, met>>

Leave(c, cell) ==
  /\ cell \in Joined(c)
  /\ next' = [next EXCEPT ![c] = Restrict(@, DOMAIN @ \ {cell})]
  /\ people' = [people EXCEPT ![c] = Restrict(@, DOMAIN @ \ {cell})]
  /\ lost' = [t \in DOMAIN lost |-> IF t[1] = c /\ t[3] = cell THEN 0 ELSE lost[t]]
  /\ met' = {t \in met : t[3] # cell \/ (t[1] # c /\ t[2] # c)}
  /\ UNCHANGED <<tick, nick, wire, upkeep>>

\* message_event: chat carries the nickname.
Say(c, cell) ==
  /\ cell \in Joined(c) /\ wire' = wire \cup Published(c, cell, nick[c])
  /\ UNCHANGED <<next, people, tick, nick, upkeep, lost, met>>

Rename(c, n) ==
  /\ n # nick[c] /\ nick' = [nick EXCEPT ![c] = n]
  /\ UNCHANGED <<next, people, tick, wire, upkeep, lost, met>>

\* The upkeep: beacons that are due, each with the next step of the jitter, then the lists.
Upkeep(c) ==
  /\ c \notin upkeep /\ upkeep' = upkeep \cup {c}
  /\ tick' = [tick EXCEPT ![c] = (@ + Cardinality(Due(c))) % (PresenceMax - PresenceMin + 1)]
  /\ next' = [next EXCEPT ![c] = [x \in DOMAIN @ |-> IF x \in Due(c) THEN Interval(c) ELSE @[x]]]
  /\ wire' = wire \cup UNION {Published(c, cell, Unnamed) : cell \in Due(c)}
  /\ people' = [people EXCEPT ![c] = [x \in DOMAIN @ |-> Fresh(@[x])]]
  /\ UNCHANGED <<nick, lost, met>>

\* apply_geo_event: our own chat is skipped, our own beacon is not.
Receive(e) ==
  /\ e \in wire /\ wire' = wire \ {e}
  /\ people' = IF e.cell \in Joined(e.to) /\ ~(e.key[1] = e.to /\ e.nick # Unnamed)
               THEN [people EXCEPT ![e.to][e.cell] = Noted(@, e)] ELSE people
  /\ lost' = [lost EXCEPT ![<<e.to, e.key[1], e.cell>>] = 0]
  /\ met' = IF e.cell \in Joined(e.to) \cap Joined(e.key[1]) /\ e.to # e.key[1] THEN met \cup {<<e.to, e.key[1], e.cell>>} ELSE met
  /\ UNCHANGED <<next, tick, nick, upkeep>>

Lose(e) ==
  /\ e \in wire /\ e.to # e.key[1] /\ lost[<<e.to, e.key[1], e.cell>>] < MaxLost
  /\ wire' = wire \ {e} /\ lost' = [lost EXCEPT ![<<e.to, e.key[1], e.cell>>] = @ + 1]
  /\ UNCHANGED <<next, people, tick, nick, upkeep, met>>

Tick ==
  /\ upkeep = Clients /\ wire = {} /\ upkeep' = {}
  /\ next' = [c \in Clients |-> [x \in Joined(c) |-> IF next[c][x] = 0 THEN 0 ELSE next[c][x] - 1]]
  /\ people' = [c \in Clients |-> [x \in Joined(c) |-> [k \in DOMAIN people[c][x] |->
                  [people[c][x][k] EXCEPT !.age = @ + 1]]]]
  /\ UNCHANGED <<tick, nick, wire, lost, met>>

Init ==
  /\ next = [c \in Clients |-> <<>>] /\ people = [c \in Clients |-> <<>>]
  /\ tick = [c \in Clients |-> 0] /\ nick \in [Clients -> Names] /\ wire = {} /\ upkeep = {}
  /\ lost = [t \in Clients \X Clients \X Cells |-> 0] /\ met = {}

Next ==
  \/ \E c \in Clients, cell \in Cells : Join(c, cell) \/ Leave(c, cell) \/ Say(c, cell)
  \/ \E c \in Clients : Upkeep(c) \/ \E n \in Names : Rename(c, n)
  \/ \E e \in wire : Receive(e) \/ Lose(e)
  \/ Tick

Spec == Init /\ [][Next]_vars
-----------------------------------------------------------------------------
\* Whoever was heard in a coarse cell is listed until they or the listener leave, though
\* events are lost now and then: the list outlives the pauses between beacons.
StaysListed ==
  \A t \in met : t[3] \in Coarse => KeyFor(t[2], t[3]) \in DOMAIN people[t[1]][t[3]]

\* Once somebody listed has told a name, they keep one until they are forgotten: the beacons
\* that keep them listed do not make them anonymous.
KeepsNameStep ==
  \A c \in Clients : \A cell \in Joined(c) : cell \in Joined(c)' =>
     \A k \in DOMAIN people[c][cell] \cap DOMAIN people'[c][cell] :
       people[c][cell][k].nick # Unnamed => people'[c][cell][k].nick # Unnamed
KeepsName == [][KeepsNameStep]_vars

\* In a cell too fine to beacon, only those who spoke there are known to be there.
FineIsSilent ==
  \A c \in Clients : \A cell \in Joined(c) \ Coarse : \A k \in DOMAIN people[c][cell] :
    people[c][cell][k].nick # Unnamed
=============================================================================
