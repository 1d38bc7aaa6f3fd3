------------------------------ MODULE MCRadio -------------------------------
(***************************************************************************)
(* Runs of a client among its neighbours: the links of the radio, the      *)
(* table of peers and what is remembered of their packets, the rounds by   *)
(* which two archives are brought together and the filters they exchange,  *)
(* and the drawing of who hears whom.                                      *)
(***************************************************************************)
EXTENDS Transport, Presence, FiniteSetsExt

SmallStores == [message |-> 2, fragment |-> 1, file |-> 1]
Stores == [message |-> 2, fragment |-> 2, file |-> 2]

\* Hashes apart from each other in every filter, and from the buckets of the padding.
Apart == [i \in 1 .. 3 |-> 3 * i - 1]

VARIABLES
  part,  \* the component that moves
  syncArchive, filed, has, history, answers, rounds, skipped, syncNow,
  mapLinks, mapPeers, claims, last,
  hashes, budget, param, filter, known

syncVars == <<syncArchive, filed, has, history, answers, rounds, skipped, syncNow>>
mapVars == <<mapLinks, mapPeers, claims, last>>
filterVars == <<hashes, budget, param, filter, known>>

\* A responder with three packets and a link of three frames.
Rounds == INSTANCE GossipSync WITH
  MaxAge <- 1, RecordAge <- 0, Capacity <- Stores, Hash <- Apart, Param <- 4, Budget <- 8,
  Depth <- 3, MaxResponses <- 2, Window <- 1, MaxFiled <- 3, MaxTime <- 1,
  archive <- syncArchive, now <- syncNow

\* This client and three peers, with every set of links and every claim.
Drawn == INSTANCE Topology WITH
  N <- 3, Fillers <- {1, 2}, Synced <- TRUE, links <- mapLinks, peers <- mapPeers

\* The values given to the constants are ones the components allow.
ASSUME InstancesAssumption ==
  /\ TransportAssumption
  /\ PresenceAssumption
  /\ ArchiveAssumption
  /\ Rounds!SyncAssumption
  /\ Rounds!ArchiveAssumption
  /\ Drawn!TopologyAssumption
-----------------------------------------------------------------------------
\* Every small filter: a peer builds one over the hashes of what it holds, newest first, and
\* another client decodes it (the two ends of sync/gcs.rs).
Nothing == [p |-> 0, m |-> 0, data |-> <<>>, included |-> 0]

FilterInit ==
  /\ IF part = "filters"
     THEN hashes \in UNION {[1 .. n -> 0 .. 14] : n \in 0 .. 3} /\ budget \in 0 .. 2 /\ param \in 1 .. 3
     ELSE hashes = <<>> /\ budget = 0 /\ param = 1
  /\ filter = Nothing /\ known = {}

Build ==
  /\ filter = Nothing /\ filter' = Rounds!BuildFilter(hashes, budget, param)
  /\ UNCHANGED <<hashes, budget, param, known>>

Decode ==
  /\ filter # Nothing
  /\ known' = Rounds!DecodeToSortedSet(filter.p, filter.m, filter.data)
  /\ UNCHANGED <<hashes, budget, param, filter>>

FilterNext == Build \/ Decode

-----------------------------------------------------------------------------
Parts == {"links", "table", "rounds", "drawn", "filters"}

\* One component moves, in its own initial state; the others rest in theirs.
MCInit ==
  /\ part \in Parts
  /\ Init
  /\ PresenceInit
  /\ Rounds!Init
  /\ Drawn!Init
  /\ FilterInit

MCNext ==
  \/ /\ part = "links" /\ Next
     /\ UNCHANGED <<part, presenceVars, syncVars, mapVars, filterVars>>
  \/ /\ part = "table" /\ PresenceNext
     /\ UNCHANGED <<part, vars, syncVars, mapVars, filterVars>>
  \/ /\ part = "rounds" /\ Rounds!Next
     /\ UNCHANGED <<part, vars, presenceVars, mapVars, filterVars>>
  \/ /\ part = "drawn" /\ Drawn!Next
     /\ UNCHANGED <<part, vars, presenceVars, syncVars, filterVars>>
  \/ /\ part = "filters" /\ FilterNext
     /\ UNCHANGED <<part, vars, presenceVars, syncVars, mapVars>>

mcvars == <<part, vars, presenceVars, syncVars, mapVars, filterVars>>

MCSpec == MCInit /\ [][MCNext]_mcvars
-----------------------------------------------------------------------------

Included == {Rounds!Bucket(hashes[i], filter.m) : i \in 1 .. filter.included}
Decoded == filter # Nothing /\ known = Rounds!DecodeToSortedSet(filter.p, filter.m, filter.data)

\* The filter has no false negatives: every id it covers is found again by the
\* responder, which computes the bucket from the id and the modulus alone.
NoFalseNegatives == Decoded => Included \subseteq known

\* The only buckets read that were not written follow the last one, and are no
\* more than the zeros that fill the last byte can hold (BitWriter::finish).
ExtrasFromPadding ==
  Decoded /\ filter.included > 0 =>
    LET extras == known \ Included
    IN /\ Cardinality(extras) * (param + 1) < Rounds!ByteBits
       /\ extras = Max(Included) + 1 .. Max(Included) + Cardinality(extras)

\* With any budget at all, the estimate of p + 2 bits an element is enough: the
\* filter covers as many ids as it set out to, and fits.
NothingTrimmed ==
  filter # Nothing /\ budget > 0 =>
    /\ filter.included = Rounds!Smaller(Len(hashes), Rounds!EstimateMaxElements(budget, param))
    /\ Rounds!Bytes(filter.data) <= budget

\* Asking often enough brings what is missing, although filters are lossy and each answer is cut
\* and limited: a filter covers what its budget allows, what it covers is found again and what
\* it adds comes from its padding; the rounds converge, a peer gets no more answers than its
\* window allows and is charged for answers only; the stores keep the order cursors rely on.
SyncConverges ==
  /\ part = "rounds" => /\ Rounds!RoundsConverge /\ Rounds!StoresInOrder
                        /\ Rounds!AnswersBounded /\ Rounds!ChargedWhenAnswered
  /\ NoFalseNegatives /\ ExtrasFromPadding /\ NothingTrimmed

\* Every table of peers can be drawn; no claimed link joins two islands, and where the claims
\* are complete a client whose departure would part the mesh is told so.
MapTruthful == part = "drawn" => Drawn!Drawable /\ Drawn!IslandsApart /\ Drawn!NoMissedBridge
=============================================================================
