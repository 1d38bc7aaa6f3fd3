------------------------------- MODULE Mining -------------------------------
(***************************************************************************)
(* A chat line of a location channel is mined and signed (nostr/pow.rs,      *)
(* message_event of geo.rs): the nonce tag claims a number of leading zero   *)
(* bits of the id, and the claim steps down when the time is up.  The hash   *)
(* is any function: an id is drawn for every new serialization.              *)
(***************************************************************************)
EXTENDS Integers, Sequences

CONSTANTS
  Bytes,        \* values of a byte of an id
  Target,       \* TARGET_BITS
  CheckEvery,   \* tries between two looks at the clock
  MaxClock      \* bound: the clock

\* What the values of the constants have to be.
MiningAssumption ==
  Bytes \subseteq 0..255 /\ Target \in Nat /\ CheckEvery \in Nat \ {0} /\ MaxClock \in Nat

VARIABLES
  target,   \* what the attempt commits to
  tries,    \* nonces tried since the last look at the clock
  id,       \* id of the last serialization, two bytes
  clock,
  created,  \* created_at of the event
  phase,    \* "mining", "mined", "signed"
  late      \* the deadline has passed

vars == <<target, tries, id, clock, created, phase, late>>

Ids == Bytes \X Bytes

\* leading_zeros of a byte.
ByteZeros(b) == IF b = 0 THEN 8 ELSE CHOOSE n \in 0..7 : b < 2 ^ (8 - n) /\ b >= 2 ^ (7 - n)

\* Zero bits of every byte.
AllZeroBits(x) == ByteZeros(x[1]) + ByteZeros(x[2])

LeadingZeroBits(x) == IF x[1] = 0 THEN 8 + ByteZeros(x[2]) ELSE ByteZeros(x[1])

-----------------------------------------------------------------------------
\* The commitment stands whatever the clock says.
TryOnly ==
  /\ phase = "mining"
  /\ \E x \in Ids : id' = x /\ phase' = IF LeadingZeroBits(x) >= target THEN "mined" ELSE "mining"
  /\ UNCHANGED <<target, tries, clock, created, late>>

\* One nonce; out of time at a look at the clock, the commitment is halved and mined anew.
Try ==
  /\ phase = "mining"
  /\ \E x \in Ids :
       /\ id' = x
       /\ IF LeadingZeroBits(x) >= target THEN phase' = "mined" /\ UNCHANGED <<target, tries>>
          ELSE /\ UNCHANGED phase
               /\ IF tries + 1 = CheckEvery
                  THEN tries' = 0 /\ target' = IF late THEN target \div 2 ELSE target
                  ELSE tries' = tries + 1 /\ UNCHANGED target
  /\ UNCHANGED <<clock, created, late>>

Tick ==
  /\ clock < MaxClock /\ clock' = clock + 1
  /\ UNCHANGED <<target, tries, id, created, phase, late>>

Deadline == ~late /\ late' = TRUE /\ UNCHANGED <<target, tries, id, clock, created, phase>>

\* The event is dated when it is signed.
SignNow ==
  /\ phase = "mined" /\ phase' = "signed" /\ created' = clock
  /\ IF clock = created THEN UNCHANGED id ELSE id' \in Ids
  /\ UNCHANGED <<target, tries, clock, late>>

\* What was mined is signed.
Sign ==
  /\ phase = "mined" /\ phase' = "signed"
  /\ UNCHANGED <<target, tries, id, clock, created, late>>

Init ==
  /\ target = Target /\ tries = 0 /\ id \in Ids /\ clock = 0 /\ created = 0
  /\ phase = "mining" /\ late = FALSE

Next == Try \/ Tick \/ Deadline \/ Sign

\* The loop runs and time passes.
Spec == Init /\ [][Next]_vars /\ WF_vars(Try) /\ WF_vars(Deadline) /\ WF_vars(Sign)
-----------------------------------------------------------------------------
\* The signed event keeps the claim of its nonce tag: its id, read as one number, is that small.
HonestClaim == phase = "signed" => id[1] * 256 + id[2] < 2 ^ (16 - target)

\* However the hash falls, the line is sent.
MiningEnds == <>(phase = "signed")
=============================================================================
