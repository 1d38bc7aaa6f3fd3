------------------------------- MODULE Shelf --------------------------------
(***************************************************************************)
(* The mailbox's shelf (mailbox.rs) and the envelopes on it (courier.rs), as *)
(* operators on a sequence of held items, oldest first.  A ciphertext is the *)
(* letter it seals; sealing twice gives two letters.                         *)
(***************************************************************************)
EXTENDS Naturals, Sequences, FiniteSets, SequencesExt

CONSTANTS
  MaxHeld,          \* MAX_HELD, 40 in the code
  MaxVerifiedHeld,  \* MAX_VERIFIED_HELD, 20
  MaxPerFavourite,  \* MAX_PER_FAVOURITE, 5
  MaxPerVerified,   \* MAX_PER_VERIFIED, 2
  MaxCopies,        \* MAX_COPIES, 8
  Lifetime,         \* MAX_LIFETIME_SECONDS, in ticks
  Slack,            \* EXPIRY_SLACK_SECONDS, in ticks
  DayLength         \* ticks in a day

\* What the values of the constants have to be.
ShelfAssumption ==
  /\ {MaxHeld, MaxVerifiedHeld, MaxPerFavourite, MaxPerVerified, MaxCopies,
      Lifetime, DayLength} \subseteq Nat \ {0}
  /\ MaxPerVerified <= MaxPerFavourite
  /\ Slack \in Nat

Tiers == {"favourite", "verified"}

Quota(tier) == IF tier = "favourite" THEN MaxPerFavourite ELSE MaxPerVerified

\* Only the ceiling of the clamp.
ClampTop(copies) == IF copies > MaxCopies THEN MaxCopies ELSE copies

\* Envelope::new clamps the copy budget.
Clamp(copies) == IF copies < 1 THEN 1 ELSE IF copies > MaxCopies THEN MaxCopies ELSE copies

\* recipient_tag: what a recipient's key and a day hash to.
EpochDay(t) == t \div DayLength
Envelope(letter, to, t, expiry, copies, prekey) ==
  [letter |-> letter, tag |-> <<to, EpochDay(t)>>, expiry |-> expiry,
   copies |-> Clamp(copies), prekey |-> prekey]

\* Only today's tag, as a client without the midnight rule would test.
CandidateTagsOfToday(to, t) == {<<to, EpochDay(t)>>}

\* candidate_tags: yesterday, today, tomorrow.
CandidateTags(to, t) ==
  LET today == EpochDay(t)
  IN {<<to, IF today = 0 THEN 0 ELSE today - 1>>, <<to, today>>, <<to, today + 1>>}

IsExpired(e, t) == t >= e.expiry

\* Vec::retain: the items at the places that stay, in their order.
Keep(shelf, kept) ==
  [k \in 1 .. Cardinality(kept) |->
     shelf[CHOOSE i \in kept : Cardinality({x \in kept : x <= i}) = k]]

InDate(shelf, t) == {i \in DOMAIN shelf : ~IsExpired(shelf[i].envelope, t)}
Pruned(shelf, t) == Keep(shelf, InDate(shelf, t))

OfTier(shelf, tier) == {i \in DOMAIN shelf : shelf[i].tier = tier}
LeftBy(shelf, p) == {i \in DOMAIN shelf : shelf[i].depositor = p}
First(S) == CHOOSE i \in S : \A j \in S : i <= j

\* Envelope::fingerprint: neither the copy budget nor the prekey counts.
Fingerprint(e) == <<e.tag, e.expiry, e.letter>>

\* Where the same mail is already on the shelf.
Copy(shelf, e) == {i \in DOMAIN shelf : Fingerprint(shelf[i].envelope) = Fingerprint(e)}

\* make_room by age alone.
MakeRoomOldestFirst(shelf, tier) == {Tail(shelf)}

\* make_room: the shelves with one item less that it may leave, none if it
\* refuses.
MakeRoom(shelf, tier) ==
  IF OfTier(shelf, "verified") # {}
  THEN {RemoveAt(shelf, First(OfTier(shelf, "verified")))}
  ELSE IF tier = "favourite" THEN {Tail(shelf)} ELSE {}

\* The shelves a new item may go on.
Room(shelf, tier) == IF Len(shelf) < MaxHeld THEN {shelf} ELSE MakeRoom(shelf, tier)

\* Why a deposit is turned away before the shelf is looked at.
Inadmissible(e, t) == IsExpired(e, t) \/ e.expiry > t + Lifetime + Slack

\* A share counted per tier: a peer who was a stranger starts afresh.
OverQuotaPerTier(shelf, p, tier) ==
  \/ Cardinality(LeftBy(shelf, p) \cap OfTier(shelf, tier)) >= Quota(tier)
  \/ tier = "verified" /\ Cardinality(OfTier(shelf, "verified")) >= MaxVerifiedHeld

\* Whether a share or the strangers' part of the shelf is used up.
OverQuota(shelf, p, tier) ==
  \/ Cardinality(LeftBy(shelf, p)) >= Quota(tier)
  \/ tier = "verified" /\ Cardinality(OfTier(shelf, "verified")) >= MaxVerifiedHeld

\* accept on an enabled mailbox.
Accept(shelf, e, p, tier, t) ==
  LET kept == Pruned(shelf, t)
      copy == Copy(kept, e)
      item == [envelope |-> e, depositor |-> p, tier |-> tier]
  IN IF Inadmissible(e, t) THEN shelf
     ELSE IF copy # {}
     THEN [i \in DOMAIN kept |->
             IF i = First(copy) /\ e.copies > kept[i].envelope.copies
             THEN [kept[i] EXCEPT !.envelope.copies = e.copies] ELSE kept[i]]
     ELSE IF OverQuota(kept, p, tier) \/ Room(kept, tier) = {} THEN kept
     ELSE Append(CHOOSE s \in Room(kept, tier) : TRUE, item)

\* Whether accept gets as far as a save.
Saves(shelf, e, p, tier, t) ==
  ~Inadmissible(e, t) /\ (Copy(Pruned(shelf, t), e) # {} \/ Accept(shelf, e, p, tier, t) # shelf)

\* collect: what is addressed to one of the tags, and what stays.
Tagged(shelf, tags) == {i \in DOMAIN shelf : shelf[i].envelope.tag \in tags}
Collected(shelf, tags) == Keep(shelf, Tagged(shelf, tags))
Remaining(shelf, tags) == Keep(shelf, DOMAIN shelf \ Tagged(shelf, tags))
=============================================================================
