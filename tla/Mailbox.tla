------------------------------ MODULE Mailbox -------------------------------
(***************************************************************************)
(* mailbox.rs: one shelf, its copy on disk, and any sequence of deposits,    *)
(* collections, switches and restarts.  Disk writes are atomic (a temporary  *)
(* file is renamed) and assumed to succeed.                                   *)
(***************************************************************************)
EXTENDS Shelf

CONSTANTS
  People,      \* depositors and recipients
  Letters,     \* what an envelope seals
  Recipient,   \* whom each letter is for
  MaxClock     \* bound: ticks

\* What the values of the constants have to be.
MailboxAssumption ==
  Recipient \in [Letters -> People] /\ MaxClock \in Nat

VARIABLES
  enabled,   \* Mailbox.enabled
  held,      \* Mailbox.held
  disk,      \* the file behind Mailbox.path
  clock      \* the clock

mailboxVars == <<enabled, held, disk, clock>>

Items ==
  [envelope : [letter : Letters, tag : People \X Nat, expiry : Nat,
               copies : 1 .. MaxCopies, prekey : BOOLEAN],
   depositor : People, tier : Tiers]

MailboxTypeOK ==
  /\ enabled \in BOOLEAN /\ clock \in 0 .. MaxClock
  /\ held \in Seq(Items) /\ disk \in Seq(Items)

MailboxInit == enabled = FALSE /\ held = <<>> /\ disk = <<>> /\ clock = 0

ClockTick == clock < MaxClock /\ clock' = clock + 1 /\ UNCHANGED <<enabled, held, disk>>

\* set_enabled: switching off discards the shelf.
SetEnabled(on) ==
  /\ enabled' = on
  /\ held' = IF on THEN held ELSE <<>>
  /\ disk' = IF on THEN disk ELSE <<>>
  /\ UNCHANGED clock

\* accept that saves only when the shelf grows.
DepositUnsaved(p, tier, e) ==
  /\ enabled
  /\ held' = Accept(held, e, p, tier, clock)
  /\ disk' = IF Len(held') > Len(held) THEN held' ELSE disk
  /\ UNCHANGED <<enabled, clock>>

\* accept.  The tier is whatever the depositor is at the moment: the same peer
\* may be a favourite one day and a stranger the next.
Deposit(p, tier, e) ==
  /\ enabled
  /\ held' = Accept(held, e, p, tier, clock)
  /\ disk' = IF Saves(held, e, p, tier, clock) THEN held' ELSE disk
  /\ UNCHANGED <<enabled, clock>>

Collect(p) ==
  LET tags == CandidateTags(p, clock)
  IN /\ enabled /\ Collected(held, tags) # <<>>
     /\ held' = Remaining(held, tags)
     /\ disk' = held'
     /\ UNCHANGED <<enabled, clock>>

Prune ==
  /\ enabled
  /\ held' = Pruned(held, clock)
  /\ disk' = IF held' # held THEN held' ELSE disk
  /\ UNCHANGED <<enabled, clock>>

\* A new process: open_at loads what is still in date; off until asked.
Restart ==
  /\ held' = Pruned(disk, clock)
  /\ enabled' = FALSE
  /\ UNCHANGED <<disk, clock>>

Wipe == held' = <<>> /\ disk' = <<>> /\ UNCHANGED <<enabled, clock>>

\* What depositors bring: an expiry of their own choosing, a budget or none.
Expiries == {clock, clock + 1, clock + Lifetime, clock + Lifetime + Slack + 1}
Budgets == {0, MaxCopies}

MailboxNext ==
  \/ ClockTick \/ Prune \/ Restart \/ Wipe
  \/ \E on \in BOOLEAN : SetEnabled(on)
  \/ \E p \in People : Collect(p)
  \/ \E p \in People, tier \in Tiers, l \in Letters, x \in Expiries, c \in Budgets :
       Deposit(p, tier, Envelope(l, Recipient[l], clock, x, c, FALSE))

MailboxSpec == MailboxInit /\ [][MailboxNext]_mailboxVars

\* Shares hold however deposits, expiries and restarts interleave: nobody has
\* more than a favourite's share, strangers together no more than theirs, and
\* no mail is on the shelf twice.
WithinQuotas ==
  /\ Len(held) <= MaxHeld
  /\ Cardinality(OfTier(held, "verified")) <= MaxVerifiedHeld
  /\ \A p \in People : Cardinality(LeftBy(held, p)) <= Quota("favourite")
  /\ \A i, j \in DOMAIN held :
       Fingerprint(held[i].envelope) = Fingerprint(held[j].envelope) => i = j

\* A stranger's deposit never pushes out a favourite's mail, and a favourite's
\* does so only when no stranger's mail is left to shed (make_room).
FavouritesNotCrowdedOutStep ==
  \A x \in ToSet(held') \ ToSet(held) : \A y \in ToSet(held) \ ToSet(held') :
     (y.tier = "favourite" /\ Fingerprint(x.envelope) # Fingerprint(y.envelope)
        /\ ~IsExpired(y.envelope, clock))
       => (x.tier = "favourite" /\ OfTier(Pruned(held, clock), "verified") = {})

\* A restart at any moment brings back exactly the mail still in date.
RestartKeepsMail == Pruned(disk, clock) = Pruned(held, clock)

\* The shelf stays within every quota at once, a restart brings back exactly the mail still
\* in date, a stranger's deposit never pushes out a favourite's mail, and a favourite's does
\* so only when no stranger's mail is left to shed (make_room).
ShelfKept ==
  /\ [](MailboxTypeOK /\ WithinQuotas /\ RestartKeepsMail)
  /\ [][FavouritesNotCrowdedOutStep]_mailboxVars
=============================================================================
