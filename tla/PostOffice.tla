----------------------------- MODULE PostOffice -----------------------------
(***************************************************************************)
(* Couriered mail between clients: post_to_couriers, shelve and hand_over of *)
(* main.rs, handle_courier and open_courier of mesh.rs, over the shelf of    *)
(* mailbox.rs.  A client that cannot reach a favourite seals a letter and    *)
(* leaves it with everybody in range; those who hold mail keep it until the  *)
(* recipient is in their peer table.  Every frame reaches everybody in range *)
(* (it is written to all links and relayed), whoever it is addressed to, and *)
(* handle_courier does not look at the address.                               *)
(***************************************************************************)
EXTENDS Shelf

CONSTANTS
  Nodes,
  Offices,     \* nodes whose user holds mail
  Letters,     \* letters the users write
  Author,      \* who writes each letter
  Recipient,   \* whom it is for: a favourite whose key is stored
  Mutual,      \* pairs <<n, p>>: n and p are mutual favourites
  Blocks,      \* pairs <<n, p>>: n has blocked p
  Movers,      \* nodes that walk away and come back
  Restarters,  \* nodes whose client is restarted
  MaxTime,     \* bound: ticks
  Repeats      \* bound: second copies of a frame

\* What the values of the constants have to be.
PostOfficeAssumption ==
  /\ Offices \subseteq Nodes /\ Movers \subseteq Nodes /\ Restarters \subseteq Nodes
  /\ Author \in [Letters -> Nodes] /\ Recipient \in [Letters -> Nodes]
  /\ MaxTime \in Nat /\ Repeats \in Nat

VARIABLES
  here,      \* who is in radio range of the others
  listed,    \* MeshService.peers: who has announced itself, gone or not
  enabled,   \* Mailbox.enabled
  held,      \* Mailbox.held
  disk,      \* the mailbox file
  air,       \* courier frames under way: sender, receiver, envelope
  opened,    \* opened_mail: the letters handled, on disk
  written,   \* letters sealed so far
  shown,     \* ghost: how often each letter was shown to its recipient
  repeats,   \* second copies left
  now

vars == <<here, listed, enabled, held, disk, air, opened, written, shown, repeats, now>>

TypeOK ==
  /\ here \subseteq Nodes
  /\ listed \in [Nodes -> SUBSET Nodes]
  /\ enabled \in [Nodes -> BOOLEAN]
  /\ DOMAIN held = Nodes /\ DOMAIN disk = Nodes
  /\ opened \in [Nodes -> SUBSET Letters]
  /\ written \subseteq Letters
  /\ shown \in [Letters -> Nat]

Init ==
  /\ here = Nodes \ Movers
  /\ listed = [n \in Nodes |-> {}]
  /\ enabled = [n \in Nodes |-> n \in Offices]
  /\ held = [n \in Nodes |-> <<>>]
  /\ disk = [n \in Nodes |-> <<>>]
  /\ air = {}
  /\ opened = [n \in Nodes |-> {}]
  /\ written = {}
  /\ shown = [l \in Letters |-> 0]
  /\ repeats = Repeats
  /\ now = 0

Tick ==
  /\ now < MaxTime /\ now' = now + 1
  /\ UNCHANGED <<here, listed, enabled, held, disk, air, opened, written, shown, repeats>>

\* Outbound::All: one frame for everybody in range of n.
Broadcast(n, envelopes) ==
  {[from |-> n, at |-> p, envelope |-> e] : p \in here \ {n}, e \in envelopes}
-----------------------------------------------------------------------------
(* Who is around *)

\* handle_announce of p at n.
HearAnnounce(n, p) ==
  /\ n # p /\ {n, p} \subseteq here /\ p \notin listed[n] /\ <<n, p>> \notin Blocks
  /\ listed' = [listed EXCEPT ![n] = @ \cup {p}]
  /\ UNCHANGED <<here, enabled, held, disk, air, opened, written, shown, repeats, now>>

Move(n) ==
  /\ n \in Movers
  /\ here' = IF n \in here THEN here \ {n} ELSE here \cup {n}
  /\ UNCHANGED <<listed, enabled, held, disk, air, opened, written, shown, repeats, now>>

\* prune_peers and clear_peers: only after p has been silent for a while.
LosePeer(n, p) ==
  /\ p \in listed[n] /\ ~({n, p} \subseteq here)
  /\ listed' = [listed EXCEPT ![n] = @ \ {p}]
  /\ UNCHANGED <<here, enabled, held, disk, air, opened, written, shown, repeats, now>>
-----------------------------------------------------------------------------
(* Letters *)

\* post_to_couriers: the recipient is not listed and somebody else is.  One
\* sealing for all of them, to be kept for the longest lifetime.
PostToCouriers(l) ==
  LET n == Author[l]
      e == Envelope(l, Recipient[l], now, now + Lifetime, 1, FALSE)
  IN /\ l \notin written /\ n \in here
     /\ Recipient[l] \notin listed[n] /\ listed[n] # {}
     /\ written' = written \cup {l}
     /\ air' = air \cup Broadcast(n, {e})
     /\ UNCHANGED <<here, listed, enabled, held, disk, opened, shown, repeats, now>>

\* shelve: a mutual favourite's deposit, or one from a listed peer whose
\* announce was verified; any other is dropped, as is one while not enabled.
Shelve(f) ==
  LET n == f.at
      tier == IF <<n, f.from>> \in Mutual THEN "favourite" ELSE "verified"
  IN /\ held' = [held EXCEPT ![n] =
                   IF enabled[n] /\ (tier = "favourite" \/ f.from \in listed[n])
                   THEN Accept(@, f.envelope, f.from, tier, now) ELSE @]
     /\ disk' = [disk EXCEPT ![n] = IF held'[n] # held[n] THEN held'[n] ELSE @]
     /\ UNCHANGED <<opened, shown>>

\* A letter shown whenever it can be opened.
OpenCourierAgain(f) ==
  LET l == f.envelope.letter
      opens == ~f.envelope.prekey /\ Recipient[l] = f.at /\ <<f.at, Author[l]>> \notin Blocks
  IN /\ shown' = IF opens THEN [shown EXCEPT ![l] = @ + 1] ELSE shown
     /\ opened' = IF opens THEN [opened EXCEPT ![f.at] = @ \cup {l}] ELSE opened
     /\ UNCHANGED <<held, disk>>

\* The envelope remembered instead of the message in it.
OpenCourierByEnvelope(f) ==
  LET l == f.envelope.letter
      opens == /\ ~f.envelope.prekey /\ Recipient[l] = f.at
               /\ <<f.at, Author[l]>> \notin Blocks /\ f.envelope \notin opened[f.at]
  IN /\ shown' = IF opens THEN [shown EXCEPT ![l] = @ + 1] ELSE shown
     /\ opened' = IF opens THEN [opened EXCEPT ![f.at] = @ \cup {f.envelope}] ELSE opened
     /\ UNCHANGED <<held, disk>>

\* open_courier and what the client loop does with the letter: shown unless it
\* is sealed to a prekey, from somebody blocked, or handled before.
OpenCourier(f) ==
  LET l == f.envelope.letter
      opens == /\ ~f.envelope.prekey /\ Recipient[l] = f.at
               /\ <<f.at, Author[l]>> \notin Blocks /\ l \notin opened[f.at]
  IN /\ shown' = IF opens THEN [shown EXCEPT ![l] = @ + 1] ELSE shown
     /\ opened' = IF opens THEN [opened EXCEPT ![f.at] = @ \cup {l}] ELSE opened
     /\ UNCHANGED <<held, disk>>

\* handle_courier: the tag alone tells a delivery from a deposit.  A blocked
\* sender's frames stop before, frames for somebody out of range are lost.
Arrive(f) ==
  /\ \/ air' = air \ {f} /\ UNCHANGED repeats
     \/ repeats > 0 /\ repeats' = repeats - 1 /\ UNCHANGED air
  /\ IF f.at \notin here \/ <<f.at, f.from>> \in Blocks
     THEN UNCHANGED <<held, disk, opened, shown>>
     ELSE IF f.envelope.tag \in CandidateTags(f.at, now)
     THEN OpenCourier(f) ELSE Shelve(f)
  /\ UNCHANGED <<here, listed, enabled, written, now>>

\* The maintenance tick on an enabled mailbox: prune, then hand_over to every
\* listed peer.  Collected mail is off the shelf whether or not it arrives.
Maintain(n) ==
  LET kept == Pruned(held[n], now)
      tags == UNION {CandidateTags(p, now) : p \in listed[n]}
      given == {x.envelope : x \in ToSet(Collected(kept, tags))}
  IN /\ enabled[n] /\ n \in here
     /\ Remaining(kept, tags) # held[n]
     /\ held' = [held EXCEPT ![n] = Remaining(kept, tags)]
     /\ disk' = [disk EXCEPT ![n] = Remaining(kept, tags)]
     /\ air' = air \cup Broadcast(n, given)
     /\ UNCHANGED <<here, listed, enabled, opened, written, shown, repeats, now>>

\* A new process loads the shelf; the mailbox is off until its user asks again.
Restart(n) ==
  /\ n \in Restarters
  /\ listed' = [listed EXCEPT ![n] = {}]
  /\ enabled' = [enabled EXCEPT ![n] = FALSE]
  /\ held' = [held EXCEPT ![n] = Pruned(disk[n], now)]
  /\ UNCHANGED <<here, disk, air, opened, written, shown, repeats, now>>

SetEnabled(n, on) ==
  /\ n \in Restarters \cap Offices /\ enabled[n] # on
  /\ enabled' = [enabled EXCEPT ![n] = on]
  /\ held' = [held EXCEPT ![n] = IF on THEN @ ELSE <<>>]
  /\ disk' = [disk EXCEPT ![n] = IF on THEN @ ELSE <<>>]
  /\ UNCHANGED <<here, listed, air, opened, written, shown, repeats, now>>

Next ==
  \/ Tick
  \/ \E n, p \in Nodes : HearAnnounce(n, p) \/ LosePeer(n, p)
  \/ \E n \in Nodes : Move(n) \/ Maintain(n) \/ Restart(n) \/ \E on \in BOOLEAN : SetEnabled(n, on)
  \/ \E l \in Letters : PostToCouriers(l)
  \/ \E f \in air : Arrive(f)

Spec == Init /\ [][Next]_vars

\* Announces repeat every ten seconds, maintenance every second, and frames
\* handed to a link arrive.
FairSpec ==
  /\ Spec /\ WF_vars(\E f \in air : Arrive(f))
  /\ \A n, p \in Nodes : WF_vars(HearAnnounce(n, p))
  /\ \A n \in Nodes : WF_vars(Maintain(n))
-----------------------------------------------------------------------------
(* Properties *)

OnShelf(n, l) == \E i \in DOMAIN held[n] : held[n][i].envelope.letter = l

\* A letter is shown once, however many offices hold it, however many copies
\* arrive and however often clients restart.
ShownOnce == \A l \in Letters : shown[l] <= 1

\* Mail in date is always recognised as its recipient's, past midnight too, and
\* nobody else's tags match it.
MailRecognised ==
  \A n \in Nodes : \A i \in DOMAIN held[n] :
    LET e == held[n][i].envelope
    IN ~IsExpired(e, now) =>
         {p \in Nodes : e.tag \in CandidateTags(p, now)} = {Recipient[e.letter]}

\* Mail on a shelf reaches a recipient who is around while it is in date, past
\* midnight too (nobody moves or restarts in this run, and it ends before the
\* mail expires).
MailDelivered ==
  \A n \in Nodes, l \in Letters : OnShelf(n, l) ~> shown[l] > 0

\* What collect says of handing over ("Holding a copy afterwards would keep
\* someone's mail on our disk for no purpose"): once a letter has been shown to
\* its recipient, nobody puts it on a shelf again.
DeliveredStaysOffShelves ==
  [][\A n \in Nodes, l \in Letters :
       (shown[l] > 0 /\ ~OnShelf(n, l)) => ~OnShelf(n, l)']_vars

\* What collect says of its reason ("the recipient is here"): mail in date
\* leaves the shelf of a working mailbox only while its recipient is there.
HandedToSomebodyHere ==
  [][\A n \in Nodes : (enabled[n] /\ enabled'[n]) =>
       \A x \in ToSet(held[n]) \ ToSet(held'[n]) :
         IsExpired(x.envelope, now) \/ Recipient[x.envelope.letter] \in here]_vars

\* What the header of mailbox.rs says of the disk: a stranger's ciphertext is
\* there until it expires.
ExpiredLeavesDisk ==
  \A n \in Nodes :
    (\E i \in DOMAIN disk[n] : IsExpired(disk[n][i].envelope, now))
      ~> (\A i \in DOMAIN disk[n] : ~IsExpired(disk[n][i].envelope, now))
=============================================================================
