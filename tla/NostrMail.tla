------------------------------ MODULE NostrMail -----------------------------
(***************************************************************************)
(* Private mail over relays: send_over_nostr and open_private_envelope of    *)
(* main.rs with the record of nostr/processed.rs, which outlives the process *)
(* because relays hand the same day of mail over again at every start.  Two  *)
(* clients; relays (external) keep what reaches them.  Couriered letters are *)
(* recorded through a second handle on the same file.                        *)
(***************************************************************************)
EXTENDS Integers, Sequences, FiniteSets, SequencesExt

CONSTANTS
  Messages,     \* private messages ann sends to bob
  Letters,      \* couriered letters that reach bob
  Junk,         \* wraps addressed to bob that he cannot read
  Capacity,     \* CAPACITY of the record
  MaxStarts,    \* bound: restarts of a client
  MaxFailures   \* bound: writes of the record that fail

\* What the values of the constants have to be.
NostrMailAssumption == {Capacity, MaxStarts, MaxFailures} \subseteq Nat

Clients == {"ann", "bob"}

VARIABLES
  relay,     \* wraps the relays hold
  file,      \* per client: nostr-seen.json
  wraps,     \* per client: seen_envelopes, in order
  letters,   \* bob's opened_mail, in order
  echo,      \* ann's screen: messages sent in this run, with a tick or without
  blocked,   \* bob has blocked ann
  shown,     \* ghost: per message or letter, how often bob was shown it since a wipe
  ever,      \* ghost: what bob was ever shown
  acked,     \* ghost: per message, how often bob acknowledged it
  failures, starts, wiped

vars == <<relay, file, wraps, letters, echo, blocked, shown, ever, acked, failures, starts, wiped>>

Text(m) == [to |-> "bob", kind |-> "text", of |-> m]
Receipt(m) == [to |-> "ann", kind |-> "receipt", of |-> m]
Unreadable(j) == [to |-> "bob", kind |-> "junk", of |-> j]
Wraps == {Text(m) : m \in Messages} \cup {Receipt(m) : m \in Messages} \cup {Unreadable(j) : j \in Junk}

TypeOK ==
  /\ relay \subseteq Wraps
  /\ \A c \in Clients : IsInjective(wraps[c]) /\ Len(wraps[c]) <= Capacity
  /\ IsInjective(letters) /\ Len(letters) <= Capacity
  /\ echo \in [Messages -> {"unsent", "sent", "delivered", "gone"}]

Init ==
  /\ relay = {Unreadable(j) : j \in Junk}
  /\ file = [c \in Clients |-> <<>>] /\ wraps = [c \in Clients |-> <<>>] /\ letters = <<>>
  /\ echo = [m \in Messages |-> "unsent"] /\ blocked = FALSE
  /\ shown = [x \in Messages \cup Letters |-> 0] /\ acked = [m \in Messages |-> 0] /\ ever = {}
  /\ failures = 0 /\ starts = 0 /\ wiped = FALSE
-----------------------------------------------------------------------------
(* The record *)

Insert(order, id) ==
  LET all == Append(order, id)
  IN IF Len(all) > Capacity THEN Tail(all) ELSE all

\* Written before the new id is in.
SavedBefore(c, order, ok) == file' = IF ok THEN [file EXCEPT ![c] = Front(order)] ELSE file

\* remember: a new id is inserted and the whole record written; a failed write leaves the old file.
Saved(c, order, ok) == file' = IF ok THEN [file EXCEPT ![c] = order] ELSE file

MayFail(ok) ==
  \/ ok /\ UNCHANGED failures
  \/ ~ok /\ failures < MaxFailures /\ failures' = failures + 1
-----------------------------------------------------------------------------
(* The sender *)

\* send_over_nostr, and the message that is on its way may be lost.
Send(m, arrives) ==
  /\ echo[m] = "unsent" /\ echo' = [echo EXCEPT ![m] = "sent"]
  /\ relay' = IF arrives THEN relay \cup {Text(m)} ELSE relay
  /\ UNCHANGED <<file, wraps, letters, blocked, shown, ever, acked, failures, starts, wiped>>

\* open_private_envelope of a receipt: mark_delivery finds the line, if it is still there.
OpenReceipt(m, ok) ==
  /\ Receipt(m) \in relay /\ ~Contains(wraps["ann"], Receipt(m)) /\ MayFail(ok)
  /\ wraps' = [wraps EXCEPT !["ann"] = Insert(@, Receipt(m))]
  /\ Saved("ann", Insert(wraps["ann"], Receipt(m)), ok)
  /\ echo' = [echo EXCEPT ![m] = IF @ = "sent" THEN "delivered" ELSE @]
  /\ UNCHANGED <<relay, letters, blocked, shown, ever, acked, starts, wiped>>
-----------------------------------------------------------------------------
(* The receiver *)

\* Opened first, recorded when it was read.
OpenWrapLate(w, ok, receipt) ==
  /\ w \in relay /\ w.to = "bob" /\ ~Contains(wraps["bob"], w) /\ MayFail(ok)
  /\ IF w.kind = "text" /\ ~blocked
     THEN /\ shown' = [shown EXCEPT ![w.of] = @ + 1] /\ ever' = ever \cup {w.of}
          /\ acked' = [acked EXCEPT ![w.of] = @ + 1]
          /\ relay' = IF receipt THEN relay \cup {Receipt(w.of)} ELSE relay
          /\ wraps' = [wraps EXCEPT !["bob"] = Insert(@, w)] /\ file' = file
     ELSE UNCHANGED <<shown, ever, acked, relay, wraps, file>>
  /\ UNCHANGED <<letters, echo, blocked, starts, wiped>>

\* What was handled before is not looked up.
OpenWrapAgain(w, ok, receipt) ==
  /\ w \in relay /\ w.to = "bob" /\ MayFail(ok) /\ Len(wraps["bob"]) < 4
  /\ wraps' = [wraps EXCEPT !["bob"] = Insert(@, w)]
  /\ Saved("bob", Insert(wraps["bob"], w), ok)
  /\ UNCHANGED <<shown, ever, acked, relay, letters, echo, blocked, starts, wiped>>

\* Acknowledged before the sender is looked up in the block list.
OpenWrapAcking(w, ok, receipt) ==
  /\ w \in relay /\ w.to = "bob" /\ ~Contains(wraps["bob"], w) /\ MayFail(ok)
  /\ wraps' = [wraps EXCEPT !["bob"] = Insert(@, w)]
  /\ Saved("bob", Insert(wraps["bob"], w), ok)
  /\ relay' = IF receipt /\ w.kind = "text" THEN relay \cup {Receipt(w.of)} ELSE relay
  /\ IF w.kind = "text" /\ ~blocked
     THEN /\ shown' = [shown EXCEPT ![w.of] = @ + 1] /\ ever' = ever \cup {w.of}
          /\ acked' = [acked EXCEPT ![w.of] = @ + 1]
     ELSE UNCHANGED <<shown, ever, acked>>
  /\ UNCHANGED <<letters, echo, blocked, starts, wiped>>

\* Recorded before it is opened; what cannot be read, or is from a blocked sender, ends there.
OpenWrap(w, ok, receipt) ==
  /\ w \in relay /\ w.to = "bob" /\ ~Contains(wraps["bob"], w) /\ MayFail(ok)
  /\ wraps' = [wraps EXCEPT !["bob"] = Insert(@, w)]
  /\ Saved("bob", Insert(wraps["bob"], w), ok)
  /\ IF w.kind = "text" /\ ~blocked
     THEN /\ shown' = [shown EXCEPT ![w.of] = @ + 1] /\ ever' = ever \cup {w.of}
          /\ acked' = [acked EXCEPT ![w.of] = @ + 1]
          /\ relay' = IF receipt THEN relay \cup {Receipt(w.of)} ELSE relay
     ELSE UNCHANGED <<shown, ever, acked, relay>>
  /\ UNCHANGED <<letters, echo, blocked, starts, wiped>>

\* The process dies between the record and the screen.
DieOpening(w) ==
  /\ w \in relay /\ w.to = "bob" /\ ~Contains(wraps["bob"], w) /\ starts < MaxStarts
  /\ file' = [file EXCEPT !["bob"] = Insert(wraps["bob"], w)]
  /\ wraps' = [wraps EXCEPT !["bob"] = file'["bob"]] /\ letters' = file'["bob"]
  /\ starts' = starts + 1
  /\ UNCHANGED <<relay, echo, blocked, shown, ever, acked, failures, wiped>>

\* A letter a courier brought, again and again: the other handle, the same file.
OpenLetter(l, ok) ==
  /\ ~Contains(letters, l) /\ MayFail(ok)
  /\ letters' = Insert(letters, l)
  /\ Saved("bob", Insert(letters, l), ok)
  /\ shown' = [shown EXCEPT ![l] = @ + 1] /\ ever' = ever \cup {l}
  /\ UNCHANGED <<relay, wraps, echo, blocked, acked, starts, wiped>>

Block == blocked' = ~blocked /\ UNCHANGED <<relay, file, wraps, letters, echo, shown, ever, acked, failures, starts, wiped>>

\* A cache of the session only.
RestartForgetting(c) ==
  /\ starts < MaxStarts /\ starts' = starts + 1
  /\ wraps' = [wraps EXCEPT ![c] = <<>>]
  /\ letters' = IF c = "bob" THEN <<>> ELSE letters
  /\ UNCHANGED <<relay, file, echo, blocked, shown, ever, acked, failures, wiped>>

\* open_at: both handles read the file; ann's screen starts empty.  After a wipe bob has
\* a new address, and what was sent to the old one no longer finds him.
Restart(c) ==
  /\ starts < MaxStarts /\ starts' = starts + 1
  /\ wraps' = [wraps EXCEPT ![c] = file[c]]
  /\ letters' = IF c = "bob" THEN file[c] ELSE letters
  /\ echo' = IF c = "ann" THEN [m \in Messages |-> IF echo[m] = "unsent" THEN "unsent" ELSE "gone"] ELSE echo
  /\ wiped' = IF c = "bob" THEN FALSE ELSE wiped
  /\ relay' = IF c = "bob" /\ wiped THEN {w \in relay : w.to # "bob"} ELSE relay
  /\ UNCHANGED <<file, blocked, shown, ever, acked, failures>>

\* /wipe: the record of envelopes goes; the loop still ends its turn before it quits.
Wipe ==
  /\ ~wiped /\ wiped' = TRUE
  /\ wraps' = [wraps EXCEPT !["bob"] = <<>>] /\ file' = [file EXCEPT !["bob"] = <<>>]
  /\ shown' = [x \in DOMAIN shown |-> 0] /\ acked' = [m \in Messages |-> 0]
  /\ UNCHANGED <<relay, letters, echo, blocked, ever, failures, starts>>

Next ==
  \/ \E m \in Messages, b \in BOOLEAN : Send(m, b) \/ OpenReceipt(m, b)
  \/ \E w \in relay, ok, receipt \in BOOLEAN : OpenWrap(w, ok, receipt)
  \/ \E w \in relay : DieOpening(w)
  \/ \E l \in Letters, ok \in BOOLEAN : OpenLetter(l, ok)
  \/ \E c \in Clients : Restart(c)
  \/ Block \/ Wipe

Spec == Init /\ [][Next]_vars

\* The relays hand over what they hold, and the loop opens what it is handed.
FairSpec ==
  Spec /\ \A w \in Wraps : WF_vars(OpenWrap(w, TRUE, TRUE) \/ OpenWrap(w, TRUE, FALSE))
-----------------------------------------------------------------------------
\* As long as the record could be written, no message is shown or acknowledged a
\* second time, whatever the relays replay and however the clients restart.
ShownOnce ==
  failures = 0 => (\A x \in DOMAIN shown : shown[x] <= 1) /\ (\A m \in Messages : acked[m] <= 1)

\* A delivery tick on the sender's screen means that the message was shown.
TickMeansShown == \A m \in Messages : echo[m] = "delivered" => m \in ever

\* What was handled stays handled: an id in memory is in the file, so that the next start knows it.
WriteThrough == failures = 0 => \A c \in Clients : ToSet(wraps[c]) \subseteq ToSet(file[c])

\* A wrap that cannot be read is not tried again for ever: every wrap the relays hold
\* is recorded in the end.
EveryWrapSettled ==
  \A w \in Wraps : (w \in relay /\ w.to = "bob") ~> (Contains(wraps["bob"], w) \/ w \notin relay)

\* Between a wipe and the next start the record stays empty.
WipedStaysWiped == wiped => file["bob"] = <<>>
=============================================================================
