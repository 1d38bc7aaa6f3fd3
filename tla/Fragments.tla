----------------------------- MODULE Fragments ------------------------------
(***************************************************************************)
(* A packet too large for one write: split by its sender (fragment.rs split, *)
(* mesh.rs file_frames), written through a link whose queue is bounded       *)
(* (transport.rs), and assembled by a receiver (fragment.rs Assembler) that  *)
(* hears fragments of several transfers, late, repeatedly and in any order.  *)
(* A transfer is a number; a fragment says which piece of which it carries.  *)
(***************************************************************************)
EXTENDS Integers, Sequences, FiniteSets, SequencesExt

CONSTANTS
  Senders, Ids,
  Totals,       \* fragments a transfer may need
  Depth,        \* LINK_INBOX_DEPTH
  MaxBytes,     \* MAX_ASSEMBLED_BYTES, in pieces
  MaxInFlight,  \* MAX_IN_FLIGHT
  Lifetime,     \* ASSEMBLY_LIFETIME, in ticks
  MaxTransfers, MaxTime   \* bounds

\* What the values of the constants have to be.
FragmentsAssumption ==
  /\ {Depth, MaxInFlight, Lifetime, MaxTransfers, MaxTime} \subseteq Nat
  /\ MaxBytes \in Nat \ {0}
  /\ Totals \subseteq Nat \ {0}

VARIABLES
  transfers,  \* in the order they were started: sender, id, total
  sending,    \* per sender: the pieces its loop has yet to hand to the router
  inbox,      \* per sender: the queue of its link
  air,        \* fragments that were written
  asm,        \* Assembler.in_flight: per key
  whole,      \* ghost: per transfer, how often it was completed
  spliced,    \* ghost: something was completed that nobody sent
  now

fragmentVars == <<transfers, sending, inbox, air, asm, whole, spliced, now>>

\* Two peers that pick the same id share an assembly.
KeyById(f) == <<f.id>>

Key(f) == <<f.sender, f.id>>

FragmentsTypeOK ==
  /\ Cardinality(DOMAIN asm) <= MaxInFlight
  /\ \A k \in DOMAIN asm :
       /\ asm[k].pieces \in Seq(0 .. Len(transfers))
       /\ Cardinality({i \in DOMAIN asm[k].pieces : asm[k].pieces[i] # 0}) \in 1 .. MaxBytes
       /\ \E i \in DOMAIN asm[k].pieces : asm[k].pieces[i] = 0
       /\ asm[k].started <= now
  /\ \A s \in Senders : Len(inbox[s]) <= Depth

FragmentsInit ==
  /\ transfers = <<>> /\ air = {} /\ asm = <<>> /\ whole = <<>> /\ spliced = FALSE
  /\ sending = [s \in Senders |-> <<>>] /\ inbox = [s \in Senders |-> <<>>] /\ now = 0
-----------------------------------------------------------------------------
(* The sender *)

Split(t, s, id, total) ==
  [i \in 1 .. total |-> [sender |-> s, id |-> id, index |-> i, total |-> total, of |-> t]]

\* A fresh id per transfer of one sender; two senders may pick the same.
FileFrames(s, id, total) ==
  /\ Len(transfers) < MaxTransfers /\ sending[s] = <<>>
  /\ \A i \in DOMAIN transfers : transfers[i].sender # s \/ transfers[i].id # id
  /\ transfers' = Append(transfers, [sender |-> s, id |-> id, total |-> total])
  /\ whole' = Append(whole, 0)
  /\ sending' = [sending EXCEPT ![s] = Split(Len(transfers) + 1, s, id, total)]
  /\ UNCHANGED <<inbox, air, asm, spliced, now>>

\* The loop hands over frame after frame; the router writes with try_send, and what a full
\* queue refuses is lost.
Route(s) ==
  /\ sending[s] # <<>>
  /\ sending' = [sending EXCEPT ![s] = Tail(@)]
  /\ inbox' = IF Len(inbox[s]) < Depth
              THEN [inbox EXCEPT ![s] = Append(@, Head(sending[s]))] ELSE inbox
  /\ UNCHANGED <<transfers, air, asm, whole, spliced, now>>

Write(s) ==
  /\ inbox[s] # <<>>
  /\ inbox' = [inbox EXCEPT ![s] = Tail(@)]
  /\ air' = air \cup {Head(inbox[s])}
  /\ UNCHANGED <<transfers, sending, asm, whole, spliced, now>>

\* A sender that starts over under the same id and counts differently.
Recount(f) ==
  /\ f.total = transfers[f.of].total /\ \A g \in air : g.total = transfers[g.of].total
  /\ air' = air \cup {[f EXCEPT !.total = @ + 1]}
  /\ UNCHANGED <<transfers, sending, inbox, asm, whole, spliced, now>>
-----------------------------------------------------------------------------
(* The receiver *)

Expire(a) == [k \in {j \in DOMAIN a : now - a[j].started < Lifetime} |-> a[k]]

Dropping(a, key) == [k \in DOMAIN a \ {key} |-> a[k]]

Fill(a, f) ==
  [k \in DOMAIN a \cup {Key(f)} |->
     IF k # Key(f) THEN a[k]
     ELSE IF k \in DOMAIN a THEN [a[k] EXCEPT !.pieces[f.index] = f.of]
     ELSE [started |-> now, pieces |-> [i \in 1 .. f.total |-> IF i = f.index THEN f.of ELSE 0]]]

Received(entry) == Cardinality({i \in DOMAIN entry.pieces : entry.pieces[i] # 0})

\* A fragment of an assembly in flight, or of a new one.
Taken(a, f) ==
  LET known == Key(f) \in DOMAIN a
  IN CASE known /\ Len(a[Key(f)].pieces) # f.total -> Dropping(a, Key(f))
       [] known /\ Len(a[Key(f)].pieces) = f.total /\ a[Key(f)].pieces[f.index] # 0 -> a
       [] known /\ Len(a[Key(f)].pieces) = f.total /\ a[Key(f)].pieces[f.index] = 0
            /\ Received(a[Key(f)]) >= MaxBytes -> Dropping(a, Key(f))
       [] OTHER -> Fill(a, f)

\* No limit on assemblies.
NeverFull(a, f) == FALSE

Full(a, f) == Key(f) \notin DOMAIN a /\ Cardinality(DOMAIN a) >= MaxInFlight

\* A newcomer takes the place of the oldest.
AppendedEvicting(a, f) ==
  IF Full(a, f)
  THEN LET oldest == CHOOSE k \in DOMAIN a : \A j \in DOMAIN a : a[k].started <= a[j].started
       IN Fill(Dropping(a, oldest), f)
  ELSE Taken(a, f)

\* append: what is in flight afterwards, with the finished assembly still in it.
\* When there are too many, the newcomer is dropped.
Appended(a, f) == IF Full(a, f) THEN a ELSE Taken(a, f)

Complete(entry) == \A i \in DOMAIN entry.pieces : entry.pieces[i] # 0

\* handle_packet of a fragment: a finished assembly is decoded and handled at once.
HandleFragment(f) ==
  LET after == Appended(Expire(asm), f)
      done == Key(f) \in DOMAIN after /\ Complete(after[Key(f)])
      content == after[Key(f)].pieces
      sound == Len(content) = transfers[f.of].total /\ \A i \in DOMAIN content : content[i] = f.of
  IN /\ asm' = IF done THEN Dropping(after, Key(f)) ELSE after
     /\ whole' = IF done /\ sound THEN [whole EXCEPT ![f.of] = @ + 1] ELSE whole
     /\ spliced' = (spliced \/ (done /\ ~sound))
     /\ UNCHANGED <<transfers, sending, inbox, air, now>>

Tick == now < MaxTime /\ now' = now + 1 /\ UNCHANGED <<transfers, sending, inbox, air, asm, whole, spliced>>

FragmentsNext ==
  \/ \E s \in Senders : \/ \E id \in Ids, total \in Totals : FileFrames(s, id, total)
                        \/ Route(s) \/ Write(s)
  \/ \E f \in air : Recount(f) \/ (whole[f.of] < 2 /\ HandleFragment(f))
  \/ Tick

FragmentsSpec == FragmentsInit /\ [][FragmentsNext]_fragmentVars
-----------------------------------------------------------------------------
\* What an assembly yields is a packet that one sender sent, whole and in order:
\* never pieces of two transfers, however ids repeat and totals change.
NeverSpliced == ~spliced

\* An assembly in progress is never given up for a newcomer: it ends by being
\* completed, by its lifetime, or by a fragment of its own that contradicts it.
ProgressKeptStep ==
  \A k \in DOMAIN asm :
     \/ k \in DOMAIN asm'
     \/ now - asm[k].started >= Lifetime
     \/ whole' # whole \/ spliced'
     \/ \E f \in air : Key(f) = k /\ (f.total # Len(asm[k].pieces) \/ Received(asm[k]) >= MaxBytes)

\* A file whose sender was told "sent" was at least written to the link or waits for it.
SentWasQueued ==
  \A t \in DOMAIN transfers :
    LET x == transfers[t]
        pieces == Split(t, x.sender, x.id, x.total)
        queued == {inbox[x.sender][i] : i \in DOMAIN inbox[x.sender]}
    IN sending[x.sender] = <<>> => \A i \in DOMAIN pieces : pieces[i] \in air \cup queued

\* What an assembly yields is one packet of one sender, whole and in order, however ids
\* repeat and totals change; assemblies stay within their number and size; and one in
\* progress is never given up for a newcomer.
AssembledWhole ==
  /\ [](FragmentsTypeOK /\ NeverSpliced)
  /\ [][ProgressKeptStep]_fragmentVars
=============================================================================
