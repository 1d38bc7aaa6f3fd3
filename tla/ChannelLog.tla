----------------------------- MODULE ChannelLog -----------------------------
(***************************************************************************)
(* The log of a channel (tui/app.rs): lines of others are placed by the time *)
(* their sender claims, brought into a believable range; our own lines and   *)
(* notices are appended.  A gate over all logs decides which lines are drawn *)
(* as new, and a flood takes the glow back.  A tick is one BURST_WINDOW.     *)
(***************************************************************************)
EXTENDS Integers, Sequences, FiniteSets, SequencesExt

CONSTANTS
  Logs,
  Horizon,     \* LIVE_HORIZON
  BurstLimit,  \* BURST_LIMIT
  MaxPopup,    \* MAX_POPUP_MESSAGES
  MaxLines,    \* bound: lines of a log
  MaxBurst,    \* bound: lines in one window
  MaxNow       \* bound: the clock

\* What the values of the constants have to be.
ChannelLogAssumption == {Horizon, BurstLimit, MaxPopup, MaxLines, MaxBurst, MaxNow} \subseteq Nat

VARIABLES
  now,
  log,      \* log -> <<[epoch, lit, at, gated]>>
  recent,   \* arrival_gate.recent
  popup     \* number of popup_messages

vars == <<now, log, recent, popup>>

\* What a sender may claim: before 1970, any time up to now, and later.
Claims == (-1)..(MaxNow + 1)
-----------------------------------------------------------------------------
\* Whatever the sender says.
AnyEpoch(claim) == claim

BelievableEpoch(claim) == IF claim < 0 THEN 0 ELSE IF claim > now THEN now ELSE claim

IsCurrent(epoch) == now - epoch <= Horizon

\* Only what is admitted is counted, from the last refusal on.
AdmitAgain == LET kept == SelectSeq(recent, LAMBDA t : now - t < 1)
              IN IF Len(kept) >= BurstLimit THEN <<>> ELSE Append(kept, now)

\* ArrivalGate::admit: what is left of the window, and this line.
Admit == Append(SelectSeq(recent, LAMBDA t : now - t < 1), now)
Admitted == Len(Admit) <= BurstLimit

\* apply_admission on the lines before it: a refused line takes the glow from the end of the
\* log back to the first line without one.
Retracted(lines) ==
  IF Admitted THEN lines
  ELSE [i \in DOMAIN lines |-> IF \A j \in i..Len(lines) : lines[j].lit THEN [lines[i] EXCEPT !.lit = FALSE] ELSE lines[i]]

Entry(epoch, lit) == [epoch |-> epoch, lit |-> lit, at |-> now, gated |-> TRUE]

\* Before the lines of the same second.
PositionBefore(lines, epoch) == Cardinality({i \in DOMAIN lines : lines[i].epoch < epoch})

\* In the order of arrival.
PositionArrival(lines, epoch) == Len(lines)

\* Behind the last line that is not later.
Position(lines, epoch) ==
  LET earlier == {i \in DOMAIN lines : lines[i].epoch <= epoch}
  IN IF earlier = {} THEN 0 ELSE CHOOSE i \in earlier : \A j \in earlier : j <= i

InsertInTimeOrder(lines, epoch) ==
  LET news == IsCurrent(epoch)
  IN InsertAt(IF news THEN Retracted(lines) ELSE lines, Position(lines, epoch) + 1,
              Entry(epoch, news /\ Admitted))

PushArrival(lines) == Append(Retracted(lines), Entry(now, Admitted))
-----------------------------------------------------------------------------
AddChannelLine(l, claim) ==
  /\ Len(log[l]) < MaxLines /\ Len(Admit) <= MaxBurst
  /\ log' = [log EXCEPT ![l] = InsertInTimeOrder(@, BelievableEpoch(claim))] /\ recent' = Admit
  /\ UNCHANGED <<now, popup>>

\* add_notice, add_sent_message
AddOwnLine(l) ==
  /\ Len(log[l]) < MaxLines /\ Len(Admit) <= MaxBurst
  /\ log' = [log EXCEPT ![l] = PushArrival(@)] /\ recent' = Admit
  /\ UNCHANGED <<now, popup>>

AddPopupMessage ==
  /\ popup' = IF popup < MaxPopup THEN popup + 1 ELSE popup
  /\ UNCHANGED <<now, log, recent>>

\* transition_to_connected: the lines of the popup, past the gate.
TransitionToConnected(l) ==
  /\ popup > 0 /\ Len(log[l]) + popup <= MaxLines
  /\ log' = [log EXCEPT ![l] = @ \o [i \in 1..popup |-> [Entry(now, TRUE) EXCEPT !.gated = FALSE]]]
  /\ popup' = 0 /\ UNCHANGED <<now, recent>>

ClearConversation(l) ==
  /\ log[l] # <<>> /\ log' = [log EXCEPT ![l] = <<>>]
  /\ UNCHANGED <<now, recent, popup>>

Tick == now < MaxNow /\ now' = now + 1 /\ UNCHANGED <<log, recent, popup>>

Init == now = 0 /\ log = [l \in Logs |-> <<>>] /\ recent = <<>> /\ popup = 0

Next ==
  \/ \E l \in Logs : \/ \E claim \in Claims : AddChannelLine(l, claim)
                     \/ AddOwnLine(l) \/ TransitionToConnected(l) \/ ClearConversation(l)
  \/ AddPopupMessage \/ Tick

Spec == Init /\ [][Next]_vars
-----------------------------------------------------------------------------
\* A log reads in time order, whatever times strangers claim and whatever is appended.
SortedByTime ==
  \A l \in Logs : \A i, j \in DOMAIN log[l] : i < j => log[l][i].epoch <= log[l][j].epoch

\* The newest slot cannot be bought: lines of one second stand in the order they arrived in, and
\* a line dated ahead of us counts as one of the second it arrived in (insert_in_time_order,
\* believable_epoch).
NewestLast ==
  \A l \in Logs : \A i, j \in DOMAIN log[l] :
    /\ log[l][i].epoch <= log[l][i].at
    /\ i < j /\ log[l][i].epoch = log[l][j].epoch => log[l][i].at <= log[l][j].at

\* Of the lines that pass the gate within one window, no more than BURST_LIMIT are lit, in all
\* logs together.
GlowLimited ==
  Cardinality({p \in UNION {{l} \X (DOMAIN log[l]) : l \in Logs} :
     LET line == log[p[1]][p[2]] IN line.gated /\ line.lit /\ line.at = now}) <= BurstLimit

\* Once a flood is recognised, none of its lines is lit in the log where it was recognised.
GlowRetracted ==
  \A l \in Logs :
    LET here == {i \in DOMAIN log[l] : log[l][i].at = now}
    IN (Cardinality(Logs) = 1 /\ Len(recent) > BurstLimit /\ Last(recent) = now)
       => \A i \in here : log[l][i].lit => ~log[l][i].gated
=============================================================================
