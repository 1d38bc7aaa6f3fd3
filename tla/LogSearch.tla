----------------------------- MODULE LogSearch ------------------------------
(***************************************************************************)
(* Finding a line in the log on screen (tui/search.rs and the keys of        *)
(* tui/event.rs): the prompt, the hits, walking them, and the scroll offset, *)
(* which counts lines back from the newest.  Lines go on arriving meanwhile, *)
(* placed by their time, and the log may be cleared.  A line is the set of   *)
(* the queries it matches.                                                   *)
(***************************************************************************)
EXTENDS Naturals, Sequences, FiniteSets, SequencesExt

CONSTANTS
  Queries,    \* what may be typed
  Height,     \* message_viewport_height
  MaxLines,   \* bound: lines of the log
  Arrivals    \* bound: lines that arrive after the start

\* What the values of the constants have to be.
LogSearchAssumption == Height \in Nat \ {0} /\ MaxLines \in Nat /\ Arrivals \in Nat

NoQuery == ""

VARIABLES
  log,       \* the lines of the conversation on screen, each with the queries it matches
  arrived,   \* lines so far
  scroll,    \* msg_scroll
  prompt,    \* prompt_open
  query,
  hits,      \* indices, 1-based, oldest first
  selected,  \* index into hits, from 1; 0 when there are none
  before,    \* scroll_before
  place,     \* the line at the foot of the log when the prompt was opened
  found      \* the line each hit stood for when the search ran

search == <<prompt, query, hits, selected, before, found>>
vars == <<log, arrived, scroll, search, place>>

Line(n, matching) == [id |-> n, matching |-> matching]
-----------------------------------------------------------------------------
Least(a, b) == IF a < b THEN a ELSE b
Minus(a, b) == IF a > b THEN a - b ELSE 0

MaxScroll == Minus(Len(log), Height)

\* The line before it.
ScrollForBefore(index, total) == Least(total - (index - 1), Minus(total, Height))

\* scroll_for, of a 1-based index.
ScrollFor(index, total) == Least(Minus(total, index), Minus(total, Height))

\* The rows of the viewport at an offset.
Visible == {i \in DOMAIN log : i <= Len(log) - scroll /\ i > Len(log) - scroll - Height}

Foot == LET i == Minus(Len(log), scroll) IN IF i = 0 THEN 0 ELSE log[i].id

\* run, of a query: oldest first, with the newest selected.
Run(q) ==
  LET of == IF q = NoQuery THEN {} ELSE {i \in DOMAIN log : q \in log[i].matching}
  IN /\ hits' = SetToSortSeq(of, <)
     /\ selected' = Cardinality(of)
     /\ found' = [h \in 1..Cardinality(of) |-> log[hits'[h]].id]

Cleared == prompt' = FALSE /\ query' = NoQuery /\ hits' = <<>> /\ selected' = 0 /\ found' = <<>>

IsWalking == ~prompt /\ hits # <<>>

\* jump_to_current_match
Jump(sel) == scroll' = IF sel \in DOMAIN hits THEN ScrollFor(hits[sel], Len(log)) ELSE scroll
-----------------------------------------------------------------------------
\* '/' in the log
Open ==
  /\ ~prompt
  /\ prompt' = TRUE /\ query' = NoQuery /\ hits' = <<>> /\ selected' = 0 /\ found' = <<>>
  /\ before' = scroll /\ place' = Foot
  /\ UNCHANGED <<log, arrived, scroll>>

\* A character or Backspace: the hits are those of the query as it now stands.
Edit(q) ==
  /\ prompt /\ query # q
  /\ query' = q /\ Run(q)
  /\ UNCHANGED <<log, arrived, scroll, prompt, before, place>>

\* Enter
Commit ==
  /\ prompt /\ prompt' = FALSE /\ Jump(selected)
  /\ UNCHANGED <<log, arrived, query, hits, selected, before, found, place>>

\* Esc, at the prompt or while walking: it restores where the log was.
CancelHere == (prompt \/ IsWalking) /\ Cleared /\ UNCHANGED <<log, arrived, scroll, before, place>>

Cancel ==
  /\ prompt \/ IsWalking
  /\ Cleared /\ scroll' = before
  /\ UNCHANGED <<log, arrived, before, place>>

\* n, which wraps to the oldest
NextHit ==
  /\ IsWalking
  /\ selected' = IF selected + 1 > Len(hits) THEN 1 ELSE selected + 1
  /\ Jump(selected')
  /\ UNCHANGED <<log, arrived, prompt, query, hits, before, found, place>>

\* N, which wraps to the newest
PreviousHit ==
  /\ IsWalking
  /\ selected' = IF selected <= 1 THEN Len(hits) ELSE selected - 1
  /\ Jump(selected')
  /\ UNCHANGED <<log, arrived, prompt, query, hits, before, found, place>>

\* Past the top.
ScrollUpFreely(by) == ~prompt /\ scroll' = scroll + by /\ scroll < MaxLines /\ UNCHANGED <<log, arrived, search, place>>

\* The keys and the wheel: a line, a page or a notch, to the top, to the bottom.
ScrollUp(by) ==
  /\ ~prompt /\ scroll' = Least(scroll + by, MaxScroll)
  /\ UNCHANGED <<log, arrived, search, place>>

ScrollDown(by) ==
  /\ ~prompt /\ scroll' = Minus(scroll, by)
  /\ UNCHANGED <<log, arrived, search, place>>

\* update_current_conversation forgets the search; another log, here a short one, is then on screen.
SwitchConversation ==
  /\ ~prompt /\ arrived < Arrivals /\ Cleared /\ arrived' = arrived + 1
  /\ log' \in {<<>>, <<Line(MaxLines + arrived', {})>>}
  /\ UNCHANGED <<scroll, before, place>>

\* add_channel_line, at any place in the log; the log goes to the bottom.
Arrive(position, matching) ==
  /\ Len(log) < MaxLines /\ arrived < Arrivals
  /\ arrived' = arrived + 1 /\ log' = InsertAt(log, position, Line(MaxLines + arrived', matching))
  /\ scroll' = 0
  /\ UNCHANGED <<search, place>>

\* clear_current_conversation
Clear == ~prompt /\ log # <<>> /\ log' = <<>> /\ scroll' = 0 /\ UNCHANGED <<arrived, search, place>>

Init ==
  /\ log \in {[i \in 1..n |-> Line(i, m[i])] : n \in {0, MaxLines - 1}, m \in [1..(MaxLines - 1) -> SUBSET Queries]}
  /\ arrived = 0 /\ scroll = 0 /\ prompt = FALSE /\ query = NoQuery /\ hits = <<>> /\ selected = 0
  /\ before = 0 /\ place = 0 /\ found = <<>>

Keys ==
  \/ Open \/ Commit \/ Cancel \/ NextHit \/ PreviousHit
  \/ \E q \in Queries \cup {NoQuery} : Edit(q)
  \/ \E by \in {1, 3, Height, MaxLines} : ScrollUp(by) \/ ScrollDown(by)

Next ==
  \/ Keys
  \/ SwitchConversation \/ Clear
  \/ \E position \in 1..(Len(log) + 1), matching \in SUBSET Queries : Arrive(position, matching)

Spec == Init /\ [][Next]_vars

\* Nothing arrives.
SettledSpec == Init /\ [][Keys]_vars
-----------------------------------------------------------------------------
\* A jump brings the selected match on screen, at either end of the log, as long as the hit is
\* an index of the log.
MatchVisibleStep ==
  (hits' # <<>> /\ selected' \in DOMAIN hits' /\ hits'[selected'] \in DOMAIN log' /\ log' = log
     /\ (selected' # selected \/ (prompt /\ ~prompt')) /\ ~prompt')
    => hits'[selected'] \in Visible'
MatchVisible == [][MatchVisibleStep]_vars

\* The offset never goes past the top of the log, so that a log with lines shows some.
ScrollInRange == scroll <= MaxScroll

\* Esc brings back the line that was at the foot of a log that was scrolled back when the prompt
\* was opened.
PlaceKeptStep == (Cancel /\ query # NoQuery /\ before > 0) => Foot' = place
PlaceKept == [][PlaceKeptStep]_vars

\* A hit is still the line that was found.
HitsStand == \A h \in DOMAIN hits : hits[h] \in DOMAIN log /\ log[hits[h]].id = found[h]
=============================================================================
