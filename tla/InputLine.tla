------------------------------ MODULE InputLine ------------------------------
(***************************************************************************)
(* The compose line: keys, paste and completion of emoji shortcodes         *)
(* (tui/event.rs, tui/app.rs, tui/emoji.rs), and the rows, the cursor and    *)
(* the height it is drawn with (tui/widgets/input_box.rs).  A text is a      *)
(* sequence of characters of these kinds: letters, the space, the colon, a   *)
(* wide character "W", and a heart "h" that a following selector "v" makes   *)
(* two cells wide; pastes may also hold a line break "nl" and a control "ctl". *)
(***************************************************************************)
EXTENDS Integers, Sequences, FiniteSets, SequencesExt

CONSTANTS
  Typed,           \* the characters on the keyboard
  Pastes,          \* texts that are pasted
  Table,           \* the emoji: a sequence of [names, glyph]
  MaxQuery,        \* MAX_QUERY
  MaxSuggestions,  \* MAX_SUGGESTIONS
  Width,           \* cells of the box, without its margin
  MaxRows,         \* rows the layout gives it at most
  MaxLen,          \* bound: characters
  Whole            \* bound: letters typed at a time

VARIABLES text, cursor, selection, dismissed, strokes

vars == <<text, cursor, selection, dismissed, strokes>>

NotDismissed == <<"none">>
-----------------------------------------------------------------------------
(* Emoji *)

NoQuery == [start |-> -1, name |-> <<>>]

\* query_at: back from the cursor to a colon, over one word of bounded length.
\* Positions count the characters before them, as in the code.
QueryAt(value, at) ==
  LET colons == {i \in 0..at-1 : /\ value[i+1] = ":" /\ at - i - 1 <= MaxQuery
                                 /\ \A j \in i+1..at-1 : value[j+1] \notin {":", " "}}
  IN IF colons = {} THEN NoQuery
     ELSE LET start == CHOOSE i \in colons : TRUE
          IN [start |-> start, name |-> SubSeq(value, start + 2, at)]

Within(part, name) == \E i \in 0..Len(name) - Len(part) : SubSeq(name, i + 1, i + Len(part)) = part

\* suggestions: names that start with the query, then names that contain it,
\* each in the order of the table
Suggestions(name) ==
  LET starts(e) == \E n \in e.names : IsPrefix(name, n)
      contains(e) == ~starts(e) /\ \E n \in e.names : Within(name, n)
      found == SelectSeq(Table, starts) \o SelectSeq(Table, contains)
  IN SubSeq(found, 1, IF Len(found) < MaxSuggestions THEN Len(found) ELSE MaxSuggestions)

\* emoji_suggestions: what the strip shows, and nothing while it is hidden
Strip ==
  LET query == QueryAt(text, cursor)
  IN IF query.name = <<>> \/ dismissed = query.name THEN <<>> ELSE Suggestions(query.name)

Highlighted == IF selection < Len(Strip) THEN selection ELSE Len(Strip) - 1

\* The colon stays.
ApplyAfterColon(value, start, stop, glyph) ==
  [text |-> SubSeq(value, 1, start + 1) \o glyph \o SubSeq(value, stop + 1, Len(value)),
   cursor |-> start + 1 + Len(glyph)]

\* apply: the query, from its colon to where it ends, becomes the glyph
Apply(value, start, stop, glyph) ==
  [text |-> SubSeq(value, 1, start) \o glyph \o SubSeq(value, stop + 1, Len(value)),
   cursor |-> start + Len(glyph)]

\* exact: the first of that name
Exact(name) == SelectSeq(Table, LAMBDA e : name \in e.names)

\* expand_finished_shortcode, after a colon was typed before position at
Expanded(value, at) ==
  LET query == QueryAt(value, at - 1)
      found == Exact(query.name)
  IN IF query.name = <<>> \/ found = <<>> THEN [text |-> value, cursor |-> at]
     ELSE Apply(value, query.start, at, found[1].glyph)
-----------------------------------------------------------------------------
(* Rows *)

\* A cluster starts at every character but a selector that has one before it.
ClusterStarts(value) == {i \in 1..Len(value) : value[i] # "v" \/ i = 1}
ClusterEnd(value, i) ==
  CHOOSE e \in i..Len(value) : /\ \A j \in i+1..e : value[j] = "v"
                               /\ e = Len(value) \/ value[e+1] # "v"

\* width of the cluster that starts at i
ClusterWidth(value, i) ==
  CASE value[i] = "W" -> 2 [] value[i] = "v" -> 0
    [] value[i] = "h" /\ ClusterEnd(value, i) > i -> 2 [] OTHER -> 1

\* Cells of the characters from a to b, of which a starts a cluster
Cells(value, a, b) ==
  LET f[i \in a-1..b] == IF i = a - 1 THEN 0 ELSE f[i-1] + (IF i \in ClusterStarts(value) THEN ClusterWidth(value, i) ELSE 0)
  IN f[b]

\* Rows break between characters.
WrapRowsByChar(value) ==
  LET f[i \in 0..Len(value)] ==
        IF i = 0 THEN [rows |-> <<>>, start |-> 1, width |-> 0]
        ELSE LET s == f[i-1]
                 w == IF value[i] = "W" THEN 2 ELSE 1
             IN IF s.width + w > Width /\ i > s.start
                THEN [rows |-> Append(s.rows, <<s.start, i - 1>>), start |-> i, width |-> w]
                ELSE [s EXCEPT !.width = @ + w]
      end == f[Len(value)]
  IN Append(end.rows, <<end.start, Len(value)>>)

\* wrap_rows as it stands before character i: the rows that are complete, the
\* start of the one under way, its width and its last break between words.
\* Rows are <<first, last>>.
WrapRows(value) ==
  LET place(s, i) ==
        LET w == ClusterWidth(value, i)
            breakAt == IF s.space > s.start THEN s.space ELSE i
            broken == IF s.width + w > Width /\ i > s.start
                      THEN [rows |-> Append(s.rows, <<s.start, breakAt - 1>>), start |-> breakAt,
                            width |-> Cells(value, breakAt, i - 1), space |-> 0]
                      ELSE s
        IN [broken EXCEPT !.width = @ + w, !.space = IF value[i] = " " /\ ClusterEnd(value, i) = i THEN i + 1 ELSE @]
      f[i \in 0..Len(value)] ==
        IF i = 0 THEN [rows |-> <<>>, start |-> 1, width |-> 0, space |-> 0]
        ELSE IF i \in ClusterStarts(value) THEN place(f[i-1], i) ELSE f[i-1]
      end == f[Len(value)]
  IN Append(end.rows, <<end.start, Len(value)>>)

\* calculate_cursor_position, counting every character before the cursor as a cell
CursorCounting(value, at) ==
  LET rows == WrapRows(value)
      line == CHOOSE l \in DOMAIN rows : /\ at < rows[l][2] \/ l = Len(rows)
                                         /\ \A k \in 1..l-1 : at >= rows[k][2]
  IN [line |-> line, column |-> at + 1 - rows[line][1]]

\* calculate_cursor_position: the first row that ends beyond the cursor, or the
\* last; the column counts the clusters that lie before the cursor entirely
CursorPosition(value, at) ==
  LET rows == WrapRows(value)
      line == CHOOSE l \in DOMAIN rows : /\ at < rows[l][2] \/ l = Len(rows)
                                         /\ \A k \in 1..l-1 : at >= rows[k][2]
      before == {i \in ClusterStarts(value) : i >= rows[line][1] /\ ClusterEnd(value, i) <= at}
      f[i \in 0..Len(value)] ==
        IF i = 0 THEN 0 ELSE f[i-1] + (IF i \in before THEN ClusterWidth(value, i) ELSE 0)
  IN [line |-> line, column |-> f[Len(value)]]

CharWidth(c) == CASE c = "W" -> 2 [] c = "v" -> 0 [] OTHER -> 1

\* get_input_box_height and the clamp of render_conversation
BoxHeight(value) ==
  LET f[i \in 0..Len(value)] ==
        IF i = 0 THEN [rows |-> 1, width |-> 0]
        ELSE LET w == CharWidth(value[i])
             IN IF f[i-1].width + w > Width THEN [rows |-> f[i-1].rows + 1, width |-> w]
                ELSE [f[i-1] EXCEPT !.width = @ + w]
      rows == f[Len(value)].rows
  IN IF rows > MaxRows THEN MaxRows ELSE rows
-----------------------------------------------------------------------------
Init == text = <<>> /\ cursor = 0 /\ selection = 0 /\ dismissed = NotDismissed /\ strokes = 0

Stroke == strokes < MaxLen /\ strokes' = strokes + 1

Spliced(value, at, part) == SubSeq(value, 1, at) \o part \o SubSeq(value, at + 1, Len(value))

\* A letter, a space, or Whole letters of a longer word
Type(c) ==
  /\ Stroke /\ c # ":"
  /\ \E n \in {1, Whole} :
       /\ n = 1 \/ c = "a"
       /\ text' = Spliced(text, cursor, [i \in 1..n |-> c]) /\ cursor' = cursor + n
  /\ UNCHANGED <<selection, dismissed>>

\* A colon, which may finish a shortcode
TypeColon ==
  /\ ":" \in Typed /\ Stroke
  /\ LET typed == Spliced(text, cursor, <<":">>)
         after == Expanded(typed, cursor + 1)
     IN /\ text' = after.text /\ cursor' = after.cursor
        /\ IF after.text # typed THEN selection' = 0 /\ dismissed' = NotDismissed
           ELSE UNCHANGED <<selection, dismissed>>

Backspace ==
  /\ cursor > 0 /\ Stroke
  /\ text' = SubSeq(text, 1, cursor - 1) \o SubSeq(text, cursor + 1, Len(text)) /\ cursor' = cursor - 1
  /\ UNCHANGED <<selection, dismissed>>

Move(d) ==
  /\ cursor + d \in 0..Len(text) /\ Stroke
  /\ cursor' = cursor + d
  /\ UNCHANGED <<text, selection, dismissed>>

\* handle_paste_event: line breaks become spaces, other controls go, and unless
\* it is blank the rest comes at the end, with the cursor after it
Folded(part) ==
  LET spaced == [i \in DOMAIN part |-> IF part[i] = "nl" THEN " " ELSE part[i]]
  IN SelectSeq(spaced, LAMBDA c : c # "ctl")

Paste(part) ==
  /\ \E i \in DOMAIN Folded(part) : Folded(part)[i] # " "
  /\ Stroke
  /\ text' = text \o Folded(part) /\ cursor' = Len(text')
  /\ UNCHANGED <<selection, dismissed>>

\* Tab, while the strip shows
AcceptEmoji ==
  /\ Strip # <<>> /\ Stroke
  /\ LET query == QueryAt(text, cursor)
         after == Apply(text, query.start, cursor, Strip[Highlighted + 1].glyph)
     IN text' = after.text /\ cursor' = after.cursor
  /\ selection' = 0 /\ dismissed' = NotDismissed

\* Up and Down, while the strip shows
MoveEmojiSelection(d) ==
  /\ Strip # <<>> /\ Stroke
  /\ selection' = LET to == selection + d IN
                  IF to < 0 THEN 0 ELSE IF to >= Len(Strip) THEN Len(Strip) - 1 ELSE to
  /\ UNCHANGED <<text, cursor, dismissed>>

\* Esc, while the strip shows
DismissEmoji ==
  /\ Strip # <<>> /\ Stroke
  /\ dismissed' = QueryAt(text, cursor).name /\ selection' = 0
  /\ UNCHANGED <<text, cursor>>

\* Enter: the line goes to the main loop, unless its queue is full
Send ==
  /\ text # <<>> /\ Stroke
  /\ text' = <<>> /\ cursor' = 0
  /\ UNCHANGED <<selection, dismissed>>

Next ==
  \/ \E c \in Typed : Type(c)
  \/ TypeColon \/ Backspace \/ AcceptEmoji \/ DismissEmoji \/ Send
  \/ \E d \in {-1, 1} : Move(d) \/ MoveEmojiSelection(d)
  \/ \E part \in Pastes : Paste(part)

Spec == Init /\ [][Next]_vars
-----------------------------------------------------------------------------
(* Properties *)

\* The rows hold every character once, in order, and no row tears a cluster
\* (wrap_rows).
RowsCover ==
  LET rows == WrapRows(text) IN
  /\ rows[1][1] = 1 /\ rows[Len(rows)][2] = Len(text)
  /\ \A i \in 1..Len(rows)-1 : rows[i+1][1] = rows[i][2] + 1 /\ rows[i][2] >= rows[i][1]
  /\ \A i \in DOMAIN rows : text # <<>> => rows[i][1] \in ClusterStarts(text)

\* The cursor is drawn at the edge of a cluster of the row it is in, never left
\* of where it was for an earlier place in the text: walking right over the text
\* walks right and down over the rows, cell by cell (calculate_cursor_position).
CursorFollows ==
  LET rows == WrapRows(text)
      at(k) == CursorPosition(text, k)
  IN \A k \in 0..Len(text) :
       /\ at(k).column <= Cells(text, rows[at(k).line][1], rows[at(k).line][2])
       /\ k < Len(text) =>
            \/ at(k+1).line = at(k).line /\ at(k+1).column - at(k).column \in 0..2
            \/ at(k+1).line = at(k).line + 1 /\ at(k+1).column = 0

\* A glyph takes the place of one whole shortcode: when a key other than a paste
\* adds a glyph, one colon is gone, and what stood before that colon and after the
\* cursor stands (apply, accept_emoji, expand_finished_shortcode).
GlyphForShortcodeStep ==
  LET count(value, set) == Cardinality({i \in DOMAIN value : value[i] \in set})
      open == QueryAt(text, cursor)
      after == SubSeq(text, cursor + 1, Len(text))
  IN count(text', {"W", "h"}) > count(text, {"W", "h"}) /\ ~IsPrefix(text, text')
     => /\ count(text', {":"}) = count(text, {":"}) - 1
        /\ IsPrefix(SubSeq(text, 1, open.start), text') /\ IsSuffix(after, text')
        /\ cursor' = Len(text') - Len(after)
GlyphForShortcode == [][GlyphForShortcodeStep]_vars

\* Up moves the highlight of a strip whose first entry is not the highlighted one
\* (move_emoji_selection).
HighlightMoves ==
  [][MoveEmojiSelection(-1) /\ Highlighted > 0 => Highlighted' = Highlighted - 1]_vars

\* No row is wider than the box, unless it is a single cluster (wrap_rows).
RowsFit ==
  LET rows == WrapRows(text) IN
  \A i \in DOMAIN rows : \/ Cells(text, rows[i][1], rows[i][2]) <= Width
                         \/ Cardinality(ClusterStarts(text) \cap (rows[i][1]..rows[i][2])) = 1

\* A text that needs no more rows than the layout may give is given as many as
\* are drawn (get_input_box_height).
HeightFits == Len(WrapRows(text)) <= MaxRows => BoxHeight(text) >= Len(WrapRows(text))
=============================================================================
