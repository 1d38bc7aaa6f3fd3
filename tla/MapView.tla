------------------------------ MODULE MapView -------------------------------
(***************************************************************************)
(* The world map (tui/map.rs and the map's keys of tui/event.rs): the prefix *)
(* whose children are on the grid, the cell under the cursor, the voices     *)
(* heard in the cells and in the channels under them, the list of the        *)
(* busiest channels, and the sampler the main loop points at the view.       *)
(*                                                                           *)
(* A geohash (geohash.rs) is a sequence of digits whose bits halve the       *)
(* longitude and the latitude in turn.  A side of a cell after n halvings is *)
(* [k, n], the interval from k / 2^n to (k + 1) / 2^n of the world, counted  *)
(* from the west and from the south: halving is exact.                       *)
(***************************************************************************)
EXTENDS Naturals, Sequences, FiniteSets, SequencesExt

CONSTANTS
  BitsPerDigit,   \* 5, for base 32
  MaxPrecision,   \* MAX_PRECISION
  Levels,         \* precisions that are channel levels
  HotspotLimit,   \* HOTSPOT_LIMIT
  Channels,       \* channels the user may be in when the map is opened
  Keys,           \* public keys
  MaxHeard        \* bound: events

VARIABLES
  open,      \* map_open
  focus, selection, pane, hotspotSelection,
  layout,    \* the cells of the grid and their places
  voices,    \* hotspots: channel -> keys heard in it; activity is what they add up to
  messages,  \* channels with a message, not a bare beacon
  dirty,     \* view_dirty
  sampled,   \* what the relays are asked for
  wire,      \* events of the sampler that have not been taken: <<channel, key>>
  heard

nav == <<open, focus, selection, layout>>
list == <<pane, hotspotSelection, voices, messages>>
vars == <<nav, list, dirty, sampled, wire, heard>>

Nowhere == <<>>
-----------------------------------------------------------------------------
Digits == 0 .. (2 ^ BitsPerDigit - 1)

Bit(digit, i) == (digit \div 2 ^ i) % 2

\* Bit j of a geohash, the most significant of the first digit first.
BitOf(geohash, j) ==
  Bit(geohash[((j - 1) \div BitsPerDigit) + 1], BitsPerDigit - 1 - ((j - 1) % BitsPerDigit))

\* One side, from every other bit.
Side(geohash, first) ==
  LET halvings == (Len(geohash) * BitsPerDigit + 2 - first) \div 2
      half[n \in 0 .. halvings] ==
        IF n = 0 THEN 0 ELSE 2 * half[n - 1] + BitOf(geohash, 2 * (n - 1) + first)
  IN [k |-> half[halvings], n |-> halvings]

\* The same bits for both sides.
BBoxOneSide(geohash) == [lon |-> Side(geohash, 1), lat |-> Side(geohash, 1)]

\* bbox: the longitude starts.
BBox(geohash) == [lon |-> Side(geohash, 1), lat |-> Side(geohash, 2)]

Children(prefix) == {Append(prefix, d) : d \in Digits}

\* Rows counted from the south.
GridLayoutSouth(prefix) ==
  LET box == [d \in Digits |-> BBox(Append(prefix, d))]
      south == CHOOSE k \in {box[d].lat.k : d \in Digits} : \A d \in Digits : box[d].lat.k >= k
      west == CHOOSE k \in {box[d].lon.k : d \in Digits} : \A d \in Digits : box[d].lon.k >= k
  IN [d \in Digits |-> [row |-> box[d].lat.k - south, col |-> box[d].lon.k - west]]

\* grid_layout: the north is row 0, the west is column 0.
GridLayout(prefix) ==
  LET box == [d \in Digits |-> BBox(Append(prefix, d))]
      north == CHOOSE k \in {box[d].lat.k : d \in Digits} : \A d \in Digits : box[d].lat.k <= k
      west == CHOOSE k \in {box[d].lon.k : d \in Digits} : \A d \in Digits : box[d].lon.k >= k
  IN [d \in Digits |-> [row |-> north - box[d].lat.k, col |-> box[d].lon.k - west]]

\* The half of an interval of n halvings that a point [k, n], with more, lies in.
HalfOf(point, n) == (point.k \div 2 ^ (point.n - n)) % 2

\* Every digit starts with the longitude.
EncodeRestarting(lat, lon, precision) ==
  LET at(i, b) == IF b % 2 = 1 THEN HalfOf(lon, (i - 1) * (BitsPerDigit \div 2 + 1) + (b + 1) \div 2)
                  ELSE HalfOf(lat, (i - 1) * (BitsPerDigit \div 2) + b \div 2)
      digit(i) == LET value[b \in 0 .. BitsPerDigit] == IF b = 0 THEN 0 ELSE 2 * value[b - 1] + at(i, b)
                  IN value[BitsPerDigit]
  IN [i \in 1 .. precision |-> digit(i)]

\* encode: of a point, to a precision.
Encode(lat, lon, precision) ==
  LET bit(j) == IF j % 2 = 1 THEN HalfOf(lon, (j + 1) \div 2) ELSE HalfOf(lat, j \div 2)
      digit(i) == LET value[b \in 0 .. BitsPerDigit] ==
                        IF b = 0 THEN 0 ELSE 2 * value[b - 1] + bit((i - 1) * BitsPerDigit + b)
                  IN value[BitsPerDigit]
  IN [i \in 1 .. precision |-> digit(i)]

\* decode_center: the middle of a side, one halving further.
Center(side) == [k |-> 2 * side.k + 1, n |-> side.n + 1]
-----------------------------------------------------------------------------
SelectedCell == Append(focus, selection)
Precision == Len(focus) + 1
CanDrillIn == Precision < MaxPrecision

TargetsOf(prefix) ==
  IF Len(prefix) + 1 \in Levels THEN Children(prefix) ELSE UNION {Children(c) : c \in Children(prefix)}

\* sample_targets
SampleTargets == TargetsOf(focus)

\* The cell at a place of a grid; another one if there is none.
At(grid, row, col, other) ==
  LET there == {d \in Digits : grid[d] = [row |-> row, col |-> col]}
  IN IF there = {} THEN other ELSE CHOOSE d \in there : TRUE

Northwest(grid) == At(grid, 0, 0, 0)

\* set_focus, and the cell put under the cursor.
SetFocus(prefix, sel) ==
  /\ focus' = prefix /\ layout' = GridLayout(prefix) /\ selection' = sel /\ dirty' = TRUE
  /\ voices' = [c \in {} |-> {}] /\ messages' = {} /\ hotspotSelection' = 0

\* focus_on
FocusOn(geohash) == SetFocus(Front(geohash), Last(geohash))

\* top_hotspots: people, then messages, then the name.
Above(a, b) ==
  LET pa == Cardinality(voices[a])  pb == Cardinality(voices[b])
      ma == a \in messages  mb == b \in messages
      first == {i \in DOMAIN a \cap DOMAIN b : a[i] # b[i]}
  IN \/ pa > pb
     \/ pa = pb /\ ma /\ ~mb
     \/ /\ pa = pb /\ ma = mb
        /\ IF first = {} THEN Len(a) < Len(b)
           ELSE LET i == CHOOSE k \in first : \A l \in first : k <= l IN a[i] < b[i]

TopHotspots ==
  LET ranked == SetToSortSeq(DOMAIN voices, Above)
  IN SubSeq(ranked, 1, IF Len(ranked) < HotspotLimit THEN Len(ranked) ELSE HotspotLimit)

\* hotspot_cursor, 1-based; 0 for an empty list.
HotspotCursor == IF hotspotSelection >= Len(TopHotspots) THEN Len(TopHotspots) ELSE hotspotSelection + 1
-----------------------------------------------------------------------------
\* A key of the map: the main loop has pointed the sampler since the last one.
Key == open /\ ~dirty

\* open_map
OpenMap(channel) ==
  /\ ~open /\ ~dirty /\ open' = TRUE
  /\ IF channel = Nowhere
     THEN dirty' = TRUE /\ UNCHANGED <<focus, selection, layout, voices, messages, hotspotSelection>>
     ELSE FocusOn(channel)
  /\ UNCHANGED <<pane, sampled, wire, heard>>

CloseMap ==
  /\ Key /\ open' = FALSE
  /\ UNCHANGED <<focus, selection, layout, list, dirty, sampled, wire, heard>>

DrillIn ==
  /\ Key /\ CanDrillIn
  /\ SetFocus(SelectedCell, Northwest(layout'))
  /\ UNCHANGED <<open, pane, sampled, wire, heard>>

\* The cursor goes to the corner.
DrillOutCorner ==
  /\ Key /\ focus # <<>>
  /\ SetFocus(Front(focus), Northwest(layout'))
  /\ UNCHANGED <<open, pane, sampled, wire, heard>>

DrillOut ==
  /\ Key /\ focus # <<>>
  /\ SetFocus(Front(focus), Last(focus))
  /\ UNCHANGED <<open, pane, sampled, wire, heard>>

\* The arrows on the grid; the cursor stops at the edges.
MoveSelection(dr, dc) ==
  LET rows == {layout[d].row : d \in Digits}  cols == {layout[d].col : d \in Digits}
      at == layout[selection]
      row == IF at.row + dr \in rows THEN at.row + dr ELSE at.row
      col == IF at.col + dc \in cols THEN at.col + dc ELSE at.col
  IN /\ Key /\ (pane = "Grid" \/ dr = 0)
     /\ selection' = At(layout, row, col, selection)
     /\ UNCHANGED <<open, focus, layout, list, dirty, sampled, wire, heard>>

TogglePane ==
  /\ Key
  /\ pane' = IF pane = "Grid" /\ TopHotspots # <<>> THEN "Hotspots" ELSE "Grid"
  /\ UNCHANGED <<nav, hotspotSelection, voices, messages, dirty, sampled, wire, heard>>

MoveHotspotSelection(delta) ==
  /\ Key /\ pane = "Hotspots"
  /\ hotspotSelection' = IF hotspotSelection + delta \in 0 .. (Len(TopHotspots) - 1) THEN hotspotSelection + delta
                         ELSE IF delta < 0 \/ TopHotspots = <<>> THEN 0 ELSE Len(TopHotspots) - 1
  /\ UNCHANGED <<nav, pane, voices, messages, dirty, sampled, wire, heard>>

\* Enter on the list
DiveTo ==
  /\ Key /\ pane = "Hotspots" /\ TopHotspots # <<>>
  /\ FocusOn(TopHotspots[HotspotCursor]) /\ pane' = "Grid"
  /\ UNCHANGED <<open, sampled, wire, heard>>

\* Enter on a cell that is a channel, or that is as deep as it goes; j on any cell
Join ==
  /\ Key /\ open' = FALSE
  /\ UNCHANGED <<focus, selection, layout, list, dirty, sampled, wire, heard>>
-----------------------------------------------------------------------------
\* The main loop, after the key: the sampler follows the view, and stops with the map.
PointSampler ==
  /\ dirty \/ (~open /\ sampled # {})
  /\ dirty' = FALSE
  /\ sampled' = IF ~open THEN {} ELSE SampleTargets
  /\ UNCHANGED <<nav, list, wire, heard>>

\* A relay answers the subscription.
RelaySends(channel, key) ==
  /\ heard < MaxHeard /\ heard' = heard + 1 /\ channel \in sampled
  /\ wire' = wire \cup {<<channel, key>>}
  /\ UNCHANGED <<nav, list, dirty, sampled>>

\* Every event, wherever it is from.
NoteVoiceAnywhere(channel, key, isMessage) ==
  /\ <<channel, key>> \in wire /\ wire' = wire \ {<<channel, key>>}
  /\ voices' = [c \in DOMAIN voices \cup {channel} |->
                   (IF c \in DOMAIN voices THEN voices[c] ELSE {}) \cup IF c = channel THEN {key} ELSE {}]
  /\ messages' = IF isMessage THEN messages \cup {channel} ELSE messages
  /\ UNCHANGED <<nav, pane, hotspotSelection, dirty, sampled, heard>>

\* note_voice: an event outside of the view is dropped.
NoteVoice(channel, key, isMessage) ==
  /\ <<channel, key>> \in wire /\ wire' = wire \ {<<channel, key>>}
  /\ IF Len(channel) >= Precision /\ SubSeq(channel, 1, Len(focus)) = focus
     THEN /\ voices' = [c \in DOMAIN voices \cup {channel} |->
                          (IF c \in DOMAIN voices THEN voices[c] ELSE {}) \cup IF c = channel THEN {key} ELSE {}]
          /\ messages' = IF isMessage THEN messages \cup {channel} ELSE messages
     ELSE UNCHANGED <<voices, messages>>
  /\ UNCHANGED <<nav, pane, hotspotSelection, dirty, sampled, heard>>

Init ==
  /\ open = FALSE /\ focus = <<>> /\ layout = GridLayout(<<>>) /\ selection = Northwest(layout) /\ pane = "Grid" /\ hotspotSelection = 0
  /\ voices = [c \in {} |-> {}] /\ messages = {} /\ dirty = TRUE /\ sampled = {} /\ wire = {} /\ heard = 0

Next ==
  \/ \E channel \in Channels \cup {Nowhere} : OpenMap(channel)
  \/ CloseMap \/ DrillIn \/ DrillOut \/ TogglePane \/ DiveTo \/ Join \/ PointSampler
  \/ MoveSelection(1, 0) \/ MoveSelection(-1, 0) \/ MoveSelection(0, 1) \/ MoveSelection(0, -1)
  \/ \E delta \in {-1, 1} : MoveHotspotSelection(delta)
  \/ \E channel \in sampled, key \in Keys : RelaySends(channel, key)
  \/ \E e \in wire, isMessage \in BOOLEAN : NoteVoice(e[1], e[2], isMessage)

Spec == Init /\ [][Next]_vars
-----------------------------------------------------------------------------
Within(inner, outer) == inner.n >= outer.n /\ inner.k \div 2 ^ (inner.n - outer.n) = outer.k

\* The grid is what the eye expects: each cell lies in the focus, no two share a place, and the
\* places fill the rows and columns.
GridTiles ==
  LET rows == {layout[d].row : d \in Digits}  cols == {layout[d].col : d \in Digits}
  IN /\ \A d \in Digits : /\ Within(BBox(Append(focus, d)).lon, BBox(focus).lon)
                          /\ Within(BBox(Append(focus, d)).lat, BBox(focus).lat)
     /\ \A row \in rows, col \in cols : \E d \in Digits : layout[d] = [row |-> row, col |-> col]
     /\ Cardinality(rows) * Cardinality(cols) = Cardinality(Digits)

\* Encoding the middle of a cell gives the cell back.
EncodeInverts ==
  LET box == BBox(SelectedCell)
  IN Encode(Center(Center(box.lat)), Center(Center(box.lon)), Len(SelectedCell)) = SelectedCell

\* An arrow goes to the next cell in its direction: up is north, at the same longitude.
UpIsNorthStep ==
  (focus' = focus /\ selection' # selection) =>
    LET a == BBox(SelectedCell)  b == BBox(SelectedCell')
        north == layout[selection'].row < layout[selection].row
        east == layout[selection'].col > layout[selection].col
    IN \/ a.lon = b.lon /\ b.lat.k = (IF north THEN a.lat.k + 1 ELSE a.lat.k - 1)
       \/ a.lat = b.lat /\ b.lon.k = (IF east THEN a.lon.k + 1 ELSE a.lon.k - 1)
UpIsNorth == [][UpIsNorthStep]_vars

\* Going out leaves the cursor on the cell we were in, so that going in again comes back.
OutKeepsPlaceStep ==
  (open /\ open' /\ Len(focus') = Len(focus) - 1 /\ pane' = pane) => SelectedCell' = focus
OutKeepsPlace == [][OutKeepsPlaceStep]_vars

\* What the list offers lies in the view, and is a channel somebody can join.
ListedIsJoinable ==
  \A c \in DOMAIN voices : Len(c) \in Levels /\ SubSeq(c, 1, Len(focus)) = focus

\* The list is of channels the sampler watches for this view.
ListedIsSampled == \A c \in DOMAIN voices : c \in SampleTargets

\* The keyboard is never left on an empty list.
PaneHasRows == pane = "Hotspots" => TopHotspots # <<>>
=============================================================================
