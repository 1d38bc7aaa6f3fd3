------------------------------ MODULE MCScreen ------------------------------
(***************************************************************************)
(* Runs of the terminal interface: the logs and their glow, the selection  *)
(* with the conversation it stands for, the search in a log, the image     *)
(* viewer, the world map and the input line.                               *)
(***************************************************************************)
EXTENDS Naturals, Sequences

CONSTANTS None

\* Three glyphs, with names that begin alike, and pastes with line breaks and control characters.
Shortcodes == <<[names |-> {<<"a", "b">>}, glyph |-> <<"W", "v">>],
                [names |-> {<<"b">>, <<"b", "a">>}, glyph |-> <<"h", "v">>],
                [names |-> {<<"a">>}, glyph |-> <<"W">>]>>
Pastes == {<<"a", ":">>, <<"nl", "h", "v", "ctl">>, <<"nl", "ctl">>}

VARIABLES
  part,  \* the component that moves
  now, channelLog, recent, popup,
  stage, near, within, joined, channels, listed, people, sel, conv, dms, unread, cover, acked,
  receipts, drawn, fresh, typed,
  searchLog, arrived, scroll, prompt, query, hits, selected, before, place, found,
  talk, links, index, viewerOpen, load, pending, cache, fetching, steps, burst, posted,
  mapOpen, focus, mapSelection, pane, hotspotSelection, layout, voices, messages, dirty,
  sampled, wire, heard,
  text, cursor, inputSelection, dismissed, strokes

channelVars == <<now, channelLog, recent, popup>>
screenVars == <<stage, near, within, joined, channels, listed, people, sel, conv, dms, unread,
                cover, acked, receipts, drawn, fresh, typed>>
searchVars == <<searchLog, arrived, scroll, prompt, query, hits, selected, before, place, found>>
viewerVars == <<talk, links, index, viewerOpen, load, pending, cache, fetching, steps, burst,
                posted>>
mapVars == <<mapOpen, focus, mapSelection, pane, hotspotSelection, layout, voices, messages,
             dirty, sampled, wire, heard>>
inputVars == <<text, cursor, inputSelection, dismissed, strokes>>

\* One log of four lines, whose times are claimed by strangers.
Ordered == INSTANCE ChannelLog WITH
  Logs <- {"l1"}, Horizon <- 1, BurstLimit <- 2, MaxPopup <- 2, MaxLines <- 4, MaxBurst <- 4,
  MaxNow <- 2, log <- channelLog

\* Bursts over two logs.
Glowing == INSTANCE ChannelLog WITH
  Logs <- {"l1", "l2"}, Horizon <- 1, BurstLimit <- 2, MaxPopup <- 2, MaxLines <- 3,
  MaxBurst <- 4, MaxNow <- 1, log <- channelLog

\* One person, who may be near, in the cell or both, under the map or not.
Covered == INSTANCE Screen WITH
  Names <- {"ann"}, Cells <- {"9q"}, Ids <- {1}, Covers <- TRUE, None <- None

\* A log into which lines come at any place.
Sought == INSTANCE LogSearch WITH
  Queries <- {"a"}, Height <- 2, MaxLines <- 4, Arrivals <- 2, log <- searchLog

\* A longer log while nothing arrives.
Settled == INSTANCE LogSearch WITH
  Queries <- {"a", "b"}, Height <- 2, MaxLines <- 6, Arrivals <- 0, log <- searchLog

\* Two links and a mesh image, with a cache of two.
Images == INSTANCE Viewer WITH
  Urls <- {"u", "v"}, MeshKeys <- {"m"}, Talks <- {"#public", "9q"}, Capacity <- 2,
  MaxFetches <- 2, MaxSteps <- 3, None <- None, open <- viewerOpen

\* The digits of a geohash, two of them.
Base32 == INSTANCE MapView WITH
  BitsPerDigit <- 5, MaxPrecision <- 2, Levels <- {2, 4}, HotspotLimit <- 2, Channels <- {},
  Keys <- {"k1"}, MaxHeard <- 0, open <- mapOpen, selection <- mapSelection

\* Smaller digits, so that odd and even levels alternate over four of them.
Deep == INSTANCE MapView WITH
  BitsPerDigit <- 3, MaxPrecision <- 4, Levels <- {2, 4}, HotspotLimit <- 2, Channels <- {},
  Keys <- {"k1"}, MaxHeard <- 0, open <- mapOpen, selection <- mapSelection

\* Events of the sampler while the view moves.
Heard == INSTANCE MapView WITH
  BitsPerDigit <- 1, MaxPrecision <- 3, Levels <- {1, 3}, HotspotLimit <- 2,
  Channels <- {<<1, 0, 1>>}, Keys <- {"k1", "k2"}, MaxHeard <- 2, open <- mapOpen,
  selection <- mapSelection

\* Narrow, wide and joined characters in a box three cells wide.
Rows == INSTANCE InputLine WITH
  Typed <- {"a", " ", "W", "h", "v"}, Pastes <- {}, Table <- <<>>, MaxQuery <- 2,
  MaxSuggestions <- 2, Width <- 3, MaxRows <- 5, MaxLen <- 6, Whole <- 1,
  selection <- inputSelection

\* Shortcodes typed, pasted, accepted and dismissed.
Emoji == INSTANCE InputLine WITH
  Typed <- {"a", "b", ":", " "}, Pastes <- Pastes, Table <- Shortcodes, MaxQuery <- 2,
  MaxSuggestions <- 2, Width <- 3, MaxRows <- 5, MaxLen <- 5, Whole <- 1,
  selection <- inputSelection

\* The values given to the constants are ones the components allow.
ASSUME InstancesAssumption ==
  /\ Ordered!ChannelLogAssumption
  /\ Glowing!ChannelLogAssumption
  /\ Sought!LogSearchAssumption
  /\ Settled!LogSearchAssumption
-----------------------------------------------------------------------------
Parts == {"order", "glow", "screen", "search", "settled", "images", "base32", "deep", "heard",
         "rows", "emoji"}

\* One component moves, in its own initial state; the others rest in theirs.
Init ==
  /\ part \in Parts
  /\ IF part = "glow" THEN Glowing!Init ELSE Ordered!Init
  /\ Covered!Init
  /\ IF part = "settled" THEN Settled!Init ELSE Sought!Init
  /\ part \in {"search", "settled"} \/ searchLog = <<>>
  /\ Images!Init
  /\ IF part = "heard" THEN Heard!Init ELSE IF part = "deep" THEN Deep!Init ELSE Base32!Init
  /\ IF part = "emoji" THEN Emoji!Init ELSE Rows!Init

Next ==
  \/ /\ \/ part = "order" /\ Ordered!Next
        \/ part = "glow" /\ Glowing!Next
     /\ UNCHANGED <<part, screenVars, searchVars, viewerVars, mapVars, inputVars>>
  \/ /\ part = "screen" /\ Covered!Next
     /\ UNCHANGED <<part, channelVars, searchVars, viewerVars, mapVars, inputVars>>
  \/ /\ \/ part = "search" /\ Sought!Next
        \/ part = "settled" /\ Settled!Keys
     /\ UNCHANGED <<part, channelVars, screenVars, viewerVars, mapVars, inputVars>>
  \/ /\ part = "images" /\ Images!Next
     /\ UNCHANGED <<part, channelVars, screenVars, searchVars, mapVars, inputVars>>
  \/ /\ \/ part = "base32" /\ Base32!Next
        \/ part = "deep" /\ Deep!Next
        \/ part = "heard" /\ Heard!Next
     /\ UNCHANGED <<part, channelVars, screenVars, searchVars, viewerVars, inputVars>>
  \/ /\ \/ part = "rows" /\ Rows!Next
        \/ part = "emoji" /\ Emoji!Next
     /\ UNCHANGED <<part, channelVars, screenVars, searchVars, viewerVars, mapVars>>

vars == <<part, channelVars, screenVars, searchVars, viewerVars, mapVars, inputVars>>

Spec == Init /\ [][Next]_vars
-----------------------------------------------------------------------------

\* What the screen says is so: lines stand in order of time with the newest last and few of
\* them lit, a channel is listed where it is joined, a read receipt is for a message that was
\* drawn, a ready image is at hand and one that loads is being fetched.
ShownTruthfully ==
  /\ part = "order" => Ordered!SortedByTime /\ Ordered!NewestLast
  /\ part = "glow" => Glowing!GlowLimited
  /\ part = "screen" => Covered!ChannelsAgree /\ Covered!ReadMeansDrawn
  /\ part = "images" => Images!ReadyIsCached /\ Images!LoadingHasFetch

\* What is drawn is all there: the cells of the map tile their parent, encode finds the cell
\* a point lies in and every listed channel can be joined; the rows of the input hold every
\* character once and the cursor stands where the next one goes.
DrawnWhole ==
  /\ part = "base32" => Base32!GridTiles /\ Base32!EncodeInverts
  /\ part = "deep" => Deep!GridTiles /\ Deep!EncodeInverts
  /\ part = "heard" => Heard!ListedIsJoinable
  /\ part = "rows" => Rows!RowsCover /\ Rows!CursorFollows
  /\ part = "emoji" => Emoji!RowsCover /\ Emoji!CursorFollows

\* A key leads where the user looks: a search shows its match and gives the place back, up on
\* the map is north and out keeps the place, and a shortcode is replaced by its own glyph and
\* nothing else.
ViewKept ==
  [][/\ part = "search" => Sought!MatchVisibleStep
     /\ part = "settled" => (Settled!ScrollInRange)' /\ Settled!PlaceKeptStep
     /\ part = "deep" => Deep!UpIsNorthStep /\ Deep!OutKeepsPlaceStep
     /\ part = "emoji" => Emoji!GlyphForShortcodeStep]_vars
=============================================================================
