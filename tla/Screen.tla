------------------------------- MODULE Screen -------------------------------
(***************************************************************************)
(* Which conversation is on screen and which one the client acts on          *)
(* (tui/app.rs, and the rounds of main.rs): the sidebar's selection, the     *)
(* cached current_conv, the lists of people and channels, unread marks and   *)
(* read receipts.  A round of the main loop takes events, one key, brings    *)
(* the people up to date and draws.  An index into a list is kept as the     *)
(* name it stands for: whoever changes a list maps the index.                *)
(***************************************************************************)
EXTENDS Naturals, FiniteSets

CONSTANTS
  Names,    \* nicknames, of mesh peers and of participants of a cell
  Cells,
  Ids,      \* ids of private messages
  Covers,   \* whether the map or the viewer is ever opened
  None

Public == "#public"
Channel(c) == [dm |-> FALSE, name |-> c]
Dm(n) == [dm |-> TRUE, name |-> n]
Conversations == {Channel(c) : c \in Cells \cup {Public}} \cup {Dm(n) : n \in Names}

VARIABLES
  stage,     \* of the round: "in", "sync", "draw"; "over" after a wipe
  near,      \* name -> peers of the mesh that use it
  within,    \* cell -> names of its participants
  joined,    \* geo.joined
  channels,  \* app.channels
  listed,    \* app.joined_geohashes
  people,    \* app.people
  sel,       \* sidebar_state: [public, chan, person]
  conv,      \* current_conv
  dms,       \* name -> ids of the messages received from it
  unread,    \* conversations with a count above zero
  cover,     \* viewer.open, map_open
  acked,     \* read_receipts_sent
  receipts,  \* ids a receipt was sent for
  drawn,     \* ids that have been drawn
  fresh,     \* conversations with a line that was never drawn
  typed      \* the last text: [logged, to, seen]

net == <<near, within>>
lists == <<joined, channels, listed, people>>
mail == <<dms, acked, receipts, drawn>>
vars == <<stage, net, lists, sel, conv, mail, unread, cover, fresh, typed>>
-----------------------------------------------------------------------------
\* get_current_messages, get_selected_channel_name
Shown(s, ppl, chans) ==
  IF s.person \in ppl THEN Dm(s.person)
  ELSE IF ~s.public /\ s.chan \in chans THEN Channel(s.chan)
  ELSE Channel(Public)

OnScreen == Shown(sel, people, channels)

\* update_current_conversation; search is forgotten with it.
UpdateCurrentConversation(s, chans) == conv' = Shown(s, people, chans)

\* Only the channels are brought up to date.
SelectKeeping(s, chans) == sel' = s /\ UpdateCurrentConversation(s, chans) /\ UNCHANGED unread

\* A switch: selection, current_conv, and what is then on screen counts as read.
Select(s, chans) ==
  /\ sel' = s /\ UpdateCurrentConversation(s, chans)
  /\ unread' = unread \ {Shown(s, people, chans)}

AddUnread(c) == IF c = OnScreen THEN unread ELSE unread \cup {c}
-----------------------------------------------------------------------------
(* Events of the mesh, ahead of the key. *)

PeerComes(n) ==
  /\ stage = "in" /\ near[n] < 2 /\ near' = [near EXCEPT ![n] = @ + 1]
  /\ UNCHANGED <<stage, within, lists, sel, conv, mail, unread, cover, fresh, typed>>

PeerGoes(n) ==
  /\ stage = "in" /\ near[n] > 0 /\ near' = [near EXCEPT ![n] = @ - 1]
  /\ UNCHANGED <<stage, within, lists, sel, conv, mail, unread, cover, fresh, typed>>

AddDmReceived(n, id) ==
  /\ stage = "in" /\ \A m \in Names : id \notin dms[m]
  /\ id \notin drawn \cup acked
  /\ dms' = [dms EXCEPT ![n] = @ \cup {id}]
  /\ unread' = AddUnread(Dm(n)) /\ fresh' = fresh \cup {Dm(n)}
  /\ UNCHANGED <<stage, net, lists, sel, conv, acked, receipts, drawn, cover, typed>>

\* add_channel_line; the lines of the mesh come ahead of the key, those of the relays after it.
AddChannelLine(c) ==
  /\ stage = IF c = Public THEN "in" ELSE "sync"
  /\ c \in joined \cup {Public}
  /\ unread' = IF (c = Public /\ sel.public) \/ (c # Public /\ conv = Channel(c)) THEN unread
               ELSE AddUnread(Channel(c))
  /\ fresh' = fresh \cup {Channel(c)}
  /\ UNCHANGED <<stage, net, lists, sel, conv, mail, cover, typed>>

ParticipantMoves(c, n) ==
  /\ stage = "sync" /\ c \in joined
  /\ within' = [within EXCEPT ![c] = IF n \in @ THEN @ \ {n} ELSE @ \cup {n}]
  /\ UNCHANGED <<stage, near, lists, sel, conv, mail, unread, cover, fresh, typed>>
-----------------------------------------------------------------------------
(* One key, or none, and what the main loop does with it before it draws. *)

KeyTaken == stage = "in" /\ stage' = "sync"

NoKey == KeyTaken /\ UNCHANGED <<net, lists, sel, conv, mail, unread, cover, fresh, typed>>

SwitchToPublic ==
  /\ KeyTaken /\ ~cover
  /\ Select([public |-> TRUE, chan |-> None, person |-> None], channels)
  /\ UNCHANGED <<net, lists, mail, cover, fresh, typed>>

SwitchToChannel(c) ==
  /\ KeyTaken /\ ~cover /\ c \in channels
  /\ Select([public |-> FALSE, chan |-> c, person |-> None], channels)
  /\ UNCHANGED <<net, lists, mail, cover, fresh, typed>>

SwitchToDm(n) ==
  /\ KeyTaken /\ ~cover /\ n \in people
  /\ Select([public |-> FALSE, chan |-> None, person |-> n], channels)
  /\ UNCHANGED <<net, lists, mail, cover, fresh, typed>>

\* Enter on an entry of the sidebar that is no conversation: the selection is cleared all the same.
EnterOther ==
  /\ KeyTaken /\ ~cover
  /\ SelectKeeping([public |-> FALSE, chan |-> None, person |-> None], channels)
  /\ UNCHANGED <<net, lists, mail, cover, fresh, typed>>

\* add_sent_message and the arm for text that is no command.
TypeText ==
  /\ KeyTaken /\ ~cover
  /\ typed' = [logged |-> conv, seen |-> OnScreen,
               to |-> IF ~conv.dm /\ conv.name \in Cells THEN Channel(conv.name) ELSE Channel(Public)]
  /\ UNCHANGED <<net, lists, sel, conv, mail, unread, cover, fresh>>

\* join_channel: the person stays selected.
JoinChannel(c) ==
  /\ joined' = joined \cup {c} /\ channels' = channels \cup {c}
  /\ Select([sel EXCEPT !.public = FALSE, !.chan = c], channels')
  /\ listed' = joined'

\* /join, and a cell taken on the map, which closes.  A cell we are in is switched to.
JoinGeohash(c) ==
  /\ KeyTaken
  /\ IF c \in joined
     THEN /\ Select([public |-> FALSE, chan |-> c, person |-> None], channels)
          /\ listed' = joined /\ UNCHANGED <<joined, channels>>
     ELSE JoinChannel(c)
  /\ cover' = FALSE
  /\ UNCHANGED <<net, people, mail, fresh, typed>>

\* The channel stays in the sidebar.
LeaveListed(c) ==
  /\ KeyTaken /\ ~cover /\ c \in joined
  /\ joined' = joined \ {c} /\ listed' = joined' /\ channels' = channels
  /\ Select([public |-> TRUE, chan |-> None, person |-> None], channels')
  /\ within' = [within EXCEPT ![c] = {}]
  /\ fresh' = fresh \ {Channel(c)}
  /\ UNCHANGED <<near, people, mail, cover, typed>>

LeaveGeohash(c) ==
  /\ KeyTaken /\ ~cover /\ c \in joined
  /\ joined' = joined \ {c} /\ listed' = joined' /\ channels' = channels \ {c}
  /\ Select([public |-> TRUE, chan |-> None, person |-> None], channels')
  /\ within' = [within EXCEPT ![c] = {}]
  /\ fresh' = fresh \ {Channel(c)}
  /\ UNCHANGED <<near, people, mail, cover, typed>>

\* /clear empties the log of current_conv.
ClearConversation ==
  /\ KeyTaken /\ ~cover
  /\ dms' = IF conv.dm THEN [dms EXCEPT ![conv.name] = {}] ELSE dms
  /\ fresh' = fresh \ {conv}
  /\ UNCHANGED <<net, lists, sel, conv, acked, receipts, drawn, unread, cover, typed>>

\* The map or the viewer.
ToggleCover ==
  /\ KeyTaken /\ Covers /\ cover' = ~cover
  /\ UNCHANGED <<net, lists, sel, conv, mail, unread, fresh, typed>>

\* The wipe ends the program.
Wipe ==
  /\ stage = "in" /\ ~cover /\ stage' = "over"
  /\ dms' = [n \in Names |-> {}] /\ acked' = {} /\ channels' = {} /\ listed' = {} /\ people' = {}
  /\ UNCHANGED <<net, joined, sel, conv, receipts, drawn, unread, cover, fresh, typed>>
-----------------------------------------------------------------------------
\* sync_people, at the end of every round
SyncPeople ==
  /\ stage = "sync" /\ stage' = "draw"
  /\ people' = IF ~conv.dm /\ conv.name \in Cells THEN within[conv.name] ELSE {n \in Names : near[n] > 0}
  /\ sel' = IF sel.person \in people' THEN sel ELSE [sel EXCEPT !.person = None]
  /\ UNCHANGED <<net, joined, channels, listed, conv, mail, unread, cover, fresh, typed>>

\* take_unreceipted_from
Unreceipted(n) == dms[n] \ acked

\* Receipts go out on arrival as well as under a cover.
DrawCovered ==
  /\ stage = "draw" /\ stage' = "in"
  /\ IF OnScreen.dm
     THEN /\ acked' = acked \cup Unreceipted(OnScreen.name)
          /\ receipts' = IF near[OnScreen.name] = 1 THEN receipts \cup Unreceipted(OnScreen.name) ELSE receipts
     ELSE UNCHANGED <<acked, receipts>>
  /\ drawn' = IF ~cover /\ OnScreen.dm THEN drawn \cup dms[OnScreen.name] ELSE drawn
  /\ fresh' = IF cover THEN fresh ELSE fresh \ {OnScreen}
  /\ UNCHANGED <<net, lists, sel, conv, dms, unread, cover, typed>>

\* Receipts for what is on screen, if exactly one peer answers to the name, and the frame.
Draw ==
  /\ stage = "draw" /\ stage' = "in"
  /\ IF ~cover /\ OnScreen.dm
     THEN /\ acked' = acked \cup Unreceipted(OnScreen.name)
          /\ receipts' = IF near[OnScreen.name] = 1 THEN receipts \cup Unreceipted(OnScreen.name) ELSE receipts
          /\ drawn' = drawn \cup dms[OnScreen.name]
     ELSE UNCHANGED <<acked, receipts, drawn>>
  /\ fresh' = IF cover THEN fresh ELSE fresh \ {OnScreen}
  /\ UNCHANGED <<net, lists, sel, conv, dms, unread, cover, typed>>

Init ==
  /\ stage = "in" /\ near = [n \in Names |-> 0] /\ within = [c \in Cells |-> {}]
  /\ joined = {} /\ channels = {} /\ listed = {} /\ people = {}
  /\ sel = [public |-> TRUE, chan |-> None, person |-> None] /\ conv = Channel(Public)
  /\ dms = [n \in Names |-> {}] /\ unread = {} /\ cover = FALSE
  /\ acked = {} /\ receipts = {} /\ drawn = {} /\ fresh = {}
  /\ typed = [logged |-> Channel(Public), to |-> Channel(Public), seen |-> Channel(Public)]

Next ==
  \/ \E n \in Names : PeerComes(n) \/ PeerGoes(n) \/ SwitchToDm(n) \/ \E id \in Ids : AddDmReceived(n, id)
  \/ \E c \in Cells : SwitchToChannel(c) \/ JoinGeohash(c) \/ LeaveGeohash(c) \/ \E n \in Names : ParticipantMoves(c, n)
  \/ \E c \in Cells \cup {Public} : AddChannelLine(c)
  \/ NoKey \/ SwitchToPublic \/ EnterOther \/ TypeText \/ ClearConversation \/ ToggleCover \/ Wipe
  \/ SyncPeople \/ Draw

Spec == Init /\ [][Next]_vars
-----------------------------------------------------------------------------
\* What is joined, what the sidebar lists and what the map marks are the same cells, however a
\* cell was joined or left.
ChannelsAgree == stage # "over" => channels = joined /\ listed = joined

\* A read receipt goes out only for a message that has been drawn: never for one that arrived
\* under the map or the viewer.
ReadMeansDrawn == receipts \subseteq drawn

\* A conversation with a line nobody has seen is marked unread, or is the one on screen.
UnreadKept == \A c \in fresh : c \in unread \/ c = OnScreen

\* Text goes to the conversation whose log shows it.
TypedGoesWhereShown == typed.to = typed.logged

\* Text is logged in the conversation that was on screen when it was typed.
TypedWhereSeen == typed.logged = typed.seen

\* Joining a cell brings its channel on screen.
JoinShows ==
  [][\A c \in Cells : c \in joined' \ joined => Shown(sel', people', channels') = Channel(c)]_vars

\* A message that was drawn has its receipt, once the round is over.
DrawnIsReceipted == stage = "in" => drawn \subseteq receipts
=============================================================================
