-------------------------------- MODULE Trust --------------------------------
(***************************************************************************)
(* What a client remembers about people, and the file it remembers it in:   *)
(* the block list, fingerprints verified in person and the favourites table *)
(* (favorites.rs) in memory, their mirror in AppState, and state.json        *)
(* (persistence.rs) with its identity keys, which a write may refuse or      *)
(* leave torn, a start mints and a wipe destroys.  A peer stands for its     *)
(* fingerprint; its Nostr address is the one key in one of two spellings.    *)
(***************************************************************************)
EXTENDS Integers, Sequences, FiniteSets

CONSTANTS
  Peers,
  Spellings,    \* the spellings of an address a notice may carry: npub, hex
  Faults,       \* what a write may do besides succeed: refused, torn
  Legacy,       \* an identity of the old client is on disk
  Commands,     \* what the user does: favourite, block, verify, wipe
  Batch,        \* further lines may be handled after the wipe, in the same pass
  MaxStarts,    \* bound: starts
  MaxCommands,  \* bound: commands
  MaxNews       \* bound: notices, sessions and mail from peers

\* load_state_at mints what is missing in this order, saving after each.
KeyOrder == <<"identity", "noise", "seed">>
Keys == {KeyOrder[i] : i \in DOMAIN KeyOrder}
NoKey == 0
NoAddress == "none"
Sets == {"blocked", "verified", "favorites"}

VARIABLES
  phase,    \* off, minting, on, or quitting: should_quit set, lines still handled
  file,     \* state.json: [kind, s], kind one of absent, torn, state
  state,    \* the AppState main() holds
  peers, sessions,
  blocked, verified, fav,
  queued,   \* peers whose notice waits in pending_dms for a session
  starts, commands, news,
  minted,   \* keys minted so far, so that no two are the same
  word,     \* ghost: what the user was told is saved
  told,     \* ghost: peers a notice naming us favourite was sent to
  given,    \* ghost: the address each peer handed over last
  heard,    \* ghost: entries whose announce was heard
  used,     \* ghost: the noise key peers have seen us under, since a wipe
  wiped,    \* ghost: the keys a wipe destroyed
  slips     \* ghost: mail shown or filed as it should not be

mesh == <<peers, sessions, blocked, verified, fav, queued>>
bounds == <<starts, commands, news>>
ghosts == <<word, told, given, heard, used, wiped, slips>>
vars == <<phase, file, state, mesh, bounds, minted, ghosts>>
-----------------------------------------------------------------------------
\* AppState::new
NewState ==
  [keys |-> [k \in Keys |-> NoKey], blocked |-> {}, verified |-> {}, favorites |-> {},
   favorited_us |-> {}, nostr_keys |-> [p \in Peers |-> NoAddress], noise_keys |-> {}]

\* Relationship::default, for a peer without an entry
NoEntry == [entry |-> FALSE, we |-> FALSE, they |-> FALSE, address |-> NoAddress, key |-> FALSE]

Absent == [kind |-> "absent", s |-> NewState]
Torn == [kind |-> "torn", s |-> NewState]
Holding(s) == [kind |-> "state", s |-> s]

\* The identity of the old client
LegacyState == [NewState EXCEPT !.keys = [k \in Keys |-> 1]]

\* save_state: the outcome is one of the faults or success; a torn write is a
\* process that died within it.
Save(s, outcome) ==
  /\ state' = s
  /\ file' = CASE outcome = "saved" -> Holding(s)
               [] outcome = "refused" -> file
               [] outcome = "torn" -> Torn

Outcomes == {"saved"} \cup Faults

\* What stays of the process when a save ended that way
Lives(outcome, next) == phase' = IF outcome = "torn" THEN "off" ELSE next

\* What the user was told of a change to one of the sets: saved, or not
Word(set, p, value, outcome) ==
  [word EXCEPT ![set][p] = IF outcome = "saved" THEN (IF value THEN "yes" ELSE "no") ELSE "open"]
-----------------------------------------------------------------------------
Init ==
  /\ phase = "off" /\ file = Absent /\ state = NewState
  /\ peers = {} /\ sessions = {} /\ blocked = {} /\ verified = {}
  /\ fav = [p \in Peers |-> NoEntry] /\ queued = {}
  /\ starts = 0 /\ commands = 0 /\ news = 0 /\ minted = 1
  /\ word = [s \in Sets |-> [p \in Peers |-> "open"]]
  /\ told = {} /\ given = [p \in Peers |-> NoAddress] /\ heard = {}
  /\ used = (IF Legacy THEN 1 ELSE NoKey) /\ wiped = {} /\ slips = {}

\* A file of our own is never looked for in the old place.
ReadFreshly == IF file.kind = "state" THEN file.s ELSE NewState

\* load_state: adopt the old client's file when there is none, then read; a
\* file that does not parse is taken for none.
Read ==
  IF file.kind = "absent" /\ Legacy THEN LegacyState
  ELSE IF file.kind = "state" THEN file.s ELSE NewState

Start ==
  /\ phase = "off" /\ starts < MaxStarts
  /\ state' = Read
  /\ file' = IF file.kind = "absent" /\ Legacy THEN Holding(LegacyState) ELSE file
  /\ phase' = "minting" /\ starts' = starts + 1
  /\ UNCHANGED <<mesh, commands, news, minted, ghosts>>

Missing == {i \in DOMAIN KeyOrder : state.keys[KeyOrder[i]] = NoKey}
FirstMissing == KeyOrder[CHOOSE i \in Missing : \A j \in Missing : i <= j]

\* The keys are kept for the end of the run.
MintUnsaved(outcome) ==
  /\ phase = "minting" /\ Missing # {}
  /\ minted' = minted + 1
  /\ state' = [state EXCEPT !.keys[FirstMissing] = minted + 1]
  /\ file' = file /\ phase' = phase
  /\ UNCHANGED <<mesh, bounds, ghosts>>

\* One key is generated and saved on the spot; a failed save goes unnoticed.
Mint(outcome) ==
  /\ phase = "minting" /\ Missing # {}
  /\ minted' = minted + 1
  /\ Save([state EXCEPT !.keys[FirstMissing] = minted + 1], outcome)
  /\ Lives(outcome, phase)
  /\ UNCHANGED <<mesh, bounds, ghosts>>

\* main(): the table of favourites rebuilt from the file
Restored(s, p) ==
  IF p \notin s.favorites \cup s.favorited_us /\ s.nostr_keys[p] = NoAddress THEN NoEntry
  ELSE [entry |-> TRUE, we |-> p \in s.favorites, they |-> p \in s.favorited_us,
        address |-> s.nostr_keys[p], key |-> p \in s.noise_keys]

\* The radio comes first.
UpBare ==
  /\ phase = "minting" /\ Missing = {}
  /\ phase' = "on"
  /\ blocked' = {} /\ verified' = state.verified
  /\ fav' = [p \in Peers |-> Restored(state, p)]
  /\ peers' = {} /\ sessions' = {} /\ queued' = {}
  /\ used' = IF used = NoKey THEN state.keys["noise"] ELSE used
  /\ UNCHANGED <<file, state, bounds, minted, word, told, given, heard, wiped, slips>>

\* Block list, verified list and favourites are loaded before the radio starts.
Up ==
  /\ phase = "minting" /\ Missing = {}
  /\ phase' = "on"
  /\ blocked' = state.blocked /\ verified' = state.verified
  /\ fav' = [p \in Peers |-> Restored(state, p)]
  /\ peers' = {} /\ sessions' = {} /\ queued' = {}
  /\ used' = IF used = NoKey THEN state.keys["noise"] ELSE used
  /\ UNCHANGED <<file, state, bounds, minted, word, told, given, heard, wiped, slips>>

\* The process ends: after a wipe, on /exit, or by a crash.
Quit ==
  /\ phase # "off"
  /\ phase' = "off"
  /\ UNCHANGED <<file, state, mesh, bounds, minted, ghosts>>
-----------------------------------------------------------------------------
\* A key is only remembered for somebody we have an entry for.
NoteKey(p) == IF fav[p].entry THEN [fav EXCEPT ![p].key = TRUE] ELSE fav

SetOurs(p, favorite) == [fav EXCEPT ![p].entry = TRUE, ![p].we = favorite]

\* An address already held is kept when a notice comes without one.
ApplyNotice(p, favorite, spelling) ==
  [fav EXCEPT ![p].entry = TRUE, ![p].they = favorite,
              ![p].address = IF spelling = NoAddress THEN @ ELSE spelling]

\* The sender is not asked for.
AnnounceAny(p) ==
  /\ phase = "on"
  /\ peers' = peers \cup {p}
  /\ fav' = NoteKey(p)
  /\ heard' = IF fav[p].entry THEN heard \cup {p} ELSE heard
  /\ UNCHANGED <<phase, file, state, sessions, blocked, verified, queued, bounds, minted,
                 word, told, given, used, wiped, slips>>

\* handle_announce: a blocked sender goes no further.
Announce(p) ==
  /\ phase = "on" /\ p \notin blocked
  /\ peers' = peers \cup {p}
  /\ fav' = NoteKey(p)
  /\ heard' = IF fav[p].entry THEN heard \cup {p} ELSE heard
  /\ UNCHANGED <<phase, file, state, sessions, blocked, verified, queued, bounds, minted,
                 word, told, given, used, wiped, slips>>

Depart(p) ==
  /\ phase = "on" /\ p \in peers
  /\ peers' = peers \ {p}
  /\ UNCHANGED <<phase, file, state, sessions, blocked, verified, fav, queued, bounds, minted, ghosts>>

\* A session comes up and what waited for it goes out.
SessionUp(p) ==
  /\ phase = "on" /\ p \in peers \ sessions /\ news < MaxNews
  /\ news' = news + 1
  /\ sessions' = sessions \cup {p} /\ queued' = queued \ {p}
  /\ told' = IF p \in queued /\ fav[p].we THEN told \cup {p} ELSE told
  /\ UNCHANGED <<phase, file, state, peers, blocked, verified, fav, starts, commands, minted,
                 word, given, heard, used, wiped, slips>>

\* A notice of a favourite or an unfavourite, with or without an address, of a
\* peer that announced itself.  Nothing is saved.
Notice(p, favorite, spelling) ==
  /\ phase = "on" /\ p \in peers \cap sessions /\ p \notin blocked /\ news < MaxNews
  /\ news' = news + 1
  /\ fav' = ApplyNotice(p, favorite, spelling)
  /\ given' = [given EXCEPT ![p] = IF spelling = NoAddress THEN @ ELSE spelling]
  /\ UNCHANGED <<phase, file, state, peers, sessions, blocked, verified, queued, starts, commands,
                 minted, word, told, heard, used, wiped, slips>>

\* Only those we favourited ourselves have a name.
FingerprintForOurs(p) == fav[p].we /\ fav[p].address = "hex"

\* fingerprint_for_nostr_key: the stored text against the hex of the seal
FingerprintFor(p) == fav[p].address = "hex"

\* The sender is not looked up in the block list.
MailUnasked(p) ==
  /\ phase = "on" /\ news < MaxNews
  /\ news' = news + 1
  /\ slips' = slips
       \cup (IF p \in blocked /\ fav[p].address # NoAddress THEN {"overheard"} ELSE {})
       \cup (IF fav[p].address # NoAddress /\ ~FingerprintFor(p) THEN {"misfiled"} ELSE {})
  /\ UNCHANGED <<phase, file, state, mesh, starts, commands, minted,
                 word, told, given, heard, used, wiped>>

\* open_private_envelope: a sealed message of p over Nostr.  Its sender is
\* looked up by address and refused when blocked; unknown, it is filed under
\* the address.
Mail(p) ==
  /\ phase = "on" /\ news < MaxNews
  /\ news' = news + 1
  /\ slips' =
       IF FingerprintFor(p) /\ p \in blocked THEN slips
       ELSE slips
         \cup (IF p \in blocked /\ fav[p].address # NoAddress THEN {"overheard"} ELSE {})
         \cup (IF fav[p].address # NoAddress /\ ~FingerprintFor(p) THEN {"misfiled"} ELSE {})
  /\ UNCHANGED <<phase, file, state, mesh, starts, commands, minted,
                 word, told, given, heard, used, wiped>>
-----------------------------------------------------------------------------
Handling(command) ==
  /\ command \in Commands /\ commands < MaxCommands
  /\ phase = "on" \/ (phase = "quitting" /\ Batch)
  /\ commands' = commands + 1

\* The mirror is of what changed, over the AppState of the start.
MirroredAfresh(s, table) ==
  [NewState EXCEPT !.keys = s.keys, !.blocked = s.blocked,
            !.favorites = {p \in Peers : table[p].we},
            !.favorited_us = {p \in Peers : table[p].they},
            !.nostr_keys = [p \in Peers |-> table[p].address],
            !.noise_keys = {p \in Peers : table[p].key}]

\* save_favorites: the mirror of the table
Mirrored(s, table) ==
  [s EXCEPT !.favorites = {p \in Peers : table[p].we},
            !.favorited_us = {p \in Peers : table[p].they},
            !.nostr_keys = [p \in Peers |-> table[p].address],
            !.noise_keys = {p \in Peers : table[p].key}]

\* SetFavorite: the notice is sent, or queued behind a handshake; then our half
\* is recorded and the table saved.
SetFavorite(p, favorite, outcome) ==
  /\ Handling("favourite") /\ p \in peers
  /\ fav' = SetOurs(p, favorite)
  /\ queued' = IF p \in sessions THEN queued ELSE queued \cup {p}
  /\ told' = IF ~favorite THEN told \ {p} ELSE IF p \in sessions THEN told \cup {p} ELSE told
  /\ Save(Mirrored(state, fav'), outcome) /\ Lives(outcome, phase)
  /\ word' = Word("favorites", p, favorite, outcome)
  /\ UNCHANGED <<peers, sessions, blocked, verified, starts, news, minted, given, heard, used, wiped, slips>>

\* block, of a peer that announced itself
Block(p, outcome) ==
  /\ Handling("block") /\ p \in peers \ blocked
  /\ blocked' = blocked \cup {p}
  /\ peers' = peers \ {p} /\ sessions' = sessions \ {p}
  /\ Save([state EXCEPT !.blocked = blocked'], outcome) /\ Lives(outcome, phase)
  /\ word' = Word("blocked", p, TRUE, outcome)
  /\ UNCHANGED <<verified, fav, queued, starts, news, minted, told, given, heard, used, wiped, slips>>

\* unblock, by fingerprint: a nickname only resolves among the peers, where
\* nobody blocked is
Unblock(p, outcome) ==
  /\ Handling("block") /\ p \in blocked
  /\ blocked' = blocked \ {p}
  /\ Save([state EXCEPT !.blocked = blocked'], outcome) /\ Lives(outcome, phase)
  /\ word' = Word("blocked", p, FALSE, outcome)
  /\ UNCHANGED <<peers, sessions, verified, fav, queued, starts, news, minted, told, given, heard, used, wiped, slips>>

\* AcceptVerificationCard, of a card that passed check and is not our own
AcceptCard(p, outcome) ==
  /\ Handling("verify")
  /\ verified' = verified \cup {p}
  /\ Save([state EXCEPT !.verified = verified'], outcome) /\ Lives(outcome, phase)
  /\ word' = Word("verified", p, TRUE, outcome)
  /\ UNCHANGED <<peers, sessions, blocked, fav, queued, starts, news, minted, told, given, heard, used, wiped, slips>>

\* WipeIdentity: the file is overwritten and removed, the mesh layer forgets its
\* peers, blocks and favourites, and the client is to quit.  AppState is left.
Wipe ==
  /\ Handling("wipe") /\ phase = "on"
  /\ file' = Absent
  /\ peers' = {} /\ sessions' = sessions \ peers /\ blocked' = {} /\ queued' = {}
  /\ fav' = [p \in Peers |-> NoEntry]
  /\ phase' = "quitting"
  /\ wiped' = wiped \cup {state.keys[k] : k \in Keys}
  /\ word' = [s \in Sets |-> [p \in Peers |-> "open"]]
  /\ told' = {} /\ given' = [p \in Peers |-> NoAddress] /\ heard' = {} /\ used' = NoKey
  /\ UNCHANGED <<state, verified, starts, news, minted, slips>>

\* The process dies between the overwriting and the removal.
WipeCut ==
  /\ Handling("wipe") /\ phase = "on"
  /\ file' = Torn /\ phase' = "off"
  /\ wiped' = wiped \cup {state.keys[k] : k \in Keys}
  /\ word' = [s \in Sets |-> [p \in Peers |-> "open"]]
  /\ told' = {} /\ given' = [p \in Peers |-> NoAddress] /\ heard' = {} /\ used' = NoKey
  /\ UNCHANGED <<state, mesh, starts, news, minted, slips>>
-----------------------------------------------------------------------------
Next ==
  \/ Start \/ Up \/ Quit \/ Wipe \/ WipeCut
  \/ \E o \in Outcomes : Mint(o)
  \/ \E p \in Peers : Announce(p) \/ Depart(p) \/ SessionUp(p) \/ Mail(p)
  \/ \E p \in Peers, f \in BOOLEAN, a \in Spellings \cup {NoAddress} : Notice(p, f, a)
  \/ \E p \in Peers, f \in BOOLEAN, o \in Outcomes : SetFavorite(p, f, o)
  \/ \E p \in Peers, o \in Outcomes : Block(p, o) \/ Unblock(p, o) \/ AcceptCard(p, o)

Spec == Init /\ [][Next]_vars
-----------------------------------------------------------------------------
(* Properties *)

\* What the user was told is saved holds in this run and in every later one:
\* who is blocked, verified and a favourite.  Every command saves the whole
\* AppState, over crashes at any point and writes that are refused, so a save
\* for one list must not lose what another had (main.rs, save_favorites).
WordKept ==
  phase = "on" =>
    LET now == [s \in Sets |-> CASE s = "blocked" -> blocked [] s = "verified" -> verified
                                 [] s = "favorites" -> {p \in Peers : fav[p].we}]
    IN \A s \in Sets, p \in Peers : /\ word[s][p] = "yes" => p \in now[s]
                                    /\ word[s][p] = "no" => p \notin now[s]

\* The noise key, and with it the peer ID, is the same in every run: the keys
\* are minted once, through starts cut short between two of them, and taken
\* over from the old client when it has some (load_state).
IdentityStable == phase = "on" /\ used # NoKey => state.keys["noise"] = used

\* A peer that is blocked is not in the peer table, over restarts included:
\* the list is loaded before anything is heard (main).
BlockedUnlisted == peers \cap {p \in Peers : word["blocked"][p] = "yes"} = {}

\* A sealed message over Nostr is not shown when its sender is blocked and
\* handed us the address it writes from (open_private_envelope).
BlockedUnheard == "overheard" \notin slips

\* A sealed message over Nostr is filed under its sender's name when the sender
\* handed us the address (fingerprint_for_nostr_key).
SenderNamed == "misfiled" \notin slips

\* A peer's address, once handed over, is held in every later run
\* (favorite_nostr_keys).
AddressHeld == phase = "on" => \A p \in Peers : given[p] # NoAddress => fav[p].address # NoAddress

\* The noise key of a favourite that announced itself is held in every later
\* run (favorite_noise_keys).
KeyHeld == phase = "on" => \A p \in heard : fav[p].we => fav[p].key

\* Somebody on the list of favourites was sent the notice, or it is still to go
\* out (favorite_frames).
ListedWasTold == phase = "on" => \A p \in Peers : fav[p].we => p \in told \cup queued

\* After a wipe the destroyed keys are not on disk again and no run uses them
\* (WipeIdentity).
StrangerAfterwards ==
  /\ file.kind = "state" => \A k \in Keys : file.s.keys[k] \notin wiped
  /\ phase = "on" => state.keys["noise"] \notin wiped
=============================================================================
