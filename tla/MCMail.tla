------------------------------- MODULE MCMail -------------------------------
(***************************************************************************)
(* Runs of the mail that waits for somebody who is not there, and of what  *)
(* the client keeps of the people it writes to: the outbox, the shelf, the *)
(* post office, mail over the relays, favourites and blocks with the state *)
(* file, verification cards.                                               *)
(***************************************************************************)
EXTENDS Outbox, Mailbox

\* The outbox: a cap of two messages, an age of three ticks, backoffs of 1, 2, 2.
ToOne == [m \in Messages |-> "p"]

\* The shelf: room for three items, one of them a stranger's; a favourite may leave two, a
\* stranger one.
ForG == [l \in Letters |-> "g"]

VARIABLES
  part,  \* the component that moves
  here, listed, postEnabled, postHeld, postDisk, air, postOpened, written, postShown, repeats,
  postNow,
  relay, nostrFile, nostrWraps, letters, echo, nostrBlocked, nostrShown, ever, acked, failures,
  nostrStarts, nostrWiped,
  phase, trustFile, state, peers, sessions, trustBlocked, verified, fav, queued, trustStarts,
  commands, news, minted, word, told, given, heard, used, trustWiped, slips,
  cardNow, built, url, edits, accepted, nonce, replies, answered, proved

postVars == <<here, listed, postEnabled, postHeld, postDisk, air, postOpened, written,
              postShown, repeats, postNow>>
nostrVars == <<relay, nostrFile, nostrWraps, letters, echo, nostrBlocked, nostrShown, ever,
               acked, failures, nostrStarts, nostrWiped>>
trustVars == <<phase, trustFile, state, peers, sessions, trustBlocked, verified, fav, queued,
               trustStarts, commands, news, minted, word, told, given, heard, used, trustWiped,
               slips>>
cardVars == <<cardNow, built, url, edits, accepted, nonce, replies, answered, proved>>

\* A letter through one office, with bob walking in and out, restarts and repeated frames, over two days.
Post == INSTANCE PostOffice WITH
  Nodes <- {"alice", "bob", "office"}, Offices <- {"office"}, Letters <- {"l1"},
  Author <- [l \in {"l1"} |-> "alice"], Recipient <- [l \in {"l1"} |-> "bob"],
  Mutual <- {<<"office", "alice">>, <<"alice", "office">>}, Blocks <- {}, Movers <- {"bob"},
  Restarters <- {"bob", "office"}, MaxHeld <- 3, MaxVerifiedHeld <- 1, MaxPerFavourite <- 2,
  MaxPerVerified <- 1, MaxCopies <- 1, Lifetime <- 2, Slack <- 0, DayLength <- 2, MaxTime <- 3,
  Repeats <- 2, enabled <- postEnabled, held <- postHeld, disk <- postDisk,
  opened <- postOpened, shown <- postShown, now <- postNow

\* Two messages over relays that replay everything at every start; one write of the record may fail.
Relayed == INSTANCE NostrMail WITH
  Messages <- {"m1", "m2"}, Letters <- {}, Junk <- {}, Capacity <- 5, MaxStarts <- 2,
  MaxFailures <- 1, file <- nostrFile, wraps <- nostrWraps, blocked <- nostrBlocked,
  shown <- nostrShown, starts <- nostrStarts, wiped <- nostrWiped

\* Commands, restarts and a refused write of the state file.
Word == INSTANCE Trust WITH
  Peers <- {"p1", "p2"}, Spellings <- {"hex"}, Faults <- {"refused"}, Legacy <- FALSE,
  Commands <- {"favourite", "block", "verify"}, Batch <- FALSE, MaxStarts <- 2,
  MaxCommands <- 2, MaxNews <- 0, file <- trustFile, blocked <- trustBlocked,
  starts <- trustStarts, wiped <- trustWiped

\* An identity of the old client, commands, wipes and restarts.
Identity == INSTANCE Trust WITH
  Peers <- {"p1"}, Spellings <- {"hex"}, Faults <- {}, Legacy <- TRUE,
  Commands <- {"favourite", "verify", "wipe"}, Batch <- FALSE, MaxStarts <- 4,
  MaxCommands <- 3, MaxNews <- 3, file <- trustFile, blocked <- trustBlocked,
  starts <- trustStarts, wiped <- trustWiped

\* Announces, notices and mail of two peers, in any order with the commands.
Sender == INSTANCE Trust WITH
  Peers <- {"p1", "p2"}, Spellings <- {"hex"}, Faults <- {"torn"}, Legacy <- FALSE,
  Commands <- {"favourite", "block"}, Batch <- FALSE, MaxStarts <- 1, MaxCommands <- 2,
  MaxNews <- 4, file <- trustFile, blocked <- trustBlocked, starts <- trustStarts,
  wiped <- trustWiped

\* A card whose url is edited on the way, accepted in time or late.
Cards == INSTANCE VerifyCards WITH
  MaxField <- 2, MaxAge <- 1, MaxTime <- 2, MaxEdits <- 1,
  Nicknames <- {<<1>>, <<1, 1>>, <<5, 6>>, <<7>>}, Npubs <- {<<>>, <<1>>, <<1, 1>>},
  Nonces <- {<<1>>, <<2, 1>>}, NoiseKeys <- {"a", "A", "b"}, SigningKeys <- {"s", "S", "t"},
  Rounds <- 0, now <- cardNow

\* Two edits of the url, between which one field may give up what another takes.
Edited == INSTANCE VerifyCards WITH
  MaxField <- 2, MaxAge <- 1, MaxTime <- 0, MaxEdits <- 2,
  Nicknames <- {<<1>>, <<1, 1>>, <<5, 6>>, <<7>>}, Npubs <- {<<>>, <<1>>, <<1, 1>>},
  Nonces <- {<<1>>, <<2, 1>>}, NoiseKeys <- {"a", "A", "b"}, SigningKeys <- {"s", "S", "t"},
  Rounds <- 0, now <- cardNow

\* Three rounds of challenge and response.
Rounds == INSTANCE VerifyCards WITH
  MaxField <- 2, MaxAge <- 1, MaxTime <- 0, MaxEdits <- 0,
  Nicknames <- {<<1>>, <<1, 1>>, <<5, 6>>, <<7>>}, Npubs <- {<<>>, <<1>>, <<1, 1>>},
  Nonces <- {<<1>>, <<2, 1>>}, NoiseKeys <- {"a", "A", "b"}, SigningKeys <- {"s", "S", "t"},
  Rounds <- 3, now <- cardNow

\* The values given to the constants are ones the components allow.
ASSUME InstancesAssumption ==
  /\ MailboxAssumption
  /\ ShelfAssumption
  /\ Post!PostOfficeAssumption
  /\ Post!ShelfAssumption
  /\ Relayed!NostrMailAssumption
  /\ OutboxAssumption
-----------------------------------------------------------------------------
Parts == {"shelf", "post", "relays", "outbox", "word", "identity", "sender", "cards", "edited",
         "rounds"}

\* One component moves, in its own initial state; the others rest in theirs.
MCInit ==
  /\ part \in Parts
  /\ MailboxInit
  /\ Post!Init
  /\ Relayed!Init
  /\ Init
  /\ IF part = "sender" THEN Sender!Init ELSE IF part = "identity" THEN Identity!Init ELSE Word!Init
  /\ IF part = "rounds" THEN Rounds!Init ELSE IF part = "edited" THEN Edited!Init ELSE Cards!Init

MCNext ==
  \/ /\ part = "shelf" /\ MailboxNext
     /\ UNCHANGED <<part, postVars, nostrVars, vars, trustVars, cardVars>>
  \/ /\ part = "post" /\ Post!Next
     /\ UNCHANGED <<part, mailboxVars, nostrVars, vars, trustVars, cardVars>>
  \/ /\ part = "relays" /\ Relayed!Next
     /\ UNCHANGED <<part, mailboxVars, postVars, vars, trustVars, cardVars>>
  \/ /\ part = "outbox" /\ Next
     /\ UNCHANGED <<part, mailboxVars, postVars, nostrVars, trustVars, cardVars>>
  \/ /\ \/ part = "word" /\ Word!Next
        \/ part = "identity" /\ Identity!Next
        \/ part = "sender" /\ Sender!Next
     /\ UNCHANGED <<part, mailboxVars, postVars, nostrVars, vars, cardVars>>
  \/ /\ \/ part = "cards" /\ Cards!Next
        \/ part = "edited" /\ Edited!Next
        \/ part = "rounds" /\ Rounds!Next
     /\ UNCHANGED <<part, mailboxVars, postVars, nostrVars, vars, trustVars>>

mcvars == <<part, mailboxVars, postVars, nostrVars, vars, trustVars, cardVars>>

MCSpec == MCInit /\ [][MCNext]_mcvars
-----------------------------------------------------------------------------

\* Mail in date is recognised by its recipient past midnight too and shown once, however many
\* copies arrive, however often clients restart and relays replay; a tick stands for mail
\* that was shown, and the record on disk is never behind what was shown unless a write
\* failed.
MailShownOnce ==
  /\ part = "post" => Post!TypeOK /\ Post!ShownOnce /\ Post!MailRecognised
  /\ part = "relays" =>
       /\ Relayed!TypeOK
       /\ Relayed!ShownOnce
       /\ Relayed!TickMeansShown
       /\ Relayed!WriteThrough

\* What the user was told of people holds in this run and in later ones: blocks, favourites,
\* verifications and the client's own identity survive commands, crashes and refused writes;
\* a blocked peer is neither listed nor heard over the relays, and known senders are shown by
\* their names.
PeopleKept ==
  /\ part = "word" => Word!WordKept /\ Word!BlockedUnlisted
  /\ part = "identity" => Identity!IdentityStable
  /\ part = "sender" => Sender!BlockedUnheard /\ Sender!SenderNamed

\* A card is accepted only as its owner signed it and in its time, reads back as it was
\* shown, and a proof stands for an answer to this challenge by the holder of the key.
CardsGenuine ==
  /\ part = "cards" => Cards!AcceptedAsSigned /\ Cards!AcceptedFresh /\ Cards!ReadsBack
  /\ part = "edited" => Edited!AcceptedAsSigned
  /\ part = "rounds" => Rounds!ProvedMeansAnswered
=============================================================================
