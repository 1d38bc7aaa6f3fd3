----------------------------- MODULE VerifyCards -----------------------------
(***************************************************************************)
(* Verification in person (verification.rs).  A card is built and signed,   *)
(* shown as a url, edited by whoever passes it on, read and checked; and a   *)
(* peer is challenged over the mesh to prove that it holds its signing key,  *)
(* with recorded and spliced replies in the air.  A signature is the record  *)
(* of who made it and over what.                                             *)
(***************************************************************************)
EXTENDS Integers, Sequences, FiniteSets

CONSTANTS
  MaxField,    \* MAX_FIELD
  MaxAge,      \* MAX_AGE_SECONDS
  MaxTime,     \* bound: the clock
  MaxEdits,    \* bound: edits of the url
  Nicknames, Npubs, Nonces,  \* texts, as sequences of characters
  NoiseKeys, SigningKeys,    \* hex texts; Lower gives the lower case of each
  Rounds       \* challenges issued

\* to_lowercase, of the hex texts in play
Lower(hex) == CASE hex = "A" -> "a" [] hex = "S" -> "s" [] OTHER -> hex

\* Characters are bytes; the first few are also the values of length bytes.
Escaped == {5, 6, 7}           \* & % +, the ones encode_query escapes
Percent == 6
Code(c) == <<8, c + 10>>       \* their two hex digits, which are plain characters
Plus == 7
Space == 4

VARIABLES
  now,
  built,     \* the card that was made, and nothing before that
  url,       \* a sequence of [name, value]
  edits,
  accepted,  \* cards accepted, with the time
  nonce,     \* the challenge under way
  replies,   \* responses that went over the air
  answered,  \* ghost: the rounds the challenged peer itself answered
  proved     \* rounds whose response was accepted

cards == <<built, url, edits, accepted>>
challenges == <<nonce, replies, answered, proved>>
vars == <<now, cards, challenges>>
-----------------------------------------------------------------------------
Cut(text) == SubSeq(text, 1, IF Len(text) < MaxField THEN Len(text) ELSE MaxField)

\* The fields follow each other without their lengths.
PushBare(text) == Cut(text)

\* push_field: a length byte and at most that many bytes
PushField(text) == <<Len(Cut(text))>> \o Cut(text)

\* The signature does not cover when the card was made.
CanonicalUndated(c) ==
  [noise |-> Lower(c.noise), sign |-> Lower(c.sign),
   text |-> PushField(c.npub) \o PushField(c.nick) \o PushField(c.nonce)]

\* canonical_bytes: the texts in their order; the keys are as long as each other
\* and the timestamp is one number
Canonical(c) ==
  [noise |-> Lower(c.noise), sign |-> Lower(c.sign),
   text |-> PushField(c.npub) \o PushField(c.nick) \o <<c.ts>> \o PushField(c.nonce)]

\* Card::build
Build(noise, sign, nick, npub, n, ts) ==
  LET bare == [noise |-> noise, sign |-> sign, npub |-> npub, nick |-> nick, ts |-> ts, nonce |-> n]
  IN [card |-> bare, sig |-> [by |-> sign, over |-> Canonical(bare)]]

\* encode_query
EncodeQuery(text) ==
  LET f[i \in 0..Len(text)] ==
        IF i = 0 THEN <<>>
        ELSE f[i-1] \o (IF text[i] \in Escaped \cup {Space} THEN <<Percent>> \o Code(text[i]) ELSE <<text[i]>>)
  IN f[Len(text)]

Digits == {8} \cup {c + 10 : c \in Escaped \cup {Space}}

\* The last digit is read past the end of a value that ends with an escape.
DecodeQueryShort(text) ==
  LET f[i \in 1..Len(text)+1] ==
        IF i > Len(text) THEN <<>>
        ELSE IF text[i] = Percent /\ i + 2 < Len(text) /\ text[i+1] = 8 /\ text[i+2] \in Digits \ {8}
             THEN <<text[i+2] - 10>> \o f[i+3]
             ELSE <<IF text[i] = Plus THEN Space ELSE text[i]>> \o f[i+1]
  IN f[1]

\* decode_query, from position i
DecodeQuery(text) ==
  LET f[i \in 1..Len(text)+1] ==
        IF i > Len(text) THEN <<>>
        ELSE IF text[i] = Percent /\ i + 2 <= Len(text) /\ text[i+1] = 8 /\ text[i+2] \in Digits \ {8}
             THEN <<text[i+2] - 10>> \o f[i+3]
             ELSE <<IF text[i] = Plus THEN Space ELSE text[i]>> \o f[i+1]
  IN f[1]

Field(name, value) == [name |-> name, value |-> value]

\* to_url: npub comes last and only when there is one
ToUrl(b) ==
  <<Field("noise", b.card.noise), Field("sign", b.card.sign), Field("nick", EncodeQuery(b.card.nick)),
    Field("ts", b.card.ts), Field("nonce", EncodeQuery(b.card.nonce)), Field("sig", b.sig)>>
  \o (IF b.card.npub = <<>> THEN <<>> ELSE <<Field("npub", EncodeQuery(b.card.npub))>>)

Required == {"noise", "sign", "nick", "ts", "nonce", "sig"}
Named(u, name) == {i \in DOMAIN u : u[i].name = name}

\* A parameter given twice replaces the first.
TakeLast(u, name) == u[CHOOSE i \in Named(u, name) : \A j \in Named(u, name) : i >= j].value

\* The first of the name wins.
Take(u, name) == u[CHOOSE i \in Named(u, name) : \A j \in Named(u, name) : i <= j].value

Complete(u) == \A name \in Required : Named(u, name) # {}

\* from_url, of a url that has every field
FromUrl(u) ==
  [card |-> [noise |-> Take(u, "noise"), sign |-> Take(u, "sign"),
             npub |-> IF Named(u, "npub") = {} THEN <<>> ELSE DecodeQuery(Take(u, "npub")),
             nick |-> DecodeQuery(Take(u, "nick")), ts |-> Take(u, "ts"),
             nonce |-> DecodeQuery(Take(u, "nonce"))],
   sig |-> Take(u, "sig")]

\* Card::check
Check(b, time) ==
  IF time - b.card.ts \notin -MaxAge..MaxAge THEN "stale"
  ELSE IF Lower(b.sig.by) = Lower(b.card.sign) /\ b.sig.over = Canonical(b.card) THEN "ok" ELSE "bad"

\* Card::fingerprint
Fingerprint(c) == Lower(c.noise)
-----------------------------------------------------------------------------
\* Reader::tlv of the record that starts at an offset: <<value, next offset>>,
\* or nothing
Tlv(body, expected, offset) ==
  IF offset + 1 > Len(body) \/ body[offset] # expected THEN <<>>
  ELSE LET stop == offset + 1 + body[offset+1]
       IN IF stop > Len(body) THEN <<>> ELSE <<SubSeq(body, offset + 2, stop), stop + 1>>

PushTlv(tag, value) == <<tag, Len(Cut(value))>> \o Cut(value)

\* challenge and parse_challenge; the noise key is a text here
Challenge(key, n) == PushTlv(1, key) \o PushTlv(2, n)
ParseChallenge(body) ==
  LET first == Tlv(body, 1, 1)
      second == IF first = <<>> THEN <<>> ELSE Tlv(body, 2, first[2])
  IN IF second = <<>> THEN <<>> ELSE <<first[1], second[1]>>

\* response_message: the key with its length, then the nonce to the end
ResponseMessage(key, n) == <<Len(Cut(key))>> \o Cut(key) \o n

\* verify_response, trusting the nonce the response echoes
VerifyEchoed(key, expected, echoed, sig, signing) ==
  sig = [by |-> signing, over |-> ResponseMessage(key, echoed)]

\* verify_response
VerifyResponse(key, expected, echoed, sig, signing) ==
  echoed = expected /\ sig = [by |-> signing, over |-> ResponseMessage(key, expected)]

\* The peer that is challenged, and another
KeyOf(who) == IF who = "bob" THEN <<1>> ELSE <<2>>
NonceOf(round) == <<round>>
-----------------------------------------------------------------------------
NotBuilt == Build("a", "s", <<>>, <<>>, <<>>, 0)

Init ==
  /\ now = 0 /\ built = NotBuilt /\ url = <<>> /\ edits = 0 /\ accepted = {}
  /\ nonce = 0 /\ replies = {} /\ answered = {} /\ proved = {}

Tick == now < MaxTime /\ now' = now + 1 /\ UNCHANGED <<cards, challenges>>

\* ShowVerificationCard
Show ==
  /\ url = <<>>
  /\ \E nick \in Nicknames, npub \in Npubs, n \in Nonces :
       built' = Build("a", "s", nick, npub, n, now)
  /\ url' = ToUrl(built')
  /\ UNCHANGED <<now, edits, accepted, challenges>>

Values(name) ==
  CASE name = "noise" -> NoiseKeys [] name = "sign" -> SigningKeys
    [] name = "nick" -> {EncodeQuery(t) : t \in Nicknames}
    [] name = "npub" -> {EncodeQuery(t) : t \in Npubs}
    [] name = "nonce" -> {EncodeQuery(t) : t \in Nonces}
    [] name = "ts" -> 0..MaxTime
    [] name = "sig" -> {[built.sig EXCEPT !.by = s] : s \in SigningKeys}

\* Whoever passes the line on changes, drops or adds a parameter.
Edit ==
  /\ url # <<>> /\ edits < MaxEdits /\ edits' = edits + 1
  /\ \/ \E i \in DOMAIN url : \E v \in Values(url[i].name) : url' = [url EXCEPT ![i].value = v]
     \/ \E i \in DOMAIN url : Len(url) > 1 /\ url' = SubSeq(url, 1, i-1) \o SubSeq(url, i+1, Len(url))
     \/ \E name \in Required \cup {"npub"} : \E v \in Values(name) : url' = Append(url, Field(name, v))
  /\ UNCHANGED <<now, built, accepted, challenges>>

\* AcceptVerificationCard
Accept ==
  /\ url # <<>> /\ Complete(url) /\ Check(FromUrl(url), now) = "ok"
  /\ accepted' = accepted \cup {[card |-> FromUrl(url).card, at |-> now]}
  /\ UNCHANGED <<now, built, url, edits, challenges>>

Issue == nonce < Rounds /\ nonce' = nonce + 1 /\ UNCHANGED <<now, cards, replies, answered, proved>>

\* handle_noise_encrypted: only a challenge about our own key is answered.
Answer(who, body) ==
  LET asked == ParseChallenge(body) IN
  /\ nonce > 0 /\ asked # <<>> /\ asked[1] = KeyOf(who)
  /\ replies' = replies \cup
       {[key |-> asked[1], echo |-> asked[2], sig |-> [by |-> who, over |-> ResponseMessage(asked[1], asked[2])]]}
  /\ answered' = IF who = "bob" THEN answered \cup {asked[2]} ELSE answered
  /\ UNCHANGED <<now, cards, nonce, proved>>

\* A response comes in, as it was sent, again, or with another's parts in it.
Deliver ==
  /\ nonce > 0
  /\ \E a \in replies, b \in replies, c \in replies :
       VerifyResponse(a.key, NonceOf(nonce), b.echo, c.sig, "bob") /\ a.key = KeyOf("bob")
  /\ proved' = proved \cup {NonceOf(nonce)}
  /\ UNCHANGED <<now, cards, nonce, replies, answered>>

Next ==
  \/ Tick \/ Show \/ Edit \/ Accept \/ Issue \/ Deliver
  \/ \E who \in {"bob", "carol"}, key \in {"bob", "carol"}, n \in 1..nonce :
       Answer(who, Challenge(KeyOf(key), NonceOf(n)))

Spec == Init /\ [][Next]_vars
-----------------------------------------------------------------------------
(* Properties *)

\* A card that is accepted says what the card that was signed said, whatever was
\* changed, dropped, added or given twice on the way: the same fingerprint, and
\* the same address and name in their own fields (canonical_bytes).
AcceptedAsSigned ==
  \A a \in accepted :
    /\ Fingerprint(a.card) = Fingerprint(built.card) /\ Lower(a.card.sign) = Lower(built.card.sign)
    /\ a.card.nick = built.card.nick /\ a.card.npub = built.card.npub /\ a.card.nonce = built.card.nonce

\* An accepted card was made within the age a card is good for, however its
\* date was edited (check, canonical_bytes).
AcceptedFresh == \A a \in accepted : a.at <= built.card.ts + MaxAge

\* The url of a card reads back as that card, names with separators in them
\* included, and a parameter added at its end changes nothing (to_url, from_url).
ReadsBack ==
  LET whole == ToUrl(built) IN
  url # <<>> /\ Len(url) >= Len(whole) /\ SubSeq(url, 1, Len(whole)) = whole =>
    LET read == FromUrl(url)
    IN built.sig = read.sig /\ [read.card EXCEPT !.npub = built.card.npub] = built.card

\* A response is taken as proof for a challenge only when the peer answered that
\* very challenge: not one it recorded earlier, nor parts of several
\* (verify_response).
ProvedMeansAnswered == proved \subseteq answered
=============================================================================
