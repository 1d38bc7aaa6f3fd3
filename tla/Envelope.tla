------------------------------ MODULE Envelope ------------------------------
(***************************************************************************)
(* The gift wraps of nostr/envelope.rs: a rumor inside a signed seal inside  *)
(* a wrap signed by a throwaway key.  Keys are x-only, so a shared secret is *)
(* the pair of keys and a parity that is not on the wire; encryption is      *)
(* symbolic and opens under the very key it was made with (external: the     *)
(* curve and the cipher).  Anyone may compose a wrap from what he can sign,   *)
(* from what he can encrypt and from the seals he has opened.                *)
(***************************************************************************)
EXTENDS Integers, FiniteSets, TLAPS

Throwaway == "throwaway"
Forged == "forged"      \* whoever signs for a key without its secret

CONSTANTS
  Agents,      \* holders of long-lived keys
  Odd,         \* those whose stored secret has the odd point
  Contents,
  MaxWraps     \* bound: wraps on the relays

\* What the values of the constants have to be.
EnvelopeAssumption == Odd \subseteq Agents /\ MaxWraps \in Nat /\ Forged \notin Agents

VARIABLES
  wraps,     \* what the relays hold
  seals,     \* per agent: seals he has read
  authored,  \* ghost: <<sender, recipient, content>> sealed by seal_message
  opened     \* <<reader, sender, content>> that open_message returned

vars == <<wraps, seals, authored, opened>>
-----------------------------------------------------------------------------
(* Encryption *)

\* The parity the holder of a secret arrives at by lifting the other key to even.
Parity(a) == IF a \in Odd THEN 1 ELSE 0

SharedSecrets(a, b) == {[pair |-> {a, b}, parity |-> p] : p \in {0, 1}}
SealingSecret(a, b) == [pair |-> {a, b}, parity |-> Parity(a)]

Encrypt(body, from, to) == [key |-> SealingSecret(from, to), body |-> body]

\* Only the secret the reader would seal with is tried.
DecryptsWithOwn(cipher, reader, from) == cipher.key = SealingSecret(reader, from)

\* Both candidates are tried; a wrong one fails to authenticate.
Decrypts(cipher, reader, from) == cipher.key \in SharedSecrets(reader, from)
-----------------------------------------------------------------------------
(* The layers *)

Tags == {"none", "recipient", "other"}

Rumor(author, content, tags, signed) ==
  [kind |-> "rumor", pubkey |-> author, content |-> content, tags |-> tags, signed |-> signed]

\* Event::signed; verify recomputes the id and checks the signature against the key named.
Seal(pubkey, signer, kind, tags, cipher) ==
  [kind |-> kind, pubkey |-> pubkey, signer |-> signer, tags |-> tags, content |-> cipher]
Verifies(event) == event.signer = event.pubkey

Wrap(to, cipher) ==
  [kind |-> "wrap", pubkey |-> Throwaway, signer |-> Throwaway, to |-> to, content |-> cipher]

SealMessage(s, r, c) ==
  Wrap(r, Encrypt(Seal(s, s, "seal", "none", Encrypt(Rumor(s, c, "none", FALSE), s, r)), Throwaway, r))
-----------------------------------------------------------------------------
(* open_message, check by check *)

OuterOpens(w, r) ==
  w.kind = "wrap" /\ w.to = r /\ Verifies(w) /\ Decrypts(w.content, r, w.pubkey)

\* The seal is believed without its signature.
SealOpensUnsigned(seal, r) ==
  seal.kind = "seal" /\ seal.tags = "none" /\ Decrypts(seal.content, r, seal.pubkey)

SealOpens(seal, r) ==
  /\ seal.kind = "seal" /\ seal.tags = "none" /\ Verifies(seal)
  /\ Decrypts(seal.content, r, seal.pubkey)

RumorStands(rumor, seal) ==
  /\ rumor.kind = "rumor" /\ ~rumor.signed /\ rumor.pubkey = seal.pubkey
  /\ rumor.tags \in {"none", "recipient"}

\* The name inside the envelope is taken for the sender's.
OpenMessageNamed(w, r) ==
  IF OuterOpens(w, r) /\ SealOpens(w.content.body, r)
  THEN {<<r, w.content.body.content.body.pubkey, w.content.body.content.body.content>>}
  ELSE {}

OpenMessage(w, r) ==
  LET seal == w.content.body
      rumor == seal.content.body
  IN IF OuterOpens(w, r) /\ SealOpens(seal, r) /\ RumorStands(rumor, seal)
     THEN {<<r, seal.pubkey, rumor.content>>}
     ELSE {}
-----------------------------------------------------------------------------
(* Behaviour *)

Init == wraps = {} /\ seals = [a \in Agents |-> {}] /\ authored = {} /\ opened = {}

\* seal_for: a message of this client.
Author(s, r, c) ==
  /\ Cardinality(wraps) < MaxWraps /\ s # r
  /\ wraps' = wraps \cup {SealMessage(s, r, c)} /\ authored' = authored \cup {<<s, r, c>>}
  /\ UNCHANGED <<seals, opened>>

\* Some other program of agent a: any rumor, under a key a can compute, in a seal a signs
\* or one that a cannot sign properly.
Compose(a, r, c, author, pubkey, with, kind, tags, signed) ==
  /\ Cardinality(wraps) < MaxWraps /\ a \in {with, pubkey}
  /\ LET cipher == [key |-> SealingSecret(pubkey, with), body |-> Rumor(author, c, tags, signed)]
         seal == Seal(pubkey, IF a = pubkey THEN a ELSE Forged, kind, "none", cipher)
     IN /\ wraps' = wraps \cup {Wrap(r, Encrypt(seal, Throwaway, r))}
        /\ authored' = authored \cup (IF a = pubkey THEN {<<a, with, c>>} ELSE {})
  /\ UNCHANGED <<seals, opened>>

\* A seal passed on in a new wrap.
PassOn(a, seal, r) ==
  /\ Cardinality(wraps) < MaxWraps /\ seal \in seals[a]
  /\ wraps' = wraps \cup {Wrap(r, Encrypt(seal, Throwaway, r))}
  /\ UNCHANGED <<seals, authored, opened>>

Open(r, w) ==
  /\ w \in wraps /\ OuterOpens(w, r)
  /\ opened' = opened \cup OpenMessage(w, r)
  /\ seals' = [seals EXCEPT ![r] = @ \cup {w.content.body}]
  /\ UNCHANGED <<wraps, authored>>

Next ==
  \/ \E s, r \in Agents, c \in Contents : Author(s, r, c)
  \/ \E a, r, pubkey, with \in Agents, c \in Contents :
       \/ \E author \in Agents : Compose(a, r, c, author, pubkey, with, "seal", "none", FALSE)
       \/ \E tags \in Tags : Compose(a, r, c, pubkey, pubkey, with, "seal", tags, FALSE)
       \/ Compose(a, r, c, pubkey, pubkey, with, "note", "none", FALSE)
       \/ Compose(a, r, c, pubkey, pubkey, with, "seal", "none", TRUE)
  \/ \E a, r \in Agents : \E seal \in seals[a] : PassOn(a, seal, r)
  \/ \E r \in Agents, w \in wraps : Open(r, w)

Spec == Init /\ [][Next]_vars
-----------------------------------------------------------------------------
\* The sender open_message names sealed that message for this reader, whoever wrapped it
\* last and whatever the rumor inside says of its author.
Authentic == \A o \in opened : <<o[2], o[1], o[3]>> \in authored

\* What seal_message makes, its recipient opens as it was meant, whichever of the two points
\* either key stands for; nobody else opens it.
Readable ==
  \A w \in wraps, s, r, q \in Agents, c \in Contents :
    w = SealMessage(s, r, c) => OpenMessage(w, q) = IF q = r THEN {<<r, s, c>>} ELSE {}

\* A gift wrap that opens names the one who sealed it, and one made for a client opens there
\* and nowhere else, whichever of its two forms a key has.
WrapsSound == Authentic /\ Readable
-----------------------------------------------------------------------------
(* Proofs: for every set of key holders, parities, contents and wraps *)

\* The rumors there can be.
Rumors == [kind : {"rumor"}, pubkey : Agents, content : Contents, tags : Tags, signed : BOOLEAN]

\* A seal is encrypted between the key it names and one other, and if its signature holds
\* then the holder of that key sealed this content for the other.
Sealed(seal, pubkey, signer, with, kind, rumor) ==
  /\ seal = Seal(pubkey, signer, kind, "none", [key |-> SealingSecret(pubkey, with), body |-> rumor])
  /\ signer = pubkey => <<pubkey, with, rumor.content>> \in authored

\* One that some agent could have made.
Accounted(seal) ==
  \E pubkey, with \in Agents, kind \in {"seal", "note"}, rumor \in Rumors :
    \E signer \in {pubkey, Forged} : Sealed(seal, pubkey, signer, with, kind, rumor)

\* Every seal there is, in a wrap or in somebody's hands, is accounted for.
EnvelopeInv ==
  /\ \A w \in wraps : Accounted(w.content.body)
  /\ DOMAIN seals = Agents /\ \A a \in Agents : \A seal \in seals[a] : Accounted(seal)
  /\ Authentic

\* What has been sealed stays sealed.
LEMMA AccountedStays ==
  ASSUME NEW seal, Accounted(seal), authored \subseteq authored'
  PROVE  Accounted(seal)'
BY DEF Accounted, Sealed

\* The body of a wrap is what was put into it.
LEMMA WrapBody ==
  ASSUME NEW r, NEW seal
  PROVE  Wrap(r, Encrypt(seal, Throwaway, r)).content.body = seal
BY DEF Wrap, Encrypt

\* A new seal in a wrap: the wraps grow by it, the rest stays.
LEMMA WrapAdded ==
  ASSUME EnvelopeInv, authored \subseteq authored', UNCHANGED <<seals, opened>>,
         NEW r, NEW seal, wraps' = wraps \cup {Wrap(r, Encrypt(seal, Throwaway, r))},
         Accounted(seal)'
  PROVE  EnvelopeInv'
<1>1. ASSUME NEW w \in wraps' PROVE Accounted(w.content.body)'
  <2>1. CASE w \in wraps
    BY <2>1, AccountedStays DEF EnvelopeInv
  <2>2. CASE w = Wrap(r, Encrypt(seal, Throwaway, r))
    BY <2>2, WrapBody
  <2>3. QED BY <2>1, <2>2
<1>2. ASSUME NEW a \in Agents, NEW s \in seals'[a] PROVE Accounted(s)'
  BY AccountedStays DEF EnvelopeInv
<1>3. Authentic'
  BY DEF EnvelopeInv, Authentic
<1>4. QED BY <1>1, <1>2, <1>3 DEF EnvelopeInv

\* What seal_message seals.
LEMMA AuthorStep ==
  ASSUME EnvelopeInv, NEW s \in Agents, NEW r \in Agents, NEW c \in Contents, Author(s, r, c)
  PROVE  EnvelopeInv'
<1> DEFINE rumor == Rumor(s, c, "none", FALSE)
           seal == Seal(s, s, "seal", "none", Encrypt(rumor, s, r))
<1>1. /\ wraps' = wraps \cup {Wrap(r, Encrypt(seal, Throwaway, r))}
      /\ authored' = authored \cup {<<s, r, c>>} /\ UNCHANGED <<seals, opened>>
  BY DEF Author, SealMessage
<1>2. rumor \in Rumors /\ rumor.content = c
  BY DEF Rumors, Rumor, Tags
<1>3. seal = Seal(s, s, "seal", "none", [key |-> SealingSecret(s, r), body |-> rumor])
  BY DEF Encrypt
<1> HIDE DEF rumor, seal
<1>4. Sealed(seal, s, s, r, "seal", rumor)'
  BY <1>1, <1>2, <1>3 DEF Sealed, Seal, SealingSecret, Parity
<1>5. Accounted(seal)'
  BY <1>2, <1>4 DEF Accounted
<1>6. QED BY <1>1, <1>5, WrapAdded

\* Whatever another program of an agent composes: a seal whose signature holds is its own.
LEMMA ComposeStep ==
  ASSUME EnvelopeAssumption, EnvelopeInv,
         NEW a \in Agents, NEW r \in Agents, NEW c \in Contents, NEW author \in Agents,
         NEW pubkey \in Agents, NEW with \in Agents, NEW kind \in {"seal", "note"},
         NEW tags \in Tags, NEW signed \in BOOLEAN,
         Compose(a, r, c, author, pubkey, with, kind, tags, signed)
  PROVE  EnvelopeInv'
<1> DEFINE rumor == Rumor(author, c, tags, signed)
           signer == IF a = pubkey THEN a ELSE Forged
           seal == Seal(pubkey, signer, kind, "none", [key |-> SealingSecret(pubkey, with), body |-> rumor])
<1>1. /\ wraps' = wraps \cup {Wrap(r, Encrypt(seal, Throwaway, r))}
      /\ authored' = authored \cup (IF a = pubkey THEN {<<a, with, c>>} ELSE {})
      /\ UNCHANGED <<seals, opened>>
  BY DEF Compose
<1>2. rumor \in Rumors /\ rumor.content = c
  BY DEF Rumors, Rumor
<1>3. signer \in {pubkey, Forged} /\ (signer = pubkey => a = pubkey)
  BY DEF EnvelopeAssumption
<1>4. seal = Seal(pubkey, signer, kind, "none", [key |-> SealingSecret(pubkey, with), body |-> rumor])
  OBVIOUS
<1> HIDE DEF rumor, seal, signer
<1>5. signer = pubkey => <<pubkey, with, rumor.content>> \in authored'
  BY <1>1, <1>2, <1>3
<1>6. Sealed(seal, pubkey, signer, with, kind, rumor)'
  BY <1>4, <1>5 DEF Sealed
<1>7. Accounted(seal)'
  BY <1>2, <1>3, <1>6 DEF Accounted
<1>8. QED BY <1>1, <1>7, WrapAdded

\* The other key of a secret that the reader shares with the one the seal names is his own.
LEMMA SharedWithReader ==
  ASSUME NEW r, NEW pubkey, NEW with, NEW body,
         Decrypts([key |-> SealingSecret(pubkey, with), body |-> body], r, pubkey)
  PROVE  with = r
<1>1. PICK p \in {0, 1} : SealingSecret(pubkey, with) = [pair |-> {r, pubkey}, parity |-> p]
  BY DEF Decrypts, SharedSecrets
<1>2. {pubkey, with} = {r, pubkey}
  BY <1>1 DEF SealingSecret
<1>3. QED BY <1>2

\* What open_message returns was sealed for the reader by the one it names.
LEMMA OpenStep ==
  ASSUME EnvelopeInv, NEW r \in Agents, NEW w \in wraps, Open(r, w)
  PROVE  EnvelopeInv'
<1> DEFINE seal == w.content.body
<1>1. /\ opened' = opened \cup OpenMessage(w, r) /\ seals' = [seals EXCEPT ![r] = @ \cup {seal}]
      /\ UNCHANGED <<wraps, authored>>
  BY DEF Open
<1>2. PICK pubkey \in Agents, with \in Agents, kind \in {"seal", "note"}, rumor \in Rumors :
        \E signer \in {pubkey, Forged} : Sealed(seal, pubkey, signer, with, kind, rumor)
  BY DEF EnvelopeInv, Accounted
<1>3. PICK signer \in {pubkey, Forged} : Sealed(seal, pubkey, signer, with, kind, rumor)
  BY <1>2
<1> DEFINE cipher == [key |-> SealingSecret(pubkey, with), body |-> rumor]
<1>4. /\ seal = Seal(pubkey, signer, kind, "none", cipher)
      /\ signer = pubkey => <<pubkey, with, rumor.content>> \in authored
  BY <1>3 DEF Sealed
<1>5. seal.pubkey = pubkey /\ seal.signer = signer /\ seal.content = cipher
  BY <1>4 DEF Seal
<1>6. cipher.body = rumor
  OBVIOUS
<1>7. ASSUME NEW o \in OpenMessage(w, r) PROVE <<o[2], o[1], o[3]>> \in authored
  <2>1. SealOpens(seal, r) /\ o = <<r, seal.pubkey, seal.content.body.content>>
    BY <1>7 DEF OpenMessage
  <2>2. signer = pubkey /\ Decrypts(cipher, r, pubkey)
    BY <1>5, <2>1 DEF SealOpens, Verifies
  <2>3. with = r
    BY <2>2, SharedWithReader
  <2>4. o = <<r, pubkey, rumor.content>>
    BY <1>5, <1>6, <2>1
  <2>5. o[1] = r /\ o[2] = pubkey /\ o[3] = rumor.content
    BY <2>4
  <2>6. QED BY <1>4, <2>2, <2>3, <2>5
<1>8. Authentic'
  BY <1>1, <1>7 DEF EnvelopeInv, Authentic
<1>9. Accounted(seal)
  BY DEF EnvelopeInv
<1> HIDE DEF seal
<1>10. DOMAIN seals' = Agents /\ \A a \in Agents : \A s \in seals'[a] : s \in seals[a] \/ s = seal
  BY <1>1 DEF EnvelopeInv
<1>11. ASSUME NEW a \in Agents, NEW s \in seals'[a] PROVE Accounted(s)'
  <2>1. Accounted(s)
    BY <1>9, <1>10 DEF EnvelopeInv
  <2>2. QED BY <1>1, <2>1, AccountedStays
<1>12. ASSUME NEW v \in wraps' PROVE Accounted(v.content.body)'
  BY <1>1, AccountedStays DEF EnvelopeInv
<1>13. QED BY <1>8, <1>10, <1>11, <1>12 DEF EnvelopeInv

\* Every step of every agent keeps the seals accounted for.
LEMMA EnvelopeStep ==
  ASSUME EnvelopeAssumption, EnvelopeInv, [Next]_vars
  PROVE  EnvelopeInv'
<1>1. CASE UNCHANGED vars
  <2>1. wraps' = wraps /\ seals' = seals /\ opened' = opened /\ authored' = authored
    BY <1>1 DEF vars
  <2>2. \A seal : Accounted(seal) => Accounted(seal)'
    BY <2>1, AccountedStays
  <2>3. Authentic'
    BY <2>1 DEF EnvelopeInv, Authentic
  <2>4. QED BY <2>1, <2>2, <2>3 DEF EnvelopeInv
<1>2. CASE \E s, r \in Agents, c \in Contents : Author(s, r, c)
  BY <1>2, AuthorStep
<1>3. CASE \E a, r, pubkey, with \in Agents, c \in Contents :
             \/ \E author \in Agents : Compose(a, r, c, author, pubkey, with, "seal", "none", FALSE)
             \/ \E tags \in Tags : Compose(a, r, c, pubkey, pubkey, with, "seal", tags, FALSE)
             \/ Compose(a, r, c, pubkey, pubkey, with, "note", "none", FALSE)
             \/ Compose(a, r, c, pubkey, pubkey, with, "seal", "none", TRUE)
  <2>1. PICK a, r, pubkey, with \in Agents, c \in Contents :
             \/ \E author \in Agents : Compose(a, r, c, author, pubkey, with, "seal", "none", FALSE)
             \/ \E tags \in Tags : Compose(a, r, c, pubkey, pubkey, with, "seal", tags, FALSE)
             \/ Compose(a, r, c, pubkey, pubkey, with, "note", "none", FALSE)
             \/ Compose(a, r, c, pubkey, pubkey, with, "seal", "none", TRUE)
    BY <1>3
  <2>2. "none" \in Tags /\ "seal" \in {"seal", "note"} /\ "note" \in {"seal", "note"}
        /\ FALSE \in BOOLEAN /\ TRUE \in BOOLEAN
    BY DEF Tags
  <2>3. CASE \E author \in Agents : Compose(a, r, c, author, pubkey, with, "seal", "none", FALSE)
    BY <2>2, <2>3, ComposeStep
  <2>4. CASE \E tags \in Tags : Compose(a, r, c, pubkey, pubkey, with, "seal", tags, FALSE)
    BY <2>2, <2>4, ComposeStep
  <2>5. CASE Compose(a, r, c, pubkey, pubkey, with, "note", "none", FALSE)
    BY <2>2, <2>5, ComposeStep
  <2>6. CASE Compose(a, r, c, pubkey, pubkey, with, "seal", "none", TRUE)
    BY <2>2, <2>6, ComposeStep
  <2>7. QED BY <2>1, <2>3, <2>4, <2>5, <2>6
<1>4. CASE \E a, r \in Agents : \E seal \in seals[a] : PassOn(a, seal, r)
  <2>1. PICK a, r \in Agents : \E seal \in seals[a] : PassOn(a, seal, r)
    BY <1>4
  <2>2. PICK seal \in seals[a] : PassOn(a, seal, r)
    BY <2>1
  <2>3. /\ wraps' = wraps \cup {Wrap(r, Encrypt(seal, Throwaway, r))}
        /\ UNCHANGED <<seals, authored, opened>>
    BY <2>2 DEF PassOn
  <2>4. Accounted(seal)
    BY DEF EnvelopeInv
  <2>5. Accounted(seal)'
    BY <2>3, <2>4, AccountedStays
  <2>6. QED BY <2>3, <2>5, WrapAdded
<1>5. CASE \E r \in Agents, w \in wraps : Open(r, w)
  BY <1>5, OpenStep
<1>6. QED BY <1>1, <1>2, <1>3, <1>4, <1>5 DEF Next

\* A cipher opens for the one it was made for: one of the two candidates is its key.
LEMMA OpensForReader ==
  ASSUME NEW a, NEW b, NEW body
  PROVE  Decrypts(Encrypt(body, a, b), b, a) /\ Encrypt(body, a, b).body = body
<1>1. /\ Encrypt(body, a, b).key = [pair |-> {a, b}, parity |-> Parity(a)]
      /\ Encrypt(body, a, b).body = body
  BY DEF Encrypt, SealingSecret
<1>2. Parity(a) \in {0, 1} /\ {a, b} = {b, a}
  BY DEF Parity
<1>3. QED BY <1>1, <1>2 DEF Decrypts, SharedSecrets

\* A message for r opens for r as it was meant, whichever candidate of the secret it takes,
\* and for nobody else.
LEMMA ReadAsMeant ==
  ASSUME NEW s \in Agents, NEW r \in Agents, NEW q \in Agents, NEW c \in Contents
  PROVE  OpenMessage(SealMessage(s, r, c), q) = IF q = r THEN {<<r, s, c>>} ELSE {}
<1> DEFINE rumor == Rumor(s, c, "none", FALSE)
           seal == Seal(s, s, "seal", "none", Encrypt(rumor, s, r))
           w == Wrap(r, Encrypt(seal, Throwaway, r))
<1>1. w = SealMessage(s, r, c)
  BY DEF SealMessage
<1>2. /\ w.kind = "wrap" /\ w.to = r /\ Verifies(w) /\ w.pubkey = Throwaway
      /\ w.content = Encrypt(seal, Throwaway, r)
  BY DEF Wrap, Verifies
<1>3. /\ seal.kind = "seal" /\ seal.tags = "none" /\ Verifies(seal) /\ seal.pubkey = s
      /\ seal.content = Encrypt(rumor, s, r)
  BY DEF Seal, Verifies
<1>4. /\ rumor.kind = "rumor" /\ ~rumor.signed /\ rumor.pubkey = s /\ rumor.tags = "none"
      /\ rumor.content = c
  BY DEF Rumor
<1> HIDE DEF w, seal, rumor
<1>5. w.content.body = seal /\ seal.content.body = rumor
  BY <1>2, <1>3, OpensForReader
<1>6. OuterOpens(w, q) <=> q = r
  BY <1>2, OpensForReader DEF OuterOpens
<1>7. q = r => SealOpens(seal, q) /\ RumorStands(rumor, seal)
  BY <1>3, <1>4, OpensForReader DEF SealOpens, RumorStands
<1>8. OpenMessage(w, q) = IF q = r THEN {<<r, s, c>>} ELSE {}
  BY <1>3, <1>4, <1>5, <1>6, <1>7 DEF OpenMessage
<1>9. QED BY <1>1, <1>8

\* For every set of key holders, whichever points their keys stand for, and however seals are
\* forged, passed on and wrapped again: open_message names the one who sealed that message
\* for this reader, and a message opens for the one it was made for and for nobody else.
THEOREM WrapsStaySound ==
  ASSUME EnvelopeAssumption
  PROVE  Spec => []WrapsSound
<1>1. Init => EnvelopeInv
  BY DEF Init, EnvelopeInv, Authentic
<1>2. EnvelopeInv /\ [Next]_vars => EnvelopeInv'
  BY EnvelopeStep
<1>3. Readable
  BY ReadAsMeant DEF Readable
<1>4. EnvelopeInv => WrapsSound
  BY <1>3 DEF EnvelopeInv, WrapsSound
<1>5. QED BY <1>1, <1>2, <1>4, PTL DEF Spec
=============================================================================
