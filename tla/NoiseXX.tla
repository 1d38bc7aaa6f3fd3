------------------------------- MODULE NoiseXX -------------------------------
(***************************************************************************)
(* NoiseHandshakeState and NoiseSymmetricState (noise_protocol.rs) with      *)
(* symbolic cryptography: write_message and read_message work through the    *)
(* tokens of the current message pattern one by one, and what a failed call  *)
(* has already changed stays changed.  Over them, NoiseSessionManager        *)
(* (noise_session.rs): sessions between honest peers on a mesh where every   *)
(* handshake frame may arrive any number of times, in any order or never.    *)
(*                                                                           *)
(* A Diffie-Hellman secret is the set of the two keys.  The chaining key is  *)
(* the sequence of secrets mixed in, the hash the sequence of what was mixed *)
(* in.  A message is a sequence of blocks; a sealed block opens exactly      *)
(* under the chaining key, nonce and hash it was sealed with.                *)
(***************************************************************************)
EXTENDS Naturals, Sequences, FiniteSets, SequencesExt

CONSTANTS
  Nodes,
  MaxEphemerals,    \* bound: ephemeral keys drawn
  MaxTranscript,    \* bound: items mixed into one handshake hash
  WindowSize        \* of the transport ciphers; see HandshakeLegs

\* What the values of the constants have to be.
XXBoundsAssumption == MaxEphemerals \in Nat /\ MaxTranscript \in Nat

VARIABLES
  session,    \* NoiseSessionManager.sessions
  air,        \* handshake frames ever sent
  drawn       \* ephemerals drawn so far

vars == <<session, air, drawn>>
------------------------------------------------------------------------------
Key(kind, id) == [kind |-> kind, id |-> id]
NoKey == Key("none", 0)
Empty == Key("empty", 0)

\* A block taken for a public key although it is not one.
JunkKey == Key("junk", 0)

DH(x, y) == {x, y}

Clear(what) == [tag |-> "clear", what |-> what, ck |-> <<>>, n |-> 0, ad |-> <<>>]

\* message_patterns, for the two patterns the client uses.
MessagePatterns(pattern) ==
  IF pattern = "XX"
  THEN << <<"e">>, <<"e", "ee", "s", "es">>, <<"s", "se">> >>
  ELSE << <<"e", "es", "s", "ss">> >>

MixHash(st, x) == [st EXCEPT !.h = Append(@, x)]
MixKey(st, secret) == [st EXCEPT !.ck = Append(@, secret), !.n = 0]
HasCipherKey(st) == st.ck # <<>>

\* with_prologue and mix_pre_message_keys: pattern X knows the recipient's
\* static key in advance, and both sides mix it in.
NewHandshake(role, pattern, ls, rs, prologue) ==
  LET fresh == [role |-> role, pattern |-> pattern, at |-> 1, le |-> NoKey,
                ls |-> ls, re |-> NoKey, rs |-> rs,
                h |-> << <<Clear(Key("prologue", prologue))>> >>, ck |-> <<>>, n |-> 0]
  IN IF pattern = "X"
     THEN MixHash(fresh, <<Clear(IF role = "Initiator" THEN rs ELSE ls)>>)
     ELSE fresh

IsHandshakeComplete(st) == st.at > Len(MessagePatterns(st.pattern))

\* The two keys a token's Diffie-Hellman takes, by role.
LocalKey(st, token) ==
  CASE token = "ee" -> st.le
    [] token = "es" -> IF st.role = "Initiator" THEN st.le ELSE st.ls
    [] token = "se" -> IF st.role = "Initiator" THEN st.ls ELSE st.le
    [] token = "ss" -> st.ls

\* es and se taken the same way round by both roles.
RemoteKeySwapped(st, token) ==
  CASE token = "ee" -> st.re
    [] token = "es" -> IF st.role = "Initiator" THEN st.re ELSE st.rs
    [] token = "se" -> IF st.role = "Initiator" THEN st.re ELSE st.rs
    [] token = "ss" -> st.rs

RemoteKey(st, token) ==
  CASE token = "ee" -> st.re
    [] token = "es" -> IF st.role = "Initiator" THEN st.rs ELSE st.re
    [] token = "se" -> IF st.role = "Initiator" THEN st.re ELSE st.rs
    [] token = "ss" -> st.rs

\* A step's accumulator: whether it may go on, the handshake state, the blocks
\* written so far or still to be read.
Failed(acc) == [acc EXCEPT !.ok = FALSE]

MixSecret(acc, token) ==
  LET l == LocalKey(acc.st, token)
      r == RemoteKey(acc.st, token)
  IN IF l = NoKey \/ r = NoKey THEN Failed(acc)
     ELSE [acc EXCEPT !.st = MixKey(@, DH(l, r))]

\* encrypt_and_hash: without a key the plaintext goes out as it is, and an
\* empty one adds no bytes.
EncryptAndHash(acc, what) ==
  LET st == acc.st
      out == IF HasCipherKey(st)
             THEN <<[tag |-> "sealed", what |-> what, ck |-> st.ck, n |-> st.n, ad |-> st.h]>>
             ELSE IF what = Empty THEN <<>> ELSE <<Clear(what)>>
      counted == IF HasCipherKey(st) THEN [st EXCEPT !.n = @ + 1] ELSE st
  IN [acc EXCEPT !.st = MixHash(counted, out), !.blocks = @ \o out]

WriteToken(acc, token, e) ==
  CASE token = "e" ->
         [acc EXCEPT !.st = MixHash([@ EXCEPT !.le = e], <<Clear(e)>>),
                     !.blocks = Append(@, Clear(e))]
    [] token = "s" -> EncryptAndHash(acc, acc.st.ls)
    [] OTHER -> MixSecret(acc, token)

\* write_message; e is the ephemeral an "e" token would draw.
WriteMessage(st, e, payload) ==
  LET start == [ok |-> ~IsHandshakeComplete(st), st |-> st, blocks |-> <<>>]
      Step(acc, token) == IF acc.ok THEN WriteToken(acc, token, e) ELSE acc
      tokens == IF start.ok THEN MessagePatterns(st.pattern)[st.at] ELSE <<>>
      done == FoldLeft(Step, start, tokens)
      whole == EncryptAndHash(done, payload)
  IN IF done.ok THEN [whole EXCEPT !.st.at = @ + 1] ELSE done

\* A sealed block taken at its word: the tag is not checked.
OpensNextUnchecked(acc) == acc.blocks # <<>> /\ Head(acc.blocks).tag = "sealed"

\* decrypt succeeds on the next block.
OpensNext(acc) ==
  /\ acc.blocks # <<>>
  /\ LET block == Head(acc.blocks)
     IN /\ block.tag = "sealed"
        /\ block.ck = acc.st.ck /\ block.n = acc.st.n /\ block.ad = acc.st.h

\* decrypt_and_hash of the next block: nothing is mixed in when it fails.
DecryptAndHash(acc) ==
  IF OpensNext(acc)
  THEN [acc EXCEPT !.st = MixHash([@ EXCEPT !.n = @ + 1], <<Head(acc.blocks)>>),
                   !.blocks = Tail(@)]
  ELSE Failed(acc)

ReadToken(acc, token) ==
  CASE token = "e" ->
         IF acc.blocks = <<>> THEN Failed(acc)
         ELSE LET block == Head(acc.blocks)
                  key == IF block.tag = "clear" THEN block.what ELSE JunkKey
              IN [acc EXCEPT !.st = MixHash([@ EXCEPT !.re = key], <<block>>),
                             !.blocks = Tail(@)]
    [] token = "s" ->
         IF OpensNext(acc)
         THEN [DecryptAndHash(acc) EXCEPT !.st.rs = Head(acc.blocks).what]
         ELSE Failed(acc)
    [] OTHER -> MixSecret(acc, token)

\* The payload at the end: as it is while no key is mixed in; an empty one is
\* accepted; otherwise it has to authenticate.
ReadPayload(acc) ==
  IF ~HasCipherKey(acc.st) \/ acc.blocks = <<>>
  THEN [acc EXCEPT !.st = MixHash(@, acc.blocks), !.blocks = <<>>]
  ELSE DecryptAndHash(acc)

ReadMessage(st, msg) ==
  LET start == [ok |-> ~IsHandshakeComplete(st), st |-> st, blocks |-> msg]
      Step(acc, token) == IF acc.ok THEN ReadToken(acc, token) ELSE acc
      tokens == IF start.ok THEN MessagePatterns(st.pattern)[st.at] ELSE <<>>
      done == FoldLeft(Step, start, tokens)
      whole == ReadPayload(done)
  IN IF ~done.ok THEN done
     ELSE IF whole.ok THEN [whole EXCEPT !.st.at = @ + 1] ELSE whole
------------------------------------------------------------------------------
Absent == [state |-> "Absent", hs |-> NewHandshake("None", "XX", NoKey, NoKey, 0)]

Ephemeral == Key("ephemeral", drawn + 1)

NewSession(n, role, state) ==
  [state |-> state, hs |-> NewHandshake(role, "XX", Key("static", n), NoKey, 0)]

Init ==
  /\ session = [n \in Nodes |-> [p \in Nodes |-> Absent]]
  /\ air = {}
  /\ drawn = 0

\* An ephemeral was drawn if the handshake's own one has changed.
Drawn(before, after) == IF before.le = after.le THEN drawn ELSE drawn + 1

\* initiate_handshake: a session already there is asked to write its next
\* message, and a failure leaves what write_message has done so far.
InitiateHandshake(n, p) ==
  LET s == IF session[n][p] = Absent THEN NewSession(n, "Initiator", "Handshaking")
           ELSE session[n][p]
      w == WriteMessage(s.hs, Ephemeral, Empty)
  IN /\ n # p /\ session[n][p].state # "Established"
     /\ drawn < MaxEphemerals /\ Len(s.hs.h) < MaxTranscript
     /\ session' = [session EXCEPT ![n][p] = [s EXCEPT !.hs = w.st]]
     /\ air' = IF w.ok THEN air \cup {[from |-> n, to |-> p, msg |-> w.blocks]} ELSE air
     /\ drawn' = Drawn(s.hs, w.st)

\* process_handshake_message: read, then either finish or answer, and finish
\* if the answer was the last message.
ProcessHandshakeMessage(s, msg) ==
  LET r == ReadMessage(s.hs, msg)
      w == WriteMessage(r.st, Ephemeral, Empty)
      Up(st) == IF IsHandshakeComplete(st) THEN "Established" ELSE "Handshaking"
  IN IF ~r.ok THEN [ok |-> FALSE, hs |-> r.st, state |-> s.state, out |-> <<>>]
     ELSE IF IsHandshakeComplete(r.st)
     THEN [ok |-> TRUE, hs |-> r.st, state |-> Up(r.st), out |-> <<>>]
     ELSE [ok |-> w.ok, hs |-> w.st, state |-> Up(w.st), out |-> w.blocks]

\* handle_incoming_handshake under handle_noise_handshake: an established
\* session ignores the frame, an absent one becomes a responder, an error
\* removes the session.
Receive(f) ==
  LET n == f.to
      p == f.from
      s == IF session[n][p] = Absent THEN NewSession(n, "Responder", "Handshaking")
           ELSE session[n][p]
      o == ProcessHandshakeMessage(s, f.msg)
  IN /\ IF s.state = "Established" THEN UNCHANGED vars
        ELSE /\ session[n][p] = Absent => drawn < MaxEphemerals
             /\ session' = [session EXCEPT ![n][p] =
                              IF o.ok THEN [state |-> o.state, hs |-> o.hs] ELSE Absent]
             /\ air' = IF o.ok /\ o.out # <<>>
                       THEN air \cup {[from |-> n, to |-> p, msg |-> o.out]} ELSE air
             /\ drawn' = Drawn(s.hs, o.hs)

\* A restart or a block.
RemoveSession(n, p) ==
  /\ session[n][p] # Absent
  /\ session' = [session EXCEPT ![n][p] = Absent]
  /\ UNCHANGED <<air, drawn>>

Next ==
  \/ \E n, p \in Nodes : InitiateHandshake(n, p) \/ RemoveSession(n, p)
  \/ \E f \in air : Receive(f)

Spec == Init /\ [][Next]_vars
-----------------------------------------------------------------------------
(* Refinement: what a token-level session and message mean as legs.  The     *)
(* hash holds the prologue, the initiator's ephemeral, the first payload and *)
(* then the responder's ephemeral.                                           *)

IdAt(h, i) == h[i][1].what.id

\* Transcript lengths of an initiator and a responder that wait undisturbed.
Undisturbed(hs) == Len(hs.h) = IF hs.role = "Initiator" THEN 3 ELSE 6

LegSession(s) ==
  LET N == INSTANCE NoiseSession
      hs == s.hs
  IN CASE s.state = "Absent" -> N!NoSession
       [] s.state = "Handshaking" ->
            [N!NoSession EXCEPT !.state = s.state, !.role = hs.role,
               !.mine = IdAt(hs.h, IF hs.role = "Initiator" THEN 2 ELSE 4),
               !.spoilt = ~Undisturbed(hs)]
       [] s.state = "Established" ->
            [N!NoSession EXCEPT !.state = s.state, !.role = hs.role,
               !.key = IdAt(hs.h, 4)]

\* The ephemeral a second leg answers: 0 if what it answered was no opening.
Answers(ad) ==
  IF ad[2][1].tag = "clear" /\ ad[3] = <<>> THEN IdAt(ad, 2) ELSE 0

LegMessage(msg) ==
  CASE Len(msg) = 1 -> [leg |-> 1, of |-> 0, eph |-> msg[1].what.id]
    [] Len(msg) = 3 -> [leg |-> 2, of |-> Answers(msg[2].ad), eph |-> msg[1].what.id]
    [] Len(msg) = 2 -> [leg |-> 3, of |-> IdAt(msg[1].ad, 4), eph |-> 0]

LegAir == {[from |-> f.from, to |-> f.to, msg |-> LegMessage(f.msg)] : f \in air}

Legs == INSTANCE HandshakeLegs WITH
          session <- [n \in Nodes |-> [p \in Nodes |-> LegSession(session[n][p])]],
          air <- LegAir
-----------------------------------------------------------------------------
(* Properties *)

\* The token-level handshake implements the legs DirectMessages is built on:
\* no interleaving of openings, stray legs, copies and removals lets
\* read_message accept or refuse a leg that the abstraction does not.
ImplementsLegs == Legs!Spec

\* Two peers whose channels with each other rest on the same secrets hold the
\* same transcript from opposite ends.
EndsOfOneHandshake ==
  \A n, p \in Nodes :
    LET s == session[n][p]
        t == session[p][n]
    IN (/\ s.state = "Established" /\ t.state = "Established"
        /\ s.hs.ck = t.hs.ck)
         => s.hs.role # t.hs.role /\ s.hs.h = t.hs.h

\* An established channel rests on the three secrets of XX with the static
\* key of the peer it is filed under: ee, es and se, in that order.
BoundToPeer ==
  \A n, p \in Nodes :
    LET hs == session[n][p].hs
        initiator == hs.role = "Initiator"
    IN session[n][p].state = "Established" =>
         /\ hs.rs = Key("static", p)
         /\ hs.ck = << DH(hs.le, hs.re),
                       IF initiator THEN DH(hs.le, hs.rs) ELSE DH(hs.ls, hs.re),
                       IF initiator THEN DH(hs.ls, hs.re) ELSE DH(hs.le, hs.rs) >>
=============================================================================
