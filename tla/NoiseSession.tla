---------------------------- MODULE NoiseSession ----------------------------
(***************************************************************************)
(* NoiseSessionManager (noise_session.rs) over the XX handshake of           *)
(* noise_protocol.rs, as operators on one session record.                    *)
(*                                                                           *)
(* The cryptography is symbolic.  Every ephemeral key is a fresh positive    *)
(* number.  A handshake message is its leg (1: e; 2: e,ee,s,es; 3: s,se),    *)
(* the ephemeral it answers ("of", 0 for none or for one that nobody holds)  *)
(* and the ephemeral it introduces ("eph").  Leg 2 authenticates only to the *)
(* initiator whose ephemeral it answers, leg 3 only to the responder whose   *)
(* ephemeral it answers; NoiseXX derives these rules from the token-level    *)
(* processing in write_message and read_message.  A completed handshake      *)
(* splits into two transport ciphers named by the responder's ephemeral.     *)
(***************************************************************************)
EXTENDS ReplayWindow

Roles == {"None", "Initiator", "Responder"}

\* A session absent from the manager's map.
NoSession == [state |-> "Absent", role |-> "None", mine |-> 0, spoilt |-> FALSE,
              key |-> 0, nonce |-> 0, rx |-> FreshWindow]

\* spoilt: write_message failed half-way in initiate_handshake and left a
\* transcript behind that no peer can match.
SessionType ==
  [state : {"Absent", "Handshaking", "Established"}, role : Roles, mine : Nat,
   spoilt : BOOLEAN, key : Nat, nonce : Nat, rx : WindowType]

Legs == [leg : 1 .. 3, of : Nat, eph : Nat]

Leg(l, of, eph) == [leg |-> l, of |-> of, eph |-> eph]

HasEstablishedSession(s) == s.state = "Established"

OpenHandshake(role, e) ==
  [NoSession EXCEPT !.state = "Handshaking", !.role = role, !.mine = e]

\* initiate_handshake succeeds only when no session is registered: an
\* existing handshake is asked to write the leg it is waiting to read, which
\* fails on a missing remote key after the transcript has already moved.
CanInitiate(s) == s.state = "Absent"

Spoil(s) == IF s.state = "Handshaking" THEN [s EXCEPT !.spoilt = TRUE] ELSE s

Establish(s, k) ==
  [s EXCEPT !.state = "Established", !.mine = 0, !.key = k,
            !.nonce = 0, !.rx = FreshWindow]

Outcome(result, s, reply) == [result |-> result, session |-> s, reply |-> reply]

NoReply == Leg(1, 0, 0)

\* read_message authenticates the leg this end is waiting for.
Authenticates(s, m) ==
  /\ ~s.spoilt
  /\ m.leg = (IF s.role = "Initiator" THEN 2 ELSE 3)
  /\ m.of = s.mine

\* handle_incoming_handshake with process_handshake_message; e is the
\* ephemeral a new responder would draw.  A first leg is any message long
\* enough to hold 32 bytes: a fresh responder cannot tell a stray leg 2 or 3
\* from an opening, it takes the bytes for an ephemeral nobody holds.
HandleIncomingHandshake(s, m, e) ==
  IF s.state = "Established"
  THEN Outcome("ignored", s, NoReply)
  ELSE IF s.state = "Absent"
  THEN Outcome("reply", OpenHandshake("Responder", e),
               Leg(2, IF m.leg = 1 THEN m.eph ELSE 0, e))
  ELSE IF ~Authenticates(s, m)
  THEN Outcome("error", s, NoReply)
  ELSE IF s.role = "Initiator"
  THEN Outcome("reply", Establish(s, m.eph), Leg(3, m.eph, 0))
  ELSE Outcome("done", Establish(s, s.mine), NoReply)

\* get_transport_ciphers: the initiator sends on the first cipher of the
\* split and receives on the second, the responder the other way round.
SendCipher(s) == <<s.key, IF s.role = "Initiator" THEN 1 ELSE 2>>
ReceiveCipher(s) == <<s.key, IF s.role = "Initiator" THEN 2 ELSE 1>>

\* NoiseSession::encrypt of the i-th record in a row.
Sealed(s, i, body) ==
  [cipher |-> SendCipher(s), nonce |-> s.nonce + i - 1, body |-> body]

\* decrypt that tries the ciphertext under whatever key it was sealed with.
OpensUnderAnyKey(s, f) ==
  /\ HasEstablishedSession(s)
  /\ IsValidNonce(s.rx, f.nonce)

\* NoiseSession::decrypt succeeds.
Opens(s, f) ==
  /\ HasEstablishedSession(s)
  /\ IsValidNonce(s.rx, f.nonce)
  /\ f.cipher = ReceiveCipher(s)

\* decrypt that exempts nonce 0 from the window, as an earlier version did.
AfterOpeningZeroExempt(s, f) ==
  IF f.nonce = 0 THEN s ELSE [s EXCEPT !.rx = MarkNonceAsSeen(@, f.nonce)]

AfterOpening(s, f) == [s EXCEPT !.rx = MarkNonceAsSeen(@, f.nonce)]
=============================================================================
