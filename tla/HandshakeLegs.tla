---------------------------- MODULE HandshakeLegs ----------------------------
(***************************************************************************)
(* What the session layer promises about handshakes, with the cryptography   *)
(* already abstracted to legs: the abstract specification that NoiseXX is    *)
(* shown to implement, over the same operators DirectMessages uses.          *)
(***************************************************************************)
EXTENDS NoiseSession

CONSTANT Nodes

VARIABLES session, air, drawn

vars == <<session, air, drawn>>

Init ==
  /\ session = [n \in Nodes |-> [p \in Nodes |-> NoSession]]
  /\ air = {}
  /\ drawn = 0

\* initiate_handshake on an absent session.
Open(n, p) ==
  /\ CanInitiate(session[n][p])
  /\ session' = [session EXCEPT ![n][p] = OpenHandshake("Initiator", drawn + 1)]
  /\ air' = air \cup {[from |-> n, to |-> p, msg |-> Leg(1, 0, drawn + 1)]}
  /\ drawn' = drawn + 1

\* initiate_handshake on a handshake under way; an ephemeral may be wasted.
Disturb(n, p) ==
  /\ session[n][p].state = "Handshaking"
  /\ session' = [session EXCEPT ![n][p] = Spoil(@)]
  /\ drawn' \in {drawn, drawn + 1}
  /\ UNCHANGED air

\* handle_incoming_handshake, with mesh.rs dropping a session that failed.
Receive(f) ==
  LET o == HandleIncomingHandshake(session[f.to][f.from], f.msg, drawn + 1)
  IN /\ session' = [session EXCEPT ![f.to][f.from] =
                      IF o.result = "error" THEN NoSession ELSE o.session]
     /\ air' = IF o.result = "reply"
               THEN air \cup {[from |-> f.to, to |-> f.from, msg |-> o.reply]}
               ELSE air
     /\ drawn' = IF session[f.to][f.from].state = "Absent" THEN drawn + 1 ELSE drawn

\* block or a restart: the session goes, whatever its state.
Remove(n, p) ==
  /\ session' = [session EXCEPT ![n][p] = NoSession]
  /\ UNCHANGED <<air, drawn>>

Next ==
  \/ \E n, p \in Nodes : Open(n, p) \/ Disturb(n, p) \/ Remove(n, p)
  \/ \E f \in air : Receive(f)

Spec == Init /\ [][Next]_vars
=============================================================================
