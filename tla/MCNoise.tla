------------------------------ MODULE MCNoise -------------------------------
(***************************************************************************)
(* Runs of the Noise layer: the transport cipher with its replay window,   *)
(* and the handshake token by token under the session manager.             *)
(***************************************************************************)
EXTENDS NoiseCipher

VARIABLES
  part,  \* the component that moves
  session, xxAir, drawn

xxVars == <<session, xxAir, drawn>>

\* Two peers and five ephemerals: a complete handshake, and one begun or disturbed twice beside it.
XX == INSTANCE NoiseXX WITH
  Nodes <- {"a", "b"}, MaxEphemerals <- 5, MaxTranscript <- 7, WindowSize <- 2, air <- xxAir

\* The values given to the constants are ones the components allow.
ASSUME InstancesAssumption ==
  /\ XX!XXBoundsAssumption
-----------------------------------------------------------------------------
Parts == {"cipher", "handshake"}

\* One component moves, in its own initial state; the others rest in theirs.
MCInit ==
  /\ part \in Parts
  /\ Init
  /\ XX!Init

MCNext ==
  \/ part = "cipher" /\ Next /\ UNCHANGED <<part, xxVars>>
  \/ part = "handshake" /\ XX!Next /\ UNCHANGED <<part, vars>>

mcvars == <<part, vars, xxVars>>

MCSpec == MCInit /\ [][MCNext]_mcvars
-----------------------------------------------------------------------------

\* Two ends that hold the same keys come from one handshake, and a session belongs to the
\* peer whose static key the handshake authenticated, whatever legs were repeated, crossed or
\* removed.
HandshakeSound == part = "handshake" => XX!EndsOfOneHandshake /\ XX!BoundToPeer

\* The token-level handshake implements the legs DirectMessages is built on:
\* no interleaving of openings, stray legs, copies and removals lets
\* read_message accept or refuse a leg that the abstraction does not.
ImplementsLegs == XX!ImplementsLegs
=============================================================================
