---------------------------- MODULE ReplayWindow ----------------------------
(***************************************************************************)
(* The sliding replay window of NoiseCipherState (noise_protocol.rs): the   *)
(* highest nonce accepted so far and the set of accepted nonces that are    *)
(* still inside the window.  Constant-level operators only; the modules     *)
(* that hold a receive cipher keep one of these records per cipher.         *)
(***************************************************************************)
EXTENDS Naturals

CONSTANT WindowSize         \* REPLAY_WINDOW_SIZE, 1024 in the code

ASSUME WindowSizeAssumption == WindowSize \in Nat \ {0}

\* The receive half of a freshly keyed cipher.
FreshWindow == [highest |-> 0, seen |-> {}]

WindowType == [highest : Nat, seen : SUBSET Nat]

\* The window test with its lower edge one nonce too wide.
IsValidNonceOffByOne(w, n) ==
  /\ n + WindowSize >= w.highest
  /\ n > w.highest \/ n \notin w.seen

\* is_valid_nonce: too old, always newer, or inside the window and unseen.
IsValidNonce(w, n) ==
  /\ n + WindowSize > w.highest
  /\ n > w.highest \/ n \notin w.seen

\* A slide that drops nothing, unless the whole window is cleared.
RetainedAll(w, n) == IF n - w.highest >= 2 * WindowSize THEN {} ELSE w.seen

\* Nonces that stay in the window when it slides up to n: none when the jump
\* is a whole window or more, otherwise those less than a window behind n.
Retained(w, n) ==
  IF n - w.highest >= WindowSize THEN {}
  ELSE {m \in w.seen : m + WindowSize > n}

\* Recording how far behind the newest the nonce is, with the sign lost.
MarkNonceAsOffset(w, n) ==
  [highest |-> IF n > w.highest THEN n ELSE w.highest, seen |-> w.seen \cup {n - w.highest}]

\* mark_nonce_as_seen: slide forward if n is the newest, then record n.
MarkNonceAsSeen(w, n) ==
  IF n > w.highest
  THEN [highest |-> n, seen |-> Retained(w, n) \cup {n}]
  ELSE [w EXCEPT !.seen = @ \cup {n}]
=============================================================================
