----------------------------- MODULE NoiseCipher -----------------------------
(***************************************************************************)
(* One direction of an established Noise channel: the sender's              *)
(* NoiseCipherState::encrypt, the receiver's NoiseCipherState::decrypt, and  *)
(* the air between them, which may lose, delay, duplicate, reorder and       *)
(* damage frames (every relay path delivers its own copy, and nothing above  *)
(* the cipher deduplicates encrypted frames).                                *)
(*                                                                           *)
(* The AEAD is symbolic: a frame opens exactly when it is undamaged and the  *)
(* receiver rebuilds the nonce it was sealed under.  The sender counts in    *)
(* 64 bits but puts only 32 of them in front of the ciphertext.              *)
(***************************************************************************)
EXTENDS ReplayWindow, FiniteSets, FiniteSetTheorems, TLAPS

CONSTANTS
  WireNonces,       \* how many nonces the 4-byte prefix can name, 2^32
  MaxSealed         \* bound on the messages sealed in one behaviour

ASSUME WireNoncesAssumption == WireNonces \in Nat \ {0}
ASSUME MaxSealedAssumption == MaxSealed \in Nat \ {0}

VARIABLES
  nonce,      \* NoiseCipherState.nonce of the send cipher
  rx,         \* replay_window and highest_received_nonce of the receive cipher
  air,        \* every intact frame ever sealed; it may arrive any number of times
  opened      \* ghost: how often each message came out of decrypt

vars == <<nonce, rx, air, opened>>

Messages == 0 .. MaxSealed - 1

\* msg names the plaintext (the n-th one handed to encrypt), aead is the nonce
\* of the seal, wire is the prefix the receiver reads it back from.
Frames == [msg : Messages, aead : Nat, wire : Nat, intact : BOOLEAN]

TypeOK ==
  /\ nonce \in 0 .. MaxSealed
  /\ rx \in WindowType
  /\ air \subseteq Frames
  /\ opened \in [Messages -> Nat]

\* An eight-byte prefix, as if the counter were not truncated.
NonceToBytesWide(n) == n

\* nonce_to_bytes: the low four bytes of the counter.
NonceToBytes(n) == n % WireNonces

Init ==
  /\ nonce = 0
  /\ rx = FreshWindow
  /\ air = {}
  /\ opened = [m \in Messages |-> 0]

Seal(m, n) == [msg |-> m, aead |-> n, wire |-> NonceToBytes(n), intact |-> TRUE]

\* encrypt with the truncated counter used for the seal as well.
EncryptTruncatedSeal ==
  /\ nonce < MaxSealed
  /\ air' = air \cup {Seal(nonce, NonceToBytes(nonce))}
  /\ nonce' = nonce + 1
  /\ UNCHANGED <<rx, opened>>

\* encrypt: seal under the counter, prefix it, then advance the counter.
Encrypt ==
  /\ nonce < MaxSealed
  /\ air' = air \cup {Seal(nonce, nonce)}
  /\ nonce' = nonce + 1
  /\ UNCHANGED <<rx, opened>>

\* The tag verifies: the bytes are intact and the nonce rebuilt from the
\* prefix is the one the frame was sealed under.
TagVerifies(f) == f.intact /\ f.aead = f.wire

\* decrypt that records the nonce before the tag has been checked.
DecryptMarksFirst(f) ==
  /\ rx' = IF IsValidNonce(rx, f.wire) THEN MarkNonceAsSeen(rx, f.wire) ELSE rx
  /\ opened' = IF IsValidNonce(rx, f.wire) /\ TagVerifies(f)
               THEN [opened EXCEPT ![f.msg] = @ + 1] ELSE opened
  /\ UNCHANGED <<nonce, air>>

\* decrypt that exempts nonce 0 from the window, as an earlier version did.
DecryptNonceZeroExempt(f) ==
  /\ IF (f.wire = 0 \/ IsValidNonce(rx, f.wire)) /\ TagVerifies(f)
     THEN /\ rx' = IF f.wire = 0 THEN rx ELSE MarkNonceAsSeen(rx, f.wire)
          /\ opened' = [opened EXCEPT ![f.msg] = @ + 1]
     ELSE UNCHANGED <<rx, opened>>
  /\ UNCHANGED <<nonce, air>>

\* decrypt: the replay check, then the tag, and the nonce is recorded only
\* once the tag has verified.  Every failure leaves the cipher as it was.
Decrypt(f) ==
  /\ IF IsValidNonce(rx, f.wire) /\ TagVerifies(f)
     THEN /\ rx' = MarkNonceAsSeen(rx, f.wire)
          /\ opened' = [opened EXCEPT ![f.msg] = @ + 1]
     ELSE UNCHANGED <<rx, opened>>
  /\ UNCHANGED <<nonce, air>>

\* A copy of a sealed frame whose ciphertext or prefix was changed on the way.
Damaged(f, w) ==
  [msg |-> f.msg, aead |-> f.aead, wire |-> w, intact |-> FALSE]

Receive == \E f \in air : Decrypt(f)

ReceiveDamaged ==
  \E f \in air, w \in 0 .. WireNonces - 1 : Decrypt(Damaged(f, w))

Next == Encrypt \/ Receive \/ ReceiveDamaged

Spec == Init /\ [][Next]_vars
-----------------------------------------------------------------------------
(* Properties *)

\* decrypt returns each sealed message at most once, however often and in
\* whatever order the air delivers it: neither the slide of the window nor the
\* clearing of it on a long jump lets an old frame back in.
OpenedAtMostOnce == \A m \in Messages : opened[m] <= 1

\* A message that has not been opened and is still inside the window would be
\* accepted if it arrived now: neither damaged frames nor frames overtaking it
\* use up its slot (decrypt records a nonce only after the tag has verified).
NoSlotBurned ==
  \A f \in air :
    (f.aead = f.wire /\ opened[f.msg] = 0 /\ f.wire + WindowSize > rx.highest)
       => IsValidNonce(rx, f.wire)

\* No two messages of one direction are ever sealed under the same AEAD nonce,
\* the counter's truncation on the wire included.
NonceNeverReused ==
  \A f, g \in air : f.aead = g.aead => f.msg = g.msg

\* The receiver never remembers more than a window of nonces, whatever jumps
\* the sender's counter makes (mark_nonce_as_seen prunes as it slides).
WindowBounded == Cardinality(rx.seen) <= WindowSize

\* Nothing sealed after the 4-byte prefix has wrapped is ever opened: the
\* receiver rebuilds the wrong nonce, so the channel ends at 2^32 messages
\* rather than coming back to nonces that were already used.
WrappedNeverOpens ==
  \A m \in Messages : m >= WireNonces => opened[m] = 0

\* The nonces of a direction, from the counter to the receiver's memory: none is used twice,
\* none comes back after the wrap, and no more than a window of them is kept.
NoncesSound == NonceNeverReused /\ WrappedNeverOpens /\ WindowBounded
-----------------------------------------------------------------------------
(* The inductive strengthening behind the theorems of NoiseCipherProofs. *)

\* Frames in the air are exactly what encrypt builds from past counters.
AirIsSealed ==
  \A f \in air : /\ f.msg = f.aead /\ f.msg < nonce
                 /\ f.wire = NonceToBytes(f.aead)

\* Every opened message lies at or below the highest nonce, and is remembered
\* as long as the window still covers it.
OpenedIsRemembered ==
  \A m \in Messages : opened[m] > 0 =>
      /\ m < WireNonces
      /\ m <= rx.highest
      /\ m + WindowSize > rx.highest => m \in rx.seen

\* Every remembered nonce is an opened message inside the window.
RememberedIsOpened ==
  \A n \in rx.seen : /\ n \in Messages /\ opened[n] > 0
                     /\ n <= rx.highest /\ n + WindowSize > rx.highest

IInv == /\ TypeOK /\ OpenedAtMostOnce
        /\ AirIsSealed /\ OpenedIsRemembered /\ RememberedIsOpened
-----------------------------------------------------------------------------
(* Proofs: for every window size, prefix width and number of messages *)

\* The prefix of a counter (nonce_to_bytes) is a natural number that fits it.
LEMMA PrefixFacts ==
  ASSUME NEW n \in Nat
  PROVE  /\ NonceToBytes(n) \in Nat
         /\ NonceToBytes(n) < WireNonces
BY WireNoncesAssumption DEF NonceToBytes

\* mark_nonce_as_seen keeps the record's type, never moves the highest nonce
\* down, and remembers exactly the given nonce and those still in the window.
LEMMA MarkFacts ==
  ASSUME NEW w \in WindowType, NEW n \in Nat,
         \A m \in w.seen : m <= w.highest /\ m + WindowSize > w.highest
  PROVE  LET v == MarkNonceAsSeen(w, n) IN
         /\ v \in WindowType
         /\ v.highest = IF n > w.highest THEN n ELSE w.highest
         /\ \A m \in Nat : m \in v.seen <=>
               m = n \/ (m \in w.seen /\ m + WindowSize > v.highest)
<1> DEFINE v == MarkNonceAsSeen(w, n)
<1>0. w.highest \in Nat /\ w.seen \in SUBSET Nat
  BY DEF WindowType
<1>1. CASE n > w.highest
  <2>1. v = [highest |-> n, seen |-> Retained(w, n) \cup {n}]
    BY <1>1 DEF MarkNonceAsSeen
  <2>2. \A m \in Nat : m \in Retained(w, n) <=> m \in w.seen /\ m + WindowSize > n
    BY <1>0, <1>1, WindowSizeAssumption DEF Retained
  <2>3. Retained(w, n) \subseteq Nat
    BY <1>0 DEF Retained
  <2> QED
    BY <1>0, <1>1, <2>1, <2>2, <2>3 DEF WindowType
<1>2. CASE ~(n > w.highest)
  <2>1. v = [w EXCEPT !.seen = @ \cup {n}]
    BY <1>2 DEF MarkNonceAsSeen
  <2>2. v = [highest |-> w.highest, seen |-> w.seen \cup {n}]
    BY <2>1 DEF WindowType
  <2> QED
    BY <1>0, <1>2, <2>2, WindowSizeAssumption DEF WindowType
<1> QED
  BY <1>1, <1>2

\* A freshly keyed cipher pair satisfies the inductive invariant.
LEMMA InitEstablishes == Init => IInv
BY MaxSealedAssumption, WireNoncesAssumption
   DEF Init, IInv, TypeOK, OpenedAtMostOnce, AirIsSealed, OpenedIsRemembered,
       RememberedIsOpened, FreshWindow, WindowType, Messages

\* encrypt adds one frame under a counter value no earlier frame carries.
LEMMA EncryptPreserves == IInv /\ Encrypt => IInv'
<1> SUFFICES ASSUME IInv, Encrypt PROVE IInv'
  OBVIOUS
<1> USE DEF IInv
<1>1. nonce \in Nat /\ nonce \in Messages /\ nonce + 1 \in 0 .. MaxSealed
  BY MaxSealedAssumption DEF TypeOK, Encrypt, Messages
<1>2. Seal(nonce, nonce) \in Frames
  BY <1>1, PrefixFacts DEF Seal, Frames
<1>3. TypeOK'
  BY <1>1, <1>2 DEF TypeOK, Encrypt
<1>4. AirIsSealed'
  BY <1>1 DEF AirIsSealed, Encrypt, Seal, TypeOK, Frames, Messages
<1>5. OpenedAtMostOnce' /\ OpenedIsRemembered' /\ RememberedIsOpened'
  BY DEF OpenedAtMostOnce, OpenedIsRemembered, RememberedIsOpened, Encrypt
<1> QED
  BY <1>3, <1>4, <1>5

\* The heart of the argument: a frame that opens has a nonce the window did
\* not hold, so its message had not been opened before.
LEMMA DecryptPreserves ==
  ASSUME IInv, NEW f \in Frames, Decrypt(f),
         f.intact => f \in air
  PROVE  IInv'
<1> USE DEF IInv
<1>0. /\ nonce \in Nat /\ rx \in WindowType /\ rx.highest \in Nat /\ rx.seen \subseteq Nat
      /\ f.msg \in Messages /\ f.wire \in Nat /\ opened[f.msg] \in Nat
      /\ Messages \subseteq Nat
  BY DEF TypeOK, Frames, WindowType, Messages
<1>1. CASE ~(IsValidNonce(rx, f.wire) /\ TagVerifies(f))
  <2>1. UNCHANGED vars
    BY <1>1 DEF Decrypt, vars
  <2> QED
    BY <2>1 DEF vars, TypeOK, OpenedAtMostOnce, AirIsSealed, OpenedIsRemembered,
                RememberedIsOpened
<1>2. CASE IsValidNonce(rx, f.wire) /\ TagVerifies(f)
  <2>1. f.msg = f.wire /\ f.wire < WireNonces
    BY <1>0, <1>2, PrefixFacts DEF TagVerifies, AirIsSealed, Frames
  <2>2. opened[f.msg] = 0
    BY <1>0, <1>2, <2>1 DEF IsValidNonce, OpenedIsRemembered
  <2>3. /\ rx' \in WindowType
        /\ rx'.highest = IF f.wire > rx.highest THEN f.wire ELSE rx.highest
        /\ \A m \in Nat : m \in rx'.seen <=>
              m = f.wire \/ (m \in rx.seen /\ m + WindowSize > rx'.highest)
    BY <1>0, <1>2, MarkFacts DEF Decrypt, RememberedIsOpened
  <2>4. /\ opened' = [opened EXCEPT ![f.msg] = 1]
        /\ nonce' = nonce /\ air' = air
    BY <1>2, <2>2 DEF Decrypt
  <2>5. opened'[f.msg] = 1 /\ \A m \in Messages : m # f.msg => opened'[m] = opened[m]
    BY <1>0, <2>4 DEF TypeOK
  <2>6. TypeOK'
    BY <1>0, <2>3, <2>4 DEF TypeOK
  <2>7. OpenedAtMostOnce' /\ AirIsSealed'
    BY <2>4, <2>5 DEF OpenedAtMostOnce, AirIsSealed
  <2>8. OpenedIsRemembered'
    BY <1>0, <2>1, <2>3, <2>5, WindowSizeAssumption
       DEF OpenedIsRemembered, WindowType
  <2>9. RememberedIsOpened'
    <3>1. f.wire + WindowSize > rx'.highest
      BY <1>0, <1>2, <2>3, WindowSizeAssumption DEF IsValidNonce
    <3>2. rx'.seen \subseteq Nat /\ rx'.highest \in Nat
      BY <2>3 DEF WindowType
    <3> QED
      BY <1>0, <2>1, <2>3, <2>5, <3>1, <3>2 DEF RememberedIsOpened
  <2> QED
    BY <2>6, <2>7, <2>8, <2>9
<1> QED
  BY <1>1, <1>2

\* Every step of either end preserves the inductive invariant.
LEMMA StepPreserves == IInv /\ [Next]_vars => IInv'
<1> SUFFICES ASSUME IInv, [Next]_vars PROVE IInv'
  OBVIOUS
<1>1. CASE Encrypt
  BY <1>1, EncryptPreserves
<1>2. CASE Receive
  <2>1. PICK f \in air : Decrypt(f)
    BY <1>2 DEF Receive
  <2>2. f \in Frames
    BY DEF IInv, TypeOK
  <2> QED
    BY <2>1, <2>2, DecryptPreserves
<1>3. CASE ReceiveDamaged
  <2>1. PICK f \in air, w \in 0 .. WireNonces - 1 : Decrypt(Damaged(f, w))
    BY <1>3 DEF ReceiveDamaged
  <2>2. Damaged(f, w) \in Frames /\ ~Damaged(f, w).intact
    BY <2>1 DEF IInv, TypeOK, Frames, Damaged
  <2> QED
    BY <2>1, <2>2, DecryptPreserves
<1>4. CASE UNCHANGED vars
  BY <1>4 DEF vars, IInv, TypeOK, OpenedAtMostOnce, AirIsSealed,
              OpenedIsRemembered, RememberedIsOpened
<1> QED
  BY <1>1, <1>2, <1>3, <1>4 DEF Next

\* The inductive invariant holds in every reachable state of the cipher.
THEOREM CipherInvariant == Spec => []IInv
BY InitEstablishes, StepPreserves, PTL DEF Spec

\* Type correctness of the cipher's state (NoiseCipherState's fields).
THEOREM CipherTypeCorrect == Spec => []TypeOK
BY CipherInvariant, PTL DEF IInv

\* For every window size and every sequence of arrivals, decrypt returns each
\* sealed message at most once.
THEOREM ReplaySafe == Spec => []OpenedAtMostOnce
BY CipherInvariant, PTL DEF IInv

\* No two messages are sealed under one AEAD nonce, for every prefix width.
THEOREM NonceUnique == Spec => []NonceNeverReused
<1>1. IInv => NonceNeverReused
  BY DEF IInv, AirIsSealed, NonceNeverReused
<1> QED
  BY <1>1, CipherInvariant, PTL

\* A message still inside the window and not yet opened is never refused as a
\* replay: damaged and overtaking frames cost it nothing.
THEOREM SlotsNotBurned == Spec => []NoSlotBurned
<1>1. IInv => NoSlotBurned
  BY DEF IInv, TypeOK, Frames, WindowType, AirIsSealed, RememberedIsOpened,
         NoSlotBurned, IsValidNonce
<1> QED
  BY <1>1, CipherInvariant, PTL

\* The window's memory is bounded by its size.
THEOREM MemoryBounded == Spec => []WindowBounded
<1>1. IInv => WindowBounded
  <2> SUFFICES ASSUME IInv PROVE WindowBounded
    OBVIOUS
  <2> DEFINE lo == rx.highest - WindowSize + 1
             I == lo .. rx.highest
  <2>1. rx.highest \in Nat /\ rx.seen \subseteq Nat /\ WindowSize \in Nat \ {0}
    BY WindowSizeAssumption DEF IInv, TypeOK, WindowType
  <2>2. rx.seen \subseteq I
    BY <2>1 DEF IInv, RememberedIsOpened
  <2>3. IsFiniteSet(I) /\ Cardinality(I) = WindowSize
    <3>1. lo \in Int /\ rx.highest \in Int /\ lo <= rx.highest
      BY <2>1
    <3>2. IsFiniteSet(I) /\ Cardinality(I) = rx.highest - lo + 1
      BY <3>1, FS_Interval
    <3> QED
      BY <2>1, <3>2
  <2>4. Cardinality(rx.seen) <= Cardinality(I)
    BY <2>2, <2>3, FS_Subset
  <2> QED
    BY <2>3, <2>4 DEF WindowBounded
<1> QED
  BY <1>1, CipherInvariant, PTL

\* Nothing sealed after the prefix wrapped is ever opened.
THEOREM WrapEndsChannel == Spec => []WrappedNeverOpens
<1>1. IInv => WrappedNeverOpens
  BY WireNoncesAssumption DEF IInv, TypeOK, OpenedIsRemembered, WrappedNeverOpens, Messages
<1> QED
  BY <1>1, CipherInvariant, PTL

\* The three facts about nonces together, as the run of the cipher checks them.
THEOREM NonceDiscipline == Spec => []NoncesSound
<1>1. NonceNeverReused /\ WrappedNeverOpens /\ WindowBounded => NoncesSound
  BY DEF NoncesSound
<1> QED
  BY <1>1, NonceUnique, WrapEndsChannel, MemoryBounded, PTL
=============================================================================
