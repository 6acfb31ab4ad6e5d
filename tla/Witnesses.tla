------------------------------- MODULE Witnesses -------------------------------
(***************************************************************************)
(* The witnesses of a loop and the calls that make and check them: the     *)
(* lock of crypto/crossbolt.cpp (two pins and a bolt over them), the       *)
(* undisputed coin and the flex token of coin/*.cpp.  All of them carry    *)
(* the time they were made and are good for a window of milliseconds.      *)
(*                                                                         *)
(* libsodium is external: HMAC-SHA256 and SHA-256 are injective in what    *)
(* they are given, so a digest is the tuple of its inputs, and any call    *)
(* into it, or to the clock, may fail (sodium_init, which runs only until  *)
(* `initialized' is set, at any call too).  The pin of a coin and of a     *)
(* flex token is left out: its salt is thrown away and nothing reads it.   *)
(* The functions share nothing else, so a call is a step.                  *)
(*                                                                         *)
(* Callers keep witnesses as flat structs, copy, wipe, alter and build     *)
(* them.  The model lets them present to any check a lock that is whole,   *)
(* wiped, or put together from the fields of two (Mixed), and any coin or  *)
(* flex token at all: the checks of these read no digest, so one that was  *)
(* minted cannot be told from one that was written by hand.                *)
(*                                                                         *)
(* Definitions named Mut... are deliberate faults, used by no action.      *)
(***************************************************************************)
EXTENDS Naturals, FiniteSets

CONSTANTS
  Inputs,            \* the BoltInputs, CoinInputs and FlexInputs of callers
  Windows,           \* the freshness windows they ask for, in ms
  Mixes,             \* the sets of fields a mixed lock may take from another
  NANOS_PER_MS,      \* 1000000
  WORD,              \* 2^64: times are uint64_t
  MaxTime,           \* bound: the clock stops here
  MaxMade            \* bound: locks fired and coins and tokens minted

\* One record serves the three input structs: `rest' is hardware_dna and
\* tick_salt, `entropy' is a flex token's challenge_hash.
ASSUME WitnessAssumption ==
  /\ \A i \in Inputs : /\ i = [secret |-> i.secret, rest |-> i.rest, cycle |-> i.cycle,
                               entropy |-> i.entropy, sector |-> i.sector, stack |-> i.stack]
                       /\ i.sector \in Nat /\ i.stack \in Nat
  /\ Windows \subseteq Nat
  /\ NANOS_PER_MS \in Nat \ {0} /\ WORD \in Nat \ {0}
  /\ MaxTime \in Nat /\ MaxMade \in Nat

VARIABLES
  now,               \* CLOCK_MONOTONIC in ns; 0 is the sign of a failed read
  fired,             \* the locks returned by fire_crossbolt, with their input
  minted,            \* the coins and tokens returned by mint_*, with theirs
  answer             \* what the last call returned

vars == <<now, fired, minted, answer>>

CoinKinds == {"undisputed", "flex"}
Kinds == {"lock"} \cup CoinKinds

\* Where a call may fail: sodium_init, clock_gettime, the hashes in turn.
Faults == {"none", "init", "clock", "pin_a", "pin_b", "bolt"}

-----------------------------------------------------------------------------
(* The digests, and the witnesses.                                         *)

PinA(i) == <<"pin_a", i>>
PinB(i, ts) == <<"pin_b", i.cycle, i.sector, i.stack, i.entropy, ts>>
Bolt(secret, l) == <<"bolt", secret, l.pin_a, l.pin_b, l.timestamp, l.sector, l.stack>>

\* A lock before its bolt is computed, and after.
Pinned(i, ts) == [pin_a |-> PinA(i), pin_b |-> PinB(i, ts), bolt |-> <<>>,
                  timestamp |-> ts, sector |-> i.sector, stack |-> i.stack]
LockOf(i, ts) == [Pinned(i, ts) EXCEPT !.bolt = Bolt(i.secret, Pinned(i, ts))]

CoinOf(kind, i, ts) == [kind |-> kind, timestamp |-> ts, sector |-> i.sector, stack |-> i.stack]

\* What wipe() and the constructor leave: all bytes zero.
WipedLock == [pin_a |-> <<>>, pin_b |-> <<>>, bolt |-> <<>>,
              timestamp |-> 0, sector |-> 0, stack |-> 0]

LockFields == {"pin_a", "pin_b", "bolt", "timestamp", "sector", "stack"}

\* Lock l with some fields of lock m.
Mixed(l, m, fields) == [f \in LockFields |-> IF f \in fields THEN m[f] ELSE l[f]]

-----------------------------------------------------------------------------
(* What the calls answer: the first check that fails, in the code's order. *)

Age(ts) == IF now > ts THEN now - ts ELSE 0
WindowNs(w) == (w * NANOS_PER_MS) % WORD

\* Fault: the age is rounded down to the unit of the window.
MutStaleInMs(ts, w) == Age(ts) \div NANOS_PER_MS > w

\* Fault: a witness exactly as old as its window is refused.
MutStaleAtWindow(ts, w) == Age(ts) >= WindowNs(w)

Stale(ts, w) == Age(ts) > WindowNs(w)

FireAnswer(fault) ==
  CASE fault = "none"              -> "ok"
    [] fault \in {"init", "clock"} -> "CRYPTO_ENGINE_FAILURE"
    [] fault = "pin_a"             -> "PIN_A_MISALIGNED"
    [] fault = "pin_b"             -> "PIN_B_MISALIGNED"
    [] fault = "bolt"              -> "BOLT_DID_NOT_FIRE"

MintAnswer(kind, i, fault) ==
  LET hash == IF kind = "flex" THEN "pin_b" ELSE "pin_a"
  IN  IF fault = "init" THEN "CRYPTO_ENGINE_FAILURE"
      ELSE IF i.sector > 6 THEN "INVALID_SECTOR"
      ELSE IF i.stack \notin {1, 2} THEN "INVALID_STACK"
      ELSE IF fault = "clock" THEN "CRYPTO_ENGINE_FAILURE"
      ELSE IF fault = hash
           THEN IF kind = "flex" THEN "PIN_B_MISALIGNED" ELSE "PIN_A_MISALIGNED"
      ELSE "ok"

\* Fault: the bolt is checked only to be there.
MutVerifyAnswerNoBolt(l, i, w, fault) ==
  IF fault \in {"init", "clock"} THEN "CRYPTO_ENGINE_FAILURE"
  ELSE IF Stale(l.timestamp, w) THEN "STALE_LOCK"
  ELSE IF l.sector # i.sector \/ l.stack # i.stack THEN "BOLT_DID_NOT_FIRE"
  ELSE IF l.pin_a # PinA(i) THEN "PIN_A_MISALIGNED"
  ELSE IF l.pin_b # PinB(i, l.timestamp) THEN "PIN_B_MISALIGNED"
  ELSE IF l.bolt = <<>> THEN "BOLT_DID_NOT_FIRE"
  ELSE "ok"

VerifyAnswer(l, i, w, fault) ==
  IF fault \in {"init", "clock"} THEN "CRYPTO_ENGINE_FAILURE"
  ELSE IF Stale(l.timestamp, w) THEN "STALE_LOCK"
  ELSE IF l.sector # i.sector \/ l.stack # i.stack THEN "BOLT_DID_NOT_FIRE"
  ELSE IF fault = "pin_a" THEN "CRYPTO_ENGINE_FAILURE"
  ELSE IF l.pin_a # PinA(i) THEN "PIN_A_MISALIGNED"
  ELSE IF fault = "pin_b" THEN "CRYPTO_ENGINE_FAILURE"
  ELSE IF l.pin_b # PinB(i, l.timestamp) THEN "PIN_B_MISALIGNED"
  ELSE IF fault = "bolt" THEN "CRYPTO_ENGINE_FAILURE"
  ELSE IF l.bolt # Bolt(i.secret, l) THEN "BOLT_DID_NOT_FIRE"
  ELSE "ok"

CoinAnswer(c, i, w, fault) ==
  IF fault \in {"init", "clock"} THEN "CRYPTO_ENGINE_FAILURE"
  ELSE IF Stale(c.timestamp, w)
       THEN IF c.kind = "flex" THEN "STALE_TOKEN" ELSE "STALE_COIN"
  ELSE IF c.sector # i.sector THEN "INVALID_SECTOR"
  ELSE IF c.stack # i.stack THEN "INVALID_STACK"
  ELSE "ok"

-----------------------------------------------------------------------------
(* The calls.                                                              *)

NoAnswer == [call |-> "none"]

WitnessInit ==
  /\ now = 1
  /\ fired = {}
  /\ minted = {}
  /\ answer = NoAnswer

MayMake == Cardinality(fired) + Cardinality(minted) < MaxMade

Fire(i, fault) ==
  LET made == FireAnswer(fault) = "ok"
  IN  /\ made => MayMake
      /\ fired' = IF made THEN fired \cup {[input |-> i, lock |-> LockOf(i, now)]} ELSE fired
      /\ answer' = [call |-> "fire", result |-> FireAnswer(fault)]
      /\ UNCHANGED <<now, minted>>

Mint(kind, i, fault) ==
  LET made == MintAnswer(kind, i, fault) = "ok"
  IN  /\ made => MayMake
      /\ minted' = IF made THEN minted \cup {[input |-> i, coin |-> CoinOf(kind, i, now)]} ELSE minted
      /\ answer' = [call |-> "mint", result |-> MintAnswer(kind, i, fault)]
      /\ UNCHANGED <<now, fired>>

\* What callers may present to a check: copies of locks, and coins with any fields.
Held == {WipedLock} \cup {f.lock : f \in fired}
Locks == Held \cup {Mixed(l, m, fields) : l \in Held, m \in Held, fields \in Mixes}

Coins ==
  [kind : CoinKinds, timestamp : 0..MaxTime,
   sector : {0} \cup {i.sector : i \in Inputs}, stack : {0} \cup {i.stack : i \in Inputs}]

Verify(l, i, w, fault) ==
  /\ answer' = [call |-> "verify_crossbolt", result |-> VerifyAnswer(l, i, w, fault),
                witness |-> l, input |-> i, window |-> w]
  /\ UNCHANGED <<now, fired, minted>>

VerifyCoin(c, i, w, fault) ==
  /\ answer' = [call |-> "verify_coin", result |-> CoinAnswer(c, i, w, fault),
                witness |-> c, input |-> i, window |-> w]
  /\ UNCHANGED <<now, fired, minted>>

Tick ==
  /\ now < MaxTime
  /\ now' = now + 1
  /\ answer' = NoAnswer
  /\ UNCHANGED <<fired, minted>>

\* The caller has read the answer, and may call again.
TakeAnswer ==
  /\ answer # NoAnswer
  /\ answer' = NoAnswer
  /\ UNCHANGED <<now, fired, minted>>

LockCall ==
  \/ \E i \in Inputs, fault \in Faults : Fire(i, fault)
  \/ \E l \in Locks, i \in Inputs, w \in Windows, fault \in Faults : Verify(l, i, w, fault)

CoinCall ==
  \/ \E kind \in CoinKinds, i \in Inputs, fault \in Faults : Mint(kind, i, fault)
  \/ \E c \in Coins, i \in Inputs, w \in Windows, fault \in {"none", "init", "clock"} :
       VerifyCoin(c, i, w, fault)

Call == answer = NoAnswer /\ (LockCall \/ CoinCall)

WitnessNext == Call \/ TakeAnswer \/ Tick

WitnessSpec == WitnessInit /\ [][WitnessNext]_vars

-----------------------------------------------------------------------------
(* Properties.                                                             *)

Accepted(call) == answer.call = call /\ answer.result = "ok"
Verified == Accepted("verify_crossbolt") \/ Accepted("verify_coin")

\* An accepted lock is, field by field, one that fire_crossbolt made from the
\* very input it was checked against, however its fields were put together.
\* This is what the three comparisons of verify_crossbolt are for.  (The
\* checks of coins and flex tokens promise no such thing.)
AcceptedIsGenuine ==
  Accepted("verify_crossbolt") =>
    \E f \in fired : /\ f.input = answer.input
                     /\ \A field \in LockFields : f.lock[field] = answer.witness[field]

\* Nothing is accepted later than its window, counted in ns without wrap from
\* the time it carries, although the code's product of the window may wrap.
AcceptedInTime ==
  Verified => now <= answer.witness.timestamp + answer.window * NANOS_PER_MS

\* A lock presented with its own input within a window that does not wrap, or
\* a coin with any input of its sector and stack, is refused only when a
\* library call fails: what fire and mint bind is what the checks recompute.
GenuineIsAccepted ==
  LET refused == answer.result \notin {"ok", "CRYPTO_ENGINE_FAILURE"}
      inTime == /\ answer.window * NANOS_PER_MS < WORD
                /\ now <= answer.witness.timestamp + answer.window * NANOS_PER_MS
  IN  /\ answer.call = "verify_crossbolt" /\ refused /\ inTime =>
           ~ \E f \in fired : f.input = answer.input /\ f.lock = answer.witness
      /\ answer.call = "verify_coin" /\ refused /\ inTime =>
           ~ \E m \in minted : /\ m.coin = answer.witness
                              /\ m.input.sector = answer.input.sector
                              /\ m.input.stack = answer.input.stack
=============================================================================
