---------------------------- MODULE WitnessesProofs ----------------------------
(***************************************************************************)
(* Theorems about Witnesses, for any inputs, windows, unit, word width and *)
(* bounds.  What makes a lock whole is its bolt: whatever fields a caller  *)
(* has put together, the bolt among them came from fire_crossbolt or is    *)
(* zero, and it covers every other field.                                  *)
(***************************************************************************)
EXTENDS Witnesses, TLAPS

(* What the calls that succeeded made.                                     *)
FiredWhole ==
  \A f \in fired : \E ts \in Nat : f.input \in Inputs /\ f.lock = LockOf(f.input, ts)

MintedSound ==
  \A m \in minted : \E kind \in CoinKinds, ts \in Nat :
    /\ m.input \in Inputs /\ m.input.sector <= 6 /\ m.input.stack \in {1, 2}
    /\ m.coin = CoinOf(kind, m.input, ts)

Made == now \in Nat /\ FiredWhole /\ MintedSound

-----------------------------------------------------------------------------
(* The lemmas about locks, coins and windows.                              *)

(* The fields of a fired lock: the pins, the time, and a bolt over them.   *)
LEMMA LockFieldsOf ==
  ASSUME NEW i, NEW ts
  PROVE  /\ LockOf(i, ts).pin_a = PinA(i)
         /\ LockOf(i, ts).pin_b = PinB(i, ts)
         /\ LockOf(i, ts).bolt = <<"bolt", i.secret, PinA(i), PinB(i, ts), ts, i.sector, i.stack>>
         /\ LockOf(i, ts).timestamp = ts
         /\ LockOf(i, ts).sector = i.sector
         /\ LockOf(i, ts).stack = i.stack
  BY DEF LockOf, Pinned, Bolt

(* Whatever is presented, its bolt was fired or is zero.                   *)
LEMMA BoltWasFired ==
  ASSUME Made, NEW l \in Locks
  PROVE  /\ l.timestamp \in Nat
         /\ l.bolt = <<>> \/ \E f \in fired : l.bolt = f.lock.bolt
  <1>1. ASSUME NEW f \in fired PROVE f.lock.timestamp \in Nat
    BY LockFieldsOf DEF Made, FiredWhole
  <1>2. ASSUME NEW h \in Held
        PROVE  /\ h.timestamp \in Nat
               /\ h.bolt = <<>> \/ \E f \in fired : h.bolt = f.lock.bolt
    BY <1>1 DEF Held, WipedLock
  <1>3. ASSUME NEW h \in Held, NEW g \in Held, NEW fields \in Mixes, l = Mixed(h, g, fields)
        PROVE  /\ l.timestamp \in Nat
               /\ l.bolt = <<>> \/ \E f \in fired : l.bolt = f.lock.bolt
    <2>1. l.timestamp \in {h.timestamp, g.timestamp} /\ l.bolt \in {h.bolt, g.bolt}
      BY <1>3 DEF Mixed, LockFields
    <2> QED
      BY <1>2, <2>1
  <1> QED
    BY <1>2, <1>3 DEF Locks

(* The bolt over a lock's fields tells which call made it.                 *)
LEMMA BoltTells ==
  ASSUME Made, NEW l, NEW i \in Inputs, NEW f \in fired,
         l.bolt = f.lock.bolt, l.bolt = Bolt(i.secret, l), l.pin_a = PinA(i)
  PROVE  f.input = i /\ \A field \in LockFields : f.lock[field] = l[field]
  <1>1. PICK ts \in Nat : f.lock = LockOf(f.input, ts)
    BY DEF Made, FiredWhole
  <1>2. <<"bolt", i.secret, l.pin_a, l.pin_b, l.timestamp, l.sector, l.stack>>
          = <<"bolt", f.input.secret, PinA(f.input), PinB(f.input, ts), ts,
              f.input.sector, f.input.stack>>
    <2>1. LockOf(f.input, ts).bolt
            = <<"bolt", f.input.secret, PinA(f.input), PinB(f.input, ts), ts,
                f.input.sector, f.input.stack>>
      BY LockFieldsOf
    <2>2. l.bolt = <<"bolt", i.secret, l.pin_a, l.pin_b, l.timestamp, l.sector, l.stack>>
      BY DEF Bolt
    <2> QED
      BY <1>1, <2>1, <2>2
  <1>3. /\ l.pin_a = PinA(f.input) /\ l.pin_b = PinB(f.input, ts)
        /\ l.timestamp = ts /\ l.sector = f.input.sector /\ l.stack = f.input.stack
    BY <1>2
  <1>4. f.input = i
    BY <1>3 DEF PinA
  <1>5. /\ f.lock.pin_a = l.pin_a /\ f.lock.pin_b = l.pin_b /\ f.lock.bolt = l.bolt
        /\ f.lock.timestamp = l.timestamp
        /\ f.lock.sector = l.sector /\ f.lock.stack = l.stack
    BY <1>1, <1>3, LockFieldsOf
  <1> QED
    BY <1>4, <1>5 DEF LockFields

(* The product of a window, wrapped, is at most the true one.              *)
LEMMA WrapShrinks ==
  ASSUME NEW w \in Windows
  PROVE  /\ w * NANOS_PER_MS \in Nat
         /\ WindowNs(w) \in Nat /\ WindowNs(w) <= w * NANOS_PER_MS
         /\ w * NANOS_PER_MS < WORD => WindowNs(w) = w * NANOS_PER_MS
  <1>1. w \in Nat /\ NANOS_PER_MS \in Nat /\ WORD \in Nat \ {0}
    BY WitnessAssumption
  <1>2. w * NANOS_PER_MS \in Nat
    BY <1>1
  <1>3. ASSUME NEW x \in Nat
        PROVE  x % WORD \in Nat /\ x % WORD <= x /\ (x < WORD => x % WORD = x)
    BY <1>1
  <1> QED
    BY <1>2, <1>3 DEF WindowNs

(* A witness that is not stale is within its window, and conversely when   *)
(* the product does not wrap.                                              *)
LEMMA FreshIsInTime ==
  ASSUME now \in Nat, NEW ts \in Nat, NEW w \in Windows
  PROVE  /\ ~ Stale(ts, w) => now <= ts + w * NANOS_PER_MS
         /\ w * NANOS_PER_MS < WORD /\ now <= ts + w * NANOS_PER_MS => ~ Stale(ts, w)
  <1> DEFINE product == w * NANOS_PER_MS
             window == WindowNs(w)
  <1>1. product \in Nat /\ window \in Nat /\ window <= product /\ (product < WORD => window = product)
    BY WrapShrinks
  <1>2. Stale(ts, w) <=> (IF now > ts THEN now - ts ELSE 0) > window
    BY DEF Stale, Age
  <1> HIDE DEF product, window
  <1>3. /\ ~ Stale(ts, w) => now <= ts + product
        /\ product < WORD /\ now <= ts + product => ~ Stale(ts, w)
    BY <1>1, <1>2
  <1> QED
    BY <1>3 DEF product

-----------------------------------------------------------------------------
(* The checks.                                                             *)

LEMMA AcceptedLock ==
  ASSUME NEW l, NEW i, NEW w, NEW fault,
         VerifyAnswer(l, i, w, fault) = "ok"
  PROVE  /\ ~ Stale(l.timestamp, w)
         /\ l.pin_a = PinA(i)
         /\ l.bolt = Bolt(i.secret, l)
  BY DEF VerifyAnswer

LEMMA AcceptedCoin ==
  ASSUME NEW c, NEW i, NEW w, NEW fault,
         CoinAnswer(c, i, w, fault) = "ok"
  PROVE  ~ Stale(c.timestamp, w)
  BY DEF CoinAnswer

(* A refusal of a lock whose fields are those of its input is for its age. *)
LEMMA RefusedLock ==
  ASSUME NEW i, NEW ts, NEW w, NEW fault,
         ~ Stale(ts, w)
  PROVE  VerifyAnswer(LockOf(i, ts), i, w, fault) \in {"ok", "CRYPTO_ENGINE_FAILURE"}
  <1> DEFINE l == LockOf(i, ts)
  <1>1. /\ l.pin_a = PinA(i) /\ l.pin_b = PinB(i, ts)
        /\ l.timestamp = ts /\ l.sector = i.sector /\ l.stack = i.stack
    BY LockFieldsOf
  <1>2. l.bolt = <<"bolt", i.secret, PinA(i), PinB(i, ts), ts, i.sector, i.stack>>
    BY LockFieldsOf
  <1>3. l.bolt = Bolt(i.secret, l)
    BY <1>1, <1>2 DEF Bolt
  <1> HIDE DEF l
  <1>4. VerifyAnswer(l, i, w, fault) \in {"ok", "CRYPTO_ENGINE_FAILURE"}
    BY <1>1, <1>3 DEF VerifyAnswer
  <1> QED
    BY <1>4 DEF l

LEMMA RefusedCoin ==
  ASSUME NEW c, NEW i, NEW w, NEW fault,
         ~ Stale(c.timestamp, w), c.sector = i.sector, c.stack = i.stack
  PROVE  CoinAnswer(c, i, w, fault) \in {"ok", "CRYPTO_ENGINE_FAILURE"}
  BY DEF CoinAnswer

-----------------------------------------------------------------------------
(* What was made stays sound.                                              *)

LEMMA MadeInit == WitnessInit => Made
  BY DEF WitnessInit, Made, FiredWhole, MintedSound

LEMMA MadeStep == Made /\ [WitnessNext]_vars => Made'
  <1> SUFFICES ASSUME Made, [WitnessNext]_vars PROVE Made'
    OBVIOUS
  <1> USE DEF Made
  <1>1. ASSUME NEW i \in Inputs, NEW fault \in Faults, Fire(i, fault) PROVE Made'
    <2>1. now' = now /\ minted' = minted
      BY <1>1 DEF Fire
    <2>2. fired' \subseteq fired \cup {[input |-> i, lock |-> LockOf(i, now)]}
      BY <1>1 DEF Fire
    <2>3. ASSUME NEW f \in fired' PROVE \E ts \in Nat : f.input \in Inputs /\ f.lock = LockOf(f.input, ts)
      BY <2>2 DEF FiredWhole
    <2> QED
      BY <2>1, <2>3 DEF FiredWhole, MintedSound
  <1>2. ASSUME NEW kind \in CoinKinds, NEW i \in Inputs, NEW fault \in Faults, Mint(kind, i, fault)
        PROVE  Made'
    <2>1. now' = now /\ fired' = fired
      BY <1>2 DEF Mint
    <2>2. CASE MintAnswer(kind, i, fault) = "ok"
      <3>1. i.sector <= 6 /\ i.stack \in {1, 2}
        BY <2>2, WitnessAssumption DEF MintAnswer
      <3>2. minted' = minted \cup {[input |-> i, coin |-> CoinOf(kind, i, now)]}
        BY <1>2, <2>2 DEF Mint
      <3> QED
        BY <2>1, <3>1, <3>2 DEF FiredWhole, MintedSound
    <2>3. CASE MintAnswer(kind, i, fault) # "ok"
      BY <1>2, <2>1, <2>3 DEF Mint, FiredWhole, MintedSound
    <2> QED
      BY <2>2, <2>3
  <1>3. ASSUME NEW l \in Locks, NEW i \in Inputs, NEW w \in Windows, NEW fault \in Faults,
               Verify(l, i, w, fault)
        PROVE  Made'
    BY <1>3 DEF Verify, FiredWhole, MintedSound
  <1>4. ASSUME NEW c \in Coins, NEW i \in Inputs, NEW w \in Windows, NEW fault \in Faults,
               VerifyCoin(c, i, w, fault)
        PROVE  Made'
    BY <1>4 DEF VerifyCoin, FiredWhole, MintedSound
  <1>5. CASE Tick \/ TakeAnswer
    BY <1>5 DEF Tick, TakeAnswer, FiredWhole, MintedSound
  <1>6. CASE UNCHANGED vars
    BY <1>6 DEF vars, FiredWhole, MintedSound
  <1> QED
    BY <1>1, <1>2, <1>3, <1>4, <1>5, <1>6 DEF WitnessNext, Call, LockCall, CoinCall, Faults

-----------------------------------------------------------------------------
(* The properties hold of every answer.                                    *)

WitnessInv == Made /\ AcceptedIsGenuine /\ AcceptedInTime /\ GenuineIsAccepted

LEMMA InvInit == WitnessInit => WitnessInv
  BY MadeInit DEF WitnessInit, NoAnswer, WitnessInv, AcceptedIsGenuine, AcceptedInTime,
                  GenuineIsAccepted, Verified, Accepted

(* A call that is not a check, or none, leaves nothing to be said.         *)
LEMMA OtherCalls ==
  ASSUME answer'.call \notin {"verify_crossbolt", "verify_coin"}
  PROVE  (AcceptedIsGenuine /\ AcceptedInTime /\ GenuineIsAccepted)'
  BY DEF AcceptedIsGenuine, AcceptedInTime, GenuineIsAccepted, Verified, Accepted

LEMMA VerifyStep ==
  ASSUME Made, NEW l \in Locks, NEW i \in Inputs, NEW w \in Windows, NEW fault \in Faults,
         Verify(l, i, w, fault)
  PROVE  (AcceptedIsGenuine /\ AcceptedInTime /\ GenuineIsAccepted)'
  <1>1. /\ answer'.call = "verify_crossbolt" /\ answer'.result = VerifyAnswer(l, i, w, fault)
        /\ answer'.witness = l /\ answer'.input = i /\ answer'.window = w
        /\ now' = now /\ fired' = fired /\ minted' = minted
    BY DEF Verify
  <1>2. /\ l.timestamp \in Nat
        /\ l.bolt = <<>> \/ \E f \in fired : l.bolt = f.lock.bolt
    BY BoltWasFired
  <1>3. AcceptedIsGenuine'
    <2>1. CASE VerifyAnswer(l, i, w, fault) = "ok"
      <3>1. l.pin_a = PinA(i) /\ l.bolt = Bolt(i.secret, l)
        BY <2>1, AcceptedLock
      <3>2. l.bolt # <<>>
        BY <3>1 DEF Bolt
      <3>3. PICK f \in fired : l.bolt = f.lock.bolt
        BY <1>2, <3>2
      <3>4. f.input = i /\ \A field \in LockFields : f.lock[field] = l[field]
        BY <3>1, <3>3, BoltTells
      <3> QED
        BY <1>1, <3>4 DEF AcceptedIsGenuine, Accepted
    <2>2. CASE VerifyAnswer(l, i, w, fault) # "ok"
      BY <1>1, <2>2 DEF AcceptedIsGenuine, Accepted
    <2> QED
      BY <2>1, <2>2
  <1>4. AcceptedInTime'
    <2>1. VerifyAnswer(l, i, w, fault) = "ok" => now <= l.timestamp + w * NANOS_PER_MS
      BY <1>2, AcceptedLock, FreshIsInTime DEF Made
    <2> QED
      BY <1>1, <2>1 DEF AcceptedInTime, Verified, Accepted
  <1>5. GenuineIsAccepted'
    <2>1. ASSUME w * NANOS_PER_MS < WORD, now <= l.timestamp + w * NANOS_PER_MS,
                 NEW f \in fired, f.input = i, f.lock = l
          PROVE  VerifyAnswer(l, i, w, fault) \in {"ok", "CRYPTO_ENGINE_FAILURE"}
      <3>1. PICK ts \in Nat : l = LockOf(i, ts)
        BY <2>1 DEF Made, FiredWhole
      <3>2. ~ Stale(l.timestamp, w)
        BY <1>2, <2>1, FreshIsInTime DEF Made
      <3>3. l.timestamp = ts
        BY <3>1, LockFieldsOf
      <3> QED
        BY <3>1, <3>2, <3>3, RefusedLock
    <2> QED
      BY <1>1, <2>1 DEF GenuineIsAccepted
  <1> QED
    BY <1>3, <1>4, <1>5

LEMMA VerifyCoinStep ==
  ASSUME Made, NEW c \in Coins, NEW i \in Inputs, NEW w \in Windows, NEW fault \in Faults,
         VerifyCoin(c, i, w, fault)
  PROVE  (AcceptedIsGenuine /\ AcceptedInTime /\ GenuineIsAccepted)'
  <1>1. /\ answer'.call = "verify_coin" /\ answer'.result = CoinAnswer(c, i, w, fault)
        /\ answer'.witness = c /\ answer'.input = i /\ answer'.window = w
        /\ now' = now /\ fired' = fired /\ minted' = minted
    BY DEF VerifyCoin
  <1>2. ASSUME NEW m \in minted
        PROVE  /\ m.coin.timestamp \in Nat
               /\ m.coin.sector = m.input.sector /\ m.coin.stack = m.input.stack
               /\ m.input.sector <= 6 /\ m.input.stack \in {1, 2}
    <2>1. PICK kind \in CoinKinds, ts \in Nat :
            /\ m.input.sector <= 6 /\ m.input.stack \in {1, 2}
            /\ m.coin = CoinOf(kind, m.input, ts)
      BY DEF Made, MintedSound
    <2>2. m.coin.timestamp = ts /\ m.coin.sector = m.input.sector /\ m.coin.stack = m.input.stack
      BY <2>1 DEF CoinOf
    <2> QED
      BY <2>1, <2>2
  <1>3. c.timestamp \in Nat
    BY DEF Coins
  <1>4. AcceptedIsGenuine'
    BY <1>1 DEF AcceptedIsGenuine, Accepted
  <1>5. AcceptedInTime'
    <2>1. CoinAnswer(c, i, w, fault) = "ok" => now <= c.timestamp + w * NANOS_PER_MS
      BY <1>3, AcceptedCoin, FreshIsInTime DEF Made
    <2> QED
      BY <1>1, <2>1 DEF AcceptedInTime, Verified, Accepted
  <1>6. GenuineIsAccepted'
    <2>1. ASSUME w * NANOS_PER_MS < WORD, now <= c.timestamp + w * NANOS_PER_MS,
                 NEW m \in minted, m.coin = c,
                 m.input.sector = i.sector, m.input.stack = i.stack
          PROVE  CoinAnswer(c, i, w, fault) \in {"ok", "CRYPTO_ENGINE_FAILURE"}
      <3>1. ~ Stale(c.timestamp, w)
        BY <1>3, <2>1, FreshIsInTime DEF Made
      <3>2. c.sector = i.sector /\ c.stack = i.stack
        BY <1>2, <2>1
      <3> QED
        BY <3>1, <3>2, RefusedCoin
    <2> QED
      BY <1>1, <2>1 DEF GenuineIsAccepted
  <1> QED
    BY <1>4, <1>5, <1>6

LEMMA InvStep == WitnessInv /\ [WitnessNext]_vars => WitnessInv'
  <1> SUFFICES ASSUME WitnessInv, [WitnessNext]_vars PROVE WitnessInv'
    OBVIOUS
  <1> USE DEF WitnessInv
  <1>1. Made'
    BY MadeStep
  <1>2. CASE \/ \E i \in Inputs, fault \in Faults : Fire(i, fault)
             \/ \E kind \in CoinKinds, i \in Inputs, fault \in Faults : Mint(kind, i, fault)
             \/ Tick \/ TakeAnswer
    <2>1. answer'.call \in {"fire", "mint", "none"}
      BY <1>2 DEF Fire, Mint, Tick, TakeAnswer, NoAnswer
    <2> QED
      BY <1>1, <2>1, OtherCalls
  <1>3. CASE \E l \in Locks, i \in Inputs, w \in Windows, fault \in Faults : Verify(l, i, w, fault)
    BY <1>1, <1>3, VerifyStep
  <1>4. CASE \E c \in Coins, i \in Inputs, w \in Windows, fault \in Faults : VerifyCoin(c, i, w, fault)
    BY <1>1, <1>4, VerifyCoinStep
  <1>5. CASE UNCHANGED vars
    BY <1>1, <1>5 DEF vars, AcceptedIsGenuine, AcceptedInTime, GenuineIsAccepted, Verified, Accepted
  <1> QED
    BY <1>2, <1>3, <1>4, <1>5 DEF WitnessNext, Call, LockCall, CoinCall, Faults

LEMMA Invariance == WitnessSpec => []WitnessInv
  BY InvInit, InvStep, PTL DEF WitnessSpec

(* Only a lock that fire_crossbolt made is accepted, and only with its own *)
(* input, whatever fields of two locks callers put together.               *)
THEOREM OnlyGenuine == WitnessSpec => []AcceptedIsGenuine
  <1>1. WitnessInv => AcceptedIsGenuine
    BY DEF WitnessInv
  <1> QED
    BY <1>1, Invariance, PTL

(* Nothing is accepted later than its window, though the product may wrap. *)
THEOREM OnlyInTime == WitnessSpec => []AcceptedInTime
  <1>1. WitnessInv => AcceptedInTime
    BY DEF WitnessInv
  <1> QED
    BY <1>1, Invariance, PTL

(* A genuine witness in time is refused only when a library call fails.    *)
THEOREM AllGenuine == WitnessSpec => []GenuineIsAccepted
  <1>1. WitnessInv => GenuineIsAccepted
    BY DEF WitnessInv
  <1> QED
    BY <1>1, Invariance, PTL
=============================================================================
