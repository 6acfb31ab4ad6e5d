--------------------------- MODULE PredatorGateProofs ---------------------------
(***************************************************************************)
(* Theorems about PredatorGate, for every number of sectors and every      *)
(* value of the limits.                                                    *)
(***************************************************************************)
EXTENDS PredatorGate, FiniteSetTheorems, SequenceTheorems, TLAPS

-----------------------------------------------------------------------------
(* What the helpers return.                                                *)

\* The empty map is a function to any set.
LEMMA EmptyMap ==
  ASSUME NEW S
  PROVE  <<>> \in [DOMAIN <<>> -> S] /\ DOMAIN <<>> = {}
  OBVIOUS

\* Popping stale times leaves a sequence of times, no longer than before.
LEMMA RecentType ==
  ASSUME NEW q \in Seq(Time), now \in Time
  PROVE  Recent(q) \in Seq(Time)
  <1> DEFINE old == {i \in 1..Len(q) : q[i] + RATE_WINDOW < now}
  <1>1. Cardinality(old) \in Nat
    <2>1. Len(q) \in Nat
      BY LenProperties
    <2>2. IsFiniteSet(1..Len(q))
      BY <2>1, FS_Interval
    <2>3. IsFiniteSet(old)
      BY <2>2, FS_Subset
    <2> QED
      BY <2>3, FS_CardinalityType
  <1>2. \A i \in (Cardinality(old) + 1)..Len(q) : q[i] \in Time
    BY <1>1, ElementOfSeq, LenProperties
  <1> HIDE DEF old
  <1>3. SubSeq(q, Cardinality(old) + 1, Len(q)) \in Seq(Time)
    BY <1>1, <1>2, SubSeqProperties, LenProperties
  <1> QED
    BY <1>3 DEF Recent, old

\* A sector always has a well-formed flow, present or emplaced.
LEMMA FuelOfType ==
  ASSUME TypeOK, NEW s \in Sectors
  PROVE  FuelOf(s) \in FuelFlow
  <1>1. NewFuel \in FuelFlow
    BY EmptySeq DEF NewFuel, FuelFlow
  <1> QED
    BY <1>1 DEF FuelOf, TypeOK

\* Setting one sector's flow keeps the map of flows well-formed.
LEMMA FuelWithType ==
  ASSUME TypeOK, NEW s \in Sectors, NEW f \in FuelFlow
  PROVE  /\ FuelWith(s, f) \in [DOMAIN FuelWith(s, f) -> FuelFlow]
         /\ DOMAIN FuelWith(s, f) = DOMAIN fuel \cup {s}
         /\ DOMAIN FuelWith(s, f) \subseteq Sectors
         /\ \A x \in DOMAIN fuel \cup {s} :
              FuelWith(s, f)[x] = IF x = s THEN f ELSE fuel[x]
  BY DEF FuelWith, TypeOK

\* tokens_ is finite, so its size and the sizes of its parts are numbers.
LEMMA TokensFinite ==
  ASSUME TypeOK
  PROVE  /\ IsFiniteSet(DOMAIN tokens)
         /\ Cardinality(DOMAIN tokens) \in Nat
         /\ \A K : K \subseteq DOMAIN tokens => IsFiniteSet(K) /\ Cardinality(K) \in Nat
  <1>1. IsFiniteSet(0..(sequence - 1))
    <2>1. 0 \in Int /\ sequence - 1 \in Int
      BY DEF TypeOK
    <2> QED
      BY <2>1, FS_Interval
  <1>2. IsFiniteSet(DOMAIN tokens)
    BY <1>1, FS_Subset DEF TypeOK
  <1> QED
    BY <1>2, FS_Subset, FS_CardinalityType

-----------------------------------------------------------------------------
(* Type correctness.                                                       *)

\* burn_all_tokens leaves well-formed state.
LEMMA WipeAllType ==
  ASSUME NEW toks, NEW flows, DOMAIN flows \subseteq Sectors,
         flows \in [DOMAIN flows -> FuelFlow], sequence' \in Nat, WipeAll(toks, flows)
  PROVE  /\ DOMAIN tokens' \subseteq 0..(sequence - 1)'
         /\ tokens' \in [DOMAIN tokens' -> Token]
         /\ live' \in [Sectors -> Nat]
         /\ DOMAIN fuel' \subseteq Sectors
         /\ fuel' \in [DOMAIN fuel' -> FuelFlow]
         /\ key' \in Keys
  BY EmptyMap DEF WipeAll, FuelFlow, Keys

\* The counters that grow by a number of tokens stay numbers.
LEMMA StatsType ==
  ASSUME stats \in GateStats, NEW n \in Nat
  PROVE  /\ [stats EXCEPT !.expired = @ + n] \in GateStats
         /\ [stats EXCEPT !.wiped = @ + n] \in GateStats
         /\ [stats EXCEPT !.wiped = @ + n, !.burns = @ + 1] \in GateStats
  <1> USE DEF GateStats
  <1>1. [stats EXCEPT !.expired = @ + n] \in GateStats
    OBVIOUS
  <1>2. [stats EXCEPT !.wiped = @ + n] \in GateStats
    OBVIOUS
  <1>3. [stats EXCEPT !.wiped = @ + n, !.burns = @ + 1] \in GateStats
    <2>1. stats.wiped + n \in Nat /\ stats.burns + 1 \in Nat
      OBVIOUS
    <2>2. ASSUME NEW a \in Nat, NEW b \in Nat
          PROVE  [stats EXCEPT !.wiped = a, !.burns = b] \in GateStats
      OBVIOUS
    <2> QED
      BY <2>1, <2>2
  <1> QED
    BY <1>1, <1>2, <1>3

\* trigger_burn's own assignments are well-formed.
LEMMA BurnStats ==
  ASSUME TypeOK, NEW toks, NEW flows, Cardinality(DOMAIN toks) \in Nat, Burn(toks, flows)
  PROVE  burning' \in BOOLEAN /\ stats' \in GateStats
  <1>1. stats \in GateStats
    BY DEF TypeOK
  <1> DEFINE n == Cardinality(DOMAIN toks)
  <1>2. stats' = [stats EXCEPT !.wiped = @ + n, !.burns = @ + 1] /\ n \in Nat
    BY DEF Burn
  <1> HIDE DEF n
  <1>3. stats' \in GateStats
    BY <1>1, <1>2, StatsType
  <1> QED
    BY <1>3 DEF Burn

\* reject keeps the state well-formed, whether or not it burns.
LEMMA RejectType ==
  ASSUME TypeOK, NEW s \in Sectors, NEW f \in FuelFlow,
         NEW toks \in [DOMAIN tokens -> Token], sequence' = sequence, Reject(s, f, toks)
  PROVE  /\ DOMAIN tokens' \subseteq 0..(sequence - 1)'
         /\ tokens' \in [DOMAIN tokens' -> Token]
         /\ live' \in [Sectors -> Nat]
         /\ DOMAIN fuel' \subseteq Sectors
         /\ fuel' \in [DOMAIN fuel' -> FuelFlow]
         /\ key' \in Keys
         /\ burning' \in BOOLEAN
         /\ stats' \in GateStats
  <1> DEFINE struck == [f EXCEPT !.strikes = @ + 1]
  <1>1. struck \in FuelFlow
    BY DEF FuelFlow
  <1>2. /\ DOMAIN FuelWith(s, struck) \subseteq Sectors
        /\ FuelWith(s, struck) \in [DOMAIN FuelWith(s, struck) -> FuelFlow]
    BY <1>1, FuelWithType
  <1>3. sequence' \in Nat
    BY DEF TypeOK
  <1>4. CASE LastStrike(struck.strikes)
    <2>1. Burn(toks, FuelWith(s, struck))
      BY <1>4 DEF Reject
    <2>2. Cardinality(DOMAIN toks) \in Nat
      BY TokensFinite
    <2>3. burning' \in BOOLEAN /\ stats' \in GateStats
      BY <2>1, <2>2, BurnStats
    <2> HIDE DEF struck
    <2> QED
      BY <1>2, <1>3, <2>1, <2>3, WipeAllType DEF Burn
  <1>5. CASE ~LastStrike(struck.strikes)
    <2>1. /\ tokens' = toks /\ fuel' = FuelWith(s, struck)
          /\ UNCHANGED <<live, key, burning, stats>>
      BY <1>5 DEF Reject
    <2> HIDE DEF struck
    <2> QED
      BY <1>2, <2>1 DEF TypeOK
  <1> QED
    BY <1>4, <1>5

\* Decrementing live_count_ for the tokens in K keeps it a count.
LEMMA LiveWithoutType ==
  ASSUME TypeOK, NEW K, K \subseteq DOMAIN tokens
  PROVE  LiveWithout(K) \in [Sectors -> Nat]
  <1>1. ASSUME NEW z \in Sectors
        PROVE  Decremented(live[z], Cardinality({k \in K : tokens[k].sector = z})) \in Nat
    <2> DEFINE n == Cardinality({k \in K : tokens[k].sector = z})
    <2>1. n \in Nat
      <3>1. {k \in K : tokens[k].sector = z} \subseteq DOMAIN tokens
        OBVIOUS
      <3> QED
        BY <3>1, TokensFinite
    <2>2. live[z] \in Nat
      BY DEF TypeOK
    <2> HIDE DEF n
    <2>3. Decremented(live[z], n) \in Nat
      BY <2>1, <2>2 DEF Decremented
    <2> QED
      BY <2>3 DEF n
  <1> QED
    BY <1>1 DEF LiveWithout

\* The initial state is well typed.
LEMMA InitType == Init => TypeOK
  <1> SUFFICES ASSUME Init PROVE TypeOK
    OBVIOUS
  <1>1. now \in Time /\ call \in Call \cup {NoCall}
    BY GateAssumption DEF Init, Time
  <1>2. DOMAIN tokens \subseteq 0..(sequence - 1) /\ tokens \in [DOMAIN tokens -> Token]
    BY EmptyMap DEF Init
  <1>3. DOMAIN fuel \subseteq Sectors /\ fuel \in [DOMAIN fuel -> FuelFlow]
    BY EmptyMap DEF Init
  <1>4. stats \in GateStats /\ key \in Keys /\ burning \in BOOLEAN /\ sequence \in Nat
        /\ wiping \in Nat
    BY DEF Init, GateStats, Keys
  <1>5. /\ live \in [Sectors -> Nat] /\ seen \in [Sectors -> SUBSET Nat]
        /\ spent \subseteq Nat \X Sectors
    BY DEF Init
  <1> QED
    BY <1>1, <1>2, <1>3, <1>4, <1>5 DEF TypeOK

\* Every step of the gate keeps every variable's type.
LEMMA NextType == TypeOK /\ [Next]_vars => TypeOK'
  <1> SUFFICES ASSUME TypeOK, [Next]_vars PROVE TypeOK'
    OBVIOUS
  <1> DEFINE s == call.sector
  <1>0. call # NoCall => /\ s \in Sectors /\ call.token \in Nat
                         /\ FuelOf(s) \in FuelFlow
    BY FuelOfType DEF TypeOK, Call
  <1>1. ASSUME NEW z \in Sectors, CallBirth(z) PROVE TypeOK'
    BY <1>1 DEF CallBirth, TypeOK, Call
  <1>2. ASSUME NEW z \in Sectors, NEW k \in 0..sequence, CallAdmit(z, k) PROVE TypeOK'
    BY <1>2 DEF CallAdmit, TypeOK, Call
  <1>3. CASE RefuseBurned
    BY <1>0, <1>3, RejectType DEF RefuseBurned, Return, TypeOK
  <1>4. CASE RefuseRate
    <2> DEFINE f == [FuelOf(s) EXCEPT !.requests = Recent(@)]
    <2>1. f \in FuelFlow
      BY <1>0, <1>4, RecentType DEF RefuseRate, FuelFlow, TypeOK
    <2>2. Reject(s, f, tokens) /\ sequence' = sequence
      BY <1>4 DEF RefuseRate
    <2> HIDE DEF f
    <2> QED
      BY <1>0, <1>4, <2>1, <2>2, RejectType DEF RefuseRate, Return, TypeOK
  <1>5. CASE Sweep
    <2> DEFINE f == [FuelOf(s) EXCEPT !.requests = Append(Recent(@), now)]
    <2>1. f \in FuelFlow
      BY <1>0, <1>5, RecentType, AppendProperties DEF Sweep, FuelFlow, TypeOK
    <2>2. fuel' = FuelWith(s, f)
      BY <1>5 DEF Sweep
    <2>3. DOMAIN fuel' \subseteq Sectors /\ fuel' \in [DOMAIN fuel' -> FuelFlow]
      <3>1. s \in Sectors
        BY <1>0, <1>5 DEF Sweep
      <3> HIDE DEF f, s
      <3> QED
        BY <2>1, <2>2, <3>1, FuelWithType
    <2>4. stats' \in GateStats
      <3>1. Cardinality(Stale) \in Nat
        BY TokensFinite DEF Stale
      <3> QED
        BY <1>5, <3>1, StatsType DEF Sweep, TypeOK
    <2>5. live' \in [Sectors -> Nat]
      BY <1>5, LiveWithoutType DEF Sweep, Stale
    <2>6. /\ DOMAIN tokens' \subseteq 0..(sequence - 1)'
          /\ tokens' \in [DOMAIN tokens' -> Token]
      BY <1>5 DEF Sweep, Restrict, TypeOK
    <2>7. call' \in Call \cup {NoCall}
      BY <1>5 DEF Sweep, TypeOK, Call
    <2> QED
      BY <1>5, <2>3, <2>4, <2>5, <2>6, <2>7 DEF Sweep, TypeOK
  <1>6. CASE BirthRefused
    BY <1>0, <1>6, RejectType DEF BirthRefused, Running, Return, TypeOK
  <1>7. CASE BirthIssued
    <2>1. /\ DOMAIN tokens' \subseteq 0..(sequence - 1)'
          /\ tokens' \in [DOMAIN tokens' -> Token]
          /\ sequence' \in Nat
      BY <1>0, <1>7 DEF BirthIssued, Running, NextSequence, Token, TypeOK
    <2>2. live' \in [Sectors -> Nat] /\ stats' \in GateStats
      BY <1>0, <1>7 DEF BirthIssued, Running, TypeOK, GateStats
    <2> QED
      BY <1>7, <2>1, <2>2 DEF BirthIssued, Return, TypeOK
  <1>8. CASE AdmitRefused
    BY <1>0, <1>8, RejectType DEF AdmitRefused, Running, Return, TypeOK
  <1>9. CASE AdmitExpired
    <2> DEFINE toks == [tokens EXCEPT ![call.token].status = "EXPIRED"]
    <2>1. toks \in [DOMAIN tokens -> Token]
      BY <1>9 DEF AdmitExpired, Found, Token, TypeOK
    <2>2. Reject(s, FuelOf(s), toks) /\ sequence' = sequence
      BY <1>9 DEF AdmitExpired
    <2> HIDE DEF toks
    <2> QED
      BY <1>0, <1>9, <2>1, <2>2, RejectType DEF AdmitExpired, Running, Return, TypeOK
  <1>10. CASE Admitted
    <2> DEFINE f == [FuelOf(s) EXCEPT !.strikes = 0]
    <2>1. f \in FuelFlow
      BY <1>0, <1>10 DEF Admitted, Running, FuelFlow
    <2>2. fuel' = FuelWith(s, f)
      BY <1>10 DEF Admitted
    <2>3. DOMAIN fuel' \subseteq Sectors /\ fuel' \in [DOMAIN fuel' -> FuelFlow]
      <3>1. s \in Sectors
        BY <1>0, <1>10 DEF Admitted, Running
      <3> HIDE DEF f, s
      <3> QED
        BY <2>1, <2>2, <3>1, FuelWithType
    <2>4. stats' \in GateStats
      BY <1>10 DEF Admitted, TypeOK, GateStats
    <2>5. live' \in [Sectors -> Nat]
      BY <1>10, LiveWithoutType DEF Admitted, Found
    <2>6. /\ DOMAIN tokens' \subseteq 0..(sequence - 1)'
          /\ tokens' \in [DOMAIN tokens' -> Token]
      BY <1>10 DEF Admitted, Restrict, TypeOK
    <2>7. /\ seen' \in [Sectors -> SUBSET Nat] /\ spent' \subseteq Nat \X Sectors
      BY <1>0, <1>10 DEF Admitted, Running, TypeOK
    <2> QED
      BY <1>10, <2>3, <2>4, <2>5, <2>6, <2>7 DEF Admitted, Return, TypeOK
  <1>11. ASSUME NEW z \in Sectors, RemoveSession(z) PROVE TypeOK'
    BY <1>11 DEF RemoveSession, Restrict, TypeOK
  <1>12. CASE Destroy
    <2>1. <<>> \in [DOMAIN <<>> -> FuelFlow] /\ DOMAIN <<>> \subseteq Sectors
      BY EmptyMap
    <2>2. stats' \in GateStats
      <3>1. Cardinality(DOMAIN tokens) \in Nat
        BY TokensFinite
      <3> QED
        BY <1>12, <3>1, StatsType DEF Destroy, TypeOK
    <2> QED
      BY <1>12, <2>1, <2>2, WipeAllType DEF Destroy, TypeOK
  <1>13. CASE TriggerBurn
    BY <1>13 DEF TriggerBurn, TypeOK
  <1>14. CASE FinishBurn
    <2>1. burning' \in BOOLEAN /\ stats' \in GateStats
      BY <1>14, TokensFinite, BurnStats DEF FinishBurn
    <2>2. wiping' \in Nat
      BY <1>14 DEF FinishBurn, TypeOK
    <2> QED
      BY <1>14, <2>1, <2>2, WipeAllType DEF FinishBurn, Burn, TypeOK
  <1>15. CASE Tick
    BY <1>15, GateAssumption DEF Tick, TypeOK, Time
  <1>16. CASE UNCHANGED vars
    BY <1>16 DEF vars, TypeOK
  <1> QED
    BY <1>1, <1>2, <1>3, <1>4, <1>5, <1>6, <1>7, <1>8, <1>9, <1>10, <1>11, <1>12,
       <1>13, <1>14, <1>15, <1>16 DEF Next

\* Every reachable state is well-formed; in particular the map never shows a token whose
\* sequence was not drawn, and no flow exists for an unknown sector.
THEOREM TypeInvariant == Spec => []TypeOK
  <1>1. Init => TypeOK
    BY InitType
  <1>2. TypeOK /\ [Next]_vars => TypeOK'
    BY NextType
  <1> QED
    BY <1>1, <1>2, PTL DEF Spec

-----------------------------------------------------------------------------
(* Accounting: five kinds of step, as the map and its counters see them.   *)

Counters(st) == <<st.born, st.admitted, st.expired, st.wiped>>

\* no entry appears or goes; one may be marked
Kept ==
  /\ DOMAIN tokens' = DOMAIN tokens
  /\ \A k \in DOMAIN tokens : tokens'[k].sector = tokens[k].sector
  /\ live' = live
  /\ Counters(stats') = Counters(stats)

Wiped ==
  /\ DOMAIN tokens' = {} /\ key' = "zero"
  /\ live' = [s \in Sectors |-> 0]
  /\ stats'.wiped = stats.wiped + Cardinality(DOMAIN tokens)
  /\ stats'.born = stats.born /\ stats'.admitted = stats.admitted
  /\ stats'.expired = stats.expired

\* reject only strikes, or wipes everything.
LEMMA RejectShape ==
  ASSUME TypeOK, NEW s, NEW f, NEW toks, DOMAIN toks = DOMAIN tokens,
         \A k \in DOMAIN tokens : toks[k].sector = tokens[k].sector,
         Reject(s, f, toks)
  PROVE  Kept \/ Wiped
  <1> DEFINE struck == [f EXCEPT !.strikes = @ + 1]
  <1>1. CASE LastStrike(struck.strikes)
    <2>1. Burn(toks, FuelWith(s, struck))
      BY <1>1 DEF Reject
    <2> HIDE DEF struck
    <2>2. DOMAIN tokens' = {} /\ key' = "zero" /\ live' = [z \in Sectors |-> 0]
      BY <2>1, EmptyMap DEF Burn, WipeAll
    <2>3. stats \in GateStats
      BY DEF TypeOK
    <2> QED
      BY <2>1, <2>2, <2>3 DEF Burn, Wiped, GateStats
  <1>2. CASE ~LastStrike(struck.strikes)
    BY <1>2 DEF Reject, Kept
  <1> QED
    BY <1>1, <1>2

\* Any step keeps the entries, wipes them all, or is one of the three that move one kind.
LEMMA StepShape ==
  ASSUME TypeOK, [Next]_vars
  PROVE  Kept \/ Wiped \/ Sweep \/ BirthIssued \/ Admitted
  <1>1. CASE \/ \E s \in Sectors : CallBirth(s) \/ RemoveSession(s)
             \/ \E s \in Sectors : \E k \in 0..sequence : CallAdmit(s, k)
             \/ TriggerBurn \/ Tick \/ UNCHANGED vars
    BY <1>1 DEF CallBirth, CallAdmit, RemoveSession, TriggerBurn, Tick, vars, Kept
  <1>2. CASE RefuseBurned
    BY <1>2, RejectShape DEF RefuseBurned
  <1>3. CASE RefuseRate
    BY <1>3, RejectShape DEF RefuseRate
  <1>4. CASE BirthRefused
    BY <1>4, RejectShape DEF BirthRefused
  <1>5. CASE AdmitRefused
    BY <1>5, RejectShape DEF AdmitRefused
  <1>6. CASE AdmitExpired
    <2> DEFINE toks == [tokens EXCEPT ![call.token].status = "EXPIRED"]
    <2>1. DOMAIN toks = DOMAIN tokens
      OBVIOUS
    <2>2. \A k \in DOMAIN tokens : toks[k].sector = tokens[k].sector
      BY <1>6 DEF AdmitExpired, Found, TypeOK, Token
    <2>3. Reject(call.sector, FuelOf(call.sector), toks)
      BY <1>6 DEF AdmitExpired
    <2> HIDE DEF toks
    <2> QED
      BY <2>1, <2>2, <2>3, RejectShape
  <1>7. CASE Destroy
    <2>1. stats \in GateStats
      BY DEF TypeOK
    <2> QED
      BY <1>7, <2>1, EmptyMap DEF Destroy, WipeAll, Wiped, GateStats
  <1>8. CASE FinishBurn
    <2>1. stats \in GateStats
      BY DEF TypeOK
    <2> QED
      BY <1>8, <2>1, EmptyMap DEF FinishBurn, Burn, WipeAll, Wiped, GateStats
  <1> QED
    BY <1>1, <1>2, <1>3, <1>4, <1>5, <1>6, <1>7, <1>8 DEF Next

\* Erasing the entries in K, with one decrement for each, keeps counter and map together.
LEMMA Removal ==
  ASSUME TypeOK, LiveCountLaw, CapacityLaw, NEW K, K \subseteq DOMAIN tokens,
         tokens' = Restrict(tokens, DOMAIN tokens \ K), live' = LiveWithout(K)
  PROVE  /\ Cardinality(K) \in Nat
         /\ Cardinality(DOMAIN tokens') = Cardinality(DOMAIN tokens) - Cardinality(K)
         /\ LiveCountLaw' /\ CapacityLaw'
  <1>1. DOMAIN tokens' = DOMAIN tokens \ K
    BY DEF Restrict
  <1>2. /\ Cardinality(K) \in Nat
        /\ Cardinality(DOMAIN tokens') = Cardinality(DOMAIN tokens) - Cardinality(K)
    <2>1. DOMAIN tokens \cap K = K
      OBVIOUS
    <2> QED
      BY <1>1, <2>1, TokensFinite, FS_Difference
  <1>3. ASSUME NEW s \in Sectors
        PROVE  live'[s] = Cardinality(TokensOf(s)') /\ live'[s] <= live[s]
    <2> DEFINE gone == {k \in K : tokens[k].sector = s}
    <2>1. TokensOf(s)' = TokensOf(s) \ gone
      BY <1>1 DEF TokensOf, Restrict
    <2>2. TokensOf(s) \subseteq DOMAIN tokens /\ gone \subseteq TokensOf(s)
          /\ TokensOf(s) \cap gone = gone
      BY DEF TokensOf
    <2>3. /\ IsFiniteSet(TokensOf(s)) /\ Cardinality(TokensOf(s)) \in Nat
          /\ Cardinality(gone) \in Nat
      BY <2>2, TokensFinite
    <2>4. /\ Cardinality(TokensOf(s) \ gone) = Cardinality(TokensOf(s)) - Cardinality(gone)
          /\ Cardinality(gone) <= Cardinality(TokensOf(s))
      <3> HIDE DEF gone
      <3>1. gone \in SUBSET TokensOf(s)
        BY <2>2
      <3>2. Cardinality(gone) <= Cardinality(TokensOf(s))
        BY <2>3, <3>1, FS_Subset
      <3>3. Cardinality(TokensOf(s) \ gone) = Cardinality(TokensOf(s)) - Cardinality(gone)
        BY <2>2, <2>3, FS_Difference
      <3> QED
        BY <3>2, <3>3
    <2>5. live[s] = Cardinality(TokensOf(s))
      BY DEF LiveCountLaw
    <2>6. live'[s] = Decremented(live[s], Cardinality(gone))
      BY DEF LiveWithout
    <2> HIDE DEF gone
    <2>7. live'[s] = live[s] - Cardinality(gone)
      BY <2>3, <2>4, <2>5, <2>6 DEF Decremented
    <2> QED
      BY <2>1, <2>3, <2>4, <2>5, <2>7
  <1>4. LiveCountLaw'
    BY <1>3 DEF LiveCountLaw
  <1>5. CapacityLaw'
    <2> SUFFICES ASSUME NEW s \in Sectors
                 PROVE  Cardinality(TokensOf(s)') <= MAX_TOKENS_PER_SECTOR
      BY DEF CapacityLaw
    <2>1. /\ Cardinality(TokensOf(s)) <= MAX_TOKENS_PER_SECTOR
          /\ live[s] = Cardinality(TokensOf(s))
      BY DEF CapacityLaw, LiveCountLaw
    <2>2. live[s] \in Nat /\ live'[s] \in Nat
      BY LiveWithoutType DEF TypeOK
    <2> QED
      BY <1>3, <2>1, <2>2, GateAssumption
  <1> QED
    BY <1>2, <1>4, <1>5

\* Inserting a token drawn from sequence_, with one increment, after the capacity test.
LEMMA Insertion ==
  ASSUME TypeOK, LiveCountLaw, CapacityLaw, BirthIssued
  PROVE  /\ Cardinality(DOMAIN tokens') = Cardinality(DOMAIN tokens) + 1
         /\ LiveCountLaw' /\ CapacityLaw'
  <1> DEFINE s0 == call.sector
  <1>1. s0 \in Sectors /\ live[s0] < MAX_TOKENS_PER_SECTOR
    BY DEF BirthIssued, Running, HasRoom, TypeOK, Call
  <1>2. sequence \notin DOMAIN tokens
    BY DEF TypeOK
  <1>3. DOMAIN tokens' = DOMAIN tokens \cup {sequence}
    BY DEF BirthIssued
  <1>4. Cardinality(DOMAIN tokens') = Cardinality(DOMAIN tokens) + 1
    BY <1>2, <1>3, TokensFinite, FS_AddElement
  <1>5. live' = [live EXCEPT ![s0] = @ + 1]
    BY DEF BirthIssued
  <1>6. \A k \in DOMAIN tokens' :
          tokens'[k].sector = IF k = sequence THEN s0 ELSE tokens[k].sector
    BY <1>3 DEF BirthIssued
  <1> HIDE DEF s0
  <1>7. ASSUME NEW s \in Sectors
        PROVE  /\ live'[s] = Cardinality(TokensOf(s)')
               /\ live'[s] <= MAX_TOKENS_PER_SECTOR
    <2>1. /\ live[s] = Cardinality(TokensOf(s)) /\ live[s] \in Nat
          /\ live[s] <= MAX_TOKENS_PER_SECTOR
      BY DEF LiveCountLaw, CapacityLaw, TypeOK
    <2>2. IsFiniteSet(TokensOf(s))
      <3>1. TokensOf(s) \subseteq DOMAIN tokens
        BY DEF TokensOf
      <3> QED
        BY <3>1, TokensFinite
    <2>3. CASE s = s0
      <3>1. TokensOf(s)' = TokensOf(s) \cup {sequence}
        BY <1>2, <1>3, <1>6, <2>3 DEF TokensOf
      <3>2. Cardinality(TokensOf(s)') = Cardinality(TokensOf(s)) + 1
        <4>1. sequence \notin TokensOf(s)
          BY <1>2 DEF TokensOf
        <4> QED
          BY <2>2, <3>1, <4>1, FS_AddElement
      <3>3. live'[s] = live[s] + 1
        BY <1>5, <2>3 DEF TypeOK
      <3> QED
        BY <1>1, <2>1, <2>3, <3>2, <3>3, GateAssumption
    <2>4. CASE s # s0
      <3>1. TokensOf(s)' = TokensOf(s)
        BY <1>2, <1>3, <1>6, <2>4 DEF TokensOf
      <3>2. live'[s] = live[s]
        BY <1>5, <2>4 DEF TypeOK
      <3> QED
        BY <2>1, <3>1, <3>2
    <2> QED
      BY <2>3, <2>4
  <1>8. LiveCountLaw'
    BY <1>7 DEF LiveCountLaw
  <1>9. CapacityLaw'
    BY <1>7 DEF CapacityLaw
  <1> QED
    BY <1>4, <1>8, <1>9

\* Every step keeps the three accounting laws.
LEMMA AccountsStep ==
  ASSUME TypeOK, [Next]_vars, Conservation, LiveCountLaw, CapacityLaw
  PROVE  Conservation' /\ LiveCountLaw' /\ CapacityLaw'
  <1>0. /\ Cardinality(DOMAIN tokens) \in Nat
        /\ stats.born \in Nat /\ stats.admitted \in Nat
        /\ stats.expired \in Nat /\ stats.wiped \in Nat
    BY TokensFinite DEF TypeOK, GateStats
  <1>1. CASE Kept
    <2>1. \A s \in Sectors : TokensOf(s)' = TokensOf(s)
      BY <1>1 DEF Kept, TokensOf
    <2>2. /\ stats'.born = stats.born /\ stats'.admitted = stats.admitted
          /\ stats'.expired = stats.expired /\ stats'.wiped = stats.wiped
      BY <1>1 DEF Kept, Counters
    <2> QED
      BY <1>1, <2>1, <2>2 DEF Kept, Conservation, LiveCountLaw, CapacityLaw
  <1>2. CASE Wiped
    <2>1. \A s \in Sectors : TokensOf(s)' = {}
      BY <1>2 DEF Wiped, TokensOf
    <2>2. Cardinality(DOMAIN tokens') = 0 /\ \A s \in Sectors : Cardinality(TokensOf(s)') = 0
      BY <1>2, <2>1, FS_EmptySet DEF Wiped
    <2>3. Conservation'
      BY <1>0, <1>2, <2>2 DEF Wiped, Conservation
    <2>4. LiveCountLaw' /\ CapacityLaw'
      BY <1>2, <2>2, GateAssumption DEF Wiped, LiveCountLaw, CapacityLaw
    <2> QED
      BY <2>3, <2>4
  <1>3. CASE Sweep
    <2>1. /\ Stale \subseteq DOMAIN tokens
          /\ tokens' = Restrict(tokens, DOMAIN tokens \ Stale)
          /\ live' = LiveWithout(Stale)
          /\ stats' = [stats EXCEPT !.expired = @ + Cardinality(Stale)]
      BY <1>3 DEF Sweep, Stale
    <2>2. stats'.expired = stats.expired + Cardinality(Stale)
          /\ stats'.born = stats.born /\ stats'.admitted = stats.admitted
          /\ stats'.wiped = stats.wiped
      BY <2>1 DEF TypeOK, GateStats
    <2>3. /\ Cardinality(Stale) \in Nat
          /\ Cardinality(DOMAIN tokens') = Cardinality(DOMAIN tokens) - Cardinality(Stale)
          /\ LiveCountLaw' /\ CapacityLaw'
      BY <2>1, Removal
    <2>4. Conservation'
      BY <1>0, <2>2, <2>3 DEF Conservation
    <2> QED
      BY <2>3, <2>4
  <1>4. CASE BirthIssued
    <2>1. /\ stats'.born = stats.born + 1 /\ stats'.admitted = stats.admitted
          /\ stats'.expired = stats.expired /\ stats'.wiped = stats.wiped
      BY <1>4 DEF BirthIssued, TypeOK, GateStats
    <2>2. /\ Cardinality(DOMAIN tokens') = Cardinality(DOMAIN tokens) + 1
          /\ LiveCountLaw' /\ CapacityLaw'
      BY <1>4, Insertion
    <2>3. Conservation'
      BY <1>0, <2>1, <2>2 DEF Conservation
    <2> QED
      BY <2>2, <2>3
  <1>5. CASE Admitted
    <2>1. /\ {call.token} \subseteq DOMAIN tokens
          /\ tokens' = Restrict(tokens, DOMAIN tokens \ {call.token})
          /\ live' = LiveWithout({call.token})
          /\ stats' = [stats EXCEPT !.admitted = @ + 1]
      BY <1>5 DEF Admitted, Found
    <2>2. /\ stats'.admitted = stats.admitted + 1 /\ stats'.born = stats.born
          /\ stats'.expired = stats.expired /\ stats'.wiped = stats.wiped
      BY <2>1 DEF TypeOK, GateStats
    <2>3. /\ Cardinality(DOMAIN tokens') = Cardinality(DOMAIN tokens) - 1
          /\ LiveCountLaw' /\ CapacityLaw'
      BY <2>1, Removal, FS_Singleton
    <2>4. Conservation'
      BY <1>0, <2>2, <2>3 DEF Conservation
    <2> QED
      BY <2>3, <2>4
  <1> QED
    BY <1>1, <1>2, <1>3, <1>4, <1>5, StepShape

\* The accounting laws hold of the empty gate.
LEMMA AccountsInit == Init => Conservation /\ LiveCountLaw /\ CapacityLaw
  <1> SUFFICES ASSUME Init PROVE Conservation /\ LiveCountLaw /\ CapacityLaw
    OBVIOUS
  <1>1. DOMAIN tokens = {}
    BY EmptyMap DEF Init
  <1>2. \A s \in Sectors : TokensOf(s) = {}
    BY <1>1 DEF TokensOf
  <1>3. stats = [born |-> 0, admitted |-> 0, expired |-> 0, wiped |-> 0, burns |-> 0]
        /\ live = [s \in Sectors |-> 0]
    BY DEF Init
  <1>4. Conservation
    BY <1>1, <1>3, FS_EmptySet DEF Conservation
  <1> QED
    BY <1>2, <1>3, <1>4, FS_EmptySet, GateAssumption DEF LiveCountLaw, CapacityLaw

\* The accounting of tokens is exact in every reachable state, with or without external
\* burns: none is lost or counted twice, the capacity counter equals the entries it
\* stands for, and no sector's entries exceed its capacity.
THEOREM Accounting == Spec => [](Conservation /\ LiveCountLaw /\ CapacityLaw)
  <1>1. Init => Conservation /\ LiveCountLaw /\ CapacityLaw
    BY AccountsInit
  <1>2. TypeOK /\ [Next]_vars /\ (Conservation /\ LiveCountLaw /\ CapacityLaw)
          => (Conservation /\ LiveCountLaw /\ CapacityLaw)'
    BY AccountsStep
  <1> QED
    BY <1>1, <1>2, TypeInvariant, PTL DEF Spec

\* The counter that birth_token tests never drifts from the map it stands for, and the
\* capacity holds of the map itself.
THEOREM SlotsCounted == Spec => []SlotLaw
  <1>1. (Conservation /\ LiveCountLaw /\ CapacityLaw) => SlotLaw
    BY DEF SlotLaw
  <1> QED
    BY <1>1, Accounting, PTL

\* However steps interleave, a token that admit marked EXPIRED leaves the map only with a
\* burn or destroy that wipes the whole map.
THEOREM MarkedHoldsSlot == Spec => ExpiredHoldsSlot
  <1>1. ASSUME TypeOK, [Next]_vars, NEW k \in DOMAIN tokens, tokens[k].status = "EXPIRED"
        PROVE  \/ k \in DOMAIN tokens'
               \/ /\ key' = "zero" /\ DOMAIN tokens' = {}
                  /\ stats'.wiped = stats.wiped + Cardinality(DOMAIN tokens)
    <2>1. CASE Kept \/ Wiped
      BY <2>1 DEF Kept, Wiped
    <2>2. CASE Sweep
      BY <1>1, <2>2 DEF Sweep, Restrict, Stale
    <2>3. CASE BirthIssued
      BY <2>3 DEF BirthIssued
    <2>4. CASE Admitted
      BY <1>1, <2>4 DEF Admitted, Restrict, IsLive
    <2> QED
      BY <1>1, <2>1, <2>2, <2>3, <2>4, StepShape
  <1>2. TypeOK /\ [Next]_vars =>
          [\A k \in DOMAIN tokens :
             tokens[k].status = "EXPIRED" =>
               \/ k \in DOMAIN tokens'
               \/ /\ key' = "zero" /\ DOMAIN tokens' = {}
                  /\ stats'.wiped = stats.wiped + Cardinality(DOMAIN tokens)]_vars
    BY <1>1
  <1> QED
    BY <1>2, TypeInvariant, PTL DEF Spec, ExpiredHoldsSlot

-----------------------------------------------------------------------------
(* Strikes, burns and authenticity.                                        *)

\* A marked copy of tokens_: same entries, some LIVE ones now EXPIRED.
MarkedCopy(toks) ==
  /\ toks \in [DOMAIN tokens -> Token]
  /\ \A k \in DOMAIN tokens :
       /\ toks[k].sector = tokens[k].sector /\ toks[k].born = tokens[k].born
       /\ toks[k].key = tokens[k].key
       /\ toks[k].status = "LIVE" => tokens[k].status = "LIVE"

\* An operation ends in reject.
Rejection ==
  /\ call # NoCall /\ call' = NoCall
  /\ UNCHANGED <<now, seen, sequence, wiping, spent>>
  /\ \E f \in FuelFlow, toks \in [DOMAIN tokens -> Token] :
       /\ MarkedCopy(toks) /\ f.burned = FuelOf(call.sector).burned
       /\ Reject(call.sector, f, toks)

\* Every way an operation is refused is a Rejection.
LEMMA Rejections ==
  ASSUME TypeOK,
         RefuseBurned \/ RefuseRate \/ BirthRefused \/ AdmitRefused \/ AdmitExpired
  PROVE  Rejection
  <1>1. call # NoCall /\ call' = NoCall /\ UNCHANGED <<now, seen, sequence, wiping, spent>>
    BY DEF RefuseBurned, RefuseRate, BirthRefused, AdmitRefused, AdmitExpired,
           Running, Return
  <1>2. FuelOf(call.sector) \in FuelFlow
    BY <1>1, FuelOfType DEF TypeOK, Call
  <1>3. tokens \in [DOMAIN tokens -> Token] /\ MarkedCopy(tokens)
    BY DEF TypeOK, MarkedCopy
  <1>4. CASE Reject(call.sector, FuelOf(call.sector), tokens)
    BY <1>1, <1>2, <1>3, <1>4 DEF Rejection
  <1>5. CASE RefuseRate
    <2> DEFINE f == [FuelOf(call.sector) EXCEPT !.requests = Recent(@)]
    <2>1. f \in FuelFlow /\ f.burned = FuelOf(call.sector).burned
      BY <1>2, RecentType DEF FuelFlow, TypeOK
    <2>2. Reject(call.sector, f, tokens)
      BY <1>5 DEF RefuseRate
    <2> HIDE DEF f
    <2> QED
      BY <1>1, <1>3, <2>1, <2>2 DEF Rejection
  <1>6. CASE AdmitExpired
    <2> DEFINE toks == [tokens EXCEPT ![call.token].status = "EXPIRED"]
    <2>1. toks \in [DOMAIN tokens -> Token] /\ MarkedCopy(toks)
      BY <1>3, <1>6 DEF AdmitExpired, Found, Token, MarkedCopy
    <2>2. Reject(call.sector, FuelOf(call.sector), toks)
      BY <1>6 DEF AdmitExpired
    <2> HIDE DEF toks
    <2> QED
      BY <1>1, <1>2, <2>1, <2>2 DEF Rejection
  <1> QED
    BY <1>4, <1>5, <1>6 DEF RefuseBurned, BirthRefused, AdmitRefused

\* A step that neither rejects, moves a token, nor wipes.
Benign ==
  /\ UNCHANGED <<tokens, live, key, burning, wiping, sequence, stats, spent>>
  /\ now' = now \/ now' = now + 1
  /\ call' = call \/ (Enters /\ call' # NoCall)
  /\ \A s \in Sectors : seen'[s] \subseteq seen[s]
  /\ DOMAIN fuel' \subseteq DOMAIN fuel
  /\ \A s \in DOMAIN fuel' : fuel'[s] = fuel[s]

\* What a step can do, seen from the strikes, the keys and the burn.
LEMMA StepCases ==
  ASSUME TypeOK, [Next]_vars
  PROVE  \/ Benign \/ Rejection \/ Sweep \/ BirthIssued \/ Admitted \/ Destroy
         \/ TriggerBurn \/ FinishBurn
  <1>1. ASSUME NEW s \in Sectors, CallBirth(s) PROVE Benign
    <2>1. call' \in Call
      BY <1>1 DEF CallBirth, Call, TypeOK
    <2> QED
      BY <1>1, <2>1, NoCallAssumption DEF CallBirth, Benign
  <1>2. ASSUME NEW s \in Sectors, NEW k \in 0..sequence, CallAdmit(s, k) PROVE Benign
    <2>1. call' \in Call
      BY <1>2 DEF CallAdmit, Call, TypeOK
    <2> QED
      BY <1>2, <2>1, NoCallAssumption DEF CallAdmit, Benign
  <1>3. ASSUME NEW s \in Sectors, RemoveSession(s) PROVE Benign
    BY <1>3 DEF RemoveSession, Restrict, Benign, TypeOK
  <1>4. CASE Tick \/ UNCHANGED vars
    BY <1>4 DEF Tick, vars, Benign
  <1> QED
    BY <1>1, <1>2, <1>3, <1>4, Rejections DEF Next

\* No step leaves a sector at the burn threshold in an unburned gate.
LEMMA StrikesStep ==
  ASSUME TypeOK, StrikesBelowBurn, [Next]_vars
  PROVE  StrikesBelowBurn'
  <1> SUFFICES ASSUME ~burning', NEW x \in DOMAIN fuel'
               PROVE  fuel'[x].strikes < MAX_STRIKES
    BY DEF StrikesBelowBurn
  <1>1. CASE Benign
    BY <1>1 DEF Benign, StrikesBelowBurn
  <1>2. CASE Rejection
    <2>1. PICK f \in FuelFlow, toks \in [DOMAIN tokens -> Token] :
            Reject(call.sector, f, toks)
      BY <1>2 DEF Rejection
    <2> DEFINE struck == [f EXCEPT !.strikes = @ + 1]
    <2>2. struck.strikes \in Nat
      BY DEF FuelFlow
    <2>3. /\ ~LastStrike(struck.strikes) /\ burning' = burning
          /\ fuel' = FuelWith(call.sector, struck)
      BY <2>1 DEF Reject, Burn
    <2> HIDE DEF struck
    <2> QED
      BY <2>2, <2>3, GateAssumption DEF LastStrike, FuelWith, StrikesBelowBurn
  <1>3. CASE Sweep
    <2> DEFINE f == [FuelOf(call.sector) EXCEPT !.requests = Append(Recent(@), now)]
    <2>1. FuelOf(call.sector) \in FuelFlow
      BY <1>3, FuelOfType DEF Sweep, TypeOK, Call
    <2>2. f.strikes = FuelOf(call.sector).strikes
      BY <2>1 DEF FuelFlow
    <2>3. fuel' = FuelWith(call.sector, f) /\ burning' = burning
      BY <1>3 DEF Sweep
    <2> HIDE DEF f
    <2> QED
      BY <2>2, <2>3, GateAssumption DEF FuelOf, NewFuel, FuelWith, StrikesBelowBurn
  <1>4. CASE BirthIssued
    BY <1>4 DEF BirthIssued, StrikesBelowBurn
  <1>5. CASE Admitted
    <2> DEFINE f == [FuelOf(call.sector) EXCEPT !.strikes = 0]
    <2>1. FuelOf(call.sector) \in FuelFlow
      BY <1>5, FuelOfType DEF Admitted, Running, TypeOK, Call
    <2>2. f.strikes = 0
      BY <2>1 DEF FuelFlow
    <2>3. fuel' = FuelWith(call.sector, f) /\ burning' = burning
      BY <1>5 DEF Admitted
    <2> HIDE DEF f
    <2> QED
      BY <2>2, <2>3, GateAssumption DEF FuelWith, StrikesBelowBurn
  <1>6. CASE Destroy
    BY <1>6, EmptyMap DEF Destroy, WipeAll
  <1>7. CASE TriggerBurn \/ FinishBurn
    BY <1>7 DEF TriggerBurn, FinishBurn, Burn
  <1> QED
    BY <1>1, <1>2, <1>3, <1>4, <1>5, <1>6, <1>7, StepCases

\* No sector reaches MAX_STRIKES in a gate that does not burn.
THEOREM NoMissedBurn == Spec => []StrikesBelowBurn
  <1>1. Init => StrikesBelowBurn
    BY EmptyMap DEF Init, StrikesBelowBurn
  <1>2. TypeOK /\ [Next]_vars /\ StrikesBelowBurn => StrikesBelowBurn'
    BY StrikesStep
  <1> QED
    BY <1>1, <1>2, TypeInvariant, PTL DEF Spec

-----------------------------------------------------------------------------
(* The rate limit: what a flow remembers of its sector's requests.         *)

\* Times in order, none later than t.
InOrder(q, t) == \A i, j \in 1..Len(q) : i <= j => q[i] <= q[j] /\ q[j] <= t

\* r is q without its first entries, all of them older than the window
\* (fuel_flow.cpp 10-12).
Forgot(q, r) ==
  \E n \in 0..Len(q) :
    (\A i \in 1..n : q[i] + RATE_WINDOW < now) /\ r = SubSeq(q, n + 1, Len(q))

\* r is q without old entries, or that with the present time recorded while there is room
\* (predator_gate.cpp 31-35, 76-80).
Recorded(q, r) ==
  \/ Forgot(q, r)
  \/ \E p \in Seq(Time) : Forgot(q, p) /\ Len(p) < MAX_RATE_REQUESTS /\ r = Append(p, now)

\* Every flow remembers its requests in order, and never more than the limit, so that what
\* check_rate_limit counts after its pops is the requests of the window.
RateHeld ==
  \A s \in DOMAIN fuel :
    InOrder(fuel[s].requests, now) /\ Len(fuel[s].requests) <= MAX_RATE_REQUESTS

\* While a flow exists it forgets only requests older than the window, and records one
\* more only if fewer than the limit are left: together with RateHeld, no window holds more
\* requests let through than MAX_RATE_REQUESTS, whatever expires, burns or is refused
\* meanwhile.
RateRemembered ==
  [][\A s \in DOMAIN fuel \cap DOMAIN fuel' :
       Recorded(fuel[s].requests, fuel'[s].requests)]_vars

\* In an ordered queue the old times are the first ones, so popping from the front while the
\* first is old removes them all, and only them.
LEMMA RecentForgets ==
  ASSUME NEW q \in Seq(Time), now \in Time, InOrder(q, now)
  PROVE  /\ Forgot(q, Recent(q))
         /\ \A i \in 1..Len(Recent(q)) : Recent(q)[i] + RATE_WINDOW >= now
  <1> DEFINE old == {i \in 1..Len(q) : q[i] + RATE_WINDOW < now}
             n == Cardinality(old)
  <1>1. Len(q) \in Nat /\ \A i \in 1..Len(q) : q[i] \in Nat
    BY LenProperties, ElementOfSeq, GateAssumption DEF Time
  <1>2. IsFiniteSet(1..Len(q)) /\ Cardinality(1..Len(q)) = Len(q)
    BY <1>1, FS_Interval
  <1>3. old \subseteq 1..Len(q)
    OBVIOUS
  <1>4. IsFiniteSet(old) /\ n \in Nat /\ n <= Len(q)
    BY <1>2, <1>3, FS_Subset, FS_CardinalityType
  <1>5. \A i \in old : 1..i \subseteq old
    BY <1>1, GateAssumption DEF InOrder, Time
  <1>6. \A i \in old : i <= n
    <2> SUFFICES ASSUME NEW i \in old PROVE i <= n
      OBVIOUS
    <2>1. i \in Nat /\ Cardinality(1..i) = i
      BY <1>1, FS_Interval
    <2>2. 1..i \in SUBSET old
      BY <1>5
    <2> HIDE DEF old, n
    <2>3. Cardinality(1..i) <= Cardinality(old)
      BY <1>4, <2>2, FS_Subset
    <2> QED
      BY <2>1, <2>3 DEF n
  <1>7. old = 1..n
    <2>1. old \in SUBSET (1..n)
      BY <1>1, <1>3, <1>4, <1>6
    <2>2. IsFiniteSet(1..n) /\ Cardinality(1..n) = n
      BY <1>4, FS_Interval
    <2> HIDE DEF old
    <2> QED
      BY <2>1, <2>2, FS_Subset
  <1>8. Recent(q) = SubSeq(q, n + 1, Len(q))
    BY DEF Recent
  <1>9. \A i \in (n + 1)..Len(q) : q[i] \in Time
    BY <1>4, ElementOfSeq, LenProperties
  <1>10. \A i \in 1..n : q[i] + RATE_WINDOW < now
    BY <1>7
  <1>11. \A i \in (n + 1)..Len(q) : q[i] + RATE_WINDOW >= now
    <2> SUFFICES ASSUME NEW i \in (n + 1)..Len(q), ~ (q[i] + RATE_WINDOW >= now) PROVE FALSE
      OBVIOUS
    <2>1. i \in 1..Len(q) /\ q[i] \in Nat /\ i > n
      BY <1>1, <1>4
    <2>2. q[i] + RATE_WINDOW < now
      BY <2>1, GateAssumption DEF Time
    <2>3. i \in old
      BY <2>1, <2>2
    <2> QED
      BY <1>6, <2>1, <2>3, <1>4
  <1> HIDE DEF old, n
  <1>12. /\ Len(SubSeq(q, n + 1, Len(q))) = IF n + 1 <= Len(q) THEN Len(q) - n ELSE 0
         /\ \A i \in 1..(Len(q) - n) : SubSeq(q, n + 1, Len(q))[i] = q[n + i]
    BY <1>1, <1>4, <1>9, SubSeqProperties
  <1>13. Forgot(q, Recent(q))
    BY <1>1, <1>4, <1>8, <1>10 DEF Forgot
  <1> QED
    BY <1>1, <1>4, <1>8, <1>11, <1>12, <1>13

\* A queue that forgot some of its first entries is still in order, and no longer.
LEMMA ForgotOrder ==
  ASSUME NEW q \in Seq(Time), now \in Time, InOrder(q, now), NEW r, Forgot(q, r)
  PROVE  r \in Seq(Time) /\ InOrder(r, now) /\ Len(r) <= Len(q)
  <1>1. PICK n \in 0..Len(q) : r = SubSeq(q, n + 1, Len(q))
    BY DEF Forgot
  <1>2. Len(q) \in Nat /\ n \in Nat
    BY LenProperties
  <1>3. \A i \in (n + 1)..Len(q) : q[i] \in Time
    BY <1>2, ElementOfSeq, LenProperties
  <1>4. /\ r \in Seq(Time) /\ Len(r) = IF n + 1 <= Len(q) THEN Len(q) - n ELSE 0
        /\ \A i \in 1..(Len(q) - n) : r[i] = q[n + i]
    BY <1>1, <1>2, <1>3, SubSeqProperties
  <1>5. \A i, j \in 1..Len(r) : i <= j => r[i] <= r[j] /\ r[j] <= now
    BY <1>2, <1>4 DEF InOrder
  <1> QED
    BY <1>2, <1>4, <1>5 DEF InOrder

\* The present time may be recorded after a queue in order.
LEMMA RecordOrder ==
  ASSUME NEW p \in Seq(Time), now \in Time, InOrder(p, now)
  PROVE  /\ Append(p, now) \in Seq(Time) /\ InOrder(Append(p, now), now)
         /\ Len(Append(p, now)) = Len(p) + 1
  <1>1. /\ Len(p) \in Nat /\ Append(p, now) \in Seq(Time) /\ Len(Append(p, now)) = Len(p) + 1
        /\ \A i \in 1..Len(p) : Append(p, now)[i] = p[i]
        /\ Append(p, now)[Len(p) + 1] = now
    BY LenProperties, AppendProperties
  <1>2. now \in Nat
    BY DEF Time
  <1> DEFINE r == Append(p, now)
  <1> HIDE DEF r
  <1>3. \A i \in 1..Len(r) : r[i] = IF i = Len(p) + 1 THEN now ELSE p[i]
    BY <1>1 DEF r
  <1>4. Len(r) = Len(p) + 1
    BY <1>1 DEF r
  <1>5. \A i, j \in 1..Len(r) : i <= j => r[i] <= r[j] /\ r[j] <= now
    BY <1>1, <1>2, <1>3, <1>4 DEF InOrder
  <1> QED
    BY <1>1, <1>5 DEF InOrder, r

\* Forgetting nothing is allowed.
LEMMA ForgotNothing ==
  ASSUME NEW q \in Seq(Time)
  PROVE  Forgot(q, q)
  <1>1. Len(q) \in Nat /\ \A i \in 1..Len(q) : q[i] \in Time
    BY LenProperties, ElementOfSeq
  <1>2. SubSeq(q, 1, Len(q)) = q
    BY <1>1
  <1>3. 0 \in 0..Len(q) /\ \A i \in 1..0 : q[i] + RATE_WINDOW < now
    BY <1>1
  <1> QED
    BY <1>2, <1>3 DEF Forgot

\* A sector's requests are in order, also those of a flow not emplaced yet.
LEMMA FlowInOrder ==
  ASSUME TypeOK, RateHeld, NEW s \in Sectors
  PROVE  /\ FuelOf(s).requests \in Seq(Time) /\ InOrder(FuelOf(s).requests, now)
         /\ Len(FuelOf(s).requests) <= MAX_RATE_REQUESTS
  <1>1. FuelOf(s).requests \in Seq(Time)
    BY FuelOfType DEF FuelFlow
  <1>2. CASE s \in DOMAIN fuel
    BY <1>1, <1>2 DEF FuelOf, RateHeld
  <1>3. CASE s \notin DOMAIN fuel
    <2>1. FuelOf(s).requests = <<>>
      BY <1>3 DEF FuelOf, NewFuel
    <2>2. Len(<<>>) = 0 /\ InOrder(<<>>, now)
      BY DEF InOrder
    <2> QED
      BY <1>1, <2>1, <2>2, GateAssumption
  <1> QED
    BY <1>2, <1>3

\* A rejection leaves the requests its flow came with, and the other flows' alone.
LEMMA RejectRequests ==
  ASSUME TypeOK, NEW z \in Sectors, NEW f \in FuelFlow, NEW toks, Reject(z, f, toks),
         NEW s \in DOMAIN fuel'
  PROVE  /\ s \in DOMAIN fuel \cup {z}
         /\ fuel'[s].requests = IF s = z THEN f.requests ELSE FuelOf(s).requests
  <1> DEFINE struck == [f EXCEPT !.strikes = @ + 1]
  <1>1. struck \in FuelFlow /\ struck.requests = f.requests
    BY DEF FuelFlow
  <1> HIDE DEF struck
  <1>2. /\ FuelWith(z, struck) \in [DOMAIN fuel \cup {z} -> FuelFlow]
        /\ \A x \in DOMAIN fuel \cup {z} :
             FuelWith(z, struck)[x] = IF x = z THEN struck ELSE fuel[x]
    BY <1>1, FuelWithType
  <1>3. \/ fuel' = FuelWith(z, struck)
        \/ fuel' = [x \in DOMAIN FuelWith(z, struck) |->
                      [FuelWith(z, struck)[x] EXCEPT !.burned = TRUE]]
    BY DEF Reject, Burn, WipeAll, struck
  <1>4. s \in DOMAIN fuel \cup {z} /\ fuel'[s].requests = FuelWith(z, struck)[s].requests
    BY <1>2, <1>3 DEF FuelFlow
  <1> QED
    BY <1>1, <1>2, <1>4 DEF FuelOf

\* Every step forgets only what is old and records only while there is room.
LEMMA RequestsStep ==
  ASSUME TypeOK, RateHeld, [Next]_vars, NEW s \in DOMAIN fuel'
  PROVE  s \in Sectors /\ Recorded(FuelOf(s).requests, fuel'[s].requests)
  <1>0. s \in Sectors /\ TypeOK'
    BY NextType DEF TypeOK
  <1> DEFINE q == FuelOf(s).requests
             z == call.sector
  <1>1. q \in Seq(Time) /\ InOrder(q, now) /\ now \in Time
    BY <1>0, FlowInOrder DEF TypeOK
  <1>2. Forgot(q, q) /\ Forgot(q, Recent(q)) /\ Recent(q) \in Seq(Time)
    BY <1>1, ForgotNothing, RecentForgets, RecentType
  <1>3. call # NoCall => z \in Sectors /\ FuelOf(z) \in FuelFlow
    BY FuelOfType DEF TypeOK, Call
  <1> DEFINE r == fuel'[s].requests
             Made == \/ r = q \/ r = Recent(q)
                     \/ r = Append(Recent(q), now) /\ Len(Recent(q)) < MAX_RATE_REQUESTS
  <1>4. Made => Recorded(q, r)
    <2> HIDE DEF q, r
    <2> QED
      BY <1>2 DEF Recorded
  <1>5. ASSUME NEW x \in Sectors, CallBirth(x) \/ RemoveSession(x) PROVE r = q
    BY <1>5 DEF CallBirth, RemoveSession, Restrict, FuelOf
  <1>6. ASSUME NEW x \in Sectors, NEW k \in 0..sequence, CallAdmit(x, k) PROVE r = q
    BY <1>6 DEF CallAdmit, FuelOf
  <1>7. CASE RefuseBurned \/ BirthRefused \/ AdmitRefused \/ AdmitExpired
    <2>1. call # NoCall /\ \E toks : Reject(z, FuelOf(z), toks)
      BY <1>7 DEF RefuseBurned, BirthRefused, AdmitRefused, AdmitExpired, Running
    <2>2. r = IF s = z THEN FuelOf(z).requests ELSE q
      BY <1>3, <2>1, RejectRequests
    <2>3. r = q
      BY <2>2
    <2> QED
      BY <1>0, <1>4, <2>3
  <1>8. CASE RefuseRate
    <2> DEFINE f == [FuelOf(z) EXCEPT !.requests = Recent(@)]
    <2>1. call # NoCall /\ Reject(z, f, tokens)
      BY <1>8 DEF RefuseRate
    <2>2. f \in FuelFlow /\ f.requests = Recent(FuelOf(z).requests)
      BY <1>3, <2>1, RecentType DEF FuelFlow, TypeOK
    <2> HIDE DEF f
    <2>3. r = IF s = z THEN f.requests ELSE q
      BY <1>3, <2>1, <2>2, RejectRequests
    <2>4. Made
      BY <2>2, <2>3
    <2> QED
      BY <1>0, <1>4, <2>4
  <1>9. CASE Sweep
    <2> DEFINE f == [FuelOf(z) EXCEPT !.requests = Append(Recent(@), now)]
    <2>1. /\ call # NoCall /\ fuel' = FuelWith(z, f)
          /\ Len(Recent(FuelOf(z).requests)) < MAX_RATE_REQUESTS
      BY <1>9 DEF Sweep
    <2>2. f.requests = Append(Recent(FuelOf(z).requests), now)
      BY <1>3, <2>1 DEF FuelFlow
    <2> HIDE DEF f
    <2>3. r = IF s = z THEN f.requests ELSE q
      BY <2>1 DEF FuelWith, FuelOf
    <2>4. Made
      BY <2>1, <2>2, <2>3
    <2> QED
      BY <1>0, <1>4, <2>4
  <1>10. CASE Admitted
    <2> DEFINE f == [FuelOf(z) EXCEPT !.strikes = 0]
    <2>1. call # NoCall /\ fuel' = FuelWith(z, f)
      BY <1>10 DEF Admitted, Running
    <2>2. f.requests = FuelOf(z).requests
      BY <1>3, <2>1 DEF FuelFlow
    <2> HIDE DEF f
    <2>3. r = q
      BY <2>1, <2>2 DEF FuelWith, FuelOf
    <2> QED
      BY <1>0, <1>4, <2>3
  <1>11. CASE Destroy
    BY <1>11, EmptyMap DEF Destroy, WipeAll
  <1>12. CASE FinishBurn
    <2>1. fuel' = [x \in DOMAIN fuel |-> [fuel[x] EXCEPT !.burned = TRUE]]
      BY <1>12 DEF FinishBurn, Burn, WipeAll
    <2>2. r = q
      BY <2>1 DEF FuelOf, TypeOK, FuelFlow
    <2> QED
      BY <1>0, <1>4, <2>2
  <1>13. CASE BirthIssued \/ TriggerBurn \/ Tick \/ UNCHANGED vars
    <2>1. r = q
      BY <1>13 DEF BirthIssued, TriggerBurn, Tick, vars, FuelOf
    <2> QED
      BY <1>0, <1>4, <2>1
  <1> QED
    BY <1>0, <1>4, <1>5, <1>6, <1>7, <1>8, <1>9, <1>10, <1>11, <1>12, <1>13 DEF Next

\* Every step keeps the requests of every flow in order and within the limit.
LEMMA RateStep ==
  ASSUME TypeOK, RateHeld, [Next]_vars
  PROVE  RateHeld'
  <1> SUFFICES ASSUME NEW s \in DOMAIN fuel'
               PROVE  InOrder(fuel'[s].requests, now') /\ Len(fuel'[s].requests) <= MAX_RATE_REQUESTS
    BY DEF RateHeld, InOrder
  <1> DEFINE q == FuelOf(s).requests
             r == fuel'[s].requests
  <1>1. s \in Sectors /\ Recorded(q, r)
    BY RequestsStep
  <1>2. /\ q \in Seq(Time) /\ InOrder(q, now) /\ Len(q) <= MAX_RATE_REQUESTS
        /\ now \in Time /\ MAX_RATE_REQUESTS \in Nat /\ Len(q) \in Nat
    BY <1>1, FlowInOrder, GateAssumption, LenProperties DEF TypeOK
  <1> HIDE DEF q
  <1>3. r \in Seq(Time) /\ InOrder(r, now) /\ Len(r) <= MAX_RATE_REQUESTS
    <2> HIDE DEF r
    <2>1. CASE Forgot(q, r)
      <3>1. r \in Seq(Time) /\ InOrder(r, now) /\ Len(r) <= Len(q)
        BY <1>2, <2>1, ForgotOrder
      <3>2. Len(r) \in Nat
        BY <3>1, LenProperties
      <3> QED
        BY <1>2, <3>1, <3>2
    <2>2. ASSUME NEW p \in Seq(Time), Forgot(q, p), Len(p) < MAX_RATE_REQUESTS,
                 r = Append(p, now)
          PROVE  r \in Seq(Time) /\ InOrder(r, now) /\ Len(r) <= MAX_RATE_REQUESTS
      <3>1. InOrder(p, now) /\ Len(p) \in Nat
        BY <1>2, <2>2, ForgotOrder, LenProperties
      <3> QED
        BY <1>2, <2>2, <3>1, RecordOrder
    <2> QED
      BY <1>1, <2>1, <2>2 DEF Recorded
  <1>4. now' \in Nat /\ now' >= now
    <2>1. now' \in Time
      BY NextType DEF TypeOK
    <2>2. now' = now \/ now' = now + 1
      BY StepCases
      DEF Benign, Rejection, Sweep, BirthIssued, Admitted, Destroy, TriggerBurn, FinishBurn
    <2> QED
      BY <1>2, <2>1, <2>2 DEF Time
  <1> HIDE DEF r
  <1>5. \A i \in 1..Len(r) : r[i] \in Nat
    BY <1>3, ElementOfSeq, LenProperties, GateAssumption DEF Time
  <1>6. \A i, j \in 1..Len(r) : i <= j => r[i] <= r[j] /\ r[j] <= now'
    BY <1>2, <1>3, <1>4, <1>5 DEF InOrder, Time
  <1> QED
    BY <1>3, <1>6 DEF InOrder, r

\* A sector's flow never holds more requests than the limit, and they are in order.
THEOREM RateIsHeld == Spec => []RateHeld
  <1>1. Init => RateHeld
    BY EmptyMap DEF Init, RateHeld
  <1>2. TypeOK /\ [Next]_vars /\ RateHeld => RateHeld'
    BY RateStep
  <1> QED
    BY <1>1, <1>2, TypeInvariant, PTL DEF Spec

\* While a sector's flow exists, no request of the window is forgotten and none is let
\* through beyond the limit.
THEOREM RateIsRemembered == Spec => RateRemembered
  <1>1. ASSUME TypeOK, RateHeld, [Next]_vars, NEW s \in DOMAIN fuel \cap DOMAIN fuel'
        PROVE  Recorded(fuel[s].requests, fuel'[s].requests)
    <2>1. FuelOf(s) = fuel[s]
      BY DEF FuelOf
    <2> QED
      BY <1>1, <2>1, RequestsStep
  <1>2. TypeOK /\ RateHeld /\ [Next]_vars =>
          [\A s \in DOMAIN fuel \cap DOMAIN fuel' :
             Recorded(fuel[s].requests, fuel'[s].requests)]_vars
    BY <1>1
  <1> QED
    BY <1>2, TypeInvariant, RateIsHeld, PTL DEF Spec, RateRemembered

\* What seen_sequences_ holds was drawn, and left tokens_ when it was recorded; every
\* entry's HMAC was derived from the key the gate has now.
SeenWasDrawn == \A s \in Sectors : \A k \in seen[s] : k < sequence

\* A rejection keeps the tokens with their keys and the gate key, or leaves no token.
LEMMA RejectKeys ==
  ASSUME Rejection
  PROVE  \/ DOMAIN tokens' = {}
         \/ /\ DOMAIN tokens' = DOMAIN tokens /\ key' = key
            /\ \A k \in DOMAIN tokens : tokens'[k].key = tokens[k].key
  <1>1. PICK f \in FuelFlow, toks \in [DOMAIN tokens -> Token] :
          MarkedCopy(toks) /\ Reject(call.sector, f, toks)
    BY DEF Rejection
  <1> DEFINE struck == [f EXCEPT !.strikes = @ + 1]
  <1>2. \/ Burn(toks, FuelWith(call.sector, struck))
        \/ tokens' = toks /\ key' = key
    BY <1>1 DEF Reject
  <1> HIDE DEF struck
  <1>3. Burn(toks, FuelWith(call.sector, struck)) => DOMAIN tokens' = {}
    BY EmptyMap DEF Burn, WipeAll
  <1> QED
    BY <1>1, <1>2, <1>3 DEF MarkedCopy

\* Every step keeps the held tokens under the gate's key and unspent.
LEMMA AuthenticStep ==
  ASSUME TypeOK, [Next]_vars, HeldTokensAuthentic, SeenWasDrawn
  PROVE  HeldTokensAuthentic' /\ SeenWasDrawn'
  <1>1. CASE Benign
    BY <1>1 DEF Benign, HeldTokensAuthentic, Authentic, SeenWasDrawn
  <1>2. CASE Rejection
    <2>1. UNCHANGED <<seen, sequence>>
      BY <1>2 DEF Rejection
    <2> QED
      BY <1>2, <2>1, RejectKeys DEF HeldTokensAuthentic, Authentic, SeenWasDrawn
  <1>3. CASE Sweep
    BY <1>3 DEF Sweep, Restrict, HeldTokensAuthentic, Authentic, SeenWasDrawn
  <1>4. CASE BirthIssued
    <2>1. sequence' = sequence + 1 /\ UNCHANGED <<seen, key>>
      BY <1>4 DEF BirthIssued, NextSequence
    <2>2. \A k \in DOMAIN tokens' :
            /\ k \in DOMAIN tokens \/ k = sequence
            /\ tokens'[k].key = IF k = sequence THEN key ELSE tokens[k].key
      BY <1>4 DEF BirthIssued
    <2>3. sequence \in Nat /\ \A s \in Sectors : seen[s] \subseteq Nat
      BY DEF TypeOK
    <2> QED
      BY <2>1, <2>2, <2>3 DEF HeldTokensAuthentic, Authentic, SeenWasDrawn
  <1>5. CASE Admitted
    <2>1. /\ call.token \in DOMAIN tokens /\ call.token < sequence
          /\ DOMAIN tokens' = DOMAIN tokens \ {call.token}
          /\ \A k \in DOMAIN tokens' : tokens'[k] = tokens[k]
          /\ \A s \in Sectors : seen'[s] \subseteq seen[s] \cup {call.token}
          /\ UNCHANGED <<key, sequence>>
      BY <1>5 DEF Admitted, Found, Restrict, TypeOK
    <2> QED
      BY <2>1 DEF HeldTokensAuthentic, Authentic, SeenWasDrawn
  <1>6. CASE Destroy
    BY <1>6, EmptyMap
       DEF Destroy, WipeAll, HeldTokensAuthentic, Authentic, SeenWasDrawn
  <1>7. CASE TriggerBurn \/ FinishBurn
    BY <1>7, EmptyMap
       DEF TriggerBurn, FinishBurn, Burn, WipeAll, HeldTokensAuthentic, Authentic, SeenWasDrawn
  <1> QED
    BY <1>1, <1>2, <1>3, <1>4, <1>5, <1>6, <1>7, StepCases

\* REPLAYED and BAD_HMAC never refuse a token the gate holds.
THEOREM Authenticity == Spec => []HeldTokensAuthentic
  <1>1. Init => HeldTokensAuthentic /\ SeenWasDrawn
    BY EmptyMap DEF Init, HeldTokensAuthentic, SeenWasDrawn
  <1>2. TypeOK /\ [Next]_vars /\ HeldTokensAuthentic /\ SeenWasDrawn
          => HeldTokensAuthentic' /\ SeenWasDrawn'
    BY AuthenticStep
  <1> QED
    BY <1>1, <1>2, TypeInvariant, PTL DEF Spec

-----------------------------------------------------------------------------
(* After a burn.                                                           *)

\* Who is inside trigger_burn, or has counted a burn, has set burning_, which nothing
\* clears.
BurnStarted == wiping > 0 \/ stats.burns > 0 => burning

\* Once a burn has wiped it, a gate is empty, but for the token of a birth_token in flight
\* then; when that has returned no operation is in flight.
WipedGate ==
  stats.burns > 0 => \/ DOMAIN tokens = {}
                     \/ call = NoCall /\ Cardinality(DOMAIN tokens) = 1

BurnedGate == BurnStarted /\ WipedGate

\* Burns are counted by the wipe, under the flag, and by nothing else.
LEMMA BurnsCounted ==
  ASSUME TypeOK, [Next]_vars
  PROVE  \/ /\ stats'.burns = stats.burns /\ (burning => burning')
            /\ ~TriggerBurn => wiping' = wiping
            /\ TriggerBurn => burning'
         \/ burning' = TRUE /\ DOMAIN tokens' = {} /\ spent' = spent
  <1>0. stats \in GateStats /\ wiping \in Nat
    BY DEF TypeOK
  <1>1. CASE Benign
    BY <1>1 DEF Benign, TriggerBurn, TypeOK
  <1>2. CASE Rejection
    <2>1. PICK f \in FuelFlow, toks \in [DOMAIN tokens -> Token] :
            Reject(call.sector, f, toks)
      BY <1>2 DEF Rejection
    <2> DEFINE struck == [f EXCEPT !.strikes = @ + 1]
    <2>2. \/ Burn(toks, FuelWith(call.sector, struck))
          \/ UNCHANGED <<burning, stats>>
      BY <2>1 DEF Reject
    <2> HIDE DEF struck
    <2>3. wiping' = wiping /\ spent' = spent
      BY <1>2 DEF Rejection
    <2> QED
      BY <1>0, <2>2, <2>3, EmptyMap DEF Burn, WipeAll, TriggerBurn
  <1>3. CASE Sweep \/ BirthIssued \/ Admitted
    <2>1. /\ burning' = burning /\ wiping' = wiping
          /\ \/ \E n : stats' = [stats EXCEPT !.expired = n]
             \/ \E n : stats' = [stats EXCEPT !.born = n]
             \/ \E n : stats' = [stats EXCEPT !.admitted = n]
      BY <1>3 DEF Sweep, BirthIssued, Admitted
    <2>2. stats'.burns = stats.burns
      BY <1>0, <2>1 DEF GateStats
    <2> QED
      BY <1>0, <2>1, <2>2 DEF TriggerBurn
  <1>4. CASE Destroy
    <2>1. burning' = burning /\ wiping' = wiping /\ \E n : stats' = [stats EXCEPT !.wiped = n]
      BY <1>4 DEF Destroy
    <2>2. stats'.burns = stats.burns
      BY <1>0, <2>1 DEF GateStats
    <2> QED
      BY <1>0, <2>1, <2>2 DEF TriggerBurn
  <1>5. CASE TriggerBurn
    BY <1>5 DEF TriggerBurn
  <1>6. CASE FinishBurn
    BY <1>6, EmptyMap DEF FinishBurn, Burn, WipeAll
  <1> QED
    BY <1>1, <1>2, <1>3, <1>4, <1>5, <1>6, StepCases

\* Every step keeps what is known of a wiped gate, and none admits in it.
LEMMA BurnedGateStep ==
  ASSUME TypeOK, [Next]_vars, BurnedGate
  PROVE  BurnedGate' /\ (stats.burns > 0 => UNCHANGED spent)
  <1> USE DEF BurnedGate
  <1>1. CASE burning' = TRUE /\ DOMAIN tokens' = {} /\ spent' = spent
    BY <1>1 DEF BurnStarted, WipedGate
  <1>2. CASE /\ stats'.burns = stats.burns /\ (burning => burning')
             /\ ~TriggerBurn => wiping' = wiping
             /\ TriggerBurn => burning'
    <2>1. BurnStarted'
      BY <1>2 DEF BurnStarted
    <2> SUFFICES ASSUME stats.burns > 0 PROVE WipedGate' /\ UNCHANGED spent
      BY <1>2, <2>1 DEF WipedGate
    <2>2. burning
      BY DEF BurnStarted
    <2>3. CASE Benign
      BY <2>2, <2>3 DEF Benign, Enters, WipedGate
    <2>4. CASE Rejection
      <3>1. call # NoCall /\ UNCHANGED spent
        BY <2>4 DEF Rejection
      <3>2. DOMAIN tokens = {}
        BY <3>1 DEF WipedGate
      <3>3. DOMAIN tokens' = {}
        BY <2>4, <3>2, RejectKeys
      <3> QED
        BY <3>1, <3>3 DEF WipedGate
    <2>5. CASE Sweep
      BY <2>5 DEF Sweep, Restrict, WipedGate
    <2>6. CASE BirthIssued
      <3>1. call # NoCall /\ call' = NoCall /\ UNCHANGED spent
            /\ DOMAIN tokens' = DOMAIN tokens \cup {sequence}
        BY <2>6 DEF BirthIssued, Running, Return
      <3>2. DOMAIN tokens = {}
        BY <3>1 DEF WipedGate
      <3>3. Cardinality(DOMAIN tokens') = 1
        BY <3>1, <3>2, FS_Singleton
      <3> QED
        BY <3>1, <3>3 DEF WipedGate
    <2>7. CASE Admitted
      <3>1. call # NoCall /\ DOMAIN tokens # {}
        BY <2>7 DEF Admitted, Running, Found
      <3> QED
        BY <3>1 DEF WipedGate
    <2>8. CASE Destroy
      BY <2>8, EmptyMap DEF Destroy, WipeAll, WipedGate
    <2>9. CASE TriggerBurn
      BY <2>9 DEF TriggerBurn, WipedGate
    <2>10. CASE FinishBurn
      BY <2>10, EmptyMap DEF FinishBurn, Burn, WipeAll, WipedGate
    <2> QED
      BY <2>3, <2>4, <2>5, <2>6, <2>7, <2>8, <2>9, <2>10, StepCases
  <1> QED
    BY <1>1, <1>2, BurnsCounted

\* What is known of a wiped gate holds in every behaviour.
LEMMA BurnedGateInvariant == Spec => []BurnedGate
  <1>1. Init => BurnedGate
    BY DEF Init, BurnedGate, BurnStarted, WipedGate
  <1>2. TypeOK /\ [Next]_vars /\ BurnedGate => BurnedGate'
    BY BurnedGateStep
  <1> QED
    BY <1>1, <1>2, TypeInvariant, PTL DEF Spec

\* Wherever the two steps of an unlocked trigger_burn fall, at most one token is stranded
\* by it.
THEOREM Stranding == Spec => []AtMostOneStranded
  <1>1. BurnedGate => AtMostOneStranded
    BY FS_EmptySet DEF BurnedGate, WipedGate, AtMostOneStranded
  <1> QED
    BY <1>1, BurnedGateInvariant, PTL

\* Wherever they fall, nothing is admitted after the wipe.
THEOREM AdmissionEndsWithWipe == Spec => NoAdmissionAfterWipe
  <1>1. TypeOK /\ BurnedGate /\ [Next]_vars => [stats.burns > 0 => UNCHANGED spent]_vars
    BY BurnedGateStep
  <1> QED
    BY <1>1, TypeInvariant, BurnedGateInvariant, PTL DEF Spec, NoAdmissionAfterWipe

-----------------------------------------------------------------------------
(* One admission for each token.                                           *)

\* A spent token was drawn from the sequence and has left tokens_, and no later birth can
\* bring it back.
SpentIsGone ==
  /\ IsFiniteSet(spent)
  /\ \A p \in spent : p[1] < sequence /\ p[1] \notin DOMAIN tokens

\* Only Admitted spends, and only BirthIssued adds an entry, under a fresh number.
LEMMA SpendShape ==
  ASSUME TypeOK, [Next]_vars, ~Admitted
  PROVE  /\ spent' = spent /\ stats'.admitted = stats.admitted
         /\ \/ sequence' = sequence /\ DOMAIN tokens' \subseteq DOMAIN tokens
            \/ sequence' = sequence + 1 /\ DOMAIN tokens' = DOMAIN tokens \cup {sequence}
  <1>1. spent' = spent
    BY StepCases DEF Benign, Rejection, Sweep, BirthIssued, Destroy, TriggerBurn, FinishBurn
  <1>2. stats \in GateStats
    BY DEF TypeOK
  <1>3. CASE Sweep
    BY <1>1, <1>2, <1>3 DEF Sweep, Restrict, GateStats
  <1>4. CASE BirthIssued
    BY <1>1, <1>2, <1>4 DEF BirthIssued, NextSequence, GateStats
  <1>5. CASE (Kept \/ Wiped) /\ ~BirthIssued
    <2>1. DOMAIN tokens' \subseteq DOMAIN tokens /\ stats'.admitted = stats.admitted
      BY <1>5 DEF Kept, Wiped, Counters
    <2>2. sequence' = sequence
      BY <1>5, StepCases DEF Benign, Rejection, Sweep, Destroy, TriggerBurn, FinishBurn
    <2> QED
      BY <1>1, <2>1, <2>2
  <1> QED
    BY <1>3, <1>4, <1>5, StepShape

LEMMA AdmittedOnceStep ==
  ASSUME TypeOK, [Next]_vars, AdmittedOnce, SpentIsGone
  PROVE  AdmittedOnce' /\ SpentIsGone'
  <1>1. CASE ~Admitted
    BY <1>1, SpendShape DEF AdmittedOnce, SpentIsGone, TypeOK
  <1>2. CASE Admitted
    <2> DEFINE new == <<call.token, call.sector>>
    <2>1. call.token \in DOMAIN tokens /\ call.token < sequence
      BY <1>2 DEF Admitted, Found, TypeOK
    <2>2. new \notin spent /\ spent' = spent \cup {new}
      BY <1>2, <2>1 DEF Admitted, SpentIsGone
    <2>3. IsFiniteSet(spent') /\ Cardinality(spent') = Cardinality(spent) + 1
      BY <2>2, FS_AddElement DEF SpentIsGone
    <2>4. stats'.admitted = stats.admitted + 1
      BY <1>2 DEF Admitted, TypeOK, GateStats
    <2>5. sequence' = sequence /\ DOMAIN tokens' = DOMAIN tokens \ {call.token}
      BY <1>2 DEF Admitted, Restrict
    <2>6. AdmittedOnce'
      BY <2>1, <2>2, <2>3, <2>4 DEF AdmittedOnce, SpentIsGone
    <2> QED
      BY <2>1, <2>2, <2>3, <2>5, <2>6 DEF SpentIsGone
  <1> QED
    BY <1>1, <1>2

\* No token is admitted twice, whatever is forgotten, wiped or burned in between.
THEOREM NoTokenAdmittedTwice == Spec => []AdmittedOnce
  <1>1. Init => AdmittedOnce /\ SpentIsGone
    BY FS_EmptySet DEF Init, AdmittedOnce, SpentIsGone
  <1>2. TypeOK /\ [Next]_vars /\ AdmittedOnce /\ SpentIsGone => AdmittedOnce' /\ SpentIsGone'
    BY AdmittedOnceStep
  <1> QED
    BY <1>1, <1>2, TypeInvariant, PTL DEF Spec

-----------------------------------------------------------------------------
(* The gate whose only burns are its own.                                  *)

BurnInv == BurnIsTotal /\ (burning => call = NoCall) /\ wiping = 0

\* A burn leaves no token, no count, no key and no unburned flow.
LEMMA BurnTotal ==
  ASSUME NEW toks, NEW flows, Burn(toks, flows), flows \in [DOMAIN flows -> FuelFlow]
  PROVE  /\ BurnIsTotal' /\ DOMAIN tokens' = {} /\ burning' = TRUE
  BY EmptyMap DEF Burn, WipeAll, BurnIsTotal, FuelFlow

\* Every step but a burn by a caller keeps a burn total.
LEMMA BurnInvStep ==
  ASSUME TypeOK, [Next]_vars, BurnInv, ~TriggerBurn
  PROVE  BurnInv'
  <1> USE DEF BurnInv
  <1>1. CASE Benign
    BY <1>1 DEF Benign, Enters, BurnIsTotal
  <1>2. CASE Rejection
    <2>1. PICK f \in FuelFlow, toks \in [DOMAIN tokens -> Token] :
            f.burned = FuelOf(call.sector).burned /\ Reject(call.sector, f, toks)
      BY <1>2 DEF Rejection
    <2> DEFINE struck == [f EXCEPT !.strikes = @ + 1]
    <2>2. struck \in FuelFlow /\ struck.burned = f.burned
      BY DEF FuelFlow
    <2>3. /\ call # NoCall /\ call' = NoCall /\ ~burning /\ call.sector \in Sectors
          /\ wiping' = wiping
      BY <1>2 DEF Rejection, TypeOK, Call
    <2>4. \/ Burn(toks, FuelWith(call.sector, struck))
          \/ /\ fuel' = FuelWith(call.sector, struck)
             /\ UNCHANGED burning
      BY <2>1 DEF Reject
    <2> HIDE DEF struck
    <2>5. CASE Burn(toks, FuelWith(call.sector, struck))
      BY <2>2, <2>3, <2>5, FuelWithType, BurnTotal
    <2>6. CASE fuel' = FuelWith(call.sector, struck) /\ UNCHANGED burning
      <3>1. ~struck.burned
        BY <2>1, <2>2, <2>3 DEF FuelOf, NewFuel, BurnIsTotal
      <3> QED
        BY <2>3, <2>6, <3>1 DEF FuelWith, BurnIsTotal
    <2> QED
      BY <2>4, <2>5, <2>6
  <1>3. CASE Sweep
    <2>1. call # NoCall /\ ~burning /\ UNCHANGED <<burning, wiping>>
      BY <1>3 DEF Sweep
    <2> DEFINE f == [FuelOf(call.sector) EXCEPT !.requests = Append(Recent(@), now)]
    <2>2. FuelOf(call.sector) \in FuelFlow /\ ~FuelOf(call.sector).burned
      BY <1>3, FuelOfType DEF Sweep, TypeOK, Call
    <2>3. ~f.burned /\ fuel' = FuelWith(call.sector, f)
      BY <1>3, <2>2 DEF Sweep, FuelFlow
    <2> HIDE DEF f
    <2> QED
      BY <2>1, <2>3 DEF FuelWith, BurnIsTotal
  <1>4. CASE BirthIssued
    BY <1>4 DEF BirthIssued, Running, BurnIsTotal
  <1>5. CASE Admitted
    <2>1. call # NoCall /\ ~burning /\ UNCHANGED <<burning, wiping>>
      BY <1>5 DEF Admitted, Running
    <2> DEFINE f == [FuelOf(call.sector) EXCEPT !.strikes = 0]
    <2>2. FuelOf(call.sector) \in FuelFlow
      BY <1>5, FuelOfType DEF Admitted, Running, TypeOK, Call
    <2>3. ~FuelOf(call.sector).burned
      BY <2>1 DEF FuelOf, NewFuel, BurnIsTotal
    <2>4. ~f.burned /\ fuel' = FuelWith(call.sector, f)
      BY <1>5, <2>2, <2>3 DEF Admitted, FuelFlow
    <2> HIDE DEF f
    <2> QED
      BY <2>1, <2>4 DEF FuelWith, BurnIsTotal
  <1>6. CASE Destroy
    BY <1>6, EmptyMap DEF Destroy, WipeAll, BurnIsTotal
  <1>7. ~FinishBurn
    BY DEF FinishBurn
  <1> QED
    BY <1>1, <1>2, <1>3, <1>4, <1>5, <1>6, <1>7, StepCases

\* Without burns by callers, a burn is total in every behaviour.
LEMMA BurnInvariant ==
  ASSUME ExternalBurn = FALSE
  PROVE  Spec => []BurnInv
  <1>1. Init => BurnInv
    BY EmptyMap DEF Init, BurnInv, BurnIsTotal
  <1>2. TypeOK /\ [Next]_vars /\ BurnInv => BurnInv'
    BY BurnInvStep DEF TriggerBurn
  <1> QED
    BY <1>1, <1>2, TypeInvariant, PTL DEF Spec

\* A burn that the gate starts itself leaves nothing usable: no entry, no capacity in
\* use, no key, and every flow burned.
THEOREM TotalBurn ==
  ASSUME ExternalBurn = FALSE
  PROVE  Spec => []BurnIsTotal
  <1>1. BurnInv => BurnIsTotal
    BY DEF BurnInv
  <1> QED
    BY <1>1, BurnInvariant, PTL

\* Any burn but a caller's is the last strike of some sector.
LEMMA LastStrikeBurns ==
  ASSUME TypeOK, [Next]_vars, ~TriggerBurn, wiping = 0, ~burning, burning'
  PROVE  \E s \in DOMAIN fuel' : fuel'[s].strikes >= MAX_STRIKES
  <1>1. CASE Rejection
    <2>1. PICK f \in FuelFlow, toks \in [DOMAIN tokens -> Token] :
            Reject(call.sector, f, toks)
      BY <1>1 DEF Rejection
    <2> DEFINE struck == [f EXCEPT !.strikes = @ + 1]
    <2>2. struck \in FuelFlow
      BY DEF FuelFlow
    <2>3. /\ LastStrike(struck.strikes)
          /\ fuel' = [s \in DOMAIN FuelWith(call.sector, struck) |->
                        [FuelWith(call.sector, struck)[s] EXCEPT !.burned = TRUE]]
      BY <2>1 DEF Reject, Burn, WipeAll
    <2> HIDE DEF struck
    <2>4. call.sector \in DOMAIN fuel' /\ fuel'[call.sector].strikes = struck.strikes
      BY <2>2, <2>3 DEF FuelWith, FuelFlow
    <2> QED
      BY <2>3, <2>4 DEF LastStrike
  <1>2. CASE Benign \/ Sweep \/ BirthIssued \/ Admitted \/ Destroy
    BY <1>2 DEF Benign, Sweep, BirthIssued, Admitted, Destroy
  <1>3. ~FinishBurn
    BY DEF FinishBurn
  <1> QED
    BY <1>1, <1>2, <1>3, StepCases

\* Without burns by callers, only a sector with MAX_STRIKES strikes burns the gate.
THEOREM BurnNeedsStrikes ==
  ASSUME ExternalBurn = FALSE
  PROVE  Spec => OnlyStrikesBurn
  <1>1. TypeOK /\ BurnInv /\ [Next]_vars =>
          [~burning /\ burning' => \E s \in DOMAIN fuel' : fuel'[s].strikes >= MAX_STRIKES]_vars
    BY LastStrikeBurns DEF TriggerBurn, BurnInv
  <1> QED
    BY <1>1, TypeInvariant, BurnInvariant, PTL DEF Spec, OnlyStrikesBurn

-----------------------------------------------------------------------------
(* The gate implements the ledger.                                         *)

Entry(k, tok) == [token |-> k, sector |-> tok.sector, born |-> tok.born]

\* The ledger's outstanding tokens, element by element.
LEMMA OutstandingIs ==
  /\ Outstanding = {Entry(k, tokens[k]) : k \in {j \in DOMAIN tokens : tokens[j].status = "LIVE"}}
  /\ Outstanding' =
       {Entry(k, tokens'[k]) : k \in {j \in DOMAIN tokens' : tokens'[j].status = "LIVE"}}
  BY DEF Outstanding, Entry

\* If every live entry afterwards was a live entry before, tokens were only withdrawn.
LEMMA OnlyWithdrawn ==
  ASSUME \A k \in DOMAIN tokens' : tokens'[k].status = "LIVE" =>
           /\ k \in DOMAIN tokens /\ tokens[k].status = "LIVE"
           /\ Entry(k, tokens'[k]) = Entry(k, tokens[k])
  PROVE  Outstanding' \subseteq Outstanding
  BY OutstandingIs

\* The gate starts as an open, empty ledger.
LEMMA LedgerInit == Init => Ledger!Init
  BY EmptyMap, OutstandingIs DEF Init, Ledger!Init

\* While burns are total, every step of the gate but a caller's burn is a step of the
\* ledger or leaves it unchanged.
LEMMA LedgerStep ==
  ASSUME TypeOK, [Next]_vars, BurnInv, ~TriggerBurn
  PROVE  [Ledger!Next]_(Ledger!vars)
  <1> USE DEF BurnInv
  <1>1. CASE Benign
    <2>1. Outstanding' = Outstanding /\ UNCHANGED <<sequence, spent, burning>>
      BY <1>1 DEF Benign, Outstanding
    <2> QED
      BY <1>1, <2>1 DEF Benign, Ledger!Next, Ledger!Tick, Ledger!vars
  <1>2. CASE Rejection
    <2>1. PICK f \in FuelFlow, toks \in [DOMAIN tokens -> Token] :
            MarkedCopy(toks) /\ Reject(call.sector, f, toks)
      BY <1>2 DEF Rejection
    <2>2. UNCHANGED <<now, sequence, spent>>
      BY <1>2 DEF Rejection
    <2> DEFINE struck == [f EXCEPT !.strikes = @ + 1]
    <2>3. \/ Burn(toks, FuelWith(call.sector, struck))
          \/ tokens' = toks /\ UNCHANGED burning
      BY <2>1 DEF Reject
    <2> HIDE DEF struck
    <2>4. CASE Burn(toks, FuelWith(call.sector, struck))
      <3>1. DOMAIN tokens' = {} /\ burning' = TRUE
        BY <2>4, EmptyMap DEF Burn, WipeAll
      <3>2. Outstanding' = {}
        BY <3>1, OutstandingIs
      <3> QED
        BY <2>2, <3>1, <3>2 DEF Ledger!Next, Ledger!Close
    <2>5. CASE tokens' = toks /\ UNCHANGED burning
      <3>1. Outstanding' \subseteq Outstanding
        BY <2>1, <2>5, OnlyWithdrawn DEF MarkedCopy, Entry
      <3> QED
        BY <2>2, <2>5, <3>1 DEF Ledger!Next, Ledger!Withdraw
    <2> QED
      BY <2>3, <2>4, <2>5
  <1>3. CASE Sweep
    <2>1. Outstanding' \subseteq Outstanding
      BY <1>3, OnlyWithdrawn DEF Sweep, Restrict, Entry
    <2> QED
      BY <1>3, <2>1 DEF Sweep, Ledger!Next, Ledger!Withdraw
  <1>4. CASE BirthIssued
    <2> DEFINE new == [token |-> sequence, sector |-> call.sector, born |-> now]
    <2>1. call.sector \in Sectors /\ ~burning
      BY <1>4 DEF BirthIssued, Running, TypeOK, Call
    <2>2. /\ DOMAIN tokens' = DOMAIN tokens \cup {sequence} /\ sequence \notin DOMAIN tokens
          /\ tokens'[sequence].status = "LIVE"
          /\ Entry(sequence, tokens'[sequence]) = new
          /\ \A k \in DOMAIN tokens : tokens'[k] = tokens[k]
      BY <1>4 DEF BirthIssued, TypeOK, Entry
    <2>3. Outstanding' = Outstanding \cup {new}
      <3> HIDE DEF new
      <3>1. {k \in DOMAIN tokens' : tokens'[k].status = "LIVE"}
              = {k \in DOMAIN tokens : tokens[k].status = "LIVE"} \cup {sequence}
        BY <2>2
      <3> QED
        BY <2>2, <3>1, OutstandingIs
    <2>4. Ledger!Issue(call.sector)
      BY <1>4, <2>1, <2>3 DEF BirthIssued, NextSequence, Ledger!Issue
    <2> QED
      BY <2>1, <2>4 DEF Ledger!Next
  <1>5. CASE Admitted
    <2> DEFINE k == call.token
               t == Entry(k, tokens[k])
    <2>1. /\ call.sector \in Sectors /\ ~burning
          /\ k \in DOMAIN tokens /\ tokens[k].status = "LIVE"
          /\ tokens[k].sector = call.sector /\ now <= tokens[k].born + MAX_AGE
      BY <1>5 DEF Admitted, Running, TypeOK, Call, Found, IsLive
    <2>2. t \in Outstanding /\ t.token = k /\ t.sector = call.sector /\ now <= t.born + MAX_AGE
      BY <2>1, OutstandingIs DEF Entry
    <2>3. /\ DOMAIN tokens' = DOMAIN tokens \ {k}
          /\ \A j \in DOMAIN tokens' : tokens'[j] = tokens[j]
      BY <1>5 DEF Admitted, Restrict
    <2>4. Outstanding' = Outstanding \ {t}
      <3>1. \A i, j \in DOMAIN tokens :
              Entry(i, tokens[i]) = Entry(j, tokens[j]) => i = j
        BY DEF Entry
      <3>2. {j \in DOMAIN tokens' : tokens'[j].status = "LIVE"}
              = {j \in DOMAIN tokens : tokens[j].status = "LIVE"} \ {k}
        BY <2>3
      <3> QED
        BY <2>1, <2>3, <3>1, <3>2, OutstandingIs
    <2>5. /\ spent' = spent \cup {<<k, call.sector>>}
          /\ UNCHANGED <<now, sequence, burning>>
      BY <1>5 DEF Admitted
    <2> HIDE DEF k, t
    <2>6. Ledger!Spend(t)
      BY <2>1, <2>2, <2>4, <2>5 DEF Ledger!Spend
    <2> QED
      BY <2>2, <2>6 DEF Ledger!Next
  <1>6. CASE Destroy
    <2>1. Outstanding' = {}
      BY <1>6, EmptyMap, OutstandingIs DEF Destroy, WipeAll
    <2> QED
      BY <1>6, <2>1 DEF Destroy, Ledger!Next, Ledger!Withdraw
  <1>7. ~FinishBurn
    BY DEF FinishBurn
  <1> QED
    BY <1>1, <1>2, <1>3, <1>4, <1>5, <1>6, <1>7, StepCases

\* Used through its locked operations, the gate keeps the ledger's promise: each token is
\* admitted at most once, in time, for its own sector, and never after a burn.
THEOREM ImplementsLedger ==
  ASSUME ExternalBurn = FALSE
  PROVE  Spec => LedgerSpec
  <1>1. Init => Ledger!Init
    BY LedgerInit
  <1>2. TypeOK /\ [Next]_vars /\ BurnInv => [Ledger!Next]_(Ledger!vars)
    BY LedgerStep DEF TriggerBurn
  <1> QED
    BY <1>1, <1>2, TypeInvariant, BurnInvariant, PTL DEF Spec, LedgerSpec, Ledger!Spec

=============================================================================
