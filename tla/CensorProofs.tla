----------------------------- MODULE CensorProofs -----------------------------
(***************************************************************************)
(* What the Censor's case table guarantees for any targets, limits and     *)
(* sequence of calls, exceptions included.                                 *)
(***************************************************************************)
EXTENDS Censor, TLAPS

\* A table within its array, with one case per target and growing ids.
Register(table, counter) ==
  /\ table \in Seq(CaseType) /\ counter \in Nat
  /\ Len(table) <= MAX_CASE_RECORDS
  /\ \A i, j \in 1..Len(table) : i < j =>
       table[i].target # table[j].target /\ table[i].id < table[j].id
  /\ \A i \in 1..Len(table) : table[i].id < counter

-----------------------------------------------------------------------------
(* The modulus of a successor, by cases.                                   *)

(* A quotient and remainder are unique.                                    *)
LEMMA UniqueRemainder ==
  ASSUME NEW m \in Nat \ {0}, NEW p \in Nat, NEW q \in Nat,
         NEW r \in 0..(m - 1), NEW s \in 0..(m - 1), p * m + r = q * m + s
  PROVE  r = s
<1>1. CASE p = q
  BY <1>1
<1>2. CASE p < q
  <2> DEFINE d == q - p
  <2>1. d \in Nat /\ d >= 1
    BY <1>2
  <2>2. d * m = r - s
    BY <2>1
  <2>3. d * m >= m
    BY <2>1
  <2> QED BY <2>2, <2>3
<1>3. CASE q < p
  <2> DEFINE d == p - q
  <2>1. d \in Nat /\ d >= 1
    BY <1>3
  <2>2. d * m = s - r
    BY <2>1
  <2>3. d * m >= m
    BY <2>1
  <2> QED BY <2>2, <2>3
<1> QED BY <1>1, <1>2, <1>3

(* What div and modulo are.                                                *)
LEMMA Division ==
  ASSUME NEW m \in Nat \ {0}, NEW n \in Nat
  PROVE  n \div m \in Nat /\ (n % m) + (n \div m) * m = n /\ n % m \in 0..(m - 1)
<1>1. n \div m \in Nat
  OBVIOUS
<1>2. (n % m) + (n \div m) * m = n
  BY <1>1
<1>3. n % m \in 0..(m - 1)
  OBVIOUS
<1> QED
  BY <1>1, <1>2, <1>3

(* The remainder of a number given by quotient and remainder.              *)
LEMMA RemainderIs ==
  ASSUME NEW m \in Nat \ {0}, NEW q \in Nat, NEW r \in 0..(m - 1), NEW n \in Nat, n = q * m + r
  PROVE  n % m = r
<1>1. n \div m \in Nat /\ (n % m) + (n \div m) * m = n /\ n % m \in 0..(m - 1)
  BY Division
<1> DEFINE p == n \div m
           s == n % m
<1> HIDE DEF p, s
<1>2. s \in 0..(m - 1) /\ p \in Nat /\ p * m + s = q * m + r
  BY <1>1 DEF p, s
<1>3. s = r
  BY <1>2, UniqueRemainder
<1> QED
  BY <1>3 DEF s

(* The one-byte count follows the true count: incrementing the remainder   *)
(* is the remainder of the increment (censor.cpp 166).                     *)
LEMMA IncrementFollows ==
  ASSUME NEW h \in Nat
  PROVE  /\ Increment(h % COUNT_RANGE) = (h + 1) % COUNT_RANGE
         /\ h % COUNT_RANGE \in 0..(COUNT_RANGE - 1)
         /\ h < COUNT_RANGE => h % COUNT_RANGE = h
<1> DEFINE m == COUNT_RANGE
           r == h % m
           q == h \div m
<1>0. m \in Nat \ {0}
  BY CensorAssumption
<1>1. r \in 0..(m - 1) /\ q \in Nat /\ h = q * m + r
  BY <1>0
<1>2. h < m => r = h
  <2>1. h = 0 * m + h
    BY <1>0
  <2> QED BY <1>0, <2>1, RemainderIs
<1>3. (r + 1) % m = (h + 1) % m
  <2> HIDE DEF m, r, q
  <2>1. CASE r + 1 < m
    <3>1. h + 1 = q * m + (r + 1) /\ r + 1 = 0 * m + (r + 1) /\ r + 1 \in 0..(m - 1)
      BY <1>0, <1>1, <2>1
    <3>2. (h + 1) % m = r + 1
      BY <1>0, <1>1, <3>1, RemainderIs
    <3>3. (r + 1) % m = r + 1
      BY <1>0, <1>1, <3>1, RemainderIs
    <3> QED BY <3>2, <3>3
  <2>2. CASE r + 1 = m
    <3>0. (q + 1) * m = q * m + m
      BY <1>0, <1>1
    <3>1. h + 1 = (q + 1) * m + 0 /\ r + 1 = 1 * m + 0 /\ 0 \in 0..(m - 1)
      BY <1>0, <1>1, <2>2, <3>0
    <3>2. (h + 1) % m = 0
      BY <1>0, <1>1, <3>1, RemainderIs
    <3>3. (r + 1) % m = 0
      BY <1>0, <1>1, <3>1, RemainderIs
    <3> QED BY <3>2, <3>3
  <2> QED BY <1>0, <1>1, <2>1, <2>2
<1> QED
  BY <1>1, <1>2, <1>3 DEF Increment

-----------------------------------------------------------------------------
(* The table.                                                              *)

\* One case of a target, as far as the code may rewrite it.
SameCase(new, old) == new \in CaseType /\ new.id = old.id /\ new.target = old.target

(* In a register the linear search finds the only case of a known target.  *)
LEMMA FirstCaseFinds ==
  ASSUME Register(cases, case_id_counter), NEW t \in Targets, Known(t)
  PROVE  FirstCase(t) \in Cases /\ cases[FirstCase(t)].target = t
<1>1. PICK i \in Cases : cases[i].target = t
  BY DEF Known
<1>2. \A j \in 1..(i - 1) : cases[j].target # t
  BY <1>1 DEF Register, Cases
<1> QED
  BY <1>1, <1>2 DEF FirstCase

(* find_or_create_case leaves a register, in which the target has the slot *)
(* it returns (censor.cpp 429-455).                                        *)
LEMMA OpenKeepsRegister ==
  ASSUME Register(cases, case_id_counter), NEW t \in Targets, HasRoom(t), CountId(t)
  PROVE  /\ Register(OpenedCases(t), case_id_counter')
         /\ Slot(t) \in 1..Len(OpenedCases(t))
         /\ OpenedCases(t)[Slot(t)] \in CaseType
         /\ OpenedCases(t)[Slot(t)].target = t
<1>1. CASE Known(t)
  BY <1>1, FirstCaseFinds DEF OpenedCases, Slot, CountId, Register, Cases
<1>2. CASE ~ Known(t)
  <2>1. NewCase(t) \in CaseType /\ NewCase(t).id = case_id_counter /\ NewCase(t).target = t
    BY CensorAssumption DEF NewCase, CaseType, AllModes, Register
  <2>2. /\ OpenedCases(t) = Append(cases, NewCase(t))
        /\ case_id_counter' = case_id_counter + 1
        /\ Slot(t) = Len(cases) + 1
        /\ Len(cases) < MAX_CASE_RECORDS
    BY <1>2 DEF OpenedCases, Slot, CountId, HasRoom
  <2>3. \A i \in Cases : cases[i].target # t
    BY <1>2 DEF Known
  <2> DEFINE new == NewCase(t)
  <2> HIDE DEF new
  <2>4. new \in CaseType /\ new.id = case_id_counter /\ new.target = t
    BY <2>1 DEF new
  <2>5. Len(Append(cases, new)) = Len(cases) + 1 /\ Append(cases, new) \in Seq(CaseType)
    BY <2>4 DEF Register
  <2>6. \A i \in 1..(Len(cases) + 1) :
          Append(cases, new)[i] = IF i = Len(cases) + 1 THEN new ELSE cases[i]
    BY <2>4 DEF Register
  <2>7. Register(Append(cases, new), case_id_counter')
    <3>1. \A i \in Cases : cases[i].id < case_id_counter /\ cases[i].id \in Nat
      <4>1. \A i \in Cases : cases[i] \in CaseType
        BY DEF Register, Cases
      <4> QED BY <4>1 DEF Register, Cases, CaseType
    <3>2. \A i, j \in 1..(Len(cases) + 1) : i < j =>
            /\ Append(cases, new)[i].target # Append(cases, new)[j].target
            /\ Append(cases, new)[i].id < Append(cases, new)[j].id
      <4> SUFFICES ASSUME NEW i \in 1..(Len(cases) + 1), NEW j \in 1..(Len(cases) + 1), i < j
                   PROVE  /\ Append(cases, new)[i].target # Append(cases, new)[j].target
                          /\ Append(cases, new)[i].id < Append(cases, new)[j].id
        OBVIOUS
      <4>0. Len(cases) \in Nat
        BY DEF Register
      <4>1. i \in Cases /\ Append(cases, new)[i] = cases[i]
        BY <2>6, <4>0 DEF Cases
      <4>2. CASE j = Len(cases) + 1
        <5>1. Append(cases, new)[j] = new
          BY <2>6, <4>2
        <5> QED BY <2>3, <2>4, <3>1, <4>1, <5>1
      <4>3. CASE j # Len(cases) + 1
        <5>1. j \in 1..Len(cases) /\ Append(cases, new)[j] = cases[j]
          BY <2>6, <4>0, <4>3
        <5> QED BY <4>1, <5>1 DEF Register, Cases
      <4> QED BY <4>2, <4>3
    <3>3. \A i \in 1..(Len(cases) + 1) : Append(cases, new)[i].id < case_id_counter'
      BY <2>2, <2>4, <2>6, <3>1 DEF Register, Cases
    <3> QED BY <2>2, <2>5, <3>2, <3>3, CensorAssumption DEF Register
  <2>8. Slot(t) \in 1..Len(Append(cases, new)) /\ Append(cases, new)[Slot(t)] = new
    BY <2>2, <2>5, <2>6 DEF Register
  <2> QED BY <2>2, <2>4, <2>7, <2>8 DEF new
<1> QED
  BY <1>1, <1>2

\* A register that is the table with one case rewritten.
Rewritten(new, table, counter, k, rec) ==
  /\ Register(new, counter) /\ Len(new) = Len(table)
  /\ \A i \in 1..Len(table) : new[i] = IF i = k THEN rec ELSE table[i]

(* Rewriting a case in place leaves a register.                            *)
LEMMA RewriteKeepsRegister ==
  ASSUME NEW table, NEW counter, Register(table, counter),
         NEW k \in 1..Len(table), NEW rec, SameCase(rec, table[k])
  PROVE  Rewritten([table EXCEPT ![k] = rec], table, counter, k, rec)
<1> DEFINE new == [table EXCEPT ![k] = rec]
<1>1. new \in Seq(CaseType) /\ Len(new) = Len(table)
  BY DEF Register, SameCase
<1>2. \A i \in 1..Len(table) : new[i] = IF i = k THEN rec ELSE table[i]
  BY DEF Register
<1>3. \A i \in 1..Len(table) : new[i].id = table[i].id /\ new[i].target = table[i].target
  BY <1>2 DEF SameCase
<1> HIDE DEF new
<1>4. Register(new, counter)
  BY <1>1, <1>3 DEF Register
<1> QED
  BY <1>1, <1>2, <1>4 DEF new, Rewritten

-----------------------------------------------------------------------------
(* One case and the number of its enforcements.                            *)

\* What EscalatedIffRepeat and CaseTellsTheHits say of one case and the
\* number of enforcements it claims.
Told(c, h) ==
  /\ c.target \notin Unnumbered => (c.escalated <=> h >= CASE_ESCALATE_AT)
  /\ c.count = h % COUNT_RANGE
  /\ c.executed <=> h > 0
  /\ c.gl_state = "ACTIVE" <=> ~ c.executed
  /\ c.gl_state = "ESCALATED" => c.escalated

(* Relabelling a case keeps what it tells.                                 *)
LEMMA RelabelTells ==
  ASSUME NEW c \in CaseType, NEW h \in Nat, Told(c, h),
         NEW mode \in AllModes, NEW zero \in BOOLEAN
  PROVE  /\ SameCase([c EXCEPT !.mode = mode, !.zero_tolerance = zero], c)
         /\ Told([c EXCEPT !.mode = mode, !.zero_tolerance = zero], h)
BY DEF CaseType, Told, SameCase

\* A case counted once more, before the receipt and the escalation test.
Counted(rec, c) ==
  /\ SameCase(rec, c)
  /\ rec.count = Increment(c.count) /\ rec.executed
  /\ rec.gl_state \in {"EXECUTED", "RE_ENGAGED"}
  /\ rec.escalated = c.escalated /\ rec.judge_notified = c.judge_notified

\* What Conclude stores for it.
Concluded(rec) ==
  IF EscalationDue(rec)
  THEN [rec EXCEPT !.judge_notified = TRUE, !.escalated = TRUE, !.gl_state = "ESCALATED"]
  ELSE [rec EXCEPT !.judge_notified = TRUE]

(* A counted and concluded case tells of one enforcement more: until the   *)
(* threshold its byte has not wrapped, so the test finds it on time.       *)
LEMMA ConcludedTells ==
  ASSUME NEW c \in CaseType, NEW h \in Nat, Told(c, h), NEW rec, Counted(rec, c)
  PROVE  SameCase(Concluded(rec), c) /\ Told(Concluded(rec), h + 1)
<1> DEFINE new == Concluded(rec)
<1>0. rec \in CaseType /\ rec.id = c.id /\ rec.target = c.target
  BY DEF Counted, SameCase
<1>1. new \in CaseType /\ new.id = rec.id /\ new.target = rec.target
      /\ new.count = rec.count /\ new.executed = rec.executed /\ new.judge_notified
      /\ new.escalated = (rec.escalated \/ EscalationDue(rec))
      /\ new.gl_state = IF EscalationDue(rec) THEN "ESCALATED" ELSE rec.gl_state
  BY <1>0 DEF Concluded, CaseType, EscalationDue
<1>2. rec.count = (h + 1) % COUNT_RANGE
  BY IncrementFollows DEF Counted, Told
<1>3. h + 1 < COUNT_RANGE => rec.count = h + 1
  BY <1>2, IncrementFollows
<1>4. c.target \notin Unnumbered =>
        (rec.escalated \/ EscalationDue(rec) <=> h + 1 >= CASE_ESCALATE_AT)
  <2> SUFFICES ASSUME c.target \notin Unnumbered
               PROVE  rec.escalated \/ EscalationDue(rec) <=> h + 1 >= CASE_ESCALATE_AT
    OBVIOUS
  <2>1. rec.escalated <=> h >= CASE_ESCALATE_AT
    BY DEF Counted, Told
  <2>2. CASE h >= CASE_ESCALATE_AT
    BY <2>1, <2>2, CensorAssumption
  <2>3. CASE ~ (h >= CASE_ESCALATE_AT)
    <3>1. h + 1 < COUNT_RANGE
      BY <2>3, CensorAssumption
    <3>2. ~ rec.escalated /\ rec.count = h + 1
      BY <1>3, <2>1, <2>3, <3>1
    <3> QED BY <3>2 DEF EscalationDue
  <2> QED BY <2>2, <2>3
<1> HIDE DEF new
<1>5. SameCase(new, c)
  BY <1>0, <1>1 DEF SameCase
<1>6. Told(new, h + 1)
  <2>1. new.target = c.target /\ new.executed /\ new.judge_notified
    BY <1>0, <1>1 DEF Counted
  <2>2. new.target \notin Unnumbered => (new.escalated <=> h + 1 >= CASE_ESCALATE_AT)
    BY <1>1, <1>4, <2>1
  <2>3. new.gl_state # "ACTIVE" /\ (new.gl_state = "ESCALATED" => new.escalated)
    BY <1>1 DEF Counted
  <2>4. new.count = (h + 1) % COUNT_RANGE /\ h + 1 > 0
    BY <1>1, <1>2
  <2> QED BY <2>1, <2>2, <2>3, <2>4 DEF Told
<1> QED
  BY <1>5, <1>6 DEF new

(* A termination that threw is claimed without an escalation test, which   *)
(* only a target with an unconvertible id can cause.                       *)
LEMMA ThrownTells ==
  ASSUME NEW c \in CaseType, NEW h \in Nat, Told(c, h), NEW rec, Counted(rec, c),
         c.target \in Unnumbered
  PROVE  Told(rec, h + 1)
<1>1. rec.count = (h + 1) % COUNT_RANGE
  BY IncrementFollows DEF Counted, Told
<1> QED
  BY <1>1 DEF Counted, Told, SameCase

-----------------------------------------------------------------------------
(* The invariant: the table is a register, a target without a case has no  *)
(* enforcements, and every case tells of its own.                          *)

AllTold(table, h) == \A i \in 1..Len(table) : Told(table[i], h[table[i].target])
Unopened(table, h) ==
  \A t \in Targets : (\A i \in 1..Len(table) : table[i].target # t) => h[t] = 0

\* Only a target whose id does not convert has terminations that threw.
Numbers ==
  /\ hits \in [Targets -> Nat] /\ thrown \in [Targets -> Nat]
  /\ \A t \in Targets \ Unnumbered : thrown[t] = 0

IInv ==
  /\ Register(cases, case_id_counter)
  /\ Numbers
  /\ claimed \in [Targets -> Nat]
  /\ AllTold(cases, claimed)
  /\ Unopened(cases, claimed)

(* What the cases claim follows the histories.                             *)
LEMMA HistorySame ==
  ASSUME UNCHANGED history
  PROVE  claimed' = claimed /\ (Numbers => Numbers')
BY DEF history, claimed, Numbers

LEMMA HitClaims ==
  ASSUME Numbers, NEW t \in Targets, CountHit(t)
  PROVE  Numbers' /\ claimed' = [claimed EXCEPT ![t] = claimed[t] + 1]
<1>1. hits' = [hits EXCEPT ![t] = hits[t] + 1] /\ thrown' = thrown
  BY DEF CountHit
<1>2. \A u \in Targets : hits[u] \in Nat /\ thrown[u] \in Nat
  BY DEF Numbers
<1>3. \A u \in Targets : hits'[u] + thrown'[u] =
        IF u = t THEN (hits[t] + thrown[t]) + 1 ELSE hits[u] + thrown[u]
  BY <1>1, <1>2 DEF Numbers
<1>4. Numbers'
  BY <1>1, <1>2 DEF Numbers
<1> QED
  BY <1>3, <1>4 DEF claimed

LEMMA ThrowClaims ==
  ASSUME Numbers, NEW t \in Targets, t \in Unnumbered, CountThrow(t)
  PROVE  Numbers' /\ claimed' = [claimed EXCEPT ![t] = claimed[t] + 1]
<1>1. thrown' = [thrown EXCEPT ![t] = thrown[t] + 1] /\ hits' = hits
  BY DEF CountThrow
<1>2. \A u \in Targets : hits[u] \in Nat /\ thrown[u] \in Nat
  BY DEF Numbers
<1>3. \A u \in Targets : hits'[u] + thrown'[u] =
        IF u = t THEN (hits[t] + thrown[t]) + 1 ELSE hits[u] + thrown[u]
  BY <1>1, <1>2 DEF Numbers
<1>4. Numbers'
  BY <1>1, <1>2 DEF Numbers
<1> QED
  BY <1>3, <1>4 DEF claimed

(* A case just opened tells of no enforcement.                             *)
LEMMA OpenTells ==
  ASSUME IInv, NEW t \in Targets, HasRoom(t), CountId(t)
  PROVE  AllTold(OpenedCases(t), claimed) /\ Unopened(OpenedCases(t), claimed)
<1>1. CASE Known(t)
  BY <1>1 DEF OpenedCases, IInv
<1>2. CASE ~ Known(t)
  <2> DEFINE new == NewCase(t)
  <2>1. new.target = t /\ Told(new, 0)
    <3>1. 0 % COUNT_RANGE = 0
      BY IncrementFollows, CensorAssumption
    <3> QED BY <3>1, CensorAssumption DEF NewCase, Told
  <2>2. claimed[t] = 0
    BY <1>2 DEF IInv, Unopened, Known, Cases
  <2>3. /\ Len(Append(cases, new)) = Len(cases) + 1 /\ Len(cases) \in Nat
        /\ \A i \in 1..(Len(cases) + 1) :
             Append(cases, new)[i] = IF i = Len(cases) + 1 THEN new ELSE cases[i]
    BY DEF IInv, Register
  <2>4. OpenedCases(t) = Append(cases, new)
    BY <1>2 DEF OpenedCases
  <2> HIDE DEF new
  <2>5. AllTold(Append(cases, new), claimed)
    BY <2>1, <2>2, <2>3 DEF AllTold, IInv
  <2>6. Unopened(Append(cases, new), claimed)
    <3> SUFFICES ASSUME NEW u \in Targets,
                        \A i \in 1..(Len(cases) + 1) : Append(cases, new)[i].target # u
                 PROVE  claimed[u] = 0
      BY <2>3 DEF Unopened
    <3>1. \A i \in 1..Len(cases) : cases[i].target # u
      BY <2>3
    <3> QED BY <3>1 DEF IInv, Unopened
  <2> QED BY <2>4, <2>5, <2>6
<1> QED
  BY <1>1, <1>2

\* The case that find_or_create_case returns.
CaseOf(t) == OpenedCases(t)[Slot(t)]

(* Storing a rewritten case keeps the register.                            *)
LEMMA StoreKeepsRegister ==
  ASSUME Register(cases, case_id_counter), NEW t \in Targets, HasRoom(t),
         NEW rec, SameCase(rec, CaseOf(t)), Store(t, rec)
  PROVE  /\ Register(cases', case_id_counter') /\ Len(cases') = Len(OpenedCases(t))
         /\ \A i \in 1..Len(OpenedCases(t)) :
              cases'[i] = IF i = Slot(t) THEN rec ELSE OpenedCases(t)[i]
<1> DEFINE table == OpenedCases(t)
           k == Slot(t)
           counter == case_id_counter'
<1>1. CountId(t) /\ cases' = [table EXCEPT ![k] = rec]
  BY DEF Store
<1>2. Register(table, counter) /\ k \in 1..Len(table)
  BY <1>1, OpenKeepsRegister
<1>3. SameCase(rec, table[k])
  BY DEF CaseOf
<1> HIDE DEF table, k, counter
<1>4. Rewritten([table EXCEPT ![k] = rec], table, counter, k, rec)
  BY <1>2, <1>3, RewriteKeepsRegister
<1> QED
  BY <1>1, <1>4 DEF table, k, counter, Rewritten

(* Storing a rewritten case keeps the invariant, if the case still tells   *)
(* its enforcements.                                                       *)
LEMMA StoreKeepsIInv ==
  ASSUME IInv, NEW t \in Targets, HasRoom(t), NEW rec, SameCase(rec, CaseOf(t)), Store(t, rec),
         NEW n \in Nat, Told(rec, n), claimed' = [claimed EXCEPT ![t] = n], Numbers'
  PROVE  IInv'
<1> DEFINE table == OpenedCases(t)
           k == Slot(t)
<1>1. CountId(t)
  BY DEF Store
<1>2. /\ Register(table, case_id_counter') /\ k \in 1..Len(table)
      /\ table[k] \in CaseType /\ table[k].target = t
  BY <1>1, OpenKeepsRegister DEF IInv
<1>3. AllTold(table, claimed) /\ Unopened(table, claimed)
  BY <1>1, OpenTells
<1>4. SameCase(rec, table[k])
  BY DEF CaseOf
<1>5. /\ Register(cases', case_id_counter') /\ Len(cases') = Len(table)
      /\ \A i \in 1..Len(table) : cases'[i] = IF i = k THEN rec ELSE table[i]
  BY StoreKeepsRegister DEF IInv
<1> HIDE DEF table, k
<1>6. claimed' \in [Targets -> Nat] /\ claimed'[t] = n /\ \A u \in Targets : u # t => claimed'[u] = claimed[u]
  BY DEF IInv
<1>7. rec.target = t
  BY <1>2, <1>4 DEF SameCase
<1>8. \A i \in 1..Len(table) : i # k => table[i].target # t /\ table[i].target \in Targets
  <2>1. \A i \in 1..Len(table) : table[i] \in CaseType
    BY <1>2 DEF Register
  <2>2. \A i \in 1..Len(table) : i # k => table[i].target # table[k].target
    BY <1>2 DEF Register
  <2> QED BY <1>2, <2>1, <2>2 DEF CaseType
<1>9. AllTold(cases', claimed')
  BY <1>3, <1>5, <1>6, <1>7, <1>8 DEF AllTold
<1>10. Unopened(cases', claimed')
  <2> SUFFICES ASSUME NEW u \in Targets, \A i \in 1..Len(table) : cases'[i].target # u
               PROVE  claimed'[u] = 0
    BY <1>5 DEF Unopened
  <2>1. u # t
    BY <1>2, <1>5, <1>7
  <2>2. \A i \in 1..Len(table) : table[i].target # u
    BY <1>2, <1>5, <2>1
  <2> QED BY <1>3, <1>6, <2>1, <2>2 DEF Unopened
<1> QED
  BY <1>5, <1>6, <1>9, <1>10 DEF IInv

(* The case returned is one, and tells the target's enforcements.          *)
LEMMA CaseOfTells ==
  ASSUME IInv, NEW t \in Targets, HasRoom(t), CountId(t)
  PROVE  CaseOf(t) \in CaseType /\ CaseOf(t).target = t /\ Told(CaseOf(t), claimed[t])
<1>1. /\ Slot(t) \in 1..Len(OpenedCases(t))
      /\ OpenedCases(t)[Slot(t)] \in CaseType /\ OpenedCases(t)[Slot(t)].target = t
  BY OpenKeepsRegister DEF IInv
<1> QED
  BY <1>1, OpenTells DEF CaseOf, AllTold

-----------------------------------------------------------------------------
(* The steps.                                                              *)

(* The empty table satisfies the invariant.                                *)
LEMMA InitIInv == Init => IInv
<1> SUFFICES ASSUME Init PROVE IInv
  OBVIOUS
<1>1. cases = <<>> /\ Len(cases) = 0 /\ cases \in Seq(CaseType)
  BY DEF Init
<1>2. Numbers /\ claimed \in [Targets -> Nat] /\ \A t \in Targets : claimed[t] = 0
  BY DEF Init, Numbers, claimed
<1> QED
  BY <1>1, <1>2, CensorAssumption DEF Init, IInv, Register, AllTold, Unopened

(* A call that leaves the table alone keeps the invariant.                 *)
LEMMA SameBook == IInv /\ UNCHANGED book => IInv'
BY HistorySame DEF IInv, Register, AllTold, Unopened, book

(* An enforcement that stops after relabelling the case, denied or         *)
(* throwing, keeps the invariant.                                          *)
LEMMA RelabelKeepsIInv ==
  ASSUME IInv, NEW t \in Targets, HasRoom(t),
         NEW mode \in AllModes, NEW zero \in BOOLEAN,
         Store(t, Noted(t, mode, zero)), UNCHANGED history
  PROVE  IInv'
<1> DEFINE rec == Noted(t, mode, zero)
<1>1. CaseOf(t) \in CaseType /\ Told(CaseOf(t), claimed[t]) /\ claimed[t] \in Nat
  BY CaseOfTells DEF Store, IInv
<1>2. rec = [CaseOf(t) EXCEPT !.mode = mode, !.zero_tolerance = zero]
  BY DEF Noted, CaseOf
<1>3. SameCase(rec, CaseOf(t)) /\ Told(rec, claimed[t])
  <2> DEFINE c == CaseOf(t)
             h == claimed[t]
  <2>1. c \in CaseType /\ h \in Nat /\ Told(c, h)
    BY <1>1
  <2> HIDE DEF c, h
  <2>2. /\ SameCase([c EXCEPT !.mode = mode, !.zero_tolerance = zero], c)
        /\ Told([c EXCEPT !.mode = mode, !.zero_tolerance = zero], h)
    BY <2>1, RelabelTells
  <2> QED BY <1>2, <2>2 DEF c, h
<1>4. claimed' = [claimed EXCEPT ![t] = claimed[t]] /\ Numbers'
  BY HistorySame DEF IInv
<1> QED
  BY <1>1, <1>3, <1>4, StoreKeepsIInv

(* An enforcement that fired keeps the invariant.                          *)
LEMMA ConcludeKeepsIInv ==
  ASSUME IInv, NEW t \in Targets, HasRoom(t), NEW rec, NEW call,
         Counted(rec, CaseOf(t)), Conclude(t, rec), CountHit(t)
  PROVE  IInv'
<1>1. Store(t, Concluded(rec))
  BY DEF Conclude, Concluded
<1>2. CaseOf(t) \in CaseType /\ Told(CaseOf(t), claimed[t]) /\ claimed[t] \in Nat
  BY <1>1, CaseOfTells DEF Store, IInv
<1>3. SameCase(Concluded(rec), CaseOf(t)) /\ Told(Concluded(rec), claimed[t] + 1)
  BY <1>2, ConcludedTells
<1>4. claimed' = [claimed EXCEPT ![t] = claimed[t] + 1] /\ claimed[t] + 1 \in Nat /\ Numbers'
  BY <1>2, HitClaims DEF IInv
<1> QED
  BY <1>1, <1>3, <1>4, StoreKeepsIInv

(* The count of a case stays within its byte.                              *)
LEMMA IncrementTyped ==
  ASSUME NEW n \in Nat
  PROVE  Increment(n) \in 0..(COUNT_RANGE - 1)
BY CensorAssumption, Division DEF Increment

(* What enforce writes before the receipt counts the case once.            *)
LEMMA FiresCounts ==
  ASSUME NEW t \in Targets, CaseOf(t) \in CaseType, NEW mode \in AllModes,
         NEW gl \in {"EXECUTED", "RE_ENGAGED"}
  PROVE  Counted([Noted(t, mode, FALSE) EXCEPT
                    !.count = Increment(Noted(t, mode, FALSE).count),
                    !.executed = TRUE, !.gl_state = gl], CaseOf(t))
<1>1. Noted(t, mode, FALSE) = [CaseOf(t) EXCEPT !.mode = mode, !.zero_tolerance = FALSE]
  BY DEF Noted, CaseOf
<1>2. CaseOf(t).count \in Nat
  BY CensorAssumption DEF CaseType
<1>3. Increment(CaseOf(t).count) \in 0..(COUNT_RANGE - 1)
  BY <1>2, IncrementTyped
<1> QED
  BY <1>1, <1>3 DEF Counted, SameCase, CaseType

(* What enforce_zero_tolerance writes first counts the case once.          *)
LEMMA TerminationCounts ==
  ASSUME NEW t \in Targets, CaseOf(t) \in CaseType
  PROVE  Counted(Terminated(t), CaseOf(t))
<1>1. Noted(t, "TERMINATE", TRUE) =
        [CaseOf(t) EXCEPT !.mode = "TERMINATE", !.zero_tolerance = TRUE]
  BY DEF Noted, CaseOf
<1>2. CaseOf(t).count \in Nat
  BY CensorAssumption DEF CaseType
<1>3. Increment(CaseOf(t).count) \in 0..(COUNT_RANGE - 1)
  BY <1>2, IncrementTyped
<1> QED
  BY <1>1, <1>3 DEF Terminated, Counted, SameCase, CaseType, AllModes

(* Every call of enforce keeps the invariant.                              *)
LEMMA EnforceKeepsIInv ==
  ASSUME IInv, NEW t \in Targets, NEW mode \in Modes, NEW says \in ErmSays,
         Enforce(t, mode, says)
  PROVE  IInv'
<1>0. mode \in AllModes
  BY CensorAssumption
<1>1. CASE EnforceUnauthorised(t, says) \/ EnforceNoRoom(t, says)
  BY <1>1, SameBook DEF EnforceUnauthorised, EnforceNoRoom
<1>2. CASE EnforcePurgeDenied(t, says)
  BY <1>2, RelabelKeepsIInv DEF EnforcePurgeDenied, AllModes
<1>3. CASE EnforceThrows(t, mode, says)
  BY <1>0, <1>3, RelabelKeepsIInv DEF EnforceThrows
<1>4. CASE EnforceFires(t, mode, says)
  <2> DEFINE count == Increment(Noted(t, mode, FALSE).count)
             gl == IF count = 1 THEN "EXECUTED" ELSE "RE_ENGAGED"
             rec == [Noted(t, mode, FALSE) EXCEPT
                       !.count = count, !.executed = TRUE, !.gl_state = gl]
  <2>1. HasRoom(t) /\ Conclude(t, rec) /\ CountHit(t)
    BY <1>4 DEF EnforceFires
  <2>2. CountId(t)
    BY <2>1 DEF Conclude, Store
  <2>3. CaseOf(t) \in CaseType
    BY <2>1, <2>2, CaseOfTells
  <2>4. Counted(rec, CaseOf(t))
    BY <1>0, <2>3, FiresCounts
  <2> QED BY <2>1, <2>4, ConcludeKeepsIInv
<1> QED
  BY <1>1, <1>2, <1>3, <1>4 DEF Enforce

(* Every call of enforce_zero_tolerance keeps the invariant.               *)
LEMMA ZeroToleranceKeepsIInv ==
  ASSUME IInv, NEW t \in Targets, NEW incident, EnforceZeroTolerance(t, incident)
  PROVE  IInv'
<1>1. CASE ZeroToleranceDenied(t, incident)
  BY <1>1, SameBook DEF ZeroToleranceDenied
<1>2. CASE ZeroToleranceThrows(t, incident)
  <2>1. HasRoom(t) /\ t \in Unnumbered /\ Store(t, Terminated(t)) /\ CountThrow(t)
    BY <1>2 DEF ZeroToleranceThrows, Throws
  <2>2. /\ CaseOf(t) \in CaseType /\ CaseOf(t).target = t
        /\ Told(CaseOf(t), claimed[t]) /\ claimed[t] \in Nat
    BY <2>1, CaseOfTells DEF Store, IInv
  <2>3. Counted(Terminated(t), CaseOf(t))
    BY <2>2, TerminationCounts
  <2>4. Told(Terminated(t), claimed[t] + 1)
    BY <2>1, <2>2, <2>3, ThrownTells
  <2>5. claimed' = [claimed EXCEPT ![t] = claimed[t] + 1] /\ claimed[t] + 1 \in Nat /\ Numbers'
    BY <2>1, <2>2, ThrowClaims DEF IInv
  <2> QED BY <2>1, <2>3, <2>4, <2>5, StoreKeepsIInv DEF Counted
<1>3. CASE ZeroTolerance(t, incident)
  <2>1. HasRoom(t) /\ Conclude(t, Terminated(t)) /\ CountHit(t)
    BY <1>3 DEF ZeroTolerance
  <2>2. CountId(t)
    BY <2>1 DEF Conclude, Store
  <2>3. CaseOf(t) \in CaseType
    BY <2>1, <2>2, CaseOfTells
  <2> QED BY <2>1, <2>3, TerminationCounts, ConcludeKeepsIInv
<1> QED
  BY <1>1, <1>2, <1>3 DEF EnforceZeroTolerance

(* A receipt asked for by a caller keeps the invariant.                    *)
LEMMA ReportKeepsIInv ==
  ASSUME IInv, NEW id, ReportToJudge(id)
  PROVE  IInv'
<1> DEFINE Noticed(c) == IF c.id = id THEN [c EXCEPT !.judge_notified = TRUE] ELSE c
<1>1. cases' = [i \in 1..Len(cases) |-> Noticed(cases[i])]
      /\ case_id_counter' = case_id_counter /\ claimed' = claimed /\ Numbers'
  BY HistorySame DEF ReportToJudge, Cases, IInv
<1>2. ASSUME NEW c \in CaseType
      PROVE  SameCase(Noticed(c), c) /\ \A h \in Nat : Told(c, h) => Told(Noticed(c), h)
  <2>1. CASE c.id = id
    <3>1. /\ Noticed(c) \in CaseType /\ Noticed(c).judge_notified
          /\ Noticed(c).id = c.id /\ Noticed(c).target = c.target
          /\ Noticed(c).count = c.count /\ Noticed(c).executed = c.executed
          /\ Noticed(c).escalated = c.escalated /\ Noticed(c).gl_state = c.gl_state
      BY <2>1 DEF CaseType
    <3> QED BY <3>1 DEF SameCase, Told
  <2>2. CASE c.id # id
    BY <2>2 DEF SameCase
  <2> QED BY <2>1, <2>2
<1> HIDE DEF Noticed
<1>3. Len(cases) \in Nat /\ \A i \in 1..Len(cases) : cases[i] \in CaseType
  BY DEF IInv, Register
<1>4. \A i \in 1..Len(cases) : SameCase(cases'[i], cases[i])
  BY <1>1, <1>2, <1>3
<1>5. cases' \in Seq(CaseType) /\ Len(cases') = Len(cases)
  BY <1>1, <1>2, <1>3 DEF SameCase
<1>6. Register(cases', case_id_counter')
  <2>1. /\ Len(cases) <= MAX_CASE_RECORDS /\ case_id_counter' \in Nat
        /\ \A i \in 1..Len(cases) : cases[i].id < case_id_counter'
        /\ \A i, j \in 1..Len(cases) : i < j =>
             cases[i].target # cases[j].target /\ cases[i].id < cases[j].id
    BY <1>1 DEF IInv, Register
  <2>2. \A i \in 1..Len(cases) :
          cases'[i].id = cases[i].id /\ cases'[i].target = cases[i].target
    BY <1>4 DEF SameCase
  <2> QED BY <1>5, <2>1, <2>2 DEF Register
<1>7. AllTold(cases', claimed')
  <2> SUFFICES ASSUME NEW i \in 1..Len(cases)
               PROVE  Told(cases'[i], claimed[cases'[i].target])
    BY <1>1, <1>5 DEF AllTold
  <2>1. cases'[i] = Noticed(cases[i]) /\ cases'[i].target = cases[i].target
    BY <1>1, <1>4 DEF SameCase
  <2>2. claimed[cases[i].target] \in Nat
    BY <1>3 DEF IInv, CaseType
  <2>3. Told(cases[i], claimed[cases[i].target])
    BY DEF IInv, AllTold
  <2> QED BY <1>2, <1>3, <2>1, <2>2, <2>3
<1>8. Unopened(cases', claimed')
  BY <1>1, <1>4, <1>5 DEF IInv, Unopened, SameCase
<1> QED
  BY <1>1, <1>6, <1>7, <1>8 DEF IInv

(* shutdown empties the table.                                             *)
LEMMA ShutdownKeepsIInv == IInv /\ Shutdown => IInv'
<1> SUFFICES ASSUME IInv, Shutdown PROVE IInv'
  OBVIOUS
<1>1. cases' = <<>> /\ Len(cases') = 0 /\ cases' \in Seq(CaseType)
  BY DEF Shutdown
<1>2. Numbers' /\ claimed' \in [Targets -> Nat] /\ (\A t \in Targets : claimed'[t] = 0)
      /\ case_id_counter' = case_id_counter
  BY DEF Shutdown, Numbers, claimed
<1> QED
  BY <1>1, <1>2, CensorAssumption DEF IInv, Register, AllTold, Unopened

(* Every step keeps the invariant.                                         *)
LEMMA StepKeepsIInv == IInv /\ [Next]_vars => IInv'
<1> SUFFICES ASSUME IInv, [Next]_vars PROVE IInv'
  OBVIOUS
<1>1. CASE UNCHANGED vars
  BY <1>1, SameBook DEF vars, book
<1>2. ASSUME NEW t \in Targets, NEW mode \in Modes, NEW says \in ErmSays,
             Enforce(t, mode, says)
      PROVE  IInv'
  BY <1>2, EnforceKeepsIInv
<1>3. ASSUME NEW t \in Targets, PurgeDenied(t)
      PROVE  IInv'
  BY <1>3, SameBook DEF PurgeDenied
<1>4. ASSUME NEW t \in Targets, NEW incident \in Incidents, EnforceZeroTolerance(t, incident)
      PROVE  IInv'
  BY <1>4, ZeroToleranceKeepsIInv
<1>5. ASSUME NEW id \in CaseIds \cup {0}, ReportToJudge(id)
      PROVE  IInv'
  BY <1>5, ReportKeepsIInv
<1>6. ASSUME NEW t \in Targets, EscalateByHand(t, IdOf(t))
      PROVE  IInv'
  BY <1>6, SameBook DEF EscalateByHand
<1>7. CASE Shutdown
  BY <1>7, ShutdownKeepsIInv
<1> QED BY <1>1, <1>2, <1>3, <1>4, <1>5, <1>6, <1>7 DEF Next

(* The invariant holds in every behaviour.                                 *)
THEOREM CaseBook == Spec => []IInv
<1>1. Init => IInv
  BY InitIInv
<1> QED
  BY <1>1, StepKeepsIInv, PTL DEF Spec

(* No target ever has two cases, ids grow with the slots, and the table    *)
(* stays within its array (censor.cpp 429-455).                            *)
THEOREM OneCase == Spec => []OneCasePerTarget
<1>1. IInv => OneCasePerTarget
  BY DEF IInv, Register, Unopened, OneCasePerTarget, Known, Cases
<1> QED
  BY <1>1, CaseBook, PTL

(* A repeat offender is escalated at the threshold, not before and not     *)
(* again, whatever calls led there (censor.cpp 184-191, 237-244).          *)
THEOREM Escalation == Spec => []EscalatedIffRepeat
<1>1. IInv => EscalatedIffRepeat
  <2> SUFFICES ASSUME IInv, NEW i \in Cases, cases[i].target \notin Unnumbered
               PROVE  cases[i].escalated <=> hits[cases[i].target] >= CASE_ESCALATE_AT
    BY DEF EscalatedIffRepeat
  <2>1. cases[i].target \in Targets
    <3>1. cases[i] \in CaseType
      BY DEF IInv, Register, Cases
    <3> QED BY <3>1 DEF CaseType
  <2>2. claimed[cases[i].target] = hits[cases[i].target]
    BY <2>1 DEF IInv, Numbers, claimed
  <2> QED BY <2>2 DEF IInv, AllTold, Told, Cases
<1> QED
  BY <1>1, CaseBook, PTL

-----------------------------------------------------------------------------
(* Types.                                                                  *)

SitTypes ==
  /\ sit_ops \in Seq(OperationType) /\ op_id_counter \in Nat
  /\ throttled \subseteq Targets /\ invalidated \subseteq Targets

(* Opening an operation keeps the list typed.                              *)
LEMMA OperationTyped ==
  ASSUME SitTypes, NEW t \in Targets, NEW id \in Nat, NEW count \in 0..(COUNT_RANGE - 1),
         NEW opener \in {"censor", "caller"}, OpenOperation(t, id, count, opener)
  PROVE  sit_ops' \in Seq(OperationType) /\ op_id_counter' \in Nat
<1>1. Operation(t, id, count, opener) \in OperationType
  BY DEF SitTypes, Operation, OperationType
<1> DEFINE op == Operation(t, id, count, opener)
<1>2. \/ sit_ops' = Append(sit_ops, op) /\ op_id_counter' = op_id_counter + 1
      \/ sit_ops' = sit_ops /\ op_id_counter' = op_id_counter
  BY DEF OpenOperation, sit
<1> HIDE DEF op
<1>3. op \in OperationType
  BY <1>1 DEF op
<1> QED
  BY <1>2, <1>3 DEF SitTypes

(* Concluding an enforcement keeps the list typed.                         *)
LEMMA ConcludeTyped ==
  ASSUME SitTypes, NEW t \in Targets, NEW rec \in CaseType, Conclude(t, rec)
  PROVE  sit_ops' \in Seq(OperationType) /\ op_id_counter' \in Nat
<1>1. rec.id \in Nat /\ rec.count \in 0..(COUNT_RANGE - 1)
  BY DEF CaseType
<1>2. CASE UNCHANGED sit
  BY <1>2 DEF SitTypes, sit
<1>3. CASE OpenOperation(t, rec.id, rec.count, "censor")
  BY <1>1, <1>3, OperationTyped
<1> QED
  BY <1>2, <1>3 DEF Conclude

(* Cutting a target off keeps the sets of targets typed.                   *)
LEMMA SanctionTyped ==
  ASSUME SitTypes, NEW t \in Targets, NEW mode, Sanction(t, mode)
  PROVE  throttled' \subseteq Targets /\ invalidated' \subseteq Targets
BY DEF SitTypes, Sanction

(* A caller finds a case's id and count in the table.                      *)
LEMMA AskedFor ==
  ASSUME IInv, NEW t \in Targets
  PROVE  IdOf(t) \in Nat /\ CountOf(t) \in 0..(COUNT_RANGE - 1)
<1>1. \A i \in Cases : cases[i] \in CaseType
  BY DEF IInv, Register, Cases
<1>2. IdOf(t) \in Nat
  <2>1. CASE Known(t)
    <3>1. cases[FirstCase(t)] \in CaseType
      BY <1>1, <2>1, FirstCaseFinds DEF IInv
    <3> QED BY <2>1, <3>1 DEF IdOf, CaseType
  <2>2. CASE ~ Known(t)
    BY <2>2 DEF IdOf
  <2> QED BY <2>1, <2>2
<1>3. CountOf(t) \in 0..(COUNT_RANGE - 1)
  <2>1. CASE Known(t)
    BY <1>1, <2>1, FirstCaseFinds DEF CountOf, IInv, CaseType
  <2>2. CASE ~ Known(t)
    BY <2>2, CensorAssumption DEF CountOf
  <2> QED BY <2>1, <2>2
<1> QED
  BY <1>2, <1>3

(* Every step keeps the operations and the outside effects typed.          *)
LEMMA StepKeepsSitTypes == IInv /\ SitTypes /\ [Next]_vars => SitTypes'
<1> SUFFICES ASSUME IInv, SitTypes, [Next]_vars PROVE SitTypes'
  OBVIOUS
<1>0. UNCHANGED <<sit, outside>> => SitTypes'
  BY DEF SitTypes, sit, outside
<1>1. CASE UNCHANGED vars
  BY <1>0, <1>1 DEF vars, sit, outside
<1>2. ASSUME NEW t \in Targets, NEW mode \in Modes, NEW says \in ErmSays,
             Enforce(t, mode, says)
      PROVE  SitTypes'
  <2>1. CASE EnforceFires(t, mode, says)
    <3> DEFINE count == Increment(Noted(t, mode, FALSE).count)
               gl == IF count = 1 THEN "EXECUTED" ELSE "RE_ENGAGED"
               rec == [Noted(t, mode, FALSE) EXCEPT
                         !.count = count, !.executed = TRUE, !.gl_state = gl]
    <3>1. HasRoom(t) /\ Conclude(t, rec) /\ Sanction(t, mode)
      BY <2>1 DEF EnforceFires
    <3>2. CaseOf(t) \in CaseType
      BY <3>1, CaseOfTells DEF Conclude, Store
    <3>3. rec \in CaseType
      BY <3>2, FiresCounts, CensorAssumption DEF Counted, SameCase
    <3> QED BY <3>1, <3>3, ConcludeTyped, SanctionTyped DEF SitTypes
  <2> QED BY <1>0, <1>2, <2>1
     DEF Enforce, EnforceUnauthorised, EnforceNoRoom, EnforcePurgeDenied, EnforceThrows
<1>3. ASSUME NEW t \in Targets, PurgeDenied(t)
      PROVE  SitTypes'
  BY <1>0, <1>3 DEF PurgeDenied
<1>4. ASSUME NEW t \in Targets, NEW incident \in Incidents, EnforceZeroTolerance(t, incident)
      PROVE  SitTypes'
  <2>1. CASE ZeroTolerance(t, incident)
    <3>1. HasRoom(t) /\ Conclude(t, Terminated(t)) /\ Sanction(t, "TERMINATE")
      BY <2>1 DEF ZeroTolerance
    <3>2. CaseOf(t) \in CaseType
      BY <3>1, CaseOfTells DEF Conclude, Store
    <3>3. Terminated(t) \in CaseType
      BY <3>2, TerminationCounts DEF Counted, SameCase
    <3> QED BY <3>1, <3>3, ConcludeTyped, SanctionTyped DEF SitTypes
  <2> QED BY <1>0, <1>4, <2>1 DEF EnforceZeroTolerance, ZeroToleranceDenied, ZeroToleranceThrows
<1>5. ASSUME NEW id \in CaseIds \cup {0}, ReportToJudge(id)
      PROVE  SitTypes'
  BY <1>0, <1>5 DEF ReportToJudge
<1>6. ASSUME NEW t \in Targets, EscalateByHand(t, IdOf(t))
      PROVE  SitTypes'
  <2>1. OpenOperation(t, IdOf(t), CountOf(t), "caller") /\ UNCHANGED outside
    BY <1>6 DEF EscalateByHand
  <2> QED BY <2>1, AskedFor, OperationTyped DEF SitTypes, outside
<1>7. CASE Shutdown
  BY <1>7 DEF Shutdown, SitTypes, outside
<1> QED
  BY <1>1, <1>2, <1>3, <1>4, <1>5, <1>6, <1>7 DEF Next

(* Every variable keeps its type.                                          *)
THEOREM Typing == Spec => []TypeOK
<1>1. Init => SitTypes
  BY DEF Init, SitTypes
<1>2. IInv /\ SitTypes => TypeOK
  BY DEF IInv, Register, Numbers, SitTypes, TypeOK
<1> QED
  BY <1>1, <1>2, CaseBook, StepKeepsSitTypes, PTL DEF Spec

-----------------------------------------------------------------------------
(* What a call may not undo, and what a refused call may not do.           *)

\* The table after a case was stored in it: the other slots are as before,
\* and a new slot held the case that was opened.
LEMMA StoreShape ==
  ASSUME IInv, NEW t \in Targets, HasRoom(t), NEW rec, Store(t, rec)
  PROVE  /\ Cases \subseteq DOMAIN cases'
         /\ Slot(t) \in DOMAIN cases' /\ cases'[Slot(t)] = rec
         /\ \A i \in Cases : cases'[i] = IF i = Slot(t) THEN rec ELSE cases[i]
         /\ Slot(t) \in Cases => CaseOf(t) = cases[Slot(t)]
         /\ \A i \in DOMAIN cases' \ Cases :
              i = Slot(t) /\ cases'[i] = rec /\ CaseOf(t) = NewCase(t)
<1>0. Len(cases) \in Nat /\ cases \in Seq(CaseType)
  BY DEF IInv, Register
<1>1. cases' = [OpenedCases(t) EXCEPT ![Slot(t)] = rec]
  BY DEF Store
<1>2. CASE Known(t)
  <2>1. OpenedCases(t) = cases /\ DOMAIN cases' = Cases
    BY <1>0, <1>1, <1>2 DEF OpenedCases, Cases
  <2>2. Slot(t) \in Cases
    BY <1>2, FirstCaseFinds DEF Slot, IInv
  <2> QED BY <1>0, <1>1, <2>1, <2>2 DEF CaseOf, Cases
<1>3. CASE ~ Known(t)
  <2> DEFINE new == NewCase(t)
  <2>1. OpenedCases(t) = Append(cases, new) /\ Slot(t) = Len(cases) + 1
    BY <1>3 DEF OpenedCases, Slot
  <2>2. new \in CaseType
    BY CensorAssumption DEF NewCase, CaseType, AllModes, IInv, Register
  <2>3. CaseOf(t) = new
    <3> HIDE DEF new
    <3> QED BY <1>0, <2>1, <2>2 DEF CaseOf
  <2> HIDE DEF new
  <2>4. /\ DOMAIN Append(cases, new) = 1..(Len(cases) + 1)
        /\ \A i \in Cases : Append(cases, new)[i] = cases[i]
    BY <1>0, <2>2 DEF Cases
  <2>5. DOMAIN cases' = 1..(Len(cases) + 1)
    BY <1>1, <2>1, <2>4
  <2>6. \A i \in Cases : i # Slot(t)
    BY <1>0, <2>1 DEF Cases
  <2>7. \A i \in DOMAIN cases' \ Cases : i = Slot(t)
    BY <1>0, <2>1, <2>5 DEF Cases
  <2>8. \A i \in DOMAIN cases' : cases'[i] = IF i = Slot(t) THEN rec ELSE Append(cases, new)[i]
    BY <1>1, <2>1, <2>4, <2>5
  <2>9. Cases \subseteq DOMAIN cases'
    BY <1>0, <2>5 DEF Cases
  <2>10. Slot(t) \in DOMAIN cases'
    BY <1>0, <2>1, <2>5
  <2> QED BY <2>3, <2>4, <2>6, <2>7, <2>8, <2>9, <2>10 DEF new
<1> QED
  BY <1>2, <1>3

\* A case that forgets nothing of another.
Remembers(new, old) ==
  /\ new.id = old.id /\ new.target = old.target
  /\ old.executed => new.executed
  /\ old.escalated => new.escalated
  /\ old.judge_notified => new.judge_notified

\* The body of HistoryPreserved.
NothingForgotten == \A i \in Cases : i \in DOMAIN cases' /\ Remembers(cases'[i], cases[i])

LEMMA StoreRemembers ==
  ASSUME IInv, NEW t \in Targets, HasRoom(t), NEW rec, Remembers(rec, CaseOf(t)), Store(t, rec)
  PROVE  NothingForgotten
BY StoreShape DEF NothingForgotten, Remembers

LEMMA RelabelRemembers ==
  ASSUME IInv, NEW t \in Targets, HasRoom(t), NEW mode, NEW zero, Store(t, Noted(t, mode, zero))
  PROVE  NothingForgotten
<1>1. CaseOf(t) \in CaseType
  BY CaseOfTells DEF Store
<1>2. Remembers([CaseOf(t) EXCEPT !.mode = mode, !.zero_tolerance = zero], CaseOf(t))
  BY <1>1 DEF Remembers, CaseType
<1> QED
  BY <1>2, StoreRemembers DEF Noted, CaseOf

LEMMA ConcludeRemembers ==
  ASSUME IInv, NEW t \in Targets, HasRoom(t), NEW rec, Counted(rec, CaseOf(t)), Conclude(t, rec)
  PROVE  NothingForgotten
<1>1. Store(t, Concluded(rec))
  BY DEF Conclude, Concluded
<1>2. rec \in CaseType
  BY DEF Counted, SameCase
<1>3. /\ Concluded(rec).id = rec.id /\ Concluded(rec).target = rec.target
      /\ Concluded(rec).executed = rec.executed /\ Concluded(rec).judge_notified
      /\ rec.escalated => Concluded(rec).escalated
  BY <1>2 DEF Concluded, CaseType
<1>4. Remembers(Concluded(rec), CaseOf(t))
  BY <1>3 DEF Counted, SameCase, Remembers
<1> QED
  BY <1>1, <1>4, StoreRemembers

LEMMA SameRemembers == UNCHANGED cases /\ cases \in Seq(CaseType) => NothingForgotten
BY DEF NothingForgotten, Remembers, Cases

(* Every call but shutdown forgets nothing.                                *)
LEMMA StepRemembers == IInv /\ [Next]_vars /\ answer' # "void" => NothingForgotten \/ UNCHANGED vars
<1> SUFFICES ASSUME IInv, Next, answer' # "void" PROVE NothingForgotten
  OBVIOUS
<1>0. UNCHANGED book => NothingForgotten
  BY SameRemembers DEF book, IInv, Register
<1>1. ASSUME NEW t \in Targets, NEW mode \in Modes, NEW says \in ErmSays, Enforce(t, mode, says)
      PROVE  NothingForgotten
  <2>1. CASE EnforceUnauthorised(t, says) \/ EnforceNoRoom(t, says)
    BY <1>0, <2>1 DEF EnforceUnauthorised, EnforceNoRoom
  <2>2. CASE EnforcePurgeDenied(t, says) \/ EnforceThrows(t, mode, says)
    BY <2>2, RelabelRemembers DEF EnforcePurgeDenied, EnforceThrows
  <2>3. CASE EnforceFires(t, mode, says)
    <3> DEFINE count == Increment(Noted(t, mode, FALSE).count)
               gl == IF count = 1 THEN "EXECUTED" ELSE "RE_ENGAGED"
               rec == [Noted(t, mode, FALSE) EXCEPT
                         !.count = count, !.executed = TRUE, !.gl_state = gl]
    <3>1. HasRoom(t) /\ Conclude(t, rec)
      BY <2>3 DEF EnforceFires
    <3>2. CaseOf(t) \in CaseType
      BY <3>1, CaseOfTells DEF Conclude, Store
    <3>3. Counted(rec, CaseOf(t))
      BY <3>2, FiresCounts, CensorAssumption
    <3> QED BY <3>1, <3>3, ConcludeRemembers
  <2> QED BY <1>1, <2>1, <2>2, <2>3 DEF Enforce
<1>2. ASSUME NEW t \in Targets, PurgeDenied(t) \/ EscalateByHand(t, IdOf(t))
      PROVE  NothingForgotten
  BY <1>0, <1>2 DEF PurgeDenied, EscalateByHand
<1>3. ASSUME NEW t \in Targets, NEW incident \in Incidents, EnforceZeroTolerance(t, incident)
      PROVE  NothingForgotten
  <2>1. CASE ZeroToleranceDenied(t, incident)
    BY <1>0, <2>1 DEF ZeroToleranceDenied
  <2>2. CASE ZeroToleranceThrows(t, incident)
    <3>1. HasRoom(t) /\ Store(t, Terminated(t))
      BY <2>2 DEF ZeroToleranceThrows
    <3>2. CaseOf(t) \in CaseType
      BY <3>1, CaseOfTells DEF Store
    <3>3. Remembers(Terminated(t), CaseOf(t))
      BY <3>2, TerminationCounts DEF Counted, SameCase, Remembers
    <3> QED BY <3>1, <3>3, StoreRemembers
  <2>3. CASE ZeroTolerance(t, incident)
    <3>1. HasRoom(t) /\ Conclude(t, Terminated(t))
      BY <2>3 DEF ZeroTolerance
    <3>2. CaseOf(t) \in CaseType
      BY <3>1, CaseOfTells DEF Conclude, Store
    <3> QED BY <3>1, <3>2, TerminationCounts, ConcludeRemembers
  <2> QED BY <1>3, <2>1, <2>2, <2>3 DEF EnforceZeroTolerance
<1>4. ASSUME NEW id \in CaseIds \cup {0}, ReportToJudge(id)
      PROVE  NothingForgotten
  <2>1. cases' = [i \in Cases |->
                    IF cases[i].id = id THEN [cases[i] EXCEPT !.judge_notified = TRUE] ELSE cases[i]]
    BY <1>4 DEF ReportToJudge
  <2>2. \A i \in Cases : cases[i] \in CaseType
    BY DEF IInv, Register, Cases
  <2>3. \A c \in CaseType : Remembers(c, c) /\ Remembers([c EXCEPT !.judge_notified = TRUE], c)
    BY DEF Remembers, CaseType
  <2> QED BY <2>1, <2>2, <2>3 DEF NothingForgotten
<1>5. CASE Shutdown
  BY <1>5 DEF Shutdown, Return
<1> QED
  BY <1>1, <1>2, <1>3, <1>4, <1>5 DEF Next

(* Until shutdown a case keeps its slot, id, target and what was done to   *)
(* it, whatever calls follow (censor.cpp 166-167, 340-348).                *)
THEOREM HistoryKept == Spec => HistoryPreserved
<1>1. IInv /\ [Next]_vars =>
        [answer' # "void" =>
           \A i \in Cases :
             /\ i \in DOMAIN cases'
             /\ cases'[i].id = cases[i].id /\ cases'[i].target = cases[i].target
             /\ cases[i].executed => cases'[i].executed
             /\ cases[i].escalated => cases'[i].escalated
             /\ cases[i].judge_notified => cases'[i].judge_notified]_vars
  BY StepRemembers DEF NothingForgotten, Remembers
<1> QED
  BY <1>1, CaseBook, PTL DEF Spec, HistoryPreserved

-----------------------------------------------------------------------------
(* Receipts.                                                               *)

\* The judge has a receipt of each target on whom something was carried out.
Receipted == \A i \in Cases : hits[cases[i].target] > 0 => cases[i].judge_notified

(* Nothing is forgotten and whoever is hit is reported: then receipts stay *)
(* complete, a case just opened being that of a target never hit.          *)
LEMMA ReceiptsKept ==
  ASSUME IInv, IInv', Receipted, NothingForgotten,
         \A i \in Cases' : \/ hits'[cases'[i].target] = hits[cases'[i].target]
                          \/ cases'[i].judge_notified
  PROVE  Receipted'
<1> SUFFICES ASSUME NEW i \in Cases', ~ cases'[i].judge_notified, hits'[cases'[i].target] > 0
             PROVE  FALSE
  BY DEF Receipted
<1> DEFINE u == cases'[i].target
<1>0. /\ Cases = 1..Len(cases) /\ Cases' = 1..Len(cases') /\ DOMAIN cases' = Cases'
      /\ \A j \in Cases' : cases'[j] \in CaseType
  BY DEF IInv, Register, Cases
<1>1. hits[u] > 0 /\ u \in Targets
  BY <1>0 DEF CaseType
<1>2. CASE i \in Cases
  <2>1. cases[i].target = u /\ ~ cases[i].judge_notified
    BY <1>2 DEF NothingForgotten, Remembers
  <2> QED BY <1>1, <1>2, <2>1 DEF Receipted
<1>3. CASE i \notin Cases
  <2>1. \A j \in Cases : j \in Cases' /\ cases'[j].target = cases[j].target
    BY <1>0 DEF NothingForgotten, Remembers
  <2>2. \A j \in Cases : cases'[j].target # u
    <3> SUFFICES ASSUME NEW j \in Cases PROVE cases'[j].target # u
      OBVIOUS
    <3>1. j \in 1..Len(cases') /\ i \in 1..Len(cases') /\ j # i
      BY <1>0, <1>3, <2>1
    <3>2. j < i \/ i < j
      BY <3>1
    <3> QED BY <3>1, <3>2 DEF IInv, Register
  <2>3. claimed[u] = 0
    BY <1>0, <1>1, <2>1, <2>2 DEF IInv, Unopened
  <2>4. hits[u] + thrown[u] = 0 /\ hits[u] \in Nat /\ thrown[u] \in Nat
    BY <1>1, <2>3 DEF IInv, Numbers, claimed
  <2> QED BY <1>1, <2>4
<1> QED
  BY <1>2, <1>3

\* A call that carried something out on a target.
Carried(t) ==
  /\ HasRoom(t) /\ CountHit(t)
  /\ \E rec : Counted(rec, CaseOf(t)) /\ Conclude(t, rec)

(* Whoever is hit is reported in the same call (censor.cpp 181, 235).      *)
LEMMA CarriedReceipts ==
  ASSUME IInv, IInv', NEW t \in Targets, Carried(t)
  PROVE  \A i \in Cases' : \/ hits'[cases'[i].target] = hits[cases'[i].target]
                          \/ cases'[i].judge_notified
<1>1. PICK rec : Counted(rec, CaseOf(t)) /\ Conclude(t, rec)
  BY DEF Carried
<1>2. HasRoom(t) /\ CountHit(t)
  BY DEF Carried
<1>3. Store(t, Concluded(rec))
  BY <1>1 DEF Conclude, Concluded
<1>4. CaseOf(t) \in CaseType /\ CaseOf(t).target = t
  BY <1>2, <1>3, CaseOfTells DEF Store
<1>5. rec \in CaseType /\ rec.target = t
  BY <1>1, <1>4 DEF Counted, SameCase
<1>6. Concluded(rec).judge_notified /\ Concluded(rec).target = t
  BY <1>5 DEF Concluded, CaseType
<1>7. Slot(t) \in DOMAIN cases' /\ cases'[Slot(t)] = Concluded(rec)
  BY <1>2, <1>3, StoreShape
<1>8. SUFFICES ASSUME NEW i \in Cases', cases'[i].target = t
               PROVE  i = Slot(t)
  <2>1. \A i \in Cases' : cases'[i].target # t => hits'[cases'[i].target] = hits[cases'[i].target]
    BY <1>2 DEF CountHit, IInv, Numbers
  <2> QED BY <1>6, <1>7, <1>8, <2>1
<1>9. Slot(t) \in 1..Len(cases') /\ i \in 1..Len(cases')
  BY <1>7 DEF IInv, Register, Cases
<1>10. ~ (i < Slot(t)) /\ ~ (Slot(t) < i)
  BY <1>6, <1>7, <1>8, <1>9 DEF IInv, Register
<1> QED
  BY <1>9, <1>10

(* A step is shutdown, carries something out, or leaves the hits alone.    *)
LEMMA StepHits ==
  ASSUME IInv, Next
  PROVE  \/ Shutdown
         \/ answer' # "void" /\ UNCHANGED hits
         \/ answer' # "void" /\ \E t \in Targets : Carried(t)
<1> DEFINE Fits ==
      \/ Shutdown
      \/ answer' # "void" /\ UNCHANGED hits
      \/ answer' # "void" /\ \E t \in Targets : Carried(t)
<1>1. ASSUME NEW t \in Targets, NEW mode \in Modes, NEW says \in ErmSays, Enforce(t, mode, says)
      PROVE  Fits
  <2>1. CASE EnforceFires(t, mode, says)
    <3> DEFINE count == Increment(Noted(t, mode, FALSE).count)
               gl == IF count = 1 THEN "EXECUTED" ELSE "RE_ENGAGED"
               rec == [Noted(t, mode, FALSE) EXCEPT
                         !.count = count, !.executed = TRUE, !.gl_state = gl]
    <3>1. HasRoom(t) /\ Conclude(t, rec) /\ CountHit(t)
      BY <2>1 DEF EnforceFires
    <3>2. CaseOf(t) \in CaseType
      BY <3>1, CaseOfTells DEF Conclude, Store
    <3>3. Counted(rec, CaseOf(t))
      BY <3>2, FiresCounts, CensorAssumption
    <3> HIDE DEF rec
    <3>4. answer' # "void"
      BY <3>1 DEF Conclude, Return
    <3> QED BY <3>1, <3>3, <3>4 DEF Carried
  <2> QED BY <1>1, <2>1
     DEF Enforce, EnforceUnauthorised, EnforceNoRoom, EnforcePurgeDenied, EnforceThrows,
         book, history, Return
<1>2. ASSUME NEW t \in Targets, PurgeDenied(t) \/ EscalateByHand(t, IdOf(t))
      PROVE  Fits
  BY <1>2 DEF PurgeDenied, EscalateByHand, book, history, Return
<1>3. ASSUME NEW t \in Targets, NEW incident \in Incidents, EnforceZeroTolerance(t, incident)
      PROVE  Fits
  <2>1. CASE ZeroTolerance(t, incident)
    <3>1. HasRoom(t) /\ Conclude(t, Terminated(t)) /\ CountHit(t)
      BY <2>1 DEF ZeroTolerance
    <3>2. CaseOf(t) \in CaseType
      BY <3>1, CaseOfTells DEF Conclude, Store
    <3>3. Counted(Terminated(t), CaseOf(t))
      BY <3>2, TerminationCounts
    <3>4. answer' # "void"
      BY <3>1 DEF Conclude, Return
    <3> QED BY <3>1, <3>3, <3>4 DEF Carried
  <2> QED BY <1>3, <2>1
     DEF EnforceZeroTolerance, ZeroToleranceDenied, ZeroToleranceThrows, CountThrow,
         book, history, Return
<1>4. ASSUME NEW id \in CaseIds \cup {0}, ReportToJudge(id)
      PROVE  Fits
  BY <1>4 DEF ReportToJudge, history, Return
<1> QED
  BY <1>1, <1>2, <1>3, <1>4 DEF Next

LEMMA StepReceipts == IInv /\ Receipted /\ [Next]_vars => Receipted'
<1> SUFFICES ASSUME IInv, Receipted, [Next]_vars PROVE Receipted'
  OBVIOUS
<1>0. IInv'
  BY StepKeepsIInv
<1>1. CASE UNCHANGED vars
  BY <1>1 DEF vars, book, history, Receipted, Cases
<1>2. CASE Shutdown
  <2>1. Cases' = {}
    BY <1>2 DEF Shutdown, Cases
  <2> QED BY <2>1 DEF Receipted
<1>3. CASE Next /\ answer' # "void" /\ ~ UNCHANGED vars
  <2>1. NothingForgotten
    BY <1>3, StepRemembers
  <2>2. CASE UNCHANGED hits
    BY <1>0, <2>1, <2>2, ReceiptsKept
  <2>3. CASE \E t \in Targets : Carried(t)
    <3>1. \A i \in Cases' : \/ hits'[cases'[i].target] = hits[cases'[i].target]
                           \/ cases'[i].judge_notified
      BY <1>0, <2>3, CarriedReceipts
    <3> QED BY <1>0, <2>1, <3>1, ReceiptsKept
  <2>4. CASE Shutdown
    BY <1>2, <2>4
  <2> QED BY <1>3, <2>2, <2>3, <2>4, StepHits
<1> QED
  BY <1>1, <1>2, <1>3, StepHits

(* A case tells what was done: its record is the enforcements carried out  *)
(* plus the terminations that threw, which only an id that does not        *)
(* convert can have, and whoever was hit is reported (censor.cpp 163-181,  *)
(* 222-235).                                                               *)
THEOREM CasesTell == Spec => []CaseTellsTheHits
<1>1. Init => Receipted
  BY DEF Init, Receipted, Cases
<1>2. IInv /\ Receipted => CaseTellsTheHits
  <2> SUFFICES ASSUME IInv, Receipted, NEW i \in Cases
               PROVE  LET c == cases[i] IN
                 /\ c.count = claimed[c.target] % COUNT_RANGE
                 /\ c.executed <=> claimed[c.target] > 0
                 /\ c.target \notin Unnumbered => claimed[c.target] = hits[c.target]
                 /\ c.gl_state = "ACTIVE" <=> ~ c.executed
                 /\ c.gl_state = "ESCALATED" => c.escalated
                 /\ hits[c.target] > 0 => c.judge_notified
    BY DEF CaseTellsTheHits
  <2>1. Told(cases[i], claimed[cases[i].target])
    BY DEF IInv, AllTold, Cases
  <2>2. cases[i].target \in Targets
    <3>1. cases[i] \in CaseType
      BY DEF IInv, Register, Cases
    <3> QED BY <3>1 DEF CaseType
  <2>3. cases[i].target \notin Unnumbered =>
          claimed[cases[i].target] = hits[cases[i].target]
    BY <2>2 DEF IInv, Numbers, claimed
  <2> QED BY <2>1, <2>3 DEF Told, Receipted
<1> QED
  BY <1>1, <1>2, CaseBook, StepReceipts, PTL DEF Spec

-----------------------------------------------------------------------------
\* The second half of RefusedIsInert on the table: slots are at most
\* relabelled, and a new one has no enforcement.
OnlyRelabelled ==
  /\ \A i \in Cases : \E mode \in AllModes, zero \in BOOLEAN :
       cases'[i] = [cases[i] EXCEPT !.mode = mode, !.zero_tolerance = zero]
  /\ \A i \in DOMAIN cases' \ Cases : cases'[i].count = 0 /\ ~ cases'[i].executed

(* A case is a relabelling of itself.                                      *)
LEMMA SelfRelabelled ==
  ASSUME NEW c \in CaseType
  PROVE  \E mode \in AllModes, zero \in BOOLEAN :
           c = [c EXCEPT !.mode = mode, !.zero_tolerance = zero]
<1>1. c.mode \in AllModes /\ c.zero_tolerance \in BOOLEAN
      /\ c = [c EXCEPT !.mode = c.mode, !.zero_tolerance = c.zero_tolerance]
  BY DEF CaseType
<1> QED
  BY <1>1

LEMMA DeniedOnlyRelabels ==
  ASSUME IInv, NEW t \in Targets, HasRoom(t), NEW mode \in AllModes, NEW zero \in BOOLEAN,
         Store(t, Noted(t, mode, zero))
  PROVE  OnlyRelabelled
<1> DEFINE rec == Noted(t, mode, zero)
<1>1. rec = [CaseOf(t) EXCEPT !.mode = mode, !.zero_tolerance = zero]
  BY DEF Noted, CaseOf
<1> HIDE DEF rec
<1>2. /\ \A i \in Cases : cases'[i] = IF i = Slot(t) THEN rec ELSE cases[i]
      /\ Slot(t) \in Cases => CaseOf(t) = cases[Slot(t)]
      /\ \A i \in DOMAIN cases' \ Cases : cases'[i] = rec /\ CaseOf(t) = NewCase(t)
  BY StoreShape DEF rec
<1>3. ASSUME NEW i \in Cases
      PROVE  \E m \in AllModes, z \in BOOLEAN :
               cases'[i] = [cases[i] EXCEPT !.mode = m, !.zero_tolerance = z]
  <2>1. CASE i = Slot(t)
    BY <1>1, <1>2, <2>1
  <2>2. CASE i # Slot(t)
    <3>1. cases'[i] = cases[i] /\ cases[i] \in CaseType
      BY <1>2, <2>2 DEF IInv, Register, Cases
    <3> QED BY <3>1, SelfRelabelled
  <2> QED BY <2>1, <2>2
<1>4. ASSUME NEW i \in DOMAIN cases' \ Cases
      PROVE  cases'[i].count = 0 /\ ~ cases'[i].executed
  <2>1. cases'[i] = rec /\ CaseOf(t).count = 0 /\ ~ CaseOf(t).executed
    BY <1>2, <1>4 DEF NewCase
  <2>2. CaseOf(t) \in CaseType
    BY CaseOfTells DEF Store
  <2>3. rec.count = CaseOf(t).count /\ rec.executed = CaseOf(t).executed
    BY <1>1, <2>2 DEF CaseType
  <2> QED BY <2>1, <2>3
<1> QED
  BY <1>3, <1>4 DEF OnlyRelabelled

LEMMA SameOnlyRelabels == IInv /\ UNCHANGED cases => OnlyRelabelled
<1> SUFFICES ASSUME IInv, UNCHANGED cases PROVE OnlyRelabelled
  OBVIOUS
<1>1. DOMAIN cases = Cases /\ \A i \in Cases : cases[i] \in CaseType
  BY DEF IInv, Register, Cases
<1> QED
  BY <1>1, SelfRelabelled DEF OnlyRelabelled, Cases

\* What a call that is not refused answers.
Heeded == answer' \notin {"NO_WARRANT", "DENIED"}

(* A step is heeded, lacks a warrant and does nothing, or is denied and    *)
(* relabels at most.                                                       *)
LEMMA StepRefused ==
  IInv /\ Next =>
    \/ Heeded
    \/ answer' = "NO_WARRANT" /\ UNCHANGED <<book, sit, outside>>
    \/ answer' = "DENIED" /\ UNCHANGED <<sit, outside, history>> /\ OnlyRelabelled
<1> DEFINE Fits ==
      \/ Heeded
      \/ answer' = "NO_WARRANT" /\ UNCHANGED <<book, sit, outside>>
      \/ answer' = "DENIED" /\ UNCHANGED <<sit, outside, history>> /\ OnlyRelabelled
<1> SUFFICES ASSUME IInv, Next PROVE Fits
  OBVIOUS
<1>0. answer' = "DENIED" /\ UNCHANGED <<book, sit, outside>> => Fits
  BY SameOnlyRelabels DEF book
<1>1. ASSUME NEW t \in Targets, NEW mode \in Modes, NEW says \in ErmSays, Enforce(t, mode, says)
      PROVE  Fits
  <2>1. CASE EnforceUnauthorised(t, says)
    BY <2>1 DEF EnforceUnauthorised, Return
  <2>2. CASE EnforceNoRoom(t, says)
    BY <1>0, <2>2 DEF EnforceNoRoom, Return
  <2>3. CASE EnforcePurgeDenied(t, says)
    BY <2>3, DeniedOnlyRelabels DEF EnforcePurgeDenied, Return, AllModes
  <2>4. CASE EnforceThrows(t, mode, says) \/ EnforceFires(t, mode, says)
    BY <2>4 DEF EnforceThrows, EnforceFires, Conclude, Return, Heeded
  <2> QED BY <1>1, <2>1, <2>2, <2>3, <2>4 DEF Enforce
<1>2. ASSUME NEW t \in Targets, PurgeDenied(t)
      PROVE  Fits
  BY <1>0, <1>2 DEF PurgeDenied, Return
<1>3. ASSUME NEW t \in Targets, NEW incident \in Incidents, EnforceZeroTolerance(t, incident)
      PROVE  Fits
  <2>1. CASE ZeroToleranceDenied(t, incident)
    BY <1>0, <2>1 DEF ZeroToleranceDenied, Return
  <2>2. CASE ZeroToleranceThrows(t, incident) \/ ZeroTolerance(t, incident)
    BY <2>2 DEF ZeroToleranceThrows, ZeroTolerance, Conclude, Return, Heeded
  <2> QED BY <1>3, <2>1, <2>2 DEF EnforceZeroTolerance
<1>4. ASSUME NEW id \in CaseIds \cup {0}, ReportToJudge(id)
      PROVE  Fits
  BY <1>4 DEF ReportToJudge, Return, Heeded
<1>5. ASSUME NEW t \in Targets, EscalateByHand(t, IdOf(t))
      PROVE  Fits
  BY <1>5 DEF EscalateByHand, Return, Heeded
<1>6. CASE Shutdown
  BY <1>6 DEF Shutdown, Return, Heeded
<1> QED
  BY <1>1, <1>2, <1>3, <1>4, <1>5, <1>6 DEF Next

(* Refusing a call enforces nothing: without a warrant nothing changes,    *)
(* and a denial relabels or opens a case at most (censor.cpp 91-111).      *)
THEOREM RefusalsInert == Spec => RefusedIsInert
<1>1. IInv /\ [Next]_vars =>
        [/\ answer' = "NO_WARRANT" => UNCHANGED <<book, sit, outside>>
         /\ answer' = "DENIED" =>
              /\ UNCHANGED <<sit, outside, history>>
              /\ \A i \in Cases : \E mode \in AllModes, zero \in BOOLEAN :
                   cases'[i] = [cases[i] EXCEPT !.mode = mode, !.zero_tolerance = zero]
              /\ \A i \in DOMAIN cases' \ Cases : cases'[i].count = 0 /\ ~ cases'[i].executed]_vars
  BY StepRefused DEF OnlyRelabelled, Heeded
<1> QED
  BY <1>1, CaseBook, PTL DEF Spec, RefusedIsInert

-----------------------------------------------------------------------------
(* The SIT list and the case table.                                        *)

\* Claims are only counted up.
ClaimsGrow == \A t \in Targets : claimed'[t] >= claimed[t]

\* The case an operation was opened for, in a table with these enforcements.
OpenedFor(op, c, h) ==
  /\ c.id = op.trigger_case_id /\ c.target = op.target
  /\ c.escalated /\ op.count \in CASE_ESCALATE_AT..h[c.target]

\* A case was escalated in this step.
Fresh(i) == cases'[i].escalated /\ ~ (i \in Cases /\ cases[i].escalated)

\* What the lemmas on steps that open or do not open an operation assume.
Onward ==
  /\ IInv /\ IInv' /\ SitTypes /\ SitMatchesCases
  /\ NothingForgotten /\ ClaimsGrow

(* An operation keeps its case as long as nothing is forgotten.            *)
LEMMA StillOpenedFor ==
  ASSUME Onward, NEW op \in OperationType, NEW i \in Cases, OpenedFor(op, cases[i], claimed)
  PROVE  i \in Cases' /\ OpenedFor(op, cases'[i], claimed')
<1>1. i \in Cases' /\ Remembers(cases'[i], cases[i])
  BY DEF Onward, NothingForgotten, IInv, Register, Cases
<1>2. cases[i].target \in Targets
  <2>1. cases[i] \in CaseType
    BY DEF Onward, IInv, Register, Cases
  <2> QED BY <2>1 DEF CaseType
<1>3. /\ op.count \in Nat /\ CASE_ESCALATE_AT \in Nat
      /\ claimed[cases[i].target] \in Nat /\ claimed'[cases[i].target] \in Nat
      /\ claimed'[cases[i].target] >= claimed[cases[i].target]
  BY <1>2, CensorAssumption DEF Onward, IInv, ClaimsGrow, OperationType
<1> QED
  BY <1>1, <1>3 DEF OpenedFor, Remembers

(* A step that opens no operation: it escalates no case, or the list is    *)
(* full.                                                                   *)
LEMMA ListUnmoved ==
  ASSUME Onward, sit_ops' = sit_ops,
         \A i \in Cases' : Fresh(i) => Len(sit_ops) >= MAX_SIT_OPS
  PROVE  SitMatchesCases'
<1>0. Len(sit_ops) \in Nat /\ Len(sit_ops) <= MAX_SIT_OPS /\ MAX_SIT_OPS \in Nat
  BY CensorAssumption DEF Onward, SitTypes, SitMatchesCases
<1>1. ByCensor' = ByCensor /\ \A k \in ByCensor : sit_ops[k] \in OperationType
  BY DEF ByCensor, Onward, SitTypes
<1>2. ASSUME NEW k \in ByCensor
      PROVE  \E i \in Cases' : OpenedFor(sit_ops[k], cases'[i], claimed')
  <2>1. PICK i \in Cases : OpenedFor(sit_ops[k], cases[i], claimed)
    BY DEF Onward, SitMatchesCases, OpenedFor
  <2> QED BY <1>1, <2>1, StillOpenedFor
<1>3. ASSUME NEW i \in Cases', cases'[i].escalated
      PROVE  \/ \E k \in ByCensor : sit_ops[k].trigger_case_id = cases'[i].id
             \/ Len(sit_ops) = MAX_SIT_OPS
  <2>1. CASE i \in Cases /\ cases[i].escalated
    <3>1. cases'[i].id = cases[i].id
      BY <2>1 DEF Onward, NothingForgotten, Remembers
    <3> QED BY <2>1, <3>1 DEF Onward, SitMatchesCases
  <2>2. CASE ~ (i \in Cases /\ cases[i].escalated)
    BY <1>0, <1>3, <2>2 DEF Fresh
  <2> QED BY <2>1, <2>2
<1> QED
  BY <1>0, <1>1, <1>2, <1>3 DEF SitMatchesCases, OpenedFor, Onward

(* A step that opens an operation, by a caller for no case in particular   *)
(* or by the Censor for the one case the step escalates.                   *)
LEMMA ListAppended ==
  ASSUME Onward, Len(sit_ops) < MAX_SIT_OPS,
         NEW op \in OperationType, sit_ops' = Append(sit_ops, op),
         \/ op.opener = "caller" /\ \A i \in Cases' : ~ Fresh(i)
         \/ \E j \in Cases' :
              /\ OpenedFor(op, cases'[j], claimed')
              /\ \A k \in ByCensor : sit_ops[k].trigger_case_id # op.trigger_case_id
              /\ op.opener = "censor" /\ \A i \in Cases' : Fresh(i) => i = j
  PROVE  SitMatchesCases'
<1> DEFINE n == Len(sit_ops) + 1
<1>0. Len(sit_ops) \in Nat /\ MAX_SIT_OPS \in Nat /\ sit_ops \in Seq(OperationType)
  BY CensorAssumption DEF Onward, SitTypes
<1>1. /\ Len(sit_ops') = n /\ sit_ops'[n] = op
      /\ \A k \in 1..Len(sit_ops) : sit_ops'[k] = sit_ops[k]
  BY <1>0
<1>2. ByCensor \subseteq ByCensor' /\ \A k \in ByCensor' : k \in ByCensor \/ k = n
  BY <1>0, <1>1 DEF ByCensor
<1>3. \A k \in ByCensor : sit_ops[k] \in OperationType /\ sit_ops'[k] = sit_ops[k] /\ k # n
  BY <1>0, <1>1 DEF ByCensor
<1>4. op.opener = "censor" => n \in ByCensor'
  BY <1>0, <1>1 DEF ByCensor
<1>5. n \in ByCensor' => op.opener = "censor"
  BY <1>1 DEF ByCensor
<1> HIDE DEF n
<1>6. ASSUME NEW k \in ByCensor'
      PROVE  \E i \in Cases' : OpenedFor(sit_ops'[k], cases'[i], claimed')
  <2>1. CASE k \in ByCensor
    <3>1. PICK i \in Cases : OpenedFor(sit_ops[k], cases[i], claimed)
      BY <2>1 DEF Onward, SitMatchesCases, OpenedFor
    <3> QED BY <1>3, <2>1, <3>1, StillOpenedFor
  <2>2. CASE k = n
    BY <1>1, <1>5, <2>2
  <2> QED BY <1>2, <2>1, <2>2
<1>7. ASSUME NEW k \in ByCensor', NEW l \in ByCensor',
             sit_ops'[k].trigger_case_id = sit_ops'[l].trigger_case_id
      PROVE  k = l
  <2>1. CASE k \in ByCensor /\ l \in ByCensor
    <3>1. sit_ops[k].trigger_case_id = sit_ops[l].trigger_case_id
      BY <1>3, <1>7, <2>1
    <3> QED BY <2>1, <3>1 DEF Onward, SitMatchesCases
  <2>2. CASE k = n \/ l = n
    BY <1>1, <1>2, <1>3, <1>5, <1>7, <2>2
  <2> QED BY <1>2, <2>1, <2>2
<1>8. ASSUME NEW i \in Cases', cases'[i].escalated
      PROVE  \E k \in ByCensor' : sit_ops'[k].trigger_case_id = cases'[i].id
  <2>1. CASE i \in Cases /\ cases[i].escalated
    <3>1. cases'[i].id = cases[i].id
      BY <2>1 DEF Onward, NothingForgotten, Remembers
    <3>2. PICK k \in ByCensor : sit_ops[k].trigger_case_id = cases[i].id
      BY <1>0, <2>1 DEF Onward, SitMatchesCases
    <3> QED BY <1>2, <1>3, <3>1, <3>2
  <2>2. CASE ~ (i \in Cases /\ cases[i].escalated)
    <3>1. Fresh(i)
      BY <1>8, <2>2 DEF Fresh
    <3> QED BY <1>1, <1>4, <3>1 DEF OpenedFor
  <2> QED BY <2>1, <2>2
<1>9. Len(sit_ops') <= MAX_SIT_OPS
  BY <1>0, <1>1 DEF n
<1> QED
  BY <1>6, <1>7, <1>8, <1>9 DEF SitMatchesCases, OpenedFor

\* One enforcement more is claimed of one target.
LEMMA ClaimCounted ==
  ASSUME IInv, NEW t \in Targets, claimed' = [claimed EXCEPT ![t] = claimed[t] + 1]
  PROVE  ClaimsGrow /\ claimed'[t] = claimed[t] + 1
BY DEF IInv, ClaimsGrow

LEMMA HitCounted ==
  ASSUME IInv, NEW t \in Targets, CountHit(t)
  PROVE  ClaimsGrow /\ claimed'[t] = claimed[t] + 1
BY HitClaims, ClaimCounted DEF IInv

LEMMA ThrowCounted ==
  ASSUME IInv, NEW t \in Targets, t \in Unnumbered, CountThrow(t)
  PROVE  ClaimsGrow /\ claimed'[t] = claimed[t] + 1
BY ThrowClaims, ClaimCounted DEF IInv

(* A concluded enforcement opens the operation its escalation needs, or    *)
(* finds the list full (censor.cpp 184-191, 373-404).                      *)
LEMMA ConcludeMatches ==
  ASSUME Onward, NEW t \in Targets, HasRoom(t), NEW rec, Counted(rec, CaseOf(t)),
         Conclude(t, rec), CountHit(t)
  PROVE  SitMatchesCases'
<1> DEFINE new == Concluded(rec)
           k == Slot(t)
<1>0. IInv /\ Store(t, new)
  BY DEF Onward, Conclude, Concluded
<1>1. /\ CaseOf(t) \in CaseType /\ CaseOf(t).target = t /\ Told(CaseOf(t), claimed[t])
      /\ claimed[t] \in Nat
  BY <1>0, CaseOfTells DEF Store, IInv
<1>2. /\ rec \in CaseType /\ rec.id = CaseOf(t).id /\ rec.target = t
      /\ rec.escalated = CaseOf(t).escalated
      /\ rec.count = Increment(CaseOf(t).count)
  BY <1>1 DEF Counted, SameCase
<1>3. /\ new.id = rec.id /\ new.target = t
      /\ new.escalated = (rec.escalated \/ EscalationDue(rec))
  BY <1>2 DEF Concluded, CaseType, EscalationDue
<1> HIDE DEF new, k
<1>4. /\ k \in Cases' /\ cases'[k] = new
      /\ \A i \in Cases : i # k => cases'[i] = cases[i]
      /\ k \in Cases => CaseOf(t) = cases[k]
      /\ \A i \in Cases' \ Cases : i = k /\ CaseOf(t) = NewCase(t)
  <2>1. Cases' = DOMAIN cases'
    BY DEF Onward, IInv, Register, Cases
  <2> QED BY <1>0, <2>1, StoreShape DEF k, new
<1>5. \A i \in Cases' : Fresh(i) => i = k /\ EscalationDue(rec)
  <2> SUFFICES ASSUME NEW i \in Cases', Fresh(i) PROVE i = k /\ EscalationDue(rec)
    OBVIOUS
  <2>1. i = k
    BY <1>4 DEF Fresh
  <2>2. ~ rec.escalated
    BY <1>2, <1>4, <2>1 DEF Fresh, NewCase
  <2> QED BY <1>3, <1>4, <2>1, <2>2 DEF Fresh
<1>6. CASE ~ EscalationDue(rec)
  <2>1. sit_ops' = sit_ops
    BY <1>6 DEF Conclude, sit
  <2> QED BY <1>5, <1>6, <2>1, ListUnmoved
<1>7. CASE EscalationDue(rec) /\ Len(sit_ops) >= MAX_SIT_OPS
  <2>1. sit_ops' = sit_ops
    BY <1>7 DEF Conclude, OpenOperation, sit
  <2> QED BY <1>7, <2>1, ListUnmoved
<1>8. CASE EscalationDue(rec) /\ ~ (Len(sit_ops) >= MAX_SIT_OPS)
  <2> DEFINE op == Operation(t, rec.id, rec.count, "censor")
  <2>1. sit_ops' = Append(sit_ops, op)
    BY <1>8 DEF Conclude, OpenOperation
  <2>2. /\ op \in OperationType /\ op.trigger_case_id = rec.id /\ op.target = t
        /\ op.count = rec.count /\ op.opener = "censor"
    BY <1>2 DEF Operation, OperationType, CaseType, Onward, SitTypes
  <2> HIDE DEF op
  <2>3. rec.count \in CASE_ESCALATE_AT..claimed'[t]
    <3>0. claimed'[t] = claimed[t] + 1
      BY <1>0, HitCounted
    <3>1. rec.count = (claimed[t] + 1) % COUNT_RANGE /\ claimed'[t] = claimed[t] + 1
      BY <1>1, <1>2, <3>0, IncrementFollows DEF Told
    <3>2. rec.count <= claimed[t] + 1
      <4> DEFINE m == COUNT_RANGE
                 n == claimed[t] + 1
                 q == n \div m
                 r == n % m
      <4>1. m \in Nat \ {0} /\ n \in Nat
        BY <1>1, CensorAssumption
      <4>2. q \in Nat /\ r + q * m = n /\ r \in 0..(m - 1)
        BY <4>1, Division
      <4> HIDE DEF n, q, r, m
      <4>3. q * m \in Nat
        BY <4>1, <4>2
      <4>4. r <= n
        BY <4>1, <4>2, <4>3
      <4> QED BY <3>1, <4>4 DEF m, n, r
    <3>3. rec.count >= CASE_ESCALATE_AT /\ rec.count \in Nat
      BY <1>2, <1>8, CensorAssumption DEF EscalationDue, CaseType
    <3> QED BY <1>1, <3>1, <3>2, <3>3, CensorAssumption
  <2>4. OpenedFor(op, cases'[k], claimed')
    BY <1>3, <1>4, <1>8, <2>2, <2>3 DEF OpenedFor
  <2>5. \A l \in ByCensor : sit_ops[l].trigger_case_id # op.trigger_case_id
    <3> SUFFICES ASSUME NEW l \in ByCensor, sit_ops[l].trigger_case_id = rec.id
                 PROVE  FALSE
      BY <2>2
    <3>1. PICK i \in Cases : cases[i].id = rec.id /\ cases[i].escalated
      BY DEF Onward, SitMatchesCases
    <3>2. i \in Cases' /\ cases'[i].id = rec.id
      BY <3>1 DEF Onward, NothingForgotten, Remembers, IInv, Register, Cases
    <3>3. i = k
      <4>1. \A a, b \in Cases' : a < b => cases'[a].id # cases'[b].id
        <5>1. \A a \in Cases' : cases'[a] \in CaseType
          BY DEF Onward, IInv, Register, Cases
        <5>2. \A a \in Cases' : cases'[a].id \in Nat
          BY <5>1 DEF CaseType
        <5>3. Register(cases', case_id_counter') /\ Cases' = 1..Len(cases')
          BY DEF Onward, IInv, Cases
        <5> QED BY <5>2, <5>3 DEF Register
      <4>2. i \in Nat /\ k \in Nat
        BY <1>4, <3>2 DEF Cases
      <4> QED BY <1>3, <1>4, <3>2, <4>1, <4>2
    <3>4. rec.escalated
      BY <1>2, <1>4, <3>1, <3>3
    <3> QED BY <1>8, <3>4 DEF EscalationDue
  <2>6. Len(sit_ops) < MAX_SIT_OPS
    BY <1>8, CensorAssumption DEF Onward, SitTypes
  <2> QED BY <1>4, <1>5, <2>1, <2>2, <2>4, <2>5, <2>6, ListAppended
<1> QED
  BY <1>6, <1>7, <1>8

(* An enforcement that stops early escalates no case: the case it stores   *)
(* is as escalated as the one it found or opened.                          *)
LEMMA StoreMatches ==
  ASSUME Onward, NEW t \in Targets, HasRoom(t), NEW rec, rec.escalated = CaseOf(t).escalated,
         Store(t, rec), UNCHANGED sit
  PROVE  SitMatchesCases'
<1>1. \A i \in Cases' : ~ Fresh(i)
  <2>1. Cases' = DOMAIN cases'
    BY DEF Onward, IInv, Register, Cases
  <2>2. /\ \A i \in Cases : cases'[i] = IF i = Slot(t) THEN rec ELSE cases[i]
        /\ Slot(t) \in Cases => CaseOf(t) = cases[Slot(t)]
        /\ \A i \in DOMAIN cases' \ Cases : cases'[i] = rec /\ CaseOf(t) = NewCase(t)
    BY StoreShape DEF Onward
  <2> QED BY <2>1, <2>2 DEF Fresh, NewCase
<1> QED
  BY <1>1, ListUnmoved DEF sit

LEMMA ClaimsSame ==
  ASSUME claimed \in [Targets -> Nat], UNCHANGED history
  PROVE  ClaimsGrow
BY HistorySame DEF ClaimsGrow

(* Every step keeps the SIT list and the case table in agreement.          *)
LEMMA StepMatches ==
  IInv /\ SitTypes /\ SitMatchesCases /\ [Next]_vars => SitMatchesCases'
<1> SUFFICES ASSUME IInv, SitTypes, SitMatchesCases, [Next]_vars PROVE SitMatchesCases'
  OBVIOUS
<1>a. IInv'
  BY StepKeepsIInv
<1>b. UNCHANGED <<book, sit>> => SitMatchesCases'
  BY HistorySame DEF SitMatchesCases, ByCensor, Cases, book, sit
<1>c. NothingForgotten /\ ClaimsGrow => Onward
  BY <1>a DEF Onward
<1>d. claimed \in [Targets -> Nat]
  BY DEF IInv
<1>1. CASE UNCHANGED vars
  BY <1>1, <1>b DEF vars
<1>2. ASSUME NEW t \in Targets, NEW mode \in Modes, NEW says \in ErmSays, Enforce(t, mode, says)
      PROVE  SitMatchesCases'
  <2>1. CASE EnforceUnauthorised(t, says) \/ EnforceNoRoom(t, says)
    BY <1>b, <2>1 DEF EnforceUnauthorised, EnforceNoRoom
  <2>2. CASE EnforcePurgeDenied(t, says) \/ EnforceThrows(t, mode, says)
    <3>1. PICK m \in {mode, "PURGE"} : Store(t, Noted(t, m, FALSE))
      BY <2>2 DEF EnforcePurgeDenied, EnforceThrows
    <3>2. HasRoom(t) /\ UNCHANGED sit /\ UNCHANGED history
      BY <2>2 DEF EnforcePurgeDenied, EnforceThrows
    <3>3. CaseOf(t) \in CaseType
      BY <3>1, <3>2, CaseOfTells DEF Store
    <3>4. Noted(t, m, FALSE).escalated = CaseOf(t).escalated
      BY <3>3 DEF Noted, CaseOf, CaseType
    <3>5. Onward
      BY <1>c, <1>d, <3>1, <3>2, RelabelRemembers, ClaimsSame
    <3> QED BY <3>1, <3>2, <3>4, <3>5, StoreMatches
  <2>3. CASE EnforceFires(t, mode, says)
    <3> DEFINE count == Increment(Noted(t, mode, FALSE).count)
               gl == IF count = 1 THEN "EXECUTED" ELSE "RE_ENGAGED"
               rec == [Noted(t, mode, FALSE) EXCEPT
                         !.count = count, !.executed = TRUE, !.gl_state = gl]
    <3>1. HasRoom(t) /\ Conclude(t, rec) /\ CountHit(t)
      BY <2>3 DEF EnforceFires
    <3>2. CaseOf(t) \in CaseType
      BY <3>1, CaseOfTells DEF Conclude, Store
    <3>3. Counted(rec, CaseOf(t))
      BY <3>2, FiresCounts, CensorAssumption
    <3> HIDE DEF rec
    <3>4. Onward
      BY <1>c, <3>1, <3>3, ConcludeRemembers, HitCounted
    <3> QED BY <3>1, <3>3, <3>4, ConcludeMatches
  <2> QED BY <1>2, <2>1, <2>2, <2>3 DEF Enforce
<1>3. ASSUME NEW t \in Targets, PurgeDenied(t)
      PROVE  SitMatchesCases'
  BY <1>b, <1>3 DEF PurgeDenied
<1>4. ASSUME NEW t \in Targets, NEW incident \in Incidents, EnforceZeroTolerance(t, incident)
      PROVE  SitMatchesCases'
  <2>1. CASE ZeroToleranceDenied(t, incident)
    BY <1>b, <2>1 DEF ZeroToleranceDenied
  <2>2. CASE ZeroToleranceThrows(t, incident)
    <3>1. /\ HasRoom(t) /\ Store(t, Terminated(t)) /\ UNCHANGED sit
          /\ t \in Unnumbered /\ CountThrow(t)
      BY <2>2 DEF ZeroToleranceThrows, Throws
    <3>2. CaseOf(t) \in CaseType
      BY <3>1, CaseOfTells DEF Store
    <3>3. Counted(Terminated(t), CaseOf(t))
      BY <3>2, TerminationCounts
    <3>4. Remembers(Terminated(t), CaseOf(t))
      BY <3>2, <3>3 DEF Counted, SameCase, Remembers
    <3>5. Onward
      BY <1>c, <1>d, <3>1, <3>4, StoreRemembers, ThrowCounted
    <3> QED BY <3>1, <3>3, <3>5, StoreMatches DEF Counted
  <2>3. CASE ZeroTolerance(t, incident)
    <3>1. HasRoom(t) /\ Conclude(t, Terminated(t)) /\ CountHit(t)
      BY <2>3 DEF ZeroTolerance
    <3>2. CaseOf(t) \in CaseType
      BY <3>1, CaseOfTells DEF Conclude, Store
    <3>3. Counted(Terminated(t), CaseOf(t))
      BY <3>2, TerminationCounts
    <3>4. Onward
      BY <1>c, <3>1, <3>3, ConcludeRemembers, HitCounted
    <3> QED BY <3>1, <3>3, <3>4, ConcludeMatches
  <2> QED BY <1>4, <2>1, <2>2, <2>3 DEF EnforceZeroTolerance
<1>5. ASSUME NEW id \in CaseIds \cup {0}, ReportToJudge(id)
      PROVE  SitMatchesCases'
  <2>1. /\ cases' = [i \in Cases |->
             IF cases[i].id = id THEN [cases[i] EXCEPT !.judge_notified = TRUE] ELSE cases[i]]
        /\ UNCHANGED history /\ sit_ops' = sit_ops
    BY <1>5 DEF ReportToJudge, sit
  <2>2. \A i \in Cases : cases[i] \in CaseType
    BY DEF IInv, Register, Cases
  <2>3. \A c \in CaseType :
          /\ Remembers(c, c) /\ Remembers([c EXCEPT !.judge_notified = TRUE], c)
          /\ [c EXCEPT !.judge_notified = TRUE].escalated = c.escalated
    BY DEF Remembers, CaseType
  <2>4. NothingForgotten
    BY <2>1, <2>2, <2>3 DEF NothingForgotten
  <2>5. Onward
    BY <1>c, <1>d, <2>1, <2>4, ClaimsSame
  <2>6. Cases' = Cases
    BY <1>a, <2>1 DEF IInv, Register, Cases
  <2>7. \A i \in Cases' : ~ Fresh(i)
    BY <2>1, <2>2, <2>3, <2>6 DEF Fresh
  <2> QED BY <2>1, <2>5, <2>7, ListUnmoved
<1>6. ASSUME NEW t \in Targets, EscalateByHand(t, IdOf(t))
      PROVE  SitMatchesCases'
  <2> DEFINE op == Operation(t, IdOf(t), CountOf(t), "caller")
  <2>1. /\ IF Len(sit_ops) >= MAX_SIT_OPS THEN UNCHANGED sit ELSE sit_ops' = Append(sit_ops, op)
        /\ UNCHANGED book
    BY <1>6 DEF EscalateByHand, OpenOperation
  <2>2. CASE Len(sit_ops) >= MAX_SIT_OPS
    BY <1>b, <2>1, <2>2
  <2>3. CASE ~ (Len(sit_ops) >= MAX_SIT_OPS)
    <3>1. op \in OperationType /\ op.opener = "caller"
      <4>1. Operation(t, IdOf(t), CountOf(t), "caller") \in OperationType
        BY AskedFor DEF SitTypes, Operation, OperationType
      <4> QED BY <4>1 DEF Operation
    <3> HIDE DEF op
    <3>2. Onward
      BY <1>c, <1>d, <2>1, SameRemembers, ClaimsSame DEF book, IInv, Register
    <3>3. \A i \in Cases' : ~ Fresh(i)
      BY <2>1 DEF Fresh, Cases, book
    <3>4. Len(sit_ops) < MAX_SIT_OPS
      BY <2>3, CensorAssumption DEF SitTypes
    <3> QED BY <2>1, <2>3, <3>1, <3>2, <3>3, <3>4, ListAppended
  <2> QED BY <2>2, <2>3
<1>7. CASE Shutdown
  <2>1. cases' = <<>> /\ sit_ops' = <<>>
    BY <1>7 DEF Shutdown
  <2> QED BY <2>1, CensorAssumption DEF SitMatchesCases, ByCensor, Cases
<1> QED
  BY <1>1, <1>2, <1>3, <1>4, <1>5, <1>6, <1>7 DEF Next

(* The operations the Censor opened and the cases it escalated are the     *)
(* same, one for one, until the list is full (censor.cpp 184-191,          *)
(* 373-404, 462-468).                                                      *)
THEOREM SitAgrees == Spec => []SitMatchesCases
<1>1. Init => SitTypes /\ SitMatchesCases
  BY CensorAssumption DEF Init, SitTypes, SitMatchesCases, ByCensor, Cases
<1>2. IInv /\ SitTypes /\ SitMatchesCases /\ [Next]_vars => SitTypes' /\ SitMatchesCases'
  BY StepKeepsSitTypes, StepMatches
<1> QED
  BY <1>1, <1>2, CaseBook, PTL DEF Spec

(* What a case marked ESCALATED says, "SIT notified" (censor.hpp:54), is   *)
(* true as long as the list has room: whatever calls led here, its         *)
(* operation is in the list (censor.cpp 184-191, 237-244).                 *)
THEOREM EscalatedUntilFull == Spec => [](Len(sit_ops) < MAX_SIT_OPS => EscalatedHasOperation)
<1>1. SitMatchesCases /\ CaseTellsTheHits =>
        (Len(sit_ops) < MAX_SIT_OPS => EscalatedHasOperation)
  <2> SUFFICES ASSUME SitMatchesCases, CaseTellsTheHits, Len(sit_ops) < MAX_SIT_OPS,
                      NEW i \in Cases, cases[i].gl_state = "ESCALATED"
               PROVE  \E k \in ByCensor : sit_ops[k].trigger_case_id = cases[i].id
    BY DEF EscalatedHasOperation
  <2>1. cases[i].escalated
    BY DEF CaseTellsTheHits
  <2>2. Len(sit_ops) # MAX_SIT_OPS
    BY CensorAssumption
  <2> QED
    BY <2>1, <2>2 DEF SitMatchesCases
<1> QED
  BY <1>1, SitAgrees, CasesTell, PTL
===============================================================================
