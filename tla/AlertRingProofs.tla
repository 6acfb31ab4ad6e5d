---------------------------- MODULE AlertRingProofs ----------------------------
(***************************************************************************)
(* Theorems about AlertRing, for every ring size and any number of alerts: *)
(* accounting for any number of producers, the rest for the one producer   *)
(* the ring is written for.                                                *)
(***************************************************************************)
EXTENDS AlertRing, FiniteSetTheorems, SequenceTheorems, TLAPS

-----------------------------------------------------------------------------
(* Arithmetic of the ring.                                                 *)

\* A number below twice the size, reduced.
LEMMA Reduce ==
  ASSUME NEW N \in Nat, N > 0, NEW a \in Nat, a < 2 * N
  PROVE  a % N = IF a < N THEN a ELSE a - N
  OBVIOUS

\* The next slot.
LEMMA SuccIs ==
  ASSUME NEW i \in Slots
  PROVE  Succ(i) \in Slots /\ Succ(i) = IF i + 1 = ALERT_RING_SIZE THEN 0 ELSE i + 1
  BY RingAssumption, Reduce DEF Succ, Slots

\* The number of slots from one to another.
LEMMA DistanceIs ==
  ASSUME NEW i \in Slots, NEW j \in Slots
  PROVE  /\ Distance(i, j) \in Slots
         /\ Distance(i, j) = IF i <= j THEN j - i ELSE j + ALERT_RING_SIZE - i
  BY RingAssumption, Reduce DEF Distance, Slots

-----------------------------------------------------------------------------
(* Type correctness, for any number of producers.                          *)

PushRecord == [at : {"idle", "test", "drop", "write", "publish"},
               alert : 0..MaxAlerts, head : Slots]
DrainRecord == [at : {"idle", "polled", "loop", "read", "release", "report"},
                tail : Slots, entry : 0..MaxAlerts, pending : Slots]

\* The pushes in flight have numbers of their own, which no accepted push had.
Numbered ==
  /\ accepted \subseteq 1..pushed
  /\ \A p \in InFlight : push[p].alert \in (1..pushed) \ accepted
  /\ \A p, q \in InFlight : push[p].alert = push[q].alert => p = q

\* The steps of a producer keep the types.
LEMMA PushType ==
  ASSUME TypeOK, Numbered, NEW p \in Producers, Push(p)
  PROVE  TypeOK'
  <1>1. push[p] \in PushRecord
    BY DEF TypeOK, PushRecord
  <1>2. CASE CallPush(p)
    BY <1>2, RingAssumption DEF CallPush, TypeOK, draining
  <1>3. CASE TestFull(p)
    BY <1>3 DEF TestFull, TypeOK, draining
  <1>4. CASE Drop(p)
    <2>1. IdlePush \in PushRecord
      BY RingAssumption DEF IdlePush, PushRecord, Slots
    <2> QED
      BY <1>4, <2>1 DEF Drop, TypeOK, draining, PushRecord
  <1>5. CASE Write(p)
    BY <1>1, <1>5 DEF Write, TypeOK, draining, PushRecord
  <1>6. CASE Publish(p)
    <2>1. IdlePush \in PushRecord
      BY RingAssumption DEF IdlePush, PushRecord, Slots
    <2>2. Succ(push[p].head) \in Slots
      BY <1>1, SuccIs DEF PushRecord
    <2>3. accepted' \subseteq 1..MaxAlerts
      <3>1. push[p].alert \in 1..pushed /\ pushed \in 0..MaxAlerts
        BY <1>6 DEF Publish, TypeOK, Numbered, InFlight
      <3>2. accepted' = accepted \cup {push[p].alert} /\ accepted \subseteq 1..MaxAlerts
        BY <1>6 DEF Publish, TypeOK
      <3>3. \A a \in 1..pushed : a \in 1..MaxAlerts
        BY <3>1, RingAssumption
      <3> QED
        BY <3>1, <3>2, <3>3
    <2> QED
      BY <1>6, <2>1, <2>2, <2>3 DEF Publish, TypeOK, draining, PushRecord
  <1> QED
    BY <1>2, <1>3, <1>4, <1>5, <1>6 DEF Push

\* The steps of the drainer keep the types.
LEMMA DrainType ==
  ASSUME TypeOK, Drainer
  PROVE  TypeOK'
  <1>1. drain \in DrainRecord
    BY DEF TypeOK, DrainRecord
  <1>2. IdleDrain \in DrainRecord /\ [IdleDrain EXCEPT !.at = "loop", !.tail = alert_tail] \in DrainRecord
    <2>1. 0 \in Slots /\ 0 \in 0..MaxAlerts
      BY RingAssumption DEF Slots
    <2>2. IdleDrain \in DrainRecord
      BY <2>1 DEF IdleDrain, DrainRecord
    <2>3. alert_tail \in Slots
      BY DEF TypeOK
    <2>4. ASSUME NEW r \in DrainRecord, NEW i \in Slots
          PROVE  [r EXCEPT !.at = "loop", !.tail = i] \in DrainRecord
      BY DEF DrainRecord
    <2> QED
      BY <2>2, <2>3, <2>4
  <1>3. CASE CallDrain
    BY <1>2, <1>3 DEF CallDrain, EnterLoop, OnlyDrain, producing, TypeOK, DrainRecord
  <1>4. CASE Poll
    <2>1. Pending \in Slots
      BY DistanceIs DEF Pending, TypeOK
    <2>2. drain' \in DrainRecord
      BY <1>2, <1>4, <2>1 DEF Poll, IdleDrain, DrainRecord
    <2> QED
      BY <1>4, <2>2 DEF Poll, OnlyDrain, producing, TypeOK, DrainRecord
  <1>5. CASE ActOnPoll
    BY <1>2, <1>5 DEF ActOnPoll, EnterLoop, OnlyDrain, producing, TypeOK, DrainRecord
  <1>6. CASE TestEmpty
    BY <1>1, <1>6 DEF TestEmpty, OnlyDrain, producing, TypeOK, DrainRecord
  <1>7. CASE Read
    BY <1>1, <1>7 DEF Read, OnlyDrain, producing, TypeOK, DrainRecord
  <1>8. CASE ReleaseSlot
    <2>1. Succ(drain.tail) \in Slots
      BY <1>1, SuccIs DEF DrainRecord
    <2>2. delivered' \in Seq(0..MaxAlerts)
      BY <1>1, <1>8, AppendProperties DEF ReleaseSlot, TypeOK, DrainRecord
    <2> QED
      BY <1>1, <1>8, <2>1, <2>2 DEF ReleaseSlot, producing, TypeOK, DrainRecord
  <1>9. CASE Report
    <2>1. /\ drain' = IdleDrain /\ alert_dropped' = 0 /\ reported' = reported + alert_dropped
          /\ UNCHANGED <<alert_buf, alert_head, alert_tail, pushed, push, accepted, delivered>>
      BY <1>9 DEF Report, producing
    <2>2. drain' \in DrainRecord /\ reported' \in Nat /\ alert_dropped' \in Nat
      BY <1>2, <2>1 DEF TypeOK
    <2> QED
      BY <2>1, <2>2 DEF TypeOK, DrainRecord
  <1> QED
    BY <1>3, <1>4, <1>5, <1>6, <1>7, <1>8, <1>9 DEF Drainer

\* Every step keeps the numbers apart.
LEMMA NumberedStep ==
  ASSUME TypeOK, Numbered, [Next]_vars
  PROVE  Numbered'
  <1>1. ASSUME NEW p \in Producers, CallPush(p) PROVE Numbered'
    BY <1>1 DEF CallPush, Numbered, InFlight, TypeOK
  <1>2. ASSUME NEW p \in Producers, TestFull(p) \/ Write(p) PROVE Numbered'
    <2>1. pushed' = pushed /\ accepted' = accepted
      BY <1>2 DEF TestFull, Write
    <2>2. \A q \in Producers : /\ push'[q].at = "idle" <=> push[q].at = "idle"
                               /\ push'[q].alert = push[q].alert
      <3>1. CASE TestFull(p)
        BY <3>1 DEF TestFull, TypeOK
      <3>2. CASE Write(p)
        BY <3>2 DEF Write, TypeOK
      <3> QED
        BY <1>2, <3>1, <3>2
    <2>3. InFlight' = InFlight
      BY <2>2 DEF InFlight
    <2> QED
      BY <2>1, <2>2, <2>3 DEF Numbered, InFlight
  <1>3. ASSUME NEW p \in Producers, Drop(p) PROVE Numbered'
    BY <1>3 DEF Drop, IdlePush, Numbered, InFlight, TypeOK
  <1>4. ASSUME NEW p \in Producers, Publish(p) PROVE Numbered'
    BY <1>4 DEF Publish, IdlePush, Numbered, InFlight, TypeOK
  <1>5. CASE UNCHANGED producing
    BY <1>5 DEF producing, Numbered, InFlight
  <1>6. Drainer \/ UNCHANGED vars => UNCHANGED producing
    BY DEF Drainer, CallDrain, Poll, ActOnPoll, TestEmpty, Read, ReleaseSlot, Report,
       OnlyDrain, vars, producing
  <1> QED
    BY <1>1, <1>2, <1>3, <1>4, <1>5, <1>6 DEF Next, Push

Typed == TypeOK /\ Numbered

\* Types and numbers hold at the start, and every step keeps them.
LEMMA TypedInit == Init => Typed
  <1> SUFFICES ASSUME Init PROVE Typed
    OBVIOUS
  <1>1. TypeOK
    BY RingAssumption DEF Init, TypeOK, Slots, IdlePush, IdleDrain
  <1>2. Numbered
    BY DEF Init, Numbered, InFlight, IdlePush
  <1> QED
    BY <1>1, <1>2 DEF Typed

LEMMA TypedStep == Typed /\ [Next]_vars => Typed'
  <1>1. UNCHANGED vars => (TypeOK => TypeOK')
    BY DEF vars, producing, draining, TypeOK
  <1> QED
    BY <1>1, PushType, DrainType, NumberedStep DEF Next, Typed

LEMMA TypedInvariant == Spec => []Typed
  BY TypedInit, TypedStep, PTL DEF Spec

\* Every variable of the ring keeps its type, whatever the number of producers.
THEOREM TypeInvariant == Spec => []TypeOK
  <1>1. Typed => TypeOK
    BY DEF Typed
  <1> QED
    BY <1>1, TypedInvariant, PTL

-----------------------------------------------------------------------------
(* Accounting, for any number of producers.                                *)

\* The counts are of finite sets.
LEMMA Counts ==
  ASSUME Typed
  PROVE  /\ IsFiniteSet(InFlight) /\ Cardinality(InFlight) \in Nat
         /\ IsFiniteSet(accepted) /\ Cardinality(accepted) \in Nat
         /\ pushed \in Nat /\ alert_dropped \in Nat /\ reported \in Nat
  <1>1. IsFiniteSet(InFlight)
    BY RingAssumption, FS_Subset DEF InFlight
  <1>2. IsFiniteSet(1..MaxAlerts)
    BY RingAssumption, FS_Interval
  <1>3. IsFiniteSet(accepted)
    BY <1>2, FS_Subset DEF Typed, TypeOK
  <1> QED
    BY <1>1, <1>3, FS_CardinalityType DEF Typed, TypeOK

\* Every step moves each push from one count to another.
LEMMA AccountedStep ==
  ASSUME Typed, EveryPushAccounted, [Next]_vars
  PROVE  EveryPushAccounted'
  <1>1. ASSUME NEW p \in Producers, CallPush(p) PROVE EveryPushAccounted'
    <2>1. p \notin InFlight /\ InFlight' = InFlight \cup {p}
      BY <1>1 DEF CallPush, InFlight, Typed, TypeOK
    <2>2. Cardinality(InFlight') = Cardinality(InFlight) + 1
      BY <2>1, Counts, FS_AddElement
    <2>3. /\ pushed' = pushed + 1
          /\ UNCHANGED <<accepted, alert_dropped, reported>>
      BY <1>1 DEF CallPush, draining
    <2> QED
      BY <2>2, <2>3, Counts DEF EveryPushAccounted
  <1>2. ASSUME NEW p \in Producers, TestFull(p) \/ Write(p) PROVE EveryPushAccounted'
    <2>1. \A q \in Producers : push'[q].at = "idle" <=> push[q].at = "idle"
      <3>1. CASE TestFull(p)
        BY <3>1 DEF TestFull, Typed, TypeOK
      <3>2. CASE Write(p)
        BY <3>2 DEF Write, Typed, TypeOK
      <3> QED
        BY <1>2, <3>1, <3>2
    <2>2. InFlight' = InFlight
      BY <2>1 DEF InFlight
    <2>3. UNCHANGED <<pushed, accepted, alert_dropped, reported>>
      BY <1>2 DEF TestFull, Write, draining
    <2> QED
      BY <2>2, <2>3 DEF EveryPushAccounted
  <1>3. ASSUME NEW p \in Producers, Drop(p) \/ Publish(p)
        PROVE  Cardinality(InFlight') = Cardinality(InFlight) - 1
    <2>1. push' = [push EXCEPT ![p] = IdlePush] /\ push[p].at # "idle"
      BY <1>3 DEF Drop, Publish
    <2>2. p \in InFlight /\ InFlight' = InFlight \ {p}
      BY <2>1 DEF InFlight, IdlePush, Typed, TypeOK
    <2> QED
      BY <2>2, Counts, FS_RemoveElement
  <1>4. ASSUME NEW p \in Producers, Drop(p) PROVE EveryPushAccounted'
    <2>1. alert_dropped' = alert_dropped + 1 /\ UNCHANGED <<pushed, accepted, reported>>
      BY <1>4 DEF Drop, draining
    <2> QED
      BY <1>3, <1>4, <2>1, Counts DEF EveryPushAccounted
  <1>5. ASSUME NEW p \in Producers, Publish(p) PROVE EveryPushAccounted'
    <2>1. accepted' = accepted \cup {push[p].alert} /\ UNCHANGED <<pushed, alert_dropped, reported>>
      BY <1>5 DEF Publish, draining
    <2>2. push[p].alert \notin accepted
      BY <1>5 DEF Publish, Typed, Numbered, InFlight
    <2>3. Cardinality(accepted') = Cardinality(accepted) + 1
      BY <2>1, <2>2, Counts, FS_AddElement
    <2> QED
      BY <1>3, <1>5, <2>1, <2>3, Counts DEF EveryPushAccounted
  <1>6. CASE Report
    BY <1>6, Counts DEF Report, producing, InFlight, EveryPushAccounted
  <1>7. CASE CallDrain \/ Poll \/ ActOnPoll \/ TestEmpty \/ Read \/ ReleaseSlot \/ UNCHANGED vars
    <2>1. UNCHANGED <<push, pushed, accepted, alert_dropped, reported>>
      BY <1>7 DEF CallDrain, Poll, ActOnPoll, TestEmpty, Read, ReleaseSlot, OnlyDrain,
         producing, draining, vars
    <2> QED
      BY <2>1 DEF EveryPushAccounted, InFlight
  <1> QED
    BY <1>1, <1>2, <1>4, <1>5, <1>6, <1>7 DEF Next, Push, Drainer

\* However many producers push, and whenever the drop count is taken, every push is in
\* flight, accepted or counted as dropped, once.
THEOREM PushesAccounted == Spec => []EveryPushAccounted
  <1>1. Init => EveryPushAccounted
    <2>1. Init => InFlight = {} /\ accepted = {} /\ pushed = 0 /\ alert_dropped = 0 /\ reported = 0
      BY DEF Init, InFlight, IdlePush
    <2>2. Cardinality({}) = 0
      BY FS_EmptySet
    <2> QED
      BY <2>1, <2>2 DEF EveryPushAccounted
  <1>2. Typed /\ EveryPushAccounted /\ [Next]_vars => EveryPushAccounted'
    BY AccountedStep
  <1> QED
    BY <1>1, <1>2, TypedInvariant, PTL DEF Spec

-----------------------------------------------------------------------------
(* One producer.                                                           *)

\* The producer holds the head and the drainer the tail: each knows its own end, has seen
\* room, or an entry, before it touches a slot, and the other end cannot have come to it.
Apart ==
  /\ \A p \in InFlight : push[p].head = alert_head
  /\ \A p \in InFlight : push[p].at \in {"write", "publish"} => Succ(alert_head) # alert_tail
  /\ \A p \in InFlight : push[p].at = "publish" => alert_buf[alert_head] = push[p].alert
  /\ drain.at \in {"loop", "read", "release", "report"} => drain.tail = alert_tail
  /\ drain.at \in {"read", "release"} => alert_tail # alert_head
  /\ drain.at = "release" => drain.entry = alert_buf[alert_tail]
  /\ drain.at = "polled" => drain.pending <= Pending

\* The last slot before the tail is the only one from which the ring looks full.
LEMMA SuccInjective ==
  ASSUME NEW i \in Slots, NEW j \in Slots, Succ(i) = Succ(j)
  PROVE  i = j
  BY SuccIs, RingAssumption DEF Slots

\* A published entry adds one to the distance, a released one takes one from it.
LEMMA DistanceSteps ==
  ASSUME NEW i \in Slots, NEW j \in Slots
  PROVE  /\ Succ(j) # i => Distance(i, Succ(j)) = Distance(i, j) + 1
         /\ i # j => Distance(Succ(i), j) = Distance(i, j) - 1
         /\ i = j <=> Distance(i, j) = 0
         /\ Succ(j) = i <=> Distance(i, j) = ALERT_RING_SIZE - 1
  <1> DEFINE a == Succ(i)
             b == Succ(j)
  <1>1. a \in Slots /\ a = IF i + 1 = ALERT_RING_SIZE THEN 0 ELSE i + 1
    BY SuccIs
  <1>2. b \in Slots /\ b = IF j + 1 = ALERT_RING_SIZE THEN 0 ELSE j + 1
    BY SuccIs
  <1>3. Distance(i, j) = IF i <= j THEN j - i ELSE j + ALERT_RING_SIZE - i
    BY DistanceIs
  <1>4. Distance(i, b) = IF i <= b THEN b - i ELSE b + ALERT_RING_SIZE - i
    BY <1>2, DistanceIs
  <1>5. Distance(a, j) = IF a <= j THEN j - a ELSE j + ALERT_RING_SIZE - a
    BY <1>1, DistanceIs
  <1> HIDE DEF a, b
  <1>6. /\ b # i => Distance(i, b) = Distance(i, j) + 1
        /\ i # j => Distance(a, j) = Distance(i, j) - 1
        /\ i = j <=> Distance(i, j) = 0
        /\ b = i <=> Distance(i, j) = ALERT_RING_SIZE - 1
    BY <1>1, <1>2, <1>3, <1>4, <1>5, RingAssumption DEF Slots
  <1> QED
    BY <1>6 DEF a, b

\* The producer's steps keep the ends apart.
LEMMA ApartPush ==
  ASSUME Typed, Apart, NEW p, Producers = {p}, Push(p)
  PROVE  Apart'
  <1> USE DEF Typed
  <1>0. /\ alert_head \in Slots /\ alert_tail \in Slots
        /\ InFlight = {p} \/ InFlight = {}
        /\ InFlight' = {p} \/ InFlight' = {}
    BY DEF TypeOK, InFlight
  <1>1. CASE CallPush(p)
    BY <1>0, <1>1 DEF CallPush, draining, Apart, Pending, TypeOK, InFlight
  <1>2. CASE TestFull(p)
    <2>1. p \in InFlight /\ push[p].head = alert_head
      BY <1>2 DEF TestFull, InFlight, Apart
    <2> QED
      BY <1>0, <1>2, <2>1 DEF TestFull, Full, draining, Apart, Pending, TypeOK, InFlight
  <1>3. CASE Drop(p)
    BY <1>0, <1>3 DEF Drop, IdlePush, draining, Apart, Pending, TypeOK, InFlight
  <1>4. CASE Write(p)
    <2>1. p \in InFlight /\ push[p].head = alert_head
      BY <1>4 DEF Write, InFlight, Apart
    <2> QED
      BY <1>0, <1>4, <2>1 DEF Write, draining, Apart, Pending, TypeOK, InFlight
  <1>5. CASE Publish(p)
    <2>1. p \in InFlight /\ push[p].head = alert_head /\ Succ(alert_head) # alert_tail
      BY <1>5 DEF Publish, InFlight, Apart
    <2>2. /\ alert_head' = Succ(alert_head) /\ InFlight' = {}
          /\ UNCHANGED <<alert_buf, alert_tail, drain>>
      BY <1>0, <1>5, <2>1 DEF Publish, IdlePush, InFlight, draining, TypeOK
    <2>3. Pending' = Pending + 1
      BY <1>0, <2>1, <2>2, DistanceSteps DEF Pending
    <2>4. Pending \in Nat /\ drain.pending \in Nat
      BY <1>0, DistanceIs DEF Pending, TypeOK, Slots
    <2> QED
      BY <2>1, <2>2, <2>3, <2>4 DEF Apart
  <1> QED
    BY <1>1, <1>2, <1>3, <1>4, <1>5 DEF Push

\* The drainer's steps keep the ends apart.
LEMMA ApartDrain ==
  ASSUME Typed, Apart, Drainer
  PROVE  Apart'
  <1> USE DEF Typed
  <1>1. CASE CallDrain
    BY <1>1 DEF CallDrain, EnterLoop, IdleDrain, OnlyDrain, producing, Apart, InFlight
  <1>2. CASE Poll
    <2>1. Pending \in Nat
      BY DistanceIs DEF Pending, TypeOK, Slots
    <2> QED
      BY <1>2, <2>1 DEF Poll, IdleDrain, OnlyDrain, producing, Apart, InFlight, Pending
  <1>3. CASE ActOnPoll
    <2>1. UNCHANGED <<alert_buf, alert_head, alert_tail, push>>
      BY <1>3 DEF ActOnPoll, OnlyDrain, producing
    <2>2. CASE EnterLoop
      BY <2>1, <2>2 DEF EnterLoop, IdleDrain, Apart, InFlight
    <2>3. CASE drain' = IdleDrain
      BY <2>1, <2>3 DEF IdleDrain, Apart, InFlight
    <2> QED
      BY <1>3, <2>2, <2>3 DEF ActOnPoll
  <1>4. CASE TestEmpty
    BY <1>4 DEF TestEmpty, OnlyDrain, producing, Apart, InFlight, TypeOK
  <1>5. CASE Read
    BY <1>5 DEF Read, OnlyDrain, producing, Apart, InFlight, TypeOK
  <1>6. CASE ReleaseSlot
    <2>1. /\ drain.tail = alert_tail /\ alert_tail # alert_head
          /\ alert_tail \in Slots /\ alert_head \in Slots
      BY <1>6 DEF ReleaseSlot, Apart, TypeOK
    <2>2. Succ(alert_head) # Succ(alert_tail)
      BY <2>1, SuccInjective
    <2>3. /\ alert_tail' = Succ(alert_tail) /\ drain'.at = "loop" /\ drain'.tail = alert_tail'
          /\ UNCHANGED <<alert_buf, alert_head, push>>
      BY <1>6, <2>1 DEF ReleaseSlot, producing, TypeOK
    <2> QED
      BY <2>2, <2>3 DEF Apart, InFlight
  <1>7. CASE Report
    BY <1>7 DEF Report, IdleDrain, producing, Apart, InFlight
  <1> QED
    BY <1>1, <1>2, <1>3, <1>4, <1>5, <1>6, <1>7 DEF Drainer

\* With one producer the ends are apart in every reachable state.
LEMMA ApartInvariant ==
  ASSUME NEW p, Producers = {p}
  PROVE  Spec => []Apart
  <1>1. Init => Apart
    BY DEF Init, Apart, InFlight, IdlePush, IdleDrain
  <1>2. UNCHANGED vars => (Apart => Apart')
    BY DEF vars, producing, draining, Apart, InFlight, Pending
  <1>3. Typed /\ Apart /\ [Next]_vars => Apart'
    BY <1>2, ApartPush, ApartDrain DEF Next
  <1> QED
    BY <1>1, <1>3, TypedInvariant, PTL DEF Spec

\* For any ring size, the one producer never writes the slot the drainer reads.
THEOREM NoSharedSlot ==
  ASSUME NEW p, Producers = {p}
  PROVE  Spec => []SlotsNotShared
  <1>1. Apart => SlotsNotShared
    BY DEF Apart, SlotsNotShared, InFlight
  <1> QED
    BY <1>1, ApartInvariant, PTL

\* The slot of the i-th pending entry.
At(t, i) == (t + i - 1) % ALERT_RING_SIZE

LEMMA AtIs ==
  ASSUME NEW t \in Slots, NEW i \in 1..ALERT_RING_SIZE
  PROVE  /\ At(t, i) \in Slots
         /\ At(t, i) = IF t + i - 1 < ALERT_RING_SIZE THEN t + i - 1
                       ELSE t + i - 1 - ALERT_RING_SIZE
  <1>1. t + i - 1 \in Nat /\ t + i - 1 < 2 * ALERT_RING_SIZE
    BY RingAssumption DEF Slots
  <1> QED
    BY <1>1, Reduce, RingAssumption DEF At, Slots

\* The pending entries start at the tail, end before the head, and move up by one when
\* the tail does.
LEMMA AtWalks ==
  ASSUME NEW t \in Slots, NEW h \in Slots
  PROVE  /\ At(t, 1) = t
         /\ \A i \in 1..Distance(t, h) : At(t, i) # h
         /\ At(t, Distance(t, h) + 1) = h
         /\ \A i \in 1..(ALERT_RING_SIZE - 1) : At(Succ(t), i) = At(t, i + 1)
  <1>1. /\ Distance(t, h) \in Slots
        /\ Distance(t, h) = IF t <= h THEN h - t ELSE h + ALERT_RING_SIZE - t
    BY DistanceIs
  <1>2. At(t, 1) = t
    BY AtIs, RingAssumption DEF Slots
  <1>3. \A i \in 1..Distance(t, h) : At(t, i) # h
    <2> TAKE i \in 1..Distance(t, h)
    <2>1. i \in 1..ALERT_RING_SIZE
      BY <1>1, RingAssumption DEF Slots
    <2>2. At(t, i) = IF t + i - 1 < ALERT_RING_SIZE THEN t + i - 1
                     ELSE t + i - 1 - ALERT_RING_SIZE
      BY <2>1, AtIs
    <2> QED
      BY <1>1, <2>1, <2>2, RingAssumption DEF Slots
  <1>4. At(t, Distance(t, h) + 1) = h
    <2> DEFINE i == Distance(t, h) + 1
    <2>1. i \in 1..ALERT_RING_SIZE
      BY <1>1, RingAssumption DEF Slots
    <2>2. At(t, i) = IF t + i - 1 < ALERT_RING_SIZE THEN t + i - 1
                     ELSE t + i - 1 - ALERT_RING_SIZE
      BY <2>1, AtIs
    <2> QED
      BY <1>1, <2>1, <2>2, RingAssumption DEF Slots
  <1>5. \A i \in 1..(ALERT_RING_SIZE - 1) : At(Succ(t), i) = At(t, i + 1)
    <2> TAKE i \in 1..(ALERT_RING_SIZE - 1)
    <2>1. i \in 1..ALERT_RING_SIZE /\ i + 1 \in 1..ALERT_RING_SIZE
      BY RingAssumption
    <2>2. Succ(t) \in Slots /\ Succ(t) = IF t + 1 = ALERT_RING_SIZE THEN 0 ELSE t + 1
      BY SuccIs
    <2>3. At(Succ(t), i) = IF Succ(t) + i - 1 < ALERT_RING_SIZE THEN Succ(t) + i - 1
                           ELSE Succ(t) + i - 1 - ALERT_RING_SIZE
      BY <2>1, <2>2, AtIs
    <2>4. At(t, i + 1) = IF t + (i + 1) - 1 < ALERT_RING_SIZE THEN t + (i + 1) - 1
                         ELSE t + (i + 1) - 1 - ALERT_RING_SIZE
      BY <2>1, AtIs
    <2> QED
      BY <2>1, <2>2, <2>3, <2>4, RingAssumption DEF Slots
  <1> QED
    BY <1>2, <1>3, <1>4, <1>5

\* The mapped queue is the sequence of the pending entries.
LEMMA QueueIs ==
  ASSUME Typed
  PROVE  /\ Queue \in Seq(0..MaxAlerts) /\ Len(Queue) = Pending
         /\ Pending \in Nat /\ Pending < ALERT_RING_SIZE
         /\ \A i \in 1..Pending : Queue[i] = alert_buf[At(alert_tail, i)]
  <1>1. alert_head \in Slots /\ alert_tail \in Slots
    BY DEF Typed, TypeOK
  <1>2. Pending \in Nat /\ Pending < ALERT_RING_SIZE
    BY <1>1, DistanceIs, RingAssumption DEF Pending, Slots
  <1>3. Queue = [i \in 1..Pending |-> alert_buf[At(alert_tail, i)]]
    BY DEF Queue, Pending, At
  <1>4. \A i \in 1..Pending : alert_buf[At(alert_tail, i)] \in 0..MaxAlerts
    <2> TAKE i \in 1..Pending
    <2>1. i \in 1..ALERT_RING_SIZE
      BY <1>2, RingAssumption
    <2>2. At(alert_tail, i) \in Slots
      BY <1>1, <2>1, AtIs
    <2> QED
      BY <2>2 DEF Typed, TypeOK
  <1> QED
    BY <1>2, <1>3, <1>4

\* A poll of the draining thread promises no more than there is.
THEOREM PollsAreTrue ==
  ASSUME NEW p, Producers = {p}
  PROVE  Spec => []PollIsTrue
  <1>1. Typed /\ Apart => PollIsTrue
    BY QueueIs DEF Apart, PollIsTrue
  <1> QED
    BY <1>1, TypedInvariant, ApartInvariant, PTL

-----------------------------------------------------------------------------
(* The ring implements a bounded queue.                                    *)

\* The pending entries of a ring b between t and h.
Pended(b, t, h) == [i \in 1..Distance(t, h) |-> b[At(t, i)]]

LEMMA PendedIs ==
  ASSUME NEW b \in [Slots -> 0..MaxAlerts], NEW t \in Slots, NEW h \in Slots
  PROVE  /\ Pended(b, t, h) \in Seq(0..MaxAlerts)
         /\ Len(Pended(b, t, h)) = Distance(t, h)
         /\ Distance(t, h) \in Nat /\ Distance(t, h) < ALERT_RING_SIZE
         /\ \A i \in 1..Distance(t, h) : Pended(b, t, h)[i] = b[At(t, i)]
  <1> DEFINE n == Distance(t, h)
  <1>1. n \in Slots
    BY DistanceIs
  <1> HIDE DEF n
  <1>2. n \in Nat /\ n < ALERT_RING_SIZE
    BY <1>1, RingAssumption DEF Slots
  <1>3. \A i \in 1..n : b[At(t, i)] \in 0..MaxAlerts
    <2> TAKE i \in 1..n
    <2>1. i \in 1..ALERT_RING_SIZE
      BY <1>2, RingAssumption
    <2> QED
      BY <2>1, AtIs
  <1>4. Pended(b, t, h) = [i \in 1..n |-> b[At(t, i)]]
    BY DEF Pended, n
  <1>5. /\ Pended(b, t, h) \in Seq(0..MaxAlerts) /\ Len(Pended(b, t, h)) = n
        /\ \A i \in 1..n : Pended(b, t, h)[i] = b[At(t, i)]
    BY <1>2, <1>3, <1>4
  <1> QED
    BY <1>2, <1>5 DEF n

\* Writing at the head leaves the pending entries alone.
LEMMA HeadIsFree ==
  ASSUME NEW b \in [Slots -> 0..MaxAlerts], NEW t \in Slots, NEW h \in Slots,
         NEW x \in 0..MaxAlerts
  PROVE  Pended([b EXCEPT ![h] = x], t, h) = Pended(b, t, h)
  <1>1. \A i \in 1..Distance(t, h) : [b EXCEPT ![h] = x][At(t, i)] = b[At(t, i)]
    <2> TAKE i \in 1..Distance(t, h)
    <2>1. At(t, i) # h
      BY AtWalks
    <2>2. Distance(t, h) \in Nat /\ Distance(t, h) < ALERT_RING_SIZE
      BY PendedIs
    <2>3. i \in 1..ALERT_RING_SIZE
      BY <2>2, RingAssumption
    <2>4. At(t, i) \in Slots
      BY <2>3, AtIs
    <2> QED
      BY <2>1, <2>4
  <1> QED
    BY <1>1 DEF Pended

\* Publishing a head short of the tail appends the entry at it.
LEMMA PublishAppends ==
  ASSUME NEW b \in [Slots -> 0..MaxAlerts], NEW t \in Slots, NEW h \in Slots, Succ(h) # t
  PROVE  /\ Pended(b, t, Succ(h)) = Append(Pended(b, t, h), b[h])
         /\ Len(Pended(b, t, h)) < ALERT_RING_SIZE - 1
  <1> DEFINE n == Distance(t, h)
             s == Pended(b, t, h)
             u == Pended(b, t, Succ(h))
  <1>1. /\ n \in Nat /\ n < ALERT_RING_SIZE /\ Len(s) = n /\ s \in Seq(0..MaxAlerts)
        /\ \A i \in 1..n : s[i] = b[At(t, i)]
    BY PendedIs
  <1>2. Succ(h) \in Slots
    BY SuccIs
  <1>3. Distance(t, Succ(h)) = n + 1 /\ n # ALERT_RING_SIZE - 1
    BY DistanceSteps
  <1>4. /\ u \in Seq(0..MaxAlerts) /\ Len(u) = n + 1
        /\ \A i \in 1..(n + 1) : u[i] = b[At(t, i)]
    BY <1>2, <1>3, PendedIs
  <1>5. At(t, n + 1) = h
    BY AtWalks
  <1>6. b[h] \in 0..MaxAlerts
    OBVIOUS
  <1> HIDE DEF n, s, u
  <1>7. /\ Append(s, b[h]) \in Seq(0..MaxAlerts) /\ Len(Append(s, b[h])) = n + 1
        /\ \A i \in 1..n : Append(s, b[h])[i] = s[i]
        /\ Append(s, b[h])[n + 1] = b[h]
    BY <1>1, <1>6, AppendProperties
  <1>8. \A i \in 1..(n + 1) : u[i] = Append(s, b[h])[i]
    BY <1>1, <1>4, <1>5, <1>7
  <1>9. u = Append(s, b[h])
    BY <1>4, <1>7, <1>8, SeqEqual
  <1> QED
    BY <1>1, <1>3, <1>9, RingAssumption DEF n, s, u

\* Releasing a tail short of the head takes the first entry away.
LEMMA ReleaseTakes ==
  ASSUME NEW b \in [Slots -> 0..MaxAlerts], NEW t \in Slots, NEW h \in Slots, t # h
  PROVE  /\ Pended(b, t, h) # <<>> /\ Head(Pended(b, t, h)) = b[t]
         /\ Pended(b, Succ(t), h) = Tail(Pended(b, t, h))
  <1> DEFINE n == Distance(t, h)
             s == Pended(b, t, h)
             u == Pended(b, Succ(t), h)
  <1>1. /\ n \in Nat /\ n < ALERT_RING_SIZE /\ Len(s) = n /\ s \in Seq(0..MaxAlerts)
        /\ \A i \in 1..n : s[i] = b[At(t, i)]
    BY PendedIs
  <1>2. Succ(t) \in Slots
    BY SuccIs
  <1>3. Distance(Succ(t), h) = n - 1 /\ n # 0
    BY DistanceSteps
  <1>4. /\ u \in Seq(0..MaxAlerts) /\ Len(u) = n - 1
        /\ \A i \in 1..(n - 1) : u[i] = b[At(Succ(t), i)]
    BY <1>2, <1>3, PendedIs
  <1>5. At(t, 1) = t /\ \A i \in 1..(n - 1) : At(Succ(t), i) = At(t, i + 1)
    <2>1. /\ At(t, 1) = t
          /\ \A i \in 1..(ALERT_RING_SIZE - 1) : At(Succ(t), i) = At(t, i + 1)
      BY AtWalks
    <2>2. ASSUME NEW i \in 1..(n - 1) PROVE i \in 1..(ALERT_RING_SIZE - 1)
      BY <1>1, RingAssumption
    <2> QED
      BY <2>1, <2>2
  <1> HIDE DEF n, s, u
  <1>6. s # <<>> /\ Head(s) = s[1] /\ s[1] = b[t]
    BY <1>1, <1>3, <1>5
  <1>7. /\ Tail(s) \in Seq(0..MaxAlerts) /\ Len(Tail(s)) = n - 1
        /\ \A i \in 1..(n - 1) : Tail(s)[i] = s[i + 1]
    BY <1>1, <1>6
  <1>8. \A i \in 1..(n - 1) : u[i] = Tail(s)[i]
    BY <1>1, <1>4, <1>5, <1>7
  <1>9. u = Tail(s)
    BY <1>4, <1>7, <1>8, SeqEqual
  <1> QED
    BY <1>6, <1>9 DEF s, u

\* What the refinement mapping reads, now and after the step.
LEMMA Mapped ==
  /\ Queue = Pended(alert_buf, alert_tail, alert_head)
  /\ Queue' = Pended(alert_buf', alert_tail', alert_head')
  BY DEF Queue, Pended, At

\* A step of the producer is an acceptance, a refusal or a stutter of the queue.
LEMMA FifoPush ==
  ASSUME Typed, Apart, NEW p, Producers = {p}, Push(p)
  PROVE  [Fifo!Accept \/ Fifo!Refuse \/ Fifo!Deliver]_(Fifo!vars)
  <1>1. /\ alert_buf \in [Slots -> 0..MaxAlerts] /\ alert_head \in Slots /\ alert_tail \in Slots
        /\ alert_dropped \in Nat /\ reported \in Nat /\ push \in [{p} -> PushRecord]
    BY DEF Typed, TypeOK, PushRecord
  <1>2. /\ UNCHANGED <<alert_tail, delivered, reported>>
    BY DEF Push, CallPush, TestFull, Drop, Write, Publish, draining
  <1>3. /\ (push[p].at = "drop" => Cardinality(Dropping) = 1)
        /\ (push[p].at # "drop" => Cardinality(Dropping) = 0)
        /\ (push'[p].at = "drop" => Cardinality(Dropping') = 1)
        /\ (push'[p].at # "drop" => Cardinality(Dropping') = 0)
    <2>1. /\ (push[p].at = "drop" => Dropping = {p}) /\ (push[p].at # "drop" => Dropping = {})
          /\ (push'[p].at = "drop" => Dropping' = {p}) /\ (push'[p].at # "drop" => Dropping' = {})
      BY DEF Dropping
    <2>2. Cardinality({}) = 0 /\ Cardinality({p}) = 1
      BY FS_EmptySet, FS_Singleton
    <2> QED
      BY <2>1, <2>2
  <1>4. push[p].at # "idle" => p \in InFlight
    BY DEF InFlight
  <1>5. CASE CallPush(p)
    <2>1. push[p].at = "idle" /\ push'[p].at = "test"
          /\ UNCHANGED <<alert_buf, alert_head, alert_dropped>>
      BY <1>1, <1>5 DEF CallPush
    <2> QED
      BY <1>2, <1>3, <2>1, Mapped DEF Fifo!vars
  <1>6. CASE TestFull(p)
    <2>1. /\ push[p].at = "test" /\ push[p].head = alert_head
          /\ push'[p].at = IF Full(alert_head) THEN "drop" ELSE "write"
          /\ UNCHANGED <<alert_buf, alert_head, alert_dropped>>
      BY <1>1, <1>4, <1>6 DEF TestFull, Apart
    <2>2. CASE Full(alert_head)
      <3>1. Len(Queue) = ALERT_RING_SIZE - 1
        BY <1>1, <2>2, DistanceSteps, PendedIs, Mapped DEF Full
      <3>2. alert_dropped' + reported' + Cardinality(Dropping')
              = alert_dropped + reported + Cardinality(Dropping) + 1
        BY <1>1, <1>2, <1>3, <2>1, <2>2
      <3>3. UNCHANGED <<Queue, delivered>>
        BY <1>2, <2>1, Mapped
      <3> QED
        BY <3>1, <3>2, <3>3 DEF Fifo!Refuse
    <2>3. CASE ~ Full(alert_head)
      BY <1>2, <1>3, <2>1, <2>3, Mapped DEF Fifo!vars
    <2> QED
      BY <2>2, <2>3
  <1>7. CASE Drop(p)
    <2>1. push[p].at = "drop" /\ push'[p].at = "idle" /\ alert_dropped' = alert_dropped + 1
          /\ UNCHANGED <<alert_buf, alert_head>>
      BY <1>1, <1>7 DEF Drop, IdlePush
    <2>2. alert_dropped' + reported' + Cardinality(Dropping')
            = alert_dropped + reported + Cardinality(Dropping)
      BY <1>1, <1>2, <1>3, <2>1
    <2> QED
      BY <1>2, <2>1, <2>2, Mapped DEF Fifo!vars
  <1>8. CASE Write(p)
    <2>1. /\ push[p].at = "write" /\ push'[p].at = "publish" /\ push[p].head = alert_head
          /\ alert_buf' = [alert_buf EXCEPT ![alert_head] = push[p].alert]
          /\ UNCHANGED <<alert_head, alert_dropped>>
      <3>1. push[p].head = alert_head
        BY <1>4, <1>8 DEF Write, Apart
      <3> QED
        BY <1>1, <1>8, <3>1 DEF Write
    <2>2. push[p].alert \in 0..MaxAlerts
      BY <1>1 DEF PushRecord
    <2>3. Queue' = Queue
      BY <1>1, <1>2, <2>1, <2>2, HeadIsFree, Mapped
    <2> QED
      BY <1>2, <1>3, <2>1, <2>3 DEF Fifo!vars
  <1>9. CASE Publish(p)
    <2>1. /\ push[p].at = "publish" /\ push'[p].at = "idle" /\ push[p].head = alert_head
          /\ Succ(alert_head) # alert_tail /\ alert_buf[alert_head] = push[p].alert
          /\ alert_head' = Succ(alert_head) /\ UNCHANGED <<alert_buf, alert_dropped>>
      BY <1>1, <1>4, <1>9 DEF Publish, Apart, IdlePush
    <2>2. push[p].alert \in 1..MaxAlerts
      BY <1>1, <1>4, <2>1, RingAssumption DEF Typed, TypeOK, Numbered
    <2>3. Queue' = Append(Queue, push[p].alert) /\ Len(Queue) < ALERT_RING_SIZE - 1
      BY <1>1, <1>2, <2>1, PublishAppends, Mapped
    <2>4. UNCHANGED <<delivered, alert_dropped + reported + Cardinality(Dropping)>>
      BY <1>2, <1>3, <2>1
    <2> QED
      BY <2>2, <2>3, <2>4 DEF Fifo!Accept
  <1> QED
    BY <1>5, <1>6, <1>7, <1>8, <1>9 DEF Push

\* A step of the drainer is a delivery or a stutter of the queue.
LEMMA FifoDrain ==
  ASSUME Typed, Apart, Drainer
  PROVE  [Fifo!Accept \/ Fifo!Refuse \/ Fifo!Deliver]_(Fifo!vars)
  <1>1. /\ alert_buf \in [Slots -> 0..MaxAlerts] /\ alert_head \in Slots /\ alert_tail \in Slots
        /\ alert_dropped \in Nat /\ reported \in Nat
    BY DEF Typed, TypeOK
  <1>2. CASE ReleaseSlot
    <2>1. /\ drain.tail = alert_tail /\ alert_tail # alert_head
          /\ drain.entry = alert_buf[alert_tail]
      BY <1>2 DEF ReleaseSlot, Apart
    <2>2. /\ alert_tail' = Succ(alert_tail) /\ delivered' = Append(delivered, alert_buf[alert_tail])
          /\ UNCHANGED <<alert_buf, alert_head, alert_dropped, reported, push>>
      BY <1>2, <2>1 DEF ReleaseSlot, producing
    <2>3. Queue # <<>> /\ Head(Queue) = alert_buf[alert_tail] /\ Queue' = Tail(Queue)
      BY <1>1, <2>1, <2>2, ReleaseTakes, Mapped
    <2>4. UNCHANGED (alert_dropped + reported + Cardinality(Dropping))
      BY <2>2 DEF Dropping
    <2> QED
      BY <2>2, <2>3, <2>4 DEF Fifo!Deliver
  <1>3. CASE Report
    <2>1. /\ alert_dropped' = 0 /\ reported' = reported + alert_dropped
          /\ UNCHANGED <<alert_buf, alert_head, alert_tail, push, delivered>>
      BY <1>3 DEF Report, producing
    <2>2. Dropping' = Dropping /\ alert_dropped' + reported' = alert_dropped + reported
      BY <1>1, <2>1 DEF Dropping
    <2> QED
      BY <2>1, <2>2, Mapped DEF Fifo!vars
  <1>4. CASE CallDrain \/ Poll \/ ActOnPoll \/ TestEmpty \/ Read
    <2>1. OnlyDrain
      BY <1>4 DEF CallDrain, Poll, ActOnPoll, TestEmpty, Read
    <2> QED
      BY <2>1, Mapped DEF OnlyDrain, producing, Dropping, Fifo!vars
  <1> QED
    BY <1>2, <1>3, <1>4 DEF Drainer

\* For any ring size, the ring with its one producer is a bounded queue: alerts come out in
\* the order in which they were accepted, each once, and one is refused only when it is full.
THEOREM RingIsFifo ==
  ASSUME NEW p, Producers = {p}
  PROVE  Spec => FifoSpec
  <1>1. Init => Fifo!Init
    <2> SUFFICES ASSUME Init PROVE Fifo!Init
      OBVIOUS
    <2>1. Distance(0, 0) = 0
      BY DistanceIs, RingAssumption DEF Slots
    <2>2. Queue = <<>>
      BY <2>1 DEF Init, Queue
    <2>3. Dropping = {} /\ Cardinality({}) = 0
      BY FS_EmptySet DEF Init, Dropping, IdlePush
    <2> QED
      BY <2>2, <2>3 DEF Init, Fifo!Init
  <1>2. Typed /\ Apart /\ [Next]_vars => [Fifo!Accept \/ Fifo!Refuse \/ Fifo!Deliver]_(Fifo!vars)
    <2>1. UNCHANGED vars => UNCHANGED Fifo!vars
      BY Mapped DEF vars, producing, draining, Dropping, Fifo!vars
    <2> QED
      BY <2>1, FifoPush, FifoDrain DEF Next
  <1> QED
    BY <1>1, <1>2, TypedInvariant, ApartInvariant, PTL DEF Spec, FifoSpec, Fifo!Spec

=============================================================================
