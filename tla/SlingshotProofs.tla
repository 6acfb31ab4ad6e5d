---------------------------- MODULE SlingshotProofs ----------------------------
(***************************************************************************)
(* Theorems about Slingshot, for every batch size and any number of tokens *)
(* and ignitions.                                                          *)
(***************************************************************************)
EXTENDS Slingshot, SequenceTheorems, TLAPS

-----------------------------------------------------------------------------
(* Type correctness.                                                       *)

\* Pulling n tokens splits the queue.
LEMMA Split ==
  ASSUME NEW q \in Seq(Nat), NEW n \in Nat, n <= Len(q)
  PROVE  /\ SubSeq(q, 1, n) \in Seq(Nat) /\ SubSeq(q, n + 1, Len(q)) \in Seq(Nat)
         /\ Len(SubSeq(q, 1, n)) = n /\ Len(SubSeq(q, n + 1, Len(q))) = Len(q) - n
         /\ \A i \in 1..n : SubSeq(q, 1, n)[i] = q[i]
         /\ \A i \in 1..(Len(q) - n) : SubSeq(q, n + 1, Len(q))[i] = q[n + i]
  <1>1. Len(q) \in Nat
    BY LenProperties
  <1>2. /\ SubSeq(q, 1, n) \in Seq(Nat) /\ Len(SubSeq(q, 1, n)) = n
        /\ \A i \in 1..n : SubSeq(q, 1, n)[i] = q[i]
    <2>1. \A i \in 1..n : i \in 1..Len(q)
      BY <1>1
    <2> QED
      BY <1>1, <2>1, SubSeqProperties
  <1>3. /\ SubSeq(q, n + 1, Len(q)) \in Seq(Nat)
        /\ Len(SubSeq(q, n + 1, Len(q))) = Len(q) - n
        /\ \A i \in 1..(Len(q) - n) : SubSeq(q, n + 1, Len(q))[i] = q[n + i]
    BY <1>1, SubSeqProperties
  <1> QED
    BY <1>2, <1>3

\* The tokens of a batch are no more than the queue held when its length was read.
LEMMA CountType ==
  ASSUME TypeOK, NEW w \in Workers
  PROVE  Count(w) \in Nat /\ Count(w) <= queue_size[w]
  BY SlingshotAssumption DEF Count, TypeOK

-----------------------------------------------------------------------------
(* The inductive invariant.                                                *)

\* Where the owner and the current worker can be at once.
Meeting(own, run, point) ==
  \/ own = "idle" /\ ~run /\ point = "none"
  \/ own = "ignite" /\ run /\ point = "none"
  \/ own = "idle" /\ run /\ point \in Working
  \/ own = "shutdown" /\ ~run /\ point \in Working \cup {"ended"}

\* A worker holds tokens from its pull to the last token's count.
Holding(point, b) ==
  /\ point \notin {"measure", "count"} => b = <<>>
  /\ point = "measure" => b # <<>>

\* Only the worker of the last ignition runs or holds anything, and it and the owner keep
\* to Meeting: this is what makes the length read under one lock good under the next.
OneWorker ==
  /\ \A w \in Workers \ {ignitions} : pc[w] = "none" /\ batch[w] = <<>>
  /\ Meeting(owner, running, pc[ignitions])
  /\ Holding(pc[ignitions], batch[ignitions])

IInv == TypeOK /\ OneWorker /\ SizeStillThere /\ EveryTokenOnce

\* A worker that takes a step is the current one.
LEMMA TheWorker ==
  ASSUME IInv, NEW w \in Workers, pc[w] \in Working
  PROVE  w = ignitions
  BY DEF IInv, OneWorker, Working

\* The invariant holds at the start.
LEMMA InvInit == Init => IInv
  BY SlingshotAssumption DEF Init, IInv, TypeOK, Workers, OneWorker, Meeting, Holding, SizeStillThere,
     EveryTokenOnce, Hand, Working

\* The steps that move no token.
LEMMA InvIdle ==
  ASSUME IInv,
         \/ Ignite \/ Start \/ Shutdown \/ Join \/ UNCHANGED vars
         \/ \E w \in Workers : TestRunning(w) \/ ReadSize(w)
  PROVE  IInv'
  <1> USE DEF IInv
  <1>1. CASE Ignite
    <2>1. ignitions' \in Workers /\ ignitions' = ignitions + 1
      BY <1>1, SlingshotAssumption DEF Ignite, TypeOK, Workers
    <2>2. pc[ignitions] = "none" /\ Hand = <<>>
      BY <1>1 DEF Ignite, OneWorker, Meeting, Holding, Hand
    <2>3. pc[ignitions'] = "none" /\ batch[ignitions'] = <<>>
      BY <2>1 DEF OneWorker, TypeOK, Workers
    <2>4. TypeOK'
      BY <1>1, <2>1 DEF Ignite, workers, TypeOK
    <2>5. OneWorker'
      BY <1>1, <2>1, <2>2, <2>3 DEF Ignite, workers, OneWorker, Meeting, Holding, Hand
    <2>6. SizeStillThere'
      BY <1>1 DEF Ignite, workers, SizeStillThere
    <2>7. EveryTokenOnce'
      <3>1. Hand' = Hand /\ pc'[ignitions'] = "none"
        BY <1>1, <2>2, <2>3 DEF Ignite, workers, Hand
      <3> QED
        BY <1>1, <2>2, <3>1 DEF Ignite, EveryTokenOnce
    <2> QED
      BY <2>4, <2>5, <2>6, <2>7
  <1>2. CASE Start
    <2>1. TypeOK'
      BY <1>2 DEF Start, Goto, shared, TypeOK, Working
    <2>2. OneWorker'
      BY <1>2 DEF Start, Goto, shared, OneWorker, Meeting, Holding, TypeOK, Working
    <2>3. SizeStillThere'
      BY <1>2 DEF Start, Goto, shared, SizeStillThere, TypeOK
    <2>4. EveryTokenOnce'
      BY <1>2 DEF Start, Goto, shared, EveryTokenOnce, Hand, TypeOK, OneWorker, Meeting
    <2> QED
      BY <2>1, <2>2, <2>3, <2>4
  <1>3. CASE Shutdown
    <2>1. OneWorker'
      BY <1>3 DEF Shutdown, workers, OneWorker, Meeting, Holding
    <2> QED
      BY <1>3, <2>1 DEF Shutdown, workers, TypeOK, SizeStillThere, EveryTokenOnce, Hand
  <1>4. CASE Join
    <2>1. TypeOK'
      BY <1>4 DEF Join, Goto, shared, TypeOK
    <2>2. OneWorker'
      BY <1>4 DEF Join, Goto, shared, OneWorker, Meeting, Holding, TypeOK, Working
    <2>3. SizeStillThere'
      BY <1>4 DEF Join, Goto, shared, SizeStillThere, TypeOK
    <2>4. EveryTokenOnce'
      BY <1>4 DEF Join, Goto, shared, EveryTokenOnce, Hand, TypeOK
    <2> QED
      BY <2>1, <2>2, <2>3, <2>4
  <1>5. ASSUME NEW w \in Workers, TestRunning(w) PROVE IInv'
    <2>0. w = ignitions
      BY <1>5, TheWorker DEF TestRunning, Working
    <2>1. TypeOK'
      BY <1>5 DEF TestRunning, Goto, shared, TypeOK, Working
    <2>2. OneWorker'
      BY <1>5, <2>0 DEF TestRunning, Goto, shared, OneWorker, Meeting, Holding, TypeOK, Working
    <2>3. SizeStillThere'
      BY <1>5 DEF TestRunning, Goto, shared, SizeStillThere, TypeOK
    <2>4. EveryTokenOnce'
      BY <1>5, <2>0 DEF TestRunning, Goto, shared, EveryTokenOnce, Hand, TypeOK
    <2> QED
      BY <2>1, <2>2, <2>3, <2>4
  <1>6. ASSUME NEW w \in Workers, ReadSize(w) PROVE IInv'
    <2>0. w = ignitions /\ Len(queue) \in Nat /\ (queue # <<>> => Len(queue) > 0)
      BY <1>6, TheWorker, LenProperties, EmptySeq DEF ReadSize, Working, TypeOK
    <2>1. TypeOK'
      BY <1>6, <2>0 DEF ReadSize, Goto, shared, TypeOK, Working
    <2>2. OneWorker'
      BY <1>6, <2>0 DEF ReadSize, Goto, shared, OneWorker, Meeting, Holding, TypeOK, Working
    <2>3. SizeStillThere'
      BY <1>6, <2>0 DEF ReadSize, Goto, shared, SizeStillThere, TypeOK
    <2>4. EveryTokenOnce'
      BY <1>6, <2>0 DEF ReadSize, Goto, shared, EveryTokenOnce, Hand, TypeOK
    <2> QED
      BY <2>1, <2>2, <2>3, <2>4
  <1>7. CASE UNCHANGED vars
    BY <1>7 DEF vars, shared, workers, TypeOK, OneWorker, SizeStillThere, EveryTokenOnce, Hand
  <1> QED
    BY <1>1, <1>2, <1>3, <1>4, <1>5, <1>6, <1>7

\* A token joins the end of the queue.
LEMMA InvQueue ==
  ASSUME IInv, QueueToken
  PROVE  IInv'
  <1> USE DEF IInv
  <1>1. /\ queue' = Append(queue, arrived + 1) /\ arrived' = arrived + 1
        /\ UNCHANGED <<running, latencies, validated_count, owner, ignitions, workers>>
    BY DEF QueueToken
  <1>2. /\ queue' \in Seq(Nat) /\ Len(queue') = Len(queue) + 1 /\ Len(queue) \in Nat
        /\ queue'[Len(queue) + 1] = arrived + 1
        /\ \A i \in 1..Len(queue) : queue'[i] = queue[i]
    BY <1>1, AppendProperties, LenProperties DEF TypeOK
  <1>3. TypeOK'
    BY <1>1, <1>2 DEF workers, TypeOK
  <1>4. OneWorker'
    BY <1>1 DEF workers, OneWorker
  <1>5. SizeStillThere'
    <2> SUFFICES ASSUME NEW w \in Workers, pc[w] = "pull"
                 PROVE  0 < queue_size[w] /\ queue_size[w] <= Len(queue')
      BY <1>1 DEF workers, SizeStillThere
    <2>1. queue_size[w] \in Nat
      BY DEF TypeOK
    <2> QED
      BY <1>2, <2>1 DEF SizeStillThere
  <1>6. EveryTokenOnce'
    <2>1. Hand' = Hand /\ pc' = pc /\ Hand \in Seq(Nat)
      BY <1>1 DEF workers, Hand, TypeOK
    <2>2. Len(Hand) \in Nat /\ Len(latencies) \in Nat
      BY <2>1, LenProperties DEF TypeOK
    <2>3. \A i \in 1..Len(queue') : queue'[i] = Len(latencies) + Len(Hand) + i
      <3> TAKE i \in 1..Len(queue')
      <3>1. CASE i = Len(queue) + 1
        BY <1>2, <2>2, <3>1 DEF EveryTokenOnce
      <3>2. CASE i \in 1..Len(queue)
        BY <1>2, <3>2 DEF EveryTokenOnce
      <3> QED
        BY <1>2, <3>1, <3>2
    <2> QED
      BY <1>1, <1>2, <2>1, <2>2, <2>3 DEF EveryTokenOnce
  <1> QED
    BY <1>3, <1>4, <1>5, <1>6

\* A batch passes from the front of the queue to the empty hand.
LEMMA InvPull ==
  ASSUME IInv, NEW w \in Workers, Pull(w)
  PROVE  IInv'
  <1> USE DEF IInv
  <1> DEFINE n == Count(w)
  <1>1. w = ignitions
    BY TheWorker DEF Pull, Working
  <1>2. n \in Nat /\ n > 0 /\ n <= Len(queue) /\ Len(queue) \in Nat
    BY CountType, LenProperties, SlingshotAssumption DEF Pull, SizeStillThere, TypeOK, Count
  <1>3. /\ batch' = [batch EXCEPT ![w] = SubSeq(queue, 1, n)]
        /\ queue' = SubSeq(queue, n + 1, Len(queue))
        /\ pc[w] = "pull" /\ pc' = [pc EXCEPT ![w] = "measure"]
        /\ UNCHANGED <<running, latencies, validated_count, owner, ignitions, queue_size, arrived>>
    BY DEF Pull, Goto
  <1> HIDE DEF n
  <1>4. /\ Hand' = SubSeq(queue, 1, n) /\ Hand' \in Seq(Nat) /\ queue' \in Seq(Nat)
        /\ Len(Hand') = n /\ Len(queue') = Len(queue) - n
        /\ \A i \in 1..n : Hand'[i] = queue[i]
        /\ \A i \in 1..(Len(queue) - n) : queue'[i] = queue[n + i]
    BY <1>1, <1>2, <1>3, Split DEF TypeOK, Hand
  <1>5. TypeOK'
    BY <1>1, <1>3, <1>4 DEF TypeOK, Working, Hand
  <1>6. OneWorker'
    <2>1. Hand' # <<>>
      BY <1>2, <1>4
    <2> QED
      BY <1>1, <1>3, <2>1 DEF OneWorker, Meeting, Holding, Hand, TypeOK, Working
  <1>7. SizeStillThere'
    BY <1>1, <1>3 DEF OneWorker, SizeStillThere, TypeOK
  <1>8. EveryTokenOnce'
    <2>1. Hand = <<>> /\ Len(Hand) = 0 /\ Len(latencies) \in Nat
      BY <1>1, <1>3, LenProperties DEF OneWorker, Holding, Hand, TypeOK
    <2>2. \A i \in 1..Len(Hand') : Hand'[i] = Len(latencies) + i
      BY <1>2, <1>4, <2>1 DEF EveryTokenOnce
    <2>3. \A i \in 1..Len(queue') : queue'[i] = Len(latencies) + Len(Hand') + i
      <3> TAKE i \in 1..Len(queue')
      <3>1. n + i \in 1..Len(queue) /\ queue'[i] = queue[n + i]
        BY <1>2, <1>4
      <3> QED
        BY <1>2, <1>4, <2>1, <3>1 DEF EveryTokenOnce
    <2>4. pc'[ignitions] # "count" /\ pc[ignitions] # "count"
      BY <1>1, <1>3 DEF TypeOK
    <2>5. Len(latencies) + Len(Hand') + Len(queue') = Len(latencies) + Len(Hand) + Len(queue)
      BY <1>2, <1>4, <2>1
    <2>6. arrived' = Len(latencies') + Len(Hand') + Len(queue')
      BY <1>3, <2>5 DEF EveryTokenOnce
    <2>7. ignitions' = ignitions /\ latencies' = latencies /\ validated_count' = validated_count
      BY <1>3
    <2> QED
      BY <2>2, <2>3, <2>4, <2>6, <2>7 DEF EveryTokenOnce
  <1> QED
    BY <1>5, <1>6, <1>7, <1>8

\* The first token in hand is measured.
LEMMA InvMeasure ==
  ASSUME IInv, NEW w \in Workers, Measure(w)
  PROVE  IInv'
  <1> USE DEF IInv
  <1>1. w = ignitions /\ Hand = batch[w]
    BY TheWorker DEF Measure, Working, Hand
  <1>2. /\ latencies' = Append(latencies, Head(Hand))
        /\ batch' = [batch EXCEPT ![w] = Tail(Hand)]
        /\ pc[w] = "measure" /\ pc' = [pc EXCEPT ![w] = "count"] /\ Hand # <<>>
        /\ UNCHANGED <<running, queue, validated_count, owner, ignitions, queue_size, arrived>>
    BY <1>1 DEF Measure, Goto
  <1>3. Hand \in Seq(Nat) /\ Len(Hand) \in Nat /\ Len(latencies) \in Nat /\ Len(queue) \in Nat
    BY <1>1, LenProperties DEF TypeOK
  <1>4. /\ Hand' = Tail(Hand) /\ Hand' \in Seq(Nat) /\ Len(Hand') = Len(Hand) - 1
        /\ Head(Hand) = Hand[1] /\ Head(Hand) \in Nat
        /\ \A i \in 1..Len(Hand') : Hand'[i] = Hand[i + 1]
    <2>1. Hand' = Tail(Hand)
      BY <1>1, <1>2 DEF Hand, TypeOK
    <2> QED
      BY <1>2, <1>3, <2>1, HeadTailProperties
  <1>5. /\ latencies' \in Seq(Nat) /\ Len(latencies') = Len(latencies) + 1
        /\ latencies'[Len(latencies) + 1] = Hand[1]
        /\ \A i \in 1..Len(latencies) : latencies'[i] = latencies[i]
    BY <1>2, <1>3, <1>4, AppendProperties DEF TypeOK
  <1>6. Len(Hand) > 0
    BY <1>2, <1>3, EmptySeq
  <1>7. TypeOK'
    BY <1>1, <1>2, <1>4, <1>5 DEF TypeOK, Working, Hand
  <1>8. OneWorker'
    BY <1>1, <1>2 DEF OneWorker, Meeting, Holding, TypeOK, Working
  <1>9. SizeStillThere'
    BY <1>2 DEF SizeStillThere, TypeOK
  <1>10. EveryTokenOnce'
    <2>1. \A i \in 1..Len(latencies') : latencies'[i] = i
      <3> TAKE i \in 1..Len(latencies')
      <3>1. CASE i = Len(latencies) + 1
        BY <1>3, <1>5, <1>6, <3>1 DEF EveryTokenOnce
      <3>2. CASE i \in 1..Len(latencies)
        BY <1>5, <3>2 DEF EveryTokenOnce
      <3> QED
        BY <1>3, <1>5, <3>1, <3>2
    <2>2. \A i \in 1..Len(Hand') : Hand'[i] = Len(latencies') + i
      <3> TAKE i \in 1..Len(Hand')
      <3>1. i + 1 \in 1..Len(Hand) /\ Hand'[i] = Hand[i + 1]
        BY <1>3, <1>4
      <3> QED
        BY <1>3, <1>5, <3>1 DEF EveryTokenOnce
    <2>3. Len(latencies') + Len(Hand') = Len(latencies) + Len(Hand)
      BY <1>3, <1>4, <1>5
    <2>4. \A i \in 1..Len(queue') : queue'[i] = Len(latencies') + Len(Hand') + i
      BY <1>2, <2>3 DEF EveryTokenOnce
    <2>5. pc'[ignitions] = "count" /\ pc[ignitions] # "count" /\ ignitions' = ignitions
      BY <1>1, <1>2 DEF TypeOK
    <2>6. validated_count' + 1 = Len(latencies')
      BY <1>2, <1>3, <1>5, <2>5 DEF EveryTokenOnce, TypeOK
    <2> QED
      BY <1>2, <2>1, <2>2, <2>3, <2>4, <2>5, <2>6 DEF EveryTokenOnce
  <1> QED
    BY <1>7, <1>8, <1>9, <1>10

\* The token measured is counted.
LEMMA InvCount ==
  ASSUME IInv, NEW w \in Workers, CountToken(w)
  PROVE  IInv'
  <1> USE DEF IInv
  <1>1. w = ignitions
    BY TheWorker DEF CountToken, Working
  <1>2. TypeOK'
    BY DEF CountToken, Goto, TypeOK, Working
  <1>3. OneWorker'
    BY <1>1 DEF CountToken, BatchDone, Goto, OneWorker, Meeting, Holding, TypeOK, Working
  <1>4. SizeStillThere'
    BY DEF CountToken, Goto, SizeStillThere, TypeOK
  <1>5. EveryTokenOnce'
    BY <1>1 DEF CountToken, Goto, EveryTokenOnce, Hand, TypeOK
  <1> QED
    BY <1>2, <1>3, <1>4, <1>5

\* The invariant is inductive.
LEMMA InvStep == IInv /\ [Next]_vars => IInv'
  BY InvIdle, InvQueue, InvPull, InvMeasure, InvCount DEF Next, WorkerStep

\* In every reachable state.
LEMMA Invariance == Spec => []IInv
  BY InvInit, InvStep, PTL DEF Spec

-----------------------------------------------------------------------------
(* The properties.                                                         *)

\* Every variable of the validator keeps its type.
THEOREM TypeInvariant == Spec => []TypeOK
  <1>1. IInv => TypeOK
    BY DEF IInv
  <1> QED
    BY <1>1, Invariance, PTL

\* For any batch size, every token queued is measured once, in order, whatever shutdowns
\* and ignitions come between.
THEOREM NoTokenLost == Spec => []EveryTokenOnce
  <1>1. IInv => EveryTokenOnce
    BY DEF IInv
  <1> QED
    BY <1>1, Invariance, PTL

\* The worker never pops an empty queue.
THEOREM PullFindsItsBatch == Spec => []SizeStillThere
  <1>1. IInv => SizeStillThere
    BY DEF IInv
  <1> QED
    BY <1>1, Invariance, PTL

\* Between a shutdown that has returned and the next ignite nothing is validated, and
\* nothing is left in a worker's hand.
THEOREM ShutdownIsQuiet == Spec => QuietAfterShutdown
  <1>1. ASSUME IInv, [Next]_vars, ~running, owner = "idle"
        PROVE  UNCHANGED <<latencies, validated_count, batch>> /\ Hand = <<>>
    <2>1. \A w \in Workers : pc[w] = "none"
      BY <1>1 DEF IInv, OneWorker, Meeting, TypeOK
    <2>2. Hand = <<>>
      BY <1>1, <2>1 DEF IInv, OneWorker, Holding, Hand, TypeOK
    <2>3. UNCHANGED <<latencies, validated_count, batch>>
      BY <1>1, <2>1 DEF Next, QueueToken, Ignite, Start, Shutdown, Join, WorkerStep,
         TestRunning, ReadSize, Pull, Measure, CountToken, workers, shared, vars
    <2> QED
      BY <2>2, <2>3
  <1>2. IInv /\ [Next]_vars =>
          [~running /\ owner = "idle" =>
             UNCHANGED <<latencies, validated_count, batch>> /\ Hand = <<>>]_vars
    BY <1>1
  <1> QED
    BY <1>2, Invariance, PTL DEF Spec, QuietAfterShutdown

-----------------------------------------------------------------------------
(* The validator implements the service.                                   *)

Taken == Len(latencies) + Len(Hand)

\* The counts the service keeps are numbers, and it has served all it has taken unless a
\* batch is in hand or its last token is being counted.
LEMMA ServiceCounts ==
  ASSUME IInv
  PROVE  /\ Taken \in Nat /\ validated_count \in Nat /\ arrived \in Nat
         /\ Len(latencies) \in Nat /\ Len(Hand) \in Nat /\ Len(queue) \in Nat
         /\ validated_count <= Len(latencies)
         /\ pc[ignitions] \notin {"measure", "count"} => Hand = <<>> /\ validated_count = Taken
  <1>1. /\ Len(latencies) \in Nat /\ Len(Hand) \in Nat /\ Len(queue) \in Nat
        /\ validated_count \in Nat /\ arrived \in Nat
    BY LenProperties DEF IInv, TypeOK, Hand
  <1>2. validated_count <= Len(latencies)
    BY <1>1 DEF IInv, EveryTokenOnce
  <1>3. ASSUME pc[ignitions] \notin {"measure", "count"}
        PROVE  Hand = <<>> /\ validated_count = Taken
    <2>1. Hand = <<>> /\ Len(Hand) = 0
      BY <1>3 DEF IInv, OneWorker, Holding, Hand
    <2> QED
      BY <1>1, <1>3, <2>1 DEF IInv, EveryTokenOnce, Taken
  <1> QED
    BY <1>1, <1>2, <1>3 DEF Taken

\* The validator starts as a service that is off.
LEMMA ServiceInit == Init => Service!Init
  <1> SUFFICES ASSUME Init PROVE Service!Init
    OBVIOUS
  <1>1. Hand = <<>> /\ latencies = <<>>
    BY SlingshotAssumption DEF Init, Hand, Workers
  <1>2. Len(latencies) + Len(Hand) = 0
    BY <1>1
  <1>3. Phase = "off" /\ BetweenTestAndPull = FALSE
    BY DEF Init, Phase, BetweenTestAndPull
  <1> QED
    BY <1>2, <1>3 DEF Init, Service!Init

\* What the owner does.
LEMMA OwnerServes ==
  ASSUME IInv, QueueToken \/ Ignite \/ Start \/ Shutdown \/ Join
  PROVE  [Service!Next]_(Service!vars)
  <1> USE DEF IInv
  <1>1. CASE QueueToken
    <2>1. UNCHANGED <<Phase, BetweenTestAndPull, Len(latencies) + Len(Hand), validated_count>>
      BY <1>1 DEF QueueToken, workers, Phase, BetweenTestAndPull, Hand
    <2> QED
      BY <1>1, <2>1 DEF QueueToken, Service!Next, Service!Arrive
  <1>2. CASE Ignite
    <2>1. ignitions' \in Workers /\ ignitions' = ignitions + 1
      BY <1>2, SlingshotAssumption DEF Ignite, TypeOK, Workers
    <2>2. Hand = <<>> /\ Hand' = <<>>
      BY <1>2, <2>1 DEF Ignite, workers, OneWorker, Meeting, Holding, Hand, TypeOK, Workers
    <2>3. Phase = "off" /\ Phase' = "on" /\ BetweenTestAndPull = FALSE /\ BetweenTestAndPull' = FALSE
      BY <1>2 DEF Ignite, Phase, BetweenTestAndPull
    <2> QED
      BY <1>2, <2>2, <2>3 DEF Ignite, Service!Next, Service!Ignite
  <1>3. CASE Start
    <2>1. UNCHANGED <<Phase, BetweenTestAndPull, Hand>>
      BY <1>3 DEF Start, shared, Phase, BetweenTestAndPull, Hand
    <2> QED
      BY <1>3, <2>1 DEF Start, shared, Service!vars
  <1>4. CASE Shutdown
    <2>1. Phase = "on" /\ Phase' = "stopping" /\ BetweenTestAndPull' \in BOOLEAN
      BY <1>4 DEF Shutdown, Phase, BetweenTestAndPull
    <2>2. Hand' = Hand
      BY <1>4 DEF Shutdown, workers, Hand
    <2> QED
      BY <1>4, <2>1, <2>2 DEF Shutdown, Service!Next, Service!Stop
  <1>5. CASE Join
    <2>1. /\ Phase = "stopping" /\ Phase' = "off"
          /\ BetweenTestAndPull = FALSE /\ BetweenTestAndPull' = FALSE
      BY <1>5 DEF Join, shared, OneWorker, Meeting, Phase, BetweenTestAndPull
    <2>2. validated_count = Len(latencies) + Len(Hand)
      BY <1>5, ServiceCounts DEF Join, Taken
    <2>3. Hand' = Hand
      BY <1>5 DEF Join, Hand
    <2> QED
      BY <1>5, <2>1, <2>2, <2>3 DEF Join, shared, Service!Next, Service!Stopped
  <1> QED
    BY <1>1, <1>2, <1>3, <1>4, <1>5

\* The worker's tests take nothing and serve nothing; a stopping worker that finds the
\* queue empty will take no more.
LEMMA TestsServeNothing ==
  ASSUME IInv, NEW w \in Workers, TestRunning(w) \/ ReadSize(w)
  PROVE  [Service!Next]_(Service!vars)
  <1>1. w = ignitions
    BY TheWorker DEF TestRunning, ReadSize, Working
  <1>2. UNCHANGED <<Phase, arrived, Len(latencies) + Len(Hand), validated_count>>
    BY DEF TestRunning, ReadSize, shared, Phase, Hand
  <1>3. CASE TestRunning(w)
    <2>1. BetweenTestAndPull' = BetweenTestAndPull
      BY <1>1, <1>3 DEF IInv, TypeOK, OneWorker, Meeting, TestRunning, Goto, shared, BetweenTestAndPull
    <2> QED
      BY <1>2, <2>1 DEF Service!vars
  <1>4. CASE ReadSize(w)
    <2>1. \/ BetweenTestAndPull' = BetweenTestAndPull
          \/ BetweenTestAndPull = TRUE /\ BetweenTestAndPull' = FALSE
      BY <1>1, <1>4 DEF IInv, TypeOK, ReadSize, Goto, shared, BetweenTestAndPull
    <2> QED
      BY <1>2, <2>1 DEF Service!Next, Service!TakeNoMore, Service!vars
  <1> QED
    BY <1>3, <1>4

\* A pull takes one batch, and leaves a stopping worker none to take.
LEMMA PullTakes ==
  ASSUME IInv, NEW w \in Workers, Pull(w)
  PROVE  Service!Take
  <1> DEFINE n == Count(w)
  <1>1. w = ignitions /\ pc[w] = "pull"
    BY TheWorker DEF Pull, Working
  <1>2. n \in 1..BATCH_SIZE /\ n <= Len(queue)
    BY <1>1, CountType, LenProperties, SlingshotAssumption
    DEF IInv, SizeStillThere, TypeOK, Count
  <1>3. Hand' = SubSeq(queue, 1, n)
    BY <1>1 DEF IInv, TypeOK, Pull, Hand
  <1> HIDE DEF n
  <1>4. Len(Hand') = n
    BY <1>2, <1>3, Split DEF IInv, TypeOK
  <1>5. /\ validated_count = Taken /\ Hand = <<>> /\ Taken = Len(latencies)
        /\ Len(latencies) \in Nat /\ Len(queue) \in Nat
    BY <1>1, ServiceCounts DEF Taken
  <1>6. arrived = Len(latencies) + Len(queue)
    BY <1>5 DEF IInv, EveryTokenOnce
  <1>7. Phase = "on" \/ BetweenTestAndPull
    BY <1>1 DEF IInv, OneWorker, Meeting, Phase, BetweenTestAndPull
  <1>8. BetweenTestAndPull' = FALSE
    BY <1>1 DEF IInv, TypeOK, Pull, Goto, BetweenTestAndPull
  <1>9. UNCHANGED <<Phase, arrived, validated_count, latencies>>
    BY DEF Pull, Phase
  <1>10. Len(latencies') + Len(Hand') = Len(latencies) + Len(Hand) + n
    BY <1>4, <1>5, <1>9
  <1>11. /\ Len(latencies) + Len(Hand) + n \in
              (Len(latencies) + Len(Hand) + 1)..(Len(latencies) + Len(Hand) + BATCH_SIZE)
         /\ Len(latencies) + Len(Hand) + n <= arrived
    BY <1>2, <1>5, <1>6, SlingshotAssumption
  <1> QED
    BY <1>5, <1>7, <1>8, <1>9, <1>10, <1>11 DEF Service!Take, Taken

\* Measuring a token moves it within what is taken.
LEMMA MeasureKeeps ==
  ASSUME IInv, NEW w \in Workers, Measure(w)
  PROVE  UNCHANGED Service!vars
  <1>1. w = ignitions /\ pc[w] = "measure" /\ Hand = batch[w] /\ Hand # <<>>
    BY TheWorker DEF Measure, Working, Hand
  <1>2. Hand' = Tail(Hand) /\ latencies' = Append(latencies, Head(Hand))
    BY <1>1 DEF IInv, TypeOK, Measure, Hand
  <1>3. Hand \in Seq(Nat) /\ latencies \in Seq(Nat)
    BY <1>1 DEF IInv, TypeOK
  <1>4. Len(Hand') = Len(Hand) - 1 /\ Len(latencies') = Len(latencies) + 1
    BY <1>1, <1>2, <1>3, HeadTailProperties, AppendProperties
  <1>5. Len(latencies') + Len(Hand') = Len(latencies) + Len(Hand)
    BY <1>3, <1>4, LenProperties
  <1>6. BetweenTestAndPull' = BetweenTestAndPull
    BY <1>1 DEF IInv, TypeOK, Measure, Goto, BetweenTestAndPull
  <1>7. UNCHANGED <<Phase, arrived, validated_count>>
    BY DEF Measure, Phase
  <1> QED
    BY <1>5, <1>6, <1>7 DEF Service!vars

\* Counting a token serves it.
LEMMA CountServes ==
  ASSUME IInv, NEW w \in Workers, CountToken(w)
  PROVE  Service!Serve
  <1>1. w = ignitions /\ pc[w] = "count"
    BY TheWorker DEF CountToken, Working
  <1>2. validated_count < Len(latencies) + Len(Hand)
    BY <1>1, ServiceCounts DEF IInv, EveryTokenOnce
  <1>3. BetweenTestAndPull' = BetweenTestAndPull
    BY <1>1 DEF IInv, TypeOK, CountToken, Goto, BetweenTestAndPull
  <1>4. UNCHANGED <<Phase, arrived, latencies, Hand>>
    BY DEF CountToken, Phase, Hand
  <1>5. validated_count' = validated_count + 1
    BY DEF CountToken
  <1> QED
    BY <1>2, <1>3, <1>4, <1>5 DEF Service!Serve

\* Every step of the validator is a step of the service or leaves it unchanged.
LEMMA ServiceStep == IInv /\ [Next]_vars => [Service!Next]_(Service!vars)
  <1> SUFFICES ASSUME IInv, [Next]_vars PROVE [Service!Next]_(Service!vars)
    OBVIOUS
  <1>1. CASE UNCHANGED vars
    <2>1. UNCHANGED <<Phase, BetweenTestAndPull, Len(latencies) + Len(Hand)>>
      BY <1>1 DEF vars, shared, workers, Phase, BetweenTestAndPull, Hand
    <2> QED
      BY <1>1, <2>1 DEF vars, shared, Service!vars
  <1>2. ASSUME NEW w \in Workers, WorkerStep(w) PROVE [Service!Next]_(Service!vars)
    BY <1>2, TestsServeNothing, PullTakes, MeasureKeeps, CountServes DEF WorkerStep, Service!Next
  <1> QED
    BY <1>1, <1>2, OwnerServes DEF Next

\* Wherever a shutdown falls, the worker takes at most one batch more, the batch is served
\* before shutdown returns, and then nothing is until the next ignite.
THEOREM ImplementsService == Spec => ServiceSpec
  BY ServiceInit, ServiceStep, Invariance, PTL DEF Spec, ServiceSpec, Service!Spec

=============================================================================
