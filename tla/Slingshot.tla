------------------------------- MODULE Slingshot -------------------------------
(***************************************************************************)
(* The validator of src/core_engine/src/burner/slingshot_validator.cpp.    *)
(*                                                                         *)
(* Any thread queues tokens; ignite starts a worker thread that pulls them *)
(* in batches and validates them one by one; shutdown asks it to stop and  *)
(* waits for it.  One thread owns the validator: it ignites one that is    *)
(* not running and shuts it down, the destructor being its last shutdown.  *)
(*                                                                         *)
(* A step is one access to what threads share: running_, queue_ under its  *)
(* lock, latencies_us_ under its lock, validated_count_.  The result of a  *)
(* validation is computed and dropped by the code, and pre-heating the     *)
(* core takes time only; neither is modelled.                              *)
(*                                                                         *)
(* Definitions named Mut... are deliberate faults, used by no action: they *)
(* replace the definition that follows to confirm the properties notice.   *)
(***************************************************************************)
EXTENDS Naturals, Sequences

CONSTANTS
  BATCH_SIZE,
  MaxTokens,      \* bound: tokens queued
  MaxIgnitions    \* bound: calls of ignite

ASSUME SlingshotAssumption ==
  BATCH_SIZE \in Nat \ {0} /\ MaxTokens \in Nat /\ MaxIgnitions \in Nat

VARIABLES
  running,        \* running_
  queue,          \* queue_: tokens, named by the order of their arrival
  latencies,      \* latencies_us_: the token each entry was measured on
  validated_count,
  owner,          \* what the owner is in: "idle", "ignite" or "shutdown"
  ignitions,      \* workers started, or being started
  pc,             \* where each worker is
  queue_size,     \* each worker's copy of the length of the queue
  batch,          \* the tokens each worker has pulled and not yet measured
  arrived         \* history: tokens queued

shared == <<running, queue, latencies, validated_count>>
workers == <<pc, queue_size, batch>>
vars == <<shared, owner, ignitions, workers, arrived>>

\* ignite number n starts worker n; worker 0 never runs
Workers == 0..MaxIgnitions
Working == {"test", "size", "pull", "measure", "count"}

TypeOK ==
  /\ running \in BOOLEAN
  /\ queue \in Seq(Nat) /\ latencies \in Seq(Nat)
  /\ validated_count \in Nat /\ arrived \in Nat
  /\ owner \in {"idle", "ignite", "shutdown"}
  /\ ignitions \in Workers
  /\ pc \in [Workers -> Working \cup {"none", "ended"}]
  /\ queue_size \in [Workers -> Nat]
  /\ batch \in [Workers -> Seq(Nat)]

\* std::min(queue_size, BATCH_SIZE)
Count(w) == IF queue_size[w] < BATCH_SIZE THEN queue_size[w] ELSE BATCH_SIZE

Goto(w, point) == pc' = [pc EXCEPT ![w] = point]

-----------------------------------------------------------------------------
(* Callers.                                                                *)

QueueToken ==
  /\ arrived < MaxTokens
  /\ arrived' = arrived + 1
  /\ queue' = Append(queue, arrived + 1)
  /\ UNCHANGED <<running, latencies, validated_count, owner, ignitions, workers>>

\* a second ignite while a worker is joinable ends the program in std::terminate
Ignite ==
  /\ owner = "idle" /\ ~running
  /\ ignitions < MaxIgnitions
  /\ running' = TRUE
  /\ owner' = "ignite"
  /\ ignitions' = ignitions + 1
  /\ UNCHANGED <<queue, latencies, validated_count, workers, arrived>>

\* the thread starts and worker_ refers to it
Start ==
  /\ owner = "ignite"
  /\ owner' = "idle"
  /\ Goto(ignitions, "test")
  /\ UNCHANGED <<shared, ignitions, queue_size, batch, arrived>>

\* shutdown past its first test; on a validator that is not running it does nothing
Shutdown ==
  /\ owner = "idle" /\ running
  /\ running' = FALSE
  /\ owner' = "shutdown"
  /\ UNCHANGED <<queue, latencies, validated_count, ignitions, workers, arrived>>

MutDetach ==
  /\ owner = "shutdown"
  /\ owner' = "idle"
  /\ UNCHANGED <<shared, ignitions, workers, arrived>>

\* join returns when the worker has ended
Join ==
  /\ owner = "shutdown" /\ pc[ignitions] = "ended"
  /\ owner' = "idle"
  /\ Goto(ignitions, "none")
  /\ UNCHANGED <<shared, ignitions, queue_size, batch, arrived>>

-----------------------------------------------------------------------------
(* worker_loop and validate_batch.                                         *)

TestRunning(w) ==
  /\ pc[w] = "test"
  /\ Goto(w, IF running THEN "size" ELSE "ended")
  /\ UNCHANGED <<shared, owner, ignitions, queue_size, batch, arrived>>

MutEndWhenEmpty(w) ==
  /\ pc[w] = "size"
  /\ queue_size' = [queue_size EXCEPT ![w] = Len(queue)]
  /\ Goto(w, IF queue = <<>> THEN "ended" ELSE "pull")
  /\ UNCHANGED <<shared, owner, ignitions, batch, arrived>>

\* an empty queue is looked at again after a sleep
ReadSize(w) ==
  /\ pc[w] = "size"
  /\ queue_size' = [queue_size EXCEPT ![w] = Len(queue)]
  /\ Goto(w, IF queue = <<>> THEN "test" ELSE "pull")
  /\ UNCHANGED <<shared, owner, ignitions, batch, arrived>>

\* front and pop on an empty queue are undefined: see SizeStillThere
Pull(w) ==
  /\ pc[w] = "pull"
  /\ batch' = [batch EXCEPT ![w] = SubSeq(queue, 1, Count(w))]
  /\ queue' = SubSeq(queue, Count(w) + 1, Len(queue))
  /\ Goto(w, "measure")
  /\ UNCHANGED <<running, latencies, validated_count, owner, ignitions, queue_size, arrived>>

\* the latency of the batch's next token is recorded
Measure(w) ==
  /\ pc[w] = "measure" /\ batch[w] # <<>>
  /\ latencies' = Append(latencies, Head(batch[w]))
  /\ batch' = [batch EXCEPT ![w] = Tail(@)]
  /\ Goto(w, "count")
  /\ UNCHANGED <<running, queue, validated_count, owner, ignitions, queue_size, arrived>>

MutLeaveBatchOnStop(w) == batch[w] = <<>> \/ ~running
BatchDone(w) == batch[w] = <<>>

MutDrainFirst(w) ==
  /\ pc[w] = "count"
  /\ validated_count' = validated_count + 1
  /\ Goto(w, IF BatchDone(w) THEN "size" ELSE "measure")
  /\ UNCHANGED <<running, queue, latencies, owner, ignitions, queue_size, batch, arrived>>

\* validated_count_++, and on to the next token or back to the loop's test
CountToken(w) ==
  /\ pc[w] = "count"
  /\ validated_count' = validated_count + 1
  /\ Goto(w, IF BatchDone(w) THEN "test" ELSE "measure")
  /\ UNCHANGED <<running, queue, latencies, owner, ignitions, queue_size, batch, arrived>>

-----------------------------------------------------------------------------

Init ==
  /\ running = FALSE /\ queue = <<>> /\ latencies = <<>> /\ validated_count = 0
  /\ owner = "idle" /\ ignitions = 0
  /\ pc = [w \in Workers |-> "none"]
  /\ queue_size = [w \in Workers |-> 0]
  /\ batch = [w \in Workers |-> <<>>]
  /\ arrived = 0

WorkerStep(w) ==
  TestRunning(w) \/ ReadSize(w) \/ Pull(w) \/ Measure(w) \/ CountToken(w)

Next ==
  \/ QueueToken \/ Ignite \/ Start \/ Shutdown \/ Join
  \/ \E w \in Workers : WorkerStep(w)

Spec == Init /\ [][Next]_vars

\* a thread that can run runs; nobody has to call ignite, shutdown or queue_token
FairSpec ==
  /\ Spec
  /\ WF_vars(Start) /\ WF_vars(Join)
  /\ \A w \in Workers : WF_vars(WorkerStep(w))

-----------------------------------------------------------------------------
(* Properties.                                                             *)

\* what the current worker holds
Hand == batch[ignitions]

\* Every token queued is, in the order of arrival, measured, then in the worker's hand,
\* then in the queue: none is validated twice, dropped or overtaken, however queueing,
\* batches, shutdowns and new workers interleave.  validated_count_ is the number
\* measured, less one between the two updates.
EveryTokenOnce ==
  /\ \A i \in 1..Len(latencies) : latencies[i] = i
  /\ \A i \in 1..Len(Hand) : Hand[i] = Len(latencies) + i
  /\ \A i \in 1..Len(queue) : queue[i] = Len(latencies) + Len(Hand) + i
  /\ arrived = Len(latencies) + Len(Hand) + Len(queue)
  /\ validated_count + (IF pc[ignitions] = "count" THEN 1 ELSE 0) = Len(latencies)

\* The length a worker read under one lock still bounds the queue when it pulls under the
\* next: front and pop never meet an empty queue.
SizeStillThere ==
  \A w \in Workers : pc[w] = "pull" => 0 < queue_size[w] /\ queue_size[w] <= Len(queue)

\* Once shutdown has returned, and until the next ignite, nothing is validated or pulled:
\* what was queued waits, and no batch is left half done.
QuietAfterShutdown ==
  [][~running /\ owner = "idle" =>
       UNCHANGED <<latencies, validated_count, batch>> /\ Hand = <<>>]_vars

\* The validator as its callers see it.
Phase == IF owner = "shutdown" THEN "stopping" ELSE IF running THEN "on" ELSE "off"

\* the worker has passed its test of running_ and has not pulled yet
BetweenTestAndPull == owner = "shutdown" /\ pc[ignitions] \in {"size", "pull"}

Service == INSTANCE ValidatorService WITH
  phase <- Phase, oneMore <- BetweenTestAndPull,
  taken <- Len(latencies) + Len(Hand), served <- validated_count

\* The validator keeps the service's promise: whatever shutdown interrupts, at most one
\* more batch is pulled once running_ is cleared, shutdown returns only when it has been
\* served, and nothing is pulled or served before the next ignite.
ServiceSpec == Service!Spec

\* A queued token is validated unless the validator is shut down; one that was pulled is
\* validated even then; and shutdown returns.
TokensServed ==
  /\ \A k \in 1..MaxTokens :
       /\ arrived >= k ~> validated_count >= k \/ ~running
       /\ Len(latencies) + Len(Hand) >= k ~> validated_count >= k
  /\ owner = "shutdown" ~> owner = "idle"

=============================================================================
