------------------------------- MODULE AlertRing -------------------------------
(***************************************************************************)
(* The miss-rate alert ring of Monitus                                     *)
(* (src/core_engine/src/enforcement/monitus.cpp 76-121): producers push    *)
(* alerts, one thread polls and drains.  head, tail and dropped are        *)
(* atomics, head and tail published with release and read with acquire;    *)
(* a slot is plain memory.  Each access to an atomic that another thread   *)
(* writes is a step, and so are the write and the read of a slot.  The     *)
(* ring is written for one producer; Producers may hold more, as the seven *)
(* workers of bench_7tier_monitus.cpp do.  Two of them in one slot race in *)
(* C++; here one overwrites the other, which is one of the outcomes.       *)
(*                                                                         *)
(* An alert is the number of its push.  AlertEntry.valid is written and    *)
(* never read, and left out.                                               *)
(*                                                                         *)
(* Definitions named Mut... are deliberate faults, used by no action: they *)
(* replace the definition that follows to confirm the properties notice.   *)
(***************************************************************************)
EXTENDS Naturals, Sequences, FiniteSets, Functions

CONSTANTS
  Producers,
  ALERT_RING_SIZE,
  MaxAlerts       \* bound: pushes

ASSUME RingAssumption ==
  /\ MaxAlerts \in Nat /\ IsFiniteSet(Producers)
  /\ ALERT_RING_SIZE \in Nat /\ ALERT_RING_SIZE > 1
  /\ \E k \in 1..ALERT_RING_SIZE : ALERT_RING_SIZE = 2^k

VARIABLES
  alert_buf,      \* the slots
  alert_head, alert_tail, alert_dropped,
  pushed,         \* pushes begun, which numbers the alerts
  push,           \* per producer: program point, alert, head it read
  drain,          \* the drainer: program point, tail, entry read, poll result
  accepted,       \* history: the alerts whose push returned true
  delivered,      \* history: the entries drained, in order
  reported        \* history: the sum of the drop counts printed

producing == <<pushed, push, accepted>>
draining == <<drain, delivered, reported>>
vars == <<alert_buf, alert_head, alert_tail, alert_dropped, producing, draining>>

Slots == 0..(ALERT_RING_SIZE - 1)

Succ(i) == (i + 1) % ALERT_RING_SIZE

\* (to - from) & ALERT_RING_MASK
Distance(from, to) == (to + ALERT_RING_SIZE - from) % ALERT_RING_SIZE

IdlePush == [at |-> "idle", alert |-> 0, head |-> 0]
IdleDrain == [at |-> "idle", tail |-> 0, entry |-> 0, pending |-> 0]

Init ==
  /\ alert_buf = [i \in Slots |-> 0]
  /\ alert_head = 0 /\ alert_tail = 0 /\ alert_dropped = 0
  /\ pushed = 0
  /\ push = [p \in Producers |-> IdlePush]
  /\ drain = IdleDrain
  /\ accepted = {} /\ delivered = <<>> /\ reported = 0

-----------------------------------------------------------------------------
(* push_miss_alert                                                         *)

MutNeverFull(head) == FALSE
MutFullOneEarly(head) == Succ(Succ(head)) = alert_tail
Full(head) == Succ(head) = alert_tail

CallPush(p) ==
  /\ push[p].at = "idle" /\ pushed < MaxAlerts
  /\ pushed' = pushed + 1
  /\ push' = [push EXCEPT ![p] = [at |-> "test", alert |-> pushed + 1, head |-> alert_head]]
  /\ UNCHANGED <<alert_buf, alert_head, alert_tail, alert_dropped, accepted, draining>>

TestFull(p) ==
  /\ push[p].at = "test"
  /\ push' = [push EXCEPT ![p].at = IF Full(push[p].head) THEN "drop" ELSE "write"]
  /\ UNCHANGED <<alert_buf, alert_head, alert_tail, alert_dropped, pushed, accepted, draining>>

Drop(p) ==
  /\ push[p].at = "drop"
  /\ alert_dropped' = alert_dropped + 1
  /\ push' = [push EXCEPT ![p] = IdlePush]
  /\ UNCHANGED <<alert_buf, alert_head, alert_tail, pushed, accepted, draining>>

Write(p) ==
  /\ push[p].at = "write"
  /\ alert_buf' = [alert_buf EXCEPT ![push[p].head] = push[p].alert]
  /\ push' = [push EXCEPT ![p].at = "publish"]
  /\ UNCHANGED <<alert_head, alert_tail, alert_dropped, pushed, accepted, draining>>

Publish(p) ==
  /\ push[p].at = "publish"
  /\ alert_head' = Succ(push[p].head)
  /\ accepted' = accepted \cup {push[p].alert}
  /\ push' = [push EXCEPT ![p] = IdlePush]
  /\ UNCHANGED <<alert_buf, alert_tail, alert_dropped, pushed, draining>>

-----------------------------------------------------------------------------
(* pending_alerts and drain_alerts, both from the draining thread: alert_tail *)
(* is its own, so only its accesses to head and dropped are steps.            *)

EnterLoop == drain' = [IdleDrain EXCEPT !.at = "loop", !.tail = alert_tail]
OnlyDrain == UNCHANGED <<alert_buf, alert_head, alert_tail, alert_dropped,
                         producing, delivered, reported>>

CallDrain == drain.at = "idle" /\ EnterLoop /\ OnlyDrain

MutPendingSwapped == Distance(alert_head, alert_tail)
Pending == Distance(alert_tail, alert_head)

Poll ==
  /\ drain.at = "idle"
  /\ drain' = [IdleDrain EXCEPT !.at = "polled", !.pending = Pending]
  /\ OnlyDrain

\* drain_worker drains only if something is pending.
ActOnPoll ==
  /\ drain.at = "polled"
  /\ \/ drain.pending > 0 /\ EnterLoop
     \/ drain.pending = 0 /\ drain' = IdleDrain
  /\ OnlyDrain

TestEmpty ==
  /\ drain.at = "loop"
  /\ drain' = [drain EXCEPT !.at = IF drain.tail = alert_head THEN "report" ELSE "read"]
  /\ OnlyDrain

Read ==
  /\ drain.at = "read"
  /\ drain' = [drain EXCEPT !.at = "release", !.entry = alert_buf[drain.tail]]
  /\ OnlyDrain

ReleaseSlot ==
  /\ drain.at = "release"
  /\ alert_tail' = Succ(drain.tail)
  /\ delivered' = Append(delivered, drain.entry)
  /\ drain' = [drain EXCEPT !.at = "loop", !.tail = Succ(drain.tail)]
  /\ UNCHANGED <<alert_buf, alert_head, alert_dropped, producing, reported>>

MutReportKeepsCount ==
  /\ drain.at = "report"
  /\ reported' = reported + alert_dropped
  /\ drain' = IdleDrain
  /\ UNCHANGED <<alert_buf, alert_head, alert_tail, alert_dropped, producing, delivered>>
Report ==
  /\ drain.at = "report"
  /\ reported' = reported + alert_dropped
  /\ alert_dropped' = 0
  /\ drain' = IdleDrain
  /\ UNCHANGED <<alert_buf, alert_head, alert_tail, producing, delivered>>

-----------------------------------------------------------------------------

Push(p) == CallPush(p) \/ TestFull(p) \/ Drop(p) \/ Write(p) \/ Publish(p)
Drainer == CallDrain \/ Poll \/ ActOnPoll \/ TestEmpty \/ Read \/ ReleaseSlot \/ Report
Next == (\E p \in Producers : Push(p)) \/ Drainer

\* drain_worker polls and drains for ever; a producer may stop anywhere.
Spec == Init /\ [][Next]_vars /\ WF_vars(Drainer)

-----------------------------------------------------------------------------
(* Properties                                                              *)

Queue == [i \in 1..Distance(alert_tail, alert_head) |->
            alert_buf[(alert_tail + i - 1) % ALERT_RING_SIZE]]
InFlight == {p \in Producers : push[p].at # "idle"}
Dropping == {p \in Producers : push[p].at = "drop"}

(* Every variable keeps its type.                                          *)
TypeOK ==
  /\ alert_buf \in [Slots -> 0..MaxAlerts]
  /\ alert_head \in Slots /\ alert_tail \in Slots
  /\ alert_dropped \in Nat /\ pushed \in 0..MaxAlerts /\ reported \in Nat
  /\ push \in [Producers -> [at : {"idle", "test", "drop", "write", "publish"},
                             alert : 0..MaxAlerts, head : Slots]]
  /\ drain \in [at : {"idle", "polled", "loop", "read", "release", "report"},
                tail : Slots, entry : 0..MaxAlerts, pending : Slots]
  /\ accepted \subseteq 1..MaxAlerts
  /\ delivered \in Seq(0..MaxAlerts)

(* With one producer, no slot is written while the drainer reads it        *)
(* or before it has cleared `valid' there (monitus.cpp 85-91 against       *)
(* 97-108): nobody races for the plain memory of a slot, so no alert is    *)
(* torn.                                                                   *)
SlotsNotShared ==
  \A p \in Producers :
    ~ (push[p].at = "write" /\ drain.at \in {"read", "release"} /\ push[p].head = drain.tail)

(* Every push begun is in flight, accepted, or counted as dropped exactly  *)
(* once, whether that count is still in alert_dropped or was taken by      *)
(* drain_alerts' exchange (monitus.cpp 86, 111).                           *)
EveryPushAccounted ==
  pushed = Cardinality(accepted) + Cardinality(InFlight) + alert_dropped + reported

(* An alert whose push returned true is in the ring or was drained: pushes *)
(* are refused, "drop silently" (monitus.cpp 84), only by returning false. *)
AcceptedNotLost == accepted \subseteq Range(Queue) \cup Range(delivered)

(* When the draining thread's poll says n alerts are pending, at least n   *)
(* are there to be drained (monitus.cpp 117-121).                          *)
PollIsTrue == drain.at = "polled" => drain.pending <= Len(Queue)

(* With one producer the ring is a bounded queue of one slot less than its *)
(* size that delivers each accepted alert once and in order, and refuses   *)
(* only when full.                                                         *)
Fifo == INSTANCE AlertFifo WITH
  Capacity <- ALERT_RING_SIZE - 1,
  Alerts <- 1..MaxAlerts,
  queue <- Queue,
  refused <- alert_dropped + reported + Cardinality(Dropping)
FifoSpec == Fifo!Spec

(* As long as the drain worker runs, every accepted alert is delivered.    *)
AcceptedIsDelivered ==
  \A a \in 1..MaxAlerts : a \in accepted ~> a \in Range(delivered)
================================================================================
