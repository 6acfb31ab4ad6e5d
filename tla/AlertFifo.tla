------------------------------- MODULE AlertFifo -------------------------------
(***************************************************************************)
(* What the alert ring of Monitus promises: a bounded queue that hands     *)
(* alerts over in the order they were accepted, each once, and refuses an  *)
(* alert only when it is full.                                             *)
(***************************************************************************)
EXTENDS Naturals, Sequences

CONSTANTS Capacity, Alerts

VARIABLES queue, delivered, refused

vars == <<queue, delivered, refused>>

Init == queue = <<>> /\ delivered = <<>> /\ refused = 0

Accept ==
  /\ Len(queue) < Capacity
  /\ \E alert \in Alerts : queue' = Append(queue, alert)
  /\ UNCHANGED <<delivered, refused>>

Refuse ==
  /\ Len(queue) = Capacity
  /\ refused' = refused + 1
  /\ UNCHANGED <<queue, delivered>>

Deliver ==
  /\ queue # <<>>
  /\ delivered' = Append(delivered, Head(queue))
  /\ queue' = Tail(queue)
  /\ UNCHANGED refused

Spec == Init /\ [][Accept \/ Refuse \/ Deliver]_vars
================================================================================
