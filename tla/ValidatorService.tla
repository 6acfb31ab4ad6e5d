---------------------------- MODULE ValidatorService ----------------------------
(***************************************************************************)
(* What the slingshot validator promises its callers, with no threads,     *)
(* locks, queue or flag: tokens arrive at any time; an ignited service     *)
(* takes them in batches of at most BATCH_SIZE, finishing one before it    *)
(* takes the next; asked to stop, it may still take one batch, and it is   *)
(* off only when it holds nothing; while it is off tokens only arrive.     *)
(* Tokens are counted: they are taken and served in the order of arrival.  *)
(***************************************************************************)
EXTENDS Naturals

CONSTANT BATCH_SIZE

VARIABLES
  phase,      \* "off", "on" or "stopping"
  oneMore,    \* a stopping service may still take a batch
  arrived,    \* tokens that have arrived
  taken,      \* tokens taken, the ones served included
  served      \* tokens served

vars == <<phase, oneMore, arrived, taken, served>>

Init ==
  phase = "off" /\ oneMore = FALSE /\ arrived = 0 /\ taken = 0 /\ served = 0

Arrive ==
  /\ arrived' = arrived + 1
  /\ UNCHANGED <<phase, oneMore, taken, served>>

Ignite ==
  /\ phase = "off" /\ phase' = "on"
  /\ UNCHANGED <<oneMore, arrived, taken, served>>

Take ==
  /\ phase = "on" \/ oneMore
  /\ served = taken
  /\ taken' \in (taken + 1)..(taken + BATCH_SIZE) /\ taken' <= arrived
  /\ oneMore' = FALSE
  /\ UNCHANGED <<phase, arrived, served>>

Serve ==
  /\ served < taken
  /\ served' = served + 1
  /\ UNCHANGED <<phase, oneMore, arrived, taken>>

Stop ==
  /\ phase = "on" /\ phase' = "stopping"
  /\ oneMore' \in BOOLEAN
  /\ UNCHANGED <<arrived, taken, served>>

\* no batch was there to take
TakeNoMore ==
  /\ oneMore /\ oneMore' = FALSE
  /\ UNCHANGED <<phase, arrived, taken, served>>

Stopped ==
  /\ phase = "stopping" /\ ~oneMore /\ served = taken
  /\ phase' = "off"
  /\ UNCHANGED <<oneMore, arrived, taken, served>>

Next == Arrive \/ Ignite \/ Take \/ Serve \/ Stop \/ TakeNoMore \/ Stopped

Spec == Init /\ [][Next]_vars

=============================================================================
