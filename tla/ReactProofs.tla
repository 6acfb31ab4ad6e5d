------------------------------ MODULE ReactProofs ------------------------------
(***************************************************************************)
(* What the misfire reaction guarantees for any threads and any sectors.   *)
(* Typing and DetainedUntilOverride hold whoever overrides; the other      *)
(* results hold until the first override: the engine itself uses none.     *)
(***************************************************************************)
EXTENDS React, TLAPS

MaskTypes == isolated \subseteq Sectors /\ halted \subseteq Sectors /\ broadcast \in BOOLEAN
CounterTypes == total_events \in 0..MaxEvents /\ total_misfires \in Nat
ThreadTypes ==
  /\ pc \in [Threads -> {"idle"} \cup Handling \cup Querying]
  /\ arg \in [Threads -> Ids \cup {NoSector}]
  /\ \A t \in Threads : pc[t] = "idle" <=> arg[t] = NoSector
HistoryTypes ==
  /\ answers \subseteq Ids \X Status /\ wasSafe \in [Threads -> BOOLEAN]
  /\ overrides \in 0..MaxOverrides

-----------------------------------------------------------------------------
(* TypeOK is the conjunction of the four parts above.                      *)
LEMMA TypeParts ==
  TypeOK <=> MaskTypes /\ CounterTypes /\ ThreadTypes /\ HistoryTypes
BY DEF TypeOK, MaskTypes, CounterTypes, ThreadTypes, HistoryTypes

(* The initial state is well typed.                                        *)
LEMMA InitTyped == Init => TypeOK
<1> SUFFICES ASSUME Init PROVE TypeOK
  OBVIOUS
<1>0. MaskTypes
  BY DEF Init, MaskTypes
<1>1. CounterTypes
  BY ReactAssumption, SMT DEF Init, CounterTypes
<1>2. ThreadTypes
  BY DEF Init, ThreadTypes
<1>3. HistoryTypes
  BY ReactAssumption, SMT DEF Init, HistoryTypes
<1> QED
  BY <1>0, <1>1, <1>2, <1>3, TypeParts

(* Entering a call keeps the threads' program points and arguments typed.  *)
LEMMA EnterTyped ==
  ASSUME ThreadTypes, NEW t \in Threads, NEW s \in Ids,
         NEW point \in Handling \cup Querying, Enter(t, point, s)
  PROVE  ThreadTypes'
<1>1. point # "idle"
  BY DEF Handling, Querying
<1>2. s # NoSector
  BY ReactAssumption
<1> QED
  BY <1>1, <1>2 DEF ThreadTypes, Enter

(* Moving on inside a call keeps the threads typed.                        *)
LEMMA GotoTyped ==
  ASSUME ThreadTypes, NEW t \in Threads, pc[t] # "idle",
         NEW point \in Handling \cup Querying, Goto(t, point)
  PROVE  ThreadTypes'
<1>1. point # "idle"
  BY DEF Handling, Querying
<1> QED
  BY <1>1 DEF ThreadTypes, Goto

(* Returning keeps the threads typed.                                      *)
LEMMA LeaveTyped ==
  ASSUME ThreadTypes, NEW t \in Threads, Leave(t)
  PROVE  ThreadTypes'
BY DEF ThreadTypes, Leave

(* A thread inside a call has an id.                                       *)
LEMMA BusyHasId ==
  ASSUME ThreadTypes, NEW t \in Threads, pc[t] # "idle"
  PROVE  arg[t] \in Ids
BY DEF ThreadTypes

(* The history of queries stays Boolean.                                   *)
LEMMA NoteSafeTyped == NoteSafe => wasSafe' \in [Threads -> BOOLEAN]
BY DEF NoteSafe

(* Setting a bit leaves a mask within the valid sectors.                   *)
LEMMA WithBitTyped ==
  ASSUME NEW mask \in SUBSET Sectors, NEW s
  PROVE  WithBit(mask, s) \in SUBSET Sectors
BY DEF WithBit

(* Every start of a call keeps the types.                                  *)
LEMMA CallTyped ==
  ASSUME TypeOK, NEW t \in Threads, NEW s \in Ids, Call(t, s), NoteSafe,
         UNCHANGED overrides
  PROVE  TypeOK'
<1>0. MaskTypes /\ CounterTypes /\ ThreadTypes /\ HistoryTypes
  BY TypeParts
<1>w. wasSafe' \in [Threads -> BOOLEAN]
  BY NoteSafeTyped
<1>1. CASE CallMisfire(t, s)
  <2>1. ThreadTypes'
    BY <1>0, <1>1, EnterTyped DEF CallMisfire, Handling
  <2>2. MaskTypes' /\ CounterTypes' /\ HistoryTypes'
    BY <1>0, <1>1, <1>w, ReactAssumption
       DEF CallMisfire, MaskTypes, CounterTypes, HistoryTypes, masks
  <2> QED BY <2>1, <2>2, TypeParts
     DEF TypeOK, MaskTypes, CounterTypes, ThreadTypes, HistoryTypes
<1>2. CASE HandleCleared(t, s)
  <2>1. ThreadTypes'
    BY <1>0, <1>2 DEF HandleCleared, ThreadTypes
  <2>2. MaskTypes' /\ CounterTypes'
    BY <1>0, <1>2, ReactAssumption DEF HandleCleared, MaskTypes, CounterTypes, masks
  <2>3. HistoryTypes'
    BY <1>0, <1>2, <1>w DEF HandleCleared, HistoryTypes, Answer, Status
  <2> QED BY <2>1, <2>2, <2>3
     DEF TypeOK, MaskTypes, CounterTypes, ThreadTypes, HistoryTypes
<1>3. CASE CallIsSafe(t, s)
  <2>1. ThreadTypes'
    BY <1>0, <1>3, EnterTyped DEF CallIsSafe, Querying
  <2>2. MaskTypes' /\ CounterTypes' /\ HistoryTypes'
    BY <1>0, <1>3, <1>w
       DEF CallIsSafe, MaskTypes, CounterTypes, HistoryTypes, masks, totals
  <2> QED BY <2>1, <2>2
     DEF TypeOK, MaskTypes, CounterTypes, ThreadTypes, HistoryTypes
<1> QED
  BY <1>1, <1>2, <1>3 DEF Call

(* Every step of a misfire handler keeps the types.                        *)
LEMMA HandleTyped ==
  ASSUME TypeOK, NEW t \in Threads, Handle(t), NoteSafe, UNCHANGED overrides
  PROVE  TypeOK'
<1>0. MaskTypes /\ CounterTypes /\ ThreadTypes /\ HistoryTypes
  BY TypeParts
<1>w. wasSafe' \in [Threads -> BOOLEAN]
  BY NoteSafeTyped
<1>1. CASE CountMisfire(t)
  <2>1. ThreadTypes'
    BY <1>0, <1>1, GotoTyped DEF CountMisfire, Handling, At
  <2>2. MaskTypes' /\ CounterTypes' /\ HistoryTypes'
    BY <1>0, <1>1, <1>w DEF CountMisfire, MaskTypes, CounterTypes, HistoryTypes, masks
  <2> QED BY <2>1, <2>2
     DEF TypeOK, MaskTypes, CounterTypes, ThreadTypes, HistoryTypes
<1>2. CASE FindIsolated(t)
  <2>1. ThreadTypes'
    BY <1>0, <1>2, LeaveTyped DEF FindIsolated
  <2>2. MaskTypes' /\ CounterTypes'
    BY <1>0, <1>2 DEF FindIsolated, MaskTypes, CounterTypes, masks, totals
  <2>3. HistoryTypes'
    BY <1>0, <1>2, <1>w, BusyHasId DEF FindIsolated, At, HistoryTypes, Answer, Status
  <2> QED BY <2>1, <2>2, <2>3
     DEF TypeOK, MaskTypes, CounterTypes, ThreadTypes, HistoryTypes
<1>3. CASE FindNotIsolated(t)
  <2>1. ThreadTypes'
    BY <1>0, <1>3, GotoTyped DEF FindNotIsolated, Handling, At
  <2>2. MaskTypes' /\ CounterTypes' /\ HistoryTypes'
    BY <1>0, <1>3, <1>w
       DEF FindNotIsolated, MaskTypes, CounterTypes, HistoryTypes, masks, totals
  <2> QED BY <2>1, <2>2
     DEF TypeOK, MaskTypes, CounterTypes, ThreadTypes, HistoryTypes
<1>4. CASE Isolate(t)
  <2>1. ThreadTypes'
    BY <1>0, <1>4, GotoTyped DEF Isolate, Handling, At
  <2>2. MaskTypes' /\ CounterTypes' /\ HistoryTypes'
    BY <1>0, <1>4, <1>w, WithBitTyped
       DEF Isolate, MaskTypes, CounterTypes, HistoryTypes, totals
  <2> QED BY <2>1, <2>2
     DEF TypeOK, MaskTypes, CounterTypes, ThreadTypes, HistoryTypes
<1>5. CASE Fire(t)
  <2>1. ThreadTypes'
    BY <1>0, <1>5, LeaveTyped DEF Fire
  <2>2. MaskTypes' /\ CounterTypes'
    BY <1>0, <1>5, WithBitTyped DEF Fire, MaskTypes, CounterTypes, totals
  <2>3. HistoryTypes'
    BY <1>0, <1>5, <1>w, BusyHasId DEF Fire, At, HistoryTypes, Answer, Status
  <2> QED BY <2>1, <2>2, <2>3
     DEF TypeOK, MaskTypes, CounterTypes, ThreadTypes, HistoryTypes
<1> QED
  BY <1>1, <1>2, <1>3, <1>4, <1>5 DEF Handle

(* Every step of a query keeps the types.                                  *)
LEMMA QueryTyped ==
  ASSUME TypeOK, NEW t \in Threads, Query(t), NoteSafe, UNCHANGED overrides
  PROVE  TypeOK'
<1>0. MaskTypes /\ CounterTypes /\ ThreadTypes /\ HistoryTypes
  BY TypeParts
<1>w. wasSafe' \in [Threads -> BOOLEAN]
  BY NoteSafeTyped
<1>1. UNCHANGED <<masks, totals, answers>>
  BY DEF Query, LoadIsolated, LoadBroadcast, LoadHalted, ReturnSafe
<1>2. ThreadTypes'
  BY <1>0, GotoTyped, LeaveTyped
     DEF Query, LoadIsolated, LoadBroadcast, LoadHalted, ReturnSafe, At, Querying
<1>3. MaskTypes' /\ CounterTypes' /\ HistoryTypes'
  BY <1>0, <1>1, <1>w DEF MaskTypes, CounterTypes, HistoryTypes, masks, totals
<1> QED
  BY <1>2, <1>3 DEF TypeOK, MaskTypes, CounterTypes, ThreadTypes, HistoryTypes

(* Every override keeps the types.                                         *)
LEMMA OverrideTyped ==
  ASSUME TypeOK, Overrides, NoteSafe
  PROVE  TypeOK'
<1>w. wasSafe' \in [Threads -> BOOLEAN]
  BY NoteSafeTyped
<1>1. overrides' \in 0..MaxOverrides
  BY ReactAssumption DEF TypeOK, Overrides
<1> QED
  BY <1>w, <1>1 DEF TypeOK, Overrides, Release, Reset, EmergencyHaltAll, ClearBroadcast,
              Overridden, totals

(* Every step keeps the types.                                             *)
LEMMA NextTyped == TypeOK /\ [Next]_vars => TypeOK'
<1> SUFFICES ASSUME TypeOK, [Next]_vars PROVE TypeOK'
  OBVIOUS
<1>1. CASE UNCHANGED vars
  BY <1>1 DEF TypeOK, vars
<1>2. CASE Next
  BY <1>2, CallTyped, HandleTyped, QueryTyped, OverrideTyped DEF Next, Advance
<1> QED
  BY <1>1, <1>2

(* Every variable keeps its type in every behaviour.                       *)
THEOREM Typing == Spec => []TypeOK
<1> QED
  BY InitTyped, NextTyped, PTL DEF Spec

-----------------------------------------------------------------------------
(* A sector whose misfire was answered stays unsafe until its own next     *)
(* override: only Release and Reset shrink a mask, and each forgets the    *)
(* answers about the sector it frees.                                      *)
LEMMA DetainedStep ==
  TypeOK /\ DetainedUntilOverride /\ [Next]_vars => DetainedUntilOverride'
<1> SUFFICES ASSUME TypeOK, DetainedUntilOverride, [Next]_vars
             PROVE  DetainedUntilOverride'
  OBVIOUS
<1>1. CASE UNCHANGED vars
  BY <1>1 DEF DetainedUntilOverride, Safe, vars
<1>2. ASSUME NEW t \in Threads, NEW s \in Ids, Call(t, s)
      PROVE  DetainedUntilOverride'
  <2>1. UNCHANGED masks
    BY <1>2 DEF Call, CallMisfire, HandleCleared, CallIsSafe
  <2>2. answers' \subseteq answers \cup {<<s, "CLEARED">>}
    BY <1>2 DEF Call, CallMisfire, HandleCleared, CallIsSafe, Answer
  <2> QED
    BY <2>1, <2>2 DEF DetainedUntilOverride, Safe, masks
<1>3. ASSUME NEW t \in Threads, Handle(t) PROVE DetainedUntilOverride'
  <2>1. CASE CountMisfire(t) \/ FindNotIsolated(t)
    BY <2>1 DEF CountMisfire, FindNotIsolated, masks, DetainedUntilOverride, Safe
  <2>2. CASE FindIsolated(t)
    BY <2>2 DEF FindIsolated, IsIsolated, Answer, masks, DetainedUntilOverride, Safe
  <2>3. CASE Isolate(t)
    BY <2>3 DEF Isolate, WithBit, DetainedUntilOverride, Safe
  <2>4. CASE Fire(t)
    BY <2>4 DEF Fire, WithBit, Answer, DetainedUntilOverride, Safe
  <2> QED
    BY <1>3, <2>1, <2>2, <2>3, <2>4 DEF Handle
<1>4. ASSUME NEW t \in Threads, Query(t) PROVE DetainedUntilOverride'
  BY <1>4 DEF Query, LoadIsolated, LoadBroadcast, LoadHalted, ReturnSafe, masks,
              DetainedUntilOverride, Safe
<1>5. CASE Overrides
  <2>1. ASSUME NEW s \in Sectors, Release(s) \/ Reset(s)
        PROVE  DetainedUntilOverride'
    <3>1. \A u \in Sectors : u # s =>
            (u \in isolated' <=> u \in isolated) /\ (u \in halted' <=> u \in halted)
      BY <2>1 DEF Release, Reset
    <3>2. \A a \in answers' : a \in answers /\ a[1] # s
      BY <2>1 DEF Release, Reset, Overridden
    <3> SUFFICES ASSUME NEW u \in Sectors,
                        NEW status \in {"MISFIRE_HANDLED", "ALREADY_ISOLATED"},
                        <<u, status>> \in answers'
                 PROVE  ~ Safe(u, isolated', halted', FALSE)
      BY DEF DetainedUntilOverride, Safe
    <3>3. u # s /\ <<u, status>> \in answers
      BY <3>2
    <3> QED
      BY <3>1, <3>3 DEF DetainedUntilOverride, Safe
  <2>2. CASE EmergencyHaltAll \/ ClearBroadcast
    BY <2>2 DEF EmergencyHaltAll, ClearBroadcast, DetainedUntilOverride, Safe
  <2> QED
    BY <1>5, <2>1, <2>2 DEF Overrides
<1> QED
  BY <1>1, <1>2, <1>3, <1>4, <1>5 DEF Next, Advance

(* For any threads and sectors, and whatever overrides are used: once a    *)
(* misfire of a sector is answered, the sector stays unsafe until it is    *)
(* released or reset.                                                      *)
THEOREM Detention == Spec => []DetainedUntilOverride
<1>1. Init => DetainedUntilOverride
  BY DEF Init, DetainedUntilOverride
<1> QED
  BY <1>1, Typing, DetainedStep, PTL DEF Spec

-----------------------------------------------------------------------------
(* Until someone overrides the two masks only grow, a handler about to halt a    *)
(* sector has isolated it, and a query past its first load has seen its    *)
(* sector safe.                                                            *)
FireAfterIsolate ==
  \A t \in Threads : pc[t] = "fire" /\ arg[t] \in Sectors => arg[t] \in isolated
SeenSafe ==
  \A t \in Threads :
    pc[t] \in {"load_broadcast", "load_halted", "said_safe"} => wasSafe[t]
Containment ==
  HaltFollowsIsolation /\ AnswersStayTrue /\ FireAfterIsolate /\ broadcast = FALSE
UnaidedContainment == overrides = 0 => Containment
UnaidedSeenSafe == overrides = 0 => SeenSafe

(* A call that starts disturbs no part of Containment.                     *)
LEMMA ContainmentCall ==
  ASSUME overrides = 0, overrides' = 0,
         TypeOK, Containment, NEW t \in Threads, NEW s \in Ids, Call(t, s)
  PROVE  Containment'
<1>1. UNCHANGED masks
  BY DEF Call, CallMisfire, HandleCleared, CallIsSafe
<1>2. \A u \in Threads : (pc[u] = "fire" <=> pc'[u] = "fire") /\ (pc[u] = "fire" => arg'[u] = arg[u])
  BY DEF TypeOK, Call, CallMisfire, HandleCleared, CallIsSafe, Enter, At
<1>3. \A a \in answers' : a \in answers \/ a[2] = "CLEARED"
  BY DEF Call, CallMisfire, HandleCleared, CallIsSafe, Answer
<1>4. HaltFollowsIsolation'
  BY <1>1, <1>2 DEF Containment, HaltFollowsIsolation, masks
<1>5. AnswersStayTrue'
  BY <1>1, <1>3 DEF Containment, AnswersStayTrue, masks
<1>6. FireAfterIsolate'
  BY <1>1, <1>2 DEF Containment, FireAfterIsolate, masks
<1> QED
  BY <1>1, <1>4, <1>5, <1>6 DEF Containment, masks

(* Neither does a step that changes no mask, gives no answer and does not  *)
(* reach or leave "fire".                                                  *)
LEMMA ContainmentQuiet ==
  ASSUME overrides = 0, overrides' = 0,
         Containment, UNCHANGED <<masks, answers>>,
         \A u \in Threads : /\ pc[u] = "fire" <=> pc'[u] = "fire"
                            /\ pc[u] = "fire" => arg'[u] = arg[u]
  PROVE  Containment'
BY DEF Containment, HaltFollowsIsolation, AnswersStayTrue, FireAfterIsolate, masks

(* Every step of a handler keeps Containment.                              *)
LEMMA ContainmentHandle ==
  ASSUME overrides = 0, overrides' = 0,
         TypeOK, Containment, NEW t \in Threads, Handle(t)
  PROVE  Containment'
<1>1. CASE CountMisfire(t) \/ FindNotIsolated(t)
  <2>1. UNCHANGED <<masks, answers>>
    BY <1>1 DEF CountMisfire, FindNotIsolated
  <2>2. \A u \in Threads : /\ pc[u] = "fire" <=> pc'[u] = "fire"
                           /\ pc[u] = "fire" => arg'[u] = arg[u]
    BY <1>1 DEF TypeOK, CountMisfire, FindNotIsolated, Goto, At
  <2> QED
    BY <2>1, <2>2, ContainmentQuiet
<1>2. CASE FindIsolated(t)
  <2>1. \A u \in Threads : /\ pc[u] = "fire" <=> pc'[u] = "fire"
                           /\ pc[u] = "fire" => arg'[u] = arg[u]
    BY <1>2 DEF TypeOK, FindIsolated, Leave, At
  <2>2. HaltFollowsIsolation' /\ FireAfterIsolate'
    BY <1>2, <2>1 DEF Containment, HaltFollowsIsolation, FireAfterIsolate, FindIsolated, masks
  <2>3. AnswersStayTrue'
    BY <1>2 DEF Containment, AnswersStayTrue, FindIsolated, IsIsolated, Answer, masks
  <2> QED
    BY <1>2, <2>2, <2>3 DEF Containment, FindIsolated, masks
<1>3. CASE Isolate(t)
  <2>1. /\ isolated' = WithBit(isolated, arg[t]) /\ UNCHANGED <<halted, broadcast, answers, arg>>
        /\ pc' = [pc EXCEPT ![t] = "fire"] /\ pc[t] = "isolate"
    BY <1>3 DEF Isolate, Goto, At
  <2>2. HaltFollowsIsolation'
    <3>1. halted' \subseteq isolated'
      BY <2>1 DEF Containment, HaltFollowsIsolation, WithBit
    <3>2. ASSUME NEW s \in isolated' \ halted'
          PROVE  \E u \in Threads : pc'[u] = "fire" /\ arg'[u] = s
      <4>1. CASE s \in isolated
        <5>1. PICK u \in Threads : pc[u] = "fire" /\ arg[u] = s
          BY <2>1, <3>2, <4>1 DEF Containment, HaltFollowsIsolation
        <5> QED
          BY <2>1, <5>1 DEF TypeOK
      <4>2. CASE s \notin isolated
        BY <2>1, <3>2, <4>2 DEF TypeOK, WithBit
      <4> QED
        BY <4>1, <4>2
    <3> QED
      BY <3>1, <3>2 DEF HaltFollowsIsolation
  <2>3. AnswersStayTrue'
    BY <2>1 DEF Containment, AnswersStayTrue, WithBit
  <2>4. FireAfterIsolate'
    BY <2>1 DEF Containment, FireAfterIsolate, WithBit, TypeOK
  <2> QED
    BY <2>1, <2>2, <2>3, <2>4 DEF Containment
<1>4. CASE Fire(t)
  <2>1. /\ halted' = WithBit(halted, arg[t]) /\ UNCHANGED <<isolated, broadcast>>
        /\ pc' = [pc EXCEPT ![t] = "idle"] /\ arg' = [arg EXCEPT ![t] = NoSector]
        /\ pc[t] = "fire"
    BY <1>4 DEF Fire, Leave, At
  <2>2. HaltFollowsIsolation'
    <3>1. halted' \subseteq isolated'
      BY <2>1 DEF Containment, HaltFollowsIsolation, FireAfterIsolate, WithBit
    <3>2. ASSUME NEW s \in isolated' \ halted'
          PROVE  \E u \in Threads : pc'[u] = "fire" /\ arg'[u] = s
      <4>1. s \in isolated \ halted /\ s # arg[t]
        BY <2>1, <3>2 DEF WithBit, TypeOK
      <4>2. PICK u \in Threads : pc[u] = "fire" /\ arg[u] = s
        BY <4>1 DEF Containment, HaltFollowsIsolation
      <4> QED
        BY <2>1, <4>1, <4>2 DEF TypeOK
    <3> QED
      BY <3>1, <3>2 DEF HaltFollowsIsolation
  <2>3. FireAfterIsolate'
    BY <2>1 DEF Containment, FireAfterIsolate, TypeOK
  <2>4. AnswersStayTrue'
    <3>1. arg[t] \in Ids
      BY <2>1 DEF TypeOK
    <3>2. ASSUME arg[t] \in Sectors
          PROVE  arg[t] \in isolated' \cap halted'
      BY <2>1, <3>2 DEF Containment, FireAfterIsolate, WithBit
    <3>3. answers' = answers \cup
            {<<arg[t], IF arg[t] \in Sectors THEN "MISFIRE_HANDLED" ELSE "HALT_FAILED">>}
      BY <1>4 DEF Fire, Answer
    <3> QED
      BY <2>1, <3>1, <3>2, <3>3 DEF Containment, AnswersStayTrue, WithBit, Ids
  <2> QED
    BY <2>1, <2>2, <2>3, <2>4 DEF Containment
<1> QED
  BY <1>1, <1>2, <1>3, <1>4 DEF Handle

(* A step after which nobody has overridden yet was no override.           *)
LEMMA StillUnaided ==
  ASSUME TypeOK, [Next]_vars, overrides' = 0
  PROVE  overrides = 0 /\ ~ Overrides
<1>1. overrides \in Nat
  BY ReactAssumption DEF TypeOK
<1> QED
  BY <1>1 DEF Next, Advance, Overrides, vars

(* Every step keeps Containment until someone overrides.                   *)
LEMMA ContainmentStep ==
  TypeOK /\ UnaidedContainment /\ [Next]_vars => UnaidedContainment'
<1> SUFFICES ASSUME TypeOK, UnaidedContainment, [Next]_vars, overrides' = 0
             PROVE  Containment'
  BY DEF UnaidedContainment
<1>0. overrides = 0 /\ ~ Overrides /\ Containment
  BY StillUnaided DEF UnaidedContainment
<1>1. CASE UNCHANGED vars
  BY <1>0, <1>1, ContainmentQuiet DEF vars, masks
<1>2. ASSUME NEW t \in Threads, Query(t) PROVE Containment'
  <2>1. UNCHANGED <<masks, answers>>
    BY <1>2 DEF Query, LoadIsolated, LoadBroadcast, LoadHalted, ReturnSafe
  <2>2. \A u \in Threads : /\ pc[u] = "fire" <=> pc'[u] = "fire"
                           /\ pc[u] = "fire" => arg'[u] = arg[u]
    BY <1>2 DEF TypeOK, Query, LoadIsolated, LoadBroadcast, LoadHalted, ReturnSafe,
                Goto, Leave, At
  <2> QED
    BY <1>0, <2>1, <2>2, ContainmentQuiet
<1> QED
  BY <1>0, <1>1, <1>2, ContainmentCall, ContainmentHandle DEF Next, Advance

(* Containment holds at the start and until the first override.            *)
LEMMA ContainmentHolds == Spec => []UnaidedContainment
<1>1. Init => UnaidedContainment
  BY DEF Init, UnaidedContainment, Containment, HaltFollowsIsolation, AnswersStayTrue, FireAfterIsolate
<1> QED
  BY <1>1, Typing, ContainmentStep, PTL DEF Spec

(* For any threads and sectors, until someone overrides: a sector is       *)
(* halted only after it is isolated, and an isolated sector not halted yet *)
(* has a handler about to halt it.                                         *)
THEOREM IsolationIsHalted == Spec => []HaltFollowsIsolation
<1>1. UnaidedContainment => HaltFollowsIsolation
  BY DEF UnaidedContainment, Containment, HaltFollowsIsolation
<1> QED
  BY <1>1, ContainmentHolds, PTL

(* Until someone overrides, every answer a handler gave stays true.        *)
THEOREM AnswersAreKept == Spec => []AnswersStayTrue
<1>1. UnaidedContainment => AnswersStayTrue
  BY DEF UnaidedContainment, Containment, AnswersStayTrue
<1> QED
  BY <1>1, ContainmentHolds, PTL

(* The safety half of MisfireContained: until someone overrides, a handler *)
(* that returns from a misfire of a sector, by whichever path, leaves it   *)
(* isolated, and halted already or with a handler about to halt it         *)
(* (react.cpp 34-67).                                                      *)
HandledMeansHalting ==
  [][\A t \in Threads :
       pc[t] \in Handling /\ pc'[t] = "idle" /\ arg[t] \in Sectors /\ overrides' = 0 =>
         /\ arg[t] \in isolated'
         /\ \/ arg[t] \in halted'
            \/ \E u \in Threads : pc'[u] = "fire" /\ arg'[u] = arg[t]]_vars

LEMMA ReturnAnswers ==
  ASSUME TypeOK, Next, ~ Overrides, NEW t \in Threads, pc[t] \in Handling, pc'[t] = "idle"
  PROVE  \E status \in {"MISFIRE_HANDLED", "ALREADY_ISOLATED", "HALT_FAILED"} :
            <<arg[t], status>> \in answers'
<1>1. FindIsolated(t) \/ Fire(t)
  BY DEF TypeOK, Handling, Next, Advance, Call, CallMisfire, HandleCleared, CallIsSafe,
         Handle, CountMisfire, FindIsolated, FindNotIsolated, Isolate, Fire, Query,
         LoadIsolated, LoadBroadcast, LoadHalted, ReturnSafe, Enter, Goto, Leave, At
<1> QED
  BY <1>1 DEF FindIsolated, Fire, Answer

(* A misfire turned away as ALREADY_ISOLATED is halted by somebody else.   *)
THEOREM ReturnLeavesHalting == Spec => HandledMeansHalting
<1>1. ASSUME TypeOK, TypeOK', UnaidedContainment', [Next]_vars, NEW t \in Threads,
             pc[t] \in Handling, pc'[t] = "idle", arg[t] \in Sectors, overrides' = 0
      PROVE  /\ arg[t] \in isolated'
             /\ \/ arg[t] \in halted'
                \/ \E u \in Threads : pc'[u] = "fire" /\ arg'[u] = arg[t]
  <2>1. Next /\ ~ Overrides
    BY <1>1, StillUnaided DEF vars, Handling
  <2>2. PICK status \in {"MISFIRE_HANDLED", "ALREADY_ISOLATED", "HALT_FAILED"} :
          <<arg[t], status>> \in answers'
    BY <1>1, <2>1, ReturnAnswers
  <2>3. HaltFollowsIsolation' /\ AnswersStayTrue'
    BY <1>1 DEF UnaidedContainment, Containment
  <2>4. arg[t] \in Ids /\ arg[t] \notin BadIds
    BY <1>1, ReactAssumption DEF Ids
  <2>5. arg[t] \in isolated'
    BY <1>1, <2>2, <2>3, <2>4 DEF AnswersStayTrue
  <2> QED
    BY <1>1, <2>3, <2>5 DEF HaltFollowsIsolation
<1>2. TypeOK /\ TypeOK' /\ UnaidedContainment' /\ [Next]_vars =>
        [\A t \in Threads :
           pc[t] \in Handling /\ pc'[t] = "idle" /\ arg[t] \in Sectors /\ overrides' = 0 =>
             /\ arg[t] \in isolated'
             /\ \/ arg[t] \in halted'
                \/ \E u \in Threads : pc'[u] = "fire" /\ arg'[u] = arg[t]]_vars
  BY <1>1
<1> QED
  BY <1>2, Typing, ContainmentHolds, PTL DEF Spec, HandledMeansHalting

-----------------------------------------------------------------------------
(* A query past its first load has seen its sector safe: when that load    *)
(* found the sector not isolated it was not halted either, because halts   *)
(* follow isolation and no broadcast is in force.                          *)
LEMMA SeenSafeStep ==
  TypeOK /\ UnaidedContainment /\ UnaidedSeenSafe /\ [Next]_vars => UnaidedSeenSafe'
<1> SUFFICES ASSUME TypeOK, UnaidedContainment, UnaidedSeenSafe, [Next]_vars,
                    overrides' = 0
             PROVE  SeenSafe'
  BY DEF UnaidedSeenSafe
<1> DEFINE Past == {"load_broadcast", "load_halted", "said_safe"}
<1>0. overrides = 0 /\ ~ Overrides /\ Containment /\ SeenSafe
  BY StillUnaided DEF UnaidedContainment, UnaidedSeenSafe
<1>1. CASE UNCHANGED vars
  BY <1>0, <1>1 DEF SeenSafe, vars
<1>2. CASE Next
  <2>1. NoteSafe
    BY <1>2 DEF Next, Advance
  <2> SUFFICES ASSUME NEW u \in Threads, pc'[u] \in Past
               PROVE  wasSafe'[u]
    BY DEF SeenSafe
  <2>3. pc'[u] \in Querying
    BY DEF Querying
  <2>4. CASE pc[u] \in Past
    BY <1>0, <2>1, <2>3, <2>4 DEF SeenSafe, NoteSafe
  <2>5. CASE pc[u] \notin Past
    <3>1. LoadIsolated(u) /\ ~ IsIsolated(arg[u]) /\ Goto(u, "load_broadcast")
      BY <1>0, <1>2, <2>5 DEF TypeOK, Next, Advance, Call, CallMisfire, HandleCleared,
         CallIsSafe, Handle, CountMisfire, FindIsolated, FindNotIsolated, Isolate, Fire,
         Query, LoadIsolated, LoadBroadcast, LoadHalted, ReturnSafe, Enter, Goto, Leave, At
    <3>2. UNCHANGED <<isolated, halted, broadcast, arg>>
      BY <3>1 DEF LoadIsolated, Goto, masks
    <3>3. Safe(arg[u], isolated, halted, broadcast)
      BY <1>0, <3>1 DEF Safe, IsIsolated, Containment, HaltFollowsIsolation, TypeOK
    <3> QED
      BY <2>1, <2>3, <3>2, <3>3 DEF NoteSafe
  <2> QED
    BY <2>4, <2>5
<1> QED
  BY <1>1, <1>2

(* Until someone overrides, a query that says "safe" speaks of a sector    *)
(* that was neither isolated nor halted at some instant of the query.      *)
THEOREM VerdictsHold == Spec => []SafeVerdictUntilOverride
<1>1. Init => UnaidedSeenSafe
  BY DEF Init, UnaidedSeenSafe, SeenSafe
<1>2. UnaidedSeenSafe => SafeVerdictUntilOverride
  BY DEF UnaidedSeenSafe, SeenSafe, SafeVerdictUntilOverride, SafeVerdictHeld
<1> QED
  BY <1>1, <1>2, Typing, ContainmentHolds, SeenSafeStep, PTL DEF Spec

-----------------------------------------------------------------------------
(* A stranded sector stays isolated and not halted, and nobody gets past   *)
(* the check on its account: a handler that is there finds it isolated.    *)
LEMMA StrandedStep ==
  ASSUME TypeOK, [Next]_vars, NEW s \in Sectors, Stranded(s), s \in isolated'
  PROVE  Stranded(s)'
<1> DEFINE PastCheck == {"isolate", "fire"}
<1>1. CASE UNCHANGED vars
  BY <1>1 DEF Stranded, vars
<1>2. ASSUME NEW t \in Threads, NEW i \in Ids, Call(t, i) PROVE Stranded(s)'
  <2>1. UNCHANGED masks
    BY <1>2 DEF Call, CallMisfire, HandleCleared, CallIsSafe
  <2>2. \A u \in Threads : pc'[u] \in PastCheck => pc[u] = pc'[u] /\ arg'[u] = arg[u]
    BY <1>2 DEF TypeOK, Call, CallMisfire, HandleCleared, CallIsSafe, Enter, At
  <2> QED
    BY <2>1, <2>2 DEF Stranded, masks
<1>3. ASSUME NEW t \in Threads, Handle(t) PROVE Stranded(s)'
  <2>1. CASE CountMisfire(t) \/ FindIsolated(t)
    BY <2>1 DEF TypeOK, CountMisfire, FindIsolated, Goto, Leave, At, Stranded, masks
  <2>2. CASE FindNotIsolated(t)
    <3>1. arg[t] # s
      BY <2>2 DEF FindNotIsolated, IsIsolated, Stranded
    <3> QED
      BY <2>2, <3>1 DEF TypeOK, FindNotIsolated, Goto, Stranded, masks
  <2>3. CASE Isolate(t)
    BY <2>3 DEF TypeOK, Isolate, Goto, At, WithBit, Stranded
  <2>4. CASE Fire(t)
    <3>1. arg[t] # s
      BY <2>4 DEF Fire, At, Stranded
    <3> QED
      BY <2>4, <3>1 DEF TypeOK, Fire, Leave, WithBit, Stranded
  <2> QED
    BY <1>3, <2>1, <2>2, <2>3, <2>4 DEF Handle
<1>4. ASSUME NEW t \in Threads, Query(t) PROVE Stranded(s)'
  BY <1>4 DEF TypeOK, Query, LoadIsolated, LoadBroadcast, LoadHalted, ReturnSafe, Goto,
              Leave, At, Stranded, masks
<1>5. CASE Overrides
  BY <1>5 DEF Overrides, Release, Reset, EmergencyHaltAll, ClearBroadcast, Stranded
<1> QED
  BY <1>1, <1>2, <1>3, <1>4, <1>5 DEF Next, Advance

(* For any threads and sectors: whoever resets a sector and does not       *)
(* release it has switched its reaction off until it is released.          *)
THEOREM ResetAloneStrands == Spec => StrandedUntilReleased
<1>1. TypeOK /\ [Next]_vars
        => [\A s \in Sectors : Stranded(s) => Stranded(s)' \/ s \notin isolated']_vars
  BY StrandedStep
<1> QED
  BY <1>1, Typing, PTL DEF Spec, StrandedUntilReleased
================================================================================
