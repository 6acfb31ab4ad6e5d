--------------------------------- MODULE React ---------------------------------
(***************************************************************************)
(* The misfire reaction of src/core_engine/src/enforcement: the            *)
(* orchestrator (react.cpp) over the isolation mask of BlackSeal           *)
(* (blackseal.cpp) and the halt mask and broadcast flag of REFLEX          *)
(* (reflex.cpp).  The masks and the flag are atomics and nothing takes a   *)
(* lock, so a call is cut at every access to one of them; the calls of     *)
(* several threads, and the manual overrides, interleave at these cuts.    *)
(* The mask updates are release and the loads acquire, and a thread never  *)
(* reads back a mask after writing another, so interleaving the accesses   *)
(* is what the threads see.                                                *)
(*                                                                         *)
(* Definitions named Mut... are deliberate faults, used by no action: they *)
(* replace the definition that follows to confirm the properties notice.   *)
(***************************************************************************)
EXTENDS Naturals

CONSTANTS
  Threads,    \* the threads that call the orchestrator
  Sectors,    \* the ids below MAX_SECTORS
  BadIds,     \* the ids from MAX_SECTORS up
  NoSector,   \* an idle thread's argument
  MaxEvents,  \* bound: calls start while total_events is below it
  MaxOverrides \* bound: manual overrides in all

Ids == Sectors \cup BadIds

ASSUME ReactAssumption ==
  /\ Sectors \cap BadIds = {} /\ NoSector \notin Ids
  /\ MaxEvents \in Nat /\ MaxOverrides \in Nat

VARIABLES
  isolated,       \* isolated_sectors_, as a set
  halted,         \* halted_sectors_, as a set
  broadcast,      \* halt_broadcast_
  total_events, total_misfires,
  pc, arg,        \* where each thread is, and the sector id it was given
  answers,        \* history: <<id, status>> returned since the id's last override
  wasSafe,        \* history: has a query's sector been safe since it began?
  overrides       \* history: manual overrides used so far

vars == <<isolated, halted, broadcast, total_events, total_misfires,
          pc, arg, answers, wasSafe, overrides>>

Handling == {"count", "check", "isolate", "fire"}
Querying == {"load_isolated", "load_broadcast", "load_halted", "said_safe"}
Status == {"CLEARED", "MISFIRE_HANDLED", "ALREADY_ISOLATED", "HALT_FAILED"}

Init ==
  /\ isolated = {} /\ halted = {} /\ broadcast = FALSE
  /\ total_events = 0 /\ total_misfires = 0
  /\ pc = [t \in Threads |-> "idle"]
  /\ arg = [t \in Threads |-> NoSector]
  /\ answers = {}
  /\ wasSafe = [t \in Threads |-> FALSE]
  /\ overrides = 0

-----------------------------------------------------------------------------
(* The two classes below the orchestrator.                                 *)

MutIsolatedOrHalted(s) == s \in Sectors /\ (s \in isolated \/ s \in halted \/ broadcast)
IsIsolated(s) == s \in Sectors /\ s \in isolated

\* fetch_or of the bit; an id from MAX_SECTORS up has none.
WithBit(mask, s) == mask \cup ({s} \cap Sectors)

\* What holds of a sector at one instant.
Safe(s, isolatedNow, haltedNow, broadcastNow) ==
  s \notin isolatedNow /\ ~ (s \in Sectors /\ (broadcastNow \/ s \in haltedNow))

-----------------------------------------------------------------------------
(* Program points.                                                         *)

At(t, point) == pc[t] = point
Goto(t, point) == pc' = [pc EXCEPT ![t] = point] /\ UNCHANGED arg

Enter(t, point, s) ==
  /\ At(t, "idle")
  /\ pc' = [pc EXCEPT ![t] = point]
  /\ arg' = [arg EXCEPT ![t] = s]

Leave(t) ==
  /\ pc' = [pc EXCEPT ![t] = "idle"]
  /\ arg' = [arg EXCEPT ![t] = NoSector]

Answer(s, status) == answers' = answers \cup {<<s, status>>}

\* Every step notes which running queries could truthfully say "safe".
NoteSafe ==
  wasSafe' = [t \in Threads |->
    /\ pc'[t] \in Querying
    /\ \/ wasSafe[t]
       \/ Safe(arg'[t], isolated', halted', broadcast')]

masks == <<isolated, halted, broadcast>>
totals == <<total_events, total_misfires>>

-----------------------------------------------------------------------------
(* handle_misfire                                                          *)

CallMisfire(t, s) ==
  /\ total_events < MaxEvents
  /\ Enter(t, "count", s)
  /\ total_events' = total_events + 1
  /\ UNCHANGED <<masks, total_misfires, answers>>

CountMisfire(t) ==
  /\ At(t, "count")
  /\ total_misfires' = total_misfires + 1
  /\ Goto(t, "check")
  /\ UNCHANGED <<masks, total_events, answers>>

FindIsolated(t) ==
  /\ At(t, "check") /\ IsIsolated(arg[t])
  /\ Answer(arg[t], "ALREADY_ISOLATED")
  /\ Leave(t)
  /\ UNCHANGED <<masks, totals>>

MutCheckIgnored(t) ==
  /\ At(t, "check")
  /\ Goto(t, "isolate")
  /\ UNCHANGED <<masks, totals, answers>>
FindNotIsolated(t) ==
  /\ At(t, "check") /\ ~ IsIsolated(arg[t])
  /\ Goto(t, "isolate")
  /\ UNCHANGED <<masks, totals, answers>>

MutIsolateAndReturn(t) ==
  /\ At(t, "isolate")
  /\ isolated' = WithBit(isolated, arg[t])
  /\ Leave(t)
  /\ UNCHANGED <<halted, broadcast, totals, answers>>
Isolate(t) ==
  /\ At(t, "isolate")
  /\ isolated' = WithBit(isolated, arg[t])
  /\ Goto(t, "fire")
  /\ UNCHANGED <<halted, broadcast, totals, answers>>

\* HALT_FAILED is the answer to sector_stopped = false, which fire returns
\* only for an id it rejects.
MutFireUnconfirmed(t) ==
  /\ At(t, "fire")
  /\ Answer(arg[t], IF arg[t] \in Sectors THEN "MISFIRE_HANDLED" ELSE "HALT_FAILED")
  /\ Leave(t)
  /\ UNCHANGED <<masks, totals>>
Fire(t) ==
  /\ At(t, "fire")
  /\ halted' = WithBit(halted, arg[t])
  /\ Answer(arg[t], IF arg[t] \in Sectors THEN "MISFIRE_HANDLED" ELSE "HALT_FAILED")
  /\ Leave(t)
  /\ UNCHANGED <<isolated, broadcast, totals>>

-----------------------------------------------------------------------------
(* handle_cleared changes one counter and nothing else.                    *)

HandleCleared(t, s) ==
  /\ total_events < MaxEvents
  /\ At(t, "idle")
  /\ total_events' = total_events + 1
  /\ Answer(s, "CLEARED")
  /\ UNCHANGED <<masks, total_misfires, pc, arg>>

-----------------------------------------------------------------------------
(* is_sector_safe: up to three loads, each a step.                         *)

CallIsSafe(t, s) ==
  /\ Enter(t, "load_isolated", s)
  /\ UNCHANGED <<masks, totals, answers>>

MutLoadIsolatedIgnored(t) ==
  /\ At(t, "load_isolated")
  /\ Goto(t, "load_broadcast")
  /\ UNCHANGED <<masks, totals, answers>>
LoadIsolated(t) ==
  /\ At(t, "load_isolated")
  /\ \/ IsIsolated(arg[t]) /\ Leave(t)
     \/ ~ IsIsolated(arg[t]) /\ Goto(t, "load_broadcast")
  /\ UNCHANGED <<masks, totals, answers>>

LoadBroadcast(t) ==
  /\ At(t, "load_broadcast")
  /\ \/ arg[t] \notin Sectors /\ Goto(t, "said_safe")
     \/ arg[t] \in Sectors /\ broadcast /\ Leave(t)
     \/ arg[t] \in Sectors /\ ~ broadcast /\ Goto(t, "load_halted")
  /\ UNCHANGED <<masks, totals, answers>>

LoadHalted(t) ==
  /\ At(t, "load_halted")
  /\ \/ arg[t] \in halted /\ Leave(t)
     \/ arg[t] \notin halted /\ Goto(t, "said_safe")
  /\ UNCHANGED <<masks, totals, answers>>

ReturnSafe(t) ==
  /\ At(t, "said_safe") /\ Leave(t)
  /\ UNCHANGED <<masks, totals, answers>>

-----------------------------------------------------------------------------
(* Manual overrides: public, called by no code of the engine.  What they   *)
(* undo is promised only until the first of them.                          *)

Overridden(s) == answers' = {a \in answers : a[1] # s}

Release(s) ==
  /\ isolated' = isolated \ {s}
  /\ Overridden(s)
  /\ UNCHANGED <<halted, broadcast, totals, pc, arg>>

Reset(s) ==
  /\ halted' = halted \ {s}
  /\ Overridden(s)
  /\ UNCHANGED <<isolated, broadcast, totals, pc, arg>>

EmergencyHaltAll ==
  /\ broadcast' = TRUE
  /\ UNCHANGED <<isolated, halted, totals, pc, arg, answers>>

ClearBroadcast ==
  /\ broadcast' = FALSE
  /\ UNCHANGED <<isolated, halted, totals, pc, arg, answers>>

-----------------------------------------------------------------------------

Handle(t) ==
  CountMisfire(t) \/ FindIsolated(t) \/ FindNotIsolated(t) \/ Isolate(t) \/ Fire(t)
Query(t) == LoadIsolated(t) \/ LoadBroadcast(t) \/ LoadHalted(t) \/ ReturnSafe(t)
Advance(t) == (Handle(t) \/ Query(t)) /\ NoteSafe /\ UNCHANGED overrides

Call(t, s) == CallMisfire(t, s) \/ HandleCleared(t, s) \/ CallIsSafe(t, s)
Overrides ==
  /\ overrides < MaxOverrides /\ overrides' = overrides + 1
  /\ \/ \E s \in Sectors : Release(s) \/ Reset(s)
     \/ EmergencyHaltAll
     \/ ClearBroadcast

Next ==
  \/ \E t \in Threads, s \in Ids : Call(t, s) /\ NoteSafe /\ UNCHANGED overrides
  \/ \E t \in Threads : Advance(t)
  \/ Overrides /\ NoteSafe

\* A thread inside a call keeps running: the calls block on nothing.  Nothing
\* makes anyone call.
Spec == Init /\ [][Next]_vars /\ \A t \in Threads : WF_vars(Advance(t))

-----------------------------------------------------------------------------
(* Every variable keeps its type; only an idle thread has no sector.       *)
TypeOK ==
  /\ isolated \subseteq Sectors /\ halted \subseteq Sectors
  /\ broadcast \in BOOLEAN
  /\ total_events \in 0..MaxEvents /\ total_misfires \in Nat
  /\ pc \in [Threads -> {"idle"} \cup Handling \cup Querying]
  /\ arg \in [Threads -> Ids \cup {NoSector}]
  /\ \A t \in Threads : pc[t] = "idle" <=> arg[t] = NoSector
  /\ answers \subseteq Ids \X Status
  /\ wasSafe \in [Threads -> BOOLEAN] /\ overrides \in 0..MaxOverrides

(* Until someone overrides, a sector is never halted before it is isolated,*)
(* and an isolated sector that is not halted yet has a handler on its way  *)
(* to halt it (react.cpp 51-67): the ALREADY_ISOLATED shortcut never       *)
(* leaves a sector isolated and running.                                   *)
HaltFollowsIsolation ==
  overrides = 0 =>
    /\ halted \subseteq isolated
    /\ \A s \in isolated \ halted : \E t \in Threads : pc[t] = "fire" /\ arg[t] = s

(* Until someone overrides, every answer stays true: after                 *)
(* MISFIRE_HANDLED the sector is isolated and halted, after                *)
(* ALREADY_ISOLATED it is isolated, and HALT_FAILED is for an id that no   *)
(* mask has a bit for.                                                     *)
AnswersStayTrue ==
  overrides = 0 =>
    \A s \in Ids :
      /\ <<s, "MISFIRE_HANDLED">> \in answers => s \in isolated \cap halted
      /\ <<s, "ALREADY_ISOLATED">> \in answers => s \in isolated
      /\ <<s, "HALT_FAILED">> \in answers => s \in BadIds

(* A sector whose misfire was answered is never safe again until someone   *)
(* releases or resets it, whatever broadcast halts come and go and however *)
(* earlier overrides raced with the handler (react.cpp 34-67).             *)
DetainedUntilOverride ==
  \A s \in Sectors, status \in {"MISFIRE_HANDLED", "ALREADY_ISOLATED"} :
    <<s, status>> \in answers => ~ Safe(s, isolated, halted, FALSE)

(* is_sector_safe says "safe" only of a sector that was, at some instant   *)
(* of the query, neither isolated nor halted (react.cpp 113-117), although *)
(* it reads the two masks and the flag one after another.                  *)
SafeVerdictHeld ==
  \A t \in Threads : pc[t] = "said_safe" => wasSafe[t]

(* The same, as long as nobody has overridden: the three loads may then be *)
(* torn apart by any handlers without making the verdict false.            *)
SafeVerdictUntilOverride == overrides = 0 => SafeVerdictHeld

\* Isolated and running, with nobody past the check of handle_misfire to halt it:
\* where a reset that forgets to release leaves a sector.
Stranded(s) ==
  /\ s \in isolated \ halted
  /\ \A t \in Threads : pc[t] \in {"isolate", "fire"} => arg[t] # s

(* Such a sector is never halted again before it is released: however many *)
(* misfires of it are reported and whatever else is overridden, each is    *)
(* turned away as ALREADY_ISOLATED (react.cpp 34-44), for the isolation    *)
(* mask says that somebody handled it.                                     *)
StrandedUntilReleased ==
  [][\A s \in Sectors : Stranded(s) => Stranded(s)' \/ s \notin isolated']_vars

(* Unless someone overrides, every reported misfire of a sector ends with  *)
(* that sector isolated and halted, even if the call that reported it was  *)
(* turned away because another one had begun (react.cpp 34-67).            *)
MisfireContained ==
  \A s \in Sectors :
    (\E t \in Threads : pc[t] \in Handling /\ arg[t] = s)
      ~> (s \in isolated \cap halted \/ overrides # 0)
================================================================================
