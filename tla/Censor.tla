-------------------------------- MODULE Censor --------------------------------
(***************************************************************************)
(* The Censor of src/core_engine/src/enforcement/censor.cpp: a table of    *)
(* cases, one per target, and a list of SIT operations.  The class has no  *)
(* thread and no lock, so a public call is a step; what makes it hard is   *)
(* the sequence of calls: full tables, refused calls that have already     *)
(* written, an exception half way, a count of one byte.                    *)
(*                                                                         *)
(* The ERM is external (erm_stub.hpp stands in for it and always says no): *)
(* it answers each question freely from ErmSays.  Of TokenFlow and         *)
(* FuelFlow the module keeps which targets they were told to cut off.      *)
(* They take a number, so strike, stun, terminate and purge convert the    *)
(* target's id with std::stoull, which throws on the ids in Unnumbered.    *)
(* Reasons, evidence, times and the field `result' (only ever CLEAR) are   *)
(* left out.                                                               *)
(*                                                                         *)
(* Definitions named Mut... are deliberate faults, used by no action: they *)
(* replace the definition that follows to confirm the properties notice.   *)
(***************************************************************************)
EXTENDS Naturals, Sequences

CONSTANTS
  Targets,
  Unnumbered,        \* the targets whose id std::stoull refuses
  Flows,             \* are there a TokenFlow and a FuelFlow?
  HasERM, ErmSays,   \* is there an ERM; its pairs <<warrant, green light>>
  SectorZero,        \* is this the Censor of sector 0?
  MAX_CASE_RECORDS, MAX_SIT_OPS, CASE_ESCALATE_AT,
  COUNT_RANGE,       \* 2^8: enforcement_count is a uint8_t
  Modes, Incidents,  \* the modes and incident types callers use
  Manual,            \* does a caller use report_to_judge and escalate_to_sit?
  MaxHits,           \* bound: enforcements a case claims
  MaxId              \* bound: shutdown is called while the ids are below it

AllModes == {"ADVISE", "REPRIMAND", "SUSPEND", "STRIKE", "STUN", "TERMINATE", "PURGE"}

SelfDefence == {"ROOM_FALL", "ACCOUNT_TAKEOVER", "HOSTILE_CONNECT", "MESH_PROBE"}
AllIncidents == SelfDefence \cup {"TOKEN_FORGE", "FUEL_DRAIN", "REPLAY_ATTACK", "OTHER"}

ASSUME CensorAssumption ==
  /\ Unnumbered \subseteq Targets
  /\ Flows \in BOOLEAN /\ HasERM \in BOOLEAN /\ SectorZero \in BOOLEAN /\ Manual \in BOOLEAN
  /\ ErmSays \subseteq BOOLEAN \X BOOLEAN
  /\ Modes \subseteq AllModes /\ Incidents \subseteq AllIncidents
  /\ MAX_CASE_RECORDS \in Nat /\ MAX_SIT_OPS \in Nat
  /\ CASE_ESCALATE_AT \in Nat \ {0} /\ COUNT_RANGE \in Nat
  /\ CASE_ESCALATE_AT < COUNT_RANGE
  /\ MaxHits \in Nat /\ MaxId \in Nat

VARIABLES
  cases,             \* case_records_[0 .. case_count_ - 1]
  sit_ops,           \* sit_ops_[0 .. sit_op_count_ - 1]
  case_id_counter, op_id_counter,
  throttled,         \* targets FuelFlow was told to throttle
  invalidated,       \* targets whose tokens TokenFlow was told to invalidate
  answer,            \* history: what the last call answered
  hits,              \* history: enforcements of the target that were carried out
  thrown             \* history: those of which only the record was written

outside == <<throttled, invalidated>>
sit == <<sit_ops, op_id_counter>>
history == <<hits, thrown>>
book == <<cases, case_id_counter, history>>
vars == <<book, sit, outside, answer>>

Cases == 1..Len(cases)
Return(value) == answer' = value

Init ==
  /\ cases = <<>> /\ sit_ops = <<>>
  /\ case_id_counter = 3000 /\ op_id_counter = 5000
  /\ throttled = {} /\ invalidated = {}
  /\ answer = "void"
  /\ hits = [t \in Targets |-> 0] /\ thrown = [t \in Targets |-> 0]

-----------------------------------------------------------------------------
(* The case table.                                                         *)

Known(t) == \E i \in Cases : cases[i].target = t
FirstCase(t) == CHOOSE i \in Cases :
  cases[i].target = t /\ \A j \in 1..(i - 1) : cases[j].target # t

\* get_enforcement_count
CountOf(t) == IF Known(t) THEN cases[FirstCase(t)].count ELSE 0

\* The id a caller reads from get_case, or none.
IdOf(t) == IF Known(t) THEN cases[FirstCase(t)].id ELSE 0

\* find_or_create_case: the case's slot, and the table and counter after it.
HasRoom(t) == Known(t) \/ Len(cases) < MAX_CASE_RECORDS
Slot(t) == IF Known(t) THEN FirstCase(t) ELSE Len(cases) + 1
NewCase(t) ==
  [id |-> case_id_counter, target |-> t, count |-> 0, mode |-> "ADVISE",
   gl_state |-> "ACTIVE", executed |-> FALSE, escalated |-> FALSE,
   zero_tolerance |-> FALSE, judge_notified |-> FALSE]
MutAlwaysOpen(t) == Append(cases, NewCase(t))
OpenedCases(t) == IF Known(t) THEN cases ELSE Append(cases, NewCase(t))
CountId(t) == case_id_counter' = IF Known(t) THEN case_id_counter ELSE case_id_counter + 1

MutNotedAfresh(t, mode, zero) == [NewCase(t) EXCEPT !.mode = mode, !.zero_tolerance = zero]
\* The case with what both kinds of enforcement write into it first.
Noted(t, mode, zero) ==
  [OpenedCases(t)[Slot(t)] EXCEPT !.mode = mode, !.zero_tolerance = zero]
Store(t, rec) == cases' = [OpenedCases(t) EXCEPT ![Slot(t)] = rec] /\ CountId(t)

MutCountSaturates(n) == IF n + 1 = COUNT_RANGE THEN n ELSE n + 1
Increment(n) == (n + 1) % COUNT_RANGE

-----------------------------------------------------------------------------
(* What is done to a target.                                               *)

Throttles(mode) == mode \in {"STRIKE", "STUN", "TERMINATE", "PURGE"}
Invalidates(mode) == mode \in {"STUN", "TERMINATE", "PURGE"}

\* The first conversion of the id throws before anything is done.
Throws(t, mode) == Flows /\ t \in Unnumbered /\ Throttles(mode)

Sanction(t, mode) ==
  /\ throttled' = IF Flows /\ Throttles(mode) THEN throttled \cup {t} ELSE throttled
  /\ invalidated' = IF Flows /\ Invalidates(mode) THEN invalidated \cup {t} ELSE invalidated

-----------------------------------------------------------------------------
(* escalate_to_sit, as a value: the list after it.                         *)

Operation(t, id, count, opener) ==
  [op_id |-> op_id_counter, target |-> t, trigger_case_id |-> id,
   count |-> count, opener |-> opener]

OpenOperation(t, id, count, opener) ==
  IF Len(sit_ops) >= MAX_SIT_OPS
  THEN UNCHANGED sit
  ELSE /\ sit_ops' = Append(sit_ops, Operation(t, id, count, opener))
       /\ op_id_counter' = op_id_counter + 1

MutDueLate(rec) == rec.count > CASE_ESCALATE_AT /\ ~ rec.escalated
EscalationDue(rec) == rec.count >= CASE_ESCALATE_AT /\ ~ rec.escalated

\* The common end: the receipt to the judge, then the escalation test.
Conclude(t, rec) ==
  LET receipted == [rec EXCEPT !.judge_notified = TRUE] IN
  \/ /\ ~ EscalationDue(rec)
     /\ Store(t, receipted)
     /\ Return("CLEAR")
     /\ UNCHANGED sit
  \/ /\ EscalationDue(rec)
     /\ Store(t, [receipted EXCEPT !.escalated = TRUE, !.gl_state = "ESCALATED"])
     /\ OpenOperation(t, rec.id, rec.count, "censor")
     /\ Return("ESCALATED")

CountHit(t) == hits' = [hits EXCEPT ![t] = @ + 1] /\ UNCHANGED thrown
CountThrow(t) == thrown' = [thrown EXCEPT ![t] = @ + 1] /\ UNCHANGED hits

\* What the cases claim: the enforcements they were written for.
claimed == [t \in Targets |-> hits[t] + thrown[t]]

-----------------------------------------------------------------------------
(* enforce and purge                                                       *)

Authorised(says) == HasERM => says[1] /\ says[2]

EnforceUnauthorised(t, says) ==
  /\ ~ Authorised(says)
  /\ Return("NO_WARRANT")
  /\ UNCHANGED <<book, sit, outside>>

EnforceNoRoom(t, says) ==
  /\ Authorised(says) /\ ~ HasRoom(t)
  /\ Return("DENIED")
  /\ UNCHANGED <<book, sit, outside>>

\* Found only after the case was opened or overwritten.
MutPurgeDeniedCounts(t, says) ==
  /\ Authorised(says) /\ HasRoom(t) /\ ~ SectorZero
  /\ LET rec == Noted(t, "PURGE", FALSE) IN Store(t, [rec EXCEPT !.count = Increment(@)])
  /\ Return("DENIED")
  /\ UNCHANGED <<sit, outside, history>>
EnforcePurgeDenied(t, says) ==
  /\ Authorised(says) /\ HasRoom(t) /\ ~ SectorZero
  /\ Store(t, Noted(t, "PURGE", FALSE))
  /\ Return("DENIED")
  /\ UNCHANGED <<sit, outside, history>>

EnforceThrows(t, mode, says) ==
  /\ Authorised(says) /\ HasRoom(t) /\ (mode = "PURGE" => SectorZero)
  /\ Throws(t, mode)
  /\ Store(t, Noted(t, mode, FALSE))
  /\ Return("threw")
  /\ UNCHANGED <<sit, outside, history>>

EnforceFires(t, mode, says) ==
  /\ Authorised(says) /\ HasRoom(t) /\ (mode = "PURGE" => SectorZero)
  /\ ~ Throws(t, mode)
  /\ claimed[t] < MaxHits
  /\ LET rec == Noted(t, mode, FALSE)
         count == Increment(rec.count)
     IN Conclude(t, [rec EXCEPT
          !.count = count, !.executed = TRUE,
          !.gl_state = IF count = 1 THEN "EXECUTED" ELSE "RE_ENGAGED"])
  /\ Sanction(t, mode)
  /\ CountHit(t)

\* purge is enforce behind a test of the sector that leaves no trace.
PurgeDenied(t) ==
  /\ ~ SectorZero
  /\ Return("DENIED")
  /\ UNCHANGED <<book, sit, outside>>

-----------------------------------------------------------------------------
(* enforce_zero_tolerance                                                  *)

ZeroToleranceDenied(t, incident) ==
  /\ incident \notin SelfDefence \/ ~ HasRoom(t)
  /\ Return("DENIED")
  /\ UNCHANGED <<book, sit, outside>>

Terminated(t) ==
  [Noted(t, "TERMINATE", TRUE) EXCEPT
     !.count = Increment(@), !.executed = TRUE, !.gl_state = "EXECUTED"]

\* The case says executed and counts before the target is terminated, which
\* is what throws: nothing was done to the target.
ZeroToleranceThrows(t, incident) ==
  /\ incident \in SelfDefence
  /\ HasRoom(t) /\ Throws(t, "TERMINATE")
  /\ claimed[t] < MaxHits
  /\ Store(t, Terminated(t))
  /\ CountThrow(t)
  /\ Return("threw")
  /\ UNCHANGED <<sit, outside>>

ZeroTolerance(t, incident) ==
  /\ incident \in SelfDefence
  /\ HasRoom(t) /\ ~ Throws(t, "TERMINATE")
  /\ claimed[t] < MaxHits
  /\ Conclude(t, Terminated(t))
  /\ Sanction(t, "TERMINATE")
  /\ CountHit(t)

-----------------------------------------------------------------------------
(* The other public calls.                                                 *)

CaseIds == {cases[i].id : i \in Cases}

ReportToJudge(id) ==
  /\ Manual
  /\ cases' = [i \in Cases |->
       IF cases[i].id = id THEN [cases[i] EXCEPT !.judge_notified = TRUE] ELSE cases[i]]
  /\ Return(IF id \in CaseIds THEN "true" ELSE "false")
  /\ UNCHANGED <<case_id_counter, history, sit, outside>>

EscalateByHand(t, id) ==
  /\ Manual
  /\ OpenOperation(t, id, CountOf(t), "caller")
  /\ Return(IF Len(sit_ops) < MAX_SIT_OPS THEN "true" ELSE "false")
  /\ UNCHANGED <<book, outside>>

MutShutdownKeepsOps ==
  /\ case_id_counter + op_id_counter < MaxId
  /\ cases' = <<>>
  /\ hits' = [t \in Targets |-> 0] /\ thrown' = [t \in Targets |-> 0]
  /\ Return("void")
  /\ UNCHANGED <<sit, case_id_counter, outside>>
Shutdown ==
  /\ case_id_counter + op_id_counter < MaxId
  /\ cases' = <<>>
  /\ hits' = [t \in Targets |-> 0] /\ thrown' = [t \in Targets |-> 0]
  /\ sit_ops' = <<>>
  /\ Return("void")
  /\ UNCHANGED <<case_id_counter, op_id_counter, outside>>

Enforce(t, mode, says) ==
  \/ EnforceUnauthorised(t, says)
  \/ EnforceNoRoom(t, says)
  \/ mode = "PURGE" /\ EnforcePurgeDenied(t, says)
  \/ EnforceThrows(t, mode, says)
  \/ EnforceFires(t, mode, says)

EnforceZeroTolerance(t, incident) ==
  \/ ZeroToleranceDenied(t, incident)
  \/ ZeroToleranceThrows(t, incident)
  \/ ZeroTolerance(t, incident)

Next ==
  \/ \E t \in Targets, mode \in Modes, says \in ErmSays : Enforce(t, mode, says)
  \/ \E t \in Targets : PurgeDenied(t)
  \/ \E t \in Targets, incident \in Incidents : EnforceZeroTolerance(t, incident)
  \/ \E id \in CaseIds \cup {0} : ReportToJudge(id)
  \/ \E t \in Targets : EscalateByHand(t, IdOf(t))
  \/ Shutdown

Spec == Init /\ [][Next]_vars

-----------------------------------------------------------------------------
(* Properties                                                              *)

CaseType ==
  [id : Nat, target : Targets, count : 0..(COUNT_RANGE - 1), mode : AllModes,
   gl_state : {"ACTIVE", "EXECUTED", "RE_ENGAGED", "ESCALATED"},
   executed : BOOLEAN, escalated : BOOLEAN,
   zero_tolerance : BOOLEAN, judge_notified : BOOLEAN]
OperationType ==
  [op_id : Nat, target : Targets, trigger_case_id : Nat,
   count : 0..(COUNT_RANGE - 1), opener : {"censor", "caller"}]

(* Every variable keeps its type.                                          *)
TypeOK ==
  /\ cases \in Seq(CaseType) /\ sit_ops \in Seq(OperationType)
  /\ case_id_counter \in Nat /\ op_id_counter \in Nat
  /\ throttled \subseteq Targets /\ invalidated \subseteq Targets
  /\ hits \in [Targets -> Nat] /\ thrown \in [Targets -> Nat]

(* The table is a register: it stays within its array, no target has two   *)
(* cases (get_case would show the first and hide the other's count), and   *)
(* case ids grow with the slots, so that report_to_judge finds one case    *)
(* (censor.cpp 429-455, 340-348).                                          *)
OneCasePerTarget ==
  /\ Len(cases) <= MAX_CASE_RECORDS
  /\ \A i, j \in Cases : i < j =>
       cases[i].target # cases[j].target /\ cases[i].id < cases[j].id
  /\ \A i \in Cases : cases[i].id < case_id_counter
  /\ \A t \in Targets : claimed[t] > 0 => Known(t)

(* Whatever mixture of warranted and zero-tolerance enforcements, refusals *)
(* and exceptions led here, a case with a convertible target is escalated  *)
(* exactly if it was enforced CASE_ESCALATE_AT times, also after its       *)
(* one-byte count wrapped to zero (censor.cpp 184-191, 237-244).           *)
EscalatedIffRepeat ==
  \A i \in Cases : cases[i].target \notin Unnumbered =>
    (cases[i].escalated <=> hits[cases[i].target] >= CASE_ESCALATE_AT)

ByCensor == {k \in 1..Len(sit_ops) : sit_ops[k].opener = "censor"}

(* The SIT list and the case table agree: each operation the Censor opened *)
(* names an escalated case, its target and the count that triggered it, no *)
(* case has two, and an escalated case has one unless the list is full     *)
(* (censor.cpp 184-191, 373-404, 462-468).                                 *)
SitMatchesCases ==
  /\ Len(sit_ops) <= MAX_SIT_OPS
  /\ \A k \in ByCensor : \E i \in Cases :
       /\ cases[i].id = sit_ops[k].trigger_case_id
       /\ cases[i].target = sit_ops[k].target
       /\ cases[i].escalated /\ sit_ops[k].count \in CASE_ESCALATE_AT..claimed[cases[i].target]
  /\ \A k, l \in ByCensor :
       sit_ops[k].trigger_case_id = sit_ops[l].trigger_case_id => k = l
  /\ \A i \in Cases : cases[i].escalated =>
       \/ \E k \in ByCensor : sit_ops[k].trigger_case_id = cases[i].id
       \/ Len(sit_ops) = MAX_SIT_OPS

(* What a case is worth as evidence.  If the target's id converts, its      *)
(* count is the enforcements carried out, modulo the byte, and it says      *)
(* executed exactly if there was one; otherwise it overstates by exactly    *)
(* the terminations that threw, although "EXECUTED - Hit at least once"     *)
(* (censor.hpp:52).  It is no longer ACTIVE once it says executed, only an  *)
(* escalated one says ESCALATED, and the judge has a receipt of each target *)
(* on whom something was carried out (censor.cpp 163-181, 222-235).         *)
CaseTellsTheHits ==
  \A i \in Cases : LET c == cases[i] IN
    /\ c.count = claimed[c.target] % COUNT_RANGE
    /\ c.executed <=> claimed[c.target] > 0
    /\ c.target \notin Unnumbered => claimed[c.target] = hits[c.target]
    /\ c.gl_state = "ACTIVE" <=> ~ c.executed
    /\ c.gl_state = "ESCALATED" => c.escalated
    /\ hits[c.target] > 0 => c.judge_notified

(* A refused call enforces nothing: without a warrant nothing changes at   *)
(* all, and a denied one opens or relabels a case at most; it cuts nobody  *)
(* off, counts nothing, opens no operation (censor.cpp 91-104, 108-111,    *)
(* 149-156, 207-213, 219-220, 256-259).                                    *)
RefusedIsInert ==
  [][/\ answer' = "NO_WARRANT" => UNCHANGED <<book, sit, outside>>
     /\ answer' = "DENIED" =>
          /\ UNCHANGED <<sit, outside, history>>
          /\ \A i \in Cases : \E mode \in AllModes, zero \in BOOLEAN :
               cases'[i] = [cases[i] EXCEPT !.mode = mode, !.zero_tolerance = zero]
          /\ \A i \in DOMAIN cases' \ Cases : cases'[i].count = 0 /\ ~ cases'[i].executed]_vars

(* "Target may come back - history preserved" (censor.cpp 166-167): until  *)
(* shutdown a case keeps its slot, id and target, and is never             *)
(* un-executed, un-escalated or un-reported.                               *)
HistoryPreserved ==
  [][answer' # "void" =>
       \A i \in Cases :
         /\ i \in DOMAIN cases'
         /\ cases'[i].id = cases[i].id /\ cases'[i].target = cases[i].target
         /\ cases[i].executed => cases'[i].executed
         /\ cases[i].escalated => cases'[i].escalated
         /\ cases[i].judge_notified => cases'[i].judge_notified]_vars

-----------------------------------------------------------------------------
(* What comments and tests say and the code does not do.                   *)

(* "ESCALATED - SIT notified, special operation" (censor.hpp:54).          *)
EscalatedHasOperation ==
  \A i \in Cases : cases[i].gl_state = "ESCALATED" =>
    \E k \in ByCensor : sit_ops[k].trigger_case_id = cases[i].id

(* "Every enforcement documented ... Judge gets receipt of each"           *)
(* (censor.hpp:81).                                                        *)
ExecutedIsReported == \A i \in Cases : cases[i].executed => cases[i].judge_notified
================================================================================
