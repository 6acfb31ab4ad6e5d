----------------------------- MODULE BurnerBridge -----------------------------
(***************************************************************************)
(* The bridge of src/core_engine/src/enforcement/burner_bridge.cpp between *)
(* tier workers and one shared token gate.  A worker runs the loop of      *)
(* tests/cpp/bench_fullstack.cpp: fire a bolt, cross-validate it in three  *)
(* rounds of five by the birth and admission of a token, report.  There is *)
(* one worker per sector, and it is named by that sector.                  *)
(*                                                                         *)
(* The gate's own steps are those of PredatorGate; a worker waits for its  *)
(* mutex before birth_token and again before admit, so the verifications   *)
(* of all workers interleave at the gate.  Whether a bolt fires and        *)
(* verifies is left open.  Monitus' event log is left out: the bridge only *)
(* writes to it.  The class has no lock of its own; its cache slots are    *)
(* each used by one worker.                                                *)
(*                                                                         *)
(* Definitions named Mut... are deliberate faults, used by no action: they *)
(* replace the definition that follows to confirm the properties notice.   *)
(***************************************************************************)
EXTENDS PredatorGate

CONSTANT MaxLoops       \* bound: a worker stops after so many loops

ASSUME BridgeAssumption == MaxLoops \in Nat

VARIABLES
  pc,                 \* where the worker of a sector is
  loop_count,
  birth_result,       \* the token value birth_token returned last
  sector_tokens,      \* sector_tokens_: the cached token of a sector
  sector_has_token,   \* sector_has_token_
  row,                \* history: verifications refused since the last success
  refused             \* history: verifications refused in all

gateVars == vars
cache == <<sector_tokens, sector_has_token>>
told == <<row, refused>>
bridgeVars == <<gateVars, pc, loop_count, birth_result, cache, told>>

BridgeInit ==
  /\ Init
  /\ pc = [s \in Sectors |-> "idle"]
  /\ loop_count = [s \in Sectors |-> 0]
  /\ birth_result = [s \in Sectors |-> 0]
  /\ sector_tokens = [s \in Sectors |-> 0]
  /\ sector_has_token = [s \in Sectors |-> FALSE]
  /\ row = [s \in Sectors |-> 0]
  /\ refused = 0

-----------------------------------------------------------------------------

At(s, point) == pc[s] = point
Goto(s, point) == pc' = [pc EXCEPT ![s] = point]

\* The gate call in flight is this sector's: no other worker names it.
Calling(s, point) == At(s, point) /\ call # NoCall /\ call.sector = s

Forget(s) ==
  /\ sector_has_token' = [sector_has_token EXCEPT ![s] = FALSE]
  /\ UNCHANGED sector_tokens

\* verify_with_token returns false.
Refused(s) ==
  /\ Goto(s, "refused")
  /\ row' = [row EXCEPT ![s] = @ + 1]
  /\ refused' = refused + 1
  /\ UNCHANGED <<loop_count, birth_result>>

\* on_bolt_fired and on_bolt_failed both forget the cached token, no more.
EndLoop(s) ==
  /\ Forget(s)
  /\ Goto(s, "idle")
  /\ loop_count' = [loop_count EXCEPT ![s] = @ + 1]
  /\ UNCHANGED <<gateVars, birth_result, told>>

ShouldCrossval(n) == n % 5 \in {0, 2, 4}

-----------------------------------------------------------------------------
(* The worker's loop.                                                      *)

\* The bolt did not fire.
FireFails(s) ==
  /\ At(s, "idle") /\ loop_count[s] < MaxLoops
  /\ EndLoop(s)

\* Fired, and this round is not cross-validated: nothing is told the bridge.
FireOnly(s) ==
  /\ At(s, "idle") /\ loop_count[s] < MaxLoops
  /\ ~ ShouldCrossval(loop_count[s])
  /\ loop_count' = [loop_count EXCEPT ![s] = @ + 1]
  /\ UNCHANGED <<gateVars, pc, birth_result, cache, told>>

FireAndVerify(s) ==
  /\ At(s, "idle") /\ loop_count[s] < MaxLoops
  /\ ShouldCrossval(loop_count[s])
  /\ Goto(s, "birth")
  /\ UNCHANGED <<gateVars, loop_count, birth_result, cache, told>>

\* The verdict on the bolt, whichever it is, and on_bolt_fired or on_bolt_failed.
Report(s) == (At(s, "verified") \/ At(s, "refused")) /\ EndLoop(s)

-----------------------------------------------------------------------------
(* verify_with_token                                                       *)

EnterBirth(s) ==
  /\ At(s, "birth") /\ CallBirth(s)
  /\ Goto(s, "birthing")
  /\ UNCHANGED <<loop_count, birth_result, cache, told>>

\* admit's answer told by its reason: a burning gate gives none
MutAnswerByReason(s) ==
  /\ call = NoCall /\ burning
  /\ \/ At(s, "birth") /\ Refused(s) /\ UNCHANGED cache
     \/ /\ At(s, "admit") /\ Forget(s) /\ Goto(s, "verified")
        /\ UNCHANGED <<loop_count, birth_result, told>>
  /\ UNCHANGED gateVars

\* birth_token and admit return at once from a burning gate.
TurnedAway(s) ==
  /\ \/ At(s, "birth") /\ UNCHANGED cache
     \/ At(s, "admit") /\ Forget(s)
  /\ call = NoCall /\ burning
  /\ Refused(s)
  /\ UNCHANGED gateVars

\* The stretch both calls begin with.  Their flow is not burned: a burn sets
\* burning_ too, and only the holder of the mutex burns.
SweepFor(s) ==
  /\ Calling(s, "birthing") \/ Calling(s, "admitting")
  /\ Sweep
  /\ UNCHANGED <<pc, loop_count, birth_result, cache, told>>

BirthFails(s) ==
  /\ Calling(s, "birthing")
  /\ RefuseRate \/ BirthRefused
  /\ Refused(s)
  /\ UNCHANGED cache

MutBirthIsEnough(s) ==
  /\ Calling(s, "birthing") /\ BirthIssued
  /\ birth_result' = [birth_result EXCEPT ![s] = sequence]
  /\ Goto(s, "verified")
  /\ UNCHANGED <<loop_count, cache, told>>
BirthSucceeds(s) ==
  /\ Calling(s, "birthing") /\ BirthIssued
  /\ birth_result' = [birth_result EXCEPT ![s] = sequence]
  /\ Goto(s, "store")
  /\ UNCHANGED <<loop_count, cache, told>>

MutStoreFlagOnly(s) ==
  /\ At(s, "store")
  /\ sector_has_token' = [sector_has_token EXCEPT ![s] = TRUE]
  /\ Goto(s, "admit")
  /\ UNCHANGED <<gateVars, loop_count, birth_result, sector_tokens, told>>
Store(s) ==
  /\ At(s, "store")
  /\ sector_tokens' = [sector_tokens EXCEPT ![s] = birth_result[s]]
  /\ sector_has_token' = [sector_has_token EXCEPT ![s] = TRUE]
  /\ Goto(s, "admit")
  /\ UNCHANGED <<gateVars, loop_count, birth_result, told>>

EnterAdmit(s) ==
  /\ At(s, "admit") /\ CallAdmit(s, sector_tokens[s])
  /\ Goto(s, "admitting")
  /\ UNCHANGED <<loop_count, birth_result, cache, told>>

AdmitFails(s) ==
  /\ Calling(s, "admitting")
  /\ RefuseRate \/ AdmitRefused \/ AdmitExpired
  /\ Refused(s)
  /\ Forget(s)

AdmitSucceeds(s) ==
  /\ Calling(s, "admitting") /\ Admitted
  /\ Forget(s)
  /\ Goto(s, "verified")
  /\ row' = [row EXCEPT ![s] = 0]
  /\ UNCHANGED <<loop_count, birth_result, refused>>

-----------------------------------------------------------------------------

Loop(s) == FireFails(s) \/ FireOnly(s) \/ FireAndVerify(s) \/ Report(s)
Verify(s) ==
  \/ EnterBirth(s) \/ TurnedAway(s) \/ SweepFor(s)
  \/ BirthFails(s) \/ BirthSucceeds(s) \/ Store(s)
  \/ EnterAdmit(s) \/ AdmitFails(s) \/ AdmitSucceeds(s)

Clock == Tick /\ UNCHANGED <<pc, loop_count, birth_result, cache, told>>

BridgeNext == (\E s \in Sectors : Loop(s) \/ Verify(s)) \/ Clock

BridgeSpec == BridgeInit /\ [][BridgeNext]_bridgeVars

-----------------------------------------------------------------------------
(* Every variable keeps its type.                                          *)
BridgeTypeOK ==
  /\ pc \in [Sectors -> {"idle", "birth", "birthing", "store", "admit", "admitting",
                         "verified", "refused"}]
  /\ loop_count \in [Sectors -> Nat]
  /\ birth_result \in [Sectors -> Nat]
  /\ sector_tokens \in [Sectors -> Nat]
  /\ sector_has_token \in [Sectors -> BOOLEAN]
  /\ row \in [Sectors -> Nat] /\ refused \in Nat

(* The strikes the gate holds against a sector are its verifications       *)
(* refused in a row, whichever of the two calls refused them, and the gate *)
(* burns only for a sector with MAX_STRIKES of them: no worker's failures  *)
(* are counted against another's sector (burner_bridge.cpp 24-53).         *)
StrikesAreRefusals ==
  /\ ~ burning => \A s \in Sectors : FuelOf(s).strikes = row[s]
  /\ burning => \E s \in Sectors : row[s] >= MAX_STRIKES

(* However the workers interleave, the token a worker presents is the one  *)
(* its own verification was just issued, and no token stays cached when    *)
(* the verification is over (burner_bridge.cpp 35-51).                     *)
PresentsOwnToken ==
  /\ call # NoCall /\ call.op = "admit" => call.token = birth_result[call.sector]
  /\ \A s \in Sectors : sector_has_token[s] => pc[s] \in {"admit", "admitting"}

(* The tokens whose verification is still going on.                        *)
Current == {birth_result[s] : s \in {r \in Sectors : pc[r] \in {"store", "admit", "admitting"}}}

(* A verification that succeeds leaves nothing in the gate; one that was   *)
(* refused after its birth leaves at most its one token, which nobody will *)
(* present again and which holds its sector's slot (burner_bridge.cpp 42). *)
LeftBehind == Cardinality(DOMAIN tokens \ Current) <= refused

(* One worker's row of refusals locks every other worker out: when the     *)
(* gate burns, no verification of any worker is told true any more, nor    *)
(* one whose token had been issued before (burner_bridge.cpp 24-53).       *)
NoneVerifiedAfterBurn ==
  [][burning => \A s \in Sectors : pc'[s] = "verified" => pc[s] = "verified"]_bridgeVars
===============================================================================
