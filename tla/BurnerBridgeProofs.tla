-------------------------- MODULE BurnerBridgeProofs --------------------------
(***************************************************************************)
(* Theorems about BurnerBridge, for any sectors, limits and loops.  The    *)
(* bridge drives the gate by the gate's own steps, so the theorems about   *)
(* the gate carry over; the rest is about the workers.                     *)
(***************************************************************************)
EXTENDS BurnerBridge, PredatorGateProofs

-----------------------------------------------------------------------------
(* The bridge uses the gate as its callers may.                            *)

(* The values workers present were drawn from the gate's sequence.         *)
Drawn == \A s \in Sectors : birth_result[s] <= sequence /\ sector_tokens[s] <= sequence

Typed == TypeOK /\ BridgeTypeOK /\ Drawn

(* Every step of the bridge is a step of the gate, or leaves it alone.     *)
LEMMA GateStep == Typed /\ [BridgeNext]_bridgeVars => [Next]_vars
  <1> SUFFICES ASSUME Typed, [BridgeNext]_bridgeVars PROVE [Next]_vars
    OBVIOUS
  <1>1. ASSUME NEW s \in Sectors, Loop(s) PROVE UNCHANGED vars
    BY <1>1 DEF Loop, FireFails, FireOnly, FireAndVerify, Report, EndLoop, gateVars
  <1>2. ASSUME NEW s \in Sectors, EnterBirth(s) PROVE Next
    BY <1>2 DEF EnterBirth, Next
  <1>3. ASSUME NEW s \in Sectors, TurnedAway(s) \/ Store(s) PROVE UNCHANGED vars
    BY <1>3 DEF TurnedAway, Store, gateVars
  <1>4. ASSUME NEW s \in Sectors,
               SweepFor(s) \/ BirthFails(s) \/ BirthSucceeds(s) \/ AdmitFails(s) \/ AdmitSucceeds(s)
        PROVE  Next
    BY <1>4 DEF SweepFor, BirthFails, BirthSucceeds, AdmitFails, AdmitSucceeds, Next
  <1>5. ASSUME NEW s \in Sectors, EnterAdmit(s) PROVE Next
    <2>1. sector_tokens[s] \in 0..sequence
      BY DEF Typed, TypeOK, BridgeTypeOK, Drawn
    <2> QED
      BY <1>5, <2>1 DEF EnterAdmit, Next
  <1>6. CASE Clock
    BY <1>6 DEF Clock, Next
  <1>7. CASE UNCHANGED bridgeVars
    BY <1>7 DEF bridgeVars, gateVars
  <1> QED
    BY <1>1, <1>2, <1>3, <1>4, <1>5, <1>6, <1>7 DEF BridgeNext, Verify

(* The gate's sequence only grows under the bridge.                        *)
LEMMA SequenceGrows ==
  ASSUME TypeOK, [Next]_vars
  PROVE  sequence' >= sequence
  <1>1. sequence \in Nat
    BY DEF TypeOK
  <1>2. CASE Benign \/ Rejection \/ Sweep \/ Admitted \/ Destroy \/ TriggerBurn \/ FinishBurn
    BY <1>1, <1>2 DEF Benign, Rejection, Sweep, Admitted, Destroy, TriggerBurn, FinishBurn
  <1>3. CASE BirthIssued
    BY <1>1, <1>3 DEF BirthIssued, NextSequence
  <1> QED
    BY <1>2, <1>3, StepCases

LEMMA TypedStep == Typed /\ [BridgeNext]_bridgeVars => Typed'
  <1> SUFFICES ASSUME Typed, [BridgeNext]_bridgeVars PROVE Typed'
    OBVIOUS
  <1> USE DEF Typed
  <1>1. TypeOK' /\ sequence' >= sequence /\ sequence \in Nat /\ sequence' \in Nat
    BY GateStep, NextType, SequenceGrows DEF TypeOK
  <1>2. ASSUME NEW s \in Sectors, Loop(s) PROVE BridgeTypeOK' /\ Drawn'
    <2>1. CASE EndLoop(s)
      BY <2>1 DEF EndLoop, Goto, Forget, gateVars, vars, told, BridgeTypeOK, Drawn
    <2>2. CASE FireOnly(s)
      BY <2>2 DEF FireOnly, gateVars, vars, cache, told, BridgeTypeOK, Drawn
    <2>3. CASE FireAndVerify(s)
      BY <2>3 DEF FireAndVerify, Goto, gateVars, vars, cache, told, BridgeTypeOK, Drawn
    <2> QED
      BY <1>2, <2>1, <2>2, <2>3 DEF Loop, FireFails, Report
  <1>3. ASSUME NEW s \in Sectors,
               EnterBirth(s) \/ TurnedAway(s) \/ SweepFor(s) \/ BirthFails(s) \/ EnterAdmit(s)
                 \/ AdmitFails(s) \/ AdmitSucceeds(s)
        PROVE  BridgeTypeOK' /\ Drawn'
    <2>1. CASE Refused(s) /\ (Forget(s) \/ UNCHANGED cache)
      <3>1. sector_tokens' = sector_tokens /\ sector_has_token' \in [Sectors -> BOOLEAN]
        BY <2>1 DEF cache, Forget, BridgeTypeOK
      <3>2. pc' \in [Sectors -> {"idle", "birth", "birthing", "store", "admit", "admitting",
                                "verified", "refused"}]
        BY <2>1 DEF Refused, Goto, BridgeTypeOK
      <3>3. row' \in [Sectors -> Nat] /\ refused' \in Nat
        BY <2>1 DEF Refused, BridgeTypeOK
      <3>4. loop_count' = loop_count /\ birth_result' = birth_result
        BY <2>1 DEF Refused
      <3> QED
        BY <1>1, <3>1, <3>2, <3>3, <3>4 DEF BridgeTypeOK, Drawn
    <2>2. CASE EnterBirth(s) \/ EnterAdmit(s)
      BY <1>1, <2>2 DEF EnterBirth, EnterAdmit, Goto, cache, told, BridgeTypeOK, Drawn
    <2>3. CASE SweepFor(s)
      BY <1>1, <2>3 DEF SweepFor, cache, told, BridgeTypeOK, Drawn
    <2>4. CASE AdmitSucceeds(s)
      BY <1>1, <2>4 DEF AdmitSucceeds, Goto, Forget, BridgeTypeOK, Drawn
    <2> QED
      BY <1>3, <2>1, <2>2, <2>3, <2>4 DEF TurnedAway, BirthFails, AdmitFails
  <1>4. ASSUME NEW s \in Sectors, Store(s) PROVE BridgeTypeOK' /\ Drawn'
    BY <1>4 DEF Store, Goto, gateVars, vars, told, BridgeTypeOK, Drawn
  <1>5. ASSUME NEW s \in Sectors, BirthSucceeds(s) PROVE BridgeTypeOK' /\ Drawn'
    BY <1>1, <1>5 DEF BirthSucceeds, Goto, cache, told, BridgeTypeOK, Drawn
  <1>6. CASE Clock
    BY <1>1, <1>6 DEF Clock, cache, told, BridgeTypeOK, Drawn
  <1>7. CASE UNCHANGED bridgeVars
    BY <1>1, <1>7 DEF bridgeVars, cache, told, BridgeTypeOK, Drawn
  <1> QED
    BY <1>1, <1>2, <1>3, <1>4, <1>5, <1>6, <1>7 DEF BridgeNext, Verify

LEMMA TypedInit == BridgeInit => Typed
  <1> SUFFICES ASSUME BridgeInit PROVE Typed
    OBVIOUS
  <1>1. TypeOK
    BY InitType DEF BridgeInit
  <1>2. sequence = 0
    BY DEF BridgeInit, Init
  <1>3. BridgeTypeOK /\ Drawn
    BY <1>2 DEF BridgeInit, BridgeTypeOK, Drawn
  <1> QED
    BY <1>1, <1>3 DEF Typed

LEMMA TypedInvariant == BridgeSpec => []Typed
  BY TypedInit, TypedStep, PTL DEF BridgeSpec

(* The bridge drives the gate by the gate's own operations, so every       *)
(* theorem about PredatorGate holds of the gate inside the bridge.         *)
LEMMA BridgeImplementsGate == BridgeSpec => Spec
  <1>1. BridgeInit => Init
    BY DEF BridgeInit
  <1> QED
    BY <1>1, GateStep, TypedInvariant, PTL DEF BridgeSpec, Spec

(* What is proved of the gate then holds of the bridge, for instance its   *)
(* books and the end of admissions.                                        *)
THEOREM BridgeAccounts == BridgeSpec => [](Conservation /\ LiveCountLaw /\ CapacityLaw)
  BY BridgeImplementsGate, Accounting

-----------------------------------------------------------------------------
(* The bridge hides trigger_burn.                                          *)

(* No step of the bridge is a burn by a caller, even where callers of the  *)
(* gate may burn: a burn inside the bridge ends a call.                    *)
LEMMA NoOutsideBurn == Typed /\ [BridgeNext]_bridgeVars => ~ TriggerBurn
  <1> SUFFICES ASSUME Typed, [BridgeNext]_bridgeVars, TriggerBurn PROVE FALSE
    OBVIOUS
  <1>1. wiping' # wiping
    BY DEF TriggerBurn, Typed, TypeOK
  <1>2. ASSUME NEW s \in Sectors, Loop(s) \/ TurnedAway(s) \/ Store(s) PROVE wiping' = wiping
    BY <1>2 DEF Loop, FireFails, FireOnly, FireAndVerify, Report, EndLoop, TurnedAway,
                Store, gateVars, vars
  <1>3. ASSUME NEW s \in Sectors, EnterBirth(s) \/ EnterAdmit(s) \/ SweepFor(s)
        PROVE  wiping' = wiping
    BY <1>3 DEF EnterBirth, EnterAdmit, SweepFor, CallBirth, CallAdmit, Sweep
  <1>4. ASSUME NEW s \in Sectors,
               BirthFails(s) \/ BirthSucceeds(s) \/ AdmitFails(s) \/ AdmitSucceeds(s)
        PROVE  wiping' = wiping
    BY <1>4 DEF BirthFails, BirthSucceeds, AdmitFails, AdmitSucceeds, RefuseRate,
                BirthRefused, BirthIssued, AdmitRefused, AdmitExpired, Admitted
  <1>5. CASE Clock \/ UNCHANGED bridgeVars
    BY <1>1, <1>5 DEF Clock, Tick, bridgeVars, gateVars, vars
  <1> QED
    BY <1>1, <1>2, <1>3, <1>4, <1>5 DEF BridgeNext, Verify

(* A burn inside the bridge is total in every behaviour.                   *)
LEMMA BridgeBurnInvariant == BridgeSpec => []BurnInv
  <1>1. BridgeInit => BurnInv
    BY EmptyMap DEF BridgeInit, Init, BurnInv, BurnIsTotal
  <1>2. Typed /\ BurnInv /\ [BridgeNext]_bridgeVars => BurnInv'
    BY GateStep, NoOutsideBurn, BurnInvStep DEF Typed
  <1> QED
    BY <1>1, <1>2, TypedInvariant, PTL DEF BridgeSpec

(* When one worker's strikes burn the gate, nothing usable is left to any  *)
(* worker: no token, no capacity in use, no key, no unburned flow.         *)
THEOREM BridgeBurnIsTotal == BridgeSpec => []BurnIsTotal
  <1>1. BurnInv => BurnIsTotal
    BY DEF BurnInv
  <1> QED
    BY <1>1, BridgeBurnInvariant, PTL

(* Workers that verify through the bridge see a token ledger: each token   *)
(* is issued once, spent at most once, by its own sector and in time, and  *)
(* nothing is issued or spent after a burn.                                *)
THEOREM BridgeImplementsLedger == BridgeSpec => LedgerSpec
  <1>1. BridgeInit => Ledger!Init
    BY LedgerInit DEF BridgeInit
  <1>2. Typed /\ BurnInv /\ [BridgeNext]_bridgeVars => [Ledger!Next]_(Ledger!vars)
    BY GateStep, NoOutsideBurn, LedgerStep DEF Typed
  <1> QED
    BY <1>1, <1>2, TypedInvariant, BridgeBurnInvariant, PTL
    DEF BridgeSpec, LedgerSpec, Ledger!Spec

(* A worker's refusals alone burn the gate, with its last strike.          *)
THEOREM BridgeBurnNeedsStrikes == BridgeSpec => OnlyStrikesBurn
  <1>1. Typed /\ BurnInv /\ [BridgeNext]_bridgeVars =>
          [~ burning /\ burning' => \E s \in DOMAIN fuel' : fuel'[s].strikes >= MAX_STRIKES]_vars
    BY GateStep, NoOutsideBurn, LastStrikeBurns DEF Typed, BurnInv
  <1> QED
    BY <1>1, TypedInvariant, BridgeBurnInvariant, PTL DEF BridgeSpec, OnlyStrikesBurn

(* No worker's verification is paid for with a token admitted before.      *)
THEOREM BridgeAdmitsOnce == BridgeSpec => []AdmittedOnce
  BY BridgeImplementsGate, NoTokenAdmittedTwice

-----------------------------------------------------------------------------
(* Each worker presents its own token.                                     *)

(* The call in flight is one its worker waits for, and the cache is        *)
(* written before the admission.                                           *)
InFlight ==
  /\ call # NoCall => pc[call.sector] = IF call.op = "birth" THEN "birthing" ELSE "admitting"
  /\ \A s \in Sectors : pc[s] = "admit" => sector_tokens[s] = birth_result[s]

Presenting == PresentsOwnToken /\ InFlight

LEMMA PresentingStep == Typed /\ Presenting /\ [BridgeNext]_bridgeVars => Presenting'
  <1> SUFFICES ASSUME Typed, Presenting, [BridgeNext]_bridgeVars PROVE Presenting'
    OBVIOUS
  <1> USE DEF Presenting, PresentsOwnToken, InFlight, Typed, BridgeTypeOK
  <1>0. call # NoCall => call \in Call
    BY DEF TypeOK
  <1>1. ASSUME NEW s \in Sectors, EndLoop(s), pc[s] \in {"idle", "verified", "refused"}
        PROVE  Presenting'
    BY <1>0, <1>1 DEF EndLoop, Forget, Goto, gateVars, vars, Call
  <1>2. ASSUME NEW s \in Sectors, FireOnly(s) \/ FireAndVerify(s) PROVE Presenting'
    BY <1>0, <1>2 DEF FireOnly, FireAndVerify, At, Goto, gateVars, vars, cache, Call
  <1>3. ASSUME NEW s \in Sectors, EnterBirth(s) PROVE Presenting'
    BY <1>3 DEF EnterBirth, CallBirth, Enters, At, Goto, cache
  <1>4. ASSUME NEW s \in Sectors, EnterAdmit(s) PROVE Presenting'
    BY <1>4 DEF EnterAdmit, CallAdmit, Enters, At, Goto, cache
  <1>5. ASSUME NEW s \in Sectors, TurnedAway(s) PROVE Presenting'
    BY <1>5 DEF TurnedAway, At, Refused, Forget, Goto, gateVars, vars, cache
  <1>6. ASSUME NEW s \in Sectors, SweepFor(s) PROVE Presenting'
    <2>1. call \in Call /\ call' = [call EXCEPT !.at = "swept"]
      BY <1>0, <1>6 DEF SweepFor, Calling, Sweep
    <2>2. call' # NoCall => call'.op = call.op /\ call'.sector = call.sector /\ call'.token = call.token
      BY <2>1 DEF Call
    <2> QED
      BY <1>6, <2>2 DEF SweepFor, Calling, cache
  <1>7. ASSUME NEW s \in Sectors, BirthFails(s) \/ AdmitFails(s) PROVE Presenting'
    <2>1. call' = NoCall
      BY <1>7 DEF BirthFails, AdmitFails, RefuseRate, BirthRefused, AdmitRefused, AdmitExpired, Return
    <2>2. Refused(s) /\ (Forget(s) \/ UNCHANGED cache)
      BY <1>7 DEF BirthFails, AdmitFails
    <2>3. pc[s] \in {"birthing", "admitting"} /\ (sector_has_token[s] => pc[s] = "admitting" /\ Forget(s))
      BY <1>7 DEF BirthFails, AdmitFails, Calling, At
    <2> QED
      BY <2>1, <2>2, <2>3 DEF Refused, Forget, Goto, cache
  <1>8. ASSUME NEW s \in Sectors, BirthSucceeds(s) PROVE Presenting'
    BY <1>8 DEF BirthSucceeds, Calling, At, BirthIssued, Return, Goto, cache
  <1>9. ASSUME NEW s \in Sectors, Store(s) PROVE Presenting'
    BY <1>0, <1>9 DEF Store, At, Goto, gateVars, vars, Call
  <1>10. ASSUME NEW s \in Sectors, AdmitSucceeds(s) PROVE Presenting'
    BY <1>10 DEF AdmitSucceeds, Admitted, Return, Forget, Goto
  <1>11. CASE Clock \/ UNCHANGED bridgeVars
    BY <1>11 DEF Clock, Tick, bridgeVars, gateVars, vars, cache
  <1> QED
    BY <1>1, <1>2, <1>3, <1>4, <1>5, <1>6, <1>7, <1>8, <1>9, <1>10, <1>11
    DEF BridgeNext, Loop, Verify, FireFails, Report, At

(* Whatever the interleaving, a worker presents the token its verification *)
(* was issued.                                                             *)
THEOREM OwnTokens == BridgeSpec => []PresentsOwnToken
  <1>1. BridgeInit => Presenting
    BY DEF BridgeInit, Init, Presenting, PresentsOwnToken, InFlight
  <1>2. Presenting => PresentsOwnToken
    BY DEF Presenting
  <1> QED
    BY <1>1, <1>2, TypedInvariant, PresentingStep, PTL DEF BridgeSpec

(* A verification that told its worker true has spent the very token it    *)
(* was issued, for the worker's own sector (burner_bridge.cpp 35-51).      *)
VerifiedIsSpent == \A s \in Sectors : pc[s] = "verified" => <<birth_result[s], s>> \in spent

LEMMA VerifiedStep ==
  Typed /\ Presenting /\ VerifiedIsSpent /\ [BridgeNext]_bridgeVars => VerifiedIsSpent'
  <1> SUFFICES ASSUME Typed, Presenting, VerifiedIsSpent, [BridgeNext]_bridgeVars
               PROVE  VerifiedIsSpent'
    OBVIOUS
  <1> USE DEF Typed, BridgeTypeOK, VerifiedIsSpent
  <1>1. spent \subseteq spent'
    <2>1. CASE ~ Admitted
      BY <2>1, GateStep, SpendShape
    <2>2. CASE Admitted
      BY <2>2 DEF Admitted
    <2> QED
      BY <2>1, <2>2
  <1>2. ASSUME NEW s \in Sectors, NEW point, Goto(s, point), point # "verified",
               \A r \in Sectors \ {s} : birth_result'[r] = birth_result[r]
        PROVE  VerifiedIsSpent'
    BY <1>1, <1>2 DEF Goto
  <1>3. ASSUME UNCHANGED <<pc, birth_result>> PROVE VerifiedIsSpent'
    BY <1>1, <1>3
  <1>4. ASSUME NEW s \in Sectors, Loop(s) PROVE VerifiedIsSpent'
    BY <1>2, <1>3, <1>4 DEF Loop, FireFails, FireOnly, FireAndVerify, Report, EndLoop
  <1>5. ASSUME NEW s \in Sectors, EnterBirth(s) \/ EnterAdmit(s) \/ Store(s) \/ BirthSucceeds(s)
        PROVE  VerifiedIsSpent'
    BY <1>2, <1>5 DEF EnterBirth, EnterAdmit, Store, BirthSucceeds
  <1>6. ASSUME NEW s \in Sectors, TurnedAway(s) \/ BirthFails(s) \/ AdmitFails(s)
        PROVE  VerifiedIsSpent'
    BY <1>2, <1>6 DEF TurnedAway, BirthFails, AdmitFails, Refused
  <1>7. ASSUME NEW s \in Sectors, SweepFor(s) PROVE VerifiedIsSpent'
    BY <1>3, <1>7 DEF SweepFor
  <1>8. ASSUME NEW s \in Sectors, AdmitSucceeds(s) PROVE VerifiedIsSpent'
    <2>1. /\ call # NoCall /\ call.op = "admit" /\ call.sector = s
          /\ spent' = spent \cup {<<call.token, s>>}
          /\ birth_result' = birth_result /\ Goto(s, "verified")
      BY <1>8 DEF AdmitSucceeds, Calling, Admitted, Running
    <2>2. <<birth_result[s], s>> \in spent'
      BY <2>1 DEF Presenting, PresentsOwnToken
    <2> QED
      BY <1>1, <2>1, <2>2 DEF Goto
  <1>9. CASE Clock \/ UNCHANGED bridgeVars
    BY <1>3, <1>9 DEF Clock, bridgeVars
  <1> QED
    BY <1>4, <1>5, <1>6, <1>7, <1>8, <1>9 DEF BridgeNext, Verify

(* True from verify_with_token means that this verification's own token    *)
(* was admitted; with BridgeAdmitsOnce, no two share an admission.         *)
THEOREM TrueMeansSpent == BridgeSpec => []VerifiedIsSpent
  <1>1. BridgeInit => Presenting
    BY DEF BridgeInit, Init, Presenting, PresentsOwnToken, InFlight
  <1>2. BridgeInit => VerifiedIsSpent
    BY DEF BridgeInit, VerifiedIsSpent
  <1> QED
    BY <1>1, <1>2, TypedInvariant, PresentingStep, VerifiedStep, PTL DEF BridgeSpec

-----------------------------------------------------------------------------
(* Strikes are refused verifications.                                      *)

(* Nothing is in flight in a burning gate: without trigger_burn from       *)
(* outside, the burn comes from a call that returns.                       *)
Quiet == burning => call = NoCall

(* A rejection counted with a refusal keeps the two in step.               *)
LEMMA RejectCounts ==
  ASSUME TypeOK, BridgeTypeOK, StrikesAreRefusals, ~ burning,
         NEW s \in Sectors, NEW f \in FuelFlow, f.strikes = FuelOf(s).strikes,
         NEW toks, Reject(s, f, toks), row' = [row EXCEPT ![s] = @ + 1]
  PROVE  StrikesAreRefusals'
  <1> DEFINE struck == [f EXCEPT !.strikes = @ + 1]
  <1>1. struck.strikes = row[s] + 1 /\ row'[s] = row[s] + 1
    BY DEF StrikesAreRefusals, FuelFlow, BridgeTypeOK
  <1>2. CASE LastStrike(struck.strikes)
    BY <1>1, <1>2 DEF Reject, Burn, LastStrike, StrikesAreRefusals
  <1>3. CASE ~ LastStrike(struck.strikes)
    <2>1. fuel' = FuelWith(s, struck) /\ burning' = burning
      BY <1>3 DEF Reject
    <2> HIDE DEF struck
    <2>2. ASSUME NEW r \in Sectors PROVE FuelOf(r)'.strikes = row'[r]
      BY <1>1, <2>1, <2>2 DEF FuelOf, FuelWith, StrikesAreRefusals, BridgeTypeOK
    <2> QED
      BY <2>1, <2>2 DEF StrikesAreRefusals
  <1> QED
    BY <1>2, <1>3

Striking == StrikesAreRefusals /\ Quiet

LEMMA StrikingStep == Typed /\ Striking /\ [BridgeNext]_bridgeVars => Striking'
  <1> SUFFICES ASSUME Typed, Striking, [BridgeNext]_bridgeVars PROVE Striking'
    OBVIOUS
  <1> USE DEF Typed, Striking
  <1>1. ASSUME UNCHANGED <<fuel, burning, row>>, UNCHANGED call \/ ~ burning PROVE Striking'
    BY <1>1 DEF StrikesAreRefusals, FuelOf, Quiet
  <1>2. ASSUME NEW s \in Sectors, Loop(s) \/ Store(s) PROVE Striking'
    BY <1>1, <1>2 DEF Loop, FireFails, FireOnly, FireAndVerify, Report, EndLoop, Store,
                      gateVars, vars, told
  <1>3. ASSUME NEW s \in Sectors, EnterBirth(s) \/ EnterAdmit(s) PROVE Striking'
    BY <1>1, <1>3 DEF EnterBirth, EnterAdmit, CallBirth, CallAdmit, Enters, told
  <1>4. ASSUME NEW s \in Sectors, TurnedAway(s) PROVE Striking'
    <2>1. burning' /\ call' = NoCall /\ row' = [row EXCEPT ![s] = @ + 1]
      BY <1>4 DEF TurnedAway, Refused, gateVars, vars
    <2>2. PICK r \in Sectors : row[r] >= MAX_STRIKES
      BY <1>4 DEF TurnedAway, StrikesAreRefusals
    <2>3. row'[r] >= MAX_STRIKES
      BY <2>1, <2>2, GateAssumption DEF BridgeTypeOK
    <2> QED
      BY <2>1, <2>3 DEF StrikesAreRefusals, Quiet
  <1>5. ASSUME NEW s \in Sectors, SweepFor(s) PROVE Striking'
    <2> DEFINE f == [FuelOf(s) EXCEPT !.requests = Append(Recent(@), now)]
    <2>1. f.strikes = FuelOf(s).strikes
      BY FuelOfType DEF FuelFlow
    <2>2. call.sector = s /\ fuel' = FuelWith(s, f) /\ burning' = burning /\ row' = row
      BY <1>5 DEF SweepFor, Calling, Sweep, told
    <2>3. ~ burning
      BY <1>5 DEF SweepFor, Calling, Quiet
    <2> HIDE DEF f
    <2>4. ASSUME NEW r \in Sectors PROVE FuelOf(r)'.strikes = FuelOf(r).strikes
      BY <2>1, <2>2 DEF FuelOf, FuelWith
    <2> QED
      BY <2>2, <2>3, <2>4 DEF StrikesAreRefusals, Quiet
  <1>6. ASSUME NEW s \in Sectors, BirthFails(s) \/ AdmitFails(s) PROVE Striking'
    <2>1. /\ call.sector = s /\ ~ burning
          /\ call' = NoCall /\ row' = [row EXCEPT ![s] = @ + 1]
      BY <1>6 DEF BirthFails, AdmitFails, Calling, Quiet, Refused, RefuseRate, BirthRefused,
                  AdmitRefused, AdmitExpired, Return
    <2>2. \E f \in FuelFlow : \E toks : f.strikes = FuelOf(s).strikes /\ Reject(s, f, toks)
      <3>1. CASE RefuseRate
        <4> DEFINE f == [FuelOf(s) EXCEPT !.requests = Recent(@)]
        <4>1. f \in FuelFlow /\ f.strikes = FuelOf(s).strikes
          BY FuelOfType, RecentType DEF FuelFlow, TypeOK
        <4>2. Reject(s, f, tokens)
          BY <2>1, <3>1 DEF RefuseRate
        <4> QED
          BY <4>1, <4>2
      <3>2. CASE BirthRefused \/ AdmitRefused \/ AdmitExpired
        BY <2>1, <3>2, FuelOfType DEF BirthRefused, AdmitRefused, AdmitExpired
      <3> QED
        BY <1>6, <3>1, <3>2 DEF BirthFails, AdmitFails
    <2>3. StrikesAreRefusals'
      BY <2>1, <2>2, RejectCounts
    <2> QED
      BY <2>1, <2>3 DEF Quiet
  <1>7. ASSUME NEW s \in Sectors, BirthSucceeds(s) PROVE Striking'
    BY <1>1, <1>7 DEF BirthSucceeds, Calling, Quiet, BirthIssued, told
  <1>8. ASSUME NEW s \in Sectors, AdmitSucceeds(s) PROVE Striking'
    <2> DEFINE f == [FuelOf(s) EXCEPT !.strikes = 0]
    <2>1. f.strikes = 0
      BY FuelOfType DEF FuelFlow
    <2>2. /\ call.sector = s /\ fuel' = FuelWith(s, f) /\ burning' = burning /\ ~ burning
          /\ call' = NoCall /\ row' = [row EXCEPT ![s] = 0]
      BY <1>8 DEF AdmitSucceeds, Calling, Quiet, Admitted, Return
    <2> HIDE DEF f
    <2>3. ASSUME NEW r \in Sectors PROVE FuelOf(r)'.strikes = row'[r]
      BY <2>1, <2>2 DEF FuelOf, FuelWith, StrikesAreRefusals, BridgeTypeOK
    <2> QED
      BY <2>2, <2>3 DEF StrikesAreRefusals, Quiet
  <1>9. CASE Clock \/ UNCHANGED bridgeVars
    BY <1>1, <1>9 DEF Clock, Tick, bridgeVars, gateVars, vars, told
  <1> QED
    BY <1>2, <1>3, <1>4, <1>5, <1>6, <1>7, <1>8, <1>9 DEF BridgeNext, Verify

(* The gate's strikes are the bridge's refusals in a row, and only a row   *)
(* of MAX_STRIKES of one sector burns.                                     *)
THEOREM StrikesCountRefusals == BridgeSpec => []StrikesAreRefusals
  <1>1. BridgeInit => Striking
    BY EmptyMap DEF BridgeInit, Init, Striking, StrikesAreRefusals, Quiet, FuelOf, NewFuel
  <1>2. Striking => StrikesAreRefusals
    BY DEF Striking
  <1> QED
    BY <1>1, <1>2, TypedInvariant, StrikingStep, PTL DEF BridgeSpec

LEMMA NoneVerifiedStep ==
  ASSUME Typed, Striking, burning, [BridgeNext]_bridgeVars,
         NEW s \in Sectors, pc'[s] = "verified"
  PROVE  pc[s] = "verified"
  <1> USE DEF Typed, BridgeTypeOK
  <1>1. call = NoCall
    BY DEF Striking, Quiet
  <1>2. ASSUME NEW r \in Sectors, NEW point, Goto(r, point), point # "verified"
        PROVE  pc[s] = "verified"
    BY <1>2 DEF Goto
  <1>3. ASSUME NEW r \in Sectors, Loop(r) PROVE pc[s] = "verified"
    BY <1>2, <1>3 DEF Loop, FireFails, FireOnly, FireAndVerify, Report, EndLoop
  <1>4. ASSUME NEW r \in Sectors, EnterBirth(r) \/ EnterAdmit(r) \/ Store(r) \/ TurnedAway(r)
        PROVE  pc[s] = "verified"
    BY <1>2, <1>4 DEF EnterBirth, EnterAdmit, Store, TurnedAway, Refused
  <1>5. ASSUME NEW r \in Sectors,
               SweepFor(r) \/ BirthFails(r) \/ BirthSucceeds(r) \/ AdmitFails(r)
                 \/ AdmitSucceeds(r)
        PROVE  FALSE
    BY <1>1, <1>5 DEF SweepFor, BirthFails, BirthSucceeds, AdmitFails, AdmitSucceeds, Calling
  <1>6. CASE Clock \/ UNCHANGED bridgeVars
    BY <1>6 DEF Clock, bridgeVars
  <1> QED
    BY <1>3, <1>4, <1>5, <1>6 DEF BridgeNext, Verify

(* Seven workers share one gate: the last strike of any of them is the     *)
(* last true answer of all of them.                                        *)
THEOREM BurnLocksEveryoneOut == BridgeSpec => NoneVerifiedAfterBurn
  <1>1. BridgeInit => Striking
    BY EmptyMap DEF BridgeInit, Init, Striking, StrikesAreRefusals, Quiet, FuelOf, NewFuel
  <1>2. Typed /\ Striking /\ [BridgeNext]_bridgeVars =>
          [burning => \A s \in Sectors : pc'[s] = "verified" => pc[s] = "verified"]_bridgeVars
    BY NoneVerifiedStep
  <1> QED
    BY <1>1, <1>2, TypedInvariant, StrikingStep, PTL DEF BridgeSpec, NoneVerifiedAfterBurn

-----------------------------------------------------------------------------
(* What refused verifications leave behind.                                *)

Left == DOMAIN tokens \ Current

\* the sectors whose token's verification is still going on
Verifying(s) == pc[s] \in {"store", "admit", "admitting"}

(* One refusal may leave one token more; nothing else leaves any.          *)
LEMMA LeftBound ==
  ASSUME TypeOK, refused \in Nat, LeftBehind,
         \/ Left' \subseteq Left /\ refused' \in {refused, refused + 1}
         \/ refused' = refused + 1 /\ \E x : Left' \subseteq Left \cup {x}
  PROVE  LeftBehind'
  <1>1. IsFiniteSet(Left) /\ Cardinality(Left) \in Nat /\ Cardinality(Left) <= refused
    BY TokensFinite DEF Left, LeftBehind
  <1>2. LeftBehind' <=> Cardinality(Left') <= refused'
    BY DEF LeftBehind, Left
  <1>3. CASE Left' \subseteq Left /\ refused' \in {refused, refused + 1}
    <2>1. Cardinality(Left') <= Cardinality(Left) /\ Cardinality(Left') \in Nat
      BY <1>1, <1>3, FS_Subset, FS_CardinalityType
    <2> QED
      BY <1>1, <1>2, <1>3, <2>1
  <1>4. ASSUME refused' = refused + 1, NEW x, Left' \subseteq Left \cup {x}
        PROVE  LeftBehind'
    <2>1. /\ IsFiniteSet(Left \cup {x})
          /\ Cardinality(Left \cup {x}) \in {Cardinality(Left), Cardinality(Left) + 1}
      BY <1>1, FS_AddElement
    <2>2. Cardinality(Left') <= Cardinality(Left \cup {x}) /\ Cardinality(Left') \in Nat
      BY <1>4, <2>1, FS_Subset, FS_CardinalityType
    <2> QED
      BY <1>1, <1>2, <1>4, <2>1, <2>2
  <1> QED
    BY <1>3, <1>4

(* A worker that is not in the middle of a verification, before or after,  *)
(* changes what is current by no more than its own token.                  *)
LEMMA CurrentKept ==
  ASSUME BridgeTypeOK, NEW s \in Sectors, birth_result' = birth_result,
         NEW point, Goto(s, point)
  PROVE  /\ Current \subseteq Current' \cup {birth_result[s]}
         /\ ~ Verifying(s) \/ point \in {"store", "admit", "admitting"} => Current \subseteq Current'
  BY DEF Current, Verifying, Goto, BridgeTypeOK

LEMMA LeftBehindStep ==
  Typed /\ Presenting /\ LeftBehind /\ [BridgeNext]_bridgeVars => LeftBehind'
  <1> SUFFICES ASSUME Typed, Presenting, LeftBehind, [BridgeNext]_bridgeVars PROVE LeftBehind'
    OBVIOUS
  <1> USE DEF Typed
  <1>0. refused \in Nat
    BY DEF BridgeTypeOK
  <1>1. ASSUME DOMAIN tokens' \subseteq DOMAIN tokens, Current \subseteq Current',
               refused' \in {refused, refused + 1}
        PROVE  LeftBehind'
    BY <1>0, <1>1, LeftBound DEF Left
  <1>2. ASSUME NEW x, DOMAIN tokens' \subseteq DOMAIN tokens, Current \subseteq Current' \cup {x},
               refused' = refused + 1
        PROVE  LeftBehind'
    BY <1>0, <1>2, LeftBound DEF Left
  <1>3. ASSUME UNCHANGED <<pc, birth_result, refused>>, DOMAIN tokens' \subseteq DOMAIN tokens
        PROVE  LeftBehind'
    BY <1>1, <1>3 DEF Current
  <1>4. ASSUME NEW s \in Sectors, EndLoop(s) /\ pc[s] \in {"idle", "verified", "refused"}
        PROVE  LeftBehind'
    <2>1. Goto(s, "idle") /\ birth_result' = birth_result /\ tokens' = tokens /\ refused' = refused
      BY <1>4 DEF EndLoop, gateVars, vars, told
    <2> QED
      BY <1>1, <1>4, <2>1, CurrentKept DEF Verifying
  <1>5. ASSUME NEW s \in Sectors, FireOnly(s) PROVE LeftBehind'
    BY <1>3, <1>5 DEF FireOnly, gateVars, vars, told
  <1>6. ASSUME NEW s \in Sectors, FireAndVerify(s) PROVE LeftBehind'
    <2>1. /\ Goto(s, "birth") /\ birth_result' = birth_result /\ tokens' = tokens
          /\ refused' = refused /\ pc[s] = "idle"
      BY <1>6 DEF FireAndVerify, At, gateVars, vars, told
    <2> QED
      BY <1>1, <2>1, CurrentKept DEF Verifying
  <1>7. ASSUME NEW s \in Sectors, EnterBirth(s) PROVE LeftBehind'
    <2>1. /\ Goto(s, "birthing") /\ birth_result' = birth_result /\ tokens' = tokens
          /\ refused' = refused /\ pc[s] = "birth"
      BY <1>7 DEF EnterBirth, CallBirth, At, told
    <2> QED
      BY <1>1, <2>1, CurrentKept DEF Verifying
  <1>8. ASSUME NEW s \in Sectors, EnterAdmit(s) \/ Store(s) PROVE LeftBehind'
    <2>1. /\ birth_result' = birth_result /\ tokens' = tokens /\ refused' = refused
          /\ \E point \in {"admit", "admitting"} : Goto(s, point)
      BY <1>8 DEF EnterAdmit, CallAdmit, Store, gateVars, vars, told
    <2>2. Current \subseteq Current'
      BY <2>1, CurrentKept
    <2> QED
      BY <1>1, <2>1, <2>2
  <1>9. ASSUME NEW s \in Sectors, TurnedAway(s) PROVE LeftBehind'
    <2>1. /\ Goto(s, "refused") /\ birth_result' = birth_result /\ tokens' = tokens
          /\ refused' = refused + 1
      BY <1>9 DEF TurnedAway, Refused, gateVars, vars
    <2>2. Current \subseteq Current' \cup {birth_result[s]}
      BY <2>1, CurrentKept
    <2> QED
      BY <1>2, <2>1, <2>2
  <1>10. ASSUME NEW s \in Sectors, SweepFor(s) PROVE LeftBehind'
    <2>1. UNCHANGED <<pc, birth_result, refused>> /\ tokens' = Restrict(tokens, DOMAIN tokens \ Stale)
      BY <1>10 DEF SweepFor, Sweep, told
    <2>2. DOMAIN tokens' \subseteq DOMAIN tokens
      BY <2>1 DEF Restrict
    <2> QED
      BY <1>3, <2>1, <2>2
  <1>11. ASSUME NEW s \in Sectors, BirthFails(s) \/ AdmitFails(s) PROVE LeftBehind'
    <2>1. Goto(s, "refused") /\ birth_result' = birth_result /\ refused' = refused + 1
      BY <1>11 DEF BirthFails, AdmitFails, Refused
    <2>2. DOMAIN tokens' \subseteq DOMAIN tokens
      <3>1. \E r, f, toks : DOMAIN toks = DOMAIN tokens /\ Reject(r, f, toks)
        BY <1>11 DEF BirthFails, AdmitFails, RefuseRate, BirthRefused, AdmitRefused, AdmitExpired
      <3> QED
        BY <3>1, EmptyMap DEF Reject, Burn, WipeAll
    <2>3. Current \subseteq Current' \cup {birth_result[s]}
      BY <2>1, CurrentKept
    <2> QED
      BY <1>2, <2>1, <2>2, <2>3
  <1>12. ASSUME NEW s \in Sectors, BirthSucceeds(s) PROVE LeftBehind'
    <2>1. /\ Goto(s, "store") /\ pc[s] = "birthing" /\ refused' = refused
          /\ birth_result' = [birth_result EXCEPT ![s] = sequence]
          /\ DOMAIN tokens' = DOMAIN tokens \cup {sequence}
      BY <1>12 DEF BirthSucceeds, Calling, At, BirthIssued, told
    <2>2. Current \cup {sequence} \subseteq Current'
      BY <2>1 DEF Current, Goto, BridgeTypeOK
    <2>3. Left' \subseteq Left
      BY <2>1, <2>2 DEF Left
    <2> QED
      BY <1>0, <2>1, <2>3, LeftBound
  <1>13. ASSUME NEW s \in Sectors, AdmitSucceeds(s) PROVE LeftBehind'
    <2>1. /\ Goto(s, "verified") /\ birth_result' = birth_result /\ refused' = refused
          /\ tokens' = Restrict(tokens, DOMAIN tokens \ {call.token})
          /\ call # NoCall /\ call.op = "admit" /\ call.sector = s
      BY <1>13 DEF AdmitSucceeds, Calling, Admitted, Running
    <2>2. DOMAIN tokens' = DOMAIN tokens \ {birth_result[s]}
      BY <2>1 DEF Restrict, Presenting, PresentsOwnToken
    <2>3. Current \subseteq Current' \cup {birth_result[s]}
      BY <2>1, CurrentKept
    <2>4. Left' \subseteq Left
      BY <2>2, <2>3 DEF Left
    <2> QED
      BY <1>0, <2>1, <2>4, LeftBound
  <1>14. CASE Clock \/ UNCHANGED bridgeVars
    BY <1>3, <1>14 DEF Clock, Tick, bridgeVars, gateVars, vars, told
  <1> QED
    BY <1>4, <1>5, <1>6, <1>7, <1>8, <1>9, <1>10, <1>11, <1>12, <1>13, <1>14
    DEF BridgeNext, Loop, Verify, FireFails, Report, At

(* A verification that succeeds leaves nothing in the gate, and each       *)
(* refusal at most one token, however the workers interleave               *)
(* (burner_bridge.cpp 42-51).                                              *)
THEOREM RefusalsLeaveOneToken == BridgeSpec => []LeftBehind
  <1>1. BridgeInit => Presenting
    BY DEF BridgeInit, Init, Presenting, PresentsOwnToken, InFlight
  <1>2. BridgeInit => LeftBehind
    <2> SUFFICES ASSUME BridgeInit PROVE LeftBehind
      OBVIOUS
    <2>1. DOMAIN tokens \ Current = {} /\ refused = 0
      BY EmptyMap DEF BridgeInit, Init
    <2> QED
      BY <2>1, FS_EmptySet DEF LeftBehind
  <1> QED
    BY <1>1, <1>2, TypedInvariant, PresentingStep, LeftBehindStep, PTL DEF BridgeSpec
===============================================================================
