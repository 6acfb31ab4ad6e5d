# FC_FLOW core engine: TLA+ models and proofs

This directory specifies the stateful core of the FC_FLOW engine
(`src/core_engine`): what its components may do, which promises they keep under
every interleaving TLC can enumerate on small instances, and which of those
promises are theorems for all sizes. Paths below are relative to
`src/core_engine`.

## 1. Inventory

| component | code | state | operations | modelled in |
|---|---|---|---|---|
| PredatorGate | `src/burner/{predator_gate,fuel_flow,token,stats}.cpp` | token map, per-sector live count, flows (strikes, recent requests, burned), seen sequences, key, burning flag | birth_token, admit, trigger_burn, remove_session, destroy | `PredatorGate` |
| REACT | `src/enforcement/{react,blackseal,reflex}.cpp` | isolation mask, halt mask, broadcast flag, two counters | handle_misfire, handle_cleared, is_sector_safe, release, reset, emergency_halt_all, clear_broadcast | `React` |
| Monitus alert ring | `src/enforcement/monitus.cpp` 76-121 | 64 slots, head, tail, drop count | push_miss_alert, drain_alerts, pending_alerts | `AlertRing` |
| Monitus event ring | `monitus.cpp` 24-74 | 50 slots, claim counter, six counters | witness_*, get_recent_events | not modelled: a log nothing reads back |
| BurnerBridge | `src/enforcement/burner_bridge.cpp` | per-sector token cache over one gate | verify_with_token, on_bolt_fired, on_bolt_failed | `BurnerBridge` |
| Censor | `src/enforcement/censor.cpp` | case table (128), SIT list (32), warrants through an ERM | enforce, enforce_zero_tolerance, purge, report_to_judge, escalate_to_sit, shutdown | `Censor` |
| CrossValidator | `src/burner/cross_validator.cpp` | honeypots, intake of room 5; its callers keep tokens, seeds and secrets | mint, validate, dissolve_to_bait, check_honeypot_use | `CrossValidator` |
| SlingshotValidator | `src/burner/slingshot_validator.cpp` | queue, worker thread, running flag, latencies, count | queue_token, ignite, shutdown | `Slingshot` |
| Coins and CrossBolt | `src/crypto`, `src/coin` | none (values their callers keep) | fire_crossbolt, mint_undisputed, mint_flex, verify_*, wipe | `Witnesses` |
| Fuel tank, line, protocol | `src/fuel` | levels per tank, live flag | fill, draw, promote, demote, next_sector | not modelled: accessors nothing calls |
| EightCV, sectors S0-S6, `modules/` | stubs | a flag each | boot, shutdown | not modelled: no behaviour |
| RAMWiper, display, build output | | | | not modelled: system calls, a bare declaration, generated files |

How they interact. A tier worker thread per sector fires a CrossBolt, asks the
BurnerBridge to verify with a token (one birth and one admission at the shared
PredatorGate) and reports the outcome to the shared Monitus; a drain thread
empties Monitus' alert ring. REACT's header says Monitus calls it on a misfire;
in this revision only its tests call it. Nothing in the repository calls
`trigger_burn`, `remove_session` or `destroy` (but for the destructor), nor the
REFLEX and BlackSeal overrides outside the tests: they are public, so the models
include them, and say of each promise whether it survives them.

What is hard, and the properties it calls for:

* **PredatorGate** keeps four containers in step by hand, rejects with strikes
  that burn everything, reads the clock twice in one operation, and has one
  public operation outside its lock. It must account for every token, keep its
  counters equal to its map, burn exactly on the threshold, burn totally, and
  never admit a token twice, late or under another key, nor any once a burn has wiped.
* **REACT** is lock-free: three atomics read and written one at a time by any
  number of threads. Whatever the interleaving, an isolated sector must get
  halted, answers must be true, and "safe" must have been true at some instant.
* **The alert ring** publishes plain memory through two indices. It must be a
  FIFO that loses nothing it accepted and counts everything it refused.
* **Censor** has no concurrency; its difficulty is the sequence of calls: two full
  tables, refused calls that have already written, an exception half way
  through an enforcement, a one-byte count, two entry points with their own copy of
  the escalation test. The case table must stay a register, a case must tell what
  was done, and each repeat offender must be escalated exactly once.
* **BurnerBridge** makes two locked calls with nothing held between them, on behalf
  of seven workers, and a row of refusals of one of them locks all. Each worker must
  present its own token, and exactly the refused verifications must be strikes.
* **Coins and CrossBolt** are stateless calls over plain structs: ten early returns in
  a row, three digests that must cover what the checks recompute, a window whose
  64-bit product may wrap, a library that may fail at each step. The check of a lock
  must accept exactly what was made from its input, and no check may accept anything
  late. Those of coins and flex tokens read no digest, so all they can promise
  besides is that what was minted is not refused.
* **SlingshotValidator** reads the length of its queue under one lock and pulls that
  many under the next, polls, and may be shut down with a batch in hand and started
  again. Every token must be validated once and in order, a pull must never meet
  an empty queue, nothing may happen after shutdown has returned, and a queued
  token must be served in the end.
* **CrossValidator** keeps nothing of its tokens: callers hold and copy them, and the
  seeds they were made from. `validate` asks none of the flags a dissolve sets, so that
  dissolving an object must itself make it fail, with any buffers, copies aside; and
  every dissolved hash must end up among the honeypots.

`PROJECT.json` lists these hazards at their lines with the properties that
answer them.

## 2. Modules

Definitions called `Mut...` are deliberate faults kept next to the definition
they distort. No action uses them; each shows, when it takes the definition's
place, that some property notices.

### PredatorGate, TokenLedger, PredatorGateProofs

`birth_token` and `admit` hold `mutex_`, so one of them is in flight at a time
(`call`). They are cut in three stretches, because the clock moves inside them and
`trigger_burn` takes no lock:

1. `CallBirth`, `CallAdmit`: take the lock and pass the `burning_` test. A call
   that finds the gate burning changes nothing and is no step.
2. `RefuseBurned`, `RefuseRate`, `Sweep`: the flow's burned flag, the rate limit,
   `record_request`, `expire_old_tokens`.
3. `BirthRefused`, `BirthIssued`, `AdmitRefused`, `AdmitExpired`, `Admitted`:
   everything to the return, `reject` with its strike and its burn included.

`RemoveSession`, `Destroy`, `TriggerBurn`, `FinishBurn` and `Tick` (the clock) complete
`Next`. A caller's `trigger_burn` is two steps: `TriggerBurn` sets `burning_` (line 165) and
`FinishBurn` wipes and counts the burn (166-168); `wiping` is the number of callers between
the two. There one call in flight, past its `burning_` test, may still do all the rest of
its work, so an admit may still succeed: what ends admission is the wipe, not the flag.
A token is named by its sequence number, and its HMAC is abstracted to the key
it was made under (`random` before a wipe, `zero` after). `ExternalBurn` says whether
callers use the unlocked `trigger_burn`. Left out: the reject, rate-limit and
per-sector statistics (written, never read by the gate), the values the
operations return, and the wipe of an unlocked `trigger_burn` overlapping the inside of a
stretch, which is a data race on the containers with no defined outcome.

`TokenLedger` is the promise in fifteen lines of actions: tokens are issued
once, outstanding for a limited time, spent once by their own sector, and none
after the ledger closes. `LedgerSpec` in `PredatorGate` is the refinement.

### BurnerBridge, BurnerBridgeProofs

`BurnerBridge` extends `PredatorGate` with the workers of `bench_fullstack.cpp`, one per
sector and named by it. A worker's `pc` follows `tier_worker` and, inside it,
`verify_with_token`: `EnterBirth` (takes the gate's mutex), the gate's own steps,
`BirthSucceeds` or `BirthFails`, `Store` (the copy into `sector_tokens_`), `EnterAdmit`, the
gate's steps again, `AdmitSucceeds` or `AdmitFails`, and `Report`. `TurnedAway` is a call that
finds the gate burning. `on_bolt_fired` and `on_bolt_failed` are `EndLoop`: both
only forget the cached token. Two history variables count refused verifications (`row`
since the sector's last success, `refused` in all). Left out: Monitus' event log,
which the bridge only writes, and the bolt itself (whether it fires and
verifies is open). A refusal by a burned flow is unreachable here, because the
bridge hides `trigger_burn`.

### React, ReactProofs

Each access to `isolated_sectors_`, `halted_sectors_`, `halt_broadcast_` or a
counter is a step, so `handle_misfire` is `CallMisfire`, `CountMisfire`,
`FindIsolated` or `FindNotIsolated`, `Isolate`, `Fire`; `is_sector_safe` is
`CallIsSafe`, `LoadIsolated`, `LoadBroadcast`, `LoadHalted`, `ReturnSafe`;
`handle_cleared` and each override is one. The masks are sets. `BadIds` are the ids
the code rejects because they have no bit. `Overrides` are the manual
operations. They undo what the handlers did, so most promises end with the first of them.
Three history variables: `overrides` (how many there were), `answers` (what callers were told of
an id since its last override) and `wasSafe` (whether a running query has
passed an instant at which its sector was safe).

### AlertRing, AlertFifo, AlertRingProofs

Producers step through `CallPush` (own head), `TestFull` (load of the tail),
`Drop` or `Write` and `Publish`; the drainer through `Poll`, `ActOnPoll`,
`CallDrain`, `TestEmpty` (load of the head), `Read`, `ReleaseSlot`, `Report`
(the exchange of the drop count). `AlertFifo` is the bounded queue with
refusals; `FifoSpec` maps the ring's live slots to its queue, and the refusals on
their way to the counter, in it, or already printed to its refusals.

### Censor, CensorProofs

Nothing in `Censor` locks or starts a thread, so each public call is one step, split
by its outcome: `EnforceUnauthorised`, `EnforceNoRoom`, `EnforcePurgeDenied`,
`EnforceThrows`, `EnforceFires`; `PurgeDenied` (a `purge` in sector 0 is an `enforce`);
`ZeroToleranceDenied`, `ZeroToleranceThrows`, `ZeroTolerance`; `ReportToJudge`,
`EscalateByHand` (a caller's `escalate_to_sit`, with the id `get_case` shows), `Shutdown`. What two entry points share is one operator:
`Noted` (the case found or opened, and relabelled) and `Conclude` (receipt, then
escalation). The ERM is external (`erm_stub.hpp` answers every question with no) and
answers freely. `TokenFlow` and `FuelFlow` are the sets of targets they were told to
cut off; they take numbers, and `std::stoull` throws for the targets in
`Unnumbered`. The count is taken modulo `COUNT_RANGE` (256 in the code). Two history
variables keep apart what was carried out on a target (`hits`) and the zero-tolerance
terminations that only wrote the case before they threw (`thrown`); `claimed`, their sum, is
what a case was written for. `CaseTellsTheHits` says that a record is exactly `claimed`, that
this is `hits` for every id that converts, and that the judge heard of whoever was really
hit; it does not say that an executed case of another id was ever hit, because that is
false (`censor_throws`). `answer` is what the last call returned. Left out: reasons, evidence and times, the calls of the ERM and
of GateStats that are stubs, printing. `shutdown` clears records holding `std::string`
members with `memset`; the model takes that as clearing them.

### Witnesses, WitnessesProofs

The calls share no state, so each is one step and the state is what their callers
hold: the locks `fired`, the coins and flex tokens `minted`, the clock, and the last
`answer`. `FireAnswer`, `MintAnswer`, `VerifyAnswer` and `CoinAnswer` are the early
returns in the code's order, with one `fault` a call (initialisation, clock, or one of
the hashes). A digest is the tuple of the bytes that go into it, so that two digests
are equal only for equal inputs; one record serves the three input structs. `Locks` are
the locks callers may present: one they were given, a wiped one, or one with some fields of
another. `Coins` are all coins and flex tokens, with any time, and any sector and stack among
those of the inputs and the wiped ones: their checks read no digest, so an altered or
hand-written struct is as good as a minted one, and no property says otherwise.
`TakeAnswer` only separates two calls (the caller reads the answer). Times are nanoseconds, and the window's product is
taken modulo `WORD`. Left out: the pins of coins and flex tokens, which are salted with
bytes the mint destroys and which nothing reads.

### Slingshot, ValidatorService, SlingshotProofs

A worker's steps are its accesses to what threads share: `TestRunning` (`running_`),
`ReadSize` (the queue's length under its lock), `Pull` (the batch, under the lock
again), `Measure` (a latency under its lock) and `CountToken` (`validated_count_`). The
owner's `Ignite` sets `running_` and `Start` has the thread running, `Shutdown` clears
the flag and `Join` waits. `QueueToken` may come from anyone at any time. Tokens are
named by their order of arrival, and `latencies` says on which token each latency was
measured. Workers are numbered by their ignition, so that an old one beside a new one
could be told apart (`SizeStillThere` quantifies over all of them). One thread owns the
validator, and it ignites only one that is not running: assigning to a joinable
`std::thread` ends the program. Left out: pre-heating and the CPU frequency, the
verdict of a validation (the code computes and drops it), `avg_latency_us` (it only reads).

`ValidatorService` is what callers are promised, without threads, locks or a queue: tokens
arrive, a service that is on takes them in batches and finishes one before it takes the
next, and one that was told to stop takes at most one more. `ServiceSpec` is the
refinement: `phase` is `running_` and the join, `taken` counts the latencies and the
tokens in hand, `served` is `validated_count_`, and `oneMore` says that a stopping
worker stands between its test of `running_` and its pull.

### CrossValidator, CrossValidatorProofs

The state is what callers hold (`token` objects, the `seed` and `secret` buffers) and the
validator's own `active_honeypots` and `room_5_queue`. `Mint` and `CheckHit` are calls;
`dissolve_to_bait` is `Dissolve` (the hash saved, buffers and object wiped) and `Arm` (the
registration under `honeypot_lock_`), between which another thread may dissolve or check.
A dissolve takes any buffers, since nothing ties them to the token. `Copy` and
`Reseed` are what callers may do to plain memory. `Validates` is `validate`, which
changes nothing and is evaluated by the property in every state. A hash is the
record of its input. The input's text is one string of entropy, "||" and salt, so
two texts may join to the same (`Joined`), and the model keeps that. Two history
variables: `origin` (of what each object was made, and whether it is dissolved) and
`baits`. Left out: times, which the validator writes and never reads, the target room,
the words of an intake.

## 3. Runs

| run | instance | shows |
|---|---|---|
| `gate` | 2 interchangeable sectors, 2 births, 1 token each, 3 strikes, 2 requests a tick, 2 burns by callers, clock to 3; 2,282,483 states | accounting, counters and capacity (`SlotLaw`), strikes, authenticity, no token admitted twice, the expired-slot leak, and what an unlocked burn may do: at most one stranded token, no admission after the wipe |
| `bridge` | 2 workers of 5 rounds (3 verifications each), 1 token a sector, 2 strikes, 2 requests a tick, clock to 3; 320,210 states | `StrikesAreRefusals`, `PresentsOwnToken`, `LeftBehind`, that no worker is told true once the gate burns (`NoneVerifiedAfterBurn`), and what holds of a gate that only its own strikes burn: `BurnIsTotal`, `LedgerSpec` |
| `react` | 3 threads, a sector and a bad id, 3 events, 2 overrides; 830,571 states | `DetainedUntilOverride` and `StrandedUntilReleased` throughout; until the first override `HaltFollowsIsolation`, `AnswersStayTrue`, `SafeVerdictUntilOverride`; and the liveness property `MisfireContained` |
| `react_torn_verdict` | 2 threads, 2 sectors, all overrides | *violated*: a "safe" verdict that held at no instant |
| `alert_ring` | 1 producer, 4 slots, 7 pushes; 3,679 states | FIFO refinement, exclusive slots, exact drop accounting, delivery |
| `alert_ring_two_producers` | 2 producers, 3 pushes | *violated*: an accepted alert is overwritten |
| `censor` | 3 targets (one unnumbered), 2 cases, 1 operation, escalation at 2, a byte of 3 values, manual calls; 204,664 states | the case register, escalation exactly at the threshold, cases that tell what was carried out and what threw, inert refusals, preserved history |
| `censor_sit_full` | 2 targets, 1 operation | *violated*: a case is ESCALATED that no operation was opened for |
| `censor_throws` | 1 unnumbered target | *violated*: an executed case the judge never heard of |
| `witnesses` | 3 inputs, 2 witnesses, a millisecond of 2 ns, words of 4 (the window of 2 ms wraps), clock to 4; 633,748 states | `AcceptedIsGenuine`, `AcceptedInTime`, `GenuineIsAccepted` |
| `slingshot` | batches of 2, 5 tokens, 3 ignitions; 5,583 states | every token once and in order, pulls that find their batch, the refinement of `ValidatorService`, and service as long as nobody shuts down |
| `cross_validator` | 2 token objects, 2 threads, 2 seeds, 2 secrets, 2 seed buffers, 3 texts of which 2 join alike, 2 rooms, 2 mints; 416,061 states | `ValidIffGenuine`, `BaitIsArmed` |

Bounds. The gate's limits are scaled to 1-3 so that each is reached and crossed;
two births suffice for two tokens of one sector to compete for a slot and for
two sectors to disturb each other, and the clock passes both the age limit and
the rate window. With three threads, two handlers and a query (or three
handlers) meet on one sector; two overrides are what it takes to undo an
isolation and a halt, or to raise and clear a broadcast. Seven pushes lap a four-slot ring twice. `MaxBirths`,
`MaxTime`, `MaxBurns`, `MaxLoops`, `MaxEvents`, `MaxOverrides`, `MaxAlerts`, `MaxTokens`, `MaxIgnitions`, `MaxMints`
and `MaxChecks` only stop new work from starting.
In `censor` the table and
the list both fill up, with a target left over, and three hits wrap the count; the
exact values are 128, 32, 3 and 256, and nothing depends on more than their order
(the proofs hold for all of them). `MaxHits` bounds the enforcements of a case and
`MaxId` the calls of `shutdown`. The run uses ADVISE for an enforcement
that converts no id, STUN for one that does, and PURGE for the sector test; the other
modes only differ in which flows they call. Its `VIEW` leaves `answer` out of the
fingerprint: no action reads it, and the two properties that do are about steps, which
TLC still evaluates one by one.
In `witnesses` two locks are enough to mix, and the clock passes the true window by one;
the three inputs differ under pin A, in the cycle, and in sector and stack, with
values no coin may have (sector 7 and stack 0, the stack of a wiped input and of
the benches' locks).
In `slingshot` five tokens make two full batches and a rest, and three ignitions make
two shutdowns that are followed by another worker. In `cross_validator` two mints and
two objects are enough for a second token of the same seeds and for a copy that
outlives a dissolve. The deadlock check is off in these two, as in the gate's and the
bridge's, because callers may stop for good.
Type invariants are theorems, and no run checks them.
Symmetry is used in runs without liveness only.

Fairness. The gate has none: nothing obliges a caller to call. In `React` a thread
inside a call continues (`WF` of `Advance`): no call blocks, so an operating system
that schedules the thread is enough; nobody is obliged to call. In `AlertRing`
only the drainer is fair: `drain_worker` polls in a loop; a producer may stop
between any two of its steps. In `Slingshot` the worker thread, the start of a thread
and the return of a join are fair: the worker holds a lock only for a bounded
time and sleeps at most 100 microseconds. Nobody is obliged to queue, ignite or shut down.

### Disagreements found

* `is_sector_safe` combines three reads (`react.cpp:116`). With a broadcast halt
  being cleared while a handler isolates the sector, it returns true for a
  sector that was unsafe throughout. Until the first override the verdict is sound,
  and that is a theorem.
* The alert ring is "lock-free SPSC" (`monitus.hpp:83`); the seven-tier bench
  pushes from seven threads, and an accepted alert can be lost uncounted.
* The Censor ignores the answer of `escalate_to_sit` (`censor.cpp:188`, `241`): past 32
  operations a case is marked ESCALATED, which `censor.hpp:54` explains as "SIT
  notified", and is never escalated again.
* `enforce_zero_tolerance` writes the case before it terminates the target
  (`censor.cpp:222-232`). `std::stoull` throws for an id that is no number, and the case
  says executed although nothing was done and no receipt was sent, where `censor.hpp:52`
  explains EXECUTED as "Hit at least once". `CaseTellsTheHits` measures it: the record
  overstates by exactly these terminations.

Met while reading, plain from the text and without a run: `handle_cleared` counts
an event and changes no mask, where `test_react.cpp:58` says it "marks sector safe";
without an ERM `enforce` skips both authorisations, where `test_censor.cpp:29` expects
NO_WARRANT (the recorded test log shows it failing); `get_enforcement_count` is a
byte that wraps at 256; `enforce_zero_tolerance` never shows RE_ENGAGED;
`on_bolt_failed` changes nothing at the gate, where `burner_bridge.hpp:14` says
"increment strikes, check burn threshold" (`StrikesAreRefusals` shows what is
counted instead); `undisputed_coin.hpp:65` and `flex_token.hpp:62` call the
checks "Validate Pin A" and "Validate Pin B", and `verify_undisputed` and `verify_flex` read
no pin, as a comment at `undisputed_coin.cpp:172` explains, so that coins and flex tokens
whose time, sector or stack was altered, or which nobody minted, are accepted;
`test_censor.cpp:127-137` expects `enforce_zero_tolerance` to accept TOKEN_FORGE, FUEL_DRAIN
and REPLAY_ATTACK, which `censor.cpp:207-213` denies;
`REPLAY_DETECTED` and `CYCLE_DESYNC` are returned nowhere; and the gate admits 100 requests a second of a sector, which a
worker of the full-stack bench exceeds at once, so that its gate burns.

## 4. Proofs

All theorems hold for arbitrary constants within the modules' assumptions: any
sectors and threads, any limits.

**PredatorGateProofs.** `TypeInvariant` is inductive by itself. `Accounting` proves
`Conservation`, `LiveCountLaw` and `CapacityLaw` together, because the decrement's
floor at zero is harmless only while the count equals the map: the proof groups
the actions by what they do to the map (kept, one added, some removed, emptied)
and treats each once. `NoMissedBurn` splits rejections at the threshold.
`Authenticity` needs `SeenWasDrawn` (what was seen had been drawn from the sequence, so
a new token is unseen). `Stranding` and `AdmissionEndsWithWipe` rest on `BurnedGate`, two facts:
`BurnStarted`, that the gate says burning from the first step of a burn on, so that no call
enters it any more; and `WipedGate`, that a wiped gate is empty, unless a birth then in
flight has returned and left one token. Between the two steps of a burn nothing is
promised of the one call in flight. `SlotsCounted` and `MarkedHoldsSlot` (a token marked
EXPIRED keeps its slot until a burn or a destroy wipes the map and counts it) follow from
the accounting.
`NoTokenAdmittedTwice` needs `SpentIsGone`: what was admitted is not in the map any more and its
number is never drawn again, so that forgetting the seen sequences with the session
cannot bring it back.
`TotalBurn`, `BurnNeedsStrikes` and `ImplementsLedger` assume `ExternalBurn = FALSE`, which is how the
repository uses the gate; without it they are false (that is what
`AtMostOneStranded` measures). Their invariant `BurnInv` adds that nothing is in
flight in a burning gate and nobody is inside `trigger_burn`.

The model writes the pop loop of `check_rate_limit` as the requests that are `Recent`;
the loop stops at the first recent one, which is the same only in an ordered queue.
`RecentForgets` proves that it is, `RateIsHeld` that every queue stays ordered and within
`MAX_RATE_REQUESTS`, and `RateIsRemembered` that only requests older than the window are
forgotten while the flow exists and one more is recorded only below the limit. Together
they say that no window of a flow holds more requests let through than the limit.

**BurnerBridgeProofs.** The lemma `BridgeImplementsGate` maps every step of the bridge to a step of
the gate or a stutter; it needs that cached tokens were drawn from the gate's
sequence. The gate's theorems then hold inside the bridge (`BridgeAccounts` and `BridgeAdmitsOnce` are two).
Those that assume `ExternalBurn = FALSE` hold there without it: no step of the bridge is a
burn by a caller (`NoOutsideBurn`), hence `BridgeBurnIsTotal`, `BridgeImplementsLedger` and
`BridgeBurnNeedsStrikes`.
`OwnTokens` adds that the call in flight is the one its worker waits for.
`StrikesCountRefusals` adds that nothing is in flight in a burning gate, and pairs
each rejection with the refusal the worker sees. `RefusalsLeaveOneToken` counts the
tokens in the gate outside `Current` (`LeftBound`): a step shrinks that set, or it is a
refusal and adds the one token of its worker; an admission takes the worker's own
token out, which is `PresentsOwnToken`. `TrueMeansSpent` and `BurnLocksEveryoneOut` say what a
worker may conclude from true (its own token was spent, for its sector), and that no
worker is told true once the gate burns: nothing is in flight in a burning gate, and
nothing enters it.

**ReactProofs.** `Typing` and `Detention` hold with overrides. The three others
promise something until the first override (`overrides = 0`), and use `Containment`, which also holds until then: besides the two properties themselves,
a handler at `fire` has isolated its sector (otherwise its halt would precede the
isolation) and no broadcast is in force. `VerdictsHold` adds `SeenSafe`: a query past
its first load passed, at that load, an instant at which its sector was safe,
since halts follow isolation. `ReturnLeavesHalting` is the safety half of
`MisfireContained`: at the return of a handler, turned away or not, its sector is halted
or another handler stands at the halt. `ResetAloneStrands` holds with all overrides: a sector
that was reset and not released, with no handler past the check, is never halted
again, because nothing but a release clears the bit that turns handlers away.

**CensorProofs.** The invariant `IInv` joins the register (one case per target, ids
growing with the slots and below the counter) with what every single case tells
of its target's `claimed`, and that a target without a case was never written for. `CasesTell`
adds `Receipted`: a convertible id never throws, and each call that carries something out
ends in `Conclude`, which sends the receipt. The calls
reach it through two lemmas, for a case written before a refusal or an
exception and for one that `Conclude` stores, so that each action is one short
step. Escalation survives the wrap of the count because the test is `>=` and the
flag is never reset: the count reaches the threshold before it can wrap
(`CASE_ESCALATE_AT < COUNT_RANGE`, an assumption). `Typing` uses the same invariant for
the slot a call writes to. `StoreShape` says what the table is after a store, and with it
`HistoryKept` and `RefusalsInert` compare each slot before and after every kind of call.
`SitAgrees` pairs operations with cases: as nothing is forgotten and `claimed` only grows, an
old operation keeps its case (`StillOpenedFor`); a step that opens none escalates none,
unless the list is full (`ListUnmoved`), and one that opens one escalates just that case
(`ListAppended`), whose id no older operation can have, since its case was not escalated. `EscalatedUntilFull`
delimits the finding of `censor_sit_full`: as long as the list has room, every case marked
ESCALATED has its operation.

**WitnessesProofs.** A caller may have put together any fields, but the bolt among
them was fired or is zero (`BoltWasFired`), and a bolt that agrees with the fields
around it names the call that made all of them (`BoltTells`): that is `OnlyGenuine`.
`OnlyInTime` needs only that a wrapped product is no larger than the true one
(`WrapShrinks`), for coins and flex tokens of any content too, and `AllGenuine` that what
the makers bind is what the checks recompute (of coins: time, sector and stack). `OnlyGenuine` is
about locks alone. They assume injective digests and nothing of the inputs but that
sector and stack are numbers.

**AlertRingProofs.** `TypeInvariant` and `PushesAccounted` hold for any number of
producers; they need `Numbered` (pushes in flight have numbers of their own, which no
accepted push had), so that each publication adds one to the accepted. The rest
assumes one producer, without which `SlotsNotShared` and the queue are false (that is
the run `alert_ring_two_producers`), and rests on `Apart`: producer and drainer each know
their own end of the ring, and neither touches a slot before having seen room, or
an entry, that the other cannot take away. `RingIsFifo` shows that a publication
appends to the sequence of pending slots (`PublishAppends`), a release takes its head
(`ReleaseTakes`), a write at the head slot changes nothing pending (`HeadIsFree`), and
a refusal happens at `ALERT_RING_SIZE - 1` entries. The arithmetic modulo the ring's
size is in `SuccIs`, `DistanceIs`, `DistanceSteps`, `AtIs` and `AtWalks`. The ring's size
may be any power of two above 1.

**SlingshotProofs.** `IInv` joins the two state properties with `OneWorker`: only the worker
of the last ignition is anywhere but at its start or end, it holds tokens from its
pull to the last count, and it and the owner meet only in four combinations (`Meeting`).
That is why a length read under one lock is still a lower bound under the next: tokens are
only added meanwhile. `ShutdownIsQuiet` follows, since an idle owner of a stopped
validator meets no worker. `ImplementsService` maps the steps one by one: a pull takes a
batch, which needs an empty hand and that the pull finds what it measured
(`SizeStillThere`); a measured token only moves from the hand to the latencies; a count
serves one; clearing `running_` stops the service, and leaves it one more batch just when the
worker has passed its test; and the join returns only from a worker with an empty hand.

**CrossValidatorProofs.** `OnlyGenuineValidates` needs `AllKept`: every object, copy or
original, still has the hashes of its origin, or the flags and the empty flex hash of a
dissolved one. A wiped flex hash equals no digest, so no buffers can make it
validate, and digests are injective. `BaitIsArmed` is inductive by itself.

**Only model-checked**: the liveness properties `MisfireContained`, `AcceptedIsDelivered`
and `TokensServed` (fairness and `ENABLED` are beyond the prover). Every other property of
a passing run is a theorem.

**Only proved**: `RateHeld`, `RateRemembered`, `VerifiedIsSpent` and
`HandledMeansHalting` are stated in the proof modules, and `OnlyStrikesBurn` and
`QuietAfterShutdown` in the models; no run checks them, because stronger or nearer properties
of the same runs do (`StrikesAreRefusals`, `ServiceSpec`, `MisfireContained`) or because the
theorem says more than an instance could.

## 5. Not modelled

* **The event ring of Monitus**: bridge and workers write it, and nothing reads an entry
  back; the counters are read after all calls have ended, to print or compare them.
  Racing writers share plain memory there, whose contents no code depends on.
* **Fuel tank, line and protocol**: accessors over plain fields that no component and no
  test calls, so that there is no sequence of calls to check. `draw` subtracts without a
  test, and no source says who must make one.
* **Engine, EightCV, sectors, `modules/`**: stubs that set a flag.
* **RAMWiper, display, build output**: system calls, a declaration, generated files.
* Of what is modelled: expiry in `CrossValidator` (`is_expired` has no caller), the unlocked
  reference `get_intake_queue` hands out (no caller either), polls of the alert ring from
  a third thread, the bench's stop flag and its last drain (the modelled drainer polls for
  ever, so that delivery is what a running drain thread guarantees), and the wipe of
  `trigger_burn` inside a stretch of the gate, a data race with no defined outcome.

## 6. Plan

All modules of the plan are written, and every safety property of their passing runs
is proved. What is left for the proofs is what callers may conclude from several answers
together, as `TrueMeansSpent` does for the bridge: the same for the Censor's receipts and for
the witnesses of one cycle. The unmodelled parts become worth a module when something
calls them.
