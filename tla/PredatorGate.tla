------------------------------ MODULE PredatorGate ------------------------------
(***************************************************************************)
(* The token gate of src/core_engine/src/burner/predator_gate.cpp.         *)
(*                                                                         *)
(* A token is born for a sector, may be admitted once by that sector while *)
(* it is young enough, and is otherwise expired or wiped.  Rejections are  *)
(* strikes against the sector; the third strike burns the whole gate.      *)
(*                                                                         *)
(* birth_token and admit run under mutex_, so at most one of them is in    *)
(* flight; `call' is that one.  They are split where something that does   *)
(* not take the mutex can come between two of their statements: the clock, *)
(* which the code reads again at every use, and the public trigger_burn,   *)
(* which takes no lock.  The three stretches are                           *)
(*   lock and the burning_ test / fuel, rate limit and expire_old_tokens / *)
(*   the rest.                                                             *)
(* A caller's trigger_burn is two steps: burning_ is set, and later the    *)
(* wipe is made and counted; between them a call in flight may do all the  *)
(* rest of its work.  A wipe that overlaps the inside of a stretch is a    *)
(* data race on the containers and is not modelled.                        *)
(*                                                                         *)
(* Definitions named Mut... are deliberate faults, used by no action: they *)
(* replace the definition that follows to confirm the properties notice.   *)
(***************************************************************************)
EXTENDS Naturals, Sequences, FiniteSets, Functions

CONSTANTS
  Sectors,                \* the sector ids callers use
  MAX_AGE,                \* TOKEN_MAX_AGE_NS, in ticks
  MAX_TOKENS_PER_SECTOR,
  MAX_STRIKES,
  MAX_RATE_REQUESTS,
  RATE_WINDOW,            \* RATE_WINDOW_NS, in ticks
  ExternalBurn,           \* may a caller use the public trigger_burn?
  NoCall,                 \* no operation holds mutex_
  MaxBirths,              \* bound: births called while sequence is below it
  MaxTime,                \* bound: last tick of the clock
  MaxBurns                \* bound: external burns while fewer are counted or under way

ASSUME GateAssumption ==
  /\ MAX_AGE \in Nat /\ MAX_TOKENS_PER_SECTOR \in Nat
  /\ MAX_STRIKES \in Nat \ {0}
  /\ MAX_RATE_REQUESTS \in Nat /\ RATE_WINDOW \in Nat
  /\ ExternalBurn \in BOOLEAN
  /\ MaxBirths \in Nat /\ MaxTime \in Nat /\ MaxBurns \in Nat

VARIABLES
  now,        \* steady_clock
  tokens,     \* tokens_: token value |-> Token; a value is named by its sequence
  live,       \* live_count_ (an absent entry is 0)
  fuel,       \* fuel_flows_: created on a sector's first call
  seen,       \* seen_sequences_ (an absent entry is empty)
  key,        \* gate_key_
  burning,    \* burning_
  wiping,     \* callers inside trigger_burn: burning_ set, the wipe still to come
  sequence,   \* sequence_
  stats,      \* the token and burn counters of GateStats
  call,       \* the operation that holds mutex_
  spent       \* history: <<token, sector it was admitted for>>

vars == <<now, tokens, live, fuel, seen, key, burning, wiping, sequence, stats, call, spent>>

-----------------------------------------------------------------------------
(* Types.  CONSUMED and BURNED are set only on entries that the same       *)
(* stretch erases, so the map never shows them.                            *)

Time == 0..MaxTime
Keys == {"random", "zero"}
Token == [sector : Sectors, born : Time, status : {"LIVE", "EXPIRED"}, key : Keys]
FuelFlow == [strikes : Nat, burned : BOOLEAN, requests : Seq(Time)]
GateStats == [born : Nat, admitted : Nat, expired : Nat, wiped : Nat, burns : Nat]
Call == [op : {"birth", "admit"}, sector : Sectors, token : Nat, at : {"called", "swept"}]

ASSUME NoCallAssumption == NoCall \notin Call

TypeOK ==
  /\ now \in Time
  /\ DOMAIN tokens \subseteq 0..(sequence - 1)
  /\ tokens \in [DOMAIN tokens -> Token]
  /\ live \in [Sectors -> Nat]
  /\ DOMAIN fuel \subseteq Sectors
  /\ fuel \in [DOMAIN fuel -> FuelFlow]
  /\ seen \in [Sectors -> SUBSET Nat]
  /\ key \in Keys
  /\ burning \in BOOLEAN
  /\ wiping \in Nat
  /\ sequence \in Nat
  /\ stats \in GateStats
  /\ call \in Call \cup {NoCall}
  /\ spent \subseteq Nat \X Sectors

-----------------------------------------------------------------------------
(* What the operations read and compute.                                   *)

NewFuel == [strikes |-> 0, burned |-> FALSE, requests |-> <<>>]

\* get_or_create_fuel: the entry of sector s, or the one emplaced for it
FuelOf(s) == IF s \in DOMAIN fuel THEN fuel[s] ELSE NewFuel

\* fuel_flows_ with the entry of sector s set to f
FuelWith(s, f) == [x \in DOMAIN fuel \cup {s} |-> IF x = s THEN f ELSE fuel[x]]

\* check_rate_limit pops from the front every time before now - RATE_WINDOW;
\* the deque is in time order, so as many leave as there are such times
Recent(q) ==
  SubSeq(q, Cardinality({i \in 1..Len(q) : q[i] + RATE_WINDOW < now}) + 1, Len(q))

\* Token::is_live
MutIsLiveAtAnyAge(k) == tokens[k].status = "LIVE"
IsLive(k) == tokens[k].status = "LIVE" /\ now <= tokens[k].born + MAX_AGE

\* the entries expire_old_tokens erases
MutStaleOrMarked == {k \in DOMAIN tokens : ~IsLive(k)}
Stale == {k \in DOMAIN tokens : tokens[k].status = "LIVE" /\ ~IsLive(k)}

\* decrement_live_count called n times: it never goes below 0
Decremented(count, n) == IF count > n THEN count - n ELSE 0

MutLiveForgotten(K) == live

\* live_count_ after one decrement for the sector of each token in K
LiveWithout(K) ==
  [s \in Sectors |-> Decremented(live[s], Cardinality({k \in K : tokens[k].sector = s}))]

\* birth_token's capacity test
HasRoom(s) == live[s] < MAX_TOKENS_PER_SECTOR

\* sequence_++
NextSequence == sequence + 1

\* reject's test of the strike it just counted
MutLateStrike(n) == n > MAX_STRIKES
LastStrike(n) == n >= MAX_STRIKES

\* admit's lookup and sector test
Found(s, k) == k \in DOMAIN tokens /\ tokens[k].sector = s

\* admit's last two tests: not replayed, and the HMAC verifies under the gate's key
Authentic(s, k) == k \notin seen[s] /\ tokens[k].key = key

-----------------------------------------------------------------------------
(* Pieces that several operations share.                                   *)

MutWipeButKeepFlows(toks, flows) ==
  /\ tokens' = <<>>
  /\ live' = [s \in Sectors |-> 0]
  /\ key' = "zero"
  /\ fuel' = flows

MutWipeKeyOnly(toks, flows) ==
  /\ tokens' = toks /\ live' = live
  /\ key' = "zero"
  /\ fuel' = [s \in DOMAIN flows |-> [flows[s] EXCEPT !.burned = TRUE]]

\* burn_all_tokens, on the map toks and the flows flows
WipeAll(toks, flows) ==
  /\ tokens' = <<>>
  /\ live' = [s \in Sectors |-> 0]
  /\ key' = "zero"
  /\ fuel' = [s \in DOMAIN flows |-> [flows[s] EXCEPT !.burned = TRUE]]

MutBurnCountedAfterClear(toks, flows) ==
  /\ burning' = TRUE
  /\ WipeAll(toks, flows)
  /\ stats' = [stats EXCEPT !.burns = @ + 1]

MutBurnFlagOnly(toks, flows) ==
  /\ burning' = TRUE
  /\ tokens' = toks /\ fuel' = flows
  /\ stats' = [stats EXCEPT !.burns = @ + 1]
  /\ UNCHANGED <<live, key>>

\* trigger_burn as reject calls it, under the mutex
Burn(toks, flows) ==
  /\ burning' = TRUE
  /\ WipeAll(toks, flows)
  /\ stats' = [stats EXCEPT !.wiped = @ + Cardinality(DOMAIN toks), !.burns = @ + 1]

\* reject: a strike against sector s, whose flow is f; the last strike burns.
\* toks is tokens_ as the caller leaves it.
Reject(s, f, toks) ==
  LET struck == [f EXCEPT !.strikes = @ + 1]
  IN  IF LastStrike(struck.strikes)
      THEN Burn(toks, FuelWith(s, struck))
      ELSE /\ tokens' = toks
           /\ fuel' = FuelWith(s, struck)
           /\ UNCHANGED <<live, key, burning, stats>>

\* the operation returns and its lock_guard unlocks
Return == call' = NoCall

\* an operation takes the mutex and passes the burning_ test
MutMutexFree == call = NoCall
Enters == call = NoCall /\ ~burning

Running(op, at) == call # NoCall /\ call.op = op /\ call.at = at

-----------------------------------------------------------------------------
(* birth_token and admit: take the mutex, return at once if burning_.      *)
(* (A call that finds burning_ set changes nothing and is left out.)       *)

CallBirth(s) ==
  /\ Enters
  /\ sequence < MaxBirths
  /\ call' = [op |-> "birth", sector |-> s, token |-> sequence, at |-> "called"]
  /\ UNCHANGED <<now, tokens, live, fuel, seen, key, burning, sequence, stats, wiping, spent>>

\* the value presented may be any token ever born, or (k = sequence) none
CallAdmit(s, k) ==
  /\ Enters
  /\ call' = [op |-> "admit", sector |-> s, token |-> k, at |-> "called"]
  /\ UNCHANGED <<now, tokens, live, fuel, seen, key, burning, sequence, stats, wiping, spent>>

-----------------------------------------------------------------------------
(* The stretch both begin with: burned flow, rate limit, sweep.            *)

\* reachable only if the wipe of an external burn came after the burning_ test
RefuseBurned ==
  /\ call # NoCall /\ call.at = "called"
  /\ FuelOf(call.sector).burned
  /\ Reject(call.sector, FuelOf(call.sector), tokens)
  /\ Return
  /\ UNCHANGED <<now, seen, sequence, wiping, spent>>

RefuseRate ==
  /\ call # NoCall /\ call.at = "called"
  /\ LET f == FuelOf(call.sector) IN
       /\ ~f.burned
       /\ Len(Recent(f.requests)) >= MAX_RATE_REQUESTS
       /\ Reject(call.sector, [f EXCEPT !.requests = Recent(@)], tokens)
  /\ Return
  /\ UNCHANGED <<now, seen, sequence, wiping, spent>>

\* record_request, expire_old_tokens
Sweep ==
  /\ call # NoCall /\ call.at = "called"
  /\ LET f == FuelOf(call.sector) IN
       /\ ~f.burned
       /\ Len(Recent(f.requests)) < MAX_RATE_REQUESTS
       /\ fuel' = FuelWith(call.sector, [f EXCEPT !.requests = Append(Recent(@), now)])
  /\ tokens' = Restrict(tokens, DOMAIN tokens \ Stale)
  /\ live' = LiveWithout(Stale)
  /\ stats' = [stats EXCEPT !.expired = @ + Cardinality(Stale)]
  /\ call' = [call EXCEPT !.at = "swept"]
  /\ UNCHANGED <<now, seen, key, burning, sequence, wiping, spent>>

-----------------------------------------------------------------------------
(* The rest of birth_token.                                                *)

\* NO_FUEL
BirthRefused ==
  /\ Running("birth", "swept")
  /\ ~HasRoom(call.sector)
  /\ Reject(call.sector, FuelOf(call.sector), tokens)
  /\ Return
  /\ UNCHANGED <<now, seen, sequence, wiping, spent>>

BirthIssued ==
  /\ Running("birth", "swept")
  /\ HasRoom(call.sector)
  /\ LET token == [sector |-> call.sector, born |-> now, status |-> "LIVE", key |-> key]
     IN  tokens' = [k \in DOMAIN tokens \cup {sequence} |->
                      IF k = sequence THEN token ELSE tokens[k]]
  /\ live' = [live EXCEPT ![call.sector] = @ + 1]
  /\ sequence' = NextSequence
  /\ stats' = [stats EXCEPT !.born = @ + 1]
  /\ Return
  /\ UNCHANGED <<now, fuel, seen, key, burning, wiping, spent>>

-----------------------------------------------------------------------------
(* The rest of admit.                                                      *)

\* NOT_FOUND, WRONG_SECTOR; REPLAYED and BAD_HMAC for a live token
AdmitRefused ==
  /\ Running("admit", "swept")
  /\ Found(call.sector, call.token) =>
       IsLive(call.token) /\ ~Authentic(call.sector, call.token)
  /\ Reject(call.sector, FuelOf(call.sector), tokens)
  /\ Return
  /\ UNCHANGED <<now, seen, sequence, wiping, spent>>

\* EXPIRED: the entry is marked and stays, and keeps its share of live_count_
AdmitExpired ==
  /\ Running("admit", "swept")
  /\ Found(call.sector, call.token) /\ ~IsLive(call.token)
  /\ Reject(call.sector, FuelOf(call.sector),
            [tokens EXCEPT ![call.token].status = "EXPIRED"])
  /\ Return
  /\ UNCHANGED <<now, seen, sequence, wiping, spent>>

MutAdmittedStaysInMap ==
  /\ Running("admit", "swept")
  /\ Found(call.sector, call.token) /\ IsLive(call.token)
  /\ Authentic(call.sector, call.token)
  /\ seen' = [seen EXCEPT ![call.sector] = @ \cup {call.token}]
  /\ fuel' = FuelWith(call.sector, [FuelOf(call.sector) EXCEPT !.strikes = 0])
  /\ stats' = [stats EXCEPT !.admitted = @ + 1]
  /\ live' = LiveWithout({call.token})
  /\ spent' = spent \cup {<<call.token, call.sector>>}
  /\ Return
  /\ UNCHANGED <<now, tokens, key, burning, sequence, wiping>>

MutAdmittedKeepsStrikes ==
  /\ Running("admit", "swept")
  /\ Found(call.sector, call.token) /\ IsLive(call.token)
  /\ Authentic(call.sector, call.token)
  /\ seen' = [seen EXCEPT ![call.sector] = @ \cup {call.token}]
  /\ stats' = [stats EXCEPT !.admitted = @ + 1]
  /\ live' = LiveWithout({call.token})
  /\ tokens' = Restrict(tokens, DOMAIN tokens \ {call.token})
  /\ spent' = spent \cup {<<call.token, call.sector>>}
  /\ Return
  /\ UNCHANGED <<now, fuel, key, burning, sequence, wiping>>
Admitted ==
  /\ Running("admit", "swept")
  /\ Found(call.sector, call.token) /\ IsLive(call.token)
  /\ Authentic(call.sector, call.token)
  /\ seen' = [seen EXCEPT ![call.sector] = @ \cup {call.token}]
  /\ fuel' = FuelWith(call.sector, [FuelOf(call.sector) EXCEPT !.strikes = 0])
  /\ stats' = [stats EXCEPT !.admitted = @ + 1]
  /\ live' = LiveWithout({call.token})
  /\ tokens' = Restrict(tokens, DOMAIN tokens \ {call.token})
  /\ spent' = spent \cup {<<call.token, call.sector>>}
  /\ Return
  /\ UNCHANGED <<now, key, burning, sequence, wiping>>

-----------------------------------------------------------------------------
(* The other operations, and the clock.                                    *)

RemoveSession(s) ==
  /\ call = NoCall
  /\ fuel' = Restrict(fuel, DOMAIN fuel \ {s})
  /\ seen' = [seen EXCEPT ![s] = {}]
  /\ UNCHANGED <<now, tokens, live, key, burning, sequence, stats, call, wiping, spent>>

\* destroy leaves burning_ as it is: the gate can be used afterwards
Destroy ==
  /\ call = NoCall
  /\ WipeAll(tokens, <<>>)
  /\ stats' = [stats EXCEPT !.wiped = @ + Cardinality(DOMAIN tokens)]
  /\ seen' = [s \in Sectors |-> {}]
  /\ UNCHANGED <<now, burning, sequence, call, wiping, spent>>

\* the public trigger_burn takes no mutex, so it may come while a call is in flight:
\* first it sets burning_
TriggerBurn ==
  /\ ExternalBurn /\ stats.burns + wiping < MaxBurns
  /\ burning' = TRUE
  /\ wiping' = wiping + 1
  /\ UNCHANGED <<now, tokens, live, fuel, seen, key, sequence, stats, call, spent>>

\* then it wipes, and counts the burn
FinishBurn ==
  /\ wiping > 0
  /\ Burn(tokens, fuel)
  /\ wiping' = wiping - 1
  /\ UNCHANGED <<now, seen, sequence, call, spent>>

Tick ==
  /\ now < MaxTime
  /\ now' = now + 1
  /\ UNCHANGED <<tokens, live, fuel, seen, key, burning, sequence, stats, call, wiping, spent>>

-----------------------------------------------------------------------------

Init ==
  /\ now = 0
  /\ tokens = <<>> /\ live = [s \in Sectors |-> 0]
  /\ fuel = <<>> /\ seen = [s \in Sectors |-> {}]
  /\ key = "random" /\ burning = FALSE /\ wiping = 0 /\ sequence = 0
  /\ stats = [born |-> 0, admitted |-> 0, expired |-> 0, wiped |-> 0, burns |-> 0]
  /\ call = NoCall
  /\ spent = {}

Next ==
  \/ \E s \in Sectors : CallBirth(s)
  \/ \E s \in Sectors : \E k \in 0..sequence : CallAdmit(s, k)
  \/ RefuseBurned \/ RefuseRate \/ Sweep
  \/ BirthRefused \/ BirthIssued
  \/ AdmitRefused \/ AdmitExpired \/ Admitted
  \/ \E s \in Sectors : RemoveSession(s)
  \/ Destroy \/ TriggerBurn \/ FinishBurn \/ Tick

Spec == Init /\ [][Next]_vars

-----------------------------------------------------------------------------
(* Properties.                                                             *)

TokensOf(s) == {k \in DOMAIN tokens : tokens[k].sector = s}

\* No token is lost or counted twice: every token born has been admitted, expired
\* or wiped, or is still in tokens_; each is counted by the statement that removes it,
\* whatever burns, sweeps and marks come between.
Conservation ==
  stats.born = stats.admitted + stats.expired + stats.wiped + Cardinality(DOMAIN tokens)

\* live_count_ is the number of a sector's entries in tokens_, counting the ones marked
\* EXPIRED: the counter and the map, updated apart, never drift, and
\* decrement_live_count never meets its floor.
LiveCountLaw == \A s \in Sectors : live[s] = Cardinality(TokensOf(s))

\* MAX_TOKENS_PER_SECTOR bounds the map itself, not only the counter that is tested.
CapacityLaw == \A s \in Sectors : Cardinality(TokensOf(s)) <= MAX_TOKENS_PER_SECTOR

\* The counter that birth_token tests tells the map, and so the limit holds of the map.
SlotLaw == LiveCountLaw /\ CapacityLaw

\* A sector with MAX_STRIKES strikes exists only in a burning gate: whichever statement
\* counted the last strike, and however requests, removals and expiries are
\* interleaved, the burn was not missed.
StrikesBelowBurn ==
  ~burning => \A s \in DOMAIN fuel : fuel[s].strikes < MAX_STRIKES

\* A burn started from reject is total: no token of any sector, no capacity in use, no
\* key material and no usable flow survive it, and no flow is burned without it.
BurnIsTotal ==
  /\ burning => /\ DOMAIN tokens = {}
                /\ \A s \in Sectors : live[s] = 0
                /\ key = "zero"
  /\ \A s \in DOMAIN fuel : fuel[s].burned <=> burning

\* Every token in the map would pass admit's replay and HMAC tests, so REPLAYED and
\* BAD_HMAC are never the reason a token the gate holds is refused: no wipe of the key,
\* and no session removal, separates a token from the key or the history it is tested by.
HeldTokensAuthentic ==
  \A k \in DOMAIN tokens : \A s \in Sectors : Authentic(s, k)

\* Nothing is admitted once a burn has wiped the gate, even by an admit that passed the
\* burning_ test before an unlocked trigger_burn ran, or out of a birth_token that it
\* overtook.  (Between the two steps of trigger_burn that one admit still succeeds.)
NoAdmissionAfterWipe == [][stats.burns > 0 => UNCHANGED spent]_vars

\* A token marked EXPIRED by admit, because it aged between the sweep and the age test,
\* is never swept: it holds its entry, and its share of the sector's capacity, until a
\* burn or destroy wipes tokens_ as a whole and counts it.
ExpiredHoldsSlot ==
  [][\A k \in DOMAIN tokens :
       tokens[k].status = "EXPIRED" =>
         \/ k \in DOMAIN tokens'
         \/ /\ key' = "zero" /\ DOMAIN tokens' = {}
            /\ stats'.wiped = stats.wiped + Cardinality(DOMAIN tokens)]_vars

\* Every admission spends a token of its own, for one sector: no value is admitted twice,
\* even after remove_session has forgotten that it was seen, after destroy, or around an
\* unlocked trigger_burn.
AdmittedOnce ==
  /\ stats.admitted = Cardinality(spent)
  /\ \A p, q \in spent : p[1] = q[1] => p = q

\* The gate burns itself only for a sector that reached MAX_STRIKES with no admission
\* in between.
OnlyStrikesBurn ==
  [][~burning /\ burning' =>
       \E s \in DOMAIN fuel' : fuel'[s].strikes >= MAX_STRIKES]_vars

\* After an unlocked trigger_burn has wiped, tokens_ holds at most the one token of the
\* birth_token it overtook; that token stays in a gate that never sweeps again.
AtMostOneStranded == stats.burns > 0 => Cardinality(DOMAIN tokens) <= 1

\* The gate, used through birth_token and admit alone, keeps the ledger's promise.
Outstanding ==
  {[token |-> k, sector |-> tokens[k].sector, born |-> tokens[k].born] :
     k \in {j \in DOMAIN tokens : tokens[j].status = "LIVE"}}

Ledger == INSTANCE TokenLedger WITH
  time <- now, next <- sequence, outstanding <- Outstanding, closed <- burning

LedgerSpec == Ledger!Spec

=============================================================================
