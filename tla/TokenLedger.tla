------------------------------ MODULE TokenLedger ------------------------------
(***************************************************************************)
(* What the token gate promises its callers, with no fuel, strikes, locks  *)
(* or maps: a token is issued once, spent at most once, by the sector it   *)
(* was issued to, no later than MAX_AGE after its birth; it may be         *)
(* withdrawn unspent at any time; once the ledger closes nothing is        *)
(* outstanding and nothing is issued or spent again.                       *)
(***************************************************************************)
EXTENDS Naturals

CONSTANTS Sectors, MAX_AGE

VARIABLES
  time,
  next,         \* tokens issued so far: 0..(next - 1)
  outstanding,  \* set of [token, sector, born]
  spent,        \* set of <<token, sector>>
  closed

vars == <<time, next, outstanding, spent, closed>>

Init ==
  time = 0 /\ next = 0 /\ outstanding = {} /\ spent = {} /\ closed = FALSE

Issue(s) ==
  /\ ~closed
  /\ outstanding' = outstanding \cup {[token |-> next, sector |-> s, born |-> time]}
  /\ next' = next + 1
  /\ UNCHANGED <<time, spent, closed>>

Spend(t) ==
  /\ ~closed
  /\ time <= t.born + MAX_AGE
  /\ outstanding' = outstanding \ {t}
  /\ spent' = spent \cup {<<t.token, t.sector>>}
  /\ UNCHANGED <<time, next, closed>>

Withdraw ==
  /\ outstanding' \subseteq outstanding
  /\ UNCHANGED <<time, next, spent, closed>>

Close ==
  /\ closed' = TRUE /\ outstanding' = {}
  /\ UNCHANGED <<time, next, spent>>

Tick == time' = time + 1 /\ UNCHANGED <<next, outstanding, spent, closed>>

Next ==
  \/ \E s \in Sectors : Issue(s)
  \/ \E t \in outstanding : Spend(t)
  \/ Withdraw \/ Close \/ Tick

Spec == Init /\ [][Next]_vars

=============================================================================
