----------------------------- MODULE MCWitnesses -----------------------------
(* Instance of Witnesses for TLC: an input, one of another loop and        *)
(* machine for the same sector and stack, and one whose sector and stack   *)
(* no coin may have (a lock may: the benches fire with stack 0).           *)
EXTENDS Witnesses

Base == [secret |-> "k", rest |-> "d1", cycle |-> 1, entropy |-> "e", sector |-> 2, stack |-> 1]

MCInputs == {Base, [Base EXCEPT !.rest = "d2", !.cycle = 2], [Base EXCEPT !.sector = 7, !.stack = 0]}

\* What a mixed lock takes from another: a pin, the bolt, or the time and
\* the pin bound to it, which only the bolt can tell.
MCMixes == {{"pin_a"}, {"bolt"}, {"timestamp", "pin_b"}}
=============================================================================
