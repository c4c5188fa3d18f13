---------------------------- MODULE VUserShare ----------------------------
(***************************************************************************)
(* What Scheduler.Allocate (internal/controller/scheduler.go) promises:    *)
(* the assignments it can return for a total and a set of online agents.   *)
(* Which agents get the odd VUsers is open, because OnlineAgents walks a   *)
(* Go map.                                                                 *)
(***************************************************************************)
EXTENDS Integers, FiniteSets

(* Mutant: every agent is rounded up when there is a remainder.            *)
AllocationsRoundedUp(total, S) ==
    {[a \in S |-> IF total % Cardinality(S) > 0 THEN total \div Cardinality(S) + 1
                  ELSE total \div Cardinality(S)]}

Allocations(total, S) ==
    {[a \in S |-> IF a \in more THEN total \div Cardinality(S) + 1
                  ELSE total \div Cardinality(S)] :
        more \in {T \in SUBSET S : Cardinality(T) = total % Cardinality(S)}}
=============================================================================
