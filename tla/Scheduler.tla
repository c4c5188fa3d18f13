----------------------------- MODULE Scheduler -----------------------------
(***************************************************************************)
(* Scheduler.Allocate (internal/controller/scheduler.go) as the loop it    *)
(* is, over the slice of agents that OnlineAgents returned; the slice is   *)
(* represented by its length: nothing else of an agent is looked at, not   *)
(* even the MaxVUsers it registered with.                                  *)
(***************************************************************************)
EXTENDS VUserShare

CONSTANTS Totals,     \* totalVUsers of a request
          MaxAgents   \* bound on the number of online agents

ASSUME TotalsAssumption == Totals \subseteq Nat
ASSUME MaxAgentsAssumption == MaxAgents \in Nat

VARIABLES pc,          \* "looping", "returned" or "refused"
          total,       \* totalVUsers
          n,           \* len(agents)
          i,           \* loop index
          assignments, \* AssignedVUsers of the positions done so far
          given        \* history: VUsers handed out so far

vars == <<pc, total, n, i, assignments, given>>

Init ==
    /\ total \in Totals
    /\ n \in 0 .. MaxAgents
    /\ pc = IF n = 0 THEN "refused" ELSE "looping"
    /\ i = 0
    /\ assignments = [p \in {} |-> 0]
    /\ given = 0

MoreAgents == i < n

(* Mutant: one agent too many gets an odd VUser.                           *)
ShareOneTooMany(p) ==
    IF p <= total % n THEN total \div n + 1 ELSE total \div n

(* What position p of agents is assigned.                                  *)
Share(p) == IF p < total % n THEN total \div n + 1 ELSE total \div n

(* One round of the loop: position i of agents gets its share.             *)
Assign ==
    /\ pc = "looping" /\ MoreAgents
    /\ assignments' = [p \in 0 .. i |->
                          IF p = i THEN Share(i) ELSE assignments[p]]
    /\ given' = given + Share(i)
    /\ i' = i + 1
    /\ UNCHANGED <<pc, total, n>>

Return ==
    /\ pc = "looping" /\ ~MoreAgents
    /\ pc' = "returned"
    /\ UNCHANGED <<total, n, i, assignments, given>>

Next == Assign \/ Return

Spec == Init /\ [][Next]_vars
-----------------------------------------------------------------------------
TypeOK ==
    /\ pc \in {"looping", "returned", "refused"}
    /\ total \in Totals
    /\ n \in 0 .. MaxAgents
    /\ i \in 0 .. n
    /\ assignments \in [0 .. i - 1 -> Nat]
    /\ given \in Nat
    /\ pc = "refused" <=> n = 0

(* Every VUser requested is assigned, and none twice, whatever the number  *)
(* of agents that are online.                                              *)
NothingLost == pc = "returned" => given = total

(* The split is even: no two agents differ by more than one VUser.         *)
EvenSplit ==
    \A p, q \in DOMAIN assignments : assignments[p] <= assignments[q] + 1

(* The loop returns one of the assignments VUserShare allows: what the      *)
(* modules that call Allocate use in its place.                            *)
ReturnsAnAllocation ==
    pc = "returned" => assignments \in Allocations(total, 0 .. n - 1)
=============================================================================
