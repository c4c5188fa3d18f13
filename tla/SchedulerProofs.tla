-------------------------- MODULE SchedulerProofs --------------------------
(***************************************************************************)
(* Proofs about Scheduler, for every total and every number of agents: the *)
(* assignments add up to the total requested and are even.                 *)
(***************************************************************************)
EXTENDS Scheduler, SumProofs

USE TotalsAssumption, MaxAgentsAssumption

Least(a, b) == IF a < b THEN a ELSE b

(* A share is the quotient, or one more.                                   *)
LEMMA ShareIsEven ==
  ASSUME total \in Nat, n \in Nat \ {0}, NEW p \in Nat
  PROVE  /\ Share(p) \in Nat
         /\ Share(p) >= total \div n
         /\ Share(p) <= total \div n + 1
  BY DivMod DEF Share

(* Sharing out position p extends the closed form by one round.            *)
LEMMA ShareExtends ==
  ASSUME total \in Nat, n \in Nat \ {0}, NEW p \in 0 .. n - 1
  PROVE  p * (total \div n) + Least(p, total % n) + Share(p)
           = (p + 1) * (total \div n) + Least(p + 1, total % n)
  <1> DEFINE d == total \div n
             m == total % n
  <1>1. d \in Nat /\ m \in Nat
    BY DivMod
  <1>2. (p + 1) * d = p * d + d /\ p * d \in Nat
    BY <1>1
  <1> HIDE DEF d, m
  <1>3. p * d + Least(p, m) + (IF p < m THEN d + 1 ELSE d)
          = (p + 1) * d + Least(p + 1, m)
    BY <1>1, <1>2 DEF Least
  <1> QED BY <1>3 DEF d, m, Share

(* After i rounds, i quotients and the first units of the remainder have   *)
(* been handed out: the closed form of the loop.                           *)
GivenSoFar == n > 0 => given = i * (total \div n) + Least(i, total % n)

(* Every assignment made so far is the share of its position.              *)
AssignedShares == \A p \in DOMAIN assignments : assignments[p] = Share(p)

(* The inductive invariant of the loop.                                    *)
Inv ==
    /\ TypeOK
    /\ GivenSoFar
    /\ AssignedShares
    /\ pc = "returned" => i = n

LEMMA InitInv == Init => Inv
  <1> SUFFICES ASSUME Init PROVE Inv
    OBVIOUS
  <1>1. TypeOK
    BY DEF Init, TypeOK
  <1>2. GivenSoFar
    <2>1. SUFFICES ASSUME n > 0 PROVE given = i * (total \div n) + Least(i, total % n)
      BY DEF GivenSoFar
    <2>2. n \in Nat \ {0} /\ total \in Nat
      BY <1>1, <2>1 DEF TypeOK
    <2>3. total \div n \in Nat /\ total % n \in Nat
      BY <2>2, DivMod
    <2> QED BY <2>3 DEF Init, Least
  <1> QED BY <1>1, <1>2 DEF Init, Inv, AssignedShares

LEMMA StepInv == Inv /\ [Next]_vars => Inv'
  <1> SUFFICES ASSUME Inv, [Next]_vars PROVE Inv'
    OBVIOUS
  <1>1. CASE Assign
    <2>1. n \in Nat \ {0} /\ total \in Nat /\ i \in 0 .. n - 1
      BY <1>1 DEF Inv, TypeOK, Assign, MoreAgents
    <2>2. Share(i) \in Nat
      BY <2>1, ShareIsEven
    <2>3. TypeOK'
      BY <1>1, <2>1, <2>2 DEF Inv, TypeOK, Assign, MoreAgents
    <2>4. GivenSoFar'
      <3>1. given = i * (total \div n) + Least(i, total % n)
        BY <2>1 DEF Inv, GivenSoFar
      <3>2. given' = (i + 1) * (total \div n) + Least(i + 1, total % n)
        BY <1>1, <2>1, <3>1, ShareExtends DEF Assign
      <3> QED BY <1>1, <3>2 DEF GivenSoFar, Assign
    <2>5. AssignedShares'
      BY <1>1, <2>1 DEF Inv, TypeOK, AssignedShares, Assign, Share
    <2> QED BY <1>1, <2>3, <2>4, <2>5 DEF Inv, Assign
  <1>2. CASE Return
    BY <1>2 DEF Inv, TypeOK, GivenSoFar, AssignedShares, Return, MoreAgents, Share
  <1>3. CASE UNCHANGED vars
    BY <1>3 DEF Inv, TypeOK, GivenSoFar, AssignedShares, vars, Share
  <1> QED BY <1>1, <1>2, <1>3 DEF Next

(* The loop has handed out the closed form after every round.              *)
THEOREM Invariance == Spec => []Inv
  BY InitInv, StepInv, PTL DEF Spec

(* Allocate assigns exactly the VUsers that were requested, for every      *)
(* total and every number of online agents.                                *)
THEOREM AllocateLosesNothing == Spec => []NothingLost
  <1>1. Inv => NothingLost
    <2> SUFFICES ASSUME Inv, pc = "returned" PROVE given = total
      BY DEF NothingLost
    <2>1. n \in Nat \ {0} /\ total \in Nat /\ i = n
      BY DEF Inv, TypeOK
    <2>2. given = n * (total \div n) + Least(n, total % n)
      BY <2>1 DEF Inv, GivenSoFar
    <2>3. Least(n, total % n) = total % n
      BY <2>1, DivMod DEF Least
    <2> QED BY <2>1, <2>2, <2>3, DivMod
  <1> QED BY <1>1, Invariance, PTL

(* Any two agents differ by at most one VUser.                             *)
THEOREM AllocateIsEven == Spec => []EvenSplit
  <1>1. Inv => EvenSplit
    <2> SUFFICES ASSUME Inv, NEW p \in DOMAIN assignments, NEW q \in DOMAIN assignments
                 PROVE  assignments[p] <= assignments[q] + 1
      BY DEF EvenSplit
    <2>1. n \in Nat \ {0} /\ total \in Nat /\ p \in Nat /\ q \in Nat
      BY DEF Inv, TypeOK
    <2>2. assignments[p] = Share(p) /\ assignments[q] = Share(q)
      BY DEF Inv, AssignedShares
    <2>3. /\ Share(p) \in Nat /\ Share(p) <= total \div n + 1
          /\ Share(q) \in Nat /\ Share(q) >= total \div n
          /\ total \div n \in Nat
      BY <2>1, ShareIsEven, DivMod
    <2> QED BY <2>2, <2>3
  <1> QED BY <1>1, Invariance, PTL

(* The loop implements the set of assignments its callers rely on: the     *)
(* positions that get an odd VUser are the first total % n.                *)
THEOREM AllocateReturnsAnAllocation == Spec => []ReturnsAnAllocation
  <1>1. Inv => ReturnsAnAllocation
    <2> SUFFICES ASSUME Inv, pc = "returned"
                 PROVE  assignments \in Allocations(total, 0 .. n - 1)
      BY DEF ReturnsAnAllocation
    <2> DEFINE S == 0 .. n - 1
               more == 0 .. (total % n) - 1
    <2>1. n \in Nat \ {0} /\ total \in Nat /\ i = n
      BY DEF Inv, TypeOK
    <2>2. total % n \in 0 .. n - 1
      BY <2>1, DivMod
    <2>3. Cardinality(S) = n
      BY <2>1, FS_Interval
    <2>4. more \in SUBSET S /\ Cardinality(more) = total % n
      <3> DEFINE m == total % n
      <3>1. m \in Nat /\ m <= n - 1
        BY <2>1, <2>2
      <3> HIDE DEF m
      <3>2. Cardinality(0 .. m - 1) = m
        BY <3>1, FS_Interval
      <3>3. 0 .. m - 1 \subseteq 0 .. n - 1
        BY <2>1, <3>1
      <3> QED BY <3>2, <3>3 DEF m
    <2>5. assignments = [a \in S |-> IF a \in more THEN total \div n + 1 ELSE total \div n]
      BY <2>1, <2>2 DEF Inv, TypeOK, AssignedShares, Share
    <2> HIDE DEF S, more
    <2>6. assignments = [a \in S |-> IF a \in more THEN total \div Cardinality(S) + 1
                                    ELSE total \div Cardinality(S)]
      BY <2>3, <2>5
    <2>7. more \in {T \in SUBSET S : Cardinality(T) = total % Cardinality(S)}
      BY <2>3, <2>4
    <2>8. assignments \in Allocations(total, S)
      BY <2>6, <2>7 DEF Allocations
    <2> QED BY <2>8 DEF S
  <1> QED BY <1>1, Invariance, PTL
=============================================================================
