-------------------------- MODULE ControllerProofs --------------------------
(***************************************************************************)
(* Theorems about Aggregator and Controller, for any number of agents,     *)
(* reports and requests: the invariants of the metrics pipeline, and that  *)
(* the controller's life only takes steps of that pipeline or none, so     *)
(* that they hold of it too; then what a shutdown leaves behind.           *)
(***************************************************************************)
EXTENDS Controller, TLAPS

(* The latest aggregate was shown, or a goroutine has still to make it or  *)
(* to show it.                                                             *)
LatestIsShownOrWill ==
    \/ \E k \in DOMAIN shown : shown[k] = latest
    \/ \A a \in Agents : latest[a] = 0
    \/ \E a \in Agents : pc[a] = "aggregate"
    \/ \E a \in Agents : pc[a] = "broadcast" /\ agg[a] = latest

AggInv == AggTypeOK /\ AggregatesAreCurrent /\ LatestIsShownOrWill
-----------------------------------------------------------------------------
(* The pipeline starts with nothing stored and nothing shown.              *)
LEMMA AggInitInv == AggInit => AggInv
  BY DEF AggInit, AggInv, AggTypeOK, AggregatesAreCurrent, LatestIsShownOrWill

(* The agent's end of a stream touches nothing the invariant relates.      *)
LEMMA AgentKeepsInv ==
    ASSUME AggInv, NEW a \in Agents, Open(a) \/ Send(a) \/ Close(a) \/ Break(a) \/ RecvEnds(a)
    PROVE  AggInv'
<1>1. CASE Send(a)
  <2>1. sent' \in [Agents -> Nat]
    BY <1>1 DEF Send, AggInv, AggTypeOK
  <2>2. UNCHANGED <<stream, got, pc, latest, agg, shown>>
    BY <1>1 DEF Send
  <2> QED
    BY <2>1, <2>2 DEF AggInv, AggTypeOK, AggregatesAreCurrent, LatestIsShownOrWill
<1>2. ASSUME NEW from, NEW to \in {"open", "closing", "broken", "ended", "failed"}, Move(a, from, to)
      PROVE  AggInv'
  BY <1>2 DEF Move, AggInv, AggTypeOK, AggregatesAreCurrent, LatestIsShownOrWill
<1> QED
  BY <1>1, <1>2 DEF Open, Close, Break, RecvEnds

(* A report arrives: it is the one after the agent's latest.               *)
LEMMA RecvKeepsInv == ASSUME AggInv, NEW a \in Agents, Recv(a) PROVE AggInv'
<1> USE DEF AggInv, Recv, Goto
<1>1. AggTypeOK'
  BY DEF AggTypeOK
<1>2. AggregatesAreCurrent'
  BY DEF AggTypeOK, AggregatesAreCurrent
<1>3. LatestIsShownOrWill'
  BY DEF AggTypeOK, LatestIsShownOrWill
<1> QED
  BY <1>1, <1>2, <1>3

(* A report is stored: its goroutine will aggregate.                       *)
LEMMA StoreKeepsInv == ASSUME AggInv, NEW a \in Agents, Store(a) PROVE AggInv'
<1> USE DEF AggInv, Store, Goto
<1>1. AggTypeOK'
  BY DEF AggTypeOK
<1>2. AggregatesAreCurrent'
  <2>1. UNCHANGED <<got, agg>>
    OBVIOUS
  <2>2. /\ latest[a] + 1 = got[a] /\ latest'[a] = got[a] /\ pc'[a] = "aggregate"
        /\ \A b \in Agents \ {a} : latest'[b] = latest[b] /\ pc'[b] = pc[b]
        /\ \A b \in Agents : latest[b] \in Nat /\ got[b] \in Nat /\ latest[b] <= latest'[b]
    BY DEF AggTypeOK, AggregatesAreCurrent
  <2>3. ASSUME NEW b \in Agents
        PROVE  /\ pc'[b] = "broadcast" => agg[b][b] = got[b]
               /\ latest'[b] + (IF pc'[b] = "store" THEN 1 ELSE 0) = got[b]
    <3>1. CASE b = a
      BY <2>2, <3>1
    <3>2. CASE b # a
      BY <2>2, <3>2 DEF AggregatesAreCurrent
    <3> QED
      BY <3>1, <3>2
  <2>4. ASSUME NEW b \in Agents, NEW c \in Agents PROVE agg[b][c] <= latest'[c]
    <3>1. agg[b][c] \in Nat
      BY DEF AggTypeOK
    <3>2. agg[b][c] <= latest[c]
      BY DEF AggregatesAreCurrent
    <3>3. latest[c] \in Nat /\ latest'[c] \in Nat /\ latest[c] <= latest'[c]
      <4> latest' \in [Agents -> Nat]
        BY DEF AggTypeOK
      <4> QED
        BY <2>2
    <3> QED
      BY <3>1, <3>2, <3>3
  <2> QED
    BY <2>1, <2>3, <2>4 DEF AggregatesAreCurrent
<1>3. LatestIsShownOrWill'
  BY DEF AggTypeOK, LatestIsShownOrWill
<1> QED
  BY <1>1, <1>2, <1>3

(* The aggregate is the latest reports, and will be shown.                 *)
LEMMA AggregateKeepsInv == ASSUME AggInv, NEW a \in Agents, Aggregate(a) PROVE AggInv'
<1> USE DEF AggInv, Aggregate, Goto
<1>1. AggTypeOK'
  BY DEF AggTypeOK
<1>2. AggregatesAreCurrent'
  BY DEF AggTypeOK, AggregatesAreCurrent
<1>3. LatestIsShownOrWill'
  <2>1. pc'[a] = "broadcast" /\ agg'[a] = latest'
    BY DEF AggTypeOK
  <2> QED
    BY <2>1 DEF LatestIsShownOrWill
<1> QED
  BY <1>1, <1>2, <1>3

(* The aggregate is shown: if it was the goroutine that had the latest to  *)
(* show, the latest is shown now.                                          *)
LEMMA BroadcastKeepsInv == ASSUME AggInv, NEW a \in Agents, Broadcast(a) PROVE AggInv'
<1> USE DEF AggInv, Broadcast, Goto
<1>1. AggTypeOK'
  BY DEF AggTypeOK
<1>2. AggregatesAreCurrent'
  BY DEF AggTypeOK, AggregatesAreCurrent
<1>3. LatestIsShownOrWill'
  <2>1. /\ shown \in Seq([Agents -> Nat]) /\ agg[a] \in [Agents -> Nat]
        /\ shown' = Append(shown, agg[a])
    BY DEF AggTypeOK
  <2>2. /\ Len(shown) + 1 \in DOMAIN shown' /\ shown'[Len(shown) + 1] = agg[a]
        /\ \A k \in DOMAIN shown : k \in DOMAIN shown' /\ shown'[k] = shown[k]
    BY <2>1
  <2>3. \A b \in Agents \ {a} : pc'[b] = pc[b] /\ agg'[b] = agg[b]
    BY DEF AggTypeOK
  <2>4. pc[a] = "broadcast"
    OBVIOUS
  <2> QED
    BY <2>2, <2>3, <2>4 DEF LatestIsShownOrWill
<1> QED
  BY <1>1, <1>2, <1>3

(* The row is inserted, or is not.                                         *)
LEMMA InsertKeepsInv == ASSUME AggInv, NEW a \in Agents, Insert(a) PROVE AggInv'
  BY DEF AggInv, Insert, Goto, AggTypeOK, AggregatesAreCurrent, LatestIsShownOrWill

LEMMA AggStepKeepsInv == AggInv /\ [AggNext]_aggVars => AggInv'
<1> SUFFICES ASSUME AggInv, [AggNext]_aggVars PROVE AggInv'
  OBVIOUS
<1>1. CASE AggNext
  <2> PICK a \in Agents : Open(a) \/ Send(a) \/ Close(a) \/ Break(a) \/ Serve(a)
    BY <1>1 DEF AggNext
  <2> QED
    BY AgentKeepsInv, RecvKeepsInv, StoreKeepsInv, AggregateKeepsInv, BroadcastKeepsInv,
       InsertKeepsInv DEF Serve
<1>2. CASE UNCHANGED aggVars
  BY <1>2 DEF aggVars, AggInv, AggTypeOK, AggregatesAreCurrent, LatestIsShownOrWill
<1> QED
  BY <1>1, <1>2

LEMMA InvMeansShown == AggInv => TotalsWereShown
  BY DEF AggInv, LatestIsShownOrWill, TotalsWereShown

(* The pipeline alone: an aggregate is never made up, and once all reports *)
(* are dealt with the totals of the run were shown (OnMetricReport).       *)
THEOREM AggregatorInvariant == AggSpec => [](AggTypeOK /\ AggregatesAreCurrent /\ TotalsWereShown)
<1>1. AggInv => AggTypeOK /\ AggregatesAreCurrent /\ TotalsWereShown
  BY InvMeansShown DEF AggInv
<1> QED
  BY AggInitInv, AggStepKeepsInv, <1>1, PTL DEF AggSpec
-----------------------------------------------------------------------------
(* The controller starts with an empty pipeline, and every step of its is  *)
(* one of the pipeline or none.                                            *)
THEOREM ImplementsAggregator == Spec => AggSpec
<1>1. Init => AggInit
  BY DEF Init
<1>2. [Next]_vars => [AggNext]_aggVars
  <2> SUFFICES ASSUME [Next]_vars PROVE [AggNext]_aggVars
    OBVIOUS
  <2>1. CASE \E a \in Agents : OpenStream(a) \/ AgentStep(a) \/ StreamStep(a)
    BY <2>1 DEF OpenStream, AgentStep, StreamStep, AggNext
  <2>2. CASE StartServers \/ AssignServer \/ Listen \/ ListenFails \/ Exit
    BY <2>2 DEF StartServers, AssignServer, Listen, ListenFails, Exit, Main, aggVars
  <2>3. CASE Signal \/ Expire \/ HttpBegin \/ HttpEnd \/ HealthCheckLoop
    BY <2>3 DEF Signal, Expire, HttpBegin, HttpEnd, HealthCheckLoop, CheckBegins, CheckEnds,
                LoopEnds, Check, aggVars
  <2>4. CASE Shutdown
    BY <2>4 DEF Shutdown, BeginShutdown, Drained, CloseListeners, HttpIdle, ClosePool, Shut,
                aggVars
  <2>5. CASE UNCHANGED vars
    BY <2>5 DEF vars, aggVars
  <2> QED
    BY <2>1, <2>2, <2>3, <2>4, <2>5 DEF Next
<1> QED
  BY <1>1, <1>2, PTL DEF Spec, AggSpec

(* The same of the controller's life, shutdown included.                   *)
THEOREM ControllerShowsTotals == Spec => [](AggTypeOK /\ AggregatesAreCurrent /\ TotalsWereShown)
  BY ImplementsAggregator, AggregatorInvariant, PTL
-----------------------------------------------------------------------------
(* Once the shutdown has gone past GracefulStop every stream has ended, and *)
(* the goroutine of a stream that ended is done; Recv returns io.EOF only  *)
(* after the last report.                                                  *)
PastDraining == shut \in {"http", "idling", "closing", "done"}

ShutdownInv ==
    /\ stream \in [Agents -> {"none", "open", "closing", "broken", "ended", "failed"}]
    /\ sent \in [Agents -> Nat]
    /\ got \in [Agents -> Nat]
    /\ pc \in [Agents -> {"recv", "store", "aggregate", "broadcast", "insert"}]
    /\ http \in Nat
    /\ main \in {"created", "serving", "assigned", "listening", "failed", "exited"}
    /\ shut \in {"waiting", "draining", "http", "idling", "closing", "done"}
    /\ PastDraining => StreamsEnded
    /\ \A a \in Agents : stream[a] \in {"none", "ended", "failed"} => pc[a] = "recv"
    /\ \A a \in Agents : stream[a] \in {"none", "ended"} => got[a] = sent[a]
    /\ inShutdown => shut \in {"idling", "closing", "done"}
    /\ main = "exited" => inShutdown
    /\ pool = "closed" => shut = "done"
    /\ inShutdown /\ shut \in {"closing", "done"} => http = 0 \/ expired
    /\ pool \in {"open", "closed"}

LEMMA ShutdownInit == Init => ShutdownInv
  BY DEF Init, AggInit, ShutdownInv, PastDraining

LEMMA ShutdownStep == ShutdownInv /\ [Next]_vars => ShutdownInv'
<1> SUFFICES ASSUME ShutdownInv, [Next]_vars PROVE ShutdownInv'
  OBVIOUS
<1> USE DEF ShutdownInv, PastDraining, StreamsEnded
<1>1. CASE StartServers \/ AssignServer \/ Listen \/ ListenFails \/ Exit
  BY <1>1 DEF StartServers, AssignServer, Listen, ListenFails, Exit, Main, aggVars
<1>2. CASE Signal \/ Expire \/ HealthCheckLoop
  BY <1>2 DEF Signal, Expire, HealthCheckLoop, CheckBegins, CheckEnds, LoopEnds, Check, aggVars
<1>3. CASE HttpBegin \/ HttpEnd
  BY <1>3 DEF HttpBegin, HttpEnd, aggVars
<1>4. CASE Shutdown
  BY <1>4 DEF Shutdown, BeginShutdown, Drained, CloseListeners, HttpIdle, ClosePool, Shut,
              AfterDraining, aggVars
<1>5. ASSUME NEW a \in Agents, OpenStream(a) PROVE ShutdownInv'
  BY <1>5 DEF OpenStream, Open, Move, ctrlVars
<1>6. ASSUME NEW a \in Agents, AgentStep(a) PROVE ShutdownInv'
  BY <1>6 DEF AgentStep, Send, Close, Break, Move, ctrlVars
<1>7. ASSUME NEW a \in Agents, StreamStep(a) PROVE ShutdownInv'
  <2>1. CASE Recv(a)
    BY <2>1, <1>7 DEF StreamStep, Recv, Goto, ctrlVars
  <2>2. CASE RecvEnds(a)
    BY <2>2, <1>7 DEF StreamStep, RecvEnds, Move, ctrlVars
  <2>3. CASE Store(a) \/ Aggregate(a) \/ Broadcast(a) \/ Insert(a)
    BY <2>3, <1>7 DEF StreamStep, Store, Aggregate, Broadcast, Insert, Goto, ctrlVars
  <2> QED
    BY <2>1, <2>2, <2>3, <1>7 DEF StreamStep, Serve
<1>8. CASE UNCHANGED vars
  BY <1>8 DEF vars, aggVars, ctrlVars
<1> QED
  BY <1>1, <1>2, <1>3, <1>4, <1>5, <1>6, <1>7, <1>8 DEF Next

(* The store is closed under no report that is being dealt with, and under *)
(* no request within the 10 s (Controller.Shutdown); a health check is not *)
(* waited for.                                                             *)
THEOREM PoolIsClosedLast == Spec => []PoolClosedLast
<1>1. ShutdownInv => PoolClosedLast
  BY DEF ShutdownInv, PastDraining, StreamsEnded, PoolClosedLast
<1> QED
  BY ShutdownInit, ShutdownStep, <1>1, PTL DEF Spec

(* Every report that arrived is dealt with before the process ends, and    *)
(* what is kept of an agent whose stream did not break is the last report  *)
(* it sent (main, controllerCmd).                                          *)
THEOREM ShutdownLosesNoReport == Spec => []ReportsSurviveShutdown
<1>1. ShutdownInv /\ AggTypeOK /\ AggregatesAreCurrent => ReportsSurviveShutdown
  <2> SUFFICES ASSUME ShutdownInv, AggTypeOK, AggregatesAreCurrent, main = "exited", NEW a \in Agents
               PROVE  /\ stream[a] \in {"none", "ended", "failed"}
                      /\ pc[a] = "recv"
                      /\ latest[a] = got[a]
                      /\ stream[a] # "failed" => latest[a] = sent[a]
    BY DEF ReportsSurviveShutdown
  <2>1. stream[a] \in {"none", "ended", "failed"} /\ pc[a] = "recv"
    BY DEF ShutdownInv, PastDraining, StreamsEnded
  <2>2. latest[a] \in Nat /\ latest[a] + 0 = got[a]
    BY <2>1 DEF AggTypeOK, AggregatesAreCurrent
  <2>3. stream[a] # "failed" => got[a] = sent[a]
    BY <2>1 DEF ShutdownInv
  <2> QED
    BY <2>1, <2>2, <2>3
<1> QED
  BY ShutdownInit, ShutdownStep, <1>1, ControllerShowsTotals, PTL DEF Spec

(* The variables of the process keep their types.                          *)
THEOREM ControllerTypes == Spec => []TypeOK
<1> DEFINE Types == /\ main \in {"created", "serving", "assigned", "listening", "failed", "exited"}
                    /\ shut \in {"waiting", "draining", "http", "idling", "closing", "done"}
                    /\ http \in 0 .. MaxHttp /\ pool \in {"open", "closed"}
                    /\ check \in {"none", "waiting", "marking", "ended"}
       Flags == signalled \in BOOLEAN /\ expired \in BOOLEAN /\ inShutdown \in BOOLEAN
<1>1. Init => Types /\ Flags
  <2>1. Init => Types
    BY MaxHttpAssumption DEF Init
  <2>2. Init => Flags
    BY Zenon DEF Init
  <2> QED
    BY <2>1, <2>2
<1>2. Types /\ [Next]_vars => Types'
  <2> SUFFICES ASSUME Types, [Next]_vars PROVE Types'
    OBVIOUS
  <2>1. CASE StartServers \/ AssignServer \/ Listen \/ ListenFails \/ Exit
    BY <2>1 DEF StartServers, AssignServer, Listen, ListenFails, Exit, Main
  <2>2. CASE Signal \/ Expire \/ HealthCheckLoop
    BY <2>2 DEF Signal, Expire, HealthCheckLoop, CheckBegins, CheckEnds, LoopEnds, Check
  <2>3. CASE HttpBegin \/ HttpEnd
    BY <2>3, MaxHttpAssumption DEF HttpBegin, HttpEnd
  <2>4. CASE Shutdown
    BY <2>4 DEF Shutdown, BeginShutdown, Drained, CloseListeners, HttpIdle, ClosePool, Shut,
                AfterDraining
  <2>5. CASE \E a \in Agents : OpenStream(a) \/ AgentStep(a) \/ StreamStep(a)
    BY <2>5 DEF OpenStream, AgentStep, StreamStep, ctrlVars
  <2>6. CASE UNCHANGED vars
    BY <2>6 DEF vars, ctrlVars
  <2> QED
    BY <2>1, <2>2, <2>3, <2>4, <2>5, <2>6 DEF Next
<1>3. Flags /\ [Next]_vars => Flags'
  <2> SUFFICES ASSUME Flags, [Next]_vars PROVE Flags'
    OBVIOUS
  <2>1. CASE StartServers \/ AssignServer \/ Listen \/ ListenFails \/ Exit
    BY <2>1, Zenon DEF StartServers, AssignServer, Listen, ListenFails, Exit, Main
  <2>2. CASE Signal \/ Expire \/ HttpBegin \/ HttpEnd \/ HealthCheckLoop
    BY <2>2, Zenon DEF Signal, Expire, HttpBegin, HttpEnd, HealthCheckLoop, CheckBegins, CheckEnds,
                       LoopEnds, Check
  <2>3. CASE Shutdown
    BY <2>3, Zenon DEF Shutdown, BeginShutdown, Drained, CloseListeners, HttpIdle, ClosePool, Shut
  <2>4. CASE \E a \in Agents : OpenStream(a) \/ AgentStep(a) \/ StreamStep(a)
    BY <2>4, Zenon DEF OpenStream, AgentStep, StreamStep, ctrlVars
  <2>5. CASE UNCHANGED vars
    BY <2>5, Zenon DEF vars, ctrlVars
  <2> QED
    BY <2>1, <2>2, <2>3, <2>4, <2>5 DEF Next
<1>4. Types /\ Flags /\ AggTypeOK => TypeOK
  BY Zenon DEF TypeOK
<1> QED
  BY <1>1, <1>2, <1>3, <1>4, ControllerShowsTotals, PTL DEF Spec
=============================================================================
