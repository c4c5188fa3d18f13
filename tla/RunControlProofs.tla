-------------------------- MODULE RunControlProofs --------------------------
(***************************************************************************)
(* Proofs about Agent and about RunControl, for any sets of agents, runs,  *)
(* tests, handlers and VUser totals, any channel capacity and any faults.  *)
(* Agent: the slot of an agent is consistent, a stop reaches a run that    *)
(* never overlapped another one, and no run is cancelled by a stop meant   *)
(* for another.  RunControl: types; it implements the delivery of module   *)
(* CommandDelivery; an agent only executes runs that are on record; the    *)
(* VUsers at work for a run stay within its total; a stop that was found   *)
(* when the starts of its run were queued follows them and is final; and a *)
(* test has one active run unless two requests for it insert at once.      *)
(***************************************************************************)
EXTENDS RunControl, SumProofs, SequenceTheorems

USE NoRunAssumption

(* The initial state satisfies the inductive invariant.                    *)
LEMMA AgentInitInv == AgentInit => AgentInv
  BY DEF AgentInit, AgentInv, AgentTypeOK, SlotNamesLiveRun, SoloRunIsStoppable,
         CancelOnlyOnRequest, OverlapRecorded, Begun, InProgress, Phases, Steps

(* Every step keeps the variables in their types.                          *)
LEMMA AgentTypeStep == AgentTypeOK /\ [AgentNext]_agentVars => AgentTypeOK'
  <1> SUFFICES ASSUME AgentTypeOK, [AgentNext]_agentVars PROVE AgentTypeOK'
    OBVIOUS
  <1> USE DEF AgentTypeOK, Phases, Steps
  <1>1. CASE UNCHANGED agentVars
    BY <1>1 DEF agentVars, slotVars
  <1>2. ASSUME NEW a \in Agents, Boot(a) PROVE AgentTypeOK'
    BY <1>2 DEF Boot, FreeSlot
  <1>3. ASSUME NEW a \in Agents, Shutdown(a) \/ Crash(a) PROVE AgentTypeOK'
    <2>1. CASE Signal(a)
      BY <2>1 DEF Signal, slotVars
    <2>2. CASE CancelActive(a)
      BY <2>2 DEF CancelActive, slotVars
    <2>3. CASE Exit(a)
      BY <2>3 DEF Exit, slotVars
    <2>4. CASE Crash(a)
      BY <2>4 DEF Crash, slotVars
    <2> QED BY <1>3, <2>1, <2>2, <2>3, <2>4 DEF Shutdown
  <1>4. ASSUME NEW a \in Agents, NEW r \in Runs, StartTest(a, r) PROVE AgentTypeOK'
    BY <1>4 DEF StartTest, slotVars
  <1>5. ASSUME NEW a \in Agents, NEW r \in Runs, StopTest(a, r) PROVE AgentTypeOK'
    BY <1>5 DEF StopTest, StopMatches, slotVars
  <1>6. ASSUME NEW a \in Agents, NEW r \in Runs, ExecuteTest(a, r) PROVE AgentTypeOK'
    <2>1. CASE ParseFails(a, r)
      BY <2>1 DEF ParseFails, slotVars
    <2>2. CASE TakeSlot(a, r)
      BY <2>2 DEF TakeSlot, Begun
    <2>3. CASE StreamOpens(a, r)
      BY <2>3 DEF StreamOpens, slotVars
    <2>4. CASE StreamFails(a, r)
      BY <2>4 DEF StreamFails, slotVars
    <2>5. CASE RunCancelled(a, r)
      BY <2>5 DEF RunCancelled, slotVars
    <2>6. CASE RunReturns(a, r)
      BY <2>6 DEF RunReturns, slotVars
    <2>7. CASE ResetSlot(a, r)
      BY <2>7 DEF ResetSlot, FreeSlot
    <2> QED BY <1>6, <2>1, <2>2, <2>3, <2>4, <2>5, <2>6, <2>7 DEF ExecuteTest
  <1> QED BY <1>1, <1>2, <1>3, <1>4, <1>5, <1>6 DEF AgentNext

(* The rest of the inductive invariant, one step per action.  The steps    *)
(* that leave the slot and the set of runs in progress alone disturb       *)
(* nothing; the locked sections (TakeSlot, ResetSlot, StopTest) are the    *)
(* ones that matter.                                                       *)
LEMMA AgentInvStep == AgentInv /\ [AgentNext]_agentVars => AgentInv'
  <1> SUFFICES ASSUME AgentInv, [AgentNext]_agentVars PROVE AgentInv'
    OBVIOUS
  <1>0. AgentTypeOK /\ AgentTypeOK'
    BY AgentTypeStep DEF AgentInv
  <1> USE DEF AgentInv, SlotNamesLiveRun, SoloRunIsStoppable, CancelOnlyOnRequest,
              OverlapRecorded, Begun, InProgress
  <1>1. CASE UNCHANGED agentVars
    BY <1>0, <1>1 DEF agentVars, slotVars
  <1>2. ASSUME NEW a \in Agents, Boot(a) PROVE AgentInv'
    BY <1>0, <1>2 DEF Boot, FreeSlot, AgentTypeOK
  <1>3. ASSUME NEW a \in Agents, Shutdown(a) \/ Crash(a) PROVE AgentInv'
    <2> USE <1>0 DEF AgentTypeOK
    <2>1. CASE Signal(a)
      BY <2>1 DEF Signal, slotVars
    <2>2. CASE CancelActive(a)
      BY <2>2 DEF CancelActive, slotVars
    <2>3. CASE Exit(a)
      BY <2>3 DEF Exit, slotVars
    <2>4. CASE Crash(a)
      BY <2>4 DEF Crash, slotVars, Alive
    <2> QED BY <1>3, <2>1, <2>2, <2>3, <2>4 DEF Shutdown
  <1>4. ASSUME NEW a \in Agents, NEW r \in Runs, StartTest(a, r) PROVE AgentInv'
    BY <1>0, <1>4 DEF StartTest, slotVars, AgentTypeOK
  <1>5. ASSUME NEW a \in Agents, NEW r \in Runs, StopTest(a, r) PROVE AgentInv'
    BY <1>0, <1>5 DEF StopTest, StopMatches, slotVars, AgentTypeOK
  <1>6. ASSUME NEW a \in Agents, NEW r \in Runs, ExecuteTest(a, r) PROVE AgentInv'
    <2> USE <1>0 DEF AgentTypeOK
    <2>1. CASE ParseFails(a, r)
      BY <2>1 DEF ParseFails, slotVars
    <2>2. CASE TakeSlot(a, r)
      BY <2>2 DEF TakeSlot
    <2>3. CASE StreamOpens(a, r)
      BY <2>3 DEF StreamOpens, slotVars
    <2>4. CASE StreamFails(a, r)
      BY <2>4 DEF StreamFails, slotVars
    <2>5. CASE RunCancelled(a, r)
      BY <2>5 DEF RunCancelled, slotVars
    <2>6. CASE RunReturns(a, r)
      BY <2>6 DEF RunReturns, slotVars
    <2>7. CASE ResetSlot(a, r)
      BY <2>7 DEF ResetSlot, FreeSlot
    <2> QED BY <1>6, <2>1, <2>2, <2>3, <2>4, <2>5, <2>6, <2>7 DEF ExecuteTest
  <1> QED BY <1>1, <1>2, <1>3, <1>4, <1>5, <1>6 DEF AgentNext

(* The inductive invariant holds in every reachable state.                 *)
THEOREM AgentInvariant == AgentSpec => []AgentInv
  <1>1. AgentInit => AgentInv
    BY AgentInitInv
  <1>2. AgentInv /\ [AgentNext]_agentVars => AgentInv'
    BY AgentInvStep
  <1> QED BY <1>1, <1>2, PTL DEF AgentSpec

(* The slot of an agent names a run in progress or none at all.            *)
THEOREM SlotIsConsistent == AgentSpec => []SlotNamesLiveRun
  <1>1. AgentInv => SlotNamesLiveRun
    BY DEF AgentInv
  <1> QED BY <1>1, AgentInvariant, PTL

(* A run that never overlapped another on its agent can be stopped.        *)
THEOREM SoloRunsAreStoppable == AgentSpec => []SoloRunIsStoppable
  <1>1. AgentInv => SoloRunIsStoppable
    BY DEF AgentInv
  <1> QED BY <1>1, AgentInvariant, PTL

(* A run is cancelled by a stop for it or by the shutdown of its agent.    *)
THEOREM NoForeignCancel == AgentSpec => []CancelOnlyOnRequest
  <1>1. AgentInv => CancelOnlyOnRequest
    BY DEF AgentInv
  <1> QED BY <1>1, AgentInvariant, PTL
-----------------------------------------------------------------------------
USE TotalsAssumption, QueueCapAssumption, MaxCallsAssumption, NoTestAssumption

(* The shares an agent can be given are natural numbers.                   *)
LEMMA ShareType ==
  ASSUME NEW total \in Totals, Online # {},
         NEW share \in Allocations(total, Online), NEW a \in Online
  PROVE  share[a] \in Nat
  <1>1. IsFiniteSet(Online)
    BY FiniteAgentsAssumption, FS_Subset DEF Online
  <1> QED BY <1>1, AllocationIsEven

(* A command to queue is well formed.                                      *)
LEMMA CommandType ==
  ASSUME TypeOK, NEW h \in Handlers, NEW a \in Agents, pc[h] \in {"starting", "stopping"}
  PROVE  Command(h, a) \in Commands
  BY DEF TypeOK, RequestTypeOK, Command, Commands, Start, Stop

(* Every step of RunControl keeps the agents' variables as they are or     *)
(* takes one step of Agent.                                                *)
LEMMA StepIsAgentStep == TypeOK /\ [Next]_vars => [AgentNext]_agentVars
  <1> SUFFICES ASSUME TypeOK, [Next]_vars PROVE [AgentNext]_agentVars
    OBVIOUS
  <1>1. CASE UNCHANGED vars
    BY <1>1 DEF vars
  <1>2. ASSUME NEW h \in Handlers,
               \/ Serve(h)
               \/ \E t \in Tests : RunFind(h, t)
               \/ \E r \in Runs : StopFind(h, r)
        PROVE  UNCHANGED agentVars
    BY <1>2 DEF Serve, RunFind, RunCheck, RunAllocate, RunRefused, RunCreate, RunCreateFails,
                RunMark, StopFind, StopMark, StopTargets, Deliver
  <1>3. ASSUME NEW a \in Agents, Join(a) PROVE AgentNext
    BY <1>3 DEF Join, AgentNext
  <1>4. ASSUME NEW a \in Agents,
               Heartbeat(a) \/ MarkOffline(a) \/ RemoveAgent(a) \/ Poll(a) \/ PollLost(a)
        PROVE  UNCHANGED agentVars
    BY <1>4 DEF Heartbeat, MarkOffline, RemoveAgent, Poll, PollLost
  <1>5. ASSUME NEW a \in Agents, Receive(a) PROVE AgentNext
    <2>1. wire[a] \in Seq(Commands) /\ wire[a] # <<>>
      BY <1>5 DEF Receive, TypeOK, QueueTypeOK
    <2>a. Head(wire[a]) \in Commands
      BY <2>1, HeadTailProperties
    <2>2. Head(wire[a]).run \in Runs
      BY <2>a DEF Commands
    <2>3. \E r \in Runs : StartTest(a, r) \/ StopTest(a, r)
      BY <1>5, <2>2 DEF Receive
    <2> QED BY <2>3 DEF AgentNext
  <1>6. ASSUME NEW a \in Agents, AgentStep(a) PROVE AgentNext
    BY <1>6 DEF AgentStep, AgentNext
  <1>7. ASSUME NEW t \in Tests, DeleteTest(t) PROVE UNCHANGED agentVars
    BY <1>7 DEF DeleteTest
  <1>8. CASE ControllerRestart
    BY <1>8 DEF ControllerRestart
  <1> QED BY <1>1, <1>2, <1>3, <1>4, <1>5, <1>6, <1>7, <1>8 DEF Next
-----------------------------------------------------------------------------
(* The rows of the runs.                                                   *)
LEMMA RowStep ==
  ASSUME [Next]_vars
  PROVE  \/ UNCHANGED <<runStatus, testOf, runTotal>>
         \/ \E h \in Handlers, r \in Runs :
              /\ Insert(h, r) /\ pc[h] = "allocated"
              /\ RunCreate(h, r) \/ ("db" \in Faults /\ Return(h))
         \/ \E h \in Handlers : RunMark(h) \/ StopMark(h)
         \/ \E t \in Tests : DeleteTest(t)
  <1>1. ASSUME NEW h \in Handlers,
               \/ RunCheck(h) \/ RunAllocate(h) \/ RunRefused(h) \/ StopTargets(h)
               \/ (\E a \in Agents : Deliver(h, a))
               \/ (\E t \in Tests : RunFind(h, t)) \/ (\E r \in Runs : StopFind(h, r))
        PROVE  UNCHANGED storeVars
    BY <1>1 DEF RunCheck, RunAllocate, RunRefused, StopTargets, Deliver, RunFind, StopFind
  <1>2. ASSUME NEW h \in Handlers, RunCreateFails(h)
        PROVE  \/ UNCHANGED storeVars
               \/ /\ "db" \in Faults /\ Return(h) /\ pc[h] = "allocated"
                  /\ \E r \in Runs : Insert(h, r)
    BY <1>2 DEF RunCreateFails
  <1>3. ASSUME NEW h \in Handlers, NEW r \in Runs, RunCreate(h, r)
        PROVE  Insert(h, r) /\ pc[h] = "allocated"
    BY <1>3 DEF RunCreate
  <1>4. ASSUME NEW a \in Agents,
               \/ Join(a) \/ Heartbeat(a) \/ MarkOffline(a) \/ RemoveAgent(a)
               \/ Poll(a) \/ Receive(a) \/ PollLost(a) \/ AgentStep(a)
        PROVE  UNCHANGED storeVars
    BY <1>4 DEF Join, Heartbeat, MarkOffline, RemoveAgent, Poll, Receive, PollLost, AgentStep
  <1>5. CASE ControllerRestart
    BY <1>5 DEF ControllerRestart, storeVars
  <1>6. CASE UNCHANGED vars
    BY <1>6 DEF vars, storeVars
  <1> QED BY <1>1, <1>2, <1>3, <1>4, <1>5, <1>6 DEF Next, Serve, storeVars

(* A run becomes raced when a stop is found for it, and unmarked when the  *)
(* handler that created it goes on; a test is contested from a check on.   *)
LEMMA HistoryStep ==
  ASSUME [Next]_vars
  PROVE  \/ UNCHANGED historyVars
         \/ \E h \in Handlers : RunMark(h) \/ RunCheck(h)
         \/ \E h \in Handlers, r \in Runs : StopFind(h, r)
  <1>1. ASSUME NEW h \in Handlers,
               \/ RunAllocate(h) \/ RunRefused(h) \/ RunCreateFails(h)
               \/ StopMark(h) \/ StopTargets(h) \/ (\E r \in Runs : RunCreate(h, r))
               \/ (\E a \in Agents : Deliver(h, a)) \/ (\E t \in Tests : RunFind(h, t))
        PROVE  UNCHANGED historyVars
    BY <1>1 DEF RunFind, RunAllocate, RunRefused, RunCreateFails, StopMark,
                StopTargets, RunCreate, Deliver
  <1>2. ASSUME NEW a \in Agents,
               \/ Join(a) \/ Heartbeat(a) \/ MarkOffline(a) \/ RemoveAgent(a)
               \/ Poll(a) \/ Receive(a) \/ PollLost(a) \/ AgentStep(a)
        PROVE  UNCHANGED historyVars
    BY <1>2 DEF Join, Heartbeat, MarkOffline, RemoveAgent, Poll, Receive, PollLost, AgentStep
  <1>3. ASSUME NEW t \in Tests, DeleteTest(t) PROVE UNCHANGED historyVars
    BY <1>3 DEF DeleteTest
  <1>4. CASE ControllerRestart
    BY <1>4 DEF ControllerRestart
  <1>5. CASE UNCHANGED vars
    BY <1>5 DEF vars
  <1> QED BY <1>1, <1>2, <1>3, <1>4, <1>5 DEF Next, Serve

LEMMA InitTypeOK == Init => TypeOK
  <1>1. AgentInit => AgentTypeOK
    BY AgentInitInv DEF AgentInv
  <1>2. Init => QueueTypeOK
    BY EmptySeq DEF Init, QueueTypeOK
  <1> QED BY <1>1, <1>2 DEF Init, TypeOK, StoreTypeOK, RequestTypeOK

(* A handler that returns leaves its locals well typed.                    *)
LEMMA ReturnType ==
  ASSUME RequestTypeOK, NEW h \in Handlers, Return(h)
  PROVE  RequestTypeOK'
  BY DEF RequestTypeOK, Return

(* A new row, or a new status, leaves the store well typed.                *)
LEMMA StoreStep ==
  ASSUME StoreTypeOK, RequestTypeOK, NEW h \in Handlers, NEW r \in Runs,
         Insert(h, r) \/ SetStatus(r, "running") \/ SetStatus(r, "stopped")
  PROVE  StoreTypeOK'
  <1>1. CASE Insert(h, r)
    BY <1>1 DEF StoreTypeOK, RequestTypeOK, Insert
  <1>2. CASE SetStatus(r, "running")
    BY <1>2 DEF StoreTypeOK, SetStatus, storeVars
  <1>3. CASE SetStatus(r, "stopped")
    BY <1>3 DEF StoreTypeOK, SetStatus, storeVars
  <1> QED BY <1>1, <1>2, <1>3

(* Type correctness of the steps of a handler.                             *)
LEMMA HandlerTypeStep ==
  ASSUME TypeOK, NEW h \in Handlers,
         \/ Serve(h)
         \/ \E t \in Tests : RunFind(h, t)
         \/ \E r \in Runs : StopFind(h, r)
  PROVE  StoreTypeOK' /\ QueueTypeOK' /\ RequestTypeOK'
  <1> DEFINE Typed == StoreTypeOK /\ QueueTypeOK /\ RequestTypeOK
  <1>0. Typed
    BY DEF TypeOK
  <1>a. ASSUME UNCHANGED storeVars PROVE StoreTypeOK'
    BY <1>0, <1>a DEF StoreTypeOK, storeVars
  <1>b. ASSUME UNCHANGED <<registryVars, netVars>> PROVE QueueTypeOK'
    BY <1>0, <1>b DEF QueueTypeOK, registryVars, netVars
  <1>1. ASSUME NEW t \in Tests, RunFind(h, t) PROVE Typed'
    <2>1. RequestTypeOK'
      BY <1>0, <1>1 DEF RunFind, Accept, RequestTypeOK
    <2> QED BY <2>1, <1>1, <1>a, <1>b DEF RunFind
  <1>10. CASE RunCheck(h)
    <2>1. RequestTypeOK'
      BY <1>0, <1>10 DEF RunCheck, RequestTypeOK
    <2> QED BY <2>1, <1>10, <1>a, <1>b DEF RunCheck
  <1>2. CASE RunAllocate(h)
    <2>1. PICK total \in Totals : \E share \in Allocations(total, Online) :
             /\ reqTotal' = [reqTotal EXCEPT ![h] = total]
             /\ assign' = [assign EXCEPT ![h] =
                             [a \in Agents |-> IF a \in Online THEN share[a] ELSE 0]]
      BY <1>2 DEF RunAllocate
    <2>2. PICK share \in Allocations(total, Online) :
             /\ reqTotal' = [reqTotal EXCEPT ![h] = total]
             /\ assign' = [assign EXCEPT ![h] =
                             [a \in Agents |-> IF a \in Online THEN share[a] ELSE 0]]
      BY <2>1
    <2>3. \A a \in Online : share[a] \in Nat
      BY <1>2, ShareType DEF RunAllocate
    <2>4. reqTotal' \in [Handlers -> Nat] /\ assign' \in [Handlers -> [Agents -> Nat]]
      BY <1>0, <2>2, <2>3 DEF RequestTypeOK
    <2>5. RequestTypeOK'
      BY <1>0, <1>2, <2>4 DEF RunAllocate, RequestTypeOK, Online
    <2> QED BY <2>5, <1>2, <1>a, <1>b DEF RunAllocate
  <1>3. CASE RunRefused(h)
    BY <1>0, <1>3, <1>a, <1>b, ReturnType DEF RunRefused
  <1>4. CASE RunCreateFails(h)
    BY <1>0, <1>4, <1>a, <1>b, ReturnType, StoreStep DEF RunCreateFails
  <1>5. CASE RunMark(h)
    <2>1. reqRun[h] \in Runs
      BY <1>0, <1>5 DEF RunMark, RequestTypeOK
    <2>2. RequestTypeOK'
      BY <1>0, <1>5 DEF RunMark, RequestTypeOK
    <2> QED BY <1>0, <2>1, <2>2, <1>5, <1>b, StoreStep DEF RunMark
  <1>6. CASE StopMark(h)
    <2>1. reqRun[h] \in Runs
      BY <1>0, <1>6 DEF StopMark, RequestTypeOK
    <2>2. RequestTypeOK'
      BY <1>0, <1>6 DEF StopMark, RequestTypeOK
    <2> QED BY <1>0, <2>1, <2>2, <1>6, <1>b, StoreStep DEF StopMark
  <1>11. CASE StopTargets(h)
    <2>1. CASE AllAgents = {}
      BY <1>0, <2>1, <1>11, <1>a, <1>b, ReturnType DEF StopTargets
    <2>2. CASE AllAgents # {}
      <3>1. /\ pc[h] = "stopMarked"
            /\ pc' = [pc EXCEPT ![h] = "stopping"]
            /\ targets' = [targets EXCEPT ![h] = AllAgents]
            /\ UNCHANGED <<reqTest, reqRun, reqTotal, assign, calls>>
        BY <1>11, <2>2 DEF StopTargets
      <3>2. AllAgents \subseteq Agents
        BY DEF AllAgents
      <3>3. RequestTypeOK'
        BY <1>0, <3>1, <3>2 DEF RequestTypeOK
      <3> QED BY <3>3, <1>11, <1>a, <1>b DEF StopTargets
    <2> QED BY <2>1, <2>2
  <1>7. ASSUME NEW r \in Runs, RunCreate(h, r) PROVE Typed'
    <2>1. RequestTypeOK'
      BY <1>0, <1>7, NoRunAssumption DEF RunCreate, RequestTypeOK
    <2> QED BY <1>0, <2>1, <1>7, <1>b, StoreStep DEF RunCreate
  <1>8. ASSUME NEW a \in Agents, Deliver(h, a) PROVE Typed'
    <2>1. Command(h, a) \in Commands
      BY <1>8, CommandType DEF Deliver
    <2>2. QueueTypeOK'
      BY <1>0, <1>8, <2>1, AppendProperties, LenProperties
      DEF Deliver, Enqueue, QueueTypeOK, netVars
    <2>3. CASE targets[h] = {a}
      BY <1>0, <1>8, <2>2, <2>3, <1>a, ReturnType DEF Deliver
    <2>4. CASE targets[h] # {a}
      <3>1. RequestTypeOK'
        BY <1>0, <1>8, <2>4 DEF Deliver, RequestTypeOK
      <3> QED BY <1>8, <2>2, <3>1, <1>a DEF Deliver
    <2> QED BY <2>3, <2>4
  <1>9. ASSUME NEW r \in Runs, StopFind(h, r) PROVE Typed'
    <2>1. RequestTypeOK'
      BY <1>0, <1>9, NoRunAssumption DEF StopFind, Accept, RequestTypeOK
    <2> QED BY <2>1, <1>9, <1>a, <1>b DEF StopFind
  <1> QED BY <1>1, <1>2, <1>3, <1>4, <1>5, <1>6, <1>7, <1>8, <1>9, <1>10, <1>11 DEF Serve

(* Type correctness of the steps of an agent and of its connection.        *)
LEMMA AgentSideTypeStep ==
  ASSUME TypeOK, NEW a \in Agents,
         \/ Join(a) \/ Heartbeat(a) \/ MarkOffline(a) \/ RemoveAgent(a)
         \/ Poll(a) \/ Receive(a) \/ PollLost(a) \/ AgentStep(a)
  PROVE  StoreTypeOK' /\ QueueTypeOK' /\ RequestTypeOK'
  <1>0. UNCHANGED <<storeVars, handlerVars>>
    BY DEF Join, Heartbeat, MarkOffline, RemoveAgent, Poll, Receive, PollLost, AgentStep
  <1>1. StoreTypeOK' /\ RequestTypeOK'
    BY <1>0 DEF TypeOK, StoreTypeOK, RequestTypeOK, storeVars, handlerVars, requestVars
  <1>2. QueueTypeOK'
    <2> USE DEF TypeOK, QueueTypeOK, registryVars, netVars
    <2>1. CASE Join(a)
      BY <2>1, EmptySeq DEF Join
    <2>6. CASE Heartbeat(a)
      BY <2>6 DEF Heartbeat
    <2>7. CASE MarkOffline(a)
      BY <2>7 DEF MarkOffline
    <2>5. CASE AgentStep(a)
      BY <2>5 DEF AgentStep
    <2>2. CASE RemoveAgent(a)
      <3>1. <<>> \in Seq(Commands) /\ Len(<<>>) <= QueueCap
        BY EmptySeq
      <3> QED BY <2>2, <3>1 DEF RemoveAgent
    <2>8. CASE PollLost(a)
      BY <2>8, EmptySeq DEF PollLost
    <2>3. CASE Poll(a)
      <3>1. /\ Head(mailbox[a]) \in Commands
            /\ Tail(mailbox[a]) \in Seq(Commands)
            /\ Len(Tail(mailbox[a])) = Len(mailbox[a]) - 1
            /\ Len(mailbox[a]) \in Nat
        BY <2>3, HeadTailProperties, LenProperties DEF Poll
      <3>2. /\ mailbox' \in [Agents -> Seq(Commands)]
            /\ \A b \in Agents : Len(mailbox'[b]) <= QueueCap
        BY <2>3, <3>1 DEF Poll, Take
      <3>3. wire' \in [Agents -> Seq(Commands)]
        BY <2>3, <3>1 DEF Poll, Take
      <3>4. \A b \in Agents : Len(wire'[b]) <= 1
        BY <2>3, <3>1 DEF Poll, Take
      <3> QED BY <2>3, <3>2, <3>3, <3>4 DEF Poll
    <2>4. CASE Receive(a)
      <3>1. Head(wire[a]) \in Commands
        BY <2>4, HeadTailProperties DEF Receive
      <3>2. Head(wire[a]).run \in Runs /\ Head(wire[a]).vusers \in Nat
        BY <3>1 DEF Commands
      <3>3. load' \in [Agents -> [Runs -> Nat]]
        <4>1. \/ load' = load
              \/ load' = [load EXCEPT ![a][Head(wire[a]).run] = Head(wire[a]).vusers]
          BY <2>4 DEF Receive
        <4> DEFINE r == Head(wire[a]).run
                   v == Head(wire[a]).vusers
        <4>2. r \in Runs /\ v \in Nat /\ load \in [Agents -> [Runs -> Nat]]
          BY <3>2
        <4>3. load' = load \/ load' = [load EXCEPT ![a][r] = v]
          BY <4>1
        <4> HIDE DEF r, v
        <4> QED BY ONLY <4>2, <4>3, a \in Agents
      <3>4. wire' \in [Agents -> Seq(Commands)]
        BY <2>4, EmptySeq DEF Receive
      <3> QED BY <2>4, <3>3, <3>4 DEF Receive
    <2> QED BY <2>1, <2>2, <2>3, <2>4, <2>5, <2>6, <2>7, <2>8
  <1> QED BY <1>1, <1>2

(* The history variables name runs and tests.                              *)
HistoryTypeOK == raced \subseteq Runs /\ unmarked \subseteq Runs /\ contested \subseteq Tests

LEMMA HistoryTypeStep ==
  ASSUME TypeOK, [Next]_vars
  PROVE  HistoryTypeOK'
  <1>0. HistoryTypeOK
    BY DEF TypeOK, HistoryTypeOK
  <1> USE DEF HistoryTypeOK
  <1>1. CASE UNCHANGED historyVars
    BY <1>0, <1>1 DEF historyVars
  <1>2. ASSUME NEW h \in Handlers, RunMark(h) PROVE HistoryTypeOK'
    <2>1. reqRun[h] \in Runs
      BY <1>2 DEF RunMark, TypeOK, RequestTypeOK
    <2> QED BY <1>0, <1>2, <2>1 DEF RunMark
  <1>3. ASSUME NEW h \in Handlers, NEW r \in Runs, StopFind(h, r) PROVE HistoryTypeOK'
    BY <1>0, <1>3 DEF StopFind
  <1>4. ASSUME NEW h \in Handlers, RunCheck(h) PROVE HistoryTypeOK'
    <2>1. reqTest[h] \in Tests
      BY <1>4 DEF RunCheck, TypeOK, RequestTypeOK
    <2> QED BY <1>0, <1>4, <2>1 DEF RunCheck
  <1> QED BY <1>1, <1>2, <1>3, <1>4, HistoryStep

LEMMA TypeStep == TypeOK /\ [Next]_vars => TypeOK'
  <1> SUFFICES ASSUME TypeOK, [Next]_vars PROVE TypeOK'
    OBVIOUS
  <1>0. AgentTypeOK' /\ HistoryTypeOK'
    BY StepIsAgentStep, AgentTypeStep, HistoryTypeStep DEF TypeOK
  <1> DEFINE Typed == StoreTypeOK /\ QueueTypeOK /\ RequestTypeOK
  <1>a. Typed
    BY DEF TypeOK
  <1>1. ASSUME UNCHANGED vars PROVE Typed'
    BY <1>a, <1>1 DEF StoreTypeOK, QueueTypeOK, RequestTypeOK, vars, storeVars,
                      registryVars, netVars, handlerVars, requestVars
  <1>2. ASSUME NEW t \in Tests, DeleteTest(t) PROVE Typed'
    BY <1>a, <1>2 DEF StoreTypeOK, QueueTypeOK, RequestTypeOK, DeleteTest,
                      registryVars, netVars, handlerVars, requestVars
  <1>3. ASSUME ControllerRestart PROVE Typed'
    BY <1>a, <1>3, EmptySeq DEF StoreTypeOK, QueueTypeOK, RequestTypeOK,
                                ControllerRestart, storeVars, netVars
  <1>4. ASSUME NEW h \in Handlers,
               \/ Serve(h)
               \/ \E t \in Tests : RunFind(h, t)
               \/ \E r \in Runs : StopFind(h, r)
        PROVE  Typed'
    BY <1>4, HandlerTypeStep
  <1>5. ASSUME NEW a \in Agents,
               \/ Join(a) \/ Heartbeat(a) \/ MarkOffline(a) \/ RemoveAgent(a)
               \/ Poll(a) \/ Receive(a) \/ PollLost(a) \/ AgentStep(a)
        PROVE  Typed'
    BY <1>5, AgentSideTypeStep
  <1>6. Typed'
    BY <1>1, <1>2, <1>3, <1>4, <1>5 DEF Next
  <1> QED BY <1>0, <1>6 DEF TypeOK, HistoryTypeOK

(* Every variable keeps its type, a command channel never holds more than  *)
(* its capacity, and a handler that names a run names a real one.          *)
THEOREM TypeCorrect == Spec => []TypeOK
  BY InitTypeOK, TypeStep, PTL DEF Spec

(* Each agent behaves as a process of module Agent, by how RunControl is   *)
(* put together.                                                           *)
LEMMA ImplementsAgent == Spec => AgentSpec
  <1>1. Init => AgentInit
    BY DEF Init
  <1>2. TypeOK /\ [Next]_vars => [AgentNext]_agentVars
    BY StepIsAgentStep
  <1> QED BY <1>1, <1>2, TypeCorrect, PTL DEF Spec, AgentSpec

(* What is proved of Agent holds of the agents of the whole system.        *)
THEOREM SystemAgentInvariant == Spec => []AgentInv
  BY ImplementsAgent, AgentInvariant, PTL
-----------------------------------------------------------------------------
(* Where a start of a run can be: in a channel, in a poll's response, in   *)
(* the loop of a handler, or executed.  Wherever it is, the run is on      *)
(* record; and a run a handler has created is never "unused" again.        *)
MarkInv ==
    /\ \A h \in Handlers : pc[h] = "created" => runStatus[reqRun[h]] # "unused"
    /\ \A h \in Handlers : pc[h] = "starting" => reqRun[h] \in OnRecord
    /\ \A a \in Agents : \A i \in 1 .. Len(mailbox[a]) :
          mailbox[a][i].type = "start" => mailbox[a][i].run \in OnRecord
    /\ \A a \in Agents :
          wire[a] # <<>> /\ Head(wire[a]).type = "start" => Head(wire[a]).run \in OnRecord
    /\ \A a \in Agents, r \in Runs : exec[a][r] # "none" => r \in OnRecord

(* Once on record, a run is on record for ever: no row is set back to      *)
(* pending, a run ID is used once, and a failed UPDATE is not forgotten.   *)
LEMMA OnRecordForEver ==
  ASSUME TypeOK, [Next]_vars, NEW r \in Runs
  PROVE  /\ r \in OnRecord => r \in OnRecord'
         /\ runStatus[r] # "unused" => runStatus'[r] # "unused"
  <1> DEFINE Kept == runStatus[r] # "unused" =>
                       /\ runStatus'[r] # "unused"
                       /\ runStatus'[r] = "pending" => runStatus[r] = "pending"
  <1>0. unmarked \subseteq unmarked'
    BY HistoryStep DEF RunMark, RunCheck, StopFind, historyVars
  <1>1. ASSUME UNCHANGED <<runStatus, testOf, runTotal>> PROVE Kept
    BY <1>1
  <1>2. ASSUME NEW h \in Handlers, NEW q \in Runs, Insert(h, q) PROVE Kept
    BY <1>2 DEF Insert, TypeOK, StoreTypeOK
  <1>3. ASSUME NEW h \in Handlers, RunMark(h) PROVE Kept
    BY <1>3 DEF RunMark, SetStatus, storeVars, TypeOK, StoreTypeOK
  <1>4. ASSUME NEW h \in Handlers, StopMark(h) PROVE Kept
    BY <1>4 DEF StopMark, SetStatus, storeVars, TypeOK, StoreTypeOK
  <1>5. ASSUME NEW t \in Tests, DeleteTest(t) PROVE Kept
    BY <1>5 DEF DeleteTest
  <1>6. Kept
    BY <1>1, <1>2, <1>3, <1>4, <1>5, RowStep
  <1> QED BY <1>0, <1>6 DEF OnRecord

(* A goroutine of ExecuteTest only comes to be by the start an agent gets. *)
LEMMA ExecBegins ==
  ASSUME TypeOK, [Next]_vars, NEW a \in Agents, NEW r \in Runs,
         exec[a][r] = "none", exec'[a][r] # "none"
  PROVE  Receive(a) /\ wire[a] # <<>> /\ Head(wire[a]).type = "start" /\ Head(wire[a]).run = r
  <1>1. CASE UNCHANGED exec
    BY <1>1
  <1>2. ASSUME NEW h \in Handlers,
               \/ Serve(h)
               \/ \E t \in Tests : RunFind(h, t)
               \/ \E q \in Runs : StopFind(h, q)
        PROVE  UNCHANGED exec
    BY <1>2 DEF Serve, RunFind, RunCheck, RunAllocate, RunRefused, RunCreate, RunCreateFails,
                RunMark, StopFind, StopMark, StopTargets, Deliver, agentVars
  <1>3. ASSUME NEW b \in Agents,
               \/ Heartbeat(b) \/ MarkOffline(b) \/ RemoveAgent(b)
               \/ Poll(b) \/ PollLost(b)
        PROVE  UNCHANGED exec
    BY <1>3 DEF Heartbeat, MarkOffline, RemoveAgent, Poll, PollLost, agentVars
  <1>9. ASSUME NEW b \in Agents, Join(b) PROVE FALSE
    BY <1>9 DEF Join, Boot, TypeOK, AgentTypeOK
  <1>4. ASSUME NEW b \in Agents, AgentStep(b) PROVE FALSE
    <2> USE DEF TypeOK, AgentTypeOK
    <2>1. CASE Crash(b)
      BY <2>1 DEF Crash
    <2>2. CASE Shutdown(b)
      BY <2>2 DEF Shutdown, Signal, CancelActive, Exit
    <2>3. ASSUME NEW q \in Runs, ExecuteTest(b, q) PROVE FALSE
      <3>1. exec[b][q] # "none" /\ \E to \in Steps : exec' = [exec EXCEPT ![b][q] = to]
        BY <2>3 DEF ExecuteTest, ParseFails, TakeSlot, StreamOpens, StreamFails, RunCancelled,
                    RunReturns, ResetSlot, Steps
      <3> QED BY <3>1
    <2> QED BY <1>4, <2>1, <2>2, <2>3 DEF AgentStep
  <1>5. ASSUME NEW b \in Agents, Receive(b)
        PROVE  /\ Receive(a) /\ wire[a] # <<>>
               /\ Head(wire[a]).type = "start" /\ Head(wire[a]).run = r
    <2> DEFINE q == Head(wire[b]).run
    <2>1. CASE StopTest(b, q)
      BY <2>1 DEF StopTest
    <2>2. CASE Head(wire[b]).type = "start" /\ StartTest(b, q)
      <3>1. exec' = [exec EXCEPT ![b][q] = "spawned"] /\ wire[b] # <<>>
        BY <1>5, <2>2 DEF Receive, StartTest
      <3>2. b = a /\ q = r
        <4> HIDE DEF q
        <4> QED BY <3>1 DEF TypeOK, AgentTypeOK
      <3> QED BY <1>5, <2>2, <3>1, <3>2
    <2> QED BY <1>5, <2>1, <2>2 DEF Receive
  <1>6. ASSUME NEW t \in Tests, DeleteTest(t) PROVE UNCHANGED exec
    BY <1>6 DEF DeleteTest, agentVars
  <1>7. CASE ControllerRestart
    BY <1>1, <1>7 DEF ControllerRestart, agentVars
  <1>8. CASE UNCHANGED vars
    BY <1>1, <1>8 DEF vars, agentVars
  <1> QED BY <1>1, <1>2, <1>3, <1>4, <1>5, <1>6, <1>7, <1>8, <1>9 DEF Next

(* MarkInv without its last conjunct, split by where a start can be.       *)
HandlersMarked ==
    \A h \in Handlers :
        /\ pc[h] = "created" => runStatus[reqRun[h]] # "unused"
        /\ pc[h] = "starting" => reqRun[h] \in OnRecord

MailboxesMarked ==
    \A a \in Agents : \A i \in 1 .. Len(mailbox[a]) :
        mailbox[a][i].type = "start" => mailbox[a][i].run \in OnRecord

WiresMarked ==
    \A a \in Agents :
        wire[a] # <<>> /\ Head(wire[a]).type = "start" => Head(wire[a]).run \in OnRecord

LEMMA HandlersStep ==
  ASSUME TypeOK, MarkInv, [Next]_vars
  PROVE  HandlersMarked'
  <1> DEFINE Kept == \A g \in Handlers : pc'[g] \in {"created", "starting"} =>
                       pc'[g] = pc[g] /\ reqRun'[g] = reqRun[g]
  <1>0. \A r \in Runs : /\ r \in OnRecord => r \in OnRecord'
                        /\ runStatus[r] # "unused" => runStatus'[r] # "unused"
    BY OnRecordForEver
  <1>k. ASSUME NEW g \in Handlers, pc'[g] = pc[g], reqRun'[g] = reqRun[g]
        PROVE  /\ pc'[g] = "created" => runStatus'[reqRun'[g]] # "unused"
               /\ pc'[g] = "starting" => reqRun'[g] \in OnRecord'
    <2>1. pc[g] \in {"created", "starting"} => reqRun[g] \in Runs
      BY DEF TypeOK, RequestTypeOK
    <2>2. CASE pc[g] = "created"
      <3>1. runStatus[reqRun[g]] # "unused"
        BY <2>2 DEF MarkInv
      <3>2. runStatus'[reqRun[g]] # "unused"
        BY <1>0, <2>1, <2>2, <3>1
      <3>3. runStatus'[reqRun'[g]] # "unused" /\ pc'[g] # "starting"
        BY <1>k, <2>2, <3>2
      <3> QED BY <3>3
    <2>3. CASE pc[g] = "starting"
      <3>1. reqRun[g] \in OnRecord
        BY <2>3 DEF MarkInv
      <3>2. reqRun[g] \in OnRecord'
        BY <1>0, <2>1, <2>3, <3>1
      <3>3. reqRun'[g] \in OnRecord' /\ pc'[g] # "created"
        BY <1>k, <2>3, <3>2
      <3> QED BY <3>3
    <2> QED BY <1>k, <2>2, <2>3
  <1>1. ASSUME Kept PROVE HandlersMarked'
    <2>1. \A g \in Handlers : /\ pc'[g] = "created" => runStatus'[reqRun'[g]] # "unused"
                              /\ pc'[g] = "starting" => reqRun'[g] \in OnRecord'
      BY <1>k, <1>1
    <2> QED BY <2>1 DEF HandlersMarked
  <1> USE DEF TypeOK, RequestTypeOK
  <1>2. ASSUME NEW h \in Handlers, Return(h) PROVE Kept
    BY <1>2 DEF Return
  <1>3. ASSUME NEW h \in Handlers,
               \/ RunCheck(h) \/ RunAllocate(h) \/ StopMark(h)
               \/ (\E t \in Tests : RunFind(h, t)) \/ (\E r \in Runs : StopFind(h, r))
        PROVE  Kept
    BY <1>3 DEF RunCheck, RunAllocate, StopMark, RunFind, StopFind
  <1>4. ASSUME NEW h \in Handlers, RunRefused(h) \/ RunCreateFails(h) PROVE Kept
    BY <1>2, <1>4 DEF RunRefused, RunCreateFails
  <1>5. ASSUME NEW h \in Handlers, StopTargets(h) PROVE Kept
    <2>1. CASE AllAgents = {}
      BY <1>2, <1>5, <2>1 DEF StopTargets
    <2>2. CASE AllAgents # {}
      BY <1>5, <2>2 DEF StopTargets
    <2> QED BY <2>1, <2>2
  <1>6. ASSUME NEW h \in Handlers, NEW a \in Agents, Deliver(h, a) PROVE Kept
    <2>1. CASE targets[h] = {a}
      BY <1>2, <1>6, <2>1 DEF Deliver
    <2>2. CASE targets[h] # {a}
      BY <1>6, <2>2 DEF Deliver
    <2> QED BY <2>1, <2>2
  <1>7. ASSUME NEW h \in Handlers, NEW r \in Runs, RunCreate(h, r) PROVE HandlersMarked'
    <2>1. \A g \in Handlers \ {h} : pc'[g] = pc[g] /\ reqRun'[g] = reqRun[g]
      BY <1>7 DEF RunCreate
    <2>2. pc'[h] = "created" /\ reqRun'[h] = r /\ runStatus'[r] = "pending"
      BY <1>7 DEF RunCreate, Insert, StoreTypeOK
    <2>3. \A g \in Handlers : /\ pc'[g] = "created" => runStatus'[reqRun'[g]] # "unused"
                              /\ pc'[g] = "starting" => reqRun'[g] \in OnRecord'
      BY <1>k, <2>1, <2>2
    <2> QED BY <2>3 DEF HandlersMarked
  <1>8. ASSUME NEW h \in Handlers, RunMark(h) PROVE HandlersMarked'
    <2>1. \A g \in Handlers \ {h} : pc'[g] = pc[g] /\ reqRun'[g] = reqRun[g]
      BY <1>8 DEF RunMark
    <2>2. pc'[h] = "starting" /\ reqRun'[h] = reqRun[h] /\ reqRun[h] \in Runs
      BY <1>8 DEF RunMark
    <2>3. runStatus[reqRun[h]] # "unused"
      BY <1>8 DEF RunMark, MarkInv
    <2>4. runStatus'[reqRun[h]] # "unused"
      BY <1>0, <2>2, <2>3
    <2>7. runStatus'[reqRun[h]] = "pending" => reqRun[h] \in unmarked'
      BY <1>8 DEF RunMark
    <2>5. reqRun'[h] \in OnRecord'
      BY <2>2, <2>4, <2>7 DEF OnRecord
    <2>6. \A g \in Handlers : /\ pc'[g] = "created" => runStatus'[reqRun'[g]] # "unused"
                              /\ pc'[g] = "starting" => reqRun'[g] \in OnRecord'
      BY <1>k, <2>1, <2>2, <2>5
    <2> QED BY <2>6 DEF HandlersMarked
  <1>9. ASSUME NEW a \in Agents,
               \/ Join(a) \/ Heartbeat(a) \/ MarkOffline(a) \/ RemoveAgent(a)
               \/ Poll(a) \/ Receive(a) \/ PollLost(a) \/ AgentStep(a)
        PROVE  Kept
    BY <1>9 DEF Join, Heartbeat, MarkOffline, RemoveAgent, Poll, Receive, PollLost,
                AgentStep, handlerVars, requestVars
  <1>10. ASSUME NEW t \in Tests, DeleteTest(t) PROVE Kept
    BY <1>10 DEF DeleteTest, handlerVars, requestVars
  <1>11. CASE ControllerRestart
    BY <1>1, <1>11 DEF ControllerRestart
  <1>12. CASE UNCHANGED vars
    BY <1>1, <1>12 DEF vars, handlerVars, requestVars
  <1> HIDE DEF Kept, TypeOK, RequestTypeOK
  <1> QED BY <1>1, <1>3, <1>4, <1>5, <1>6, <1>7, <1>8, <1>9, <1>10, <1>11, <1>12
          DEF Next, Serve

LEMMA MailboxesStep ==
  ASSUME TypeOK, MarkInv, [Next]_vars
  PROVE  MailboxesMarked'
  <1>0. OnRecord \subseteq OnRecord'
    BY OnRecordForEver DEF OnRecord
  <1>a. \A a \in Agents : mailbox[a] \in Seq(Commands) /\ Len(mailbox[a]) \in Nat
    BY LenProperties DEF TypeOK, QueueTypeOK
  <1>b. \A a \in Agents : \A i \in 1 .. Len(mailbox[a]) :
          mailbox[a][i].type = "start" => mailbox[a][i].run \in OnRecord'
    BY <1>0 DEF MarkInv
  <1>1. CASE UNCHANGED mailbox
    BY <1>1, <1>b DEF MailboxesMarked, OnRecord
  <1>2. ASSUME NEW h \in Handlers, NEW a \in Agents, Deliver(h, a) PROVE MailboxesMarked'
    <2>1. CASE mailbox' = mailbox
      BY <1>1, <2>1
    <2>2. CASE mailbox' = [mailbox EXCEPT ![a] = Append(@, Command(h, a))]
      <3>1. Command(h, a) \in Commands
        BY <1>2, CommandType DEF Deliver
      <3>2. Command(h, a).type = "start" => Command(h, a).run \in OnRecord'
        BY <1>0, <1>2 DEF Deliver, Command, Start, Stop, MarkInv, TypeOK, RequestTypeOK
      <3>3. mailbox'[a] = Append(mailbox[a], Command(h, a))
        BY <2>2 DEF TypeOK, QueueTypeOK
      <3>4. \A b \in Agents \ {a} : mailbox'[b] = mailbox[b]
        BY <2>2 DEF TypeOK, QueueTypeOK
      <3>5. /\ Len(mailbox'[a]) = Len(mailbox[a]) + 1
            /\ \A i \in 1 .. Len(mailbox[a]) : mailbox'[a][i] = mailbox[a][i]
            /\ mailbox'[a][Len(mailbox[a]) + 1] = Command(h, a)
        BY <1>a, <3>1, <3>3, AppendProperties
      <3>6. \A i \in 1 .. Len(mailbox'[a]) :
              mailbox'[a][i].type = "start" => mailbox'[a][i].run \in OnRecord'
        <4> SUFFICES ASSUME NEW i \in 1 .. Len(mailbox'[a]), mailbox'[a][i].type = "start"
                     PROVE  mailbox'[a][i].run \in OnRecord'
          OBVIOUS
        <4>1. CASE i = Len(mailbox[a]) + 1
          BY <3>2, <3>5, <4>1
        <4>2. CASE i \in 1 .. Len(mailbox[a])
          BY <1>b, <3>5, <4>2
        <4> QED BY <1>a, <3>5, <4>1, <4>2
      <3> QED BY <1>b, <3>4, <3>6 DEF MailboxesMarked
    <2> QED BY <1>2, <2>1, <2>2 DEF Deliver, Enqueue
  <1>3. ASSUME NEW a \in Agents, Poll(a) PROVE MailboxesMarked'
    <2>1. mailbox[a] # <<>> /\ mailbox' = [mailbox EXCEPT ![a] = Tail(@)]
      BY <1>3 DEF Poll, Take
    <2>2. mailbox'[a] = Tail(mailbox[a]) /\ \A b \in Agents \ {a} : mailbox'[b] = mailbox[b]
      BY <2>1 DEF TypeOK, QueueTypeOK
    <2>3. /\ Len(mailbox'[a]) = Len(mailbox[a]) - 1
          /\ \A i \in 1 .. Len(mailbox'[a]) : mailbox'[a][i] = mailbox[a][i + 1]
      <3>1. /\ Len(Tail(mailbox[a])) = Len(mailbox[a]) - 1
            /\ \A i \in 1 .. Len(Tail(mailbox[a])) : Tail(mailbox[a])[i] = mailbox[a][i + 1]
        <4>1. mailbox[a] \in Seq(Commands) /\ mailbox[a] # <<>>
          BY <1>a, <2>1
        <4> QED BY ONLY <4>1, HeadTailProperties
      <3> QED BY ONLY <2>2, <3>1
    <2>4. \A i \in 1 .. Len(mailbox'[a]) :
            mailbox'[a][i].type = "start" => mailbox'[a][i].run \in OnRecord'
      BY <1>a, <1>b, <2>3
    <2> QED BY <1>b, <2>2, <2>4 DEF MailboxesMarked
  <1>4. ASSUME NEW a \in Agents, RemoveAgent(a) PROVE MailboxesMarked'
    <2>1. mailbox'[a] = <<>> /\ \A b \in Agents \ {a} : mailbox'[b] = mailbox[b]
      BY <1>4 DEF RemoveAgent, TypeOK, QueueTypeOK
    <2>2. Len(mailbox'[a]) = 0
      BY <2>1
    <2> QED BY <1>b, <2>1, <2>2 DEF MailboxesMarked
  <1>5. CASE ControllerRestart
    <2>1. \A b \in Agents : Len(mailbox'[b]) = 0
      BY <1>5 DEF ControllerRestart
    <2> QED BY <2>1 DEF MailboxesMarked
  <1>6. ASSUME NEW h \in Handlers,
               \/ RunCheck(h) \/ RunAllocate(h) \/ RunRefused(h) \/ RunCreateFails(h)
               \/ RunMark(h) \/ StopMark(h) \/ StopTargets(h)
               \/ (\E r \in Runs : RunCreate(h, r))
               \/ (\E t \in Tests : RunFind(h, t)) \/ (\E r \in Runs : StopFind(h, r))
        PROVE  UNCHANGED mailbox
    BY <1>6 DEF RunCheck, RunAllocate, RunRefused, RunCreateFails, RunMark, StopMark,
                StopTargets, RunCreate, RunFind, StopFind, registryVars
  <1>7. ASSUME NEW a \in Agents,
               \/ Join(a) \/ Heartbeat(a) \/ MarkOffline(a)
               \/ Receive(a) \/ PollLost(a) \/ AgentStep(a)
        PROVE  UNCHANGED mailbox
    BY <1>7 DEF Join, Heartbeat, MarkOffline, Receive, PollLost, AgentStep, registryVars
  <1>8. ASSUME NEW t \in Tests, DeleteTest(t) PROVE UNCHANGED mailbox
    BY <1>8 DEF DeleteTest, registryVars
  <1>9. CASE UNCHANGED vars
    BY <1>1, <1>9 DEF vars, registryVars
  <1> QED BY <1>1, <1>2, <1>3, <1>4, <1>5, <1>6, <1>7, <1>8, <1>9 DEF Next, Serve

LEMMA WiresStep ==
  ASSUME TypeOK, MarkInv, [Next]_vars
  PROVE  WiresMarked'
  <1>0. OnRecord \subseteq OnRecord'
    BY OnRecordForEver DEF OnRecord
  <1>b. \A a \in Agents :
          wire[a] # <<>> /\ Head(wire[a]).type = "start" => Head(wire[a]).run \in OnRecord'
    BY <1>0 DEF MarkInv
  <1>1. CASE UNCHANGED wire
    BY <1>1, <1>b DEF WiresMarked
  <1>2. ASSUME NEW a \in Agents, Poll(a) PROVE WiresMarked'
    <2>1. /\ mailbox[a] # <<>> /\ wire' = [wire EXCEPT ![a] = <<Head(mailbox[a])>>]
      BY <1>2 DEF Poll, Take
    <2>2. /\ wire'[a] = <<Head(mailbox[a])>>
          /\ \A b \in Agents \ {a} : wire'[b] = wire[b]
      BY <2>1 DEF TypeOK, QueueTypeOK
    <2>3. 1 \in 1 .. Len(mailbox[a]) /\ Head(mailbox[a]) = mailbox[a][1]
      BY <2>1, EmptySeq DEF TypeOK, QueueTypeOK
    <2>5. Head(mailbox[a]).type = "start" => Head(mailbox[a]).run \in OnRecord'
      BY <1>0, <2>3 DEF MarkInv
    <2>6. Head(wire'[a]) = Head(mailbox[a])
      BY <2>2
    <2> QED BY <1>b, <2>2, <2>5, <2>6 DEF WiresMarked
  <1>3. ASSUME NEW a \in Agents, Receive(a) \/ PollLost(a) \/ Join(a) PROVE WiresMarked'
    <2>1. wire'[a] = <<>> /\ \A b \in Agents \ {a} : wire'[b] = wire[b]
      BY <1>3 DEF Receive, PollLost, Join, TypeOK, QueueTypeOK
    <2> QED BY <1>b, <2>1 DEF WiresMarked
  <1>4. ASSUME NEW h \in Handlers,
               \/ Serve(h)
               \/ (\E t \in Tests : RunFind(h, t)) \/ (\E r \in Runs : StopFind(h, r))
        PROVE  UNCHANGED wire
    BY <1>4 DEF Serve, RunCheck, RunAllocate, RunRefused, RunCreateFails, RunMark, StopMark,
                StopTargets, RunCreate, RunFind, StopFind, Deliver, netVars
  <1>5. ASSUME NEW a \in Agents,
               \/ Heartbeat(a) \/ MarkOffline(a) \/ RemoveAgent(a) \/ AgentStep(a)
        PROVE  UNCHANGED wire
    BY <1>5 DEF Heartbeat, MarkOffline, RemoveAgent, AgentStep, netVars
  <1>6. ASSUME NEW t \in Tests, DeleteTest(t) PROVE UNCHANGED wire
    BY <1>6 DEF DeleteTest, netVars
  <1>7. CASE ControllerRestart
    BY <1>1, <1>7 DEF ControllerRestart, netVars
  <1>8. CASE UNCHANGED vars
    BY <1>1, <1>8 DEF vars, netVars
  <1> QED BY <1>1, <1>2, <1>3, <1>4, <1>5, <1>6, <1>7, <1>8 DEF Next

LEMMA MarkStep ==
  ASSUME TypeOK, MarkInv, [Next]_vars
  PROVE  MarkInv'
  <1>1. \A a \in Agents, r \in Runs : exec'[a][r] # "none" => r \in OnRecord'
    <2> SUFFICES ASSUME NEW a \in Agents, NEW r \in Runs, exec'[a][r] # "none"
                 PROVE  r \in OnRecord'
      OBVIOUS
    <2>1. r \in OnRecord
      BY ExecBegins DEF MarkInv
    <2> QED BY <2>1, OnRecordForEver
  <1> QED BY <1>1, HandlersStep, MailboxesStep, WiresStep
          DEF MarkInv, HandlersMarked, MailboxesMarked, WiresMarked

(* An agent never executes a run before the run is on record, whatever     *)
(* handlers, polls, crashes and restarts do, and when tests are deleted    *)
(* and the database fails as well.                                         *)
THEOREM RunsAreOnRecord == Spec => []ExecutedRunsAreOnRecord
  <1>1. Init => MarkInv
    BY EmptySeq DEF Init, AgentInit, MarkInv
  <1>2. TypeOK /\ MarkInv /\ [Next]_vars => MarkInv'
    BY MarkStep
  <1>3. MarkInv => ExecutedRunsAreOnRecord
    BY DEF MarkInv, ExecutedRunsAreOnRecord
  <1> QED BY <1>1, <1>2, <1>3, TypeCorrect, PTL DEF Spec
-----------------------------------------------------------------------------
(* Two facts about sequences.                                              *)
LEMMA ConcatAppend ==
  ASSUME NEW S, NEW s \in Seq(S), NEW t \in Seq(S), NEW e \in S
  PROVE  s \o Append(t, e) = Append(s \o t, e)
  <1>1. <<e>> \in Seq(S) /\ s \o t \in Seq(S)
    BY ConcatProperties
  <1>2. (s \o t) \o <<e>> = s \o (t \o <<e>>)
    BY <1>1, ConcatAssociative
  <1>3. Append(t, e) = t \o <<e>> /\ Append(s \o t, e) = (s \o t) \o <<e>>
    BY <1>1, AppendIsConcat
  <1> QED BY <1>2, <1>3

LEMMA TailOfConcat ==
  ASSUME NEW S, NEW s \in Seq(S), NEW t \in Seq(S), Len(s) = 1
  PROVE  s \o t # <<>> /\ Head(s \o t) = Head(s) /\ Tail(s \o t) = t
  <1> DEFINE u == s \o t
  <1>1. /\ u \in Seq(S) /\ Len(u) = 1 + Len(t) /\ Len(t) \in Nat
        /\ \A i \in 1 .. 1 + Len(t) : u[i] = IF i <= 1 THEN s[i] ELSE t[i - 1]
    <2>1. Len(t) \in Nat
      BY LenProperties
    <2>2. /\ u \in Seq(S) /\ Len(u) = Len(s) + Len(t)
          /\ \A i \in 1 .. Len(s) + Len(t) : u[i] = IF i <= Len(s) THEN s[i] ELSE t[i - Len(s)]
      BY ONLY ConcatProperties, s \in Seq(S), t \in Seq(S)
    <2> HIDE DEF u
    <2> QED BY <2>1, <2>2, Len(s) = 1
  <1> HIDE DEF u
  <1>2. u # <<>>
    BY <1>1, EmptySeq
  <1>3. Head(u) = u[1] /\ Head(s) = s[1]
    BY <1>1
  <1>4. /\ Tail(u) \in Seq(S) /\ Len(Tail(u)) = Len(u) - 1
        /\ \A i \in 1 .. Len(Tail(u)) : Tail(u)[i] = u[i + 1]
    BY <1>1, <1>2, HeadTailProperties
  <1>5. Len(Tail(u)) = Len(t) /\ \A i \in 1 .. Len(t) : Tail(u)[i] = t[i]
    BY <1>1, <1>4
  <1>6. Tail(u) = t
    BY <1>4, <1>5, SeqEqual
  <1> QED BY <1>1, <1>2, <1>3, <1>6 DEF u
-----------------------------------------------------------------------------
(* What a step of the system is for one handler, for the rows of the runs, *)
(* for one agent's goroutines and for the commands on their way to it.     *)
SameRequest(g) ==
    /\ pc'[g] = pc[g] /\ reqTest'[g] = reqTest[g] /\ reqRun'[g] = reqRun[g]
    /\ reqTotal'[g] = reqTotal[g] /\ assign'[g] = assign[g] /\ targets'[g] = targets[g]

HandlerMoves(g) ==
    \/ SameRequest(g)
    \/ pc'[g] = "free"
    \/ pc'[g] = "found" /\ \E t \in Tests : RunFind(g, t)
    \/ pc'[g] = "checked" /\ reqTest'[g] = reqTest[g] /\ RunCheck(g)
    \/ pc'[g] = "allocated" /\ reqTest'[g] = reqTest[g] /\ RunAllocate(g)
    \/ /\ pc'[g] = "created" /\ reqTotal'[g] = reqTotal[g] /\ assign'[g] = assign[g]
       /\ targets'[g] = targets[g]
       /\ \E r \in Runs : RunCreate(g, r) /\ reqRun'[g] = r
    \/ /\ pc'[g] = "starting" /\ reqRun'[g] = reqRun[g] /\ assign'[g] = assign[g]
       /\ targets'[g] = targets[g]
       /\ RunMark(g)
    \/ pc'[g] = "stopFound" /\ \E r \in Runs : StopFind(g, r) /\ reqRun'[g] = r
    \/ pc'[g] = "stopMarked" /\ reqRun'[g] = reqRun[g] /\ StopMark(g)
    \/ pc'[g] = "stopping" /\ reqRun'[g] = reqRun[g] /\ StopTargets(g)
    \/ /\ pc'[g] = pc[g] /\ reqRun'[g] = reqRun[g] /\ assign'[g] = assign[g]
       /\ \E a \in Agents : Deliver(g, a) /\ targets'[g] = targets[g] \ {a}

LEMMA HandlerStep ==
  ASSUME TypeOK, [Next]_vars, NEW g \in Handlers
  PROVE  HandlerMoves(g)
  <1> USE DEF TypeOK, RequestTypeOK
  <1>1. CASE UNCHANGED handlerVars
    BY <1>1 DEF HandlerMoves, SameRequest, handlerVars, requestVars
  <1>2. ASSUME NEW h \in Handlers, Return(h) PROVE SameRequest(g) \/ pc'[g] = "free"
    BY <1>2 DEF Return, SameRequest
  <1>3. ASSUME NEW h \in Handlers, NEW t \in Tests, RunFind(h, t) PROVE HandlerMoves(g)
    BY <1>3 DEF RunFind, HandlerMoves, SameRequest
  <1>15. ASSUME NEW h \in Handlers, RunCheck(h) PROVE HandlerMoves(g)
    BY <1>15 DEF RunCheck, HandlerMoves, SameRequest
  <1>16. ASSUME NEW h \in Handlers, StopMark(h) PROVE HandlerMoves(g)
    BY <1>16 DEF StopMark, HandlerMoves, SameRequest
  <1>4. ASSUME NEW h \in Handlers, RunAllocate(h) PROVE HandlerMoves(g)
    <2>0. pc'[h] = "allocated" /\ reqTest' = reqTest
      BY <1>4 DEF RunAllocate
    <2>1. CASE g = h
      BY <1>4, <2>0, <2>1 DEF HandlerMoves
    <2>2. CASE g # h
      <3>1. SameRequest(g)
        BY <1>4, <2>2 DEF RunAllocate, SameRequest
      <3> QED BY <3>1 DEF HandlerMoves
    <2> QED BY <2>1, <2>2
  <1>5. ASSUME NEW h \in Handlers, RunRefused(h) \/ RunCreateFails(h) PROVE HandlerMoves(g)
    BY <1>2, <1>5 DEF RunRefused, RunCreateFails, HandlerMoves
  <1>6. ASSUME NEW h \in Handlers, NEW r \in Runs, RunCreate(h, r) PROVE HandlerMoves(g)
    BY <1>6 DEF RunCreate, HandlerMoves, SameRequest
  <1>7. ASSUME NEW h \in Handlers, RunMark(h) PROVE HandlerMoves(g)
    BY <1>7 DEF RunMark, HandlerMoves, SameRequest
  <1>8. ASSUME NEW h \in Handlers, NEW r \in Runs, StopFind(h, r) PROVE HandlerMoves(g)
    BY <1>8 DEF StopFind, HandlerMoves, SameRequest
  <1>9. ASSUME NEW h \in Handlers, StopTargets(h) PROVE HandlerMoves(g)
    <2>1. CASE AllAgents = {}
      BY <1>2, <1>9, <2>1 DEF StopTargets, HandlerMoves
    <2>2. CASE AllAgents # {}
      <3>1. /\ pc' = [pc EXCEPT ![h] = "stopping"]
            /\ targets' = [targets EXCEPT ![h] = AllAgents]
            /\ UNCHANGED <<reqTest, reqRun, reqTotal, assign>>
        BY <1>9, <2>2 DEF StopTargets
      <3> QED BY <1>9, <3>1 DEF HandlerMoves, SameRequest
    <2> QED BY <2>1, <2>2
  <1>10. ASSUME NEW h \in Handlers, NEW a \in Agents, Deliver(h, a) PROVE HandlerMoves(g)
    <2>1. CASE targets[h] = {a}
      BY <1>2, <1>10, <2>1 DEF Deliver, HandlerMoves
    <2>2. CASE targets[h] # {a}
      <3>1. /\ targets' = [targets EXCEPT ![h] = @ \ {a}]
            /\ UNCHANGED <<pc, reqTest, reqRun, reqTotal, assign, calls>>
        BY <1>10, <2>2 DEF Deliver
      <3> QED BY <1>10, <3>1 DEF HandlerMoves, SameRequest
    <2> QED BY <2>1, <2>2
  <1>11. ASSUME NEW a \in Agents,
               \/ Join(a) \/ Heartbeat(a) \/ MarkOffline(a) \/ RemoveAgent(a)
               \/ Poll(a) \/ Receive(a) \/ PollLost(a) \/ AgentStep(a)
        PROVE  UNCHANGED handlerVars
    BY <1>11 DEF Join, Heartbeat, MarkOffline, RemoveAgent, Poll, Receive, PollLost, AgentStep
  <1>12. ASSUME NEW t \in Tests, DeleteTest(t) PROVE UNCHANGED handlerVars
    BY <1>12 DEF DeleteTest
  <1>13. CASE ControllerRestart
    BY <1>13 DEF ControllerRestart, HandlerMoves
  <1>14. CASE UNCHANGED vars
    BY <1>1, <1>14 DEF vars
  <1> HIDE DEF TypeOK, RequestTypeOK
  <1> QED BY <1>1, <1>3, <1>4, <1>5, <1>6, <1>7, <1>8, <1>9, <1>10, <1>11, <1>12, <1>13,
             <1>14, <1>15, <1>16 DEF Next, Serve

(* The oldest command in transit has come to the agent, or is lost: its    *)
(* response is lost, or the process that polled makes way for another.     *)
Takes(a) == wire[a] # <<>> /\ wire'[a] = <<>> /\ mailbox'[a] = mailbox[a]

LEMMA ReceiveTakes ==
  ASSUME TypeOK, NEW a \in Agents, Receive(a) \/ PollLost(a)
  PROVE  Takes(a)
  BY DEF Takes, Receive, PollLost, registryVars, TypeOK, QueueTypeOK

(* The commands on their way to an agent: the poll moves one from the      *)
(* channel into its response and leaves the sequence as it is.             *)
TransitMoves(a) ==
    \/ InTransit(a)' = InTransit(a)
    \/ \E h \in Handlers : /\ Deliver(h, a)
                           /\ InTransit(a)' = Append(InTransit(a), Command(h, a))
    \/ Takes(a)
    \/ InTransit(a)' = wire[a]

LEMMA TransitType ==
  ASSUME TypeOK, NEW a \in Agents
  PROVE  /\ wire[a] \in Seq(Commands) /\ mailbox[a] \in Seq(Commands)
         /\ InTransit(a) \in Seq(Commands)
         /\ Len(InTransit(a)) = Len(wire[a]) + Len(mailbox[a])
         /\ Len(wire[a]) \in Nat /\ Len(mailbox[a]) \in Nat
  <1>1. wire[a] \in Seq(Commands) /\ mailbox[a] \in Seq(Commands)
    BY DEF TypeOK, QueueTypeOK
  <1> QED BY <1>1, ConcatProperties, LenProperties DEF InTransit

LEMMA TransitStep ==
  ASSUME TypeOK, [Next]_vars, NEW a \in Agents
  PROVE  TransitMoves(a)
  <1> DEFINE w == wire[a]
             m == mailbox[a]
  <1>0. w \in Seq(Commands) /\ m \in Seq(Commands) /\ Len(w) \in {0, 1}
    <2>1. w \in Seq(Commands) /\ m \in Seq(Commands) /\ Len(w) \in Nat /\ Len(w) <= 1
      BY TransitType DEF TypeOK, QueueTypeOK
    <2>2. \A n \in Nat : n <= 1 => n \in {0, 1}
      OBVIOUS
    <2>3. Len(w) \in {0, 1}
      BY ONLY <2>1, <2>2
    <2> QED BY <2>1, <2>3
  <1>a. ASSUME wire'[a] = wire[a], mailbox'[a] = mailbox[a] PROVE TransitMoves(a)
    BY <1>a DEF TransitMoves, InTransit
  <1>1. ASSUME NEW h \in Handlers, NEW b \in Agents, Deliver(h, b) PROVE TransitMoves(a)
    <2>1. UNCHANGED wire /\ (mailbox' = mailbox
                             \/ mailbox' = [mailbox EXCEPT ![b] = Append(@, Command(h, b))])
      BY <1>1 DEF Deliver, Enqueue, netVars
    <2>2. CASE mailbox' = mailbox \/ b # a
      BY <1>a, <2>1, <2>2 DEF TypeOK, QueueTypeOK
    <2>3. CASE mailbox' = [mailbox EXCEPT ![b] = Append(@, Command(h, b))] /\ b = a
      <3>1. mailbox'[a] = Append(m, Command(h, a)) /\ wire'[a] = w
        BY <2>1, <2>3 DEF TypeOK, QueueTypeOK
      <3>2. Command(h, a) \in Commands
        BY <1>1, <2>3, CommandType DEF Deliver
      <3>3. w \o Append(m, Command(h, a)) = Append(w \o m, Command(h, a))
        <4> DEFINE c == Command(h, a)
        <4>1. w \in Seq(Commands) /\ m \in Seq(Commands) /\ c \in Commands
          BY <1>0, <3>2
        <4> HIDE DEF c, w, m
        <4> QED BY ONLY <4>1, ConcatAppend
      <3>4. InTransit(a)' = Append(InTransit(a), Command(h, a))
        BY <3>1, <3>3 DEF InTransit
      <3> QED BY <1>1, <2>3, <3>4 DEF TransitMoves
    <2> QED BY <2>1, <2>2, <2>3
  <1>2. ASSUME NEW b \in Agents, Poll(b) PROVE TransitMoves(a)
    <2>1. CASE b # a
      BY <1>2, <1>a, <2>1 DEF Poll, Take, TypeOK, QueueTypeOK
    <2>2. CASE b = a
      <3>1. w = <<>> /\ m # <<>> /\ wire'[a] = <<Head(m)>> /\ mailbox'[a] = Tail(m)
        BY <1>2, <2>2 DEF Poll, Take, TypeOK, QueueTypeOK
      <3>2. w \o m = <<Head(m)>> \o Tail(m)
        BY <1>0, <3>1
      <3>3. InTransit(a)' = InTransit(a)
        BY <3>1, <3>2 DEF InTransit
      <3> QED BY <3>3 DEF TransitMoves
    <2> QED BY <2>1, <2>2
  <1>3. ASSUME NEW b \in Agents, Receive(b) \/ PollLost(b) PROVE TransitMoves(a)
    <2>1. CASE b # a
      BY <1>3, <1>a, <2>1 DEF Receive, PollLost, registryVars, TypeOK, QueueTypeOK
    <2>2. CASE b = a
      BY <1>3, <2>2, ReceiveTakes DEF TransitMoves
    <2> QED BY <2>1, <2>2
  <1>10. ASSUME NEW b \in Agents, Join(b) PROVE TransitMoves(a)
    <2>1. mailbox' = mailbox /\ wire' = [wire EXCEPT ![b] = <<>>]
      BY <1>10 DEF Join
    <2>2. CASE b # a \/ wire[a] = <<>>
      <3>1. wire'[a] = wire[a]
        BY <2>1, <2>2 DEF TypeOK, QueueTypeOK
      <3> QED BY <1>a, <2>1, <3>1
    <2>3. CASE b = a /\ wire[a] # <<>>
      BY <2>1, <2>3 DEF TransitMoves, Takes, TypeOK, QueueTypeOK
    <2> QED BY <2>2, <2>3
  <1>4. ASSUME NEW b \in Agents, RemoveAgent(b) PROVE TransitMoves(a)
    <2>1. CASE b # a
      BY <1>4, <1>a, <2>1 DEF RemoveAgent, netVars, TypeOK, QueueTypeOK
    <2>2. CASE b = a
      <3>1. wire'[a] = w /\ mailbox'[a] = <<>>
        BY <1>4, <2>2 DEF RemoveAgent, netVars, TypeOK, QueueTypeOK
      <3>2. w \o <<>> = w
        BY <1>0
      <3> QED BY <3>1, <3>2 DEF TransitMoves, InTransit
    <2> QED BY <2>1, <2>2
  <1>5. CASE ControllerRestart
    <2>1. wire'[a] = w /\ mailbox'[a] = <<>>
      BY <1>5 DEF ControllerRestart, netVars
    <2>2. w \o <<>> = w
      BY <1>0
    <2> QED BY <2>1, <2>2 DEF TransitMoves, InTransit
  <1>6. ASSUME NEW h \in Handlers,
               \/ RunCheck(h) \/ RunAllocate(h) \/ RunRefused(h) \/ RunCreateFails(h)
               \/ RunMark(h) \/ StopMark(h) \/ StopTargets(h)
               \/ (\E r \in Runs : RunCreate(h, r))
               \/ (\E t \in Tests : RunFind(h, t)) \/ (\E r \in Runs : StopFind(h, r))
        PROVE  UNCHANGED <<wire, mailbox>>
    BY <1>6 DEF RunCheck, RunAllocate, RunRefused, RunCreateFails, RunMark, StopMark,
                StopTargets, RunCreate, RunFind, StopFind, registryVars, netVars
  <1>7. ASSUME NEW b \in Agents,
               Heartbeat(b) \/ MarkOffline(b) \/ AgentStep(b)
        PROVE  UNCHANGED <<wire, mailbox>>
    BY <1>7 DEF Heartbeat, MarkOffline, AgentStep, registryVars, netVars
  <1>8. ASSUME NEW t \in Tests, DeleteTest(t) PROVE UNCHANGED <<wire, mailbox>>
    BY <1>8 DEF DeleteTest, registryVars, netVars
  <1>9. CASE UNCHANGED vars
    BY <1>9, <1>a DEF vars, registryVars, netVars
  <1> QED BY <1>a, <1>1, <1>2, <1>3, <1>4, <1>5, <1>6, <1>7, <1>8, <1>9, <1>10
          DEF Next, Serve

(* The command a poll brought is the oldest one in transit.                *)
LEMMA TakenPositions ==
  ASSUME TypeOK, NEW a \in Agents, Takes(a)
  PROVE  /\ wire[a] # <<>> /\ InTransit(a)[1] = Head(wire[a])
         /\ Len(InTransit(a)) \in Nat \ {0}
         /\ DOMAIN InTransit(a) = 1 .. Len(InTransit(a))
         /\ Len(InTransit(a)') = Len(InTransit(a)) - 1
         /\ DOMAIN InTransit(a)' = 1 .. Len(InTransit(a)')
         /\ \A i \in 1 .. Len(InTransit(a)') : InTransit(a)'[i] = InTransit(a)[i + 1]
  <1> DEFINE w == wire[a]
             m == mailbox[a]
             T == InTransit(a)
             U == InTransit(a)'
  <1>1. w # <<>> /\ wire'[a] = <<>> /\ mailbox'[a] = m
    BY DEF Takes
  <1>2. w \in Seq(Commands) /\ m \in Seq(Commands) /\ T \in Seq(Commands)
    BY TransitType
  <1>3. Len(w) = 1
    <2>1. Len(w) \in Nat \ {0}
      BY ONLY <1>1, <1>2, EmptySeq
    <2>2. Len(w) <= 1
      BY DEF TypeOK, QueueTypeOK
    <2>3. \A n \in Nat \ {0} : n <= 1 => n = 1
      OBVIOUS
    <2> QED BY ONLY <2>1, <2>2, <2>3
  <1>4. w \o m # <<>> /\ Head(w \o m) = Head(w) /\ Tail(w \o m) = m
    BY ONLY <1>2, <1>3, TailOfConcat
  <1>5. <<>> \o m = m
    BY ONLY <1>2, ConcatEmptySeq
  <1>6. T # <<>> /\ Head(T) = Head(w) /\ U = Tail(T)
    BY <1>1, <1>4, <1>5 DEF InTransit
  <1>7. /\ Tail(T) \in Seq(Commands) /\ Len(Tail(T)) = Len(T) - 1
        /\ \A i \in 1 .. Len(Tail(T)) : Tail(T)[i] = T[i + 1]
    BY ONLY <1>2, <1>6, HeadTailProperties
  <1>8. /\ Len(T) \in Nat \ {0} /\ Head(T) = T[1] /\ DOMAIN T = 1 .. Len(T)
        /\ DOMAIN Tail(T) = 1 .. Len(Tail(T))
    BY ONLY <1>2, <1>6, <1>7, EmptySeq, LenProperties
  <1> HIDE DEF w, m, T, U
  <1>9. /\ Len(U) = Len(T) - 1 /\ DOMAIN U = 1 .. Len(U)
        /\ \A i \in 1 .. Len(U) : U[i] = T[i + 1]
    BY <1>6, <1>7, <1>8
  <1> QED BY <1>1, <1>6, <1>8, <1>9 DEF w, T, U

(* The same step, position by position: commands are taken at the head,    *)
(* added at the end, or lost at the end.                                   *)
PositionsMove(a) ==
    LET n == Len(InTransit(a))
        m == Len(InTransit(a)')
        Before(i) == InTransit(a)[i]
        After(i)  == InTransit(a)'[i]
    IN  \/ m <= n /\ \A i \in 1 .. m : After(i) = Before(i)
        \/ \E h \in Handlers : /\ Deliver(h, a)
                               /\ m = n + 1
                               /\ \A i \in 1 .. n : After(i) = Before(i)
                               /\ After(n + 1) = Command(h, a)
        \/ Takes(a)

LEMMA PositionsStep ==
  ASSUME TypeOK, [Next]_vars, NEW a \in Agents
  PROVE  /\ Len(InTransit(a)) \in Nat /\ DOMAIN InTransit(a) = 1 .. Len(InTransit(a))
         /\ Len(InTransit(a)') \in Nat /\ DOMAIN InTransit(a)' = 1 .. Len(InTransit(a)')
         /\ \A i \in 1 .. Len(InTransit(a)) : InTransit(a)[i] \in Commands
         /\ PositionsMove(a)
  <1> DEFINE T == InTransit(a)
             U == InTransit(a)'
             W == wire[a]
  <1>1. /\ W \in Seq(Commands) /\ T \in Seq(Commands) /\ mailbox[a] \in Seq(Commands)
        /\ Len(T) = Len(W) + Len(mailbox[a])
    BY TransitType
  <1>2. U \in Seq(Commands)
    <2>1. TypeOK'
      BY TypeStep
    <2>2. wire'[a] \in Seq(Commands) /\ mailbox'[a] \in Seq(Commands)
      BY <2>1 DEF TypeOK, QueueTypeOK
    <2>3. wire'[a] \o mailbox'[a] \in Seq(Commands)
      BY ONLY <2>2, ConcatProperties
    <2> QED BY <2>3 DEF InTransit
  <1>3. /\ Len(T) \in Nat /\ DOMAIN T = 1 .. Len(T)
        /\ Len(U) \in Nat /\ DOMAIN U = 1 .. Len(U)
        /\ Len(W) \in Nat /\ Len(mailbox[a]) \in Nat
        /\ \A i \in 1 .. Len(T) : T[i] \in Commands
    BY <1>1, <1>2, LenProperties, ElementOfSeq
  <1>4. ASSUME U = T PROVE PositionsMove(a)
    BY <1>3, <1>4 DEF PositionsMove
  <1>5. ASSUME NEW h \in Handlers, Deliver(h, a), U = Append(T, Command(h, a))
        PROVE  PositionsMove(a)
    <2> DEFINE c == Command(h, a)
    <2>1. c \in Commands
      BY <1>5, CommandType DEF Deliver
    <2> HIDE DEF T, U, c
    <2>a. T \in Seq(Commands)
      BY <1>1
    <2>b. /\ Len(Append(T, c)) = Len(T) + 1 /\ Append(T, c)[Len(T) + 1] = c
          /\ \A i \in 1 .. Len(T) : Append(T, c)[i] = T[i]
      BY ONLY <2>a, <2>1, AppendProperties
    <2>2. /\ Len(U) = Len(T) + 1 /\ U[Len(T) + 1] = c
          /\ \A i \in 1 .. Len(T) : U[i] = T[i]
      BY <1>5, <2>b DEF c
    <2> USE DEF T, U, c
    <2> QED BY <1>5, <2>2 DEF PositionsMove
  <1>6. ASSUME Takes(a) PROVE PositionsMove(a)
    BY <1>6 DEF PositionsMove
  <1>7. ASSUME U = W PROVE PositionsMove(a)
    <2>1. \A i \in 1 .. Len(W) : T[i] = W[i]
      <3>1. \A i \in 1 .. Len(W) + Len(mailbox[a]) :
              (W \o mailbox[a])[i] = IF i <= Len(W) THEN W[i] ELSE mailbox[a][i - Len(W)]
        BY ONLY <1>1, ConcatProperties
      <3>2. \A i \in 1 .. Len(W) : (W \o mailbox[a])[i] = W[i]
        <4>1. Len(W) \in Nat /\ Len(mailbox[a]) \in Nat
          BY <1>3
        <4>2. \A i \in 1 .. Len(W) : i \in 1 .. Len(W) + Len(mailbox[a]) /\ i <= Len(W)
          <5>1. \A x, y \in Nat : \A i \in 1 .. x : i \in 1 .. x + y /\ i <= x
            OBVIOUS
          <5> QED BY ONLY <4>1, <5>1
        <4> QED BY ONLY <3>1, <4>2
      <3> QED BY <3>2 DEF InTransit
    <2>2. Len(U) <= Len(T) /\ \A i \in 1 .. Len(U) : U[i] = T[i]
      <3> HIDE DEF T, U, W
      <3> QED BY <1>1, <1>3, <1>7, <2>1
    <2> QED BY <2>2 DEF PositionsMove
  <1>8. PositionsMove(a)
    BY <1>4, <1>5, <1>6, <1>7, TransitStep DEF TransitMoves
  <1> QED BY <1>3, <1>8

(* The oldest start is taken, and the others move up.                      *)
LEMMA TakenStarts ==
  ASSUME TypeOK, NEW a \in Agents, NEW r \in Runs, Takes(a)
  PROVE  /\ \A i \in Starts(a, r)' : /\ i \in Nat \ {0} /\ i + 1 \in Starts(a, r)
                                     /\ InTransit(a)'[i] = InTransit(a)[i + 1]
         /\ Head(wire[a]) = InTransit(a)[1]
         /\ Head(wire[a]).type = "start" /\ Head(wire[a]).run = r <=> 1 \in Starts(a, r)
  <1> DEFINE n == Len(InTransit(a))
             m == Len(InTransit(a)')
             Before(i) == InTransit(a)[i]
             After(i)  == InTransit(a)'[i]
             IsStart(c) == c.type = "start" /\ c.run = r
  <1>1. /\ Starts(a, r) = {i \in 1 .. n : IsStart(Before(i))}
        /\ Starts(a, r)' = {i \in 1 .. m : IsStart(After(i))}
    BY TakenPositions DEF Starts
  <1>2. /\ Before(1) = Head(wire[a]) /\ n \in Nat \ {0} /\ m = n - 1
        /\ \A i \in 1 .. m : After(i) = Before(i + 1)
    BY TakenPositions
  <1> HIDE DEF n, m, Before, After
  <1>3. 1 \in Starts(a, r) <=> IsStart(Head(wire[a]))
    BY <1>1, <1>2
  <1>4. \A i \in Starts(a, r)' : /\ i \in Nat \ {0} /\ i + 1 \in Starts(a, r)
                                 /\ After(i) = Before(i + 1)
    BY <1>1, <1>2
  <1> QED BY <1>2, <1>3, <1>4 DEF Before, After

(* A start goes in transit from the loop of the handler that serves the    *)
(* request, and leaves it when the agent, or nobody, receives it.          *)
LEMMA StartsStep ==
  ASSUME TypeOK, [Next]_vars, NEW a \in Agents, NEW r \in Runs
  PROVE  \/ /\ Starts(a, r)' \subseteq Starts(a, r)
            /\ \A i \in Starts(a, r)' : InTransit(a)'[i] = InTransit(a)[i]
         \/ \E h \in Handlers, i \in Nat :
               /\ Deliver(h, a) /\ pc[h] = "starting" /\ reqRun[h] = r
               /\ Starts(a, r)' = Starts(a, r) \cup {i}
               /\ InTransit(a)'[i] = Command(h, a)
         \/ Takes(a)
  <1> DEFINE n == Len(InTransit(a))
             m == Len(InTransit(a)')
             Before(i) == InTransit(a)[i]
             After(i)  == InTransit(a)'[i]
             IsStart(c) == c.type = "start" /\ c.run = r
  <1>1. n \in Nat /\ m \in Nat
    BY PositionsStep
  <1>2. /\ Starts(a, r) = {i \in 1 .. n : IsStart(Before(i))}
        /\ Starts(a, r)' = {i \in 1 .. m : IsStart(After(i))}
    BY PositionsStep DEF Starts
  <1>3. CASE m <= n /\ \A i \in 1 .. m : After(i) = Before(i)
    <2> HIDE DEF n, m, Before, After
    <2>1. Starts(a, r)' \subseteq Starts(a, r)
      BY <1>1, <1>2, <1>3
    <2>2. \A i \in Starts(a, r)' : After(i) = Before(i)
      BY <1>2, <1>3
    <2> QED BY <2>1, <2>2 DEF Before, After
  <1>4. ASSUME NEW h \in Handlers, Deliver(h, a), m = n + 1,
               \A i \in 1 .. n : After(i) = Before(i), After(n + 1) = Command(h, a)
        PROVE  \/ /\ Starts(a, r)' \subseteq Starts(a, r)
                  /\ \A i \in Starts(a, r)' : After(i) = Before(i)
               \/ /\ pc[h] = "starting" /\ reqRun[h] = r /\ n + 1 \in Nat
                  /\ Starts(a, r)' = Starts(a, r) \cup {n + 1}
                  /\ After(n + 1) = Command(h, a)
    <2> HIDE DEF n, m, Before, After
    <2>1. 1 .. m = (1 .. n) \cup {n + 1} /\ n + 1 \in Nat /\ n + 1 \notin 1 .. n
      BY <1>1, <1>4
    <2>2. CASE IsStart(Command(h, a))
      <3>1. pc[h] = "starting" /\ reqRun[h] = r
        BY <2>2 DEF Command, Start, Stop
      <3>2. Starts(a, r)' = Starts(a, r) \cup {n + 1}
        BY <1>2, <1>4, <2>1, <2>2
      <3> QED BY <1>4, <2>1, <3>1, <3>2
    <2>3. CASE ~IsStart(Command(h, a))
      <3>1. Starts(a, r)' = Starts(a, r)
        BY <1>2, <1>4, <2>1, <2>3
      <3> QED BY <1>2, <1>4, <3>1
    <2> QED BY <2>2, <2>3
  <1> QED BY <1>3, <1>4, PositionsStep DEF PositionsMove

(* What an agent has of the load of a run, and of a stop, comes with the   *)
(* command it receives.                                                    *)
LEMMA AgentKeeps ==
  ASSUME TypeOK, [Next]_vars, NEW a \in Agents, NEW r \in Runs
  PROVE  /\ \/ load'[a][r] = load[a][r]
            \/ /\ wire[a] # <<>> /\ Receive(a)
               /\ Head(wire[a]).type = "start" /\ Head(wire[a]).run = r
               /\ load'[a][r] = Head(wire[a]).vusers
               /\ exec'[a][r] # "none"
         /\ r \in stopRecv'[a] =>
              \/ r \in stopRecv[a]
              \/ /\ wire[a] # <<>> /\ Receive(a)
                 /\ Head(wire[a]).type = "stop" /\ Head(wire[a]).run = r
  <1> DEFINE Keeps == /\ load'[a][r] = load[a][r]
                      /\ r \in stopRecv'[a] => r \in stopRecv[a]
  <1>1. ASSUME UNCHANGED <<exec, load, stopRecv>> PROVE Keeps
    BY <1>1
  <1>2. ASSUME NEW h \in Handlers,
               \/ Serve(h)
               \/ \E t \in Tests : RunFind(h, t)
               \/ \E q \in Runs : StopFind(h, q)
        PROVE  UNCHANGED <<exec, load, stopRecv>>
    BY <1>2 DEF Serve, RunFind, RunCheck, RunAllocate, RunRefused, RunCreate, RunCreateFails,
                RunMark, StopFind, StopMark, StopTargets, Deliver, agentVars, netVars
  <1>3. ASSUME NEW b \in Agents,
               \/ Heartbeat(b) \/ MarkOffline(b) \/ RemoveAgent(b)
               \/ Poll(b) \/ PollLost(b)
        PROVE  UNCHANGED <<exec, load, stopRecv>>
    BY <1>3 DEF Heartbeat, MarkOffline, RemoveAgent, Poll, PollLost, agentVars, netVars
  <1>9. ASSUME NEW b \in Agents, Join(b) PROVE Keeps
    BY <1>9 DEF Join, Boot, TypeOK, AgentTypeOK
  <1>4. ASSUME NEW b \in Agents, AgentStep(b) PROVE Keeps
    <2> USE DEF TypeOK, AgentTypeOK
    <2>0. load' = load
      BY <1>4 DEF AgentStep, netVars
    <2>1. CASE Crash(b)
      BY <2>0, <2>1 DEF Crash
    <2>2. CASE Shutdown(b)
      BY <2>0, <2>2 DEF Shutdown, Signal, CancelActive, Exit
    <2>3. ASSUME NEW q \in Runs, ExecuteTest(b, q) PROVE Keeps
      BY <2>0, <2>3 DEF ExecuteTest, ParseFails, TakeSlot, StreamOpens, StreamFails,
                        RunCancelled, RunReturns, ResetSlot
    <2> QED BY <1>4, <2>1, <2>2, <2>3 DEF AgentStep
  <1>5. ASSUME NEW b \in Agents, Receive(b)
        PROVE  \/ Keeps
               \/ /\ b = a /\ wire[a] # <<>> /\ Head(wire[a]).run = r
                  /\ \/ /\ Head(wire[a]).type = "start" /\ exec'[a][r] # "none"
                        /\ load'[a][r] = Head(wire[a]).vusers
                        /\ UNCHANGED stopRecv
                     \/ /\ Head(wire[a]).type = "stop" /\ UNCHANGED <<exec, load>>
    <2> DEFINE q == Head(wire[b]).run
               v == Head(wire[b]).vusers
    <2>0. /\ exec \in [Agents -> [Runs -> Steps]] /\ load \in [Agents -> [Runs -> Nat]]
          /\ stopRecv \in [Agents -> SUBSET Runs]
      BY DEF TypeOK, AgentTypeOK, QueueTypeOK
    <2>1. CASE Head(wire[b]).type = "stop"
      <3>1. /\ UNCHANGED <<exec, load>>
            /\ stopRecv' = [stopRecv EXCEPT ![b] = @ \cup {q}] /\ wire[b] # <<>>
        BY <1>5, <2>1 DEF Receive, StopTest
      <3> HIDE DEF q
      <3>2. CASE b = a /\ q = r
        BY <2>1, <3>1, <3>2 DEF q
      <3>3. CASE b # a \/ q # r
        BY <2>0, <3>1, <3>3
      <3> QED BY <3>2, <3>3
    <2>2. CASE Head(wire[b]).type = "start"
      <3>1. /\ exec' = [exec EXCEPT ![b][q] = "spawned"] /\ UNCHANGED stopRecv
            /\ load' = [load EXCEPT ![b][q] = v] /\ wire[b] # <<>>
        BY <1>5, <2>2 DEF Receive, StartTest
      <3> HIDE DEF q, v
      <3>2. CASE b = a /\ q = r
        BY <2>0, <2>2, <3>1, <3>2 DEF q, v
      <3>3. CASE b # a \/ q # r
        BY <2>0, <3>1, <3>3
      <3> QED BY <3>2, <3>3
    <2> QED BY <1>5, <2>1, <2>2 DEF Receive
  <1>6. ASSUME NEW t \in Tests, DeleteTest(t) PROVE UNCHANGED <<exec, load, stopRecv>>
    BY <1>6 DEF DeleteTest, agentVars, netVars
  <1>7. CASE ControllerRestart
    BY <1>1, <1>7 DEF ControllerRestart, agentVars, netVars
  <1>8. CASE UNCHANGED vars
    BY <1>1, <1>8 DEF vars, agentVars, netVars
  <1> QED BY <1>1, <1>2, <1>3, <1>4, <1>5, <1>6, <1>7, <1>8, <1>9 DEF Next

(* Once no start of r can come for an agent any more, none ever can.       *)
LEMMA MayStep ==
  ASSUME TypeOK, [Next]_vars, NEW a \in Agents, NEW r \in Runs, MayStart(a, r)'
  PROVE  MayStart(a, r)
  <1>1. CASE runStatus'[r] = "unused"
    BY <1>1, OnRecordForEver DEF MayStart
  <1>2. ASSUME NEW h \in Handlers, reqRun'[h] = r, pc'[h] = "created"
        PROVE  MayStart(a, r)
    <2>1. \/ pc[h] = "created" /\ reqRun[h] = r
          \/ RunCreate(h, r)
      BY <1>2, HandlerStep DEF HandlerMoves, SameRequest, Deliver
    <2>2. RunCreate(h, r) => runStatus[r] = "unused"
      BY DEF RunCreate, Insert
    <2> QED BY <2>1, <2>2 DEF MayStart
  <1>3. ASSUME NEW h \in Handlers, reqRun'[h] = r, pc'[h] = "starting", a \in targets'[h]
        PROVE  MayStart(a, r)
    <2>1. \/ pc[h] = "starting" /\ reqRun[h] = r /\ a \in targets[h]
          \/ pc[h] = "created" /\ reqRun[h] = r
      BY <1>3, HandlerStep DEF HandlerMoves, SameRequest, Deliver, RunMark
    <2> QED BY <2>1 DEF MayStart, Pending
  <1> QED BY <1>1, <1>2, <1>3 DEF MayStart, Pending

(* What makes a start come once: a run is named by one request, the starts *)
(* of that request are each sent once, and nothing of the run is on its    *)
(* way to an agent, or with it, before.                                    *)
OneRequestPerRun ==
    /\ \A h \in Handlers : pc[h] \in {"created", "starting"} => runStatus[reqRun[h]] # "unused"
    /\ \A g, h \in Handlers :
          {pc[g], pc[h]} \subseteq {"created", "starting"} /\ reqRun[g] = reqRun[h] => g = h

StartIsFresh(a, r) ==
    /\ MayStart(a, r) => exec[a][r] = "none" /\ load[a][r] = 0 /\ Starts(a, r) = {}
    /\ Starts(a, r) # {} => exec[a][r] = "none" /\ load[a][r] = 0
    /\ \A i, j \in Starts(a, r) : i = j

OnceInv == OneRequestPerRun /\ \A a \in Agents, r \in Runs : StartIsFresh(a, r)

LEMMA OneRequestStep ==
  ASSUME TypeOK, OneRequestPerRun, [Next]_vars
  PROVE  OneRequestPerRun'
  <1> DEFINE Names(h, r) == pc[h] \in {"created", "starting"} /\ reqRun[h] = r
             Creates(h, r) == RunCreate(h, r) /\ runStatus[r] = "unused"
                              /\ runStatus'[r] # "unused"
  <1>1. ASSUME NEW h \in Handlers, pc'[h] \in {"created", "starting"}
        PROVE  /\ reqRun'[h] \in Runs
               /\ Names(h, reqRun'[h]) \/ Creates(h, reqRun'[h])
    <2>0. reqRun'[h] \in Runs
      BY <1>1, TypeStep DEF TypeOK, RequestTypeOK
    <2>1. \/ pc[h] \in {"created", "starting"} /\ reqRun'[h] = reqRun[h]
          \/ \E r \in Runs : RunCreate(h, r) /\ reqRun'[h] = r
      BY <1>1, HandlerStep DEF HandlerMoves, SameRequest, Deliver, RunMark
    <2>2. ASSUME NEW r \in Runs, RunCreate(h, r) PROVE Creates(h, r)
      BY <2>2 DEF RunCreate, Insert, TypeOK, StoreTypeOK
    <2> QED BY <2>0, <2>1, <2>2
  <1>2. ASSUME NEW h \in Handlers, pc'[h] \in {"created", "starting"}
        PROVE  runStatus'[reqRun'[h]] # "unused"
    <2>1. CASE Names(h, reqRun'[h])
      BY <1>1, <1>2, <2>1, OnRecordForEver DEF OneRequestPerRun
    <2> QED BY <1>1, <1>2, <2>1
  <1>3. ASSUME NEW g \in Handlers, NEW h \in Handlers, g # h,
               pc'[g] \in {"created", "starting"}, pc'[h] \in {"created", "starting"},
               reqRun'[g] = reqRun'[h]
        PROVE  FALSE
    <2> DEFINE r == reqRun'[g]
    <2>1. Names(g, r) \/ Creates(g, r)
      BY <1>1, <1>3
    <2>2. Names(h, r) \/ Creates(h, r)
      BY <1>1, <1>3
    <2>3. ~(Creates(g, r) /\ Creates(h, r))
      BY <1>3 DEF RunCreate, TypeOK, RequestTypeOK
    <2>4. \A f \in Handlers : Names(f, r) => runStatus[r] # "unused"
      BY DEF OneRequestPerRun
    <2>5. ~(Names(g, r) /\ Names(h, r))
      BY <1>3 DEF OneRequestPerRun
    <2> HIDE DEF r
    <2> QED BY <2>1, <2>2, <2>3, <2>4, <2>5
  <1> QED BY <1>2, <1>3 DEF OneRequestPerRun

(* The start a handler sends is the last there can be.                     *)
LEMMA LastStart ==
  ASSUME TypeOK, OneRequestPerRun, [Next]_vars, NEW a \in Agents, NEW r \in Runs,
         NEW h \in Handlers, Deliver(h, a), pc[h] = "starting", reqRun[h] = r
  PROVE  ~MayStart(a, r)'
  <1> SUFFICES ASSUME MayStart(a, r)' PROVE FALSE
    OBVIOUS
  <1>1. runStatus'[r] # "unused"
    BY OnRecordForEver DEF OneRequestPerRun
  <1>2. PICK g \in Handlers : /\ reqRun'[g] = r
                              /\ \/ pc'[g] = "created"
                                 \/ pc'[g] = "starting" /\ a \in targets'[g]
    BY <1>1 DEF MayStart, Pending
  <1>3. g = h
    <2>1. pc'[h] \in {"starting", "free"} /\ (pc'[h] = "starting" => reqRun'[h] = r)
          /\ \A f \in Handlers \ {h} : pc'[f] = pc[f] /\ reqRun'[f] = reqRun[f]
      BY DEF Deliver, Return, TypeOK, RequestTypeOK
    <2>2. g # h => pc[g] \in {"created", "starting"} /\ reqRun[g] = r
      BY <1>2, <2>1
    <2> QED BY <2>2 DEF OneRequestPerRun
  <1>4. pc'[h] = "free" \/ (pc'[h] = "starting" /\ targets'[h] = targets[h] \ {a})
    BY DEF Deliver, Return, TypeOK, RequestTypeOK
  <1> QED BY <1>2, <1>3, <1>4

LEMMA StartIsFreshStep ==
  ASSUME TypeOK, OnceInv, [Next]_vars, NEW a \in Agents, NEW r \in Runs
  PROVE  StartIsFresh(a, r)'
  <1>0. StartIsFresh(a, r) /\ OneRequestPerRun
    BY DEF OnceInv
  <1>1. MayStart(a, r)' => MayStart(a, r)
    BY MayStep
  <1>2. ~Takes(a) => ~Receive(a)
    BY ReceiveTakes
  <1>4. CASE Takes(a)
    <2>1. /\ \A i \in Starts(a, r)' : i \in Nat \ {0} /\ i + 1 \in Starts(a, r)
          /\ Head(wire[a]).type = "start" /\ Head(wire[a]).run = r => 1 \in Starts(a, r)
      BY <1>4, TakenStarts
    <2>2. \A i, j \in Starts(a, r)' : i = j
      BY <1>0, <2>1 DEF StartIsFresh
    <2>3. 1 \in Starts(a, r) => Starts(a, r)' = {}
      BY <1>0, <2>1 DEF StartIsFresh
    <2>4. 1 \notin Starts(a, r) => /\ exec[a][r] = "none" => exec'[a][r] = "none"
                                   /\ load'[a][r] = load[a][r]
      BY <2>1, ExecBegins, AgentKeeps
    <2>5. Starts(a, r)' # {} => exec'[a][r] = "none" /\ load'[a][r] = 0
      BY <1>0, <2>1, <2>3, <2>4 DEF StartIsFresh
    <2>6. MayStart(a, r)' => exec'[a][r] = "none" /\ load'[a][r] = 0 /\ Starts(a, r)' = {}
      BY <1>0, <1>1, <2>1, <2>4 DEF StartIsFresh
    <2> QED BY <2>2, <2>5, <2>6 DEF StartIsFresh
  <1>5. CASE ~Takes(a)
    <2>0. (exec[a][r] = "none" => exec'[a][r] = "none") /\ load'[a][r] = load[a][r]
      BY <1>2, <1>5, ExecBegins, AgentKeeps
    <2>1. CASE Starts(a, r)' \subseteq Starts(a, r)
      BY <1>0, <1>1, <2>0, <2>1 DEF StartIsFresh
    <2>2. ASSUME NEW h \in Handlers, NEW i \in Nat, Deliver(h, a), pc[h] = "starting",
                 reqRun[h] = r, Starts(a, r)' = Starts(a, r) \cup {i}
          PROVE  StartIsFresh(a, r)'
      <3>1. a \in targets[h]
        BY <2>2 DEF Deliver
      <3>2. MayStart(a, r)
        BY <2>2, <3>1 DEF MayStart, Pending
      <3>3. exec[a][r] = "none" /\ load[a][r] = 0 /\ Starts(a, r)' = {i}
        BY <1>0, <2>2, <3>2 DEF StartIsFresh
      <3>4. ~MayStart(a, r)'
        BY <2>2, LastStart DEF OnceInv
      <3> QED BY <2>0, <3>3, <3>4 DEF StartIsFresh
    <2> QED BY <1>5, <2>1, <2>2, StartsStep
  <1> QED BY <1>4, <1>5

LEMMA OnceInit == Init => OnceInv
  <1> SUFFICES ASSUME Init PROVE OnceInv
    OBVIOUS
  <1>1. ASSUME NEW a \in Agents, NEW r \in Runs PROVE Starts(a, r) = {}
    <2>1. wire[a] = <<>> /\ mailbox[a] = <<>> /\ <<>> \in Seq(Commands)
      BY EmptySeq DEF Init
    <2>2. <<>> \o <<>> = <<>> /\ DOMAIN <<>> = {}
      OBVIOUS
    <2> QED BY <2>1, <2>2 DEF Starts, InTransit
  <1>2. OneRequestPerRun
    BY DEF Init, OneRequestPerRun
  <1> QED BY <1>1, <1>2 DEF Init, AgentInit, OnceInv, StartIsFresh

(* Whatever is lost, whoever crashes and however many requests are served  *)
(* at once, the start of a run is in one place at most: an agent gets it   *)
(* once or never.                                                          *)
THEOREM StartsComeOnce == Spec => []OnceInv
  <1>1. TypeOK /\ OnceInv /\ [Next]_vars => OnceInv'
    <2> SUFFICES ASSUME TypeOK, OnceInv, [Next]_vars PROVE OnceInv'
      OBVIOUS
    <2>1. OneRequestPerRun'
      BY OneRequestStep DEF OnceInv
    <2>2. ASSUME NEW a \in Agents, NEW r \in Runs PROVE StartIsFresh(a, r)'
      BY StartIsFreshStep
    <2> QED BY <2>1, <2>2 DEF OnceInv
  <1> QED BY OnceInit, <1>1, TypeCorrect, PTL DEF Spec

(* An agent that receives the start of a run has not begun the run: the    *)
(* guard of StartTest refuses nothing the controller sends.                *)
ReceivedStartIsFresh ==
    \A a \in Agents :
        wire[a] # <<>> /\ Head(wire[a]).type = "start" =>
            exec[a][Head(wire[a]).run] = "none"

(* No start that the controller sends is refused by an agent.              *)
THEOREM NoStartIsRefused == Spec => []ReceivedStartIsFresh
  <1>1. TypeOK /\ OnceInv => ReceivedStartIsFresh
    <2> SUFFICES ASSUME TypeOK, OnceInv, NEW a \in Agents,
                        wire[a] # <<>>, Head(wire[a]).type = "start"
                 PROVE  exec[a][Head(wire[a]).run] = "none"
      BY DEF ReceivedStartIsFresh
    <2> DEFINE r == Head(wire[a]).run
               w == wire[a]
               m == mailbox[a]
    <2>1. w \in Seq(Commands) /\ m \in Seq(Commands) /\ Len(w) <= 1 /\ Len(w) \in Nat \ {0}
      <3>1. w \in Seq(Commands) /\ m \in Seq(Commands) /\ Len(w) <= 1
        BY DEF TypeOK, QueueTypeOK
      <3> QED BY <3>1, EmptySeq
    <2>2. Len(w) = 1
      <3>1. \A n \in Nat \ {0} : n <= 1 => n = 1
        OBVIOUS
      <3> QED BY ONLY <2>1, <3>1
    <2>3. w \o m # <<>> /\ Head(w \o m) = Head(w)
      BY ONLY <2>1, <2>2, TailOfConcat
    <2>4. InTransit(a) \in Seq(Commands) /\ InTransit(a) # <<>> /\ Head(InTransit(a)) = Head(w)
      BY <2>3, TransitType DEF InTransit
    <2>5. 1 \in DOMAIN InTransit(a) /\ InTransit(a)[1] = Head(w) /\ Head(w) \in Commands
      <3>1. /\ Len(InTransit(a)) \in Nat \ {0} /\ Head(InTransit(a)) = InTransit(a)[1]
            /\ DOMAIN InTransit(a) = 1 .. Len(InTransit(a)) /\ Head(InTransit(a)) \in Commands
        BY ONLY <2>4, EmptySeq, LenProperties, HeadTailProperties
      <3>2. \A n \in Nat \ {0} : 1 \in 1 .. n
        OBVIOUS
      <3> QED BY <2>4, <3>1, <3>2
    <2>6. r \in Runs /\ 1 \in Starts(a, r)
      BY <2>5 DEF Starts, Commands
    <2> QED BY <2>6 DEF OnceInv, StartIsFresh
  <1> QED BY <1>1, TypeCorrect, StartsComeOnce, PTL

(* No start comes out of nothing.                                          *)
LEMMA StartsCome ==
  ASSUME TypeOK, [Next]_vars, NEW a \in Agents, NEW r \in Runs, Starts(a, r)' # {}
  PROVE  Starts(a, r) # {} \/ MayStart(a, r)
  <1>1. CASE Takes(a)
    BY <1>1, TakenStarts
  <1>2. ASSUME NEW h \in Handlers, Deliver(h, a), pc[h] = "starting", reqRun[h] = r
        PROVE  MayStart(a, r)
    BY <1>2 DEF Deliver, MayStart, Pending
  <1> QED BY <1>1, <1>2, StartsStep

(* Run control implements the abstract delivery of starts.                 *)
LEMMA StageStep ==
  ASSUME TypeOK, OnceInv, [Next]_vars, NEW a \in Agents, NEW r \in Runs
  PROVE  Stage(a, r)' \in Delivery!After[Stage(a, r)]
  <1>0. StartIsFresh(a, r) /\ StartIsFresh(a, r)'
    BY StartIsFreshStep DEF OnceInv
  <1>1. MayStart(a, r)' => MayStart(a, r)
    BY MayStep
  <1>3. exec[a][r] = "none" /\ exec'[a][r] # "none" => Starts(a, r) # {}
    BY ExecBegins, ReceiveTakes, TakenStarts
  <1>4. Starts(a, r)' # {} => Starts(a, r) # {} \/ MayStart(a, r)
    BY StartsCome
  <1> QED BY <1>0, <1>1, <1>3, <1>4 DEF Stage, StartIsFresh, Delivery!After

(* A start of a run is sent to an agent once or never, received once or    *)
(* never, and never back once it is over, whatever handlers, agents and    *)
(* faults do, and also when a later process has the ID of the agent.       *)
THEOREM ImplementsDelivery == Spec => DeliverySpec
  <1>1. Init => Delivery!DeliveryInit
    <2>1. ASSUME Init, NEW a \in Agents, NEW r \in Runs PROVE Stage(a, r) = "open"
      BY <2>1 DEF Init, Stage, MayStart
    <2> QED BY <2>1 DEF Delivery!DeliveryInit
  <1>2. TypeOK /\ OnceInv /\ [Next]_vars => Delivery!DeliveryNext
    BY StageStep DEF Delivery!DeliveryNext
  <1> QED BY <1>1, <1>2, TypeCorrect, StartsComeOnce, PTL DEF Spec, DeliverySpec, Delivery!Spec
-----------------------------------------------------------------------------
(* A stop that was found after the request that starts its run had been    *)
(* served: nothing more of the run can come behind it, wherever it is.     *)
StopPcs == {"stopFound", "stopMarked", "stopping"}

StopIsLate ==
    /\ \A h \in Handlers : pc[h] \in StopPcs => runStatus[reqRun[h]] # "unused"
    /\ \A h \in Handlers : pc[h] \in StopPcs /\ reqRun[h] \notin raced =>
          \A g \in Handlers : ~StartsRun(g, reqRun[h])
    /\ \A a \in Agents : \A i \in DOMAIN InTransit(a) :
          InTransit(a)[i].type = "stop" =>
             LET r == InTransit(a)[i].run
             IN  r \in raced \/ (~MayStart(a, r) /\ \A j \in Starts(a, r) : j < i)
    /\ \A a \in Agents : \A r \in stopRecv[a] \ raced : ~MayStart(a, r) /\ Starts(a, r) = {}

(* The request that starts a run begins with the INSERT of its row.        *)
LEMMA StartsRunStep ==
  ASSUME TypeOK, [Next]_vars, NEW g \in Handlers, NEW r \in Runs, StartsRun(g, r)'
  PROVE  StartsRun(g, r) \/ runStatus[r] = "unused"
  <1>1. pc'[g] \in {"created", "starting"} /\ reqRun'[g] = r
    BY DEF StartsRun
  <1>2. \/ pc[g] \in {"created", "starting"} /\ reqRun'[g] = reqRun[g]
        \/ \E q \in Runs : RunCreate(g, q) /\ reqRun'[g] = q
    BY <1>1, HandlerStep DEF HandlerMoves, SameRequest, Deliver, RunMark
  <1> QED BY <1>1, <1>2 DEF StartsRun, RunCreate, Insert

(* A run that was raced, or a test that was contested, is so for ever.     *)
LEMMA HistoryForEver == [Next]_vars => raced \subseteq raced' /\ contested \subseteq contested'
  BY HistoryStep DEF RunMark, RunCheck, StopFind, historyVars

(* A handler in a stop request found its run now or before.                *)
LEMMA StopPcStep ==
  ASSUME TypeOK, [Next]_vars, NEW h \in Handlers, pc'[h] \in StopPcs
  PROVE  /\ reqRun'[h] \in Runs
         /\ \/ pc[h] \in StopPcs /\ reqRun'[h] = reqRun[h]
            \/ StopFind(h, reqRun'[h])
  <1>1. reqRun'[h] \in Runs
    BY TypeStep DEF TypeOK, RequestTypeOK, StopPcs
  <1>2. \/ pc[h] \in StopPcs /\ reqRun'[h] = reqRun[h]
        \/ StopFind(h, reqRun'[h])
    BY HandlerStep DEF HandlerMoves, SameRequest, Deliver, StopMark, StopTargets, StopPcs
  <1> QED BY <1>1, <1>2

LEMMA StopIsLateInit == Init => StopIsLate
  <1> SUFFICES ASSUME Init PROVE StopIsLate
    OBVIOUS
  <1>1. ASSUME NEW a \in Agents PROVE DOMAIN InTransit(a) = {}
    <2>1. wire[a] = <<>> /\ mailbox[a] = <<>>
      BY <1>1 DEF Init
    <2>2. <<>> \o <<>> = <<>> /\ DOMAIN <<>> = {}
      OBVIOUS
    <2> QED BY <2>1, <2>2 DEF InTransit
  <1> QED BY <1>1 DEF Init, AgentInit, StopIsLate, StopPcs

LEMMA StopIsLateStep ==
  ASSUME TypeOK, StopIsLate, [Next]_vars
  PROVE  StopIsLate'
  <1>r. raced \subseteq raced'
    BY HistoryForEver
  <1>1. ASSUME NEW h \in Handlers, pc'[h] \in StopPcs
        PROVE  runStatus[reqRun'[h]] # "unused" /\ runStatus'[reqRun'[h]] # "unused"
    <2>1. StopFind(h, reqRun'[h]) => runStatus[reqRun'[h]] # "unused"
      BY DEF StopFind, Rows
    <2>2. reqRun'[h] \in Runs /\ runStatus[reqRun'[h]] # "unused"
      BY <1>1, <2>1, StopPcStep DEF StopIsLate
    <2> QED BY <2>2, OnRecordForEver
  <1>5. ASSUME NEW h \in Handlers, pc'[h] \in StopPcs, NEW r \in Runs, r = reqRun'[h],
               r \notin raced', NEW g \in Handlers, StartsRun(g, r)'
        PROVE  FALSE
    <2>1. r \notin raced /\ runStatus[r] # "unused"
      BY <1>r, <1>1, <1>5
    <2>2. ~StartsRun(g, r)
      <3>1. CASE pc[h] \in StopPcs /\ r = reqRun[h]
        BY <2>1, <3>1 DEF StopIsLate
      <3>2. CASE StopFind(h, r)
        BY <1>5, <2>1, <3>2 DEF StopFind
      <3> QED BY <1>5, <3>1, <3>2, StopPcStep
    <2> QED BY <1>5, <2>1, <2>2, StartsRunStep
  <1>6. ASSUME NEW h \in Handlers, pc'[h] \in StopPcs, reqRun'[h] \notin raced'
        PROVE  \A g \in Handlers : ~(pc'[g] \in {"created", "starting"} /\ reqRun'[g] = reqRun'[h])
    <2>1. PICK r \in Runs : r = reqRun'[h]
      BY <1>6, StopPcStep
    <2> QED BY <1>5, <1>6, <2>1 DEF StartsRun
  <1>2. ASSUME NEW h \in Handlers, NEW a \in Agents, pc[h] = "stopping", reqRun[h] \notin raced
        PROVE  ~MayStart(a, reqRun[h])
    BY <1>2 DEF StopIsLate, StopPcs, StartsRun, MayStart, Pending
  <1>3. ASSUME NEW a \in Agents, NEW i \in DOMAIN InTransit(a)',
               InTransit(a)'[i].type = "stop",
               NEW r, r = InTransit(a)'[i].run, r \notin raced'
        PROVE  ~MayStart(a, r)' /\ \A j \in Starts(a, r)' : j < i
    <2>0. r \notin raced
      BY <1>r, <1>3
    <2> DEFINE n == Len(InTransit(a))
               m == Len(InTransit(a)')
               Before(k) == InTransit(a)[k]
               After(k)  == InTransit(a)'[k]
               IsStart(c) == c.type = "start" /\ c.run = r
    <2>1. /\ n \in Nat /\ m \in Nat /\ i \in 1 .. m
          /\ Starts(a, r) = {k \in 1 .. n : IsStart(Before(k))}
          /\ Starts(a, r)' = {k \in 1 .. m : IsStart(After(k))}
      BY PositionsStep DEF Starts
    <2>2. \A k \in 1 .. n : Before(k).type = "stop" /\ Before(k).run = r =>
                              ~MayStart(a, r) /\ \A j \in Starts(a, r) : j < k
      BY <2>0, PositionsStep DEF StopIsLate
    <2>3. r \in Runs
      <3>1. TypeOK'
        BY TypeStep
      <3>2. InTransit(a)' \in Seq(Commands)
        <4>1. wire'[a] \in Seq(Commands) /\ mailbox'[a] \in Seq(Commands)
          BY <3>1 DEF TypeOK, QueueTypeOK
        <4>2. wire'[a] \o mailbox'[a] \in Seq(Commands)
          BY ONLY <4>1, ConcatProperties
        <4> QED BY <4>2 DEF InTransit
      <3>3. After(i) \in Commands
        BY <2>1, <3>2, ElementOfSeq
      <3> QED BY <1>3, <3>3 DEF Commands
    <2>4. ~MayStart(a, r) => ~MayStart(a, r)'
      BY <2>3, MayStep
    <2>5. CASE m <= n /\ \A k \in 1 .. m : After(k) = Before(k)
      <3>1. i \in 1 .. n /\ After(i) = Before(i)
        BY <2>1, <2>5
      <3>2. Starts(a, r)' \subseteq Starts(a, r)
        <4> HIDE DEF n, m, Before, After
        <4> QED BY <2>1, <2>5
      <3> QED BY <1>3, <2>2, <2>4, <3>1, <3>2
    <2>6. ASSUME NEW h \in Handlers, Deliver(h, a), m = n + 1,
                 \A k \in 1 .. n : After(k) = Before(k), After(n + 1) = Command(h, a)
          PROVE  ~MayStart(a, r)' /\ \A j \in Starts(a, r)' : j < i
      <3>0. 1 .. m = (1 .. n) \cup {n + 1} /\ n + 1 \notin 1 .. n
        <4> HIDE DEF n, m
        <4> QED BY <2>1, <2>6
      <3>1. CASE i = n + 1
        <4>1. pc[h] = "stopping" /\ reqRun[h] = r
          BY <1>3, <2>6, <3>1 DEF Deliver, Command, Start, Stop
        <4>2. ~MayStart(a, r)
          BY <1>2, <2>0, <4>1
        <4>3. \A j \in Starts(a, r)' : j \in 1 .. n
          BY <1>3, <2>1, <3>0, <3>1
        <4>4. \A j \in 1 .. n : j < n + 1
          <5> HIDE DEF n
          <5> QED BY <2>1
        <4> QED BY <2>4, <3>1, <4>2, <4>3, <4>4
      <3>2. CASE i \in 1 .. n
        <4>1. ~MayStart(a, r) /\ \A j \in Starts(a, r) : j < i
          BY <1>3, <2>2, <2>6, <3>2
        <4>2. ~IsStart(Command(h, a))
          BY <2>6, <4>1 DEF Deliver, Command, Start, Stop, MayStart, Pending
        <4>3. Starts(a, r)' \subseteq Starts(a, r)
          <5> HIDE DEF n, m, Before, After
          <5> QED BY <2>1, <2>6, <3>0, <4>2
        <4> QED BY <2>4, <4>1, <4>3
      <3> QED BY <2>1, <3>0, <3>1, <3>2
    <2>7. CASE Takes(a)
      <3>1. /\ n \in Nat \ {0} /\ m = n - 1
            /\ \A k \in 1 .. m : After(k) = Before(k + 1)
        BY <2>7, TakenPositions
      <3>2. i + 1 \in 1 .. n /\ After(i) = Before(i + 1) /\ i \in Int
        <4> HIDE DEF n, m, Before, After
        <4> QED BY <2>1, <3>1
      <3>3. ~MayStart(a, r) /\ \A j \in Starts(a, r) : j < i + 1
        BY <1>3, <2>2, <3>2
      <3>4. \A j \in Starts(a, r)' : j \in Nat /\ j + 1 \in Starts(a, r)
        BY <2>3, <2>7, TakenStarts
      <3>5. \A j \in Starts(a, r)' : j < i
        <4> HIDE DEF n, m, Before, After
        <4> QED BY <3>2, <3>3, <3>4
      <3> QED BY <2>4, <3>3, <3>5
    <2> QED BY <2>5, <2>6, <2>7, PositionsStep DEF PositionsMove
  <1>4. ASSUME NEW a \in Agents, NEW r \in stopRecv'[a] \ raced'
        PROVE  ~MayStart(a, r)' /\ Starts(a, r)' = {}
    <2>0. r \in Runs /\ r \notin raced
      BY <1>r, TypeStep DEF TypeOK, AgentTypeOK
    <2>1. ~MayStart(a, r) => ~MayStart(a, r)'
      BY <2>0, MayStep
    <2>2. CASE r \in stopRecv[a]
      BY <2>0, <2>1, <2>2, StartsCome DEF StopIsLate
    <2>3. CASE wire[a] # <<>> /\ Receive(a) /\ Head(wire[a]).type = "stop" /\ Head(wire[a]).run = r
      <3>1. 1 \in DOMAIN InTransit(a) /\ InTransit(a)[1] = Head(wire[a])
        <4>1. \A n \in Nat \ {0} : 1 \in 1 .. n
          OBVIOUS
        <4> QED BY <2>3, <4>1, ReceiveTakes, TakenPositions
      <3>2. ~MayStart(a, r) /\ \A j \in Starts(a, r) : j < 1
        BY <2>0, <2>3, <3>1 DEF StopIsLate
      <3>3. Starts(a, r) = {}
        <4>1. \A j \in Starts(a, r) : j \in 1 .. Len(InTransit(a))
          BY <2>3, ReceiveTakes, TakenPositions DEF Starts
        <4>2. \A n \in Nat : \A j \in 1 .. n : ~(j < 1)
          OBVIOUS
        <4> QED BY <2>3, <3>2, <4>1, <4>2, ReceiveTakes, TakenPositions
      <3> QED BY <2>0, <2>1, <3>2, <3>3, StartsCome
    <2> QED BY <2>0, <2>2, <2>3, AgentKeeps
  <1> QED BY <1>1, <1>3, <1>4, <1>6 DEF StopIsLate, StartsRun

LEMMA StopIsLateAlways == Spec => []StopIsLate
  <1>1. TypeOK /\ StopIsLate /\ [Next]_vars => StopIsLate'
    BY StopIsLateStep
  <1> QED BY StopIsLateInit, <1>1, TypeCorrect, PTL DEF Spec

(* A stop that was found after the request that starts its run had been    *)
(* served never overtakes a start of the run, however many requests are    *)
(* served at once.                                                         *)
THEOREM StopComesAfterStart == Spec => []StopNeverOvertakesStart
  <1>1. StopIsLate => StopNeverOvertakesStart
    BY DEF StopIsLate, StopNeverOvertakesStart, MayStart
  <1> QED BY <1>1, StopIsLateAlways, PTL

(* The request that starts a run that was stopped has been served, unless  *)
(* a stop was found before: nothing sets the row back to running.          *)
StoppedIsServed ==
    \A r \in Runs \ raced :
        runStatus[r] = "stopped" => \A g \in Handlers : ~StartsRun(g, r)

LEMMA StoppedIsServedStep ==
  ASSUME TypeOK, StopIsLate, StoppedIsServed, [Next]_vars
  PROVE  StoppedIsServed'
  <1> SUFFICES ASSUME NEW r \in Runs, r \notin raced', runStatus'[r] = "stopped",
                      NEW g \in Handlers, StartsRun(g, r)'
               PROVE  FALSE
    BY DEF StoppedIsServed
  <1>1. r \notin raced
    BY HistoryForEver
  <1>2. StartsRun(g, r) \/ runStatus[r] = "unused"
    BY StartsRunStep
  <1>3. CASE runStatus[r] = "stopped"
    BY <1>1, <1>2, <1>3 DEF StoppedIsServed
  <1>4. ASSUME NEW h \in Handlers, StopMark(h), reqRun[h] = r PROVE FALSE
    BY <1>1, <1>2, <1>4 DEF StopMark, StopIsLate, StopPcs
  <1> USE DEF TypeOK, StoreTypeOK
  <1>5. ASSUME NEW h \in Handlers, NEW q \in Runs, Insert(h, q)
        PROVE  runStatus[r] = "stopped"
    BY <1>5 DEF Insert
  <1>6. ASSUME NEW h \in Handlers, RunMark(h) PROVE runStatus[r] = "stopped"
    BY <1>6 DEF RunMark, SetStatus, storeVars
  <1>7. ASSUME NEW h \in Handlers, StopMark(h), reqRun[h] # r PROVE runStatus[r] = "stopped"
    BY <1>7 DEF StopMark, SetStatus, storeVars
  <1>8. ASSUME NEW t \in Tests, DeleteTest(t) PROVE runStatus[r] = "stopped"
    BY <1>8 DEF DeleteTest
  <1> HIDE DEF TypeOK, StoreTypeOK
  <1> QED BY <1>3, <1>4, <1>5, <1>6, <1>7, <1>8, RowStep

LEMMA StoppedIsServedAlways == Spec => []StoppedIsServed
  <1>1. Init => StoppedIsServed
    BY DEF Init, StoppedIsServed
  <1>2. TypeOK /\ StopIsLate /\ StoppedIsServed /\ [Next]_vars => StoppedIsServed'
    BY StoppedIsServedStep
  <1> QED BY <1>1, <1>2, TypeCorrect, StopIsLateAlways, PTL DEF Spec

(* A run that was stopped stays stopped, or goes with its test, unless a   *)
(* stop of it was found while the request that starts it was served.       *)
THEOREM StoppedStaysStopped == Spec => StopIsFinal
  <1> DEFINE Final == \A r \in Runs \ raced :
                        runStatus[r] = "stopped" => runStatus'[r] \in {"stopped", "deleted"}
  <1>1. ASSUME StoppedIsServed, TypeOK, [Next]_vars PROVE Final
    <2> SUFFICES ASSUME NEW r \in Runs, r \notin raced, runStatus[r] = "stopped"
                 PROVE  runStatus'[r] \in {"stopped", "deleted"}
      OBVIOUS
    <2> USE <1>1 DEF TypeOK, StoreTypeOK
    <2>1. ASSUME NEW h \in Handlers, NEW q \in Runs, Insert(h, q)
          PROVE  runStatus'[r] = "stopped"
      BY <2>1 DEF Insert
    <2>2. ASSUME NEW h \in Handlers, RunMark(h) PROVE runStatus'[r] = "stopped"
      <3>1. reqRun[h] # r
        BY <2>2 DEF RunMark, StoppedIsServed, StartsRun
      <3> QED BY <2>2, <3>1 DEF RunMark, SetStatus, storeVars
    <2>3. ASSUME NEW h \in Handlers, StopMark(h) PROVE runStatus'[r] = "stopped"
      BY <2>3 DEF StopMark, SetStatus, storeVars
    <2>4. ASSUME NEW t \in Tests, DeleteTest(t)
          PROVE  runStatus'[r] \in {"stopped", "deleted"}
      BY <2>4 DEF DeleteTest
    <2> QED BY <2>1, <2>2, <2>3, <2>4, RowStep
  <1>2. StoppedIsServed /\ TypeOK /\ [Next]_vars => [Final]_vars
    BY <1>1
  <1> QED BY <1>2, StoppedIsServedAlways, TypeCorrect, PTL DEF Spec, StopIsFinal
-----------------------------------------------------------------------------
(* A step that inserts no row makes none active: only a stop that was      *)
(* found while the request that starts the run was served is overwritten.  *)
ActiveStatus == {"pending", "running"}

LEMMA ActiveStep ==
  ASSUME TypeOK, StoppedIsServed, [Next]_vars,
         NEW q \in Runs \ raced, runStatus'[q] \in ActiveStatus
  PROVE  \/ runStatus[q] \in ActiveStatus /\ testOf'[q] = testOf[q]
         \/ \E h \in Handlers : /\ Insert(h, q) /\ pc[h] = "allocated" /\ pc'[h] \in {"created", "free"}
                                /\ testOf'[q] = reqTest[h]
  <1> USE DEF TypeOK, StoreTypeOK, ActiveStatus
  <1>1. CASE UNCHANGED <<runStatus, testOf, runTotal>>
    BY <1>1
  <1>2. ASSUME NEW h \in Handlers, NEW r \in Runs, Insert(h, r), pc[h] = "allocated",
               RunCreate(h, r) \/ Return(h)
        PROVE  \/ runStatus[q] \in ActiveStatus /\ testOf'[q] = testOf[q]
               \/ /\ Insert(h, q) /\ pc'[h] \in {"created", "free"}
                  /\ testOf'[q] = reqTest[h]
    <2>1. CASE q = r
      <3>1. testOf'[r] = reqTest[h]
        BY <1>2 DEF Insert
      <3>2. pc'[h] \in {"created", "free"}
        BY <1>2 DEF RunCreate, Return, RequestTypeOK
      <3> QED BY <1>2, <2>1, <3>1, <3>2
    <2>2. CASE q # r
      <3>1. runStatus'[q] = runStatus[q] /\ testOf'[q] = testOf[q]
        BY <1>2, <2>2 DEF Insert
      <3> QED BY <3>1
    <2> QED BY <2>1, <2>2
  <1>3. ASSUME NEW h \in Handlers, RunMark(h)
        PROVE  runStatus[q] \in ActiveStatus /\ testOf'[q] = testOf[q]
    <2>1. CASE reqRun[h] = q
      <3>1. runStatus[q] # "stopped"
        BY <1>3, <2>1 DEF RunMark, StoppedIsServed, StartsRun
      <3> QED BY <1>3, <2>1, <3>1 DEF RunMark, SetStatus, Rows, storeVars
    <2>2. CASE reqRun[h] # q
      BY <1>3, <2>2 DEF RunMark, SetStatus, storeVars
    <2> QED BY <2>1, <2>2
  <1>4. ASSUME NEW h \in Handlers, StopMark(h)
        PROVE  runStatus[q] \in ActiveStatus /\ testOf'[q] = testOf[q]
    BY <1>4 DEF StopMark, SetStatus, storeVars
  <1>5. ASSUME NEW t \in Tests, DeleteTest(t)
        PROVE  runStatus[q] \in ActiveStatus /\ testOf'[q] = testOf[q]
    BY <1>5 DEF DeleteTest
  <1> QED BY <1>1, <1>2, <1>3, <1>4, <1>5, RowStep

(* A request that is past its check was so before, or its check is the     *)
(* step: then the test had no active run and no other such request, or is  *)
(* contested.                                                              *)
LEMMA InsertingStep ==
  ASSUME TypeOK, [Next]_vars, NEW h \in Handlers, NEW t, Inserting(h, t)'
  PROVE  \/ Inserting(h, t)
         \/ /\ RunCheck(h) /\ UNCHANGED storeVars
            /\ \/ t \in contested'
               \/ Active(t) = {} /\ \A g \in Handlers : ~Inserting(g, t)
  <1>1. \/ pc[h] \in {"checked", "allocated"} /\ reqTest'[h] = reqTest[h]
        \/ RunCheck(h) /\ reqTest'[h] = reqTest[h]
    BY HandlerStep DEF HandlerMoves, SameRequest, Deliver, RunAllocate, Inserting
  <1>2. ASSUME RunCheck(h), reqTest[h] = t
        PROVE  /\ UNCHANGED storeVars
               /\ \/ t \in contested'
                  \/ Active(t) = {} /\ \A g \in Handlers : ~Inserting(g, t)
    BY <1>2 DEF RunCheck
  <1> QED BY <1>1, <1>2 DEF Inserting

(* Of a test that is not contested, one request at most is past its check, *)
(* and while it is, no run of the test is active.                          *)
CheckHolds ==
    \A h \in Handlers, t \in Tests \ contested : Inserting(h, t) =>
        /\ \A q \in Runs \ raced : testOf[q] = t => runStatus[q] \notin ActiveStatus
        /\ \A g \in Handlers : Inserting(g, t) => g = h

LEMMA CheckHoldsStep ==
  ASSUME TypeOK, StoppedIsServed, CheckHolds, [Next]_vars
  PROVE  CheckHolds'
  <1> SUFFICES ASSUME NEW h \in Handlers, NEW t \in Tests \ contested', Inserting(h, t)'
               PROVE  /\ \A q \in Runs \ raced' : testOf'[q] = t => runStatus'[q] \notin ActiveStatus
                      /\ \A g \in Handlers : Inserting(g, t)' => g = h
    BY DEF CheckHolds
  <1>0. t \notin contested /\ raced \subseteq raced'
    BY HistoryForEver
  <1>1. ASSUME NEW q \in Runs \ raced', testOf'[q] = t, runStatus'[q] \in ActiveStatus
        PROVE  FALSE
    <2>1. CASE runStatus[q] \in ActiveStatus /\ testOf'[q] = testOf[q]
      <3>1. ~Inserting(h, t)
        BY <1>0, <1>1, <2>1 DEF CheckHolds
      <3>2. q \in Active(t)
        BY <1>1, <2>1 DEF Active, Rows, ActiveStatus
      <3> QED BY <3>1, <3>2, InsertingStep
    <2>2. ASSUME NEW g \in Handlers, Insert(g, q), pc[g] = "allocated",
                 pc'[g] \in {"created", "free"}, testOf'[q] = reqTest[g]
          PROVE  FALSE
      <3>1. Inserting(g, t) /\ ~Inserting(g, t)'
        BY <1>1, <2>2 DEF Inserting
      <3>2. runStatus'[q] # runStatus[q]
        BY <2>2 DEF Insert, TypeOK, StoreTypeOK
      <3>3. Inserting(h, t)
        BY <3>2, InsertingStep DEF storeVars
      <3> QED BY <1>0, <3>1, <3>3 DEF CheckHolds
    <2> QED BY <1>0, <1>1, <2>1, <2>2, ActiveStep
  <1>2. ASSUME NEW g \in Handlers, Inserting(g, t)', g # h
        PROVE  FALSE
    <2>1. Inserting(h, t) \/ (RunCheck(h) /\ ~Inserting(g, t))
      BY InsertingStep
    <2>2. Inserting(g, t) \/ (RunCheck(g) /\ ~Inserting(h, t))
      BY <1>2, InsertingStep
    <2>3. ~(Inserting(h, t) /\ Inserting(g, t))
      BY <1>0, <1>2 DEF CheckHolds
    <2>4. ~(RunCheck(h) /\ RunCheck(g))
      <3>1. ASSUME RunCheck(h), RunCheck(g) PROVE FALSE
        <4>1. pc[g] = "found" /\ pc' = [pc EXCEPT ![h] = "checked"] /\ pc' = [pc EXCEPT ![g] = "checked"]
          BY <3>1 DEF RunCheck
        <4> QED BY <1>2, <4>1 DEF TypeOK, RequestTypeOK
      <3> QED BY <3>1
    <2> QED BY <2>1, <2>2, <2>3, <2>4
  <1> QED BY <1>1, <1>2

LEMMA OneActiveStep ==
  ASSUME TypeOK, StoppedIsServed, CheckHolds, UncontestedTestsRunOnce, [Next]_vars
  PROVE  UncontestedTestsRunOnce'
  <1> SUFFICES ASSUME NEW r \in Runs \ raced', NEW q \in Runs \ raced',
                      testOf'[r] = testOf'[q], r # q, testOf'[r] \notin contested',
                      runStatus'[r] \in ActiveStatus, runStatus'[q] \in ActiveStatus
               PROVE  FALSE
    BY DEF UncontestedTestsRunOnce, ActiveStatus
  <1> DEFINE Was(p) == runStatus[p] \in ActiveStatus /\ testOf'[p] = testOf[p]
             Comes(p) == \E h \in Handlers : /\ Insert(h, p) /\ pc[h] = "allocated"
                                             /\ testOf'[p] = reqTest[h]
  <1>0. contested \subseteq contested' /\ raced \subseteq raced'
    BY HistoryForEver
  <1>1. (Was(r) \/ Comes(r)) /\ (Was(q) \/ Comes(q))
    BY <1>0, ActiveStep
  <1>2. ~(Was(r) /\ Was(q))
    BY <1>0 DEF UncontestedTestsRunOnce, ActiveStatus
  <1>3. ASSUME NEW p \in Runs \ raced', NEW o \in Runs, Was(p), Comes(o),
               testOf'[p] = testOf'[o], testOf'[o] \notin contested'
        PROVE  FALSE
    <2>1. PICK h \in Handlers : /\ Insert(h, o) /\ pc[h] = "allocated"
                                /\ testOf'[o] = reqTest[h]
      BY <1>3
    <2>2. reqTest[h] \in Tests
      BY <2>1 DEF Insert, TypeOK, StoreTypeOK
    <2> QED BY <1>0, <1>3, <2>1, <2>2 DEF CheckHolds, Inserting
  <1>4. ~(Comes(r) /\ Comes(q))
    <2>1. ASSUME NEW h \in Handlers, NEW g \in Handlers, Insert(h, r), Insert(g, q)
          PROVE  FALSE
      <3>1. runStatus'[q] = runStatus[q] /\ runStatus[q] = "unused"
        BY <2>1 DEF Insert, TypeOK, StoreTypeOK
      <3> QED BY <3>1 DEF ActiveStatus
    <2> QED BY <2>1
  <1> HIDE DEF Was, Comes
  <1> QED BY <1>1, <1>2, <1>3, <1>4

(* Two runs of a test are active only if two requests for the test were    *)
(* between check and INSERT at once, a check failed, or a stop of one was  *)
(* found while the request that starts it was served: for any number of    *)
(* handlers (runTest, handler.go:341-441) and under every fault.           *)
THEOREM OneActiveRun == Spec => []UncontestedTestsRunOnce
  <1>1. Init => CheckHolds /\ UncontestedTestsRunOnce
    BY DEF Init, CheckHolds, Inserting, UncontestedTestsRunOnce
  <1>2. TypeOK /\ StoppedIsServed /\ CheckHolds /\ UncontestedTestsRunOnce /\ [Next]_vars
          => (CheckHolds /\ UncontestedTestsRunOnce)'
    BY CheckHoldsStep, OneActiveStep
  <1> QED BY <1>1, <1>2, TypeCorrect, StoppedIsServedAlways, PTL DEF Spec
-----------------------------------------------------------------------------
(* The VUsers committed to a run on an agent are in one place: still to be *)
(* queued by a handler, in the start on its way, or with the agent.        *)
CommittedOnce ==
    \A a \in Agents, r \in Runs :
        /\ Committed(a, r) \in Nat
        /\ load[a][r] \in Nat /\ load[a][r] <= Committed(a, r)
        /\ \A h \in Pending(a, r) : Committed(a, r) = assign[h][a]
        /\ \A i \in Starts(a, r) : Committed(a, r) = InTransit(a)[i].vusers
        /\ Pending(a, r) = {} /\ Starts(a, r) = {} => Committed(a, r) = load[a][r]

LEMMA CommittedIsOnce == TypeOK /\ OnceInv => CommittedOnce
  <1> SUFFICES ASSUME TypeOK, OnceInv, NEW a \in Agents, NEW r \in Runs
               PROVE  /\ Committed(a, r) \in Nat
                      /\ load[a][r] \in Nat /\ load[a][r] <= Committed(a, r)
                      /\ \A h \in Pending(a, r) : Committed(a, r) = assign[h][a]
                      /\ \A i \in Starts(a, r) : Committed(a, r) = InTransit(a)[i].vusers
                      /\ Pending(a, r) = {} /\ Starts(a, r) = {} => Committed(a, r) = load[a][r]
    BY DEF CommittedOnce
  <1> DEFINE P == Pending(a, r)
             S == Starts(a, r)
             f == [h \in Handlers |-> assign[h][a]]
             g == [i \in DOMAIN InTransit(a) |-> InTransit(a)[i].vusers]
  <1>0. StartIsFresh(a, r) /\ OneRequestPerRun
    BY DEF OnceInv
  <1>1. \A h \in P : f[h] = assign[h][a] /\ f[h] \in Nat
    BY DEF Pending, TypeOK, RequestTypeOK
  <1>2. \A h, k \in P : h = k
    BY <1>0 DEF OneRequestPerRun, Pending
  <1>3. \A i \in S : g[i] = InTransit(a)[i].vusers /\ g[i] \in Nat
    <2>1. InTransit(a) \in Seq(Commands)
      BY TransitType
    <2>2. \A i \in DOMAIN InTransit(a) : InTransit(a)[i] \in Commands
      BY ONLY <2>1, LenProperties, ElementOfSeq
    <2> QED BY <2>2 DEF Starts, Commands
  <1>4. \A i, j \in S : i = j
    BY <1>0 DEF StartIsFresh
  <1>5. load[a][r] \in Nat
    BY DEF TypeOK, QueueTypeOK
  <1>6. P # {} => S = {} /\ load[a][r] = 0
    BY <1>0 DEF StartIsFresh, MayStart
  <1>7. S # {} => load[a][r] = 0
    BY <1>0 DEF StartIsFresh
  <1>8. Committed(a, r) = load[a][r] + SumFunctionOnSet(g, S) + SumFunctionOnSet(f, P)
    BY DEF Committed, SentLoad, DueLoad
  <1> HIDE DEF f, g, P, S
  <1>9. /\ P = {} => SumFunctionOnSet(f, P) = 0
        /\ \A h \in P : SumFunctionOnSet(f, P) = f[h]
        /\ SumFunctionOnSet(f, P) \in Nat
    BY <1>1, <1>2, SumOfOne
  <1>10. /\ S = {} => SumFunctionOnSet(g, S) = 0
         /\ \A i \in S : SumFunctionOnSet(g, S) = g[i]
         /\ SumFunctionOnSet(g, S) \in Nat
    BY <1>3, <1>4, SumOfOne
  <1>11. Committed(a, r) \in Nat /\ load[a][r] <= Committed(a, r)
    BY <1>5, <1>8, <1>9, <1>10
  <1>12. \A h \in P : Committed(a, r) = assign[h][a]
    BY <1>1, <1>6, <1>8, <1>9, <1>10
  <1>13. \A i \in S : Committed(a, r) = InTransit(a)[i].vusers
    BY <1>3, <1>6, <1>7, <1>8, <1>9, <1>10
  <1>14. P = {} /\ S = {} => Committed(a, r) = load[a][r]
    BY <1>5, <1>8, <1>9, <1>10
  <1> QED BY <1>5, <1>11, <1>12, <1>13, <1>14 DEF P, S

LEMMA CommittedIsOnceNext == TypeOK' /\ OnceInv' => CommittedOnce'
  BY CommittedIsOnce, PTL

(* Only the step that marks a run commits VUsers to it: what is sent, lost *)
(* and received afterwards never adds to them.                             *)
LEMMA CommittedStep ==
  ASSUME TypeOK, OnceInv, TypeOK', OnceInv', [Next]_vars, NEW a \in Agents, NEW r \in Runs,
         ~ \E h \in Handlers : RunMark(h) /\ reqRun[h] = r
  PROVE  Committed(a, r)' <= Committed(a, r)
  <1>0. CommittedOnce /\ CommittedOnce'
    BY CommittedIsOnce, CommittedIsOnceNext
  <1>1. ASSUME NEW h \in Pending(a, r)' PROVE Committed(a, r)' <= Committed(a, r)
    <2>1. h \in Pending(a, r) /\ assign'[h] = assign[h]
      BY <1>1, HandlerStep DEF Pending, HandlerMoves, SameRequest, Deliver
    <2>2. Committed(a, r)' = assign'[h][a] /\ Committed(a, r) = assign[h][a]
      BY <1>0, <1>1, <2>1 DEF CommittedOnce
    <2> QED BY <1>0, <2>1, <2>2 DEF CommittedOnce
  <1>2. ASSUME NEW i \in Starts(a, r)' PROVE Committed(a, r)' <= Committed(a, r)
    <2>0. Committed(a, r)' = InTransit(a)'[i].vusers /\ Committed(a, r) \in Nat
      BY <1>0, <1>2 DEF CommittedOnce
    <2>1. CASE i \in Starts(a, r) /\ InTransit(a)'[i] = InTransit(a)[i]
      BY <1>0, <2>0, <2>1 DEF CommittedOnce
    <2>2. ASSUME NEW h \in Handlers, NEW j \in Nat, Deliver(h, a), pc[h] = "starting",
                 reqRun[h] = r, Starts(a, r)' = Starts(a, r) \cup {j},
                 InTransit(a)'[j] = Command(h, a)
          PROVE  Committed(a, r)' <= Committed(a, r)
      <3>1. h \in Pending(a, r)
        BY <2>2 DEF Deliver, Pending
      <3>2. Starts(a, r) = {}
        BY <3>1 DEF OnceInv, StartIsFresh, MayStart
      <3>3. InTransit(a)'[i].vusers = assign[h][a]
        BY <1>2, <2>2, <3>2 DEF Command, Start
      <3> QED BY <1>0, <2>0, <3>1, <3>3 DEF CommittedOnce
    <2>3. CASE Takes(a)
      <3>1. i + 1 \in Starts(a, r) /\ InTransit(a)'[i] = InTransit(a)[i + 1]
        BY <1>2, <2>3, TakenStarts
      <3> QED BY <1>0, <2>0, <3>1 DEF CommittedOnce
    <2> QED BY <1>2, <2>1, <2>2, <2>3, StartsStep
  <1>3. CASE Pending(a, r)' = {} /\ Starts(a, r)' = {}
    <2>1. Committed(a, r)' = load'[a][r]
      BY <1>0, <1>3 DEF CommittedOnce
    <2>2. CASE load'[a][r] = load[a][r]
      BY <1>0, <2>1, <2>2 DEF CommittedOnce
    <2>3. CASE /\ Receive(a) /\ Head(wire[a]).type = "start" /\ Head(wire[a]).run = r
               /\ load'[a][r] = Head(wire[a]).vusers
      <3>1. 1 \in Starts(a, r) /\ InTransit(a)[1] = Head(wire[a])
        BY <2>3, ReceiveTakes, TakenStarts
      <3> QED BY <1>0, <2>1, <2>3, <3>1 DEF CommittedOnce
    <2> QED BY <2>2, <2>3, AgentKeeps
  <1> QED BY <1>1, <1>2, <1>3

(* When a run is marked, its assignments are committed.                    *)
LEMMA MarkCommits ==
  ASSUME TypeOK, OnceInv, TypeOK', OnceInv', NEW a \in Agents, NEW r \in Runs,
         NEW h \in Handlers, RunMark(h), reqRun[h] = r
  PROVE  Committed(a, r)' <= assign[h][a]
  <1>0. /\ CommittedOnce' /\ StartIsFresh(a, r) /\ assign[h][a] \in Nat
        /\ pc[h] = "created"
    BY CommittedIsOnceNext DEF RunMark, TypeOK, RequestTypeOK, OnceInv
  <1>1. Starts(a, r) = {} /\ load[a][r] = 0
    BY <1>0 DEF StartIsFresh, MayStart
  <1>2. /\ UNCHANGED <<wire, mailbox, load, reqRun, assign>>
        /\ \A g \in Handlers \ {h} : pc'[g] = pc[g]
    BY DEF RunMark, registryVars, netVars, TypeOK, RequestTypeOK
  <1>3. Starts(a, r)' = {} /\ load'[a][r] = 0
    BY <1>1, <1>2 DEF Starts, InTransit
  <1>4. \A g \in Pending(a, r)' : g = h /\ assign'[g] = assign[h]
    <2>1. ASSUME NEW g \in Pending(a, r)', g # h PROVE FALSE
      <3>1. g \in Handlers /\ pc[g] = "starting" /\ reqRun[g] = r
        BY <1>2, <2>1 DEF Pending
      <3> QED BY <1>0, <2>1, <3>1 DEF OnceInv, OneRequestPerRun
    <2> QED BY <1>2, <2>1
  <1>5. Committed(a, r)' = assign[h][a] \/ Committed(a, r)' = 0
    BY <1>0, <1>3, <1>4 DEF CommittedOnce
  <1> QED BY <1>0, <1>5

(* The total recorded for a run stays.                                     *)
LEMMA TotalStays ==
  ASSUME TypeOK, [Next]_vars, NEW r \in Runs, runStatus[r] # "unused"
  PROVE  runTotal'[r] = runTotal[r]
  <1>1. ASSUME NEW h \in Handlers, NEW q \in Runs, Insert(h, q) PROVE runTotal'[r] = runTotal[r]
    BY <1>1 DEF Insert
  <1>2. ASSUME NEW h \in Handlers, RunMark(h) \/ StopMark(h) PROVE runTotal' = runTotal
    BY <1>2 DEF RunMark, StopMark, SetStatus, storeVars
  <1>3. ASSUME NEW t \in Tests, DeleteTest(t) PROVE runTotal' = runTotal
    BY <1>3 DEF DeleteTest
  <1> QED BY <1>1, <1>2, <1>3, RowStep

(* A request shares the total it asks for, and no more.                    *)
RequestIsShared ==
    \A h \in Handlers :
        /\ pc[h] \in {"allocated", "created"} =>
              SumFunctionOnSet(assign[h], Agents) <= reqTotal[h]
        /\ pc[h] = "created" => runTotal[reqRun[h]] = reqTotal[h]

LEMMA RequestIsSharedStep ==
  ASSUME TypeOK, OnceInv, RequestIsShared, [Next]_vars
  PROVE  RequestIsShared'
  <1> SUFFICES ASSUME NEW h \in Handlers
               PROVE  /\ pc'[h] \in {"allocated", "created"} =>
                            SumFunctionOnSet(assign'[h], Agents) <= reqTotal'[h]
                      /\ pc'[h] = "created" => runTotal'[reqRun'[h]] = reqTotal'[h]
    BY DEF RequestIsShared
  <1>1. ASSUME pc'[h] \in {"allocated", "created"}
        PROVE  SumFunctionOnSet(assign'[h], Agents) <= reqTotal'[h]
    <2>1. CASE RunAllocate(h)
      <3>0. PICK total \in Totals : \E share \in Allocations(total, Online) :
               /\ reqTotal' = [reqTotal EXCEPT ![h] = total]
               /\ assign' = [assign EXCEPT ![h] =
                               [a \in Agents |-> IF a \in Online THEN share[a] ELSE 0]]
        BY <2>1 DEF RunAllocate
      <3>1. PICK share \in Allocations(total, Online) :
               /\ reqTotal' = [reqTotal EXCEPT ![h] = total]
               /\ assign' = [assign EXCEPT ![h] =
                               [a \in Agents |-> IF a \in Online THEN share[a] ELSE 0]]
        BY <3>0
      <3> DEFINE f == [a \in Agents |-> IF a \in Online THEN share[a] ELSE 0]
      <3>2. assign'[h] = f /\ reqTotal'[h] = total
        BY <3>1 DEF TypeOK, RequestTypeOK
      <3>3. /\ total \in Nat /\ Online # {} /\ Online \in SUBSET Agents
            /\ IsFiniteSet(Online) /\ IsFiniteSet(Agents)
        BY <2>1, FS_Subset, TotalsAssumption, FiniteAgentsAssumption DEF RunAllocate, Online
      <3>4. \A a \in Online : share[a] \in Nat
        BY <3>3, AllocationIsEven
      <3>5. \A a \in Agents : f[a] \in Nat /\ (a \notin Online => f[a] = 0)
        BY <3>4
      <3>6. \A a \in Online : f[a] \in Nat /\ f[a] = share[a]
        BY <3>3, <3>4
      <3> HIDE DEF f
      <3>7. SumFunctionOnSet(f, Agents) = SumFunctionOnSet(f, Online)
        BY <3>3, <3>5, SumIgnoresZeros
      <3>8. SumFunctionOnSet(f, Online) = SumFunctionOnSet(share, Online)
        BY <3>3, <3>6, SumOfEquals
      <3>9. SumFunctionOnSet(share, Online) = total
        BY <3>3, AllocationIsTotal
      <3> QED BY <3>2, <3>3, <3>7, <3>8, <3>9
    <2>2. ASSUME pc[h] \in {"allocated", "created"}, assign'[h] = assign[h],
                 reqTotal'[h] = reqTotal[h]
          PROVE  SumFunctionOnSet(assign'[h], Agents) <= reqTotal'[h]
      BY <2>2 DEF RequestIsShared
    <2> QED BY <1>1, <2>1, <2>2, HandlerStep DEF HandlerMoves, SameRequest, Deliver, RunCreate
  <1>2. ASSUME pc'[h] = "created" PROVE runTotal'[reqRun'[h]] = reqTotal'[h]
    <2>1. ASSUME NEW r \in Runs, RunCreate(h, r), reqRun'[h] = r PROVE runTotal'[r] = reqTotal'[h]
      BY <2>1 DEF RunCreate, Insert, TypeOK, StoreTypeOK
    <2>2. ASSUME pc[h] = "created", reqRun'[h] = reqRun[h], reqTotal'[h] = reqTotal[h]
          PROVE  runTotal'[reqRun'[h]] = reqTotal'[h]
      <3> DEFINE r == reqRun[h]
      <3>1. runTotal[r] = reqTotal[h] /\ runStatus[r] # "unused" /\ r \in Runs
        BY <2>2 DEF RequestIsShared, OnceInv, OneRequestPerRun, TypeOK, RequestTypeOK
      <3> HIDE DEF r
      <3>2. runTotal'[r] = runTotal[r]
        BY <3>1, TotalStays
      <3> QED BY <2>2, <3>1, <3>2 DEF r
    <2> QED BY <1>2, <2>1, <2>2, HandlerStep DEF HandlerMoves, SameRequest, Deliver
  <1> QED BY <1>1, <1>2

LoadInv == RequestIsShared /\ LoadWithinRequest

LEMMA LoadInitInv == Init => LoadInv
  <1> SUFFICES ASSUME Init PROVE LoadInv
    OBVIOUS
  <1>1. RequestIsShared
    BY DEF Init, RequestIsShared
  <1>2. ASSUME NEW r \in Runs
        PROVE  SumFunction([a \in Agents |-> Committed(a, r)]) <= runTotal[r]
    <2> DEFINE f == [a \in Agents |-> Committed(a, r)]
    <2>1. CommittedOnce
      BY InitTypeOK, OnceInit, CommittedIsOnce
    <2>2. \A a \in Agents : Pending(a, r) = {} /\ load[a][r] = 0
      BY DEF Init, Pending
    <2>3. \A a \in Agents : Starts(a, r) = {}
      BY OnceInit DEF Init, OnceInv, StartIsFresh, MayStart
    <2>4. \A a \in Agents : f[a] = 0
      BY <2>1, <2>2, <2>3 DEF CommittedOnce
    <2> HIDE DEF f
    <2>5. SumFunctionOnSet(f, Agents) = SumFunctionOnSet(f, {})
      BY <2>4, SumIgnoresZeros, FiniteAgentsAssumption
    <2>6. SumFunctionOnSet(f, Agents) = 0
      BY <2>5, SumOfOne
    <2> QED BY <2>6 DEF f, SumFunction, Init
  <1> QED BY <1>1, <1>2 DEF LoadInv, LoadWithinRequest

LEMMA LoadStep ==
  ASSUME TypeOK, OnceInv, LoadInv, [Next]_vars
  PROVE  LoadInv'
  <1>0. /\ TypeOK' /\ OnceInv' /\ CommittedOnce /\ CommittedOnce'
    <2>1. OnceInv'
      BY OneRequestStep, StartIsFreshStep DEF OnceInv
    <2> QED BY <2>1, TypeStep, CommittedIsOnce, CommittedIsOnceNext
  <1>1. RequestIsShared'
    BY RequestIsSharedStep DEF LoadInv
  <1>2. ASSUME NEW r \in Runs
        PROVE  SumFunction([a \in Agents |-> Committed(a, r)'])
                 <= runTotal'[r]
    <2> DEFINE f == [a \in Agents |-> Committed(a, r)]
               g == [a \in Agents |-> Committed(a, r)']
    <2>0. IsFiniteSet(Agents) /\ SumFunctionOnSet(f, Agents) <= runTotal[r]
      BY FiniteAgentsAssumption DEF LoadInv, LoadWithinRequest, SumFunction
    <2>1. \A a \in Agents : f[a] \in Nat /\ g[a] \in Nat
      BY <1>0 DEF CommittedOnce
    <2>2. runTotal[r] \in Nat /\ runTotal'[r] \in Nat
      BY <1>0 DEF TypeOK, StoreTypeOK
    <2>3. SumFunctionOnSet(f, Agents) \in Nat /\ SumFunctionOnSet(g, Agents) \in Nat
      <3> HIDE DEF f, g
      <3> QED BY <2>0, <2>1, SumType
    <2>4. ASSUME NEW h \in Handlers, RunMark(h), reqRun[h] = r
          PROVE  SumFunctionOnSet(g, Agents) <= runTotal'[r]
      <3>1. /\ SumFunctionOnSet(assign[h], Agents) <= reqTotal[h] /\ reqTotal[h] = runTotal[r]
            /\ runTotal'[r] = runTotal[r]
        BY <2>4, TotalStays DEF LoadInv, RequestIsShared, OnceInv, OneRequestPerRun, RunMark
      <3>2. \A a \in Agents : assign[h][a] \in Nat /\ g[a] <= assign[h][a]
        BY <1>0, <2>4, MarkCommits DEF TypeOK, RequestTypeOK
      <3> HIDE DEF g
      <3>3. SumFunctionOnSet(g, Agents) <= SumFunctionOnSet(assign[h], Agents)
        BY <2>0, <2>1, <3>2, SumMonotone
      <3>4. SumFunctionOnSet(assign[h], Agents) \in Nat
        BY <2>0, <3>2, SumType
      <3> QED BY <2>2, <2>3, <3>1, <3>3, <3>4
    <2>5. ASSUME ~ \E h \in Handlers : RunMark(h) /\ reqRun[h] = r
          PROVE  SumFunctionOnSet(g, Agents) <= runTotal'[r]
      <3>1. \A a \in Agents : g[a] <= f[a]
        BY <1>0, <2>5, CommittedStep
      <3>2. CASE runStatus[r] # "unused"
        <4>1. runTotal'[r] = runTotal[r]
          BY <3>2, TotalStays
        <4> HIDE DEF f, g
        <4>2. SumFunctionOnSet(g, Agents) <= SumFunctionOnSet(f, Agents)
          BY <2>0, <2>1, <3>1, SumMonotone
        <4> QED BY <2>0, <2>2, <2>3, <4>1, <4>2
      <3>3. CASE runStatus[r] = "unused"
        <4>1. \A a \in Agents : Starts(a, r) = {} /\ load[a][r] = 0
          BY <3>3 DEF OnceInv, StartIsFresh, MayStart
        <4>2. \A a \in Agents : Pending(a, r) = {}
          BY <3>3 DEF OnceInv, OneRequestPerRun, Pending
        <4>3. \A a \in Agents : f[a] = 0
          BY <1>0, <4>1, <4>2 DEF CommittedOnce
        <4> HIDE DEF f, g
        <4>4. \A a \in Agents : g[a] \in Nat /\ g[a] = 0
          BY <2>1, <3>1, <4>3
        <4>5. SumFunctionOnSet(g, Agents) = SumFunctionOnSet(g, {})
          BY <2>0, <4>4, SumIgnoresZeros
        <4>6. SumFunctionOnSet(g, Agents) = 0
          BY <4>5, SumOfOne
        <4> QED BY <2>2, <4>6
      <3> QED BY <3>2, <3>3
    <2> QED BY <2>4, <2>5 DEF SumFunction
  <1>3. LoadWithinRequest'
    BY <1>2 DEF LoadWithinRequest
  <1> QED BY <1>1, <1>3 DEF LoadInv

(* The VUsers at work for a run never exceed the total recorded for it,    *)
(* however many agents share it, whatever happens to them, to the commands *)
(* and to the controller.                                                  *)
THEOREM LoadIsBounded == Spec => []LoadWithinRequest
  <1>1. TypeOK /\ OnceInv /\ LoadInv /\ [Next]_vars => LoadInv'
    BY LoadStep
  <1>2. LoadInv => LoadWithinRequest
    BY DEF LoadInv
  <1> QED BY LoadInitInv, <1>1, <1>2, TypeCorrect, StartsComeOnce, PTL DEF Spec
=============================================================================
