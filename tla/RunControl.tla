----------------------------- MODULE RunControl -----------------------------
(***************************************************************************)
(* How the controller runs and stops tests on its agents: the REST         *)
(* handlers (internal/api/handler.go) as goroutines whose steps are their  *)
(* accesses to the database and to the AgentManager, the test_runs table   *)
(* (internal/store/postgres.go), the registry with one bounded command     *)
(* channel per agent (internal/controller/agent_manager.go), the HTTP poll *)
(* that carries a command, and the agents of module Agent.                 *)
(*                                                                         *)
(* Simplifications: a call whose first lookup finds nothing changes no     *)
(* state and is left out; WebSocket events and responses are left out;     *)
(* clients may call at any time.  A lookup and the channel operation       *)
(* behind it are one step: what is sent to the channel of an agent removed *)
(* in between goes nowhere either way.                                     *)
(***************************************************************************)
EXTENDS Agent, VUserShare, Sequences, SequencesExt, Functions

CONSTANTS Handlers,  \* goroutines that serve REST calls
          Tests,     \* test definitions
          NoTest,
          Totals,    \* VUsers a run may ask for
          QueueCap,  \* capacity of a command channel (10 in the code)
          MaxCalls,  \* bound of the model on the REST calls served
          Faults     \* what may go wrong in this instance, of FaultKinds

FaultKinds == {"db",       \* a database call fails, if only because the client hung up
                           \* (r.Context); a failed INSERT may have committed
               "lost",     \* the response to a poll does not reach the agent
               "late",     \* a live agent's heartbeats are late by 30 s
               "crash",    \* agent processes crash
               "signal",   \* agent processes are told to stop
               "reuse",    \* a new agent process gets the ID of one that has ended
               "restart",  \* the controller restarts
               "remove",   \* DELETE /agents/{id}
               "delete"}   \* DELETE /tests/{id}

ASSUME TotalsAssumption == Totals \subseteq Nat
ASSUME QueueCapAssumption == QueueCap \in Nat \ {0}
ASSUME MaxCallsAssumption == MaxCalls \in Nat
ASSUME FaultsAssumption == Faults \subseteq FaultKinds
ASSUME NoTestAssumption == NoTest \notin Tests
ASSUME FiniteAgentsAssumption == IsFiniteSet(Agents)

VARIABLES tests,     \* rows of tests
          runStatus, \* test_runs.status, "unused" before and "deleted" after
          testOf,    \* test_runs.test_id
          runTotal,  \* test_runs.total_vusers
          reg,       \* reg[a]: the registry's entry, "absent" without one
          mailbox,   \* mailbox[a]: m.commands[a]
          wire,      \* wire[a]: the command in a poll's response, at most one
          load,      \* load[a][r]: AssignedVusers of the start a received
          pc,        \* pc[h]: where the handler is
          reqTest,   \* reqTest[h]: test ID of the request
          reqRun,    \* reqRun[h]: run created, or to be stopped
          reqTotal,  \* reqTotal[h]: totalVUsers
          assign,    \* assign[h][a]: assignments
          targets,   \* targets[h]: agents a command is still to be queued for
          calls,     \* REST calls accepted so far, at most MaxCalls
          raced,     \* history: runs a stop was found for while the request
                     \* that starts them was still being served
          unmarked,  \* history: runs whose UPDATE to running failed
          contested  \* history: tests for which two requests were between their
                     \* check and their INSERT at once, or a check failed

storeVars    == <<tests, runStatus, testOf, runTotal>>
registryVars == <<reg, mailbox>>
netVars      == <<wire, load>>
requestVars  == <<pc, reqTest, reqRun, reqTotal, assign, targets>>
handlerVars  == <<requestVars, calls>>
historyVars  == <<raced, unmarked, contested>>
vars == <<agentVars, storeVars, registryVars, netVars, handlerVars, historyVars>>

Start(r, v) == [type |-> "start", run |-> r, vusers |-> v]
Stop(r)     == [type |-> "stop", run |-> r, vusers |-> 0]
Commands    == [type : {"start", "stop"}, run : Runs, vusers : Nat]

Rows      == {r \in Runs : runStatus[r] \in {"pending", "running", "stopped"}}
Online    == {a \in Agents : reg[a] = "online"}
AllAgents == {a \in Agents : reg[a] # "absent"}

(* Mutant: GetRunningTestRun looks for 'running' only.                     *)
ActiveRunningOnly(t) == {r \in Rows : testOf[r] = t /\ runStatus[r] = "running"}

(* What GetRunningTestRun may return for a test.                           *)
Active(t) == {r \in Rows : testOf[r] = t /\ runStatus[r] \in {"pending", "running"}}

Init ==
    /\ AgentInit
    /\ tests     = Tests
    /\ runStatus = [r \in Runs |-> "unused"]
    /\ testOf    = [r \in Runs |-> NoTest]
    /\ runTotal  = [r \in Runs |-> 0]
    /\ reg       = [a \in Agents |-> "absent"]
    /\ mailbox   = [a \in Agents |-> <<>>]
    /\ wire      = [a \in Agents |-> <<>>]
    /\ load      = [a \in Agents |-> [r \in Runs |-> 0]]
    /\ pc        = [h \in Handlers |-> "free"]
    /\ reqTest   = [h \in Handlers |-> NoTest]
    /\ reqRun    = [h \in Handlers |-> NoRun]
    /\ reqTotal  = [h \in Handlers |-> 0]
    /\ assign    = [h \in Handlers |-> [a \in Agents |-> 0]]
    /\ targets   = [h \in Handlers |-> {}]
    /\ calls     = 0
    /\ raced     = {} /\ unmarked = {} /\ contested = {}

(* A free handler goroutine takes a REST call.                             *)
Accept(h) ==
    /\ pc[h] = "free"
    /\ calls < MaxCalls
    /\ calls' = calls + 1

(* The handler returns; its locals are gone.                               *)
Return(h) ==
    /\ pc'       = [pc EXCEPT ![h] = "free"]
    /\ reqTest'  = [reqTest EXCEPT ![h] = NoTest]
    /\ reqRun'   = [reqRun EXCEPT ![h] = NoRun]
    /\ reqTotal' = [reqTotal EXCEPT ![h] = 0]
    /\ assign'   = [assign EXCEPT ![h] = [a \in Agents |-> 0]]
    /\ targets'  = [targets EXCEPT ![h] = {}]
    /\ UNCHANGED calls
-----------------------------------------------------------------------------
(* runTest: POST /tests/{id}/run                                           *)

(* GetTest finds the test.                                                 *)
RunFind(h, t) ==
    /\ Accept(h)
    /\ t \in tests
    /\ pc'      = [pc EXCEPT ![h] = "found"]
    /\ reqTest' = [reqTest EXCEPT ![h] = t]
    /\ UNCHANGED <<agentVars, storeVars, registryVars, netVars, reqRun, reqTotal,
                   assign, targets, historyVars>>

(* The request of h is past its check and has not inserted its run.        *)
Inserting(h, t) == pc[h] \in {"checked", "allocated"} /\ reqTest[h] = t

(* No run of the test is found active.  The error of GetRunningTestRun is  *)
(* ignored: a failing query counts as "none".                              *)
RunCheck(h) ==
    /\ pc[h] = "found"
    /\ Active(reqTest[h]) = {} \/ "db" \in Faults
    /\ pc' = [pc EXCEPT ![h] = "checked"]
    /\ contested' = IF \/ Active(reqTest[h]) # {}
                       \/ \E g \in Handlers : Inserting(g, reqTest[h])
                    THEN contested \cup {reqTest[h]} ELSE contested
    /\ UNCHANGED <<agentVars, storeVars, registryVars, netVars, reqTest, reqRun,
                   reqTotal, assign, targets, calls, raced, unmarked>>

(* Scheduler.Allocate shares the VUsers among the agents online now.       *)
RunAllocate(h) ==
    /\ pc[h] = "checked"
    /\ Online # {}
    /\ \E total \in Totals : \E share \in Allocations(total, Online) :
          /\ reqTotal' = [reqTotal EXCEPT ![h] = total]
          /\ assign'   = [assign EXCEPT ![h] =
                            [a \in Agents |-> IF a \in Online THEN share[a] ELSE 0]]
    /\ targets' = [targets EXCEPT ![h] = Online]
    /\ pc'      = [pc EXCEPT ![h] = "allocated"]
    /\ UNCHANGED <<agentVars, storeVars, registryVars, netVars, reqTest, reqRun,
                   calls, historyVars>>

(* A run of the test is active (409); or no agent is online, or the stored *)
(* scenario does not parse (409 or 400).                                   *)
RunRefused(h) ==
    /\ \/ pc[h] = "found" /\ Active(reqTest[h]) # {}
       \/ pc[h] = "checked"
    /\ Return(h)
    /\ UNCHANGED <<agentVars, storeVars, registryVars, netVars, historyVars>>

(* CreateTestRun inserts the row; the run ID is new.                       *)
Insert(h, r) ==
    /\ runStatus[r] = "unused"
    /\ reqTest[h] \in tests
    /\ runStatus' = [runStatus EXCEPT ![r] = "pending"]
    /\ testOf'    = [testOf EXCEPT ![r] = reqTest[h]]
    /\ runTotal'  = [runTotal EXCEPT ![r] = reqTotal[h]]
    /\ UNCHANGED tests

(* Mutant: the starts are queued before the run is marked running.         *)
RunCreateUnmarked(h, r) ==
    /\ pc[h] = "allocated"
    /\ Insert(h, r)
    /\ pc'     = [pc EXCEPT ![h] = "starting"]
    /\ reqRun' = [reqRun EXCEPT ![h] = r]
    /\ UNCHANGED <<agentVars, registryVars, netVars, reqTest, reqTotal, assign, targets,
                   calls, historyVars>>

RunCreate(h, r) ==
    /\ pc[h] = "allocated"
    /\ Insert(h, r)
    /\ pc'     = [pc EXCEPT ![h] = "created"]
    /\ reqRun' = [reqRun EXCEPT ![h] = r]
    /\ UNCHANGED <<agentVars, registryVars, netVars, reqTest, reqTotal, assign, targets,
                   calls, historyVars>>

(* CreateTestRun returns an error, and the handler a 500: the test row is  *)
(* gone, the query failed, or it committed and its result was lost.        *)
RunCreateFails(h) ==
    /\ pc[h] = "allocated"
    /\ \/ /\ reqTest[h] \notin tests \/ "db" \in Faults
          /\ UNCHANGED storeVars
       \/ /\ "db" \in Faults
          /\ \E r \in Runs : Insert(h, r)
    /\ Return(h)
    /\ UNCHANGED <<agentVars, registryVars, netVars, historyVars>>

(* UpdateTestRunStatus writes without a condition on the old status, and   *)
(* its error is ignored.                                                   *)
SetStatus(r, s) ==
    \/ /\ runStatus' = IF r \in Rows THEN [runStatus EXCEPT ![r] = s] ELSE runStatus
       /\ UNCHANGED <<tests, testOf, runTotal>>
    \/ /\ "db" \in Faults
       /\ UNCHANGED storeVars

(* The run becomes running; the response is written before the starts.     *)
RunMark(h) ==
    /\ pc[h] = "created"
    /\ SetStatus(reqRun[h], "running")
    /\ unmarked' = IF runStatus'[reqRun[h]] = "pending" THEN unmarked \cup {reqRun[h]}
                   ELSE unmarked
    /\ pc' = [pc EXCEPT ![h] = "starting"]
    /\ UNCHANGED <<agentVars, registryVars, netVars, reqTest, reqRun, reqTotal,
                   assign, targets, calls, raced, contested>>
-----------------------------------------------------------------------------
(* stopTest: POST /tests/{id}/stop and stopTestByRunID                     *)

(* h serves the request that starts r, from the INSERT to the last start.  *)
StartsRun(h, r) == pc[h] \in {"created", "starting"} /\ reqRun[h] = r

(* stopTest takes an active run of the test; stopTestByRunID takes any run *)
(* that has a row, whatever its status.                                    *)
StopFind(h, r) ==
    /\ Accept(h)
    /\ r \in Rows
    /\ pc'     = [pc EXCEPT ![h] = "stopFound"]
    /\ reqRun' = [reqRun EXCEPT ![h] = r]
    /\ raced'  = IF \E g \in Handlers : StartsRun(g, r) THEN raced \cup {r} ELSE raced
    /\ UNCHANGED <<agentVars, storeVars, registryVars, netVars, reqTest, reqTotal,
                   assign, targets, unmarked, contested>>

(* The run becomes stopped.                                                *)
StopMark(h) ==
    /\ pc[h] = "stopFound"
    /\ SetStatus(reqRun[h], "stopped")
    /\ pc' = [pc EXCEPT ![h] = "stopMarked"]
    /\ UNCHANGED <<agentVars, registryVars, netVars, reqTest, reqRun, reqTotal,
                   assign, targets, calls, historyVars>>

(* AllAgents is read for the stops to queue.                               *)
StopTargets(h) ==
    /\ pc[h] = "stopMarked"
    /\ IF AllAgents = {} THEN Return(h)
       ELSE /\ pc'      = [pc EXCEPT ![h] = "stopping"]
            /\ targets' = [targets EXCEPT ![h] = AllAgents]
            /\ UNCHANGED <<reqTest, reqRun, reqTotal, assign, calls>>
    /\ UNCHANGED <<agentVars, storeVars, registryVars, netVars, historyVars>>
-----------------------------------------------------------------------------
(* Mutant: one command more than the channel holds.                        *)
EnqueueOneMore(a, c) ==
    mailbox' = IF a \in AllAgents /\ Len(mailbox[a]) <= QueueCap
               THEN [mailbox EXCEPT ![a] = Append(@, c)] ELSE mailbox

(* Mutant: the send blocks when the channel is full.                       *)
EnqueueBlocks(a, c) ==
    /\ Len(mailbox[a]) < QueueCap
    /\ mailbox' = IF a \in AllAgents THEN [mailbox EXCEPT ![a] = Append(@, c)] ELSE mailbox

(* EnqueueStartTest and EnqueueStopTest: nothing is queued for an agent    *)
(* without a channel or with a full one, and both callers go on.           *)
Enqueue(a, c) ==
    mailbox' = IF a \in AllAgents /\ Len(mailbox[a]) < QueueCap
               THEN [mailbox EXCEPT ![a] = Append(@, c)] ELSE mailbox

Command(h, a) ==
    IF pc[h] = "starting" THEN Start(reqRun[h], assign[h][a]) ELSE Stop(reqRun[h])

(* Mutant: the loop stays at an agent whose channel took the command.      *)
DeliverStays(h, a) ==
    /\ pc[h] \in {"starting", "stopping"}
    /\ a \in targets[h]
    /\ Enqueue(a, Command(h, a))
    /\ IF targets[h] = {a} /\ mailbox' = mailbox THEN Return(h)
       ELSE /\ targets' = [targets EXCEPT ![h] = IF mailbox' = mailbox THEN @ \ {a} ELSE @]
            /\ UNCHANGED <<pc, reqTest, reqRun, reqTotal, assign, calls>>
    /\ UNCHANGED <<agentVars, storeVars, reg, netVars, historyVars>>

(* One round of the loop that queues the commands; the order of the agents *)
(* is that of a Go map.                                                    *)
Deliver(h, a) ==
    /\ pc[h] \in {"starting", "stopping"}
    /\ a \in targets[h]
    /\ Enqueue(a, Command(h, a))
    /\ IF targets[h] = {a} THEN Return(h)
       ELSE /\ targets' = [targets EXCEPT ![h] = @ \ {a}]
            /\ UNCHANGED <<pc, reqTest, reqRun, reqTotal, assign, calls>>
    /\ UNCHANGED <<agentVars, storeVars, reg, netVars, historyVars>>

Serve(h) ==
    \/ RunCheck(h) \/ RunAllocate(h) \/ RunRefused(h) \/ RunCreateFails(h) \/ RunMark(h)
    \/ StopMark(h) \/ StopTargets(h)
    \/ \E r \in Runs : RunCreate(h, r)
    \/ \E a \in Agents : Deliver(h, a)
-----------------------------------------------------------------------------
(* The agents' side                                                        *)

(* A process registers and enters its loops.  Register keeps the channel   *)
(* and the commands an earlier process of this ID has left; the response   *)
(* to that one's last poll is gone.  Of load, the history stays.           *)
Join(a) ==
    /\ phase[a] = "off" \/ "reuse" \in Faults
    /\ Boot(a)
    /\ reg'  = [reg EXCEPT ![a] = "online"]
    /\ wire' = [wire EXCEPT ![a] = <<>>]
    /\ UNCHANGED <<storeVars, mailbox, load, handlerVars, historyVars>>

(* A heartbeat of an agent the registry knows puts it back online; one of  *)
(* an agent it does not know is acknowledged and ignored.                  *)
Heartbeat(a) ==
    /\ phase[a] = "up"
    /\ reg[a] = "offline"
    /\ reg' = [reg EXCEPT ![a] = "online"]
    /\ UNCHANGED <<agentVars, storeVars, mailbox, netVars, handlerVars, historyVars>>

(* markOffline: the last heartbeat is older than 30 s.                     *)
MarkOffline(a) ==
    /\ reg[a] = "online"
    /\ ~Alive(a) \/ "late" \in Faults
    /\ reg' = [reg EXCEPT ![a] = "offline"]
    /\ UNCHANGED <<agentVars, storeVars, mailbox, netVars, handlerVars, historyVars>>

(* Mutant: the newest command is taken first.                              *)
TakeNewest(a) ==
    /\ wire'    = [wire EXCEPT ![a] = <<Last(mailbox[a])>>]
    /\ mailbox' = [mailbox EXCEPT ![a] = Front(@)]

(* DequeueCommand: the command leaves the channel before it is sent.       *)
Take(a) ==
    /\ wire'    = [wire EXCEPT ![a] = <<Head(mailbox[a])>>]
    /\ mailbox' = [mailbox EXCEPT ![a] = Tail(@)]

(* Mutant: the row becomes running when an agent fetches the start.        *)
PollMarks(a) ==
    /\ Polling(a)
    /\ wire[a] = <<>>
    /\ mailbox[a] # <<>>
    /\ Take(a)
    /\ LET c == Head(mailbox[a])
       IN  runStatus' = IF c.type = "start" /\ c.run \in Rows
                        THEN [runStatus EXCEPT ![c.run] = "running"] ELSE runStatus
    /\ UNCHANGED <<agentVars, tests, testOf, runTotal, reg, load, handlerVars, historyVars>>

(* The agent's poll reaches pollAgentCommand; an agent polls sequentially. *)
Poll(a) ==
    /\ Polling(a)
    /\ wire[a] = <<>>
    /\ mailbox[a] # <<>>
    /\ Take(a)
    /\ UNCHANGED <<agentVars, storeVars, reg, load, handlerVars, historyVars>>

(* The response arrives, and the agent acts on it.                         *)
Receive(a) ==
    /\ wire[a] # <<>>
    /\ LET c == Head(wire[a]) IN
         \/ /\ c.type = "start"
            /\ StartTest(a, c.run)
            /\ load' = [load EXCEPT ![a][c.run] = c.vusers]
         \/ /\ c.type = "stop"
            /\ StopTest(a, c.run)
            /\ UNCHANGED load
    /\ wire' = [wire EXCEPT ![a] = <<>>]
    /\ UNCHANGED <<storeVars, registryVars, handlerVars, historyVars>>

(* The response does not arrive: the command is in no queue any more.      *)
PollLost(a) ==
    /\ "lost" \in Faults
    /\ wire[a] # <<>>
    /\ wire' = [wire EXCEPT ![a] = <<>>]
    /\ UNCHANGED <<agentVars, storeVars, registryVars, load, handlerVars, historyVars>>

(* The steps of the agent's own goroutines.                                *)
AgentStep(a) ==
    /\ \/ \E r \in Runs : ExecuteTest(a, r)
       \/ "crash" \in Faults /\ Crash(a)
       \/ "signal" \in Faults /\ Shutdown(a)
    /\ UNCHANGED <<storeVars, registryVars, netVars, handlerVars, historyVars>>
-----------------------------------------------------------------------------
(* deleteAgent: the entry and the channel go; the agent is not told.       *)
RemoveAgent(a) ==
    /\ "remove" \in Faults
    /\ reg[a] # "absent"
    /\ reg'     = [reg EXCEPT ![a] = "absent"]
    /\ mailbox' = [mailbox EXCEPT ![a] = <<>>]
    /\ UNCHANGED <<agentVars, storeVars, netVars, handlerVars, historyVars>>

(* deleteTest: ON DELETE CASCADE takes the rows of its runs.               *)
DeleteTest(t) ==
    /\ "delete" \in Faults
    /\ t \in tests
    /\ tests' = tests \ {t}
    /\ runStatus' = [r \in Runs |-> IF r \in Rows /\ testOf[r] = t THEN "deleted"
                                    ELSE runStatus[r]]
    /\ UNCHANGED <<agentVars, testOf, runTotal, registryVars, netVars, handlerVars,
                   historyVars>>

(* The controller's memory is lost: the registry, the channels and the     *)
(* requests being served.  The database stays; nothing is reloaded from it.*)
ControllerRestart ==
    /\ "restart" \in Faults
    /\ reg'      = [a \in Agents |-> "absent"]
    /\ mailbox'  = [a \in Agents |-> <<>>]
    /\ pc'       = [h \in Handlers |-> "free"]
    /\ reqTest'  = [h \in Handlers |-> NoTest]
    /\ reqRun'   = [h \in Handlers |-> NoRun]
    /\ reqTotal' = [h \in Handlers |-> 0]
    /\ assign'   = [h \in Handlers |-> [a \in Agents |-> 0]]
    /\ targets'  = [h \in Handlers |-> {}]
    /\ UNCHANGED <<agentVars, storeVars, netVars, calls, historyVars>>
-----------------------------------------------------------------------------
Next ==
    \/ \E h \in Handlers :
          \/ Serve(h)
          \/ \E t \in Tests : RunFind(h, t)
          \/ \E r \in Runs : StopFind(h, r)
    \/ \E a \in Agents :
          \/ Join(a) \/ Heartbeat(a) \/ MarkOffline(a) \/ RemoveAgent(a)
          \/ Poll(a) \/ Receive(a) \/ PollLost(a) \/ AgentStep(a)
    \/ \E t \in Tests : DeleteTest(t)
    \/ ControllerRestart

Spec == Init /\ [][Next]_vars

(* Handlers run on; agents poll, and a response that is not lost arrives;  *)
(* the agents' goroutines run on (AgentFairness).                          *)
Fairness ==
    /\ \A h \in Handlers : WF_vars(Serve(h))
    /\ \A a \in Agents : WF_vars(Poll(a)) /\ WF_vars(Receive(a))
    /\ AgentFairness

FairSpec == Spec /\ Fairness
-----------------------------------------------------------------------------
StoreTypeOK ==
    /\ tests \subseteq Tests
    /\ runStatus \in [Runs -> {"unused", "pending", "running", "stopped", "deleted"}]
    /\ testOf    \in [Runs -> Tests \cup {NoTest}]
    /\ runTotal  \in [Runs -> Nat]

QueueTypeOK ==
    /\ reg       \in [Agents -> {"absent", "online", "offline"}]
    /\ mailbox   \in [Agents -> Seq(Commands)]
    /\ \A a \in Agents : Len(mailbox[a]) <= QueueCap
    /\ wire      \in [Agents -> Seq(Commands)]
    /\ \A a \in Agents : Len(wire[a]) <= 1
    /\ load      \in [Agents -> [Runs -> Nat]]

RequestTypeOK ==
    /\ pc        \in [Handlers -> {"free", "found", "checked", "allocated", "created",
                                   "starting", "stopFound", "stopMarked", "stopping"}]
    /\ reqTest   \in [Handlers -> Tests \cup {NoTest}]
    /\ \A h \in Handlers :
          pc[h] \in {"found", "checked", "allocated"} => reqTest[h] # NoTest
    /\ reqRun    \in [Handlers -> Runs \cup {NoRun}]
    /\ \A h \in Handlers :
          pc[h] \in {"created", "starting", "stopFound", "stopMarked", "stopping"} =>
              reqRun[h] # NoRun
    /\ reqTotal  \in [Handlers -> Nat]
    /\ assign    \in [Handlers -> [Agents -> Nat]]
    /\ targets   \in [Handlers -> SUBSET Agents]
    /\ calls     \in 0 .. MaxCalls

TypeOK ==
    /\ AgentTypeOK /\ StoreTypeOK /\ QueueTypeOK /\ RequestTypeOK
    /\ raced \subseteq Runs /\ unmarked \subseteq Runs /\ contested \subseteq Tests

(* The commands on their way to agent a, the oldest first, and the agents  *)
(* a handler still has to queue a start of r for.                          *)
InTransit(a) == wire[a] \o mailbox[a]
Pending(a, r) == {h \in Handlers : pc[h] = "starting" /\ reqRun[h] = r /\ a \in targets[h]}

(* Positions in transit of a start of r.                                   *)
Starts(a, r) ==
    {i \in DOMAIN InTransit(a) :
        InTransit(a)[i].type = "start" /\ InTransit(a)[i].run = r}

(* VUsers of run r that agent a executes, or will from what is in transit  *)
(* or still to be queued.                                                  *)
SentLoad(a, r) ==
    SumFunctionOnSet([i \in DOMAIN InTransit(a) |-> InTransit(a)[i].vusers], Starts(a, r))

DueLoad(a, r) == SumFunctionOnSet([h \in Handlers |-> assign[h][a]], Pending(a, r))

Committed(a, r) == load[a][r] + SentLoad(a, r) + DueLoad(a, r)

(* The VUsers at work for a run never exceed the total recorded for it,    *)
(* whatever happens to the agents it was shared among.                     *)
LoadWithinRequest ==
    \A r \in Runs : SumFunction([a \in Agents |-> Committed(a, r)]) <= runTotal[r]

(* The runs that have or had a row, which is not pending any more unless   *)
(* its UPDATE to running failed.                                           *)
OnRecord == {r \in Runs : /\ runStatus[r] # "unused"
                          /\ runStatus[r] = "pending" => r \in unmarked}

(* A run is recorded before any agent executes it: an executed run has a   *)
(* row, which went with its test or is past pending, and a row that is     *)
(* still pending is one whose UPDATE failed, never one still to come.      *)
ExecutedRunsAreOnRecord ==
    \A a \in Agents, r \in Runs : exec[a][r] # "none" => r \in OnRecord

(* A stop that was found after the request that starts the run had been    *)
(* served never overtakes a start of that run, on any agent, whatever      *)
(* other requests, restarts and lost responses there are.                  *)
StopNeverOvertakesStart ==
    \A a \in Agents : \A r \in stopRecv[a] \ raced :
        Pending(a, r) = {} /\ Starts(a, r) = {}

(* "stopTestByRunID는 run ID로 테스트를 중지하는 엔드포인트다" (handler.go:517): an agent that *)
(* was told to stop a run does not start it afterwards, or the run is at   *)
(* least recorded as stopped.  But the starts are queued after the         *)
(* response that made the run known, so that a stop can be queued before   *)
(* them, and the UPDATE to running has no condition on the status.         *)
StopTakesEffect ==
    [][\A a \in Agents : \A r \in stopRecv[a] :
         exec[a][r] = "none" /\ exec'[a][r] # "none" => runStatus[r] = "stopped"]_vars

(* "Test is already running" (handler.go:355-359): a test has one active   *)
(* run at most.  But nothing keeps two requests from finding none.         *)
OneActiveRunPerTest ==
    \A r, q \in Runs :
        /\ testOf[r] = testOf[q] /\ r # q
        /\ runStatus[r] \in {"pending", "running"}
        => runStatus[q] \notin {"pending", "running"}

(* What is left of it: two runs of a test are active only if two requests  *)
(* for it were between check and INSERT at once, if the check of one       *)
(* failed, or if a stop was overwritten by the request that starts the run.*)
UncontestedTestsRunOnce ==
    \A r, q \in Runs \ raced :
        /\ testOf[r] = testOf[q] /\ r # q /\ testOf[r] \notin contested
        /\ runStatus[r] \in {"pending", "running"}
        => runStatus[q] \notin {"pending", "running"}

(* A run that was stopped stays stopped, or goes with its test, if no stop *)
(* of it was found while the request that starts it was served: neither    *)
(* another request nor an agent that fetches its start revives it.         *)
StopIsFinal ==
    [][\A r \in Runs \ raced :
         runStatus[r] = "stopped" => runStatus'[r] \in {"stopped", "deleted"}]_vars

(* How far the start of r on a has come: still possible (its request is    *)
(* being served), on its way, with the agent, or over.                     *)
MayStart(a, r) ==
    \/ runStatus[r] = "unused"
    \/ \E h \in Handlers : reqRun[h] = r /\ pc[h] = "created"
    \/ Pending(a, r) # {}

Stage(a, r) ==
    CASE MayStart(a, r) -> "open"
      [] ~MayStart(a, r) /\ Starts(a, r) # {} -> "sent"
      [] ~MayStart(a, r) /\ Starts(a, r) = {} /\ exec[a][r] # "none" -> "received"
      [] OTHER -> "over"

(* Run control implements the abstract delivery of starts: whatever is     *)
(* lost, a start comes once or never, and never late once it is over, not  *)
(* even to a new process that has the ID of the one that received it.      *)
Delivery == INSTANCE CommandDelivery
              WITH stage <- [a \in Agents |-> [r \in Runs |-> Stage(a, r)]]

DeliverySpec == Delivery!Spec

(* A request that is being served is answered.                             *)
RequestEnds == \A h \in Handlers : (pc[h] # "free") ~> (pc[h] = "free")

(* A start that was queued is executed, unless the agent ends: stops and   *)
(* starts of other runs never keep it from being polled.                   *)
QueuedStartIsExecuted ==
    \A a \in Agents, r \in Runs :
        (Starts(a, r) # {}) ~> (exec[a][r] # "none" \/ phase[a] # "up")

(* A stop that is queued while its run is in progress, on an agent that    *)
(* executes nothing else, ends the run, whatever its duration.             *)
QueuedStopEndsRun ==
    \A a \in Agents, r \in Runs :
        (r \in Begun(a) \ overlapped[a] /\ Stop(r) \in Range(InTransit(a)))
            ~> (exec[a][r] = "done" \/ r \in overlapped[a] \/ phase[a] # "up")
=============================================================================
