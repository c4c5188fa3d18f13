------------------------------- MODULE Agent -------------------------------
(***************************************************************************)
(* The agent process (internal/agent/agent.go): the poll loop that         *)
(* receives start and stop commands, one goroutine per started test, and   *)
(* the single slot (status, activeRunID, activeCancel) under a.mu through  *)
(* which a running test can be stopped.                                    *)
(*                                                                         *)
(* Simplifications: the scenario is reduced to "parses or not"; the runner *)
(* is a step that ends by itself (duration over, or an error) or because   *)
(* its context is done; metric reports are left out (they change no state  *)
(* of the agent).  An element of Agents is an agentID.  It ends in the     *)
(* start time in ms modulo 10000, so a later process can have it again;    *)
(* two live processes with one ID are left out.                            *)
(***************************************************************************)
CONSTANTS Agents,   \* agent IDs
          Runs,     \* test run IDs
          NoRun     \* activeRunID = "" and activeCancel = nil

ASSUME NoRunAssumption == NoRun \notin Runs

VARIABLES phase,        \* phase[a]: life of the latest process and of its ctx
          exec,         \* exec[a][r]: where the goroutine of ExecuteTest(r) is
          cancelled,    \* cancelled[a]: runs whose own cancel func was called
          status,       \* a.status
          activeRunID,  \* a.activeRunID
          activeCancel, \* a.activeCancel, as the run it cancels
          stopRecv,     \* history: runs StopTest was called for
          overlapped    \* history: runs that were in progress with another

agentVars == <<phase, exec, cancelled, status, activeRunID, activeCancel,
               stopRecv, overlapped>>

Phases == {"off", "up", "stopping", "exiting", "exited", "crashed"}
Steps  == {"none", "spawned", "opening", "running", "ending", "done"}

(* A goroutine that took the slot and has not run its deferred reset.      *)
InProgress == {"opening", "running", "ending"}

Alive(a)   == phase[a] \in {"up", "stopping", "exiting"}

(* Mutant: the poll loop itself runs ExecuteTest.                          *)
PollingWhenIdle(a) == phase[a] \in {"up", "stopping"} /\ status[a] = "idle"

Polling(a) == phase[a] \in {"up", "stopping"}
Begun(a)   == {r \in Runs : exec[a][r] \in InProgress}

(* Mutant: the runner is given the parent ctx instead of testCtx.          *)
ParentDone(a, r) == phase[a] \in {"stopping", "exiting"}

(* testCtx of r is done: its own cancel was called, or the parent ctx is.  *)
CtxDone(a, r) == r \in cancelled[a] \/ phase[a] \in {"stopping", "exiting"}

AgentInit ==
    /\ phase        = [a \in Agents |-> "off"]
    /\ exec         = [a \in Agents |-> [r \in Runs |-> "none"]]
    /\ cancelled    = [a \in Agents |-> {}]
    /\ status       = [a \in Agents |-> "idle"]
    /\ activeRunID  = [a \in Agents |-> NoRun]
    /\ activeCancel = [a \in Agents |-> NoRun]
    /\ stopRecv     = [a \in Agents |-> {}]
    /\ overlapped   = [a \in Agents |-> {}]

slotVars == <<status, activeRunID, activeCancel>>

(* Mutant: the deferred function forgets the cancel func.                  *)
FreeSlotKeepsCancel(a) ==
    /\ status'      = [status EXCEPT ![a] = "idle"]
    /\ activeRunID' = [activeRunID EXCEPT ![a] = NoRun]
    /\ UNCHANGED activeCancel

(* The slot is cleared, whichever run holds it.                            *)
FreeSlot(a) ==
    /\ status'       = [status EXCEPT ![a] = "idle"]
    /\ activeRunID'  = [activeRunID EXCEPT ![a] = NoRun]
    /\ activeCancel' = [activeCancel EXCEPT ![a] = NoRun]

(* A process has registered and enters its loops.  It starts from nothing, *)
(* also under the ID of one that has ended.                                *)
Boot(a) ==
    /\ ~Alive(a)
    /\ phase' = [phase EXCEPT ![a] = "up"]
    /\ exec' = [exec EXCEPT ![a] = [r \in Runs |-> "none"]]
    /\ cancelled' = [cancelled EXCEPT ![a] = {}]
    /\ FreeSlot(a)
    /\ stopRecv' = [stopRecv EXCEPT ![a] = {}]
    /\ overlapped' = [overlapped EXCEPT ![a] = {}]

(* The poll loop got "start": go ExecuteTest(r).  The code has no guard on *)
(* r: a second goroutine for the same run is not represented here, and     *)
(* RunControl sends no second start (NoStartIsRefused).                    *)
StartTest(a, r) ==
    /\ Polling(a)
    /\ exec[a][r] = "none"
    /\ exec' = [exec EXCEPT ![a][r] = "spawned"]
    /\ UNCHANGED <<phase, cancelled, slotVars, stopRecv, overlapped>>

(* Mutant: the deferred function is installed before the parse.            *)
ParseFailsUnderDefer(a, r) ==
    /\ Alive(a)
    /\ exec[a][r] = "spawned"
    /\ exec' = [exec EXCEPT ![a][r] = "done"]
    /\ FreeSlot(a)
    /\ UNCHANGED <<phase, cancelled, stopRecv, overlapped>>

(* config.LoadFromString fails: ExecuteTest returns before it has a slot.  *)
ParseFails(a, r) ==
    /\ Alive(a)
    /\ exec[a][r] = "spawned"
    /\ exec' = [exec EXCEPT ![a][r] = "done"]
    /\ UNCHANGED <<phase, cancelled, slotVars, stopRecv, overlapped>>

(* The locked section that makes r the agent's active run, whoever was.    *)
TakeSlot(a, r) ==
    /\ Alive(a)
    /\ exec[a][r] = "spawned"
    /\ exec'         = [exec EXCEPT ![a][r] = "opening"]
    /\ status'       = [status EXCEPT ![a] = "running"]
    /\ activeRunID'  = [activeRunID EXCEPT ![a] = r]
    /\ activeCancel' = [activeCancel EXCEPT ![a] = r]
    /\ overlapped'   = IF Begun(a) = {} THEN overlapped
                       ELSE [overlapped EXCEPT ![a] = @ \cup Begun(a) \cup {r}]
    /\ UNCHANGED <<phase, cancelled, stopRecv>>

(* client.StreamMetrics(ctx): it cannot succeed once ctx is done.          *)
StreamOpens(a, r) ==
    /\ phase[a] = "up"
    /\ exec[a][r] = "opening"
    /\ exec' = [exec EXCEPT ![a][r] = "running"]
    /\ UNCHANGED <<phase, cancelled, slotVars, stopRecv, overlapped>>

StreamFails(a, r) ==
    /\ Alive(a)
    /\ exec[a][r] = "opening"
    /\ exec' = [exec EXCEPT ![a][r] = "ending"]
    /\ UNCHANGED <<phase, cancelled, slotVars, stopRecv, overlapped>>

(* runner.Run returns because testCtx was cancelled.                       *)
RunCancelled(a, r) ==
    /\ Alive(a)
    /\ exec[a][r] = "running"
    /\ CtxDone(a, r)
    /\ exec' = [exec EXCEPT ![a][r] = "ending"]
    /\ UNCHANGED <<phase, cancelled, slotVars, stopRecv, overlapped>>

(* runner.Run returns by itself: the duration is over, or it failed.       *)
RunReturns(a, r) ==
    /\ Alive(a)
    /\ exec[a][r] = "running"
    /\ exec' = [exec EXCEPT ![a][r] = "ending"]
    /\ UNCHANGED <<phase, cancelled, slotVars, stopRecv, overlapped>>

(* The deferred function, which ends by cancelling the run's own context.  *)
ResetSlot(a, r) ==
    /\ Alive(a)
    /\ exec[a][r] = "ending"
    /\ exec' = [exec EXCEPT ![a][r] = "done"]
    /\ FreeSlot(a)
    /\ UNCHANGED <<phase, cancelled, stopRecv, overlapped>>

(* Mutant: StopTest does not compare the run ID.                           *)
StopMatchesAnyRun(a, r) == activeCancel[a] # NoRun

(* The condition under which StopTest(r) calls activeCancel.               *)
StopMatches(a, r) == activeRunID[a] = r /\ activeCancel[a] # NoRun

(* The poll loop got "stop": StopTest(r), in the poll goroutine itself.    *)
(* The result of StopTest is discarded.                                    *)
StopTest(a, r) ==
    /\ Polling(a)
    /\ cancelled' = IF StopMatches(a, r)
                    THEN [cancelled EXCEPT ![a] = @ \cup {activeCancel[a]}]
                    ELSE cancelled
    /\ stopRecv' = [stopRecv EXCEPT ![a] = @ \cup {r}]
    /\ UNCHANGED <<phase, exec, slotVars, overlapped>>

(* SIGINT/SIGTERM: the context of the whole process is done.               *)
Signal(a) ==
    /\ phase[a] = "up"
    /\ phase' = [phase EXCEPT ![a] = "stopping"]
    /\ UNCHANGED <<exec, cancelled, slotVars, stopRecv, overlapped>>

(* commandPollLoop has returned (a poll may have been under way when the   *)
(* signal came); Run cancels the active run ...                            *)
CancelActive(a) ==
    /\ phase[a] = "stopping"
    /\ phase' = [phase EXCEPT ![a] = "exiting"]
    /\ cancelled' = [cancelled EXCEPT ![a] = @ \cup ({activeCancel[a]} \ {NoRun})]
    /\ UNCHANGED <<exec, slotVars, stopRecv, overlapped>>

(* ... and returns: the process ends with whatever its goroutines are at.  *)
Exit(a) ==
    /\ phase[a] = "exiting"
    /\ phase' = [phase EXCEPT ![a] = "exited"]
    /\ UNCHANGED <<exec, cancelled, slotVars, stopRecv, overlapped>>

Crash(a) ==
    /\ Alive(a)
    /\ phase' = [phase EXCEPT ![a] = "crashed"]
    /\ UNCHANGED <<exec, cancelled, slotVars, stopRecv, overlapped>>

(* The steps of the agent's own goroutines, which need no message.         *)
ExecuteTest(a, r) ==
    \/ ParseFails(a, r)   \/ TakeSlot(a, r)
    \/ StreamOpens(a, r)  \/ StreamFails(a, r)
    \/ RunCancelled(a, r) \/ RunReturns(a, r) \/ ResetSlot(a, r)

Shutdown(a) == Signal(a) \/ CancelActive(a) \/ Exit(a)

AgentNext ==
    \E a \in Agents :
        \/ Boot(a)
        \/ Shutdown(a)
        \/ Crash(a)
        \/ \E r \in Runs : StartTest(a, r) \/ StopTest(a, r) \/ ExecuteTest(a, r)

AgentSpec == AgentInit /\ [][AgentNext]_agentVars

(* A goroutine that can go on is scheduled, opening a stream and closing   *)
(* it come to an end, and the runner returns once its context is done.     *)
(* Nothing is assumed of RunReturns: a test may last.                      *)
AgentFairness ==
    \A a \in Agents, r \in Runs :
        /\ WF_agentVars(ParseFails(a, r) \/ TakeSlot(a, r))
        /\ WF_agentVars(StreamOpens(a, r) \/ StreamFails(a, r))
        /\ WF_agentVars(RunCancelled(a, r))
        /\ WF_agentVars(ResetSlot(a, r))
-----------------------------------------------------------------------------
AgentTypeOK ==
    /\ phase        \in [Agents -> Phases]
    /\ exec         \in [Agents -> [Runs -> Steps]]
    /\ cancelled    \in [Agents -> SUBSET Runs]
    /\ status       \in [Agents -> {"idle", "running"}]
    /\ activeRunID  \in [Agents -> Runs \cup {NoRun}]
    /\ activeCancel \in [Agents -> Runs \cup {NoRun}]
    /\ stopRecv     \in [Agents -> SUBSET Runs]
    /\ overlapped   \in [Agents -> SUBSET Runs]

(* The three fields of the slot agree, and the run they name is one whose  *)
(* goroutine still is between its locked section and its deferred reset:   *)
(* the slot never outlives the run it names, however runs overlap.         *)
SlotNamesLiveRun ==
    \A a \in Agents :
        /\ activeCancel[a] = activeRunID[a]
        /\ status[a] = "running" <=> activeRunID[a] # NoRun
        /\ activeRunID[a] # NoRun => activeRunID[a] \in Begun(a)

(* A run that never overlapped another on its agent is the one in the      *)
(* slot for as long as it is in progress: StopTest reaches it, and the     *)
(* heartbeat reports "running".                                            *)
SoloRunIsStoppable ==
    \A a \in Agents, r \in Runs :
        r \in Begun(a) \ overlapped[a] => activeRunID[a] = r /\ activeCancel[a] = r

(* StopTest for one run never cancels another: the context of a run is     *)
(* only cancelled by a stop for that run or by the agent's shutdown.       *)
CancelOnlyOnRequest ==
    \A a \in Agents :
        cancelled[a] \ stopRecv[a] # {} =>
            phase[a] \in {"exiting", "exited", "crashed"}

(* Two runs in progress on one agent at once are both on record as having  *)
(* overlapped: what makes SoloRunIsStoppable inductive.                    *)
OverlapRecorded ==
    \A a \in Agents : \A r, q \in Begun(a) : r # q => r \in overlapped[a]

(* The inductive invariant of the agent.                                   *)
AgentInv ==
    /\ AgentTypeOK
    /\ SlotNamesLiveRun
    /\ SoloRunIsStoppable
    /\ CancelOnlyOnRequest
    /\ OverlapRecorded
=============================================================================
