------------------------------ MODULE Registry ------------------------------
(***************************************************************************)
(* The agent registry under time (internal/controller/agent_manager.go):   *)
(* every operation that writes takes m.mu and makes its database call      *)
(* before it gives m.mu back, so a slow database delays heartbeats, health *)
(* checks and polls.  The agents' heartbeat and poll loops                 *)
(* (internal/agent/agent.go) and the agents table are part of the model.   *)
(*                                                                         *)
(* Time is counted in ticks.  What takes no time is done before the next   *)
(* tick: the network and the scheduler are far faster than a tick, only    *)
(* the database is slow.  m.mu is a Go RWMutex under contention: writers   *)
(* in the order of arrival, and at each Unlock the readers that wait go    *)
(* before the next writer.  The polls of one agent are modelled, with one  *)
(* command for it; an agent ID is never used twice.                        *)
(***************************************************************************)
EXTENDS Integers, Sequences, FiniteSets, Functions, FiniteSetsExt

CONSTANTS Agents,
          Polled,     \* the agent whose polls and command the model follows
          NoAgent,
          Interval,   \* between two heartbeats of an agent (10 s)
          CheckEvery, \* between two runs of markOffline (10 s)
          Timeout,    \* heartbeats may be this old (30 s)
          DbTicks,    \* timeout of a database call (5 s)
          PollTicks,  \* timeout of an agent's poll (5 s)
          MaxRemoves  \* bound of the model on DELETE /agents/{id}

ASSUME TimesAssumption ==
    /\ Interval \in Nat \ {0} /\ CheckEvery \in Nat \ {0}
    /\ Timeout \in Nat /\ DbTicks \in Nat /\ PollTicks \in Nat /\ MaxRemoves \in Nat
ASSUME AgentsAssumption == NoAgent \notin Agents /\ Polled \in Agents /\ IsFiniteSet(Agents)

VARIABLES live,     \* live[a]: the agent's process
          beatIn,   \* ticks to the next tick of its heartbeat ticker
          beatDue,  \* that ticker has ticked and the loop has not looked
          poll,     \* 0, or 1 + the ticks the poll of Polled has waited for m.mu
          ghost,    \* a poll it gave up still waits for m.mu in the controller
          entry,    \* m.agents: "absent", "online" or "offline"
          age,      \* ticks since LastHeartbeat, for agents that are online
          cmd,      \* its command: "done" when received or removed with the channel
          row,      \* agents.status, "absent" without a row
          failed,   \* agents whose last database call failed
          queue,    \* writers that wait for m.mu
          holder,   \* the writer that holds m.mu
          left,     \* stale agents markOffline has still to mark
          dbAge,    \* ticks the database call has taken
          held,     \* history: ticks of this hold of m.mu; PollTicks after one as long
          checkIn,  \* ticks to the next tick of the health-check ticker
          checkDue, \* that ticker has ticked and the loop has not looked
          removes   \* DELETE requests served

agentVars == <<live, beatIn, beatDue>>
pollVars  == <<poll, ghost>>
dbVars    == <<row, failed>>
lockVars  == <<queue, holder, left, dbAge, held>>
checkVars == <<checkIn, checkDue>>
vars == <<agentVars, pollVars, entry, age, cmd, dbVars, lockVars, checkVars, removes>>

Free   == <<"free", NoAgent>>
Check  == <<"check", NoAgent>>
Ops    == {"register", "heartbeat", "remove", "mark"} \X Agents
\* What a writer waits for: one call of each agent (its own registration comes
\* before its first heartbeat) and the removals.
MaxWait  == (Cardinality(Agents) + MaxRemoves) * DbTicks
\* What markOffline does for other agents first.
MaxMarks == (Cardinality(Agents) - 1) * DbTicks
\* A check that came too early for an agent and marks others, or a tick of its
\* ticker to wait for; then the wait for m.mu; then others that are marked first.
NoticedWithin == Timeout + Max({CheckEvery, MaxMarks}) + MaxWait + MaxMarks
AgeCap == NoticedWithin + 1

(* Mutant: not Before, but at the threshold or before.                     *)
StaleAtThreshold == {a \in Agents : entry[a] = "online" /\ age[a] >= Timeout}

(* Mutant: two timeouts go by.                                             *)
StaleTooLate == {a \in Agents : entry[a] = "online" /\ age[a] > 2 * Timeout}

(* The agents whose LastHeartbeat is before now less the timeout.          *)
Stale == {a \in Agents : entry[a] = "online" /\ age[a] > Timeout}

Busy(op) == holder = op \/ op \in Range(queue)
Checking == holder[1] = "mark" \/ Check \in Range(queue)

Init ==
    /\ live = [a \in Agents |-> "off"]
    /\ beatIn = [a \in Agents |-> Interval] /\ beatDue = [a \in Agents |-> FALSE]
    /\ poll = 0 /\ ghost = FALSE
    /\ entry = [a \in Agents |-> "absent"] /\ age = [a \in Agents |-> 0]
    /\ cmd = "none"
    /\ row = [a \in Agents |-> "absent"] /\ failed = {}
    /\ queue = <<>> /\ holder = Free /\ left = {} /\ dbAge = 0 /\ held = 0
    /\ checkIn = CheckEvery /\ checkDue = FALSE
    /\ removes = 0
-----------------------------------------------------------------------------
(* Callers arrive at m.mu                                                  *)

(* An agent process starts and calls Register.                             *)
Boot(a) ==
    /\ live[a] = "off"
    /\ live'  = [live EXCEPT ![a] = "joining"]
    /\ queue' = Append(queue, <<"register", a>>)
    /\ UNCHANGED <<beatIn, beatDue, pollVars, entry, age, cmd, dbVars, holder, left, dbAge, held,
                   checkVars, removes>>

(* The heartbeat loop calls Heartbeat, one call at a time.                 *)
SendsHeartbeat(a) == live[a] = "up" /\ beatDue[a] /\ ~Busy(<<"heartbeat", a>>)
SendHeartbeat(a) ==
    /\ SendsHeartbeat(a)
    /\ beatDue' = [beatDue EXCEPT ![a] = FALSE]
    /\ queue' = Append(queue, <<"heartbeat", a>>)
    /\ UNCHANGED <<live, beatIn, pollVars, entry, age, cmd, dbVars, holder, left, dbAge, held,
                   checkVars, removes>>

(* HealthCheckLoop calls markOffline.                                      *)
StartsCheck == checkDue /\ ~Checking
StartCheck ==
    /\ StartsCheck
    /\ checkDue' = FALSE
    /\ queue' = Append(queue, Check)
    /\ UNCHANGED <<agentVars, pollVars, entry, age, cmd, dbVars, holder, left, dbAge, held,
                   checkIn, removes>>

(* deleteAgent finds the agent, then calls Remove.                         *)
DeleteAgent(a) ==
    /\ holder = Free
    /\ entry[a] # "absent"
    /\ removes < MaxRemoves
    /\ removes' = removes + 1
    /\ queue' = Append(queue, <<"remove", a>>)
    /\ UNCHANGED <<agentVars, pollVars, entry, age, cmd, dbVars, holder, left, dbAge, held,
                   checkVars>>
-----------------------------------------------------------------------------
(* Readers: RLock is granted when no writer holds m.mu                     *)

(* runTest queues a command if OnlineAgents lists the agent.               *)
EnqueueStartTest ==
    /\ holder = Free
    /\ entry[Polled] = "online"
    /\ cmd = "none"
    /\ cmd' = "queued"
    /\ UNCHANGED <<agentVars, pollVars, entry, age, dbVars, lockVars, checkVars, removes>>

(* A poll reaches DequeueCommand; once the command is done there is        *)
(* nothing to poll for.                                                    *)
Poll ==
    /\ live[Polled] = "up"
    /\ poll = 0
    /\ cmd \in {"none", "queued"}
    /\ poll' = 1
    /\ UNCHANGED <<agentVars, ghost, entry, age, cmd, dbVars, lockVars, checkVars, removes>>

(* DequeueCommand returns, to an agent that waits and is still there.      *)
DequeueCommand ==
    /\ holder = Free
    /\ poll > 0
    /\ poll' = 0
    /\ cmd' = IF cmd # "queued" THEN cmd ELSE IF live[Polled] = "up" THEN "done" ELSE "lost"
    /\ UNCHANGED <<agentVars, ghost, entry, age, dbVars, lockVars, checkVars, removes>>

(* The agent's HTTP client gives up; the controller's goroutine does not.  *)
GivesUp == poll > PollTicks
GiveUp ==
    /\ GivesUp
    /\ poll'  = 0
    /\ ghost' = TRUE
    /\ UNCHANGED <<agentVars, entry, age, cmd, dbVars, lockVars, checkVars, removes>>

(* It takes the command, and writes it to a connection that is closed.     *)
DequeueForNobody ==
    /\ holder = Free
    /\ ghost
    /\ ghost' = FALSE
    /\ cmd' = IF cmd = "queued" THEN "lost" ELSE cmd
    /\ UNCHANGED <<agentVars, poll, entry, age, dbVars, lockVars, checkVars, removes>>

ReaderWaits == poll > 0 \/ ghost
-----------------------------------------------------------------------------
(* Writers: Lock, the change in memory, the database call, Unlock          *)

(* Mutant: readers wait for the writers that came before them.             *)
WritersFirst(op) ==
    /\ holder = Free /\ queue # <<>>
    /\ Head(queue) = op
    /\ queue' = Tail(queue)
    /\ held'  = IF held = PollTicks THEN held ELSE 0

Granted(op) ==
    /\ holder = Free /\ ~ReaderWaits /\ queue # <<>>
    /\ Head(queue) = op
    /\ queue' = Tail(queue)
    /\ held'  = IF held = PollTicks THEN held ELSE 0

CallDb(op) ==
    /\ holder' = op
    /\ dbAge'  = 0

(* Register and Heartbeat: the agent is online from now on.                *)
Refresh(a, op) ==
    /\ entry' = [entry EXCEPT ![a] = "online"]
    /\ age'   = [age EXCEPT ![a] = 0]
    /\ CallDb(op)

Register(a) ==
    /\ Granted(<<"register", a>>)
    /\ Refresh(a, <<"register", a>>)
    /\ UNCHANGED <<agentVars, pollVars, cmd, dbVars, left, checkVars, removes>>

(* Mutant: an agent the registry does not know is taken in again.          *)
HeartbeatOfAny(a) ==
    /\ Granted(<<"heartbeat", a>>)
    /\ Refresh(a, <<"heartbeat", a>>)
    /\ UNCHANGED <<agentVars, pollVars, cmd, dbVars, left, checkVars, removes>>

(* An agent the registry does not know is ignored.                         *)
Heartbeat(a) ==
    /\ Granted(<<"heartbeat", a>>)
    /\ IF entry[a] = "absent" THEN UNCHANGED <<entry, age, holder, dbAge>>
       ELSE Refresh(a, <<"heartbeat", a>>)
    /\ UNCHANGED <<agentVars, pollVars, cmd, dbVars, left, checkVars, removes>>

(* Remove: entry and channel go, with the command in it.                   *)
Remove(a) ==
    /\ Granted(<<"remove", a>>)
    /\ entry' = [entry EXCEPT ![a] = "absent"]
    /\ cmd'   = IF a = Polled /\ cmd = "queued" THEN "done" ELSE cmd
    /\ CallDb(<<"remove", a>>)
    /\ UNCHANGED <<agentVars, pollVars, age, dbVars, left, checkVars, removes>>

(* One round of markOffline's loop.                                        *)
Mark(a, rest) ==
    /\ entry' = [entry EXCEPT ![a] = "offline"]
    /\ left'  = rest
    /\ CallDb(<<"mark", a>>)

MarkOffline ==
    /\ Granted(Check)
    /\ IF Stale = {} THEN UNCHANGED <<entry, left, holder, dbAge>>
       ELSE \E a \in Stale : Mark(a, Stale \ {a})
    /\ UNCHANGED <<agentVars, pollVars, age, cmd, dbVars, checkVars, removes>>

(* Mutant: a removed agent is kept, as offline.                            *)
WrittenSoftDelete(op) ==
    LET status == [register |-> "online", heartbeat |-> "online", mark |-> "offline",
                   remove |-> "offline"]
    IN [row EXCEPT ![op[2]] = status[op[1]]]

(* What the statement of an operation does to the agents table: an upsert, *)
(* a DELETE, or an UPDATE that finds no row without complaint.             *)
Written(op) ==
    LET a == op[2]
        status == [register |-> "online", heartbeat |-> "online", mark |-> "offline",
                   remove |-> "absent"]
    IN IF op[1] \in {"heartbeat", "mark"} /\ row[a] = "absent" THEN row
       ELSE [row EXCEPT ![a] = status[op[1]]]

(* Unlock, or the next agent of markOffline; Register is answered.         *)
Unlock ==
    /\ IF left = {} THEN holder' = Free /\ dbAge' = 0 /\ UNCHANGED <<entry, left>>
       ELSE \E a \in left : Mark(a, left \ {a})
    /\ live' = [a \in Agents |-> IF holder = <<"register", a>> /\ live[a] = "joining"
                                 THEN "up" ELSE live[a]]

(* The database answers, or the call fails or times out: errors are logged *)
(* or ignored, and a call that failed may have written.                    *)
DbReturns ==
    /\ holder # Free
    /\ \/ row' = Written(holder) /\ failed' = failed \ {holder[2]}
       \/ row' \in {row, Written(holder)} /\ failed' = failed \cup {holder[2]}
    /\ Unlock
    /\ UNCHANGED <<beatIn, beatDue, pollVars, age, cmd, queue, held, checkVars, removes>>
-----------------------------------------------------------------------------
(* An agent process dies.                                                  *)
Crash(a) ==
    /\ live[a] \in {"joining", "up"}
    /\ live' = [live EXCEPT ![a] = "dead"]
    /\ beatDue' = [beatDue EXCEPT ![a] = FALSE]
    /\ UNCHANGED <<beatIn, pollVars, entry, age, cmd, dbVars, lockVars, checkVars, removes>>

(* Something is to be done before time goes on.                            *)
Urgent ==
    \/ holder = Free /\ (queue # <<>> \/ ReaderWaits)
    \/ holder # Free /\ dbAge = DbTicks
    \/ StartsCheck
    \/ GivesUp
    \/ \E a \in Agents : SendsHeartbeat(a)

(* The heartbeat ticker, from registration on.                             *)
NextBeat(a) == IF live[a] # "up" \/ beatIn[a] = 1 THEN Interval ELSE beatIn[a] - 1

(* Time goes on by one tick; Go tickers keep one tick for a late reader.   *)
Tick ==
    /\ ~Urgent
    /\ age'     = [a \in Agents |-> IF entry[a] = "online" THEN Min({age[a] + 1, AgeCap})
                                    ELSE 0]
    /\ poll'    = IF poll = 0 THEN 0 ELSE poll + 1
    /\ dbAge'   = IF holder = Free THEN 0 ELSE dbAge + 1
    /\ held'    = IF holder = Free \/ held = PollTicks THEN held ELSE held + 1
    /\ beatIn'  = [a \in Agents |-> NextBeat(a)]
    /\ beatDue' = [a \in Agents |-> beatDue[a] \/ (live[a] = "up" /\ beatIn[a] = 1)]
    /\ checkIn' = IF checkIn = 1 THEN CheckEvery ELSE checkIn - 1
    /\ checkDue' = (checkDue \/ checkIn = 1)
    /\ UNCHANGED <<live, ghost, entry, cmd, dbVars, queue, holder, left, removes>>

Next ==
    \/ \E a \in Agents :
          \/ Boot(a) \/ SendHeartbeat(a) \/ DeleteAgent(a) \/ Crash(a)
          \/ Register(a) \/ Heartbeat(a) \/ Remove(a)
    \/ EnqueueStartTest \/ Poll \/ DequeueCommand \/ GiveUp \/ DequeueForNobody
    \/ StartCheck \/ MarkOffline \/ DbReturns \/ Tick

Spec == Init /\ [][Next]_vars
-----------------------------------------------------------------------------
FlagsOK == beatDue \in [Agents -> BOOLEAN] /\ ghost \in BOOLEAN /\ checkDue \in BOOLEAN

TypeOK ==
    /\ FlagsOK
    /\ live   \in [Agents -> {"off", "joining", "up", "dead"}]
    /\ beatIn \in [Agents -> 1 .. Interval]
    /\ poll   \in 0 .. PollTicks + 1
    /\ entry  \in [Agents -> {"absent", "online", "offline"}]
    /\ age    \in [Agents -> 0 .. AgeCap]
    /\ cmd    \in {"none", "queued", "done", "lost"}
    /\ row    \in [Agents -> {"absent", "online", "offline"}] /\ failed \subseteq Agents
    /\ queue  \in Seq(Ops \cup {Check}) /\ holder \in Ops \cup {Free}
    /\ left   \subseteq Agents /\ dbAge \in 0 .. DbTicks /\ held \in 0 .. PollTicks
    /\ checkIn \in 1 .. CheckEvery
    /\ removes \in 0 .. MaxRemoves

(* An agent that lives and sends its heartbeats is never marked offline,   *)
(* whatever the database does, as long as the calls that can queue up      *)
(* before a heartbeat fit in what Timeout leaves after Interval.  With the *)
(* constants of the code (10, 30 and 5 s) five agents are one too many.    *)
HealthyStaysOnline ==
    Interval + MaxWait <= Timeout =>
        \A a \in Agents : live[a] = "up" => entry[a] # "offline"

(* An agent that died is taken out of OnlineAgents within a time that is   *)
(* known, however the health check waits for m.mu, and however many others *)
(* are marked before it, once by a check that came too early for it.       *)
DeadIsNoticedInTime ==
    \A a \in Agents : entry[a] = "online" => age[a] <= NoticedWithin

(* A poll waits for one holder of m.mu at most: a command is only lost to  *)
(* a poll nobody waits for when a single hold (a database call, or in      *)
(* markOffline one for each stale agent) lasted as long as its timeout.    *)
CommandSurvivesWait == cmd = "lost" => live[Polled] = "dead" \/ held = PollTicks

(* The agents table follows the registry: when m.mu is free, a row says    *)
(* what the registry says, unless the agent's last call failed or its      *)
(* INSERT left no row, which no later heartbeat makes up for.              *)
TableFollowsRegistry ==
    holder = Free =>
        \A a \in Agents : row[a] \in {entry[a], "absent"} \/ a \in failed

(* A removed agent stays out: its heartbeats are acknowledged and ignored, *)
(* those that were waiting for m.mu when it was removed included.          *)
RemovedStaysOut ==
    [][\A a \in Agents : (entry[a] = "absent" /\ live[a] \in {"up", "dead"}) =>
                            (entry'[a] = "absent" \/ Head(queue) = <<"register", a>>)]_vars
=============================================================================
