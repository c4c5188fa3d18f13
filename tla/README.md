# omnitest: a verification project

omnitest is a distributed HTTP load tester. A *controller* (REST API, gRPC
server, PostgreSQL store, WebSocket hub) keeps test definitions and starts runs
on *agents*; an agent runs the load with a pool of *virtual users* and streams
metrics back. `omnitest run` does without either: it loads a scenario file, runs
it, and turns the verdict on its thresholds into an exit code. This directory
holds TLA+ modules of the parts whose correctness depends on interleavings,
faults, order or boundaries, TLC configurations that check them on small
instances, and TLAPS proofs of what matters most for every instance.

Contents: 1 the system, 2 the modules and the code, 3 the runs, 4 fairness,
5 the proofs, 6 what is only model-checked, 7 where the code departs from what it
says, 8 what is not modelled, 9 plan.

    tlc -workers 2 -config MCRegistry.cfg Registry.tla      model-check
    tlapm RegistryProofs.tla                                check proofs

## 1. The system

### Components, state, operations

| component | code | state | operations |
|---|---|---|---|
| Agent process | `internal/agent/agent.go` | under `a.mu`: `status`, `activeRunID`, `activeCancel`; a goroutine per started test | register, heartbeat loop, command poll loop, `ExecuteTest`, `StopTest`, shutdown |
| Test runner | `internal/runner/runner.go`, `internal/worker/`, `internal/metrics/` | `testCtx`, `resultCh`, atomic counters, a histogram under `mu` | `Run`, `pool.Start/Wait`, `runVUser`, `Record`, `Snapshot`, `Result` |
| Command line | `cmd/omnitest/main.go`, `internal/config`, `internal/threshold`, `internal/report` | the configuration, the result, the exit code | load, override, run, evaluate, generate, exit |
| REST run control | `internal/api/handler.go` | none of its own: rows of `test_runs`, the command channels | `runTest`, `stopTest`, `stopTestByRunID`, `pollAgentCommand`, `deleteAgent`, `deleteTest` |
| REST definitions and listings | `internal/api/handler.go` | rows of `tests` | `createTest`, `updateTest`, `deleteTest`, `listTests`, `listTestRuns` |
| Agent registry | `internal/controller/agent_manager.go` | under `m.mu`: `agents`, `commands` (a channel of 10 per agent), mirrored in table `agents` | `Register`, `Heartbeat`, `Remove`, `markOffline`, `EnqueueStartTest/StopTest`, `DequeueCommand` |
| Scheduler | `internal/controller/scheduler.go` | none | `Allocate` |
| Aggregator | `internal/controller/aggregator.go` | last report per agent and run | `OnMetricReport` |
| WebSocket hub | `internal/ws/hub.go` | `clients` under a RWMutex, a channel of 256 per client, two pumps per client | `HandleWebSocket`, `broadcast`, `readPump`, `writePump` |
| Store | `internal/store/postgres.go` | tables `tests`, `test_runs`, `metrics`, `agents` | one statement per call, no transactions |
| Controller process | `cmd/omnitest/main.go`, `internal/controller/controller.go` | two servers, the pool | start, signal, shutdown, exit |

### How they interact

    client --REST--> handler goroutine --SQL--> store
                          |  Allocate, Enqueue
                          v
                     registry: commands[a] (bounded channel)
                          ^  HTTP poll, about once a second; the command is
                          |  taken out of the channel before it is sent
                     agent a: poll loop --go--> ExecuteTest(r) --> runner.Run
                          |  gRPC heartbeat, metric stream
                          v
                     controller: registry, aggregator --> hub --> browsers

Nothing acknowledges a command. The registry and the channels are in memory
only; the database survives a restart and is not read back into them.

### Behaviours that are hard to test

* Several REST requests at once, each a sequence of database and registry
  accesses without a transaction (`handler.go:340-520`).
* Bounded channels that drop when full: `commands[a]`, `c.send`; one that must
  not drop: `resultCh`.
* Database calls of up to five seconds made under `m.mu`, which delay heartbeats,
  health checks and polls.
* A command lost with the response of a poll; an agent or the controller that
  dies in the middle.
* Overlapping `ExecuteTest` goroutines that share one slot.
* Two parties that close one channel (`hub.go:79` and `:162`).
* Reports of several agents that store, aggregate and broadcast in separate
  critical sections.
* A stop that comes while the request that starts its run is still being served.
* An agent ID that a later process has again, with the channel of the earlier one.
* A shutdown that has to outlast streams and requests, a health check nobody waits
  for, and a main goroutine that leaves as soon as the listener is closed.
* The end of a run, where five kinds of goroutines are joined in a fixed order,
  and counters that are updated outside the mutex that covers the histogram.
* Values at an edge: thresholds within a millisecond or a histogram bucket of a
  result, limits computed in floats, a ramp-up too short to divide, flags that
  change what was validated.

The complete list, each at its line with the properties that cover it, is under
`hazards` in `PROJECT.json`.

### What makes each component correct

* **Agent**: the slot names a run in progress or none; a stop reaches the run it
  is for and no other; what is cancelled ends.
* **Run control**: one active run per test, unless two requests check at once; an
  agent starts a run at most once; an agent only executes runs that are on record; a stopped run stays stopped, and
  a stop does not overtake its start, once the request that starts the run has been
  served; the load at work for a run stays within what was asked; requests are
  answered and queued commands take effect.
* **Definitions**: what is stored can be run; a run has one version of its
  scenario; a client that reads all pages misses no row without a reason.
* **Registry**: agents that live are online, agents that died are noticed in
  time, a slow database costs no command unless one hold outlasts a poll, the table follows the registry, a
  removed agent stays out.
* **Scheduler**: all VUsers are handed out, evenly, whatever order the agents
  come in.
* **Aggregator**: aggregates are made of reports that arrived, and the totals of
  a run are shown.
* **Controller**: a signal ends the process, no report is lost of a stream that did
  not break, and the pool is closed under no report and no request that has time.
* **Hub**: no send on a closed channel, no client left connected with a gap,
  the goroutines of a removed client end.
* **Runner**: no result lost but those in hand at the end, none counted twice, a
  report taken from final counters, `Run` returns.
* **Command line**: what loads can be run, the exit code tells what happened in
  the run, a verdict comes with all its reports.

## 2. The modules

    VUserShare       Agent    CommandDelivery   ResultPipe   Aggregator
      |     \          |       ^ implements       ^ implements   |  extends
    Scheduler \---- RunControl                  Runner       Controller
                                                  |
     Scenario  Threshold ----------------------- RunCommand

    Registry      WsHub      Catalog                 (on their own)

Proofs: `SumProofs` (sums over finite sets, and `VUserShare`), `SchedulerProofs`,
`RunControlProofs` (also of `Agent` and `CommandDelivery`), `CatalogProofs`,
`WsHubProofs`, `ControllerProofs` (also of `Aggregator`), `RegistryProofs`,
`RunnerProofs` (also of `RunCommand`, `Scenario` and `Threshold`).

`map` in `PROJECT.json` gives the source lines of every definition. Operators
whose comment begins with "Mutant" are variants that no specification uses: each
is the change a plausible bug would make, and shows that a property can fail.

### Agent

One element of `Agents` is an agent ID: name and start time in ms modulo 10000
(`agent.go:60`). A restart usually gets another, but a later process may get one
that was used (`Boot` of a process that has ended, in `RunControl` the fault
`reuse`); two live processes with one ID are left out. `phase[a]` is the life of
the latest process and of its context, `exec[a][r]` the place of the goroutine of
`ExecuteTest(r)`:

| action | code |
|---|---|
| `Boot` | registration succeeded, loops entered |
| `StartTest`, `StopTest` | a command in `commandPollLoop`: `go ExecuteTest`, or `StopTest` in the poll goroutine itself |
| `ParseFails` | `config.LoadFromString` fails, before the slot is taken |
| `TakeSlot` | the first locked section of `ExecuteTest` |
| `StreamOpens`, `StreamFails` | `client.StreamMetrics` |
| `RunCancelled`, `RunReturns` | `runner.Run` returns because of its context, or by itself |
| `ResetSlot` | the deferred function |
| `Signal`, `CancelActive`, `Exit`, `Crash` | shutdown in the order of `Run`, and its absence |

`stopRecv` and `overlapped` are history variables. The reports of a run are in
`Aggregator`, the two tickers in `Registry`.

### VUserShare and Scheduler

`Scheduler` is `Allocate` as its loop, one agent per step. `VUserShare` states
what it may return for a set of agents in any order, as Go iterates over a map:
`Allocations(total, S)`. `RunControl` uses that operator in place of the loop;
`ReturnsAnAllocation` is what justifies it.

### RunControl and CommandDelivery

The composed system. `Handlers` are the goroutines that serve REST calls; each
access to the database or the registry is a step, so requests interleave
wherever the code lets them. A run passes through

    RunFind -> RunCheck -> RunAllocate -> RunCreate -> RunMark -> Deliver*  (runTest)
    StopFind -> StopMark -> StopTargets -> Deliver*        (stopTest, stopTestByRunID)

with `RunRefused` and `RunCreateFails` for the error paths. `mailbox[a]` is
`m.commands[a]`, `wire[a]` the response of the poll under way, `reg[a]` the
registry's entry. The agents are those of `Agent`: `Join`, `Receive` and
`AgentStep` are its actions joined with their effect on the rest, so what is
proved of `AgentSpec` holds here. `Join` of an ID that was used keeps the channel and
the commands left in it, as `Register` does (`agent_manager.go:46`).
Three variables are histories: `raced`, the runs a stop was found for while the
request that starts them was being served, `unmarked`, those whose UPDATE to
running failed, and `contested`, the tests for which two requests were between
check and INSERT at once or a check failed. They name what the code does not
exclude, so that the properties can say what holds of everything else.

`CommandDelivery` is the promise about a start, without handlers, channels or
polls: sent once or never, received once or never, and once it is over it never
comes back. `DeliverySpec` maps `RunControl` to it.

`Faults` selects what may go wrong: failing database calls (ignored, or reported
although they committed), lost poll responses, late heartbeats, crashed or
stopped agents, agent IDs used again, a restarted controller, removed agents,
deleted tests. The runs and the theorems say which faults they admit.

Refused calls change nothing and are left out. `ControllerRestart` clears the
registry, the channels and the requests being served, and leaves the database.

### Registry

The registry under time. Time goes on in ticks, and only when nothing that takes
no time is left to do (`Urgent`): the network and the scheduler are far faster
than a tick, the database is not. A writer of `m.mu` keeps it while its database
call lasts, up to `DbTicks`; `queue` is the order of the waiting writers, and
waiting readers go first at each unlock, as Go's RWMutex has it. `markOffline`
makes one call per stale agent in one hold. `row` and `failed` are the `agents`
table and the agents whose last call failed. A poll waits for `m.mu` as a reader;
when it has waited longer than the agent's timeout, the agent gives up (`GiveUp`)
and the handler does not (`ghost`): what it then dequeues is lost. `held` is a
history variable, the length of the present hold.

`RunControl` abstracts all this: heartbeats are late or not, and a poll takes a
command or not.

### Aggregator and Controller

`Aggregator` is the way of a run's reports: the agent's stream, the goroutine of
`StreamMetrics` that serves it, and the four steps of `OnMetricReport` (`Store`,
`Aggregate`, `Broadcast`, `Insert`), each its own critical section. A report is
its number on its stream; an aggregate is the number it saw of each agent. `Recv`
ends with io.EOF behind the last report (`ended`), or on a broken stream with an
error at any time (`failed`).

`Controller` extends it by the process: main (`StartServers`, `AssignServer`,
`Listen`, `Exit`), the goroutine that waits for the signal (`BeginShutdown`,
`Drained` for `GracefulStop`, `CloseListeners` and `HttpIdle` for
`http.Server.Shutdown`, `ClosePool`) and `HealthCheckLoop` (`CheckBegins`,
`CheckEnds`, `LoopEnds`). gRPC serves from `StartServers` on, before
`c.httpServer` is assigned. `Dead` stops everything. HTTP requests are counted.

### WsHub

One client, two pumps: `reader`, `writer`. Each section under `mu.Lock` is a
step; `broadcast` holds `mu.RLock` from `BroadcastBegins` to `BroadcastEnds` and
sends to one client per step, so `CanLock` keeps a client from being deleted in
between. The goroutine a broadcast starts for a full channel has the three steps
of the code: delete under the lock, close the channel, close the connection.
The deferred function of `readPump` has the same three. A second `close` panics:
recovered by net/http in `readPump`, fatal (`crashed`) in the removal.

### Runner, ResultPipe, Scenario, Threshold, RunCommand

In `Runner`, `main` is the goroutine of `Run` with its order of joins (ticker,
pool, close, recorder, report). `vu[i]` is a virtual user, `hand[i]` the result
it is about to send. `recorder` passes through the separate atomic updates of
`Record`, of which only the last holds `mu`; `ticker` through the reads of
`Snapshot`, all under `mu`. A result is `"ok"` or `"error"`.

`ResultPipe` is what a run promises: each result is counted once or lost once,
lost only after the end, and the report is made when nothing is left to count.
`PipeSpec` is the refinement: `totalReqs` is what was counted.

`Scenario` holds `validate`, `Load`, the overrides of `--vusers`, `--duration` and
`--ramp-up`, and the runner's lookup of its target as operators; `NoInterval` is the
ramp-up for which `NewTicker` panics.

`Threshold` holds `Evaluate` and `EvaluateCondition`, and the two conversions before
them. `Reported` is what the histogram makes of a latency: buckets of a width that
doubles with the magnitude, a percentile at the upper end of its bucket, a mean
somewhere about it. A product of floats (a fraction of a second times 1000, a
percentage) leaves two numbers that are equal in a state where either may be the
larger: `ulp`. Beside them is `Holds`, a reading of the condition with exact numbers
on the latency as it was measured, and `OnTheEdge`, where the two may differ: within
the histogram's `Resolution`, the millisecond that is cut off, or a rounding.

`RunCommand` puts a `Runner` between them: `Load`,
`Override`, `StartRun`, the steps of the run, `Evaluate`, the loop of `Generate`,
`ExitWithVerdict`. A signal is `CtxEnds`: it ends the run early and nothing later
knows.

### Catalog

The definitions of tests and the listings. `RunRead`, `RunCreate` and `RunQueue`
are the steps of `runTest` that read the definition, with edits and deletions in
between. `walk` is a client, the model's own, that asks for pages as often as
`total` and `per_page` say; `ListCount` and `ListSelect` are the two statements of
a listing. Three histories count the reasons it may miss a row that was there all the
time: rows deleted since it began (`deleted`), rows created between its last COUNT
and the SELECT (`late`), and rows cut off from a page by an error (`lost`).

## 3. The runs

A passing run finds its properties true in every reachable state of its
instance. A violation run checks one sentence of the code or its documentation
that the code does not keep.

| run | instance | shows |
|---|---|---|
| `scheduler` | totals 0..13, up to 6 agents | nothing lost, an allocation of `VUserShare` |
| `run_concurrent` | 2 handlers, 2 agents, 1 test, 1 run of 3 VUsers, 2 calls, channel 1; `db`, `lost`, `crash`, `reuse`, `restart`, `remove`, `delete` | types and channel capacity, load within the request, executed runs are on record, one start per agent and run (`DeliverySpec`), and what was stopped once its start was served stays stopped |
| `run_live` | 2 handlers, 1 agent, 1 test, 2 runs, 3 calls, channel 2; `late`, `crash`, `signal`; fair | the agent's slot is consistent however runs overlap, a run that never overlapped can be stopped, only a stop or the shutdown cancels; a stop overtakes a start, and a test runs twice, in the races of `runTest` only; requests are answered, queued starts executed, queued stops effective |
| `registry` | 2 agents, 1 removal, heartbeats and checks every tick, timeout 7, database calls up to 2, poll 2 | who lives stays online, who dies is noticed in time, a command is lost only to a hold as long as a poll's timeout, the table follows, who is removed stays out |
| `controller` | 2 agents with 3 reports between them, 1 HTTP request; fair | the totals are shown, the shutdown loses no report of a stream that did not break, and closes the pool after streams and requests; a signal ends the process, unless it came before `c.httpServer` was assigned |
| `ws_hub` | 1 client, 4 broadcasts, channel 2; fair | no send on a closed channel, no client stays with a gap, pumps end, slow clients are disconnected |
| `cli` | 10363 files, 27 flag combinations, 2 VUsers with ramp-up, `resultCh` of 1, 3 requests, 2 snapshots, 7 threshold lists, 2 latencies, 3 format lists; fair | the runner's safety, `PipeSpec`; what loads can be run, the exit code tells the run, the command ends |
| `catalog` | 3 tests, 2 agents, 4 texts, pages of 1 and 2, 1 run | one version per run, a walk of pages misses no more rows that stayed than there are reasons for |
| `double_run` | 2 handlers, 2 runs, no fault | *violation*: two requests start the same test twice |
| `stop_lost` | 2 handlers, 1 agent, 1 run, no fault; fair | *violation*: a stop is overwritten by the UPDATE to running and comes before the start it should end |
| `controller_graceful` | 1 agent, 1 report, 1 HTTP request | *violation*: the exit cuts off a request within the 10 s |
| `ws_slow_client` | 1 client, 3 broadcasts, channel 1 | *violation*: removing a slow client ends the process |

Why the bounds are enough to meet the interesting cases:

* Three VUsers on two agents give unequal shares, and one of the two agents can
  be removed or offline between allocation and delivery. A channel of 1 fills
  with the first command: the second is dropped.
* `reuse` lets a second process meet the commands left for the first. Two calls
  are a start and a stop that meet at every step of each other, with a lost, failed or
  restarted step between them.
* Three calls of two handlers allow start, stop, start of a test on the same agent,
  or two starts and a stop; two starts that meet between check and INSERT make two
  runs overlap on the agent of `run_live`. `MaxCalls` is the only bound on requests.
  The proofs hold for any number of both.
* In the registry the timeout, 7 ticks, is an interval of 1 and the 3 calls of 2
  ticks that can queue up (one per agent and a removal): the largest wait for which
  `HealthyStaysOnline` promises anything, with its boundary met. A poll's timeout is
  that of a database call, as in the code: one slow call can make an agent give up,
  two quick ones in a row must not. Ages are capped above every threshold (`AgeCap`).
* Three reports of two agents (`MaxReports` bounds those of all agents) let an older
  aggregate be broadcast after a newer one, and one stream have a report before its
  last; the signal may come in every state, before `c.httpServer` is
  assigned too.
* In the hub a channel of 2 and 4 broadcasts allow a full channel, room again
  before the removal gets the lock, and a later message behind the gap. One
  client is enough, as no property relates two; the proofs hold for any `Clients`.
* In the runner a channel of 1 is full while one result is being recorded; three
  requests let two virtual users block on it and one of them try again; two
  snapshots let a window be reset and read again. Files have up to two targets of
  two names and up to one scenario with every field good or bad; a ramp-up of 0, 1
  and 9 ns is below and above one per VUser. Latencies are 1.5 ms, where the buckets
  are a microsecond wide, and 16.995 ms, where they are eight and the next one begins
  at 17 ms; thresholds lie at, above and within a millisecond of them, in ms and in s.
* Pages of one and two rows over three tests end within, at and past the last row.

`SYMMETRY` (agents, handlers, tests, which no definition tells apart) is used in runs
without liveness properties only. `CHECK_DEADLOCK FALSE` is set, with a comment,
where the system really comes to rest: a process exits, `Allocate` returns, a
command ends, or a bound on requests is reached. The registry goes on for ever
and is checked for deadlock.

## 4. Fairness

* **Agent, run control.** Goroutines that can go on are scheduled; opening and
  closing a stream comes to an end; the runner returns once its context is done
  (`CommandEnds` shows that). Agents poll, and a response that is not lost
  arrives: the poll loop does nothing else and handles starts in goroutines of
  their own. Nothing is assumed of `RunReturns` (a test may last), of heartbeats,
  or of faults.
* **Controller.** The goroutines go on, requests are answered, and the agents'
  runs end, so that their streams are closed. The last is needed: `GracefulStop`
  waits without a bound, and keepalive does not end a stream of an agent that
  lives. Nothing is assumed of the signal or of the 10 s.
* **WsHub.** A started broadcast and a started removal go on. Weak fairness of
  the removal's lock is justified by Go's RWMutex, which keeps new readers out
  while a writer waits, and by broadcasts being finite. Reads and writes of a
  closed connection fail; the ping ticker offers a write when there is no
  message. Of an open connection nothing is assumed: a peer may be slow for ever.
* **RunCommand.** The timer of `testCtx` fires; a request ends, with its context
  at the latest; main goes on. A tick need not come and a virtual user need not
  make a request.
* **Registry** has no fairness and no liveness: that something happens in time is
  a safety property of a model with a clock (`DeadIsNoticedInTime`).

## 5. The proofs

All are for every value of the constants. Assumptions are the named `ASSUME`s in
the modules: sentinels are not members of the sets they stand beside, capacities
are positive, totals, bounds, times and latencies are naturals, a latency is below 31 s
as a request has a timeout of 30 s (`TimeoutAssumption`, `http/client.go`), the numbers
of thresholds are integers, lists of formats are sequences of texts, files are what
the parser can make (`FilesAssumption`) and flags are integers
(`FlagsAssumption`), `Faults` is a subset of `FaultKinds`, and sets of agents are
finite. Where a property holds but for runs in `raced`, tests in `contested` or the
like, the property says so itself, and the theorem adds nothing.

| theorem | of | argument |
|---|---|---|
| `AgentInvariant` | `Agent` | `AgentInv` is inductive. `SoloRunIsStoppable` is not by itself: when a run takes the slot, the one it took it from must be on record as overlapped, and when a run clears the slot any other in progress must be. `OverlapRecorded` says so. |
| `SlotIsConsistent`, `SoloRunsAreStoppable`, `NoForeignCancel` | `Agent` | parts of `AgentInv` |
| `AllocateLosesNothing`, `AllocateIsEven`, `AllocateReturnsAnAllocation` | `Scheduler`, `VUserShare` | by the defining property of `\div` and `%` (`DivMod`): after `i` rounds `i * (total \div n) + Least(i, total % n)` VUsers are handed out; at `i = n` that is the total |
| `TypeCorrect` | `RunControl` | `TypeOK` is inductive, the capacity of channels included |
| `RunsAreOnRecord` | `RunControl` | `MarkInv` follows a start from the handler that has marked the run, or failed to (`unmarked`), through the channel and the wire, to the agent. What is on record stays on record (`OnRecordForEver`): no statement makes a row pending again, and a deleted row has been one. Any handlers, every fault. |
| `StartsComeOnce`, `NoStartIsRefused` | `RunControl` | `OnceInv`: no two requests have the same run (`OneRequestPerRun`), and of a run and an agent the start is in one place: with the handler, on its way, or received (`StartIsFresh`, `MayStart`). A run ID that was used is never unused again, so this survives restarts and crashes; a process with a used agent ID finds in its channel starts that nobody received. |
| `ImplementsDelivery` | `RunControl` | with `OnceInv` the place of the start is the state of `CommandDelivery`, and every step moves it on or leaves it (`StageStep`) |
| `StopComesAfterStart` | `RunControl` | `StopIsLate`: a run whose stop is found, on its way or received is `raced`, or its request has been served, so that every start of it is before the stop in channel and wire, or gone. Any handlers, every fault. |
| `StoppedStaysStopped` | `RunControl` | `StoppedIsServed`: of a stopped run that is not `raced`, no request is left that could set the row to running. Any handlers, every fault. |
| `OneActiveRun` | `RunControl` | `CheckHolds`: while one request of an uncontested test is between check and INSERT, no other is, and no run of the test is active but a `raced` one: nobody else inserts, and what is stopped and not `raced` stays so (`StoppedIsServed`). Any handlers, every fault. |
| `LoadIsBounded` | `RunControl` | the VUsers committed to an agent are in one place (`CommittedOnce`, from `OnceInv`), the shares of a request add up to its total (`AllocationIsTotal`, `RequestIsShared`), and a step takes at most one share out of the sum or replaces it by an equal one |
| `TypeCorrect`, `RunHasOneVersion` | `Catalog` | `VersionInv`: the run being started is the last row, and has the text its request read before it was created |
| `MissesHaveReasons` | `Catalog` | `WalkInv`: the rows before the client's page that it has missed are no more than were deleted or lost. A new row moves the missed ones back and adds none (`MovedUp`), a deletion moves at most one row past the client (`MovedDown`), a page adds what was cut off from it (`PageCovers`), and the rows behind the last page are the `late` ones. |
| `RegistryTypes` | `Registry` | time stands still (`Urgent`) at the timeout of a poll or a call, so neither outlasts it; `age` stops at its cap |
| `CommandsSurvive` | `Registry` | `PollInv`: a poll has waited no longer than the present or last hold, since no writer gets `m.mu` while a reader waits and time goes on only during a hold |
| `TableAgrees`, `RemovedAgentsStayOut` | `Registry` | `LockInv`: under `m.mu` the agent of the call is as its operation left it, every other agent's row follows or is excused, and whoever `markOffline` has still to mark is online, since nobody else writes. The last part is why a health check under way cannot bring a removed agent back. |
| `DeadAgentsAreNoticed` | `Registry` | `LineInv` says who may stand in the line at `m.mu`: one health check, one call of each agent, the removals. `DeadInv`: an agent that is online although it is stale is being marked, or is among those the check under way has still to mark, or a check that will find it stale is so near that what comes first fits in `NoticedWithin`. |
| `HealthyAgentsStayOnline` | `Registry` | the calls that may come before a heartbeat are counted (`CountPlaces`, `LineFits`: the places of a line are at most the other agents and the removals). `UpInv`: between two heartbeats there is time for the next and for all others; `InLineInv`: a heartbeat in the line is in time, also when a check comes before it and first marks those it finds stale (`Doomed`), whose calls then are not in the line as well; `GoneInv`: those are dead and have no call left. Its hypothesis, `Interval + MaxWait <= Timeout`, is that of the property. |
| `ControllerTypes`, `HubTypes` | `Controller`, `WsHub` | `TypeOK` is inductive; in the hub it includes the capacity of the send channels, which broadcasts fill under the read lock only |
| `AggregatorInvariant`, `ControllerShowsTotals` | `Aggregator`, `Controller` | the goroutine that stored last aggregates after every store: it has, or will have, the latest of all agents |
| `ImplementsAggregator` | `Controller` | the process, its shutdown and its exit take only steps of `AggSpec` |
| `PoolIsClosedLast`, `ShutdownLosesNoReport` | `Controller` | the phases of the shutdown are in order, a stream that is accepted is over before any of them, and a stream ends with io.EOF only when what was got is what was sent |
| `BroadcastsNeverPanic`, `GapsAreCutOff` | `WsHub` | `HubInv`: a broadcast has only clients of the map still to visit, since `CanLock` keeps them there; a channel is closed only after its client is out of the map; a missed message has a goroutine that has begun to remove its client |
| `RunTypes`, `NobodySendsOnClosed`, `EveryResultAccounted`, `ReportsAreFinal`, `SnapshotsAgree` | `Runner` | parts of `RunInv`. What makes it inductive: the virtual users start in order (so that the one started next holds no result), the end goes in order (`EndsInOrder`: a report exists only when the recorder has ended, it ends only on a closed and empty channel, and that is closed only when all virtual users are idle), and the counters are one ahead of the histogram at most (`CountsAgree`), which `mu` freezes while a snapshot is taken (`SnapAgrees`) |
| `WindowsAddUp` | `Runner` | `WindowInv`: a snapshot has no window before it swaps the counter, so the swap moves a number from one term of the sum to another; a finished snapshot adds one term (`WindowsAdd`) |
| `RunImplementsPipe` | `Runner` | every step maps to a step of `ResultPipe` or a stutter; a result that is counted or given up was on its way (`OneMoreOnTheWay`) |
| `CommandRunsTheRunner` | `RunCommand` | every step of a command is a step of `Spec` or leaves its variables alone; a duration that is over at once is `CtxEnds` |
| `LoadedScenariosRun` | `RunCommand`, `Scenario` | `RunnableInv`: what `validate` accepted (`LoadedIsRunnable`), the flags keep runnable (`FlagsKeepRunnable`) but for a ramp-up of 1 to `vusers - 1` ns, for all files and flags |
| `VerdictComesLast` | `RunCommand` | `CommandInv`: what is written are known formats, none before the verdict |
| `ExitCodeTellsTheRun` | `RunCommand`, `Threshold`, `Runner` | `BucketsAreNarrow`, `ReportedIsClose`: what the histogram reports is within `Resolution` of what was measured. `PassedMeansHolds`: off the edge the code's comparison of that, cut to milliseconds and rounded either way, equals the exact one, for all results and limits. `VerdictInv`: verdicts are given on the report of a run that is done. With `ReportIsFinal` that report is what happened. |

Where the module has an invariant that a run checks, the theorem names the same
definition: the run covers a small instance, the theorem all of them. What is proved
for every instance and needs no run of its own is in no `.cfg`: the type invariants
of `Agent`, `Scheduler`, `Registry`, `Aggregator`, `Controller`, `WsHub`,
`Catalog` and `Runner`, `EvenSplit`, `AggregatesAreCurrent`,
`ReceivedStartIsFresh` and `ReportsBeforeVerdict`.

Sums over sets of agents and of snapshots are the community modules' recursive
functions. What the proofs need of them (`SumType`, `SumTakesOut`, `SumMonotone`,
`SumOfShares`, ...) is in `SumProofs`, by induction over the subsets of a finite set:
`SubsetInduction` takes the set of good subsets in place of a predicate.

Proving corrected the model once. `DeadIsNoticedInTime` had a bound that holds for
two agents and not for more: a check that comes too early for an agent may be
busy marking others for longer than an interval, and the check that finds it marks
others before it again. `NoticedWithin` counts both (`MaxMarks`).

## 6. Only model-checked

Every safety invariant, action property and refinement of a passing run is stated by
a theorem of section 5. What stays with TLC is liveness: `RequestEnds`,
`QueuedStartIsExecuted`, `QueuedStopEndsRun`, `PumpsEnd`,
`SlowClientIsDisconnected`, `SignalEndsProcess`, `CommandEnds`. Fairness and
`ENABLED` are beyond the prover. The violation runs are counterexamples, and stay
with TLC by their nature.

## 7. Where the code departs from what it says

Shown by a run:

1. Two concurrent requests start the same test twice (`handler.go:356`,
   `double_run`).
2. A stop served between the INSERT of a run and the unconditional UPDATE to running
   (`handler.go:407-413`) is overwritten, and as the starts are queued after the
   response (`handler.go:423-430`), its command can be queued before them: the agent
   then executes a run that was stopped, and that is on record as running
   (`stop_lost`).
3. Removing a slow client can close its channel twice and end the controller
   (`hub.go:162`, `ws_slow_client`).
4. `ListenAndServe` returns as soon as the shutdown has closed the listeners; main
   calls `os.Exit(99)` and cuts off requests that the shutdown would have waited
   for (`main.go:229`, `controller_graceful`). A controller that is told to stop
   therefore always ends with 99.

Noted while modelling, without a run of their own:

* Agent: a start takes the slot from a run in progress, which `StopTest` then does
  not find (`agent.go:315`, `:320`); the shutdown does not wait for `ExecuteTest`
  goroutines (`agent.go:133`); it logs that final metrics were sent, and sends no
  snapshot after the last tick's (`agent.go:303-305`).
* Scheduler: `Allocate` ignores the `MaxVUsers` an agent registers with
  (`scheduler.go:26`, `main.go:293`).
* Run control: no code moves a run from running to completed
  (`OnTestComplete` is never set, `UpdateTestRunResult` never called), so a test
  that ran once is refused with 409 until it is stopped by hand. A client that hangs
  up cancels `r.Context()` and with it the database calls whose errors are ignored;
  the starts are queued all the same (fault `db`).
  `duration_override` is decoded and not used. Deleting a test takes the rows of its
  runs, also of one in progress, which then cannot be stopped (`postgres.go:227`).
* Registry: after a controller restart, heartbeats of agents it does not know are
  acknowledged and ignored, and agents never register again. With the constants of
  the code (10, 30 and 5 s) `HealthyStaysOnline` promises nothing from five agents
  on when every database call takes its timeout. A poll and a database call have
  the same 5 s, so that one slow call can cost a command: the case `CommandSurvivesWait`
  excuses. An INSERT that failed is never made up for; heartbeats only update.
* Controller: `GracefulStop` waits without a bound for metric streams, so the 10 s
  do not apply to it (`controller.go:105`). A signal before `c.httpServer` is
  assigned leaves a controller that serves HTTP without gRPC and pool
  (`MissedServer`). `HealthCheckLoop` may be in a statement when the pool is closed;
  the next fails, and `markOffline` ignores that.
* Definitions: an update without a scenario erases it (`handler.go:307`);
  `rows.Err` is not looked at, so a page may be short with status 200.
* Command line: a ramp-up of fewer nanoseconds than VUsers makes `NewTicker`
  panic before any virtual user is started (`worker.go:57`); neither the file
  nor the flag is checked for it. `Runner` on its own takes a ramp-up that can
  be divided, and `RunCommand` has the panic (`NoInterval`). Flags are not
  validated, so a run may have a negative duration and make no request; a run
  without requests passes an error threshold; an interrupted run is judged and
  exits 0 or 1; exit code 3 is never reached from a file that loads. A condition
  in `us` is read as seconds and one in `m` as milliseconds; latencies are kept
  to three digits and cut to milliseconds, and a percentage that equals its
  limit, or a limit with a fraction of a second, is up to a float's rounding
  (`OnTheEdge`).
* `SetStatus`, `ListAgents`, `GetAgent` of the store and `Cleanup` are called by
  nobody.

## 8. Not modelled, and why

* **Rates and bodies; wording; the contents of reports and of the terminal**: data
  and layout no property tells apart. The percentiles of a run are one value, before
  the histogram rounds it; that memory has room for the virtual users is taken for
  granted.
* **Two live agents with one ID**: they would have to start at the same ms modulo
  10000 under one name; they would share a channel and a registry entry.
* **HTTP client, gRPC transport**: a request is a step that returns a result;
  keepalive is a stream that breaks. `StartTest` and `StopTest` of the gRPC
  service have no handler.
* **YAML and `${VAR}`**: a file is a record. Variables are expanded on the
  controller and again on the agent, each with its own environment.
* **Rows of `metrics` and their listing**: nothing but a chart reads them.
* **Web UI, demo server, generated code**: a client, an example, generated code.

## 9. Plan

1. `Aggregator` composed with `WsHub`: what a viewer sees last.
2. `RunControl` over `Registry` in place of the faults `late` and `lost`.
3. The runner's snapshots as the reports of `Aggregator`, for what is missing in
   the last one.
