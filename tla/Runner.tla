------------------------------- MODULE Runner -------------------------------
(***************************************************************************)
(* One run of a load test (internal/runner/runner.go): the main goroutine  *)
(* of Run, the virtual users of the pool (internal/worker/worker.go), the  *)
(* bounded result channel, the goroutine that records results and the one  *)
(* that takes snapshots, with the counters they share                      *)
(* (internal/metrics/collector.go).                                        *)
(*                                                                         *)
(* Simplifications: a result is "ok" or "error"; latencies and bytes are   *)
(* left out, but the histogram's count is kept, since it is guarded by mu  *)
(* and the counters are not; a tick may come at any time.                  *)
(***************************************************************************)
EXTENDS Naturals, Sequences, FiniteSets, Functions

CONSTANTS VUsers,       \* scenario.VUsers
          RampUp,       \* whether scenario.RampUp is positive
          BufSize,      \* capacity of resultCh: VUsers * 100, at least 1000
          MaxRequests,  \* bound of the model on the requests made
          MaxSnapshots  \* bound of the model on the snapshots taken

ASSUME VUsersAssumption == VUsers \in Nat
ASSUME RampUpAssumption == RampUp \in BOOLEAN
ASSUME BufSizeAssumption == BufSize \in Nat \ {0}
ASSUME MaxRequestsAssumption == MaxRequests \in Nat
ASSUME MaxSnapshotsAssumption == MaxSnapshots \in Nat

VARIABLES ctxDone,    \* testCtx is done: duration over, or parent cancelled
          main,       \* where the goroutine of Run is
          started,    \* VUsers started so far: vu[1 .. started]
          vu,         \* vu[i]: where virtual user i is
          hand,       \* hand[i]: the result i is about to send, at most one
          resultCh,   \* results in the channel
          closed,     \* resultCh is closed
          recorder,   \* where the goroutine that calls Record is
          rec,        \* the result it is recording, at most one
          ticker,     \* where the goroutine that takes snapshots is
          snap,       \* the snapshot it is taking
          snapshots,  \* snapshots taken
          totalReqs, totalErrors, windowReqs, \* atomic counters
          histogram,  \* values in the histogram
          report,     \* TestResult, at most one
          made,       \* history: requests begun
          finished,   \* history: results the client returned
          dropped     \* history: results given up at the end of the run

poolVars  == <<started, vu, hand, made, finished, dropped>>
chanVars  == <<resultCh, closed>>
countVars == <<totalReqs, totalErrors, windowReqs, histogram>>
snapVars  == <<ticker, snap, snapshots>>
vars == <<ctxDone, main, poolVars, chanVars, recorder, rec, snapVars, countVars, report>>

VUserIds == 1 .. VUsers
Outcomes == {"ok", "error"}
NoSnap   == [total |-> 0, errors |-> 0, window |-> 0, hist |-> 0]

Init ==
    /\ ctxDone = FALSE
    /\ main = "starting" /\ started = 0
    /\ vu = [i \in VUserIds |-> "none"]
    /\ hand = [i \in VUserIds |-> <<>>]
    /\ resultCh = <<>> /\ closed = FALSE
    /\ recorder = "idle" /\ rec = <<>>
    /\ ticker = "waiting" /\ snap = NoSnap /\ snapshots = <<>>
    /\ totalReqs = 0 /\ totalErrors = 0 /\ windowReqs = 0 /\ histogram = 0
    /\ report = <<>>
    /\ made = 0 /\ finished = 0 /\ dropped = 0

(* The duration is over, or the context of Run is cancelled.               *)
CtxEnds ==
    /\ ~ctxDone
    /\ ctxDone' = TRUE
    /\ UNCHANGED <<main, poolVars, chanVars, recorder, rec, snapVars, countVars, report>>
-----------------------------------------------------------------------------
(* The goroutine of Run: pool.Start, then the end of the run in order      *)

MoreVUsers == started < VUsers

(* One round of the loop of pool.Start.  A ramp-up too short for a ticker  *)
(* ends the process before the first (RunCommand, StartRun).               *)
StartVUser ==
    /\ main = "starting"
    /\ MoreVUsers
    /\ started' = started + 1
    /\ vu' = [vu EXCEPT ![started + 1] = "looping"]
    /\ UNCHANGED <<ctxDone, main, hand, made, finished, dropped, chanVars, recorder, rec,
                   snapVars, countVars, report>>

(* pool.Start returns: all are started, or the ramp-up is cut short while  *)
(* it waits for the next tick.                                             *)
StartReturns ==
    /\ main = "starting"
    /\ \/ started = VUsers
       \/ RampUp /\ VUsers > 1 /\ started > 0 /\ ctxDone
    /\ main' = "running"
    /\ UNCHANGED <<ctxDone, poolVars, chanVars, recorder, rec, snapVars, countVars, report>>

(* <-testCtx.Done(), then <-snapshotDone.                                  *)
JoinTicker ==
    /\ main = "running"
    /\ ctxDone
    /\ ticker = "ended"
    /\ main' = "joining"
    /\ UNCHANGED <<ctxDone, poolVars, chanVars, recorder, rec, snapVars, countVars, report>>

Idle(i) == vu[i] \in {"none", "ended"}

(* Mutant: Run does not wait for its virtual users.                        *)
CloseUnjoined ==
    /\ main = "joining"
    /\ closed' = TRUE
    /\ main' = "closed"
    /\ UNCHANGED <<ctxDone, poolVars, resultCh, recorder, rec, snapVars, countVars, report>>

(* Mutant: resultCh is not closed.                                         *)
JoinPoolOnly ==
    /\ main = "joining"
    /\ \A i \in VUserIds : Idle(i)
    /\ main' = "closed"
    /\ UNCHANGED <<ctxDone, poolVars, chanVars, recorder, rec, snapVars, countVars, report>>

(* pool.Wait returns, and resultCh is closed.                              *)
JoinPool ==
    /\ main = "joining"
    /\ \A i \in VUserIds : Idle(i)
    /\ closed' = TRUE
    /\ main' = "closed"
    /\ UNCHANGED <<ctxDone, poolVars, resultCh, recorder, rec, snapVars, countVars, report>>

(* Mutant: Run does not wait for the recorder.                             *)
ReportUnjoined ==
    /\ main = "closed"
    /\ main' = "done"
    /\ report' = <<[total |-> totalReqs, errors |-> totalErrors, hist |-> histogram]>>
    /\ UNCHANGED <<ctxDone, poolVars, chanVars, recorder, rec, snapVars, countVars>>

(* <-collectorDone, then collector.Result.                                 *)
Report ==
    /\ main = "closed"
    /\ recorder = "ended"
    /\ main' = "done"
    /\ report' = <<[total |-> totalReqs, errors |-> totalErrors, hist |-> histogram]>>
    /\ UNCHANGED <<ctxDone, poolVars, chanVars, recorder, rec, snapVars, countVars>>
-----------------------------------------------------------------------------
(* A virtual user: runVUser                                                *)

(* ctx is seen to be done before the next request.                         *)
VUserEnds(i) ==
    /\ vu[i] = "looping"
    /\ ctxDone
    /\ vu' = [vu EXCEPT ![i] = "ended"]
    /\ UNCHANGED <<ctxDone, main, started, hand, made, finished, dropped, chanVars, recorder,
                   rec, snapVars, countVars, report>>

(* The next request begins: the context was not done when looked at.       *)
Request(i) ==
    /\ vu[i] = "looping"
    /\ ~ctxDone
    /\ made < MaxRequests
    /\ made' = made + 1
    /\ vu'   = [vu EXCEPT ![i] = "requesting"]
    /\ UNCHANGED <<ctxDone, main, started, hand, finished, dropped, chanVars, recorder, rec,
                   snapVars, countVars, report>>

(* client.Do returns: a response, an error, or the context's end.          *)
Respond(i) ==
    /\ vu[i] = "requesting"
    /\ \E r \in Outcomes : hand' = [hand EXCEPT ![i] = <<r>>]
    /\ vu' = [vu EXCEPT ![i] = "sending"]
    /\ finished' = finished + 1
    /\ UNCHANGED <<ctxDone, main, started, made, dropped, chanVars, recorder, rec, snapVars,
                   countVars, report>>

Send(i) ==
    /\ vu[i] = "sending"
    /\ Len(resultCh) < BufSize
    /\ resultCh' = resultCh \o hand[i]
    /\ hand' = [hand EXCEPT ![i] = <<>>]
    /\ vu'   = [vu EXCEPT ![i] = "looping"]
    /\ UNCHANGED <<ctxDone, main, started, made, finished, dropped, closed, recorder, rec,
                   snapVars, countVars, report>>

(* Mutant: a result that finds the channel full is dropped.                *)
MayGiveUpWhenFull == ctxDone \/ Len(resultCh) = BufSize

MayGiveUp == ctxDone

(* The other branch of the select, which Go may take even if the channel   *)
(* has room: the result is lost.                                           *)
GiveUp(i) ==
    /\ vu[i] = "sending"
    /\ MayGiveUp
    /\ dropped' = dropped + 1
    /\ hand' = [hand EXCEPT ![i] = <<>>]
    /\ vu'   = [vu EXCEPT ![i] = "ended"]
    /\ UNCHANGED <<ctxDone, main, started, made, finished, chanVars, recorder, rec, snapVars,
                   countVars, report>>

VUser(i) == VUserEnds(i) \/ Respond(i) \/ Send(i) \/ GiveUp(i)
-----------------------------------------------------------------------------
(* The goroutine that records results: for r := range resultCh { Record }  *)

(* A result is taken, or the channel is closed and empty.                  *)
Take ==
    /\ recorder = "idle"
    /\ IF resultCh = <<>>
       THEN closed /\ recorder' = "ended" /\ UNCHANGED <<resultCh, rec>>
       ELSE /\ rec' = <<Head(resultCh)>>
            /\ resultCh' = Tail(resultCh)
            /\ recorder' = "taken"
    /\ UNCHANGED <<ctxDone, main, poolVars, closed, snapVars, countVars, report>>

(* totalReqs.Add(1)                                                        *)
CountRequest ==
    /\ recorder = "taken"
    /\ totalReqs' = totalReqs + 1
    /\ recorder' = "counted"
    /\ UNCHANGED <<ctxDone, main, poolVars, chanVars, rec, snapVars, totalErrors, windowReqs,
                   histogram, report>>

(* windowReqs.Add(1)                                                       *)
CountWindow ==
    /\ recorder = "counted"
    /\ windowReqs' = windowReqs + 1
    /\ recorder' = "windowed"
    /\ UNCHANGED <<ctxDone, main, poolVars, chanVars, rec, snapVars, totalReqs, totalErrors,
                   histogram, report>>

(* totalErrors.Add(1), if the result is an error.                          *)
CountError ==
    /\ recorder = "windowed"
    /\ totalErrors' = totalErrors + (IF rec = <<"error">> THEN 1 ELSE 0)
    /\ recorder' = "judged"
    /\ UNCHANGED <<ctxDone, main, poolVars, chanVars, rec, snapVars, totalReqs, windowReqs,
                   histogram, report>>

MuFree == ticker \in {"waiting", "ended"}

(* Mutant: the histogram is updated without mu.                            *)
CountValueUnlocked ==
    /\ recorder = "judged"
    /\ histogram' = histogram + 1
    /\ rec' = <<>>
    /\ recorder' = "idle"
    /\ UNCHANGED <<ctxDone, main, poolVars, chanVars, snapVars, totalReqs, totalErrors,
                   windowReqs, report>>

(* RecordValue under mu.                                                   *)
CountValue ==
    /\ recorder = "judged"
    /\ MuFree
    /\ histogram' = histogram + 1
    /\ rec' = <<>>
    /\ recorder' = "idle"
    /\ UNCHANGED <<ctxDone, main, poolVars, chanVars, snapVars, totalReqs, totalErrors,
                   windowReqs, report>>

Recorder == Take \/ CountRequest \/ CountWindow \/ CountError \/ CountValue
-----------------------------------------------------------------------------
(* The goroutine that takes snapshots: Snapshot holds mu throughout        *)

(* A tick: mu is taken and totalReqs read.                                 *)
SnapTotal ==
    /\ ticker = "waiting"
    /\ Len(snapshots) < MaxSnapshots
    /\ snap' = [NoSnap EXCEPT !.total = totalReqs]
    /\ ticker' = "total"
    /\ UNCHANGED <<ctxDone, main, poolVars, chanVars, recorder, rec, snapshots, countVars,
                   report>>

SnapErrors ==
    /\ ticker = "total"
    /\ snap' = [snap EXCEPT !.errors = totalErrors]
    /\ ticker' = "errors"
    /\ UNCHANGED <<ctxDone, main, poolVars, chanVars, recorder, rec, snapshots, countVars,
                   report>>

(* Mutant: the window is read and not reset.                               *)
SnapWindowKept ==
    /\ ticker = "errors"
    /\ snap' = [snap EXCEPT !.window = windowReqs]
    /\ ticker' = "window"
    /\ UNCHANGED <<ctxDone, main, poolVars, chanVars, recorder, rec, snapshots, totalReqs,
                   totalErrors, windowReqs, histogram, report>>

(* windowReqs.Swap(0)                                                      *)
SnapWindow ==
    /\ ticker = "errors"
    /\ snap' = [snap EXCEPT !.window = windowReqs]
    /\ windowReqs' = 0
    /\ ticker' = "window"
    /\ UNCHANGED <<ctxDone, main, poolVars, chanVars, recorder, rec, snapshots, totalReqs,
                   totalErrors, histogram, report>>

(* The histogram is read, mu is released, and the snapshot appended.       *)
SnapHistogram ==
    /\ ticker = "window"
    /\ snapshots' = Append(snapshots, [snap EXCEPT !.hist = histogram])
    /\ snap' = NoSnap
    /\ ticker' = "waiting"
    /\ UNCHANGED <<ctxDone, main, poolVars, chanVars, recorder, rec, countVars, report>>

TickerEnds ==
    /\ ticker = "waiting"
    /\ ctxDone
    /\ ticker' = "ended"
    /\ UNCHANGED <<ctxDone, main, poolVars, chanVars, recorder, rec, snap, snapshots,
                   countVars, report>>

Snapshot == SnapErrors \/ SnapWindow \/ SnapHistogram
-----------------------------------------------------------------------------
Main == StartVUser \/ StartReturns \/ JoinTicker \/ JoinPool \/ Report

Next ==
    \/ CtxEnds \/ Main \/ Recorder
    \/ SnapTotal \/ Snapshot \/ TickerEnds
    \/ \E i \in VUserIds : Request(i) \/ VUser(i)

Spec == Init /\ [][Next]_vars
-----------------------------------------------------------------------------
Snaps == [total : Nat, errors : Nat, window : Nat, hist : Nat]

PoolTypeOK ==
    /\ ctxDone  \in BOOLEAN
    /\ main     \in {"starting", "running", "joining", "closed", "done"}
    /\ started  \in 0 .. VUsers
    /\ vu       \in [VUserIds -> {"none", "looping", "requesting", "sending", "ended"}]
    /\ hand     \in [VUserIds -> Seq(Outcomes)]
    /\ made \in Nat /\ finished \in Nat /\ dropped \in Nat

ChanTypeOK ==
    /\ resultCh \in Seq(Outcomes)
    /\ closed   \in BOOLEAN
    /\ recorder \in {"idle", "taken", "counted", "windowed", "judged", "ended"}
    /\ rec      \in Seq(Outcomes)
    /\ report   \in Seq([total : Nat, errors : Nat, hist : Nat])

CountTypeOK ==
    /\ ticker   \in {"waiting", "total", "errors", "window", "ended"}
    /\ snap \in Snaps /\ snapshots \in Seq(Snaps)
    /\ totalReqs \in Nat /\ totalErrors \in Nat /\ windowReqs \in Nat /\ histogram \in Nat

TypeOK == PoolTypeOK /\ ChanTypeOK /\ CountTypeOK

(* The channel is closed after the last virtual user that was started has  *)
(* ended, however the ramp-up was cut short: none sends on it.             *)
NoSendOnClosed == closed => \A i \in VUserIds : Idle(i)

(* Results the client returned that are on their way to the counters: in   *)
(* the hands of virtual users, in the channel, or with the recorder.       *)
Sending  == {i \in VUserIds : vu[i] = "sending"}
OnTheWay == Cardinality(Sending) + Len(resultCh) + (IF recorder = "taken" THEN 1 ELSE 0)

(* Every result is counted once or given up, and none is given up before   *)
(* the end of the run: back-pressure slows virtual users down, it does not *)
(* lose requests.                                                          *)
ResultsAccounted ==
    /\ finished = totalReqs + OnTheWay + dropped
    /\ dropped > 0 => ctxDone

(* The report is taken from counters that agree and are final: all that    *)
(* was sent is in it, in the histogram as well as in the counts.           *)
ReportIsFinal ==
    \A k \in DOMAIN report :
        /\ report[k].total = finished - dropped
        /\ report[k].hist = report[k].total
        /\ report[k].errors = totalErrors /\ report[k].errors <= report[k].total

(* mu does not cover the counters, yet a snapshot is off by one result at  *)
(* most, the one the recorder is in the middle of.                         *)
SnapshotSkew ==
    \A k \in DOMAIN snapshots :
        LET s == snapshots[k] IN
          /\ s.hist <= s.total /\ s.total <= s.hist + 1
          /\ s.errors <= s.hist + 1

(* The requests in the windows of the snapshots.                           *)
Windowed == SumFunctionOnSet([k \in DOMAIN snapshots |-> snapshots[k].window], DOMAIN snapshots)

(* Each request is in the window of one snapshot at most: the rates of the *)
(* snapshots never add up to more than was counted.                        *)
WindowsPartition ==
    Windowed + snap.window + windowReqs
      + (IF recorder = "counted" THEN 1 ELSE 0) = totalReqs

(* A run implements the abstract pipe of results: the counter is what was  *)
(* counted, and the report is its value.                                   *)
Pipe == INSTANCE ResultPipe
          WITH ended <- ctxDone, counted <- totalReqs, lost <- dropped,
               report <- IF report = <<>> THEN <<>> ELSE <<report[1].total>>

PipeSpec == Pipe!Spec
=============================================================================
