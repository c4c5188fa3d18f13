----------------------------- MODULE RunCommand -----------------------------
(***************************************************************************)
(* `omnitest run` (cmd/omnitest/main.go, runCmd): the scenario is loaded   *)
(* and overridden (Scenario), run (Runner), judged (Threshold), written    *)
(* into reports (internal/report/json.go), and the verdict becomes the     *)
(* exit code.                                                              *)
(*                                                                         *)
(* Simplifications: thresholds and formats are chosen when the program     *)
(* first looks at them; the percentiles of a result are one value; the     *)
(* scenario that runs has the VUsers and the RampUp of Runner, and memory  *)
(* has room for them.  A signal is Runner's CtxEnds: it ends the run       *)
(* early, and nothing later knows.                                         *)
(***************************************************************************)
EXTENDS Runner, Scenario, Threshold

CONSTANTS Files,         \* scenario files
          VUserFlags,    \* values of --vusers
          DurationFlags, RampUpFlags, \* values of --duration, --ramp-up; <<>> for none
          ThresholdLists, FormatLists,
          LatencyValues  \* what the percentiles of a run may be

ASSUME FilesAssumption == Files \subseteq Configs
ASSUME FlagsAssumption ==
    VUserFlags \subseteq Int /\ DurationFlags \subseteq Seq(Int) /\ RampUpFlags \subseteq Seq(Int)
ASSUME FormatsAssumption == \A fs \in FormatLists : fs \in Seq(STRING)
ASSUME LatencyAssumption == LatencyValues \subseteq Nat
\* A request takes no longer than the HTTP client's timeout of 30 s.
ASSUME TimeoutAssumption == \A us \in LatencyValues : us < 31000000
ASSUME ThresholdsAssumption ==
    \A ts \in ThresholdLists : \A k \in DOMAIN ts : ts[k].condition.number \in Int

VARIABLES cmd,     \* where the command is
          cfg,     \* the configuration, until the runner has taken what it needs
          judged,  \* [thresholds, latency]: what was judged, the latency as it was
          verdicts,\* result.ThresholdResults
          asked,   \* formats of --out
          written, \* how many of them Generate has written
          exit     \* exit code, -1 while the process runs

cmdVars == <<cmd, cfg, judged, verdicts, asked, written, exit>>
allVars == <<vars, cmdVars>>

NotJudged == [thresholds |-> <<>>, latency |-> 0]

CmdInit ==
    /\ Init
    /\ cmd = "loading" /\ cfg = NoFile
    /\ judged = NotJudged /\ verdicts = <<>>
    /\ asked = <<>> /\ written = 0
    /\ exit = -1

Exit(code) == cmd' = "exited" /\ exit' = code
-----------------------------------------------------------------------------
(* config.Load, and the flags                                              *)

Load ==
    /\ cmd = "loading"
    /\ \E file \in Files :
          IF Loads(file) THEN cmd' = "loaded" /\ cfg' = file /\ UNCHANGED exit
          ELSE Exit(2) /\ UNCHANGED cfg
    /\ UNCHANGED <<vars, judged, verdicts, asked, written>>

(* The flags are taken, or a duration or ramp-up of theirs is no duration. *)
Override ==
    /\ cmd = "loaded"
    /\ \/ /\ \E n \in VUserFlags, d \in DurationFlags, r \in RampUpFlags :
                cfg' = Overridden(cfg, n, d, r)
          /\ cmd' = "overridden"
          /\ UNCHANGED exit
       \/ Exit(2) /\ UNCHANGED cfg
    /\ UNCHANGED <<vars, judged, verdicts, asked, written>>

(* runner.Run looks for its target; a duration that is not positive makes  *)
(* a context that is done from the start.  A ramp-up without an interval   *)
(* ends the process by a panic, whose exit code is 2, in pool.Start.       *)
StartRun ==
    /\ cmd = "overridden"
    /\ \/ Target(cfg) = {} /\ Exit(3) /\ UNCHANGED <<cfg, ctxDone>>
       \/ /\ Target(cfg) # {} /\ NoInterval(cfg.scenarios[1])
          /\ cmd' = "panicked" /\ exit' = 2
          /\ UNCHANGED <<cfg, ctxDone>>
       \/ /\ Target(cfg) # {} /\ ~NoInterval(cfg.scenarios[1])
          /\ cmd' = "running" /\ cfg' = NoFile
          /\ ctxDone' = (cfg.scenarios[1].duration <= 0)
          /\ UNCHANGED exit
    /\ UNCHANGED <<main, poolVars, chanVars, recorder, rec, snapVars, countVars, report,
                   judged, verdicts, asked, written>>

(* The run goes on.                                                        *)
Running(step) == cmd = "running" /\ step /\ UNCHANGED cmdVars
-----------------------------------------------------------------------------
(* The result is judged and written                                        *)

(* collector.Result, of the run whose histogram reports these latencies.   *)
Result(reported) ==
    [total |-> report[1].total, errors |-> report[1].errors, latency |-> reported]

(* threshold.Evaluate                                                      *)
Evaluate ==
    /\ cmd = "running" /\ main = "done"
    /\ \E ts \in ThresholdLists, latency \in LatencyValues :
          /\ judged' = [thresholds |-> ts, latency |-> latency]
          /\ \E reported \in Reported(latency), ulps \in [DOMAIN ts -> -1 .. 1] :
                verdicts' = [k \in DOMAIN ts |-> Passed(ts[k], Result(reported), ulps[k])]
    /\ cmd' = "judged"
    /\ UNCHANGED <<vars, cfg, asked, written, exit>>

(* report.Generate is called if there are formats; it makes the directory. *)
BeginReports ==
    /\ cmd = "judged"
    /\ \E fs \in FormatLists :
          /\ asked' = fs
          /\ \/ cmd' = "reporting" /\ UNCHANGED exit
             \/ fs # <<>> /\ Exit(99)
    /\ UNCHANGED <<vars, cfg, judged, verdicts, written>>

(* An error ends the command; what was written stays.                      *)
Fails == Exit(99) /\ UNCHANGED written

(* One format of Generate's loop: the file is written, whole or in part.   *)
Format(name, fails) ==
    /\ cmd = "reporting"
    /\ written < Len(asked)
    /\ asked[written + 1] = name
    /\ \/ fails
       \/ written' = written + 1 /\ UNCHANGED <<cmd, exit>>
    /\ UNCHANGED <<vars, cfg, judged, verdicts, asked>>

generateJSON == Format("json", Fails)
generateHTML == Format("html", Fails)

(* A format nobody knows fails.                                            *)
UnknownFormat ==
    /\ cmd = "reporting"
    /\ written < Len(asked)
    /\ asked[written + 1] \notin {"json", "html"}
    /\ Fails
    /\ UNCHANGED <<vars, cfg, judged, verdicts, asked>>

WriteReport == generateJSON \/ generateHTML \/ UnknownFormat

(* 1 if a threshold failed.                                                *)
ExitCode == IF \A k \in DOMAIN verdicts : verdicts[k] THEN 0 ELSE 1

ExitWithVerdict ==
    /\ cmd = "reporting"
    /\ written = Len(asked)
    /\ Exit(ExitCode)
    /\ UNCHANGED <<vars, cfg, judged, verdicts, asked, written>>

Command == Load \/ Override \/ StartRun \/ Evaluate \/ BeginReports \/ WriteReport \/ ExitWithVerdict

CmdNext == Command \/ Running(Next)

CmdSpec == CmdInit /\ [][CmdNext]_allVars

(* The goroutines and the timer of the duration go on, a request ends (the *)
(* HTTP client has a timeout), and so does the rest of the command.        *)
CmdFairness ==
    /\ WF_allVars(Command)
    /\ WF_allVars(Running(CtxEnds)) /\ WF_allVars(Running(Main)) /\ WF_allVars(Running(Recorder))
    /\ WF_allVars(Running(Snapshot)) /\ WF_allVars(Running(TickerEnds))
    /\ \A i \in VUserIds : WF_allVars(Running(VUser(i)))

CmdFairSpec == CmdSpec /\ CmdFairness
-----------------------------------------------------------------------------
(* What Load accepts can be run, whatever the flags made of it but for one *)
(* thing: the runner finds its target, and one only, and has a virtual     *)
(* user to start; it fails to only when there are more of them than        *)
(* nanoseconds in the ramp-up.                                             *)
LoadMeansRunnable ==
    /\ exit # 3
    /\ cmd = "overridden" => Cardinality(Target(cfg)) = 1 /\ cfg.scenarios[1].vusers > 0
    /\ cmd = "panicked" => cfg.scenarios[1].rampUp \in 1 .. cfg.scenarios[1].vusers - 1

(* What happened in the run, of the results that were not given up, with   *)
(* the latencies that were measured.                                       *)
Truth ==
    [total |-> finished - dropped, errors |-> totalErrors,
     latency |-> [metric \in Latencies |-> judged.latency]]

(* The exit code tells what happened in the run: 0 if every threshold held *)
(* of all the results, as they were and not as the histogram keeps them, 1 *)
(* if one did not, but for thresholds within its resolution, a millisecond *)
(* or a float's rounding of the result.                                    *)
ExitTellsTheRun ==
    LET ts == judged.thresholds IN
      /\ exit = 0 => \A k \in DOMAIN ts :
             WellWritten(ts[k]) => Holds(ts[k], Truth) \/ OnTheEdge(ts[k], Truth)
      /\ exit = 1 => \E k \in DOMAIN ts :
             WellWritten(ts[k]) => ~Holds(ts[k], Truth) \/ OnTheEdge(ts[k], Truth)

(* A verdict is given only with all reports written, and a run that is     *)
(* judged is never reported as a configuration error.                      *)
ReportsBeforeVerdict ==
    /\ exit \in {0, 1} => \A k \in DOMAIN asked : asked[k] \in {"json", "html"} /\ k <= written
    /\ exit = 99 => asked # <<>> /\ written < Len(asked)
    /\ exit = 2 => made = 0

(* The command ends by itself.                                             *)
CommandEnds == <>(exit # -1)
=============================================================================
