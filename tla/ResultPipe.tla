----------------------------- MODULE ResultPipe -----------------------------
(***************************************************************************)
(* What a run promises about its results, without goroutines, channels or  *)
(* counters: each result that comes back from the server is counted once   *)
(* or lost once, lost only after the end of the run, and the report is     *)
(* made when nothing is left to count, after which nothing changes.        *)
(* Runner implements it (Runner, PipeSpec).                                *)
(***************************************************************************)
EXTENDS Naturals

VARIABLES ended,    \* the run is over
          finished, \* results that came back
          counted, lost,
          report    \* the total that was reported, at most one

pipeVars == <<ended, finished, counted, lost, report>>

PipeInit == ended = FALSE /\ finished = 0 /\ counted = 0 /\ lost = 0 /\ report = <<>>

End == ended' = TRUE /\ UNCHANGED <<finished, counted, lost, report>>

Finish ==
    /\ report = <<>>
    /\ finished' = finished + 1
    /\ UNCHANGED <<ended, counted, lost, report>>

Count ==
    /\ report = <<>>
    /\ counted + lost < finished
    /\ counted' = counted + 1
    /\ UNCHANGED <<ended, finished, lost, report>>

Lose ==
    /\ ended /\ report = <<>>
    /\ counted + lost < finished
    /\ lost' = lost + 1
    /\ UNCHANGED <<ended, finished, counted, report>>

Publish ==
    /\ ended /\ report = <<>>
    /\ counted + lost = finished
    /\ report' = <<counted>>
    /\ UNCHANGED <<ended, finished, counted, lost>>

PipeNext == End \/ Finish \/ Count \/ Lose \/ Publish

Spec == PipeInit /\ [][PipeNext]_pipeVars
=============================================================================
