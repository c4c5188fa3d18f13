---------------------------- MODULE MCRunCommand ----------------------------
(***************************************************************************)
(* An instance of RunCommand for TLC: every file with up to two targets of *)
(* two names and one scenario or none, and thresholds at, below and within *)
(* the resolution of what the runs of the instance measure.                *)
(***************************************************************************)
EXTENDS RunCommand, SequencesExt

Names == {"", "t", "u"}

MCTargets   == BoundedSeq([name : Names, url : {"", "url"}], 2)
MCRequests  == BoundedSeq([method : {"", "GET"}, path : {"", "/"}], 1)
MCScenarios == BoundedSeq([name : {"", "s"}, target : Names, vusers : {0, VUsers},
                           duration : {0, 5}, rampUp : {0, 1}, requests : MCRequests], 1)
MCFiles == [targets : MCTargets, scenarios : MCScenarios]

MCVUserFlags    == {-1, 0, VUsers}
MCDurationFlags == {<<>>, <<0>>, <<7>>}
MCRampUpFlags   == {<<>>, <<1>>, <<9>>}

Condition(op, number, unit) == [op |-> op, number |-> number, unit |-> unit]
Failed == [metric |-> "failed", condition |-> Condition("<=", 50000, "%")]

\* The conditions have no operator, an operator and a unit that is known, and
\* a unit that is not; the metrics are known or not.
MCThresholdLists ==
    {<<>>,
     <<[metric |-> "p99", condition |-> Condition("<", 17000, "ms")], Failed>>,
     <<[metric |-> "avg", condition |-> Condition(">", 17, "s")]>>,
     <<[metric |-> "p95", condition |-> Condition("<=", 1000, "ms")]>>,
     <<Failed, [metric |-> "p99", condition |-> Condition("<", 2, "s")]>>,
     <<[metric |-> "reqs", condition |-> Condition(">=", 2000, "")],
       [metric |-> "p99", condition |-> Condition("<", 1000, "us")]>>,
     <<[metric |-> "reqs", condition |-> Condition("", 1000, "")],
       [metric |-> "p90", condition |-> Condition("<", 1000, "ms")]>>}

MCLatencyValues == {1500, 16995}
MCFormatLists   == {<<>>, <<"json", "html">>, <<"html", "xml">>}
=============================================================================
