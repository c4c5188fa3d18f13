------------------------------ MODULE Scenario ------------------------------
(***************************************************************************)
(* What config.Load makes of a scenario file (internal/config/config.go),  *)
(* and what the command line and the runner then do with it: the flags     *)
(* that override the first scenario (cmd/omnitest/main.go) and the lookup  *)
(* of its target (internal/runner/runner.go).                              *)
(*                                                                         *)
(* A file is a record: targets, sequence of [name, url], and scenarios,    *)
(* sequence of [name, target, vusers, duration, rampUp, requests], or      *)
(* NoFile when it cannot be read or is no YAML.  Texts matter by being     *)
(* equal or empty; a request is [method, path]; times are in nanoseconds.  *)
(***************************************************************************)
EXTENDS Integers, Sequences

(* What the parser can make of a file.                                     *)
Scenarios == [name : STRING, target : STRING, vusers : Int, duration : Int,
              rampUp : Int, requests : Seq([method : STRING, path : STRING])]
Configs   == [targets : Seq([name : STRING, url : STRING]), scenarios : Seq(Scenarios)]

NoFile == [targets |-> <<>>, scenarios |-> <<>>]

(* The targets, in their order: targetNames holds the names of those       *)
(* before.                                                                 *)
ValidTargets(ts) ==
    /\ ts # <<>>
    /\ \A i \in DOMAIN ts :
          /\ ts[i].name # "" /\ ts[i].url # ""
          /\ ts[i].name \notin {ts[j].name : j \in 1 .. i - 1}

ValidRequests(rs) == rs # <<>> /\ \A j \in DOMAIN rs : rs[j].method # "" /\ rs[j].path # ""

(* Mutant: the name of the target is not looked up.                        *)
ValidUnresolved(s, ts) ==
    /\ s.name # "" /\ s.target # ""
    /\ s.vusers > 0 /\ s.duration > 0
    /\ ValidRequests(s.requests)

ValidScenario(s, ts) ==
    /\ s.name # "" /\ s.target # ""
    /\ s.target \in {ts[i].name : i \in DOMAIN ts}
    /\ s.vusers > 0 /\ s.duration > 0
    /\ ValidRequests(s.requests)

Validate(cfg) ==
    /\ ValidTargets(cfg.targets)
    /\ cfg.scenarios # <<>>
    /\ \A i \in DOMAIN cfg.scenarios : ValidScenario(cfg.scenarios[i], cfg.targets)

(* Load and LoadFromString: the file is taken or refused.                  *)
Loads(file) == file # NoFile /\ Validate(file)

(* The value of a flag that may be left out, <<>> if it is.                *)
FlagOr(flag, value) == IF flag = <<>> THEN value ELSE flag[1]

(* --vusers, --duration and --ramp-up change the first scenario after it   *)
(* was validated, and are not validated: a duration may become 0 or less,  *)
(* a ramp-up any time, and a number of virtual users below 1 is ignored.   *)
Overridden(cfg, vusers, durations, rampUps) ==
    LET s == cfg.scenarios[1] IN
      IF cfg.scenarios = <<>> THEN cfg
      ELSE [cfg EXCEPT !.scenarios[1] =
              [s EXCEPT !.vusers   = IF vusers > 0 THEN vusers ELSE @,
                        !.duration = FlagOr(durations, @),
                        !.rampUp   = FlagOr(rampUps, @)]]

(* pool.Start divides the ramp-up among the virtual users; NewTicker takes *)
(* no interval of 0.                                                       *)
NoInterval(s) == s.rampUp > 0 /\ s.vusers > 1 /\ s.rampUp \div s.vusers = 0

(* The targets with the name the first scenario gives, by their places:    *)
(* Run loads the first of them with requests, if there is one.             *)
Target(cfg) ==
    {i \in DOMAIN cfg.targets :
        cfg.scenarios # <<>> /\ cfg.targets[i].name = cfg.scenarios[1].target}
=============================================================================
