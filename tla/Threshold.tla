----------------------------- MODULE Threshold ------------------------------
(***************************************************************************)
(* Threshold evaluation (internal/threshold/threshold.go): the verdict of  *)
(* a condition such as "<= 200ms" on a metric of the result, beside what   *)
(* the condition says when it is read exactly.                             *)
(*                                                                         *)
(* A condition is [op, number, unit]: the number in thousandths, as a      *)
(* written decimal would be ("0.5" is 500; a text without a number is 0).  *)
(* Latencies are in microseconds.                                          *)
(***************************************************************************)
EXTENDS Integers

Latencies == {"p50", "p95", "p99", "avg"}
Metrics   == Latencies \cup {"failed", "reqs"}
Operators == {"<", "<=", ">", ">="}

(* A text that ends in "s" is in seconds unless it ends in "ms", so that   *)
(* "us" is read as seconds; "m" is no unit, and the number is compared     *)
(* with milliseconds.                                                      *)
Limit(c) == IF c.unit \in {"s", "us"} THEN 1000 * c.number ELSE c.number

(* A fraction of a second times 1000 is a product of floats.               *)
IsRounded(c) == c.unit \in {"s", "us"} /\ c.number % 1000 # 0

(* Mutant: the latency is rounded up.                                      *)
MilliRoundedUp(us) == (us + 999) \div 1000

(* time.Duration.Milliseconds cuts off.                                    *)
Milli(us) == us \div 1000

(* The actual value in thousandths, as a fraction.                         *)
Actual(metric, result) ==
    CASE metric = "failed" /\ result.total > 0 ->
             [num |-> 100000 * result.errors, den |-> result.total]
      [] metric = "failed" /\ result.total = 0 -> [num |-> 0, den |-> 1]
      [] metric = "reqs" -> [num |-> 1000 * result.total, den |-> 1]
      [] OTHER -> [num |-> 1000 * Milli(result.latency[metric]), den |-> 1]

(* A percentage is a product of floats; 0 and 100 are exact.               *)
IsProduct(metric, result) == metric = "failed" /\ result.errors \notin {0, result.total}

Compare(op, x, y) ==
    \/ op = "<"  /\ x < y
    \/ op = "<=" /\ x <= y
    \/ op = ">"  /\ x > y
    \/ op = ">=" /\ x >= y

(* EvaluateCondition; a condition without an operator fails.  ulp is where *)
(* rounding leaves the actual value beside the limit, which matters only   *)
(* when the two are equal: 7 errors of 100 are more than "7%", and 1001 ms *)
(* are more than "1.001s".                                                 *)
EvaluateCondition(actual, c, ulp) ==
    Compare(c.op, 1000 * actual.num + ulp, 1000 * (Limit(c) * actual.den))

(* Evaluate, of one threshold: a metric that is not known fails.           *)
Passed(t, result, ulp) ==
    /\ t.metric \in Metrics
    /\ EvaluateCondition(Actual(t.metric, result), t.condition,
           IF IsRounded(t.condition) \/ IsProduct(t.metric, result) THEN ulp ELSE 0)
-----------------------------------------------------------------------------
(* What the collector's histogram makes of latencies (internal/metrics/    *)
(* collector.go): it has three significant digits.                         *)

(* Widths of its buckets, up to latencies of 33 seconds.                   *)
Widths == {1, 2, 4, 8, 16, 32, 64, 128, 256, 512, 1024, 2048, 4096, 8192, 16384}

(* 1024 to 2047 buckets of a width follow each other, after 2048 of 1.     *)
WidthsOf(us) == {u \in Widths : us < 2048 * u /\ (u = 1 \/ 1024 * u <= us)}

(* ValueAtPercentile is the largest value of the percentile's bucket; Mean *)
(* takes the middle of the bucket of each value, and is cut off.           *)
Percentile(us, u) == us - (us % u) + u - 1
Means(us) == {m \in us - us \div 2048 - 1 .. us + us \div 2048 : m >= 0}

(* What is reported of a run when all its percentiles and its average are  *)
(* us.                                                                     *)
Reported(us) ==
    {[metric \in Latencies |-> IF metric = "avg" THEN mean ELSE Percentile(us, u)] :
        mean \in Means(us), u \in WidthsOf(us)}

(* How far that may be off.                                                *)
Resolution(us) == us \div 1024 + 1
-----------------------------------------------------------------------------
(* The reference: a condition read with its unit, on the latency as it is  *)

(* A condition of the documented form: an operator, and for a latency "ms" *)
(* or "s" and a whole number of milliseconds.                              *)
WellWritten(t) ==
    /\ t.metric \in Metrics /\ t.condition.op \in Operators
    /\ t.metric \in Latencies => t.condition.unit \in {"ms", "s"} /\ Limit(t.condition) % 1000 = 0
    /\ t.metric = "failed" => t.condition.unit = "%"
    /\ t.metric = "reqs" => t.condition.unit = ""

Holds(t, result) ==
    LET c == t.condition IN
      CASE t.metric = "failed" ->
               \/ result.total > 0 /\ Compare(c.op, 100000 * result.errors, c.number * result.total)
               \/ result.total = 0 /\ Compare(c.op, 0, c.number)
        [] t.metric = "reqs" -> Compare(c.op, 1000 * result.total, c.number)
        [] OTHER -> Compare(c.op, result.latency[t.metric],
                            IF c.unit = "s" THEN 1000 * c.number ELSE c.number)

(* Where the code may differ: the limit is within the histogram's          *)
(* resolution of the latency, or the latency above it by less than a       *)
(* millisecond (or equal, where rounding may decide), or the percentage    *)
(* equals it.                                                              *)
OnTheEdge(t, truth) ==
    LET c    == t.condition
        us   == truth.latency[t.metric]
        late == IF c.op \in {"<=", ">"} \/ IsRounded(c) THEN 1000 ELSE 0
    IN  \/ /\ t.metric \in Latencies
           /\ Limit(c) <= us + Resolution(us)
           /\ us < Limit(c) + late + Resolution(us)
        \/ /\ t.metric = "failed" /\ truth.errors \notin {0, truth.total}
           /\ 100000 * truth.errors = c.number * truth.total
=============================================================================
