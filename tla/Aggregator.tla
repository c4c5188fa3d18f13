----------------------------- MODULE Aggregator -----------------------------
(***************************************************************************)
(* How the metrics of one run reach the controller: an agent's stream of   *)
(* reports (internal/agent/agent.go, gRPC), the goroutine that serves it   *)
(* (StreamMetrics, internal/grpc/server.go), and what OnMetricReport makes *)
(* of each report in four steps: keep it as the agent's latest, aggregate  *)
(* the latest of all agents, broadcast that, insert a row                  *)
(* (internal/controller/aggregator.go, internal/store/postgres.go).        *)
(*                                                                         *)
(* Simplifications: the counters of a report are cumulative, so a report   *)
(* is its number on its stream, and an aggregate is the number it saw of   *)
(* each agent; sums and weighted averages follow from that.  The rows of   *)
(* the metrics table are left out: nothing here reads them.  An agent has  *)
(* one stream for a run (RunControl, DeliverySpec).                        *)
(***************************************************************************)
EXTENDS Naturals, Sequences, Functions

CONSTANTS Agents,
          MaxReports \* bound of the model on the reports of all agents

ASSUME MaxReportsAssumption == MaxReports \in Nat

VARIABLES stream, \* stream[a]: "none", "open", "closing" or "broken"; then Recv has
                  \* returned io.EOF ("ended") or an error ("failed")
          sent,   \* reports the agent has sent
          got,    \* reports Recv has returned
          pc,     \* where the goroutine that serves the stream is
          latest, \* metrics[run]: number of the agent's latest report, 0 for none
          agg,    \* agg[a]: the aggregate that goroutine is about to broadcast
          shown   \* aggregates given to BroadcastMetrics, in that order

aggVars == <<stream, sent, got, pc, latest, agg, shown>>

AggInit ==
    /\ stream = [a \in Agents |-> "none"]
    /\ sent   = [a \in Agents |-> 0]
    /\ got    = [a \in Agents |-> 0]
    /\ pc     = [a \in Agents |-> "recv"]
    /\ latest = [a \in Agents |-> 0]
    /\ agg    = [a \in Agents |-> [b \in Agents |-> 0]]
    /\ shown  = <<>>

Goto(a, from, to) ==
    /\ pc[a] = from
    /\ pc' = [pc EXCEPT ![a] = to]
-----------------------------------------------------------------------------
(* The agent's end                                                         *)

Move(a, from, to) ==
    /\ stream[a] \in from
    /\ stream' = [stream EXCEPT ![a] = to]
    /\ UNCHANGED <<sent, got, pc, latest, agg, shown>>

(* ExecuteTest opens the stream.                                           *)
Open(a) == Move(a, {"none"}, "open")

(* OnSnapshot sends a report.                                              *)
Send(a) ==
    /\ stream[a] = "open"
    /\ SumFunction(sent) < MaxReports
    /\ sent' = [sent EXCEPT ![a] = @ + 1]
    /\ UNCHANGED <<stream, got, pc, latest, agg, shown>>

(* The run is over: CloseAndRecv.                                          *)
Close(a) == Move(a, {"open"}, "closing")

(* The agent dies, or the connection breaks: keepalive ends the stream.    *)
Break(a) == Move(a, {"open", "closing"}, "broken")
-----------------------------------------------------------------------------
(* StreamMetrics: Recv, then HandleMetricReport, until Recv returns EOF or *)
(* an error.  On a broken stream Recv may still return what has arrived.   *)

Recv(a) ==
    /\ stream[a] \in {"open", "closing", "broken"}
    /\ got[a] < sent[a]
    /\ Goto(a, "recv", "store")
    /\ got' = [got EXCEPT ![a] = @ + 1]
    /\ UNCHANGED <<stream, sent, latest, agg, shown>>

(* Recv returns io.EOF after the last report, or the error of a broken     *)
(* stream whatever has not arrived.                                        *)
RecvEnds(a) ==
    /\ pc[a] = "recv"
    /\ \/ got[a] = sent[a] /\ Move(a, {"closing"}, "ended")
       \/ Move(a, {"broken"}, "failed")

(* a.metrics[testRunID][agentID] is replaced, under a.mu.                  *)
Store(a) ==
    /\ Goto(a, "store", "aggregate")
    /\ latest' = [latest EXCEPT ![a] = got[a]]
    /\ UNCHANGED <<stream, sent, got, agg, shown>>

(* Mutant: the aggregate misses the agents that are not of this goroutine. *)
AggregateOwn(a) ==
    /\ Goto(a, "aggregate", "broadcast")
    /\ agg' = [agg EXCEPT ![a] = [b \in Agents |-> IF b = a THEN latest[b] ELSE @[b]]]
    /\ UNCHANGED <<stream, sent, got, latest, shown>>

(* Aggregate reads the latest reports of all agents, under RLock.          *)
Aggregate(a) ==
    /\ Goto(a, "aggregate", "broadcast")
    /\ agg' = [agg EXCEPT ![a] = latest]
    /\ UNCHANGED <<stream, sent, got, latest, shown>>

Broadcast(a) ==
    /\ Goto(a, "broadcast", "insert")
    /\ shown' = Append(shown, agg[a])
    /\ agg'   = [agg EXCEPT ![a] = [b \in Agents |-> 0]]
    /\ UNCHANGED <<stream, sent, got, latest>>

(* InsertMetric adds the report to the metrics table, or its error is      *)
(* logged; either way the goroutine goes on.                               *)
Insert(a) ==
    /\ Goto(a, "insert", "recv")
    /\ UNCHANGED <<stream, sent, got, latest, agg, shown>>

Serve(a) == Recv(a) \/ RecvEnds(a) \/ Store(a) \/ Aggregate(a) \/ Broadcast(a) \/ Insert(a)

AggNext == \E a \in Agents : Open(a) \/ Send(a) \/ Close(a) \/ Break(a) \/ Serve(a)

AggSpec == AggInit /\ [][AggNext]_aggVars
-----------------------------------------------------------------------------
AggTypeOK ==
    /\ stream \in [Agents -> {"none", "open", "closing", "broken", "ended", "failed"}]
    /\ sent   \in [Agents -> Nat]
    /\ got    \in [Agents -> Nat]
    /\ pc     \in [Agents -> {"recv", "store", "aggregate", "broadcast", "insert"}]
    /\ latest \in [Agents -> Nat]
    /\ agg    \in [Agents -> [Agents -> Nat]]
    /\ shown  \in Seq([Agents -> Nat])

(* Store, aggregate and broadcast are three critical sections, so a viewer *)
(* may be left with an older aggregate than it has seen; but once every    *)
(* report that arrived is dealt with, one broadcast had the latest report  *)
(* of every agent: the totals of the run were shown.                       *)
TotalsWereShown ==
    (\A a \in Agents : pc[a] \in {"recv", "insert"}) =>
        \/ \E k \in DOMAIN shown : shown[k] = latest
        \/ \A a \in Agents : latest[a] = 0

(* An aggregate is never made up: what it has of an agent is a report that *)
(* arrived, and of the agent whose report caused it that report.           *)
AggregatesAreCurrent ==
    \A a \in Agents :
        /\ pc[a] = "broadcast" => agg[a][a] = got[a]
        /\ \A b \in Agents : agg[a][b] <= latest[b]
        /\ latest[a] + (IF pc[a] = "store" THEN 1 ELSE 0) = got[a]
=============================================================================
