-------------------------- MODULE CommandDelivery ---------------------------
(***************************************************************************)
(* What the controller promises about the start of a run on an agent,      *)
(* without handlers, channels or polls: it is sent once or never, and what *)
(* was sent is received once or never.  When nothing more can come, or the *)
(* process that received it has made way for another under its ID, the     *)
(* start is over and never comes back.  RunControl implements it           *)
(* (RunControl, DeliverySpec).                                             *)
(***************************************************************************)
CONSTANTS Agents, Runs

VARIABLE stage \* stage[a][r]: "open", "sent", "received" or "over"

After == [open     |-> {"open", "sent", "over"},
          sent     |-> {"sent", "received", "over"},
          received |-> {"received", "over"},
          over     |-> {"over"}]

DeliveryInit == stage = [a \in Agents |-> [r \in Runs |-> "open"]]

DeliveryNext == \A a \in Agents, r \in Runs : stage'[a][r] \in After[stage[a][r]]

Spec == DeliveryInit /\ [][DeliveryNext]_stage
=============================================================================
