----------------------------- MODULE MCReporting -----------------------------
(* The instances of Reporting and Lifecycle that TLC checks. *)
EXTENDS Lifecycle, TLC

CONSTANTS j1, j2

\* A oneshot run whose jobs have an order to keep and alerts to wait for, a server
\* with a job of each kind, and one whose job fires alerts.
MCSetups ==
  {[mode |-> "oneshot", kicked |-> {}, alerts |-> TRUE, work |-> (j1 :> 2) @@ (j2 :> 1), requests |-> FALSE],
   [mode |-> "server", kicked |-> {j1}, alerts |-> FALSE, work |-> (j1 :> 1) @@ (j2 :> 1), requests |-> FALSE],
   [mode |-> "server", kicked |-> {}, alerts |-> FALSE, work |-> (j1 :> 0) @@ (j2 :> 0), requests |-> TRUE],
   [mode |-> "server", kicked |-> {}, alerts |-> TRUE, work |-> (j1 :> 1) @@ (j2 :> 0), requests |-> FALSE]}
=============================================================================
