---------------------------- MODULE StatusMonitor ----------------------------
(***************************************************************************)
(* What the store promises to whoever reads its alerts: "Ayd checks whether *)
(* the targets are alive or not, and reports to the alert targets if the    *)
(* target's status has changed".  Each target has a condition; an           *)
(* observation that repeats it is silent, any other one is told once.       *)
(***************************************************************************)
EXTENDS Sequences

CONSTANTS
  Targets,
  Conditions,  \* what may be wrong with a target
  Healthy      \* nothing is

VARIABLES
  condition,   \* the last condition observed of each target
  told         \* <<target, condition>> pairs the last step told, in order

Observe(t, c) ==
  /\ condition' = [condition EXCEPT ![t] = c]
  /\ told' = IF c = condition[t] THEN <<>> ELSE <<<<t, c>>>>

Init ==
  /\ condition = [t \in Targets |-> Healthy]
  /\ told = <<>>

\* A step that observes nothing (an aborted probe, a change of the active
\* targets) tells nothing.
Quiet ==
  /\ told' = <<>>
  /\ UNCHANGED condition

Next ==
  \/ \E t \in Targets, c \in Conditions \cup {Healthy} : Observe(t, c)
  \/ Quiet

Spec == Init /\ [][Next]_<<condition, told>>
=============================================================================
