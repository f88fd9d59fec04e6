---------------------------- MODULE TargetTracker ----------------------------
(***************************************************************************)
(* The runs of one `source:' or plugin probe, the tracker they share and   *)
(* what they make of the activity marks in the store (internal/scheme/     *)
(* source.go, plugin.go and targettracker.go).  A run loads the list of    *)
(* targets, probes each of them in a goroutine of its own, and deactivates *)
(* what the tracker says nobody reported.  (The list of a plugin is what   *)
(* it is going to print, one target after another.)  cron.New() does not   *)
(* skip a job whose last run is not over, so several runs may be under     *)
(* way; with one element in Runs they never are.                           *)
(***************************************************************************)
EXTENDS FiniteSets

CONSTANTS
  Targets,  \* what the source may list
  Runs      \* the goroutines of cron that run the probe

VARIABLES
  content,    \* what the source lists now
  actives,    \* TargetTracker.actives
  inactives,  \* TargetTracker.inactives
  activated,  \* the targets that have this source in probeHistory.sources
  phase,      \* where each run is in SourceScheme.Probe
  pending,    \* the targets whose probe has not reported yet
  halfway,    \* those reported to the store and not yet to the tracker
  stale,      \* the copy Inactives returned
  loaded      \* history variable: the list of the last run that called PrepareReporter

trackerVars == <<actives, inactives>>
runVars == <<phase, pending, halfway, stale>>
vars == <<content, trackerVars, activated, runVars, loaded>>

-----------------------------------------------------------------------------
(* TargetTracker.  Its lists hold a target once and their order is not used. *)

PrepareReporter ==
  /\ inactives' = actives
  /\ actives' = {}

ActivateOnly(t) ==
  /\ actives' = actives \cup {t}
  /\ inactives' = inactives

Activate(t) ==
  /\ actives' = actives \cup {t}
  /\ inactives' = inactives \ {t}

-----------------------------------------------------------------------------
(* SourceScheme.Probe.                                                      *)

\* loadProbers reads the list: what it reads may be outdated at the next step.  A
\* run that fails to load it ends here and changes nothing.
Load(r) ==
  /\ phase[r] = "idle"
  /\ phase' = [phase EXCEPT ![r] = "loaded"]
  /\ pending' = [pending EXCEPT ![r] = content]
  /\ UNCHANGED <<content, trackerVars, activated, halfway, stale, loaded>>

\* The run is given its reporter and starts a goroutine for each target.
Prepare(r) ==
  /\ phase[r] = "loaded"
  /\ phase' = [phase EXCEPT ![r] = "probing"]
  /\ PrepareReporter
  /\ loaded' = pending[r]
  /\ UNCHANGED <<content, activated, pending, halfway, stale>>

\* FixedSourceReporter.Report calls its two upstreams in turn: the store, which
\* marks the target as active, then the tracker.
ReportToStore(r, t) ==
  /\ phase[r] = "probing"
  /\ t \in pending[r]
  /\ pending' = [pending EXCEPT ![r] = @ \ {t}]
  /\ halfway' = [halfway EXCEPT ![r] = @ \cup {t}]
  /\ activated' = activated \cup {t}
  /\ UNCHANGED <<content, trackerVars, phase, stale, loaded>>

ReportToTracker(r, t) ==
  /\ t \in halfway[r]
  /\ halfway' = [halfway EXCEPT ![r] = @ \ {t}]
  /\ Activate(t)
  /\ UNCHANGED <<content, activated, phase, pending, stale, loaded>>

\* wg.Wait has returned, and the arguments of DeactivateTarget are evaluated.
ReadInactivesEarly(r) ==
  /\ phase[r] = "probing"
  /\ phase' = [phase EXCEPT ![r] = "deactivating"]
  /\ stale' = [stale EXCEPT ![r] = inactives]
  /\ UNCHANGED <<content, trackerVars, activated, pending, halfway, loaded>>

ReadInactives(r) ==
  /\ phase[r] = "probing"
  /\ pending[r] = {} /\ halfway[r] = {}
  /\ phase' = [phase EXCEPT ![r] = "deactivating"]
  /\ stale' = [stale EXCEPT ![r] = inactives]
  /\ UNCHANGED <<content, trackerVars, activated, pending, halfway, loaded>>

Deactivate(r) ==
  /\ phase[r] = "deactivating"
  /\ phase' = [phase EXCEPT ![r] = "idle"]
  /\ activated' = activated \ stale[r]
  /\ stale' = [stale EXCEPT ![r] = {}]
  /\ UNCHANGED <<content, trackerVars, pending, halfway, loaded>>

\* Somebody edits the source.
Edit(targets) ==
  /\ content' = targets
  /\ UNCHANGED <<trackerVars, activated, runVars, loaded>>

\* A plugin knows its own URL from the start, and RunServer has activated it.
Init ==
  /\ content \in SUBSET Targets
  /\ actives = {} \/ \E t \in Targets : actives = {t}
  /\ inactives = {}
  /\ activated = actives
  /\ phase = [r \in Runs |-> "idle"]
  /\ pending = [r \in Runs |-> {}]
  /\ halfway = [r \in Runs |-> {}]
  /\ stale = [r \in Runs |-> {}]
  /\ loaded = actives

RunStep(r) ==
  \/ Load(r)
  \/ Prepare(r)
  \/ \E t \in Targets : ReportToStore(r, t) \/ ReportToTracker(r, t)
  \/ ReadInactives(r)
  \/ Deactivate(r)

Next ==
  \/ \E r \in Runs : RunStep(r)
  \/ \E targets \in SUBSET Targets : Edit(targets)

Spec == Init /\ [][Next]_vars

-----------------------------------------------------------------------------

\* The types of the variables.
TypeOK ==
  /\ content \in SUBSET Targets
  /\ actives \in SUBSET Targets
  /\ inactives \in SUBSET Targets
  /\ activated \in SUBSET Targets
  /\ phase \in [Runs -> {"idle", "loaded", "probing", "deactivating"}]
  /\ pending \in [Runs -> SUBSET Targets]
  /\ halfway \in [Runs -> SUBSET Targets]
  /\ stale \in [Runs -> SUBSET Targets]
  /\ loaded \in SUBSET Targets

\* Between two runs the active targets are exactly those of the last list that
\* was probed: what left the list is hidden, what is on it is shown
\* (SourceScheme.Probe with TargetTracker).
SettledOnList == (\A r \in Runs : phase[r] = "idle") => activated = loaded

\* A target on the list being probed never blinks: no run deactivates it.
ListedNeverDeactivated == [][(activated \ activated') \cap loaded' = {}]_vars
=============================================================================
