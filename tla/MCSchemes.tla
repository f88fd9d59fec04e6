------------------------------ MODULE MCSchemes ------------------------------
(* What the schemes do: lists that are loaded, runs of a source, users of the shared pinger, *)
(* probes, alerts and plugins.  A behaviour of this module is one of SourceLoader, of        *)
(* TargetTracker, of SharedPinger, of Probes or of Plugin, while the others stay in an       *)
(* initial state.                                                                            *)
EXTENDS SourceLoader

CONSTANTS Targets, Runs, Users, MaxStarts, MaxPrinted, Parts

ASSUME SchemesAssumption == MaxStarts \in Nat \ {0}

VARIABLES
    onList, actives, inactives, activated, phase, pending, halfway, stale, loaded,   \* of TargetTracker
    count, pinger, starts, at, handle, failed,                                       \* of SharedPinger
    job, ctx, pc, status, open, defers, reports, trouble,                            \* of Probes
    running, command, err, exit, printed, scanner, records, invalid, told, missed,   \* of Plugin
    part

trackerVars == <<onList, actives, inactives, activated, phase, pending, halfway, stale, loaded>>
pingerVars == <<count, pinger, starts, at, handle, failed>>
probeVars == <<job, ctx, pc, status, open, defers, reports, trouble>>
pluginVars == <<running, command, err, exit, printed, scanner, records, invalid, told, missed>>

Tracker == INSTANCE TargetTracker WITH content <- onList
Pinger == INSTANCE SharedPinger
Use == INSTANCE Probes
Execution == INSTANCE Plugin WITH ctx <- running, status <- exit, count <- records, reports <- told,
                                  cut <- missed, MaxLines <- MaxPrinted

MCInit ==
    /\ part \in Parts
    /\ Init /\ (part # "loader" => content = [s \in Sources |-> <<>>] /\ readable = {})
    /\ Tracker!Init /\ (part # "tracker" => onList = {} /\ actives = {})
    /\ Use!Init /\ (part # "probe" => job = [use |-> "probe", scheme |-> "tcp"])
    /\ Pinger!Init /\ Execution!Init

MCNext ==
    \/ part = "loader" /\ Next /\ UNCHANGED <<trackerVars, pingerVars, probeVars, pluginVars, part>>
    \/ part = "tracker" /\ Tracker!Next /\ UNCHANGED <<vars, pingerVars, probeVars, pluginVars, part>>
    \/ part = "pinger" /\ Pinger!Next /\ UNCHANGED <<vars, trackerVars, probeVars, pluginVars, part>>
    \/ part = "probe" /\ Use!Next /\ UNCHANGED <<vars, trackerVars, pingerVars, pluginVars, part>>
    \/ part = "plugin" /\ Execution!Next /\ UNCHANGED <<vars, trackerVars, pingerVars, probeVars, part>>
    \/ part = "plugin" /\ UNCHANGED <<vars, trackerVars, pingerVars, probeVars, pluginVars, part>>  \* it is over

MCSpec == /\ MCInit
          /\ [][MCNext]_<<vars, trackerVars, pingerVars, probeVars, pluginVars, part>>
          /\ part = "loader" => WF_vars(LoadStep)
          /\ part = "probe" => Use!Fairness

(* See SourceLoader, TargetTracker, SharedPinger, Probes and Plugin. *)
LoadTerminates == part = "loader" => Terminates
SettledOnList == part = "tracker" => Tracker!SettledOnList
ListedNeverDeactivated == Tracker!ListedNeverDeactivated
RunsWhileUsed == part = "pinger" => Pinger!RunsWhileUsed
HealthyIsTrue == part = "probe" => Use!HealthyIsTrue
StopIsNoIncident == part = "probe" => Use!StopIsNoIncident
AllClosed == part = "probe" => Use!AllClosed
EndsInTime == part = "probe" => Use!EndsInTime
FailureIsTold == part = "plugin" => Execution!FailureIsTold

(* No two URLs are the same prober. *)
MCNormal == [u \in Plain |-> u]
==============================================================================
