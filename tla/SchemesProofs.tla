----------------------------- MODULE SchemesProofs -----------------------------
(***************************************************************************)
(* Theorems about the schemes that MCSchemes puts side by side: the runs of *)
(* a source, the users of the shared pinger, a probe, an alert or the       *)
(* opening of a list, and the run of a plugin.  Each is stated of the       *)
(* component alone, and of MCSpec, where the other components stand still.  *)
(***************************************************************************)
EXTENDS MCSchemes, FiniteSetTheorems, SequenceTheorems, TLAPS

-----------------------------------------------------------------------------
(* TargetTracker, for any targets and any number of runs, as long as no two *)
(* of them use the tracker at a time.  (The code does not see to that:      *)
(* cron.New() starts a run whether or not the last one is over.  It holds   *)
(* when a run takes less time than the schedule leaves it, and always when  *)
(* there is one run.)                                                       *)

\* A run uses the tracker from PrepareReporter to DeactivateTarget.
UsesTracker(r) == phase[r] \in {"probing", "deactivating"}

NoOverlap == \A r, s \in Runs : UsesTracker(r) /\ UsesTracker(s) => r = s

\* A run leaves nothing behind.
PhasesOK ==
  \A r \in Runs :
    /\ phase[r] # "probing" => halfway[r] = {}
    /\ phase[r] \in {"idle", "deactivating"} => pending[r] = {}

\* Between two uses of the tracker, it, the store and the list agree.
AtRestOK == (\A r \in Runs : ~UsesTracker(r)) => activated = loaded /\ actives = loaded

\* While it is used, every target of the list is still to be probed, on its way or
\* active, and what the store shows beyond that is inactive.
InUseOK ==
  \A r \in Runs : UsesTracker(r) =>
    /\ loaded = pending[r] \cup halfway[r] \cup actives
    /\ activated = inactives \cup halfway[r] \cup actives
    /\ inactives \cap actives = {}
    /\ phase[r] = "deactivating" => stale[r] = inactives

\* The inductive invariant.  SettledOnList is about idle runs only: what makes it true
\* again after a run is what the tracker gathers while the run is under way.
TrackerInv == Tracker!TypeOK /\ PhasesOK /\ AtRestOK /\ InUseOK

-----------------------------------------------------------------------------

\* No run is under way, and what is active counts as loaded.
LEMMA InitTrackerInv == Tracker!Init => TrackerInv
BY DEF Tracker!Init, TrackerInv, Tracker!TypeOK, PhasesOK, AtRestOK, InUseOK, UsesTracker

\* Steps of a run that do not use the tracker leave it alone.
LEMMA LoadKeepsTracker ==
  ASSUME TrackerInv, NEW r \in Runs, Tracker!Load(r)
  PROVE  TrackerInv'
<1> USE DEF Tracker!Load, Tracker!trackerVars
<1>1. Tracker!TypeOK'
  BY DEF TrackerInv, Tracker!TypeOK
<1>2. /\ \A s \in Runs \ {r} : phase'[s] = phase[s] /\ pending'[s] = pending[s]
      /\ phase'[r] = "loaded" /\ phase[r] = "idle"
  BY DEF TrackerInv, Tracker!TypeOK
<1>3. \A s \in Runs : UsesTracker(s)' <=> UsesTracker(s)
  BY <1>2 DEF UsesTracker
<1>4. PhasesOK'
  BY <1>2 DEF TrackerInv, PhasesOK
<1>5. AtRestOK'
  BY <1>3 DEF TrackerInv, AtRestOK
<1>6. InUseOK'
  BY <1>2 DEF TrackerInv, InUseOK, UsesTracker
<1> QED
  BY <1>1, <1>4, <1>5, <1>6 DEF TrackerInv

\* A run that begins to use the tracker finds it at rest.
LEMMA PrepareKeepsTracker ==
  ASSUME TrackerInv, NoOverlap', NEW r \in Runs, Tracker!Prepare(r)
  PROVE  TrackerInv'
<1> USE DEF Tracker!Prepare, Tracker!PrepareReporter
<1>1. Tracker!TypeOK'
  BY DEF TrackerInv, Tracker!TypeOK
<1>2. /\ \A s \in Runs \ {r} : phase'[s] = phase[s]
      /\ phase'[r] = "probing" /\ phase[r] = "loaded" /\ halfway[r] = {}
  BY DEF TrackerInv, Tracker!TypeOK, PhasesOK
<1>3. \A s \in Runs : ~UsesTracker(s)
  BY <1>2 DEF NoOverlap, UsesTracker
<1>4. activated = loaded /\ actives = loaded
  BY <1>3 DEF TrackerInv, AtRestOK
<1>5. \A s \in Runs : UsesTracker(s)' <=> s = r
  BY <1>2, <1>3 DEF UsesTracker
<1>6. PhasesOK'
  BY <1>2 DEF TrackerInv, PhasesOK
<1>7. AtRestOK'
  BY <1>5 DEF AtRestOK
<1>8. InUseOK'
  BY <1>2, <1>4, <1>5 DEF InUseOK
<1> QED
  BY <1>1, <1>6, <1>7, <1>8 DEF TrackerInv

\* A target goes from the list to the store, then to the tracker.
LEMMA ReportKeepsTracker ==
  ASSUME TrackerInv, NoOverlap, NEW r \in Runs, NEW t \in Targets,
         Tracker!ReportToStore(r, t) \/ Tracker!ReportToTracker(r, t)
  PROVE  TrackerInv'
<1>1. phase[r] = "probing" /\ phase' = phase /\ stale' = stale /\ loaded' = loaded
  BY DEF Tracker!ReportToStore, Tracker!ReportToTracker, TrackerInv, PhasesOK
<1>2. \A s \in Runs \ {r} : pending'[s] = pending[s] /\ halfway'[s] = halfway[s] /\ ~UsesTracker(s)
  BY <1>1 DEF Tracker!ReportToStore, Tracker!ReportToTracker, TrackerInv, Tracker!TypeOK, NoOverlap, UsesTracker
<1>3. Tracker!TypeOK'
  BY DEF Tracker!ReportToStore, Tracker!ReportToTracker, Tracker!Activate, Tracker!trackerVars, TrackerInv, Tracker!TypeOK
<1>4. PhasesOK' /\ AtRestOK'
  BY <1>1, <1>2 DEF TrackerInv, PhasesOK, AtRestOK, UsesTracker
<1>5. /\ loaded = pending[r] \cup halfway[r] \cup actives
      /\ activated = inactives \cup halfway[r] \cup actives
      /\ inactives \cap actives = {}
  BY <1>1 DEF TrackerInv, InUseOK, UsesTracker
<1>6. InUseOK'
  <2>1. CASE Tracker!ReportToStore(r, t)
    <3>1. /\ t \in pending[r] /\ pending'[r] = pending[r] \ {t} /\ halfway'[r] = halfway[r] \cup {t}
          /\ activated' = activated \cup {t} /\ actives' = actives /\ inactives' = inactives
      BY <2>1 DEF Tracker!ReportToStore, Tracker!trackerVars, TrackerInv, Tracker!TypeOK
    <3> QED
      BY <1>1, <1>2, <1>5, <3>1 DEF InUseOK, UsesTracker
  <2>2. CASE Tracker!ReportToTracker(r, t)
    <3>1. /\ t \in halfway[r] /\ pending'[r] = pending[r] /\ halfway'[r] = halfway[r] \ {t}
          /\ activated' = activated /\ actives' = actives \cup {t} /\ inactives' = inactives \ {t}
      BY <2>2 DEF Tracker!ReportToTracker, Tracker!Activate, TrackerInv, Tracker!TypeOK
    <3> QED
      BY <1>1, <1>2, <1>5, <3>1 DEF InUseOK, UsesTracker
  <2> QED
    BY <2>1, <2>2
<1> QED
  BY <1>3, <1>4, <1>6 DEF TrackerInv

\* The list is complete when the tracker is asked for what is not on it.
LEMMA ReadInactivesKeepsTracker ==
  ASSUME TrackerInv, NEW r \in Runs, Tracker!ReadInactives(r)
  PROVE  TrackerInv'
<1> USE DEF Tracker!ReadInactives, Tracker!trackerVars
<1>1. Tracker!TypeOK'
  BY DEF TrackerInv, Tracker!TypeOK
<1>2. /\ \A s \in Runs \ {r} : phase'[s] = phase[s] /\ stale'[s] = stale[s]
      /\ phase'[r] = "deactivating" /\ phase[r] = "probing" /\ stale'[r] = inactives
  BY DEF TrackerInv, Tracker!TypeOK
<1>3. \A s \in Runs : UsesTracker(s)' <=> UsesTracker(s)
  BY <1>2 DEF UsesTracker
<1>4. PhasesOK' /\ AtRestOK' /\ InUseOK'
  BY <1>2, <1>3 DEF TrackerInv, PhasesOK, AtRestOK, InUseOK
<1> QED
  BY <1>1, <1>4 DEF TrackerInv

\* What a run deactivates is not on its list.
LEMMA DeactivatedIsNotListed ==
  ASSUME TrackerInv, NEW r \in Runs, Tracker!Deactivate(r)
  PROVE  activated \ stale[r] = loaded /\ stale[r] \cap loaded = {} /\ actives = loaded
BY DEF Tracker!Deactivate, TrackerInv, PhasesOK, InUseOK, UsesTracker

\* A run ends with exactly the targets of its list.
LEMMA DeactivateKeepsTracker ==
  ASSUME TrackerInv, NoOverlap, NEW r \in Runs, Tracker!Deactivate(r)
  PROVE  TrackerInv'
<1> USE DEF Tracker!Deactivate, Tracker!trackerVars
<1>1. Tracker!TypeOK'
  BY DEF TrackerInv, Tracker!TypeOK
<1>2. /\ \A s \in Runs \ {r} : phase'[s] = phase[s] /\ ~UsesTracker(s)
      /\ phase'[r] = "idle" /\ phase[r] = "deactivating"
  BY DEF TrackerInv, Tracker!TypeOK, NoOverlap, UsesTracker
<1>3. \A s \in Runs : ~UsesTracker(s)'
  BY <1>2 DEF UsesTracker
<1>4. PhasesOK' /\ InUseOK'
  BY <1>2, <1>3 DEF TrackerInv, PhasesOK, InUseOK
<1>5. AtRestOK'
  BY DeactivatedIsNotListed DEF AtRestOK
<1> QED
  BY <1>1, <1>4, <1>5 DEF TrackerInv

\* Every step keeps the invariant while no two runs of a source overlap.
LEMMA NextTrackerInv == TrackerInv /\ NoOverlap /\ NoOverlap' /\ [Tracker!Next]_(Tracker!vars) => TrackerInv'
<1> SUFFICES ASSUME TrackerInv, NoOverlap, NoOverlap', [Tracker!Next]_(Tracker!vars) PROVE TrackerInv'
  OBVIOUS
<1>1. ASSUME NEW r \in Runs, Tracker!RunStep(r) PROVE TrackerInv'
  BY <1>1, LoadKeepsTracker, PrepareKeepsTracker, ReportKeepsTracker, ReadInactivesKeepsTracker,
     DeactivateKeepsTracker DEF Tracker!RunStep
<1>2. ASSUME NEW list \in SUBSET Targets, Tracker!Edit(list) PROVE TrackerInv'
  BY <1>2 DEF Tracker!Edit, Tracker!trackerVars, Tracker!runVars, TrackerInv, Tracker!TypeOK, PhasesOK, AtRestOK, InUseOK, UsesTracker
<1>3. CASE UNCHANGED Tracker!vars
  BY <1>3 DEF Tracker!vars, Tracker!trackerVars, Tracker!runVars, TrackerInv, Tracker!TypeOK, PhasesOK, AtRestOK, InUseOK, UsesTracker
<1> QED
  BY <1>1, <1>2, <1>3 DEF Tracker!Next

\* The inductive invariant holds while no two runs of a source overlap.
LEMMA TrackerInvariant == Tracker!Spec /\ []NoOverlap => []TrackerInv
BY InitTrackerInv, NextTrackerInv, PTL DEF Tracker!Spec

\* A step of a run, or of whoever edits the source, deactivates nothing that is listed.
LEMMA NeverDeactivatesListed ==
  TrackerInv /\ [Tracker!Next]_(Tracker!vars) => [(activated \ activated') \cap loaded' = {}]_(Tracker!vars)
<1> SUFFICES ASSUME TrackerInv, Tracker!Next PROVE (activated \ activated') \cap loaded' = {}
  OBVIOUS
<1>1. ASSUME NEW r \in Runs, Tracker!Deactivate(r) PROVE (activated \ activated') \cap loaded' = {}
  BY <1>1, DeactivatedIsNotListed DEF Tracker!Deactivate
<1>2. ASSUME NEW r \in Runs, NEW t \in Targets, Tracker!ReportToStore(r, t) PROVE activated \subseteq activated'
  BY <1>2 DEF Tracker!ReportToStore
<1>3. ASSUME UNCHANGED activated PROVE (activated \ activated') \cap loaded' = {}
  BY <1>3
<1> QED
  BY <1>1, <1>2, <1>3 DEF Tracker!Next, Tracker!RunStep, Tracker!Load, Tracker!Prepare, Tracker!ReportToTracker,
     Tracker!ReadInactives, Tracker!Edit

-----------------------------------------------------------------------------
(* SharedPinger, for any number of users, which may each ping and test as   *)
(* often as they like, and whatever starts fail.                            *)

\* Where a user may be, and the types of the variables.
Places == {"idle", "tested", "got", "failed", "pinging"}

PingerTypeOK ==
  /\ count \in Nat /\ pinger \in Nat /\ starts \in Nat
  /\ at \in [Users -> Places]
  /\ handle \in [Users -> Nat]
  /\ failed \in BOOLEAN

\* The resource never counts more users than hold it, and is running while it counts any.
\* (After a failed start it may count fewer: a ping that got nothing releases too.)
CountOK ==
  /\ IsFiniteSet(Pinger!Holders)
  /\ count <= Cardinality(Pinger!Holders)
  /\ pinger = Pinger!None <=> count = 0

\* As long as no start has failed the count is exact and every handle is the running pinger.
ExactOK ==
  ~failed =>
    /\ count = Cardinality(Pinger!Holders)
    /\ \A u \in Users : at[u] # "failed"
    /\ \A u \in Users : at[u] = "pinging" => handle[u] = pinger

\* The inductive invariant.  RunsWhileUsed alone says nothing of a user that is between
\* Get and Release of the count, so it does not survive a Release.
PingerInv == PingerTypeOK /\ CountOK /\ ExactOK

HolderPlaces == {"tested", "got", "pinging"}

-----------------------------------------------------------------------------
(* What a step does to the set of holders.                                  *)

\* A user that comes to hold the resource is counted once more.
LEMMA HolderComes ==
  ASSUME PingerInv, NEW u \in Users, at[u] \notin HolderPlaces, NEW p \in HolderPlaces,
         at' = [at EXCEPT ![u] = p]
  PROVE  IsFiniteSet(Pinger!Holders)' /\ Cardinality(Pinger!Holders)' = Cardinality(Pinger!Holders) + 1
<1>1. Pinger!Holders' = Pinger!Holders \cup {u} /\ u \notin Pinger!Holders
  BY DEF PingerInv, PingerTypeOK, Pinger!Holders, HolderPlaces
<1>2. IsFiniteSet(Pinger!Holders)
  BY DEF PingerInv, CountOK
<1>3. IsFiniteSet(Pinger!Holders \cup {u}) /\ Cardinality(Pinger!Holders \cup {u}) = Cardinality(Pinger!Holders) + 1
  BY <1>1, <1>2, FS_AddElement
<1> QED
  BY <1>1, <1>3

\* A user that leaves is counted no more.
LEMMA HolderLeaves ==
  ASSUME PingerInv, NEW u \in Users, at[u] \in HolderPlaces, NEW p \in Places \ HolderPlaces,
         at' = [at EXCEPT ![u] = p]
  PROVE  /\ IsFiniteSet(Pinger!Holders)' /\ Cardinality(Pinger!Holders)' = Cardinality(Pinger!Holders) - 1
         /\ Cardinality(Pinger!Holders) \in Nat \ {0}
         /\ Cardinality(Pinger!Holders) = 1 => \A v \in Users \ {u} : at[v] \notin HolderPlaces
<1>1. Pinger!Holders' = Pinger!Holders \ {u} /\ u \in Pinger!Holders
  BY DEF PingerInv, PingerTypeOK, Pinger!Holders, HolderPlaces
<1>2. IsFiniteSet(Pinger!Holders)
  BY DEF PingerInv, CountOK
<1>3. IsFiniteSet(Pinger!Holders \ {u}) /\ Cardinality(Pinger!Holders \ {u}) = Cardinality(Pinger!Holders) - 1
  BY <1>1, <1>2, FS_RemoveElement
<1>4. Cardinality(Pinger!Holders) \in Nat /\ Cardinality(Pinger!Holders \ {u}) \in Nat
  BY <1>2, <1>3, FS_CardinalityType
<1>5. Cardinality(Pinger!Holders) = 1 => \A v \in Users \ {u} : at[v] \notin HolderPlaces
  <2> SUFFICES ASSUME Cardinality(Pinger!Holders) = 1, NEW v \in Users \ {u}, at[v] \in HolderPlaces
               PROVE  FALSE
    OBVIOUS
  <2>1. Cardinality(Pinger!Holders \ {u}) = 0
    BY <1>3
  <2>2. Pinger!Holders \ {u} = {}
    BY <1>3, <2>1, FS_EmptySet
  <2> QED
    BY <2>2 DEF Pinger!Holders, HolderPlaces
<1> QED
  BY <1>1, <1>3, <1>4, <1>5

\* A user that goes from one place to another without holding more or less changes nothing.
LEMMA HolderStays ==
  ASSUME PingerInv, NEW u \in Users, NEW p \in Places,
         at[u] \in HolderPlaces <=> p \in HolderPlaces, at' = [at EXCEPT ![u] = p]
  PROVE  IsFiniteSet(Pinger!Holders)' /\ Cardinality(Pinger!Holders)' = Cardinality(Pinger!Holders)
<1>1. Pinger!Holders' = Pinger!Holders
  BY DEF PingerInv, PingerTypeOK, Pinger!Holders, HolderPlaces
<1> QED
  BY <1>1 DEF PingerInv, CountOK

-----------------------------------------------------------------------------
(* The steps.                                                               *)

\* Get, for a user that goes on holding the resource or not.
LEMMA GetKeepsCount ==
  ASSUME MaxStarts \in Nat \ {0}, PingerInv, NEW u \in Users, at[u] = "idle",
         NEW success \in HolderPlaces \ {"pinging"}, NEW failure \in {"idle", "failed"},
         Pinger!Get(u, success, failure)
  PROVE  PingerInv'
<1> USE DEF PingerInv
<1>1. at[u] \notin HolderPlaces /\ success \in Places /\ failure \in Places \ HolderPlaces
  BY DEF HolderPlaces, Places
<1>2. Cardinality(Pinger!Holders) \in Nat /\ count \in Nat
  BY FS_CardinalityType DEF CountOK, PingerTypeOK
<1>3. CASE count = 0 /\ Pinger!Start /\ count' = 1 /\ at' = [at EXCEPT ![u] = success]
  <2>1. starts' \in Nat \ {0} /\ pinger' = starts' /\ failed' = failed /\ handle' = handle
    <3>1. starts % MaxStarts \in Nat
      BY DEF PingerTypeOK
    <3> QED
      BY <1>3, <3>1 DEF Pinger!Start, Pinger!Get
  <2>2. PingerTypeOK'
    BY <1>1, <1>3, <2>1 DEF PingerTypeOK
  <2>3. IsFiniteSet(Pinger!Holders)' /\ Cardinality(Pinger!Holders)' = Cardinality(Pinger!Holders) + 1
    BY <1>1, <1>3, HolderComes
  <2>4. CountOK'
    BY <1>2, <1>3, <2>1, <2>3 DEF CountOK, Pinger!None
  <2>5. ASSUME ~failed PROVE \A v \in Users : at[v] \notin HolderPlaces
    <3>1. Cardinality(Pinger!Holders) = 0 /\ IsFiniteSet(Pinger!Holders)
      BY <1>3, <2>5 DEF ExactOK, CountOK
    <3>2. Pinger!Holders = {}
      BY <3>1, FS_EmptySet
    <3> QED
      BY <3>2 DEF Pinger!Holders, HolderPlaces
  <2>6. ExactOK'
    <3> SUFFICES ASSUME ~failed
                 PROVE  /\ count' = Cardinality(Pinger!Holders)'
                        /\ \A v \in Users : at'[v] # "failed"
                        /\ \A v \in Users : at'[v] = "pinging" => handle'[v] = pinger'
      BY <2>1 DEF ExactOK
    <3>1. at' \in [Users -> Places] /\ \A v \in Users : at'[v] = IF v = u THEN success ELSE at[v]
      BY <1>3, <2>2 DEF PingerTypeOK
    <3> QED
      BY <1>2, <1>3, <2>3, <2>5, <3>1 DEF ExactOK, HolderPlaces
  <2> QED
    BY <2>2, <2>4, <2>6
<1>4. CASE count = 0 /\ Pinger!FailToStart /\ UNCHANGED count /\ at' = [at EXCEPT ![u] = failure]
  <2>1. pinger' = 0 /\ failed' = TRUE /\ starts' = starts /\ handle' = handle /\ count' = 0
    BY <1>4 DEF Pinger!FailToStart, Pinger!None, Pinger!Get
  <2>2. IsFiniteSet(Pinger!Holders)' /\ Cardinality(Pinger!Holders)' = Cardinality(Pinger!Holders)
    BY <1>1, <1>4, HolderStays
  <2> QED
    BY <1>1, <1>2, <1>4, <2>1, <2>2 DEF PingerTypeOK, CountOK, ExactOK, Pinger!None
<1>5. CASE count > 0 /\ count' = count + 1 /\ at' = [at EXCEPT ![u] = success] /\ UNCHANGED <<pinger, Pinger!numbers>>
  <2>1. UNCHANGED <<pinger, starts, failed, handle>>
    BY <1>5 DEF Pinger!numbers, Pinger!Get
  <2>2. IsFiniteSet(Pinger!Holders)' /\ Cardinality(Pinger!Holders)' = Cardinality(Pinger!Holders) + 1
    BY <1>1, <1>5, HolderComes
  <2>3. PingerTypeOK' /\ CountOK'
    BY <1>1, <1>2, <1>5, <2>1, <2>2 DEF PingerTypeOK, CountOK, Pinger!None
  <2>4. \A v \in Users : at'[v] = IF v = u THEN success ELSE at[v]
    BY <1>5, <2>3 DEF PingerTypeOK
  <2>5. ExactOK'
    BY <1>1, <1>2, <1>5, <2>1, <2>2, <2>4 DEF ExactOK, HolderPlaces
  <2> QED
    BY <2>3, <2>5
<1> QED
  BY <1>3, <1>4, <1>5 DEF Pinger!Get

\* Release, of a user that holds the resource or of one whose Get failed.
LEMMA ReleaseKeepsCount ==
  ASSUME PingerInv, NEW u \in Users, at[u] # "idle", Pinger!Release(u)
  PROVE  PingerInv'
<1> USE DEF PingerInv
<1>1. /\ at' = [at EXCEPT ![u] = "idle"] /\ handle' = [handle EXCEPT ![u] = Pinger!None]
      /\ count' = IF count > 0 THEN count - 1 ELSE count
      /\ pinger' = IF count = 1 THEN Pinger!None ELSE pinger
      /\ starts' = starts /\ failed' = failed
  BY DEF Pinger!Release, Pinger!numbers
<1>2. Cardinality(Pinger!Holders) \in Nat /\ count \in Nat
  BY FS_CardinalityType DEF CountOK, PingerTypeOK
<1>3. PingerTypeOK' /\ (pinger' = Pinger!None <=> count' = 0)
  BY <1>1, <1>2 DEF PingerTypeOK, CountOK, Pinger!None, Places
<1>4. /\ at[u] \in Places /\ "idle" \in Places \ HolderPlaces
      /\ \A v \in Users \ {u} : at'[v] = at[v] /\ handle'[v] = handle[v]
      /\ at'[u] = "idle"
  BY <1>1 DEF PingerTypeOK, Places, HolderPlaces
<1>5. CASE at[u] \in HolderPlaces
  <2>1. /\ IsFiniteSet(Pinger!Holders)' /\ Cardinality(Pinger!Holders)' = Cardinality(Pinger!Holders) - 1
        /\ Cardinality(Pinger!Holders) \in Nat \ {0}
        /\ Cardinality(Pinger!Holders) = 1 => \A v \in Users \ {u} : at[v] \notin HolderPlaces
    BY <1>1, <1>4, <1>5, HolderLeaves
  <2>2. CountOK'
    BY <1>1, <1>2, <1>3, <2>1 DEF CountOK
  <2>3. ExactOK'
    BY <1>1, <1>2, <1>4, <2>1 DEF ExactOK, HolderPlaces
  <2> QED
    BY <1>3, <2>2, <2>3
<1>6. CASE at[u] \notin HolderPlaces
  <2>1. at[u] = "failed"
    BY <1>4, <1>6 DEF Places, HolderPlaces
  <2>2. failed /\ failed'
    BY <1>1, <2>1 DEF ExactOK, PingerTypeOK
  <2>3. IsFiniteSet(Pinger!Holders)' /\ Cardinality(Pinger!Holders)' = Cardinality(Pinger!Holders)
    BY <1>1, <1>4, <1>6, HolderStays
  <2>4. CountOK'
    BY <1>1, <1>2, <1>3, <2>3 DEF CountOK
  <2> QED
    BY <1>3, <2>2, <2>4 DEF ExactOK
<1> QED
  BY <1>5, <1>6

\* getFor reads the pinger a while after Get: it is still the one of its Get.
LEMMA TakePingerKeepsCount ==
  ASSUME PingerInv, NEW u \in Users, Pinger!TakePinger(u)
  PROVE  PingerInv'
<1> USE DEF PingerInv
<1>1. /\ at[u] = "got" /\ at' = [at EXCEPT ![u] = "pinging"] /\ handle' = [handle EXCEPT ![u] = pinger]
      /\ UNCHANGED <<count, pinger, starts, failed>>
  BY DEF Pinger!TakePinger, Pinger!numbers
<1>2. IsFiniteSet(Pinger!Holders)' /\ Cardinality(Pinger!Holders)' = Cardinality(Pinger!Holders)
  BY <1>1, HolderStays DEF HolderPlaces, Places
<1> QED
  BY <1>1, <1>2 DEF PingerTypeOK, CountOK, ExactOK, Places

\* Nobody holds the pinger yet.
LEMMA InitPingerInv == Pinger!Init => PingerInv
<1> SUFFICES ASSUME Pinger!Init PROVE PingerInv
  OBVIOUS
<1>1. Pinger!Holders = {}
  BY DEF Pinger!Init, Pinger!Holders
<1>2. IsFiniteSet(Pinger!Holders) /\ Cardinality(Pinger!Holders) = 0
  BY <1>1, FS_EmptySet
<1>3. PingerTypeOK
  BY DEF Pinger!Init, PingerTypeOK, Places, Pinger!None
<1>4. CountOK /\ ExactOK
  BY <1>2 DEF Pinger!Init, CountOK, ExactOK, Pinger!None
<1> QED
  BY <1>3, <1>4 DEF PingerInv

\* Every step keeps the count of the holders.
LEMMA NextPingerInv == ASSUME MaxStarts \in Nat \ {0} PROVE PingerInv /\ [Pinger!Next]_(Pinger!vars) => PingerInv'
<1> SUFFICES ASSUME PingerInv, [Pinger!Next]_(Pinger!vars) PROVE PingerInv'
  OBVIOUS
<1>1. ASSUME NEW u \in Users, Pinger!StartTest(u) PROVE PingerInv'
  BY <1>1, GetKeepsCount DEF Pinger!StartTest, HolderPlaces
<1>2. ASSUME NEW u \in Users, Pinger!StartPing(u) PROVE PingerInv'
  BY <1>2, GetKeepsCount DEF Pinger!StartPing, HolderPlaces
<1>3. ASSUME NEW u \in Users, Pinger!TakePinger(u) PROVE PingerInv'
  BY <1>3, TakePingerKeepsCount
<1>4. ASSUME NEW u \in Users, Pinger!EndTest(u) \/ Pinger!EndPing(u) \/ Pinger!EndFailedPing(u) PROVE PingerInv'
  BY <1>4, ReleaseKeepsCount DEF Pinger!EndTest, Pinger!EndPing, Pinger!EndFailedPing
<1>5. CASE UNCHANGED Pinger!vars
  BY <1>5 DEF Pinger!vars, PingerInv, PingerTypeOK, CountOK, ExactOK, Pinger!Holders
<1> QED
  BY <1>1, <1>2, <1>3, <1>4, <1>5 DEF Pinger!Next

\* A count above zero is that of a running pinger.
LEMMA PingerInvImpliesRuns == PingerInv => Pinger!RunsWhileUsed
<1> SUFFICES ASSUME PingerInv PROVE Pinger!RunsWhileUsed
  OBVIOUS
<1> USE DEF PingerInv
<1>1. IsFiniteSet(Pinger!Holders) /\ Cardinality(Pinger!Holders) \in Nat /\ count \in Nat
  BY FS_CardinalityType DEF CountOK, PingerTypeOK
<1>2. ASSUME \A u \in Users : at[u] = "idle" PROVE pinger = Pinger!None /\ count = 0
  <2>1. Pinger!Holders = {}
    BY <1>2 DEF Pinger!Holders
  <2>2. Cardinality(Pinger!Holders) = 0
    BY <2>1, FS_EmptySet
  <2> QED
    BY <1>1, <2>2 DEF CountOK
<1>3. ASSUME ~failed, Pinger!Holders # {} PROVE pinger # Pinger!None
  <2>1. Cardinality(Pinger!Holders) # 0
    BY <1>1, <1>3, FS_EmptySet
  <2> QED
    BY <1>3, <2>1 DEF CountOK, ExactOK
<1> QED
  BY <1>2, <1>3 DEF Pinger!RunsWhileUsed, ExactOK


-----------------------------------------------------------------------------
(* Plugin, for a command that prints any number of lines.                   *)

Said == {"HEALTHY", "FAILURE", "UNKNOWN", "ABORTED"}
Bad == {"FAILURE", "UNKNOWN", "ABORTED"}
Done == {"scanned", "concluding", "over"}

PluginTypeOK ==
  /\ running \in {"open", "canceled", "expired"}
  /\ command \in {"none", "running", "ended", "closed"}
  /\ err \in {"nil", "failed"}
  /\ exit \in {"HEALTHY", "FAILURE", "UNKNOWN"}
  /\ printed \in Nat /\ records \in Nat
  /\ scanner \in {"finding", "scanning"} \cup Done
  /\ invalid \in BOOLEAN /\ missed \in BOOLEAN
  /\ told \in Seq(Said)

\* What the goroutine of the command leaves in the variables it shares with the caller.
CommandOK ==
  /\ scanner = "finding" => command = "none"
  /\ command \in {"none", "running"} => err = "nil"
  /\ err = "failed" => exit \in {"FAILURE", "UNKNOWN"}

\* A caller that has seen the end of the pipe reads them after they were assigned.
PipeOK ==
  scanner \in Done /\ ~missed => command = "closed" \/ (scanner = "over" /\ command = "none")

\* Whatever was found in the output has been told.
OutputToldOK ==
  /\ records > 0 => told # <<>>
  /\ invalid /\ scanner \in {"concluding", "over"} => told # <<>>

\* The inductive invariant.  FailureIsTold says nothing before the run is over.
PluginInv == PluginTypeOK /\ CommandOK /\ PipeOK /\ OutputToldOK /\ Execution!FailureIsTold

-----------------------------------------------------------------------------

\* One more report.
LEMMA ToldMore ==
  ASSUME NEW s \in Said, PluginTypeOK, told' = Append(told, s)
  PROVE  /\ told' \in Seq(Said) /\ told' # <<>> /\ told'[Len(told')] = s
         /\ Execution!Told' # {}
<1>1. /\ told' \in Seq(Said) /\ Len(told') = Len(told) + 1 /\ Len(told) \in Nat
      /\ told'[Len(told')] = s
  BY DEF PluginTypeOK
<1>2. Len(told') \in DOMAIN told'
  BY <1>1, LenProperties
<1> QED
  BY <1>1, <1>2 DEF Execution!Told

\* What was told stays told.
LEMMA ToldSomething == ASSUME PluginTypeOK, told # <<>> PROVE Execution!Told # {}
<1>1. Len(told) \in Nat \ {0} /\ DOMAIN told = 1 .. Len(told)
  BY EmptySeq, LenProperties DEF PluginTypeOK
<1>2. 1 \in DOMAIN told
  BY <1>1
<1>3. told[1] \in Execution!Told
  BY <1>2, Zenon DEF Execution!Told
<1> QED
  BY <1>3

\* Nothing has been printed yet.
LEMMA InitPluginInv == Execution!Init => PluginInv
<1> SUFFICES ASSUME Execution!Init PROVE PluginInv
  OBVIOUS
<1> USE DEF Execution!Init, Execution!ZeroStatus, Done
<1>1. told \in Seq(Said)
  OBVIOUS
<1>2. PluginTypeOK
  BY <1>1 DEF PluginTypeOK
<1>3. CommandOK /\ PipeOK /\ OutputToldOK /\ Execution!FailureIsTold
  BY DEF CommandOK, PipeOK, OutputToldOK, Execution!FailureIsTold
<1> QED
  BY <1>2, <1>3 DEF PluginInv

\* A step before the end of the run.
LEMMA EndsSomeday == PluginInv /\ scanner' # "over" => Execution!FailureIsTold'
BY DEF Execution!FailureIsTold

\* No plugin, or one that cannot be started.
LEMMA NotFoundKeepsTelling == ASSUME PluginInv, Execution!NotFound PROVE PluginInv'
<1> USE DEF PluginInv, Execution!NotFound, Execution!commandVars, Execution!scanVars
<1>1. "UNKNOWN" \in Said /\ told' = Append(told, "UNKNOWN")
  BY DEF Said
<1>2. told' \in Seq(Said) /\ told' # <<>> /\ told'[Len(told')] = "UNKNOWN" /\ Execution!Told' # {}
  BY <1>1, ToldMore
<1>3. PluginTypeOK'
  BY <1>2 DEF PluginTypeOK, Done
<1>4. CommandOK' /\ PipeOK' /\ OutputToldOK'
  BY <1>2 DEF CommandOK, PipeOK, OutputToldOK, Done
<1>5. Execution!FailureIsTold'
  BY <1>2 DEF Execution!FailureIsTold
<1> QED
  BY <1>3, <1>4, <1>5

\* A record that is read is reported at once.
LEMMA ReadRecordKeepsTelling == ASSUME PluginInv, Execution!ReadRecord PROVE PluginInv'
<1> USE DEF PluginInv, Execution!ReadRecord, Execution!ReadLine, Execution!commandVars
<1>1. PICK s \in {"HEALTHY", "FAILURE"} : told' = Append(told, s)
  OBVIOUS
<1>2. told' \in Seq(Said) /\ told' # <<>>
  BY <1>1, ToldMore DEF Said
<1>3. PluginTypeOK'
  BY <1>2 DEF PluginTypeOK
<1>4. CommandOK' /\ PipeOK' /\ OutputToldOK'
  BY <1>2 DEF CommandOK, PipeOK, OutputToldOK
<1> QED
  BY <1>3, <1>4, EndsSomeday

\* The other lines, and the two ways the scanner stops.
LEMMA ScanKeepsTelling ==
  ASSUME PluginInv, Execution!Start \/ Execution!ReadInvalid \/ Execution!ReadBlank \/ Execution!EndOfOutput \/ Execution!LineTooLong
  PROVE  PluginInv'
<1> USE DEF PluginInv, Execution!Start, Execution!ReadInvalid, Execution!ReadBlank, Execution!EndOfOutput, Execution!LineTooLong, Execution!ReadLine, Execution!commandVars, Execution!scanVars
<1>1. PluginTypeOK'
  <2>1. told' = told /\ told' \in Seq(Said)
    BY DEF PluginTypeOK
  <2>2. printed' \in Nat /\ records' \in Nat
    BY DEF PluginTypeOK
  <2> QED
    BY <2>1, <2>2 DEF PluginTypeOK, Done
<1>2. CommandOK' /\ PipeOK' /\ OutputToldOK'
  BY DEF PluginTypeOK, CommandOK, PipeOK, OutputToldOK, Done
<1>3. scanner' # "over"
  OBVIOUS
<1> QED
  BY <1>1, <1>2, <1>3, EndsSomeday

\* The command ends while the caller scans, or after it gave up.
LEMMA CommandKeepsTelling ==
  ASSUME PluginInv, Execution!EndCommand \/ Execution!ClosePipe
  PROVE  PluginInv'
<1> USE DEF PluginInv, Execution!EndCommand, Execution!ClosePipe, Execution!scanVars
<1>1. PluginTypeOK'
  BY DEF PluginTypeOK
<1>2. CommandOK' /\ PipeOK' /\ OutputToldOK'
  BY DEF PluginTypeOK, CommandOK, PipeOK, OutputToldOK, Done
<1>3. Execution!FailureIsTold'
  BY DEF Execution!FailureIsTold, PipeOK, Execution!Told, Done
<1> QED
  BY <1>1, <1>2, <1>3

\* Lines that are no records are reported as such, in one more report.
LEMMA TellInvalidKeepsTelling == ASSUME PluginInv, Execution!TellInvalid PROVE PluginInv'
<1> USE DEF PluginInv, Execution!TellInvalid, Execution!commandVars, Execution!scanVars
<1>1. told' \in Seq(Said) /\ (told # <<>> \/ invalid => told' # <<>>)
  <2>1. CASE invalid
    BY <2>1, ToldMore DEF Said
  <2>2. CASE ~invalid
    BY <2>2 DEF PluginTypeOK
  <2> QED
    BY <2>1, <2>2
<1>2. PluginTypeOK'
  BY <1>1 DEF PluginTypeOK, Done
<1>3. CommandOK' /\ PipeOK' /\ OutputToldOK'
  BY <1>1 DEF CommandOK, PipeOK, OutputToldOK, Done
<1> QED
  BY <1>2, <1>3, EndsSomeday

\* The last word: what is read of err and status is what the command left there, unless
\* the scanner gave up before the end of the pipe.
LEMMA ConcludeKeepsTelling == ASSUME PluginInv, Execution!Conclude PROVE PluginInv'
<1> USE DEF PluginInv, Execution!commandVars, Execution!scanVars
<1>1. PICK e \in {err} \cup (IF missed THEN {"nil"} ELSE {}),
           s \in {exit} \cup (IF missed THEN {Execution!ZeroStatus} ELSE {}) :
        told' = IF e # "nil" \/ (~invalid /\ records = 0)
                   THEN Append(told, Execution!TimeoutOr(s)) ELSE told
  BY DEF Execution!Conclude
<1>2. /\ scanner = "concluding" /\ scanner' = "over"
      /\ UNCHANGED <<running, command, err, exit, printed, records, invalid, missed>>
  BY DEF Execution!Conclude
<1>3. Execution!TimeoutOr(s) \in Said /\ (err # "nil" /\ ~missed => e # "nil" /\ Execution!TimeoutOr(s) \in Bad)
  <2>1. s \in {"HEALTHY", "FAILURE", "UNKNOWN"}
    BY <1>1 DEF PluginTypeOK, Execution!ZeroStatus
  <2>2. err # "nil" /\ ~missed => e = err /\ s = exit /\ exit \in {"FAILURE", "UNKNOWN"}
    BY <1>1 DEF PluginTypeOK, CommandOK
  <2>3. running \in {"open", "canceled", "expired"}
    BY DEF PluginTypeOK
  <2> QED
    BY <2>1, <2>2, <2>3 DEF Execution!TimeoutOr, Said, Bad
<1>4. /\ told' \in Seq(Said) /\ told' # <<>> /\ Execution!Told' # {}
      /\ err # "nil" /\ ~missed => told'[Len(told')] \in Bad
  <2>1. CASE e # "nil" \/ (~invalid /\ records = 0)
    <3>1. told' = Append(told, Execution!TimeoutOr(s))
      BY <1>1, <2>1
    <3>2. told' \in Seq(Said) /\ told' # <<>> /\ told'[Len(told')] = Execution!TimeoutOr(s) /\ Execution!Told' # {}
      BY <1>3, <3>1, ToldMore
    <3> QED
      BY <1>3, <3>2
  <2>2. CASE ~(e # "nil" \/ (~invalid /\ records = 0))
    <3>1. told' = told /\ told # <<>>
      BY <1>1, <1>2, <2>2 DEF OutputToldOK, PluginTypeOK
    <3>2. Execution!Told' = Execution!Told /\ Execution!Told # {}
      BY <3>1, ToldSomething DEF Execution!Told
    <3> QED
      BY <1>3, <2>2, <3>1, <3>2 DEF PluginTypeOK
  <2> QED
    BY <2>1, <2>2
<1>5. PluginTypeOK'
  BY <1>2, <1>4 DEF PluginTypeOK, Done
<1>6. CommandOK' /\ PipeOK' /\ OutputToldOK'
  BY <1>2, <1>4 DEF CommandOK, PipeOK, OutputToldOK, Done
<1>7. Execution!FailureIsTold'
  BY <1>2, <1>4 DEF Execution!FailureIsTold, Bad
<1> QED
  BY <1>5, <1>6, <1>7

\* Every step of execute keeps the invariant.
LEMMA NextPluginInv == PluginInv /\ [Execution!Next]_(Execution!vars) => PluginInv'
<1> SUFFICES ASSUME PluginInv, [Execution!Next]_(Execution!vars) PROVE PluginInv'
  OBVIOUS
<1>1. ASSUME Execution!EndContext PROVE PluginInv'
  BY <1>1 DEF Execution!EndContext, Execution!commandVars, Execution!scanVars, PluginInv, PluginTypeOK, CommandOK, PipeOK, OutputToldOK,
     Execution!FailureIsTold, Execution!Told
<1>2. CASE UNCHANGED Execution!vars
  BY <1>2 DEF Execution!vars, Execution!commandVars, Execution!scanVars, PluginInv, PluginTypeOK, CommandOK, PipeOK, OutputToldOK,
     Execution!FailureIsTold, Execution!Told
<1> QED
  BY <1>1, <1>2, NotFoundKeepsTelling, ReadRecordKeepsTelling, ScanKeepsTelling, CommandKeepsTelling,
     TellInvalidKeepsTelling, ConcludeKeepsTelling DEF Execution!Next


-----------------------------------------------------------------------------
(* Probes, for every job: a probe, an alert or the opening of a list.       *)

\* A list made by a command on another host, whose exit code nobody looks at.
BlindList == Use!For({"source"}) /\ Use!Using({"exec+ssh"})

\* The connections that no deferred call closes.
MayStay ==
  IF ~Use!Using({"sftp"}) THEN {}
  ELSE IF Use!For({"source"}) THEN {"ssh", "sftp"} ELSE {"ssh"}
MayStayWithList == IF Use!For({"source"}) THEN MayStay \cup {"list"} ELSE MayStay

FirstSteps ==
  {"configuring", "dialing ssh", "dialing ftp", "requesting", "connecting", "resolving", "naming",
   "pinging", "executing", "waiting"}
LaterSteps == {"shaking hands", "connected", "at file", "logging in", "logged in"}
LastSteps == {"unprepared", "reporting", "over"}

ProbeTypeOK ==
  /\ job \in Use!Jobs
  /\ ctx \in {"open", "canceled", "expired"}
  /\ pc \in FirstSteps \cup LaterSteps \cup LastSteps
  /\ status \in Use!Status
  /\ reports \in Seq([status : Use!Status, ctx : {"open", "canceled", "expired"}])
  /\ trouble \in BOOLEAN

\* Which connections are open at each step, and which of them are going to be closed.
HeldOK ==
  /\ pc \in FirstSteps => open = {} /\ defers = {}
  /\ pc = "shaking hands" => open = {"ssh"} /\ defers = {}
  /\ pc = "connected" => open = {"ssh"} /\ defers = IF Use!Using({"exec+ssh"}) THEN {"ssh"} ELSE {}
  /\ pc = "at file" => \/ Use!Using({"file"}) /\ open = {} /\ defers = {}
                       \/ /\ Use!Using({"sftp"}) /\ open = {"ssh", "sftp"}
                          /\ defers = IF Use!For({"source"}) THEN {} ELSE {"sftp", "ssh"}
  /\ pc = "logging in" => open = {"ftp"} /\ defers = {}
  /\ pc = "logged in" => open = {"ftp"} /\ defers = {"ftp"}
  /\ pc = "unprepared" => open \subseteq defers
  /\ pc = "reporting" => open \ defers \subseteq MayStayWithList
  /\ pc = "over" => open \subseteq MayStay

\* Trouble is in the status as soon as it is known, and there is no report before the end.
TroubleOK ==
  /\ trouble /\ ~BlindList => status # "HEALTHY"
  /\ pc # "over" => reports = <<>>
  /\ pc = "unprepared" => status = "UNKNOWN" /\ Use!Using({"ssh", "exec+ssh", "ping"})

\* The inductive invariant.  The properties are about the end of a job: what makes them
\* true is where each connection is handed to a deferred call, and that no call that
\* fails leaves HEALTHY behind.
ProbeInv == ProbeTypeOK /\ HeldOK /\ TroubleOK /\ Use!HealthyIsTrue /\ Use!StopIsNoIncident

-----------------------------------------------------------------------------

\* A step before the end of a job leaves the two properties of its reports true.
LEMMA NoReportsYet ==
  TroubleOK' /\ pc' # "over" => Use!HealthyIsTrue' /\ Use!StopIsNoIncident'
BY DEF TroubleOK, Use!HealthyIsTrue, Use!StopIsNoIncident

\* A job begins with nothing open.
LEMMA InitProbeInv == Use!Init => ProbeInv
<1> SUFFICES ASSUME Use!Init PROVE ProbeInv
  OBVIOUS
<1>1. Use!FirstStep \in FirstSteps \cup {"at file"} /\ (Use!FirstStep = "at file" => Use!Using({"file"}))
  <2>1. job.scheme \in Use!ProbeSchemes
    BY DEF Use!Init, Use!Jobs, Use!ProbeSchemes, Use!AlertSchemes, Use!SourceSchemes
  <2> QED
    BY <2>1 DEF Use!FirstStep, Use!Using, Use!ProbeSchemes, FirstSteps
<1>2. ProbeTypeOK
  <2>1. reports = <<>> /\ <<>> \in Seq([status : Use!Status, ctx : {"open", "canceled", "expired"}])
    BY DEF Use!Init
  <2>2. status \in Use!Status
    BY DEF Use!Init, Use!Status
  <2> QED
    BY <1>1, <2>1, <2>2 DEF Use!Init, ProbeTypeOK, LaterSteps
<1>3. HeldOK
  BY <1>1 DEF Use!Init, HeldOK, FirstSteps
<1>4. TroubleOK /\ pc # "over"
  BY <1>1 DEF Use!Init, TroubleOK, FirstSteps
<1> QED
  BY <1>2, <1>3, <1>4 DEF ProbeInv, TroubleOK, Use!HealthyIsTrue, Use!StopIsNoIncident

\* A call that succeeds and leads to another one.
LEMMA ProceedKeeps ==
  ASSUME ProbeInv, NEW step \in FirstSteps \cup LaterSteps, pc # "over", Use!Proceed(step), HeldOK'
  PROVE  ProbeInv'
<1> USE DEF ProbeInv, Use!Proceed
<1>1. ProbeTypeOK'
  BY DEF ProbeTypeOK
<1>2. TroubleOK' /\ pc' # "over"
  BY DEF TroubleOK, BlindList, Use!For, Use!Using, FirstSteps, LaterSteps
<1> QED
  BY <1>1, <1>2, NoReportsYet

\* The last call of a job: its result, and what it leaves open.
LEMMA ConcludeKeeps ==
  ASSUME ProbeInv, pc # "over", NEW s \in Use!Status, NEW problem \in BOOLEAN, Use!Conclude(s, problem),
         problem /\ ~BlindList => s # "HEALTHY",
         open' \ defers' \subseteq MayStayWithList
  PROVE  ProbeInv'
<1> USE DEF ProbeInv, Use!Conclude
<1>1. ProbeTypeOK'
  BY DEF ProbeTypeOK, LastSteps
<1>2. TroubleOK' /\ pc' # "over"
  BY DEF TroubleOK, BlindList, Use!For, Use!Using
<1>3. MayStayWithList' = MayStayWithList
  BY DEF MayStayWithList, MayStay, Use!For, Use!Using
<1>4. HeldOK'
  BY <1>3 DEF HeldOK, FirstSteps
<1> QED
  BY <1>1, <1>2, <1>4, NoReportsYet

\* A job that ends in its preparations.
LEMMA GiveUpKeeps ==
  ASSUME ProbeInv, pc # "over", Use!GiveUp, Use!Using({"ssh", "exec+ssh", "ping"}), open' = {}
  PROVE  ProbeInv'
<1> USE DEF ProbeInv, Use!GiveUp
<1>1. ProbeTypeOK'
  BY DEF ProbeTypeOK, LastSteps, Use!Status
<1>2. TroubleOK' /\ pc' # "over"
  BY DEF TroubleOK, BlindList, Use!For, Use!Using
<1>3. HeldOK'
  BY DEF HeldOK, FirstSteps
<1> QED
  BY <1>1, <1>2, <1>3, NoReportsYet

\* A call that fails, with nothing left open but what may stay.
LEMMA FailKeeps ==
  ASSUME ProbeInv, pc # "over", NEW s \in {"UNKNOWN", "FAILURE", "DEGRADE"}, Use!Fail(s),
         open' \ defers' \subseteq MayStayWithList
  PROVE  ProbeInv'
<1>1. s \in Use!Status /\ s # "HEALTHY"
  BY DEF Use!Status
<1>2. Use!Conclude(s, TRUE)
  BY DEF Use!Fail
<1> QED
  BY <1>1, <1>2, ConcludeKeeps

\* A last call that succeeds.
LEMMA SucceedKeeps ==
  ASSUME ProbeInv, pc # "over", Use!Succeed, open' \ defers' \subseteq MayStayWithList
  PROVE  ProbeInv'
<1>1. "HEALTHY" \in Use!Status /\ Use!Conclude("HEALTHY", FALSE)
  BY DEF Use!Status, Use!Succeed
<1> QED
  BY <1>1, ConcludeKeeps

\* A command whose output may say another status.
LEMMA OutputKeeps ==
  ASSUME ProbeInv, pc # "over", NEW s \in Use!Status, NEW problem \in BOOLEAN, Use!ConcludeFromOutput(s, problem),
         problem => s # "HEALTHY",
         open' \ defers' \subseteq MayStayWithList
  PROVE  ProbeInv'
<1>1. CASE Use!Conclude(s, problem)
  BY <1>1, ConcludeKeeps
<1>2. ASSUME NEW said \in Use!Status, Use!Conclude(said, FALSE) PROVE ProbeInv'
  BY <1>2, ConcludeKeeps
<1> QED
  BY <1>1, <1>2 DEF Use!ConcludeFromOutput

-----------------------------------------------------------------------------

\* The steps of ssh, sftp and exec+ssh up to the connection.
LEMMA SSHKeeps ==
  ASSUME ProbeInv, Use!ReadSSHConfig \/ Use!DialSSH \/ Use!Handshake \/ Use!ConcludeSSH
  PROVE  ProbeInv'
<1> USE DEF Use!Keep
<1>1. CASE Use!ReadSSHConfig
  <2>1. pc = "configuring" /\ open = {} /\ defers = {} /\ open' = {} /\ defers' = {}
    BY <1>1 DEF Use!ReadSSHConfig, ProbeInv, HeldOK, FirstSteps
  <2>2. CASE Use!Proceed("dialing ssh")
    <3>1. HeldOK'
      BY <2>1, <2>2 DEF Use!Proceed, HeldOK, FirstSteps
    <3> QED
      BY <2>1, <2>2, <3>1, ProceedKeeps DEF FirstSteps
  <2>3. CASE Use!Using({"ssh", "exec+ssh"}) /\ Use!GiveUp
    BY <2>1, <2>3, GiveUpKeeps DEF Use!Using
  <2>4. CASE Use!Fail("UNKNOWN")
    BY <2>1, <2>4, FailKeeps
  <2> QED
    BY <1>1, <2>2, <2>3, <2>4 DEF Use!ReadSSHConfig
<1>2. ASSUME NEW s \in {"UNKNOWN", "FAILURE"}, pc # "over", Use!FailToDialSSH(s), open' = {}
      PROVE  ProbeInv'
  BY <1>2, GiveUpKeeps, FailKeeps DEF Use!FailToDialSSH, Use!Using
<1>3. CASE Use!DialSSH
  <2>1. pc = "dialing ssh" /\ open = {} /\ defers = {}
    BY <1>3 DEF Use!DialSSH, ProbeInv, HeldOK, FirstSteps
  <2>2. CASE Use!Proceed("shaking hands") /\ Use!Opened("ssh")
    <3>1. HeldOK'
      BY <2>1, <2>2 DEF Use!Proceed, Use!Opened, HeldOK, FirstSteps
    <3> QED
      BY <2>1, <2>2, <3>1, ProceedKeeps DEF LaterSteps
  <2> QED
    BY <1>2, <1>3, <2>1, <2>2 DEF Use!DialSSH
<1>4. CASE Use!Handshake
  <2>1. pc = "shaking hands" /\ open = {"ssh"} /\ defers = {}
    BY <1>4 DEF Use!Handshake, ProbeInv, HeldOK
  <2>2. CASE Use!Proceed("connected") /\ IF Use!Using({"exec+ssh"}) THEN Use!Defer("ssh") ELSE Use!Keep
    <3>1. HeldOK'
      BY <2>1, <2>2 DEF Use!Proceed, Use!Defer, HeldOK, FirstSteps, Use!Using
    <3> QED
      BY <2>1, <2>2, <3>1, ProceedKeeps DEF LaterSteps
  <2>3. CASE Use!FailToDialSSH("FAILURE") /\ Use!Closed("ssh")
    BY <1>2, <2>1, <2>3 DEF Use!Closed
  <2> QED
    BY <1>4, <2>2, <2>3 DEF Use!Handshake
<1>5. CASE Use!ConcludeSSH
  BY <1>5, SucceedKeeps DEF Use!ConcludeSSH, Use!Closed, ProbeInv, HeldOK
<1> QED
  BY <1>1, <1>3, <1>4, <1>5

\* What is done over a connection.
LEMMA ConnectedKeeps ==
  ASSUME ProbeInv, Use!StartSFTP \/ Use!ExecOverSSH \/ Use!OpenSSHSource
  PROVE  ProbeInv'
<1> USE DEF Use!Keep
<1>1. pc = "connected" /\ open = {"ssh"} /\ defers = IF Use!Using({"exec+ssh"}) THEN {"ssh"} ELSE {}
  BY DEF Use!StartSFTP, Use!ExecOverSSH, Use!OpenSSHSource, ProbeInv, HeldOK
<1>2. CASE Use!StartSFTP
  <2>1. Use!Using({"sftp"}) /\ ~Use!Using({"exec+ssh"}) /\ ~Use!Using({"file"})
    BY <1>2 DEF Use!StartSFTP, Use!Using
  <2>2. CASE /\ Use!Proceed("at file") /\ open' = open \cup {"sftp"}
             /\ defers' = IF Use!For({"source"}) THEN {} ELSE {"sftp", "ssh"}
    <3>1. HeldOK'
      BY <1>1, <2>1, <2>2 DEF Use!Proceed, HeldOK, FirstSteps, Use!Using, Use!For
    <3> QED
      BY <1>1, <2>2, <3>1, ProceedKeeps DEF LaterSteps
  <2>3. CASE Use!Fail("FAILURE") /\ Use!Keep
    BY <1>1, <2>1, <2>3, FailKeeps DEF MayStayWithList, MayStay
  <2> QED
    BY <1>2, <2>2, <2>3 DEF Use!StartSFTP
<1>3. CASE Use!ExecOverSSH
  <2>1. open' \ defers' = {}
    BY <1>1, <1>3 DEF Use!ExecOverSSH
  <2>2. "HEALTHY" \in Use!Status /\ "UNKNOWN" \in Use!Status /\ "FAILURE" \in Use!Status
    BY DEF Use!Status
  <2> QED
    BY <1>1, <1>3, <2>1, <2>2, OutputKeeps DEF Use!ExecOverSSH
<1>4. CASE Use!OpenSSHSource
  <2>1. open' \ defers' = {} /\ BlindList
    BY <1>1, <1>4 DEF Use!OpenSSHSource, BlindList
  <2>2. "HEALTHY" \in Use!Status
    BY DEF Use!Status
  <2> QED
    BY <1>1, <1>4, <2>1, <2>2, ConcludeKeeps DEF Use!OpenSSHSource
<1> QED
  BY <1>2, <1>3, <1>4

\* What is done to a file, here or over sftp.
LEMMA FileKeeps ==
  ASSUME ProbeInv, Use!ProbeFS \/ Use!AlertFS \/ Use!OpenFile
  PROVE  ProbeInv'
<1> USE DEF Use!Keep
<1>1. /\ pc = "at file"
      /\ \/ Use!Using({"file"}) /\ open = {} /\ defers = {}
         \/ /\ Use!Using({"sftp"}) /\ open = {"ssh", "sftp"}
            /\ defers = IF Use!For({"source"}) THEN {} ELSE {"sftp", "ssh"}
  BY DEF Use!ProbeFS, Use!AlertFS, Use!OpenFile, ProbeInv, HeldOK
<1>2. open \ defers \subseteq MayStayWithList
  BY <1>1 DEF MayStayWithList, MayStay
<1>3. CASE Use!ProbeFS \/ Use!AlertFS
  BY <1>1, <1>2, <1>3, SucceedKeeps, FailKeeps DEF Use!ProbeFS, Use!AlertFS
<1>4. CASE Use!OpenFile
  <2>1. (open \cup {"list"}) \ defers \subseteq MayStayWithList
    BY <1>1, <1>2, <1>4 DEF Use!OpenFile, MayStayWithList
  <2>2. CASE Use!Succeed /\ IF Use!Using({"sftp"}) THEN Use!Opened("list") ELSE Use!Keep
    BY <1>1, <1>2, <2>1, <2>2, SucceedKeeps DEF Use!Opened
  <2>3. CASE Use!Fail("FAILURE") /\ Use!Keep
    BY <1>1, <1>2, <2>3, FailKeeps
  <2> QED
    BY <1>4, <2>2, <2>3 DEF Use!OpenFile
<1> QED
  BY <1>3, <1>4

\* The steps of ftp.
LEMMA FTPKeeps ==
  ASSUME ProbeInv, Use!DialFTP \/ Use!Login \/ Use!ListFTP \/ Use!AppendFTP \/ Use!RetrFTP
  PROVE  ProbeInv'
<1> USE DEF Use!Keep
<1>1. CASE Use!DialFTP
  <2>1. pc = "dialing ftp" /\ open = {} /\ defers = {}
    BY <1>1 DEF Use!DialFTP, ProbeInv, HeldOK, FirstSteps
  <2>2. CASE Use!Proceed("logging in") /\ Use!Opened("ftp")
    <3>1. HeldOK'
      BY <2>1, <2>2 DEF Use!Proceed, Use!Opened, HeldOK, FirstSteps
    <3> QED
      BY <2>1, <2>2, <3>1, ProceedKeeps DEF LaterSteps
  <2> QED
    BY <1>1, <2>1, <2>2, FailKeeps DEF Use!DialFTP
<1>2. CASE Use!Login
  <2>1. pc = "logging in" /\ open = {"ftp"} /\ defers = {}
    BY <1>2 DEF Use!Login, ProbeInv, HeldOK
  <2>2. CASE Use!Proceed("logged in") /\ Use!Defer("ftp")
    <3>1. HeldOK'
      BY <2>1, <2>2 DEF Use!Proceed, Use!Defer, HeldOK, FirstSteps
    <3> QED
      BY <2>1, <2>2, <3>1, ProceedKeeps DEF LaterSteps
  <2>3. CASE Use!Fail("FAILURE") /\ Use!Closed("ftp")
    BY <2>1, <2>3, FailKeeps DEF Use!Closed
  <2> QED
    BY <1>2, <2>2, <2>3 DEF Use!Login
<1>3. CASE Use!ListFTP \/ Use!AppendFTP \/ Use!RetrFTP
  <2>1. pc = "logged in" /\ open = {"ftp"} /\ defers = {"ftp"}
    BY <1>3 DEF Use!ListFTP, Use!AppendFTP, Use!RetrFTP, ProbeInv, HeldOK
  <2>2. CASE Use!ListFTP \/ Use!AppendFTP
    BY <2>1, <2>2, SucceedKeeps, FailKeeps DEF Use!ListFTP, Use!AppendFTP
  <2>3. CASE Use!RetrFTP
    <3>1. (open \cup {"list"}) \ defers \subseteq MayStayWithList
      BY <2>1, <2>3 DEF Use!RetrFTP, MayStayWithList
    <3>2. CASE Use!Succeed /\ Use!Opened("list")
      BY <2>1, <3>1, <3>2, SucceedKeeps DEF Use!Opened
    <3>3. CASE Use!Fail("FAILURE") /\ Use!Keep
      BY <2>1, <3>3, FailKeeps
    <3> QED
      BY <2>3, <3>2, <3>3 DEF Use!RetrFTP
  <2> QED
    BY <1>3, <2>2, <2>3
<1> QED
  BY <1>1, <1>2, <1>3

\* The schemes of a single call.
LEMMA SingleCallKeeps ==
  ASSUME ProbeInv,
         \/ Use!Request \/ Use!OpenHTTPSource \/ Use!ConnectTCP \/ Use!Resolve
         \/ Use!ResolveIPAddr \/ Use!Ping \/ Use!Execute \/ Use!OpenExecSource \/ Use!WaitLatency
  PROVE  ProbeInv'
<1> USE DEF Use!Keep
<1>1. pc \in FirstSteps /\ pc # "over" /\ open = {} /\ defers = {}
  BY DEF Use!Request, Use!OpenHTTPSource, Use!ConnectTCP, Use!Resolve, Use!ResolveIPAddr, Use!Ping,
         Use!Execute, Use!OpenExecSource, Use!WaitLatency, ProbeInv, HeldOK, FirstSteps
<1>2. CASE Use!Request \/ Use!ConnectTCP \/ Use!Resolve \/ Use!OpenExecSource
  BY <1>1, <1>2, SucceedKeeps, FailKeeps DEF Use!Request, Use!ConnectTCP, Use!Resolve, Use!OpenExecSource
<1>3. CASE Use!OpenHTTPSource
  <2>1. {"list"} \subseteq MayStayWithList
    BY <1>3 DEF Use!OpenHTTPSource, MayStayWithList
  <2> QED
    BY <1>1, <1>3, <2>1, SucceedKeeps, FailKeeps DEF Use!OpenHTTPSource, Use!Opened
<1>4. CASE Use!ResolveIPAddr
  <2>1. CASE Use!Proceed("pinging")
    <3>1. HeldOK'
      BY <1>1, <1>4, <2>1 DEF Use!ResolveIPAddr, Use!Proceed, HeldOK, FirstSteps
    <3> QED
      BY <1>1, <2>1, <3>1, ProceedKeeps DEF FirstSteps
  <2>2. CASE Use!GiveUp
    BY <1>1, <1>4, <2>2, GiveUpKeeps DEF Use!ResolveIPAddr, Use!Using
  <2> QED
    BY <1>4, <2>1, <2>2 DEF Use!ResolveIPAddr
<1>5. CASE Use!Ping
  BY <1>1, <1>5, GiveUpKeeps, SucceedKeeps, FailKeeps DEF Use!Ping, Use!Using
<1>6. CASE Use!Execute
  <2>1. "HEALTHY" \in Use!Status /\ "UNKNOWN" \in Use!Status /\ "FAILURE" \in Use!Status
    BY DEF Use!Status
  <2> QED
    BY <1>1, <1>6, <2>1, OutputKeeps DEF Use!Execute
<1>7. CASE Use!WaitLatency
  BY <1>1, <1>7, ConcludeKeeps DEF Use!WaitLatency
<1> QED
  BY <1>2, <1>3, <1>4, <1>5, <1>6, <1>7

-----------------------------------------------------------------------------

\* What timeoutOr and pingResultToRecord make of a status.
LEMMA FinalStatusProperties ==
  ASSUME ctx \in {"open", "canceled", "expired"}, NEW s \in Use!Status
  PROVE  /\ Use!FinalStatus(s) \in Use!Status
         /\ Use!FinalStatus(s) = "HEALTHY" => s = "HEALTHY"
         /\ ctx = "canceled" => Use!FinalStatus(s) = "ABORTED"
BY DEF Use!FinalStatus, Use!TimeoutOr, Use!Status

\* The one report of a probe or an alert.
LEMMA ReportKeeps == ASSUME ProbeInv, Use!Report PROVE ProbeInv'
<1> DEFINE s == IF pc = "unprepared" THEN status ELSE Use!FinalStatus(status)
           r == [status |-> s, ctx |-> ctx]
<1> USE DEF ProbeInv
<1>1. /\ pc \in {"reporting", "unprepared"} /\ pc' = "over" /\ ~Use!For({"source"})
      /\ reports' = Append(reports, r) /\ reports = <<>>
      /\ open' = open \ defers
      /\ UNCHANGED <<job, ctx, status, defers, trouble>>
  BY DEF Use!Report, TroubleOK
<1>2. /\ s \in Use!Status
      /\ s = "HEALTHY" => status = "HEALTHY"
      /\ ctx = "canceled" =>
           s = "ABORTED" \/ (s = "UNKNOWN" /\ Use!Using({"ssh", "exec+ssh", "ping"}))
  BY <1>1, FinalStatusProperties DEF ProbeTypeOK, TroubleOK
<1>3. r \in [status : Use!Status, ctx : {"open", "canceled", "expired"}]
  BY <1>2 DEF ProbeTypeOK
<1>4. reports' \in Seq([status : Use!Status, ctx : {"open", "canceled", "expired"}])
      /\ \A i \in DOMAIN reports' : reports'[i] = r
  BY <1>1, <1>3
<1>5. r.status = s /\ r.ctx = ctx
  OBVIOUS
<1> HIDE DEF s, r
<1>6. /\ \A x : Use!For(x)' = Use!For(x) /\ Use!Using(x)' = Use!Using(x)
      /\ BlindList' = BlindList /\ MayStay' = MayStay
  BY <1>1 DEF Use!For, Use!Using, BlindList, MayStay
<1>7. ProbeTypeOK'
  BY <1>1, <1>4 DEF ProbeTypeOK, LastSteps
<1>8. HeldOK'
  BY <1>1, <1>6 DEF HeldOK, FirstSteps, MayStayWithList
<1>9. TroubleOK'
  BY <1>1, <1>6 DEF TroubleOK
<1>10. Use!HealthyIsTrue'
  <2>1. trouble /\ ~BlindList => s # "HEALTHY"
    BY <1>2 DEF TroubleOK
  <2> QED
    BY <1>1, <1>4, <1>5, <1>6, <2>1 DEF Use!HealthyIsTrue, BlindList
<1>11. Use!StopIsNoIncident'
  BY <1>1, <1>2, <1>4, <1>5, <1>6 DEF Use!StopIsNoIncident
<1> QED
  BY <1>7, <1>8, <1>9, <1>10, <1>11

\* A list is handed over and read.
LEMMA HandOverKeeps == ASSUME ProbeInv, Use!HandOver PROVE ProbeInv'
<1> USE DEF ProbeInv
<1>1. /\ pc = "reporting" /\ pc' = "over" /\ Use!For({"source"}) /\ reports = <<>>
      /\ open' = (open \ defers) \ {"list"}
      /\ UNCHANGED <<job, ctx, status, defers, reports, trouble>>
  BY DEF Use!HandOver, TroubleOK
<1>2. /\ \A x : Use!For(x)' = Use!For(x) /\ Use!Using(x)' = Use!Using(x)
      /\ BlindList' = BlindList /\ MayStay' = MayStay
  BY <1>1 DEF Use!For, Use!Using, BlindList, MayStay
<1>3. ProbeTypeOK'
  BY <1>1 DEF ProbeTypeOK, LastSteps
<1>4. HeldOK'
  BY <1>1, <1>2 DEF HeldOK, FirstSteps, MayStayWithList
<1>5. TroubleOK'
  BY <1>1, <1>2 DEF TroubleOK
<1>6. Use!HealthyIsTrue' /\ Use!StopIsNoIncident'
  BY <1>1, <1>2 DEF TroubleOK, BlindList, Use!HealthyIsTrue, Use!StopIsNoIncident
<1> QED
  BY <1>3, <1>4, <1>5, <1>6

\* The end of the context changes nothing else: no step has looked at it yet.
LEMMA ContextKeeps == ASSUME ProbeInv, Use!Expire \/ Use!Cancel \/ UNCHANGED Use!vars PROVE ProbeInv'
<1> USE DEF ProbeInv
<1>1. /\ UNCHANGED <<job, pc, status, open, defers, reports, trouble>>
      /\ ctx' \in {"open", "canceled", "expired"}
  BY DEF Use!Expire, Use!Cancel, Use!vars, ProbeTypeOK
<1>2. ProbeTypeOK'
  BY <1>1 DEF ProbeTypeOK
<1>3. HeldOK' /\ TroubleOK'
  BY <1>1 DEF HeldOK, TroubleOK, MayStayWithList, MayStay, BlindList, Use!For, Use!Using
<1>4. Use!HealthyIsTrue' /\ Use!StopIsNoIncident'
  BY <1>1 DEF Use!HealthyIsTrue, Use!StopIsNoIncident, Use!For, Use!Using
<1> QED
  BY <1>2, <1>3, <1>4

\* Every step of a job keeps the invariant.
LEMMA NextProbeInv == ProbeInv /\ [Use!Next]_(Use!vars) => ProbeInv'
<1> SUFFICES ASSUME ProbeInv, [Use!Next]_(Use!vars) PROVE ProbeInv'
  OBVIOUS
<1>1. CASE Use!Call
  BY <1>1, SSHKeeps, ConnectedKeeps, FileKeeps, FTPKeeps, SingleCallKeeps DEF Use!Call
<1>2. CASE Use!Report \/ Use!HandOver
  BY <1>2, ReportKeeps, HandOverKeeps
<1>3. CASE Use!Expire \/ Use!Cancel \/ Use!Over \/ UNCHANGED Use!vars
  BY <1>3, ContextKeeps DEF Use!Over
<1> QED
  BY <1>1, <1>2, <1>3 DEF Use!Next

\* The invariant says what the properties say of the end of a job.
LEMMA ProbeInvImplies == ProbeInv => Use!HealthyIsTrue /\ Use!StopIsNoIncident /\ Use!AllClosed
BY DEF ProbeInv, HeldOK, MayStay, Use!AllClosed

-----------------------------------------------------------------------------
(* MCSpec: a behaviour of it is one of every component, since the           *)
(* components that it does not follow stand still in an initial state.      *)

\* So is each step.
LEMMA EachStepIsTheirs ==
  ASSUME [MCNext]_<<vars, trackerVars, pingerVars, probeVars, pluginVars, part>>
  PROVE  /\ [Tracker!Next]_(Tracker!vars)
         /\ [Pinger!Next]_(Pinger!vars)
         /\ [Use!Next]_(Use!vars)
         /\ [Execution!Next]_(Execution!vars)
BY DEF MCNext, trackerVars, pingerVars, probeVars, pluginVars, Tracker!vars, Tracker!trackerVars, Tracker!runVars,
       Pinger!vars, Use!vars, Execution!vars

\* The parts of MCSpec that are theirs: everything but the fairness.
LEMMA MCSpecIsTheirs ==
  MCSpec => /\ Tracker!Init /\ [][Tracker!Next]_(Tracker!vars)
            /\ Pinger!Init /\ [][Pinger!Next]_(Pinger!vars)
            /\ Use!Init /\ [][Use!Next]_(Use!vars)
            /\ Execution!Init /\ [][Execution!Next]_(Execution!vars)
<1>1. MCInit => Tracker!Init /\ Pinger!Init /\ Use!Init /\ Execution!Init
  BY DEF MCInit
<1> QED
  BY <1>1, EachStepIsTheirs, PTL DEF MCSpec

\* One run of a source overlaps no other.
LEMMA OneRunNeverOverlaps == ASSUME NEW r, Runs = {r} PROVE NoOverlap
BY DEF NoOverlap

\* Between two runs of a source or a plugin the active targets are exactly those of the
\* last list that was probed (SourceScheme.Probe with TargetTracker), for any targets and
\* runs that do not overlap, and always for one run.
THEOREM ActiveTargetsSettle ==
  /\ Tracker!Spec /\ []NoOverlap => []Tracker!SettledOnList
  /\ MCSpec /\ []NoOverlap => []SettledOnList
  /\ \A r : Runs = {r} => (MCSpec => []SettledOnList)
<1>1. TrackerInv => Tracker!SettledOnList /\ SettledOnList
  BY DEF TrackerInv, AtRestOK, Tracker!SettledOnList, SettledOnList, UsesTracker
<1>2. Tracker!Spec /\ []NoOverlap => []Tracker!SettledOnList
  BY <1>1, TrackerInvariant, PTL
<1>3. MCSpec /\ []NoOverlap => []SettledOnList
  BY <1>1, MCSpecIsTheirs, TrackerInvariant, PTL DEF Tracker!Spec
<1>4. ASSUME NEW r, Runs = {r} PROVE MCSpec => []SettledOnList
  <2>1. NoOverlap
    BY <1>4, OneRunNeverOverlaps
  <2> QED
    BY <1>3, <2>1, PTL
<1> QED
  BY <1>2, <1>3, <1>4

\* No run deactivates a target of the list that is being probed
\* (TargetTracker.Inactives, read before DeactivateTarget).
THEOREM ListedTargetsStayActive ==
  /\ Tracker!Spec /\ []NoOverlap => Tracker!ListedNeverDeactivated
  /\ MCSpec /\ []NoOverlap => ListedNeverDeactivated
  /\ \A r : Runs = {r} => (MCSpec => ListedNeverDeactivated)
<1>1. TrackerInv /\ [Tracker!Next]_(Tracker!vars) => [(activated \ activated') \cap loaded' = {}]_(Tracker!vars)
  BY NeverDeactivatesListed
<1>2. Tracker!Spec /\ []NoOverlap => Tracker!ListedNeverDeactivated
  BY <1>1, TrackerInvariant, PTL DEF Tracker!Spec, Tracker!ListedNeverDeactivated
<1>3. MCSpec /\ []NoOverlap => ListedNeverDeactivated
  BY <1>2, MCSpecIsTheirs, PTL DEF Tracker!Spec, ListedNeverDeactivated
<1>4. ASSUME NEW r, Runs = {r} PROVE MCSpec => ListedNeverDeactivated
  <2>1. NoOverlap
    BY <1>4, OneRunNeverOverlaps
  <2> QED
    BY <1>3, <2>1, PTL
<1> QED
  BY <1>2, <1>3, <1>4

\* The sockets are closed when nobody pings, and as long as no start has failed whoever
\* pings has the running pinger: it is neither stopped nor replaced before its Release
\* (autoPingerStruct.Ping and sharedResource).
THEOREM PingerRunsWhileUsed ==
  /\ Pinger!Spec => []Pinger!RunsWhileUsed
  /\ MCSpec => []RunsWhileUsed
<1>1. PingerInv /\ [Pinger!Next]_(Pinger!vars) => PingerInv'
  BY NextPingerInv, SchemesAssumption
<1>2. PingerInv => Pinger!RunsWhileUsed /\ RunsWhileUsed
  BY PingerInvImpliesRuns DEF RunsWhileUsed
<1>3. Pinger!Spec => []Pinger!RunsWhileUsed
  BY <1>1, <1>2, InitPingerInv, PTL DEF Pinger!Spec
<1>4. MCSpec => []RunsWhileUsed
  BY <1>1, <1>2, InitPingerInv, MCSpecIsTheirs, PTL
<1> QED
  BY <1>3, <1>4

\* The invariant of a job holds in both specifications.
LEMMA ProbeInvariant == (Use!Spec => []ProbeInv) /\ (MCSpec => []ProbeInv)
<1>1. Use!Spec => []ProbeInv
  BY InitProbeInv, NextProbeInv, PTL DEF Use!Spec
<1>2. MCSpec => []ProbeInv
  BY InitProbeInv, NextProbeInv, MCSpecIsTheirs, PTL
<1> QED
  BY <1>1, <1>2

\* Nothing is reported as HEALTHY, and no list counts as read, when a call has failed and no
\* output said otherwise (the Probe, Alert and open functions of the schemes).
THEOREM HealthyIsNeverClaimedFalsely ==
  /\ Use!Spec => []Use!HealthyIsTrue
  /\ MCSpec => []HealthyIsTrue
<1>1. ProbeInv => Use!HealthyIsTrue /\ HealthyIsTrue
  BY ProbeInvImplies DEF HealthyIsTrue
<1>2. (Use!Spec => []Use!HealthyIsTrue) /\ (MCSpec => []HealthyIsTrue)
  BY <1>1, ProbeInvariant, PTL
<1> QED
  BY <1>2

\* What is reported after the server began to stop is ABORTED, but for what failed in the
\* preparations (timeoutOr and pingResultToRecord).
THEOREM StopsAreReportedAsAborted ==
  /\ Use!Spec => []Use!StopIsNoIncident
  /\ MCSpec => []StopIsNoIncident
<1>1. ProbeInv => Use!StopIsNoIncident /\ StopIsNoIncident
  BY ProbeInvImplies DEF StopIsNoIncident
<1>2. (Use!Spec => []Use!StopIsNoIncident) /\ (MCSpec => []StopIsNoIncident)
  BY <1>1, ProbeInvariant, PTL
<1> QED
  BY <1>2

\* Whatever fails on the way and whenever the context ends, no connection stays open, but for
\* those of sftp (dialSSH, ftpConnectAndLogin, newSFTPFS and the deferred calls of their users).
THEOREM ConnectionsAreClosed ==
  /\ Use!Spec => []Use!AllClosed
  /\ MCSpec => []AllClosed
<1>1. ProbeInv => Use!AllClosed /\ AllClosed
  BY ProbeInvImplies DEF AllClosed
<1>2. (Use!Spec => []Use!AllClosed) /\ (MCSpec => []AllClosed)
  BY <1>1, ProbeInvariant, PTL
<1> QED
  BY <1>2

\* A run of a plugin is never silent, and when its command failed, was killed or could not
\* be started the last word is not HEALTHY, however many lines it printed and in whatever
\* order its goroutine and the caller went on (PluginScheme.execute).
THEOREM FailedPluginIsTold ==
  /\ Execution!Spec => []Execution!FailureIsTold
  /\ MCSpec => []FailureIsTold
<1>1. PluginInv => Execution!FailureIsTold /\ FailureIsTold
  BY DEF PluginInv, FailureIsTold
<1>2. Execution!Spec => []Execution!FailureIsTold
  BY <1>1, InitPluginInv, NextPluginInv, PTL DEF Execution!Spec
<1>3. MCSpec => []FailureIsTold
  BY <1>1, InitPluginInv, NextPluginInv, MCSpecIsTheirs, PTL
<1> QED
  BY <1>2, <1>3

================================================================================
