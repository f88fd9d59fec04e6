----------------------------- MODULE SharedPinger -----------------------------
(***************************************************************************)
(* The pinger that all ping: probes share (internal/scheme/ping.go): it is  *)
(* started for the first user and stopped after the last.  Get and Release  *)
(* are critical sections of the mutex of sharedResource; a probe reads the  *)
(* pinger out of the resource after Get has released the mutex.  Ping       *)
(* defers its Release before it calls Get.                                  *)
(***************************************************************************)
EXTENDS Naturals

CONSTANTS
  Users,     \* the goroutines that ping, or test whether they could
  MaxStarts  \* bound: the pingers are numbered up to this, and the numbers reused

VARIABLES
  count,   \* sharedResource.count
  pinger,  \* simplePinger.v4 and v6: the number of the start that made them, or None
  starts,  \* the number of the last pinger that was started
  at,      \* where each user is
  handle,  \* the pinger each user took out of the resource
  failed   \* history variable: a start has failed

None == 0
vars == <<count, pinger, starts, at, handle, failed>>
numbers == <<starts, failed>>

-----------------------------------------------------------------------------

\* simplePinger.Start, which opens the sockets of both pingers or stops at once.
Start ==
  /\ starts' = (starts % MaxStarts) + 1
  /\ pinger' = starts'
  /\ UNCHANGED failed

FailToStart ==
  /\ pinger' = None
  /\ failed' = TRUE
  /\ UNCHANGED starts

\* sharedResource.Get for a user that goes on at `success' or at `failure'.
Get(u, success, failure) ==
  /\ \/ count = 0 /\ Start /\ count' = 1 /\ at' = [at EXCEPT ![u] = success]
     \/ count = 0 /\ FailToStart /\ UNCHANGED count /\ at' = [at EXCEPT ![u] = failure]
     \/ count > 0 /\ count' = count + 1 /\ at' = [at EXCEPT ![u] = success]
                  /\ UNCHANGED <<pinger, numbers>>
  /\ UNCHANGED handle

ReleaseStopping(u) ==
  /\ at' = [at EXCEPT ![u] = "idle"]
  /\ handle' = [handle EXCEPT ![u] = None]
  /\ count' = IF count > 0 THEN count - 1 ELSE count
  /\ pinger' = None
  /\ UNCHANGED numbers

\* sharedResource.Release, which does nothing when nothing is in use.
Release(u) ==
  /\ at' = [at EXCEPT ![u] = "idle"]
  /\ handle' = [handle EXCEPT ![u] = None]
  /\ count' = IF count > 0 THEN count - 1 ELSE count
  /\ pinger' = IF count = 1 THEN None ELSE pinger
  /\ UNCHANGED numbers

\* autoPingerStruct.Test, when a ping: probe is made.
StartTest(u) == at[u] = "idle" /\ Get(u, "tested", "idle")
EndTest(u) == at[u] = "tested" /\ Release(u)

\* autoPingerStruct.Ping.
StartPing(u) == at[u] = "idle" /\ Get(u, "got", "failed")

\* getFor, after Get.
TakePinger(u) ==
  /\ at[u] = "got"
  /\ handle' = [handle EXCEPT ![u] = pinger]
  /\ at' = [at EXCEPT ![u] = "pinging"]
  /\ UNCHANGED <<count, pinger, numbers>>

EndPing(u) == at[u] = "pinging" /\ Release(u)
EndFailedPing(u) == at[u] = "failed" /\ Release(u)

Init ==
  /\ count = 0
  /\ pinger = None
  /\ starts = 0
  /\ at = [u \in Users |-> "idle"]
  /\ handle = [u \in Users |-> None]
  /\ failed = FALSE

Next ==
  \E u \in Users :
    \/ StartTest(u) \/ EndTest(u)
    \/ StartPing(u) \/ TakePinger(u) \/ EndPing(u) \/ EndFailedPing(u)

Spec == Init /\ [][Next]_vars

-----------------------------------------------------------------------------

Holders == {u \in Users : at[u] \in {"tested", "got", "pinging"}}

\* When nobody pings the sockets are closed, whatever failed before, and, as long as no
\* start has failed, whoever pings has the running pinger: it is not stopped, nor
\* replaced, under a user that has not released it (autoPingerStruct.Ping with
\* sharedResource).  After a failed start, the Release of a ping that got nothing may
\* stop the pinger of another.
RunsWhileUsed ==
  /\ (\A u \in Users : at[u] = "idle") => pinger = None /\ count = 0
  /\ ~failed =>
       /\ Holders # {} => pinger # None
       /\ \A u \in Users : at[u] = "pinging" => handle[u] = pinger
===============================================================================
