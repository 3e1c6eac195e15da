-------------------------------- MODULE Manager --------------------------------
(***************************************************************************)
(* The operator processes (cmd/main.go), and the leader election that the  *)
(* shipped Deployment turns on (--leader-elect, config/manager/manager.yaml)*)
(* so that one of them at a time reconciles.                               *)
(*                                                                         *)
(* An update of the Deployment starts a pod with the new image before it   *)
(* stops the old one, and an evicted pod is replaced while it is still     *)
(* stopping, so processes of one or two images overlap.  The leader renews *)
(* the lease; a candidate takes it over when it has seen the same record   *)
(* for the whole lease duration of its own clock.  Time is counted from    *)
(* these two events only.  The lease is not released on exit.              *)
(*                                                                         *)
(* Of a reconcile, the model has the call that installs or upgrades: it    *)
(* replaces the installed chart by the one in the process's image if the   *)
(* versions differ.  A process that dies in the middle of the call leaves  *)
(* the release as it was; what it leaves behind otherwise is in HelmClient.*)
(***************************************************************************)
EXTENDS Chart, FiniteSets

CONSTANTS
  Procs,          \* operator processes, each started once
  Images,         \* operator images
  Embedded,       \* the files in the chart directory of an image
  InitImage,      \* the image that the Deployment begins with
  None,           \* no holder, no release
  RenewDeadline,  \* how long a leader goes on without renewing the lease, retries included
  LeaseDuration,  \* how long a candidate waits for a renewal
  MaxRollouts,    \* bound: changes of the image
  MaxFaults       \* bound: crashes, evictions and lost leases

ASSUME LeaseAssumption ==
  /\ RenewDeadline \in Nat /\ LeaseDuration \in Nat /\ RenewDeadline < LeaseDuration
  /\ None \notin Procs

\* The directory is compiled in: it has finitely many files.
ASSUME ImageAssumption ==
  /\ InitImage \in Images
  /\ Embedded \in [Images -> SUBSET File] /\ \A i \in Images : IsFiniteSet(Embedded[i])

VARIABLES
  status,    \* of every process
  image,     \* of every process
  holder,    \* of the lease
  since,     \* for a leader: the time since it renewed the lease
  seen,      \* candidates that know the lease as it is,
  waited,    \* and for how long they have
  calling,   \* processes in a Helm call
  installed, \* the version of the installed chart
  wanted,    \* the image in the Deployment
  rollouts, faults

election == <<holder, since, seen, waited>>
vars == <<status, image, election, calling, installed, wanted, rollouts, faults>>

Active == {p \in Procs : status[p] \in {"leader", "stopping"}}

Serving == {p \in Procs : status[p] \in {"candidate", "leader"} /\ image[p] = wanted}

ChartOf(p) == GPUOperatorChartVersion(Embedded[image[p]])

Fault == faults < MaxFaults /\ faults' = faults + 1

-----------------------------------------------------------------------------
(* The election.                                                            *)

\* The record in the lease changes: no candidate knows it as it is now.
Record(p) ==
  /\ holder' = p /\ since' = [since EXCEPT ![p] = 0]
  /\ seen' = {} /\ UNCHANGED waited

Observe(p) ==
  /\ status[p] = "candidate" /\ holder # None /\ p \notin seen
  /\ seen' = seen \union {p} /\ waited' = [waited EXCEPT ![p] = 0]
  /\ UNCHANGED <<status, image, holder, since, calling, installed, wanted, rollouts, faults>>

Acquire(p) ==
  /\ status[p] = "candidate"
  /\ holder = None \/ (p \in seen /\ waited[p] >= LeaseDuration)
  /\ status' = [status EXCEPT ![p] = "leader"] /\ Record(p)
  /\ UNCHANGED <<image, calling, installed, wanted, rollouts, faults>>

\* The lease is renewed until all work has stopped.
Renew(p) ==
  /\ p \in Active /\ holder = p /\ since[p] > 0
  /\ Record(p)
  /\ UNCHANGED <<status, image, calling, installed, wanted, rollouts, faults>>

\* Wrong variant: a leader goes on although it fails to renew the lease.
TickOn ==
  /\ since' = [p \in Procs |-> IF p \in Active THEN since[p] + 1 ELSE since[p]]
  /\ waited' = [p \in Procs |-> IF p \in seen /\ waited[p] < LeaseDuration
                                THEN waited[p] + 1 ELSE waited[p]]
  /\ UNCHANGED <<status, image, holder, seen, calling, installed, wanted, rollouts, faults>>

\* Time passes; no leader is left when it has failed to renew for too long.
Tick ==
  /\ \A p \in Active : since[p] < RenewDeadline
  /\ since' = [p \in Procs |-> IF p \in Active THEN since[p] + 1 ELSE since[p]]
  /\ waited' = [p \in Procs |-> IF p \in seen /\ waited[p] < LeaseDuration
                                THEN waited[p] + 1 ELSE waited[p]]
  /\ UNCHANGED <<status, image, holder, seen, calling, installed, wanted, rollouts, faults>>

-----------------------------------------------------------------------------
(* The life of a process.                                                   *)

\* The Deployment wants one process, of its image; mgr.Start makes it a candidate.
Start(p) ==
  /\ status[p] = "down" /\ Serving = {}
  /\ status' = [status EXCEPT ![p] = "candidate"] /\ image' = [image EXCEPT ![p] = wanted]
  /\ UNCHANGED <<election, calling, installed, wanted, rollouts, faults>>

Ends(p) ==
  /\ status' = [status EXCEPT ![p] = "gone"] /\ calling' = calling \ {p} /\ seen' = seen \ {p}
  /\ UNCHANGED <<image, holder, since, waited, installed, wanted, rollouts>>

\* mgr.Start returns an error when the lease is lost, and main exits.
LoseLease(p) == p \in Active /\ since[p] = RenewDeadline /\ Fault /\ Ends(p)

Crash(p) == status[p] \in {"candidate", "leader", "stopping"} /\ Fault /\ Ends(p)

\* Wrong variant: the lease is given back before the work has stopped.
StopsReleasing(p) ==
  \/ /\ status[p] = "leader"
     /\ status' = [status EXCEPT ![p] = "stopping"] /\ holder' = None
     /\ UNCHANGED <<image, since, seen, waited, calling, installed, wanted, rollouts>>
  \/ status[p] = "candidate" /\ Ends(p)

\* SIGTERM: a leader waits for the running reconcile, a candidate has none.
Stops(p) ==
  \/ /\ status[p] = "leader"
     /\ status' = [status EXCEPT ![p] = "stopping"]
     /\ UNCHANGED <<image, election, calling, installed, wanted, rollouts>>
  \/ status[p] = "candidate" /\ Ends(p)

\* A process of the former image is stopped once one of the new image is up.
Replace(p) == image[p] # wanted /\ Serving # {} /\ Stops(p) /\ UNCHANGED faults

Evict(p) == Fault /\ Stops(p)

\* The process ends, or is killed after the grace period, in a Helm call or not.
Exit(p) == status[p] = "stopping" /\ Ends(p) /\ UNCHANGED faults

Rollout ==
  /\ rollouts < MaxRollouts /\ rollouts' = rollouts + 1
  /\ \E i \in Images \ {wanted} : wanted' = i
  /\ UNCHANGED <<status, image, election, calling, installed, faults>>

-----------------------------------------------------------------------------
(* The reconciler: an up-to-date release is left alone.                     *)

BeginCall(p) ==
  /\ status[p] = "leader" /\ p \notin calling
  /\ ChartOf(p) # NoChart /\ installed # ChartOf(p)
  /\ calling' = calling \union {p}
  /\ UNCHANGED <<status, image, election, installed, wanted, rollouts, faults>>

EndCall(p) ==
  /\ p \in calling
  /\ calling' = calling \ {p} /\ installed' = ChartOf(p)
  /\ UNCHANGED <<status, image, election, wanted, rollouts, faults>>

-----------------------------------------------------------------------------
Init ==
  /\ status = [p \in Procs |-> "down"] /\ image = [p \in Procs |-> InitImage]
  /\ holder = None /\ since = [p \in Procs |-> 0]
  /\ seen = {} /\ waited = [p \in Procs |-> 0]
  /\ calling = {} /\ installed = None
  /\ wanted = InitImage /\ rollouts = 0 /\ faults = 0

Election(p) == Observe(p) \/ Acquire(p) \/ Renew(p)
Life(p) == Start(p) \/ Replace(p) \/ Exit(p)
Failure(p) == LoseLease(p) \/ Crash(p) \/ Evict(p)
Call(p) == BeginCall(p) \/ EndCall(p)

Next ==
  \/ Tick \/ Rollout
  \/ \E p \in Procs : Election(p) \/ Life(p) \/ Failure(p) \/ Call(p)

Spec == Init /\ [][Next]_vars

\* Clocks run, processes do what they are there for, and the Deployment
\* controller replaces the pods; nothing has to fail.
Fairness ==
  /\ WF_vars(Tick)
  /\ \A p \in Procs : WF_vars(Observe(p)) /\ WF_vars(Acquire(p)) /\ WF_vars(Renew(p))
                      /\ WF_vars(Life(p)) /\ WF_vars(Call(p))

FairSpec == Spec /\ Fairness

-----------------------------------------------------------------------------
(* Properties.                                                              *)

TypeOK ==
  /\ status \in [Procs -> {"down", "candidate", "leader", "stopping", "gone"}]
  /\ image \in [Procs -> Images] /\ wanted \in Images
  /\ holder \in Procs \union {None}
  /\ since \in [Procs -> 0..RenewDeadline] /\ waited \in [Procs -> 0..LeaseDuration]
  /\ seen \subseteq Procs /\ calling \subseteq Procs
  /\ installed \in Version \union {None}

\* There is only one active controller manager (cmd/main.go 68-70), also while an
\* old one is finishing its last Helm call, and only it calls Helm: no two calls
\* run at once.
AtMostOneActive == (\A p, q \in Active : p = q) /\ calling \subseteq Active

\* In the end, the chart that is installed is the highest version in the image of
\* the Deployment, whatever died on the way.
NewChartInstalled ==
  <>[](Charts(Embedded[wanted]) # {} =>
         /\ \E f \in Charts(Embedded[wanted]) : f.version = installed
         /\ \A f \in Charts(Embedded[wanted]) : ~GreaterThan(f.version, installed))

=============================================================================
