------------------------------ MODULE HelmClient ------------------------------
(***************************************************************************)
(* The Helm layer of the operator: helm.Client (internal/helm/installer.go) *)
(* driving the release "gpu-operator" through the Helm v3 SDK.              *)
(*                                                                         *)
(* The release store is a function from revision numbers to revisions; the *)
(* SDK keeps one Secret per revision.  action.List, as the client uses it, *)
(* looks at the latest revision only, so everything the client decides it  *)
(* decides from that one status.  Every write the SDK makes to the store   *)
(* and every object it applies or deletes is a step of its own: the        *)
(* operator can crash, or an API call can fail, between any two of them.   *)
(*                                                                         *)
(* Simplifications: the chart version and the values map of a desired      *)
(* state are one member of Values (valuesEqual compares them canonically); *)
(* a non-latest revision that is not "deployed" keeps its old status, as   *)
(* nothing reads it; writes to the release store itself do not fail other  *)
(* than by a crash; no one but the operator edits the chart's objects.     *)
(***************************************************************************)
EXTENDS Integers, FiniteSets

CONSTANTS
  Values,      \* the desired states a Gpu spec can ask for
  Objects,     \* the Kubernetes objects the chart renders
  Absent,      \* "no release wanted": the Gpu CR is being deleted
  MaxHistory,  \* maxReleaseHistory of installer.go
  MaxEdits,    \* bound: how often the desired state changes
  MaxFaults    \* bound: how many crashes and failing API calls happen

ASSUME ValuesAssumption == Absent \notin Values
ASSUME ObjectsAssumption == Objects # {}
ASSUME HistoryAssumption == MaxHistory \in Nat /\ MaxHistory >= 3
ASSUME BoundsAssumption == MaxEdits \in Nat /\ MaxFaults \in Nat

VARIABLES
  desired,   \* what the reconciler currently wants: a member of Values, or Absent
  edits,     \* changes of desired so far
  faults,    \* crashes and failures so far
  history,   \* the release store: revision number -> [status, config]
  objects,   \* the chart's objects in the cluster: the config applied last, or Absent
  pc,        \* where the running client call is
  want,      \* argument of that call: the values to install, or Absent for Uninstall
  result     \* what the last call returned

vars == <<desired, edits, faults, history, objects, pc, want, result>>

Status == {"deployed", "failed", "superseded", "pending-install", "pending-upgrade",
           "pending-rollback", "uninstalling"}

PC == {"idle", "recover", "current", "apply", "supersede", "record",
       "uninstall", "delete", "purge"}

Result == {"none", "changed", "unchanged", "error", "uninstalled", "absent"}

-----------------------------------------------------------------------------
(* The release store, as action.List and storage.Last present it.          *)

Latest(r) == r \in DOMAIN history /\ \A s \in DOMAIN history : s <= r

LatestIn(S) == \E r \in DOMAIN history : Latest(r) /\ history[r].status \in S

\* The revision storage.Deployed returns: the newest deployed one, if any.
LastDeployed ==
  {d \in DOMAIN history :
     /\ history[d].status = "deployed"
     /\ \A e \in DOMAIN history : history[e].status = "deployed" => e <= d}

\* What may be left of the history while it is trimmed: the oldest revisions go
\* first, the deployed one never.
Trimmed(keep) ==
  /\ keep \subseteq DOMAIN history
  /\ LastDeployed \subseteq keep
  /\ \A x \in (DOMAIN history) \ keep, y \in keep \ LastDeployed : x < y

\* Wrong variant: no MaxHistory, nothing is ever trimmed.
RetainedAll(keep) == keep = DOMAIN history

\* Wrong variant: room is made for two revisions instead of one.
RetainedOneLess(keep) ==
  /\ Trimmed(keep)
  /\ Cardinality(keep) = IF Cardinality(DOMAIN history) < MaxHistory
                         THEN Cardinality(DOMAIN history) ELSE MaxHistory - 2

\* What storage.Create leaves of the history when it makes room for one more
\* revision.
Retained(keep) ==
  /\ Trimmed(keep)
  /\ Cardinality(keep) = IF Cardinality(DOMAIN history) < MaxHistory
                         THEN Cardinality(DOMAIN history) ELSE MaxHistory - 1

\* The history that keeps the revisions in keep and stores a new one.
Stored(keep, r, s, c) ==
  [x \in keep \union {r} |-> IF x = r THEN [status |-> s, config |-> c] ELSE history[x]]

Return(res) == pc' = "idle" /\ result' = res

-----------------------------------------------------------------------------
(* InstallOrUpgrade.                                                        *)

\* The reconciler calls InstallOrUpgrade with the values of the current spec.
InstallOrUpgrade ==
  /\ pc = "idle" /\ desired # Absent
  /\ pc' = "recover" /\ want' = desired /\ result' = "none"
  /\ UNCHANGED <<desired, edits, faults, history, objects>>

\* recoverPending finds nothing to recover.
RecoverNothing ==
  /\ pc = "recover"
  /\ ~LatestIn({"pending-install", "pending-upgrade"})
  /\ pc' = "current"
  /\ UNCHANGED <<desired, edits, faults, history, objects, want, result>>

\* recoverPending rolls a pending upgrade back to the revision before it, which
\* is still there (RollbackTargetKept).  The rollback has no MaxHistory: it adds
\* a revision and drops none.
RollbackPending ==
  /\ pc = "recover"
  /\ \E r \in DOMAIN history :
       /\ Latest(r) /\ history[r].status = "pending-upgrade" /\ r - 1 \in DOMAIN history
       /\ history' = Stored(DOMAIN history, r + 1, "pending-rollback", history[r - 1].config)
  /\ pc' = "apply"
  /\ UNCHANGED <<desired, edits, faults, objects, want, result>>

\* action.Uninstall marks the latest revision before it deletes anything.
BeginUninstall(r) ==
  /\ history' = [history EXCEPT ![r].status = "uninstalling"]
  /\ pc' = "delete"

\* recoverPending removes a release that was never completely installed.
RemovePendingInstall ==
  /\ pc = "recover"
  /\ \E r \in DOMAIN history :
       Latest(r) /\ history[r].status = "pending-install" /\ BeginUninstall(r)
  /\ UNCHANGED <<desired, edits, faults, objects, want, result>>

\* Wrong variant: the first revision is number 0.
InstallReleaseZero ==
  /\ pc = "current" /\ DOMAIN history = {}
  /\ history' = Stored({}, 0, "pending-install", want)
  /\ pc' = "apply"
  /\ UNCHANGED <<desired, edits, faults, objects, want, result>>

\* currentRelease is nil: install.  Helm refuses a name that has any revision.
InstallRelease ==
  /\ pc = "current" /\ ~LatestIn({"deployed", "failed"})
  /\ \/ /\ DOMAIN history = {}
        /\ history' = Stored({}, 1, "pending-install", want)
        /\ pc' = "apply" /\ UNCHANGED result
     \/ /\ DOMAIN history # {}
        /\ Return("error") /\ UNCHANGED history
  /\ UNCHANGED <<desired, edits, faults, objects, want>>

\* Wrong variants: values that never compare equal, a comparison that forgets
\* the values, and one that forgets the status.
UpToDateNever(rel) == FALSE
UpToDateByStatus(rel) == rel.status = "deployed"
UpToDateByValues(rel) == rel.config = want

\* releaseUpToDate: a deployed release with the wanted chart version and values.
UpToDate(rel) == rel.status = "deployed" /\ rel.config = want

SkipUpgrade ==
  /\ pc = "current"
  /\ \E r \in DOMAIN history : Latest(r) /\ UpToDate(history[r])
  /\ Return("unchanged")
  /\ UNCHANGED <<desired, edits, faults, history, objects, want>>

\* A release that InstallOrUpgrade upgrades.
Outdated(r) ==
  Latest(r) /\ history[r].status \in {"deployed", "failed"} /\ ~UpToDate(history[r])

\* upgrade: trim the history to MaxHistory - 1, then store the new revision.  What
\* is deleted is seen by a crash only, which is CrashInTrim.
UpgradeRelease ==
  /\ pc = "current"
  /\ \E r \in DOMAIN history :
       /\ Outdated(r)
       /\ \E keep \in SUBSET DOMAIN history :
            /\ Retained(keep)
            /\ history' = Stored(keep, r + 1, "pending-upgrade", want)
  /\ pc' = "apply"
  /\ UNCHANGED <<desired, edits, faults, objects, want, result>>

-----------------------------------------------------------------------------
(* The SDK at work on the latest revision.                                  *)

ApplyObject(o) ==
  /\ pc = "apply"
  /\ \E r \in DOMAIN history :
       /\ Latest(r) /\ objects[o] # history[r].config
       /\ objects' = [objects EXCEPT ![o] = history[r].config]
  /\ UNCHANGED <<desired, edits, faults, history, pc, want, result>>

\* Wrong variant: the revision is finished when some object is applied.
ApplyDoneEarly ==
  /\ pc = "apply"
  /\ \E r \in DOMAIN history : Latest(r) /\ \E o \in Objects : objects[o] = history[r].config
  /\ pc' = "supersede"
  /\ UNCHANGED <<desired, edits, faults, history, objects, want, result>>

ApplyDone ==
  /\ pc = "apply"
  /\ \E r \in DOMAIN history : Latest(r) /\ \A o \in Objects : objects[o] = history[r].config
  /\ pc' = "supersede"
  /\ UNCHANGED <<desired, edits, faults, history, objects, want, result>>

\* Wrong variant: the previous revision is left deployed.
SupersedeNothing ==
  /\ pc = "supersede" /\ pc' = "record"
  /\ UNCHANGED <<desired, edits, faults, history, objects, want, result>>

Supersede ==
  /\ pc = "supersede"
  /\ history' = [x \in DOMAIN history |->
                   IF history[x].status = "deployed"
                   THEN [history[x] EXCEPT !.status = "superseded"] ELSE history[x]]
  /\ pc' = "record"
  /\ UNCHANGED <<desired, edits, faults, objects, want, result>>

\* The latest revision is recorded as deployed.  After a rollback the client
\* goes on to currentRelease; an install or upgrade is what it was called for.
RecordDeployed ==
  /\ pc = "record"
  /\ \E r \in DOMAIN history :
       /\ Latest(r)
       /\ history' = [history EXCEPT ![r].status = "deployed"]
       /\ \/ history[r].status = "pending-rollback" /\ pc' = "current" /\ UNCHANGED result
          \/ history[r].status # "pending-rollback" /\ Return("changed")
  /\ UNCHANGED <<desired, edits, faults, objects, want>>

DeleteObject(o) ==
  /\ pc = "delete" /\ objects[o] # Absent
  /\ objects' = [objects EXCEPT ![o] = Absent]
  /\ UNCHANGED <<desired, edits, faults, history, pc, want, result>>

DeleteDone ==
  /\ pc = "delete" /\ \A o \in Objects : objects[o] = Absent
  /\ pc' = "purge"
  /\ UNCHANGED <<desired, edits, faults, history, objects, want, result>>

\* purgeReleases deletes the revisions oldest first.  An uninstall that
\* recoverPending made is followed by a fresh install.
Purge ==
  /\ pc = "purge"
  /\ \E r \in DOMAIN history :
       /\ \A s \in DOMAIN history : r <= s
       /\ history' = [x \in (DOMAIN history) \ {r} |-> history[x]]
       /\ \/ DOMAIN history # {r} /\ UNCHANGED <<pc, result>>
          \/ DOMAIN history = {r} /\ want # Absent /\ pc' = "current" /\ UNCHANGED result
          \/ DOMAIN history = {r} /\ want = Absent /\ Return("uninstalled")
  /\ UNCHANGED <<desired, edits, faults, objects, want>>

-----------------------------------------------------------------------------
(* Uninstall.                                                               *)

Uninstall ==
  /\ pc = "idle" /\ desired = Absent
  /\ pc' = "uninstall" /\ want' = Absent /\ result' = "none"
  /\ UNCHANGED <<desired, edits, faults, history, objects>>

\* Wrong variant: a failed release is not seen either.
UninstallAbsentFailed ==
  /\ pc = "uninstall" /\ ~LatestIn({"deployed"})
  /\ Return("absent")
  /\ UNCHANGED <<desired, edits, faults, history, objects, want>>

\* currentRelease is nil: nothing to do, return nil.
UninstallAbsent ==
  /\ pc = "uninstall" /\ ~LatestIn({"deployed", "failed"})
  /\ Return("absent")
  /\ UNCHANGED <<desired, edits, faults, history, objects, want>>

UninstallRelease ==
  /\ pc = "uninstall"
  /\ \E r \in DOMAIN history :
       Latest(r) /\ history[r].status \in {"deployed", "failed"} /\ BeginUninstall(r)
  /\ UNCHANGED <<desired, edits, faults, objects, want, result>>

-----------------------------------------------------------------------------
(* The environment: the user's edits, failing API calls and crashes.        *)

Edit(d) ==
  /\ edits < MaxEdits /\ desired # Absent /\ d # desired
  /\ desired' = d /\ edits' = edits + 1
  /\ UNCHANGED <<faults, history, objects, pc, want, result>>

Fault == faults < MaxFaults /\ faults' = faults + 1

\* An object cannot be applied: the revision is recorded as failed.
ApplyFails ==
  /\ pc = "apply" /\ Fault
  /\ \E r \in DOMAIN history :
       Latest(r) /\ history' = [history EXCEPT ![r].status = "failed"]
  /\ Return("error")
  /\ UNCHANGED <<desired, edits, objects, want>>

\* Some objects cannot be deleted: Helm gives up, the revision stays uninstalling.
DeleteFails ==
  /\ pc = "delete" /\ Fault
  /\ \E o \in Objects : objects[o] # Absent
  /\ Return("error")
  /\ UNCHANGED <<desired, edits, history, objects, want>>

\* The release store cannot be listed.
ListFails ==
  /\ pc \in {"recover", "current", "uninstall"} /\ Fault
  /\ Return("error")
  /\ UNCHANGED <<desired, edits, history, objects, want>>

\* The operator process dies; what it had written stays.
Crash ==
  /\ pc # "idle" /\ Fault
  /\ Return("none")
  /\ UNCHANGED <<desired, edits, history, objects, want>>

\* It dies while the revisions that upgrade has no room for are being deleted.
CrashInTrim ==
  /\ pc = "current" /\ Fault
  /\ \E r \in DOMAIN history : Outdated(r)
  /\ \E keep \in (SUBSET DOMAIN history) \ {DOMAIN history} :
       /\ Trimmed(keep) /\ Cardinality(keep) >= MaxHistory - 1
       /\ history' = [x \in keep |-> history[x]]
  /\ Return("none")
  /\ UNCHANGED <<desired, edits, objects, want>>

-----------------------------------------------------------------------------
Init ==
  /\ desired \in Values /\ edits = 0 /\ faults = 0
  /\ history = [x \in {} |-> 0]
  /\ objects = [o \in Objects |-> Absent]
  /\ pc = "idle" /\ want = Absent /\ result = "none"

Step ==
  \/ InstallOrUpgrade \/ RecoverNothing \/ RollbackPending \/ RemovePendingInstall
  \/ InstallRelease \/ SkipUpgrade \/ UpgradeRelease
  \/ \E o \in Objects : ApplyObject(o) \/ DeleteObject(o)
  \/ ApplyDone \/ Supersede \/ RecordDeployed \/ DeleteDone \/ Purge
  \/ Uninstall \/ UninstallAbsent \/ UninstallRelease

Env ==
  \/ \E d \in Values \union {Absent} : Edit(d)
  \/ ApplyFails \/ DeleteFails \/ ListFails \/ Crash \/ CrashInTrim

Next == Step \/ Env

Spec == Init /\ [][Next]_vars

\* The process is restarted after a crash and the workqueue retries a failed
\* call, so the client keeps being called and a call in progress goes on.
FairSpec == Spec /\ WF_vars(Step)

-----------------------------------------------------------------------------
(* Properties.                                                              *)

Configs == Values \union {Absent}

\* Every variable keeps its type; in particular revisions are positive numbers
\* and every stored config is one that was once asked for.
TypeOK ==
  /\ desired \in Configs /\ want \in Configs
  /\ edits \in 0..MaxEdits /\ faults \in 0..MaxFaults
  /\ DOMAIN history \subseteq Nat \ {0} /\ IsFiniteSet(DOMAIN history)
  /\ history \in [DOMAIN history -> [status : Status, config : Values]]
  /\ objects \in [Objects -> Configs]
  /\ pc \in PC /\ result \in Result

\* No crash or failure, at any point of an install, upgrade or rollback, leaves
\* two revisions deployed: a later rollback or trim has one revision to spare.
AtMostOneDeployed ==
  \A x, y \in DOMAIN history :
    history[x].status = "deployed" /\ history[y].status = "deployed" => x = y

\* upgrade trims to MaxHistory; the rollback of recoverPending trims nothing, so
\* the store holds at most one revision more, however often upgrades crash.
HistoryBounded == Cardinality(DOMAIN history) <= MaxHistory + 1

\* The revision that recoverPending rolls a pending upgrade back to is never
\* trimmed by the upgrade that made it pending, failed revisions included.
RollbackTargetKept ==
  \A r \in DOMAIN history :
    Latest(r) /\ history[r].status = "pending-upgrade" => r - 1 \in DOMAIN history

\* A release whose latest revision is deployed is really in the cluster: every
\* object is the one this revision renders, also after crashes and rollbacks.
\* releaseUpToDate skips the upgrade on the strength of this.
DeployedMeansApplied ==
  \A r \in DOMAIN history :
    Latest(r) /\ history[r].status = "deployed" => \A o \in Objects : objects[o] = history[r].config

\* The 30 s requeue alone writes no revisions: one for the install, one per edit
\* and at most two per fault, the rollback and the upgrade after it
\* (InstallOrUpgrade's doc comment, installer.go 47-50).
RevisionsEarned ==
  \A r \in DOMAIN history : r <= 1 + edits + 2 * faults

\* If the spec stops changing and is not deleted, its values end up applied to
\* every object, and stay so, unless a crash or failure in the middle of a rollback
\* or an uninstall has left a release that recoverPending does not recover.
ConvergesUnlessStuck ==
  <>[](desired \in Values => \/ \A o \in Objects : objects[o] = desired
                             \/ LatestIn({"pending-rollback", "uninstalling"}))

Gone == DOMAIN history = {} /\ \A o \in Objects : objects[o] = Absent

\* If the CR is deleted, the release and all its objects disappear for good,
\* unless an earlier crash or failure left the release in a status that
\* currentRelease does not see: a deployed or failed release never survives.
RemovedUnlessMasked ==
  <>[](desired = Absent => Gone \/ LatestIn(Status \ {"deployed", "failed", "superseded"}))

\* installer.go 183-185: recoverPending recovers a release that a crash left in
\* the middle of an operation, so later installs and upgrades do not fail.
RecoverableAfterCrash ==
  pc = "idle" /\ desired # Absent => ~LatestIn({"pending-rollback", "uninstalling"})

-----------------------------------------------------------------------------
(* The client keeps the contract the reconciler relies on.                  *)

LatestRelease ==
  IF DOMAIN history = {} THEN [status |-> "none", config |-> Absent]
  ELSE history[CHOOSE r \in DOMAIN history : Latest(r)]

Phase == CASE pc = "idle" -> "idle"
           [] pc \in {"recover", "current", "uninstall"} -> "called"
           [] OTHER -> "acting"

Contract == INSTANCE Installer WITH release <- LatestRelease, phase <- Phase

\* HelmClient implements Installer: the latest revision moves only as a call
\* allows, and whatever the call returns is true of it at that moment.
ContractSpec == Contract!Spec

=============================================================================
