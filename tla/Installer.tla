------------------------------- MODULE Installer -------------------------------
(***************************************************************************)
(* What the reconciler relies on when it calls helm.Installer              *)
(* (internal/helm/interface.go): how the latest revision of the release    *)
(* may move while a call is running, and what each way of returning says   *)
(* about it.  HelmClient implements this; GpuController is built on it.    *)
(***************************************************************************)
CONSTANTS
  Values,   \* what a release can be installed with
  Absent    \* the argument of Uninstall, and the config of no release

VARIABLES
  release,  \* the latest revision: [status, config]
  phase,    \* "idle"; "called": a call is deciding; "acting": it works on release
  want,     \* the argument of the running or last call
  result    \* what the last call returned

vars == <<release, phase, want, result>>

Rel(s, c) == [status |-> s, config |-> c]

NoRelease == Rel("none", Absent)

InStatus(S) == release.status \in S

Pending == {"pending-install", "pending-upgrade", "pending-rollback"}

Releases == [status : Pending \union {"deployed", "failed", "uninstalling"}, config : Values]
              \union {NoRelease}

Results == {"none", "changed", "unchanged", "uninstalled", "absent", "error"}

Return(res) == phase' = "idle" /\ result' = res /\ UNCHANGED want

\* The call goes on, in the given phase.
Continue(p) == phase' = p /\ UNCHANGED <<want, result>>

\* InstallOrUpgrade(w), or Uninstall when w is Absent.
Start(w) ==
  /\ phase = "idle"
  /\ phase' = "called" /\ want' = w /\ result' = "none"
  /\ UNCHANGED release

\* A call that is to install something first clears what a crash left behind.
Recover ==
  /\ phase = "called" /\ want # Absent
  /\ \/ InStatus({"pending-upgrade"}) /\ \E c \in Values : release' = Rel("pending-rollback", c)
     \/ InStatus({"pending-install"}) /\ release' = Rel("uninstalling", release.config)
  /\ Continue("acting")

\* Then it installs, or upgrades a complete or failed release that is not as wanted.
Advance ==
  /\ phase = "called" /\ want # Absent
  /\ \/ release = NoRelease /\ release' = Rel("pending-install", want)
     \/ /\ InStatus({"deployed", "failed"}) /\ release # Rel("deployed", want)
        /\ release' = Rel("pending-upgrade", want)
  /\ Continue("acting")

Unchanged ==
  /\ phase = "called" /\ want # Absent /\ release = Rel("deployed", want)
  /\ Return("unchanged") /\ UNCHANGED release

\* The revision the call works on is complete.  A rollback is not the end of it.
Finish ==
  /\ phase = "acting" /\ InStatus(Pending)
  /\ release' = Rel("deployed", release.config)
  /\ \/ InStatus({"pending-rollback"}) /\ Continue("called")
     \/ ~InStatus({"pending-rollback"}) /\ Return("changed")

FinishFailed ==
  /\ phase = "acting" /\ InStatus(Pending)
  /\ release' = Rel("failed", release.config)
  /\ Return("error")

Remove ==
  /\ phase = "called" /\ want = Absent /\ InStatus({"deployed", "failed"})
  /\ release' = Rel("uninstalling", release.config)
  /\ Continue("acting")

Purged ==
  /\ phase = "acting" /\ InStatus({"uninstalling"})
  /\ release' = NoRelease
  /\ \/ want = Absent /\ Return("uninstalled")
     \/ want # Absent /\ Continue("called")

\* Uninstall sees no release: none is there, or none that is complete or failed.
NothingToRemove ==
  /\ phase = "called" /\ want = Absent /\ ~InStatus({"deployed", "failed"})
  /\ Return("absent") /\ UNCHANGED release

\* An error, or the death of the process: the release stays as it is.
GiveUp ==
  /\ phase # "idle" /\ UNCHANGED release
  /\ \E res \in {"error", "none"} : Return(res)

Init == release = NoRelease /\ phase = "idle" /\ want = Absent /\ result = "none"

Work == Recover \/ Advance \/ Unchanged \/ Finish \/ Remove \/ Purged \/ NothingToRemove

Next == (\E w \in Values \union {Absent} : Start(w)) \/ Work \/ FinishFailed \/ GiveUp

Spec == Init /\ [][Next]_vars

=============================================================================
