--------------------------- MODULE HelmClientProofs ---------------------------
(***************************************************************************)
(* The safety invariants of HelmClient hold for all values of the          *)
(* constants, any number of values, objects, edits, failures and crashes,  *)
(* and it implements the contract of Installer.                            *)
(*                                                                         *)
(* Neither AtMostOneDeployed nor DeployedMeansApplied nor                  *)
(* RollbackTargetKept is inductive: what keeps them is where the running   *)
(* call is, which Work ties to the status of the latest revision.          *)
(***************************************************************************)
EXTENDS HelmClient, FiniteSetTheorems, WellFoundedInduction, TLAPS

Revision == [status : Status, config : Values]

\* What the running call installs is never Absent; Uninstall has no argument.
WantOK ==
  /\ pc \in {"recover", "current", "apply", "supersede", "record"} => want \in Values
  /\ pc = "uninstall" => want = Absent

\* The SDK works on the latest revision, which is marked for what it does.
WorkOK ==
  /\ pc \in {"apply", "supersede", "record"} =>
       LatestIn({"pending-install", "pending-upgrade", "pending-rollback"})
  /\ pc \in {"delete", "purge"} => LatestIn({"uninstalling"})

\* From "supersede" on all objects are applied, in "record" nothing is deployed.
ProgressOK ==
  /\ pc \in {"supersede", "record"} =>
       \A r \in DOMAIN history :
         Latest(r) => \A o \in Objects : objects[o] = history[r].config
  /\ pc = "record" => \A x \in DOMAIN history : history[x].status # "deployed"

\* A pending upgrade leaves room for the revision of its rollback.
RoomForRollback ==
  LatestIn({"pending-upgrade"}) => Cardinality(DOMAIN history) <= MaxHistory

IInv ==
  /\ TypeOK /\ WantOK /\ WorkOK /\ ProgressOK
  /\ AtMostOneDeployed /\ DeployedMeansApplied
  /\ RollbackTargetKept /\ RoomForRollback /\ HistoryBounded

USE ValuesAssumption, ObjectsAssumption, HistoryAssumption, BoundsAssumption

-----------------------------------------------------------------------------
(* The release store.                                                       *)

\* There is only one latest revision.
LEMMA LatestUnique ==
  ASSUME TypeOK, NEW r, NEW s, Latest(r), Latest(s)
  PROVE  r = s
BY DEF TypeOK, Latest

\* storage.Create: the new revision is the latest, the kept ones are unchanged.
LEMMA StoredFacts ==
  ASSUME TypeOK,
         NEW keep \in SUBSET DOMAIN history, NEW r \in Nat \ {0},
         NEW s \in Status, NEW c \in Values,
         \A x \in DOMAIN history : x < r,
         history' = Stored(keep, r, s, c)
  PROVE  /\ DOMAIN history' = keep \union {r}
         /\ history'[r] = [status |-> s, config |-> c]
         /\ \A x \in keep : history'[x] = history[x]
         /\ history' \in [DOMAIN history' -> Revision]
         /\ DOMAIN history' \subseteq Nat \ {0}
         /\ IsFiniteSet(DOMAIN history')
         /\ Cardinality(DOMAIN history') = Cardinality(keep) + 1
         /\ \A x : Latest(x)' <=> x = r
<1>1. /\ DOMAIN history' = keep \union {r}
      /\ history'[r] = [status |-> s, config |-> c]
      /\ \A x \in keep : history'[x] = history[x]
  BY DEF Stored
<1>2. history' \in [DOMAIN history' -> Revision]
  BY DEF Stored, TypeOK, Revision
<1>3. DOMAIN history' \subseteq Nat \ {0}
  BY <1>1 DEF TypeOK
<1>4. IsFiniteSet(keep) /\ r \notin keep
  BY FS_Subset DEF TypeOK
<1>5. /\ IsFiniteSet(DOMAIN history')
      /\ Cardinality(DOMAIN history') = Cardinality(keep) + 1
  BY <1>1, <1>4, FS_AddElement
<1>6. \A x : Latest(x)' <=> x = r
  BY <1>1, <1>3 DEF Latest, TypeOK
<1> QED
  BY <1>1, <1>2, <1>3, <1>5, <1>6

\* A change of one revision's status leaves the rest of the store alone.
LEMMA MarkedFacts ==
  ASSUME TypeOK, NEW r \in DOMAIN history, NEW s \in Status,
         history' = [history EXCEPT ![r].status = s]
  PROVE  /\ DOMAIN history' = DOMAIN history
         /\ history'[r] = [status |-> s, config |-> history[r].config]
         /\ \A x \in DOMAIN history \ {r} : history'[x] = history[x]
         /\ history' \in [DOMAIN history' -> Revision]
         /\ \A x : Latest(x)' <=> Latest(x)
<1>1. history \in [DOMAIN history -> Revision]
  BY DEF TypeOK, Revision
<1>2. /\ DOMAIN history' = DOMAIN history
      /\ history'[r] = [status |-> s, config |-> history[r].config]
      /\ \A x \in DOMAIN history \ {r} : history'[x] = history[x]
  BY <1>1 DEF Revision
<1>3. history' \in [DOMAIN history' -> Revision]
  BY <1>1, <1>2 DEF Revision
<1> QED
  BY <1>2, <1>3 DEF Latest

-----------------------------------------------------------------------------
(* What the kinds of steps do to the invariant.                             *)

\* Steps that only decide, return or fail leave store and objects alone.
LEMMA QuietStep ==
  ASSUME IInv, UNCHANGED <<history, objects>>,
         desired' \in Configs, want' \in Configs, result' \in Result,
         edits' \in 0..MaxEdits, faults' \in 0..MaxFaults,
         pc' \in {"idle", "recover", "current", "uninstall"},
         pc' \in {"recover", "current"} => want' \in Values,
         pc' = "uninstall" => want' = Absent
  PROVE  IInv'
<1>1. TypeOK'
  BY DEF IInv, TypeOK, PC
<1>2. WantOK' /\ WorkOK' /\ ProgressOK'
  BY DEF WantOK, WorkOK, ProgressOK
<1>3. AtMostOneDeployed' /\ DeployedMeansApplied' /\ RollbackTargetKept'
  BY DEF IInv, AtMostOneDeployed, DeployedMeansApplied, RollbackTargetKept, Latest
<1>4. RoomForRollback' /\ HistoryBounded'
  BY DEF IInv, RoomForRollback, HistoryBounded, LatestIn, Latest
<1> QED
  BY <1>1, <1>2, <1>3, <1>4 DEF IInv

\* Steps that store a new, pending revision.
LEMMA StoringStep ==
  ASSUME IInv,
         NEW keep \in SUBSET DOMAIN history, NEW r \in Nat \ {0}, NEW c \in Values,
         NEW s \in {"pending-install", "pending-upgrade", "pending-rollback"},
         \A x \in DOMAIN history : x < r,
         history' = Stored(keep, r, s, c),
         Cardinality(keep) <= MaxHistory,
         s = "pending-upgrade" => r - 1 \in keep /\ Cardinality(keep) < MaxHistory,
         pc' = "apply", want \in Values,
         UNCHANGED <<desired, edits, faults, objects, want, result>>
  PROVE  IInv'
<1>0. TypeOK /\ s \in Status
  BY DEF IInv, Status
<1>1. /\ DOMAIN history' = keep \union {r}
      /\ history'[r] = [status |-> s, config |-> c]
      /\ \A x \in keep : history'[x] = history[x]
      /\ history' \in [DOMAIN history' -> Revision]
      /\ DOMAIN history' \subseteq Nat \ {0}
      /\ IsFiniteSet(DOMAIN history')
      /\ Cardinality(DOMAIN history') = Cardinality(keep) + 1
      /\ \A x : Latest(x)' <=> x = r
  BY <1>0, StoredFacts
<1>2. TypeOK'
  BY <1>0, <1>1 DEF TypeOK, PC, Revision
<1>3. WantOK' /\ WorkOK' /\ ProgressOK'
  BY <1>1 DEF WantOK, WorkOK, ProgressOK, LatestIn
<1>4. AtMostOneDeployed'
  BY <1>1 DEF IInv, AtMostOneDeployed
<1>5. DeployedMeansApplied' /\ RollbackTargetKept'
  BY <1>1 DEF DeployedMeansApplied, RollbackTargetKept
<1>6. IsFiniteSet(keep) /\ Cardinality(keep) \in Nat
  BY <1>0, FS_Subset, FS_CardinalityType DEF TypeOK
<1>7. RoomForRollback' /\ HistoryBounded'
  BY <1>1, <1>6 DEF RoomForRollback, HistoryBounded, LatestIn
<1> QED
  BY <1>2, <1>3, <1>4, <1>5, <1>7 DEF IInv

\* Steps that mark the latest revision as failed or uninstalling.
LEMMA MarkingStep ==
  ASSUME IInv, NEW r \in DOMAIN history, Latest(r),
         NEW s \in {"failed", "uninstalling"},
         history' = [history EXCEPT ![r].status = s],
         \/ pc' = "idle"
         \/ pc' = "delete" /\ s = "uninstalling",
         result' \in Result, faults' \in 0..MaxFaults,
         UNCHANGED <<desired, edits, objects, want>>
  PROVE  IInv'
<1>0. TypeOK /\ s \in Status
  BY DEF IInv, Status
<1>1. /\ DOMAIN history' = DOMAIN history
      /\ history'[r] = [status |-> s, config |-> history[r].config]
      /\ \A x \in DOMAIN history \ {r} : history'[x] = history[x]
      /\ history' \in [DOMAIN history' -> Revision]
      /\ \A x : Latest(x)' <=> Latest(x)
  BY <1>0, MarkedFacts
<1>2. TypeOK'
  BY <1>0, <1>1 DEF TypeOK, PC, Revision
<1>3. WantOK' /\ WorkOK' /\ ProgressOK'
  BY <1>1 DEF WantOK, WorkOK, ProgressOK, LatestIn
<1>4. \A x : Latest(x)' => x = r
  BY <1>0, <1>1, LatestUnique
<1>5. AtMostOneDeployed'
  BY <1>1 DEF IInv, AtMostOneDeployed
<1>6. DeployedMeansApplied' /\ RollbackTargetKept'
  BY <1>1, <1>4 DEF DeployedMeansApplied, RollbackTargetKept
<1>7. RoomForRollback' /\ HistoryBounded'
  BY <1>1, <1>4 DEF IInv, RoomForRollback, HistoryBounded, LatestIn
<1> QED
  BY <1>2, <1>3, <1>5, <1>6, <1>7 DEF IInv

\* A trim that leaves two revisions leaves the latest: only one is kept for being
\* deployed, and the others are the newest.
LEMMA TrimKeepsLatest ==
  ASSUME IInv, NEW keep \in SUBSET DOMAIN history, Trimmed(keep), Cardinality(keep) >= 2,
         NEW r \in DOMAIN history, Latest(r)
  PROVE  r \in keep
<1> SUFFICES ASSUME r \notin keep PROVE FALSE
  OBVIOUS
<1>1. IsFiniteSet(keep) /\ Cardinality(keep) \in Nat
  BY FS_Subset, FS_CardinalityType DEF IInv, TypeOK
<1>2. keep \subseteq LastDeployed
  BY DEF Trimmed, Latest, IInv, TypeOK
<1>3. \A x, y \in LastDeployed : x = y
  BY DEF LastDeployed, IInv, AtMostOneDeployed
<1>4. PICK z \in keep : TRUE
  BY <1>1, FS_EmptySet
<1>5. keep = {z}
  BY <1>2, <1>3, <1>4
<1>6. Cardinality(keep) = 1
  BY <1>5, FS_Singleton
<1> QED
  BY <1>6

\* What upgrade keeps of the history: the latest revision is among it, and
\* there is room for two more.
LEMMA RetainedFacts ==
  ASSUME IInv, NEW keep \in SUBSET DOMAIN history, Retained(keep),
         NEW r \in DOMAIN history, Latest(r)
  PROVE  r \in keep /\ Cardinality(keep) \in Nat /\ Cardinality(keep) < MaxHistory
<1>1. /\ IsFiniteSet(DOMAIN history) /\ IsFiniteSet(keep)
      /\ Cardinality(DOMAIN history) \in Nat /\ Cardinality(keep) \in Nat
  BY FS_Subset, FS_CardinalityType DEF IInv, TypeOK
<1>2. Cardinality(keep) < MaxHistory
  BY <1>1 DEF Retained
<1>3. ASSUME r \notin keep PROVE FALSE
  <2>1. Cardinality(DOMAIN history) >= MaxHistory
    BY <1>1, <1>3, FS_Subset DEF Retained
  <2>2. Cardinality(keep) >= 2
    BY <2>1, <1>1 DEF Retained
  <2> QED
    BY <1>3, <2>2, TrimKeepsLatest DEF Retained
<1> QED
  BY <1>1, <1>2, <1>3

\* A crash in the trim: some revisions are gone, none of them the latest.
LEMMA CrashInTrimFacts ==
  ASSUME IInv, CrashInTrim
  PROVE  \E r \in DOMAIN history :
           /\ Latest(r) /\ history[r].status \in {"deployed", "failed"}
           /\ \A x : Latest(x)' <=> x = r
           /\ DOMAIN history' \subseteq DOMAIN history
           /\ \A x \in DOMAIN history' : history'[x] = history[x]
           /\ history' \in [DOMAIN history' -> Revision]
           /\ IsFiniteSet(DOMAIN history')
           /\ Cardinality(DOMAIN history') <= Cardinality(DOMAIN history)
<1>1. PICK r \in DOMAIN history : Outdated(r)
  BY DEF CrashInTrim
<1>2. PICK keep \in SUBSET DOMAIN history :
        /\ Trimmed(keep) /\ Cardinality(keep) >= MaxHistory - 1
        /\ history' = [x \in keep |-> history[x]]
  BY DEF CrashInTrim
<1>3. /\ IsFiniteSet(keep) /\ Cardinality(keep) \in Nat
      /\ Cardinality(keep) <= Cardinality(DOMAIN history)
  BY FS_Subset, FS_CardinalityType DEF IInv, TypeOK
<1>4. r \in keep
  BY <1>1, <1>2, <1>3, TrimKeepsLatest DEF Outdated
<1>5. DOMAIN history' = keep /\ \A x \in keep : history'[x] = history[x]
  BY <1>2
<1>6. history' \in [DOMAIN history' -> Revision]
  BY <1>2, <1>5 DEF IInv, TypeOK, Revision
<1>7. \A x : Latest(x)' <=> x = r
  BY <1>1, <1>4, <1>5 DEF Outdated, Latest, IInv, TypeOK
<1> QED
  BY <1>1, <1>3, <1>5, <1>6, <1>7 DEF Outdated

-----------------------------------------------------------------------------
(* The invariant is inductive.                                              *)

\* NewClient starts without a release and with nothing applied.
LEMMA InitInv == Init => IInv
<1> SUFFICES ASSUME Init PROVE IInv
  OBVIOUS
<1>1. DOMAIN history = {}
  BY DEF Init
<1>2. IsFiniteSet(DOMAIN history) /\ Cardinality(DOMAIN history) = 0
  BY <1>1, FS_EmptySet
<1>3. TypeOK
  BY <1>1, <1>2 DEF Init, TypeOK, Configs, PC, Result
<1>4. WantOK /\ WorkOK /\ ProgressOK
  BY DEF Init, WantOK, WorkOK, ProgressOK
<1>5. AtMostOneDeployed /\ DeployedMeansApplied /\ RollbackTargetKept
  BY <1>1 DEF AtMostOneDeployed, DeployedMeansApplied, RollbackTargetKept
<1>6. RoomForRollback /\ HistoryBounded
  BY <1>1, <1>2 DEF RoomForRollback, HistoryBounded, LatestIn
<1> QED
  BY <1>3, <1>4, <1>5, <1>6 DEF IInv

\* Every step of the client, every edit, failure and crash preserves IInv.
LEMMA NextInv == IInv /\ [Next]_vars => IInv'
<1> SUFFICES ASSUME IInv, [Next]_vars PROVE IInv'
  OBVIOUS
<1> USE DEF Configs, Result
<1>0. TypeOK
  BY DEF IInv
<1>1. CASE InstallOrUpgrade
  BY <1>0, <1>1, QuietStep DEF InstallOrUpgrade, TypeOK
<1>2. CASE RecoverNothing
  BY <1>0, <1>2, QuietStep DEF RecoverNothing, TypeOK, IInv, WantOK
<1>3. CASE RollbackPending
  <2>1. PICK r \in DOMAIN history :
          /\ Latest(r) /\ history[r].status = "pending-upgrade" /\ r - 1 \in DOMAIN history
          /\ history' = Stored(DOMAIN history, r + 1, "pending-rollback", history[r - 1].config)
    BY <1>3 DEF RollbackPending
  <2>2. r + 1 \in Nat \ {0} /\ \A x \in DOMAIN history : x < r + 1
    BY <1>0, <2>1 DEF TypeOK, Latest
  <2>3. history[r - 1].config \in Values
    BY <1>0, <2>1 DEF TypeOK
  <2>4. Cardinality(DOMAIN history) <= MaxHistory
    BY <2>1 DEF IInv, RoomForRollback, LatestIn
  <2>5. want \in Values
    BY <1>3 DEF RollbackPending, IInv, WantOK
  <2> QED
    BY <1>3, <2>1, <2>2, <2>3, <2>4, <2>5, StoringStep DEF RollbackPending
<1>4. CASE RemovePendingInstall
  BY <1>0, <1>4, MarkingStep DEF RemovePendingInstall, BeginUninstall, TypeOK
<1>5. CASE InstallRelease
  <2>1. want \in Values
    BY <1>5 DEF InstallRelease, IInv, WantOK
  <2>2. CASE DOMAIN history = {}
    <3>1. /\ history' = Stored({}, 1, "pending-install", want) /\ pc' = "apply"
          /\ UNCHANGED <<desired, edits, faults, objects, want, result>>
      BY <1>5, <2>2 DEF InstallRelease
    <3>2. Cardinality({}) <= MaxHistory /\ {} \in SUBSET DOMAIN history
      BY FS_EmptySet
    <3> QED
      BY <2>1, <2>2, <3>1, <3>2, StoringStep
  <2>3. CASE DOMAIN history # {}
    BY <1>0, <1>5, <2>3, QuietStep DEF InstallRelease, Return, TypeOK
  <2> QED
    BY <2>2, <2>3
<1>6. CASE SkipUpgrade
  BY <1>0, <1>6, QuietStep DEF SkipUpgrade, Return, TypeOK
<1>7. CASE UpgradeRelease
  <2>1. PICK r \in DOMAIN history, keep \in SUBSET DOMAIN history :
          /\ Latest(r) /\ Retained(keep)
          /\ history' = Stored(keep, r + 1, "pending-upgrade", want)
    BY <1>7 DEF UpgradeRelease, Outdated
  <2>2. r + 1 \in Nat \ {0} /\ (r + 1) - 1 = r /\ \A x \in DOMAIN history : x < r + 1
    BY <1>0, <2>1 DEF TypeOK, Latest
  <2>3. r \in keep /\ Cardinality(keep) \in Nat /\ Cardinality(keep) < MaxHistory
    BY <2>1, RetainedFacts
  <2>4. want \in Values
    BY <1>7 DEF UpgradeRelease, IInv, WantOK
  <2> QED
    BY <1>7, <2>1, <2>2, <2>3, <2>4, StoringStep DEF UpgradeRelease
<1>8. ASSUME NEW o \in Objects, ApplyObject(o) PROVE IInv'
  <2>1. PICK r \in DOMAIN history :
          Latest(r) /\ objects' = [objects EXCEPT ![o] = history[r].config]
    BY <1>8 DEF ApplyObject
  <2>2. history[r].config \in Values
    BY <1>0 DEF TypeOK
  <2>3. TypeOK'
    BY <1>0, <1>8, <2>1, <2>2 DEF ApplyObject, TypeOK
  <2>4. WantOK' /\ WorkOK' /\ ProgressOK'
    BY <1>8 DEF ApplyObject, IInv, WantOK, WorkOK, ProgressOK, LatestIn, Latest
  <2>5. DeployedMeansApplied'
    BY <1>0, <1>8, LatestUnique
       DEF ApplyObject, IInv, WorkOK, DeployedMeansApplied, LatestIn, Latest
  <2> QED
    BY <1>8, <2>3, <2>4, <2>5
       DEF ApplyObject, IInv, AtMostOneDeployed, RollbackTargetKept, RoomForRollback,
           HistoryBounded, LatestIn, Latest
<1>9. ASSUME NEW o \in Objects, DeleteObject(o) PROVE IInv'
  <2>1. TypeOK'
    BY <1>0, <1>9 DEF DeleteObject, TypeOK
  <2>2. WantOK' /\ WorkOK' /\ ProgressOK'
    BY <1>9 DEF DeleteObject, IInv, WantOK, WorkOK, ProgressOK, LatestIn, Latest
  <2>3. DeployedMeansApplied'
    BY <1>0, <1>9, LatestUnique
       DEF DeleteObject, IInv, WorkOK, DeployedMeansApplied, LatestIn, Latest
  <2> QED
    BY <1>9, <2>1, <2>2, <2>3
       DEF DeleteObject, IInv, AtMostOneDeployed, RollbackTargetKept, RoomForRollback,
           HistoryBounded, LatestIn, Latest
<1>10. CASE ApplyDone
  <2>1. TypeOK'
    BY <1>0, <1>10 DEF ApplyDone, TypeOK, PC
  <2>2. WantOK' /\ WorkOK'
    BY <1>10 DEF ApplyDone, IInv, WantOK, WorkOK, LatestIn, Latest
  <2>3. ProgressOK'
    BY <1>0, <1>10, LatestUnique DEF ApplyDone, ProgressOK, Latest
  <2> QED
    BY <1>10, <2>1, <2>2, <2>3
       DEF ApplyDone, IInv, AtMostOneDeployed, DeployedMeansApplied, RollbackTargetKept,
           RoomForRollback, HistoryBounded, LatestIn, Latest
<1>11. CASE Supersede
  <2>1. /\ DOMAIN history' = DOMAIN history
        /\ \A x \in DOMAIN history :
             IF history[x].status = "deployed"
             THEN history'[x] = [status |-> "superseded", config |-> history[x].config]
             ELSE history'[x] = history[x]
    BY <1>0, <1>11 DEF Supersede, TypeOK
  <2>2. history' \in [DOMAIN history' -> Revision]
    BY <1>0, <1>11, <2>1 DEF Supersede, TypeOK, Revision, Status
  <2>3. TypeOK'
    BY <1>0, <1>11, <2>1, <2>2 DEF Supersede, TypeOK, PC, Revision
  <2>4. \A x : Latest(x)' <=> Latest(x)
    BY <2>1 DEF Latest
  <2>5. \A x \in DOMAIN history : Latest(x) => history'[x] = history[x]
    BY <1>0, <1>11, <2>1, LatestUnique DEF Supersede, IInv, WorkOK, LatestIn
  <2>6. WantOK' /\ WorkOK' /\ ProgressOK'
    BY <1>11, <2>1, <2>4, <2>5 DEF Supersede, IInv, WantOK, WorkOK, ProgressOK, LatestIn
  <2>7. AtMostOneDeployed' /\ DeployedMeansApplied' /\ RollbackTargetKept'
    BY <1>11, <2>1, <2>4, <2>5
       DEF Supersede, IInv, AtMostOneDeployed, DeployedMeansApplied, RollbackTargetKept
  <2>8. RoomForRollback' /\ HistoryBounded'
    BY <2>1, <2>4, <2>5 DEF IInv, RoomForRollback, HistoryBounded, LatestIn
  <2> QED
    BY <2>3, <2>6, <2>7, <2>8 DEF IInv
<1>12. CASE RecordDeployed
  <2>1. PICK r \in DOMAIN history :
          /\ Latest(r)
          /\ history' = [history EXCEPT ![r].status = "deployed"]
          /\ \/ pc' = "current" /\ result' = result
             \/ pc' = "idle" /\ result' = "changed"
    BY <1>12 DEF RecordDeployed, Return
  <2>2. /\ DOMAIN history' = DOMAIN history
        /\ history'[r] = [status |-> "deployed", config |-> history[r].config]
        /\ \A x \in DOMAIN history \ {r} : history'[x] = history[x]
        /\ history' \in [DOMAIN history' -> Revision]
        /\ \A x : Latest(x)' <=> Latest(x)
    BY <1>0, <2>1, MarkedFacts DEF Status
  <2>3. \A x : Latest(x) => x = r
    BY <1>0, <2>1, LatestUnique
  <2>4. TypeOK'
    BY <1>0, <1>12, <2>1, <2>2 DEF RecordDeployed, TypeOK, PC, Revision
  <2>5. WantOK' /\ WorkOK' /\ ProgressOK'
    BY <1>12, <2>1 DEF RecordDeployed, IInv, WantOK, WorkOK, ProgressOK
  <2>6. AtMostOneDeployed'
    BY <1>12, <2>2 DEF RecordDeployed, IInv, ProgressOK, AtMostOneDeployed
  <2>7. DeployedMeansApplied' /\ RollbackTargetKept'
    BY <1>12, <2>1, <2>2, <2>3
       DEF RecordDeployed, IInv, ProgressOK, DeployedMeansApplied, RollbackTargetKept
  <2>8. RoomForRollback' /\ HistoryBounded'
    BY <2>2, <2>3 DEF IInv, RoomForRollback, HistoryBounded, LatestIn
  <2> QED
    BY <2>4, <2>5, <2>6, <2>7, <2>8 DEF IInv
<1>13. CASE DeleteDone
  <2>1. TypeOK' /\ WantOK' /\ WorkOK' /\ ProgressOK'
    BY <1>0, <1>13
       DEF DeleteDone, TypeOK, PC, IInv, WantOK, WorkOK, ProgressOK, LatestIn, Latest
  <2> QED
    BY <1>13, <2>1
       DEF DeleteDone, IInv, AtMostOneDeployed, DeployedMeansApplied, RollbackTargetKept,
           RoomForRollback, HistoryBounded, LatestIn, Latest
<1>14. CASE Purge
  <2>1. PICK r \in DOMAIN history :
          /\ \A x \in DOMAIN history : r <= x
          /\ history' = [x \in (DOMAIN history) \ {r} |-> history[x]]
          /\ \/ DOMAIN history # {r} /\ UNCHANGED <<pc, result>>
             \/ DOMAIN history = {r} /\ want # Absent /\ pc' = "current" /\ UNCHANGED result
             \/ DOMAIN history = {r} /\ want = Absent /\ pc' = "idle" /\ result' = "uninstalled"
    BY <1>14 DEF Purge, Return
  <2>2. /\ DOMAIN history' = (DOMAIN history) \ {r}
        /\ \A x \in DOMAIN history' : history'[x] = history[x]
        /\ history' \in [DOMAIN history' -> Revision]
    BY <1>0, <2>1 DEF TypeOK, Revision
  <2>3. /\ IsFiniteSet(DOMAIN history') /\ Cardinality(DOMAIN history') \in Nat
        /\ Cardinality(DOMAIN history') <= Cardinality(DOMAIN history)
        /\ Cardinality(DOMAIN history) \in Nat
    BY <1>0, <2>2, FS_Subset, FS_CardinalityType DEF TypeOK
  <2>4. TypeOK'
    BY <1>0, <1>14, <2>1, <2>2, <2>3 DEF Purge, TypeOK, PC, Revision
  <2>5. PICK l \in DOMAIN history : Latest(l) /\ history[l].status = "uninstalling"
    BY <1>14 DEF Purge, IInv, WorkOK, LatestIn
  <2>6. \A x : Latest(x)' => x = l
    BY <1>0, <2>1, <2>2, <2>5 DEF TypeOK, Latest
  <2>7. DOMAIN history # {r} => Latest(l)' /\ l \in DOMAIN history'
    BY <1>0, <2>1, <2>2, <2>5 DEF TypeOK, Latest
  <2>8. WantOK' /\ WorkOK' /\ ProgressOK'
    BY <1>0, <1>14, <2>1, <2>2, <2>5, <2>7
       DEF Purge, TypeOK, WantOK, WorkOK, ProgressOK, LatestIn
  <2>9. AtMostOneDeployed' /\ DeployedMeansApplied' /\ RollbackTargetKept'
    BY <2>2, <2>5, <2>6
       DEF IInv, AtMostOneDeployed, DeployedMeansApplied, RollbackTargetKept
  <2>10. RoomForRollback' /\ HistoryBounded'
    BY <2>2, <2>3, <2>5, <2>6 DEF IInv, RoomForRollback, HistoryBounded, LatestIn
  <2> QED
    BY <2>4, <2>8, <2>9, <2>10 DEF IInv
<1>15. CASE Uninstall
  BY <1>0, <1>15, QuietStep DEF Uninstall, TypeOK
<1>16. CASE UninstallAbsent
  BY <1>0, <1>16, QuietStep DEF UninstallAbsent, Return, TypeOK
<1>17. CASE UninstallRelease
  BY <1>0, <1>17, MarkingStep DEF UninstallRelease, BeginUninstall, TypeOK
<1>18. ASSUME NEW d \in Values \union {Absent}, Edit(d) PROVE IInv'
  BY <1>0, <1>18
     DEF Edit, TypeOK, IInv, WantOK, WorkOK, ProgressOK, AtMostOneDeployed,
         DeployedMeansApplied, RollbackTargetKept, RoomForRollback, HistoryBounded,
         LatestIn, Latest
<1>19. CASE ApplyFails
  <2>1. PICK r \in DOMAIN history :
          Latest(r) /\ history' = [history EXCEPT ![r].status = "failed"]
    BY <1>19 DEF ApplyFails
  <2>2. /\ pc' = "idle" /\ result' \in Result /\ faults' \in 0..MaxFaults
        /\ UNCHANGED <<desired, edits, objects, want>>
    BY <1>0, <1>19 DEF ApplyFails, Fault, Return, TypeOK
  <2> QED
    BY <2>1, <2>2, MarkingStep
<1>20. CASE DeleteFails
  BY <1>0, <1>20, QuietStep DEF DeleteFails, Fault, Return, TypeOK
<1>21. CASE ListFails
  BY <1>0, <1>21, QuietStep DEF ListFails, Fault, Return, TypeOK
<1>22. CASE Crash
  BY <1>0, <1>22, QuietStep DEF Crash, Fault, Return, TypeOK
<1>23. CASE CrashInTrim
  <2>1. PICK r \in DOMAIN history :
          /\ Latest(r) /\ history[r].status \in {"deployed", "failed"}
          /\ \A x : Latest(x)' <=> x = r
          /\ DOMAIN history' \subseteq DOMAIN history
          /\ \A x \in DOMAIN history' : history'[x] = history[x]
          /\ history' \in [DOMAIN history' -> Revision]
          /\ IsFiniteSet(DOMAIN history')
          /\ Cardinality(DOMAIN history') <= Cardinality(DOMAIN history)
    BY <1>23, CrashInTrimFacts
  <2>2. /\ pc' = "idle" /\ result' \in Result /\ faults' \in 0..MaxFaults
        /\ UNCHANGED <<desired, edits, objects, want>>
    BY <1>0, <1>23 DEF CrashInTrim, Fault, Return, TypeOK
  <2>3. TypeOK'
    BY <1>0, <2>1, <2>2 DEF TypeOK, PC, Revision
  <2>4. WantOK' /\ WorkOK' /\ ProgressOK'
    BY <2>2 DEF WantOK, WorkOK, ProgressOK
  <2>5. AtMostOneDeployed' /\ DeployedMeansApplied' /\ RollbackTargetKept'
    BY <2>1, <2>2 DEF IInv, AtMostOneDeployed, DeployedMeansApplied, RollbackTargetKept, Latest
  <2>6. Cardinality(DOMAIN history) \in Nat /\ Cardinality(DOMAIN history') \in Nat
    BY <1>0, <2>1, FS_CardinalityType DEF TypeOK
  <2>7. RoomForRollback' /\ HistoryBounded'
    BY <2>1, <2>6 DEF IInv, RoomForRollback, HistoryBounded, LatestIn, Latest
  <2> QED
    BY <2>3, <2>4, <2>5, <2>7 DEF IInv
<1>24. CASE UNCHANGED vars
  BY <1>24
     DEF vars, TypeOK, IInv, WantOK, WorkOK, ProgressOK, AtMostOneDeployed,
         DeployedMeansApplied, RollbackTargetKept, RoomForRollback, HistoryBounded,
         LatestIn, Latest
<1> QED
  BY <1>1, <1>2, <1>3, <1>4, <1>5, <1>6, <1>7, <1>8, <1>9, <1>10, <1>11, <1>12, <1>13,
     <1>14, <1>15, <1>16, <1>17, <1>18, <1>19, <1>20, <1>21, <1>22, <1>23, <1>24
     DEF Next, Step, Env

-----------------------------------------------------------------------------
(* The theorems.                                                            *)

\* IInv holds in every reachable state, which is what the rest follows from.
THEOREM Invariance == Spec => []IInv
BY InitInv, NextInv, PTL DEF Spec

\* All variables keep their types: whatever fails, every revision has a positive
\* number and a config that was once asked for.
THEOREM TypeCorrect == Spec => []TypeOK
<1>1. IInv => TypeOK
  BY DEF IInv
<1> QED
  BY <1>1, Invariance, PTL

\* Install, upgrade, rollback and uninstall never leave two deployed revisions.
THEOREM OneDeployed == Spec => []AtMostOneDeployed
<1>1. IInv => AtMostOneDeployed
  BY DEF IInv
<1> QED
  BY <1>1, Invariance, PTL

\* A deployed release is the one in the cluster, so that skipping the upgrade of
\* an up-to-date release (releaseUpToDate) loses nothing.
THEOREM DeployedApplied == Spec => []DeployedMeansApplied
<1>1. IInv => DeployedMeansApplied
  BY DEF IInv
<1> QED
  BY <1>1, Invariance, PTL

\* The history keeps the revision that recoverPending rolls back to.
THEOREM TargetKept == Spec => []RollbackTargetKept
<1>1. IInv => RollbackTargetKept
  BY DEF IInv
<1> QED
  BY <1>1, Invariance, PTL

\* The store holds at most one revision more than maxReleaseHistory.
THEOREM Bounded == Spec => []HistoryBounded
<1>1. IInv => HistoryBounded
  BY DEF IInv
<1> QED
  BY <1>1, Invariance, PTL

-----------------------------------------------------------------------------
(* Revisions are earned: every one was paid for by the install, an edit or a *)
(* fault.  The inductive invariant counts those still to come.              *)

Working == pc \in {"apply", "supersede", "record"}

\* The revisions that lead from the latest one, r, to the one the running or the
\* next call asks for: the upgrade of a failed release or of one with another
\* config, and the rollback before it.
Due(r) ==
  IF history[r].status = "failed" THEN 1
  ELSE IF history[r].status = "pending-upgrade" /\ ~Working THEN 2
  ELSE IF history[r].status = "pending-rollback" /\ Working THEN 1
  ELSE IF /\ history[r].status = "deployed"
          /\ history[r].config # (IF pc = "idle" THEN desired ELSE want) THEN 1
  ELSE 0

\* One more if the running call was made before the last edit.
Late == IF pc # "idle" /\ want # desired THEN 1 ELSE 0

Earned == 1 + edits + 2 * faults

EInv ==
  /\ RevisionsEarned
  /\ Late = 1 => edits >= 1
  /\ \A r \in DOMAIN history : Latest(r) => r + Due(r) + Late <= Earned
  /\ \A r \in DOMAIN history :
       /\ Working /\ Latest(r)
       /\ history[r].status \in {"pending-install", "pending-upgrade"}
       => history[r].config = want

\* Steps that leave the latest revision what it is, or take all revisions away,
\* when what is due after them is covered.
LEMMA NoNewRevision ==
  ASSUME TypeOK, EInv, TypeOK',
         DOMAIN history' \subseteq DOMAIN history,
         edits' >= edits, faults' >= faults,
         Late' = 1 => edits' >= 1,
         \A r \in DOMAIN history' : Latest(r)' =>
           /\ Latest(r)
           /\ r + Due(r) + Late <= Earned => (r + Due(r) + Late)' <= Earned'
           /\ /\ Working' /\ history'[r].status \in {"pending-install", "pending-upgrade"}
              => history'[r].config = want'
  PROVE  EInv'
<1>1. /\ edits \in Nat /\ faults \in Nat /\ edits' \in Nat /\ faults' \in Nat
      /\ DOMAIN history \subseteq Nat
  BY DEF TypeOK
<1>2. RevisionsEarned'
  BY <1>1 DEF EInv, RevisionsEarned
<1>3. \A r \in DOMAIN history' : Latest(r)' => (r + Due(r) + Late <= Earned)'
  BY DEF EInv
<1> QED
  BY <1>2, <1>3 DEF EInv

\* Steps that store a new revision, one that was due.
LEMMA NewRevision ==
  ASSUME TypeOK, EInv, TypeOK',
         NEW keep \in SUBSET DOMAIN history, NEW r \in Nat \ {0}, NEW c \in Values,
         NEW s \in {"pending-install", "pending-upgrade", "pending-rollback"},
         \A x \in DOMAIN history : x < r,
         history' = Stored(keep, r, s, c),
         pc # "idle", pc' = "apply", UNCHANGED <<desired, edits, faults, want>>,
         IF s = "pending-rollback" THEN r + 1 + Late <= Earned
                                   ELSE r + Late <= Earned /\ c = want
  PROVE  EInv'
<1>0. s \in Status
  BY DEF Status
<1>1. /\ DOMAIN history' = keep \union {r}
      /\ history'[r] = [status |-> s, config |-> c]
      /\ \A x : Latest(x)' <=> x = r
  BY <1>0, StoredFacts
<1>2. /\ edits \in Nat /\ faults \in Nat
      /\ Late' = Late /\ Late \in Nat /\ Earned' = Earned
  BY DEF TypeOK, Late, Earned
<1>3. r <= Earned /\ (Late' = 1 => edits' >= 1)
  BY <1>2 DEF Earned, EInv
<1>4. RevisionsEarned'
  BY <1>1, <1>2, <1>3 DEF EInv, RevisionsEarned, Earned
<1>5. (r + Due(r) + Late <= Earned)'
  BY <1>1, <1>2 DEF Due, Working
<1> QED
  BY <1>1, <1>3, <1>4, <1>5 DEF EInv

\* Every step preserves the count of revisions written and still due.
LEMMA EInvStep == IInv /\ IInv' /\ EInv /\ [Next]_vars => EInv'
<1> SUFFICES ASSUME IInv, IInv', EInv, [Next]_vars PROVE EInv'
  OBVIOUS
<1> USE DEF Due, Late, Earned, Working
<1>0. /\ TypeOK /\ TypeOK'
      /\ edits \in Nat /\ faults \in Nat /\ DOMAIN history \subseteq Nat
      /\ edits' \in Nat /\ faults' \in Nat
  BY DEF IInv, TypeOK
<1>1. CASE InstallOrUpgrade \/ Uninstall
  BY <1>0, <1>1, NoNewRevision DEF InstallOrUpgrade, Uninstall, Latest
<1>2. CASE RecoverNothing
  BY <1>0, <1>2, NoNewRevision DEF RecoverNothing, Latest, EInv
<1>3. CASE RollbackPending
  <2>1. PICK r \in DOMAIN history :
          /\ Latest(r) /\ history[r].status = "pending-upgrade" /\ r - 1 \in DOMAIN history
          /\ history' = Stored(DOMAIN history, r + 1, "pending-rollback", history[r - 1].config)
    BY <1>3 DEF RollbackPending
  <2>2. /\ r + 1 \in Nat \ {0} /\ \A x \in DOMAIN history : x < r + 1
        /\ history[r - 1].config \in Values
        /\ DOMAIN history \in SUBSET DOMAIN history
    BY <1>0, <2>1 DEF TypeOK, Latest, Status
  <2>3. /\ pc = "recover" /\ pc' = "apply"
        /\ UNCHANGED <<desired, edits, faults, want>>
    BY <1>3 DEF RollbackPending
  <2>4. r + 1 + 1 + Late <= Earned
    BY <1>0, <2>1, <2>3 DEF EInv
  <2> QED
    BY <1>0, <2>1, <2>2, <2>3, <2>4, NewRevision
<1>4. CASE RemovePendingInstall \/ UninstallRelease
  <2>1. PICK r \in DOMAIN history :
          Latest(r) /\ history' = [history EXCEPT ![r].status = "uninstalling"] /\ pc' = "delete"
    BY <1>4 DEF RemovePendingInstall, UninstallRelease, BeginUninstall
  <2>2. /\ DOMAIN history' = DOMAIN history
        /\ history'[r] = [status |-> "uninstalling", config |-> history[r].config]
        /\ \A x : Latest(x)' <=> Latest(x)
    BY <1>0, <2>1, MarkedFacts DEF Status
  <2>3. pc # "idle" /\ UNCHANGED <<desired, edits, faults, want>>
    BY <1>4 DEF RemovePendingInstall, UninstallRelease
  <2>4. \A x : Latest(x) => x = r
    BY <1>0, <2>1, LatestUnique
  <2> QED
    BY <1>0, <2>1, <2>2, <2>3, <2>4, NoNewRevision DEF EInv
<1>5. CASE InstallRelease
  <2>1. CASE DOMAIN history = {}
    <3>1. /\ history' = Stored({}, 1, "pending-install", want)
          /\ pc = "current" /\ pc' = "apply"
          /\ UNCHANGED <<desired, edits, faults, want>>
      BY <1>5, <2>1 DEF InstallRelease
    <3>2. /\ want \in Values
          /\ {} \in SUBSET DOMAIN history /\ 1 \in Nat \ {0}
      BY <3>1 DEF IInv, WantOK, Status
    <3>3. 1 + Late <= Earned /\ \A x \in DOMAIN history : x < 1
      BY <1>0, <2>1 DEF EInv
    <3> QED
      BY <1>0, <3>1, <3>2, <3>3, NewRevision
  <2>2. CASE DOMAIN history # {}
    BY <1>0, <1>5, <2>2, NoNewRevision DEF InstallRelease, Return, Latest, EInv
  <2> QED
    BY <2>1, <2>2
<1>6. CASE SkipUpgrade
  BY <1>0, <1>6, NoNewRevision DEF SkipUpgrade, Return, Latest
<1>7. CASE UpgradeRelease
  <2>1. PICK r \in DOMAIN history, keep \in SUBSET DOMAIN history :
          /\ Latest(r) /\ history[r].status \in {"deployed", "failed"} /\ ~UpToDate(history[r])
          /\ history' = Stored(keep, r + 1, "pending-upgrade", want)
    BY <1>7 DEF UpgradeRelease, Outdated
  <2>2. /\ pc = "current" /\ pc' = "apply"
        /\ UNCHANGED <<desired, edits, faults, want>>
    BY <1>7 DEF UpgradeRelease
  <2>3. /\ r + 1 \in Nat \ {0} /\ \A x \in DOMAIN history : x < r + 1
        /\ want \in Values
    BY <1>0, <2>1, <2>2 DEF TypeOK, Latest, Status, IInv, WantOK
  <2>4. r + 1 + Late <= Earned
    BY <1>0, <2>1, <2>2 DEF EInv, UpToDate
  <2> QED
    BY <1>0, <2>1, <2>2, <2>3, <2>4, NewRevision
<1>8. CASE \E o \in Objects : ApplyObject(o) \/ DeleteObject(o)
  BY <1>0, <1>8, NoNewRevision DEF ApplyObject, DeleteObject, Latest, EInv
<1>9. CASE ApplyDone \/ DeleteDone
  BY <1>0, <1>9, NoNewRevision DEF ApplyDone, DeleteDone, Latest, EInv
<1>10. CASE Supersede
  <2>1. /\ DOMAIN history' = DOMAIN history
        /\ \A x \in DOMAIN history :
             history[x].status # "deployed" => history'[x] = history[x]
    BY <1>0, <1>10 DEF Supersede
  <2>2. \A x : Latest(x)' <=> Latest(x)
    BY <2>1 DEF Latest
  <2>3. \A x \in DOMAIN history : Latest(x) => history'[x] = history[x]
    BY <1>0, <1>10, <2>1, LatestUnique DEF Supersede, IInv, WorkOK, LatestIn
  <2> QED
    BY <1>0, <1>10, <2>1, <2>2, <2>3, NoNewRevision DEF Supersede, EInv
<1>11. CASE RecordDeployed
  <2>1. PICK r \in DOMAIN history :
          /\ Latest(r)
          /\ history' = [history EXCEPT ![r].status = "deployed"]
          /\ \/ history[r].status = "pending-rollback" /\ pc' = "current"
             \/ history[r].status # "pending-rollback" /\ pc' = "idle"
    BY <1>11 DEF RecordDeployed, Return
  <2>2. pc = "record" /\ UNCHANGED <<desired, edits, faults, want>>
    BY <1>11 DEF RecordDeployed
  <2>3. /\ DOMAIN history' = DOMAIN history
        /\ history'[r] = [status |-> "deployed", config |-> history[r].config]
        /\ \A x : Latest(x)' <=> Latest(x)
    BY <1>0, <2>1, MarkedFacts DEF Status
  <2>4. \A x : Latest(x) => x = r
    BY <1>0, <2>1, LatestUnique
  <2>5. history[r].status \in {"pending-install", "pending-upgrade", "pending-rollback"}
    BY <2>2, <2>4 DEF IInv, WorkOK, LatestIn
  <2>6. r + Due(r) + Late <= Earned => (r + Due(r) + Late)' <= Earned'
    <3>1. CASE history[r].status = "pending-rollback"
      BY <1>0, <2>1, <2>2, <2>3, <3>1
    <3>2. CASE history[r].status # "pending-rollback"
      <4>1. history[r].config = want /\ pc' = "idle"
        BY <2>1, <2>2, <2>5, <3>2 DEF EInv
      <4> QED
        BY <1>0, <2>2, <2>3, <2>5, <3>2, <4>1
    <3> QED
      BY <3>1, <3>2
  <2>7. Late' = 1 => edits' >= 1
    BY <2>1, <2>2 DEF EInv
  <2>8. ~Working'
    BY <2>1
  <2> QED
    BY <1>0, <2>2, <2>3, <2>4, <2>6, <2>7, <2>8, NoNewRevision
<1>12. CASE Purge
  <2>1. PICK r \in DOMAIN history :
          /\ \A x \in DOMAIN history : r <= x
          /\ history' = [x \in (DOMAIN history) \ {r} |-> history[x]]
          /\ DOMAIN history # {r} => pc' = pc
          /\ pc' \in {"purge", "current", "idle"}
    BY <1>12 DEF Purge, Return
  <2>2. /\ DOMAIN history' = (DOMAIN history) \ {r}
        /\ \A x \in DOMAIN history' : history'[x] = history[x]
    BY <2>1
  <2>3. pc = "purge" /\ UNCHANGED <<desired, edits, faults, want>>
    BY <1>12 DEF Purge
  <2>4. \A x \in DOMAIN history' : Latest(x)' => Latest(x) /\ DOMAIN history # {r}
    BY <1>0, <2>1, <2>2 DEF Latest
  <2> QED
    BY <1>0, <2>1, <2>2, <2>3, <2>4, NoNewRevision DEF EInv
<1>13. CASE UninstallAbsent
  BY <1>0, <1>13, NoNewRevision DEF UninstallAbsent, Return, Latest, EInv
<1>14. ASSUME NEW d \in Values \union {Absent}, Edit(d) PROVE EInv'
  BY <1>0, <1>14, NoNewRevision DEF Edit, Latest, EInv
<1>15. CASE ApplyFails
  <2>1. PICK r \in DOMAIN history :
          Latest(r) /\ history' = [history EXCEPT ![r].status = "failed"]
    BY <1>15 DEF ApplyFails
  <2>2. /\ DOMAIN history' = DOMAIN history
        /\ history'[r] = [status |-> "failed", config |-> history[r].config]
        /\ \A x : Latest(x)' <=> Latest(x)
    BY <1>0, <2>1, MarkedFacts DEF Status
  <2>3. /\ pc' = "idle" /\ faults' = faults + 1
        /\ UNCHANGED <<desired, edits, want>>
    BY <1>15 DEF ApplyFails, Fault, Return
  <2>4. \A x : Latest(x) => x = r
    BY <1>0, <2>1, LatestUnique
  <2> QED
    BY <1>0, <2>1, <2>2, <2>3, <2>4, NoNewRevision DEF EInv
<1>16. CASE DeleteFails
  BY <1>0, <1>16, NoNewRevision DEF DeleteFails, Fault, Return, Latest, EInv
<1>17. CASE ListFails \/ Crash
  BY <1>0, <1>17, NoNewRevision DEF ListFails, Crash, Fault, Return, Latest, EInv
<1>18. CASE CrashInTrim
  <2>1. PICK r \in DOMAIN history :
          /\ Latest(r) /\ history[r].status \in {"deployed", "failed"}
          /\ \A x : Latest(x)' <=> x = r
          /\ DOMAIN history' \subseteq DOMAIN history
          /\ \A x \in DOMAIN history' : history'[x] = history[x]
    BY <1>18, CrashInTrimFacts
  <2>2. /\ pc = "current" /\ pc' = "idle" /\ faults' = faults + 1
        /\ UNCHANGED <<desired, edits, want>>
    BY <1>18 DEF CrashInTrim, Fault, Return
  <2> QED
    BY <1>0, <2>1, <2>2, NoNewRevision DEF EInv
<1>19. CASE UNCHANGED vars
  BY <1>0, <1>19, NoNewRevision DEF vars, Latest, EInv
<1> QED
  BY <1>1, <1>2, <1>3, <1>4, <1>5, <1>6, <1>7, <1>8, <1>9, <1>10, <1>11, <1>12, <1>13,
     <1>14, <1>15, <1>16, <1>17, <1>18, <1>19 DEF Next, Step, Env

\* The periodic requeue writes no revision of its own: there are no more than one
\* for the install, one for each edit and two for each failure or crash.
THEOREM AllEarned == Spec => []RevisionsEarned
<1>1. Init => EInv
  BY DEF Init, EInv, RevisionsEarned, Late
<1>2. EInv => RevisionsEarned
  BY DEF EInv
<1> QED
  BY <1>1, <1>2, Invariance, EInvStep, PTL DEF Spec

-----------------------------------------------------------------------------
(* The client implements Installer: every step of the client is, seen from  *)
(* its caller, a step that the contract allows, or none.                    *)

\* A finite, nonempty set of numbers has a largest one.
LEMMA HasMaximum ==
  ASSUME NEW S \in SUBSET Nat, IsFiniteSet(S), S # {}
  PROVE  \E m \in S : \A x \in S : x <= m
<1> DEFINE T == {X \in FiniteSubsetsOf(S) : X # {} /\ ~ \E m \in X : \A x \in X : x <= m}
<1>1. ASSUME T # {} PROVE FALSE
  <2>1. PICK X \in T : \A Y \in T : <<Y, X>> \notin StrictSubsetOrdering(S)
    <3>1. T \subseteq FiniteSubsetsOf(S)
      OBVIOUS
    <3> HIDE DEF T
    <3> QED BY <1>1, <3>1, FS_StrictSubsetOrderingWellFounded, WFMin
  <2>2. X \subseteq S /\ IsFiniteSet(X)
    BY DEF FiniteSubsetsOf
  <2>3. PICK e \in X : TRUE
    OBVIOUS
  <2>4. X \ {e} \subseteq S /\ IsFiniteSet(X \ {e}) /\ X \ {e} # X
    BY <2>2, FS_RemoveElement
  <2>5. X \ {e} \notin T
    BY <2>1, <2>2, <2>4 DEF StrictSubsetOrdering
  <2>6. CASE X \ {e} = {}
    BY <2>2, <2>6
  <2>7. CASE X \ {e} # {}
    <3>1. PICK m \in X \ {e} : \A x \in X \ {e} : x <= m
      BY <2>4, <2>5, <2>7 DEF FiniteSubsetsOf
    <3> QED BY <2>2, <3>1
  <2> QED BY <2>6, <2>7
<1> QED BY <1>1 DEF FiniteSubsetsOf

\* The contract's release is the latest revision, if there is any.
LEMMA ReleaseIsLatest ==
  ASSUME TypeOK
  PROVE  /\ DOMAIN history = {} => LatestRelease = Contract!NoRelease
         /\ DOMAIN history # {} => \E r \in DOMAIN history : Latest(r)
         /\ \A r : Latest(r) => LatestRelease = history[r]
<1>1. DOMAIN history # {} => \E r \in DOMAIN history : Latest(r)
  BY HasMaximum DEF TypeOK, Latest
<1>2. ASSUME NEW r, Latest(r) PROVE LatestRelease = history[r]
  <2>1. \A x \in DOMAIN history : Latest(x) <=> x = r
    BY <1>2, LatestUnique
  <2>2. r \in DOMAIN history
    BY <1>2 DEF Latest
  <2> QED BY <2>1, <2>2 DEF LatestRelease
<1> QED BY <1>1, <1>2 DEF LatestRelease, Contract!NoRelease, Contract!Rel

\* The same of the state after a step.
LEMMA ReleaseIsLatestNext ==
  ASSUME TypeOK'
  PROVE  /\ DOMAIN history' = {} => LatestRelease' = Contract!NoRelease
         /\ DOMAIN history' # {} => \E r \in DOMAIN history' : Latest(r)'
         /\ \A r : Latest(r)' => LatestRelease' = history'[r]
<1>1. DOMAIN history' # {} => \E r \in DOMAIN history' : Latest(r)'
  BY HasMaximum DEF TypeOK, Latest
<1>2. ASSUME NEW r, Latest(r)' PROVE LatestRelease' = history'[r]
  <2>1. \A x \in DOMAIN history' : Latest(x)' <=> x = r
    BY <1>2 DEF Latest, TypeOK
  <2>2. r \in DOMAIN history'
    BY <1>2 DEF Latest
  <2> QED BY <2>1, <2>2 DEF LatestRelease
<1> QED BY <1>1, <1>2 DEF LatestRelease, Contract!NoRelease, Contract!Rel

\* A step that leaves the store alone leaves the release alone.
LEMMA SameStoreSameRelease ==
  ASSUME UNCHANGED history
  PROVE  LatestRelease' = LatestRelease
BY DEF LatestRelease, Latest

\* What a stored revision is to the caller: the new release.
LEMMA StoredRelease ==
  ASSUME TypeOK, TypeOK',
         NEW keep \in SUBSET DOMAIN history, NEW r \in Nat \ {0},
         NEW s \in Status, NEW c \in Values,
         \A x \in DOMAIN history : x < r,
         history' = Stored(keep, r, s, c)
  PROVE  LatestRelease' = Contract!Rel(s, c)
<1>1. history'[r] = [status |-> s, config |-> c] /\ Latest(r)'
  BY StoredFacts
<1> QED BY <1>1, ReleaseIsLatestNext DEF Contract!Rel

\* What a new status of the latest revision is to the caller.
LEMMA MarkedRelease ==
  ASSUME TypeOK, TypeOK', NEW r \in DOMAIN history, Latest(r), NEW s \in Status,
         history' = [history EXCEPT ![r].status = s]
  PROVE  LatestRelease' = Contract!Rel(s, LatestRelease.config)
<1>1. /\ history'[r] = [status |-> s, config |-> history[r].config]
      /\ Latest(r)'
  BY MarkedFacts
<1> QED BY <1>1, ReleaseIsLatest, ReleaseIsLatestNext DEF Contract!Rel

\* What LatestIn says is what the contract says of the release.
LEMMA LatestInIsInStatus ==
  ASSUME TypeOK, NEW S \in SUBSET Status
  PROVE  LatestIn(S) <=> Contract!InStatus(S)
<1>1. CASE DOMAIN history = {}
  BY <1>1, ReleaseIsLatest DEF LatestIn, Contract!InStatus, Contract!NoRelease, Contract!Rel, Status
<1>2. CASE DOMAIN history # {}
  BY <1>2, ReleaseIsLatest, LatestUnique DEF LatestIn, Contract!InStatus
<1> QED BY <1>1, <1>2

\* NewClient starts as the contract says.
LEMMA InitImplements == Init => Contract!Init
<1> SUFFICES ASSUME Init PROVE Contract!Init
  OBVIOUS
<1>1. TypeOK
  BY InitInv DEF IInv
<1>2. LatestRelease = Contract!NoRelease
  BY <1>1, ReleaseIsLatest DEF Init
<1> QED BY <1>2 DEF Init, Contract!Init, Phase

\* Every step of the client, every edit, failure and crash is a step of the
\* contract or leaves what the caller sees of the release unchanged.
LEMMA NextImplements ==
  IInv /\ IInv' /\ [Next]_vars => [Contract!Next]_(Contract!vars)
<1> SUFFICES ASSUME IInv, IInv', [Next]_vars PROVE [Contract!Next]_(Contract!vars)
  OBVIOUS
<1>0. TypeOK /\ TypeOK'
  BY DEF IInv
<1> DEFINE Stutter == UNCHANGED <<LatestRelease, Phase, want, result>>
<1>S. Stutter => [Contract!Next]_(Contract!vars)
  BY DEF Contract!vars
<1> USE DEF Contract!Return, Contract!Continue, Contract!Work, Contract!Next
<1>1. CASE InstallOrUpgrade \/ Uninstall
  <2>1. Contract!Start(want')
    BY <1>1, SameStoreSameRelease DEF InstallOrUpgrade, Uninstall, Contract!Start, Phase
  <2>2. want' \in Configs
    BY <1>0 DEF TypeOK
  <2> QED BY <2>1, <2>2 DEF Configs
<1>2. CASE RecoverNothing \/ ApplyDone \/ DeleteDone
           \/ \E o \in Objects : ApplyObject(o) \/ DeleteObject(o)
  BY <1>S, <1>2, SameStoreSameRelease
     DEF RecoverNothing, ApplyDone, DeleteDone, ApplyObject, DeleteObject, Phase
<1>3. CASE RollbackPending
  <2>1. PICK r \in DOMAIN history :
          /\ Latest(r) /\ history[r].status = "pending-upgrade" /\ r - 1 \in DOMAIN history
          /\ history' = Stored(DOMAIN history, r + 1, "pending-rollback", history[r - 1].config)
    BY <1>3 DEF RollbackPending
  <2>2. /\ r + 1 \in Nat \ {0} /\ \A x \in DOMAIN history : x < r + 1
        /\ history[r - 1].config \in Values /\ "pending-rollback" \in Status
    BY <1>0, <2>1 DEF TypeOK, Latest, Status
  <2>3. LatestRelease' = Contract!Rel("pending-rollback", history[r - 1].config)
    BY <1>0, <2>1, <2>2, StoredRelease
  <2>4. Contract!InStatus({"pending-upgrade"})
    BY <1>0, <2>1, ReleaseIsLatest DEF Contract!InStatus
  <2>5. want # Absent
    BY <1>3 DEF RollbackPending, IInv, WantOK
  <2>6. Contract!Recover
    BY <1>3, <2>2, <2>3, <2>4, <2>5 DEF RollbackPending, Contract!Recover, Phase
  <2> QED BY <2>6
<1>4. CASE RemovePendingInstall
  <2>1. PICK r \in DOMAIN history :
          /\ Latest(r) /\ history[r].status = "pending-install"
          /\ history' = [history EXCEPT ![r].status = "uninstalling"]
    BY <1>4 DEF RemovePendingInstall, BeginUninstall
  <2>2. LatestRelease' = Contract!Rel("uninstalling", LatestRelease.config)
    BY <1>0, <2>1, MarkedRelease DEF Status
  <2>3. Contract!InStatus({"pending-install"})
    BY <1>0, <2>1, ReleaseIsLatest DEF Contract!InStatus
  <2>4. want # Absent
    BY <1>4 DEF RemovePendingInstall, IInv, WantOK
  <2>5. Contract!Recover
    BY <1>4, <2>2, <2>3, <2>4
       DEF RemovePendingInstall, BeginUninstall, Contract!Recover, Phase
  <2> QED BY <2>5
<1>5. CASE InstallRelease
  <2>1. CASE DOMAIN history = {}
    <3>1. want \in Values
      BY <1>5 DEF InstallRelease, IInv, WantOK
    <3>2. history' = Stored({}, 1, "pending-install", want)
      BY <1>5, <2>1 DEF InstallRelease
    <3>3. LatestRelease' = Contract!Rel("pending-install", want)
      <4>1. /\ {} \in SUBSET DOMAIN history /\ 1 \in Nat \ {0} /\ "pending-install" \in Status
            /\ \A x \in DOMAIN history : x < 1
        BY <2>1 DEF Status
      <4> QED BY <1>0, <3>1, <3>2, <4>1, StoredRelease
    <3>4. LatestRelease = Contract!NoRelease
      BY <1>0, <2>1, ReleaseIsLatest
    <3>5. Contract!Advance
      BY <1>5, <2>1, <3>1, <3>3, <3>4 DEF InstallRelease, Contract!Advance, Phase
    <3> QED BY <3>5
  <2>2. CASE DOMAIN history # {}
    <3>1. Contract!GiveUp
      BY <1>5, <2>2, SameStoreSameRelease DEF InstallRelease, Return, Contract!GiveUp, Phase
    <3> QED BY <3>1
  <2> QED BY <2>1, <2>2
<1>6. CASE SkipUpgrade
  <2>1. LatestRelease = Contract!Rel("deployed", want)
    BY <1>0, <1>6, ReleaseIsLatest DEF SkipUpgrade, UpToDate, Contract!Rel, TypeOK
  <2>2. want # Absent
    BY <1>6 DEF SkipUpgrade, IInv, WantOK
  <2>3. Contract!Unchanged
    BY <1>6, <2>1, <2>2, SameStoreSameRelease DEF SkipUpgrade, Return, Contract!Unchanged, Phase
  <2> QED BY <2>3
<1>7. CASE UpgradeRelease
  <2>1. PICK r \in DOMAIN history, keep \in SUBSET DOMAIN history :
          /\ Latest(r) /\ history[r].status \in {"deployed", "failed"} /\ ~UpToDate(history[r])
          /\ history' = Stored(keep, r + 1, "pending-upgrade", want)
    BY <1>7 DEF UpgradeRelease, Outdated
  <2>2. r + 1 \in Nat \ {0} /\ \A x \in DOMAIN history : x < r + 1
    BY <1>0, <2>1 DEF TypeOK, Latest
  <2>3. want \in Values
    BY <1>7 DEF UpgradeRelease, IInv, WantOK
  <2>4. LatestRelease' = Contract!Rel("pending-upgrade", want)
    BY <1>0, <2>1, <2>2, <2>3, StoredRelease DEF Status
  <2>5. /\ Contract!InStatus({"deployed", "failed"})
        /\ LatestRelease # Contract!Rel("deployed", want)
    BY <1>0, <2>1, ReleaseIsLatest DEF Contract!InStatus, Contract!Rel, UpToDate
  <2>6. Contract!Advance
    BY <1>7, <2>3, <2>4, <2>5 DEF UpgradeRelease, Contract!Advance, Phase
  <2> QED BY <2>6
<1>8. CASE Supersede
  <2>1. /\ DOMAIN history' = DOMAIN history
        /\ \A x \in DOMAIN history :
             history[x].status # "deployed" => history'[x] = history[x]
    BY <1>0, <1>8 DEF Supersede
  <2>2. PICK r \in DOMAIN history : Latest(r) /\ history[r].status # "deployed"
    BY <1>8 DEF Supersede, IInv, WorkOK, LatestIn
  <2>3. Latest(r)'
    BY <2>1, <2>2 DEF Latest
  <2>4. LatestRelease' = LatestRelease
    BY <1>0, <2>1, <2>2, <2>3, ReleaseIsLatest, ReleaseIsLatestNext
  <2> QED BY <1>S, <1>8, <2>4 DEF Supersede, Phase
<1>9. CASE RecordDeployed
  <2>1. PICK r \in DOMAIN history :
          /\ Latest(r)
          /\ history' = [history EXCEPT ![r].status = "deployed"]
          /\ \/ history[r].status = "pending-rollback" /\ pc' = "current" /\ UNCHANGED result
             \/ history[r].status # "pending-rollback" /\ Return("changed")
    BY <1>9 DEF RecordDeployed
  <2>2. LatestRelease' = Contract!Rel("deployed", LatestRelease.config)
    BY <1>0, <2>1, MarkedRelease DEF Status
  <2>3. Contract!InStatus(Contract!Pending)
    BY <1>0, <1>9, LatestInIsInStatus
       DEF RecordDeployed, IInv, WorkOK, Contract!Pending, Status
  <2>4. Contract!InStatus({"pending-rollback"}) <=> history[r].status = "pending-rollback"
    BY <1>0, <2>1, ReleaseIsLatest DEF Contract!InStatus
  <2>5. Contract!Finish
    BY <1>9, <2>1, <2>2, <2>3, <2>4 DEF RecordDeployed, Return, Contract!Finish, Phase
  <2> QED BY <2>5
<1>10. CASE Purge
  <2>1. PICK r \in DOMAIN history :
          /\ \A s \in DOMAIN history : r <= s
          /\ history' = [x \in (DOMAIN history) \ {r} |-> history[x]]
          /\ \/ DOMAIN history # {r} /\ UNCHANGED <<pc, result>>
             \/ DOMAIN history = {r} /\ want # Absent /\ pc' = "current" /\ UNCHANGED result
             \/ DOMAIN history = {r} /\ want = Absent /\ Return("uninstalled")
    BY <1>10 DEF Purge
  <2>2. /\ DOMAIN history' = (DOMAIN history) \ {r}
        /\ \A x \in DOMAIN history' : history'[x] = history[x]
    BY <2>1
  <2>3. pc = "purge" /\ UNCHANGED want
    BY <1>10 DEF Purge
  <2>4. CASE DOMAIN history # {r}
    <3>1. PICK l \in DOMAIN history : Latest(l)
      BY <1>0, ReleaseIsLatest
    <3>2. l # r
      BY <1>0, <2>1, <2>4, <3>1 DEF Latest, TypeOK
    <3>3. Latest(l)' /\ history'[l] = history[l]
      BY <2>2, <3>1, <3>2 DEF Latest
    <3>4. LatestRelease' = LatestRelease
      BY <1>0, <3>1, <3>3, ReleaseIsLatest, ReleaseIsLatestNext
    <3> QED BY <1>S, <2>1, <2>3, <2>4, <3>4 DEF Phase
  <2>5. CASE DOMAIN history = {r}
    <3>1. LatestRelease' = Contract!NoRelease
      BY <1>0, <2>2, <2>5, ReleaseIsLatestNext
    <3>2. Contract!InStatus({"uninstalling"})
      BY <1>0, <2>3, LatestInIsInStatus DEF IInv, WorkOK, Status
    <3>3. Contract!Purged
      BY <2>1, <2>3, <2>5, <3>1, <3>2 DEF Return, Contract!Purged, Phase
    <3> QED BY <3>3
  <2> QED BY <2>4, <2>5
<1>11. CASE UninstallAbsent
  <2>1. ~Contract!InStatus({"deployed", "failed"})
    BY <1>0, <1>11, LatestInIsInStatus DEF UninstallAbsent, Status
  <2>2. want = Absent
    BY <1>11 DEF UninstallAbsent, IInv, WantOK
  <2>3. Contract!NothingToRemove
    BY <1>11, <2>1, <2>2, SameStoreSameRelease
       DEF UninstallAbsent, Return, Contract!NothingToRemove, Phase
  <2> QED BY <2>3
<1>12. CASE UninstallRelease
  <2>1. PICK r \in DOMAIN history :
          /\ Latest(r) /\ history[r].status \in {"deployed", "failed"}
          /\ history' = [history EXCEPT ![r].status = "uninstalling"]
    BY <1>12 DEF UninstallRelease, BeginUninstall
  <2>2. LatestRelease' = Contract!Rel("uninstalling", LatestRelease.config)
    BY <1>0, <2>1, MarkedRelease DEF Status
  <2>3. Contract!InStatus({"deployed", "failed"})
    BY <1>0, <2>1, ReleaseIsLatest DEF Contract!InStatus
  <2>4. want = Absent
    BY <1>12 DEF UninstallRelease, IInv, WantOK
  <2>5. Contract!Remove
    BY <1>12, <2>2, <2>3, <2>4 DEF UninstallRelease, BeginUninstall, Contract!Remove, Phase
  <2> QED BY <2>5
<1>13. CASE \E d \in Values \union {Absent} : Edit(d)
  BY <1>S, <1>13, SameStoreSameRelease DEF Edit, Phase
<1>14. CASE ApplyFails
  <2>1. PICK r \in DOMAIN history :
          Latest(r) /\ history' = [history EXCEPT ![r].status = "failed"]
    BY <1>14 DEF ApplyFails
  <2>2. LatestRelease' = Contract!Rel("failed", LatestRelease.config)
    BY <1>0, <2>1, MarkedRelease DEF Status
  <2>3. Contract!InStatus(Contract!Pending)
    BY <1>0, <1>14, LatestInIsInStatus
       DEF ApplyFails, IInv, WorkOK, Contract!Pending, Status
  <2>4. Contract!FinishFailed
    BY <1>14, <2>2, <2>3 DEF ApplyFails, Return, Contract!FinishFailed, Phase
  <2> QED BY <2>4
<1>15. CASE DeleteFails \/ ListFails \/ Crash
  <2>1. Contract!GiveUp
    BY <1>0, <1>15, SameStoreSameRelease
       DEF DeleteFails, ListFails, Crash, Return, Contract!GiveUp, Phase, TypeOK, PC
  <2> QED BY <2>1
<1>16. CASE CrashInTrim
  <2>1. PICK r \in DOMAIN history :
          /\ Latest(r) /\ \A x : Latest(x)' <=> x = r
          /\ \A x \in DOMAIN history' : history'[x] = history[x]
    BY <1>16, CrashInTrimFacts
  <2>2. LatestRelease' = LatestRelease
    BY <1>0, <2>1, ReleaseIsLatest, ReleaseIsLatestNext DEF Latest
  <2>3. Contract!GiveUp
    BY <1>16, <2>2 DEF CrashInTrim, Return, Contract!GiveUp, Phase
  <2> QED BY <2>3
<1>17. CASE UNCHANGED vars
  BY <1>S, <1>17, SameStoreSameRelease DEF vars, Phase
<1> QED
  BY <1>1, <1>2, <1>3, <1>4, <1>5, <1>6, <1>7, <1>8, <1>9, <1>10, <1>11, <1>12, <1>13,
     <1>14, <1>15, <1>16, <1>17 DEF Next, Step, Env

\* HelmClient implements Installer, the contract GpuController is built on: for any
\* failures and crashes, the latest revision moves only as a call allows, and what
\* a call returns is true of the release at that moment.
THEOREM Implements == Spec => ContractSpec
BY InitImplements, NextImplements, Invariance, PTL DEF Spec, ContractSpec, Contract!Spec

=============================================================================
