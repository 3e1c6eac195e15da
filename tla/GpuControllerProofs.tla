-------------------------- MODULE GpuControllerProofs --------------------------
(***************************************************************************)
(* What the reconciler never does, for any CRs, specs, clusters and        *)
(* bounds, and with failures and crashes anywhere.  What is said of the    *)
(* release is on the condition that users do not create the CR that the    *)
(* operator looks after with the finalizer already on.                     *)
(*                                                                         *)
(* The difficulty is that the reconciler decides by its cache, which lags  *)
(* behind the API server.  Chain says how far the two can be apart.  The   *)
(* last part shows that no CR is forgotten (Vigilant).                     *)
(***************************************************************************)
EXTENDS GpuControllerTypes

HasFinalizer(cr) == cr # NoCR /\ cr.finalizer
IsDeleting(cr) == cr # NoCR /\ cr.deleting

\* A CR that the operator is looking after.
Held(cr) == HasFinalizer(cr) /\ ~IsDeleting(cr)

\* How the versions of a CR follow each other: latest is at the API server, cached
\* in the cache, and those of seq in between.  Held versions are followed by versions
\* with the finalizer until one that is being deleted has reached the cache.
Chain(latest, cached, seq) ==
  /\ IF seq = <<>> THEN cached = latest ELSE seq[Len(seq)] = latest
  /\ \A i \in 1..Len(seq) :
       /\ Held(cached) => HasFinalizer(seq[i])
       /\ Held(seq[i]) => ~IsDeleting(cached)
  /\ \A i, j \in 1..Len(seq) : i < j =>
       /\ Held(seq[i]) => HasFinalizer(seq[j])
       /\ Held(seq[j]) => ~IsDeleting(seq[i])
       /\ IsDeleting(seq[i]) => IsDeleting(seq[j])

NoneHeld(cached, seq) == ~Held(cached) /\ \A i \in 1..Len(seq) : ~Held(seq[i])

Calling == {"installing", "removing"}
Reporting == {"driver", "policy", "status"}
Deletion == {"deleting", "workloads", "removing", "namespace", "finalizer"}

\* A release that Uninstall removes.
Whole == release.status \in {"deployed", "failed"}

\* The reconcile knows the CR: an installation belongs to a CR with the finalizer,
\* and the deletion goes on under a CR that is being deleted, or that has long been
\* replaced after its release was removed.
KnowsTheCR ==
  /\ Chain(api[Expected], cache[Expected], pipe[Expected])
  /\ pc = "installing" => HasFinalizer(api[Expected])
  /\ pc \in Deletion => NoneHeld(cache[Expected], pipe[Expected])
  /\ pc \in Deletion /\ Whole => IsDeleting(api[Expected])
  /\ IsDeleting(cache[Expected]) /\ ~IsDeleting(api[Expected]) => pc # "installing" /\ ~Whole

\* Where the call to the Installer stands.
KnowsTheCall ==
  /\ phase = "idle" <=> pc \notin Calling
  /\ pc = "installing" => want # Absent
  /\ pc = "removing" => want = Absent
  /\ phase = "acting" /\ release.status \in Helm!Pending =>
       /\ pc = "installing" /\ ns # "terminating"
       /\ release.status # "pending-rollback" => release.config = want

\* What the namespace holds.
KnowsTheNamespace ==
  /\ release # Helm!NoRelease => ns # "none"
  /\ pc = "namespace" => ~Whole
  /\ pc = "finalizer" /\ release # Helm!NoRelease => ns = "terminating"

Safe ==
  /\ KnowsTheCR /\ KnowsTheCall /\ KnowsTheNamespace
  /\ NoOrphanedRelease /\ NamespaceAfterRelease /\ ReportedReleaseExists
-----------------------------------------------------------------------------
(* Versions of a CR.                                                        *)

\* A cache that is up to date.
LEMMA ChainFresh == \A cr : Chain(cr, cr, <<>>)
<1>1. Len(<<>>) = 0
  BY EmptySeq
<1> QED BY <1>1 DEF Chain

\* A new version that takes no finalizer away, unless there is no held version to
\* be seen; that is held only if the latest was, or if the cache was up to date;
\* and that is being deleted if the latest was, or if the cache was up to date.
LEMMA ChainAppend ==
  ASSUME NEW S, NEW seq \in Seq(S), NEW obj \in S, NEW latest, NEW cached,
         Chain(latest, cached, seq),
         HasFinalizer(latest) => HasFinalizer(obj) \/ NoneHeld(cached, seq),
         Held(obj) => Held(latest) \/ (seq = <<>> /\ ~IsDeleting(cached)),
         IsDeleting(latest) => IsDeleting(obj) \/ seq = <<>>
  PROVE  /\ Chain(obj, cached, Append(seq, obj))
         /\ NoneHeld(cached, seq) /\ ~Held(obj) => NoneHeld(cached, Append(seq, obj))
<1> DEFINE new == Append(seq, obj)
<1>1. /\ new \in Seq(S) /\ Len(new) = Len(seq) + 1 /\ Len(seq) \in Nat
      /\ \A i \in 1..Len(seq) : new[i] = seq[i]
      /\ new[Len(seq) + 1] = obj
  BY AppendProperties, LenProperties
<1>2. new # <<>>
  BY <1>1, EmptySeq
<1>3. seq = <<>> <=> Len(seq) = 0
  BY EmptySeq
<1> HIDE DEF new
<1>4. \A i \in 1..Len(seq) : /\ Held(seq[i]) => HasFinalizer(obj)
                             /\ Held(obj) => ~IsDeleting(seq[i])
                             /\ IsDeleting(seq[i]) => IsDeleting(obj)
  <2> SUFFICES ASSUME NEW i \in 1..Len(seq)
               PROVE  /\ Held(seq[i]) => HasFinalizer(obj)
                      /\ Held(obj) => ~IsDeleting(seq[i])
                      /\ IsDeleting(seq[i]) => IsDeleting(obj)
    OBVIOUS
  <2>1. Len(seq) # 0 /\ seq # <<>> /\ seq[Len(seq)] = latest /\ Len(seq) \in 1..Len(seq)
    BY <1>1, <1>3 DEF Chain
  <2>2. CASE i = Len(seq)
    BY <2>1, <2>2 DEF Held, NoneHeld
  <2>3. CASE i < Len(seq)
    <3>1. /\ Held(seq[i]) => HasFinalizer(latest)
          /\ Held(latest) => ~IsDeleting(seq[i])
          /\ IsDeleting(seq[i]) => IsDeleting(latest)
      BY <2>1, <2>3 DEF Chain
    <3> QED BY <2>1, <3>1 DEF NoneHeld
  <2> QED BY <1>1, <2>2, <2>3
<1>5. /\ Held(cached) => HasFinalizer(obj)
      /\ Held(obj) => ~IsDeleting(cached)
  <2>1. CASE seq = <<>>
    BY <2>1 DEF Chain, Held, NoneHeld
  <2>2. CASE seq # <<>>
    <3>1. seq[Len(seq)] = latest /\ Len(seq) \in 1..Len(seq)
      BY <1>1, <1>3, <2>2 DEF Chain
    <3>2. /\ Held(cached) => HasFinalizer(latest)
          /\ Held(latest) => ~IsDeleting(cached)
      BY <3>1 DEF Chain
    <3> QED BY <2>2, <3>2 DEF NoneHeld
  <2> QED BY <2>1, <2>2
<1>6. \A i \in 1..Len(new) : /\ Held(cached) => HasFinalizer(new[i])
                             /\ Held(new[i]) => ~IsDeleting(cached)
  BY <1>1, <1>5 DEF Chain
<1>7. \A i, j \in 1..Len(new) : i < j =>
        /\ Held(new[i]) => HasFinalizer(new[j])
        /\ Held(new[j]) => ~IsDeleting(new[i])
        /\ IsDeleting(new[i]) => IsDeleting(new[j])
  BY <1>1, <1>4 DEF Chain
<1>8. Chain(obj, cached, new)
  BY <1>1, <1>2, <1>6, <1>7 DEF Chain
<1>9. NoneHeld(cached, seq) /\ ~Held(obj) => NoneHeld(cached, new)
  BY <1>1 DEF NoneHeld
<1> QED BY <1>8, <1>9 DEF new

\* The next version reaches the cache.
LEMMA ChainTail ==
  ASSUME NEW S, NEW seq \in Seq(S), NEW latest, NEW cached, Chain(latest, cached, seq), seq # <<>>
  PROVE  /\ Chain(latest, Head(seq), Tail(seq))
         /\ NoneHeld(cached, seq) => NoneHeld(Head(seq), Tail(seq))
         /\ IsDeleting(Head(seq)) => IsDeleting(latest)
<1> DEFINE rest == Tail(seq)
<1>1. /\ rest \in Seq(S) /\ Len(rest) = Len(seq) - 1 /\ Len(seq) \in Nat /\ Len(seq) # 0
      /\ \A i \in 1..Len(rest) : rest[i] = seq[i + 1]
  BY HeadTailProperties, EmptySeq, LenProperties
<1>2. rest = <<>> <=> Len(rest) = 0
  BY <1>1, EmptySeq
<1>3. Head(seq) = seq[1]
  OBVIOUS
<1> HIDE DEF rest
<1>4. IF rest = <<>> THEN seq[1] = latest ELSE rest[Len(rest)] = latest
  BY <1>1, <1>2 DEF Chain
<1>a. \A i, j \in 1..Len(seq) : i < j =>
        /\ Held(seq[i]) => HasFinalizer(seq[j])
        /\ Held(seq[j]) => ~IsDeleting(seq[i])
        /\ IsDeleting(seq[i]) => IsDeleting(seq[j])
  BY DEF Chain
<1>b. \A i \in 1..Len(rest) : i + 1 \in 1..Len(seq) /\ 1 \in 1..Len(seq) /\ 1 < i + 1
  BY <1>1
<1>5. \A i \in 1..Len(rest) : /\ Held(seq[1]) => HasFinalizer(rest[i])
                              /\ Held(rest[i]) => ~IsDeleting(seq[1])
                              /\ IsDeleting(seq[1]) => IsDeleting(rest[i])
  BY <1>1, <1>a, <1>b
<1>6. ASSUME NEW i \in 1..Len(rest), NEW j \in 1..Len(rest), i < j
      PROVE  /\ Held(rest[i]) => HasFinalizer(rest[j])
             /\ Held(rest[j]) => ~IsDeleting(rest[i])
             /\ IsDeleting(rest[i]) => IsDeleting(rest[j])
  <2>1. i + 1 < j + 1
    BY <1>6
  <2> QED BY <1>1, <1>a, <1>b, <2>1
<1>7. Chain(latest, seq[1], rest)
  BY <1>4, <1>5, <1>6 DEF Chain
<1>8. NoneHeld(cached, seq) => NoneHeld(seq[1], rest)
  BY <1>1 DEF NoneHeld
<1>9. IsDeleting(seq[1]) => IsDeleting(latest)
  BY <1>1, <1>2, <1>4, <1>5
<1> QED BY <1>3, <1>7, <1>8, <1>9 DEF rest

\* What the cache says of the latest version.
LEMMA ChainCached ==
  ASSUME NEW S, NEW seq \in Seq(S), NEW latest, NEW cached, Chain(latest, cached, seq)
  PROVE  /\ Held(cached) => HasFinalizer(latest)
         /\ IsDeleting(cached) => NoneHeld(cached, seq)
<1>1. CASE seq = <<>>
  BY <1>1, EmptySeq DEF Chain, Held, NoneHeld
<1>2. CASE seq # <<>>
  <2>1. Len(seq) \in 1..Len(seq) /\ seq[Len(seq)] = latest
    BY <1>2, EmptySeq DEF Chain
  <2> QED BY <2>1 DEF Chain, Held, NoneHeld
<1> QED BY <1>1, <1>2

-----------------------------------------------------------------------------
(* The invariant is inductive.                                              *)

\* The CR gpu stays as it is, but for its spec and conditions, and so does its cache.
StatusOnly ==
  /\ cache'[Expected] = cache[Expected]
  /\ \/ api'[Expected] = api[Expected] /\ pipe'[Expected] = pipe[Expected]
     \/ \E obj \in CR : /\ SameBut(Expected, obj) /\ api'[Expected] = obj
                        /\ pipe'[Expected] = Append(pipe[Expected], obj)

\* What that means for the invariant.
LEMMA StatusOnlyKeeps ==
  ASSUME TypeOK, Chain(api[Expected], cache[Expected], pipe[Expected]), StatusOnly
  PROVE  /\ Chain(api[Expected], cache[Expected], pipe[Expected])'
         /\ NoneHeld(cache[Expected], pipe[Expected])
              => NoneHeld(cache[Expected], pipe[Expected])'
         /\ HasFinalizer(api[Expected])' <=> HasFinalizer(api[Expected])
         /\ IsDeleting(api[Expected])' <=> IsDeleting(api[Expected])
         /\ IsDeleting(cache[Expected])' <=> IsDeleting(cache[Expected])
<1>1. CASE api'[Expected] = api[Expected] /\ pipe'[Expected] = pipe[Expected]
  BY <1>1 DEF StatusOnly
<1>2. ASSUME NEW obj \in CR, SameBut(Expected, obj), api'[Expected] = obj,
             pipe'[Expected] = Append(pipe[Expected], obj)
      PROVE  /\ Chain(api[Expected], cache[Expected], pipe[Expected])'
             /\ NoneHeld(cache[Expected], pipe[Expected])
                  => NoneHeld(cache[Expected], pipe[Expected])'
             /\ HasFinalizer(api[Expected])' <=> HasFinalizer(api[Expected])
             /\ IsDeleting(api[Expected])' <=> IsDeleting(api[Expected])
             /\ IsDeleting(cache[Expected])' <=> IsDeleting(cache[Expected])
  <2>1. /\ HasFinalizer(obj) <=> HasFinalizer(api[Expected])
        /\ IsDeleting(obj) <=> IsDeleting(api[Expected])
        /\ Held(obj) <=> Held(api[Expected])
    BY <1>2, AbsenceAssumption DEF SameBut, HasFinalizer, IsDeleting, Held
  <2>2. pipe[Expected] \in Seq(CR \union {NoCR})
    BY NamesAssumption DEF TypeOK
  <2>3. ~Held(api[Expected]) \/ ~NoneHeld(cache[Expected], pipe[Expected])
    <3>1. CASE pipe[Expected] = <<>>
      BY <3>1 DEF Chain, NoneHeld
    <3>2. CASE pipe[Expected] # <<>>
      <4>1. Len(pipe[Expected]) \in 1..Len(pipe[Expected])
        BY <2>2, <3>2, EmptySeq
      <4> QED BY <3>2, <4>1 DEF Chain, NoneHeld
    <3> QED BY <3>1, <3>2
  <2>4. /\ Chain(obj, cache[Expected], Append(pipe[Expected], obj))
        /\ NoneHeld(cache[Expected], pipe[Expected]) /\ ~Held(obj)
             => NoneHeld(cache[Expected], Append(pipe[Expected], obj))
    BY <2>1, <2>2, ChainAppend
  <2> QED BY <1>2, <2>1, <2>3, <2>4 DEF StatusOnly
<1> QED BY <1>1, <1>2 DEF StatusOnly

\* The reconcile goes on to report, or to delete, or ends.
Moves ==
  \/ pc' = pc
  \/ pc \notin Calling /\ pc' \in {"idle", "warn", "error"}
  \/ pc \in Reporting /\ pc' \in Reporting
  \/ pc = "deleting" /\ pc' = "workloads"

\* Most steps.
LEMMA MovesKeepsSafe ==
  ASSUME TypeOK, Safe, StatusOnly, Moves, UNCHANGED <<helm, ns>>
  PROVE  Safe'
<1>1. UNCHANGED <<release, phase, want, result, ns>>
  BY DEF helm
<1>2. Whole' <=> Whole
  BY <1>1 DEF Whole
<1>3. /\ pc' \in Calling => pc' = pc
      /\ pc' \notin Calling => pc \notin Calling
      /\ pc' = "installing" => pc = "installing"
      /\ pc' = "removing" => pc = "removing"
      /\ pc' = "namespace" => pc = "namespace"
      /\ pc' = "finalizer" => pc = "finalizer"
      /\ pc' \in Deletion => pc \in Deletion
      /\ pc' \in Reporting => pc \in Reporting
  BY DEF Moves, Calling, Deletion, Reporting
<1>4. KnowsTheCR'
  BY <1>2, <1>3, StatusOnlyKeeps DEF Safe, KnowsTheCR
<1>5. KnowsTheCall'
  BY <1>1, <1>3 DEF Safe, KnowsTheCall, Calling
<1>6. KnowsTheNamespace'
  BY <1>1, <1>2, <1>3 DEF Safe, KnowsTheNamespace
<1>7. NoOrphanedRelease'
  <2>1. HasFinalizer(api[Expected])' <=> HasFinalizer(api[Expected])
    BY StatusOnlyKeeps DEF Safe, KnowsTheCR
  <2> QED BY <1>1, <2>1 DEF Safe, NoOrphanedRelease, HasFinalizer
<1>8. NamespaceAfterRelease' /\ ReportedReleaseExists'
  BY <1>1, <1>3 DEF Safe, NamespaceAfterRelease, ReportedReleaseExists, Reporting
<1> QED BY <1>4, <1>5, <1>6, <1>7, <1>8 DEF Safe

\* What storing a version of a CR means for it and for the others.
LEMMA StoredIs ==
  ASSUME K8sOK, NEW n \in CRs, NEW obj, Stored(n, obj)
  PROVE  /\ api'[n] = obj /\ pipe'[n] = Append(pipe[n], obj)
         /\ \A m \in CRs \ {n} : api'[m] = api[m] /\ pipe'[m] = pipe[m]
BY DEF K8sOK, Stored

\* A status update changes conditions only (applyStatus, 386-431).
LEMMA AppliedIsStatusOnly ==
  ASSUME TypeOK, NEW n \in CRs, NEW upd \in Updates, NEW includeReady \in BOOLEAN,
         NEW ok \in BOOLEAN, ApplyStatus(n, upd, includeReady, ok), UNCHANGED cache
  PROVE  StatusOnly
<1>1. K8sOK /\ BoundsOK
  BY TypeParts
<1>2. UNCHANGED <<api, pipe>> \/ \E obj \in CR : SameBut(n, obj) /\ Stored(n, obj)
  BY <1>1, ApplyStatusStores
<1>3. CASE UNCHANGED <<api, pipe>>
  BY <1>3 DEF StatusOnly
<1>4. ASSUME NEW obj \in CR, SameBut(n, obj), Stored(n, obj)
      PROVE  StatusOnly
  BY <1>1, <1>4, StoredIs, NamesAssumption DEF StatusOnly
<1> QED BY <1>2, <1>3, <1>4

\* A step of another CR, or of none, leaves the CR gpu alone.
LEMMA OtherIsStatusOnly ==
  ASSUME TypeOK, NEW n \in CRs, n # Expected, UNCHANGED cache,
         UNCHANGED <<api, pipe>> \/ \E obj : Stored(n, obj)
  PROVE  StatusOnly
BY StoredIs, TypeParts, NamesAssumption DEF StatusOnly

\* The steps that report, and end the reconcile.
LEMMA ReportKeepsSafe ==
  ASSUME TypeOK, Safe,
         \/ PreflightWarn \/ PreflightError \/ InstallFailed \/ UpdateStatus
         \/ MarkUninstalling \/ DeletionBlocked
  PROVE  Safe'
<1>1. CASE PreflightWarn
  <2>1. PICK ok \in BOOLEAN :
          ApplyStatus(Expected, [Preflight |-> <<"Unknown", "Waiting">>],
                      FALSE, ok)
    BY <1>1 DEF PreflightWarn
  <2>2. StatusOnly
    BY <1>1, <2>1, NamesAssumption, UpdatesOK, AppliedIsStatusOnly DEF PreflightWarn
  <2>3. Moves /\ UNCHANGED <<helm, ns>>
    BY <1>1 DEF PreflightWarn, Finish, Moves, Calling
  <2> QED BY <2>2, <2>3, MovesKeepsSafe
<1>2. CASE PreflightError
  <2>1. PICK ok \in BOOLEAN :
          ApplyStatus(Expected, [Preflight |-> <<"False", "Failed">>],
                      FALSE, ok)
    BY <1>2 DEF PreflightError
  <2>2. StatusOnly
    BY <1>2, <2>1, NamesAssumption, UpdatesOK, AppliedIsStatusOnly DEF PreflightError
  <2>3. Moves /\ UNCHANGED <<helm, ns>>
    BY <1>2 DEF PreflightError, Finish, Moves, Calling
  <2> QED BY <2>2, <2>3, MovesKeepsSafe
<1>3. CASE InstallFailed
  <2>1. PICK ok \in BOOLEAN :
          ApplyStatus(Expected, [Preflight |-> Passed, HelmInstalled |-> <<"False", "Failed">>],
                      FALSE, ok)
    BY <1>3 DEF InstallFailed
  <2>2. StatusOnly
    BY <1>3, <2>1, NamesAssumption, UpdatesOK, AppliedIsStatusOnly DEF InstallFailed
  <2>3. Moves /\ UNCHANGED <<helm, ns>>
    BY <1>3 DEF InstallFailed, Finish, Moves, Calling
  <2> QED BY <2>2, <2>3, MovesKeepsSafe
<1>4. CASE UpdateStatus
  <2>1. PICK ok \in BOOLEAN :
          ApplyStatus(Expected, [Preflight |-> Passed, HelmInstalled |-> <<"True", "Installed">>,
                      DriverReady |-> seen.DriverReady, ValidatorPassed |-> seen.ValidatorPassed],
                      TRUE, ok)
    BY <1>4 DEF UpdateStatus
  <2>a. seen.DriverReady \in CondStatus \X Reasons /\ seen.ValidatorPassed \in CondStatus \X Reasons
    BY DEF TypeOK
  <2>2. StatusOnly
    BY <1>4, <2>1, <2>a, NamesAssumption, UpdatesOK, AppliedIsStatusOnly DEF UpdateStatus
  <2>3. Moves /\ UNCHANGED <<helm, ns>>
    BY <1>4 DEF UpdateStatus, Finish, Moves, Calling
  <2> QED BY <2>2, <2>3, MovesKeepsSafe
<1>5. CASE MarkUninstalling
  <2>1. PICK ok \in BOOLEAN :
          ApplyStatus(Expected, [HelmInstalled |-> <<"Unknown", "Uninstalling">>],
                      FALSE, ok)
    BY <1>5 DEF MarkUninstalling
  <2>2. StatusOnly
    BY <1>5, <2>1, NamesAssumption, UpdatesOK, AppliedIsStatusOnly DEF MarkUninstalling
  <2>3. Moves /\ UNCHANGED <<helm, ns>>
    BY <1>5 DEF MarkUninstalling, Moves
  <2> QED BY <2>2, <2>3, MovesKeepsSafe
<1>6. CASE DeletionBlocked
  <2>1. PICK ok \in BOOLEAN :
          ApplyStatus(Expected, [WorkloadProtection |-> <<"False", "ActiveGPUWorkloads">>],
                      FALSE, ok)
    BY <1>6 DEF DeletionBlocked
  <2>2. StatusOnly
    BY <1>6, <2>1, NamesAssumption, UpdatesOK, AppliedIsStatusOnly DEF DeletionBlocked
  <2>3. Moves /\ UNCHANGED <<helm, ns>>
    BY <1>6 DEF DeletionBlocked, Finish, Moves, Calling
  <2> QED BY <2>2, <2>3, MovesKeepsSafe
<1> QED BY <1>1, <1>2, <1>3, <1>4, <1>5, <1>6

\* Steps that leave the CRs, the release and the namespace alone.
LEMMA QuietKeepsSafe ==
  ASSUME TypeOK, Safe, Cluster \/ CheckDriver \/ CheckClusterPolicy \/ UNCHANGED vars,
         ~NamespaceGone
  PROVE  Safe'
<1>1. UNCHANGED k8s /\ Moves /\ UNCHANGED <<helm, ns>>
  BY DEF Cluster, NodeChanges, PodChanges, DriverFollows, DriverSetback, PolicyFollows,
         PolicySetback, CheckDriver, CheckClusterPolicy, vars, Moves, Reporting
<1>2. StatusOnly
  BY <1>1 DEF k8s, StatusOnly
<1> QED BY <1>1, <1>2, MovesKeepsSafe

\* A step that leaves the CRs alone and begins a call to the Installer or a deletion.
LEMMA BeginKeepsSafe ==
  ASSUME TypeOK, Safe, UNCHANGED <<k8s, ns, release>>, pc \notin Calling,
         \/ /\ pc' = "installing" /\ Held(cache[Expected])
            /\ phase' = "called" /\ want' # Absent
         \/ /\ pc' = "removing" /\ pc = "workloads"
            /\ phase' = "called" /\ want' = Absent
         \/ pc' = "deleting" /\ IsDeleting(cache[Expected]) /\ UNCHANGED helm
  PROVE  Safe'
<1>1. /\ Chain(api[Expected], cache[Expected], pipe[Expected])
      /\ pipe[Expected] \in Seq(CR \union {NoCR})
  BY NamesAssumption DEF Safe, KnowsTheCR, TypeOK
<1>2. UNCHANGED <<api, pipe, cache, release, ns>> /\ (Whole' <=> Whole)
  BY DEF k8s, Whole
<1>3. /\ Held(cache[Expected]) => HasFinalizer(api[Expected]) /\ ~IsDeleting(cache[Expected])
      /\ IsDeleting(cache[Expected]) => NoneHeld(cache[Expected], pipe[Expected])
  BY <1>1, ChainCached DEF Held
<1>4. KnowsTheCR'
  <2>1. CASE pc' = "installing"
    BY <1>2, <1>3, <2>1 DEF Safe, KnowsTheCR, Deletion
  <2>2. CASE pc' \in {"removing", "deleting"}
    BY <1>2, <1>3, <2>2 DEF Safe, KnowsTheCR, Deletion
  <2> QED BY <2>1, <2>2
<1>5. KnowsTheCall'
  BY <1>2 DEF Safe, KnowsTheCall, Calling, helm
<1>6. KnowsTheNamespace' /\ NoOrphanedRelease' /\ NamespaceAfterRelease' /\ ReportedReleaseExists'
  BY <1>2 DEF Safe, KnowsTheNamespace, NoOrphanedRelease, NamespaceAfterRelease, ReportedReleaseExists
<1> QED BY <1>4, <1>5, <1>6 DEF Safe

\* The steps that a reconcile of n begins with.
LEMMA ReconcileKeepsSafe ==
  ASSUME TypeOK, Safe, NEW n \in CRs, Reconcile(n)
  PROVE  Safe'
<1>1. CASE ReconcileNothing(n) \/ NodesUnreadable(n)
  <2>1. StatusOnly /\ Moves /\ UNCHANGED <<helm, ns>>
    BY <1>1 DEF ReconcileNothing, NodesUnreadable, Take, Finish, k8s, StatusOnly, Moves, Calling
  <2> QED BY <2>1, MovesKeepsSafe
<1>2. CASE ReconcileRogue(n)
  <2>1. PICK ok \in BOOLEAN : ApplyStatus(n, [Ready |-> <<"False", "ForbiddenCRName">>], FALSE, ok)
    BY <1>2 DEF ReconcileRogue
  <2>2. StatusOnly
    BY <1>2, <2>1, UpdatesOK, AppliedIsStatusOnly DEF ReconcileRogue
  <2>3. Moves /\ UNCHANGED <<helm, ns>>
    BY <1>2 DEF ReconcileRogue, Take, Finish, Moves, Calling
  <2> QED BY <2>2, <2>3, MovesKeepsSafe
<1>3. CASE AddFinalizer(n)
  <2> DEFINE obj == [cache[n] EXCEPT !.finalizer = TRUE]
  <2>1. PICK ok \in BOOLEAN : Update(n, obj, ok) /\ Finish(n, ~ok)
    BY <1>3 DEF AddFinalizer
  <2>2. n = Expected /\ cache[n] \in CR /\ ~cache[n].deleting /\ pc = "idle" /\ pc' = "idle"
    BY <1>3, <2>1 DEF AddFinalizer, Live, Take, Finish, TypeOK
  <2>3. obj \in CR /\ obj.finalizer /\ ~obj.deleting
    BY <2>2 DEF CR
  <2> HIDE DEF obj
  <2>4. UNCHANGED <<cache, helm, ns>>
    BY <1>3 DEF AddFinalizer
  <2>5. \/ UNCHANGED <<api, pipe>>
        \/ pipe[n] = <<>> /\ api[n] # NoCR /\ Stored(n, obj)
    BY <2>1, <2>3, <2>4, TypeParts, UpdateStores
  <2>6. CASE UNCHANGED <<api, pipe>>
    <3>1. StatusOnly /\ Moves
      BY <2>2, <2>4, <2>6 DEF StatusOnly, Moves
    <3> QED BY <2>4, <3>1, MovesKeepsSafe
  <2>7. CASE pipe[n] = <<>> /\ Stored(n, obj)
    <3>1. /\ api'[Expected] = obj /\ pipe'[Expected] = Append(pipe[Expected], obj)
          /\ cache'[Expected] = cache[Expected]
      BY <2>2, <2>4, <2>7, StoredIs, TypeParts
    <3>2. /\ HasFinalizer(obj) /\ ~IsDeleting(obj) /\ ~IsDeleting(cache[Expected])
          /\ ~IsDeleting(api[Expected])
      BY <2>2, <2>3, <2>7, AbsenceAssumption DEF HasFinalizer, IsDeleting, Safe, KnowsTheCR, Chain
    <3>3. pipe[Expected] \in Seq(CR \union {NoCR})
      BY NamesAssumption DEF TypeOK
    <3>4. Chain(api[Expected], cache[Expected], pipe[Expected])'
      BY <2>2, <2>3, <2>7, <3>1, <3>2, <3>3, ChainAppend DEF Safe, KnowsTheCR
    <3>5. KnowsTheCR'
      BY <2>2, <3>1, <3>2, <3>4 DEF KnowsTheCR, Deletion
    <3>6. KnowsTheCall' /\ KnowsTheNamespace' /\ NamespaceAfterRelease' /\ ReportedReleaseExists'
      BY <2>2, <2>4 DEF Safe, KnowsTheCall, KnowsTheNamespace, NamespaceAfterRelease,
                        ReportedReleaseExists, Calling, helm, Whole
    <3>7. NoOrphanedRelease'
      BY <3>1, <3>2 DEF NoOrphanedRelease, HasFinalizer
    <3> QED BY <3>5, <3>6, <3>7 DEF Safe
  <2> QED BY <2>5, <2>6, <2>7
<1>4. CASE ReconcilePreflight(n)
  <2>1. /\ n = Expected /\ pc = "idle" /\ UNCHANGED <<k8s, ns>>
        /\ cache[n] # NoCR /\ ~cache[n].deleting /\ cache[n].finalizer
    BY <1>4 DEF ReconcilePreflight, Take, Live
  <2>2. CASE pc' \in {"warn", "error"} /\ UNCHANGED helm
    <3>1. StatusOnly /\ Moves
      BY <2>1, <2>2 DEF StatusOnly, Moves, k8s, Calling
    <3> QED BY <2>1, <2>2, <3>1, MovesKeepsSafe
  <2>3. CASE /\ pc' = "installing" /\ RunPreflight(nodes).outcome = "Proceed"
             /\ Helm!Start(<<cache[n].spec, RunPreflight(nodes).os>>)
    <3>1. cache[n].spec \in Specs
      BY <2>1 DEF TypeOK, CR
    <3>2. <<cache[n].spec, RunPreflight(nodes).os>> \in Configs
      BY <2>3, <3>1, ProceedOS, TypeParts DEF Configs
    <3>3. phase' = "called" /\ want' # Absent /\ UNCHANGED release
      BY <2>3, <3>2, AbsenceAssumption DEF Helm!Start
    <3>4. Held(cache[Expected])
      BY <2>1 DEF Held, HasFinalizer, IsDeleting
    <3>5. pc \notin Calling
      BY <2>1 DEF Calling
    <3> QED BY <2>1, <2>3, <3>3, <3>4, <3>5, BeginKeepsSafe
  <2> QED BY <1>4, <2>2, <2>3 DEF ReconcilePreflight
<1>5. CASE DropRogueFinalizer(n)
  <2>1. PICK ok \in BOOLEAN : Update(n, WithoutFinalizer(cache[n]), ok)
    BY <1>5 DEF DropRogueFinalizer
  <2>2. n # Expected /\ cache[n] \in CR
    BY <1>5 DEF DropRogueFinalizer, Deleting, TypeOK
  <2>3. UNCHANGED cache /\ Moves /\ UNCHANGED <<helm, ns>>
    BY <1>5 DEF DropRogueFinalizer, Take, Finish, Moves, Calling
  <2>4. UNCHANGED <<api, pipe>> \/ Stored(n, WithoutFinalizer(cache[n]))
    BY <2>1, <2>2, <2>3, WithoutFinalizerOK, UpdateStores, TypeParts
  <2>5. StatusOnly
    BY <2>2, <2>3, <2>4, OtherIsStatusOnly
  <2> QED BY <2>3, <2>5, MovesKeepsSafe
<1>6. CASE ReconcileDelete(n)
  <2>1. /\ pc \notin Calling /\ pc' = "deleting" /\ IsDeleting(cache[Expected])
        /\ UNCHANGED <<k8s, ns, helm>>
    BY <1>6 DEF ReconcileDelete, Take, Deleting, IsDeleting, Calling
  <2> QED BY <2>1, BeginKeepsSafe DEF helm
<1> QED BY <1>1, <1>2, <1>3, <1>4, <1>5, <1>6 DEF Reconcile

\* How the Installer moves the release during a reconcile: it creates only for a
\* reconcile that installs, in a namespace that is not on its way out; what it
\* completes, it completes for such a reconcile as well; and only a reconcile that
\* deletes makes it remove a complete or failed release.
LEMMA WorkFacts ==
  ASSUME TypeOK, Safe, HelmWorks
  PROVE  /\ want' = want /\ UNCHANGED <<api, pipe, cache>>
         /\ phase' = "idle" <=> pc' \notin Calling
         /\ \/ pc' = pc
            \/ pc = "installing" /\ pc' = "driver" /\ release' = Helm!Rel("deployed", want)
            \/ pc = "removing" /\ pc' = "namespace" /\ ~Whole'
         /\ Whole' => Whole \/ (pc = "installing" /\ ns # "terminating")
         /\ phase' = "acting" /\ release'.status \in Helm!Pending =>
              /\ pc = "installing" /\ ns # "terminating"
              /\ release'.status # "pending-rollback" => release'.config = want
         /\ release' # Helm!NoRelease =>
              \/ release # Helm!NoRelease /\ ns' = ns
              \/ pc = "installing" /\ ns' = "active"
         /\ ns' = "terminating" => ns = "terminating"
         /\ Whole /\ release'.status = "uninstalling" => pc = "removing"
<1> USE DEF Helm!Pending, Helm!Rel, Helm!NoRelease, Helm!InStatus, Helm!Continue, Helm!Return,
            Whole, Calling
<1>1. /\ pc \in Calling /\ (Creates => ns # "terminating")
      /\ ns' = (IF Creates THEN "active" ELSE ns) /\ AfterHelm /\ UNCHANGED <<api, pipe, cache>>
  BY DEF HelmWorks, k8s
<1>2. /\ pc = "installing" => want # Absent
      /\ pc = "removing" => want = Absent
      /\ phase = "acting" /\ release.status \in Helm!Pending =>
           /\ pc = "installing" /\ ns # "terminating"
           /\ release.status # "pending-rollback" => release.config = want
  BY DEF Safe, KnowsTheCall
<1>3. CASE Helm!Recover
  BY <1>1, <1>2, <1>3 DEF Helm!Recover, AfterHelm, Creates
<1>4. CASE Helm!Advance
  BY <1>1, <1>2, <1>4 DEF Helm!Advance, AfterHelm, Creates
<1>5. CASE Helm!Unchanged
  BY <1>1, <1>2, <1>5 DEF Helm!Unchanged, AfterHelm, Creates
<1>6. CASE Helm!Finish
  BY <1>1, <1>2, <1>6 DEF Helm!Finish, AfterHelm, Creates
<1>7. CASE Helm!Remove
  BY <1>1, <1>2, <1>7 DEF Helm!Remove, AfterHelm, Creates
<1>8. CASE Helm!Purged
  BY <1>1, <1>2, <1>8 DEF Helm!Purged, AfterHelm, Creates
<1>9. CASE Helm!NothingToRemove
  BY <1>1, <1>2, <1>9 DEF Helm!NothingToRemove, AfterHelm, Creates
<1> QED BY <1>3, <1>4, <1>5, <1>6, <1>7, <1>8, <1>9 DEF HelmWorks, Helm!Work

\* The Installer at work.
LEMMA HelmWorksKeepsSafe ==
  ASSUME TypeOK, Safe, HelmWorks
  PROVE  Safe'
<1>1. KnowsTheCR'
  BY WorkFacts DEF Safe, KnowsTheCR, Deletion
<1>2. KnowsTheCall'
  BY WorkFacts DEF Safe, KnowsTheCall, Calling, HelmWorks
<1>3. KnowsTheNamespace'
  BY WorkFacts DEF Safe, KnowsTheNamespace, HelmWorks
<1>4. NoOrphanedRelease'
  BY WorkFacts DEF Safe, KnowsTheCR, NoOrphanedRelease, HasFinalizer
<1>5. NamespaceAfterRelease'
  BY WorkFacts DEF Safe, NamespaceAfterRelease, Whole
<1>6. ReportedReleaseExists'
  BY WorkFacts DEF Safe, KnowsTheCall, ReportedReleaseExists, HelmWorks
<1> QED BY <1>1, <1>2, <1>3, <1>4, <1>5, <1>6 DEF Safe

\* The Installer failing.
LEMMA HelmFailsKeepsSafe ==
  ASSUME TypeOK, Safe, HelmFails
  PROVE  Safe'
<1>1. /\ UNCHANGED <<api, pipe, cache, ns, want>> /\ phase' = "idle" /\ pc' \notin Calling
      /\ pc' \in {"failed", "idle"} /\ pc \in Calling
  BY DEF HelmFails, Finish, Calling, k8s, Helm!FinishFailed, Helm!GiveUp, Helm!Return
<1>2. \/ UNCHANGED release
      \/ phase = "acting" /\ release.status \in Helm!Pending /\ release' = Helm!Rel("failed", release.config)
  BY DEF HelmFails, Helm!FinishFailed, Helm!GiveUp, Helm!InStatus
<1>3. /\ Whole' => Whole \/ (pc = "installing" /\ ns # "terminating")
      /\ release' # Helm!NoRelease => release # Helm!NoRelease
  BY <1>2 DEF Whole, Safe, KnowsTheCall, Helm!NoRelease, Helm!Rel, Helm!Pending
<1>4. KnowsTheCR'
  BY <1>1, <1>3 DEF Safe, KnowsTheCR, Deletion
<1>5. KnowsTheCall' /\ KnowsTheNamespace' /\ NoOrphanedRelease' /\ ReportedReleaseExists'
  BY <1>1, <1>3 DEF Safe, KnowsTheCall, KnowsTheNamespace, NoOrphanedRelease, ReportedReleaseExists, Calling
<1>6. NamespaceAfterRelease'
  BY <1>1, <1>3 DEF Safe, NamespaceAfterRelease, Whole
<1> QED BY <1>4, <1>5, <1>6 DEF Safe

\* The other steps of a deletion.
LEMMA DeletionKeepsSafe ==
  ASSUME TypeOK, Safe, BeginUninstall \/ DeleteNamespace \/ RemoveFinalizer
  PROVE  Safe'
<1>1. CASE BeginUninstall
  <2>1. /\ pc = "workloads" /\ pc' = "removing" /\ phase' = "called" /\ want' = Absent
        /\ UNCHANGED <<k8s, ns, release>> /\ pc \notin Calling
    BY <1>1 DEF BeginUninstall, Helm!Start, Calling
  <2> QED BY <2>1, BeginKeepsSafe
<1>2. CASE DeleteNamespace
  <2>1. /\ pc = "namespace" /\ UNCHANGED <<api, pipe, cache, release, phase, want, result>>
    BY <1>2 DEF DeleteNamespace, k8s, helm
  <2>2. \/ pc' = "finalizer" /\ ns' = IF ns = "none" THEN "none" ELSE "terminating"
        \/ pc' = "idle" /\ ns' = ns
    BY <1>2 DEF DeleteNamespace, Finish
  <2>3. ~Whole /\ ~Whole'
    BY <2>1 DEF Safe, KnowsTheNamespace, Whole
  <2>4. KnowsTheCR'
    BY <2>1, <2>2, <2>3 DEF Safe, KnowsTheCR, Deletion
  <2>5. KnowsTheCall' /\ KnowsTheNamespace' /\ NamespaceAfterRelease' /\ ReportedReleaseExists'
    BY <2>1, <2>2, <2>3 DEF Safe, KnowsTheCall, KnowsTheNamespace, NamespaceAfterRelease,
                            ReportedReleaseExists, Calling, Whole
  <2>6. NoOrphanedRelease'
    BY <2>1, <2>2 DEF Safe, KnowsTheNamespace, NoOrphanedRelease
  <2> QED BY <2>4, <2>5, <2>6 DEF Safe
<1>3. CASE RemoveFinalizer
  <2>1. /\ pc = "finalizer" /\ pc' = "idle" /\ UNCHANGED <<cache, release, phase, want, result, ns>>
    BY <1>3 DEF RemoveFinalizer, Finish, helm
  <2>2. CASE UNCHANGED <<api, pipe>>
    <3>1. StatusOnly /\ Moves /\ UNCHANGED <<helm, ns>>
      BY <2>1, <2>2 DEF StatusOnly, Moves, Calling, helm
    <3> QED BY <3>1, MovesKeepsSafe
  <2>3. ASSUME cache[Expected] # NoCR, NEW ok \in BOOLEAN,
               Update(Expected, WithoutFinalizer(cache[Expected]), ok)
        PROVE  Safe'
    <3> DEFINE obj == WithoutFinalizer(cache[Expected])
    <3>1. cache[Expected] \in CR
      BY <2>3, NamesAssumption DEF TypeOK
    <3>2. obj \in CR \union {NoCR} /\ ~HasFinalizer(obj) /\ ~Held(obj)
      BY <3>1, WithoutFinalizerOK DEF HasFinalizer, Held
    <3> HIDE DEF obj
    <3>3. UNCHANGED <<api, pipe>> \/ (pipe[Expected] = <<>> /\ Stored(Expected, obj))
      BY <2>1, <2>3, <3>2, NamesAssumption, TypeParts, UpdateStores DEF obj
    <3>4. CASE pipe[Expected] = <<>> /\ Stored(Expected, obj)
      <4>1. /\ api'[Expected] = obj /\ pipe'[Expected] = Append(pipe[Expected], obj)
            /\ cache'[Expected] = cache[Expected]
        BY <2>1, <3>4, StoredIs, TypeParts, NamesAssumption
      <4>2. /\ Chain(api[Expected], cache[Expected], pipe[Expected])
            /\ NoneHeld(cache[Expected], pipe[Expected])
            /\ pipe[Expected] \in Seq(CR \union {NoCR})
        BY <2>1, NamesAssumption DEF Safe, KnowsTheCR, TypeOK, Deletion
      <4>3. Chain(obj, cache[Expected], Append(pipe[Expected], obj))
        BY <3>2, <3>4, <4>2, ChainAppend
      <4>4. release = Helm!NoRelease \/ ns = "terminating"
        BY <2>1 DEF Safe, KnowsTheNamespace
      <4>5. ~Whole /\ ~Whole'
        BY <2>1, <4>4 DEF Whole, Safe, NamespaceAfterRelease, Helm!NoRelease, Helm!Rel
      <4>6. KnowsTheCR'
        BY <2>1, <4>1, <4>3, <4>5 DEF KnowsTheCR, Deletion
      <4>7. KnowsTheCall' /\ KnowsTheNamespace' /\ NamespaceAfterRelease' /\ ReportedReleaseExists'
        BY <2>1 DEF Safe, KnowsTheCall, KnowsTheNamespace, NamespaceAfterRelease,
                    ReportedReleaseExists, Calling
      <4>8. NoOrphanedRelease'
        BY <2>1, <4>4 DEF NoOrphanedRelease
      <4> QED BY <4>6, <4>7, <4>8 DEF Safe
    <3> QED BY <2>2, <3>3, <3>4
  <2> QED BY <1>3, <2>2, <2>3 DEF RemoveFinalizer
<1> QED BY <1>1, <1>2, <1>3

\* The informer, the timers and the restart.
LEMMA MachineryKeepsSafe ==
  ASSUME TypeOK, Safe, Machinery \/ Crash
  PROVE  Safe'
<1>1. ASSUME NEW n \in CRs, TimerFires(n) \/ (Deliver(n) /\ n # Expected)
      PROVE  Safe'
  <2>1. StatusOnly /\ Moves /\ UNCHANGED <<helm, ns>>
    BY <1>1, NamesAssumption DEF TimerFires, Deliver, k8s, StatusOnly, Moves, TypeOK
  <2> QED BY <2>1, MovesKeepsSafe
<1>2. CASE Deliver(Expected)
  <2>1. pipe[Expected] \in Seq(CR \union {NoCR}) /\ pipe[Expected] # <<>>
    BY <1>2, NamesAssumption DEF TypeOK, Deliver
  <2>2. /\ cache'[Expected] = Head(pipe[Expected]) /\ pipe'[Expected] = Tail(pipe[Expected])
        /\ UNCHANGED <<api, pc, release, phase, want, result, ns>>
    BY <1>2, NamesAssumption DEF Deliver, TypeOK, helm
  <2>3. /\ Chain(api[Expected], Head(pipe[Expected]), Tail(pipe[Expected]))
        /\ NoneHeld(cache[Expected], pipe[Expected])
             => NoneHeld(Head(pipe[Expected]), Tail(pipe[Expected]))
        /\ IsDeleting(Head(pipe[Expected])) => IsDeleting(api[Expected])
    BY <2>1, ChainTail DEF Safe, KnowsTheCR
  <2>4. KnowsTheCR'
    BY <2>2, <2>3 DEF Safe, KnowsTheCR, Whole
  <2> QED BY <2>2, <2>4 DEF Safe, KnowsTheCall, KnowsTheNamespace, NoOrphanedRelease,
                            NamespaceAfterRelease, ReportedReleaseExists, Whole
<1>3. CASE Crash
  <2>1. /\ cache'[Expected] = api[Expected] /\ pipe'[Expected] = <<>>
        /\ UNCHANGED <<api, release, ns>> /\ pc' = "idle" /\ phase' = "idle"
    BY <1>3, NamesAssumption DEF Crash
  <2>2. KnowsTheCR'
    BY <2>1, ChainFresh DEF KnowsTheCR, Deletion
  <2> QED BY <2>1, <2>2 DEF Safe, KnowsTheCall, KnowsTheNamespace, NoOrphanedRelease,
                            NamespaceAfterRelease, ReportedReleaseExists, Calling
<1> QED BY <1>1, <1>2, <1>3 DEF Machinery

\* A new CR gpu, without the finalizer, or one that is gone or being deleted.
LEMMA NewVersionKeepsSafe ==
  ASSUME TypeOK, Safe, NEW obj \in CR \union {NoCR}, Stored(Expected, obj),
         UNCHANGED <<cache, pc, helm, ns>>, ~Held(obj),
         HasFinalizer(api[Expected]) => HasFinalizer(obj),
         IsDeleting(api[Expected]) => IsDeleting(obj)
  PROVE  Safe'
<1>1. /\ api'[Expected] = obj /\ pipe'[Expected] = Append(pipe[Expected], obj)
      /\ cache'[Expected] = cache[Expected]
  BY StoredIs, TypeParts, NamesAssumption
<1>2. /\ Chain(api[Expected], cache[Expected], pipe[Expected])
      /\ pipe[Expected] \in Seq(CR \union {NoCR})
  BY NamesAssumption DEF Safe, KnowsTheCR, TypeOK
<1>3. /\ Chain(obj, cache[Expected], Append(pipe[Expected], obj))
      /\ NoneHeld(cache[Expected], pipe[Expected])
           => NoneHeld(cache[Expected], Append(pipe[Expected], obj))
  BY <1>2, ChainAppend
<1>4. UNCHANGED <<release, phase, want, result>> /\ (Whole' <=> Whole)
  BY DEF helm, Whole
<1>5. KnowsTheCR'
  BY <1>1, <1>3, <1>4 DEF Safe, KnowsTheCR
<1>6. KnowsTheCall' /\ KnowsTheNamespace' /\ NamespaceAfterRelease' /\ ReportedReleaseExists'
  BY <1>4 DEF Safe, KnowsTheCall, KnowsTheNamespace, NamespaceAfterRelease, ReportedReleaseExists
<1>7. NoOrphanedRelease'
  BY <1>1, <1>4 DEF Safe, NoOrphanedRelease, HasFinalizer
<1> QED BY <1>5, <1>6, <1>7 DEF Safe

\* Users.
LEMMA UsersKeepSafe ==
  ASSUME TypeOK, Safe, Users, Expected \notin Preset
  PROVE  Safe'
<1>1. PICK n \in CRs : Create(n) \/ Edit(n) \/ Delete(n)
  BY DEF Users
<1>2. UNCHANGED <<cache, pc, helm, ns>>
  BY <1>1 DEF Create, Edit, Delete, ByUser
<1>3. CASE UNCHANGED <<api, pipe>> \/ (n # Expected /\ \E obj : Stored(n, obj))
  <2>1. StatusOnly
    BY <1>2, <1>3, OtherIsStatusOnly DEF StatusOnly
  <2> QED BY <1>2, <2>1, MovesKeepsSafe DEF Moves
<1>4. ASSUME n = Expected, NEW obj \in CR, SameBut(n, obj), Stored(n, obj)
      PROVE  Safe'
  <2>1. StatusOnly
    BY <1>2, <1>4, StoredIs, TypeParts DEF StatusOnly
  <2> QED BY <1>2, <2>1, MovesKeepsSafe DEF Moves
<1>5. ASSUME n = Expected, api[n] = NoCR, NEW obj \in CR, obj.finalizer => n \in Preset,
             ~obj.deleting, Stored(n, obj)
      PROVE  Safe'
  BY <1>2, <1>5, NewVersionKeepsSafe DEF Held, HasFinalizer, IsDeleting
<1>6. ASSUME n = Expected, api[n] \in CR, ~api[n].finalizer, ~api[n].deleting, Stored(n, NoCR)
      PROVE  Safe'
  BY <1>2, <1>6, NewVersionKeepsSafe DEF Held, HasFinalizer, IsDeleting
<1>7. ASSUME n = Expected, NEW obj \in CR, obj.finalizer, obj.deleting, Stored(n, obj)
      PROVE  Safe'
  BY <1>2, <1>7, NewVersionKeepsSafe, AbsenceAssumption DEF Held, HasFinalizer, IsDeleting
<1> QED BY <1>1, <1>3, <1>4, <1>5, <1>6, <1>7, UsersStore, TypeParts

\* The namespace goes, and takes with it what Uninstall did not see.
LEMMA NamespaceGoneKeepsSafe ==
  ASSUME TypeOK, Safe, NamespaceGone
  PROVE  Safe'
<1>1. /\ UNCHANGED <<api, pipe, cache, pc, phase, want, result>>
      /\ release' = Helm!NoRelease /\ ns = "terminating" /\ ns' = "none"
  BY DEF NamespaceGone, k8s
<1>2. ~Whole' /\ release'.status \notin Helm!Pending
  BY <1>1 DEF Whole, Helm!NoRelease, Helm!Rel, Helm!Pending
<1>3. pc \notin Reporting
  <2>1. release.status # "deployed"
    BY <1>1 DEF Safe, NamespaceAfterRelease
  <2> QED BY <2>1 DEF Safe, ReportedReleaseExists, Reporting, Helm!Rel
<1>4. KnowsTheCR' /\ KnowsTheCall' /\ KnowsTheNamespace'
  BY <1>1, <1>2 DEF Safe, KnowsTheCR, KnowsTheCall, KnowsTheNamespace
<1>5. NoOrphanedRelease' /\ NamespaceAfterRelease' /\ ReportedReleaseExists'
  BY <1>1, <1>3 DEF NoOrphanedRelease, NamespaceAfterRelease, ReportedReleaseExists, Reporting
<1> QED BY <1>4, <1>5 DEF Safe

\* Before the operator has done anything.
LEMMA InitSafe == Init => Safe
<1> SUFFICES ASSUME Init PROVE Safe
  OBVIOUS
<1>1. /\ api[Expected] = NoCR /\ cache[Expected] = NoCR /\ pipe[Expected] = <<>>
      /\ pc = "idle" /\ release = Helm!NoRelease /\ phase = "idle" /\ ns = "none"
  BY NamesAssumption DEF Init, Helm!Init
<1>2. KnowsTheCR
  BY <1>1, ChainFresh DEF KnowsTheCR, Deletion, IsDeleting
<1> QED BY <1>1, <1>2 DEF Safe, KnowsTheCall, KnowsTheNamespace, NoOrphanedRelease,
                          NamespaceAfterRelease, ReportedReleaseExists, Calling

\* Every step.
LEMMA NextKeepsSafe ==
  ASSUME TypeOK, Safe, [Next]_vars, Expected \notin Preset
  PROVE  Safe'
<1>1. CASE Worker
  BY <1>1, ReconcileKeepsSafe, ReportKeepsSafe, HelmWorksKeepsSafe, HelmFailsKeepsSafe,
     QuietKeepsSafe, DeletionKeepsSafe
  DEF Worker, HelmFails, NamespaceGone, CheckDriver, CheckClusterPolicy
<1>2. CASE Cluster
  BY <1>2, QuietKeepsSafe, NamespaceGoneKeepsSafe
<1>3. CASE UNCHANGED vars
  BY <1>3, QuietKeepsSafe, NamespaceGoneKeepsSafe
<1> QED BY <1>1, <1>2, <1>3, MachineryKeepsSafe, UsersKeepSafe DEF Next

-----------------------------------------------------------------------------
(* The theorems.                                                            *)

\* The invariant holds of every behaviour.
LEMMA AlwaysSafe ==
  ASSUME Expected \notin Preset
  PROVE  Spec => [](TypeOK /\ Safe)
<1>1. Init => TypeOK /\ Safe
  BY InitTypeOK, InitSafe
<1>2. TypeOK /\ Safe /\ [Next]_vars => TypeOK' /\ Safe'
  BY NextTypeOK, NextKeepsSafe
<1> QED BY <1>1, <1>2, PTL DEF Spec

\* While there is a release, the CR gpu is there with its finalizer, or the namespace
\* that holds the release is on its way out (gpu_controller.go 141-165, 333-381).
THEOREM ReleaseHasItsCR ==
  ASSUME Expected \notin Preset
  PROVE  Spec => []NoOrphanedRelease
<1>1. Safe => NoOrphanedRelease
  BY DEF Safe
<1> QED BY <1>1, AlwaysSafe, PTL

\* The namespace is deleted only after the release in it (gpu_controller.go 337-352,
\* installer.go 124-143).
THEOREM NamespaceGoesLast ==
  ASSUME Expected \notin Preset
  PROVE  Spec => []NamespaceAfterRelease
<1>1. Safe => NamespaceAfterRelease
  BY DEF Safe
<1> QED BY <1>1, AlwaysSafe, PTL

\* A release that is reported as installed is (gpu_controller.go 240-284).
THEOREM ReportIsTrue ==
  ASSUME Expected \notin Preset
  PROVE  Spec => []ReportedReleaseExists
<1>1. Safe => ReportedReleaseExists
  BY DEF Safe
<1> QED BY <1>1, AlwaysSafe, PTL

\* What users do touches the CRs only.
LEMMA UsersTouchCRs == Users => ByUser
<1> SUFFICES ASSUME Users PROVE ByUser
  OBVIOUS
<1>1. PICK n \in CRs : Create(n) \/ Edit(n) \/ Delete(n)
  BY DEF Users
<1>2. CASE Create(n)
  BY <1>2 DEF Create
<1>3. CASE Edit(n)
  BY <1>3 DEF Edit
<1>4. CASE Delete(n)
  BY <1>4 DEF Delete
<1> QED BY <1>1, <1>2, <1>3, <1>4

\* The release is moved by the Installer and by the end of the namespace only.
LEMMA WhoMovesRelease ==
  ASSUME [Next]_vars
  PROVE  HelmWorks \/ HelmFails \/ NamespaceGone \/ UNCHANGED release
<1>1. ASSUME NEW n \in CRs, Reconcile(n)
      PROVE  UNCHANGED release
  BY <1>1 DEF Reconcile, ReconcileNothing, ReconcileRogue, AddFinalizer, ReconcilePreflight,
              NodesUnreadable, DropRogueFinalizer, ReconcileDelete, helm, Helm!Start
<1>2. ASSUME Worker PROVE HelmWorks \/ HelmFails \/ UNCHANGED release
  BY <1>1, <1>2 DEF Worker, PreflightWarn, PreflightError, InstallFailed, CheckDriver,
     CheckClusterPolicy, UpdateStatus, MarkUninstalling, DeletionBlocked, BeginUninstall,
     DeleteNamespace, RemoveFinalizer, helm, Helm!Start
<1>3. ASSUME Machinery \/ Crash \/ Users PROVE UNCHANGED release
  <2>1. CASE Machinery
    BY <2>1 DEF Machinery, Deliver, TimerFires, helm
  <2>2. CASE Crash
    BY <2>2 DEF Crash
  <2>3. CASE Users
    BY <2>3, UsersTouchCRs DEF ByUser, helm
  <2> QED BY <1>3, <2>1, <2>2, <2>3
<1>4. ASSUME Cluster PROVE NamespaceGone \/ UNCHANGED release
  BY <1>4 DEF Cluster, NodeChanges, PodChanges, DriverFollows, DriverSetback, PolicyFollows,
              PolicySetback, helm
<1> QED BY <1>2, <1>3, <1>4 DEF Next, vars, helm

\* A complete or failed release is uninstalled only while the CR gpu is being
\* deleted, however old the cache is (gpu_controller.go 296-352).
THEOREM OnlyDeletionUninstalls ==
  ASSUME Expected \notin Preset
  PROVE  Spec => UninstallNeedsDeletion
<1> DEFINE A == Whole /\ release'.status = "uninstalling"
                  => api[Expected] # NoCR /\ api[Expected].deleting
<1>1. TypeOK /\ Safe /\ [Next]_vars => A
  <2> SUFFICES ASSUME TypeOK, Safe, [Next]_vars, Whole, release'.status = "uninstalling"
               PROVE  IsDeleting(api[Expected])
    BY DEF IsDeleting
  <2>1. CASE HelmWorks
    BY <2>1, WorkFacts DEF Safe, KnowsTheCR, Deletion
  <2>2. CASE HelmFails
    <3>1. UNCHANGED release \/ release'.status = "failed"
      BY <2>2 DEF HelmFails, Helm!FinishFailed, Helm!GiveUp, Helm!Rel
    <3> QED BY <3>1 DEF Whole
  <2>3. CASE NamespaceGone
    BY <2>3 DEF NamespaceGone, Helm!NoRelease, Helm!Rel
  <2>4. CASE UNCHANGED release
    BY <2>4 DEF Whole
  <2> QED BY <2>1, <2>2, <2>3, <2>4, WhoMovesRelease
<1>2. TypeOK /\ Safe /\ [Next]_vars => [A]_vars
  BY <1>1
<1>3. UninstallNeedsDeletion <=> [][A]_vars
  BY DEF UninstallNeedsDeletion, Whole
<1> HIDE DEF A
<1> QED BY <1>2, <1>3, AlwaysSafe, PTL DEF Spec

-----------------------------------------------------------------------------
(* Nothing is forgotten.  This needs no assumption on what users create.    *)

\* A CR that is being deleted is there because of its finalizer.
Lingers(cr) == IsDeleting(cr) => HasFinalizer(cr)

Versions == {v \in CR \union {NoCR} : Lingers(v)}

Latest(n) == IF pipe[n] = <<>> THEN cache[n] = api[n] ELSE pipe[n][Len(pipe[n])] = api[n]

\* Versions reach the cache in order, the latest included.
InOrder ==
  /\ api \in [CRs -> Versions] /\ cache \in [CRs -> Versions] /\ pipe \in [CRs -> Seq(Versions)]
  /\ \A n \in CRs : Latest(n)

\* What the reconcile has found out still holds, unless the CR is in the queue again.
UpToDate ==
  /\ pc = "installing" => want # Absent
  /\ pc = "removing" => want = Absent
  /\ Expected \notin queue =>
       /\ pc = "error" => Live(Expected) /\ RunPreflight(nodes).outcome = "Error"
       /\ pc \in Deletion => Deleting(Expected)

\* Something will bring n to the worker.
Awake(n) == n \in queue \union timers \/ pipe[n] # <<>> \/ (n = Expected /\ pc # "idle")

Vigilant == InOrder /\ UpToDate /\ \A n \in CRs : Awake(n) \/ Settled(n)

-----------------------------------------------------------------------------
(* What writes mean for it.                                                 *)

\* At most one CR gets a new version.
Adds ==
  /\ UNCHANGED cache
  /\ UNCHANGED <<api, pipe>> \/ \E n \in CRs, obj \in Versions : Stored(n, obj)

\* A new version is the latest, and on its way to the cache.
LEMMA AddsInOrder ==
  ASSUME K8sOK, InOrder, Adds
  PROVE  /\ InOrder'
         /\ \A n \in CRs : (api'[n] = api[n] /\ pipe'[n] = pipe[n]) \/ pipe'[n] # <<>>
<1>1. CASE UNCHANGED <<api, pipe, cache>>
  BY <1>1 DEF InOrder, Latest
<1>2. ASSUME NEW n \in CRs, NEW obj \in Versions, Stored(n, obj), UNCHANGED cache
      PROVE  /\ InOrder'
             /\ \A m \in CRs : (api'[m] = api[m] /\ pipe'[m] = pipe[m]) \/ pipe'[m] # <<>>
  <2>1. pipe[n] \in Seq(Versions)
    BY DEF InOrder
  <2> DEFINE new == Append(pipe[n], obj)
  <2>2. new \in Seq(Versions) /\ Len(new) = Len(pipe[n]) + 1 /\ new[Len(pipe[n]) + 1] = obj
        /\ Len(pipe[n]) \in Nat
    BY <2>1, AppendProperties, LenProperties
  <2>3. new # <<>> /\ new[Len(new)] = obj
    BY <2>2, EmptySeq
  <2>4. api' = [api EXCEPT ![n] = obj] /\ pipe' = [pipe EXCEPT ![n] = new]
    BY <1>2 DEF Stored
  <2> HIDE DEF new
  <2>5. api' \in [CRs -> Versions] /\ pipe' \in [CRs -> Seq(Versions)]
    BY <2>2, <2>4 DEF InOrder
  <2>6. api'[n] = obj /\ pipe'[n] = new
        /\ \A m \in CRs \ {n} : api'[m] = api[m] /\ pipe'[m] = pipe[m]
    BY <2>4 DEF InOrder
  <2>7. \A m \in CRs : Latest(m)'
    BY <1>2, <2>3, <2>6 DEF InOrder, Latest
  <2> QED BY <1>2, <2>3, <2>5, <2>6, <2>7 DEF InOrder
<1> QED BY <1>1, <1>2 DEF Adds

\* A status update leaves a CR that is being deleted its finalizer.
LEMMA ApplyStatusAdds ==
  ASSUME TypeOK, InOrder, NEW n \in CRs, NEW upd \in Updates, NEW includeReady \in BOOLEAN,
         NEW ok \in BOOLEAN, ApplyStatus(n, upd, includeReady, ok), UNCHANGED cache
  PROVE  Adds
<1>1. UNCHANGED <<api, pipe>> \/ \E obj \in CR : SameBut(n, obj) /\ Stored(n, obj)
  BY TypeParts, ApplyStatusStores
<1>2. ASSUME NEW obj \in CR, SameBut(n, obj) PROVE obj \in Versions
  <2>1. Lingers(api[n]) /\ api[n] # NoCR /\ obj # NoCR
    BY <1>2, AbsenceAssumption DEF InOrder, Versions, SameBut
  <2> QED BY <1>2, <2>1 DEF Versions, Lingers, IsDeleting, HasFinalizer, SameBut
<1> QED BY <1>1, <1>2 DEF Adds

\* A status update that succeeds without leaving a version to be delivered finds,
\* in a cache that is up to date, that the CR shows what it should.
LEMMA AppliedIsShown ==
  ASSUME TypeOK, InOrder, NEW n \in CRs, NEW upd, ApplyStatus(n, upd, FALSE, TRUE), pipe'[n] = <<>>
  PROVE  /\ UNCHANGED <<api, pipe>> /\ api[n] = cache[n] /\ api[n] \in CR
         /\ api[n].conds = SetConditions(api[n].conds, upd, api[n].gen)
<1> DEFINE new == NewConds(cache[n], upd, FALSE)
<1>1. /\ cache[n] # NoCR
      /\ IF new = cache[n].conds THEN UNCHANGED <<api, pipe>>
         ELSE api[n] # NoCR /\ Write(n, [api[n] EXCEPT !.conds = new])
  BY DEF ApplyStatus
<1>2. new = SetConditions(cache[n].conds, upd, cache[n].gen)
  BY DEF NewConds
<1> HIDE DEF new
<1>3. UNCHANGED <<api, pipe>>
  <2> SUFFICES ASSUME NEW obj, pipe' = [pipe EXCEPT ![n] = Append(@, obj)] PROVE FALSE
    BY <1>1 DEF Write
  <2>1. pipe[n] \in Seq(CR \union {NoCR}) /\ pipe'[n] = Append(pipe[n], obj)
    BY TypeParts DEF K8sOK
  <2>2. Append(pipe[n], obj) # <<>>
    BY <2>1
  <2> QED BY <2>1, <2>2
<1>4. api[n] = cache[n] /\ api[n] \in CR
  BY <1>1, <1>3, TypeParts DEF InOrder, Latest, K8sOK
<1>5. api[n].conds = new
  <2>1. CASE new = cache[n].conds
    BY <1>4, <2>1
  <2>2. CASE new # cache[n].conds
    <3>1. \/ [api[n] EXCEPT !.conds = new] = api[n]
          \/ api' = [api EXCEPT ![n] = [api[n] EXCEPT !.conds = new]]
      BY <1>1, <2>2 DEF Write
    <3>2. [api[n] EXCEPT !.conds = new] = api[n]
      BY <1>3, <3>1, TypeParts DEF K8sOK
    <3>3. [api[n] EXCEPT !.conds = new].conds = new
      BY <1>4 DEF CR
    <3> QED BY <3>2, <3>3
  <2> QED BY <2>1, <2>2
<1> QED BY <1>2, <1>3, <1>4, <1>5

\* client.Update of what the cache holds, that changes it and succeeds, leaves a
\* version to be delivered.
LEMMA UpdateIsDelivered ==
  ASSUME TypeOK, InOrder, NEW n \in CRs, NEW obj, Update(n, obj, TRUE), obj # cache[n]
  PROVE  pipe'[n] # <<>>
<1>1. pipe[n] = <<>> /\ Write(n, obj)
  BY DEF Update
<1>2. obj # api[n]
  BY <1>1 DEF InOrder, Latest
<1>3. pipe' = [pipe EXCEPT ![n] = Append(@, obj)]
  BY <1>1, <1>2 DEF Write
<1>4. pipe'[n] = Append(<<>>, obj)
  BY <1>1, <1>3, TypeParts DEF K8sOK
<1> QED BY <1>4

\* A step at whose end the reconcile goes on or is to be repeated, and that takes no
\* CR off the queue.
LEMMA OtherStepsVigilant ==
  ASSUME TypeOK, Vigilant, Adds,
         queue \subseteq queue', timers \subseteq queue' \union timers',
         RunPreflight(nodes') = RunPreflight(nodes),
         pc' = "idle" => pc = "idle" \/ Expected \in queue' \union timers',
         pc' = "error" => pc = "error",
         pc' \in Deletion => pc \in Deletion,
         pc' = "installing" => want' # Absent,
         pc' = "removing" => want' = Absent
  PROVE  Vigilant'
<1>1. InOrder' /\ \A n \in CRs : (api'[n] = api[n] /\ pipe'[n] = pipe[n]) \/ pipe'[n] # <<>>
  BY AddsInOrder, TypeParts DEF Vigilant
<1>2. UpToDate'
  BY DEF Vigilant, UpToDate, Adds, Live, Deleting
<1>3. ASSUME NEW n \in CRs PROVE (Awake(n) \/ Settled(n))'
  <2>1. CASE pipe'[n] # <<>>
    BY <2>1 DEF Awake
  <2>2. CASE api'[n] = api[n] /\ pipe'[n] = pipe[n]
    <3>1. CASE Awake(n)
      BY <2>2, <3>1 DEF Awake
    <3>2. CASE Settled(n)
      BY <2>2, <3>2 DEF Settled
    <3> QED BY <3>1, <3>2 DEF Vigilant
  <2> QED BY <1>1, <2>1, <2>2
<1> QED BY <1>1, <1>2, <1>3 DEF Vigilant

\* The steps that report; all but that of a preflight error see to it that the CR
\* is looked at again.
LEMMA ReportVigilant ==
  ASSUME TypeOK, Vigilant,
         \/ PreflightWarn \/ PreflightError \/ InstallFailed \/ UpdateStatus
         \/ MarkUninstalling \/ DeletionBlocked
  PROVE  Vigilant'
<1> InOrder /\ Expected \in CRs
  BY NamesAssumption DEF Vigilant
<1>1. CASE PreflightWarn
  <2>1. Adds
    BY <1>1, UpdatesOK, ApplyStatusAdds DEF PreflightWarn
  <2> QED BY <1>1, <2>1, OtherStepsVigilant DEF PreflightWarn, Finish, Deletion, world
<1>2. CASE PreflightError
  <2>1. PICK ok \in BOOLEAN :
          /\ ApplyStatus(Expected, [Preflight |-> <<"False", "Failed">>], FALSE, ok)
          /\ Finish(Expected, ~ok)
    BY <1>2 DEF PreflightError
  <2>2. UNCHANGED <<cache, queue, nodes>> /\ pc = "error"
    BY <1>2 DEF PreflightError, world
  <2>3. Adds
    BY <2>1, <2>2, UpdatesOK, ApplyStatusAdds
  <2>4. CASE ~ok \/ Expected \in queue
    BY <2>1, <2>2, <2>3, <2>4, OtherStepsVigilant DEF Finish, Deletion
  <2>5. CASE ok /\ Expected \notin queue
    <3>1. InOrder' /\ \A n \in CRs : (api'[n] = api[n] /\ pipe'[n] = pipe[n]) \/ pipe'[n] # <<>>
      BY <2>3, AddsInOrder, TypeParts
    <3>2. UpToDate'
      BY <2>1 DEF UpToDate, Finish, Deletion
    <3>3. ASSUME NEW n \in CRs, n # Expected PROVE (Awake(n) \/ Settled(n))'
      <4>1. CASE Awake(n)
        BY <2>1, <2>2, <3>1, <3>3, <4>1 DEF Awake, Finish
      <4>2. CASE Settled(n)
        BY <2>2, <3>1, <3>3, <4>2 DEF Settled, Awake
      <4> QED BY <4>1, <4>2 DEF Vigilant
    <3>4. ASSUME pipe'[Expected] = <<>> PROVE Settled(Expected)'
      <4>1. ok = TRUE
        BY <2>5
      <4>2. /\ UNCHANGED <<api, pipe>> /\ api[Expected] = cache[Expected] /\ api[Expected] \in CR
            /\ api[Expected].conds =
                 SetConditions(api[Expected].conds, [Preflight |-> <<"False", "Failed">>],
                               api[Expected].gen)
        BY <2>1, <3>4, <4>1, AppliedIsShown
      <4>3. "Preflight" \in CondTypes
        BY DEF CondTypes, Inputs, Managed
      <4>4. api[Expected].conds["Preflight"] = Cond("False", "Failed", api[Expected].gen)
        BY <4>2, <4>3 DEF SetConditions
      <4>5. ~api[Expected].deleting /\ RunPreflight(nodes).outcome = "Error"
        BY <2>2, <2>5, <4>2 DEF Vigilant, UpToDate, Live
      <4> QED BY <2>2, <4>2, <4>4, <4>5 DEF Settled
    <3> QED BY <3>1, <3>2, <3>3, <3>4 DEF Vigilant, Awake
  <2> QED BY <2>4, <2>5
<1>3. CASE InstallFailed
  <2>1. Adds
    BY <1>3, UpdatesOK, ApplyStatusAdds DEF InstallFailed
  <2> QED BY <1>3, <2>1, OtherStepsVigilant DEF InstallFailed, Finish, Deletion, world
<1>4. CASE UpdateStatus
  <2>1. seen.DriverReady \in CondStatus \X Reasons /\ seen.ValidatorPassed \in CondStatus \X Reasons
    BY TypeParts DEF WorkerOK
  <2>2. Adds
    BY <1>4, <2>1, UpdatesOK, ApplyStatusAdds DEF UpdateStatus
  <2> QED BY <1>4, <2>2, OtherStepsVigilant DEF UpdateStatus, Finish, Deletion, world
<1>5. CASE MarkUninstalling
  <2>1. Adds
    BY <1>5, UpdatesOK, ApplyStatusAdds DEF MarkUninstalling
  <2> QED BY <1>5, <2>1, OtherStepsVigilant DEF MarkUninstalling, Deletion, world
<1>6. CASE DeletionBlocked
  <2>1. Adds
    BY <1>6, UpdatesOK, ApplyStatusAdds DEF DeletionBlocked
  <2> QED BY <1>6, <2>1, OtherStepsVigilant DEF DeletionBlocked, Finish, Deletion, world
<1> QED BY <1>1, <1>2, <1>3, <1>4, <1>5, <1>6

\* Calls to the Installer, checks, and the deletion.
LEMMA WorkVigilant ==
  ASSUME TypeOK, Vigilant,
         \/ HelmWorks \/ HelmFails \/ CheckDriver \/ CheckClusterPolicy
         \/ BeginUninstall \/ DeleteNamespace \/ RemoveFinalizer
  PROVE  Vigilant'
<1> InOrder /\ UpToDate /\ Expected \in CRs
  BY NamesAssumption DEF Vigilant
<1>1. CASE HelmWorks
  <2>1. want' = want
    BY <1>1 DEF HelmWorks, Helm!Work, Helm!Recover, Helm!Advance, Helm!Unchanged, Helm!Finish,
                Helm!Remove, Helm!Purged, Helm!NothingToRemove, Helm!Continue, Helm!Return
  <2>2. want # Absent => result' \in {"changed", "unchanged"} \/ phase' # "idle"
    BY <1>1 DEF HelmWorks, Helm!Work, Helm!Recover, Helm!Advance, Helm!Unchanged, Helm!Finish,
                Helm!Remove, Helm!Purged, Helm!NothingToRemove, Helm!Continue, Helm!Return
  <2>3. pc' = pc \/ pc' = "driver" \/ (pc = "removing" /\ pc' = "namespace")
    BY <1>1, <2>2 DEF HelmWorks, AfterHelm, UpToDate
  <2> QED BY <1>1, <2>1, <2>3, OtherStepsVigilant DEF HelmWorks, UpToDate, Deletion, world, k8s, Adds
<1>2. CASE HelmFails
  BY <1>2, OtherStepsVigilant DEF HelmFails, Finish, Deletion, world, k8s, Adds
<1>3. CASE CheckDriver
  BY <1>3, OtherStepsVigilant DEF CheckDriver, Deletion, world, k8s, Adds
<1>4. CASE CheckClusterPolicy
  BY <1>4, OtherStepsVigilant DEF CheckClusterPolicy, Deletion, world, k8s, Adds
<1>5. CASE BeginUninstall
  BY <1>5, OtherStepsVigilant DEF BeginUninstall, Helm!Start, Deletion, world, k8s, Adds
<1>6. CASE DeleteNamespace
  BY <1>6, OtherStepsVigilant DEF DeleteNamespace, Finish, Deletion, world, k8s, Adds
<1>7. CASE RemoveFinalizer
  <2>1. pc = "finalizer" /\ pc' = "idle" /\ UNCHANGED <<cache, queue, nodes>>
        /\ timers \subseteq timers'
    BY <1>7 DEF RemoveFinalizer, Finish, world
  <2>2. Adds
    <3>1. CASE UNCHANGED <<api, pipe>>
      BY <2>1, <3>1 DEF Adds
    <3>2. CASE cache[Expected] # NoCR /\ Stored(Expected, WithoutFinalizer(cache[Expected]))
      <4>1. cache[Expected] \in CR
        BY <3>2, TypeParts DEF K8sOK
      <4>2. WithoutFinalizer(cache[Expected]) \in Versions
        BY <4>1, AbsenceAssumption DEF WithoutFinalizer, Versions, Lingers, IsDeleting, CR
      <4> QED BY <2>1, <3>2, <4>2 DEF Adds
    <3>3. ASSUME cache[Expected] # NoCR, NEW ok \in BOOLEAN,
                 Update(Expected, WithoutFinalizer(cache[Expected]), ok)
          PROVE  UNCHANGED <<api, pipe>> \/ Stored(Expected, WithoutFinalizer(cache[Expected]))
      BY <3>3 DEF Update, Write, Stored
    <3> QED BY <1>7, <3>1, <3>2, <3>3 DEF RemoveFinalizer
  <2>3. Expected \in queue' \union timers' \/ pipe'[Expected] # <<>>
    <3>1. CASE Expected \in queue
      BY <2>1, <3>1
    <3>2. CASE Expected \notin queue
      <4>1. Deleting(Expected) /\ cache[Expected] \in CR
        BY <2>1, <3>2, TypeParts DEF UpToDate, Deletion, Deleting, K8sOK
      <4>2. WithoutFinalizer(cache[Expected]) # cache[Expected]
        BY <4>1 DEF WithoutFinalizer, Deleting
      <4>3. PICK ok \in BOOLEAN :
              /\ Update(Expected, WithoutFinalizer(cache[Expected]), ok)
              /\ Finish(Expected, ~ok)
        BY <1>7, <4>1 DEF RemoveFinalizer, Deleting
      <4>4. CASE ok = TRUE
        BY <4>2, <4>3, <4>4, UpdateIsDelivered
      <4>5. CASE ok = FALSE
        BY <4>3, <4>5 DEF Finish
      <4> QED BY <4>4, <4>5
    <3> QED BY <3>1, <3>2
  <2>4. InOrder' /\ \A n \in CRs : (api'[n] = api[n] /\ pipe'[n] = pipe[n]) \/ pipe'[n] # <<>>
    BY <2>2, AddsInOrder, TypeParts
  <2>5. UpToDate'
    BY <2>1 DEF UpToDate, Deletion
  <2>6. ASSUME NEW n \in CRs PROVE (Awake(n) \/ Settled(n))'
    <3>1. CASE n = Expected
      BY <2>3, <3>1 DEF Awake
    <3>2. CASE n # Expected /\ Awake(n)
      BY <2>1, <2>4, <3>2 DEF Awake
    <3>3. CASE n # Expected /\ Settled(n)
      BY <2>1, <2>4, <3>3 DEF Settled, Awake
    <3> QED BY <3>1, <3>2, <3>3 DEF Vigilant
  <2> QED BY <2>4, <2>5, <2>6 DEF Vigilant
<1> QED BY <1>1, <1>2, <1>3, <1>4, <1>5, <1>6, <1>7

\* The steps that a reconcile of n begins with take n off the queue: they put it
\* back, go on with it, store a version of it, or find nothing left to be done.
LEMMA ReconcileVigilant ==
  ASSUME TypeOK, Vigilant, NEW n \in CRs, Reconcile(n)
  PROVE  Vigilant'
<1> InOrder /\ UpToDate /\ cache[n] \in Versions /\ api[n] \in Versions
  BY DEF Vigilant, InOrder
<1>1. /\ pc = "idle" /\ queue' = queue \ {n} /\ timers \subseteq timers' /\ UNCHANGED <<cache, nodes>>
      /\ pc' # "idle" => n = Expected
  BY DEF Reconcile, ReconcileNothing, ReconcileRogue, AddFinalizer, ReconcilePreflight,
         NodesUnreadable, DropRogueFinalizer, ReconcileDelete, Take, Finish, k8s, world
\* It is enough to look at n, if it is not on its way to the worker any more.
<1>2. ASSUME Adds, UpToDate',
             n \notin timers' /\ pipe'[n] = <<>> /\ pc' = "idle" => Settled(n)'
      PROVE  Vigilant'
  <2>1. InOrder' /\ \A m \in CRs : (api'[m] = api[m] /\ pipe'[m] = pipe[m]) \/ pipe'[m] # <<>>
    BY <1>2, AddsInOrder, TypeParts
  <2>2. ASSUME NEW m \in CRs, m # n PROVE (Awake(m) \/ Settled(m))'
    <3>1. CASE Awake(m)
      BY <1>1, <2>1, <2>2, <3>1 DEF Awake
    <3>2. CASE Settled(m)
      BY <1>1, <2>1, <2>2, <3>2 DEF Settled, Awake
    <3> QED BY <3>1, <3>2 DEF Vigilant
  <2>3. (Awake(n) \/ Settled(n))'
    BY <1>1, <1>2 DEF Awake
  <2> QED BY <1>2, <2>1, <2>2, <2>3 DEF Vigilant
<1>3. pc' = "idle" => UpToDate'
  BY DEF UpToDate, Deletion
<1>4. CASE ReconcileNothing(n)
  <2>1. Adds /\ pc' = "idle" /\ UNCHANGED <<api, pipe>>
    BY <1>4 DEF ReconcileNothing, Take, k8s, Adds
  <2>2. cache[n] = NoCR
    BY <1>4 DEF ReconcileNothing, Versions, Lingers, IsDeleting, HasFinalizer
  <2>3. pipe'[n] = <<>> => Settled(n)'
    BY <2>1, <2>2 DEF InOrder, Latest, Settled
  <2> QED BY <1>2, <1>3, <2>1, <2>3
<1>5. CASE ReconcileRogue(n)
  <2>1. PICK ok \in BOOLEAN :
          /\ ApplyStatus(n, [Ready |-> <<"False", "ForbiddenCRName">>], FALSE, ok)
          /\ Finish(n, ~ok)
    BY <1>5 DEF ReconcileRogue
  <2>2. Adds /\ pc' = "idle" /\ n # Expected
    BY <1>1, <1>5, <2>1, UpdatesOK, ApplyStatusAdds DEF ReconcileRogue, Finish
  <2>3. CASE ok = FALSE
    BY <1>2, <1>3, <2>1, <2>2, <2>3 DEF Finish
  <2>4. CASE ok = TRUE
    <3>1. ASSUME pipe'[n] = <<>> PROVE Settled(n)'
      <4>1. /\ UNCHANGED <<api, pipe>> /\ api[n] \in CR
            /\ api[n].conds =
                 SetConditions(api[n].conds, [Ready |-> <<"False", "ForbiddenCRName">>], api[n].gen)
        BY <2>1, <2>4, <3>1, AppliedIsShown
      <4>2. "Ready" \in CondTypes
        BY DEF CondTypes
      <4>3. api[n].conds["Ready"] = Cond("False", "ForbiddenCRName", api[n].gen)
        BY <4>1, <4>2 DEF SetConditions
      <4> QED BY <2>2, <4>1, <4>3 DEF Settled
    <3> QED BY <1>2, <1>3, <2>2, <3>1
  <2> QED BY <2>3, <2>4
\* An Update that fails is retried; one that succeeds has changed something.
<1>6. ASSUME NEW obj \in Versions, obj # cache[n], NEW ok \in BOOLEAN,
             Update(n, obj, ok), Finish(n, ~ok)
      PROVE  Vigilant'
  <2>1. UNCHANGED <<api, pipe>> \/ Stored(n, obj)
    BY <1>6 DEF Update, Write, Stored
  <2>2. Adds /\ pc' = "idle"
    BY <1>1, <1>6, <2>1 DEF Adds, Finish
  <2>3. CASE ok = FALSE
    BY <1>2, <1>3, <1>6, <2>2, <2>3 DEF Finish
  <2>4. CASE ok = TRUE
    <3>1. pipe'[n] # <<>>
      BY <1>6, <2>4, UpdateIsDelivered
    <3> QED BY <1>2, <1>3, <2>2, <3>1
  <2> QED BY <2>3, <2>4
<1>7. CASE AddFinalizer(n)
  <2> DEFINE obj == [cache[n] EXCEPT !.finalizer = TRUE]
  <2>1. cache[n] \in CR /\ ~cache[n].deleting /\ ~cache[n].finalizer
    BY <1>7, TypeParts DEF AddFinalizer, Live, K8sOK
  <2>2. obj \in CR /\ obj.finalizer
    BY <2>1 DEF CR
  <2>3. obj \in Versions /\ obj # cache[n]
    BY <2>1, <2>2, AbsenceAssumption DEF Versions, Lingers, HasFinalizer
  <2>4. PICK ok \in BOOLEAN : Update(n, obj, ok) /\ Finish(n, ~ok)
    BY <1>7 DEF AddFinalizer
  <2> HIDE DEF obj
  <2> QED BY <1>6, <2>3, <2>4
<1>8. CASE ReconcilePreflight(n)
  <2>1. /\ Adds /\ n = Expected /\ Live(n) /\ pc' \in {"warn", "error", "installing"}
        /\ pc' = "error" => RunPreflight(nodes).outcome = "Error"
    BY <1>8 DEF ReconcilePreflight, k8s, Adds
  <2>2. pc' = "installing" => want' # Absent
    <3> SUFFICES ASSUME RunPreflight(nodes).outcome = "Proceed"
                 PROVE  <<cache[n].spec, RunPreflight(nodes).os>> # Absent
      BY <1>8 DEF ReconcilePreflight, Helm!Start
    <3>1. cache[n] \in CR
      BY <2>1, TypeParts DEF Live, K8sOK
    <3>2. cache[n].spec \in Specs
      BY <3>1 DEF CR
    <3> QED BY <3>2, TypeParts, ProceedOS, AbsenceAssumption DEF Configs
  <2>3. UpToDate'
    BY <1>1, <2>1, <2>2 DEF UpToDate, Deletion, Live
  <2> QED BY <1>2, <2>1, <2>3
<1>9. CASE NodesUnreadable(n)
  BY <1>2, <1>3, <1>9 DEF NodesUnreadable, Finish, k8s, Adds
<1>10. CASE DropRogueFinalizer(n)
  <2>1. cache[n] \in CR /\ cache[n].deleting
    BY <1>10, TypeParts DEF DropRogueFinalizer, Deleting, K8sOK
  <2>2. WithoutFinalizer(cache[n]) \in Versions /\ WithoutFinalizer(cache[n]) # cache[n]
    BY <2>1, AbsenceAssumption DEF WithoutFinalizer, Versions, Lingers, IsDeleting
  <2>3. PICK ok \in BOOLEAN : Update(n, WithoutFinalizer(cache[n]), ok) /\ Finish(n, ~ok)
    BY <1>10 DEF DropRogueFinalizer
  <2> QED BY <1>6, <2>2, <2>3
<1>11. CASE ReconcileDelete(n)
  <2>1. Adds /\ n = Expected /\ Deleting(n) /\ pc' = "deleting"
    BY <1>11 DEF ReconcileDelete, k8s, Adds
  <2>2. UpToDate'
    BY <1>1, <2>1 DEF UpToDate, Deleting
  <2> QED BY <1>2, <2>1, <2>2
<1> QED BY <1>4, <1>5, <1>7, <1>8, <1>9, <1>10, <1>11 DEF Reconcile

\* What the informer delivers is enqueued, and a restart enqueues every CR.
LEMMA MachineryVigilant ==
  ASSUME TypeOK, Vigilant, Machinery \/ Crash
  PROVE  Vigilant'
<1> InOrder /\ UpToDate
  BY DEF Vigilant
<1>1. ASSUME NEW n \in CRs, Deliver(n)
      PROVE  Vigilant'
  <2>1. pipe[n] \in Seq(Versions) /\ pipe[n] # <<>>
    BY <1>1 DEF InOrder, Deliver
  <2>2. /\ Head(pipe[n]) = pipe[n][1] /\ Head(pipe[n]) \in Versions
        /\ Tail(pipe[n]) \in Seq(Versions)
        /\ Len(Tail(pipe[n])) = Len(pipe[n]) - 1 /\ Len(pipe[n]) \in Nat
        /\ \A i \in 1..Len(Tail(pipe[n])) : Tail(pipe[n])[i] = pipe[n][i + 1]
    BY <2>1, HeadTailProperties, LenProperties
  <2>3. Tail(pipe[n]) = <<>> <=> Len(Tail(pipe[n])) = 0
    BY <2>2, EmptySeq
  <2>4. /\ cache' = [cache EXCEPT ![n] = Head(pipe[n])] /\ pipe' = [pipe EXCEPT ![n] = Tail(pipe[n])]
        /\ api' = api
    BY <1>1 DEF Deliver
  <2>5. Latest(n)'
    <3>1. pipe[n][Len(pipe[n])] = api[n]
      BY <2>1 DEF InOrder, Latest
    <3>2. cache'[n] = pipe[n][1] /\ pipe'[n] = Tail(pipe[n])
      BY <2>2, <2>4 DEF InOrder
    <3>3. CASE Tail(pipe[n]) = <<>>
      <4>1. Len(pipe[n]) = 1
        BY <2>2, <2>3, <3>3
      <4> QED BY <2>4, <3>1, <3>2, <3>3, <4>1 DEF Latest
    <3>4. CASE Tail(pipe[n]) # <<>>
      <4>1. Len(Tail(pipe[n])) \in 1..Len(Tail(pipe[n]))
        BY <2>1, <2>2, <2>3, <3>4, LenProperties
      <4>2. Tail(pipe[n])[Len(Tail(pipe[n]))] = pipe[n][Len(pipe[n])]
        BY <2>2, <4>1
      <4> QED BY <2>4, <3>1, <3>2, <3>4, <4>2 DEF Latest
    <3> QED BY <3>3, <3>4
  <2>6. InOrder'
    BY <2>2, <2>4, <2>5 DEF InOrder, Latest
  <2>7. UpToDate'
    BY <1>1, NamesAssumption DEF UpToDate, Deliver, helm, world, Live, Deleting, InOrder
  <2>8. ASSUME NEW m \in CRs PROVE (Awake(m) \/ Settled(m))'
    <3>1. CASE m = n
      BY <1>1, <3>1 DEF Deliver, Awake
    <3>2. CASE m # n
      BY <1>1, <3>2 DEF Vigilant, Deliver, world, Awake, Settled, InOrder
    <3> QED BY <3>1, <3>2
  <2> QED BY <2>6, <2>7, <2>8 DEF Vigilant
<1>2. ASSUME NEW n \in CRs, TimerFires(n)
      PROVE  Vigilant'
  BY <1>2, OtherStepsVigilant DEF TimerFires, k8s, helm, world, Adds, UpToDate
<1>3. CASE Crash
  <2>1. <<>> \in Seq(Versions)
    BY EmptySeq
  <2>2. InOrder'
    BY <1>3, <2>1 DEF Crash, InOrder, Latest
  <2>3. UpToDate' /\ \A n \in CRs : (Awake(n) \/ Settled(n))'
    BY <1>3 DEF Crash, UpToDate, Deletion, Awake, Settled
  <2> QED BY <2>2, <2>3 DEF Vigilant
<1> QED BY <1>1, <1>2, <1>3 DEF Machinery

\* What users write is on its way to the cache.
LEMMA UsersVigilant ==
  ASSUME TypeOK, Vigilant, Users
  PROVE  Vigilant'
<1>1. PICK n \in CRs : Create(n) \/ Edit(n) \/ Delete(n)
  BY DEF Users
<1>2. ByUser
  BY <1>1 DEF Create, Edit, Delete
<1>3. ASSUME NEW obj \in CR, SameBut(n, obj) PROVE obj \in Versions
  <2>1. Lingers(api[n]) /\ api[n] # NoCR
    BY <1>3, AbsenceAssumption DEF Vigilant, InOrder, Versions, SameBut
  <2> QED BY <1>3, <2>1 DEF Versions, Lingers, IsDeleting, HasFinalizer, SameBut
<1>4. ASSUME NEW obj \in CR, ~obj.deleting \/ obj.finalizer PROVE obj \in Versions
  BY <1>4, AbsenceAssumption DEF Versions, Lingers, IsDeleting, HasFinalizer
<1>5. NoCR \in Versions
  BY DEF Versions, Lingers, IsDeleting
<1>6. UNCHANGED <<api, pipe>> \/ \E obj \in Versions : Stored(n, obj)
  BY <1>1, <1>3, <1>4, <1>5, TypeParts, UsersStore
<1>7. Adds
  BY <1>2, <1>6 DEF Adds, ByUser
<1> QED BY <1>2, <1>7, OtherStepsVigilant DEF ByUser, helm, world, Vigilant, UpToDate

\* An event of a Node that gets through, or of a DaemonSet, enqueues the CRs in
\* the cache; one that does not get through makes no difference to preflight.
LEMMA ClusterVigilant ==
  ASSUME TypeOK, Vigilant, Cluster
  PROVE  Vigilant'
<1> InOrder /\ UpToDate
  BY DEF Vigilant
<1>1. ASSUME NEW m \in Nodes, NodeChanges(m)
      PROVE  Vigilant'
  <2>1. nodes \in Clusters /\ nodes' \in Clusters
    BY <1>1, ClusterTypeOK, TypeParts DEF WorldOK
  <2>2. UNCHANGED <<k8s, timers, pc, helm>>
    BY <1>1 DEF NodeChanges
  <2>3. CASE UNCHANGED queue /\ ~GpuNodeChanged(nodes[m], nodes'[m])
    <3>1. \A k \in Nodes : ~GpuNodeChanged(nodes[k], nodes'[k])
      BY <1>1, <2>1, <2>3 DEF NodeChanges, Clusters, GpuNodeChanged
    <3>2. RunPreflight(nodes') = RunPreflight(nodes)
      BY <2>1, <3>1, DroppedEventsChangeNothing
    <3> QED BY <2>2, <2>3, <3>2, OtherStepsVigilant DEF k8s, helm, Adds, UpToDate
  <2>4. CASE EnqueueGpu
    <3>1. InOrder'
      BY <2>2 DEF InOrder, Latest, k8s
    <3>2. UpToDate'
      BY <2>2, <2>4, NamesAssumption DEF UpToDate, EnqueueGpu, k8s, helm, Live, Deleting
    <3>3. ASSUME NEW n \in CRs PROVE (Awake(n) \/ Settled(n))'
      <4>1. CASE cache[n] # NoCR
        BY <2>4, <4>1 DEF EnqueueGpu, Awake
      <4>2. CASE cache[n] = NoCR
        BY <2>2, <4>2 DEF k8s, Awake, Settled, InOrder, Latest
      <4> QED BY <4>1, <4>2
    <3> QED BY <3>1, <3>2, <3>3 DEF Vigilant
  <2>5. (UNCHANGED queue /\ ~GpuNodeChanged(nodes[m], nodes'[m])) \/ EnqueueGpu
    BY <1>1, <2>1 DEF NodeChanges, Clusters
  <2> QED BY <2>3, <2>4, <2>5
<1>2. ASSUME UNCHANGED <<k8s, timers, pc, want, nodes>>, UNCHANGED queue \/ EnqueueGpu
      PROVE  Vigilant'
  BY <1>2, OtherStepsVigilant DEF k8s, Adds, UpToDate, EnqueueGpu
<1> QED BY <1>1, <1>2 DEF Cluster, PodChanges, DriverFollows, DriverSetback, PolicyFollows,
           PolicySetback, NamespaceGone, helm, world

\* The operator starts without CRs.
LEMMA InitVigilant == Init => Vigilant
<1> SUFFICES ASSUME Init PROVE Vigilant
  OBVIOUS
<1>1. NoCR \in Versions /\ <<>> \in Seq(Versions)
  BY EmptySeq DEF Versions, Lingers, IsDeleting
<1> QED BY <1>1 DEF Init, Vigilant, InOrder, Latest, UpToDate, Deletion, Settled

\* Vigilant is inductive, for CRs with the types of TypeOK.
LEMMA NextVigilant == TypeOK /\ Vigilant /\ [Next]_vars => Vigilant'
<1> SUFFICES ASSUME TypeOK, Vigilant, [Next]_vars PROVE Vigilant'
  OBVIOUS
<1>1. CASE UNCHANGED vars
  BY <1>1, OtherStepsVigilant DEF vars, k8s, helm, world, Adds, Vigilant, UpToDate
<1> QED BY <1>1, ReconcileVigilant, ReportVigilant, WorkVigilant, MachineryVigilant, UsersVigilant,
           ClusterVigilant DEF Next, Worker

\* No trigger is lost, whatever fails, and whenever it crashes: the operator is at
\* rest only if every CR is gone, is flagged as a rogue, or has reported the preflight
\* error that the nodes still give it, with the Node watch to bring it back
\* (gpu_controller.go 199-233, 592-665).
THEOREM RestsOnlyWhenDone == Spec => []NothingForgotten
<1>1. Vigilant => NothingForgotten
  BY DEF Vigilant, NothingForgotten, Asleep, Awake
<1> QED BY <1>1, InitTypeOK, NextTypeOK, InitVigilant, NextVigilant, PTL DEF Spec

-----------------------------------------------------------------------------
(* Workloads, again without an assumption on what users create.             *)

\* An uninstall begins where the pods have just been looked at.
LEMMA WhoBegins ==
  ASSUME [Next]_vars, pc # "removing", pc' = "removing"
  PROVE  BeginUninstall
<1>1. ASSUME NEW n \in CRs, Reconcile(n)
      PROVE  pc' # "removing"
  BY <1>1 DEF Reconcile, ReconcileNothing, ReconcileRogue, AddFinalizer, ReconcilePreflight,
              NodesUnreadable, DropRogueFinalizer, ReconcileDelete, Take, Finish
<1>2. CASE Worker
  <2>1. ~HelmWorks /\ ~HelmFails
    BY DEF HelmWorks, HelmFails, AfterHelm, Finish
  <2> QED BY <1>1, <1>2, <2>1 DEF Worker, PreflightWarn, PreflightError, InstallFailed, CheckDriver,
             CheckClusterPolicy, UpdateStatus, MarkUninstalling, DeletionBlocked,
             DeleteNamespace, RemoveFinalizer, Finish
<1>3. ~Machinery /\ ~Crash /\ ~Users
  <2>1. ~Machinery
    BY DEF Machinery, Deliver, TimerFires
  <2>2. ~Crash
    BY DEF Crash
  <2>3. ~Users
    BY UsersTouchCRs DEF ByUser
  <2> QED BY <2>1, <2>2, <2>3
<1>4. ~Cluster
  BY DEF Cluster, NodeChanges, PodChanges, DriverFollows, DriverSetback, PolicyFollows,
         PolicySetback, NamespaceGone
<1> QED BY <1>2, <1>3, <1>4 DEF Next, vars

\* The pods that are found are all that need a GPU.
LEMMA AllAreFound ==
  ASSUME WorldOK, DetectActiveGPUWorkloads(pods) = {}, NEW p \in PodNames
  PROVE  ~Blocks(pods[p])
<1> SUFFICES ASSUME Blocks(pods[p]) PROVE p \in DetectActiveGPUWorkloads(pods)
  OBVIOUS
<1>1. pods[p] \in Pod
  BY DEF WorldOK, Blocks, NeedsGPU
<1>2. PodRequestsGPU(pods[p])
  <2>1. PICK list \in ContainerLists : \E r \in GPUResources : r \in pods[p].limits[list]
    BY DEF Blocks, NeedsGPU, ContainerLists
  <2> QED BY <2>1 DEF PodRequestsGPU
<1> QED BY <1>1, <1>2 DEF Blocks, NeedsGPU, DetectActiveGPUWorkloads

\* Unless the pods cannot be listed, the uninstall begins only when no pod of the
\* users' needs a GPU, and only the deletion of the CR removes a complete or failed
\* release: no recovery and no upgrade does (gpu_controller.go 325-346, 542-587).
THEOREM NoUninstallUnderPods == Spec => WorkloadsSpared
<1> DEFINE A == /\ pc # "removing" /\ pc' = "removing" /\ UNCHANGED faults
                     => \A p \in PodNames : ~Blocks(pods[p])
                /\ release.status \in {"deployed", "failed"} /\ release'.status = "uninstalling"
                     => pc = "removing"
<1>1. TypeOK /\ Vigilant /\ [Next]_vars => A
  <2> SUFFICES ASSUME TypeOK, Vigilant, [Next]_vars PROVE A
    OBVIOUS
  <2>1. ASSUME pc # "removing", pc' = "removing", UNCHANGED faults, NEW p \in PodNames
        PROVE  ~Blocks(pods[p])
    <3>1. ~Fault
      BY <2>1, BoundsAssumption, TypeParts DEF BoundsOK, Fault
    <3>2. DetectActiveGPUWorkloads(pods) = {}
      BY <2>1, <3>1, WhoBegins DEF BeginUninstall
    <3> QED BY <3>2, AllAreFound, TypeParts
  <2>2. ASSUME release.status \in {"deployed", "failed"}, release'.status = "uninstalling"
        PROVE  pc = "removing"
    <3>1. HelmWorks
      <4>1. ~HelmFails
        <5>1. HelmFails => UNCHANGED release \/ release'.status = "failed"
          BY DEF HelmFails, Helm!FinishFailed, Helm!GiveUp, Helm!Rel
        <5> QED BY <2>2, <5>1
      <4>2. ~NamespaceGone
        BY <2>2 DEF NamespaceGone, Helm!NoRelease, Helm!Rel
      <4>3. ~UNCHANGED release
        BY <2>2
      <4> QED BY <4>1, <4>2, <4>3, WhoMovesRelease
    <3>2. want = Absent
      BY <2>2, <3>1 DEF HelmWorks, Helm!Work, Helm!Recover, Helm!Advance, Helm!Unchanged, Helm!Finish,
         Helm!Remove, Helm!Purged, Helm!NothingToRemove, Helm!Rel, Helm!NoRelease, Helm!InStatus,
         Helm!Pending
    <3> QED BY <3>1, <3>2 DEF HelmWorks, Vigilant, UpToDate
  <2> QED BY <2>1, <2>2
<1>2. TypeOK /\ Vigilant /\ [Next]_vars => [A]_vars
  BY <1>1
<1>3. WorkloadsSpared <=> [][A]_vars
  BY DEF WorkloadsSpared
<1> HIDE DEF A
<1> QED BY <1>2, <1>3, InitTypeOK, NextTypeOK, InitVigilant, NextVigilant, PTL DEF Spec

=============================================================================
