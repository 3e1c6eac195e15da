----------------------------- MODULE ManagerProofs -----------------------------
(***************************************************************************)
(* Which chart is installed, for any content of the embedded directory;    *)
(* and that two operator processes never reconcile at the same time, for   *)
(* any number of processes and images, any rollouts, crashes and evictions,*)
(* and any two times of which the leader's is the shorter.                 *)
(***************************************************************************)
EXTENDS Manager, FiniteSetTheorems, WellFoundedInduction, TLAPS

-----------------------------------------------------------------------------
(* The embedded chart.                                                      *)

\* Two versions are never each higher than the other.
LEMMA Asymmetric ==
  ASSUME NEW v \in Version, NEW w \in Version, GreaterThan(v, w)
  PROVE  ~GreaterThan(w, v)
<1>1. PICK i \in 1..4 : v[i] > w[i] /\ \A j \in 1..(i - 1) : v[j] = w[j]
  BY DEF GreaterThan
<1>2. \A k \in 1..4 : v[k] \in Int /\ w[k] \in Int
  BY DEF Version
<1> SUFFICES ASSUME NEW k \in 1..4, w[k] > v[k], \A j \in 1..(k - 1) : w[j] = v[j]
             PROVE  FALSE
  BY DEF GreaterThan
<1>3. CASE i < k
  BY <1>1, <1>2, <1>3
<1>4. CASE k < i
  BY <1>1, <1>2, <1>4
<1>5. CASE i = k
  BY <1>1, <1>2, <1>5
<1> QED BY <1>3, <1>4, <1>5

\* Of the archives in the directory, the one with the highest semver version is
\* selected, whatever its name and whatever else is there (embed.go 35-37).
THEOREM HighestIsLatest ==
  ASSUME NEW files \in SUBSET File, NEW f \in Charts(files),
         \A g \in Charts(files) \ {f} : GreaterThan(f.version, g.version)
  PROVE  LatestChart(files) = f /\ GPUOperatorChartVersion(files) = f.version
<1>1. \A g \in Charts(files) : g.version \in Version
  BY DEF Charts, File
<1>2. ~GreaterThan(f.version, f.version)
  BY <1>1, Asymmetric
<1>3. \A g \in Charts(files) : ~GreaterThan(g.version, f.version)
  BY <1>1, <1>2, Asymmetric
<1>4. \A x \in Charts(files) :
        (\A g \in Charts(files) : ~GreaterThan(g.version, x.version)) => x = f
  OBVIOUS
<1>5. LatestChart(files) = f
  BY <1>3, <1>4 DEF LatestChart
<1> QED BY <1>5 DEF GPUOperatorChartVersion

\* The order of versions is transitive.
LEMMA Transitive ==
  ASSUME NEW u \in Version, NEW v \in Version, NEW w \in Version,
         GreaterThan(u, v), GreaterThan(v, w)
  PROVE  GreaterThan(u, w)
<1>1. \A k \in 1..4 : u[k] \in Int /\ v[k] \in Int /\ w[k] \in Int
  BY DEF Version
<1>2. PICK i \in 1..4 : u[i] > v[i] /\ \A j \in 1..(i - 1) : u[j] = v[j]
  BY DEF GreaterThan
<1>3. PICK k \in 1..4 : v[k] > w[k] /\ \A j \in 1..(k - 1) : v[j] = w[j]
  BY DEF GreaterThan
<1>4. CASE i <= k
  <2>1. u[i] > w[i] /\ \A j \in 1..(i - 1) : u[j] = w[j]
    BY <1>1, <1>2, <1>3, <1>4
  <2> QED BY <2>1 DEF GreaterThan
<1>5. CASE k < i
  <2>1. u[k] > w[k] /\ \A j \in 1..(k - 1) : u[j] = w[j]
    BY <1>1, <1>2, <1>3, <1>5
  <2> QED BY <2>1 DEF GreaterThan
<1> QED BY <1>1, <1>4, <1>5

\* Of two different versions one is higher.
LEMMA Comparable ==
  ASSUME NEW v \in Version, NEW w \in Version, ~GreaterThan(v, w), ~GreaterThan(w, v)
  PROVE  v = w
<1>1. \A k \in 1..4 : v[k] \in Int /\ w[k] \in Int
  BY DEF Version
<1>2. v[1] = w[1]
  BY <1>1 DEF GreaterThan
<1>3. v[2] = w[2]
  BY <1>1, <1>2 DEF GreaterThan
<1>4. v[3] = w[3]
  BY <1>1, <1>2, <1>3 DEF GreaterThan
<1>5. v[4] = w[4]
  BY <1>1, <1>2, <1>3, <1>4 DEF GreaterThan
<1> QED BY <1>2, <1>3, <1>4, <1>5 DEF Version

\* Of finitely many charts, one has a version that no other exceeds.
LEMMA HighestExists ==
  ASSUME NEW charts, IsFiniteSet(charts), charts # {},
         \A f \in charts : f.version \in Version
  PROVE  \E f \in charts : \A g \in charts : ~GreaterThan(g.version, f.version)
<1> DEFINE Highest(f, X) == \A g \in X : ~GreaterThan(g.version, f.version)
           T == {X \in FiniteSubsetsOf(charts) : X # {} /\ ~ \E f \in X : Highest(f, X)}
<1>1. ASSUME T # {} PROVE FALSE
  <2>1. PICK X \in T : \A Y \in T : <<Y, X>> \notin StrictSubsetOrdering(charts)
    <3>1. T \subseteq FiniteSubsetsOf(charts)
      OBVIOUS
    <3> HIDE DEF T
    <3> QED BY <1>1, <3>1, FS_StrictSubsetOrderingWellFounded, WFMin
  <2>2. X \subseteq charts /\ IsFiniteSet(X)
    BY DEF FiniteSubsetsOf
  <2>3. PICK e \in X : TRUE
    OBVIOUS
  <2>4. X \ {e} \subseteq charts /\ IsFiniteSet(X \ {e}) /\ X \ {e} # X
    BY <2>2, FS_RemoveElement
  <2>5. X \ {e} \notin T
    BY <2>1, <2>2, <2>4 DEF StrictSubsetOrdering
  <2>6. \A f \in X : f.version \in Version /\ ~GreaterThan(f.version, f.version)
    BY <2>2, Asymmetric
  <2>7. CASE X \ {e} = {}
    BY <2>6, <2>7
  <2>8. CASE X \ {e} # {}
    <3>1. PICK m \in X \ {e} : \A g \in X \ {e} : ~GreaterThan(g.version, m.version)
      BY <2>4, <2>5, <2>8 DEF FiniteSubsetsOf
    <3>2. CASE GreaterThan(e.version, m.version)
      BY <2>6, <3>1, <3>2, Transitive
    <3>3. CASE ~GreaterThan(e.version, m.version)
      BY <2>6, <3>1, <3>3
    <3> QED BY <3>2, <3>3
  <2> QED BY <2>7, <2>8
<1> QED BY <1>1 DEF FiniteSubsetsOf

\* Whatever the directory holds, a chart is found if there is one, no chart in it
\* is newer, and the version found, as semver compares it, is determined by the
\* versions alone: two files of the highest version do not make the answer depend
\* on their order (embed.go 35-37; sort.Slice is not stable).
THEOREM VersionOfLatest ==
  ASSUME NEW files \in SUBSET File, IsFiniteSet(files)
  PROVE  IF Charts(files) = {} THEN GPUOperatorChartVersion(files) = NoChart
         ELSE /\ LatestChart(files) \in Charts(files)
              /\ GPUOperatorChartVersion(files) \in Version
              /\ \A g \in Charts(files) :
                   ~GreaterThan(g.version, GPUOperatorChartVersion(files))
              /\ \A f \in Charts(files) :
                   (\A g \in Charts(files) : ~GreaterThan(g.version, f.version))
                     => GPUOperatorChartVersion(files) = f.version
<1>1. IsFiniteSet(Charts(files)) /\ \A f \in Charts(files) : f.version \in Version
  BY FS_Subset DEF Charts, File
<1>2. CASE Charts(files) = {}
  BY <1>2 DEF GPUOperatorChartVersion
<1>3. CASE Charts(files) # {}
  <2>1. /\ LatestChart(files) \in Charts(files)
        /\ \A g \in Charts(files) : ~GreaterThan(g.version, LatestChart(files).version)
    BY <1>1, <1>3, HighestExists DEF LatestChart
  <2>2. GPUOperatorChartVersion(files) = LatestChart(files).version
    BY <1>3 DEF GPUOperatorChartVersion
  <2>3. ASSUME NEW f \in Charts(files),
               \A g \in Charts(files) : ~GreaterThan(g.version, f.version)
        PROVE  GPUOperatorChartVersion(files) = f.version
    BY <1>1, <2>1, <2>2, <2>3, Comparable
  <2> QED BY <1>1, <1>3, <2>1, <2>2, <2>3
<1> QED BY <1>2, <1>3

-----------------------------------------------------------------------------
(* The processes.                                                           *)

Statuses == {"down", "candidate", "leader", "stopping", "gone"}

\* The part of the type invariant that the election is about.
Typed ==
  /\ status \in [Procs -> Statuses]
  /\ holder \in Procs \union {None}
  /\ since \in [Procs -> 0..RenewDeadline] /\ waited \in [Procs -> 0..LeaseDuration]
  /\ seen \subseteq Procs /\ calling \subseteq Procs

\* The lease is in the name of whoever is active.
ActiveHolds == \A p \in Active : holder = p

\* Only candidates watch the lease, and none has waited for longer than the
\* active process has gone without renewing it.
WaitedAtMostSince ==
  /\ \A p \in seen : status[p] = "candidate"
  /\ \A p \in seen, q \in Active : waited[p] <= since[q]

IInv == Typed /\ ActiveHolds /\ WaitedAtMostSince /\ calling \subseteq Active

-----------------------------------------------------------------------------
\* At the start no process is up (cmd/main.go has yet to run).
LEMMA InitIInv == Init => IInv
  BY LeaseAssumption DEF Init, IInv, Typed, Statuses, ActiveHolds, WaitedAtMostSince, Active

\* A process that ends, in whatever way, leaves the rest as it was; the lease stays
\* in its name (cmd/main.go 164-174: it is not released).
LEMMA EndsKeepsIInv ==
  ASSUME IInv, NEW p \in Procs, Ends(p)
  PROVE  IInv'
<1>1. Active' = Active \ {p}
  BY DEF Ends, Active, IInv, Typed
<1>2. Typed'
  BY DEF Ends, IInv, Typed, Statuses
<1>3. ActiveHolds'
  BY <1>1 DEF Ends, ActiveHolds, IInv
<1>4. WaitedAtMostSince'
  BY <1>1 DEF Ends, WaitedAtMostSince, IInv, Typed
<1>5. (calling \subseteq Active)'
  BY <1>1 DEF Ends, IInv
<1> QED BY <1>2, <1>3, <1>4, <1>5 DEF IInv

\* A process told to stop is still active if it was leading.
LEMMA StopsKeepsIInv ==
  ASSUME IInv, NEW p \in Procs, Stops(p)
  PROVE  IInv'
<1>1. CASE status[p] = "candidate" /\ Ends(p)
  BY <1>1, EndsKeepsIInv
<1>2. CASE /\ status[p] = "leader"
           /\ status' = [status EXCEPT ![p] = "stopping"]
           /\ UNCHANGED <<image, election, calling, installed, wanted, rollouts>>
  <2>1. Active' = Active
    BY <1>2 DEF Active, IInv, Typed
  <2>2. Typed'
    BY <1>2 DEF IInv, Typed, Statuses, election
  <2>3. ActiveHolds' /\ WaitedAtMostSince'
    BY <1>2, <2>1 DEF ActiveHolds, WaitedAtMostSince, IInv, Typed, election
  <2>4. (calling \subseteq Active)'
    BY <1>2, <2>1 DEF IInv
  <2> QED BY <2>2, <2>3, <2>4 DEF IInv
<1> QED BY <1>1, <1>2 DEF Stops

\* A candidate becomes the leader only when nobody is active: it has waited for
\* longer than a leader goes on without renewing the lease.
LEMMA AcquireKeepsIInv ==
  ASSUME IInv, NEW p \in Procs, Acquire(p)
  PROVE  IInv'
<1>1. Active = {}
  <2> SUFFICES ASSUME NEW q \in Active PROVE FALSE
    OBVIOUS
  <2>1. q \in Procs /\ holder = q /\ since[q] \in 0..RenewDeadline
    BY DEF Active, IInv, Typed, ActiveHolds
  <2>2. p \in seen /\ waited[p] >= LeaseDuration
    BY <2>1, LeaseAssumption DEF Acquire
  <2>3. waited[p] <= since[q] /\ waited[p] \in 0..LeaseDuration
    BY <2>2 DEF IInv, WaitedAtMostSince, Typed
  <2> QED BY <2>1, <2>2, <2>3, LeaseAssumption
<1>2. Active' = {p}
  BY <1>1 DEF Acquire, Record, Active, IInv, Typed
<1>3. Typed'
  BY LeaseAssumption DEF Acquire, Record, IInv, Typed, Statuses
<1>4. ActiveHolds' /\ WaitedAtMostSince'
  BY <1>2 DEF Acquire, Record, ActiveHolds, WaitedAtMostSince
<1>5. (calling \subseteq Active)'
  BY <1>1, <1>2 DEF Acquire, IInv
<1> QED BY <1>3, <1>4, <1>5 DEF IInv

\* Time passes alike for the leader and for the candidates.
LEMMA TickKeepsIInv ==
  ASSUME IInv, Tick
  PROVE  IInv'
<1>1. Active' = Active
  BY DEF Tick, Active
<1>2. Typed'
  <2>1. \A p \in Procs : since'[p] \in 0..RenewDeadline
    BY LeaseAssumption DEF Tick, IInv, Typed, Active
  <2>2. \A p \in Procs : waited'[p] \in 0..LeaseDuration
    BY LeaseAssumption DEF Tick, IInv, Typed
  <2> QED BY <2>1, <2>2 DEF Tick, IInv, Typed
<1>3. WaitedAtMostSince'
  <2> SUFFICES ASSUME NEW p \in seen, NEW q \in Active
               PROVE  waited'[p] <= since'[q]
    BY <1>1 DEF Tick, WaitedAtMostSince, IInv
  <2>1. /\ p \in Procs /\ q \in Procs /\ waited[p] <= since[q]
        /\ waited[p] \in Nat /\ since[q] \in Nat
    BY LeaseAssumption DEF IInv, WaitedAtMostSince, Typed, Active
  <2>2. waited'[p] <= waited[p] + 1 /\ since'[q] = since[q] + 1
    BY <2>1, LeaseAssumption DEF Tick
  <2>3. waited'[p] \in Nat
    BY <2>1, LeaseAssumption DEF Tick
  <2> QED BY <2>1, <2>2, <2>3
<1>4. ActiveHolds' /\ (calling \subseteq Active)'
  BY <1>1 DEF Tick, ActiveHolds, IInv
<1> QED BY <1>2, <1>3, <1>4 DEF IInv

\* The invariant is inductive.
LEMMA NextKeepsIInv == IInv /\ [Next]_vars => IInv'
<1> SUFFICES ASSUME IInv, [Next]_vars PROVE IInv'
  OBVIOUS
<1>1. CASE Tick
  BY <1>1, TickKeepsIInv
<1>2. CASE Rollout
  BY <1>2 DEF Rollout, IInv, Typed, ActiveHolds, WaitedAtMostSince, Active, election
<1>3. ASSUME NEW p \in Procs, Observe(p)
      PROVE  IInv'
  <2>1. Active' = Active
    BY <1>3 DEF Observe, Active
  <2>2. Typed'
    BY <1>3, LeaseAssumption DEF Observe, IInv, Typed
  <2>3. WaitedAtMostSince'
    BY <1>3, <2>1, LeaseAssumption DEF Observe, IInv, Typed, WaitedAtMostSince, Active
  <2> QED BY <1>3, <2>1, <2>2, <2>3 DEF Observe, IInv, ActiveHolds
<1>4. ASSUME NEW p \in Procs, Acquire(p)
      PROVE  IInv'
  BY <1>4, AcquireKeepsIInv
<1>5. ASSUME NEW p \in Procs, Renew(p)
      PROVE  IInv'
  <2>1. Active' = Active
    BY <1>5 DEF Renew, Active
  <2>2. Typed'
    BY <1>5, LeaseAssumption DEF Renew, Record, IInv, Typed
  <2> QED BY <1>5, <2>1, <2>2 DEF Renew, Record, IInv, ActiveHolds, WaitedAtMostSince
<1>6. ASSUME NEW p \in Procs, Start(p)
      PROVE  IInv'
  <2>1. Active' = Active
    BY <1>6 DEF Start, Active, IInv, Typed
  <2>2. Typed'
    BY <1>6 DEF Start, IInv, Typed, Statuses, election
  <2>3. WaitedAtMostSince'
    BY <1>6, <2>1 DEF Start, IInv, Typed, WaitedAtMostSince, election
  <2> QED BY <1>6, <2>1, <2>2, <2>3 DEF Start, IInv, ActiveHolds, election
<1>7. ASSUME NEW p \in Procs, Replace(p) \/ Evict(p)
      PROVE  IInv'
  BY <1>7, StopsKeepsIInv DEF Replace, Evict
<1>8. ASSUME NEW p \in Procs, Exit(p) \/ LoseLease(p) \/ Crash(p)
      PROVE  IInv'
  BY <1>8, EndsKeepsIInv DEF Exit, LoseLease, Crash
<1>9. ASSUME NEW p \in Procs, Call(p)
      PROVE  IInv'
  <2>1. Active' = Active
    BY <1>9 DEF Call, BeginCall, EndCall, Active
  <2>2. calling' \subseteq Active'
    BY <1>9, <2>1 DEF Call, BeginCall, EndCall, IInv, Active
  <2>3. Typed' /\ ActiveHolds' /\ WaitedAtMostSince'
    BY <1>9, <2>1, <2>2 DEF Call, BeginCall, EndCall, IInv, Typed, ActiveHolds,
                            WaitedAtMostSince, Active, election
  <2> QED BY <2>2, <2>3 DEF IInv
<1>10. CASE UNCHANGED vars
  BY <1>10 DEF vars, election, IInv, Typed, ActiveHolds, WaitedAtMostSince, Active
<1> QED
  BY <1>1, <1>2, <1>3, <1>4, <1>5, <1>6, <1>7, <1>8, <1>9, <1>10
  DEF Next, Election, Life, Failure

\* There is only one active controller manager, also while an old one finishes its
\* last Helm call (cmd/main.go 68-70, 157-204).
THEOREM OnlyOneActive == Spec => []AtMostOneActive
<1>1. IInv => AtMostOneActive
  BY DEF IInv, ActiveHolds, AtMostOneActive
<1> QED BY InitIInv, NextKeepsIInv, <1>1, PTL DEF Spec

\* The types of what the election is not about.
InstallTyped ==
  /\ image \in [Procs -> Images] /\ wanted \in Images
  /\ installed \in Version \union {None}
  /\ \A p \in calling : ChartOf(p) # NoChart

\* A process that calls Helm has a chart, and the one it installs is a version.
LEMMA NextKeepsInstallTyped == IInv /\ InstallTyped /\ [Next]_vars => InstallTyped'
<1> SUFFICES ASSUME IInv, InstallTyped, [Next]_vars PROVE InstallTyped'
  OBVIOUS
<1>0. ASSUME NEW p \in Procs, ChartOf(p) # NoChart PROVE ChartOf(p) \in Version
  <2>1. image[p] \in Images
    BY DEF InstallTyped
  <2>2. Embedded[image[p]] \in SUBSET File /\ IsFiniteSet(Embedded[image[p]])
    BY <2>1, ImageAssumption
  <2> QED BY <1>0, <2>2, VersionOfLatest DEF ChartOf
<1>1. CASE Tick \/ \E p \in Procs : Observe(p) \/ Acquire(p) \/ Renew(p)
  BY <1>1 DEF Tick, Observe, Acquire, Renew, InstallTyped, ChartOf
<1>2. CASE Rollout
  BY <1>2 DEF Rollout, InstallTyped, ChartOf
<1>3. ASSUME NEW p \in Procs, Start(p) PROVE InstallTyped'
  <2>1. p \notin calling
    BY <1>3 DEF Start, IInv, Active
  <2>2. \A q \in calling : image'[q] = image[q]
    BY <1>3, <2>1 DEF Start, InstallTyped
  <2> QED BY <1>3, <2>2 DEF Start, InstallTyped, ChartOf
<1>4. CASE \E p \in Procs : Replace(p) \/ Exit(p) \/ LoseLease(p) \/ Crash(p) \/ Evict(p)
  BY <1>4 DEF Replace, Exit, LoseLease, Crash, Evict, Stops, Ends, InstallTyped, ChartOf
<1>5. ASSUME NEW p \in Procs, BeginCall(p) PROVE InstallTyped'
  BY <1>5 DEF BeginCall, InstallTyped, ChartOf
<1>6. ASSUME NEW p \in Procs, EndCall(p) PROVE InstallTyped'
  <2>1. ChartOf(p) \in Version
    BY <1>0, <1>6 DEF EndCall, InstallTyped
  <2> QED BY <1>6, <2>1 DEF EndCall, InstallTyped, ChartOf
<1>7. CASE UNCHANGED vars
  BY <1>7 DEF vars, InstallTyped, ChartOf
<1> QED
  BY <1>1, <1>2, <1>3, <1>4, <1>5, <1>6, <1>7 DEF Next, Election, Life, Failure, Call

\* All variables keep their types; in particular what is recorded as installed is
\* always a version that an image has embedded, never the absence of a chart.
THEOREM TypeCorrect == Spec => []TypeOK
<1>1. Init => InstallTyped
  BY ImageAssumption DEF Init, InstallTyped
<1>2. IInv /\ InstallTyped => TypeOK
  BY DEF IInv, Typed, Statuses, InstallTyped, TypeOK
<1> QED BY InitIInv, NextKeepsIInv, NextKeepsInstallTyped, <1>1, <1>2, PTL DEF Spec

=============================================================================
