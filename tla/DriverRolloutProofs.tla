-------------------------- MODULE DriverRolloutProofs --------------------------
(***************************************************************************)
(* For any number of nodes, kernels, DaemonSets, specs and replicas: what   *)
(* checkDriverDaemonSet makes of sums over all DaemonSets is true of every  *)
(* node, and a release is upgraded only for a difference.                   *)
(*                                                                         *)
(* The sum of the counters of all DaemonSets is the size of a disjoint      *)
(* union, with one set for each DaemonSet.  As no counter exceeds the       *)
(* number of nodes that its DaemonSet is for, the union for the ready pods  *)
(* is a subset of the union for the nodes, and two finite sets, one in the  *)
(* other, of the same size are the same: this is why a sum hides nothing.   *)
(***************************************************************************)
EXTENDS DriverRollout, HelmValuesProofs, FiniteSetTheorems, TLAPS

USE RolloutAssumption, NoneAssumption

\* The values installed were built from some spec for the system of the nodes.
BuiltForASpec == values # None => \E s \in Specs : values = BuildValues(s, os)

IInv == TypeOK /\ BuiltForASpec

-----------------------------------------------------------------------------
(* The counters and their sums.                                             *)

\* The counters that the DaemonSet controller would report now are numbers, and
\* none exceeds the number of nodes of the kernel.
LEMMA CountsNowFacts ==
  ASSUME NEW k \in Kernels
  PROVE  /\ IsFiniteSet(NodesWith(k)) /\ CountsNow(k) \in Counts
         /\ CountsNow(k).desired = Cardinality(NodesWith(k))
         /\ CountsNow(k).ready <= CountsNow(k).desired
         /\ CountsNow(k).updated <= CountsNow(k).desired
         /\ CountsNow(k).ready = CountsNow(k).desired <=> Running(k) = NodesWith(k)
         /\ CountsNow(k).updated = CountsNow(k).desired
              <=> \A n \in NodesWith(k) : pods[n] # None /\ pods[n].image = sets[k].image
<1> DEFINE upd == {n \in NodesWith(k) : pods[n] # None /\ pods[n].image = sets[k].image}
<1>1. IsFiniteSet(NodesWith(k))
  BY FS_Subset DEF NodesWith
<1>2. Running(k) \in SUBSET NodesWith(k) /\ upd \in SUBSET NodesWith(k)
  BY DEF Running
<1>3. IsFiniteSet(Running(k)) /\ IsFiniteSet(upd)
  BY <1>1, <1>2, FS_Subset
<1>4. /\ Cardinality(NodesWith(k)) \in Nat
      /\ Cardinality(Running(k)) \in Nat /\ Cardinality(upd) \in Nat
  BY <1>1, <1>3, FS_CardinalityType
<1>5. /\ Cardinality(Running(k)) <= Cardinality(NodesWith(k))
      /\ Cardinality(upd) <= Cardinality(NodesWith(k))
      /\ Cardinality(Running(k)) = Cardinality(NodesWith(k)) => Running(k) = NodesWith(k)
      /\ Cardinality(upd) = Cardinality(NodesWith(k)) => upd = NodesWith(k)
  BY <1>1, <1>2, FS_Subset
<1> HIDE DEF upd
<1>6. CountsNow(k) = [desired |-> Cardinality(NodesWith(k)), ready |-> Cardinality(Running(k)),
                      updated |-> Cardinality(upd)]
  BY DEF CountsNow, upd
<1>7. upd = NodesWith(k)
        <=> \A n \in NodesWith(k) : pods[n] # None /\ pods[n].image = sets[k].image
  BY DEF upd
<1>8. CountsNow(k) \in Counts
  BY <1>4, <1>6 DEF Counts
<1> QED BY <1>1, <1>4, <1>5, <1>6, <1>7, <1>8

\* One block of the disjoint union for each DaemonSet.
Blocks(field) == {{k} \X (1..sets[k].status[field]) : k \in Present}

\* The sum of a counter is a number.
LEMMA TotalFacts ==
  ASSUME sets \in [Kernels -> DaemonSet \union {None}],
         NEW field \in {"desired", "ready", "updated"}
  PROVE  /\ IsFiniteSet(UNION Blocks(field))
         /\ Total(field) = Cardinality(UNION Blocks(field)) /\ Total(field) \in Nat
         /\ \A k \in Present : sets[k].status[field] \in Nat
<1>1. IsFiniteSet(Present)
  BY FS_Subset DEF Present
<1>2. \A k \in Present : sets[k].status[field] \in Nat
  BY DEF Present, DaemonSet, Counts
<1>3. IsFiniteSet(Blocks(field))
  <2> DEFINE f == [k \in Present |-> {k} \X (1..sets[k].status[field])]
  <2>1. f \in Surjection(Present, Blocks(field))
    BY DEF Surjection, Blocks
  <2> QED BY <1>1, <2>1, FS_Surjection
<1>4. \A B \in Blocks(field) : IsFiniteSet(B)
  <2> SUFFICES ASSUME NEW k \in Present PROVE IsFiniteSet({k} \X (1..sets[k].status[field]))
    BY DEF Blocks
  <2>1. sets[k].status[field] \in Int
    BY <1>2
  <2>2. IsFiniteSet(1..sets[k].status[field])
    BY <2>1, FS_Interval
  <2>3. IsFiniteSet({k})
    BY FS_Singleton
  <2> QED BY <2>2, <2>3, FS_Product
<1>5. IsFiniteSet(UNION Blocks(field))
  BY <1>3, <1>4, FS_UNION
<1> QED BY <1>2, <1>5, FS_CardinalityType DEF Total, Blocks

\* A sum that reaches the sum of the nodes, of a counter that never exceeds the
\* number of nodes, reaches it in every DaemonSet.
LEMMA SumsHideNothing ==
  ASSUME sets \in [Kernels -> DaemonSet \union {None}],
         NEW field \in {"ready", "updated"},
         \A k \in Present : sets[k].status[field] <= sets[k].status["desired"]
  PROVE  Total(field) >= Total("desired")
           <=> \A k \in Present : sets[k].status[field] = sets[k].status["desired"]
<1>1. /\ IsFiniteSet(UNION Blocks(field)) /\ IsFiniteSet(UNION Blocks("desired"))
      /\ Total(field) = Cardinality(UNION Blocks(field)) /\ Total(field) \in Nat
      /\ Total("desired") = Cardinality(UNION Blocks("desired")) /\ Total("desired") \in Nat
      /\ \A k \in Present : sets[k].status[field] \in Nat /\ sets[k].status["desired"] \in Nat
  BY TotalFacts
<1>2. \A f \in {field, "desired"} : \A k, i :
        <<k, i>> \in UNION Blocks(f) <=> k \in Present /\ i \in 1..sets[k].status[f]
  BY DEF Blocks
<1>3. UNION Blocks(field) \subseteq UNION Blocks("desired")
  <2> SUFFICES ASSUME NEW k \in Present, NEW e \in {k} \X (1..sets[k].status[field])
               PROVE  e \in {k} \X (1..sets[k].status["desired"])
    BY DEF Blocks
  <2> QED BY <1>1
<1>4. ASSUME Total(field) >= Total("desired"), NEW k \in Present
      PROVE  sets[k].status[field] = sets[k].status["desired"]
  <2>1. UNION Blocks(field) = UNION Blocks("desired")
    BY <1>1, <1>3, <1>4, FS_Subset
  <2> DEFINE d == sets[k].status["desired"]
  <2>2. d \in Nat /\ sets[k].status[field] \in Nat /\ sets[k].status[field] <= d
    BY <1>1
  <2>3. d > 0 => <<k, d>> \in UNION Blocks("desired")
    BY <1>2, <2>2
  <2>4. d > 0 => d \in 1..sets[k].status[field]
    BY <1>2, <2>1, <2>3
  <2> QED BY <2>2, <2>4
<1>5. ASSUME \A k \in Present : sets[k].status[field] = sets[k].status["desired"]
      PROVE  Total(field) >= Total("desired")
  <2>1. Blocks(field) = Blocks("desired")
    BY <1>5 DEF Blocks
  <2> QED BY <1>1, <2>1
<1> QED BY <1>4, <1>5

\* The total is zero only if every DaemonSet counts zero.
LEMMA PositiveTotal ==
  ASSUME sets \in [Kernels -> DaemonSet \union {None}],
         NEW k \in Present, sets[k].status["desired"] > 0
  PROVE  Total("desired") > 0
<1>1. /\ IsFiniteSet(UNION Blocks("desired")) /\ Total("desired") \in Nat
      /\ Total("desired") = Cardinality(UNION Blocks("desired"))
      /\ sets[k].status["desired"] \in Nat
  BY TotalFacts
<1>2. <<k, 1>> \in UNION Blocks("desired")
  BY <1>1 DEF Blocks
<1> QED BY <1>1, <1>2, FS_EmptySet

-----------------------------------------------------------------------------
(* The status says "True" exactly when every node is served.                *)

\* checkDriverDaemonSet: the driver is ready if there is a DaemonSet that is for
\* some node and all counters have reached the number of nodes.
LEMMA ReportedReady ==
  ASSUME sets \in [Kernels -> DaemonSet \union {None}]
  PROVE  DriverReport.status = "True"
           <=> Present # {} /\ Total("desired") > 0 /\ RolledOut
<1>1. Total("desired") \in Nat
  BY TotalFacts
<1>2. CASE Present = {}
  BY <1>2 DEF DriverReport, NotFound, Report
<1>3. CASE Present # {} /\ Total("desired") = 0
  BY <1>3 DEF DriverReport, Report
<1>4. CASE Present # {} /\ Total("desired") > 0 /\ ~RolledOut
  BY <1>4 DEF DriverReport, Report
<1>5. CASE Present # {} /\ Total("desired") > 0 /\ RolledOut
  BY <1>5 DEF DriverReport, Report
<1> QED BY <1>1, <1>2, <1>3, <1>4, <1>5

\* The property of the runs follows from the types alone: it is about what the
\* function reads in one state, whatever led there.
LEMMA ReadyIfTyped == TypeOK => ReadyIsReadyEverywhere
<1> SUFFICES ASSUME TypeOK, Current
             PROVE  DriverReport.status = "True"
                      <=> Members # {} /\ \A n \in Members : Served(n)
  BY DEF ReadyIsReadyEverywhere
<1>0. /\ sets \in [Kernels -> DaemonSet \union {None}]
      /\ pods \in [Nodes -> Pod \union {None}]
      /\ kernel \in [Nodes -> Kernels \union {NoKernel}]
  BY DEF TypeOK
<1>1. \A k \in Kernels : k \in Present <=> NodesWith(k) # {}
  BY DEF Present, Current
<1>2. \A k \in Present : /\ k \in Kernels /\ sets[k].image = Wanted(k)
                         /\ sets[k].status = CountsNow(k)
  BY <1>1 DEF Present, Current
<1>3. \A k \in Present : /\ sets[k].status["ready"] <= sets[k].status["desired"]
                         /\ sets[k].status["updated"] <= sets[k].status["desired"]
                         /\ sets[k].status["desired"] > 0
  <2> SUFFICES ASSUME NEW k \in Present
               PROVE  /\ CountsNow(k)["ready"] <= CountsNow(k)["desired"]
                      /\ CountsNow(k)["updated"] <= CountsNow(k)["desired"]
                      /\ CountsNow(k)["desired"] > 0
    BY <1>2
  <2>1. Cardinality(NodesWith(k)) > 0
    BY <1>1, <1>2, CountsNowFacts, FS_EmptySet, FS_CardinalityType
  <2> QED BY <1>2, <2>1, CountsNowFacts
<1>4. RolledOut <=> \A k \in Present : /\ Running(k) = NodesWith(k)
                                       /\ \A n \in NodesWith(k) :
                                            pods[n] # None /\ pods[n].image = Wanted(k)
  <2>1. RolledOut <=> \A k \in Present :
                        /\ sets[k].status["ready"] = sets[k].status["desired"]
                        /\ sets[k].status["updated"] = sets[k].status["desired"]
    BY <1>0, <1>3, SumsHideNothing DEF RolledOut
  <2>2. ASSUME NEW k \in Present
        PROVE  /\ sets[k].status["ready"] = sets[k].status["desired"]
                    <=> Running(k) = NodesWith(k)
               /\ sets[k].status["updated"] = sets[k].status["desired"]
                    <=> \A n \in NodesWith(k) : pods[n] # None /\ pods[n].image = Wanted(k)
    BY <1>2, CountsNowFacts
  <2> QED BY <2>1, <2>2
<1>5. \A n \in Members : kernel[n] \in Kernels /\ kernel[n] \in Present /\ n \in NodesWith(kernel[n])
  BY <1>0, <1>1 DEF Members, NodesWith
<1>6. ASSUME RolledOut, NEW n \in Members PROVE Served(n)
  <2>1. n \in Running(kernel[n]) /\ pods[n] # None /\ pods[n].image = Wanted(kernel[n])
    BY <1>4, <1>5, <1>6
  <2>2. pods[n] \in Pod /\ pods[n].ready = TRUE
    BY <1>0, <2>1 DEF Running, Members, Pod
  <2> QED BY <2>1, <2>2 DEF Served, Pod
<1>7. ASSUME \A n \in Members : Served(n) PROVE RolledOut
  <2> SUFFICES ASSUME NEW k \in Present
               PROVE  /\ Running(k) = NodesWith(k)
                      /\ \A n \in NodesWith(k) : pods[n] # None /\ pods[n].image = Wanted(k)
    BY <1>4
  <2>1. \A n \in NodesWith(k) : n \in Members /\ kernel[n] = k
    BY <1>2 DEF NodesWith, Members
  <2>2. \A n \in NodesWith(k) : pods[n] = [image |-> Wanted(k), ready |-> TRUE]
    BY <1>7, <2>1 DEF Served
  <2>3. \A n \in NodesWith(k) : pods[n] # None
    <3>1. sets[k] \in DaemonSet
      BY <1>0, <1>2 DEF Present
    <3>2. Wanted(k) \in Image
      BY <1>2, <3>1 DEF DaemonSet
    <3>3. [image |-> Wanted(k), ready |-> TRUE] \in Pod
      BY <3>2 DEF Pod
    <3> QED BY <2>2, <3>3
  <2> QED BY <2>2, <2>3 DEF Running
<1>8. Present # {} <=> Members # {}
  <2>1. ASSUME NEW k \in Present PROVE \E n \in Members : TRUE
    <3>1. PICK n \in NodesWith(k) : TRUE
      BY <1>1, <1>2
    <3> QED BY <1>2, <3>1 DEF NodesWith, Members
  <2> QED BY <1>5, <2>1
<1>9. Present # {} => Total("desired") > 0
  BY <1>0, <1>3, PositiveTotal
<1> QED BY <1>0, <1>6, <1>7, <1>8, <1>9, ReportedReady

-----------------------------------------------------------------------------
(* The values of the release.                                               *)

\* What the chart reads of the values built from a spec.
LEMMA BuiltValues ==
  ASSUME NEW s \in GpuSpec, NEW sys \in Systems
  PROVE  LET v == BuildValues(s, sys)
         IN  /\ v["driver"].repository \in {"gardenlinux", "nvidia"}
             /\ Has(v["driver"], "version") <=> sys = "gardenlinux" \/ s.version # Unset
             /\ DriverVersion(v) = IF s.version # Unset THEN s.version
                                   ELSE IF sys = "gardenlinux" THEN BaseVersion ELSE ChartVersion
             /\ PluginConfig(v) = IF s.replicas = Unset THEN None
                                  ELSE [name |-> TimeSlicingConfigMapName(s.replicas),
                                        data |-> s.replicas]
<1> DEFINE v == BuildValues(s, sys)
<1>1. Built(v, s, sys)
  BY BuildFacts
<1> HIDE DEF v
<1>2. /\ DriverFor(s, sys).repository \in {"gardenlinux", "nvidia"}
      /\ "version" \in DOMAIN DriverFor(s, sys) <=> sys = "gardenlinux" \/ s.version # Unset
      /\ "version" \in DOMAIN DriverFor(s, sys) =>
           DriverFor(s, sys)["version"]
             = Text(IF s.version # Unset THEN s.version ELSE BaseVersion)
  BY DEF DriverFor, VersionFor
<1>3. v["driver"] = DriverFor(s, sys)
  BY <1>1 DEF Built
<1>4. PluginConfig(v) = IF s.replicas = Unset THEN None
                        ELSE [name |-> TimeSlicingConfigMapName(s.replicas), data |-> s.replicas]
  BY <1>1 DEF Built, PluginConfig, Has
<1>5. DriverVersion(v) = IF s.version # Unset THEN s.version
                         ELSE IF sys = "gardenlinux" THEN BaseVersion ELSE ChartVersion
  BY <1>2, <1>3 DEF DriverVersion, Has, Text
<1> QED BY <1>2, <1>3, <1>4, <1>5 DEF Has, v

\* The version and the time slicing of the release have their types.
LEMMA InstalledTyped ==
  ASSUME IInv, values # None
  PROVE  /\ DriverVersion(values) \in Versions \union {ChartVersion}
         /\ PluginConfig(values) \in Slicing \union {None}
<1>1. PICK s \in Specs : values = BuildValues(s, os)
  BY DEF IInv, BuiltForASpec
<1>2. s \in GpuSpec /\ os \in Systems
  BY DEF IInv, TypeOK
<1>3. /\ DriverVersion(values) = IF s.version # Unset THEN s.version
                                 ELSE IF os = "gardenlinux" THEN BaseVersion ELSE ChartVersion
      /\ PluginConfig(values) = IF s.replicas = Unset THEN None
                                ELSE [name |-> TimeSlicingConfigMapName(s.replicas),
                                      data |-> s.replicas]
  BY <1>1, <1>2, BuiltValues
<1>4. s.version \in Versions \union {Unset} /\ s.replicas \in Replicas \union {Unset}
  BY <1>2 DEF GpuSpec
<1>5. DriverVersion(values) \in Versions \union {ChartVersion}
  BY <1>3, <1>4, BaseVersionAssumption
<1>6. s.replicas # Unset =>
        [name |-> TimeSlicingConfigMapName(s.replicas), data |-> s.replicas] \in Slicing
  BY <1>4 DEF Slicing
<1> QED BY <1>3, <1>5, <1>6

-----------------------------------------------------------------------------
(* The invariant is inductive.                                              *)

\* What the status says of the driver has its type.
LEMMA ReportTyped ==
  ASSUME TypeOK
  PROVE  /\ DriverReport.status \in {"True", "False", "Unknown"}
         /\ DriverReport.version \in Versions \union {ChartVersion, None}
         /\ DriverReport.nodesReady \in Nat
<1>0. sets \in [Kernels -> DaemonSet \union {None}]
  BY DEF TypeOK
<1>1. Total("desired") \in Nat /\ Total("ready") \in Nat
  BY <1>0, TotalFacts
<1>2. CommonVersion \in Versions \union {ChartVersion, None}
  <2> DEFINE found == {DriverVersionFromDaemonSet(sets[k]) : k \in Present}
  <2>1. found \subseteq Versions \union {ChartVersion}
    BY <1>0 DEF Present, DaemonSet, Image, DriverVersionFromDaemonSet
  <2>2. Cardinality(found) = 1 => found # {}
    BY FS_EmptySet
  <2>3. CommonVersion = IF Cardinality(found) = 1 THEN CHOOSE v \in found : TRUE ELSE None
    BY DEF CommonVersion
  <2> HIDE DEF found
  <2> QED BY <2>1, <2>2, <2>3
<1>3. CASE Present = {}
  BY <1>3 DEF DriverReport, NotFound, Report
<1>4. CASE Present # {} /\ Total("desired") = 0
  BY <1>1, <1>2, <1>4 DEF DriverReport, Report
<1>5. CASE Present # {} /\ Total("desired") > 0 /\ ~RolledOut
  BY <1>1, <1>2, <1>5 DEF DriverReport, Report
<1>6. CASE Present # {} /\ Total("desired") > 0 /\ RolledOut
  BY <1>1, <1>2, <1>6 DEF DriverReport, Report
<1> QED BY <1>1, <1>3, <1>4, <1>5, <1>6

\* Nothing is installed and nothing runs at the start.
LEMMA InitIInv == Init => IInv
<1> SUFFICES ASSUME Init PROVE IInv
  OBVIOUS
<1> USE DEF Init
<1>1. BuiltForASpec
  BY DEF BuiltForASpec
<1>2. sets \in [Kernels -> DaemonSet \union {None}] /\ pods \in [Nodes -> Pod \union {None}]
  OBVIOUS
<1>3. /\ report.status \in {"True", "False", "Unknown"}
      /\ report.version \in Versions \union {ChartVersion, None} /\ report.nodesReady \in Nat
  BY DEF NotFound, Report
<1>4. TypeOK
  BY <1>2, <1>3 DEF TypeOK
<1> QED BY <1>1, <1>4 DEF IInv

\* Every step of the reconciler, of the NVIDIA GPU Operator, of the DaemonSet
\* controller, of nodes and users preserves it.
LEMMA NextIInv == IInv /\ [Next]_vars => IInv'
<1> SUFFICES ASSUME IInv, [Next]_vars PROVE IInv'
  OBVIOUS
<1> USE DEF vars, reconciler, cluster, inputs
<1>0. TypeOK /\ BuiltForASpec
  BY DEF IInv
<1>1. CASE InstallOrUpgrade
  <2>1. values' = BuildValues(spec, os) /\ spec \in Specs /\ os' = os
    BY <1>0, <1>1 DEF InstallOrUpgrade, TypeOK
  <2>2. spec \in GpuSpec /\ os \in Systems
    BY <1>0, <2>1 DEF TypeOK
  <2>3. values'["driver"].repository \in {"gardenlinux", "nvidia"}
    BY <2>1, <2>2, BuiltValues
  <2>4. BuiltForASpec'
    BY <2>1 DEF BuiltForASpec
  <2>5. TypeOK'
    BY <1>0, <1>1, <2>3 DEF InstallOrUpgrade, TypeOK
  <2> QED BY <2>4, <2>5 DEF IInv
<1>2. CASE CheckDriverDaemonSet
  <2>1. /\ report'.status \in {"True", "False", "Unknown"}
        /\ report'.version \in Versions \union {ChartVersion, None} /\ report'.nodesReady \in Nat
    BY <1>0, <1>2, ReportTyped DEF CheckDriverDaemonSet, Report
  <2>2. changes' \in 0..MaxChanges
    BY <1>0, <1>2 DEF CheckDriverDaemonSet, Change, TypeOK
  <2>3. TypeOK'
    BY <1>0, <1>2, <2>1, <2>2 DEF CheckDriverDaemonSet, TypeOK
  <2> QED BY <1>0, <1>2, <2>3 DEF CheckDriverDaemonSet, BuiltForASpec, IInv
<1>3. ASSUME NEW k \in Kernels, RenderDaemonSet(k) PROVE IInv'
  <2>1. Wanted(k) \in Image
    BY <1>3, InstalledTyped DEF RenderDaemonSet, Wanted, Image
  <2>2. [image |-> Wanted(k), status |-> [desired |-> 0, ready |-> 0, updated |-> 0]] \in DaemonSet
    BY <2>1 DEF DaemonSet, Counts
  <2>3. sets' \in [Kernels -> DaemonSet \union {None}]
    <3>1. CASE sets[k] = None
      BY <1>0, <1>3, <2>2, <3>1 DEF RenderDaemonSet, TypeOK
    <3>2. CASE sets[k] # None
      <4>1. sets[k] \in DaemonSet
        BY <1>0, <3>2 DEF TypeOK
      <4>2. [sets[k] EXCEPT !.image = Wanted(k)] \in DaemonSet
        BY <2>1, <4>1 DEF DaemonSet
      <4>3. sets' = [sets EXCEPT ![k] = [sets[k] EXCEPT !.image = Wanted(k)]]
        BY <1>3, <3>2 DEF RenderDaemonSet
      <4> QED BY <1>0, <4>2, <4>3 DEF TypeOK
    <3> QED BY <3>1, <3>2
  <2> QED BY <1>0, <1>3, <2>3 DEF RenderDaemonSet, TypeOK, BuiltForASpec, IInv
<1>4. ASSUME NEW k \in Kernels, RemoveDaemonSet(k) PROVE IInv'
  BY <1>0, <1>4 DEF RemoveDaemonSet, TypeOK, BuiltForASpec, IInv
<1>5. ASSUME NEW k \in Kernels, SyncStatus(k) PROVE IInv'
  <2>1. CountsNow(k) \in Counts
    BY CountsNowFacts
  <2>2. sets[k] \in DaemonSet
    BY <1>0, <1>5 DEF SyncStatus, TypeOK
  <2>3. [sets[k] EXCEPT !.status = CountsNow(k)] \in DaemonSet
    BY <2>1, <2>2 DEF DaemonSet
  <2>4. sets' = [sets EXCEPT ![k] = [sets[k] EXCEPT !.status = CountsNow(k)]]
    BY <1>5 DEF SyncStatus
  <2>5. sets' \in [Kernels -> DaemonSet \union {None}]
    BY <1>0, <2>3, <2>4 DEF TypeOK
  <2> QED BY <1>0, <1>5, <2>5 DEF SyncStatus, TypeOK, BuiltForASpec, IInv
<1>6. ASSUME NEW n \in Nodes, CreatePod(n) PROVE IInv'
  <2>1. kernel[n] \in Kernels /\ sets[kernel[n]] \in DaemonSet
    BY <1>0, <1>6 DEF CreatePod, TypeOK
  <2>2. [image |-> sets[kernel[n]].image, ready |-> FALSE] \in Pod
    BY <2>1 DEF DaemonSet, Pod
  <2>3. pods' \in [Nodes -> Pod \union {None}]
    BY <1>0, <1>6, <2>2 DEF CreatePod, TypeOK
  <2> QED BY <1>0, <1>6, <2>3 DEF CreatePod, TypeOK, BuiltForASpec, IInv
<1>7. ASSUME NEW n \in Nodes, PodReady(n) \/ PodFails(n) PROVE IInv'
  <2>1. pods[n] \in Pod
    BY <1>0, <1>7 DEF PodReady, PodFails, TypeOK
  <2>2. \A b \in BOOLEAN : [pods[n] EXCEPT !.ready = b] \in Pod
    BY <2>1 DEF Pod
  <2>3. \E b \in BOOLEAN : pods' = [pods EXCEPT ![n] = [pods[n] EXCEPT !.ready = b]]
    BY <1>7 DEF PodReady, PodFails
  <2>4. pods' \in [Nodes -> Pod \union {None}]
    BY <1>0, <2>2, <2>3 DEF TypeOK
  <2>5. changes' \in 0..MaxChanges
    BY <1>0, <1>7 DEF PodReady, PodFails, Change, TypeOK
  <2> QED BY <1>0, <1>7, <2>4, <2>5 DEF PodReady, PodFails, TypeOK, BuiltForASpec, IInv
<1>8. CASE RestartPlugin
  <2>1. plugin' \in Slicing \union {None}
    BY <1>8, InstalledTyped DEF RestartPlugin
  <2> QED BY <1>0, <1>8, <2>1 DEF RestartPlugin, TypeOK, BuiltForASpec, IInv
<1>9. CASE Edit
  BY <1>0, <1>9 DEF Edit, TypeOK, BuiltForASpec, IInv
<1>10. ASSUME NEW n \in Nodes, NodeChanges(n) PROVE IInv'
  BY <1>0, <1>10 DEF NodeChanges, Change, TypeOK, BuiltForASpec, IInv
<1>11. CASE UNCHANGED vars
  BY <1>0, <1>11 DEF TypeOK, BuiltForASpec, IInv
<1> QED
  BY <1>1, <1>2, <1>3, <1>4, <1>5, <1>6, <1>7, <1>8, <1>9, <1>10, <1>11
     DEF Next, Reconcile, Rollout, Environment

-----------------------------------------------------------------------------
(* The theorems.                                                            *)

\* All variables keep their types: what is reported as the version is one that was
\* asked for, that of the base or that of the chart, and the sums are numbers.
THEOREM TypeCorrect == Spec => []TypeOK
<1>1. IInv => TypeOK
  BY DEF IInv
<1> QED BY <1>1, InitIInv, NextIInv, PTL DEF Spec

\* With any number of kernels, DaemonSets and nodes: when the counters are current,
\* the status says "True" exactly if every node has a ready driver pod of the
\* installed version (gpu_controller.go 433-436).
THEOREM ReadyEverywhere == Spec => []ReadyIsReadyEverywhere
BY TypeCorrect, ReadyIfTyped, PTL

\* The release is upgraded only if the driver version or the time slicing becomes
\* another one, except where a spec begins or ceases to name the chart's own
\* version (values.go 77-103, releaseUpToDate).
THEOREM NoNeedlessUpgrade == Spec => UpgradesMakeADifference
<1> DEFINE Differs ==
      values # None /\ values' # values
        => \/ DriverVersion(values') # DriverVersion(values)
           \/ PluginConfig(values') # PluginConfig(values)
           \/ /\ DriverVersion(values) = ChartVersion
              /\ Has(values["driver"], "version") # Has(values'["driver"], "version")
<1>1. IInv /\ [Next]_vars => [Differs]_vars
  <2> SUFFICES ASSUME IInv, InstallOrUpgrade, values # None, values' # values PROVE Differs
    BY DEF Next, Reconcile, CheckDriverDaemonSet, Rollout, RenderDaemonSet, RemoveDaemonSet,
           SyncStatus, CreatePod, PodReady, RestartPlugin, Environment, Edit, NodeChanges,
           PodFails, vars, reconciler, cluster, inputs
  <2>1. PICK s \in Specs : values = BuildValues(s, os)
    BY DEF IInv, BuiltForASpec
  <2>2. /\ values' = BuildValues(spec, os) /\ os \in Systems
        /\ s \in GpuSpec /\ spec \in GpuSpec
    BY DEF InstallOrUpgrade, IInv, TypeOK
  <2>3. VersionFor(s, os) # VersionFor(spec, os) \/ s.replicas # spec.replicas
    BY <2>1, <2>2, SameValuesSameMeaning
  <2>4. /\ DriverVersion(values) = IF s.version # Unset THEN s.version
                                   ELSE IF os = "gardenlinux" THEN BaseVersion ELSE ChartVersion
        /\ DriverVersion(values') = IF spec.version # Unset THEN spec.version
                                    ELSE IF os = "gardenlinux" THEN BaseVersion ELSE ChartVersion
        /\ Has(values["driver"], "version") <=> os = "gardenlinux" \/ s.version # Unset
        /\ Has(values'["driver"], "version") <=> os = "gardenlinux" \/ spec.version # Unset
        /\ PluginConfig(values) = IF s.replicas = Unset THEN None
                                  ELSE [name |-> TimeSlicingConfigMapName(s.replicas),
                                        data |-> s.replicas]
        /\ PluginConfig(values') = IF spec.replicas = Unset THEN None
                                   ELSE [name |-> TimeSlicingConfigMapName(spec.replicas),
                                         data |-> spec.replicas]
    BY <2>1, <2>2, BuiltValues
  <2>5. CASE s.replicas # spec.replicas
    <3>1. \A r \in Replicas : [name |-> TimeSlicingConfigMapName(r), data |-> r] # None
      BY DEF Slicing
    <3>2. s.replicas \in Replicas \union {Unset} /\ spec.replicas \in Replicas \union {Unset}
      BY <2>2 DEF GpuSpec
    <3>3. PluginConfig(values') # PluginConfig(values)
      BY <2>4, <2>5, <3>1, <3>2
    <3> QED BY <3>3
  <2>6. CASE VersionFor(s, os) # VersionFor(spec, os)
    BY <2>4, <2>6 DEF VersionFor, Has
  <2> QED BY <2>3, <2>5, <2>6
<1> QED BY <1>1, InitIInv, NextIInv, PTL DEF Spec, UpgradesMakeADifference

=============================================================================
