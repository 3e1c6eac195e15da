--------------------------- MODULE HelmValuesProofs ---------------------------
(***************************************************************************)
(* BuildValues tells apart what has to be told apart, and nothing else: the *)
(* reason why a release is upgraded for a new driver version or number of   *)
(* time slices, and for no other edit.                                      *)
(***************************************************************************)
EXTENDS HelmValues, TLAPS

\* The version that a spec asks for, else that of gardenlinux.yaml, else none.
VersionFor(spec, os) ==
  IF spec.version # Unset THEN spec.version
  ELSE IF os = "gardenlinux" THEN BaseVersion ELSE Unset

\* The map below "driver".
DriverFor(spec, os) ==
  IF os = "gardenlinux" THEN [repository |-> "gardenlinux", version |-> Text(VersionFor(spec, os))]
  ELSE IF spec.version = Unset THEN [enabled |-> TRUE, repository |-> "nvidia"]
  ELSE [enabled |-> TRUE, repository |-> "nvidia", version |-> Text(spec.version)]

\* normalizeDriverVersion makes a text of the version in gardenlinux.yaml.
LEMMA BaseFacts ==
  /\ DOMAIN GardenLinuxBase = {"base", "driver"}
  /\ GardenLinuxBase["base"] = TRUE
  /\ GardenLinuxBase["driver"] = [repository |-> "gardenlinux", version |-> Text(BaseVersion)]
<1> DEFINE raw == [repository |-> "gardenlinux", version |-> Number(BaseVersion)]
<1>1. /\ DOMAIN EmbeddedValues = {"base", "driver"} /\ EmbeddedValues["base"] = TRUE
      /\ EmbeddedValues["driver"] = raw
  BY DEF EmbeddedValues
<1>2. /\ DOMAIN raw = {"repository", "version"} /\ raw["version"] = Number(BaseVersion)
      /\ raw["repository"] = "gardenlinux"
  OBVIOUS
<1>3. Number(BaseVersion).type = "number" /\ Number(BaseVersion).of = BaseVersion
  BY DEF Number
<1>4. GardenLinuxBase = Put(EmbeddedValues, "driver", Put(raw, "version", Text(BaseVersion)))
  BY <1>1, <1>2, <1>3 DEF GardenLinuxBase, NormalizeDriverVersion, Has
<1>5. Put(raw, "version", Text(BaseVersion))
        = [repository |-> "gardenlinux", version |-> Text(BaseVersion)]
  BY <1>2 DEF Put
<1>6. GardenLinuxBase["driver"] = Put(raw, "version", Text(BaseVersion))
  BY <1>4 DEF Put
<1>7. DOMAIN GardenLinuxBase = {"base", "driver"}
  BY <1>1, <1>4 DEF Put
<1>8. GardenLinuxBase["base"] = TRUE
  BY <1>1, <1>4 DEF Put
<1> QED
  BY <1>5, <1>6, <1>7, <1>8

\* The version of a spec goes into either of the two driver maps.
LEMMA OverrideFacts ==
  ASSUME NEW spec \in GpuSpec
  PROVE  /\ OverrideVersion([repository |-> "gardenlinux", version |-> Text(BaseVersion)], spec)
              = DriverFor(spec, "gardenlinux")
         /\ OverrideVersion([enabled |-> TRUE, repository |-> "nvidia"], spec)
              = DriverFor(spec, "ubuntu")
<1> DEFINE base == [repository |-> "gardenlinux", version |-> Text(BaseVersion)]
           plain == [enabled |-> TRUE, repository |-> "nvidia"]
<1>1. /\ DOMAIN base = {"repository", "version"} /\ base["repository"] = "gardenlinux"
      /\ DOMAIN plain = {"enabled", "repository"}
      /\ plain["enabled"] = TRUE /\ plain["repository"] = "nvidia"
  OBVIOUS
<1>2. Put(base, "version", Text(spec.version))
        = [repository |-> "gardenlinux", version |-> Text(spec.version)]
  BY <1>1 DEF Put
<1>3. Put(plain, "version", Text(spec.version))
        = [enabled |-> TRUE, repository |-> "nvidia", version |-> Text(spec.version)]
  <2> DEFINE three == [enabled |-> TRUE, repository |-> "nvidia", version |-> Text(spec.version)]
             put == Put(plain, "version", Text(spec.version))
  <2>1. /\ DOMAIN put = {"enabled", "repository", "version"} /\ put["version"] = Text(spec.version)
        /\ put["enabled"] = TRUE /\ put["repository"] = "nvidia"
        /\ put = [k \in {"enabled", "repository", "version"} |-> put[k]]
    BY <1>1 DEF Put
  <2>2. /\ DOMAIN three = {"enabled", "repository", "version"} /\ three["version"] = Text(spec.version)
        /\ three["enabled"] = TRUE /\ three["repository"] = "nvidia"
        /\ three = [k \in {"enabled", "repository", "version"} |-> three[k]]
    OBVIOUS
  <2> HIDE DEF put, three
  <2>3. \A k \in {"enabled", "repository", "version"} : put[k] = three[k]
    BY <2>1, <2>2
  <2>4. put = three
    BY <2>1, <2>2, <2>3
  <2> QED
    BY <2>4 DEF put, three
<1> QED
  BY <1>2, <1>3 DEF OverrideVersion, DriverFor, VersionFor

\* What is said of the values, key by key.
Built(v, spec, os) ==
  /\ "base" \in DOMAIN v <=> os = "gardenlinux"
  /\ "base" \in DOMAIN v => v["base"] = TRUE
  /\ "driver" \in DOMAIN v /\ v["driver"] = DriverFor(spec, os)
  /\ "devicePlugin" \in DOMAIN v <=> spec.replicas # Unset
  /\ "devicePlugin" \in DOMAIN v =>
       v["devicePlugin"] = [config |-> [name |-> TimeSlicingConfigMapName(spec.replicas),
                                        data |-> spec.replicas]]
  /\ DOMAIN v \subseteq {"base", "driver", "devicePlugin"}
  /\ v = [k \in DOMAIN v |-> v[k]]

\* BuildValues keeps the base, sets the driver and adds the time slicing.
LEMMA BuildFacts ==
  ASSUME NEW spec \in GpuSpec, NEW os \in Systems
  PROVE  Built(BuildValues(spec, os), spec, os)
<1> DEFINE base == IF os = "gardenlinux" THEN GardenLinuxBase ELSE << >>
           set == ApplySpecOverrides(base, spec)
           slicing == [config |-> [name |-> TimeSlicingConfigMapName(spec.replicas),
                                   data |-> spec.replicas]]
<1>1. /\ os = "gardenlinux" => DOMAIN base = {"base", "driver"} /\ base["base"] = TRUE
      /\ os # "gardenlinux" => DOMAIN base = {}
  BY BaseFacts
<1>2. set = Put(base, "driver", DriverFor(spec, os))
  <2>1. CASE os = "gardenlinux"
    BY <2>1, BaseFacts, OverrideFacts DEF ApplySpecOverrides, Has
  <2>2. CASE os # "gardenlinux"
    <3>1. os = "ubuntu" /\ base = << >>
      BY <2>2 DEF Systems
    <3> QED
      BY <3>1, <1>1, <2>2, OverrideFacts DEF ApplySpecOverrides, Has
  <2> QED
    BY <2>1, <2>2
<1>3. /\ DOMAIN set = DOMAIN base \union {"driver"} /\ set["driver"] = DriverFor(spec, os)
      /\ os = "gardenlinux" => set["base"] = TRUE
  BY <1>1, <1>2 DEF Put
<1>4. BuildValues(spec, os) = IF spec.replicas = Unset THEN set ELSE Put(set, "devicePlugin", slicing)
  BY DEF BuildValues, ApplyTimeSlicingValues
<1>5. /\ DOMAIN Put(set, "devicePlugin", slicing) = DOMAIN set \union {"devicePlugin"}
      /\ Put(set, "devicePlugin", slicing)["devicePlugin"] = slicing
      /\ \A k \in DOMAIN set : k # "devicePlugin" => Put(set, "devicePlugin", slicing)[k] = set[k]
  BY DEF Put
<1>6. /\ set = [k \in DOMAIN set |-> set[k]]
      /\ Put(set, "devicePlugin", slicing)
           = [k \in DOMAIN Put(set, "devicePlugin", slicing) |-> Put(set, "devicePlugin", slicing)[k]]
  BY <1>2 DEF Put
<1> HIDE DEF base, set, slicing
<1>7. CASE spec.replicas = Unset
  BY <1>1, <1>3, <1>4, <1>6, <1>7 DEF Built
<1>8. CASE spec.replicas # Unset
  BY <1>1, <1>3, <1>4, <1>5, <1>6, <1>8 DEF slicing, Built
<1> QED
  BY <1>7, <1>8

\* Two specs give the same values, so that no upgrade follows from an edit from
\* one to the other, exactly if they ask for the same driver version and the same
\* time slices on this operating system (BuildValues; releaseUpToDate).
THEOREM SameValuesSameMeaning ==
  ASSUME NEW a \in GpuSpec, NEW b \in GpuSpec, NEW os \in Systems
  PROVE  BuildValues(a, os) = BuildValues(b, os)
           <=> VersionFor(a, os) = VersionFor(b, os) /\ a.replicas = b.replicas
<1> DEFINE va == BuildValues(a, os)  vb == BuildValues(b, os)
<1>0. Built(va, a, os) /\ Built(vb, b, os)
  BY BuildFacts
<1> HIDE DEF va, vb
<1>1. DriverFor(a, os) = DriverFor(b, os) <=> VersionFor(a, os) = VersionFor(b, os)
  <2>1. \A x, y : Text(x) = Text(y) => x = y
    BY DEF Text
  <2>2. CASE os = "gardenlinux"
    <3>1. DriverFor(a, os)["version"] = Text(VersionFor(a, os))
          /\ DriverFor(b, os)["version"] = Text(VersionFor(b, os))
      BY <2>2 DEF DriverFor
    <3>2. VersionFor(a, os) = VersionFor(b, os) => DriverFor(a, os) = DriverFor(b, os)
      BY <2>2 DEF DriverFor
    <3> QED
      BY <3>1, <3>2, <2>1
  <2>3. CASE os = "ubuntu"
    <3>1. VersionFor(a, os) = a.version /\ VersionFor(b, os) = b.version
      BY <2>3 DEF VersionFor
    <3>2. /\ "version" \in DOMAIN DriverFor(a, os) <=> a.version # Unset
          /\ "version" \in DOMAIN DriverFor(b, os) <=> b.version # Unset
      BY <2>3 DEF DriverFor
    <3>3. /\ a.version # Unset => DriverFor(a, os)["version"] = Text(a.version)
          /\ b.version # Unset => DriverFor(b, os)["version"] = Text(b.version)
      BY <2>3 DEF DriverFor
    <3>4. a.version = b.version => DriverFor(a, os) = DriverFor(b, os)
      BY <2>3 DEF DriverFor
    <3> QED
      BY <3>1, <3>2, <3>3, <3>4, <2>1
  <2> QED
    BY <2>2, <2>3 DEF Systems
<1>2. ASSUME va = vb
      PROVE  VersionFor(a, os) = VersionFor(b, os) /\ a.replicas = b.replicas
  <2>1. DriverFor(a, os) = DriverFor(b, os)
    BY <1>0, <1>2 DEF Built
  <2>2. a.replicas # Unset <=> b.replicas # Unset
    BY <1>0, <1>2 DEF Built
  <2>3. CASE a.replicas # Unset
    <3>1. va["devicePlugin"].config.data = a.replicas /\ vb["devicePlugin"].config.data = b.replicas
      BY <1>0, <2>2, <2>3 DEF Built
    <3> QED
      BY <1>1, <1>2, <2>1, <3>1
  <2> QED
    BY <1>1, <2>1, <2>2, <2>3
<1>3. ASSUME VersionFor(a, os) = VersionFor(b, os), a.replicas = b.replicas
      PROVE  va = vb
  <2>1. DOMAIN va = DOMAIN vb
    BY <1>0, <1>3 DEF Built
  <2>2. \A k \in DOMAIN va : va[k] = vb[k]
    BY <1>0, <1>1, <1>3, <2>1 DEF Built
  <2>3. va = [k \in DOMAIN va |-> va[k]] /\ vb = [k \in DOMAIN vb |-> vb[k]]
    BY <1>0 DEF Built
  <2> QED
    BY <2>1, <2>2, <2>3
<1> QED
  BY <1>2, <1>3 DEF va, vb

=============================================================================
