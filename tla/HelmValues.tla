------------------------------ MODULE HelmValues ------------------------------
(***************************************************************************)
(* BuildValues (internal/helm/values.go): from the spec of the Gpu CR and   *)
(* the operating system of the GPU nodes to the values of the chart.        *)
(*                                                                         *)
(* Values are maps from keys to whatever JSON has, so a key can be absent   *)
(* and a version can be a number or a text.                                 *)
(***************************************************************************)

CONSTANTS
  Versions,     \* driver versions a user can ask for
  BaseVersion,  \* the one that gardenlinux.yaml has, as a bare number
  Replicas,     \* numbers of time slices
  Unset         \* a field of the spec that is not set, or empty

ASSUME BaseVersionAssumption == BaseVersion \in Versions

ASSUME UnsetAssumption == Unset \notin Versions /\ Unset \notin Replicas

GpuSpec == [version : Versions \union {Unset}, replicas : Replicas \union {Unset}]

Systems == {"gardenlinux", "ubuntu"}

Text(v) == [type |-> "text", of |-> v]
Number(v) == [type |-> "number", of |-> v]

Has(values, key) == key \in DOMAIN values
Put(values, key, x) == [k \in DOMAIN values \union {key} |-> IF k = key THEN x ELSE values[k]]

\* gardenlinux.yaml; "base" stands for the keys that nothing else touches.
EmbeddedValues == [base |-> TRUE,
                   driver |-> [repository |-> "gardenlinux", version |-> Number(BaseVersion)]]

\* Wrong variant: the number stays as the YAML parser returned it.
NormalizeNothing(values) == values

NormalizeDriverVersion(values) ==
  IF Has(values, "driver") /\ Has(values["driver"], "version")
       /\ values["driver"]["version"].type = "number"
  THEN Put(values, "driver", Put(values["driver"], "version", Text(values["driver"]["version"].of)))
  ELSE values

GardenLinuxBase == NormalizeDriverVersion(EmbeddedValues)

\* Wrong variant: a spec only fills in what the base leaves open.
OverrideVersionIfOpen(driver, spec) ==
  IF spec.version = Unset \/ Has(driver, "version") THEN driver
  ELSE Put(driver, "version", Text(spec.version))

OverrideVersion(driver, spec) ==
  IF spec.version = Unset THEN driver ELSE Put(driver, "version", Text(spec.version))

ApplySpecOverrides(values, spec) ==
  Put(values, "driver",
      OverrideVersion(IF Has(values, "driver") THEN values["driver"]
                      ELSE [enabled |-> TRUE, repository |-> "nvidia"], spec))

\* Wrong variant: one name for all replica counts.
FixedConfigMapName(replicas) == <<"gpu-time-slicing-config">>

TimeSlicingConfigMapName(replicas) == <<"gpu-time-slicing-config", replicas>>

ApplyTimeSlicingValues(values, spec) ==
  IF spec.replicas = Unset THEN values
  ELSE Put(values, "devicePlugin",
           [config |-> [name |-> TimeSlicingConfigMapName(spec.replicas), data |-> spec.replicas]])

BuildValues(spec, os) ==
  LET base == IF os = "gardenlinux" THEN GardenLinuxBase ELSE << >>
  IN  ApplyTimeSlicingValues(ApplySpecOverrides(base, spec), spec)

=============================================================================
