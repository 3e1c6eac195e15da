CONSTANTS
  usual = usual  newer = newer  chart = chart  n1 = n1  n2 = n2  k1 = k1  k2 = k2
  Versions <- ThreeVersions
  BaseVersion = usual
  Replicas = {2, 4}
  Unset = Unset
  Nodes <- TwoNodes
  Kernels <- TwoKernels
  NoKernel = NoKernel
  None = None
  ChartVersion = chart
  OS = {"gardenlinux", "ubuntu"}
  Specs <- FewSpecs
  InitSpecs <- Shared
  InitKernels <- Joining
  MaxEdits = 1
  MaxChanges = 1
CHECK_DEADLOCK FALSE
SPECIFICATION FairSpec
INVARIANTS
  TypeOK ReadyIsReadyEverywhere
PROPERTIES
  UpgradesMakeADifference RolloutReported SharingFollows
