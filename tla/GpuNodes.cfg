CONSTANTS
  gpu = gpu  other = other  s1 = s1  s2 = s2  n1 = n1  n2 = n2
  g6 = g6  m5 = m5  gardenlinux = gardenlinux  ubuntu = ubuntu  windows = windows
  p1 = p1  cpu = cpu  gpuLimit = gpuLimit
  CRs <- OneCR
  Expected = gpu
  Preset <- OtherCR
  Specs <- TwoSpecs
  NoCR = NoCR
  Absent = Absent
  Nodes <- TwoNodes
  Types <- AllTypes
  GPUTypes <- GPUOnly
  Images <- AllImages
  GardenLinux <- GardenOnly
  Ubuntu <- UbuntuOnly
  NoNode = NoNode
  InitNodes <- Various
  PodNames <- OnePod
  Resources <- Limits
  GPUResources <- GPULimits
  NoPod = NoPod
  InitPods <- NoPods
  NewPods = {}
  Rollout = TRUE
  MaxLag = 2
  MaxUser = 2
  MaxEnv = 1
  MaxFaults = 0
  MaxEvents = 2
CHECK_DEADLOCK FALSE
SPECIFICATION FairSpec
INVARIANT NothingForgotten
PROPERTY StatusConverges
