CONSTANTS
  gpu = gpu  other = other  s1 = s1  s2 = s2  n1 = n1  n2 = n2
  g6 = g6  m5 = m5  gardenlinux = gardenlinux  ubuntu = ubuntu  windows = windows
  p1 = p1  cpu = cpu  gpuLimit = gpuLimit
  CRs <- OneCR
  Expected = gpu
  Preset <- OneCR
  Specs <- OneSpec
  NoCR = NoCR
  Absent = Absent
  Nodes <- OneNode
  Types <- GPUOnly
  GPUTypes <- GPUOnly
  Images <- GardenOnly
  GardenLinux <- GardenOnly
  Ubuntu <- UbuntuOnly
  NoNode = NoNode
  InitNodes <- Good
  PodNames <- OnePod
  Resources <- Limits
  GPUResources <- GPULimits
  NoPod = NoPod
  InitPods <- NoPods
  NewPods = {}
  Rollout = FALSE
  MaxLag = 2
  MaxUser = 4
  MaxEnv = 0
  MaxFaults = 0
  MaxEvents = 4
CHECK_DEADLOCK FALSE
SPECIFICATION Spec
INVARIANT DeletedMeansUninstalled
