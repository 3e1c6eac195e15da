CONSTANTS
  a = a  b = b  c = c  d = d  old = old  new = new
  NotSemver = NotSemver
  NoChart = NoChart
  Procs <- FourProcs
  Images <- TwoImages
  Embedded <- Files
  InitImage = old
  None = None
  RenewDeadline = 1
  LeaseDuration = 2
  MaxRollouts = 1
  MaxFaults = 2
CHECK_DEADLOCK FALSE
SPECIFICATION FairSpec
INVARIANTS TypeOK AtMostOneActive
PROPERTY NewChartInstalled
