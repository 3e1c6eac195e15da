CONSTANTS
  v1 = v1  v2 = v2  o1 = o1  o2 = o2
  Values <- TwoValues
  Objects <- TwoObjects
  Absent = Absent
  MaxHistory = 3
  MaxEdits = 3
  MaxFaults = 3
SPECIFICATION FairSpec
INVARIANTS
  TypeOK AtMostOneDeployed HistoryBounded RollbackTargetKept
  DeployedMeansApplied RevisionsEarned
PROPERTIES
  ContractSpec ConvergesUnlessStuck RemovedUnlessMasked
