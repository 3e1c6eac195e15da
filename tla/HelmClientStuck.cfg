CONSTANTS
  v1 = v1  v2 = v2  o1 = o1  o2 = o2
  Values <- TwoValues
  Objects <- TwoObjects
  Absent = Absent
  MaxHistory = 3
  MaxEdits = 1
  MaxFaults = 2
SPECIFICATION Spec
INVARIANT RecoverableAfterCrash
