SPECIFICATION Spec
CONSTANTS
  Events = {c1, c2, n1, n2}
  Critical = {c1, c2}
  g = g
  Groups = {g}
  Group <- MCGroup
  CriticalCapacity = 1
  NormalCapacity = 2
  SampleFrom = 1
  BatchSize = 2
  QueueSize = 1
  MaxMishaps = 1
SYMMETRY MCSymmetry
INVARIANTS TypeOK TakenIsAccounted NormalInOrder DrainedIsStored SentIsReceived
CHECK_DEADLOCK FALSE
