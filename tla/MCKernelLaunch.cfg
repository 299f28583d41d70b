CONSTANTS
  Calls <- MCCalls
  BlockDim = 4
  AnyOrder = 8
  MaxFaults = 1
  Garbage = Garbage
SPECIFICATION Spec
INVARIANTS
  DeviceAgrees
  BuffersOutliveKernels
  NothingLeaks
  SameChecks
PROPERTIES
  CallEnds
