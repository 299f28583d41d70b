\* Two CPU parameters: snapshots, loads and failures at every index.
CONSTANTS
  a = a
  b = b
  Variable = {a, b}
  Param <- MCTwo
  Trainable = {a, b}
  OnCuda = {}
  DeviceFaults = TRUE
  Value = {0, 1, 2}
  Grad = {1}
  NoGrad = NoGrad
  Moment = {0, 1}
  ZeroMoment = 0
  Hyper = {0, 1}
  Storage = {s1, s2, s3, s4, s5, s6}
  NoState = NoState
  NoResult = NoResult
  MaxT = 1
  Start <- MCStart
  MomentStep <- MCMomentStep
  Moved <- MCMoved
SPECIFICATION Spec
SYMMETRY StorageSymmetry
VIEW Observable
INVARIANTS
  TypeOK
  Isolated
  UpdatedAfterAllComputed
PROPERTIES
  RefinesReference
