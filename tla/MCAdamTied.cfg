\* One CUDA parameter listed twice.
CONSTANTS
  a = a
  b = b
  Variable = {a, b}
  Param <- MCTied
  Trainable = {a, b}
  OnCuda = {a, b}
  DeviceFaults = FALSE
  Value = {0, 1, 2}
  Grad = {1}
  NoGrad = NoGrad
  Moment = {0, 1}
  ZeroMoment = 0
  Hyper = {1}
  Storage = {s1, s2, s3, s4, s5, s6}
  NoState = NoState
  NoResult = NoResult
  MaxT = 2
  Start <- MCStart
  MomentStep <- MCMomentStep
  Moved <- MCMoved
SPECIFICATION Spec
SYMMETRY StorageSymmetry
VIEW Observable
PROPERTIES
  RefinesReference
