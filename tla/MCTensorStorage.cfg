CONSTANTS
  Names = {a, b}
  Shapes = {"row", "column", "empty"}
  CountOf <- MCCountOf
  Cuda = {cuda0, cuda1}
  Storages = {1, 2, 3}
  Buffers = {1, 2, 3, 4}
  Values = {"0", "1", "garbage"}
  HostValues = {"1"}
  Zero = "0"
  One = "1"
  Garbage = "garbage"
  Nothing = "nothing"
  Stepped <- MCStepped
  MaxCalls = 4
  MaxFaults = 1
SYMMETRY MCSymmetry
SPECIFICATION Spec
INVARIANTS
  TypeOK
  NothingDangles
  NothingLeaks
  ViewsHold
  StepIsPrefix
PROPERTIES
  CallsKeepTensors
  RefinesAliases
