\* One call over graphs of four nodes, on the CPU and a CUDA device.
CONSTANTS
  MaxNodes = 4
  MaxDepth = 1
  MaxCalls = 1
  ParentLists <- MCParentLists
  Cpu = Cpu
  Devices = {Cpu, Cuda}
  Grad <- MCGrad
  NoGrad = NoGrad
  Seeds = {1}
  Plus <- MCPlus
  Pull <- MCPull
SPECIFICATION FairSpec
INVARIANTS
  ReadsFinalGradient
  CoversTrainable
  GateNeverCloses
PROPERTIES
  EngineYields
