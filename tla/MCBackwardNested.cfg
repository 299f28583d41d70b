\* Three calls, nested up to three deep, over shared graphs of three nodes.
CONSTANTS
  MaxNodes = 3
  MaxDepth = 3
  MaxCalls = 3
  ParentLists <- MCSharedLists
  Cpu = Cpu
  Devices = {Cpu}
  Grad <- MCGrad
  NoGrad = NoGrad
  Seeds = {1}
  Plus <- MCPlus
  Pull <- MCPull
SPECIFICATION Spec
INVARIANTS
  TypeOK
  PreparedOnCurrent
PROPERTIES
  AllOrNothing
  RefinesLedger
