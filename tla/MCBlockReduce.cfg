\* Blocks of four lanes with two elements each: empty, serial, partial,
\* full and two-block tensors.
CONSTANTS
  Lanes = 4
  Items = 2
  SerialLimit = 2
  Sizes = {0, 1, 2, 3, 7, 8, 9, 13}
  MaxBlocks = 2
  Strides = {1, 2, 4}
  Zero <- MCZero
  Garbage <- MCGarbage
  Element <- MCElement
  Add <- MCAdd
  Tree <- MCTree
  Number <- MCNumber
  Occurs <- MCOccurs
SPECIFICATION FairSpec
CHECK_DEADLOCK FALSE
INVARIANTS
  RaceFree
  FixedOrder
  EachElementOnce
PROPERTIES
  Returns
