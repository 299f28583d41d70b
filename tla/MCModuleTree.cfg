CONSTANTS
  p = p
  q = q
  Module = {s, a, b}
  Sequentials = {s}
  Variable = {v, u}
  Trainable = {v}
  Names <- MCNames
  Numeral <- MCNumeral
  MaxEntries = 4
SYMMETRY MCSymmetry
SPECIFICATION Spec
INVARIANTS
  LeaksOnlyInCycles
  NamesTellApart
PROPERTIES
  OnlyMovesMakeCycles
  ListingGrows
