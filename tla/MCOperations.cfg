CONSTANTS
  Programs <- MCPrograms
  MaxWrites = 1
SPECIFICATION Spec
INVARIANTS
  GradientIsDerivative
  GradientsFit
  RejectsIllegal
  SavedIsPrivate
  RoundTrip
PROPERTIES
  ResultsKeep
