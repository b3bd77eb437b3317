SPECIFICATION Spec
CONSTANTS
  Prime = 11
  Sources <- MCSources
  Order <- MCOrder
INVARIANTS
  ModelMeansItsSource
  DerivativesReachTheirUsers
  FormulasAreConsistent
CHECK_DEADLOCK FALSE
