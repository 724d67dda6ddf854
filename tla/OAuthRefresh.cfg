SPECIFICATION Spec
CONSTANTS
  c1 = c1
  c2 = c2
  v1 = v1
  Connects <- MCConnects
  Validations <- MCValidations
  Nobody = Nobody
  Window = 1
  Lives = {0, 1}
  Patches = {0}
  Together = 2
  MaxTokens = 3
  MaxTime = 2
SYMMETRY Alike
INVARIANTS
  OneBoundaryGrant
  TokenStaysUsable
PROPERTIES
  TokenGoesBackOnlyDisturbed
CHECK_DEADLOCK FALSE
