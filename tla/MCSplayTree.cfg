SPECIFICATION Spec
CONSTANT Elements = {1, 2, 3, 4, 5, 6}
INVARIANTS
  Apart
  ClosestAtRoot
PROPERTY Implements
