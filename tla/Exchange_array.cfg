\* array::swap alone.
SPECIFICATION Spec
CONSTANTS
  N = 2
  Calls = {"array::swap"}
  Moved = Moved
  None = None
INVARIANT NoexceptHonest
