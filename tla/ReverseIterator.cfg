\* Two arrays of three elements, every element type, every function, and two reverse iterators.
SPECIFICATION ReverseSpec
CONSTANTS
  N = 3
  Calls = {"swap", "ranges::swap", "ranges::swap[]", "iter_swap", "iter_exchange",
           "array::swap", "fill"}
  Moved = Moved
  None = None
INVARIANTS Completed FailureContained NeverDuplicated IteratorsOK IteratorsNoexcept
PROPERTY WalksBackwards
