\* Every callable in at most two reference_wrappers, with every first argument.
SPECIFICATION Spec
CONSTANTS
  MaxWraps = 2
  None = None
INVARIANTS TypeOK RealizesTheRest NoexceptExact
