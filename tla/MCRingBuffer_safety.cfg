\* Two slots, counters of four values that wrap, no observer.
SPECIFICATION Spec
CONSTANTS
  N = 2
  W = 4
  MaxPush = 5
  Values = {a, b}
  Producer = producer
  Consumer = consumer
  Observers = {}
  Fresh = Fresh
  Moved = Moved
  None = None
  a = a
  b = b
SYMMETRY Symmetric
INVARIANTS TypeOK CapacityRespected CheckStaysValid QueuedIntact RefStable NoDataRace
PROPERTY QueueSpec
