\* One thread that only calls size(), next to the producer and the consumer.
SPECIFICATION Spec
CONSTANTS
  N = 2
  W = 4
  MaxPush = 3
  Values = {a}
  Producer = producer
  Consumer = consumer
  Observers = {o}
  Fresh = Fresh
  Moved = Moved
  None = None
  a = a
  o = o
INVARIANT IInv
PROPERTY SizeBounded
