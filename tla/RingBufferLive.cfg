\* Either thread may be the only one that is sure to run, or both are.
SPECIFICATION LiveSpec
CONSTANTS
  N = 2
  W = 4
  MaxPush = 3
  Values = {a}
  Producer = producer
  Consumer = consumer
  Observers = {}
  Fresh = Fresh
  Moved = Moved
  None = None
  a = a
PROPERTY RunnerReturns Delivered PushAccepted
