\* Translation units of up to three includes, in any order.
SPECIFICATION Spec
CONSTANT MaxIncludes = 3
INVARIANT OthersFound
PROPERTY MissedInCycleOnly
CHECK_DEADLOCK FALSE
