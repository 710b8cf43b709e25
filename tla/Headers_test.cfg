\* The translation unit tests/type_traits.cpp.
SPECIFICATION TestSpec
CONSTANT MaxIncludes = 0
INVARIANT Compiles
CHECK_DEADLOCK FALSE
