\* Sizes of eight bits, unsigned of four, eight second-level classes: the shift of 1u
\* is undefined for requests from 128 on.
SPECIFICATION Spec
CONSTANTS
  SizeBits = 8
  UnsignedBits = 4
  sli = 3
  mbs = 8
  Pow2 <- MCPow2
INVARIANTS TypeOK GoodFit SkipsOnlyOwnClass ClassesOrdered LogsAgree
