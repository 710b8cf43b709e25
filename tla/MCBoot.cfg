\* Strides of 2 bytes, boundaries of 4; images of 0 to 5 bytes, .bss of 0 to 9 bytes.
SPECIFICATION Spec
CONSTANTS
  Align = 4
  Stride = 2
  StackSize = 4
  RamStart = 6
  RamEnd = 32
  Half = 32
  MaxImage = 5
  MaxBss = 9
  PowerOn <- MCPowerOn
  Message <- MCMessage
INVARIANTS TypeOK KmainReady
PROPERTIES OnlyBssErased Booted
