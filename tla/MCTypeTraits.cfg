\* Types of three layers with the sizes of aarch64.
SPECIFICATION CommonSpec
CONSTANTS
  SizeOf <- MCSizeOf
  Enums <- MCEnums
  Negative <- MCNegative
  MaxLayers = 3
INVARIANTS TypeOK OneCategory LayersComeOff DecayIsFinal SignsAgree CommonAgrees NothingGained OrderIrrelevant
