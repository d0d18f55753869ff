SPECIFICATION FairSpec
CONSTANTS
  Harts = {0, 1}
  Units <- MCUnits
  LineUnits = 2
  Modulus = 2
  Denied <- MCDenied
  Device <- MCDevice
  Workload <- MCWorkload
INVARIANT IInv
PROPERTIES RefinesLrSc InstructionEnds
