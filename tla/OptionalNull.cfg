SPECIFICATION Spec
CONSTANTS
  Enum <- MCEnum
  AllFields <- MCAllFields
  Atoms <- MCAtoms
  Fractional <- MCFractional
  Keys <- MCKeys
  Depth = 6
  Methods <- GeneratedMethods
  Wire <- MCWire
INVARIANTS
  AdmittedArrives
\* A handler that AddHandler refuses ends the program.
CHECK_DEADLOCK FALSE
