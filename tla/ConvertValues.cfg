SPECIFICATION Spec
CONSTANTS
  Enum <- MCEnum
  AllFields <- MCAllFields
  Atoms <- MCAtoms
  Fractional <- MCFractional
  Keys <- MCKeys
  Depth = 6
  Methods <- SoundMethods
  Wire <- MCWire
INVARIANTS
  TypeOK
  GeneratedAccepted
  OnlyAdmitted
  AdmittedNotRefused
  Faithful
  OnlyNullPanics
  ProxyFaithful
  PlainResultsDelivered
\* A handler that AddHandler refuses ends the program.
CHECK_DEADLOCK FALSE
