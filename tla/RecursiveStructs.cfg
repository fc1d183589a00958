SPECIFICATION FairSpec
CONSTANTS
  Documents <- TreeDocuments
  Scalar <- MCScalar
  None = ""
  Root = "root"
  Ns <- MCNs
  Defaults <- MCDefaults
  StackLimit = 5
INVARIANTS
  TrialEnds
\* The model ends with the registration, or with the program.
CHECK_DEADLOCK FALSE
