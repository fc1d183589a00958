SPECIFICATION FairSpec
CONSTANTS
  Documents <- MCDocuments
  Scalar <- MCScalar
  None = ""
  Root = "root"
  Ns <- MCNs
  Defaults <- MCDefaults
  StackLimit = 5
INVARIANTS
  TypeOK
  InheritedFirst
  RecursionFound
  ImportsMatch
PROPERTIES
  Ends
\* The model ends with the registration, or with the program.
CHECK_DEADLOCK FALSE
