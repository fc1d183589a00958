SPECIFICATION Spec
CONSTANTS
  Req = {r1, r2}
  Filter = {f1}
  MaxFilters = 1
  Impl = {AImpl, BImpl}
  ClonableImpl = {BImpl}
  Result = {"null"}
  Error = {"nil", "err"}
  Body <- SharedBodies
  IfaceOf <- MCIfaceOf
  Arity <- MCArity
  Interface = {A, B}
  Method = {add, echo, foo, idl}
  IdlMethod = {add, echo}
  IdlQuery = idl
  Valid <- MCValid
  Id = {id1, id2, id3}
  NoId = NoId
  NotArray = NotArray
  NoImpl = NoImpl
  NoBody = NoBody
  NoCall = NoCall
  A = A
  B = B
  add = add
  echo = echo
  foo = foo
  idl = idl
  AImpl = AImpl
  BImpl = BImpl
  id1 = id1
  id2 = id2
  id3 = id3
INVARIANTS
  CloneIsolation
SYMMETRY Goroutines
