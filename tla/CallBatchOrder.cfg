SPECIFICATION Spec
CONSTANTS
  Req = {r1}
  Filter = {f1}
  MaxFilters = 0
  Impl = {AImpl, BImpl}
  ClonableImpl = {BImpl}
  Result = {"null", "value"}
  Error = {"nil", "err"}
  Body <- CallBatchBodies
  IfaceOf <- MCIfaceOf
  Arity <- MCArity
  Interface = {A, B}
  Method = {add, echo, foo, idl}
  IdlMethod = {add, echo}
  IdlQuery = idl
  Valid <- MCValid
  Id = {id1, id2, id3}
  NoId = NoId
  NotArray = NotArray
  NoImpl = NoImpl
  NoBody = NoBody
  NoCall = NoCall
  A = A
  B = B
  add = add
  echo = echo
  foo = foo
  idl = idl
  AImpl = AImpl
  BImpl = BImpl
  id1 = id1
  id2 = id2
  id3 = id3
INVARIANTS
  CallBatchInOrder
