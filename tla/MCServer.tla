------------------------------ MODULE MCServer ------------------------------
(***************************************************************************)
(* Instances of Server for TLC, in the terms of test/conform.json and      *)
(* conform_test.go: A.add takes two numbers, B.echo a string; AImpl is     *)
(* shared by all requests, BImpl is cloned for every call.           *)
(***************************************************************************)
EXTENDS ServerService, TLC

CONSTANTS A, B, add, echo, foo, idl, AImpl, BImpl, id1, id2, id3

MCIfaceOf == add :> A @@ echo :> B
MCArity == add :> 2 @@ echo :> 1
MCValid == {<<A, AImpl>>, <<B, BImpl>>}

Call(id, m, n) == [id |-> id, method |-> m, params |-> n]
Bytes(calls) == [via |-> "InvokeBytes", parses |-> TRUE, calls |-> calls]
Batch(calls) == [via |-> "CallBatch", parses |-> TRUE, calls |-> calls]
Malformed == [via |-> "InvokeBytes", parses |-> FALSE, calls |-> <<>>]

\* One goroutine: batches that mix good calls, a repeated id, unknown methods,
\* wrong parameter counts, params that are no array, and "barrister-idl".
BatchBodies ==
  { Malformed, Bytes(<<>>),
    Bytes(<<Call(id1, foo, 1)>>),
    Bytes(<<Call(id1, add, 2), Call(id2, echo, 1)>>),
    Bytes(<<Call(id1, echo, NotArray), Call(id2, idl, NotArray), Call(id1, echo, 1)>>) }

\* Two goroutines: the same methods from both, single and in a batch.
SharedBodies ==
  { Bytes(<<Call(id1, add, 2)>>),
    Bytes(<<Call(id2, echo, 1), Call(id3, echo, 1)>>) }

\* The same through the in-process entry point.
CallBatchBodies ==
  { Batch(<<Call(id1, echo, 1)>>), Batch(<<Call(id1, echo, 1), Call(id2, echo, 1)>>) }

Goroutines == Permutations(Req)
=============================================================================
