--------------------------- MODULE ServerService ---------------------------
(***************************************************************************)
(* Server implements RpcService: what goroutine r has of its request is    *)
(* mapped to what the service promises about it.                           *)
(***************************************************************************)
EXTENDS Server

Ids(b) == [j \in 1..Len(b.calls) |-> b.calls[j].id]
AllIds == {Ids(b) : b \in {x \in Body : x.parses}}

Status(r) == IF pc[r] \in {"idle", "answered", "aborted"} THEN pc[r] ELSE "pending"
WorkOf(r) == IF req[r] # NoBody /\ req[r].parses THEN Ids(req[r]) ELSE <<>>
AnswerOf(r) == IF pc[r] = "answered" THEN [j \in 1..Len(out[r]) |-> out[r][j].id]
               ELSE <<>>

statusBar == [r \in Req |-> Status(r)]
workBar   == [r \in Req |-> WorkOf(r)]
doneBar   == [r \in Req |-> k[r] - 1]
runsBar   == [r \in Req |-> trace[r].runs]
answerBar == [r \in Req |-> AnswerOf(r)]

Service == INSTANCE RpcService WITH
  Work   <- AllIds,
  status <- statusBar,
  work   <- workBar,
  done   <- doneBar,
  runs   <- runsBar,
  answer <- answerBar

\* Every behaviour of the dispatcher, entered through InvokeBytes, is one the
\* abstract service allows: calls are taken in order, a handler method runs at most
\* once per call, and the answer follows the last of them with the ids of the
\* request.
ImplementsService == Service!Spec

\* CallBatch answers differently (see CallBatchInOrder).
OnlyInvokeBytes == \A b \in Body : b.via = "InvokeBytes"
=============================================================================
