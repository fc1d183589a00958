-------------------------- MODULE RefinementProofs --------------------------
(***************************************************************************)
(* The dispatcher, entered through InvokeBytes, implements RpcService.     *)
(***************************************************************************)
EXTENDS ServerProofs

\* Between two calls nothing is left of the last one, between two requests nothing
\* of the last request.
RestInv(r) ==
  /\ pc[r] = "idle" => req[r] = NoBody /\ k[r] = 1
  /\ pc[r] \in {"idle", "next", "answered"} => trace[r].runs = 0

RefInv(r) == ControlInv(r) /\ FilterInv(r) /\ ReplyInv(r) /\ RestInv(r)

\* The history of no call has no handler method in it.
LEMMA NoTraceRuns == NoTrace.runs = 0
BY DEF NoTrace

\* Between two calls the history is empty.
LEMMA RestStep ==
  ASSUME TypeInv, NEW r \in Req, RestInv(r),
         Step(r) \/ (\E b \in Body : Receive(r, b)) \/ Unreadable(r) \/ Close(r)
  PROVE  RestInv(r)'
<1>1. CASE \E tag : Respond(r, tag)
  <2>1. pc'[r] = "next" /\ trace'[r] = NoTrace
    BY <1>1, RespondEffect
  <2> QED  BY <2>1, NoTraceRuns DEF RestInv
<1>2. CASE Resolve(r) \/ PreInvoke(r) \/ ConvertOk(r) \/ InvokeHandler(r) \/ PostInvoke(r)
           \/ Panic(r)
  <2>1. pc'[r] \in {"pre", "call", "post", "ret", "aborted"}
    BY <1>2 DEF TypeInv, TypeOK, Resolve, PreInvoke, ConvertOk, InvokeHandler, PostInvoke,
                Panic
  <2> QED  BY <2>1 DEF RestInv
<1>3. CASE Reply(r) \/ (\E b \in Body : Receive(r, b)) \/ Unreadable(r)
  <2>1. /\ pc[r] \in {"next", "idle"} /\ pc'[r] \in {"next", "answered", "aborted"}
        /\ trace' = trace
    BY <1>3 DEF TypeInv, TypeOK, Reply, Receive, Unreadable
  <2> QED  BY <2>1 DEF RestInv
<1>4. CASE Close(r)
  <2>1. /\ pc'[r] = "idle" /\ req'[r] = NoBody /\ k'[r] = 1 /\ trace'[r] = NoTrace
    BY <1>4 DEF TypeInv, TypeOK, Close
  <2> QED  BY <2>1, NoTraceRuns DEF RestInv
<1> QED
  BY <1>1, <1>2, <1>3, <1>4
  DEF Step, ServeIdl, Reject, ConvertFails, MalformedReturn, Return

\* A goroutine that is not in a call has run no handler for the next one, so that the
\* service may run it.
THEOREM RestCorrect == Spec => [](\A r \in Req : RestInv(r))
<1>1. Init => \A r \in Req : RestInv(r)
  <2> SUFFICES ASSUME Init, NEW r \in Req PROVE RestInv(r)
    OBVIOUS
  <2>1. /\ req[r] = NoBody /\ k[r] = 1 /\ trace[r] = NoTrace
    BY DEF Init
  <2> QED  BY <2>1, NoTraceRuns DEF RestInv
<1>2. TypeInv /\ (\A r \in Req : RestInv(r)) /\ [Next]_vars => (\A r \in Req : RestInv(r))'
  <2> SUFFICES ASSUME TypeInv, \A r \in Req : RestInv(r), [Next]_vars, NEW r \in Req
               PROVE  RestInv(r)'
    OBVIOUS
  <2>1. CASE UNCHANGED vars
    BY <2>1 DEF vars, RestInv
  <2>2. CASE (\E f \in Filter : AddFilter(f)) \/ (\E i \in Interface, m \in Impl : AddHandler(i, m))
    BY <2>2 DEF AddFilter, AddHandler, goroutine, RestInv
  <2>3. ASSUME NEW q \in Req,
               Step(q) \/ (\E b \in Body : Receive(q, b)) \/ Unreadable(q) \/ Close(q)
        PROVE  RestInv(r)'
    <3>1. CASE q = r
      BY <2>3, <3>1, RestStep
    <3>2. CASE q # r
      <4>1. /\ pc'[r] = pc[r] /\ req'[r] = req[r] /\ k'[r] = k[r] /\ trace'[r] = trace[r]
        BY <2>3, <3>2, Frame
      <4> QED  BY <4>1 DEF RestInv
    <3> QED  BY <3>1, <3>2
  <2> QED  BY <2>1, <2>2, <2>3 DEF Next
<1> QED  BY <1>1, <1>2, TypeCorrect, PTL DEF Spec

-----------------------------------------------------------------------------
(* What a step does to the abstract state *)

\* The abstract state of the goroutines that do not move.
Same(q) == /\ Status(q)' = Status(q) /\ WorkOf(q)' = WorkOf(q)
           /\ k'[q] = k[q] /\ trace'[q].runs = trace[q].runs
           /\ AnswerOf(q)' = AnswerOf(q)

\* A step of one goroutine changes nothing the service sees of the others.
LEMMA OthersSame ==
  ASSUME TypeInv, NEW r \in Req,
         Step(r) \/ (\E b \in Body : Receive(r, b)) \/ Unreadable(r) \/ Close(r)
  PROVE  \A q \in Req \ {r} : Same(q)
<1> SUFFICES ASSUME NEW q \in Req \ {r} PROVE Same(q)
  OBVIOUS
<1>1. /\ pc'[q] = pc[q] /\ req'[q] = req[q] /\ k'[q] = k[q]
      /\ out'[q] = out[q] /\ trace'[q] = trace[q]
  BY Frame
<1> QED  BY <1>1 DEF Same, Status, WorkOf, AnswerOf, Ids

\* The new value of a mapped variable, from that of the goroutine that moves.
LEMMA BarUpdate ==
  ASSUME NEW r \in Req, \A q \in Req \ {r} : Same(q)
  PROVE  /\ statusBar' = [statusBar EXCEPT ![r] = Status(r)']
         /\ workBar' = [workBar EXCEPT ![r] = WorkOf(r)']
         /\ doneBar' = [doneBar EXCEPT ![r] = k'[r] - 1]
         /\ runsBar' = [runsBar EXCEPT ![r] = trace'[r].runs]
         /\ answerBar' = [answerBar EXCEPT ![r] = AnswerOf(r)']
BY DEF Same, statusBar, workBar, doneBar, runsBar, answerBar

\* A mapped variable stays if its value for the goroutine that moves does.
LEMMA BarStays ==
  ASSUME NEW r \in Req, \A q \in Req \ {r} : Same(q)
  PROVE  /\ Status(r)' = Status(r) => statusBar' = statusBar
         /\ WorkOf(r)' = WorkOf(r) => workBar' = workBar
         /\ k'[r] = k[r] => doneBar' = doneBar
         /\ trace'[r].runs = trace[r].runs => runsBar' = runsBar
         /\ AnswerOf(r)' = AnswerOf(r) => answerBar' = answerBar
BY DEF Same, statusBar, workBar, doneBar, runsBar, answerBar

\* The mapped variables, at one goroutine.
LEMMA BarValue ==
  ASSUME NEW r \in Req
  PROVE  /\ statusBar[r] = Status(r) /\ workBar[r] = WorkOf(r)
         /\ doneBar[r] = k[r] - 1 /\ runsBar[r] = trace[r].runs
         /\ answerBar[r] = AnswerOf(r)
BY DEF statusBar, workBar, doneBar, runsBar, answerBar

\* A response ends the current call of the service.
LEMMA RespondFinishes ==
  ASSUME TypeInv, NEW r \in Req, RefInv(r), NEW tag, Respond(r, tag), Step(r),
         InFlight(r), k[r] <= Len(req[r].calls)
  PROVE  Service!Finish(r)
<1>1. /\ pc'[r] = "next" /\ k'[r] = k[r] + 1 /\ req' = req /\ trace'[r] = NoTrace
  BY RespondEffect
<1>2. /\ req[r] \in Body /\ req[r].parses /\ req[r] # NoBody
  BY ServerAssumption DEF RefInv, ControlInv
<1>3. Len(req[r].calls) \in Nat /\ k[r] \in Nat \ {0}
  BY <1>2, ServerAssumption DEF BodyType, TypeInv, TypeOK
<1>4. /\ Status(r) = "pending" /\ Status(r)' = "pending"
      /\ WorkOf(r) = Ids(req[r]) /\ WorkOf(r)' = WorkOf(r)
      /\ AnswerOf(r) = <<>> /\ AnswerOf(r)' = <<>>
  BY <1>1, <1>2 DEF Status, WorkOf, AnswerOf, InFlight
<1>5. Len(WorkOf(r)) = Len(req[r].calls)
  BY <1>3, <1>4 DEF Ids
<1>6. k'[r] - 1 = (k[r] - 1) + 1 /\ k[r] - 1 < Len(req[r].calls) /\ trace'[r].runs = 0
  BY <1>1, <1>3, NoTraceRuns DEF NoTrace
<1>7. \A q \in Req \ {r} : Same(q)
  BY OthersSame
<1> QED
  BY <1>4, <1>5, <1>6, <1>7, BarUpdate, BarStays, BarValue DEF Service!Finish

\* A step inside a call that does not run the handler is invisible.
LEMMA InnerStutters ==
  ASSUME TypeInv, NEW r \in Req, Step(r), InFlight(r), InFlight(r)', req' = req,
         k' = k, trace'[r].runs = trace[r].runs
  PROVE  UNCHANGED Service!vars
<1>1. /\ Status(r) = "pending" /\ Status(r)' = "pending" /\ WorkOf(r)' = WorkOf(r)
      /\ AnswerOf(r) = <<>> /\ AnswerOf(r)' = <<>>
  BY DEF Status, WorkOf, AnswerOf, InFlight, Ids
<1>2. \A q \in Req \ {r} : Same(q)
  BY OthersSame
<1> QED  BY <1>1, <1>2, BarStays DEF Service!vars

\* InvokeHandler is the one step at which the service runs the implementation.
LEMMA InvokeRuns ==
  ASSUME TypeInv, NEW r \in Req, RefInv(r), InvokeHandler(r)
  PROVE  Service!Run(r)
<1>1. /\ pc[r] = "call" /\ pc'[r] \in {"ret", "post"} /\ req' = req /\ k' = k
      /\ trace'[r].runs = trace[r].runs + 1
  BY InvokeHandlerEffect
<1>2. /\ trace[r].runs = 0 /\ trace'[r].runs = 1
  <2>1. trace' \in [Req -> Traces]
    BY InvokeHandlerEffect
  <2> QED  BY <1>1, <2>1 DEF RefInv, FilterInv, LoopInv, Traces
<1>3. /\ req[r] \in Body /\ req[r].parses /\ req[r] # NoBody
      /\ k[r] <= Len(req[r].calls)
  BY <1>1, ServerAssumption DEF RefInv, ControlInv, InFlight, InCall
<1>4. Len(req[r].calls) \in Nat /\ k[r] \in Nat \ {0}
  BY <1>3, ServerAssumption DEF BodyType, TypeInv, TypeOK
<1>5. /\ Status(r) = "pending" /\ Status(r)' = "pending" /\ WorkOf(r)' = WorkOf(r)
      /\ WorkOf(r) = Ids(req[r]) /\ AnswerOf(r) = <<>> /\ AnswerOf(r)' = <<>>
  BY <1>1, <1>3 DEF Status, WorkOf, AnswerOf, Ids
<1>6. k[r] - 1 < Len(WorkOf(r))
  BY <1>3, <1>4, <1>5 DEF Ids
<1>7. \A q \in Req \ {r} : Same(q)
  BY OthersSame DEF Step
<1> QED
  BY <1>1, <1>2, <1>5, <1>6, <1>7, BarUpdate, BarStays, BarValue DEF Service!Run

\* The goroutine ends a request without an answer.
LEMMA Aborts ==
  ASSUME TypeInv, NEW r \in Req, RefInv(r),
         pc[r] = "idle" \/ InFlight(r), pc'[r] = "aborted",
         req' = req, k' = k, trace' = trace, Step(r) \/ Unreadable(r)
  PROVE  Service!Abort(r)
<1>1. /\ Status(r) \in {"idle", "pending"} /\ Status(r)' = "aborted"
      /\ WorkOf(r)' = WorkOf(r) /\ AnswerOf(r) = <<>> /\ AnswerOf(r)' = <<>>
  BY DEF Status, WorkOf, AnswerOf, Ids, InFlight
<1>2. \A q \in Req \ {r} : Same(q)
  BY OthersSame
<1> QED  BY <1>1, <1>2, BarUpdate, BarStays, BarValue DEF Service!Abort

\* Reply is an answer of the service, or the end of a request without one.
LEMMA ReplyAnswers ==
  ASSUME TypeInv, OnlyInvokeBytes, NEW r \in Req, RefInv(r), Reply(r), pc'[r] = "answered"
  PROVE  Service!Answer(r)
<1>1. /\ pc[r] = "next" /\ k[r] > Len(req[r].calls) /\ req' = req /\ k' = k
      /\ out' = out /\ trace' = trace
  BY DEF Reply
<1>2. /\ req[r] \in Body /\ req[r].parses /\ req[r] # NoBody
      /\ req[r].via = "InvokeBytes"
  BY <1>1, ServerAssumption DEF RefInv, ControlInv, InFlight, OnlyInvokeBytes
<1>3. Len(req[r].calls) \in Nat /\ k[r] \in Nat \ {0} /\ out[r] \in Seq(Response)
  <2>1. req[r] \in BodyType
    BY <1>2, ServerAssumption
  <2>2. Len(req[r].calls) \in Nat
    BY <2>1 DEF BodyType
  <2>3. k[r] \in Nat \ {0} /\ out[r] \in Seq(Response)
    BY DEF TypeInv, TypeOK
  <2> QED  BY <2>2, <2>3
<1>4. /\ Len(out[r]) = k[r] - 1 /\ k[r] = Len(req[r].calls) + 1
      /\ \A j \in 1..Len(out[r]) : out[r][j].id = req[r].calls[j].id
  <2>1. /\ Len(out[r]) = k[r] - 1 /\ k[r] <= Len(req[r].calls) + 1
        /\ \A j \in 1..Len(out[r]) : out[r][j].id = req[r].calls[j].id
    BY <1>1, <1>2 DEF RefInv, ReplyInv, InFlight
  <2>2. \A n, l \in Nat : n > l /\ n <= l + 1 => n = l + 1
    OBVIOUS
  <2>3. k[r] = Len(req[r].calls) + 1
    BY <1>1, <1>3, <2>1, <2>2
  <2> QED  BY <2>1, <2>3
<1>5. /\ Status(r) = "pending" /\ Status(r)' = "answered"
      /\ WorkOf(r) = Ids(req[r]) /\ WorkOf(r)' = WorkOf(r)
  BY <1>1, <1>2 DEF Status, WorkOf, Ids
<1>6. AnswerOf(r)' = WorkOf(r)
  <2>1. Len(out[r]) = Len(req[r].calls) /\ Len(out[r]) \in Nat
    BY <1>3, <1>4
  <2>2. AnswerOf(r)' = [j \in 1..Len(out[r]) |-> out[r][j].id]
    BY <1>1 DEF AnswerOf
  <2>3. WorkOf(r) = [j \in 1..Len(req[r].calls) |-> req[r].calls[j].id]
    BY <1>5 DEF Ids
  <2> QED  BY <1>4, <2>1, <2>2, <2>3
<1>7. k[r] - 1 = Len(WorkOf(r))
  BY <1>3, <1>4, <1>5 DEF Ids
<1>8. \A q \in Req \ {r} : Same(q)
  BY OthersSame DEF Step
<1> QED
  BY <1>1, <1>5, <1>6, <1>7, <1>8, BarUpdate, BarStays, BarValue DEF Service!Answer

\* Every step of a goroutine is a step of the service or stutters.
LEMMA StepSimulated ==
  ASSUME TypeInv, OnlyInvokeBytes, NEW r \in Req, RefInv(r), Step(r)
  PROVE  Service!Next \/ UNCHANGED Service!vars
<1>1. CASE ServeIdl(r) \/ Reject(r) \/ ConvertFails(r) \/ MalformedReturn(r) \/ Return(r)
  <2>1. PICK tag : Respond(r, tag)
    BY <1>1 DEF ServeIdl, Reject, ConvertFails, MalformedReturn, Return
  <2>2. InFlight(r) /\ k[r] <= Len(req[r].calls)
    BY <1>1 DEF ServeIdl, Reject, ConvertFails, MalformedReturn, Return, AtCall, InFlight,
                InCall, RefInv, ControlInv
  <2> QED  BY <2>1, <2>2, RespondFinishes DEF Service!Next
<1>2. CASE Resolve(r)
  <2>1. /\ pc[r] = "next" /\ pc'[r] = "pre" /\ req' = req /\ k' = k
        /\ trace'[r].runs = 0
    <3>1. trace' \in [Req -> Traces] /\ trace'[r].runs = 0
      BY <1>2, ResolveEffect
    <3> QED  BY <1>2, <3>1, ResolveEffect DEF Traces
  <2>2. trace[r].runs = 0
    BY <2>1 DEF RefInv, RestInv, TypeInv, TypeOK, Traces
  <2> QED  BY <2>1, <2>2, InnerStutters DEF InFlight
<1>3. CASE PreInvoke(r)
  <2>1. /\ pc[r] = "pre" /\ pc'[r] \in {"pre", "ret"} /\ req' = req /\ k' = k
        /\ trace'[r].runs = trace[r].runs
    BY <1>3, PreInvokeEffect
  <2> QED  BY <2>1, InnerStutters DEF InFlight
<1>4. CASE PostInvoke(r)
  <2>1. /\ pc[r] = "post" /\ pc'[r] \in {"post", "ret"} /\ req' = req /\ k' = k
        /\ trace'[r].runs = trace[r].runs
    BY <1>4, PostInvokeEffect
  <2> QED  BY <2>1, InnerStutters DEF InFlight
<1>5. CASE ConvertOk(r)
  <2>1. /\ pc[r] = "pre" /\ pc'[r] = "call" /\ req' = req /\ k' = k /\ trace' = trace
    BY <1>5 DEF TypeInv, TypeOK, ConvertOk
  <2> QED  BY <2>1, InnerStutters DEF InFlight
<1>6. CASE InvokeHandler(r)
  BY <1>6, InvokeRuns DEF Service!Next
<1>7. CASE Reply(r)
  <2>1. /\ pc[r] = "next" /\ pc'[r] \in {"answered", "aborted"}
        /\ req' = req /\ k' = k /\ trace' = trace
    BY <1>7 DEF TypeInv, TypeOK, Reply
  <2>2. CASE pc'[r] = "answered"
    BY <1>7, <2>2, ReplyAnswers DEF Service!Next
  <2>3. CASE pc'[r] = "aborted"
    BY <2>1, <2>3, Aborts DEF InFlight, Service!Next
  <2> QED  BY <2>1, <2>2, <2>3
<1>8. CASE Panic(r)
  <2>1. /\ InFlight(r) /\ pc'[r] = "aborted" /\ req' = req /\ k' = k /\ trace' = trace
    BY <1>8 DEF TypeInv, TypeOK, Panic, AtCall, InFlight
  <2> QED  BY <2>1, Aborts DEF Service!Next
<1> QED  BY <1>1, <1>2, <1>3, <1>4, <1>5, <1>6, <1>7, <1>8 DEF Step

\* A decoded request is accepted by the service, another answered at once.
LEMMA ReceiveSimulated ==
  ASSUME TypeInv, NEW r \in Req, RefInv(r), NEW b \in Body, Receive(r, b)
  PROVE  Service!Next
<1>1. /\ pc[r] = "idle" /\ pc'[r] = (IF b.parses THEN "next" ELSE "answered")
      /\ req'[r] = b /\ k'[r] = 1 /\ trace' = trace
      /\ ~b.parses => out'[r] = <<ParseErr>>
  BY DEF TypeInv, TypeOK, Receive
<1>2. req[r] = NoBody /\ k[r] = 1
  BY <1>1 DEF RefInv, RestInv
<1>3. /\ Status(r) = "idle" /\ WorkOf(r) = <<>> /\ AnswerOf(r) = <<>>
  BY <1>1, <1>2 DEF Status, WorkOf, AnswerOf
<1>4. \A q \in Req \ {r} : Same(q)
  BY OthersSame
<1>5. CASE b.parses
  <2>1. Status(r)' = "pending" /\ WorkOf(r)' = Ids(b) /\ AnswerOf(r)' = <<>>
    BY <1>1, <1>5, ServerAssumption DEF Status, WorkOf, AnswerOf, Ids
  <2>2. Ids(b) \in AllIds
    BY <1>5 DEF AllIds
  <2>3. Service!Accept(r, Ids(b))
    BY <1>1, <1>2, <1>3, <1>4, <2>1, BarUpdate, BarStays, BarValue DEF Service!Accept
  <2> QED  BY <2>2, <2>3 DEF Service!Next
<1>6. CASE ~b.parses
  <2>1. Status(r)' = "answered" /\ WorkOf(r)' = <<>>
    BY <1>1, <1>6 DEF Status, WorkOf
  <2>2. AnswerOf(r)' = <<NoId>>
    <3>1. AnswerOf(r)' = [j \in 1..Len(<<ParseErr>>) |-> <<ParseErr>>[j].id]
      BY <1>1, <1>6 DEF AnswerOf
    <3>2. Len(<<ParseErr>>) = 1 /\ <<ParseErr>>[1].id = NoId
      BY DEF ParseErr
    <3>3. <<NoId>> = [j \in 1..1 |-> NoId]
      OBVIOUS
    <3> QED  BY <3>1, <3>2, <3>3
  <2>3. Service!Malformed(r)
    BY <1>1, <1>2, <1>3, <1>4, <2>1, <2>2, BarUpdate, BarStays, BarValue
    DEF Service!Malformed
  <2> QED  BY <2>3 DEF Service!Next
<1> QED  BY <1>5, <1>6

\* The end of a request is the end of the service's.
LEMMA CloseSimulated ==
  ASSUME TypeInv, NEW r \in Req, Close(r)
  PROVE  Service!Next
<1>1. /\ pc[r] \in {"answered", "aborted"} /\ pc'[r] = "idle" /\ req'[r] = NoBody
      /\ k'[r] = 1 /\ trace'[r].runs = 0
  <2>1. trace'[r] = NoTrace
    BY DEF TypeInv, TypeOK, Close
  <2>2. NoTrace.runs = 0
    BY DEF NoTrace
  <2> QED  BY <2>1, <2>2 DEF TypeInv, TypeOK, Close
<1>2. /\ Status(r) \in {"answered", "aborted"} /\ Status(r)' = "idle"
      /\ WorkOf(r)' = <<>> /\ AnswerOf(r)' = <<>>
  BY <1>1 DEF Status, WorkOf, AnswerOf
<1>3. \A q \in Req \ {r} : Same(q)
  BY OthersSame
<1>4. Service!Close(r)
  BY <1>1, <1>2, <1>3, BarUpdate, BarValue DEF Service!Close
<1> QED  BY <1>4 DEF Service!Next

\* Registration is not part of the service.
LEMMA RegistrationStutters ==
  ASSUME UNCHANGED goroutine
  PROVE  UNCHANGED Service!vars
BY DEF goroutine, Service!vars, statusBar, workBar, doneBar, runsBar, answerBar,
       Status, WorkOf, AnswerOf, Ids

\* Entered through InvokeBytes, the dispatcher takes the calls of a request in
\* order, runs the handler at most once for each and answers after the last of
\* them, for every number of goroutines, filters and calls.
THEOREM Refinement ==
  ASSUME OnlyInvokeBytes
  PROVE  Spec => ImplementsService
<1>1. Init => Service!Init
  <2> SUFFICES ASSUME Init PROVE Service!Init
    OBVIOUS
  <2>1. ASSUME NEW r \in Req
        PROVE  /\ Status(r) = "idle" /\ WorkOf(r) = <<>> /\ AnswerOf(r) = <<>>
               /\ k[r] - 1 = 0 /\ trace[r].runs = 0
    BY DEF Init, Status, WorkOf, AnswerOf, NoTrace
  <2> QED  BY <2>1 DEF Service!Init, statusBar, workBar, doneBar, runsBar, answerBar
<1>2. TypeInv /\ (\A r \in Req : RefInv(r)) /\ [Next]_vars => [Service!Next]_(Service!vars)
  <2> SUFFICES ASSUME TypeInv, \A r \in Req : RefInv(r), [Next]_vars
               PROVE  Service!Next \/ UNCHANGED Service!vars
    OBVIOUS
  <2>1. CASE UNCHANGED vars
    BY <2>1, RegistrationStutters DEF vars, goroutine
  <2>2. CASE (\E f \in Filter : AddFilter(f)) \/ (\E i \in Interface, m \in Impl : AddHandler(i, m))
    BY <2>2, RegistrationStutters DEF AddFilter, AddHandler
  <2>3. ASSUME NEW r \in Req, NEW b \in Body, Receive(r, b) PROVE Service!Next
    BY <2>3, ReceiveSimulated
  <2>4. ASSUME NEW r \in Req, Unreadable(r) PROVE Service!Next
    <3>1. /\ pc[r] = "idle" /\ pc'[r] = "aborted" /\ req' = req /\ k' = k /\ trace' = trace
      BY <2>4 DEF TypeInv, TypeOK, Unreadable
    <3> QED  BY <2>4, <3>1, Aborts DEF Service!Next
  <2>5. ASSUME NEW r \in Req, Step(r) PROVE Service!Next \/ UNCHANGED Service!vars
    BY <2>5, StepSimulated
  <2>6. ASSUME NEW r \in Req, Close(r) PROVE Service!Next
    BY <2>6, CloseSimulated
  <2> QED  BY <2>1, <2>2, <2>3, <2>4, <2>5, <2>6 DEF Next
<1>3. /\ TypeInv /\ (\A r \in Req : FilterInv(r)) /\ (\A r \in Req : ReplyInv(r))
      /\ (\A r \in Req : RestInv(r))
      => \A r \in Req : RefInv(r)
  BY DEF RefInv, TypeInv
<1> QED
  BY <1>1, <1>2, <1>3, TypeCorrect, FiltersCorrect, RepliesCorrect, RestCorrect, PTL
  DEF Spec, ImplementsService, Service!Spec
=============================================================================
