---------------------------- MODULE ServerProofs ----------------------------
(***************************************************************************)
(* Safety of the dispatcher, for any number of goroutines, calls, filters  *)
(* and implementations.                                                    *)
(***************************************************************************)
EXTENDS ServerService, SequenceTheorems, TLAPS

\* Where a goroutine is: at a call of a decoded request, with a valid index into
\* it and valid indices into the filter list.
InCall(r) == pc[r] \in {"pre", "call", "post", "ret"}

ControlInv(r) ==
  /\ InFlight(r) => /\ req[r] \in Body /\ req[r].parses
                    /\ k[r] <= Len(req[r].calls) + 1
  /\ InCall(r) => k[r] <= Len(req[r].calls)
  /\ pc[r] \in {"pre", "call"} => call[r].n <= Len(filters)
  /\ pc[r] = "pre" => call[r].i \in 1..(call[r].n + 1)
  /\ pc[r] = "post" => call[r].i \in 1..Len(filters)

TypeInv == TypeOK /\ \A r \in Req : ControlInv(r)

-----------------------------------------------------------------------------
(* Data *)

\* No request is in flight when NewServer returns.
LEMMA TypeInit == Init => TypeInv
  BY ServerAssumption DEF Init, TypeInv, TypeOK, ControlInv, InFlight, InCall, NoLocals, Locals,
         NoTrace, Traces

\* The current call of a goroutine is a call of its request.
LEMMA TheCallType ==
  ASSUME TypeInv, NEW r \in Req, InFlight(r), k[r] <= Len(req[r].calls)
  PROVE  TheCall(r) \in CallType
<1>1. req[r] \in BodyType
  BY ServerAssumption DEF TypeInv, ControlInv
<1>2. req[r].calls \in Seq(CallType) /\ k[r] \in 1..Len(req[r].calls)
  BY <1>1 DEF TypeInv, TypeOK, BodyType
<1> QED  BY <1>2 DEF TheCall

\* Ending a call keeps the types: its response is well formed, and the index
\* stays within the request.
LEMMA RespondType ==
  ASSUME TypeInv, NEW r \in Req, InFlight(r), k[r] <= Len(req[r].calls),
         NEW tag \in Tag, Respond(r, tag), UNCHANGED ctx
  PROVE  TypeInv'
<1>1. [id |-> TheCall(r).id, is |-> tag] \in Response
  BY TheCallType DEF CallType, Response
<1>2. out' \in [Req -> Seq(Response)]
  BY <1>1 DEF TypeInv, TypeOK, Respond
<1>3. NoLocals \in Locals /\ NoTrace \in Traces
  BY ServerAssumption DEF NoLocals, Locals, NoTrace, Traces
<1>4. call' \in [Req -> Locals] /\ trace' \in [Req -> Traces]
  BY <1>3 DEF TypeInv, TypeOK, Respond
<1>5. TypeOK'
  BY <1>2, <1>4 DEF TypeInv, TypeOK, Respond, registry
<1>6. ASSUME NEW q \in Req PROVE ControlInv(q)'
  BY DEF TypeInv, TypeOK, ControlInv, Respond, registry, InFlight, InCall
<1> QED  BY <1>5, <1>6 DEF TypeInv

\* What the actions do to the locals and to the history of a call, field by field.
LEMMA StartFields ==
  ASSUME NEW n \in Nat, NEW obj \in Impl \cup Req
  PROVE  /\ Start(n, obj) \in Locals
         /\ Start(n, obj).n = n /\ Start(n, obj).i = 1 /\ Start(n, obj).obj = obj
BY ServerAssumption DEF Start, Locals

\* A callback changes the result, the error and the loop variable only.
LEMMA AssignFields ==
  ASSUME NEW c \in Locals, NEW s \in Result, NEW e \in Error, NEW i \in Nat
  PROVE  /\ Assign(c, s, e, i) \in Locals
         /\ Assign(c, s, e, i).n = c.n /\ Assign(c, s, e, i).i = i
         /\ Assign(c, s, e, i).obj = c.obj
BY DEF Assign, Locals

\* The history of a call starts with its implementation and the filter list.
LEMMA ResolvedFields ==
  ASSUME NEW m \in Impl, NEW chain \in Seq(Filter)
  PROVE  /\ Resolved(m, chain) \in Traces
         /\ Resolved(m, chain).impl = m /\ Resolved(m, chain).chain = chain
         /\ Resolved(m, chain).pre = <<>> /\ Resolved(m, chain).post = <<>>
         /\ ~Resolved(m, chain).stopped /\ Resolved(m, chain).runs = 0
<1>1. NoTrace \in Traces
  BY ServerAssumption DEF NoTrace, Traces
<1> QED  BY <1>1 DEF Resolved, NoTrace, Traces

\* PreInvoke adds at most one filter to those that let the call pass.
LEMMA PassedFields ==
  ASSUME NEW t \in Traces, NEW f \in Filter, NEW go \in BOOLEAN
  PROVE  /\ Passed(t, f, go) \in Traces
         /\ Passed(t, f, go).impl = t.impl /\ Passed(t, f, go).chain = t.chain
         /\ Passed(t, f, go).pre = (IF go THEN Append(t.pre, f) ELSE t.pre)
         /\ Passed(t, f, go).post = t.post
         /\ Passed(t, f, go).stopped = ~go /\ Passed(t, f, go).runs = t.runs
<1>1. Append(t.pre, f) \in Seq(Filter)
  BY DEF Traces
<1> QED  BY <1>1 DEF Passed, Traces

\* A handler method that returns is in the history, and nothing else changes.
LEMMA RanFields ==
  ASSUME NEW t \in Traces, NEW s \in Result, NEW e \in Error
  PROVE  /\ Ran(t, s, e) \in Traces
         /\ Ran(t, s, e).impl = t.impl /\ Ran(t, s, e).chain = t.chain
         /\ Ran(t, s, e).pre = t.pre /\ Ran(t, s, e).post = t.post
         /\ Ran(t, s, e).stopped = t.stopped /\ Ran(t, s, e).runs = t.runs + 1
<1>1. t.runs + 1 \in Nat /\ <<s, e>> \in Result \X Error
  BY DEF Traces
<1> QED  BY <1>1 DEF Ran, Traces

\* PostInvoke adds one filter to those that were called on the way back.
LEMMA UnwoundFields ==
  ASSUME NEW t \in Traces, NEW f \in Filter, NEW go \in BOOLEAN
  PROVE  /\ Unwound(t, f, go) \in Traces
         /\ Unwound(t, f, go).impl = t.impl /\ Unwound(t, f, go).chain = t.chain
         /\ Unwound(t, f, go).pre = t.pre
         /\ Unwound(t, f, go).post = Append(t.post, f)
         /\ Unwound(t, f, go).stopped = ~go /\ Unwound(t, f, go).runs = t.runs
<1>1. Append(t.post, f) \in Seq(Filter)
  BY DEF Traces
<1> QED  BY <1>1 DEF Unwound, Traces

\* Registration only lengthens the filter list.
LEMMA RegistrationType ==
  ASSUME TypeInv,
         (\E f \in Filter : AddFilter(f)) \/ (\E i \in Interface, m \in Impl : AddHandler(i, m))
  PROVE  TypeInv'
<1>1. CASE \E f \in Filter : AddFilter(f)
  <2>1. PICK f \in Filter : AddFilter(f)
    BY <1>1
  <2>2. filters' \in Seq(Filter) /\ Len(filters') = Len(filters) + 1
    BY <2>1 DEF TypeInv, TypeOK, AddFilter
  <2>3. TypeOK'
    BY <2>1, <2>2 DEF TypeInv, TypeOK, AddFilter, goroutine
  <2>4. ASSUME NEW q \in Req PROVE ControlInv(q)'
    BY <2>1, <2>2 DEF TypeInv, TypeOK, ControlInv, AddFilter, goroutine, Locals,
                      InFlight, InCall
  <2> QED  BY <2>3, <2>4 DEF TypeInv
<1>2. CASE \E i \in Interface, m \in Impl : AddHandler(i, m)
  BY <1>2 DEF TypeInv, TypeOK, ControlInv, AddHandler, goroutine, InFlight, InCall
<1> QED  BY <1>1, <1>2

\* What a callback stores in a handler object is a call.
LEMMA MayStoreType ==
  ASSUME TypeInv, NEW r \in Req, MayStore(r)
  PROVE  ctx' \in [Impl \cup Req -> (Req \X Nat) \cup {NoCall}]
<1>1. ctx \in [Impl \cup Req -> (Req \X Nat) \cup {NoCall}] /\ Me(r) \in Req \X Nat
  BY DEF TypeInv, TypeOK, Me
<1>2. CASE ctx' = ctx
  BY <1>1, <1>2
<1>3. CASE ctx' = [ctx EXCEPT ![call[r].obj] = Me(r)]
  BY <1>1, <1>3
<1> QED  BY <1>2, <1>3 DEF MayStore

\* The handler table has an implementation for a call that Resolve takes.
LEMMA HandlerType ==
  ASSUME TypeInv, NEW r \in Req, AtCall(r), Resolvable(r)
  PROVE  HandlerFor(r) \in Impl
BY ServerAssumption DEF TypeInv, TypeOK, Resolvable, HandlerFor

-----------------------------------------------------------------------------
(* What a step changes *)

\* A step of one goroutine leaves the others and the filter list alone.
LEMMA Frame ==
  ASSUME TypeInv, NEW r \in Req, NEW q \in Req \ {r},
         Step(r) \/ (\E b \in Body : Receive(r, b)) \/ Unreadable(r) \/ Close(r)
  PROVE  /\ pc'[q] = pc[q] /\ req'[q] = req[q] /\ k'[q] = k[q]
         /\ call'[q] = call[q] /\ out'[q] = out[q] /\ trace'[q] = trace[q]
         /\ filters' = filters
<1> USE DEF TypeInv, TypeOK, registry, goroutine, Respond
<1>1. CASE ServeIdl(r) \/ Reject(r) \/ ConvertFails(r) \/ MalformedReturn(r) \/ Return(r)
  BY <1>1 DEF ServeIdl, Reject, ConvertFails, MalformedReturn, Return
<1>2. CASE Resolve(r) \/ PreInvoke(r) \/ ConvertOk(r)
  BY <1>2 DEF Resolve, PreInvoke, ConvertOk
<1>3. CASE InvokeHandler(r) \/ PostInvoke(r)
  BY <1>3 DEF InvokeHandler, PostInvoke
<1>4. CASE Reply(r) \/ Panic(r) \/ Unreadable(r) \/ Close(r)
  BY <1>4 DEF Reply, Panic, Unreadable, Close
<1>5. CASE \E b \in Body : Receive(r, b)
  BY <1>5 DEF Receive
<1> QED  BY <1>1, <1>2, <1>3, <1>4, <1>5 DEF Step

\* The fields of the goroutine that moves.
LEMMA RespondEffect ==
  ASSUME TypeInv, NEW r \in Req, NEW tag, Respond(r, tag)
  PROVE  /\ pc'[r] = "next" /\ k'[r] = k[r] + 1 /\ req' = req /\ filters' = filters
         /\ out'[r] = Append(out[r], [id |-> TheCall(r).id, is |-> tag])
         /\ trace'[r] = NoTrace /\ call'[r] = NoLocals
BY DEF TypeInv, TypeOK, Respond, registry

\* Resolve: a fresh call, with the filters counted now.
LEMMA ResolveEffect ==
  ASSUME TypeInv, NEW r \in Req, Resolve(r)
  PROVE  /\ pc[r] = "next" /\ pc'[r] = "pre" /\ filters' = filters
         /\ UNCHANGED <<req, k, out>>
         /\ call' \in [Req -> Locals] /\ trace' \in [Req -> Traces]
         /\ trace'[r].impl \in Impl
         /\ trace'[r].chain = filters /\ trace'[r].pre = <<>> /\ trace'[r].post = <<>>
         /\ ~trace'[r].stopped /\ trace'[r].runs = 0
         /\ call'[r].n = Len(filters) /\ call'[r].i = 1
         /\ call'[r].obj = (IF trace'[r].impl \in ClonableImpl THEN r ELSE trace'[r].impl)
         /\ ctx' = (IF trace'[r].impl \in ClonableImpl THEN [ctx EXCEPT ![r] = NoCall]
                    ELSE ctx)
<1> DEFINE m == HandlerFor(r)
           o == IF m \in ClonableImpl THEN r ELSE m
<1>1. /\ call' = [call EXCEPT ![r] = Start(Len(filters), o)]
      /\ trace' = [trace EXCEPT ![r] = Resolved(m, filters)]
      /\ ctx' = (IF m \in ClonableImpl THEN [ctx EXCEPT ![r] = NoCall] ELSE ctx)
  BY DEF Resolve
<1>2. m \in Impl /\ o \in Impl \cup Req
  BY HandlerType DEF Resolve
<1>3. filters \in Seq(Filter) /\ Len(filters) \in Nat
  BY DEF TypeInv, TypeOK
<1>4. /\ pc[r] = "next" /\ pc'[r] = "pre" /\ filters' = filters
      /\ UNCHANGED <<req, k, out>>
  BY DEF TypeInv, TypeOK, Resolve, AtCall, registry
<1> HIDE DEF m
<1>10. /\ call' = [call EXCEPT ![r] = Start(Len(filters), o)]
       /\ trace' = [trace EXCEPT ![r] = Resolved(m, filters)]
  BY <1>1
<1>5. trace'[r] = Resolved(m, filters) /\ call'[r] = Start(Len(filters), o)
  BY <1>1 DEF TypeInv, TypeOK
<1>6. trace'[r].impl = m
  BY <1>2, <1>3, <1>5, ResolvedFields
<1>7. /\ trace'[r].chain = filters /\ trace'[r].pre = <<>> /\ trace'[r].post = <<>>
      /\ ~trace'[r].stopped /\ trace'[r].runs = 0
  BY <1>2, <1>3, <1>5, ResolvedFields
<1> HIDE DEF o
<1>8. call'[r].n = Len(filters) /\ call'[r].i = 1 /\ call'[r].obj = o
  BY <1>2, <1>3, <1>5, StartFields
<1>9. call' \in [Req -> Locals] /\ trace' \in [Req -> Traces]
  <2>1. Start(Len(filters), o) \in Locals /\ Resolved(m, filters) \in Traces
    BY <1>2, <1>3, StartFields, ResolvedFields
  <2> QED  BY <1>10, <2>1 DEF TypeInv, TypeOK
<1> QED  BY <1>9, <1>1, <1>2, <1>4, <1>6, <1>7, <1>8 DEF o

\* PreInvoke: the filter at the loop variable, which moves up if it says so.
LEMMA PreInvokeEffect ==
  ASSUME TypeInv, NEW r \in Req, PreInvoke(r)
  PROVE  \E go \in BOOLEAN :
         /\ pc[r] = "pre" /\ pc'[r] = (IF go THEN "pre" ELSE "ret")
         /\ call[r].i \in 1..call[r].n /\ call[r].n <= Len(filters)
         /\ filters' = filters /\ UNCHANGED <<req, k, out>>
         /\ call' \in [Req -> Locals] /\ trace' \in [Req -> Traces]
         /\ trace'[r].impl = trace[r].impl /\ trace'[r].chain = trace[r].chain
         /\ trace'[r].pre = (IF go THEN Append(trace[r].pre, filters[call[r].i])
                             ELSE trace[r].pre)
         /\ trace'[r].post = trace[r].post
         /\ trace'[r].stopped = ~go /\ trace'[r].runs = trace[r].runs
         /\ call'[r].n = call[r].n /\ call'[r].obj = call[r].obj
         /\ call'[r].i = (IF go THEN call[r].i + 1 ELSE call[r].i)
<1>1. PICK go \in BOOLEAN, s \in Result, e \in Error :
        /\ call' = [call EXCEPT ![r] =
                      Assign(call[r], s, e, IF go THEN call[r].i + 1 ELSE call[r].i)]
        /\ trace' = [trace EXCEPT ![r] = Passed(trace[r], filters[call[r].i], go)]
        /\ pc' = [pc EXCEPT ![r] = IF go THEN "pre" ELSE "ret"]
  BY DEF PreInvoke
<1>2. /\ call[r] \in Locals /\ call[r].n \in Nat /\ trace[r] \in Traces
      /\ call[r].i \in 1..call[r].n /\ call[r].n <= Len(filters)
      /\ filters[call[r].i] \in Filter
  BY DEF TypeInv, TypeOK, ControlInv, PreInvoke, Locals
<1>3. PICK i \in Nat :
        /\ i = (IF go THEN call[r].i + 1 ELSE call[r].i)
        /\ call' = [call EXCEPT ![r] = Assign(call[r], s, e, i)]
  <2>1. (IF go THEN call[r].i + 1 ELSE call[r].i) \in Nat
    BY <1>2
  <2> QED  BY <1>1, <2>1, Zenon
<1>4. call'[r] = Assign(call[r], s, e, i)
  BY <1>3 DEF TypeInv, TypeOK
<1>5. trace'[r] = Passed(trace[r], filters[call[r].i], go)
  BY <1>1 DEF TypeInv, TypeOK
<1>6. call'[r].n = call[r].n /\ call'[r].obj = call[r].obj /\ call'[r].i = i
  <2>1. call[r] \in Locals
    BY <1>2
  <2>2. /\ Assign(call[r], s, e, i).n = call[r].n
        /\ Assign(call[r], s, e, i).obj = call[r].obj
        /\ Assign(call[r], s, e, i).i = i
    BY <2>1, AssignFields
  <2> QED  BY <1>4, <2>2
<1>7. /\ trace'[r].impl = trace[r].impl /\ trace'[r].chain = trace[r].chain
      /\ trace'[r].pre = (IF go THEN Append(trace[r].pre, filters[call[r].i])
                          ELSE trace[r].pre)
      /\ trace'[r].post = trace[r].post
      /\ trace'[r].stopped = ~go /\ trace'[r].runs = trace[r].runs
  BY <1>2, <1>5, PassedFields
<1>8. /\ pc[r] = "pre" /\ pc'[r] = (IF go THEN "pre" ELSE "ret")
      /\ filters' = filters /\ UNCHANGED <<req, k, out>>
  BY <1>1 DEF TypeInv, TypeOK, PreInvoke, registry
<1>9. call' \in [Req -> Locals] /\ trace' \in [Req -> Traces]
  <2>1. Assign(call[r], s, e, i) \in Locals
    BY <1>2, AssignFields
  <2>2. Passed(trace[r], filters[call[r].i], go) \in Traces
    BY <1>2, PassedFields
  <2> QED  BY <1>1, <1>3, <2>1, <2>2 DEF TypeInv, TypeOK
<1> QED  BY <1>9, <1>2, <1>3, <1>6, <1>7, <1>8

\* InvokeHandler: the loop variable goes to the number of filters counted before.
LEMMA InvokeHandlerEffect ==
  ASSUME TypeInv, NEW r \in Req, InvokeHandler(r)
  PROVE  /\ pc[r] = "call" /\ pc'[r] = (IF call[r].n = 0 THEN "ret" ELSE "post")
         /\ call[r].n \in 0..Len(filters)
         /\ filters' = filters /\ UNCHANGED <<req, k, out>>
         /\ call' \in [Req -> Locals] /\ trace' \in [Req -> Traces]
         /\ trace'[r].impl = trace[r].impl /\ trace'[r].chain = trace[r].chain
         /\ trace'[r].pre = trace[r].pre /\ trace'[r].post = trace[r].post
         /\ trace'[r].stopped = trace[r].stopped
      /\ trace'[r].runs = trace[r].runs + 1
         /\ call'[r].n = call[r].n /\ call'[r].obj = call[r].obj
         /\ call'[r].i = call[r].n
<1>1. PICK s \in Result, e \in Error :
        /\ call' = [call EXCEPT ![r] =
              Assign(call[r], s, IF e = "nil" THEN call[r].err ELSE e, call[r].n)]
        /\ trace' = [trace EXCEPT ![r] = Ran(trace[r], s, e)]
  BY DEF InvokeHandler
<1>2. /\ call[r] \in Locals /\ trace[r] \in Traces
      /\ call[r].n \in Nat /\ call[r].n \in 0..Len(filters)
      /\ (IF e = "nil" THEN call[r].err ELSE e) \in Error
  BY DEF TypeInv, TypeOK, ControlInv, InvokeHandler, Locals
<1>3. PICK e2 \in Error : call' = [call EXCEPT ![r] = Assign(call[r], s, e2, call[r].n)]
  BY <1>1, <1>2
<1>4. call'[r] = Assign(call[r], s, e2, call[r].n) /\ trace'[r] = Ran(trace[r], s, e)
  BY <1>1, <1>3 DEF TypeInv, TypeOK
<1>5. call'[r].n = call[r].n /\ call'[r].obj = call[r].obj /\ call'[r].i = call[r].n
  <2>1. call[r] \in Locals /\ call[r].n \in Nat
    BY <1>2
  <2>2. /\ Assign(call[r], s, e2, call[r].n).n = call[r].n
        /\ Assign(call[r], s, e2, call[r].n).obj = call[r].obj
        /\ Assign(call[r], s, e2, call[r].n).i = call[r].n
    BY <2>1, AssignFields
  <2> QED  BY <1>4, <2>2
<1>6. /\ trace'[r].impl = trace[r].impl /\ trace'[r].chain = trace[r].chain
      /\ trace'[r].pre = trace[r].pre /\ trace'[r].post = trace[r].post
      /\ trace'[r].stopped = trace[r].stopped
      /\ trace'[r].runs = trace[r].runs + 1
  BY <1>2, <1>4, RanFields
<1>7. /\ pc[r] = "call" /\ pc'[r] = (IF call[r].n = 0 THEN "ret" ELSE "post")
      /\ filters' = filters /\ UNCHANGED <<req, k, out>>
  BY DEF TypeInv, TypeOK, InvokeHandler, registry
<1>8. call' \in [Req -> Locals] /\ trace' \in [Req -> Traces]
  <2>1. Assign(call[r], s, e2, call[r].n) \in Locals
    BY <1>2, AssignFields
  <2>2. Ran(trace[r], s, e) \in Traces
    BY <1>2, RanFields
  <2> QED  BY <1>1, <1>3, <2>1, <2>2 DEF TypeInv, TypeOK
<1> QED  BY <1>8, <1>2, <1>5, <1>6, <1>7

\* PostInvoke: the filter at the loop variable, which moves down.
LEMMA PostInvokeEffect ==
  ASSUME TypeInv, NEW r \in Req, PostInvoke(r)
  PROVE  \E go \in BOOLEAN :
         /\ pc[r] = "post"
         /\ pc'[r] = (IF go /\ call[r].i > 1 THEN "post" ELSE "ret")
         /\ call[r].i \in 1..Len(filters)
         /\ filters' = filters /\ UNCHANGED <<req, k, out>>
         /\ call' \in [Req -> Locals] /\ trace' \in [Req -> Traces]
         /\ trace'[r].impl = trace[r].impl /\ trace'[r].chain = trace[r].chain
         /\ trace'[r].pre = trace[r].pre
         /\ trace'[r].post = Append(trace[r].post, filters[call[r].i])
         /\ trace'[r].stopped = ~go /\ trace'[r].runs = trace[r].runs
         /\ call'[r].n = call[r].n /\ call'[r].obj = call[r].obj
         /\ call'[r].i = call[r].i - 1
<1>1. PICK go \in BOOLEAN, s \in Result, e \in Error :
        /\ call' = [call EXCEPT ![r] = Assign(call[r], s, e, call[r].i - 1)]
        /\ pc' = [pc EXCEPT ![r] = IF go /\ call[r].i > 1 THEN "post" ELSE "ret"]
        /\ trace' = [trace EXCEPT ![r] = Unwound(trace[r], filters[call[r].i], go)]
  BY DEF PostInvoke
<1>2. /\ call[r] \in Locals /\ trace[r] \in Traces
      /\ call[r].i \in 1..Len(filters) /\ filters[call[r].i] \in Filter
  BY DEF TypeInv, TypeOK, ControlInv, PostInvoke
<1>3. PICK i \in Nat : i = call[r].i - 1
  BY <1>2
<1>4. call'[r] = Assign(call[r], s, e, i)
  BY <1>1, <1>3 DEF TypeInv, TypeOK
<1>5. trace'[r] = Unwound(trace[r], filters[call[r].i], go)
  BY <1>1 DEF TypeInv, TypeOK
<1>6. call'[r].n = call[r].n /\ call'[r].obj = call[r].obj /\ call'[r].i = i
  <2>1. call[r] \in Locals
    BY <1>2
  <2>2. /\ Assign(call[r], s, e, i).n = call[r].n
        /\ Assign(call[r], s, e, i).obj = call[r].obj
        /\ Assign(call[r], s, e, i).i = i
    BY <2>1, AssignFields
  <2> QED  BY <1>4, <2>2
<1>7. /\ trace'[r].impl = trace[r].impl /\ trace'[r].chain = trace[r].chain
      /\ trace'[r].pre = trace[r].pre
      /\ trace'[r].post = Append(trace[r].post, filters[call[r].i])
      /\ trace'[r].stopped = ~go /\ trace'[r].runs = trace[r].runs
  BY <1>2, <1>5, UnwoundFields
<1>8. /\ pc[r] = "post" /\ pc'[r] = (IF go /\ call[r].i > 1 THEN "post" ELSE "ret")
      /\ filters' = filters /\ UNCHANGED <<req, k, out>>
  BY <1>1 DEF TypeInv, TypeOK, PostInvoke, registry
<1>9. call' \in [Req -> Locals] /\ trace' \in [Req -> Traces]
  <2>1. Assign(call[r], s, e, i) \in Locals
    BY <1>2, AssignFields
  <2>2. Unwound(trace[r], filters[call[r].i], go) \in Traces
    BY <1>2, UnwoundFields
  <2> QED  BY <1>1, <1>3, <2>1, <2>2 DEF TypeInv, TypeOK
<1> QED  BY <1>9, <1>2, <1>3, <1>6, <1>7, <1>8

-----------------------------------------------------------------------------
(* Types *)

\* The other goroutines stay where they are.
LEMMA OthersControl ==
  ASSUME TypeInv, NEW r \in Req, Step(r)
  PROVE  \A q \in Req \ {r} : ControlInv(q)'
BY Frame DEF TypeInv, ControlInv, InFlight, InCall

\* A step of a goroutine at its current request.
LEMMA StepType ==
  ASSUME TypeInv, NEW r \in Req, Step(r)
  PROVE  TypeInv'
<1>1. CASE ServeIdl(r)
  BY <1>1, RespondType DEF ServeIdl, AtCall, InFlight, Tag
<1>2. CASE Reject(r)
  BY <1>2, RespondType DEF Reject, AtCall, InFlight, Tag, Rejections
<1>3. CASE Resolve(r)
  <2>1. ctx' \in [Impl \cup Req -> (Req \X Nat) \cup {NoCall}]
    BY <1>3 DEF TypeInv, TypeOK, Resolve
  <2>2. TypeOK'
    BY <1>3, <2>1, ResolveEffect DEF TypeInv, TypeOK, Resolve, registry
  <2>3. Len(filters) \in Nat
    BY DEF TypeInv, TypeOK
  <2>4. ControlInv(r)'
    <3>1. /\ pc[r] = "next" /\ k[r] <= Len(req[r].calls)
          /\ req[r] \in Body /\ req[r].parses
      BY <1>3 DEF TypeInv, ControlInv, Resolve, AtCall, InFlight
    <3> QED  BY <1>3, <2>3, <3>1, ResolveEffect
             DEF TypeInv, ControlInv, InFlight, InCall
  <2> QED  BY <1>3, <2>2, <2>4, OthersControl DEF TypeInv
<1>4. CASE PreInvoke(r)
  <2> PICK go \in BOOLEAN :
          /\ pc[r] = "pre" /\ pc'[r] = (IF go THEN "pre" ELSE "ret")
          /\ call[r].i \in 1..call[r].n /\ call[r].n <= Len(filters)
          /\ filters' = filters /\ UNCHANGED <<req, k, out>>
          /\ call'[r].n = call[r].n
          /\ call'[r].i = (IF go THEN call[r].i + 1 ELSE call[r].i)
    BY <1>4, PreInvokeEffect
  <2>1. call' \in [Req -> Locals] /\ trace' \in [Req -> Traces]
    BY <1>4, PreInvokeEffect
  <2>2. TypeOK'
    BY <1>4, <2>1, MayStoreType DEF TypeInv, TypeOK, PreInvoke, registry
  <2>3. call[r].n \in Nat
    BY DEF TypeInv, TypeOK, Locals
  <2>4. ControlInv(r)'
    BY <2>3 DEF TypeInv, TypeOK, ControlInv, InFlight, InCall
  <2> QED  BY <1>4, <2>2, <2>4, OthersControl DEF TypeInv
<1>5. CASE ConvertOk(r)
  BY <1>5 DEF TypeInv, TypeOK, ControlInv, ConvertOk, registry, InFlight, InCall
<1>6. CASE ConvertFails(r)
  BY <1>6, RespondType DEF ConvertFails, InFlight, InCall, Tag, TypeInv, ControlInv
<1>7. CASE InvokeHandler(r)
  <2>1. TypeOK'
    BY <1>7, InvokeHandlerEffect, MayStoreType DEF TypeInv, TypeOK, InvokeHandler, registry
  <2>2. ControlInv(r)'
    BY <1>7, InvokeHandlerEffect DEF TypeInv, ControlInv, InFlight, InCall
  <2> QED  BY <1>7, <2>1, <2>2, OthersControl DEF TypeInv
<1>8. CASE MalformedReturn(r)
  BY <1>8, RespondType DEF MalformedReturn, InFlight, InCall, Tag, TypeInv, ControlInv
<1>9. CASE PostInvoke(r)
  <2> PICK go \in BOOLEAN :
          /\ pc[r] = "post"
          /\ pc'[r] = (IF go /\ call[r].i > 1 THEN "post" ELSE "ret")
          /\ call[r].i \in 1..Len(filters)
          /\ filters' = filters /\ UNCHANGED <<req, k, out>>
          /\ call'[r].i = call[r].i - 1
    BY <1>9, PostInvokeEffect
  <2>1. call' \in [Req -> Locals] /\ trace' \in [Req -> Traces]
    BY <1>9, PostInvokeEffect
  <2>2. TypeOK'
    BY <1>9, <2>1, MayStoreType DEF TypeInv, TypeOK, PostInvoke, registry
  <2>3. ControlInv(r)'
    BY DEF TypeInv, ControlInv, InFlight, InCall
  <2> QED  BY <1>9, <2>2, <2>3, OthersControl DEF TypeInv
<1>10. CASE Return(r)
  <2>1. Outcome(call[r].res, call[r].err) \in Tag
    BY ServerAssumption DEF TypeInv, TypeOK, Locals, Outcome, Tag, AllErrors
  <2> QED  BY <1>10, <2>1, RespondType DEF Return, InFlight, InCall, TypeInv, ControlInv
<1>11. CASE Reply(r)
  BY <1>11 DEF TypeInv, TypeOK, ControlInv, Reply, registry, InFlight, InCall
<1>12. CASE Panic(r)
  BY <1>12, MayStoreType
  DEF TypeInv, TypeOK, ControlInv, Panic, registry, InFlight, InCall
<1> QED
  BY <1>1, <1>2, <1>3, <1>4, <1>5, <1>6, <1>7, <1>8, <1>9, <1>10, <1>11, <1>12 DEF Step

\* Taking a request and ending one.
LEMMA BoundaryType ==
  ASSUME TypeInv, NEW r \in Req,
         (\E b \in Body : Receive(r, b)) \/ Unreadable(r) \/ Close(r)
  PROVE  TypeInv'
<1>1. ASSUME NEW b \in Body, Receive(r, b) PROVE TypeInv'
  <2>1. b \in BodyType /\ Len(b.calls) \in Nat
    BY ServerAssumption DEF BodyType
  <2>2. ParseErr \in Response /\ ZeroResponse \in Response
    BY DEF ParseErr, ZeroResponse, Response, Tag
  <2>3. out' \in [Req -> Seq(Response)]
    BY <1>1, <2>1, <2>2 DEF TypeInv, TypeOK, Receive
  <2>4. TypeOK'
    BY <1>1, <2>3 DEF TypeInv, TypeOK, Receive, registry
  <2>5. ASSUME NEW q \in Req PROVE ControlInv(q)'
    BY <1>1, <2>1 DEF TypeInv, TypeOK, ControlInv, Receive, registry, InFlight, InCall
  <2> QED  BY <2>4, <2>5 DEF TypeInv
<1>2. CASE Unreadable(r)
  BY <1>2 DEF TypeInv, TypeOK, ControlInv, Unreadable, registry, InFlight, InCall
<1>3. CASE Close(r)
  <2>1. NoLocals \in Locals /\ NoTrace \in Traces /\ <<>> \in Seq(Response)
    BY ServerAssumption DEF NoLocals, Locals, NoTrace, Traces
  <2>2. TypeOK'
    BY <1>3, <2>1 DEF TypeInv, TypeOK, Close, registry
  <2>3. ASSUME NEW q \in Req PROVE ControlInv(q)'
    BY <1>3 DEF TypeInv, TypeOK, ControlInv, Close, registry, InFlight, InCall
  <2> QED  BY <2>2, <2>3 DEF TypeInv
<1> QED  BY <1>1, <1>2, <1>3

\* No step of a callback, of the loops over filters or of the loop over a batch
\* takes a variable out of its type or an index out of its range.
THEOREM TypeCorrect == Spec => []TypeInv
<1>1. TypeInv /\ [Next]_vars => TypeInv'
  <2> SUFFICES ASSUME TypeInv, [Next]_vars PROVE TypeInv'
    OBVIOUS
  <2>1. CASE Next
    BY <2>1, RegistrationType, StepType, BoundaryType DEF Next
  <2>2. CASE UNCHANGED vars
    BY <2>2 DEF vars, TypeInv, TypeOK, ControlInv, InFlight, InCall
  <2> QED  BY <2>1, <2>2
<1> QED  BY TypeInit, <1>1, PTL DEF Spec

\* Every response is one JSON-RPC knows and every local of Server.Call has its type,
\* for any callbacks.
THEOREM TypeSafe == Spec => []TypeOK
<1>1. TypeInv => TypeOK
  BY DEF TypeInv
<1> QED  BY <1>1, TypeCorrect, PTL

-----------------------------------------------------------------------------
(* Filters *)

\* The filters of a call are the first of the list, the ones that let it pass are
\* the first of those, and the unwinding has come down to the loop variable.
ChainInv(r) ==
  LET t == trace[r] IN
    /\ Len(t.chain) <= Len(filters)
    /\ \A j \in 1..Len(t.chain) : t.chain[j] = filters[j]
    /\ Len(t.pre) <= Len(t.chain)
    /\ \A j \in 1..Len(t.pre) : t.pre[j] = t.chain[j]

UnwindInv(r) ==
  LET t == trace[r] IN
    /\ Len(t.post) <= Len(t.pre)
    /\ \A j \in 1..Len(t.post) : t.post[j] = t.pre[Len(t.pre) + 1 - j]
    /\ t.post # <<>> => t.runs # 0
    /\ t.runs # 0 => Len(t.pre) = Len(t.chain)

LoopInv(r) ==
  LET t == trace[r]  c == call[r] IN
    /\ pc[r] \in {"pre", "call"} => c.n = Len(t.chain) /\ t.runs = 0 /\ ~t.stopped
    /\ pc[r] = "pre" => Len(t.pre) = c.i - 1
    /\ pc[r] = "call" => Len(t.pre) = c.n
    /\ pc[r] = "post" => t.runs # 0 /\ Len(t.post) = Len(t.chain) - c.i
    /\ pc[r] = "ret" /\ t.runs # 0 /\ ~t.stopped => Len(t.post) = Len(t.pre)

FilterInv(r) == ChainInv(r) /\ UnwindInv(r) /\ LoopInv(r)

\* No call, no history.
LEMMA FilterInit == Init => \A r \in Req : FilterInv(r)
<1> SUFFICES ASSUME Init, NEW r \in Req PROVE FilterInv(r)
  OBVIOUS
<1>1. /\ trace[r].chain = <<>> /\ trace[r].pre = <<>> /\ trace[r].post = <<>>
      /\ trace[r].runs = 0 /\ pc[r] = "idle" /\ filters = <<>>
  BY DEF Init, NoTrace
<1> QED  BY <1>1 DEF FilterInv, ChainInv, UnwindInv, LoopInv

\* A goroutine that starts or ends a call, or a request, has no history.
LEMMA NoHistory ==
  ASSUME TypeInv, NEW r \in Req, trace'[r] = NoTrace, filters' = filters,
         pc'[r] \in {"idle", "next", "answered", "aborted"}
  PROVE  FilterInv(r)'
BY DEF TypeInv, TypeOK, FilterInv, ChainInv, UnwindInv, LoopInv, NoTrace

\* Nor does anything change when only the goroutine's position does.
LEMMA SameHistory ==
  ASSUME TypeInv, NEW r \in Req, FilterInv(r), trace'[r] = trace[r], filters' = filters,
         pc'[r] \in {"idle", "next", "answered", "aborted"}
  PROVE  FilterInv(r)'
BY DEF FilterInv, ChainInv, UnwindInv, LoopInv

\* A filter registered in mid call leaves what the call has done unchanged.
LEMMA FilterRegistration ==
  ASSUME TypeInv, NEW r \in Req, FilterInv(r),
         (\E f \in Filter : AddFilter(f)) \/ (\E i \in Interface, m \in Impl : AddHandler(i, m))
  PROVE  FilterInv(r)'
<1>1. trace[r].chain \in Seq(Filter) /\ filters \in Seq(Filter)
  BY DEF TypeInv, TypeOK, Traces
<1>2. CASE \E f \in Filter : AddFilter(f)
  <2>1. PICK f \in Filter : filters' = Append(filters, f) /\ UNCHANGED goroutine
    BY <1>2 DEF AddFilter
  <2>2. /\ Len(filters') = Len(filters) + 1
        /\ \A j \in 1..Len(filters) : filters'[j] = filters[j]
    BY <1>1, <2>1
  <2>3. ChainInv(r)'
    BY <1>1, <2>1, <2>2 DEF FilterInv, ChainInv, goroutine
  <2> QED  BY <2>1, <2>3 DEF FilterInv, UnwindInv, LoopInv, goroutine
<1>3. CASE \E i \in Interface, m \in Impl : AddHandler(i, m)
  BY <1>3 DEF AddHandler, goroutine, FilterInv, ChainInv, UnwindInv, LoopInv
<1> QED  BY <1>2, <1>3

\* A step of a goroutine keeps its own filter history in order.
LEMMA FilterStep ==
  ASSUME TypeInv, NEW r \in Req, FilterInv(r), Step(r)
  PROVE  FilterInv(r)'
<1> DEFINE t == trace[r]
<1>0. /\ filters \in Seq(Filter) /\ t.chain \in Seq(Filter)
      /\ t.pre \in Seq(Filter) /\ t.post \in Seq(Filter)
      /\ call[r].n \in Nat /\ call[r].i \in Nat
  BY DEF TypeInv, TypeOK, Traces, Locals
<1>1. CASE \E tag : Respond(r, tag)
  BY <1>1, RespondEffect, NoHistory
<1>2. CASE Resolve(r)
  BY <1>0, <1>2, ResolveEffect DEF FilterInv, ChainInv, UnwindInv, LoopInv
<1>3. CASE PreInvoke(r)
  <2> PICK go \in BOOLEAN :
         /\ pc[r] = "pre" /\ pc'[r] = (IF go THEN "pre" ELSE "ret")
         /\ call[r].i \in 1..call[r].n
         /\ filters' = filters
         /\ trace'[r].chain = t.chain
         /\ trace'[r].pre = (IF go THEN Append(t.pre, filters[call[r].i]) ELSE t.pre)
         /\ trace'[r].post = t.post
         /\ trace'[r].stopped = ~go /\ trace'[r].runs = t.runs
         /\ call'[r].n = call[r].n
         /\ call'[r].i = (IF go THEN call[r].i + 1 ELSE call[r].i)
    BY <1>3, PreInvokeEffect
  <2>1. /\ call[r].n = Len(t.chain) /\ Len(t.pre) = call[r].i - 1
        /\ t.runs = 0 /\ t.post = <<>>
    BY DEF FilterInv, UnwindInv, LoopInv
  <2>2. filters[call[r].i] \in Filter /\ filters[call[r].i] = t.chain[call[r].i]
    BY <1>0, <2>1 DEF FilterInv, ChainInv
  <2>3. CASE go
    <3>1. trace'[r].pre = Append(t.pre, filters[call[r].i])
      BY <2>3
    <3>2. /\ Len(trace'[r].pre) = call[r].i
          /\ \A j \in 1..Len(trace'[r].pre) : trace'[r].pre[j] = t.chain[j]
      <4>1. /\ Len(trace'[r].pre) = Len(t.pre) + 1
            /\ \A j \in 1..Len(t.pre) : trace'[r].pre[j] = t.pre[j]
            /\ trace'[r].pre[Len(t.pre) + 1] = t.chain[call[r].i]
        BY <1>0, <2>2, <3>1
      <4>2. \A j \in 1..Len(t.pre) : t.pre[j] = t.chain[j]
        BY DEF FilterInv, ChainInv
      <4>3. Len(t.pre) \in Nat /\ call[r].i = Len(t.pre) + 1
        BY <1>0, <2>1
      <4>4. \A j \in 1..(Len(t.pre) + 1) : j \in 1..Len(t.pre) \/ j = Len(t.pre) + 1
        BY <4>3
      <4> QED  BY <4>1, <4>2, <4>3, <4>4
    <3>3. ChainInv(r)'
      BY <1>0, <2>1, <3>2 DEF FilterInv, ChainInv
    <3>4. UnwindInv(r)'
      BY <1>0, <2>1, <3>2 DEF UnwindInv
    <3>5. LoopInv(r)'
      <4>1. /\ call'[r].n = Len(trace'[r].chain) /\ call'[r].i = call[r].i + 1
            /\ trace'[r].runs = 0 /\ ~trace'[r].stopped /\ pc'[r] = "pre"
        BY <2>1, <2>3
      <4> QED  BY <1>0, <3>2, <4>1 DEF LoopInv
    <3> QED  BY <3>3, <3>4, <3>5 DEF FilterInv
  <2>4. CASE ~go
    BY <1>0, <2>1, <2>4 DEF FilterInv, ChainInv, UnwindInv, LoopInv
  <2> QED  BY <2>3, <2>4
<1>4. CASE ConvertOk(r)
  <2>1. /\ pc[r] = "pre" /\ call[r].i > call[r].n /\ pc'[r] = "call"
        /\ filters' = filters /\ call' = call /\ trace' = trace
    BY <1>4 DEF TypeInv, TypeOK, ConvertOk, registry
  <2>2. call[r].i <= call[r].n + 1
    BY <1>0, <2>1 DEF TypeInv, ControlInv
  <2> QED  BY <1>0, <2>1, <2>2 DEF FilterInv, ChainInv, UnwindInv, LoopInv
<1>5. CASE InvokeHandler(r)
  <2>1. /\ pc[r] = "call" /\ pc'[r] = (IF call[r].n = 0 THEN "ret" ELSE "post")
        /\ filters' = filters
        /\ trace'[r].chain = t.chain /\ trace'[r].pre = t.pre /\ trace'[r].post = t.post
        /\ trace'[r].runs = t.runs + 1 /\ call'[r].i = call[r].n
    BY <1>5, InvokeHandlerEffect
  <2>2. /\ call[r].n = Len(t.chain) /\ Len(t.pre) = call[r].n /\ t.post = <<>>
        /\ t.runs = 0 /\ trace'[r].runs # 0
    BY <2>1 DEF FilterInv, UnwindInv, LoopInv
  <2>3. ChainInv(r)'
    BY <2>1 DEF FilterInv, ChainInv
  <2>4. UnwindInv(r)'
    BY <1>0, <2>1, <2>2 DEF UnwindInv
  <2>5. LoopInv(r)'
    BY <1>0, <2>1, <2>2 DEF LoopInv
  <2> QED  BY <2>3, <2>4, <2>5 DEF FilterInv
<1>6. CASE PostInvoke(r)
  <2> PICK go \in BOOLEAN :
         /\ pc[r] = "post"
         /\ pc'[r] = (IF go /\ call[r].i > 1 THEN "post" ELSE "ret")
         /\ call[r].i \in 1..Len(filters)
         /\ filters' = filters
         /\ trace'[r].chain = t.chain /\ trace'[r].pre = t.pre
         /\ trace'[r].post = Append(t.post, filters[call[r].i])
         /\ trace'[r].stopped = ~go /\ trace'[r].runs = t.runs
         /\ call'[r].i = call[r].i - 1
    BY <1>6, PostInvokeEffect
  <2>1. t.runs # 0 /\ Len(t.post) = Len(t.chain) - call[r].i /\ Len(t.pre) = Len(t.chain)
    BY DEF FilterInv, UnwindInv, LoopInv
  <2>2. filters[call[r].i] \in Filter /\ filters[call[r].i] = t.pre[call[r].i]
    <3>1. call[r].i \in 1..Len(t.chain) /\ call[r].i \in 1..Len(t.pre)
      BY <1>0, <2>1
    <3> QED  BY <1>0, <3>1 DEF FilterInv, ChainInv
  <2>3. /\ Len(trace'[r].post) = Len(t.post) + 1
        /\ \A j \in 1..Len(t.post) : trace'[r].post[j] = t.post[j]
        /\ trace'[r].post[Len(t.post) + 1] = t.pre[call[r].i]
    BY <1>0, <2>2
  <2>4. ChainInv(r)'
    BY DEF FilterInv, ChainInv
  <2>5. UnwindInv(r)'
    <3>1. \A j \in 1..Len(t.post) : t.post[j] = t.pre[Len(t.pre) + 1 - j]
      BY DEF FilterInv, UnwindInv
    <3>2. call[r].i = Len(t.pre) + 1 - (Len(t.post) + 1)
      BY <1>0, <2>1
    <3>3. ASSUME NEW j \in 1..(Len(t.post) + 1)
          PROVE  trace'[r].post[j] = t.pre[Len(t.pre) + 1 - j]
      <4>1. CASE j \in 1..Len(t.post)
        BY <2>3, <3>1, <4>1
      <4>2. CASE j = Len(t.post) + 1
        BY <2>3, <3>2, <4>2
      <4> QED  BY <1>0, <4>1, <4>2
    <3>4. Len(t.post) + 1 <= Len(t.pre)
      BY <1>0, <2>1
    <3> QED  BY <2>1, <2>3, <3>3, <3>4 DEF UnwindInv
  <2>6. LoopInv(r)'
    <3>1. Len(trace'[r].post) = Len(t.chain) - (call[r].i - 1)
      BY <1>0, <2>1, <2>3
    <3>2. CASE go /\ call[r].i > 1
      BY <2>1, <3>1, <3>2 DEF LoopInv
    <3>3. CASE ~(go /\ call[r].i > 1)
      <4>1. go => Len(trace'[r].post) = Len(t.pre)
        BY <1>0, <2>1, <3>1, <3>3
      <4> QED  BY <3>3, <4>1 DEF LoopInv
    <3> QED  BY <3>2, <3>3
  <2> QED  BY <2>4, <2>5, <2>6 DEF FilterInv
<1>7. CASE Reply(r) \/ Panic(r)
  <2>1. /\ pc'[r] \in {"answered", "aborted"}
        /\ filters' = filters /\ trace' = trace
    BY <1>7 DEF TypeInv, TypeOK, Reply, Panic, registry
  <2> QED  BY <2>1, SameHistory
<1> QED
  BY <1>1, <1>2, <1>3, <1>4, <1>5, <1>6, <1>7
  DEF Step, ServeIdl, Reject, ConvertFails, MalformedReturn, Return

\* So do taking a request and ending one.
LEMMA FilterBoundary ==
  ASSUME TypeInv, NEW r \in Req, FilterInv(r),
         (\E b \in Body : Receive(r, b)) \/ Unreadable(r) \/ Close(r)
  PROVE  FilterInv(r)'
<1>1. CASE Close(r)
  <2>1. trace'[r] = NoTrace /\ filters' = filters /\ pc'[r] = "idle"
    BY <1>1 DEF TypeInv, TypeOK, Close, registry
  <2> QED  BY <2>1, NoHistory
<1>2. CASE (\E b \in Body : Receive(r, b)) \/ Unreadable(r)
  <2>1. /\ trace'[r] = trace[r] /\ filters' = filters
        /\ pc'[r] \in {"next", "answered", "aborted"}
    BY <1>2 DEF TypeInv, TypeOK, Receive, Unreadable, registry
  <2> QED  BY <2>1, SameHistory
<1> QED  BY <1>1, <1>2

\* The invariant behind the two theorems on filters: up to the handler the loop has
\* passed a prefix of the list, after it undoes a suffix.
THEOREM FiltersCorrect == Spec => [](\A r \in Req : FilterInv(r))
<1>1. TypeInv /\ (\A r \in Req : FilterInv(r)) /\ [Next]_vars
      => (\A r \in Req : FilterInv(r))'
  <2> SUFFICES ASSUME TypeInv, \A r \in Req : FilterInv(r), [Next]_vars, NEW r \in Req
               PROVE  FilterInv(r)'
    OBVIOUS
  <2>1. CASE UNCHANGED vars
    BY <2>1 DEF vars, FilterInv, ChainInv, UnwindInv, LoopInv
  <2>2. CASE (\E f \in Filter : AddFilter(f)) \/ (\E i \in Interface, m \in Impl : AddHandler(i, m))
    BY <2>2, FilterRegistration
  <2>3. ASSUME NEW q \in Req,
               Step(q) \/ (\E b \in Body : Receive(q, b)) \/ Unreadable(q) \/ Close(q)
        PROVE  FilterInv(r)'
    <3>1. CASE q = r
      BY <2>3, <3>1, FilterStep, FilterBoundary
    <3>2. CASE q # r
      <4>1. /\ pc'[r] = pc[r] /\ call'[r] = call[r] /\ trace'[r] = trace[r]
            /\ filters' = filters
        BY <2>3, <3>2, Frame
      <4> QED  BY <4>1 DEF FilterInv, ChainInv, UnwindInv, LoopInv
    <3> QED  BY <3>1, <3>2
  <2> QED  BY <2>1, <2>2, <2>3 DEF Next
<1> QED  BY FilterInit, <1>1, TypeCorrect, PTL DEF Spec

\* No handler method runs before every filter has let its call pass, in order of
\* registration, whatever filters are registered while the call is in progress.
THEOREM HandlerBehindFiltersCorrect == Spec => []HandlerBehindFilters
<1>1. TypeInv /\ (\A r \in Req : FilterInv(r)) => HandlerBehindFilters
  <2> SUFFICES ASSUME TypeInv, NEW r \in Req, FilterInv(r), trace[r].runs # 0
               PROVE  trace[r].pre = trace[r].chain
    BY DEF HandlerBehindFilters
  <2>1. trace[r].pre \in Seq(Filter) /\ trace[r].chain \in Seq(Filter)
    BY DEF TypeInv, TypeOK, Traces
  <2>2. /\ Len(trace[r].pre) = Len(trace[r].chain)
        /\ \A j \in 1..Len(trace[r].pre) : trace[r].pre[j] = trace[r].chain[j]
    BY DEF FilterInv, ChainInv, UnwindInv
  <2> QED  BY <2>1, <2>2, SeqEqual
<1> QED  BY <1>1, TypeCorrect, FiltersCorrect, PTL

\* PostInvoke filters undo PreInvoke filters in reverse order, after the handler.
THEOREM FiltersNestCorrect == Spec => []FiltersNest
<1>1. (\A r \in Req : FilterInv(r)) => FiltersNest
  BY DEF FiltersNest, FilterInv, UnwindInv, LoopInv
<1> QED  BY <1>1, FiltersCorrect, PTL

-----------------------------------------------------------------------------
(* Clones *)

\* A clone belongs to its goroutine alone, and a shared object is never taken for
\* a clone.
CloneInv(r) ==
  /\ pc[r] \in {"pre", "call", "post"} => trace[r].impl \in Impl
  /\ pc[r] \in {"idle", "next", "answered"} => trace[r].impl = NoImpl
  /\ trace[r].impl \in ClonableImpl =>
       call[r].obj = r /\ ctx[r] \in {NoCall, Me(r)}
  /\ trace[r].impl \in Impl \ ClonableImpl => call[r].obj = trace[r].impl

\* No handler object has been touched.
LEMMA CloneInit == Init => \A r \in Req : CloneInv(r)
<1> SUFFICES ASSUME Init, NEW r \in Req PROVE CloneInv(r)
  OBVIOUS
<1>1. trace[r].impl = NoImpl /\ pc[r] = "idle"
  BY DEF Init, NoTrace
<1> QED  BY <1>1, ServerAssumption DEF CloneInv

\* A callback writes to its own clone or to a shared implementation.
LEMMA StoreFrame ==
  ASSUME TypeInv, NEW r \in Req, CloneInv(r), pc[r] \in {"pre", "call", "post"},
         MayStore(r)
  PROVE  /\ \A q \in Req \ {r} : ctx'[q] = ctx[q]
         /\ ctx'[r] \in {ctx[r], Me(r)}
<1>1. call[r].obj \in Impl \cup {r}
  BY ServerAssumption DEF CloneInv
<1>2. ctx \in [Impl \cup Req -> (Req \X Nat) \cup {NoCall}]
  BY DEF TypeInv, TypeOK
<1> QED  BY <1>1, <1>2, ServerAssumption DEF MayStore

\* Only Resolve and callbacks write handler objects, and those of others stay clean.
LEMMA CtxFrame ==
  ASSUME TypeInv, NEW r \in Req, CloneInv(r),
         Step(r) \/ (\E b \in Body : Receive(r, b)) \/ Unreadable(r) \/ Close(r)
  PROVE  \A q \in Req \ {r} : ctx'[q] = ctx[q]
<1>1. CASE Resolve(r)
  BY <1>1 DEF TypeInv, TypeOK, Resolve
<1>2. CASE PreInvoke(r) \/ InvokeHandler(r) \/ PostInvoke(r)
  BY <1>2, StoreFrame DEF PreInvoke, InvokeHandler, PostInvoke
<1>3. CASE Panic(r)
  BY <1>3, StoreFrame DEF Panic
<1>4. CASE ctx' = ctx
  BY <1>4
<1> QED
  BY <1>1, <1>2, <1>3, <1>4
  DEF Step, ServeIdl, Reject, ConvertOk, ConvertFails, MalformedReturn, Return, Reply,
      Receive, Unreadable, Close

\* A step keeps the clone of its goroutine to the current call.
LEMMA CloneStep ==
  ASSUME TypeInv, NEW r \in Req, CloneInv(r), Step(r)
  PROVE  CloneInv(r)'
<1>1. CASE \E tag : Respond(r, tag)
  <2>1. pc'[r] = "next" /\ trace'[r].impl = NoImpl
    <3>1. pc'[r] = "next" /\ trace'[r] = NoTrace
      BY <1>1, RespondEffect
    <3>2. NoTrace.impl = NoImpl
      BY DEF NoTrace
    <3> QED  BY <3>1, <3>2
  <2> QED  BY <2>1, ServerAssumption DEF CloneInv
<1>2. CASE Resolve(r)
  <2>1. ctx'[r] = (IF trace'[r].impl \in ClonableImpl THEN NoCall ELSE ctx[r])
    BY <1>2, ResolveEffect DEF TypeInv, TypeOK
  <2> QED  BY <1>2, <2>1, ResolveEffect DEF CloneInv
<1>3. CASE PreInvoke(r)
  <2>1. /\ pc[r] = "pre" /\ pc'[r] \in {"pre", "ret"} /\ k' = k
        /\ trace'[r].impl = trace[r].impl /\ call'[r].obj = call[r].obj
    BY <1>3, PreInvokeEffect
  <2>2. ctx'[r] \in {ctx[r], Me(r)}
    BY <1>3, <2>1, StoreFrame DEF PreInvoke
  <2> QED  BY <2>1, <2>2 DEF CloneInv, Me
<1>4. CASE InvokeHandler(r)
  <2>1. /\ pc[r] = "call" /\ pc'[r] \in {"post", "ret"} /\ k' = k
        /\ trace'[r].impl = trace[r].impl /\ call'[r].obj = call[r].obj
    BY <1>4, InvokeHandlerEffect
  <2>2. ctx'[r] \in {ctx[r], Me(r)}
    BY <1>4, <2>1, StoreFrame DEF InvokeHandler
  <2> QED  BY <2>1, <2>2 DEF CloneInv, Me
<1>5. CASE PostInvoke(r)
  <2>1. /\ pc[r] = "post" /\ pc'[r] \in {"post", "ret"} /\ k' = k
        /\ trace'[r].impl = trace[r].impl /\ call'[r].obj = call[r].obj
    BY <1>5, PostInvokeEffect
  <2>2. ctx'[r] \in {ctx[r], Me(r)}
    BY <1>5, <2>1, StoreFrame DEF PostInvoke
  <2> QED  BY <2>1, <2>2 DEF CloneInv, Me
<1>6. CASE ConvertOk(r)
  BY <1>6 DEF TypeInv, TypeOK, ConvertOk, CloneInv, Me
<1>7. CASE Reply(r)
  BY <1>7 DEF TypeInv, TypeOK, Reply, CloneInv, Me
<1>8. CASE Panic(r)
  <2>1. /\ pc'[r] = "aborted" /\ k' = k /\ trace' = trace /\ call' = call
    BY <1>8 DEF TypeInv, TypeOK, Panic
  <2>2. ctx'[r] \in {ctx[r], Me(r)}
    BY <1>8, StoreFrame DEF Panic
  <2> QED  BY <2>1, <2>2 DEF CloneInv, Me
<1> QED
  BY <1>1, <1>2, <1>3, <1>4, <1>5, <1>6, <1>7, <1>8
  DEF Step, ServeIdl, Reject, ConvertFails, MalformedReturn, Return

\* A request that starts or ends leaves the clones alone.
LEMMA CloneBoundary ==
  ASSUME TypeInv, NEW r \in Req, CloneInv(r),
         (\E b \in Body : Receive(r, b)) \/ Unreadable(r) \/ Close(r)
  PROVE  CloneInv(r)'
<1>1. trace'[r].impl = NoImpl
  <2>1. CASE Close(r)
    BY <2>1 DEF TypeInv, TypeOK, Close, NoTrace
  <2>2. CASE (\E b \in Body : Receive(r, b)) \/ Unreadable(r)
    BY <2>2 DEF CloneInv, Receive, Unreadable
  <2> QED  BY <2>1, <2>2
<1>2. pc'[r] \in {"idle", "next", "answered", "aborted"}
  BY DEF TypeInv, TypeOK, Receive, Unreadable, Close
<1> QED  BY <1>1, <1>2, ServerAssumption DEF CloneInv

\* The invariant behind CloneIsolation: a call on a Cloneable implementation uses the
\* clone of its goroutine, which holds nothing of another call.
THEOREM ClonesCorrect == Spec => [](\A r \in Req : CloneInv(r))
<1>1. TypeInv /\ (\A r \in Req : CloneInv(r)) /\ [Next]_vars
      => (\A r \in Req : CloneInv(r))'
  <2> SUFFICES ASSUME TypeInv, \A r \in Req : CloneInv(r), [Next]_vars, NEW r \in Req
               PROVE  CloneInv(r)'
    OBVIOUS
  <2>1. CASE UNCHANGED vars
    BY <2>1 DEF vars, CloneInv, Me
  <2>2. CASE (\E f \in Filter : AddFilter(f)) \/ (\E i \in Interface, m \in Impl : AddHandler(i, m))
    BY <2>2 DEF AddFilter, AddHandler, goroutine, CloneInv, Me
  <2>3. ASSUME NEW q \in Req,
               Step(q) \/ (\E b \in Body : Receive(q, b)) \/ Unreadable(q) \/ Close(q)
        PROVE  CloneInv(r)'
    <3>1. CASE q = r
      BY <2>3, <3>1, CloneStep, CloneBoundary
    <3>2. CASE q # r
      <4>1. /\ pc'[r] = pc[r] /\ call'[r] = call[r] /\ trace'[r] = trace[r]
            /\ k'[r] = k[r] /\ ctx'[r] = ctx[r]
        BY <2>3, <3>2, Frame, CtxFrame
      <4> QED  BY <4>1 DEF CloneInv, Me
    <3> QED  BY <3>1, <3>2
  <2> QED  BY <2>1, <2>2, <2>3 DEF Next
<1> QED  BY CloneInit, <1>1, TypeCorrect, PTL DEF Spec

\* What a callback stores in a cloned handler is never seen by another call, of
\* the same batch or of another request, for any number of either.
THEOREM CloneIsolationCorrect == Spec => []CloneIsolation
<1>1. (\A r \in Req : CloneInv(r)) => CloneIsolation
  BY DEF CloneIsolation, CloneInv
<1> QED  BY <1>1, ClonesCorrect, PTL

-----------------------------------------------------------------------------
(* Responses *)

\* The responses so far are those of the calls before the current one.
ReplyInv(r) ==
  (InFlight(r) \/ pc[r] = "answered") /\ req[r].parses /\ req[r].via = "InvokeBytes"
  => /\ Len(out[r]) = k[r] - 1
     /\ k[r] <= Len(req[r].calls) + 1
     /\ \A j \in 1..Len(out[r]) : out[r][j].id = req[r].calls[j].id
     /\ pc[r] = "answered" => k[r] = Len(req[r].calls) + 1

\* A step of a goroutine appends the response of the current call or none.
LEMMA ReplyStep ==
  ASSUME TypeInv, NEW r \in Req, ReplyInv(r), Step(r)
  PROVE  ReplyInv(r)'
<1>0. /\ out[r] \in Seq(Response) /\ k[r] \in Nat \ {0}
  BY DEF TypeInv, TypeOK
<1>1. ASSUME NEW tag \in Tag, Respond(r, tag), InFlight(r), k[r] <= Len(req[r].calls)
      PROVE  ReplyInv(r)'
  <2> DEFINE x == [id |-> TheCall(r).id, is |-> tag]
  <2>1. /\ pc'[r] = "next" /\ k'[r] = k[r] + 1 /\ req' = req
        /\ out'[r] = Append(out[r], x)
    BY <1>1, RespondEffect
  <2>2. x \in Response /\ x.id = req[r].calls[k[r]].id
    BY <1>1, TheCallType DEF CallType, Response, TheCall
  <2> HIDE DEF x
  <2>3. /\ Len(out'[r]) = Len(out[r]) + 1
        /\ \A j \in 1..Len(out[r]) : out'[r][j] = out[r][j]
        /\ out'[r][Len(out[r]) + 1] = x
    BY <1>0, <2>1, <2>2
  <2>4. CASE req[r].parses /\ req[r].via = "InvokeBytes"
    <3>1. /\ Len(out[r]) = k[r] - 1
          /\ \A j \in 1..Len(out[r]) : out[r][j].id = req[r].calls[j].id
      BY <1>1, <2>4 DEF ReplyInv
    <3>2. ASSUME NEW j \in 1..Len(out'[r]) PROVE out'[r][j].id = req[r].calls[j].id
      <4>1. CASE j \in 1..Len(out[r])
        BY <2>3, <3>1, <4>1
      <4>2. CASE j = Len(out[r]) + 1
        BY <1>0, <2>2, <2>3, <3>1, <4>2
      <4> QED  BY <1>0, <2>3, <4>1, <4>2
    <3>3. Len(out'[r]) = k'[r] - 1 /\ k'[r] <= Len(req[r].calls) + 1
      BY <1>0, <1>1, <2>1, <2>3, <3>1 DEF TypeInv, ControlInv
    <3> QED  BY <2>1, <3>2, <3>3 DEF ReplyInv
  <2>5. CASE ~(req[r].parses /\ req[r].via = "InvokeBytes")
    BY <2>1, <2>5 DEF ReplyInv
  <2> QED  BY <2>4, <2>5
<1>2. InCall(r) => k[r] <= Len(req[r].calls)
  BY DEF TypeInv, ControlInv
<1>3. CASE ServeIdl(r)
  BY <1>1, <1>3 DEF ServeIdl, AtCall, InFlight, Tag
<1>4. CASE Reject(r)
  BY <1>1, <1>4 DEF Reject, AtCall, InFlight, Tag, Rejections
<1>5. CASE ConvertFails(r) \/ MalformedReturn(r)
  BY <1>1, <1>2, <1>5 DEF ConvertFails, MalformedReturn, InFlight, InCall, Tag
<1>6. CASE Return(r)
  <2>1. Outcome(call[r].res, call[r].err) \in Tag
    BY ServerAssumption DEF TypeInv, TypeOK, Locals, Outcome, Tag, AllErrors
  <2> QED  BY <1>1, <1>2, <1>6, <2>1 DEF Return, InFlight, InCall
<1>7. CASE Resolve(r) \/ PreInvoke(r) \/ ConvertOk(r) \/ InvokeHandler(r) \/ PostInvoke(r)
  <2>1. /\ InFlight(r) /\ pc'[r] # "answered" /\ req' = req /\ k' = k /\ out' = out
    BY <1>7 DEF TypeInv, TypeOK, Resolve, AtCall, PreInvoke, ConvertOk, InvokeHandler,
                PostInvoke, InFlight
  <2> QED  BY <2>1 DEF ReplyInv
<1>8. CASE Reply(r)
  BY <1>0, <1>8 DEF TypeInv, TypeOK, ControlInv, Reply, InFlight, ReplyInv
<1>9. CASE Panic(r)
  BY <1>9 DEF TypeInv, TypeOK, Panic, InFlight, ReplyInv
<1> QED  BY <1>3, <1>4, <1>5, <1>6, <1>7, <1>8, <1>9 DEF Step

\* A new request starts with no response.
LEMMA ReplyBoundary ==
  ASSUME TypeInv, NEW r \in Req, ReplyInv(r),
         (\E b \in Body : Receive(r, b)) \/ Unreadable(r) \/ Close(r)
  PROVE  ReplyInv(r)'
<1>1. ASSUME NEW b \in Body, Receive(r, b) PROVE ReplyInv(r)'
  <2>1. Len(b.calls) \in Nat
    BY ServerAssumption DEF BodyType
  <2>2. /\ pc'[r] = (IF b.parses THEN "next" ELSE "answered") /\ req'[r] = b /\ k'[r] = 1
        /\ b.parses /\ b.via = "InvokeBytes" => out'[r] = <<>>
    BY <1>1 DEF TypeInv, TypeOK, Receive
  <2> QED  BY <2>1, <2>2 DEF ReplyInv, InFlight
<1>2. CASE Unreadable(r) \/ Close(r)
  BY <1>2 DEF TypeInv, TypeOK, Unreadable, Close, ReplyInv, InFlight
<1> QED  BY <1>1, <1>2

\* The invariant behind RepliesMatchCalls: the responses so far are those of the
\* calls before the current one, in order.
THEOREM RepliesCorrect == Spec => [](\A r \in Req : ReplyInv(r))
<1>1. Init => \A r \in Req : ReplyInv(r)
  BY DEF Init, ReplyInv, InFlight
<1>2. TypeInv /\ (\A r \in Req : ReplyInv(r)) /\ [Next]_vars
      => (\A r \in Req : ReplyInv(r))'
  <2> SUFFICES ASSUME TypeInv, \A r \in Req : ReplyInv(r), [Next]_vars, NEW r \in Req
               PROVE  ReplyInv(r)'
    OBVIOUS
  <2>1. CASE UNCHANGED vars
    BY <2>1 DEF vars, ReplyInv, InFlight
  <2>2. CASE (\E f \in Filter : AddFilter(f)) \/ (\E i \in Interface, m \in Impl : AddHandler(i, m))
    BY <2>2 DEF AddFilter, AddHandler, goroutine, ReplyInv, InFlight
  <2>3. ASSUME NEW q \in Req,
               Step(q) \/ (\E b \in Body : Receive(q, b)) \/ Unreadable(q) \/ Close(q)
        PROVE  ReplyInv(r)'
    <3>1. CASE q = r
      BY <2>3, <3>1, ReplyStep, ReplyBoundary
    <3>2. CASE q # r
      <4>1. /\ pc'[r] = pc[r] /\ req'[r] = req[r] /\ k'[r] = k[r] /\ out'[r] = out[r]
        BY <2>3, <3>2, Frame
      <4> QED  BY <4>1 DEF ReplyInv, InFlight
    <3> QED  BY <3>1, <3>2
  <2> QED  BY <2>1, <2>2, <2>3 DEF Next
<1> QED  BY <1>1, <1>2, TypeCorrect, PTL DEF Spec

\* InvokeBytes answers every call of every batch, once and in order.
THEOREM RepliesMatchCallsCorrect == Spec => []RepliesMatchCalls
<1>1. TypeInv /\ (\A r \in Req : ReplyInv(r)) => RepliesMatchCalls
  <2> SUFFICES ASSUME TypeInv, NEW r \in Req, ReplyInv(r), Answered(r, "InvokeBytes")
               PROVE  Matches(r)
    BY DEF RepliesMatchCalls
  <2>1. k[r] \in Nat /\ out[r] \in Seq(Response)
    BY DEF TypeInv, TypeOK
  <2>2. Len(out[r]) = Len(req[r].calls)
    <3>1. Len(req[r].calls) = k[r] - 1 \/ k[r] = Len(req[r].calls) + 1
      BY DEF ReplyInv, Answered
    <3> QED  BY <2>1, <3>1 DEF ReplyInv, Answered
  <2> QED  BY <2>2 DEF ReplyInv, Answered, Matches
<1> QED  BY <1>1, TypeCorrect, RepliesCorrect, PTL
=============================================================================
