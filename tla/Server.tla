------------------------------- MODULE Server -------------------------------
(***************************************************************************)
(* The dispatcher of barrister.go: Server.InvokeBytes / CallBatch decode a *)
(* request, InvokeOne and Call take its calls one after the other through  *)
(* method lookup, cloning, PreInvoke filters, parameter conversion, the    *)
(* handler method and PostInvoke filters, and the answer is marshalled.    *)
(*                                                                         *)
(* Each element of Req is a goroutine of the transport (net/http starts    *)
(* one per connection) that serves one request after another.  All of them *)
(* share one Server value: its filter list, its handler table and the      *)
(* registered implementations.  A step of a goroutine ends where it gives  *)
(* control to code of the embedding program (CloneForReq, a filter, a      *)
(* handler method) or returns from it.                                     *)
(***************************************************************************)
EXTENDS Naturals, Sequences

CONSTANTS
  Req,            \* goroutines that serve requests
  Filter,         \* filter implementations
  MaxFilters,     \* bound of the model: registrations by AddFilter
  Interface,      \* interfaces of the IDL
  Method,         \* method names a request may carry
  IdlMethod,      \* those the IDL defines (Idl.methods)
  IdlQuery,       \* the reserved name "barrister-idl"
  IfaceOf,        \* interface part of an IDL method (parseMethod)
  Arity,          \* number of parameters the IDL gives the method
  Impl,           \* implementations passed to AddHandler
  ClonableImpl,   \* those that satisfy the Cloneable interface
  Valid,          \* <<interface, implementation>> pairs AddHandler accepts
  Result,         \* values of a Go result, see AllResults
  Error,          \* values of a Go error, see AllErrors
  Id,             \* JSON-RPC ids
  NoId,           \* the empty id
  Body,           \* requests that may arrive
  NotArray,       \* "params" that is no JSON array
  NoImpl, NoBody, NoCall

\* "nan" stands for any value encoding/json refuses to marshal (NaN, a channel).
AllResults == {"null", "value", "nan"}
\* "typednil" is an error interface that holds a nil *JsonRpcError: it compares
\* unequal to nil.  "err" is every other non-nil error.
AllErrors == {"nil", "typednil", "err"}

\* How a request enters the server.
Entry == {"InvokeBytes", "CallBatch"}
\* params is the length of the array, or NotArray.
CallType == [id : Id \cup {NoId}, method : Method, params : Nat \cup {NotArray}]
BodyType == [via : Entry, parses : BOOLEAN, calls : Seq(CallType)]

ASSUME ServerAssumption ==
  /\ MaxFilters \in Nat
  /\ IdlMethod \subseteq Method
  /\ IdlQuery \in Method \ IdlMethod
  /\ IfaceOf \in [IdlMethod -> Interface]
  /\ Arity \in [IdlMethod -> Nat]
  /\ ClonableImpl \subseteq Impl
  /\ Valid \subseteq Interface \X Impl
  /\ Result \subseteq AllResults /\ "null" \in Result
  /\ Error \subseteq AllErrors /\ "nil" \in Error
  /\ NoId \notin Id
  /\ NotArray \notin Nat
  /\ Body \subseteq BodyType
  /\ \A b \in Body : ~b.parses => b.via = "InvokeBytes" /\ b.calls = <<>>
  /\ NoBody \notin Body
  /\ NoImpl \notin Impl
  /\ NoCall \notin Req \X Nat
  /\ Req \cap Impl = {}

VARIABLES
  filters,    \* Server.filters
  handlers,   \* Server.handlers, NoImpl where the map has no entry
  ctx,        \* what code of the program last stored in a handler object:
              \* a registered implementation, or the clone goroutine r made
  pc,         \* where goroutine r is
  req,        \* the request r serves
  k,          \* index of the call of req[r] that is next or in progress
  call,       \* locals of Server.Call
  out,        \* responses so far
  trace       \* history of the call in progress, read by properties only

registry  == <<filters, handlers>>
goroutine == <<pc, req, k, call, out, trace>>
vars      == <<filters, handlers, ctx, pc, req, k, call, out, trace>>

-----------------------------------------------------------------------------
(* Data *)

\* What one JsonRpcResponse says: a result, one of the errors the dispatcher
\* makes, an error of a filter or handler, or nothing (JsonRpcResponse{}).
Tag == Result \cup {"idl", "error", "empty", "methodNotFound",
                    "invalidParams", "internal", "parseError"}
Response == [id : Id \cup {NoId}, is : Tag]
ZeroResponse == [id |-> NoId, is |-> "empty"]
ParseErr == [id |-> NoId, is |-> "parseError"]

\* n is flen, i the loop variable, obj the handler object: an implementation,
\* or r for a clone made by goroutine r.
NoLocals == [n |-> 0, i |-> 0, obj |-> NoImpl, res |-> "null", err |-> "nil"]
Locals == [n : Nat, i : Nat, obj : Impl \cup Req \cup {NoImpl},
           res : Result, err : Error]

\* impl: the implementation resolved; chain: the filters registered at that time;
\* pre: filters whose PreInvoke returned true; post: filters whose PostInvoke was
\* called; stopped: one of them returned false; runs: handler method calls made;
\* ret: what the last returned.
NoTrace == [impl |-> NoImpl, chain |-> <<>>, pre |-> <<>>, post |-> <<>>,
            stopped |-> FALSE, runs |-> 0, ret |-> <<"null", "nil">>]
Traces == [impl : Impl \cup {NoImpl}, chain : Seq(Filter), pre : Seq(Filter),
           post : Seq(Filter), stopped : BOOLEAN, runs : Nat,
           ret : Result \X Error]

\* Call starts the filter loop; a callback sets rr.Result and rr.Err, and the loop
\* variable moves on.
Start(n, obj) == [n |-> n, i |-> 1, obj |-> obj, res |-> "null", err |-> "nil"]
Assign(c, s, e, i) == [c EXCEPT !.res = s, !.err = e, !.i = i]

Resolved(m, chain) == [NoTrace EXCEPT !.impl = m, !.chain = chain]
Passed(t, f, go) ==
  [t EXCEPT !.pre = IF go THEN Append(t.pre, f) ELSE t.pre, !.stopped = ~go]
Ran(t, s, e) == [t EXCEPT !.runs = t.runs + 1, !.ret = <<s, e>>]
Unwound(t, f, go) == [t EXCEPT !.post = Append(t.post, f), !.stopped = ~go]

Me(r) == <<r, k[r]>>
TheCall(r) == req[r].calls[k[r]]

\* InvokeOne passes the elements of the params array, or none if params is not
\* an array.  CallBatch passes params itself as the only argument.
NumParams(r) ==
  IF req[r].via = "CallBatch" THEN 1
  ELSE IF TheCall(r).params = NotArray THEN 0 ELSE TheCall(r).params

\* InvokeOne takes "barrister-idl" before Call is reached; CallBatch does not.
AsksForIdl(r) == req[r].via = "InvokeBytes" /\ TheCall(r).method = IdlQuery

\* The implementation s.handlers holds for the method of the call, if any.
HandlerFor(r) ==
  IF TheCall(r).method \in IdlMethod THEN handlers[IfaceOf[TheCall(r).method]]
  ELSE NoImpl

\* Answers Call can give before it looks at the filters.  A registered
\* implementation was checked by AddHandler; what CloneForReq returns was not,
\* so the method may be missing there, or may take other parameters.
Rejections(r) ==
  CASE HandlerFor(r) = NoImpl -> {"methodNotFound"}
    [] HandlerFor(r) \in ClonableImpl -> {"methodNotFound", "invalidParams"}
    [] OTHER -> IF NumParams(r) = Arity[TheCall(r).method] THEN {}
                ELSE {"invalidParams"}

Resolvable(r) == /\ HandlerFor(r) # NoImpl
                 /\ NumParams(r) = Arity[TheCall(r).method]

\* The slip of putting the Go error itself in the response, without toJsonRpcError.
OutcomeUnwrapped(res, err) == IF err = "nil" THEN res ELSE err

\* InvokeOne and CallBatch test err == nil; toJsonRpcError returns the nil
\* pointer inside a "typednil", so that response has neither error nor result,
\* like that of a call which returns null.
Outcome(res, err) ==
  CASE err = "nil" -> res
    [] err = "typednil" -> "null"
    [] err = "err" -> "error"

\* json.Marshal of the responses fails on a value it cannot encode, and
\* InvokeBytes panics.  CallBatch returns Go values and marshals nothing.
MarshalFails(r) ==
  req[r].via = "InvokeBytes" /\ \E j \in DOMAIN out[r] : out[r][j].is = "nan"

InFlight(r) == pc[r] \in {"next", "pre", "call", "post", "ret"}

-----------------------------------------------------------------------------
(* Steps common to several actions *)

\* The call in progress is over: its response is appended, the loop goes on.
Respond(r, tag) ==
  /\ out' = [out EXCEPT ![r] = Append(@, [id |-> TheCall(r).id, is |-> tag])]
  /\ k' = [k EXCEPT ![r] = @ + 1]
  /\ pc' = [pc EXCEPT ![r] = "next"]
  /\ call' = [call EXCEPT ![r] = NoLocals]
  /\ trace' = [trace EXCEPT ![r] = NoTrace]
  /\ UNCHANGED <<registry, req>>

AtCall(r) == pc[r] = "next" /\ k[r] <= Len(req[r].calls)

\* A filter (through RequestResponse.Handler) or the handler method may store
\* something about this call in the handler object.
MayStore(r) == ctx' \in {ctx, [ctx EXCEPT ![call[r].obj] = Me(r)]}

-----------------------------------------------------------------------------
(* Plausible slips.  Each is a wrong version of the action it is named after;  *)
(* no specification uses them.  They show that the properties can fail.        *)

\* if c, ok := handler.(Cloneable); ok { handler := c.CloneForReq(headers) }
ResolveShadowed(r) ==
  /\ AtCall(r) /\ ~AsksForIdl(r) /\ Resolvable(r)
  /\ call' = [call EXCEPT ![r] = Start(Len(filters), HandlerFor(r))]
  /\ trace' = [trace EXCEPT ![r] = Resolved(HandlerFor(r), filters)]
  /\ pc' = [pc EXCEPT ![r] = "pre"]
  /\ UNCHANGED <<registry, ctx, req, k, out>>

\* for i := 0; i < flen-1; i++ in the PreInvoke loop
ConvertOkTooSoon(r) ==
  /\ pc[r] = "pre" /\ call[r].i >= call[r].n
  /\ pc' = [pc EXCEPT ![r] = "call"]
  /\ UNCHANGED <<registry, ctx, req, k, call, out, trace>>

\* for i := len(s.filters) - 1; i >= 0; i-- in the PostInvoke loop
InvokeHandlerLiveLen(r) ==
  /\ pc[r] = "call"
  /\ \E s \in Result, e \in Error :
       /\ call' = [call EXCEPT ![r] =
                     Assign(@, s, IF e = "nil" THEN @.err ELSE e, Len(filters))]
       /\ trace' = [trace EXCEPT ![r] = Ran(@, s, e)]
  /\ pc' = [pc EXCEPT ![r] = IF filters = <<>> THEN "ret" ELSE "post"]
  /\ MayStore(r)
  /\ UNCHANGED <<registry, req, k, out>>

\* A handler method that reports an error is tried again.
InvokeHandlerRetries(r) ==
  /\ pc[r] = "call"
  /\ \E s \in Result, e \in Error :
       /\ call' = [call EXCEPT ![r] = Assign(@, s, e, 0)]
       /\ trace' = [trace EXCEPT ![r] = Ran(@, s, e)]
       /\ pc' = [pc EXCEPT ![r] = IF e = "nil" THEN "ret" ELSE "call"]
  /\ MayStore(r)
  /\ UNCHANGED <<registry, req, k, out>>

\* for i := flen - 1; i >= 0; { ... } without i--
PostInvokeStuck(r) ==
  /\ pc[r] = "post"
  /\ \E go \in BOOLEAN, s \in Result, e \in Error :
       /\ call' = [call EXCEPT ![r] = Assign(@, s, e, @.i)]
       /\ pc' = [pc EXCEPT ![r] = IF go THEN "post" ELSE "ret"]
  /\ MayStore(r)
  /\ UNCHANGED <<registry, req, k, out, trace>>

\* The loop over the batch leaves out its last call.
ReplyTooSoon(r) ==
  /\ pc[r] = "next" /\ k[r] >= Len(req[r].calls)
  /\ pc' = [pc EXCEPT ![r] = IF MarshalFails(r) THEN "aborted" ELSE "answered"]
  /\ UNCHANGED <<registry, ctx, req, k, call, out, trace>>

-----------------------------------------------------------------------------
(* Registration *)

\* AddFilter and AddHandler write the Server without a lock.  They are modelled
\* where Go gives them one meaning: no request is in flight, or the only one in
\* flight registers from inside a callback.
Registrable == \A r, s \in Req : InFlight(r) /\ InFlight(s) => r = s

AddFilter(f) ==
  /\ Registrable
  /\ Len(filters) < MaxFilters
  /\ filters' = Append(filters, f)
  /\ UNCHANGED <<handlers, ctx, goroutine>>

\* A mismatch with the IDL panics before anything is stored: no step.
AddHandler(i, m) ==
  /\ Registrable
  /\ <<i, m>> \in Valid
  /\ handlers' = [handlers EXCEPT ![i] = m]
  /\ UNCHANGED <<filters, ctx, goroutine>>

-----------------------------------------------------------------------------
(* One request *)

\* The entry of InvokeBytes and of CallBatch.  CallBatch starts from a slice of
\* len(batch) zero responses, to which it appends.
Receive(r, b) ==
  /\ pc[r] = "idle"
  /\ req' = [req EXCEPT ![r] = b]
  /\ k' = [k EXCEPT ![r] = 1]
  /\ pc' = [pc EXCEPT ![r] = IF b.parses THEN "next" ELSE "answered"]
  /\ out' = [out EXCEPT ![r] =
               IF ~b.parses THEN <<ParseErr>>
               ELSE IF b.via = "CallBatch"
                    THEN [j \in 1..Len(b.calls) |-> ZeroResponse]
                    ELSE <<>>]
  /\ UNCHANGED <<registry, ctx, call, trace>>

\* ServeHTTP cannot read the body of the HTTP request, and panics.
Unreadable(r) ==
  /\ pc[r] = "idle"
  /\ pc' = [pc EXCEPT ![r] = "aborted"]
  /\ UNCHANGED <<registry, ctx, req, k, call, out, trace>>

ServeIdl(r) == AtCall(r) /\ AsksForIdl(r) /\ Respond(r, "idl") /\ UNCHANGED ctx

Reject(r) ==
  /\ AtCall(r) /\ ~AsksForIdl(r)
  /\ \E tag \in Rejections(r) : Respond(r, tag)
  /\ UNCHANGED ctx

\* A Cloneable handler is replaced by a fresh object for this call.  The number
\* of filters is read here once, for both loops.
Resolve(r) ==
  /\ AtCall(r) /\ ~AsksForIdl(r) /\ Resolvable(r)
  /\ LET m == HandlerFor(r)
         obj == IF m \in ClonableImpl THEN r ELSE m
     IN /\ call' = [call EXCEPT ![r] = Start(Len(filters), obj)]
        /\ trace' = [trace EXCEPT ![r] = Resolved(m, filters)]
        /\ ctx' = IF m \in ClonableImpl THEN [ctx EXCEPT ![r] = NoCall] ELSE ctx
  /\ pc' = [pc EXCEPT ![r] = "pre"]
  /\ UNCHANGED <<registry, req, k, out>>

\* A filter may assign RequestResponse.Result and .Err as it likes.
PreInvoke(r) ==
  /\ pc[r] = "pre" /\ call[r].i <= call[r].n
  /\ \E go \in BOOLEAN, s \in Result, e \in Error :
       /\ call' = [call EXCEPT ![r] =
                     Assign(@, s, e, IF go THEN @.i + 1 ELSE @.i)]
       /\ trace' = [trace EXCEPT ![r] = Passed(@, filters[call[r].i], go)]
       /\ pc' = [pc EXCEPT ![r] = IF go THEN "pre" ELSE "ret"]
  /\ MayStore(r)
  /\ UNCHANGED <<registry, req, k, out>>

\* Conversion of the parameters (convert.go): all of them fit, or the call ends
\* here and no PostInvoke is called.
ConvertOk(r) ==
  /\ pc[r] = "pre" /\ call[r].i > call[r].n
  /\ pc' = [pc EXCEPT ![r] = "call"]
  /\ UNCHANGED <<registry, ctx, req, k, call, out, trace>>

ConvertFails(r) ==
  /\ pc[r] = "pre" /\ call[r].i > call[r].n
  /\ NumParams(r) > 0
  /\ Respond(r, "invalidParams")
  /\ UNCHANGED ctx

\* The handler method returns.  rr.Err is assigned only if the second return
\* value is not nil; what a PreInvoke left there stays otherwise.
InvokeHandler(r) ==
  /\ pc[r] = "call"
  /\ \E s \in Result, e \in Error :
       /\ call' = [call EXCEPT ![r] =
                     Assign(@, s, IF e = "nil" THEN @.err ELSE e, @.n)]
       /\ trace' = [trace EXCEPT ![r] = Ran(@, s, e)]
  /\ pc' = [pc EXCEPT ![r] = IF call[r].n = 0 THEN "ret" ELSE "post"]
  /\ MayStore(r)
  /\ UNCHANGED <<registry, req, k, out>>

\* A clone of another type may have a method of that name that does not return
\* two values: the handler ran, its results are dropped.
MalformedReturn(r) ==
  /\ pc[r] = "call" /\ call[r].obj = r
  /\ Respond(r, "internal")
  /\ UNCHANGED ctx

PostInvoke(r) ==
  /\ pc[r] = "post"
  /\ \E go \in BOOLEAN, s \in Result, e \in Error :
       /\ call' = [call EXCEPT ![r] = Assign(@, s, e, @.i - 1)]
       /\ pc' = [pc EXCEPT ![r] = IF go /\ call[r].i > 1 THEN "post" ELSE "ret"]
       /\ trace' = [trace EXCEPT ![r] = Unwound(@, filters[call[r].i], go)]
  /\ MayStore(r)
  /\ UNCHANGED <<registry, req, k, out>>

\* Call returns (rr.Result, rr.Err) and InvokeOne or CallBatch wraps them.
Return(r) ==
  /\ pc[r] = "ret"
  /\ Respond(r, Outcome(call[r].res, call[r].err))
  /\ UNCHANGED ctx

\* Every call has its response: they are marshalled, or InvokeBytes panics.
Reply(r) ==
  /\ pc[r] = "next" /\ k[r] > Len(req[r].calls)
  /\ pc' = [pc EXCEPT ![r] = IF MarshalFails(r) THEN "aborted" ELSE "answered"]
  /\ UNCHANGED <<registry, ctx, req, k, call, out, trace>>

\* CloneForReq, a filter, a conversion or the handler method panics.  Nothing in
\* the server recovers: the goroutine unwinds and the request has no answer.
Panic(r) ==
  /\ \/ pc[r] \in {"pre", "call", "post"} /\ MayStore(r)
     \/ /\ AtCall(r) /\ ~AsksForIdl(r) /\ HandlerFor(r) \in ClonableImpl
        /\ UNCHANGED ctx
  /\ pc' = [pc EXCEPT ![r] = "aborted"]
  /\ UNCHANGED <<registry, req, k, call, out, trace>>

\* ServeHTTP has written the answer, or net/http has dropped the connection of a
\* handler that panicked; the goroutine takes another request.
Close(r) ==
  /\ pc[r] \in {"answered", "aborted"}
  /\ pc' = [pc EXCEPT ![r] = "idle"]
  /\ req' = [req EXCEPT ![r] = NoBody]
  /\ k' = [k EXCEPT ![r] = 1]
  /\ call' = [call EXCEPT ![r] = NoLocals]
  /\ out' = [out EXCEPT ![r] = <<>>]
  /\ trace' = [trace EXCEPT ![r] = NoTrace]
  /\ UNCHANGED <<registry, ctx>>

-----------------------------------------------------------------------------
(* Specification *)

\* NewServer: no filters, no handlers.
Init ==
  /\ filters = <<>>
  /\ handlers = [i \in Interface |-> NoImpl]
  /\ ctx = [o \in Impl \cup Req |-> NoCall]
  /\ pc = [r \in Req |-> "idle"]
  /\ req = [r \in Req |-> NoBody]
  /\ k = [r \in Req |-> 1]
  /\ call = [r \in Req |-> NoLocals]
  /\ out = [r \in Req |-> <<>>]
  /\ trace = [r \in Req |-> NoTrace]

\* What goroutine r does with the request it has.
Step(r) ==
  \/ ServeIdl(r)
  \/ Reject(r)
  \/ Resolve(r)
  \/ PreInvoke(r)
  \/ ConvertOk(r)
  \/ ConvertFails(r)
  \/ InvokeHandler(r)
  \/ MalformedReturn(r)
  \/ PostInvoke(r)
  \/ Return(r)
  \/ Reply(r)
  \/ Panic(r)

Next ==
  \/ \E f \in Filter : AddFilter(f)
  \/ \E i \in Interface, m \in Impl : AddHandler(i, m)
  \/ \E r \in Req, b \in Body : Receive(r, b)
  \/ \E r \in Req : Unreadable(r) \/ Step(r)
  \/ \E r \in Req : Close(r)

Spec == Init /\ [][Next]_vars

\* The Go scheduler runs every goroutine that can run, and callbacks return.
Fairness == \A r \in Req : WF_vars(Step(r))

FairSpec == Spec /\ Fairness

-----------------------------------------------------------------------------
(* Properties *)

\* Whatever filters and handlers return, a response is one JSON-RPC knows, and the
\* loop variable of the filters counts within the naturals.
TypeOK ==
  /\ filters \in Seq(Filter)
  /\ handlers \in [Interface -> Impl \cup {NoImpl}]
  /\ ctx \in [Impl \cup Req -> (Req \X Nat) \cup {NoCall}]
  /\ pc \in [Req -> {"idle", "next", "pre", "call", "post", "ret",
                     "answered", "aborted"}]
  /\ req \in [Req -> Body \cup {NoBody}]
  /\ k \in [Req -> Nat \ {0}]
  /\ call \in [Req -> Locals]
  /\ out \in [Req -> Seq(Response)]
  /\ trace \in [Req -> Traces]

\* An answer has one response per call of the request, in the order of the calls
\* and with their ids.
Matches(r) ==
  /\ Len(out[r]) = Len(req[r].calls)
  /\ \A j \in 1..Len(req[r].calls) : out[r][j].id = req[r].calls[j].id

Answered(r, via) == pc[r] = "answered" /\ req[r].parses /\ req[r].via = via

\* InvokeBytes answers every call of a batch, in order: whatever filters,
\* handlers and the failures of single calls do in between, a response is never
\* lost, doubled or given to another id.
RepliesMatchCalls ==
  \A r \in Req : Answered(r, "InvokeBytes") => Matches(r)

\* "Elements in the returned batch will match the order of the requests": the
\* comment on Server.CallBatch.
CallBatchInOrder ==
  \A r \in Req : Answered(r, "CallBatch") => Matches(r)

\* PostInvoke filters run only after the handler method, in the reverse of the
\* order in which the same filters let the call pass, and all of them unless one
\* stops the chain, also when a callback registers filters in mid call.
FiltersNest ==
  \A r \in Req : LET t == trace[r] IN
    /\ Len(t.post) <= Len(t.pre)
    /\ \A j \in 1..Len(t.post) : t.post[j] = t.pre[Len(t.pre) + 1 - j]
    /\ t.post # <<>> => t.runs # 0
    /\ pc[r] = "ret" /\ t.runs # 0 /\ ~t.stopped => Len(t.post) = Len(t.pre)

\* A handler method runs only when every filter registered at the time its call
\* was resolved has let the call pass, each once, in registration order.
HandlerBehindFilters ==
  \A r \in Req : trace[r].runs # 0 => trace[r].pre = trace[r].chain

\* While a call on a Cloneable implementation is in progress, its handler object
\* holds nothing that another call stored: not a concurrent request, not an
\* earlier call of the same batch.
CloneIsolation ==
  \A r \in Req : trace[r].impl \in ClonableImpl =>
    ctx[call[r].obj] \in {NoCall, Me(r)}

\* A request that was decoded is answered or dropped, whatever filters and
\* handlers return; it does not hang.
EveryRequestEnds == \A r \in Req : InFlight(r) ~> ~InFlight(r)
=============================================================================
