# Verification of barrister-go

TLA+ models, TLC runs and TLAPS proofs for barrister-go, a JSON-RPC 2.0 library driven by a Barrister IDL. Paths such
as `barrister.go:1189` are relative to `src/`. PROJECT.json has the line range of every definition (`map`).

## 1. The system

| component | state | operations | talks to |
|---|---|---|---|
| **Server** (`barrister.go` 903-1310) | filters, handlers by interface; per request: batch index, responses, `RequestResponse` | `AddFilter`, `AddHandler`, `InvokeBytes`, `InvokeOne`, `CallBatch`, `Call`, `ServeHTTP` | transports call it; it calls `CloneForReq`, filters, handler methods, `Convert`, a `Serializer` |
| **Copies of a Server** | slice header each, backing array shared | assignment, `AddFilter` | `IrisHandler`, workers of the iris example |
| **RemoteClient** (739-811) | none; a request id per call | `Call`, `CallBatch` | `Serializer`, `Transport` |
| **HttpTransport** (658-734) | URL, hook, `http.Client`, jar | `Send` | net/http, `HttpHook` |
| **JsonSerializer** (571-656) | `ForceASCII` | `Marshal`, `Unmarshal`, `IsBatch`, `EncodeASCII` | encoding/json |
| **Idl** (28-466) | elements, interfaces, methods, structs, enums | `ParseIdlJson`, `NewIdl`, `computeAllStructFields`, `testVal`, `partitionIdlByNamespace` | generator, Server, Convert |
| **Convert** (`convert.go`) | path, type and value in progress | `Convert`, `run`, `convertSlice`, `convertStruct` | Server, generated proxies |
| **Headers** (836-901, `stdlibhttp.go`) | request and response header maps, cookies | `GetCookie`, `ReadCookies` | handlers through `CloneForReq` and filters |
| **Generator** (`generate.go`, `idl2go/`) | text | `GenerateGo` | generated proxies call `Client.Call` and `Convert` |
| **Iris** (`iris/iris.go`) | a connection; a Server value | `Send`, `HandleRequest` | `InvokeBytes` with empty `Headers` |
| **retinaws** (`retinaws/`) | servers by queue name | `Run` | `InvokeBytes` from `Workers` goroutines |
| iris-calc-server (`example/`) | workers, a WaitGroup, a stop channel | `main`, `runWorker` | Iris; a Server copy per worker |
| conform, other examples | - | programs | - |

How they interact. A request is bytes. A transport handler (net/http, Iris, retinaws) calls `InvokeBytes` in a goroutine
of its own; all of them share the handler table, the filter list and the registered implementations of one Server,
without any lock. `InvokeBytes` decodes a single request or a batch and hands each call in turn to `InvokeOne`, which
answers `barrister-idl` itself and gives the rest to `Call`. `Call` looks up the method, clones a `Cloneable` handler,
runs `PreInvoke` filters up the list, converts parameters, invokes the method by reflection and runs `PostInvoke`
filters down the list. All of CloneForReq, filters and methods are code of the embedding program: they may return any
result and error, register more filters and handlers, store something in the handler object, or panic. Nothing in the
library recovers.

What is hard: goroutines that share handler objects (and what cloning is worth); callbacks that change the list which
the loop around them indexes; calls that end early at seven places, each with its own share of the filters run;
results that cannot be marshalled after the handlers have run; Go's typed nil; value copies of a struct with a slice
in it; on the client side responses nobody matches with requests, timeouts, and bytes that only one end can read;
recursions that follow an IDL document in circles; goroutines counted after they are started. PROJECT.json `hazards` has all of them
by line.

What makes the parts correct:

- *Server*: one response per call, in order, with its id; a handler runs at most once per call and only behind all
  filters; PostInvoke nests with PreInvoke; no call sees what another stored in a clone; every request ends.
- *Copies*: a Server runs the filters registered with it.
- *RemoteClient, HttpTransport*: a caller gets the answer to its own call or an error; Before and After are paired.
- *JsonSerializer*: what one side marshals the other unmarshals, with ForceASCII too; IsBatch tells the two apart.
- *Idl*: struct fields are those of the whole extends chain, parents first; construction and the trial of a handler end
  for every document without circles of the wrong kind; a generated package imports exactly what it names.
- *Convert*: a value that passes has the Go type asked for and satisfies the IDL; what the IDL allows passes.
- *Headers*: headers the calls of a request set are returned with its response and with no other, and a handler may set
  them whatever the transport (it may not over Iris: section 3); a malformed cookie hides no other.
- *iris-calc-server*: it ends after an interrupt, and not before its workers have stopped.

## 2. Modules

| module | what it models |
|---|---|
| `Server` | the dispatcher: goroutines `Req`, one action per step of `InvokeBytes` / `InvokeOne` / `CallBatch` / `Call` between two points at which code of the program runs |
| `RpcService` | the abstract promise: calls in order, the implementation at most once per call, the answer last |
| `ServerService` | `Server` with the refinement mapping to `RpcService` |
| `MCServer` | instances for TLC: interface A (method add, shared implementation), B (method echo, cloneable) |
| `ServerProofs` | TLAPS: types and the four safety invariants of `Server` |
| `RefinementProofs` | TLAPS: `Server` implements `RpcService` |
| `ServerCopies`, `MCServerCopies` | Server values copied by assignment; AddFilter as append on slices that share an array |
| `CopiesProofs` | TLAPS: what the sharing cannot break |
| `GoValues` | Go types and values as `reflect` shows them, IDL fields and their Go types (`goType`); `reflect.Zero`, `Value.Set`, encoding/json |
| `Convert` | `convert.go`, the generator's zero expressions (`zeroVal`) and `testVal`, as recursive functions |
| `TypedCall`, `MCTypedCall` | one call through all of them: AddHandler, parameter, handler, proxy; the reference definitions |
| `TypedCallProofs` | TLAPS: types and the seven other invariants of `TypedCall` |
| `Serializer` | `JsonSerializer` on both ends of a wire: `Marshal`, `EncodeASCII`, `IsBatch`, and which output a JSON reader accepts |
| `Client`, `MCClient` | `RemoteClient` and `HttpTransport.Send`, composed with `Serializer` and, as the server, `RpcService` |
| `ClientProofs` | TLAPS: types and the five safety invariants of `Client` |
| `Idl`, `MCIdl` | `NewIdl`, inherited fields, `testVal` and its conversion, the packages of generated code |
| `Hosts`, `MCHosts` | where `InvokeBytes` is called from: net/http, retinaws, Iris; `Headers` and cookies; the workers of the iris example |
| `HostsProofs` | TLAPS: types, response headers, cookies and the WaitGroup of `Hosts` |
| `IdlProofs` | TLAPS: types, inherited fields, recursions and imports of `Idl` |
| `Loops` | TLAPS: lemmas on loops and on other recursive functions, and on least numbers; no part of the code |

### Server: state and actions

`filters` and `handlers` are the fields of the struct. `ctx[o]` is what callbacks last stored in handler object `o`,
named by the call that stored it; the clone made by goroutine `r` is called `r`. `pc`, `req`, `k`, `call`, `out` are the
goroutine's position, its decoded request, the index of the call, the locals of `Call` (`n` = `flen`, `i` = loop
variable, `obj` = handler, `res`/`err` = `rr.Result`/`rr.Err`) and the responses so far. `trace` is history that only
properties read.

| action | code |
|---|---|
| `Receive`, `Unreadable` | `InvokeBytes` / `CallBatch` entry, decoding and `jsonParseErr`; body read failure in `ServeHTTP` |
| `ServeIdl` | `InvokeOne`, barrister-idl |
| `Reject` | the four early returns of `Call` before the filters |
| `Resolve` | lookup, `CloneForReq`, `RequestResponse`, `flen` |
| `PreInvoke`, `PostInvoke` | one iteration of either loop; any result, error and verdict |
| `ConvertOk`, `ConvertFails` | parameter conversion, by its two outcomes |
| `InvokeHandler`, `MalformedReturn` | `fn.Call` and what becomes of its results; a clone's method that does not return two values |
| `Return`, `Reply` | responses of `InvokeOne` / `CallBatch`; marshalling, which may panic |
| `Panic`, `Close` | a panic in a callback; the end of the HTTP exchange |
| `AddFilter`, `AddHandler` | registration |

Data is reduced to what the dispatcher tells apart: a result is `"null"`, `"value"` or `"nan"` (not marshallable), an
error is nil, a typed nil or any other. `AddFilter` and `AddHandler` write shared memory without a lock. While another
goroutine serves a request this is a Go data race; they are enabled when no request is in flight, or from inside the
only one in flight (a callback that registers). A registered filter stays: `AddHandler` may replace a handler at any
time, which affects the calls resolved later.

### ServerCopies

`NewServer` returns a struct, `IrisHandler` has one as a field, `runWorker` takes one as a parameter: a Server value is
copied, and its slice of filters shares the backing array with the original. `AddFilter` follows `append`: in place
while there is capacity, else a new array of twice the size.

### Convert and TypedCall: values

A Go type is a kind, a name and component types; a struct type is known by its IDL struct and by whether idl2go wrote it
with `-n` (`toPtr`). A value is its type with an atom, a sequence or a map; a pointer has the contents of what it points
to. JSON strings, numbers, booleans and null are what encoding/json decodes into `interface{}`. The atoms have no
magnitude: precision beyond 2^53 and the limits of int64 are not modelled.

`Run[c]` is `convert.run` of the convert object `c`; its outcome is a value, an error or a panic. Two details of the code
are kept because the outcome depends on them: `convertSlice` has one convert object for all elements, which `run` changes
once a pointer is wanted (`turned`); and `convertStruct` leaves a pointer field alone if what it got is no pointer and
has no address (`Stored`). The recursion of `run` over a value is a recursive function, not an operator, so that it can
be proved about. Its domain needs a set of all values: `Values` are the trees of at most `Depth` levels with these
`Atoms` and `Keys`, where both are any sets, and `Depth` any number that the structs of the IDL fit into
(`GoValuesAssumption`). TLC never enumerates `Values`, only tests membership.

`TypedCall` takes a method with one parameter and a result of the same IDL type. `AddHandler` is `validate`, `Invoke` the
conversion in `Call` together with what `fn.Call` panics on, `HandlerReturns` any handler that returns its argument or a
zero value, `ProxyReturns` the method body idl2go prints. `Admits` (what the IDL allows) and `Means` (when a Go value
stands for a JSON value) are written without looking at types and conversions, as the reference to compare with. `Means`
tells an empty array, which arrives as an empty slice, from null, which arrives as a nil one.

`Sound` names the methods that the properties promise something about: the handler declares the generated types or
`[]*T` for `[]T`, and under `-n` there is no optional array in the field or below it, whose conversion is broken (section
3). Handlers with types of their own are beyond it; `convert_values` and the theorems are about sound methods,
`optional_null` shows what happens with others.

### Client

One goroutine per caller; `pc` is its place in `Call`/`CallBatch` and `Send`.

| action | code |
|---|---|
| `Begin`, `BadUrl` | marshal (or -32600), `http.NewRequest` |
| `Before`, `SetJar`, `Do` | hook, `client.Jar = t.Jar` on an http.Client that may be shared, with a jar that may change from call to call, `client.Do` |
| `Receive`, `Fail`, `TimesOut` | a 2xx response; any failure of the exchange; `http.Client.Timeout`, over the body too |
| `ReadBody`, `After`, `Decode` | the body, the hook, unmarshalling; ids are not compared |
| `Arrive`, `ServerRuns`, `Serve` | steps of `RpcService` for an exchange, also after its caller gave up |

The server is not modelled again: `Client` uses the steps of `RpcService`, and `Refinement` (below) says that the
dispatcher takes no others. `overtaken` is history that no guard reads: whose jar was replaced by another transport's
between `SetJar` and `Do`. `OwnJar` is stated with it, for any jars. An exchange is one HTTP request and response: net/http pairs them and does not repeat a POST
of which a byte was written.

Bytes are those of `Serializer`: the bracket a document opens with and the runes of its text, each plain or escaped.
`EncodeASCII` writes `\u` and four digits for runes of two bytes, and `\U` and eight for longer ones, which JSON does not
know: `ReadableJson` is FALSE for those. The server reads what `Marshal` of the client wrote (`Decodable`), finds out by
`IsBatch` whether it is a batch, and echoes its text through its own serializer; a body it cannot read gets one parse
error, alone or in a list of one, whatever the length of the batch. What the client gets may also be the page of a proxy,
which is only "unreadable" here.

### Idl

One goroutine; each recursive function of the code has its call stack in `stack`, so that a recursion without end is a
stack that meets `StackLimit`, after which Go ends the program.

| action | code |
|---|---|
| `ReadElem`, `Parsed` | the loop of `NewIdl` |
| `NextStruct` | `computeAllStructFields`, which visits a map in any order |
| `ToParent`, `Topmost`, `AppendFields`, `FieldsDone` | `computeStructFields`: up the extends chain, appending on the way back |
| `Validate` | `validate` picks a parameter or result of an interface |
| `MakeMember`, `NoTestValue` | `testValRecur`, field by field, with `seenTypes`; a type without a test value |
| `ConvertMember`, `StructEnds` | `convertStruct` and `convertSlice` on that value, as far as they recur |

`value` has what the map of each struct refers to, not a copy of it: `testValRecur` hands out a map it has not filled yet,
which is how a value comes to contain itself; it says which structs a member refers to, as that is what a recursion follows.
`IdlAssumption` is about documents: sequences of elements, whose names are not `Root`; and Go's stack has room for a
recursion through every struct once, so that an overflow is a circle and not a long document. `Packages`, `Elements` and `FindAllImports` are
`partitionIdlByNamespace` and `findAllImports`; the `NewIdl` that the former calls for the elements of each package is not
modelled a second time.

### Hosts

| action | code |
|---|---|
| `GoWorker`, `Add`, `Interrupt`, `Stop`, `Exit` | `main` of iris-calc-server: `go runWorker`, `wg.Add(1)`, the signal, a stop per worker, `wg.Wait` |
| `Register`, `RegisterFails`, `Done`, `Unregister` | `runWorker`; `wg.Done` runs before the deferred `Unregister` |
| `ServeHTTP`, `RunHandler`, `NoServer`, `HandleRequest` | the ways in, with the `Headers` each makes; Iris makes none, and its map is nil |
| `SetHeader`, `SetHeaderNil`, `ReplaceMap`, `NextCall` | what a handler does with its copy of `Headers`: all copies share one map until it is replaced |
| `Respond` | the transport sends what is in the map it made |

A map is a reference: `response[r]` names the map, `maps` has its content. `ReadCookies` and `GetCookie` work on pairs of
a name and a value; how a header line is split into pairs is left out. `ReadCookies` "is taken from the net/http cookie.go
standard library" (`barrister.go:866`), and `ServeHTTP` uses net/http's own `Request.Cookies`: the definition stands for
both, so that over HTTP `CookiesSeen` is a statement on that library. In the TLC instance only retinaws has cookies.

## 3. Runs

| run | question | bounds |
|---|---|---|
| `server_batch` | types, replies, filter order, abstract service, termination | 1 goroutine; batches of 0 to 3 calls: good, unknown method, wrong count, params no array, barrister-idl, a repeated id, unparsable; up to 2 filters of 2 kinds registered at any time; all results and errors |
| `server_concurrent` | cloned handler objects | 2 goroutines, 1 filter, a single call on a shared handler and a batch of two on a cloned one |
| `server_copies` | filters across copies | 2 copies, 2 filter kinds, up to 5 filters each: arrays of 1, 2, 4 and 8 |
| `convert_values` | conversion against the reference, registration, proxies | 24 fields (6 types, optional or not, array or not) and a struct with optional enum, array and struct members; both generator flags; 194 JSON values: scalars, objects with right, wrong, null, missing and unknown members, arrays of up to two |
| `client_calls` | whose answer and which text, how often run, hooks, cookies, timeouts | 2 callers on one http.Client (one with hook, timeout and ForceASCII, one without), 2 and 1 calls; the jars of the three exchanges are one, none and another; batches of 0 and 2, a request that does not marshal, texts with brackets and with runes of 2, 3 and 4 bytes |
| `idl_documents` | inherited fields, recursions, imports | every way for 3 structs to extend and contain each other, plain or in a list, two of them in namespaces, with an enum that has values or none; stack of 5 |
| `host_programs` | response headers, cookies, start and stop of workers | 4 requests: HTTP with 2 calls, a queue with a Server and one without, Iris; 2 workers; 3 Cookie headers |
| `call_batch_order` | violated: see findings | CallBatch with 1 and 2 calls |
| `filter_aliasing` | violated | as `server_copies` |
| `optional_null` | violated | as `convert_values`, and a struct generated under `-n` |
| `iris_headers` | violated | as `host_programs` |
| `recursive_structs` | violated | the documents of `idl_documents` in which no struct extends another or contains one but in a list |

Why the bounds are enough. Two filters are the fewest whose order shows and between which a third may be registered
in mid call, so the list is longer than `flen`. The index of a batch matters at its first, inner and last element:
three calls. Goroutines meet only in handler objects and the registry, and each handler object is written by one
call at a time: two goroutines show every pair. Five filters fill an array of four and move to the next, the first
place at which two copies still share one. The proofs do without these bounds. Conversion recurs on the type, and its
decisions look at one level of type and value at a time: each kind occurs at the top, in an array and in a struct in a
struct. Arrays of two show what the first element leaves behind for the second. `convert_values` leaves out optional
arrays as pointers, whose conversion is broken (below). Two calls of one caller are needed for a late answer
to the first to meet the second; a second caller for the shared http.Client, whose jar is then set by transports with one
jar, with another and with none. Texts act rune by rune, and one bracket in a
text is what could mislead `IsBatch`. Three structs make every circle that is not a pair, with a way into it from
outside; a stack of five is deeper than any recursion over three structs (and the field under trial) that ends, so that
to meet the limit is to go in a circle. Two workers are the fewest of which one can be done while another is not yet
added. One request of each transport is enough for the maps: a write goes to one map, and three transports make them in
three ways.

Fairness. `Server!FairSpec` assumes weak fairness of `Step(r)`, the steps of a goroutine with a request: the Go scheduler runs
every runnable goroutine, and a callback is taken to return (or panic). Arrival of requests, registration and the end
of the connection are not fair. Panic is among the fair steps, and TLC must still find that each of the others leads
on, since any of them may be taken. `Client!FairSpec` assumes that a caller which can go on does, that hooks return and
that timers fire; it asks nothing of network or server, so that only callers with a timeout are promised an end.
`Idl!FairSpec` is one goroutine that keeps running. `Hosts!FairSpec` assumes that the scheduler runs main and the
workers, and that `Register` returns, with a connection or an error; no interrupt and no request need come.

### What the violated runs show

- **CallBatch** (`call_batch_order`): `make([]JsonRpcResponse, len(batch))` followed by `append` returns N empty
  responses and then the N real ones. "Elements in the returned batch will match the order of the requests"
  (`barrister.go:1102`) does not hold for any non-empty batch.
- **Copies** (`filter_aliasing`): three filters leave room for one in an array of four; copy the Server, register one
  filter with each, and both run the last one.
- **Null** (`optional_null`): an optional struct is a pointer in generated code, an optional array a slice; null for
  either converts to the invalid `reflect.Value`, and `Call` panics in `fn.Call`. So does null in a slice field.
- **Headers over Iris** (`iris_headers`): `HandleRequest` passes `barrister.Headers{}`, whose `Response` is a nil map, and a
  handler that writes to it panics. "Handler may mutate Response to send headers back to the caller" (`barrister.go:837`),
  a "Writeable map of headers to return on the response" (847), holds over HTTP and retinaws only.
- **Recursive structs** (`recursive_structs`): `struct Node { children []Node }` and a parameter of type Node. The test
  value is a map that contains itself, and its conversion in `AddHandler` ends with the stack. The comment at
  `barrister.go:230-231` says that cycles are avoided; they are when the parameter is a list of Node, and only then.

### What else the models say of the code

These are facts of the models that no violated run is about.

- `barrister-idl` is answered without filters (`ServeIdl`); README.md:212-214 says that filters run on all requests.
- A method declared to return `*JsonRpcError` passes registration; its nil is an error that is not nil to `Call`, so that
  the result is left out (`InvokeHandler` with a typed nil). `RpcService` allows it: it promises answers, not results.
- Optional arrays under `idl2go -n` are `*[]T`; `convertSlice` makes no pointer. A struct field stays nil without an
  error, a parameter makes `fn.Call` panic (`Stored`, `Invoke`). The methods of `optional_null` include them; TLC
  stops at null first.
- A batch that cannot be parsed gets one response, so that responses and requests cannot be paired by position
  (`OwnAnswer` says when).
- Structs that extend each other in a circle end `NewIdl` with the stack (`RecursionFound`).
- A proxy converts a result to `reflect.TypeOf` of its zero expression (`ZeroValType`, `Cast`). An enum's is `""`, so that
  every enum result ends in "returned invalid type"; an optional struct's (and under `-n` every optional result's) is
  `nil`, on whose type `Convert` panics. `PlainResultsDelivered` is about the other results.
- A handler that declares an enum parameter as `string` passes `AddHandler` and gets any string: a value of the desired type
  is not looked at (`Run`, `convert.go:50`). `OnlyAdmitted` is about handlers with the generated types.
- Two transports with different jars on one http.Client overwrite each other's: a request that is overtaken between
  `client.Jar = t.Jar` and `client.Do` carries the cookies of the other (`OwnJar` says when, and that it never has none).
- `wg.Done` comes before the deferred `Unregister`: main may exit with connections still registered. `WaitsForWorkers`
  promises no more than the stop.

## 4. Proofs

From `ServerAssumption` alone (the types of the constants; names that must differ do), for any number of goroutines,
filters, implementations, calls and registrations:

- `TypeSafe`, by `TypeInv` = `TypeOK` and `ControlInv`: a goroutine in flight has a decoded request and an index into
  it; the loop variable is within the filter list in both loops. `TypeOK` alone is not inductive: `filters[call[r].i]`
  has no type unless the index is known to be in range.
- `HandlerBehindFiltersCorrect`, `FiltersNestCorrect`, by `FilterInv` = `ChainInv` (the filters counted at Resolve are a
  prefix of the list, because registration only appends), `LoopInv` (PreInvoke has passed exactly the filters below
  `i`) and `UnwindInv` (PostInvoke has undone exactly those above `i`).
- `CloneIsolationCorrect`, by `CloneInv`: a call on a cloneable implementation uses the object its own goroutine made,
  and a callback writes only to the object of its call. The property alone is not inductive, as it does not say whose
  object that is.
- `RepliesMatchCallsCorrect`, by `ReplyInv`: after k - 1 calls there are k - 1 responses with their ids.
- `Refinement`: if all requests enter through `InvokeBytes` (`OnlyInvokeBytes`), `Spec => ImplementsService`. The
  mapping: `done` is `k - 1`, `runs` is `trace.runs`, the answer is the ids of `out`. Each action is shown to be one step
  of the service or a stutter, from the invariants above and `RestInv` (no history between calls).

From `CopiesAssumption`, for any number of copies and filters:

- `EarlyFiltersKeptCorrect` and `NoHolesCorrect`, by `CopiesInv`: the arrays of all live values start with the filters
  registered before the first copy, and every slice covers written elements only. An append of one copy writes at its
  own length, which is at or beyond the common prefix of all.

- `CopiesTypeSafe`: a slice is never longer than its array.

From `ClientAssumption` and `SerializerAssumption`, for any number of callers, calls, http.Clients, jars and texts,
`ClientProofs` has `TypeSafe`, `OwnAnswerCorrect`, `TextIntactCorrect`, `AtMostOnceCorrect`, `HooksPairCorrect` and
`OwnJarCorrect`, all from one invariant `IInv`:

- `CallerInv` ties a caller's `pc` to its last exchange, the only one it works on: until Do nothing of it has left, from
  the body on `from` is that exchange and it is answered. None of the properties is inductive without it.
- `DeliveryInv`: an exchange that left has a body that marshals, and ran its Before hook; one that has not begun has no
  trace anywhere.
- `ServerInv`: while the service works, implementations have run at most `done + runs` times, which is at most the
  length of the batch; an answer is the one expected for what was sent.
- `OutcomeInv`: what a caller returned.
- `JarInv`: between SetJar and Do an http.Client has the jar of the exchange, or one that `overtaken` records for it. There is
  no assumption on who shares an http.Client with whom. `OwnJar` is not inductive without it, as it says nothing of an
  exchange before it is sent.

They rest on `MarshalMeans`, a lemma on every text: `Unmarshal` of `Marshal` is the text, `IsBatch` and the decoder find
the bracket whatever brackets the text has, and the bytes are unreadable only for a wide rune under ForceASCII. The
steps of callers are related to the rest by `CallerFrame`, those of network and server by `ServerFrame`.

From `HostsAssumption`, for any number of requests, calls and workers, `HostsProofs` has:

- `WaitsForWorkersCorrect`, by `WaitInv`: `wg.Add` follows `go`, and the counter would fall below zero if a worker could
  be done before it is added. None can, because none is stopped before the interrupt, and main adds all before it listens
  for one: until then the counter is the loop's index, afterwards it is the number of workers that are not done.
- `HeadersReturnedCorrect`, by `MapInv`: a request's copies of `Headers` refer to its own map or to none, and there is none
  over Iris, where nothing is written and nothing returned.
- `TypeSafe`, with 0 <= `wg` <= N.
- `CookiesSeenCorrect`, by `CookieInv`: `CookiesRead` says what the loop of `ReadCookies` leaves behind for a line of any
  length, in what order and from where; `FirstCookie` and `CookieFound` what `GetCookie` finds in it.

From `IdlAssumption`, for documents of any size and any stack that holds all their structs, `IdlProofs` has:

- `FieldsInherited`, by `ParseInv` (the maps hold what the document says), `ParentsInv` (the stack of `computeStructFields`
  is a line of parents, `acc` is empty but on the way down, every struct is computed, to be visited or being visited) and
  `InheritInv`. The property relates a struct to its parent, and the parent may be visited later or never on its own: what
  carries the induction is a set of structs whose recursion has come back, with a rank that falls from struct to parent
  and the fields each of them inherits (`Grounded`). `acc` is always what the parent on the stack inherits.
- `RecursionsDecided`, by `TrialInv`. The first two parts follow from the stack and the rank: a stack at its limit is a
  line of more parents than there are structs, so one comes twice (`ExtendsOverflow`), and a rank that falls leaves no room
  for a circle (`NoExtendsCircle`). For the trial: `TestInv` (testVal has no struct on its stack twice, and has remembered
  every list it went through), `OrderInv` (each struct's map refers to later structs, or to one some field contains
  without a list), `ConvertInv` (the conversion follows the members of the value; structs that came back have a rank). A
  conversion at the limit has a struct twice on its stack, hence a circle in the value, and by `OrderInv` some struct of
  it was entered without a list (`TrialOverflow`). A trial that is accepted leaves a rank for all structs it reached,
  hence no circle of plain members (`NoPlainCircle`). The last part is stated for structs whose fields have names of their
  own: if a struct hides an inherited field behind one of the same name, its map holds one of the two only, and the
  circle through the other is never followed.
- `PackagesImported`: `ElementsPartition`, `FlattenSeqElements` and `ImportsNamed` say what the three loops compute, for
  lists of any length.
- `TypeCorrect`, from the same invariants.

From `GoValuesAssumption` and `TypedCallAssumption`, for any IDL without recursive structs, any methods and any JSON of any
depth, `TypedCallProofs` has one theorem for each invariant of `convert_values`: `TypeCorrect`, `OnlyAdmittedCorrect`,
`AdmittedNotRefusedCorrect`, `FaithfulCorrect`, `OnlyNullPanicsCorrect`, `ProxyFaithfulCorrect` and
`PlainResultsDeliveredCorrect` under the hypothesis that all methods are sound (`AllSound`), and
`GeneratedAcceptedCorrect` without it. The hypothesis is what makes them true, and every method of `convert_values`
satisfies it: an optional array under `-n` arrives as nil or panics, although it was admitted and had no null.

- `IInv` = `TrialInv`, `ArgumentInv` and `ResultInv` says what the variables are: what AddHandler's trial, the conversion
  of the last argument and the cast made. The properties follow from it by what these functions compute, and that is
  where the work is.
- `ConversionGood`, by induction on the height of the value: `Run` with a type that fits the field (`Fits`: the
  generated type, or a pointer to it) ends in a typed value that stands for the JSON, and the JSON is admitted; or in an
  error, and it is not; or in a panic, or a value that cannot be assigned, and there is a null in it. One lemma for each
  way of `run`: `ScalarGood`, `SliceGood` with `ElementGood` (both states of the convert object that elements share),
  `StructGood` with `FieldGood` (all that `Stored` may do).
- `AllTaken`: the test value of a field is converted to its generated type without an error, by induction on how deep the
  structs of the IDL contain each other.
- `CarriedBack`: a value that stands for the JSON of another marshals to that JSON. Neither direction is obvious:
  `omitempty` leaves out what is zero, `Means` fills in what is absent, and the two must agree at every level.
- `FullHeld`: the JSON of a value whose result the IDL admits has no null in it. With `OnlyNullPanics`, this is why a
  proxy returns all results that are neither optional nor an enum.

Induction over data. The library's induction theorems cannot be instantiated, but a set can take the place of the
predicate: `Loops` proves induction for sets of numbers from the least number of a set, and with it that a loop written as
a recursive function exists and satisfies its equation (`LoopExists`), and what a loop that filters a sequence leaves
(`FilterLoop`). The other modules use it for the loops of `Idl` and `Hosts`. For functions over trees there are
`RecursionExists` (a function each of whose values depends on lower arguments only exists and satisfies its equation) and
`HeightInduction`; `TypedCallProofs` uses them with the height of a value, of a struct, or of both together, for the
nine recursive functions over trees of `GoValues`, `Convert` and `TypedCall`. The inductive invariants of `IdlProofs` and
`TypedCallProofs` held in all states TLC finds for `idl_documents` and `convert_values`, with natural numbers bounded,
before they were proved.

Only model-checked: `EveryRequestEnds`, `TimeoutsReturn`, `Ends` and `Stops` (liveness and ENABLED are beyond the prover),
and that the violated properties are violated. Every safety property of a passing run is a theorem.

## 5. Not modelled

- The text the generator prints, idl2go's flags and files (pure output). What generated code is and does is modelled:
  types, zero expressions, proxies, packages and imports.
- The conformance programs and the examples other than the workers of iris-calc-server: they only call the library.
- net/http, encoding/json, Iris and retinaws beyond what this code uses of them. `iris.go`'s `Send` is a single call of
  its library, and its callbacks for other events panic unconditionally; whether Iris recovers a panic of a handler is
  unknown, and `SetHeaderNil` has both outcomes.
- The characters of a cookie line and how it is split at semicolons; which ASCII characters are tokens.
- In `Convert`: the `seenTypes` of `testVal`, by which a second list of the same type in a test value is empty (`TestVal` fills
  it, so that AddHandler tries more than in the code; `Idl` has `seenTypes`); the magnitude of numbers (precision beyond 2^53, the limits of int64), values of the kinds int, float32
  and int32, which JSON does not produce, struct types that are not generated from the IDL struct they stand for, and
  recursive structs (in `Idl`, without their values).
- A response that is JSON and has status 200 but does not come from this library: any object is a success to `Call`.
- Registration while other goroutines serve requests, a Go data race, is excluded by the guards of `AddFilter` and
  `AddHandler`. `Send` writes `client.Jar` without a lock too: in the model one write or the other is there when `Do` reads it.

The hazards in PROJECT.json without a property are of these kinds; each has the reason in its note.
