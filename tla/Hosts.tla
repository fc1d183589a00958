------------------------------- MODULE Hosts -------------------------------
(***************************************************************************)
(* The programs a Server runs in.  A request comes over HTTP, from a       *)
(* retinaws queue, or over Iris to one of the workers that the main        *)
(* function of iris-calc-server starts and stops.  Each way in gives       *)
(* InvokeBytes its Headers; the calls of the request get copies of the     *)
(* struct, which have one Response map.                                    *)
(***************************************************************************)
EXTENDS Integers, Sequences, SequencesExt

CONSTANTS
  Request,
  Via,         \* "http", "retinaws" or "iris", for each
  Bound,       \* requests with an X-Hub-Queue header that a Server is bound to
  CallsOf,     \* how many calls a request has
  Header,      \* header names
  CookiesOf,   \* what the Cookie header of a request may be: pairs [name, value]
  Token,       \* cookie names without illegal characters
  CookieByte,  \* what a cookie value may consist of, besides Quote around it
  Quote,
  N,           \* workers: GOMAXPROCS
  NoMap

Worker == 1..N

ASSUME HostsAssumption ==
  /\ Via \in [Request -> {"http", "retinaws", "iris"}]
  /\ CallsOf \in [Request -> Nat]
  /\ Quote \notin CookieByte
  /\ \A r \in Request : \A pairs \in CookiesOf[r] :
       /\ pairs \in Seq(ToSet(pairs))
       /\ \A p \in ToSet(pairs) : p.value \in Seq(ToSet(p.value))
  /\ N \in Nat \ {0}
  /\ NoMap \notin Request

VARIABLES
  main, i, wg, worker,  \* the main function, its loop variable, the WaitGroup; each
                        \* worker goroutine
  req, call,            \* the state of a request, and which of its calls runs
  response,             \* which map Headers.Response of a request is
  maps,                 \* what is in each map: <<request, call, header>> for each write
  copied,               \* requests whose running call has put a map of its own into its
                        \* copy of the Headers
  cookies,              \* Headers.Cookies
  sent,                 \* the headers of the response
  line, wrote           \* history: the Cookie header, and what handlers wrote to the map
                        \* they were given

process == <<main, i, wg, worker>>
headers == <<response, maps, copied, cookies, line, wrote>>
vars == <<process, req, call, headers, sent>>

Running == main \notin {"exited", "crashed"}

Init ==
  /\ main = "go" /\ i = 0 /\ wg = 0
  /\ worker = [w \in Worker |-> "none"]
  /\ req = [r \in Request |-> "idle"]
  /\ call = [r \in Request |-> 0]
  /\ response = [r \in Request |-> NoMap]
  /\ maps = [r \in Request |-> {}]
  /\ copied = {}
  /\ cookies = [r \in Request |-> <<>>]
  /\ sent = [r \in Request |-> {}]
  /\ line = [r \in Request |-> <<>>]
  /\ wrote = [r \in Request |-> {}]

-----------------------------------------------------------------------------
(* The main function of the iris example, and its workers.  The stop       *)
(* channel has no buffer: to send is to be received.                       *)
Ends(how) ==
  /\ main' = how
  /\ req' = [r \in Request |-> IF Via[r] = "iris" /\ req[r] = "serving" THEN "lost" ELSE req[r]]

GoWorker ==
  /\ main = "go"
  /\ worker' = [worker EXCEPT ![i + 1] = "registering"]
  /\ main' = "add"
  /\ UNCHANGED <<i, wg, req, call, headers, sent>>

Add ==
  /\ main = "add"
  /\ wg' = wg + 1
  /\ i' = IF i + 1 = N THEN 0 ELSE i + 1
  /\ main' = IF i + 1 = N THEN "running" ELSE "go"
  /\ UNCHANGED <<worker, req, call, headers, sent>>

Interrupt ==
  /\ main = "running"
  /\ main' = "stopping"
  /\ UNCHANGED <<i, wg, worker, req, call, headers, sent>>

\* Slip: one stop too few.
StopShort(w) ==
  /\ main = "stopping" /\ worker[w] = "serving"
  /\ worker' = [worker EXCEPT ![w] = "stopped"]
  /\ i' = i + 1
  /\ main' = IF i + 1 >= N - 1 THEN "waiting" ELSE "stopping"
  /\ UNCHANGED <<wg, req, call, headers, sent>>

Stop(w) ==
  /\ main = "stopping" /\ worker[w] = "serving"
  /\ worker' = [worker EXCEPT ![w] = "stopped"]
  /\ i' = i + 1
  /\ main' = IF i + 1 = N THEN "waiting" ELSE "stopping"
  /\ UNCHANGED <<wg, req, call, headers, sent>>

\* Slip: no wait.
ExitAtOnce ==
  /\ main = "waiting"
  /\ Ends("exited")
  /\ UNCHANGED <<i, wg, worker, call, headers, sent>>

Exit ==
  /\ main = "waiting" /\ wg = 0
  /\ Ends("exited")
  /\ UNCHANGED <<i, wg, worker, call, headers, sent>>

Register(w) ==
  /\ Running /\ worker[w] = "registering"
  /\ worker' = [worker EXCEPT ![w] = "serving"]
  /\ UNCHANGED <<main, i, wg, req, call, headers, sent>>

(* log.Fatalf.                                                             *)
RegisterFails(w) ==
  /\ Running /\ worker[w] = "registering"
  /\ Ends("crashed")
  /\ UNCHANGED <<i, wg, worker, call, headers, sent>>

\* Slip: a worker is done as soon as it is registered.
DoneEarly(w) ==
  /\ Running /\ worker[w] \in {"serving", "stopped"}
  /\ wg' = wg - 1
  /\ worker' = [worker EXCEPT ![w] = "done"]
  /\ UNCHANGED <<main, i, req, call, headers, sent>>

Done(w) ==
  /\ Running /\ worker[w] = "stopped"
  /\ wg' = wg - 1
  /\ worker' = [worker EXCEPT ![w] = "done"]
  /\ UNCHANGED <<main, i, req, call, headers, sent>>

Unregister(w) ==
  /\ Running /\ worker[w] = "done"
  /\ worker' = [worker EXCEPT ![w] = "unregistered"]
  /\ UNCHANGED <<main, i, wg, req, call, headers, sent>>

-----------------------------------------------------------------------------
(* Cookies, as Headers.ReadCookies has them.  It was taken from net/http   *)
(* (barrister.go:866), whose Request.Cookies ServeHTTP calls: one          *)
(* definition stands for both.                                             *)
\* Slip: the length is not looked at.
UnquotedAny(v) == IF v # <<>> /\ v[1] = Quote /\ v[Len(v)] = Quote THEN SubSeq(v, 2, Len(v) - 1) ELSE v

Unquoted(v) ==
  IF Len(v) > 1 /\ v[1] = Quote /\ v[Len(v)] = Quote THEN SubSeq(v, 2, Len(v) - 1) ELSE v

ValidValue(v) == \A x \in DOMAIN v : v[x] \in CookieByte

ValidName(name) == name \in Token

Readable(p) == ValidName(p.name) /\ ValidValue(Unquoted(p.value))
Cookie(p) == [name |-> p.name, value |-> Unquoted(p.value)]
ReadCookies(pairs) ==
  LET read[x \in 0..Len(pairs)] ==
        IF x = 0 THEN <<>>
        ELSE IF Readable(pairs[x]) THEN Append(read[x - 1], Cookie(pairs[x])) ELSE read[x - 1]
  IN read[Len(pairs)]

GetCookie(list, name) ==
  LET x == SelectInSeq(list, LAMBDA c : c.name = name)
  IN IF x = 0 THEN <<>> ELSE <<list[x].value>>

-----------------------------------------------------------------------------
(* The ways in.                                                            *)
\* Slip: one map for all requests.
InvokeBytesShared(r, map, c) ==
  /\ req[r] = "idle"
  /\ req' = [req EXCEPT ![r] = "serving"]
  /\ call' = [call EXCEPT ![r] = 1]
  /\ response' = [response EXCEPT ![r] =
                    IF map = NoMap THEN NoMap ELSE CHOOSE q \in Request : TRUE]
  /\ cookies' = [cookies EXCEPT ![r] = c]
  /\ UNCHANGED <<process, maps, copied, wrote, sent>>

InvokeBytes(r, map, c) ==
  /\ req[r] = "idle"
  /\ req' = [req EXCEPT ![r] = "serving"]
  /\ call' = [call EXCEPT ![r] = 1]
  /\ response' = [response EXCEPT ![r] = map]
  /\ cookies' = [cookies EXCEPT ![r] = c]
  /\ UNCHANGED <<process, maps, copied, wrote, sent>>

ServeHTTP(r) ==
  /\ Via[r] = "http"
  /\ \E pairs \in CookiesOf[r] :
       line' = [line EXCEPT ![r] = pairs] /\ InvokeBytes(r, r, ReadCookies(pairs))

RunHandler(r) ==
  /\ Via[r] = "retinaws" /\ r \in Bound
  /\ \E pairs \in CookiesOf[r] :
       line' = [line EXCEPT ![r] = pairs] /\ InvokeBytes(r, r, ReadCookies(pairs))

(* Status 500: no queue, or no Server for it.                              *)
NoServer(r) ==
  /\ Via[r] = "retinaws" /\ r \notin Bound /\ req[r] = "idle"
  /\ req' = [req EXCEPT ![r] = "refused"]
  /\ UNCHANGED <<process, call, headers, sent>>

(* A worker's connection is there from Register to Unregister.             *)
HandleRequest(r, w) ==
  /\ Via[r] = "iris" /\ Running /\ worker[w] \in {"serving", "stopped", "done"}
  /\ InvokeBytes(r, NoMap, <<>>)
  /\ UNCHANGED line

-----------------------------------------------------------------------------
(* What handlers and filters do with their copy of the Headers.            *)
Handling(r) == req[r] = "serving" /\ call[r] <= CallsOf[r]

SetHeader(r, h) ==
  LET write == <<r, call[r], h>>
  IN /\ Handling(r) /\ r \notin copied /\ response[r] # NoMap
     /\ maps' = [maps EXCEPT ![response[r]] = @ \cup {write}]
     /\ wrote' = [wrote EXCEPT ![r] = @ \cup {write}]
     /\ UNCHANGED <<process, req, call, response, copied, cookies, line, sent>>

(* A write to a nil map panics, and the program ends unless the library    *)
(* that called HandleRequest recovers.                                     *)
SetHeaderNil(r) ==
  /\ Handling(r) /\ r \notin copied /\ response[r] = NoMap
  /\ \/ req' = [req EXCEPT ![r] = "panicked"] /\ UNCHANGED main
     \/ Ends("crashed")
  /\ UNCHANGED <<i, wg, worker, call, headers, sent>>

ReplaceMap(r) ==
  /\ Handling(r)
  /\ copied' = copied \cup {r}
  /\ UNCHANGED <<process, req, call, response, maps, cookies, line, wrote, sent>>

NextCall(r) ==
  /\ Handling(r)
  /\ call' = [call EXCEPT ![r] = @ + 1]
  /\ copied' = copied \ {r}
  /\ UNCHANGED <<process, req, response, maps, cookies, line, wrote, sent>>

(* The transport sends the body, with what is in its own map.              *)
Respond(r) ==
  /\ req[r] = "serving" /\ call[r] > CallsOf[r]
  /\ req' = [req EXCEPT ![r] = "answered"]
  /\ sent' = [sent EXCEPT ![r] = IF response[r] = NoMap THEN {} ELSE maps[response[r]]]
  /\ UNCHANGED <<process, call, headers>>

-----------------------------------------------------------------------------
Main == GoWorker \/ Add \/ Exit \/ \E w \in Worker : Stop(w)
RunWorker(w) == Register(w) \/ RegisterFails(w) \/ Done(w)

Next ==
  \/ Main \/ Interrupt
  \/ \E w \in Worker : RunWorker(w) \/ Unregister(w)
  \/ \E r \in Request :
       \/ ServeHTTP(r) \/ RunHandler(r) \/ NoServer(r)
       \/ \E w \in Worker : HandleRequest(r, w)
       \/ \E h \in Header : SetHeader(r, h)
       \/ SetHeaderNil(r) \/ ReplaceMap(r) \/ NextCall(r) \/ Respond(r)

Spec == Init /\ [][Next]_vars

(* Fairness: the scheduler runs main and the workers, and Register returns *)
(* with a connection or an error.                                          *)
FairSpec == Spec /\ WF_vars(Main) /\ \A w \in Worker : WF_vars(RunWorker(w))

-----------------------------------------------------------------------------
Write == Request \X Nat \X Header

TypeOK ==
  /\ main \in {"go", "add", "running", "stopping", "waiting", "exited", "crashed"}
  /\ i \in 0..N /\ wg \in 0..N
  /\ worker \in [Worker -> {"none", "registering", "serving", "stopped", "done", "unregistered"}]
  /\ req \in [Request -> {"idle", "serving", "answered", "refused", "panicked", "lost"}]
  /\ call \in [Request -> Nat]
  /\ response \in [Request -> Request \cup {NoMap}]
  /\ maps \in [Request -> SUBSET Write] /\ wrote \in [Request -> SUBSET Write]
  /\ copied \subseteq Request
  /\ sent \in [Request -> SUBSET Write]

(* HeadersReturned: the headers of a response are those that the calls of  *)
(* its request, all of them, wrote to the map they were given: none of     *)
(* another request, none that a call put into a map of its own, and none   *)
(* of a request without a response.                                        *)
HeadersReturned ==
  \A r \in Request :
    /\ sent[r] = IF req[r] = "answered" THEN wrote[r] ELSE {}
    /\ \A x \in wrote[r] : x[1] = r /\ x[2] \in 1..CallsOf[r]

(* HeadersWriteable (barrister.go:837, 847-849): "Handler may mutate       *)
(* Response to send headers back to the caller", a "Writeable map of       *)
(* headers to return on the response", whichever transport the request     *)
(* came over: a handler that does so does not panic.  Over Iris it does,   *)
(* as HandleRequest makes a Headers without a map.                         *)
HeadersWriteable == \A r \in Request : req[r] # "panicked"

(* CookiesSeen: the value a handler finds for a name is the first one in   *)
(* the Cookie header that is well-formed, with or without quotes, whatever *)
(* stands next to it.                                                      *)
WellFormed(p, v) ==
  /\ p.name \in Token /\ v \in Seq(CookieByte)
  /\ p.value = v \/ p.value = <<Quote>> \o v \o <<Quote>>
CookiesSeen ==
  \A r \in Request : \A n \in Token :
    LET found == GetCookie(cookies[r], n)
        values(p) == {v \in {p.value, SubSeq(p.value, 2, Len(p.value) - 1)} : WellFormed(p, v)}
        good == {y \in DOMAIN line[r] : line[r][y].name = n /\ values(line[r][y]) # {}}
    IN IF good = {} THEN found = <<>>
       ELSE \E y \in good : (\A z \in good : y <= z) /\ found[1] \in values(line[r][y])

(* WaitsForWorkers: the WaitGroup counts the workers that are not done,    *)
(* although each is started before it is added: main neither exits before  *)
(* the last has taken its stop nor lets the counter fall below zero.       *)
WaitsForWorkers ==
  /\ wg >= 0
  /\ main = "exited" => \A w \in Worker : worker[w] \in {"done", "unregistered"}

(* Stops: after an interrupt the program ends.                             *)
Stops == main = "stopping" ~> ~Running
=============================================================================
