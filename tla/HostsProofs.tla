---------------------------- MODULE HostsProofs ----------------------------
(***************************************************************************)
(* Safety of the hosts, for any number of requests, calls and workers.     *)
(***************************************************************************)
EXTENDS Hosts, Loops, FiniteSetTheorems, TLAPS

\* The workers the WaitGroup has still to hear of.
Undone == {w \in Worker : worker[w] \notin {"done", "unregistered"}}
Fresh == \A w \in Worker : worker[w] \in {"none", "registering", "serving"}

\* Until the interrupt no worker can have been stopped, so that the WaitGroup counts
\* the loop of main; from then on it counts Undone.
WaitInv ==
  /\ main \in {"go", "add"} => i \in 0..(N - 1) /\ wg = i /\ Fresh
  /\ main = "running" => i = 0 /\ wg = N /\ Fresh
  /\ main = "stopping" => i \in 0..(N - 1)
  /\ main \in {"stopping", "waiting"} => wg = Cardinality(Undone)
  /\ main = "exited" => Undone = {}

\* A request writes to no map but its own, and that is what it has written.
MapInv(r) ==
  /\ response[r] \in {r, NoMap}
  /\ maps[r] = wrote[r]
  /\ Via[r] = "iris" => wrote[r] = {} /\ response[r] = NoMap
  /\ response[r] = NoMap => wrote[r] = {}
  /\ req[r] = "idle" => wrote[r] = {}
  /\ req[r] = "serving" => call[r] \in Nat \ {0}
  /\ sent[r] = IF req[r] = "answered" THEN wrote[r] ELSE {}
  /\ \A x \in wrote[r] : x[1] = r /\ x[2] \in 1..CallsOf[r]

IInv == TypeOK /\ WaitInv /\ \A r \in Request : MapInv(r)

-----------------------------------------------------------------------------
\* Undone is a finite set of at most N workers.
LEMMA UndoneFinite == IsFiniteSet(Undone) /\ Cardinality(Undone) \in 0..N
<1>1. IsFiniteSet(Worker) /\ Cardinality(Worker) = N
  BY HostsAssumption, FS_Interval DEF Worker
<1>2. IsFiniteSet(Undone) /\ Cardinality(Undone) <= N
  BY <1>1, FS_Subset DEF Undone
<1> QED  BY <1>2, FS_CardinalityType, HostsAssumption

\* Workers that have not been stopped are all undone.
LEMMA FreshUndone == ASSUME Fresh PROVE Cardinality(Undone) = N
<1>1. Undone = 1..N
  BY DEF Fresh, Undone, Worker
<1> QED  BY <1>1, FS_Interval, HostsAssumption

\* The states of the processes and the requests are disturbed by different actions;
\* what the first kind keeps of the second:
LEMMA MapKept ==
  ASSUME IInv, UNCHANGED <<call, headers, sent>>,
         req' \in [Request -> {"idle", "serving", "answered", "refused", "panicked", "lost"}],
         \A r \in Request :
           req'[r] = req[r] \/ (req[r] # "answered" /\ req'[r] \notin {"idle", "serving", "answered"})
  PROVE  \A r \in Request : MapInv(r)'
  BY DEF IInv, MapInv, headers

\* ... and the second kind of the first.
LEMMA WaitKept == ASSUME WaitInv, UNCHANGED process PROVE WaitInv'
  BY DEF WaitInv, process, Fresh, Undone

\* NewServer and the main function begin with no worker and no request.
LEMMA InvInit == Init => IInv
  BY HostsAssumption DEF Init, IInv, TypeOK, WaitInv, MapInv, Fresh, Undone, Worker, Write

-----------------------------------------------------------------------------
(* The processes.                                                          *)
\* Ending the program loses requests over Iris and nothing else.
LEMMA EndsKeeps ==
  ASSUME IInv, NEW how \in {"exited", "crashed"}, Ends(how), UNCHANGED <<i, wg, worker, call, headers, sent>>,
         how = "exited" => Undone = {}
  PROVE  IInv'
<1>1. TypeOK'
  BY DEF IInv, TypeOK, Ends, headers
<1>2. WaitInv'
  BY DEF WaitInv, Ends, Undone
<1>3. \A r \in Request : MapInv(r)'
  BY <1>1, MapKept DEF Ends, IInv, TypeOK
<1> QED  BY <1>1, <1>2, <1>3 DEF IInv

\* main: the wait group is counted up with the workers, and is 0 only when all of
\* them are done.
LEMMA MainKeeps ==
  ASSUME IInv, GoWorker \/ Add \/ Interrupt \/ Exit \/ \E w \in Worker : Stop(w)
  PROVE  IInv'
<1>1. CASE GoWorker
  <2>1. i + 1 \in Worker
    BY <1>1, HostsAssumption DEF GoWorker, IInv, WaitInv, Worker
  <2>2. TypeOK'
    BY <1>1, <2>1 DEF GoWorker, IInv, TypeOK, headers
  <2>3. WaitInv'
    BY <1>1, <2>1 DEF GoWorker, IInv, TypeOK, WaitInv, Fresh
  <2> QED  BY <1>1, <2>2, <2>3, MapKept DEF GoWorker, IInv, TypeOK
<1>2. CASE Add
  <2>1. TypeOK'
    BY <1>2, HostsAssumption DEF Add, IInv, TypeOK, WaitInv, headers
  <2>2. WaitInv'
    BY <1>2, HostsAssumption DEF Add, IInv, TypeOK, WaitInv, Fresh
  <2> QED  BY <1>2, <2>1, <2>2, MapKept DEF Add, IInv, TypeOK
<1>3. CASE Interrupt
  <2>1. TypeOK'
    BY <1>3 DEF Interrupt, IInv, TypeOK, headers
  <2>2. Cardinality(Undone)' = N
    BY <1>3, FreshUndone DEF Interrupt, IInv, WaitInv, Undone
  <2>3. WaitInv'
    BY <1>3, <2>2, HostsAssumption DEF Interrupt, IInv, WaitInv
  <2> QED  BY <1>3, <2>1, <2>3, MapKept DEF Interrupt, IInv, TypeOK
<1>4. CASE Exit
  <2>1. Undone = {}
    BY <1>4, UndoneFinite, FS_EmptySet DEF Exit, IInv, WaitInv
  <2> QED  BY <1>4, <2>1, EndsKeeps DEF Exit
<1>5. ASSUME NEW w \in Worker, Stop(w) PROVE IInv'
  <2>1. TypeOK'
    BY <1>5, HostsAssumption DEF Stop, IInv, TypeOK, WaitInv, headers
  <2>2. Undone' = Undone
    BY <1>5 DEF Stop, IInv, TypeOK, Undone
  <2>3. WaitInv'
    BY <1>5, <2>2, HostsAssumption DEF Stop, IInv, TypeOK, WaitInv
  <2> QED  BY <1>5, <2>1, <2>3, MapKept DEF Stop, IInv, TypeOK
<1> QED  BY <1>1, <1>2, <1>3, <1>4, <1>5

\* A worker: it is subtracted once, after it was stopped.
LEMMA WorkerKeeps ==
  ASSUME IInv, NEW w \in Worker, RunWorker(w) \/ Unregister(w)
  PROVE  IInv'
<1>1. CASE Register(w)
  <2>1. TypeOK'
    BY <1>1 DEF Register, IInv, TypeOK, headers
  <2>2. Undone' = Undone
    BY <1>1 DEF Register, IInv, TypeOK, Undone
  <2>3. WaitInv'
    BY <1>1, <2>2 DEF Register, IInv, TypeOK, WaitInv, Fresh
  <2> QED  BY <1>1, <2>1, <2>3, MapKept DEF Register, IInv, TypeOK
<1>2. CASE RegisterFails(w)
  BY <1>2, EndsKeeps DEF RegisterFails
<1>3. CASE Done(w)
  <2>1. main \in {"stopping", "waiting"} /\ wg = Cardinality(Undone)
    BY <1>3 DEF Done, Running, IInv, TypeOK, WaitInv, Fresh
  <2>2. w \in Undone /\ Undone' = Undone \ {w}
    BY <1>3 DEF Done, IInv, TypeOK, Undone
  <2>3. Cardinality(Undone)' = wg - 1
    BY <2>1, <2>2, UndoneFinite, FS_RemoveElement
  <2>4. wg' \in 0..N /\ wg' = Cardinality(Undone)'
    <3>1. IsFiniteSet(Undone \ {w}) /\ Cardinality(Undone \ {w}) \in Nat
      BY UndoneFinite, FS_RemoveElement, FS_CardinalityType
    <3>2. Cardinality(Undone)' \in Nat
      BY <2>2, <3>1
    <3> QED  BY <1>3, <2>3, <3>2, HostsAssumption DEF Done, IInv, TypeOK
  <2>5. TypeOK'
    BY <1>3, <2>4 DEF Done, IInv, TypeOK, headers
  <2>6. WaitInv'
    BY <1>3, <2>1, <2>4 DEF Done, IInv, WaitInv
  <2> QED  BY <1>3, <2>5, <2>6, MapKept DEF Done, IInv, TypeOK
<1>4. CASE Unregister(w)
  <2>1. TypeOK'
    BY <1>4 DEF Unregister, IInv, TypeOK, headers
  <2>2. Undone' = Undone /\ ~Fresh
    BY <1>4 DEF Unregister, IInv, TypeOK, Undone, Fresh
  <2>3. WaitInv'
    BY <1>4, <2>2 DEF Unregister, IInv, WaitInv
  <2> QED  BY <1>4, <2>1, <2>3, MapKept DEF Unregister, IInv, TypeOK
<1> QED  BY <1>1, <1>2, <1>3, <1>4 DEF RunWorker

-----------------------------------------------------------------------------
(* The requests.                                                           *)
\* A request begins with the map of its own or with none.
LEMMA InvokeKeeps ==
  ASSUME IInv, NEW r \in Request, NEW map \in {r, NoMap}, NEW c, InvokeBytes(r, map, c),
         Via[r] = "iris" => map = NoMap
  PROVE  IInv'
<1>1. TypeOK'
  BY DEF InvokeBytes, IInv, TypeOK, process
<1>2. WaitInv'
  BY WaitKept DEF InvokeBytes, IInv
<1>3. ASSUME NEW q \in Request PROVE MapInv(q)'
  <2>1. CASE q = r
    <3>1. wrote[r] = {}
      BY DEF InvokeBytes, IInv, MapInv
    <3> QED  BY <2>1, <3>1 DEF InvokeBytes, IInv, TypeOK, MapInv
  <2>2. CASE q # r
    BY <2>2 DEF InvokeBytes, IInv, TypeOK, MapInv
  <2> QED  BY <2>1, <2>2
<1> QED  BY <1>1, <1>2, <1>3 DEF IInv

\* What the callbacks of a request write goes to its own map.
LEMMA CallbackKeeps ==
  ASSUME IInv, NEW r \in Request,
         \/ NoServer(r) \/ SetHeaderNil(r) \/ ReplaceMap(r) \/ NextCall(r) \/ Respond(r)
         \/ \E h \in Header : SetHeader(r, h)
  PROVE  IInv'
<1>1. CASE NoServer(r)
  <2>1. TypeOK' /\ WaitInv'
    BY <1>1, WaitKept DEF NoServer, IInv, TypeOK, process, headers
  <2> QED  BY <1>1, <2>1 DEF NoServer, IInv, TypeOK, MapInv, headers
<1>2. ASSUME NEW h \in Header, SetHeader(r, h) PROVE IInv'
  <2> DEFINE write == <<r, call[r], h>>
  <2>1. response[r] = r /\ Via[r] # "iris" /\ req[r] = "serving" /\ call[r] \in 1..CallsOf[r]
    BY <1>2, HostsAssumption DEF SetHeader, Handling, IInv, MapInv
  <2>2. write \in Write
    BY <2>1, HostsAssumption DEF Write
  <2>3. /\ maps' = [maps EXCEPT ![r] = @ \cup {write}]
        /\ wrote' = [wrote EXCEPT ![r] = @ \cup {write}]
    BY <1>2, <2>1 DEF SetHeader
  <2>4. TypeOK'
    BY <1>2, <2>2, <2>3 DEF SetHeader, IInv, TypeOK, process
  <2>5. WaitInv'
    BY <1>2, WaitKept DEF SetHeader, IInv
  <2>6. write[1] = r /\ write[2] \in 1..CallsOf[r]
    BY <2>1
  <2>7. ASSUME NEW q \in Request PROVE MapInv(q)'
    <3> HIDE DEF write
    <3>1. CASE q = r
      <4>1. maps'[r] = maps[r] \cup {write} /\ wrote'[r] = wrote[r] \cup {write}
        BY <2>3 DEF IInv, TypeOK
      <4>2. \A x \in wrote'[r] : x[1] = r /\ x[2] \in 1..CallsOf[r]
        BY <2>6, <4>1 DEF IInv, MapInv
      <4> QED  BY <1>2, <2>1, <3>1, <4>1, <4>2 DEF SetHeader, IInv, MapInv
    <3>2. CASE q # r
      BY <1>2, <2>3, <3>2 DEF SetHeader, IInv, TypeOK, MapInv
    <3> QED  BY <3>1, <3>2
  <2> QED  BY <2>4, <2>5, <2>7 DEF IInv
<1>3. CASE SetHeaderNil(r)
  <2>1. req[r] = "serving"
    BY <1>3 DEF SetHeaderNil, Handling
  <2>2. CASE req' = [req EXCEPT ![r] = "panicked"] /\ UNCHANGED main
    <3>1. TypeOK'
      BY <1>3, <2>2 DEF SetHeaderNil, IInv, TypeOK, headers
    <3>2. WaitInv'
      BY <1>3, <2>2, WaitKept DEF SetHeaderNil, IInv, process
    <3> QED  BY <1>3, <2>1, <2>2, <3>1, <3>2, MapKept DEF SetHeaderNil, IInv, TypeOK
  <2>3. CASE Ends("crashed")
    BY <1>3, <2>3, EndsKeeps DEF SetHeaderNil
  <2> QED  BY <1>3, <2>2, <2>3 DEF SetHeaderNil
<1>4. CASE ReplaceMap(r)
  <2>1. TypeOK' /\ WaitInv'
    BY <1>4, WaitKept DEF ReplaceMap, IInv, TypeOK, process
  <2> QED  BY <1>4, <2>1 DEF ReplaceMap, IInv, MapInv
<1>5. CASE NextCall(r)
  <2>1. TypeOK' /\ WaitInv'
    BY <1>5, WaitKept DEF NextCall, IInv, TypeOK, process
  <2> QED  BY <1>5, <2>1 DEF NextCall, IInv, TypeOK, MapInv
<1>6. CASE Respond(r)
  <2>1. TypeOK' /\ WaitInv'
    BY <1>6, WaitKept DEF Respond, IInv, TypeOK, MapInv, process, headers
  <2>2. ASSUME NEW q \in Request PROVE MapInv(q)'
    BY <1>6 DEF Respond, IInv, TypeOK, MapInv, headers
  <2> QED  BY <2>1, <2>2 DEF IInv
<1> QED  BY <1>1, <1>2, <1>3, <1>4, <1>5, <1>6

LEMMA InvStep == IInv /\ [Next]_vars => IInv'
<1> SUFFICES ASSUME IInv, [Next]_vars PROVE IInv'
  OBVIOUS
<1>1. CASE Main \/ Interrupt
  BY <1>1, MainKeeps DEF Main
<1>2. ASSUME NEW w \in Worker, RunWorker(w) \/ Unregister(w) PROVE IInv'
  BY <1>2, WorkerKeeps
<1>3. ASSUME NEW r \in Request, ServeHTTP(r) \/ RunHandler(r) PROVE IInv'
  BY <1>3, InvokeKeeps DEF ServeHTTP, RunHandler
<1>4. ASSUME NEW r \in Request, NEW w \in Worker, HandleRequest(r, w) PROVE IInv'
  BY <1>4, InvokeKeeps DEF HandleRequest
<1>5. CASE UNCHANGED vars
  <2>1. TypeOK' /\ WaitInv'
    BY <1>5, WaitKept DEF vars, IInv, TypeOK, process, headers
  <2> QED  BY <1>5, <2>1 DEF vars, IInv, MapInv, headers
<1> QED  BY <1>1, <1>2, <1>3, <1>4, <1>5, CallbackKeeps DEF Next

LEMMA Invariance == Spec => []IInv
  BY InvInit, InvStep, PTL DEF Spec

-----------------------------------------------------------------------------
\* Type correctness, the WaitGroup between 0 and N included.
THEOREM TypeSafe == Spec => []TypeOK
<1>1. IInv => TypeOK
  BY DEF IInv
<1> QED  BY <1>1, Invariance, PTL

\* The headers of a response are those that the calls of its request set in the map they
\* were given, on a transport that gives them one (over Iris see HeadersWriteable).
THEOREM HeadersReturnedCorrect == Spec => []HeadersReturned
<1>1. IInv => HeadersReturned
  BY DEF IInv, MapInv, HeadersReturned
<1> QED  BY <1>1, Invariance, PTL

\* iris-calc-server exits only after each of its workers has taken its stop.
THEOREM WaitsForWorkersCorrect == Spec => []WaitsForWorkers
<1>1. IInv => WaitsForWorkers
  BY HostsAssumption DEF IInv, TypeOK, WaitInv, Undone, WaitsForWorkers
<1> QED  BY <1>1, Invariance, PTL

-----------------------------------------------------------------------------
(* Cookies.                                                                *)
\* The values that a pair of the Cookie header is a well-formed cookie with.
Readings(p) == {v \in {p.value, SubSeq(p.value, 2, Len(p.value) - 1)} : WellFormed(p, v)}

\* ReadCookies takes a pair if it has such a value, and that is the value it gives it.
LEMMA ReadableMeans ==
  ASSUME NEW p, NEW X, p.value \in Seq(X)
  PROVE  (Readable(p) <=> p.name \in Token /\ Readings(p) # {})
         /\ (Readable(p) => Unquoted(p.value) \in Readings(p))
<1> DEFINE w == p.value
           n == Len(w)
           inner == SubSeq(w, 2, n - 1)
           quoted == n > 1 /\ w[1] = Quote /\ w[n] = Quote
<1>1. n \in Nat /\ w \in Seq(X) /\ DOMAIN w = 1..n /\ Quote \notin CookieByte
  BY HostsAssumption
<1>2. Unquoted(w) = IF quoted THEN inner ELSE w
  BY DEF Unquoted
<1>3. ASSUME n > 1
      PROVE  /\ inner \in Seq(X) /\ Len(inner) = n - 2
             /\ \A k \in 1..(n - 2) : inner[k] = w[k + 1]
  <2>1. 2 \in Nat /\ n - 1 \in Nat /\ n - 1 <= n
    BY <1>1, <1>3
  <2> QED
    BY <1>1, <1>3, <2>1
<1>4. /\ quoted /\ ValidValue(inner) => inner \in Seq(CookieByte)
      /\ ValidValue(w) => w \in Seq(CookieByte)
  <2>1. ASSUME NEW v \in Seq(X), ValidValue(v) PROVE v \in Seq(CookieByte)
    BY <2>1 DEF ValidValue
  <2> HIDE DEF inner, w
  <2> QED
    BY <1>1, <1>3, <2>1
<1> HIDE DEF inner
<1>5. quoted => w = <<Quote>> \o inner \o <<Quote>>
  <2> SUFFICES ASSUME quoted PROVE w = <<Quote>> \o inner \o <<Quote>>
    OBVIOUS
  <2> DEFINE whole == <<Quote>> \o inner \o <<Quote>>
  <2>1. n > 1 /\ w[1] = Quote /\ w[n] = Quote
    OBVIOUS
  <2>2. /\ inner \in Seq(X \cup {Quote}) /\ Len(inner) = n - 2
        /\ \A k \in 1..(n - 2) : inner[k] = w[k + 1]
    BY <1>3, <2>1
  <2>3. /\ whole \in Seq(X \cup {Quote}) /\ Len(whole) = n
        /\ whole[1] = Quote /\ whole[n] = Quote
        /\ \A k \in 2..(n - 1) : whole[k] = inner[k - 1]
    BY <1>1, <2>1, <2>2
  <2>4. \A k \in 2..(n - 1) : k - 1 \in 1..(n - 2) /\ inner[k - 1] = w[k]
    BY <1>1, <2>2
  <2>5. \A k \in 1..n : k = 1 \/ k = n \/ k \in 2..(n - 1)
    BY <1>1
  <2>6. \A k \in 1..n : whole[k] = w[k]
    BY <2>1, <2>3, <2>4, <2>5
  <2>7. w \in Seq(X \cup {Quote})
    BY <1>1
  <2> HIDE DEF whole, w
  <2>8. whole = w
    BY <2>3, <2>6, <2>7
  <2> QED
    BY <2>8 DEF whole
<1>6. w \in Seq(CookieByte) => ~quoted
  BY <1>1
<1>7. ASSUME NEW v \in Seq(CookieByte), w = <<Quote>> \o v \o <<Quote>>
      PROVE  quoted /\ inner = v
  <2> DEFINE m == Len(v)
  <2>1. /\ m \in Nat /\ n = m + 2 /\ w[1] = Quote /\ w[n] = Quote
        /\ \A k \in 1..m : w[k + 1] = v[k]
    BY <1>1, <1>7
  <2> HIDE DEF w, n, m
  <2>2. quoted
    BY <2>1
  <2>3. inner \in Seq(X) /\ Len(inner) = m /\ \A k \in 1..m : inner[k] = v[k]
    BY <1>3, <2>1
  <2>4. v \in Seq(X \cup CookieByte) /\ inner \in Seq(X \cup CookieByte)
    BY <2>3
  <2>5. inner = v
    BY <2>3, <2>4 DEF m
  <2> QED
    BY <2>2, <2>5
<1>8. \A v \in Seq(CookieByte) : ValidValue(v)
  BY DEF ValidValue
<1> HIDE DEF quoted, w
<1>9. Readings(p) = {v \in {w, inner} : WellFormed(p, v)}
  BY DEF Readings, inner, w, n
<1>10. \A v : WellFormed(p, v) <=> /\ p.name \in Token /\ v \in Seq(CookieByte)
                                   /\ w = v \/ w = <<Quote>> \o v \o <<Quote>>
  BY DEF WellFormed, w
<1>11. Readable(p) <=> p.name \in Token /\ ValidValue(Unquoted(w))
  BY DEF Readable, ValidName, w
<1>12. CASE quoted
  <2>1. w \notin Seq(CookieByte)
    BY <1>6, <1>12
  <2>2. Unquoted(w) = inner
    BY <1>2, <1>12
  <2>3. ValidValue(inner) <=> inner \in Seq(CookieByte)
    BY <1>4, <1>8, <1>12
  <2>4. WellFormed(p, inner) <=> p.name \in Token /\ inner \in Seq(CookieByte)
    BY <1>5, <1>10, <1>12
  <2>5. ~WellFormed(p, w)
    BY <1>10, <2>1
  <2> QED
    BY <1>9, <1>11, <2>2, <2>3, <2>4, <2>5 DEF w
<1>13. CASE ~quoted
  <2>1. Unquoted(w) = w
    BY <1>2, <1>13
  <2>2. ValidValue(w) <=> w \in Seq(CookieByte)
    BY <1>4, <1>8
  <2>3. \A v : WellFormed(p, v) <=> p.name \in Token /\ w \in Seq(CookieByte) /\ v = w
    BY <1>7, <1>10, <1>13
  <2> QED
    BY <1>9, <1>11, <2>1, <2>2, <2>3 DEF w
<1> QED
  BY <1>12, <1>13

\* The loop of ReadCookies.
IsRead(f, pairs) ==
  f = [x \in 0..Len(pairs) |->
         IF x = 0 THEN <<>>
         ELSE IF Readable(pairs[x]) THEN Append(f[x - 1], Cookie(pairs[x])) ELSE f[x - 1]]

\* The cookies come from the readable pairs, in their order.
LEMMA CookiesRead ==
  ASSUME NEW P, NEW pairs \in Seq(P)
  PROVE  \E from \in [1..Len(ReadCookies(pairs)) -> 1..Len(pairs)] :
           /\ Len(ReadCookies(pairs)) \in Nat
           /\ \A j \in 1..Len(ReadCookies(pairs)) :
                Readable(pairs[from[j]]) /\ ReadCookies(pairs)[j] = Cookie(pairs[from[j]])
           /\ \A j, l \in 1..Len(ReadCookies(pairs)) : j < l => from[j] < from[l]
           /\ \A k \in 1..Len(pairs) :
                Readable(pairs[k]) => \E j \in 1..Len(ReadCookies(pairs)) : from[j] = k
<1> DEFINE size == Len(pairs)
           X == {Cookie(q) : q \in P}
           all == [x \in 1..size |-> Cookie(pairs[x])]
           K == {x \in 1..size : Readable(pairs[x])}
           read == CHOOSE f : IsRead(f, pairs)
<1>1. size \in Nat /\ \A x \in 1..size : pairs[x] \in P
  OBVIOUS
<1>2. all \in Seq(X) /\ Len(all) = size /\ \A x \in 1..size : all[x] = Cookie(pairs[x])
  <2>1. \A x \in 1..size : Cookie(pairs[x]) \in X
    BY <1>1
  <2> HIDE DEF X, size
  <2> QED
    BY <1>1, <2>1
<1> HIDE DEF all, X
<1>3. \E f : IsRead(f, pairs)
  <2>1. PICK f : IsFilter(f, all, K)
    BY <1>2, FilterExists
  <2>2. f = [x \in 0..size |-> IF x = 0 THEN <<>>
                            ELSE IF x \in K THEN Append(f[x - 1], all[x]) ELSE f[x - 1]]
    BY <1>2, <2>1 DEF IsFilter
  <2>3. \A x \in 0..size : x # 0 => x \in 1..size
    BY <1>1
  <2>4. [x \in 0..size |-> IF x = 0 THEN <<>>
                        ELSE IF x \in K THEN Append(f[x - 1], all[x]) ELSE f[x - 1]]
        = [x \in 0..size |-> IF x = 0 THEN <<>>
                          ELSE IF Readable(pairs[x]) THEN Append(f[x - 1], Cookie(pairs[x])) ELSE f[x - 1]]
    BY <1>2, <2>3
  <2>5. f = [x \in 0..size |-> IF x = 0 THEN <<>>
                            ELSE IF Readable(pairs[x]) THEN Append(f[x - 1], Cookie(pairs[x])) ELSE f[x - 1]]
    BY <2>2, <2>4
  <2> QED
    BY <2>5 DEF IsRead
<1>4. IsRead(read, pairs)
  BY <1>3
<1>5. ReadCookies(pairs) = read[size]
  BY DEF ReadCookies, IsRead
<1> HIDE DEF read
<1>6. /\ read[0] = <<>>
      /\ \A x \in 1..Len(all) : read[x] = IF x \in K THEN Append(read[x - 1], all[x]) ELSE read[x - 1]
  <2>1. \A x \in 0..size : read[x] =
          IF x = 0 THEN <<>>
          ELSE IF Readable(pairs[x]) THEN Append(read[x - 1], Cookie(pairs[x])) ELSE read[x - 1]
    BY <1>4 DEF IsRead
  <2>2. 0 \in 0..size /\ \A x \in 1..size : x \in 0..size /\ x # 0
    BY <1>1
  <2> QED
    BY <1>2, <2>1, <2>2
<1> HIDE DEF K
<1>7. read[Len(all)] \in Seq(X) /\ Picks(read[Len(all)], all, K, Len(all))
  BY <1>2, <1>6, FilterLoop
<1> DEFINE list == ReadCookies(pairs)
<1>8. list \in Seq(X) /\ Picks(list, all, K, size)
  BY <1>2, <1>5, <1>7
<1> HIDE DEF list, size
<1>9. PICK from \in [1..Len(list) -> 1..size] :
        /\ \A j \in 1..Len(list) : from[j] \in K /\ list[j] = all[from[j]]
        /\ \A j, l \in 1..Len(list) : j < l => from[j] < from[l]
        /\ \A k \in 1..size : k \in K => \E j \in 1..Len(list) : from[j] = k
  BY <1>8 DEF Picks
<1>10. /\ Len(list) \in Nat
       /\ \A j \in 1..Len(list) : Readable(pairs[from[j]]) /\ list[j] = Cookie(pairs[from[j]])
       /\ \A k \in 1..size : Readable(pairs[k]) => \E j \in 1..Len(list) : from[j] = k
  BY <1>2, <1>8, <1>9 DEF K
<1>11. from \in [1..Len(ReadCookies(pairs)) -> 1..Len(pairs)]
  BY DEF list, size
<1> WITNESS from \in [1..Len(ReadCookies(pairs)) -> 1..Len(pairs)]
<1> QED
  BY <1>9, <1>10 DEF list, size

\* GetCookie gives the value of the first cookie of the name.
LEMMA FirstCookie ==
  ASSUME NEW list, Len(list) \in Nat, NEW n
  PROVE  \/ GetCookie(list, n) = <<>> /\ \A j \in 1..Len(list) : list[j].name # n
         \/ \E x \in 1..Len(list) :
              /\ list[x].name = n /\ GetCookie(list, n) = <<list[x].value>>
              /\ \A j \in 1..Len(list) : list[j].name = n => x <= j
<1> DEFINE I == {x \in 1..Len(list) : list[x].name = n}
           x == IF I # {} THEN Min(I) ELSE 0
<1>1. GetCookie(list, n) = IF x = 0 THEN <<>> ELSE <<list[x].value>>
  BY DEF GetCookie, SelectInSeq
<1>2. CASE I = {}
  <2>1. x = 0
    BY <1>2
  <2> HIDE DEF x
  <2> QED
    BY <1>1, <1>2, <2>1
<1>3. CASE I # {}
  <2>1. I \subseteq Nat
    OBVIOUS
  <2>2. \E least \in I : \A j \in I : least <= j
    <3> HIDE DEF I
    <3> QED
      BY <1>3, <2>1, LeastNumber
  <2>3. x \in I /\ \A j \in I : x <= j
    <3> HIDE DEF I
    <3> QED
      BY <1>3, <2>2 DEF Min
  <2> HIDE DEF x
  <2>4. x # 0
    BY <2>3
  <2> QED
    BY <1>1, <2>3, <2>4
<1> QED
  BY <1>2, <1>3

LEMMA CookieFound ==
  ASSUME NEW P, NEW pairs \in Seq(P), NEW n \in Token,
         \A k \in 1..Len(pairs) : \E X : pairs[k].value \in Seq(X)
  PROVE  LET found == GetCookie(ReadCookies(pairs), n)
             good == {y \in DOMAIN pairs : pairs[y].name = n /\ Readings(pairs[y]) # {}}
         IN IF good = {} THEN found = <<>>
            ELSE \E y \in good : (\A z \in good : y <= z) /\ found[1] \in Readings(pairs[y])
<1> DEFINE list == ReadCookies(pairs)
           good == {y \in DOMAIN pairs : pairs[y].name = n /\ Readings(pairs[y]) # {}}
<1>1. PICK from \in [1..Len(list) -> 1..Len(pairs)] :
        /\ Len(list) \in Nat
        /\ \A j \in 1..Len(list) : Readable(pairs[from[j]]) /\ list[j] = Cookie(pairs[from[j]])
        /\ \A j, l \in 1..Len(list) : j < l => from[j] < from[l]
        /\ \A k \in 1..Len(pairs) : Readable(pairs[k]) => \E j \in 1..Len(list) : from[j] = k
  BY CookiesRead
<1>2. DOMAIN pairs = 1..Len(pairs) /\ Len(pairs) \in Nat
  OBVIOUS
<1>3. \A k \in 1..Len(pairs) :
        /\ Readable(pairs[k]) <=> pairs[k].name \in Token /\ Readings(pairs[k]) # {}
        /\ Readable(pairs[k]) => Unquoted(pairs[k].value) \in Readings(pairs[k])
  BY ReadableMeans
<1>4. \A k \in 1..Len(pairs) : k \in good <=> pairs[k].name = n /\ Readable(pairs[k])
  <2> SUFFICES ASSUME NEW k \in 1..Len(pairs)
               PROVE  k \in good <=> pairs[k].name = n /\ Readable(pairs[k])
    OBVIOUS
  <2>1. k \in good <=> pairs[k].name = n /\ Readings(pairs[k]) # {}
    BY <1>2
  <2>2. Readable(pairs[k]) <=> pairs[k].name \in Token /\ Readings(pairs[k]) # {}
    BY <1>3
  <2> HIDE DEF good
  <2> QED
    BY <2>1, <2>2
<1>5. \A j \in 1..Len(list) :
        /\ from[j] \in 1..Len(pairs) /\ list[j].name = pairs[from[j]].name
        /\ list[j].value = Unquoted(pairs[from[j]].value)
  <2> SUFFICES ASSUME NEW j \in 1..Len(list)
               PROVE  /\ from[j] \in 1..Len(pairs) /\ list[j].name = pairs[from[j]].name
                      /\ list[j].value = Unquoted(pairs[from[j]].value)
    OBVIOUS
  <2>1. from[j] \in 1..Len(pairs) /\ list[j] = Cookie(pairs[from[j]])
    BY <1>1
  <2> HIDE DEF list
  <2> QED
    BY <2>1 DEF Cookie
<1>6. \A k \in good : \E j \in 1..Len(list) : from[j] = k /\ list[j].name = n
  <2> SUFFICES ASSUME NEW k \in good
               PROVE  \E j \in 1..Len(list) : from[j] = k /\ list[j].name = n
    OBVIOUS
  <2>1. k \in 1..Len(pairs)
    BY <1>2
  <2> HIDE DEF list, good
  <2>2. pairs[k].name = n /\ Readable(pairs[k])
    BY <1>4, <2>1
  <2>3. PICK j \in 1..Len(list) : from[j] = k
    BY <1>1, <2>1, <2>2
  <2>4. list[j].name = n
    BY <1>5, <2>2, <2>3
  <2> QED
    BY <2>3, <2>4
<1>7. good \subseteq 1..Len(pairs)
  BY <1>2
<1> HIDE DEF list, good
<1>8. CASE GetCookie(list, n) = <<>> /\ \A j \in 1..Len(list) : list[j].name # n
  BY <1>6, <1>8 DEF list, good
<1>9. ASSUME NEW x \in 1..Len(list), list[x].name = n, GetCookie(list, n) = <<list[x].value>>,
             \A j \in 1..Len(list) : list[j].name = n => x <= j
      PROVE  from[x] \in good /\ (\A z \in good : from[x] <= z)
             /\ GetCookie(list, n)[1] \in Readings(pairs[from[x]])
  <2>1. from[x] \in good
    BY <1>1, <1>4, <1>5, <1>9
  <2>2. ASSUME NEW z \in good PROVE from[x] <= z
    <3>1. PICK j \in 1..Len(list) : from[j] = z /\ list[j].name = n
      BY <1>6
    <3>2. x <= j /\ from[x] \in 1..Len(pairs) /\ from[j] \in 1..Len(pairs)
      BY <1>5, <1>9, <3>1
    <3>3. x = j \/ x < j
      BY <1>1, <3>2
    <3> QED
      BY <1>1, <1>2, <3>1, <3>2, <3>3
  <2>3. GetCookie(list, n)[1] = Unquoted(pairs[from[x]].value)
    BY <1>5, <1>9
  <2> QED
    <3>1. from[x] \in 1..Len(pairs) /\ Readable(pairs[from[x]])
      BY <1>1, <1>5
    <3>2. Unquoted(pairs[from[x]].value) \in Readings(pairs[from[x]])
      BY <1>3, <3>1
    <3> QED
      BY <2>1, <2>2, <2>3, <3>2
<1>10. \/ GetCookie(list, n) = <<>> /\ \A j \in 1..Len(list) : list[j].name # n
       \/ \E x \in 1..Len(list) :
            /\ list[x].name = n /\ GetCookie(list, n) = <<list[x].value>>
            /\ \A j \in 1..Len(list) : list[j].name = n => x <= j
  BY <1>1, FirstCookie
<1>11. CASE good = {}
  BY <1>9, <1>10, <1>11 DEF list, good
<1>12. CASE good # {}
  <2>1. \E y \in good : (\A z \in good : y <= z) /\ GetCookie(list, n)[1] \in Readings(pairs[y])
    BY <1>6, <1>9, <1>10, <1>12
  <2> QED
    BY <1>12, <2>1 DEF list, good
<1> QED
  BY <1>11, <1>12

\* The Cookies of the Headers are what ReadCookies makes of the Cookie header.
CookieInv ==
  /\ DOMAIN line = Request /\ DOMAIN cookies = Request /\ DOMAIN req = Request
  /\ \A r \in Request :
       /\ req[r] = "idle" => line[r] = <<>>
       /\ \/ line[r] = <<>> /\ cookies[r] = <<>>
          \/ line[r] \in CookiesOf[r] /\ cookies[r] = ReadCookies(line[r])

LEMMA CookieInit == Init => CookieInv
BY DEF Init, CookieInv

LEMMA CookieStep == CookieInv /\ [Next]_vars => CookieInv'
<1> SUFFICES ASSUME CookieInv, [Next]_vars PROVE CookieInv'
  OBVIOUS
<1>1. ASSUME UNCHANGED <<line, cookies>>, DOMAIN req' = Request,
             \A r \in Request : req'[r] = "idle" => req[r] = "idle"
      PROVE  CookieInv'
  BY <1>1 DEF CookieInv
<1>2. ASSUME NEW how, Ends(how) PROVE DOMAIN req' = Request /\ \A r \in Request : req'[r] = "idle" => req[r] = "idle"
  BY <1>2 DEF Ends
<1>3. CASE Main \/ Interrupt
  <2>1. UNCHANGED <<line, cookies>> /\ (UNCHANGED req \/ Ends("exited"))
    BY <1>3 DEF Main, Interrupt, GoWorker, Add, Exit, Stop, headers
  <2> QED
    BY <1>1, <1>2, <2>1 DEF CookieInv
<1>4. ASSUME NEW w \in Worker, RunWorker(w) \/ Unregister(w) PROVE CookieInv'
  <2>1. UNCHANGED <<line, cookies>> /\ (UNCHANGED req \/ Ends("crashed"))
    BY <1>4 DEF RunWorker, Unregister, Register, RegisterFails, Done, headers
  <2> QED
    BY <1>1, <1>2, <2>1 DEF CookieInv
<1>5. ASSUME NEW r \in Request, ServeHTTP(r) \/ RunHandler(r) PROVE CookieInv'
  <2>1. PICK pairs \in CookiesOf[r] :
          line' = [line EXCEPT ![r] = pairs] /\ InvokeBytes(r, r, ReadCookies(pairs))
    BY <1>5 DEF ServeHTTP, RunHandler
  <2> QED
    BY <2>1 DEF InvokeBytes, CookieInv
<1>6. ASSUME NEW r \in Request, NEW w \in Worker, HandleRequest(r, w) PROVE CookieInv'
  BY <1>6 DEF HandleRequest, InvokeBytes, CookieInv
<1>7. ASSUME NEW r \in Request,
             \/ NoServer(r) \/ SetHeaderNil(r) \/ ReplaceMap(r) \/ NextCall(r) \/ Respond(r)
             \/ \E h \in Header : SetHeader(r, h)
      PROVE  CookieInv'
  <2>1. CASE NoServer(r)
    BY <2>1 DEF NoServer, CookieInv, headers
  <2>2. CASE SetHeaderNil(r)
    <3>1. UNCHANGED <<line, cookies>> /\ (req' = [req EXCEPT ![r] = "panicked"] \/ Ends("crashed"))
      BY <2>2 DEF SetHeaderNil, headers
    <3>2. DOMAIN req' = Request /\ \A q \in Request : req'[q] = "idle" => req[q] = "idle"
      BY <1>2, <3>1 DEF CookieInv
    <3> QED
      BY <1>1, <3>1, <3>2
  <2>3. CASE ReplaceMap(r) \/ NextCall(r) \/ \E h \in Header : SetHeader(r, h)
    BY <1>1, <2>3 DEF ReplaceMap, NextCall, SetHeader, CookieInv
  <2>4. CASE Respond(r)
    BY <2>4 DEF Respond, CookieInv, headers
  <2> QED
    BY <1>7, <2>1, <2>2, <2>3, <2>4
<1>8. CASE UNCHANGED vars
  BY <1>8 DEF vars, headers, CookieInv
<1> QED
  BY <1>3, <1>4, <1>5, <1>6, <1>7, <1>8 DEF Next

(* What a handler finds in the Cookie header, for every header there is.   *)
THEOREM CookiesSeenCorrect == Spec => []CookiesSeen
<1>1. ASSUME CookieInv, NEW r \in Request, NEW n \in Token
      PROVE  LET found == GetCookie(cookies[r], n)
                 good == {y \in DOMAIN line[r] : line[r][y].name = n /\ Readings(line[r][y]) # {}}
             IN IF good = {} THEN found = <<>>
                ELSE \E y \in good : (\A z \in good : y <= z) /\ found[1] \in Readings(line[r][y])
  <2>1. CASE line[r] = <<>> /\ cookies[r] = <<>>
    <3>1. DOMAIN line[r] = {} /\ Len(cookies[r]) = 0
      BY <2>1
    <3>2. GetCookie(cookies[r], n) = <<>>
      BY <3>1, FirstCookie
    <3> QED
      BY <3>1, <3>2
  <2>2. CASE line[r] \in CookiesOf[r] /\ cookies[r] = ReadCookies(line[r])
    <3> DEFINE P == ToSet(line[r])
    <3>1. line[r] \in Seq(P) /\ \A p \in P : p.value \in Seq(ToSet(p.value))
      BY <2>2, HostsAssumption
    <3>2. \A k \in 1..Len(line[r]) : line[r][k] \in P
      BY DEF ToSet
    <3> HIDE DEF P
    <3>3. \A k \in 1..Len(line[r]) : \E X : line[r][k].value \in Seq(X)
      BY <3>1, <3>2
    <3> DEFINE pairs == line[r]
    <3>4. pairs \in Seq(P) /\ (\A k \in 1..Len(pairs) : \E X : pairs[k].value \in Seq(X))
          /\ cookies[r] = ReadCookies(pairs)
      BY <2>2, <3>1, <3>3
    <3> HIDE DEF pairs
    <3>5. LET found == GetCookie(ReadCookies(pairs), n)
              good == {y \in DOMAIN pairs : pairs[y].name = n /\ Readings(pairs[y]) # {}}
          IN IF good = {} THEN found = <<>>
             ELSE \E y \in good : (\A z \in good : y <= z) /\ found[1] \in Readings(pairs[y])
      BY <3>4, CookieFound
    <3>6. cookies[r] = ReadCookies(pairs)
      BY <3>4
    <3> QED
      BY <3>5, <3>6 DEF pairs
  <2> QED
    BY <1>1, <2>1, <2>2 DEF CookieInv
<1>2. CookieInv => CookiesSeen
  BY <1>1 DEF CookiesSeen, Readings
<1> QED
  BY <1>2, CookieInit, CookieStep, PTL DEF Spec
=============================================================================
