------------------------------- MODULE Client -------------------------------
(***************************************************************************)
(* RemoteClient over HttpTransport: goroutines that call, each through a   *)
(* transport, against a server that keeps the promises of RpcService.  The *)
(* network delivers late or never; a caller may have given up while the    *)
(* server still works for it.                                              *)
(*                                                                         *)
(* An exchange <<c, i>> is the i-th Send of caller c: one request body and *)
(* at most one response, on an HTTP connection of its own.  net/http sends *)
(* no POST twice once a byte of it is written.                             *)
(***************************************************************************)
EXTENDS Naturals, Sequences, Serializer

CONSTANTS
  Caller,       \* goroutines, each with the transport it uses
  MaxCalls,     \* bound: how many calls each caller makes
  Id,
  BodiesOf,     \* what each caller may send: [batch, ids, text, marshals]
  ForceASCII,   \* callers whose serializer has ForceASCII
  ServerASCII,  \* whether the server's has
  Hooked,       \* callers whose transport has an HttpHook
  WithTimeout,  \* callers whose http.Client has a Timeout
  HttpClient,   \* http.Clients that programs gave to transports
  ClientOf,     \* the one of a caller's transport, or NoClient
  Jar, JarOf,   \* cookie jars; the one of the transport at each exchange, or NoJar: a
                \* program may change the field, or take another transport
  NoId, NoBody, NoClient, NoJar

Body == UNION {BodiesOf[c] : c \in Caller}
Exchange == UNION {{c} \X (1..MaxCalls[c]) : c \in Caller}

ASSUME ClientAssumption ==
  /\ MaxCalls \in [Caller -> Nat]
  /\ \A b \in Body :
       /\ b \in [batch : BOOLEAN, ids : Seq(Id), text : Seq(Rune), marshals : BOOLEAN]
       /\ b.batch \/ Len(b.ids) = 1
  /\ ForceASCII \subseteq Caller /\ ServerASCII \in BOOLEAN
  /\ Hooked \subseteq Caller /\ WithTimeout \subseteq Caller
  /\ ClientOf \in [Caller -> HttpClient \cup {NoClient}] /\ NoClient \notin HttpClient
  /\ JarOf \in [Exchange -> Jar \cup {NoJar}] /\ NoJar \notin Jar
  /\ NoId \notin Id /\ NoBody \notin Body

VARIABLES
  pc,        \* where a caller is in Call / CallBatch and Send
  n,         \* how many calls it has begun
  sent,      \* the body of each exchange
  inFlight,  \* requests on their way to the server
  jar,       \* the Jar field of each http.Client
  sentWith,  \* the jar each exchange was sent with
  overtaken, \* history: <<e, j>> if another transport put its jar j into the http.Client
             \* of exchange e, which had its own there and was not sent yet
  hooks,     \* how often Before and After ran for an exchange
  from,      \* the exchange whose response a caller reads
  outcome,   \* what Call / CallBatch returned
  ran        \* how often the server ran an implementation for an exchange

VARIABLES status, work, done, runs, answer   \* of the server

client == <<pc, n, sent, jar, sentWith, overtaken, hooks, from, outcome>>
server == <<status, work, done, runs, answer>>
vars == <<client, inFlight, ran, server>>

Service == INSTANCE RpcService WITH Req <- Exchange, Work <- {b.ids : b \in Body}

\* "unsent" is error -32600, "failed" and "unreadable" are -32603; a batch has
\* one such error in place of all its responses.
Kinds == {"none", "unsent", "failed", "unreadable", "answered"}
Outcome(kind, ids, text) == [kind |-> kind, ids |-> ids, text |-> text]
Nothing == Outcome("none", <<>>, <<>>)

(* The bytes of a request, and those of the response to it: the methods    *)
(* return the text they are given, and parse errors, which are written     *)
(* without ForceASCII, have none.                                          *)
RequestBytes(e) == Marshal(sent[e].batch, sent[e].text, e[1] \in ForceASCII)
Opening(isList) == IF isList THEN "bracket" ELSE "brace"
Decodable(e) ==
  LET wire == RequestBytes(e)
  IN ReadableJson(wire) /\ OpensWith(wire, Opening(IsBatch(wire)))
ResponseBytes(e) ==
  LET wire == RequestBytes(e)
  IN IF Decodable(e) THEN Marshal(IsBatch(wire), TextOf(wire), ServerASCII)
     ELSE Marshal(IsBatch(wire), <<>>, FALSE)

Init ==
  /\ pc = [c \in Caller |-> "idle"]
  /\ n = [c \in Caller |-> 0]
  /\ sent = [e \in Exchange |-> NoBody]
  /\ inFlight = {}
  /\ jar = [h \in HttpClient |-> NoJar]
  /\ sentWith = [e \in Exchange |-> NoJar]
  /\ overtaken = {}
  /\ hooks = [e \in Exchange |-> [before |-> 0, after |-> 0]]
  /\ from = [c \in Caller |-> <<c, 0>>]
  /\ outcome = [e \in Exchange |-> Nothing]
  /\ ran = [e \in Exchange |-> 0]
  /\ Service!Init

-----------------------------------------------------------------------------
(* The caller.                                                             *)
Current(c) == <<c, n[c]>>

At(c, here, there) == pc[c] = here /\ pc' = [pc EXCEPT ![c] = there]

Returns(c, e, result) ==
  /\ pc' = [pc EXCEPT ![c] = "idle"]
  /\ outcome' = [outcome EXCEPT ![e] = result]
ReturnsError(c, e, kind) == Returns(c, e, Outcome(kind, <<>>, <<>>))

\* Slip: the error of Marshal is noted, and the call goes on.
BeginAnyway(c, b) ==
  LET e == <<c, n[c] + 1>>
  IN /\ pc[c] = "idle" /\ n[c] < MaxCalls[c]
     /\ n' = [n EXCEPT ![c] = @ + 1]
     /\ sent' = [sent EXCEPT ![e] = b]
     /\ pc' = [pc EXCEPT ![c] = "request"]
     /\ outcome' = [outcome EXCEPT ![e].kind = IF b.marshals THEN "none" ELSE "unsent"]
     /\ UNCHANGED <<inFlight, jar, sentWith, overtaken, hooks, from, ran, server>>

(* Call or CallBatch, up to Send.                                          *)
Begin(c, b) ==
  LET e == <<c, n[c] + 1>>
  IN /\ pc[c] = "idle" /\ n[c] < MaxCalls[c]
     /\ n' = [n EXCEPT ![c] = @ + 1]
     /\ sent' = [sent EXCEPT ![e] = b]
     /\ IF b.marshals
        THEN pc' = [pc EXCEPT ![c] = "request"] /\ UNCHANGED outcome
        ELSE ReturnsError(c, e, "unsent")
     /\ UNCHANGED <<inFlight, jar, sentWith, overtaken, hooks, from, ran, server>>

(* http.NewRequest refuses the URL of the transport.                       *)
BadUrl(c) ==
  /\ pc[c] = "request"
  /\ ReturnsError(c, Current(c), "failed")
  /\ UNCHANGED <<n, sent, inFlight, jar, sentWith, overtaken, hooks, from, ran, server>>

Before(c) ==
  /\ At(c, "request", "jar")
  /\ hooks' = IF c \in Hooked THEN [hooks EXCEPT ![Current(c)].before = @ + 1] ELSE hooks
  /\ UNCHANGED <<n, sent, inFlight, jar, sentWith, overtaken, from, outcome, ran, server>>

Overtakes(c) ==
  LET own == JarOf[Current(c)]
      others == {d \in Caller : /\ pc[d] = "do"
                                /\ ClientOf[d] = ClientOf[c] /\ ClientOf[c] # NoClient
                                /\ own # NoJar /\ JarOf[Current(d)] \notin {NoJar, own}}
  IN {<<Current(d), own>> : d \in others}

\* Slip: the jar is set without looking whether there is one.
SetJarAlways(c) ==
  /\ At(c, "jar", "do")
  /\ jar' = [h \in HttpClient |-> IF h = ClientOf[c] THEN JarOf[Current(c)] ELSE jar[h]]
  /\ overtaken' = overtaken \cup Overtakes(c)
  /\ UNCHANGED <<n, sent, inFlight, sentWith, hooks, from, outcome, ran, server>>

(* The http.Client is the program's, and others may use it too; a client   *)
(* of the transport's own is new for every Send.                           *)
SetJar(c) ==
  LET own == JarOf[Current(c)]
  IN /\ At(c, "jar", "do")
     /\ jar' = [h \in HttpClient |-> IF h = ClientOf[c] /\ own # NoJar THEN own ELSE jar[h]]
     /\ overtaken' = overtaken \cup Overtakes(c)
     /\ UNCHANGED <<n, sent, inFlight, sentWith, hooks, from, outcome, ran, server>>

Do(c) ==
  /\ At(c, "do", "wait")
  /\ sentWith' = [sentWith EXCEPT ![Current(c)] =
                    IF ClientOf[c] = NoClient THEN JarOf[Current(c)] ELSE jar[ClientOf[c]]]
  /\ inFlight' = inFlight \cup {Current(c)}
  /\ UNCHANGED <<n, sent, jar, overtaken, hooks, from, outcome, ran, server>>

\* Slip: the response of an earlier exchange is taken.
ReceiveAny(c) ==
  /\ At(c, "wait", "body")
  /\ \E i \in 1..n[c] : status[<<c, i>>] = "answered" /\ from' = [from EXCEPT ![c] = <<c, i>>]
  /\ UNCHANGED <<n, sent, inFlight, jar, sentWith, overtaken, hooks, outcome, ran, server>>

(* client.Do returns with a 2xx response.                                  *)
Receive(c) ==
  /\ At(c, "wait", "body")
  /\ status[Current(c)] = "answered"
  /\ from' = [from EXCEPT ![c] = Current(c)]
  /\ UNCHANGED <<n, sent, inFlight, jar, sentWith, overtaken, hooks, outcome, ran, server>>

\* Slips: After runs for failures too; a timeout does not cover the body.
FailAfter(c) ==
  /\ pc[c] \in {"wait", "body"}
  /\ ReturnsError(c, Current(c), "failed")
  /\ hooks' = IF c \in Hooked THEN [hooks EXCEPT ![Current(c)].after = 1] ELSE hooks
  /\ UNCHANGED <<n, sent, inFlight, jar, sentWith, overtaken, from, ran, server>>
FailWaiting(c) ==
  /\ pc[c] = "wait"
  /\ ReturnsError(c, Current(c), "failed")
  /\ UNCHANGED <<n, sent, inFlight, jar, sentWith, overtaken, hooks, from, ran, server>>

(* No connection, no response, another status, half a body, or a timeout,  *)
(* which http.Client extends over the body.                                *)
Fail(c) ==
  /\ pc[c] \in {"wait", "body"}
  /\ ReturnsError(c, Current(c), "failed")
  /\ UNCHANGED <<n, sent, inFlight, jar, sentWith, overtaken, hooks, from, ran, server>>

TimesOut(c) == c \in WithTimeout /\ Fail(c)

ReadBody(c) ==
  /\ At(c, "body", "after")
  /\ UNCHANGED <<n, sent, inFlight, jar, sentWith, overtaken, hooks, from, outcome, ran, server>>

\* Slip: After is called again for the response to a batch.
AfterEach(c) ==
  /\ At(c, "after", "decode")
  /\ hooks' = IF c \in Hooked
              THEN [hooks EXCEPT ![Current(c)].after = @ + Len(sent[Current(c)].ids)] ELSE hooks
  /\ UNCHANGED <<n, sent, inFlight, jar, sentWith, overtaken, from, outcome, ran, server>>

After(c) ==
  /\ At(c, "after", "decode")
  /\ hooks' = IF c \in Hooked THEN [hooks EXCEPT ![Current(c)].after = @ + 1] ELSE hooks
  /\ UNCHANGED <<n, sent, inFlight, jar, sentWith, overtaken, from, outcome, ran, server>>

(* The rest of Call and CallBatch.  No id is compared, nor are responses   *)
(* counted.  What is read may be the page of a proxy instead.              *)
Decode(c) ==
  LET e == Current(c)
      wire == ResponseBytes(from[c])
  IN /\ pc[c] = "decode"
     /\ \/ ReturnsError(c, e, "unreadable")
        \/ /\ ReadableJson(wire) /\ OpensWith(wire, Opening(sent[e].batch))
           /\ Returns(c, e, Outcome("answered", answer[from[c]], TextOf(wire)))
     /\ UNCHANGED <<n, sent, inFlight, jar, sentWith, overtaken, hooks, from, ran, server>>

-----------------------------------------------------------------------------
(* The network and the server.                                             *)
Arrive(e) ==
  /\ e \in inFlight
  /\ inFlight' = inFlight \ {e}
  /\ IF Decodable(e) THEN Service!Accept(e, sent[e].ids) ELSE Service!Malformed(e)
  /\ UNCHANGED <<client, ran>>

ServerRuns(e) ==
  /\ Service!Run(e)
  /\ ran' = [ran EXCEPT ![e] = @ + 1]
  /\ UNCHANGED <<client, inFlight>>

Serve(e) ==
  /\ Service!Finish(e) \/ Service!Answer(e) \/ (status[e] = "pending" /\ Service!Abort(e))
  /\ UNCHANGED <<client, inFlight, ran>>

Local(c) == Before(c) \/ SetJar(c) \/ Do(c) \/ After(c) \/ Decode(c)

Next ==
  \/ \E c \in Caller :
       \/ \E b \in BodiesOf[c] : Begin(c, b)
       \/ BadUrl(c)
       \/ Local(c)
       \/ Receive(c) \/ ReadBody(c) \/ Fail(c)
  \/ \E e \in Exchange : Arrive(e) \/ ServerRuns(e) \/ Serve(e)

Spec == Init /\ [][Next]_vars

(* Fairness: the scheduler runs a caller that can go on, hooks return, and *)
(* timers fire.  Nothing is asked of the network and the server.           *)
FairSpec == Spec /\ \A c \in Caller : WF_vars(Local(c)) /\ WF_vars(TimesOut(c))

-----------------------------------------------------------------------------
TypeOK ==
  /\ pc \in [Caller -> {"idle", "request", "jar", "do", "wait", "body", "after", "decode"}]
  /\ n \in [Caller -> Nat] /\ \A c \in Caller : n[c] <= MaxCalls[c]
  /\ sent \in [Exchange -> Body \cup {NoBody}]
  /\ inFlight \subseteq {e \in Exchange : sent[e] # NoBody /\ sent[e].marshals}
  /\ jar \in [HttpClient -> Jar \cup {NoJar}]
  /\ sentWith \in [Exchange -> Jar \cup {NoJar}]
  /\ overtaken \subseteq Exchange \X Jar
  /\ hooks \in [Exchange -> [before : 0..1, after : 0..1]]
  /\ from \in [Caller -> Exchange \cup {<<c, 0>> : c \in Caller}]
  /\ outcome \in [Exchange -> [kind : Kinds, ids : Seq(Id \cup {NoId}), text : Seq(Rune)]]
  /\ ran \in [Exchange -> Nat]
  /\ status \in [Exchange -> {"idle", "pending", "answered", "aborted"}]

(* OwnAnswer: a caller that gets responses gets those to the request of    *)
(* this very call, one for each id in order.  Only a request with text     *)
(* that ForceASCII has no escape for gets a single parse error instead, in *)
(* a list if it was a batch, of whatever length.  RemoteClient compares no *)
(* ids: it is one exchange per Send that has to guarantee this, also after *)
(* exchanges that were given up.                                           *)
Legible(e) == e[1] \in ForceASCII => Narrow(sent[e].text)
OwnAnswer ==
  \A e \in Exchange : outcome[e].kind = "answered" =>
    /\ status[e] = "answered"
    /\ outcome[e].ids = answer[e]
    /\ outcome[e].ids = IF Legible(e) THEN sent[e].ids ELSE <<NoId>>

(* TextIntact: text that comes back is the text that was sent, whichever   *)
(* side escapes it; otherwise there is an error, never another text.       *)
TextIntact ==
  \A e \in Exchange :
    /\ outcome[e].kind = "answered" /\ outcome[e].ids # <<NoId>> =>
         outcome[e].text = sent[e].text
    /\ outcome[e].kind = "answered" /\ ServerASCII => Narrow(outcome[e].text)

(* AtMostOnce: the server runs an implementation at most once per call of  *)
(* a request, and never for one that is reported as unsent.                *)
AtMostOnce ==
  /\ \A e \in Exchange : sent[e] # NoBody => ran[e] <= Len(sent[e].ids)
  /\ \A e \in Exchange : outcome[e].kind = "unsent" => ran[e] = 0

(* HooksPair: After runs only for an exchange for which Before ran and the *)
(* server answered, and exactly once if the body reaches the serializer.   *)
(* An exchange that fails in between has Before alone (Send returns early  *)
(* for transport errors and statuses other than 2xx).                      *)
HooksPair ==
  \A e \in Exchange :
    /\ hooks[e].after <= hooks[e].before
    /\ hooks[e].before > 0 => e[1] \in Hooked
    /\ hooks[e].after = 1 => status[e] = "answered"
    /\ e[1] \in Hooked /\ outcome[e].kind \in {"unreadable", "answered"} => hooks[e].after = 1
    /\ e[1] \in Hooked /\ (e \in inFlight \/ status[e] # "idle") => hooks[e].before = 1

(* OwnJar: a request of a transport with a jar goes out with that jar,     *)
(* although the http.Client may be shared with transports that have none   *)
(* or another; only if one with another jar set it between this one's      *)
(* setting and sending is it that other jar.  It is never without a jar,   *)
(* and never with one from before.                                         *)
OwnJar ==
  \A e \in Exchange :
    JarOf[e] # NoJar /\ status[e] # "idle" =>
      sentWith[e] = JarOf[e] \/ <<e, sentWith[e]>> \in overtaken

(* TimeoutsReturn: a call through an http.Client with a Timeout returns,   *)
(* whatever network and server do.                                         *)
TimeoutsReturn == \A c \in WithTimeout : pc[c] = "request" ~> pc[c] = "idle"
=============================================================================
