---------------------------- MODULE ClientProofs ----------------------------
(***************************************************************************)
(* Safety of RemoteClient over HttpTransport, for any number of callers,   *)
(* calls, http.Clients and texts.                                          *)
(***************************************************************************)
EXTENDS Client, SequenceTheorems, TLAPS

-----------------------------------------------------------------------------
(* JsonSerializer.                                                         *)
\* Byte by byte, what Marshal writes: the bracket, and the text with an escape for
\* every rune that needs one.
LEMMA MarshalBytes ==
  ASSUME NEW isList \in BOOLEAN, NEW text \in Seq(Rune), NEW force \in BOOLEAN
  PROVE  LET w == Marshal(isList, text, force)
         IN /\ Len(w) = Len(text) + 1 /\ DOMAIN w = 1..Len(text) + 1
            /\ w[1] = Raw(Opening(isList))
            /\ \A x \in 1..Len(text) : w[x + 1] = IF force THEN EncodeRune(text[x]) ELSE Raw(text[x])
<1> DEFINE b == Json(isList, text)
           bracket == Opening(isList)
           w == Marshal(isList, text, force)
<1>1. bracket \in Rune /\ Size[bracket] = 1
  BY SerializerAssumption DEF Opening
<1>2. b = <<bracket>> \o text
  BY DEF Json, Opening
<1> HIDE DEF b, bracket
<1>3. /\ b \in Seq(Rune) /\ Len(b) = Len(text) + 1
      /\ b[1] = bracket /\ \A x \in 1..Len(text) : b[x + 1] = text[x]
  BY <1>1, <1>2
<1>4. DOMAIN b = 1..Len(text) + 1
  BY <1>3
<1>5. w = [x \in 1..Len(text) + 1 |-> IF force THEN EncodeRune(b[x]) ELSE Raw(b[x])]
  BY <1>4 DEF Marshal, EncodeASCII, b
<1> HIDE DEF w
<1>6. w[1] = Raw(bracket)
  BY <1>1, <1>3, <1>5 DEF EncodeRune
<1>7. \A x \in 1..Len(text) : w[x + 1] = IF force THEN EncodeRune(text[x]) ELSE Raw(text[x])
  BY <1>3, <1>5
<1>8. Len(w) = Len(text) + 1 /\ DOMAIN w = 1..Len(text) + 1
  BY <1>5
<1> QED  BY <1>6, <1>7, <1>8 DEF bracket, w

\* Unmarshal gets the text back, IsBatch and the decoder find the bracket, and only a
\* wide rune under ForceASCII makes the bytes unreadable.
LEMMA MarshalMeans ==
  ASSUME NEW isList \in BOOLEAN, NEW text \in Seq(Rune), NEW force \in BOOLEAN
  PROVE  LET w == Marshal(isList, text, force)
         IN /\ TextOf(w) = text
            /\ IsBatch(w) = isList
            /\ \A l \in BOOLEAN : OpensWith(w, Opening(l)) <=> l = isList
            /\ ReadableJson(w) <=> (force => Narrow(text))
<1> SUFFICES ASSUME NEW w, w = Marshal(isList, text, force)
             PROVE  /\ TextOf(w) = text
                    /\ IsBatch(w) = isList
                    /\ \A l \in BOOLEAN : OpensWith(w, Opening(l)) <=> l = isList
                    /\ ReadableJson(w) <=> (force => Narrow(text))
  OBVIOUS
<1>1. /\ Len(w) = Len(text) + 1 /\ DOMAIN w = 1..Len(text) + 1
      /\ w[1] = Raw(Opening(isList))
      /\ \A x \in 1..Len(text) : w[x + 1] = IF force THEN EncodeRune(text[x]) ELSE Raw(text[x])
  BY MarshalBytes
<1>2. /\ \A a, b : Raw(a) = Raw(b) => a = b
      /\ \A r : EncodeRune(r).rune = r /\ Raw(r).rune = r /\ Raw(r).escape = "none"
      /\ \A r \in Rune : EncodeRune(r).escape # "long" <=> Size[r] < 3
  <2>1. \A a, b : Raw(a) = Raw(b) => a = b
    BY DEF Raw
  <2>2. ASSUME NEW r PROVE EncodeRune(r).rune = r /\ Raw(r).rune = r /\ Raw(r).escape = "none"
    BY DEF EncodeRune, Raw, Escaped
  <2>3. ASSUME NEW r \in Rune PROVE EncodeRune(r).escape # "long" <=> Size[r] < 3
    <3>1. CASE Size[r] = 1
      BY <3>1 DEF EncodeRune, Raw
    <3>2. CASE Size[r] = 2
      BY <3>2 DEF EncodeRune, Escaped
    <3>3. CASE Size[r] \in {3, 4}
      BY <3>3 DEF EncodeRune, Escaped
    <3>4. Size[r] = 1 \/ Size[r] = 2 \/ Size[r] \in {3, 4}
      BY SerializerAssumption
    <3> QED  BY <3>1, <3>2, <3>3, <3>4
  <2> QED  BY <2>1, <2>2, <2>3
<1>3. TextOf(w) = text
  <2>1. \A x \in 1..Len(text) : w[x + 1].rune = text[x]
    BY <1>1, <1>2
  <2>2. TextOf(w) = [x \in 1..Len(text) |-> text[x]]
    BY <1>1, <2>1 DEF TextOf
  <2> QED  BY <2>2
<1>4. IsBatch(w) = isList
  <2>1. CASE isList
    <3>1. w[1] = Raw("bracket") /\ 1 \in DOMAIN w
      BY <1>1, <2>1 DEF Opening
    <3>3. \A j \in 1..1 - 1 : w[j] # Raw("brace")
      OBVIOUS
    <3>2. IsBatch(w)
      BY <3>1, <3>3, Zenon DEF IsBatch
    <3> QED  BY <2>1, <3>2, Zenon
  <2>2. CASE ~isList
    <3>1. ASSUME NEW x \in DOMAIN w, w[x] = Raw("bracket"), \A j \in 1..x - 1 : w[j] # Raw("brace")
          PROVE  FALSE
      <4>1. x # 1 /\ x \in 1..Len(text) + 1
        BY <1>1, <1>2, <2>2, <3>1 DEF Opening
      <4>2. 1 \in 1..x - 1
        BY <4>1
      <4> QED  BY <1>1, <2>2, <3>1, <4>2 DEF Opening
    <3> QED  BY <2>2, <3>1 DEF IsBatch
  <2> QED  BY <2>1, <2>2
<1>5. \A l \in BOOLEAN : OpensWith(w, Opening(l)) <=> l = isList
  <2>1. \A l \in BOOLEAN : Opening(l) = Opening(isList) => l = isList
    <3>1. Opening(TRUE) # Opening(FALSE)
      BY DEF Opening
    <3>2. ASSUME NEW l \in BOOLEAN, Opening(l) = Opening(isList), l # isList PROVE FALSE
      <4>1. (l = TRUE /\ isList = FALSE) \/ (l = FALSE /\ isList = TRUE)
        BY <3>2
      <4> QED  BY <3>1, <3>2, <4>1
    <3> QED  BY <3>2
  <2> QED  BY <1>1, <1>2, <2>1 DEF OpensWith
<1>6. ReadableJson(w) <=> (force => Narrow(text))
  <2>1. \A x \in 1..Len(text) : w[x + 1].escape # "long" <=> (force => Size[text[x]] < 3)
    BY <1>1, <1>2
  <2>2. w[1].escape # "long"
    BY <1>1 DEF Raw
  <2>3. ReadableJson(w) <=> \A x \in 1..Len(text) : w[x + 1].escape # "long"
    <3>1. \A y \in DOMAIN w : y = 1 \/ (y - 1 \in 1..Len(text) /\ y = (y - 1) + 1)
      BY <1>1
    <3>2. \A x \in 1..Len(text) : x + 1 \in DOMAIN w
      BY <1>1
    <3> QED  BY <2>2, <3>1, <3>2 DEF ReadableJson
  <2> QED  BY <2>1, <2>3 DEF Narrow
<1> QED  BY <1>3, <1>4, <1>5, <1>6

-----------------------------------------------------------------------------
(* The invariant.                                                          *)
HookRuns(c) == IF c \in Hooked THEN 1 ELSE 0
Hooks(before, after) == [before |-> before, after |-> after]
Unsent(e) == e \notin inFlight /\ status[e] = "idle" /\ ran[e] = 0
Expected(e) == IF Legible(e) THEN sent[e].ids ELSE <<NoId>>

\* What a caller is doing, it does for its last exchange.
CallerInv(c) ==
  LET e == Current(c)
  IN /\ pc[c] # "idle" =>
          e \in Exchange /\ sent[e] \in Body /\ sent[e].marshals /\ outcome[e] = Nothing
     /\ pc[c] \in {"request", "jar", "do"} => Unsent(e)
     /\ pc[c] = "request" => hooks[e] = Hooks(0, 0)
     /\ pc[c] \in {"jar", "do", "wait", "body", "after"} => hooks[e] = Hooks(HookRuns(c), 0)
     /\ pc[c] = "decode" => hooks[e] = Hooks(HookRuns(c), HookRuns(c))
     /\ pc[c] \in {"body", "after", "decode"} => from[c] = e /\ status[e] = "answered"

\* An exchange leaves its caller only with a body, once, and behind its hook.
DeliveryInv(e) ==
  /\ e[2] > n[e[1]] =>
       sent[e] = NoBody /\ Unsent(e) /\ outcome[e] = Nothing /\ hooks[e] = Hooks(0, 0)
  /\ e[2] <= n[e[1]] => sent[e] \in Body
  /\ ~Unsent(e) => sent[e].marshals /\ hooks[e].before = HookRuns(e[1])
  /\ e \in inFlight => status[e] = "idle"
  /\ outcome[e].kind = "unsent" => Unsent(e) /\ ~sent[e].marshals

\* The server runs each call of what it has accepted once.
ServerInv(e) ==
  /\ status[e] = "idle" => ran[e] = 0 /\ done[e] = 0 /\ runs[e] = 0
  /\ status[e] = "pending" =>
       /\ Legible(e) /\ work[e] = sent[e].ids
       /\ ran[e] <= done[e] + runs[e] /\ done[e] + runs[e] <= Len(work[e])
  /\ status[e] # "idle" => ran[e] <= Len(sent[e].ids)
  /\ status[e] = "answered" => answer[e] = Expected(e)

\* An answer is that of the exchange, and what it says is what was sent.
OutcomeInv(e) ==
  /\ outcome[e].kind = "answered" =>
       /\ status[e] = "answered" /\ outcome[e].ids = answer[e]
       /\ outcome[e].text = (IF Legible(e) THEN sent[e].text ELSE <<>>)
       /\ ServerASCII => Narrow(outcome[e].text)
  /\ hooks[e].after <= hooks[e].before /\ hooks[e].before <= HookRuns(e[1])
  /\ hooks[e].after = 1 => status[e] = "answered"
  /\ outcome[e].kind \in {"unreadable", "answered"} => hooks[e].after = HookRuns(e[1])

\* A jar is set between Before and Do, and only another transport's takes its place.
JarInv ==
  /\ \A c \in Caller :
       pc[c] = "do" /\ JarOf[Current(c)] # NoJar /\ ClientOf[c] # NoClient =>
         \/ jar[ClientOf[c]] = JarOf[Current(c)]
         \/ <<Current(c), jar[ClientOf[c]]>> \in overtaken
  /\ \A e \in Exchange : JarOf[e] # NoJar /\ ~Unsent(e) =>
       sentWith[e] = JarOf[e] \/ <<e, sentWith[e]>> \in overtaken

ServerTypeOK ==
  /\ work \in [Exchange -> Seq(Id)] /\ done \in [Exchange -> Nat] /\ runs \in [Exchange -> 0..1]
  /\ answer \in [Exchange -> Seq(Id \cup {NoId})]

ExchangeInv(e) == DeliveryInv(e) /\ ServerInv(e) /\ OutcomeInv(e)

IInv ==
  /\ TypeOK /\ ServerTypeOK /\ JarInv
  /\ \A c \in Caller : CallerInv(c)
  /\ \A e \in Exchange : ExchangeInv(e)

-----------------------------------------------------------------------------
(* Data.                                                                   *)
LEMMA ExchangeParts ==
  /\ \A e \in Exchange : e[1] \in Caller /\ e[2] \in 1..MaxCalls[e[1]] /\ e = <<e[1], e[2]>>
  /\ \A c \in Caller : \A x \in 1..MaxCalls[c] : <<c, x>> \in Exchange
<1>1. ASSUME NEW e \in Exchange
      PROVE  e[1] \in Caller /\ e[2] \in 1..MaxCalls[e[1]] /\ e = <<e[1], e[2]>>
  <2>1. PICK c \in Caller : e \in {c} \X (1..MaxCalls[c])
    BY DEF Exchange
  <2> QED  BY <2>1
<1>2. ASSUME NEW c \in Caller, NEW x \in 1..MaxCalls[c] PROVE <<c, x>> \in Exchange
  <2>1. <<c, x>> \in {c} \X (1..MaxCalls[c])
    OBVIOUS
  <2> QED  BY <2>1 DEF Exchange
<1> QED  BY <1>1, <1>2

LEMMA LimitType == MaxCalls \in [Caller -> Nat]
BY ClientAssumption

\* Every body has the fields of one.
LEMMA BodyType ==
  ASSUME NEW b \in Body
  PROVE  b.batch \in BOOLEAN /\ b.ids \in Seq(Id) /\ b.text \in Seq(Rune) /\ b.marshals \in BOOLEAN
BY ClientAssumption

\* The server can decode what is legible, and nothing else.
LEMMA DecodableLegible ==
  ASSUME NEW e \in Exchange, sent[e] \in Body
  PROVE  Decodable(e) <=> Legible(e)
<1> DEFINE force == e[1] \in ForceASCII
<1>1. force \in BOOLEAN
  OBVIOUS
<1>2. /\ IsBatch(RequestBytes(e)) \in BOOLEAN
      /\ OpensWith(RequestBytes(e), Opening(IsBatch(RequestBytes(e))))
      /\ ReadableJson(RequestBytes(e)) <=> (force => Narrow(sent[e].text))
  BY <1>1, BodyType, MarshalMeans DEF RequestBytes
<1> QED  BY <1>2 DEF Decodable, Legible

\* A response that can be read says what the request said, or that it could not be
\* read itself.
LEMMA ResponseText ==
  ASSUME NEW e \in Exchange, sent[e] \in Body
  PROVE  /\ TextOf(ResponseBytes(e)) = IF Legible(e) THEN sent[e].text ELSE <<>>
         /\ ReadableJson(ResponseBytes(e)) /\ ServerASCII => Narrow(TextOf(ResponseBytes(e)))
<1> DEFINE wire == RequestBytes(e)
           force == e[1] \in ForceASCII
<1>1. TextOf(wire) = sent[e].text /\ IsBatch(wire) = sent[e].batch
  <2>1. force \in BOOLEAN
    OBVIOUS
  <2> QED  BY <2>1, BodyType, MarshalMeans DEF RequestBytes
<1>2. ResponseBytes(e) = IF Legible(e) THEN Marshal(sent[e].batch, sent[e].text, ServerASCII)
                                       ELSE Marshal(sent[e].batch, <<>>, FALSE)
  BY <1>1, DecodableLegible DEF ResponseBytes
<1>3. CASE Legible(e)
  BY <1>2, <1>3, BodyType, MarshalMeans, ClientAssumption
<1>4. CASE ~Legible(e)
  <2>1. <<>> \in Seq(Rune) /\ Narrow(<<>>)
    BY DEF Narrow
  <2>2. TextOf(ResponseBytes(e)) = <<>>
    BY <1>2, <1>4, <2>1, BodyType, MarshalMeans
  <2> QED  BY <1>4, <2>1, <2>2
<1> QED  BY <1>3, <1>4

LEMMA InvInit == Init => IInv
<1> SUFFICES ASSUME Init PROVE IInv
  OBVIOUS
<1> USE DEF Init, Service!Init
<1>1. TypeOK
  <2>1. Nothing \in [kind : Kinds, ids : Seq(Id \cup {NoId}), text : Seq(Rune)]
    BY DEF Nothing, Outcome, Kinds
  <2> QED  BY <2>1, ClientAssumption DEF TypeOK
<1>2. ServerTypeOK /\ JarInv
  BY DEF ServerTypeOK, JarInv, Unsent
<1>3. \A c \in Caller : CallerInv(c)
  BY DEF CallerInv
<1>4. \A e \in Exchange : ExchangeInv(e)
  BY ExchangeParts DEF ExchangeInv, DeliveryInv, ServerInv, OutcomeInv, Unsent, Nothing, Outcome, Hooks, HookRuns
<1> QED  BY <1>1, <1>2, <1>3, <1>4 DEF IInv

-----------------------------------------------------------------------------
(* The network and the server.                                             *)
Same(d) ==
  /\ d \in inFlight' <=> d \in inFlight
  /\ status'[d] = status[d] /\ ran'[d] = ran[d]
  /\ work'[d] = work[d] /\ done'[d] = done[d] /\ runs'[d] = runs[d] /\ answer'[d] = answer[d]

\* What happens to one exchange there, its caller and all others do not notice.
LEMMA ServerFrame ==
  ASSUME IInv, NEW e \in Exchange, UNCHANGED client,
         ~Unsent(e), ~Unsent(e)', status[e] # "answered",
         \A d \in Exchange \ {e} : Same(d)
  PROVE  /\ JarInv' /\ \A c \in Caller : CallerInv(c)'
         /\ \A d \in Exchange \ {e} : ExchangeInv(d)'
<1>1. JarInv'
  BY DEF IInv, JarInv, client, Unsent, Current, Same
<1>2. ASSUME NEW c \in Caller PROVE CallerInv(c)'
  <2>1. Current(c)' = Current(c)
    BY DEF client, Current
  <2>2. CASE Current(c) = e
    BY <2>1, <2>2 DEF IInv, CallerInv, client
  <2>3. CASE Current(c) # e /\ Current(c) \in Exchange
    BY <2>1, <2>3 DEF IInv, CallerInv, client, Same, Unsent
  <2>4. CASE Current(c) \notin Exchange
    BY <2>1, <2>4 DEF IInv, CallerInv, client, TypeOK
  <2> QED  BY <2>2, <2>3, <2>4
<1>3. ASSUME NEW d \in Exchange \ {e} PROVE ExchangeInv(d)'
  <2>1. Unsent(d)' = Unsent(d) /\ Legible(d)' = Legible(d) /\ Expected(d)' = Expected(d)
    BY DEF Same, Unsent, Legible, Expected, client
  <2>2. ExchangeInv(d)
    BY DEF IInv
  <2> QED  BY <2>1, <2>2 DEF Same, client, ExchangeInv, DeliveryInv, ServerInv, OutcomeInv
<1> QED  BY <1>1, <1>2, <1>3

\* An exchange that was sent is one the caller began.
LEMMA SentBody ==
  ASSUME IInv, NEW e \in Exchange, ~Unsent(e)
  PROVE  /\ e[2] <= n[e[1]] /\ sent[e] \in Body /\ sent[e].ids \in Seq(Id)
         /\ outcome[e].kind # "unsent" /\ hooks[e].before = HookRuns(e[1])
<1>1. e[2] \in Nat /\ n[e[1]] \in Nat
  BY ExchangeParts DEF IInv, TypeOK
<1>2. DeliveryInv(e)
  BY DEF IInv, ExchangeInv
<1> QED  BY <1>1, <1>2, BodyType DEF DeliveryInv

LEMMA ArriveKeeps == ASSUME IInv, NEW e \in Exchange, Arrive(e) PROVE IInv'
<1> USE DEF Service!Accept, Service!Malformed
<1>1. ~Unsent(e) /\ status[e] = "idle" /\ e \in inFlight
  BY DEF Arrive, IInv, ExchangeInv, DeliveryInv, Unsent
<1>2. sent[e] \in Body /\ sent[e].ids \in Seq(Id)
  BY <1>1, SentBody
<1>3. CASE Legible(e)
  <2>1. /\ inFlight' = inFlight \ {e} /\ status' = [status EXCEPT ![e] = "pending"]
        /\ work' = [work EXCEPT ![e] = sent[e].ids] /\ UNCHANGED <<client, ran, done, runs, answer>>
    BY <1>2, <1>3, DecodableLegible DEF Arrive
  <2>2. TypeOK' /\ ServerTypeOK'
    BY <1>2, <2>1 DEF IInv, TypeOK, ServerTypeOK, client
  <2>3. \A d \in Exchange \ {e} : Same(d)
    BY <2>1 DEF IInv, TypeOK, ServerTypeOK, Same
  <2>4. status'[e] = "pending" /\ work'[e] = sent[e].ids /\ ~Unsent(e)' /\ e \notin inFlight'
    BY <2>1 DEF IInv, TypeOK, ServerTypeOK, Unsent
  <2>5. ExchangeInv(e)'
    <3>1. ExchangeInv(e)
      BY DEF IInv
    <3>2. Len(sent[e].ids) \in Nat /\ Legible(e)'
      BY <1>2, <1>3, <2>1 DEF Legible, client
    <3>3. DeliveryInv(e)' /\ OutcomeInv(e)'
      BY <1>1, <2>1, <2>4, <3>1 DEF ExchangeInv, DeliveryInv, OutcomeInv, client
    <3>4. ServerInv(e)'
      BY <1>1, <2>1, <2>4, <3>1, <3>2 DEF ExchangeInv, ServerInv, client
    <3> QED  BY <3>3, <3>4 DEF ExchangeInv
  <2> QED  BY <1>1, <2>1, <2>2, <2>3, <2>4, <2>5, ServerFrame DEF IInv
<1>4. CASE ~Legible(e)
  <2>1. /\ inFlight' = inFlight \ {e} /\ status' = [status EXCEPT ![e] = "answered"]
        /\ answer' = [answer EXCEPT ![e] = <<NoId>>] /\ UNCHANGED <<client, ran, work, done, runs>>
    BY <1>2, <1>4, DecodableLegible DEF Arrive
  <2>2. TypeOK' /\ ServerTypeOK'
    <3>1. <<NoId>> \in Seq(Id \cup {NoId})
      OBVIOUS
    <3> QED  BY <2>1, <3>1 DEF IInv, TypeOK, ServerTypeOK, client
  <2>3. \A d \in Exchange \ {e} : Same(d)
    BY <2>1 DEF IInv, TypeOK, ServerTypeOK, Same
  <2>4. status'[e] = "answered" /\ answer'[e] = <<NoId>> /\ ~Unsent(e)' /\ e \notin inFlight'
    BY <2>1 DEF IInv, TypeOK, ServerTypeOK, Unsent
  <2>5. ExchangeInv(e)'
    <3>1. ExchangeInv(e)
      BY DEF IInv
    <3>2. Len(sent[e].ids) \in Nat /\ Expected(e)' = <<NoId>>
      BY <1>2, <1>4, <2>1 DEF Legible, Expected, client
    <3>3. DeliveryInv(e)' /\ OutcomeInv(e)'
      BY <1>1, <2>1, <2>4, <3>1 DEF ExchangeInv, DeliveryInv, OutcomeInv, client
    <3>4. ServerInv(e)'
      BY <1>1, <2>1, <2>4, <3>1, <3>2 DEF ExchangeInv, ServerInv, client
    <3> QED  BY <3>3, <3>4 DEF ExchangeInv
  <2> QED  BY <1>1, <2>1, <2>2, <2>3, <2>4, <2>5, ServerFrame DEF IInv
<1> QED  BY <1>3, <1>4

LEMMA ServeKeeps ==
  ASSUME IInv, NEW e \in Exchange, ServerRuns(e) \/ Serve(e)
  PROVE  IInv'
<1> USE DEF Service!Run, Service!Finish, Service!Answer, Service!Abort
<1>1. status[e] = "pending" /\ UNCHANGED <<client, inFlight, work>>
  BY DEF ServerRuns, Serve
<1>2. ~Unsent(e) /\ ExchangeInv(e)
  BY <1>1 DEF Unsent, IInv
<1>3. /\ Legible(e) /\ work[e] = sent[e].ids /\ Len(work[e]) \in Nat
      /\ ran[e] <= done[e] + runs[e] /\ done[e] + runs[e] <= Len(work[e])
      /\ ran[e] \in Nat /\ done[e] \in Nat /\ runs[e] \in 0..1
  BY <1>1, <1>2 DEF ExchangeInv, ServerInv, IInv, TypeOK, ServerTypeOK
<1>4. \A d \in Exchange \ {e} : Same(d)
  BY <1>1 DEF ServerRuns, Serve, IInv, TypeOK, ServerTypeOK, Same
<1>5. TypeOK' /\ ServerTypeOK'
  <2>1. CASE ServerRuns(e)
    <3>1. /\ runs' = [runs EXCEPT ![e] = 1] /\ ran' = [ran EXCEPT ![e] = @ + 1]
          /\ UNCHANGED <<client, inFlight, status, work, done, answer>>
      BY <2>1 DEF ServerRuns
    <3>2. ran' \in [Exchange -> Nat] /\ runs' \in [Exchange -> 0..1]
      BY <3>1 DEF IInv, TypeOK, ServerTypeOK
    <3> QED  BY <3>1, <3>2 DEF IInv, TypeOK, ServerTypeOK, client
  <2>2. CASE Service!Finish(e) /\ UNCHANGED ran
    <3>1. TypeOK'
      BY <1>1, <2>2 DEF IInv, TypeOK, client
    <3>2. ServerTypeOK'
      BY <1>1, <2>2 DEF IInv, ServerTypeOK
    <3> QED  BY <3>1, <3>2
  <2>3. CASE Service!Answer(e) /\ UNCHANGED ran
    <3>1. work[e] \in Seq(Id \cup {NoId})
      BY DEF IInv, ServerTypeOK
    <3> QED  BY <1>1, <2>3, <3>1 DEF IInv, TypeOK, ServerTypeOK, client
  <2>4. CASE Service!Abort(e) /\ UNCHANGED ran
    BY <1>1, <2>4 DEF IInv, TypeOK, ServerTypeOK, client
  <2> QED  BY <2>1, <2>2, <2>3, <2>4 DEF Serve
<1>6. /\ status'[e] \in {"pending", "answered", "aborted"} /\ ~Unsent(e)'
      /\ status'[e] = "pending" => ran'[e] <= done'[e] + runs'[e] /\ done'[e] + runs'[e] <= Len(work[e])
      /\ ran'[e] <= Len(work[e])
      /\ status'[e] = "answered" => answer'[e] = work[e]
  <2>1. CASE ServerRuns(e)
    BY <1>3, <2>1 DEF ServerRuns, IInv, TypeOK, ServerTypeOK, Unsent
  <2>2. CASE Service!Finish(e) /\ UNCHANGED <<ran, inFlight>>
    BY <1>3, <2>2 DEF IInv, TypeOK, ServerTypeOK, Unsent
  <2>3. CASE Service!Answer(e) /\ UNCHANGED <<ran, inFlight>>
    BY <1>3, <2>3 DEF IInv, TypeOK, ServerTypeOK, Unsent
  <2>4. CASE Service!Abort(e) /\ UNCHANGED <<ran, inFlight>>
    BY <1>3, <2>4 DEF IInv, TypeOK, ServerTypeOK, Unsent
  <2> QED  BY <2>1, <2>2, <2>3, <2>4 DEF Serve
<1>7. ExchangeInv(e)'
  <2>1. Legible(e)' /\ Expected(e)' = work[e] /\ sent'[e].ids = work[e] /\ work'[e] = work[e]
    BY <1>1, <1>3 DEF client, Legible, Expected
  <2>2. ServerInv(e)'
    BY <1>6, <2>1 DEF ServerInv
  <2>3. DeliveryInv(e)' /\ OutcomeInv(e)'
    BY <1>1, <1>2, <1>6, SentBody DEF ExchangeInv, DeliveryInv, OutcomeInv, client, Unsent
  <2> QED  BY <2>2, <2>3 DEF ExchangeInv
<1> QED  BY <1>1, <1>2, <1>4, <1>5, <1>6, <1>7, ServerFrame DEF IInv

-----------------------------------------------------------------------------
(* The callers.                                                            *)
Untouched(x) ==
  /\ sent'[x] = sent[x] /\ hooks'[x] = hooks[x] /\ outcome'[x] = outcome[x]
  /\ x \in inFlight' <=> x \in inFlight

\* A step of a caller is one of its last exchange; other callers and exchanges do
\* not notice.
LEMMA CallerFrame ==
  ASSUME IInv, NEW c \in Caller, NEW e \in Exchange, e = Current(c)',
         n'[c] = n[c] \/ (n'[c] = n[c] + 1), UNCHANGED <<ran, server>>,
         \A d \in Caller \ {c} : pc'[d] = pc[d] /\ n'[d] = n[d] /\ from'[d] = from[d],
         \A x \in Exchange \ {e} : Untouched(x),
         TypeOK', JarInv', CallerInv(c)', ExchangeInv(e)'
  PROVE  IInv'
<1>1. ServerTypeOK'
  BY DEF IInv, ServerTypeOK, server
<1>2. ASSUME NEW d \in Caller \ {c} PROVE CallerInv(d)'
  <2>1. Current(d)' = Current(d) /\ Current(d) # e
    BY DEF Current
  <2>2. CASE Current(d) \in Exchange
    BY <2>1, <2>2 DEF IInv, CallerInv, Untouched, Unsent, server
  <2>3. CASE Current(d) \notin Exchange
    BY <2>1, <2>3 DEF IInv, CallerInv, TypeOK
  <2> QED  BY <2>2, <2>3
<1>3. ASSUME NEW x \in Exchange \ {e} PROVE ExchangeInv(x)'
  <2>1. /\ x[1] \in Caller /\ x[2] \in Nat /\ n[x[1]] \in Nat
        /\ x = <<x[1], x[2]>> /\ e = <<c, n'[c]>>
    BY ExchangeParts DEF IInv, TypeOK, Current
  <2>2. (x[2] > n'[x[1]] <=> x[2] > n[x[1]]) /\ (x[2] <= n'[x[1]] <=> x[2] <= n[x[1]])
    <3>1. CASE x[1] = c
      <4>1. x[2] # n'[c]
        BY <2>1, <3>1
      <4> QED  BY <2>1, <3>1, <4>1
    <3>2. CASE x[1] # c
      BY <2>1, <3>2
    <3> QED  BY <3>1, <3>2
  <2>3. Unsent(x)' = Unsent(x) /\ Legible(x)' = Legible(x) /\ Expected(x)' = Expected(x)
    BY DEF Untouched, Unsent, Legible, Expected, server
  <2>4. ExchangeInv(x) /\ Untouched(x)
    BY DEF IInv
  <2>5. DeliveryInv(x)'
    BY <2>2, <2>3, <2>4 DEF Untouched, server, ExchangeInv, DeliveryInv
  <2>6. ServerInv(x)' /\ OutcomeInv(x)'
    BY <2>3, <2>4 DEF Untouched, server, ExchangeInv, ServerInv, OutcomeInv
  <2> QED  BY <2>5, <2>6 DEF ExchangeInv
<1> QED  BY <1>1, <1>2, <1>3 DEF IInv

\* Only SetJar and Do have to do with jars.
LEMMA JarKept ==
  ASSUME JarInv, UNCHANGED <<jar, sentWith, overtaken, inFlight, ran, server>>,
         \A c \in Caller : pc'[c] = "do" => pc[c] = "do" /\ n'[c] = n[c]
  PROVE  JarInv'
BY DEF JarInv, Unsent, Current, server

\* The last exchange of a caller that is at work.
LEMMA AtWork ==
  ASSUME IInv, NEW c \in Caller, pc[c] # "idle", UNCHANGED n
  PROVE  /\ Current(c) \in Exchange /\ Current(c)' = Current(c) /\ Current(c)[1] = c
         /\ Current(c)[2] = n[c] /\ n[c] \in Nat
         /\ sent[Current(c)] \in Body /\ sent[Current(c)].marshals /\ outcome[Current(c)] = Nothing
         /\ CallerInv(c) /\ ExchangeInv(Current(c))
BY DEF IInv, CallerInv, Current, TypeOK

LEMMA BeginKeeps ==
  ASSUME IInv, NEW c \in Caller, NEW b \in BodiesOf[c], Begin(c, b), NEW e, e = <<c, n[c] + 1>>
  PROVE  IInv'
<1>1. /\ n[c] \in Nat /\ n[c] + 1 \in 1..MaxCalls[c] /\ b \in Body
      /\ e \in Exchange /\ e[1] = c /\ e[2] = n[c] + 1
  <2>1. n[c] \in Nat /\ n[c] + 1 \in 1..MaxCalls[c]
    <3>1. n[c] \in Nat /\ MaxCalls[c] \in Nat
      BY LimitType DEF IInv, TypeOK
    <3>2. n[c] < MaxCalls[c]
      BY DEF Begin
    <3> QED  BY <3>1, <3>2
  <2> QED  BY <2>1, ExchangeParts DEF Body
<1>2. /\ sent[e] = NoBody /\ Unsent(e) /\ outcome[e] = Nothing /\ hooks[e] = Hooks(0, 0)
      /\ ExchangeInv(e)
  BY <1>1 DEF IInv, ExchangeInv, DeliveryInv
<1>3. /\ n' = [n EXCEPT ![c] = @ + 1] /\ sent' = [sent EXCEPT ![e] = b]
      /\ UNCHANGED <<inFlight, jar, sentWith, overtaken, hooks, from, ran, server>> /\ pc[c] = "idle"
      /\ \/ b.marshals /\ pc' = [pc EXCEPT ![c] = "request"] /\ UNCHANGED outcome
         \/ /\ ~b.marshals /\ pc' = [pc EXCEPT ![c] = "idle"]
            /\ outcome' = [outcome EXCEPT ![e] = Outcome("unsent", <<>>, <<>>)]
  BY DEF Begin, ReturnsError, Returns
<1>4. TypeOK'
  <2>1. Outcome("unsent", <<>>, <<>>) \in [kind : Kinds, ids : Seq(Id \cup {NoId}), text : Seq(Rune)]
    BY DEF Outcome, Kinds
  <2>2. n' \in [Caller -> Nat] /\ \A d \in Caller : n'[d] <= MaxCalls[d]
    BY <1>1, <1>3 DEF IInv, TypeOK
  <2>3. inFlight' \subseteq {x \in Exchange : sent'[x] # NoBody /\ sent'[x].marshals}
    BY <1>1, <1>2, <1>3 DEF IInv, TypeOK, Unsent
  <2>4. sent' \in [Exchange -> Body \cup {NoBody}]
    BY <1>1, <1>3 DEF IInv, TypeOK
  <2>5. outcome' \in [Exchange -> [kind : Kinds, ids : Seq(Id \cup {NoId}), text : Seq(Rune)]]
    BY <1>3, <2>1 DEF IInv, TypeOK
  <2> QED  BY <1>3, <2>2, <2>3, <2>4, <2>5 DEF IInv, TypeOK, server
<1>5. JarInv'
  BY <1>3, JarKept DEF IInv, TypeOK
<1>6. Current(c)' = e /\ n'[c] = n[c] + 1
  BY <1>1, <1>3 DEF IInv, TypeOK, Current
<1>7. sent'[e] = b /\ Unsent(e)' /\ hooks'[e] = Hooks(0, 0)
  <2>1. sent'[e] = b
    BY <1>1, <1>3 DEF IInv, TypeOK
  <2> QED  BY <1>2, <1>3, <2>1 DEF Unsent, server
<1>8. CallerInv(c)'
  BY <1>1, <1>2, <1>3, <1>6, <1>7 DEF CallerInv, IInv, TypeOK
<1>9. ExchangeInv(e)'
  <2>1. outcome'[e].kind \in {"none", "unsent"} /\ (outcome'[e].kind = "unsent" => ~b.marshals)
    BY <1>1, <1>2, <1>3 DEF IInv, TypeOK, Nothing, Outcome
  <2>2. status'[e] = "idle"
    BY <1>7 DEF Unsent
  <2>3. DeliveryInv(e)'
    BY <1>1, <1>6, <1>7, <2>1, <2>2 DEF DeliveryInv, Unsent
  <2>4. ServerInv(e)'
    BY <1>2, <1>3, <2>2 DEF ExchangeInv, ServerInv, server
  <2>5. OutcomeInv(e)'
    BY <1>7, <2>1 DEF OutcomeInv, Hooks, HookRuns
  <2> QED  BY <2>3, <2>4, <2>5 DEF ExchangeInv
<1>10. \A d \in Caller \ {c} : pc'[d] = pc[d] /\ n'[d] = n[d] /\ from'[d] = from[d]
  BY <1>3 DEF IInv, TypeOK
<1>11. \A x \in Exchange \ {e} : Untouched(x)
  BY <1>3 DEF IInv, TypeOK, Untouched
<1> QED  BY <1>1, <1>3, <1>4, <1>5, <1>6, <1>8, <1>9, <1>10, <1>11, CallerFrame

\* Returning an error, for a reason other than a failed Marshal.
LEMMA ErrorKeeps ==
  ASSUME IInv, NEW c \in Caller, NEW e, e = Current(c), NEW kind \in {"failed"},
         ReturnsError(c, e, kind), pc[c] # "idle",
         UNCHANGED <<n, sent, inFlight, jar, sentWith, overtaken, hooks, from, ran, server>>
  PROVE  IInv'
<1>1. /\ e \in Exchange /\ e = Current(c)' /\ e[1] = c /\ e[2] = n[c] /\ n[c] \in Nat
      /\ sent[e] \in Body /\ ExchangeInv(e) /\ outcome[e] = Nothing
  BY AtWork
<1>2. /\ pc' = [pc EXCEPT ![c] = "idle"]
      /\ outcome' = [outcome EXCEPT ![e] = Outcome("failed", <<>>, <<>>)]
  BY DEF ReturnsError, Returns
<1>3. TypeOK'
  <2>1. Outcome("failed", <<>>, <<>>) \in [kind : Kinds, ids : Seq(Id \cup {NoId}), text : Seq(Rune)]
    BY DEF Outcome, Kinds
  <2> QED  BY <1>2, <2>1 DEF IInv, TypeOK, server
<1>4. JarInv'
  BY <1>2, JarKept DEF IInv, TypeOK
<1>5. CallerInv(c)'
  BY <1>2 DEF CallerInv, IInv, TypeOK
<1>6. outcome'[e].kind = "failed"
  BY <1>1, <1>2 DEF IInv, TypeOK, Outcome
<1>7. ExchangeInv(e)'
  <2>1. DeliveryInv(e)'
    BY <1>1, <1>6 DEF ExchangeInv, DeliveryInv, Unsent, server
  <2>2. ServerInv(e)'
    BY <1>1 DEF ExchangeInv, ServerInv, Legible, Expected, server
  <2>3. OutcomeInv(e)'
    BY <1>1, <1>6 DEF ExchangeInv, OutcomeInv, server
  <2> QED  BY <2>1, <2>2, <2>3 DEF ExchangeInv
<1>8. /\ \A d \in Caller \ {c} : pc'[d] = pc[d] /\ n'[d] = n[d] /\ from'[d] = from[d]
      /\ \A x \in Exchange \ {e} : Untouched(x)
  BY <1>2 DEF IInv, TypeOK, Untouched
<1> QED  BY <1>1, <1>3, <1>4, <1>5, <1>7, <1>8, CallerFrame

\* The hooks run once each, around the exchange.
LEMMA HookKeeps ==
  ASSUME IInv, NEW c \in Caller, NEW e, e = Current(c), Before(c) \/ After(c)
  PROVE  IInv'
<1>1. /\ pc[c] \in {"request", "after"}
      /\ pc' = [pc EXCEPT ![c] = IF pc[c] = "request" THEN "jar" ELSE "decode"]
      /\ UNCHANGED <<n, sent, inFlight, jar, sentWith, overtaken, from, outcome, ran, server>>
      /\ pc[c] = "request" =>
           hooks' = IF c \in Hooked THEN [hooks EXCEPT ![e].before = @ + 1] ELSE hooks
      /\ pc[c] = "after" =>
           hooks' = IF c \in Hooked THEN [hooks EXCEPT ![e].after = @ + 1] ELSE hooks
  BY DEF Before, After, At
<1>2. /\ e \in Exchange /\ e = Current(c)' /\ e[1] = c /\ e[2] = n[c] /\ n[c] \in Nat
      /\ sent[e] \in Body /\ ExchangeInv(e) /\ outcome[e] = Nothing /\ CallerInv(c)
  BY <1>1, AtWork
<1>3. /\ pc[c] = "request" => hooks[e] = Hooks(0, 0) /\ Unsent(e)
      /\ pc[c] = "after" => hooks[e] = Hooks(HookRuns(c), 0) /\ status[e] = "answered" /\ from[c] = e
  BY <1>2 DEF CallerInv
<1>4. hooks' = [hooks EXCEPT ![e] = IF pc[c] = "request" THEN Hooks(HookRuns(c), 0)
                                    ELSE Hooks(HookRuns(c), HookRuns(c))]
  <2>1. CASE pc[c] = "request"
    BY <1>1, <1>2, <1>3, <2>1 DEF IInv, TypeOK, Hooks, HookRuns
  <2>2. CASE pc[c] = "after"
    BY <1>1, <1>2, <1>3, <2>2 DEF IInv, TypeOK, Hooks, HookRuns
  <2> QED  BY <1>1, <2>1, <2>2
<1>5. TypeOK'
  <2>1. hooks' \in [Exchange -> [before : 0..1, after : 0..1]]
    <3>1. /\ Hooks(HookRuns(c), 0) \in [before : 0..1, after : 0..1]
          /\ Hooks(HookRuns(c), HookRuns(c)) \in [before : 0..1, after : 0..1]
      BY DEF Hooks, HookRuns
    <3> QED  BY <1>4, <3>1 DEF IInv, TypeOK
  <2> QED  BY <1>1, <2>1 DEF IInv, TypeOK, server
<1>6. JarInv'
  BY <1>1, JarKept DEF IInv, TypeOK
<1>7. hooks'[e] = IF pc[c] = "request" THEN Hooks(HookRuns(c), 0) ELSE Hooks(HookRuns(c), HookRuns(c))
  BY <1>2, <1>4 DEF IInv, TypeOK
<1>8. CallerInv(c)'
  <2>1. pc'[c] = IF pc[c] = "request" THEN "jar" ELSE "decode"
    BY <1>1 DEF IInv, TypeOK
  <2>2. Unsent(e)' = Unsent(e) /\ from'[c] = from[c]
    BY <1>1 DEF Unsent, server
  <2> QED  BY <1>1, <1>2, <1>3, <1>7, <2>1, <2>2 DEF CallerInv, server
<1>9. ExchangeInv(e)'
  <2>1. DeliveryInv(e)'
    BY <1>1, <1>2, <1>7 DEF ExchangeInv, DeliveryInv, Unsent, server, Hooks
  <2>2. ServerInv(e)'
    BY <1>1, <1>2 DEF ExchangeInv, ServerInv, Legible, Expected, server
  <2>3. OutcomeInv(e)'
    BY <1>1, <1>2, <1>3, <1>7 DEF ExchangeInv, OutcomeInv, server, Hooks, HookRuns, Nothing, Outcome
  <2> QED  BY <2>1, <2>2, <2>3 DEF ExchangeInv
<1>10. /\ \A d \in Caller \ {c} : pc'[d] = pc[d] /\ n'[d] = n[d] /\ from'[d] = from[d]
       /\ \A x \in Exchange \ {e} : Untouched(x)
  BY <1>1, <1>4 DEF IInv, TypeOK, Untouched
<1> QED  BY <1>1, <1>2, <1>5, <1>6, <1>8, <1>9, <1>10, CallerFrame

\* What Overtakes adds is an exchange that is yet to be sent, and the jar of the other.
LEMMA OvertakesType ==
  ASSUME IInv, NEW c \in Caller, pc[c] = "jar"
  PROVE  Overtakes(c) \subseteq Exchange \X Jar
<1>1. JarOf \in [Exchange -> Jar \cup {NoJar}]
  BY ClientAssumption
<1>2. \A d \in Caller : pc[d] # "idle" => Current(d) \in Exchange
  BY DEF IInv, CallerInv
<1>3. JarOf[Current(c)] \in Jar \cup {NoJar}
  BY <1>1, <1>2
<1> QED  BY <1>2, <1>3 DEF Overtakes

\* The jar of a transport is in the http.Client when the request goes out.
LEMMA SetJarKeeps ==
  ASSUME IInv, NEW c \in Caller, NEW e, e = Current(c), SetJar(c)
  PROVE  IInv'
<1>1. /\ pc[c] = "jar" /\ pc' = [pc EXCEPT ![c] = "do"]
      /\ jar' = [h \in HttpClient |-> IF h = ClientOf[c] /\ JarOf[e] # NoJar THEN JarOf[e] ELSE jar[h]]
      /\ overtaken' = overtaken \cup Overtakes(c)
      /\ UNCHANGED <<n, sent, inFlight, sentWith, hooks, from, outcome, ran, server>>
  BY DEF SetJar, At
<1>2. /\ e \in Exchange /\ e = Current(c)' /\ e[1] = c /\ e[2] = n[c] /\ n[c] \in Nat
      /\ ExchangeInv(e) /\ CallerInv(c)
  BY <1>1, AtWork
<1>3. JarOf \in [Exchange -> Jar \cup {NoJar}] /\ ClientOf \in [Caller -> HttpClient \cup {NoClient}]
  BY ClientAssumption
<1>4. TypeOK'
  <2>1. jar' \in [HttpClient -> Jar \cup {NoJar}]
    BY <1>1, <1>2, <1>3 DEF IInv, TypeOK
  <2>2. overtaken' \subseteq Exchange \X Jar
    BY <1>1, OvertakesType DEF IInv, TypeOK
  <2> QED  BY <1>1, <2>1, <2>2 DEF IInv, TypeOK, server
<1>5. JarInv'
  <2>1. \A x \in Exchange : Unsent(x)' = Unsent(x)
    BY <1>1 DEF Unsent, server
  <2>2. ASSUME NEW d \in Caller, pc'[d] = "do", JarOf[Current(d)'] # NoJar, ClientOf[d] # NoClient
        PROVE  \/ jar'[ClientOf[d]] = JarOf[Current(d)']
               \/ <<Current(d)', jar'[ClientOf[d]]>> \in overtaken'
    <3>1. ClientOf[d] \in HttpClient /\ Current(d)' = Current(d)
      BY <1>1, <1>3, <2>2 DEF Current
    <3>2. d = c \/ pc[d] = "do"
      BY <1>1, <2>2 DEF IInv, TypeOK
    <3>3. CASE ClientOf[d] = ClientOf[c] /\ JarOf[e] # NoJar
      <4>1. jar'[ClientOf[d]] = JarOf[e]
        BY <1>1, <3>1, <3>3
      <4>2. JarOf[Current(d)] # JarOf[e] => <<Current(d), JarOf[e]>> \in Overtakes(c)
        BY <2>2, <3>1, <3>2, <3>3 DEF Overtakes
      <4> QED  BY <1>1, <3>1, <4>1, <4>2
    <3>4. CASE ~(ClientOf[d] = ClientOf[c] /\ JarOf[e] # NoJar)
      <4>1. pc[d] = "do" /\ jar'[ClientOf[d]] = jar[ClientOf[d]]
        BY <1>1, <2>2, <3>1, <3>2, <3>4
      <4> QED  BY <1>1, <2>2, <3>1, <4>1 DEF IInv, JarInv
    <3> QED  BY <3>3, <3>4
  <2>3. ASSUME NEW x \in Exchange, JarOf[x] # NoJar, ~Unsent(x)'
        PROVE  sentWith'[x] = JarOf[x] \/ <<x, sentWith'[x]>> \in overtaken'
    BY <1>1, <2>1, <2>3 DEF IInv, JarInv
  <2> QED  BY <2>2, <2>3 DEF JarInv
<1>6. CallerInv(c)'
  BY <1>1, <1>2 DEF IInv, TypeOK, CallerInv, Unsent, server
<1>7. ExchangeInv(e)'
  BY <1>1, <1>2 DEF ExchangeInv, DeliveryInv, ServerInv, OutcomeInv, Unsent, Legible, Expected, server
<1>8. /\ \A d \in Caller \ {c} : pc'[d] = pc[d] /\ n'[d] = n[d] /\ from'[d] = from[d]
      /\ \A x \in Exchange \ {e} : Untouched(x)
  BY <1>1 DEF IInv, TypeOK, Untouched
<1> QED  BY <1>1, <1>2, <1>4, <1>5, <1>6, <1>7, <1>8, CallerFrame

LEMMA DoKeeps ==
  ASSUME IInv, NEW c \in Caller, NEW e, e = Current(c), Do(c)
  PROVE  IInv'
<1> DEFINE with == IF ClientOf[c] = NoClient THEN JarOf[e] ELSE jar[ClientOf[c]]
<1>1. /\ pc[c] = "do" /\ pc' = [pc EXCEPT ![c] = "wait"]
      /\ sentWith' = [sentWith EXCEPT ![e] = with] /\ inFlight' = inFlight \cup {e}
      /\ UNCHANGED <<n, sent, jar, overtaken, hooks, from, outcome, ran, server>>
  BY DEF Do, At
<1>2. /\ e \in Exchange /\ e = Current(c)' /\ e[1] = c /\ e[2] = n[c] /\ n[c] \in Nat
      /\ sent[e] \in Body /\ sent[e].marshals /\ outcome[e] = Nothing
      /\ ExchangeInv(e) /\ CallerInv(c)
  BY <1>1, AtWork
<1>3. Unsent(e) /\ status[e] = "idle" /\ hooks[e] = Hooks(HookRuns(c), 0)
  BY <1>1, <1>2 DEF CallerInv, Unsent
<1>4. JarOf \in [Exchange -> Jar \cup {NoJar}] /\ ClientOf \in [Caller -> HttpClient \cup {NoClient}]
  BY ClientAssumption
<1>5. TypeOK'
  <2>1. with \in Jar \cup {NoJar}
    BY <1>2, <1>4 DEF IInv, TypeOK
  <2>2. sent[e] # NoBody
    BY <1>2, ClientAssumption
  <2> HIDE DEF with
  <2>3. inFlight' \subseteq {x \in Exchange : sent'[x] # NoBody /\ sent'[x].marshals}
    BY <1>1, <1>2, <2>2 DEF IInv, TypeOK
  <2>4. sentWith' \in [Exchange -> Jar \cup {NoJar}]
    BY <1>1, <2>1 DEF IInv, TypeOK
  <2> QED  BY <1>1, <2>3, <2>4 DEF IInv, TypeOK, server
<1>6. JarInv'
  <2>1. JarOf[e] # NoJar => with = JarOf[e] \/ <<e, with>> \in overtaken
    BY <1>1 DEF IInv, JarInv
  <2> HIDE DEF with
  <2>2. \A d \in Caller : pc'[d] = "do" => pc[d] = "do" /\ Current(d)' = Current(d)
    BY <1>1 DEF IInv, TypeOK, Current
  <2>3. ASSUME NEW x \in Exchange, JarOf[x] # NoJar, ~Unsent(x)'
        PROVE  sentWith'[x] = JarOf[x] \/ <<x, sentWith'[x]>> \in overtaken'
    <3>1. CASE x = e
      BY <1>1, <1>2, <2>1, <2>3, <3>1 DEF IInv, TypeOK
    <3>2. CASE x # e
      <4>1. ~Unsent(x) /\ sentWith'[x] = sentWith[x]
        BY <1>1, <2>3, <3>2 DEF IInv, TypeOK, Unsent, server
      <4> QED  BY <1>1, <2>3, <4>1 DEF IInv, JarInv
    <3> QED  BY <3>1, <3>2
  <2> QED  BY <1>1, <2>2, <2>3 DEF IInv, JarInv
<1>7. CallerInv(c)'
  BY <1>1, <1>2, <1>3 DEF IInv, TypeOK, CallerInv
<1>8. ExchangeInv(e)'
  <2>1. outcome[e].kind = "none"
    BY <1>2 DEF Nothing, Outcome
  <2>2. DeliveryInv(e)'
    BY <1>1, <1>2, <1>3, <2>1 DEF DeliveryInv, Hooks, Unsent, server
  <2>3. ServerInv(e)' /\ OutcomeInv(e)'
    BY <1>1, <1>2 DEF ExchangeInv, ServerInv, OutcomeInv, Legible, Expected, server
  <2> QED  BY <2>2, <2>3 DEF ExchangeInv
<1>9. /\ \A d \in Caller \ {c} : pc'[d] = pc[d] /\ n'[d] = n[d] /\ from'[d] = from[d]
      /\ \A x \in Exchange \ {e} : Untouched(x)
  BY <1>1 DEF IInv, TypeOK, Untouched
<1> QED  BY <1>1, <1>2, <1>5, <1>6, <1>7, <1>8, <1>9, CallerFrame

\* A response that is read is that of the exchange.
LEMMA ReadKeeps ==
  ASSUME IInv, NEW c \in Caller, NEW e, e = Current(c), Receive(c) \/ ReadBody(c)
  PROVE  IInv'
<1>1. /\ pc[c] \in {"wait", "body"}
      /\ pc' = [pc EXCEPT ![c] = IF pc[c] = "wait" THEN "body" ELSE "after"]
      /\ pc[c] = "wait" => status[e] = "answered" /\ from' = [from EXCEPT ![c] = e]
      /\ pc[c] = "body" => from' = from
      /\ UNCHANGED <<n, sent, inFlight, jar, sentWith, overtaken, hooks, outcome, ran, server>>
  BY DEF Receive, ReadBody, At
<1>2. /\ e \in Exchange /\ e = Current(c)' /\ e[1] = c /\ e[2] = n[c] /\ n[c] \in Nat
      /\ ExchangeInv(e) /\ CallerInv(c) /\ sent[e] \in Body /\ sent[e].marshals /\ outcome[e] = Nothing
  BY <1>1, AtWork
<1>3. hooks[e] = Hooks(HookRuns(c), 0) /\ (pc[c] = "body" => from[c] = e /\ status[e] = "answered")
  BY <1>1, <1>2 DEF CallerInv
<1>4. from'[c] = e /\ status[e] = "answered" /\ pc'[c] = IF pc[c] = "wait" THEN "body" ELSE "after"
  BY <1>1, <1>3 DEF IInv, TypeOK
<1>5. TypeOK'
  <2>1. from' \in [Caller -> Exchange \cup {<<d, 0>> : d \in Caller}]
    BY <1>1, <1>2 DEF IInv, TypeOK
  <2> QED  BY <1>1, <2>1 DEF IInv, TypeOK, server
<1>6. JarInv'
  BY <1>1, JarKept DEF IInv, TypeOK
<1>7. CallerInv(c)'
  BY <1>1, <1>2, <1>3, <1>4 DEF CallerInv, server
<1>8. ExchangeInv(e)'
  BY <1>1, <1>2 DEF ExchangeInv, DeliveryInv, ServerInv, OutcomeInv, Unsent, Legible, Expected, server
<1>9. /\ \A d \in Caller \ {c} : pc'[d] = pc[d] /\ n'[d] = n[d] /\ from'[d] = from[d]
      /\ \A x \in Exchange \ {e} : Untouched(x)
  BY <1>1 DEF IInv, TypeOK, Untouched
<1> QED  BY <1>1, <1>2, <1>5, <1>6, <1>7, <1>8, <1>9, CallerFrame

\* What Decode returns is an error, or the answer to the request.
LEMMA DecodeKeeps ==
  ASSUME IInv, NEW c \in Caller, NEW e, e = Current(c), Decode(c)
  PROVE  IInv'
<1>1. /\ pc[c] = "decode" /\ pc' = [pc EXCEPT ![c] = "idle"]
      /\ UNCHANGED <<n, sent, inFlight, jar, sentWith, overtaken, hooks, from, ran, server>>
  BY DEF Decode, ReturnsError, Returns
<1>2. /\ e \in Exchange /\ e = Current(c)' /\ e[1] = c /\ e[2] = n[c] /\ n[c] \in Nat
      /\ ExchangeInv(e) /\ CallerInv(c) /\ sent[e] \in Body /\ sent[e].marshals /\ outcome[e] = Nothing
  BY <1>1, AtWork
<1>3. hooks[e] = Hooks(HookRuns(c), HookRuns(c)) /\ from[c] = e /\ status[e] = "answered"
  BY <1>1, <1>2 DEF CallerInv
<1> DEFINE text == TextOf(ResponseBytes(e))
<1>4. text = (IF Legible(e) THEN sent[e].text ELSE <<>>) /\ text \in Seq(Rune)
  <2>1. sent[e].text \in Seq(Rune) /\ <<>> \in Seq(Rune)
    BY <1>2, BodyType
  <2>2. text = IF Legible(e) THEN sent[e].text ELSE <<>>
    BY <1>2, ResponseText
  <2> QED  BY <2>1, <2>2
<1>5. PICK o : /\ outcome' = [outcome EXCEPT ![e] = o]
               /\ \/ o = Outcome("unreadable", <<>>, <<>>)
                  \/ o = Outcome("answered", answer[e], text) /\ (ServerASCII => Narrow(text))
  <2>1. \/ outcome' = [outcome EXCEPT ![e] = Outcome("unreadable", <<>>, <<>>)]
        \/ /\ outcome' = [outcome EXCEPT ![e] = Outcome("answered", answer[e], text)]
           /\ ReadableJson(ResponseBytes(e))
    BY <1>3 DEF Decode, ReturnsError, Returns
  <2>2. ReadableJson(ResponseBytes(e)) => (ServerASCII => Narrow(text))
    BY <1>2, ResponseText
  <2> HIDE DEF text
  <2> QED  BY <2>1, <2>2
<1> HIDE DEF text
<1>6. o \in [kind : Kinds, ids : Seq(Id \cup {NoId}), text : Seq(Rune)]
  <2>1. answer[e] \in Seq(Id \cup {NoId})
    BY <1>2 DEF IInv, ServerTypeOK
  <2>2. CASE o = Outcome("unreadable", <<>>, <<>>)
    BY <2>2 DEF Outcome, Kinds
  <2>3. CASE o = Outcome("answered", answer[e], text)
    BY <1>4, <2>1, <2>3 DEF Outcome, Kinds
  <2> QED  BY <1>5, <2>2, <2>3
<1>7. TypeOK'
  <2>1. outcome' \in [Exchange -> [kind : Kinds, ids : Seq(Id \cup {NoId}), text : Seq(Rune)]]
    BY <1>5, <1>6 DEF IInv, TypeOK
  <2> QED  BY <1>1, <2>1 DEF IInv, TypeOK, server
<1>8. JarInv'
  BY <1>1, JarKept DEF IInv, TypeOK
<1>9. CallerInv(c)'
  BY <1>1 DEF CallerInv, IInv, TypeOK
<1>10. outcome'[e] = o
  BY <1>2, <1>5 DEF IInv, TypeOK
<1>11. ExchangeInv(e)'
  <2>1. DeliveryInv(e)'
    <3>1. o.kind # "unsent"
      BY <1>5 DEF Outcome
    <3> QED  BY <1>1, <1>2, <1>10, <3>1 DEF ExchangeInv, DeliveryInv, Unsent, server
  <2>2. ServerInv(e)'
    BY <1>1, <1>2 DEF ExchangeInv, ServerInv, Legible, Expected, server
  <2>3. OutcomeInv(e)'
    <3>1. o.kind = "answered" =>
            o.ids = answer[e] /\ o.text = text /\ (ServerASCII => Narrow(o.text))
      BY <1>5 DEF Outcome
    <3>2. Legible(e)' = Legible(e) /\ hooks'[e] = Hooks(HookRuns(c), HookRuns(c))
      BY <1>1, <1>3 DEF Legible
    <3> QED  BY <1>1, <1>2, <1>3, <1>4, <1>10, <3>1, <3>2 DEF ExchangeInv, OutcomeInv, Hooks, HookRuns, server
  <2> QED  BY <2>1, <2>2, <2>3 DEF ExchangeInv
<1>12. /\ \A d \in Caller \ {c} : pc'[d] = pc[d] /\ n'[d] = n[d] /\ from'[d] = from[d]
       /\ \A x \in Exchange \ {e} : Untouched(x)
  BY <1>1, <1>5 DEF IInv, TypeOK, Untouched
<1> QED  BY <1>1, <1>2, <1>7, <1>8, <1>9, <1>11, <1>12, CallerFrame

LEMMA InvStep == IInv /\ [Next]_vars => IInv'
<1> SUFFICES ASSUME IInv, [Next]_vars PROVE IInv'
  OBVIOUS
<1>1. ASSUME NEW c \in Caller, NEW b \in BodiesOf[c], Begin(c, b) PROVE IInv'
  BY <1>1, BeginKeeps
<1>2. ASSUME NEW c \in Caller, BadUrl(c) PROVE IInv'
  BY <1>2, ErrorKeeps DEF BadUrl
<1>3. ASSUME NEW c \in Caller, Local(c) PROVE IInv'
  BY <1>3, HookKeeps, SetJarKeeps, DoKeeps, DecodeKeeps DEF Local
<1>4. ASSUME NEW c \in Caller, Receive(c) \/ ReadBody(c) PROVE IInv'
  BY <1>4, ReadKeeps
<1>5. ASSUME NEW c \in Caller, Fail(c) PROVE IInv'
  BY <1>5, ErrorKeeps DEF Fail
<1>6. ASSUME NEW e \in Exchange, Arrive(e) PROVE IInv'
  BY <1>6, ArriveKeeps
<1>7. ASSUME NEW e \in Exchange, ServerRuns(e) \/ Serve(e) PROVE IInv'
  BY <1>7, ServeKeeps
<1>8. ASSUME UNCHANGED vars PROVE IInv'
  <2>1. UNCHANGED <<client, inFlight, ran, server>>
    BY <1>8 DEF vars
  <2> USE <2>1 DEF client, server
  <2>2. TypeOK' /\ ServerTypeOK' /\ JarInv'
    BY DEF IInv, TypeOK, ServerTypeOK, JarInv, Unsent, Current
  <2>3. \A c \in Caller : CallerInv(c)'
    BY DEF IInv, CallerInv, Current, Unsent
  <2>4. \A e \in Exchange : ExchangeInv(e)'
    BY DEF IInv, ExchangeInv, DeliveryInv, ServerInv, OutcomeInv, Unsent, Legible, Expected
  <2> QED  BY <2>2, <2>3, <2>4 DEF IInv
<1> QED  BY <1>1, <1>2, <1>3, <1>4, <1>5, <1>6, <1>7, <1>8 DEF Next

LEMMA Invariance == Spec => []IInv
BY InvInit, InvStep, PTL DEF Spec

-----------------------------------------------------------------------------
(* The properties.                                                         *)

\* TypeSafe: in every execution every variable has its type; in particular nothing is
\* ever on the wire that was not marshalled, and no hook runs twice.
THEOREM TypeSafe == Spec => []TypeOK
<1>1. IInv => TypeOK
  BY DEF IInv
<1> QED  BY <1>1, Invariance, PTL

\* OwnAnswerCorrect: what a caller gets from RemoteClient is the answer to the request of
\* this call (or a single parse error for a text that ForceASCII cannot escape), for any
\* number of goroutines that share http.Clients and give up at any time.
THEOREM OwnAnswerCorrect == Spec => []OwnAnswer
<1>1. IInv => OwnAnswer
  <2>1. ASSUME IInv, NEW e \in Exchange, outcome[e].kind = "answered"
        PROVE  status[e] = "answered" /\ outcome[e].ids = answer[e] /\ answer[e] = Expected(e)
    BY <2>1 DEF IInv, ExchangeInv, OutcomeInv, ServerInv
  <2> QED  BY <2>1 DEF OwnAnswer, Expected
<1> QED  BY <1>1, Invariance, PTL

\* TextIntactCorrect: text comes back as it was sent, whichever ends have ForceASCII.
THEOREM TextIntactCorrect == Spec => []TextIntact
<1>1. IInv => TextIntact
  <2>1. ASSUME IInv, NEW e \in Exchange, outcome[e].kind = "answered"
        PROVE  /\ outcome[e].ids # <<NoId>> => outcome[e].text = sent[e].text
               /\ ServerASCII => Narrow(outcome[e].text)
    <3>1. OutcomeInv(e) /\ ServerInv(e)
      BY <2>1 DEF IInv, ExchangeInv
    <3> QED  BY <2>1, <3>1 DEF OutcomeInv, ServerInv, Expected
  <2> QED  BY <2>1 DEF TextIntact
<1> QED  BY <1>1, Invariance, PTL

\* AtMostOnceCorrect: no call of a request is run twice, whatever the network does.
THEOREM AtMostOnceCorrect == Spec => []AtMostOnce
<1>1. IInv => AtMostOnce
  <2>1. ASSUME IInv, NEW e \in Exchange, sent[e] # NoBody PROVE ran[e] <= Len(sent[e].ids)
    <3>1. sent[e] \in Body /\ Len(sent[e].ids) \in Nat
      BY <2>1, BodyType DEF IInv, TypeOK
    <3>2. ran[e] = 0 \/ ran[e] <= Len(sent[e].ids)
      BY <2>1 DEF IInv, ExchangeInv, ServerInv
    <3> QED  BY <3>1, <3>2
  <2>2. ASSUME IInv, NEW e \in Exchange, outcome[e].kind = "unsent" PROVE ran[e] = 0
    BY <2>2 DEF IInv, ExchangeInv, DeliveryInv, Unsent
  <2> QED  BY <2>1, <2>2 DEF AtMostOnce
<1> QED  BY <1>1, Invariance, PTL

\* HooksPairCorrect: After runs only behind Before and an answer, and once per answer read.
THEOREM HooksPairCorrect == Spec => []HooksPair
<1>1. IInv => HooksPair
  <2>1. ASSUME IInv, NEW e \in Exchange
        PROVE  /\ hooks[e].after <= hooks[e].before
               /\ hooks[e].before > 0 => e[1] \in Hooked
               /\ hooks[e].after = 1 => status[e] = "answered"
               /\ e[1] \in Hooked /\ outcome[e].kind \in {"unreadable", "answered"} => hooks[e].after = 1
               /\ e[1] \in Hooked /\ (e \in inFlight \/ status[e] # "idle") => hooks[e].before = 1
    <3>1. DeliveryInv(e) /\ OutcomeInv(e) /\ hooks[e] \in [before : 0..1, after : 0..1]
      BY <2>1 DEF IInv, ExchangeInv, TypeOK
    <3> QED  BY <3>1 DEF DeliveryInv, OutcomeInv, HookRuns, Unsent
  <2> QED  BY <2>1 DEF HooksPair
<1> QED  BY <1>1, Invariance, PTL

\* OwnJarCorrect: however many transports share an http.Client, with whichever jars or
\* none, a request of a transport with a jar goes out with that jar, or with one that
\* another transport set in between; no transport without a jar ever takes it away.
THEOREM OwnJarCorrect == Spec => []OwnJar
<1>1. IInv => OwnJar
  BY DEF IInv, JarInv, OwnJar, Unsent
<1> QED  BY <1>1, Invariance, PTL
=============================================================================
