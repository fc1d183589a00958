----------------------------- MODULE RpcService -----------------------------
(***************************************************************************)
(* What a Barrister server promises to those who send it requests, without *)
(* filters, handlers or conversions: a request is a list of calls; they    *)
(* are taken strictly in order, the implementation runs at most once for   *)
(* each, and the answer, if there is one, comes after the last of them and *)
(* holds one response per call, in order.  A request may also get no       *)
(* answer at all, whatever was already run for it.                         *)
(***************************************************************************)
EXTENDS Naturals, Sequences

CONSTANTS
  Req,    \* requests served at the same time
  Work,   \* the possible contents of a request: sequences of ids
  NoId    \* the id of the answer to a request that cannot be decoded

VARIABLES
  status, \* "idle", "pending", "answered" or "aborted"
  work,   \* ids of the calls of the request
  done,   \* how many of them have their response
  runs,   \* how often the implementation has run for the next of them
  answer  \* ids of the responses sent

vars == <<status, work, done, runs, answer>>

Init ==
  /\ status = [r \in Req |-> "idle"]
  /\ work = [r \in Req |-> <<>>]
  /\ done = [r \in Req |-> 0]
  /\ runs = [r \in Req |-> 0]
  /\ answer = [r \in Req |-> <<>>]

Accept(r, w) ==
  /\ status[r] = "idle"
  /\ status' = [status EXCEPT ![r] = "pending"]
  /\ work' = [work EXCEPT ![r] = w]
  /\ UNCHANGED <<done, runs, answer>>

Malformed(r) ==
  /\ status[r] = "idle"
  /\ status' = [status EXCEPT ![r] = "answered"]
  /\ answer' = [answer EXCEPT ![r] = <<NoId>>]
  /\ UNCHANGED <<work, done, runs>>

Run(r) ==
  /\ status[r] = "pending" /\ done[r] < Len(work[r]) /\ runs[r] = 0
  /\ runs' = [runs EXCEPT ![r] = 1]
  /\ UNCHANGED <<status, work, done, answer>>

Finish(r) ==
  /\ status[r] = "pending" /\ done[r] < Len(work[r])
  /\ done' = [done EXCEPT ![r] = @ + 1]
  /\ runs' = [runs EXCEPT ![r] = 0]
  /\ UNCHANGED <<status, work, answer>>

Answer(r) ==
  /\ status[r] = "pending" /\ done[r] = Len(work[r])
  /\ status' = [status EXCEPT ![r] = "answered"]
  /\ answer' = [answer EXCEPT ![r] = work[r]]
  /\ UNCHANGED <<work, done, runs>>

Abort(r) ==
  /\ status[r] \in {"idle", "pending"}
  /\ status' = [status EXCEPT ![r] = "aborted"]
  /\ UNCHANGED <<work, done, runs, answer>>

Close(r) ==
  /\ status[r] \in {"answered", "aborted"}
  /\ status' = [status EXCEPT ![r] = "idle"]
  /\ work' = [work EXCEPT ![r] = <<>>]
  /\ done' = [done EXCEPT ![r] = 0]
  /\ runs' = [runs EXCEPT ![r] = 0]
  /\ answer' = [answer EXCEPT ![r] = <<>>]

Next ==
  \E r \in Req :
    \/ \E w \in Work : Accept(r, w)
    \/ Malformed(r)
    \/ Run(r)
    \/ Finish(r)
    \/ Answer(r)
    \/ Abort(r)
    \/ Close(r)

Spec == Init /\ [][Next]_vars
=============================================================================
