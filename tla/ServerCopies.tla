---------------------------- MODULE ServerCopies ----------------------------
(***************************************************************************)
(* A Server is a Go struct and is passed by value: NewServer returns one,  *)
(* idl2go's NewServer returns another, an IrisHandler holds its own, the   *)
(* runWorker of the iris example takes one per worker.  Copies have one    *)
(* handler table (a map), and a filter slice each, over one backing array  *)
(* until append has to reallocate it.                                      *)
(*                                                                         *)
(* Module Server is about one Server value; here is what AddFilter does to *)
(* the others.                                                             *)
(***************************************************************************)
EXTENDS Naturals, Sequences

CONSTANTS
  Copy,       \* the Server values of the program
  First,      \* the one NewServer returned, from which the others are copied
  Filter,     \* filter implementations
  Nil,        \* an element of a backing array that was never written
  MaxFilters  \* bound of the model: filters registered with one Server value

ASSUME CopiesAssumption ==
  /\ First \in Copy
  /\ Nil \notin Filter
  /\ MaxFilters \in Nat

VARIABLES
  live,       \* Server values that exist
  arr,        \* index in heap of the backing array of s.filters
  len,        \* length of s.filters
  heap,       \* backing arrays; the length of one is its capacity
  registered, \* history: the filters AddFilter was given for s and, before it was
              \* copied, for the Server it is a copy of
  early       \* history: the filters registered while there was only one Server

vars == <<live, arr, len, heap, registered, early>>

\* The filters Server.Call iterates over.
Chain(s) == SubSeq(heap[arr[s]], 1, len[s])

Init ==
  /\ live = {First}
  /\ arr = [s \in Copy |-> 1]
  /\ len = [s \in Copy |-> 0]
  /\ heap = << <<>> >>
  /\ registered = [s \in Copy |-> <<>>]
  /\ early = <<>>

\* t := s, a parameter or a field of type Server.
Assign(s, t) ==
  /\ s \in live /\ t \notin live
  /\ live' = live \cup {t}
  /\ arr' = [arr EXCEPT ![t] = arr[s]]
  /\ len' = [len EXCEPT ![t] = len[s]]
  /\ registered' = [registered EXCEPT ![t] = registered[s]]
  /\ UNCHANGED <<heap, early>>

\* The capacity append gives to a full slice of c elements, for the few a Server
\* has (runtime.growslice doubles up to 256).
Grown(c) == IF c = 0 THEN 1 ELSE 2 * c

\* append with room to spare writes one element of the array, which other Server
\* values may share.
InPlace(s, j, f) ==
  /\ heap' = [heap EXCEPT ![arr[s]] = [@ EXCEPT ![j] = f]]
  /\ UNCHANGED arr

\* append without room copies the first n elements to an array of its own.
Enlarged(a, n, f) ==
  [j \in 1..Grown(Len(a)) |-> IF j <= n THEN a[j] ELSE IF j = n + 1 THEN f ELSE Nil]
Moved(s, f) ==
  /\ heap' = Append(heap, Enlarged(heap[arr[s]], len[s], f))
  /\ arr' = [arr EXCEPT ![s] = Len(heap) + 1]

\* The slice of s is one longer.
Registered(s, f) ==
  /\ len' = [len EXCEPT ![s] = @ + 1]
  /\ registered' = [registered EXCEPT ![s] = Append(@, f)]
  /\ early' = IF live = {First} THEN Append(early, f) ELSE early
  /\ UNCHANGED live

Full(s) == len[s] = Len(heap[arr[s]])

\* Plausible slips, which no specification uses: an append that leaves a gap, one
\* that writes over the last element of the slice, and one that forgets where the new
\* array is.
AppendSkips(s, f) ==
  /\ s \in live /\ len[s] < MaxFilters
  /\ IF len[s] + 1 < Len(heap[arr[s]]) THEN InPlace(s, len[s] + 2, f) ELSE Moved(s, f)
  /\ Registered(s, f)
AppendOverwrites(s, f) ==
  /\ s \in live /\ len[s] < MaxFilters
  /\ IF len[s] > 0 /\ ~Full(s) THEN InPlace(s, len[s], f) ELSE Moved(s, f)
  /\ Registered(s, f)
AppendForgetsArray(s, f) ==
  /\ s \in live /\ len[s] < MaxFilters
  /\ IF Full(s) THEN UNCHANGED <<arr, heap>> ELSE InPlace(s, len[s] + 1, f)
  /\ Registered(s, f)

\* s.filters = append(s.filters, f)
AddFilter(s, f) ==
  /\ s \in live /\ len[s] < MaxFilters
  /\ IF Full(s) THEN Moved(s, f) ELSE InPlace(s, len[s] + 1, f)
  /\ Registered(s, f)

Next == \E s \in Copy : \/ \E t \in Copy : Assign(s, t)
                        \/ \E f \in Filter : AddFilter(s, f)

Spec == Init /\ [][Next]_vars

-----------------------------------------------------------------------------
(* Properties *)

\* Every slice lies within its backing array, whichever Server value moved it.
TypeOK ==
  /\ live \subseteq Copy
  /\ heap \in Seq(Seq(Filter \cup {Nil}))
  /\ arr \in [Copy -> 1..Len(heap)]
  /\ len \in [Copy -> Nat]
  /\ registered \in [Copy -> Seq(Filter)]
  /\ early \in Seq(Filter)
  /\ \A s \in Copy : len[s] <= Len(heap[arr[s]])

\* The filters registered before the first copy was made stay the first filters of
\* every Server value, whatever is registered with any of them afterwards.
EarlyFiltersKept ==
  \A s \in live : /\ Len(early) <= len[s]
                  /\ \A j \in 1..Len(early) : Chain(s)[j] = early[j]

\* Server.Call never finds a nil filter, also when several Server values append to
\* the same array: it calls as many filters as were registered.
NoHoles ==
  \A s \in live : /\ Len(Chain(s)) = Len(registered[s])
                  /\ \A j \in DOMAIN Chain(s) : Chain(s)[j] # Nil

\* "Filter.PreInvoke is called in the order of registration" (the comment on
\* Server.AddFilter): a Server calls the filters registered with it.
ChainAsRegistered == \A s \in live : Chain(s) = registered[s]
=============================================================================
