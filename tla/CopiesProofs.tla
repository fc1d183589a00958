---------------------------- MODULE CopiesProofs ----------------------------
(***************************************************************************)
(* What sharing a backing array cannot break, for any number of Server     *)
(* values and of filters.                                                  *)
(***************************************************************************)
EXTENDS ServerCopies, SequenceTheorems, TLAPS

Elem == Filter \cup {Nil}

\* The array of every Server value starts with the early filters, and the part of
\* it the slice covers is written.
Covered(s) ==
  /\ Len(registered[s]) = len[s]
  /\ \A j \in 1..len[s] : heap[arr[s]][j] # Nil
Prefixed(s) ==
  /\ Len(early) <= len[s]
  /\ \A j \in 1..Len(early) : heap[arr[s]][j] = early[j]

CopiesInv ==
  /\ TypeOK
  /\ First \in live
  /\ live = {First} => Len(early) = len[First]
  /\ \A s \in live : Covered(s) /\ Prefixed(s)

-----------------------------------------------------------------------------

\* NewServer: one Server value with an empty slice.
LEMMA CopiesInit == Init => CopiesInv
<1>1. Init => /\ heap \in Seq(Seq(Elem)) /\ Len(heap) = 1 /\ heap[1] = <<>>
  BY DEF Init
<1> QED
  BY <1>1, CopiesAssumption DEF Init, CopiesInv, TypeOK, Covered, Prefixed, Elem

\* A copy has the slice of the value it is copied from.
LEMMA AssignPreserves ==
  ASSUME CopiesInv, NEW s \in Copy, NEW t \in Copy, Assign(s, t)
  PROVE  CopiesInv'
<1>1. TypeOK'
  BY DEF CopiesInv, TypeOK, Assign
<1>2. First \in live' /\ live' # {First}
  BY DEF CopiesInv, Assign
<1>3. ASSUME NEW u \in live' PROVE (Covered(u) /\ Prefixed(u))'
  <2>1. PICK w \in live : /\ arr'[u] = arr[w] /\ len'[u] = len[w]
                          /\ registered'[u] = registered[w]
    BY DEF CopiesInv, TypeOK, Assign
  <2> QED  BY <2>1 DEF CopiesInv, Covered, Prefixed, Assign
<1> QED  BY <1>1, <1>2, <1>3 DEF CopiesInv

\* One append: the slice of s grows by f in an array that keeps what it had; the
\* arrays of the other Server values keep what they have, but for the element after
\* the slice of s.
Appended(s, f) ==
  /\ heap' \in Seq(Seq(Elem))
  /\ arr' \in [Copy -> 1..Len(heap')]
  /\ len[s] + 1 <= Len(heap'[arr'[s]])
  /\ heap'[arr'[s]][len[s] + 1] = f
  /\ \A j \in 1..len[s] : heap'[arr'[s]][j] = heap[arr[s]][j]
  /\ \A u \in Copy \ {s} :
       /\ Len(heap'[arr'[u]]) = Len(heap[arr[u]])
       /\ \A j \in 1..Len(heap[arr[u]]) :
            \/ heap'[arr'[u]][j] = heap[arr[u]][j]
            \/ j = len[s] + 1 /\ heap'[arr'[u]][j] = f

\* AddFilter is such an append, in place or not.
LEMMA AddFilterHeap ==
  ASSUME CopiesInv, NEW s \in Copy, NEW f \in Filter, AddFilter(s, f)
  PROVE  Appended(s, f)
<1> DEFINE a == heap[arr[s]]
<1>1. /\ heap \in Seq(Seq(Elem)) /\ arr \in [Copy -> 1..Len(heap)]
      /\ a \in Seq(Elem) /\ len[s] \in Nat /\ len[s] <= Len(a) /\ f \in Elem
  BY DEF CopiesInv, TypeOK, Elem
<1>2. CASE Full(s)
  <2> DEFINE b == Enlarged(a, len[s], f)
  <2>1. Moved(s, f)
    BY <1>2 DEF AddFilter
  <2> DEFINE c == Grown(Len(a))
  <2>2. c \in Nat /\ c >= Len(a) + 1
    <3>1. Len(a) \in Nat
      BY <1>1
    <3> HIDE DEF a
    <3> QED  BY <3>1 DEF Grown
  <2> HIDE DEF c
  <2>3. b = [j \in 1..c |-> IF j <= len[s] THEN a[j]
                            ELSE IF j = len[s] + 1 THEN f ELSE Nil]
    BY DEF Enlarged, c
  <2>4. \A j \in 1..c : (IF j <= len[s] THEN a[j]
                         ELSE IF j = len[s] + 1 THEN f ELSE Nil) \in Elem
    BY <1>1 DEF Elem
  <2>5. b \in Seq(Elem) /\ Len(b) = c
    BY <2>2, <2>3, <2>4
  <2>6. /\ heap' = Append(heap, b)
        /\ arr' = [arr EXCEPT ![s] = Len(heap) + 1]
    BY <2>1 DEF Moved
  <2> HIDE DEF a, b
  <2>7. /\ heap' \in Seq(Seq(Elem)) /\ Len(heap') = Len(heap) + 1
        /\ heap'[Len(heap) + 1] = b
        /\ \A h \in 1..Len(heap) : heap'[h] = heap[h]
    BY <1>1, <2>5, <2>6
  <2>8. arr'[s] = Len(heap) + 1 /\ arr' \in [Copy -> 1..Len(heap')]
    BY <1>1, <2>6, <2>7
  <2>9. b[len[s] + 1] = f /\ \A j \in 1..len[s] : b[j] = a[j]
    BY <1>1, <2>2, <2>3
  <2>10. \A u \in Copy \ {s} : arr'[u] = arr[u] /\ heap'[arr[u]] = heap[arr[u]]
    BY <1>1, <2>6, <2>7
  <2>11. len[s] + 1 <= Len(b)
    BY <1>1, <2>2, <2>5
  <2>12. heap'[arr'[s]] = b
    BY <2>7, <2>8
  <2>13. \A j \in 1..len[s] : heap'[arr'[s]][j] = heap[arr[s]][j]
    BY <2>9, <2>12 DEF a
  <2>14. heap'[arr'[s]][len[s] + 1] = f /\ len[s] + 1 <= Len(heap'[arr'[s]])
    BY <2>9, <2>11, <2>12
  <2> QED  BY <2>7, <2>8, <2>10, <2>13, <2>14 DEF Appended
<1>3. CASE ~Full(s)
  <2> DEFINE b == [a EXCEPT ![len[s] + 1] = f]
  <2>1. InPlace(s, len[s] + 1, f)
    BY <1>3 DEF AddFilter
  <2>2. len[s] + 1 \in 1..Len(a)
    BY <1>1, <1>3 DEF Full
  <2>3. b \in Seq(Elem) /\ Len(b) = Len(a)
    BY <1>1, <2>2
  <2>4. b[len[s] + 1] = f /\ \A j \in 1..Len(a) : j # len[s] + 1 => b[j] = a[j]
    BY <1>1, <2>2
  <2>5. heap' = [heap EXCEPT ![arr[s]] = b] /\ arr' = arr
    BY <2>1 DEF InPlace
  <2> HIDE DEF b
  <2>6. /\ heap' \in Seq(Seq(Elem)) /\ Len(heap') = Len(heap)
        /\ heap'[arr[s]] = b
        /\ \A h \in 1..Len(heap) : h # arr[s] => heap'[h] = heap[h]
    BY <1>1, <2>3, <2>5
  <2> QED  BY <1>1, <2>2, <2>3, <2>4, <2>5, <2>6 DEF Appended
<1> QED  BY <1>2, <1>3

\* An append keeps the filters of all slices covered and the early ones in place.
LEMMA AddFilterPreserves ==
  ASSUME CopiesInv, NEW s \in Copy, NEW f \in Filter, AddFilter(s, f)
  PROVE  CopiesInv'
<1>0. Appended(s, f)
  BY AddFilterHeap
<1>1. /\ s \in live /\ live' = live
      /\ len' = [len EXCEPT ![s] = @ + 1]
      /\ registered' = [registered EXCEPT ![s] = Append(@, f)]
      /\ early' = IF live = {First} THEN Append(early, f) ELSE early
  BY DEF AddFilter, Registered
<1>2. /\ len \in [Copy -> Nat] /\ len' \in [Copy -> Nat] /\ len'[s] = len[s] + 1
      /\ \A u \in Copy \ {s} : len'[u] = len[u]
  <2>1. len \in [Copy -> Nat]
    BY DEF CopiesInv, TypeOK
  <2> QED  BY <1>1, <2>1
<1>3. /\ registered' \in [Copy -> Seq(Filter)]
      /\ Len(registered'[s]) = Len(registered[s]) + 1
      /\ \A u \in Copy \ {s} : registered'[u] = registered[u]
  <2>1. registered \in [Copy -> Seq(Filter)] /\ registered[s] \in Seq(Filter)
    BY DEF CopiesInv, TypeOK
  <2>2. /\ Append(registered[s], f) \in Seq(Filter)
        /\ Len(Append(registered[s], f)) = Len(registered[s]) + 1
    BY <2>1
  <2> QED  BY <1>1, <2>1, <2>2
<1>4. early \in Seq(Filter) /\ early' \in Seq(Filter)
  <2>1. early \in Seq(Filter) /\ Append(early, f) \in Seq(Filter)
    BY DEF CopiesInv, TypeOK
  <2> QED  BY <1>1, <2>1
<1>5. TypeOK'
  <2>1. \A u \in Copy : len'[u] <= Len(heap'[arr'[u]])
    BY <1>2, <1>0 DEF Appended, CopiesInv, TypeOK
  <2> QED  BY <1>1, <1>2, <1>3, <1>4, <2>1, <1>0 DEF Appended, CopiesInv, TypeOK, Elem
<1>6. f # Nil
  BY CopiesAssumption
<1>7. \A u \in Copy : Len(heap[arr[u]]) \in Nat
  BY DEF CopiesInv, TypeOK
<1>8. ASSUME NEW u \in live PROVE Covered(u)'
  <2>1. u \in Copy /\ Covered(u) /\ Covered(s) /\ len[u] <= Len(heap[arr[u]])
    BY <1>1 DEF CopiesInv, TypeOK
  <2>2. CASE u = s
    <3>1. Len(registered'[s]) = len'[s]
      BY <1>2, <1>3, <2>1 DEF Covered
    <3>2. \A j \in 1..len[s] : heap'[arr'[s]][j] # Nil
      BY <1>0, <2>1 DEF Appended, Covered
    <3>3. heap'[arr'[s]][len[s] + 1] # Nil
      BY <1>0, <1>6 DEF Appended
    <3>4. \A j \in 1..len'[s] : heap'[arr'[s]][j] # Nil
      BY <1>2, <3>2, <3>3
    <3> QED  BY <2>2, <3>1, <3>4 DEF Covered
  <2>3. CASE u # s
    <3>1. Len(registered'[u]) = len'[u] /\ len'[u] = len[u]
      BY <1>2, <1>3, <2>1, <2>3 DEF Covered
    <3>2. 1..len[u] \subseteq 1..Len(heap[arr[u]])
      BY <1>2, <1>7, <2>1
    <3>3. \A j \in 1..len[u] : heap'[arr'[u]][j] # Nil
      BY <1>0, <1>6, <2>1, <2>3, <3>2 DEF Appended, Covered
    <3> QED  BY <3>1, <3>3 DEF Covered
  <2> QED  BY <2>2, <2>3
<1>9. ASSUME NEW u \in live PROVE Prefixed(u)'
  <2>1. u \in Copy /\ Prefixed(u) /\ Prefixed(s) /\ len[u] <= Len(heap[arr[u]])
    BY <1>1 DEF CopiesInv, TypeOK
  <2>2. CASE live = {First}
    <3>1. u = s /\ Len(early) = len[s]
      BY <1>1, <2>2 DEF CopiesInv
    <3>2. /\ Len(early') = len[s] + 1 /\ early'[len[s] + 1] = f
          /\ \A j \in 1..len[s] : early'[j] = early[j]
      BY <1>1, <1>4, <2>2, <3>1
    <3>3. \A j \in 1..len[s] : heap'[arr'[s]][j] = early'[j]
      BY <1>0, <2>1, <3>1, <3>2 DEF Appended, Prefixed
    <3>4. \A j \in 1..(len[s] + 1) : heap'[arr'[s]][j] = early'[j]
      <4>1. heap'[arr'[s]][len[s] + 1] = early'[len[s] + 1]
        BY <1>0, <3>2 DEF Appended
      <4>2. \A j \in 1..(len[s] + 1) : j \in 1..len[s] \/ j = len[s] + 1
        BY <1>2
      <4> QED  BY <3>3, <4>1, <4>2
    <3>5. Len(early') <= len'[s]
      BY <1>2, <3>2
    <3> QED  BY <3>1, <3>2, <3>4, <3>5 DEF Prefixed
  <2>3. CASE live # {First} /\ u = s
    BY <1>1, <1>2, <1>4, <2>1, <2>3, <1>0 DEF Appended, Prefixed
  <2>4. CASE live # {First} /\ u # s
    <3>1. early' = early /\ len'[u] = len[u] /\ Len(early) <= len[u]
      BY <1>1, <1>2, <2>1, <2>4 DEF Prefixed
    <3>2. \A j \in 1..Len(early) : j \in 1..Len(heap[arr[u]]) /\ j # len[s] + 1
      BY <1>2, <1>4, <1>7, <2>1, <3>1 DEF Prefixed
    <3>3. \A j \in 1..Len(early) : heap'[arr'[u]][j] = heap[arr[u]][j]
      BY <1>0, <2>1, <2>4, <3>2 DEF Appended
    <3> QED  BY <2>1, <3>1, <3>3 DEF Prefixed
  <2> QED  BY <2>2, <2>3, <2>4
<1>10. live' = {First} => Len(early') = len'[First]
  BY <1>1, <1>2, <1>4 DEF CopiesInv
<1> QED  BY <1>1, <1>5, <1>8, <1>9, <1>10 DEF CopiesInv

\* The invariant behind the theorems below.
THEOREM CopiesCorrect == Spec => []CopiesInv
<1>1. ASSUME CopiesInv, [Next]_vars PROVE CopiesInv'
  <2>1. CASE UNCHANGED vars
    BY <1>1, <2>1 DEF CopiesInv, TypeOK, Covered, Prefixed, vars
  <2>2. CASE Next
    BY <1>1, <2>2, AssignPreserves, AddFilterPreserves DEF Next
  <2> QED  BY <1>1, <2>1, <2>2
<1> QED  BY CopiesInit, <1>1, PTL DEF Spec

\* What Server.Call iterates over is the covered part of the backing array.
LEMMA ChainProperties ==
  ASSUME CopiesInv, NEW s \in Copy
  PROVE  /\ Len(Chain(s)) = len[s] /\ DOMAIN Chain(s) = 1..len[s]
         /\ \A j \in 1..len[s] : Chain(s)[j] = heap[arr[s]][j]
<1>1. heap[arr[s]] \in Seq(Elem) /\ len[s] \in Nat /\ len[s] <= Len(heap[arr[s]])
  BY DEF CopiesInv, TypeOK, Elem
<1> QED  BY <1>1 DEF Chain

\* Every slice lies within its backing array.
THEOREM CopiesTypeSafe == Spec => []TypeOK
BY CopiesCorrect, PTL DEF CopiesInv

\* A filter registered before the Server was copied is never overwritten: all
\* copies keep it at its place.
THEOREM EarlyFiltersKeptCorrect == Spec => []EarlyFiltersKept
<1>1. ASSUME CopiesInv PROVE EarlyFiltersKept
  <2>1. ASSUME NEW s \in live
        PROVE  /\ Len(early) <= len[s]
               /\ \A j \in 1..Len(early) : Chain(s)[j] = early[j]
    <3>1. s \in Copy /\ Prefixed(s) /\ Len(early) \in Nat /\ len[s] \in Nat
      BY <1>1, <2>1 DEF CopiesInv, TypeOK
    <3>2. \A j \in 1..len[s] : Chain(s)[j] = heap[arr[s]][j]
      BY <1>1, <3>1, ChainProperties
    <3> QED  BY <3>1, <3>2 DEF Prefixed
  <2> QED  BY <2>1 DEF EarlyFiltersKept
<1> QED  BY <1>1, CopiesCorrect, PTL

\* A Server calls as many filters as were registered with it, and none of them is
\* nil, whatever other copies appended to the same array.
THEOREM NoHolesCorrect == Spec => []NoHoles
<1>1. ASSUME CopiesInv PROVE NoHoles
  <2>1. ASSUME NEW s \in live
        PROVE  /\ Len(Chain(s)) = Len(registered[s])
               /\ \A j \in DOMAIN Chain(s) : Chain(s)[j] # Nil
    <3>1. s \in Copy /\ Covered(s)
      BY <1>1, <2>1 DEF CopiesInv, TypeOK
    <3> QED  BY <1>1, <3>1, ChainProperties DEF Covered
  <2> QED  BY <2>1 DEF NoHoles
<1> QED  BY <1>1, CopiesCorrect, PTL
=============================================================================
