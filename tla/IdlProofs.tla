----------------------------- MODULE IdlProofs -----------------------------
(***************************************************************************)
(* Theorems about Idl, for every document.                                 *)
(***************************************************************************)
EXTENDS Idl, Loops, FiniteSetTheorems, TLAPS

-----------------------------------------------------------------------------
(* The loops of the generator.                                             *)

\* A package has exactly the elements that are in it.
LEMMA ElementsPartition ==
  ASSUME elems \in Seq(ToSet(elems)), NEW p, NEW default
  PROVE  /\ Elements(p, default) \in Seq(ToSet(elems))
         /\ \A e : Contains(Elements(p, default), e) <=>
                     \E n \in DOMAIN elems : elems[n] = e /\ InPackage(elems[n], p, default)
<1> DEFINE X == ToSet(elems)
           N == Len(elems)
           K == {n \in 1..N : InPackage(elems[n], p, default)}
           Part(f) == f = [n \in 0..N |->
                            IF n = 0 THEN <<>>
                            ELSE IF InPackage(elems[n], p, default)
                                 THEN Append(f[n - 1], elems[n]) ELSE f[n - 1]]
           part == CHOOSE f : Part(f)
<1>1. N \in Nat /\ DOMAIN elems = 1..N /\ elems \in Seq(X)
  OBVIOUS
<1>2. \A n \in 0..N : n # 0 => (n \in K <=> InPackage(elems[n], p, default))
  BY <1>1
<1>3. PICK f : IsFilter(f, elems, K)
  <2> HIDE DEF K, X
  <2> QED
    BY <1>1, FilterExists
<1>4. Part(f)
  BY <1>2, <1>3 DEF IsFilter
<1>5. Part(part)
  <2> HIDE DEF Part
  <2> QED
    BY <1>4
<1>6. Elements(p, default) = part[N]
  BY DEF Elements
<1> HIDE DEF part
<1>7. /\ part[0] = <<>>
      /\ \A n \in 1..N : part[n] = IF n \in K THEN Append(part[n - 1], elems[n]) ELSE part[n - 1]
  <2>1. \A n \in 0..N : part[n] = IF n = 0 THEN <<>>
                                 ELSE IF InPackage(elems[n], p, default)
                                      THEN Append(part[n - 1], elems[n]) ELSE part[n - 1]
    BY <1>5
  <2> HIDE DEF Part, N
  <2>2. 0 \in 0..N /\ \A n \in 1..N : n \in 0..N /\ n # 0
    BY <1>1
  <2> QED
    BY <2>1, <2>2
<1>8. part[N] \in Seq(X) /\ Picks(part[N], elems, K, N)
  <2> HIDE DEF K, X, Part
  <2> QED
    BY <1>1, <1>7, FilterLoop
<1>9. PICK from \in [1..Len(part[N]) -> 1..N] :
        /\ \A j \in 1..Len(part[N]) : from[j] \in K /\ part[N][j] = elems[from[j]]
        /\ \A k \in 1..N : k \in K => \E j \in 1..Len(part[N]) : from[j] = k
  BY <1>8 DEF Picks
<1>10. ASSUME NEW e
       PROVE  Contains(part[N], e) <=>
                \E n \in 1..N : elems[n] = e /\ InPackage(elems[n], p, default)
  <2> HIDE DEF Part, N
  <2>1. ASSUME NEW j \in 1..Len(part[N]), part[N][j] = e
        PROVE  from[j] \in 1..N /\ elems[from[j]] = e /\ InPackage(elems[from[j]], p, default)
    BY <1>9, <2>1
  <2>2. ASSUME NEW n \in 1..N, elems[n] = e, InPackage(elems[n], p, default)
        PROVE  \E j \in 1..Len(part[N]) : part[N][j] = e
    <3>1. n \in K
      BY <2>2
    <3> HIDE DEF K
    <3> QED
      BY <1>9, <2>2, <3>1
  <2> QED
    BY <2>1, <2>2 DEF Contains
<1> HIDE DEF Part, N, K
<1> QED
  BY <1>1, <1>6, <1>8, <1>10

\* Two sequences in one.
LEMMA ConcatElements ==
  ASSUME NEW X, NEW s \in Seq(X), NEW t \in Seq(X)
  PROVE  ToSet(s \o t) = ToSet(s) \cup ToSet(t)
<1>1. /\ ToSet(s) = {s[n] : n \in 1..Len(s)} /\ ToSet(t) = {t[n] : n \in 1..Len(t)}
      /\ ToSet(s \o t) = {(s \o t)[n] : n \in 1..(Len(s) + Len(t))}
  BY DEF ToSet
<1>2. \A n \in 1..Len(s) : (s \o t)[n] = s[n] /\ n \in 1..(Len(s) + Len(t))
  OBVIOUS
<1>3. \A n \in 1..Len(t) : (s \o t)[Len(s) + n] = t[n] /\ Len(s) + n \in 1..(Len(s) + Len(t))
  OBVIOUS
<1>4. ASSUME NEW n \in 1..(Len(s) + Len(t))
      PROVE  \/ n \in 1..Len(s) /\ (s \o t)[n] = s[n]
             \/ n - Len(s) \in 1..Len(t) /\ (s \o t)[n] = t[n - Len(s)]
  OBVIOUS
<1>5. ToSet(s \o t) \subseteq ToSet(s) \cup ToSet(t)
  BY <1>1, <1>4
<1>6. ToSet(s) \subseteq ToSet(s \o t)
  BY <1>1, <1>2
<1>7. ToSet(t) \subseteq ToSet(s \o t)
  BY <1>1, <1>3
<1> QED
  BY <1>5, <1>6, <1>7

\* FlattenSeq has what the sequences have.
IsFlat(f, seqs) ==
  f = [n \in 1..Len(seqs) |-> IF n = 1 THEN seqs[n] ELSE f[n - 1] \o seqs[n]]

LEMMA FlatExists ==
  ASSUME NEW X, NEW seqs \in Seq(Seq(X))
  PROVE  \E f : IsFlat(f, seqs)
<1> DEFINE T == Seq(X)
           N == Len(seqs)
           step == [x \in T \X (1..N) |-> x[1] \o seqs[x[2]]]
<1>1. N \in Nat /\ <<>> \in T /\ \A n \in 1..N : seqs[n] \in T
  OBVIOUS
<1>2. \A list \in T, n \in 1..N : list \o seqs[n] \in T
  BY <1>1
<1>3. \A list \in T : <<>> \o list = list
  OBVIOUS
<1> HIDE DEF T, N
<1>4. step \in [T \X (1..N) -> T]
  BY <1>2
<1>5. \A list \in T, n \in 1..N : step[<<list, n>>] = list \o seqs[n]
  OBVIOUS
<1> HIDE DEF step
<1>6. PICK g : IsLoop(g, N, T, <<>>, step)
  BY <1>1, <1>4, LoopExists
<1>7. /\ g \in [0..N -> T] /\ g[0] = <<>>
      /\ \A n \in 1..N : g[n] = step[<<g[n - 1], n>>]
  BY <1>6 DEF IsLoop
<1>8. \A n \in 1..N : n - 1 \in 0..N
  BY <1>1
<1>9. \A n \in 1..N : g[n] = g[n - 1] \o seqs[n]
  BY <1>5, <1>7, <1>8
<1>10. \A n \in 1..N : n = 1 => g[n] = seqs[n]
  <2> SUFFICES ASSUME NEW n \in 1..N, n = 1 PROVE g[n] = seqs[n]
    OBVIOUS
  <2>1. n - 1 = 0 /\ seqs[n] \in T
    BY <1>1
  <2> QED
    BY <1>3, <1>7, <1>9, <2>1
<1> DEFINE f == [n \in 1..N |-> g[n]]
<1>11. \A n \in 1..N : n # 1 => n - 1 \in 1..N
  BY <1>1
<1>12. f = [n \in 1..N |-> IF n = 1 THEN seqs[n] ELSE f[n - 1] \o seqs[n]]
  BY <1>9, <1>10, <1>11
<1> QED
  BY <1>12 DEF IsFlat, N

LEMMA FlattenSeqElements ==
  ASSUME NEW X, NEW seqs \in Seq(Seq(X))
  PROVE  /\ FlattenSeq(seqs) \in Seq(X)
         /\ ToSet(FlattenSeq(seqs)) = UNION {ToSet(seqs[n]) : n \in DOMAIN seqs}
<1> DEFINE T == Seq(X)
           N == Len(seqs)
           flat == CHOOSE f : IsFlat(f, seqs)
<1>1. N \in Nat /\ DOMAIN seqs = 1..N /\ \A n \in 1..N : seqs[n] \in T
  OBVIOUS
<1>2. CASE N = 0
  <2>1. seqs = <<>> /\ FlattenSeq(seqs) = seqs /\ seqs \in Seq(X)
    BY <1>2 DEF FlattenSeq
  <2>2. DOMAIN seqs = {}
    BY <1>1, <1>2
  <2> QED
    BY <2>1, <2>2 DEF ToSet
<1>3. CASE N # 0
  <2>1. FlattenSeq(seqs) = flat[N]
    BY <1>3 DEF FlattenSeq, IsFlat
  <2>2. IsFlat(flat, seqs)
    BY FlatExists
  <2> HIDE DEF flat
  <2>3. \A n \in 1..N : flat[n] = IF n = 1 THEN seqs[n] ELSE flat[n - 1] \o seqs[n]
    BY <2>2 DEF IsFlat
  <2> DEFINE Part(n) == UNION {ToSet(seqs[k]) : k \in 1..n}
             Good(n) == n = 0 \/ (flat[n] \in T /\ ToSet(flat[n]) = Part(n))
             S == {n \in 0..N : Good(n)}
  <2>4. \A n \in 1..N : Part(n) = Part(n - 1) \cup ToSet(seqs[n])
    <3> SUFFICES ASSUME NEW n \in 1..N PROVE Part(n) = Part(n - 1) \cup ToSet(seqs[n])
      OBVIOUS
    <3>1. 1..n = (1..(n - 1)) \cup {n}
      OBVIOUS
    <3> QED
      BY <3>1
  <2>5. Part(0) = {}
    OBVIOUS
  <2>6. \A list \in T, n \in 1..N : /\ list \o seqs[n] \in T
                                   /\ ToSet(list \o seqs[n]) = ToSet(list) \cup ToSet(seqs[n])
    BY <1>1, ConcatElements
  <2> HIDE DEF T, N, Part
  <2>7. 0 \in S
    BY <1>1
  <2>8. ASSUME NEW n \in 1..N, n - 1 \in S PROVE n \in S
    <3>1. CASE n = 1
      <4>3. n - 1 = 0
        BY <3>1
      <4>1. flat[n] = seqs[n] /\ Part(n) = ToSet(seqs[n])
        BY <2>3, <2>4, <2>5, <3>1, <4>3
      <4>2. n \in 0..N /\ seqs[n] \in T
        BY <1>1
      <4> QED
        BY <4>1, <4>2
    <3>2. CASE n # 1
      <4>1. n \in 0..N /\ n - 1 # 0
        BY <1>1, <3>2
      <4>2. flat[n] = flat[n - 1] \o seqs[n] /\ flat[n - 1] \in T /\ ToSet(flat[n - 1]) = Part(n - 1)
        BY <2>3, <2>8, <3>2, <4>1
      <4> QED
        BY <2>4, <2>6, <4>1, <4>2
    <3> QED
      BY <3>1, <3>2
  <2> HIDE DEF S
  <2>9. 0..N \subseteq S
    BY <1>1, <2>7, <2>8, LoopInduction
  <2>10. N \in S
    BY <1>1, <2>9
  <2>11. Good(N)
    BY <2>10 DEF S
  <2> QED
    BY <1>1, <1>3, <2>1, <2>11 DEF T, Part
<1> QED
  BY <1>2, <1>3

\* What a name adds to a list of imports.
LEMMA AddOne ==
  ASSUME NEW Y, NEW list \in Seq(Y), NEW name \in Y, NEW ignore
  PROVE  LET new == AddIfNotInSlice(list, name, ignore)
         IN /\ new \in Seq(Y)
            /\ ToSet(new) = ToSet(list) \cup ({name} \ {ignore, None})
            /\ IsInjective(list) => IsInjective(new)
<1> DEFINE new == AddIfNotInSlice(list, name, ignore)
           N == Len(list)
<1>1. N \in Nat /\ DOMAIN list = 1..N
  OBVIOUS
<1>2. CASE name = None \/ name = ignore
  BY <1>2 DEF AddIfNotInSlice
<1>3. CASE Contains(list, name)
  BY <1>3 DEF AddIfNotInSlice, Contains, ToSet
<1>4. CASE ~(name = None \/ name = ignore \/ Contains(list, name))
  <2>1. new = Append(list, name)
    BY <1>4 DEF AddIfNotInSlice
  <2>2. /\ new \in Seq(Y) /\ DOMAIN new = 1..(N + 1)
        /\ new[N + 1] = name /\ \A k \in 1..N : new[k] = list[k]
    BY <1>1, <2>1
  <2>3. \A k \in 1..N : list[k] # name
    BY <1>4 DEF Contains
  <2> HIDE DEF new, N
  <2>4. 1..(N + 1) = (1..N) \cup {N + 1}
    BY <1>1
  <2>5. ToSet(new) = ToSet(list) \cup {name}
    BY <1>1, <2>2, <2>4 DEF ToSet
  <2>6. IsInjective(list) => IsInjective(new)
    <3> SUFFICES ASSUME IsInjective(list), NEW a \in 1..(N + 1), NEW b \in 1..(N + 1), new[a] = new[b]
                 PROVE  a = b
      BY <2>2 DEF IsInjective
    <3>1. a \in 1..N /\ b \in 1..N => a = b
      BY <1>1, <2>2 DEF IsInjective
    <3> QED
      BY <2>2, <2>3, <2>4, <3>1
  <2>7. {name} \ {ignore, None} = {name}
    BY <1>4
  <2> QED
    BY <2>2, <2>5, <2>6, <2>7 DEF new
<1> QED
  BY <1>2, <1>3, <1>4

\* The imports are the namespaces of the names, without the package itself.
IsImports(f, types, p) ==
  f = [n \in 0..Len(types) |-> IF n = 0 THEN <<>> ELSE AddIfNotInSlice(f[n - 1], Ns[types[n]], p)]

LEMMA ImportsLoop ==
  ASSUME NEW Z, NEW types \in Seq(Z), NEW p
  PROVE  /\ \E f : IsImports(f, types, p)
         /\ \A f : IsImports(f, types, p) =>
              /\ IsInjective(f[Len(types)])
              /\ ToSet(f[Len(types)]) = {Ns[t] : t \in ToSet(types)} \ {p, None}
<1> DEFINE N == Len(types)
           Y == {Ns[types[n]] : n \in 1..N}
           T == Seq(Y)
           step == [x \in T \X (1..N) |-> AddIfNotInSlice(x[1], Ns[types[x[2]]], p)]
<1>1. N \in Nat /\ DOMAIN types = 1..N /\ \A n \in 1..N : Ns[types[n]] \in Y
  OBVIOUS
<1>2. <<>> \in T
  OBVIOUS
<1> HIDE DEF N, Y
<1>3. \A list \in T, n \in 1..N :
        LET new == AddIfNotInSlice(list, Ns[types[n]], p)
        IN /\ new \in T
           /\ ToSet(new) = ToSet(list) \cup ({Ns[types[n]]} \ {p, None})
           /\ IsInjective(list) => IsInjective(new)
  BY <1>1, AddOne
<1> HIDE DEF T
<1>4. step \in [T \X (1..N) -> T]
  BY <1>3
<1>5. \A list \in T, n \in 1..N : step[<<list, n>>] = AddIfNotInSlice(list, Ns[types[n]], p)
  OBVIOUS
<1> HIDE DEF step
<1>6. PICK g : IsLoop(g, N, T, <<>>, step)
  BY <1>1, <1>2, <1>4, LoopExists
<1>7. /\ g \in [0..N -> T] /\ g[0] = <<>>
      /\ \A n \in 1..N : g[n] = step[<<g[n - 1], n>>]
  BY <1>6 DEF IsLoop
<1>8. \A n \in 1..N : n - 1 \in 0..N
  BY <1>1
<1>9. \A n \in 0..N : n # 0 => n \in 1..N
  BY <1>1
<1>10. IsImports(g, types, p)
  <2>1. g = [n \in 0..N |-> IF n = 0 THEN <<>> ELSE AddIfNotInSlice(g[n - 1], Ns[types[n]], p)]
    BY <1>5, <1>7, <1>8, <1>9
  <2> QED
    BY <2>1 DEF IsImports, N
<1>11. SUFFICES ASSUME NEW imports, IsImports(imports, types, p)
                PROVE  /\ IsInjective(imports[N])
                       /\ ToSet(imports[N]) = {Ns[t] : t \in ToSet(types)} \ {p, None}
  BY <1>10 DEF N
<1>12. imports[0] = <<>> /\ \A n \in 1..N : imports[n] = AddIfNotInSlice(imports[n - 1], Ns[types[n]], p)
  <2>1. 0 \in 0..N /\ \A n \in 1..N : n \in 0..N /\ n # 0
    BY <1>1
  <2>2. \A n \in 0..N : imports[n] =
          IF n = 0 THEN <<>> ELSE AddIfNotInSlice(imports[n - 1], Ns[types[n]], p)
    BY <1>11 DEF IsImports, N
  <2> QED
    BY <2>1, <2>2
<1> DEFINE Names(n) == {Ns[types[k]] : k \in 1..n} \ {p, None}
           Good(n) == /\ imports[n] \in T /\ IsInjective(imports[n])
                      /\ ToSet(imports[n]) = Names(n)
           S == {n \in 0..N : Good(n)}
<1>13. \A n \in 1..N : Names(n) = Names(n - 1) \cup ({Ns[types[n]]} \ {p, None})
  <2> SUFFICES ASSUME NEW n \in 1..N
               PROVE  Names(n) = Names(n - 1) \cup ({Ns[types[n]]} \ {p, None})
    OBVIOUS
  <2>1. 1..n = (1..(n - 1)) \cup {n}
    BY <1>1
  <2> QED
    BY <2>1
<1>14. Names(0) = {} /\ ToSet(imports[0]) = {} /\ IsInjective(imports[0])
  BY <1>12 DEF ToSet, IsInjective
<1> HIDE DEF Names
<1>15. 0 \in S
  <2>1. 0 \in 0..N /\ Good(0)
    <3>1. imports[0] \in T
      BY <1>2, <1>12
    <3> QED
      BY <1>1, <1>14, <3>1
  <2> HIDE DEF Good
  <2> QED
    BY <2>1
<1>16. ASSUME NEW n \in 1..N, n - 1 \in S PROVE n \in S
  <2>1. n \in 0..N /\ Good(n - 1)
    BY <1>1, <1>16
  <2> QED
    BY <1>3, <1>12, <1>13, <2>1
<1> HIDE DEF S
<1>17. 0..N \subseteq S
  BY <1>1, <1>15, <1>16, LoopInduction
<1>18. Good(N)
  BY <1>1, <1>17 DEF S
<1>19. Names(N) = {Ns[t] : t \in ToSet(types)} \ {p, None}
  BY <1>1 DEF Names, ToSet
<1> QED
  BY <1>18, <1>19

-----------------------------------------------------------------------------
(* The packages of a document.                                             *)

\* What the assumption says of a document.
IsDocument(d) ==
  /\ d \in Seq(ToSet(d))
  /\ \A n \in DOMAIN d :
       /\ d[n].name # Root /\ d[n].fields \in Seq(ToSet(d[n].fields))
       /\ \A f \in ToSet(d[n].fields) : f.type # Root

LEMMA DocumentShape == \A d \in Documents : IsDocument(d)
BY IdlAssumption DEF IsDocument

\* A list of names for each element.
LEMMA TypesInSeq ==
  ASSUME NEW el, el.fields \in Seq(ToSet(el.fields))
  PROVE  TypesIn(el) \in Seq({el.extends} \cup {f.type : f \in ToSet(el.fields)})
<1> DEFINE Z == {el.extends} \cup {f.type : f \in ToSet(el.fields)}
           types == [n \in DOMAIN el.fields |-> el.fields[n].type]
<1>1. DOMAIN el.fields = 1..Len(el.fields) /\ Len(el.fields) \in Nat
  OBVIOUS
<1>2. \A n \in DOMAIN el.fields : el.fields[n].type \in Z
  BY DEF ToSet
<1> HIDE DEF Z
<1>3. types \in Seq(Z)
  BY <1>1, <1>2
<1>4. <<el.extends>> \in Seq(Z)
  BY DEF Z
<1> QED
  BY <1>3, <1>4 DEF TypesIn, Z

\* The imports of a list of elements.
Named(els) ==
  UNION {{Ns[TypesIn(els[n])[x]] : x \in DOMAIN TypesIn(els[n])} : n \in DOMAIN els}

LEMMA ImportsNamed ==
  ASSUME NEW E, NEW els \in Seq(E), NEW p,
         \A el \in E : el.fields \in Seq(ToSet(el.fields))
  PROVE  /\ IsInjective(FindAllImports(p, els))
         /\ ToSet(FindAllImports(p, els)) = Named(els) \ {p, None}
<1> DEFINE Z(el) == {el.extends} \cup {f.type : f \in ToSet(el.fields)}
           Y == UNION {Z(el) : el \in E}
           seqs == [n \in DOMAIN els |-> TypesIn(els[n])]
           types == FlattenSeq(seqs)
           imports == CHOOSE f : IsImports(f, types, p)
<1>1. DOMAIN els = 1..Len(els) /\ Len(els) \in Nat /\ \A n \in DOMAIN els : els[n] \in E
  OBVIOUS
<1>2. ASSUME NEW n \in DOMAIN els PROVE TypesIn(els[n]) \in Seq(Y)
  <2>1. TypesIn(els[n]) \in Seq(Z(els[n])) /\ Z(els[n]) \subseteq Y
    BY <1>1, TypesInSeq
  <2> HIDE DEF Z, Y
  <2> QED
    BY <2>1
<1>3. seqs \in Seq(Seq(Y))
  <2> HIDE DEF Y
  <2> QED
    BY <1>1, <1>2
<1>4. types \in Seq(Y) /\ ToSet(types) = UNION {ToSet(seqs[n]) : n \in DOMAIN seqs}
  <2> HIDE DEF seqs, Y
  <2> QED
    BY <1>3, FlattenSeqElements
<1>5. FindAllImports(p, els) = imports[Len(types)]
  BY DEF FindAllImports, IsImports
<1>6. /\ IsInjective(imports[Len(types)])
      /\ ToSet(imports[Len(types)]) = {Ns[t] : t \in ToSet(types)} \ {p, None}
  <2> HIDE DEF types, Y
  <2> QED
    BY <1>4, ImportsLoop
<1>7. {Ns[t] : t \in ToSet(types)} = Named(els)
  <2>1. DOMAIN seqs = DOMAIN els /\ \A n \in DOMAIN els : seqs[n] = TypesIn(els[n])
    OBVIOUS
  <2> HIDE DEF seqs, types
  <2>2. \A t \in ToSet(types) : \E n \in DOMAIN els : \E x \in DOMAIN TypesIn(els[n]) : t = TypesIn(els[n])[x]
    <3> SUFFICES ASSUME NEW t \in ToSet(types)
                 PROVE  \E n \in DOMAIN els : \E x \in DOMAIN TypesIn(els[n]) : t = TypesIn(els[n])[x]
      OBVIOUS
    <3>1. PICK n \in DOMAIN els : t \in ToSet(TypesIn(els[n]))
      BY <1>4, <2>1
    <3> QED
      BY <3>1 DEF ToSet
  <2>3. \A n \in DOMAIN els : \A x \in DOMAIN TypesIn(els[n]) : TypesIn(els[n])[x] \in ToSet(types)
    BY <1>4, <2>1 DEF ToSet
  <2> QED
    BY <2>2, <2>3 DEF Named
<1> HIDE DEF imports, types, seqs
<1> QED
  BY <1>5, <1>6, <1>7

\* ImportsMatch is about the document alone.
LEMMA PackagesMatch ==
  ASSUME IsDocument(elems)
  PROVE  ImportsMatch
<1> SUFFICES ASSUME NEW default \in Defaults
             PROVE  /\ \A n \in DOMAIN elems : elems[n].kind # "meta" =>
                         Cardinality({p \in Packages(default) :
                                        Contains(Elements(p, default), elems[n])}) = 1
                    /\ \A p \in Packages(default) :
                         LET els == Elements(p, default)
                             imports == FindAllImports(p, els)
                             named == UNION {{Ns[TypesIn(els[n])[x]] : x \in DOMAIN TypesIn(els[n])} :
                                              n \in DOMAIN els}
                         IN IsInjective(imports) /\ ToSet(imports) = named \ {p, None}
  BY DEF ImportsMatch
<1>1. ASSUME NEW p
      PROVE  /\ Elements(p, default) \in Seq(ToSet(elems))
             /\ \A e : Contains(Elements(p, default), e) <=>
                         \E n \in DOMAIN elems : elems[n] = e /\ InPackage(elems[n], p, default)
  BY ElementsPartition DEF IsDocument
<1>2. ASSUME NEW n \in DOMAIN elems, elems[n].kind # "meta"
      PROVE  Cardinality({p \in Packages(default) :
                            Contains(Elements(p, default), elems[n])}) = 1
  <2> DEFINE own == Package(elems[n], default)
  <2>1. own \in Packages(default)
    BY <1>2 DEF Packages
  <2>2. ASSUME NEW p
        PROVE  Contains(Elements(p, default), elems[n]) <=> p = own
    BY <1>1, <1>2 DEF InPackage
  <2> HIDE DEF own
  <2>3. {p \in Packages(default) : Contains(Elements(p, default), elems[n])} = {own}
    BY <2>1, <2>2
  <2> QED
    BY <2>3, FS_Singleton
<1>3. \A el \in ToSet(elems) : el.fields \in Seq(ToSet(el.fields))
  BY DEF IsDocument, ToSet
<1>4. ASSUME NEW p
      PROVE  LET els == Elements(p, default)
                 imports == FindAllImports(p, els)
             IN IsInjective(imports) /\ ToSet(imports) = Named(els) \ {p, None}
  <2> DEFINE E == ToSet(elems)
             els == Elements(p, default)
  <2>1. els \in Seq(E) /\ \A el \in E : el.fields \in Seq(ToSet(el.fields))
    BY <1>1, <1>3
  <2> HIDE DEF E, els
  <2>2. IsInjective(FindAllImports(p, els)) /\ ToSet(FindAllImports(p, els)) = Named(els) \ {p, None}
    BY <2>1, ImportsNamed
  <2> QED
    BY <2>2 DEF els
<1> QED
  BY <1>2, <1>4 DEF Named

LEMMA DocumentInv == Spec => [](elems \in Documents)
<1>1. Init => elems \in Documents
  BY DEF Init
<1>2. elems \in Documents /\ [Next]_vars => (elems \in Documents)'
  BY DEF Next, vars, newIdl, ReadElem, Parsed, NextStruct, ToParent, Topmost, AppendFields,
         FieldsDone, Validate, MakeMember, NoTestValue, ConvertMember, StructEnds
<1> QED
  BY <1>1, <1>2, PTL DEF Spec

(* The packages of the generated code: every element in one, and its       *)
(* imports those it needs.                                                 *)
THEOREM PackagesImported == Spec => []ImportsMatch
<1>1. elems \in Documents => ImportsMatch
  BY DocumentShape, PackagesMatch
<1> QED
  BY <1>1, DocumentInv, PTL

-----------------------------------------------------------------------------
(* NewIdl.                                                                 *)
StructNames(d) == {d[n].name : n \in {x \in DOMAIN d : d[x].kind = "struct"}}
AnyField == UNION {ToSet(elems[n].fields) : n \in DOMAIN elems}
AnyFrame == [type : DOMAIN structs \cup {Root}, next : Nat]

\* The structs are those of the document, and the recursion goes from parent to parent.
ParseInv ==
  /\ elems \in Documents /\ i \in Nat \ {0}
  /\ \A s \in DOMAIN structs : \E n \in DOMAIN elems :
       elems[n].kind = "struct" /\ elems[n].name = s /\ structs[s] = elems[n]

ExtendsCircle ==
  \E C \in (SUBSET DOMAIN structs) \ {{}} : \A s \in C : HasParent(s) /\ Parent(s) \in C

Visited == IF pc \in {"up", "down"} THEN {stack[1].type} ELSE {}
ParentsInv ==
  /\ Computed \/ pc \in {"parse", "fields", "up", "down", "extends overflow"}
  /\ todo \subseteq DOMAIN structs
  /\ DOMAIN allFields \subseteq DOMAIN structs
  /\ pc = "parse" => todo = {} /\ DOMAIN allFields = {}
  /\ pc \in {"fields", "up", "down"} => DOMAIN structs = todo \cup DOMAIN allFields \cup Visited
  /\ pc # "down" => acc = <<>>
  /\ Computed => DOMAIN allFields = DOMAIN structs
  /\ pc \in {"up", "down"} =>
       /\ stack \in Seq(AnyFrame) /\ Len(stack) \in 1..StackLimit
       /\ \A k \in 1..Len(stack) : stack[k].type \in DOMAIN structs
       /\ \A k \in 1..(Len(stack) - 1) :
            HasParent(stack[k].type) /\ stack[k + 1].type = Parent(stack[k].type)
  /\ pc = "extends overflow" => ExtendsCircle

\* The structs R whose recursion has come back have a finite line of parents, which rank
\* counts, and inherit what inh says.
Grounded(R, rank, inh) ==
  /\ rank \in [R -> Nat] /\ inh \in [R -> Seq(AnyField)]
  /\ \A s \in R : ~HasParent(s) => inh[s] = structs[s].fields
  /\ \A s \in R : HasParent(s) =>
       /\ Parent(s) \in R /\ rank[Parent(s)] < rank[s]
       /\ inh[s] = inh[Parent(s)] \o structs[s].fields

InheritInv ==
  pc # "parse" =>
    \E R \in SUBSET DOMAIN structs : \E rank, inh :
      /\ Grounded(R, rank, inh)
      /\ \A s \in DOMAIN allFields : s \in R /\ allFields[s] = inh[s]
      /\ pc = "down" =>
           /\ ~HasParent(Top.type) => acc = <<>>
           /\ HasParent(Top.type) => Parent(Top.type) \in R /\ acc = inh[Parent(Top.type)]

\* A line of more names than there are comes back to one.
LEMMA Repeats ==
  ASSUME NEW T, IsFiniteSet(T), NEW n \in Nat, Cardinality(T) < n, NEW c \in [1..n -> T]
  PROVE  \E j, k \in 1..n : j < k /\ c[j] = c[k]
<1>1. IsFiniteSet(1..n) /\ Cardinality(1..n) = n
  BY FS_Interval
<1>2. PICK j, k \in 1..n : j # k /\ c[j] = c[k]
  BY <1>1, FS_PigeonHole
<1> QED
  BY <1>2

LEMMA StructsFinite ==
  ASSUME ParseInv
  PROVE  IsFiniteSet(DOMAIN structs) /\ Cardinality(DOMAIN structs) < StackLimit
<1> DEFINE K == {x \in DOMAIN elems : elems[x].kind = "struct"}
           T == StructNames(elems)
           name == [n \in K |-> elems[n].name]
<1>1. IsDocument(elems) /\ Cardinality(T) < StackLimit /\ StackLimit \in Nat
  BY DocumentShape, IdlAssumption DEF ParseInv, StructNames
<1>2. IsFiniteSet(K)
  <2>1. DOMAIN elems = 1..Len(elems) /\ Len(elems) \in Int /\ 1 \in Int
    BY <1>1 DEF IsDocument
  <2>2. IsFiniteSet(DOMAIN elems)
    BY <2>1, FS_Interval
  <2> QED
    BY <2>2, FS_Subset
<1>3. name \in Surjection(K, T)
  BY DEF Surjection, StructNames
<1>4. IsFiniteSet(T)
  <2> HIDE DEF K, T, name
  <2> QED
    BY <1>2, <1>3, FS_Surjection
<1>5. DOMAIN structs \subseteq T
  BY DEF ParseInv, StructNames
<1>6. /\ IsFiniteSet(DOMAIN structs) /\ Cardinality(DOMAIN structs) <= Cardinality(T)
      /\ Cardinality(T) \in Nat /\ Cardinality(DOMAIN structs) \in Nat
  <2> HIDE DEF T
  <2> QED
    BY <1>4, <1>5, FS_Subset, FS_CardinalityType
<1> QED
  BY <1>1, <1>6

LEMMA StructShape ==
  ASSUME ParseInv
  PROVE  /\ \A s \in DOMAIN structs : s # Root /\ structs[s].fields \in Seq(AnyField)
         /\ \A f \in AnyField : f.type # Root
<1>1. IsDocument(elems)
  BY DocumentShape DEF ParseInv
<1>2. \A n \in DOMAIN elems : elems[n].fields \in Seq(AnyField) /\ elems[n].name # Root
  <2> SUFFICES ASSUME NEW n \in DOMAIN elems
               PROVE  elems[n].fields \in Seq(AnyField) /\ elems[n].name # Root
    OBVIOUS
  <2>1. elems[n].fields \in Seq(ToSet(elems[n].fields)) /\ elems[n].name # Root
    BY <1>1 DEF IsDocument
  <2>2. ToSet(elems[n].fields) \subseteq AnyField
    BY DEF AnyField
  <2> QED
    BY <2>1, <2>2
<1>3. \A f \in AnyField : f.type # Root
  BY <1>1 DEF AnyField, IsDocument
<1> QED
  BY <1>2, <1>3 DEF ParseInv

LEMMA ParseInit == Init => ParseInv
BY DEF Init, ParseInv, Empty

LEMMA ParseStep == ParseInv /\ [Next]_vars => ParseInv'
<1> SUFFICES ASSUME ParseInv, [Next]_vars PROVE ParseInv'
  OBVIOUS
<1>1. CASE ReadElem
  <2> DEFINE el == elems[i]
  <2>1. i \in DOMAIN elems /\ elems' = elems /\ i' = i + 1
    <3>1. elems \in Seq(ToSet(elems)) /\ i \in Nat \ {0} /\ i <= Len(elems)
      BY <1>1, DocumentShape DEF ReadElem, ParseInv, IsDocument
    <3> QED
      BY <1>1, <3>1 DEF ReadElem
  <2>2. \/ structs' = structs
        \/ el.kind = "struct" /\ structs' = Put(structs, el.name, el)
    BY <1>1 DEF ReadElem
  <2> QED
    BY <2>1, <2>2 DEF ParseInv, Put
<1>2. CASE UNCHANGED newIdl
  BY <1>2 DEF newIdl, ParseInv
<1> QED
  BY <1>1, <1>2 DEF Next, vars, Parsed, NextStruct, ToParent, Topmost, AppendFields,
         FieldsDone, Validate, MakeMember, NoTestValue, ConvertMember, StructEnds

\* The stack of a recursion.
LEMMA FrontShorter ==
  ASSUME NEW X, NEW s \in Seq(X), Len(s) > 0
  PROVE  /\ Front(s) \in Seq(X) /\ Len(Front(s)) = Len(s) - 1
         /\ \A k \in 1..(Len(s) - 1) : Front(s)[k] = s[k]
<1>1. Len(s) \in Nat /\ Len(s) - 1 \in Nat
  OBVIOUS
<1>2. \A k \in 1..(Len(s) - 1) : s[k] \in X
  BY <1>1
<1>3. Front(s) = [k \in 1..(Len(s) - 1) |-> s[k]]
  BY <1>1 DEF Front
<1> QED
  BY <1>1, <1>2, <1>3

LEMMA AppendLonger ==
  ASSUME NEW X, NEW s \in Seq(X), NEW e \in X
  PROVE  /\ Append(s, e) \in Seq(X) /\ Len(Append(s, e)) = Len(s) + 1
         /\ Append(s, e)[Len(s) + 1] = e /\ \A k \in 1..Len(s) : Append(s, e)[k] = s[k]
OBVIOUS

LEMMA LimitNat == StackLimit \in Nat
BY IdlAssumption

LEMMA ExtendsOverflow ==
  ASSUME ParseInv, ParentsInv, pc = "up", HasParent(Top.type), Len(stack) = StackLimit
  PROVE  ExtendsCircle
<1> DEFINE L == Len(stack)
           c == [k \in 1..(L + 1) |-> IF k <= L THEN stack[k].type ELSE Parent(stack[L].type)]
<1>1. L \in Nat \ {0} /\ Top = stack[L]
  BY IdlAssumption DEF ParentsInv, Last, Top
<1>2. /\ \A k \in 1..L : c[k] = stack[k].type /\ c[k] \in DOMAIN structs
      /\ \A k \in 1..L : HasParent(c[k]) /\ c[k + 1] = Parent(c[k])
  <2>1. \A k \in 1..L : c[k] = stack[k].type /\ c[k] \in DOMAIN structs
    BY <1>1 DEF ParentsInv
  <2>2. c[L + 1] = Parent(stack[L].type) /\ HasParent(stack[L].type)
    BY <1>1
  <2>3. \A k \in 1..(L - 1) : HasParent(c[k]) /\ c[k + 1] = Parent(c[k])
    BY <1>1, <2>1 DEF ParentsInv
  <2>4. \A k \in 1..L : k = L \/ k \in 1..(L - 1)
    BY <1>1
  <2> HIDE DEF c, L
  <2>5. L \in 1..L
    BY <1>1
  <2> QED
    BY <2>1, <2>2, <2>3, <2>4, <2>5
<1>3. c[L + 1] \in DOMAIN structs
  BY <1>1, <1>2 DEF HasParent
<1>4. c \in [1..(L + 1) -> DOMAIN structs]
  BY <1>1, <1>2, <1>3
<1>5. IsFiniteSet(DOMAIN structs) /\ Cardinality(DOMAIN structs) < L + 1 /\ L + 1 \in Nat
  BY <1>1, StructsFinite, FS_CardinalityType
<1> HIDE DEF c, L
<1>6. PICK j, k \in 1..(L + 1) : j < k /\ c[j] = c[k]
  BY <1>4, <1>5, Repeats
<1> DEFINE C == {c[x] : x \in 1..(k - 1)}
<1>7. C # {} /\ C \subseteq DOMAIN structs
  <2>1. j \in 1..(k - 1) /\ 1..(k - 1) \subseteq 1..L
    BY <1>1, <1>6
  <2> QED
    BY <1>2, <2>1
<1>8. ASSUME NEW x \in 1..(k - 1) PROVE HasParent(c[x]) /\ Parent(c[x]) \in C
  <2>1. x \in 1..L /\ HasParent(c[x]) /\ Parent(c[x]) = c[x + 1]
    BY <1>1, <1>2
  <2>2. CASE x = k - 1
    BY <1>1, <1>6, <2>1, <2>2
  <2>3. CASE x # k - 1
    <3>1. x + 1 \in 1..(k - 1)
      BY <2>3
    <3> QED
      BY <2>1, <3>1
  <2> QED
    BY <2>2, <2>3
<1> QED
  BY <1>7, <1>8 DEF ExtendsCircle

LEMMA ParentsInit == Init => ParentsInv
BY DEF Init, ParentsInv, Empty, Computed

LEMMA ParentsStep == ParseInv /\ ParentsInv /\ [Next]_vars => ParentsInv'
<1> SUFFICES ASSUME ParseInv, ParentsInv, [Next]_vars PROVE ParentsInv'
  OBVIOUS
<1> USE DEF computed, newIdl, trial, Goto
<1>0. StackLimit \in Nat /\ 1 \in 1..StackLimit
  <2>1. Cardinality(DOMAIN structs) \in Nat /\ Cardinality(DOMAIN structs) < StackLimit
    BY StructsFinite, FS_CardinalityType
  <2> QED
    BY <2>1, LimitNat
<1>1. CASE ReadElem
  BY <1>1 DEF ReadElem, ParentsInv, Computed, Visited
<1>2. CASE Parsed
  BY <1>2 DEF Parsed, ParentsInv, Computed, Visited
<1>3. CASE NextStruct
  <2>1. PICK s \in todo : todo' = todo \ {s} /\ stack' = <<Frame(s)>>
    BY <1>3 DEF NextStruct
  <2>2. /\ pc = "fields" /\ pc' = "up"
        /\ UNCHANGED <<elems, i, structs, enums, acc, allFields>>
    BY <1>3 DEF NextStruct
  <2>3. Frame(s) \in AnyFrame
    BY <2>1, <2>2 DEF Frame, AnyFrame, ParentsInv
  <2>4. /\ stack' \in Seq(AnyFrame) /\ Len(stack') = 1 /\ stack'[1].type = s
        /\ s \in DOMAIN structs
    <3> DEFINE f == Frame(s)
    <3>1. f.type = s
      BY DEF Frame
    <3>2. stack' = <<f>> /\ f \in AnyFrame /\ s \in DOMAIN structs
      BY <2>1, <2>2, <2>3 DEF ParentsInv
    <3> HIDE DEF f
    <3> QED
      BY <3>1, <3>2
  <2> QED
    BY <1>0, <2>1, <2>2, <2>4 DEF AnyFrame, HasParent, Parent, ParentsInv, Computed, Visited
<1>4. CASE ToParent
  <2>1. /\ pc = "up" /\ HasParent(Top.type) /\ UNCHANGED <<newIdl, computed, trial>>
        /\ Enter(stack, Parent(Top.type), "extends overflow")
    BY <1>4 DEF ToParent
  <2>2. /\ stack \in Seq(AnyFrame) /\ Len(stack) \in 1..StackLimit /\ Top = stack[Len(stack)]
        /\ Len(stack) \in Nat \ {0} /\ StackLimit \in Nat
        /\ \A k \in 1..Len(stack) : stack[k].type \in DOMAIN structs
        /\ \A k \in 1..(Len(stack) - 1) :
             HasParent(stack[k].type) /\ stack[k + 1].type = Parent(stack[k].type)
    <3>1. pc = "up"
      BY <2>1
    <3> QED
      BY <1>0, <3>1 DEF Top, Last, ParentsInv
  <2>3. CASE Len(stack) < StackLimit
    <3> DEFINE f == Frame(Parent(Top.type))
    <3>1. stack' = Append(stack, f) /\ pc' = pc
      BY <2>1, <2>3 DEF Enter
    <3>2. f \in AnyFrame /\ f.type = Parent(Top.type) /\ f.type \in DOMAIN structs
      BY <2>1 DEF Frame, AnyFrame, HasParent
    <3> HIDE DEF f
    <3>3. /\ stack' \in Seq(AnyFrame) /\ Len(stack') = Len(stack) + 1
          /\ stack'[Len(stack) + 1] = f /\ \A k \in 1..Len(stack) : stack'[k] = stack[k]
      BY <2>2, <3>1, <3>2, AppendLonger
    <3>4. Len(stack') \in 1..StackLimit /\ stack'[1] = stack[1]
      BY <2>2, <2>3, <3>3
    <3>5. \A k \in 1..Len(stack') : k = Len(stack) + 1 \/ k \in 1..Len(stack)
      BY <2>2, <3>3
    <3>6. \A k \in 1..Len(stack') : stack'[k].type \in DOMAIN structs
      <4> SUFFICES ASSUME NEW k \in 1..Len(stack') PROVE stack'[k].type \in DOMAIN structs
        OBVIOUS
      <4>1. CASE k = Len(stack) + 1
        BY <3>2, <3>3, <4>1
      <4>2. CASE k \in 1..Len(stack)
        <5>1. stack'[k] = stack[k]
          BY <3>3, <4>2
        <5> QED
          BY <2>2, <4>2, <5>1
      <4> QED
        BY <3>5, <4>1, <4>2
    <3>7. \A k \in 1..(Len(stack') - 1) : HasParent(stack'[k].type) /\ stack'[k + 1].type = Parent(stack'[k].type)
      <4> SUFFICES ASSUME NEW k \in 1..Len(stack)
                   PROVE  HasParent(stack'[k].type) /\ stack'[k + 1].type = Parent(stack'[k].type)
        BY <2>2, <3>3
      <4>1. CASE k = Len(stack)
        BY <2>1, <2>2, <3>2, <3>3, <4>1
      <4>2. CASE k # Len(stack)
        <5>1. k \in 1..(Len(stack) - 1) /\ k + 1 \in 1..Len(stack)
          BY <2>2, <4>2
        <5> QED
          <6>1. stack'[k] = stack[k] /\ stack'[k + 1] = stack[k + 1]
            BY <3>3, <5>1
          <6> QED
            BY <2>2, <5>1, <6>1
      <4> QED
        BY <4>1, <4>2
    <3> QED
      BY <2>1, <3>1, <3>3, <3>4, <3>6, <3>7 DEF AnyFrame, HasParent, Parent, ParentsInv, Computed, Visited
  <2>4. CASE ~(Len(stack) < StackLimit)
    <3>1. pc' = "extends overflow" /\ UNCHANGED <<stack, newIdl, computed, trial>>
      BY <2>1, <2>4 DEF Enter
    <3>2. ExtendsCircle
      <4>1. Len(stack) = StackLimit
        BY <2>2, <2>4
      <4> QED
        BY <2>1, <4>1, ExtendsOverflow
    <3> QED
      BY <2>1, <3>1, <3>2 DEF ExtendsCircle, HasParent, Parent, ParentsInv, Computed, Visited
  <2> QED
    BY <2>3, <2>4
<1>5. CASE Topmost
  BY <1>5 DEF Topmost, AnyFrame, HasParent, Parent, ParentsInv, Computed, Visited
<1>6. CASE AppendFields
  <2> DEFINE fields == acc \o structs[Top.type].fields
             last == Len(stack) = 1
  <2>1. /\ pc = "down" /\ stack' = Front(stack)
        /\ acc' = IF last THEN <<>> ELSE fields
        /\ allFields' = IF last THEN Put(allFields, Top.type, fields) ELSE allFields
        /\ pc' = IF last THEN "fields" ELSE "down"
        /\ UNCHANGED <<newIdl, todo, trial>>
    BY <1>6 DEF AppendFields, Pop
  <2>2. /\ stack \in Seq(AnyFrame) /\ Len(stack) \in 1..StackLimit /\ Top = stack[Len(stack)]
        /\ Len(stack) \in Nat \ {0} /\ StackLimit \in Nat
        /\ \A k \in 1..Len(stack) : stack[k].type \in DOMAIN structs
        /\ \A k \in 1..(Len(stack) - 1) :
             HasParent(stack[k].type) /\ stack[k + 1].type = Parent(stack[k].type)
    BY <1>0, <2>1 DEF Top, Last, ParentsInv
  <2>3. CASE last
    <3>1. Top = stack[1] /\ DOMAIN allFields' = DOMAIN allFields \cup {Top.type}
      BY <2>1, <2>2, <2>3 DEF Put
    <3>2. Top.type \in DOMAIN structs
      BY <2>1, <2>2
    <3> HIDE DEF fields
    <3> QED
      BY <2>1, <2>3, <3>1, <3>2 DEF ParentsInv, Computed, Visited
  <2>4. CASE ~last
    <3>1. /\ stack' \in Seq(AnyFrame) /\ Len(stack') = Len(stack) - 1
          /\ \A k \in 1..(Len(stack) - 1) : stack'[k] = stack[k]
      BY <2>1, <2>2, FrontShorter
    <3>2. Len(stack') \in 1..StackLimit /\ stack'[1] = stack[1]
      BY <2>2, <2>4, <3>1
    <3>3. \A k \in 1..Len(stack') : stack'[k].type \in DOMAIN structs
      BY <2>1, <2>2, <3>1
    <3>4. \A k \in 1..(Len(stack') - 1) :
            HasParent(stack'[k].type) /\ stack'[k + 1].type = Parent(stack'[k].type)
      <4> SUFFICES ASSUME NEW k \in 1..(Len(stack) - 2)
                   PROVE  HasParent(stack'[k].type) /\ stack'[k + 1].type = Parent(stack'[k].type)
        BY <2>2, <3>1
      <4>1. k \in 1..(Len(stack) - 1) /\ k + 1 \in 1..(Len(stack) - 1)
        BY <2>2
      <4> QED
        <5>1. stack'[k] = stack[k] /\ stack'[k + 1] = stack[k + 1]
          BY <3>1, <4>1
        <5> QED
          BY <2>2, <4>1, <5>1
    <3> HIDE DEF fields
    <3> QED
      BY <2>1, <2>4, <3>1, <3>2, <3>3, <3>4 DEF AnyFrame, HasParent, Parent, ParentsInv, Computed, Visited
  <2> QED
    BY <2>3, <2>4
<1>7. CASE FieldsDone
  BY <1>7 DEF FieldsDone, ParentsInv, Computed, Visited
<1>8. CASE Validate \/ MakeMember \/ NoTestValue \/ StructEnds \/ ConvertMember
  <2>1. UNCHANGED <<newIdl, computed>> /\ Computed /\ Computed' /\ pc # "down" /\ pc' # "down"
        /\ pc' \in {"test", "convert", "accepted", "refused", "trial overflow"}
    BY <1>8 DEF Validate, MakeMember, NoTestValue, StructEnds, ConvertMember, Enter, Computed
  <2> QED
    BY <2>1 DEF ParentsInv, Computed, Visited
<1>9. CASE UNCHANGED vars
  BY <1>9 DEF vars, AnyFrame, HasParent, Parent, ExtendsCircle, ParentsInv, Computed, Visited
<1> QED
  BY <1>1, <1>2, <1>3, <1>4, <1>5, <1>6, <1>7, <1>8, <1>9 DEF Next

\* One more struct whose recursion has come back.
Inherits(R, inh, s, fields, R2, rank2, inh2) ==
  /\ Grounded(R2, rank2, inh2)
  /\ \A r \in R : r \in R2 /\ inh2[r] = inh[r]
  /\ s \in R2 /\ inh2[s] = fields
LEMMA Inherit ==
  ASSUME NEW R \in SUBSET DOMAIN structs, NEW rank, NEW inh, Grounded(R, rank, inh),
         NEW s \in DOMAIN structs, structs[s].fields \in Seq(AnyField),
         NEW inherited,
         ~HasParent(s) => inherited = <<>>,
         HasParent(s) => Parent(s) \in R /\ inherited = inh[Parent(s)]
  PROVE  \E R2 \in SUBSET DOMAIN structs :
           \E rank2, inh2 : Inherits(R, inh, s, inherited \o structs[s].fields, R2, rank2, inh2)
<1> DEFINE all == inherited \o structs[s].fields
<1>1. rank \in [R -> Nat] /\ inh \in [R -> Seq(AnyField)]
  BY DEF Grounded
<1>2. inherited \in Seq(AnyField)
  <2>1. CASE HasParent(s)
    BY <1>1, <2>1
  <2>2. CASE ~HasParent(s)
    BY <2>2
  <2> QED
    BY <2>1, <2>2
<1>3. all \in Seq(AnyField) /\ (~HasParent(s) => all = structs[s].fields)
  BY <1>2
<1> HIDE DEF all
<1>4. CASE s \in R
  <2>1. inh[s] = all
    <3>1. CASE HasParent(s)
      BY <1>4, <3>1 DEF Grounded, all
    <3>2. CASE ~HasParent(s)
      BY <1>3, <1>4, <3>2 DEF Grounded
    <3> QED
      BY <3>1, <3>2
  <2>2. Inherits(R, inh, s, all, R, rank, inh)
    BY <1>4, <2>1 DEF Inherits
  <2> QED
    BY <2>2 DEF all
<1>5. CASE s \notin R
  <2> DEFINE R2 == R \cup {s}
             above == IF HasParent(s) THEN rank[Parent(s)] + 1 ELSE 0
             rank2 == [r \in R2 |-> IF r = s THEN above ELSE rank[r]]
             inh2 == [r \in R2 |-> IF r = s THEN all ELSE inh[r]]
  <2>1. above \in Nat /\ (HasParent(s) => rank[Parent(s)] < above)
    BY <1>1
  <2> HIDE DEF above
  <2>2. rank2 \in [R2 -> Nat] /\ inh2 \in [R2 -> Seq(AnyField)]
    BY <1>1, <1>3, <2>1
  <2>3. rank2[s] = above /\ inh2[s] = all /\ s \in R2
    OBVIOUS
  <2>4. \A r \in R : r # s /\ rank2[r] = rank[r] /\ inh2[r] = inh[r]
    BY <1>5
  <2>5. R2 \in SUBSET DOMAIN structs /\ \A r \in R2 : r = s \/ r \in R
    OBVIOUS
  <2>6. \A r \in R : r \in R2
    OBVIOUS
  <2> HIDE DEF R2, rank2, inh2
  <2>7. ASSUME NEW r \in R2, ~HasParent(r) PROVE inh2[r] = structs[r].fields
    <3>1. CASE r = s
      BY <1>3, <2>3, <2>7, <3>1
    <3>2. CASE r \in R
      BY <2>4, <2>7, <3>2 DEF Grounded
    <3> QED
      BY <2>5, <3>1, <3>2
  <2>8. ASSUME NEW r \in R2, HasParent(r)
        PROVE  /\ Parent(r) \in R2 /\ rank2[Parent(r)] < rank2[r]
               /\ inh2[r] = inh2[Parent(r)] \o structs[r].fields
    <3>1. CASE r = s
      <4>1. Parent(s) \in R /\ inherited = inh[Parent(s)]
        BY <2>8, <3>1
      <4>2. rank2[Parent(s)] = rank[Parent(s)] /\ inh2[Parent(s)] = inh[Parent(s)]
        BY <2>4, <4>1
      <4> QED
        BY <2>1, <2>3, <2>6, <2>8, <3>1, <4>1, <4>2 DEF all
    <3>2. CASE r \in R
      <4>1. /\ Parent(r) \in R /\ rank[Parent(r)] < rank[r]
            /\ inh[r] = inh[Parent(r)] \o structs[r].fields
        BY <2>8, <3>2 DEF Grounded
      <4> QED
        BY <2>4, <2>6, <3>2, <4>1
    <3> QED
      BY <2>5, <3>1, <3>2
  <2>9. Grounded(R2, rank2, inh2)
    BY <2>2, <2>7, <2>8 DEF Grounded
  <2>10. Inherits(R, inh, s, all, R2, rank2, inh2)
    BY <2>3, <2>4, <2>6, <2>9 DEF Inherits
  <2> QED
    BY <2>5, <2>10 DEF all
<1> QED
  BY <1>4, <1>5

LEMMA LessOne ==
  ASSUME NEW n \in Nat \ {0}, n # 1
  PROVE  n - 1 \in 1..(n - 1) /\ n - 1 + 1 = n
OBVIOUS

LEMMA InheritInit == Init => InheritInv
BY DEF Init, InheritInv

LEMMA InheritStep == ParseInv /\ ParentsInv /\ InheritInv /\ [Next]_vars => InheritInv'
<1> SUFFICES ASSUME ParseInv, ParentsInv, InheritInv, [Next]_vars PROVE InheritInv'
  OBVIOUS
<1>1. CASE ReadElem
  BY <1>1 DEF ReadElem, InheritInv
<1>2. CASE Parsed
  <2> DEFINE none == [s \in {} |-> 0]
  <2>1. UNCHANGED <<elems, structs, allFields>> /\ pc' = "fields" /\ DOMAIN allFields = {}
    BY <1>2 DEF Parsed, newIdl, Goto, ParentsInv
  <2>2. Grounded({}, none, none)'
    BY DEF Grounded
  <2> QED
    BY <2>1, <2>2 DEF InheritInv
<1>3. ASSUME UNCHANGED <<elems, structs, allFields>>, pc # "parse",
             pc' = "down" => pc = "up" /\ ~HasParent(Top.type) /\ UNCHANGED <<stack, acc>>
      PROVE  InheritInv'
  <2>1. PICK R \in SUBSET DOMAIN structs : \E rank, inh :
          /\ Grounded(R, rank, inh)
          /\ \A s \in DOMAIN allFields : s \in R /\ allFields[s] = inh[s]
    BY <1>3 DEF InheritInv
  <2>2. PICK rank, inh :
          /\ Grounded(R, rank, inh)
          /\ \A s \in DOMAIN allFields : s \in R /\ allFields[s] = inh[s]
    BY <2>1
  <2>3. Grounded(R, rank, inh)' /\ R \in SUBSET DOMAIN structs'
    <3>1. AnyField' = AnyField /\ structs' = structs
      BY <1>3 DEF AnyField
    <3> QED
      BY <2>2, <3>1 DEF Grounded, HasParent, Parent
  <2>4. pc' = "down" => ~HasParent(Top.type)' /\ acc' = <<>>
    BY <1>3 DEF ParentsInv, HasParent, Parent, Top
  <2>5. \A s \in DOMAIN allFields' : s \in R /\ allFields'[s] = inh[s]
    BY <1>3, <2>2
  <2> QED
    BY <2>3, <2>4, <2>5 DEF InheritInv
<1>4. CASE AppendFields
  <2> DEFINE s == Top.type
             fields == acc \o structs[s].fields
             last == Len(stack) = 1
  <2>1. /\ pc = "down" /\ stack' = Front(stack)
        /\ acc' = IF last THEN <<>> ELSE fields
        /\ allFields' = IF last THEN Put(allFields, s, fields) ELSE allFields
        /\ pc' = IF last THEN "fields" ELSE "down"
        /\ UNCHANGED <<elems, structs>>
    BY <1>4 DEF AppendFields, Pop, Goto, newIdl
  <2>2. /\ stack \in Seq(AnyFrame) /\ Len(stack) \in Nat \ {0} /\ s = stack[Len(stack)].type
        /\ s \in DOMAIN structs
        /\ \A k \in 1..(Len(stack) - 1) :
             HasParent(stack[k].type) /\ stack[k + 1].type = Parent(stack[k].type)
    <3>1. pc = "down"
      BY <2>1
    <3> QED
      BY <3>1, LimitNat DEF Top, Last, ParentsInv
  <2>3. PICK R \in SUBSET DOMAIN structs : \E rank, inh :
          /\ Grounded(R, rank, inh)
          /\ \A r \in DOMAIN allFields : r \in R /\ allFields[r] = inh[r]
          /\ ~HasParent(s) => acc = <<>>
          /\ HasParent(s) => Parent(s) \in R /\ acc = inh[Parent(s)]
    BY <2>1 DEF InheritInv
  <2>4. PICK rank, inh :
          /\ Grounded(R, rank, inh)
          /\ \A r \in DOMAIN allFields : r \in R /\ allFields[r] = inh[r]
          /\ ~HasParent(s) => acc = <<>>
          /\ HasParent(s) => Parent(s) \in R /\ acc = inh[Parent(s)]
    BY <2>3
  <2>5. structs[s].fields \in Seq(AnyField)
    BY <2>2, StructShape
  <2> HIDE DEF s
  <2>6. PICK R2 \in SUBSET DOMAIN structs :
          \E rank2, inh2 : Inherits(R, inh, s, fields, R2, rank2, inh2)
    <3>1. Grounded(R, rank, inh) /\ s \in DOMAIN structs
      BY <2>2, <2>4
    <3>2. /\ ~HasParent(s) => acc = <<>>
          /\ HasParent(s) => Parent(s) \in R /\ acc = inh[Parent(s)]
      BY <2>4
    <3> QED
      BY <2>5, <3>1, <3>2, Inherit
  <2>7. PICK rank2, inh2 :
          /\ Grounded(R2, rank2, inh2)
          /\ \A r \in R : r \in R2 /\ inh2[r] = inh[r]
          /\ s \in R2 /\ inh2[s] = fields
    BY <2>6 DEF Inherits
  <2> HIDE DEF fields
  <2>8. Grounded(R2, rank2, inh2)' /\ R2 \in SUBSET DOMAIN structs'
    BY <2>1, <2>7 DEF Grounded, AnyField, HasParent, Parent
  <2>9. \A r \in DOMAIN allFields' : r \in R2 /\ allFields'[r] = inh2[r]
    BY <2>1, <2>4, <2>7 DEF Put
  <2>10. pc' = "down" => HasParent(Top.type)' /\ Parent(Top.type)' = s /\ acc' = inh2[s]
    <3> SUFFICES ASSUME ~last PROVE HasParent(Top.type)' /\ Parent(Top.type)' = s /\ acc' = fields
      BY <2>1, <2>7
    <3>1. /\ Len(stack') = Len(stack) - 1
          /\ \A k \in 1..(Len(stack) - 1) : stack'[k] = stack[k]
      BY <2>1, <2>2, FrontShorter
    <3> DEFINE k == Len(stack) - 1
    <3>2. k \in 1..(Len(stack) - 1) /\ k + 1 = Len(stack)
      <4>1. Len(stack) \in Nat \ {0} /\ Len(stack) # 1
        BY <2>2
      <4> QED
        BY <4>1, LessOne
    <3>3. Top' = stack[k]
      BY <3>1, <3>2 DEF Top, Last
    <3>4. HasParent(stack[k].type) /\ Parent(stack[k].type) = s
      BY <2>2, <3>2
    <3> HIDE DEF k
    <3> QED
      BY <2>1, <3>3, <3>4 DEF HasParent, Parent
  <2> QED
    BY <2>7, <2>8, <2>9, <2>10 DEF InheritInv
<1>5. CASE NextStruct \/ ToParent \/ Topmost \/ FieldsDone
  <2>1. UNCHANGED <<elems, structs, allFields>> /\ pc # "parse"
    BY <1>5 DEF NextStruct, ToParent, Topmost, FieldsDone, newIdl, computed
  <2>2. pc' = "down" => pc = "up" /\ ~HasParent(Top.type) /\ UNCHANGED <<stack, acc>>
    BY <1>5 DEF NextStruct, ToParent, Topmost, FieldsDone, newIdl, computed, Enter, Goto
  <2> QED
    BY <1>3, <2>1, <2>2
<1>6. CASE Validate \/ MakeMember \/ NoTestValue \/ StructEnds \/ ConvertMember
  <2>1. UNCHANGED <<elems, structs, allFields>> /\ pc # "parse" /\ pc' # "down"
    BY <1>6 DEF Validate, MakeMember, NoTestValue, StructEnds, ConvertMember, Enter, Goto,
                newIdl, computed
  <2> QED
    BY <1>3, <2>1
<1>7. CASE UNCHANGED vars
  <2>1. UNCHANGED <<elems, structs, allFields, pc, stack, acc>>
    BY <1>7 DEF vars, newIdl, computed
  <2>2. UNCHANGED <<AnyField, Top>>
    BY <2>1 DEF AnyField, Top
  <2> QED
    <3> HIDE DEF InheritInv
    <3>1. InheritInv' = InheritInv
      BY <2>1, <2>2 DEF InheritInv, Grounded, HasParent, Parent
    <3> QED
      BY <3>1
<1> QED
  BY <1>1, <1>2, <1>4, <1>5, <1>6, <1>7 DEF Next

LEMMA IdlInv == Spec => [](ParseInv /\ ParentsInv /\ InheritInv)
<1>1. ParseInv /\ ParentsInv /\ InheritInv /\ [Next]_vars => (ParseInv /\ ParentsInv /\ InheritInv)'
  BY ParseStep, ParentsStep, InheritStep
<1> QED
  BY <1>1, ParseInit, ParentsInit, InheritInit, PTL DEF Spec

(* What a struct inherits, in whatever order NewIdl visits the structs.    *)
THEOREM FieldsInherited == Spec => []InheritedFirst
<1>1. ParentsInv /\ InheritInv => InheritedFirst
  <2> SUFFICES ASSUME ParentsInv, InheritInv,  NEW s \in DOMAIN allFields
               PROVE  /\ ~HasParent(s) => allFields[s] = structs[s].fields
                      /\ HasParent(s) /\ Parent(s) \in DOMAIN allFields =>
                           allFields[s] = allFields[Parent(s)] \o structs[s].fields
    BY DEF InheritedFirst
  <2>1. pc # "parse"
    BY DEF ParentsInv
  <2>2. PICK R, rank, inh : /\ Grounded(R, rank, inh)
                            /\ \A r \in DOMAIN allFields : r \in R /\ allFields[r] = inh[r]
    BY <2>1 DEF InheritInv
  <2> QED
    BY <2>2 DEF Grounded
<1> QED
  BY <1>1, IdlInv, PTL

\* Structs with a finite line of parents do not extend each other in a circle.
LEMMA NoExtendsCircle ==
  ASSUME ParentsInv, InheritInv, Computed
  PROVE  ~ExtendsCircle
<1> SUFFICES ASSUME NEW C \in (SUBSET DOMAIN structs) \ {{}},
                    \A s \in C : HasParent(s) /\ Parent(s) \in C
             PROVE  FALSE
  BY DEF ExtendsCircle
<1>1. PICK R, rank, inh : /\ Grounded(R, rank, inh)
                          /\ \A r \in DOMAIN allFields : r \in R /\ allFields[r] = inh[r]
  BY DEF InheritInv, Computed
<1>2. C \subseteq R
  BY <1>1 DEF ParentsInv
<1>3. \A s \in C : rank[s] \in Nat /\ rank[Parent(s)] < rank[s]
  BY <1>1, <1>2 DEF Grounded
<1> DEFINE ranks == {rank[s] : s \in C}
<1>4. ranks # {} /\ ranks \subseteq Nat
  BY <1>3
<1>5. PICK least \in ranks : \A r \in ranks : least <= r
  <2> HIDE DEF ranks
  <2> QED
    BY <1>4, LeastNumber
<1>6. PICK s \in C : rank[s] = least
  BY <1>5
<1> QED
  BY <1>3, <1>5, <1>6
-----------------------------------------------------------------------------
(* The trial.                                                              *)
Trying == pc \in {"test", "convert", "accepted", "trial overflow"}
Tried == DOMAIN value
Members(s, x) == value[s][FieldsOf(s)[x].name]

\* What the recursion of testVal has made so far.
Made(s, x) == pc = "test" => \A k \in 1..Len(stack) : stack[k].type = s => x < stack[k].next

ValueInv ==
  /\ Root \in Tried /\ Tried \subseteq {t \in DOMAIN structs : IsStruct(t)} \cup {Root}
  /\ root \in AnyField
  /\ \A s \in Tried : \A n \in DOMAIN value[s] :
       \E x \in DOMAIN FieldsOf(s) :
         /\ Made(s, x) /\ FieldsOf(s)[x].name = n
         /\ value[s][n] \subseteq {FieldsOf(s)[x].type} \cap (Tried \ {Root})
  /\ \A s \in Tried : \A x \in DOMAIN FieldsOf(s) :
       Made(s, x) =>
         LET f == FieldsOf(s)[x]
         IN /\ f.name \in DOMAIN value[s]
            /\ NamesApart(s) /\ ~f.isArray /\ IsStruct(f.type) => value[s][f.name] = {f.type}

PlainSomewhere(t) == \E s \in Tried : ContainsPlain(s, t)

\* The structs in the order in which they got their maps: a map refers to later ones, or
\* to one that has a field without an array around it.
OrderInv ==
  \E m \in Nat : \E ord \in [Tried -> 0..m] :
    /\ \A s \in Tried : \A n \in DOMAIN value[s] : \A t \in value[s][n] :
         ord[s] < ord[t] \/ PlainSomewhere(t)
    /\ (\A s \in Tried : NamesApart(s)) =>
         \A t \in Tried \ {Root} :
           \E s \in Tried : ord[s] < ord[t] /\ \E n \in DOMAIN value[s] : t \in value[s][n]

\* The recursion of testVal never comes to a struct a second time.
TestInv ==
  /\ stack \in Seq(AnyFrame) /\ stack # <<>>
  /\ \A k \in 1..Len(stack) :
       stack[k].type \in Tried /\ stack[k].next \in 1..(Len(FieldsOf(stack[k].type)) + 1)
  /\ \A j, k \in 1..Len(stack) : stack[j].type = stack[k].type => j = k
  /\ \A t : StructKey(t) \in seen <=> t \in Tried \ {Root}
  /\ \A t \in Tried \ {Root} : ArrayKey(t) \in seen \/ PlainSomewhere(t)

\* The structs whose conversion has come back, and how long it took.
Converted(D, rank, m) ==
  /\ D \subseteq Tried /\ m \in Nat /\ rank \in [D -> 0..m]
  /\ \A s \in D : \A x \in DOMAIN FieldsOf(s) : \A t \in Members(s, x) :
       t \in D /\ rank[t] < rank[s]

ConvertInv ==
  /\ stack \in Seq(AnyFrame) /\ Len(stack) \in 1..StackLimit
  /\ stack[1].type = Root
  /\ \A k \in 1..Len(stack) :
       stack[k].type \in Tried /\ stack[k].next \in 1..(Len(FieldsOf(stack[k].type)) + 1)
  /\ \A k \in 1..(Len(stack) - 1) :
       stack[k].next > 1 /\ stack[k + 1].type \in Members(stack[k].type, stack[k].next - 1)
  /\ \E D, rank, m :
       /\ Converted(D, rank, m)
       /\ \A k \in 1..Len(stack) : \A x \in 1..(stack[k].next - 1) :
            (k < Len(stack) /\ x = stack[k].next - 1) \/ Members(stack[k].type, x) \subseteq D

TrialCircle ==
  \E C \in (SUBSET Tried) \ {{}} :
    /\ \A s \in C : \E t \in C : Includes(s, t)
    /\ \E t \in C : PlainSomewhere(t)

TrialInv ==
  /\ Tried \subseteq DOMAIN structs \cup {Root}
  /\ ~Trying /\ pc # "refused" => seen = {} /\ Tried = {}
  /\ Trying => ValueInv /\ OrderInv
  /\ pc = "test" => TestInv
  /\ pc = "convert" => ConvertInv
  /\ pc = "accepted" => \E D, rank, m : Converted(D, rank, m) /\ Root \in D
  /\ pc = "trial overflow" => TrialCircle

LEMMA FieldsShape ==
  ASSUME ParseInv, ParentsInv, InheritInv, Computed, root \in AnyField,
         NEW s \in DOMAIN structs \cup {Root}
  PROVE  /\ FieldsOf(s) \in Seq(AnyField) /\ DOMAIN FieldsOf(s) = 1..Len(FieldsOf(s))
         /\ Len(FieldsOf(s)) \in Nat
         /\ \A x \in DOMAIN FieldsOf(s) : FieldsOf(s)[x].type # Root
<1>1. FieldsOf(s) \in Seq(AnyField)
  <2>1. CASE s = Root
    BY <2>1 DEF FieldsOf
  <2>2. CASE s # Root
    <3>1. s \in DOMAIN allFields /\ pc # "parse"
      BY <2>2 DEF ParentsInv, Computed
    <3>2. PICK R, rank, inh : /\ Grounded(R, rank, inh)
                              /\ \A r \in DOMAIN allFields : r \in R /\ allFields[r] = inh[r]
      BY <3>1 DEF InheritInv
    <3>3. allFields[s] \in Seq(AnyField)
      BY <3>1, <3>2 DEF Grounded
    <3> QED
      BY <2>2, <3>3 DEF FieldsOf
  <2> QED
    BY <2>1, <2>2
<1>2. \A f \in AnyField : f.type # Root
  BY StructShape
<1>3. DOMAIN FieldsOf(s) = 1..Len(FieldsOf(s)) /\ Len(FieldsOf(s)) \in Nat
  BY <1>1
<1>4. \A x \in DOMAIN FieldsOf(s) : FieldsOf(s)[x] \in AnyField
  BY <1>1
<1> QED
  BY <1>1, <1>2, <1>3, <1>4

LEMMA Advance ==
  ASSUME NEW frames \in Seq(AnyFrame), NEW n \in Nat \ {0}, n = Len(frames)
  PROVE  /\ Advanced(frames) \in Seq(AnyFrame) /\ Len(Advanced(frames)) = n
         /\ \A k \in 1..n : k # n => Advanced(frames)[k] = frames[k]
         /\ Advanced(frames)[n].type = frames[n].type
         /\ Advanced(frames)[n].next = frames[n].next + 1
<1>1. n \in DOMAIN frames /\ frames[n] \in AnyFrame
  OBVIOUS
<1> DEFINE f == [frames[n] EXCEPT !.next = @ + 1]
<1>2. f \in AnyFrame /\ f.type = frames[n].type /\ f.next = frames[n].next + 1
  BY <1>1 DEF AnyFrame
<1>3. Advanced(frames) = [frames EXCEPT ![n] = f]
  BY DEF Advanced
<1> HIDE DEF f
<1> QED
  BY <1>1, <1>2, <1>3

\* Where the recursions are.
LEMMA AtTop ==
  ASSUME ParseInv, ParentsInv, InheritInv, TrialInv, pc \in {"test", "convert"}
  PROVE  /\ stack \in Seq(AnyFrame) /\ Len(stack) \in Nat \ {0} /\ Top = stack[Len(stack)]
         /\ Top.type \in Tried /\ Top.next \in Nat \ {0}
         /\ Top.next <= Len(FieldsOf(Top.type)) + 1
         /\ InProgress => Top.next \in DOMAIN FieldsOf(Top.type)
         /\ ~InProgress => Top.next = Len(FieldsOf(Top.type)) + 1
         /\ \A s \in Tried : DOMAIN FieldsOf(s) = 1..Len(FieldsOf(s)) /\ Len(FieldsOf(s)) \in Nat
         /\ \A s \in Tried : \A x \in DOMAIN FieldsOf(s) : FieldsOf(s)[x].type # Root
<1>1. stack \in Seq(AnyFrame) /\ Len(stack) \in Nat \ {0}
  <2>1. CASE pc = "test"
    <3>1. stack \in Seq(AnyFrame) /\ stack # <<>>
      BY <2>1 DEF TrialInv, TestInv
    <3> QED
      BY <3>1
  <2>2. CASE pc = "convert"
    BY <2>2, LimitNat DEF TrialInv, ConvertInv
  <2> QED
    BY <2>1, <2>2
<1>2. Top = stack[Len(stack)]
  BY DEF Top, Last
<1>3. \A k \in 1..Len(stack) :
        stack[k].type \in Tried /\ stack[k].next \in 1..(Len(FieldsOf(stack[k].type)) + 1)
  BY DEF TrialInv, TestInv, ConvertInv
<1>4. Top.type \in Tried /\ Top.next \in 1..(Len(FieldsOf(Top.type)) + 1)
  BY <1>1, <1>2, <1>3
<1>5. \A s \in Tried :
         /\ DOMAIN FieldsOf(s) = 1..Len(FieldsOf(s)) /\ Len(FieldsOf(s)) \in Nat
         /\ \A x \in DOMAIN FieldsOf(s) : FieldsOf(s)[x].type # Root
  <2>1. root \in AnyField /\ Computed /\ Tried \subseteq DOMAIN structs \cup {Root}
    BY DEF TrialInv, ValueInv, Computed, Trying
  <2> QED
    BY <2>1, FieldsShape
<1> DEFINE L == Len(FieldsOf(Top.type))
<1>6. L \in Nat /\ DOMAIN FieldsOf(Top.type) = 1..L
  BY <1>4, <1>5
<1>7. (InProgress <=> Top.next <= L) /\ Top.next \in 1..(L + 1)
  BY <1>4 DEF InProgress
<1> HIDE DEF L
<1>8. /\ InProgress => Top.next \in DOMAIN FieldsOf(Top.type)
      /\ ~InProgress => Top.next = L + 1
      /\ Top.next \in Nat \ {0} /\ Top.next <= L + 1
  BY <1>6, <1>7
<1> QED
  BY <1>1, <1>2, <1>4, <1>5, <1>8 DEF L

LEMMA TrialInit == Init => TrialInv
BY DEF Init, TrialInv, Trying, Tried, Empty

LEMMA ValidateStep ==
  ASSUME ParseInv, ParentsInv, InheritInv, TrialInv, Validate
  PROVE  TrialInv'
<1>1. /\ pc = "ready" /\ pc' = "test" /\ UNCHANGED <<elems, structs, allFields>> /\ seen' = {}
      /\ value' = Put(Empty, Root, Empty) /\ stack' = <<Frame(Root)>>
  BY DEF Validate, Goto, newIdl, computed, TrialInv, Trying
<1>2. root' \in AnyField'
  BY DEF Validate, AnyField, Interfaces, newIdl, ToSet
<1>3. Tried' = {Root} /\ value'[Root] = Empty /\ DOMAIN value'[Root] = {}
  BY <1>1 DEF Tried, Put, Empty
<1>4. FieldsOf(Root)' = <<root'>> /\ Len(FieldsOf(Root)') = 1 /\ DOMAIN FieldsOf(Root)' = {1}
  BY DEF FieldsOf
<1> DEFINE r == Frame(Root)
<1>5. r \in AnyFrame' /\ r.type = Root /\ r.next = 1
  BY DEF Frame, AnyFrame
<1>6. stack' = <<r>>
  BY <1>1
<1> HIDE DEF r
<1>7. stack' \in Seq(AnyFrame)' /\ Len(stack') = 1 /\ stack'[1] = r
  BY <1>5, <1>6
<1>8. ValueInv'
  <2>1. \A x \in DOMAIN FieldsOf(Root)' : ~Made(Root, x)'
    BY <1>1, <1>4, <1>5, <1>7 DEF Made
  <2> QED
    BY <1>2, <1>3, <2>1 DEF ValueInv
<1>9. OrderInv'
  <2> DEFINE ord == [s \in {Root} |-> 0]
  <2>1. ord \in [Tried' -> 0..0] /\ 0 \in Nat
    BY <1>3
  <2> QED
    BY <1>3, <2>1 DEF OrderInv
<1>10. TestInv'
  <2>1. \A k \in 1..Len(stack') : k = 1
    BY <1>7
  <2>2. 1 \in 1..(Len(FieldsOf(Root)') + 1)
    BY <1>4
  <2> QED
    BY <1>1, <1>3, <1>5, <1>7, <2>1, <2>2 DEF TestInv
<1> QED
  BY <1>1, <1>3, <1>8, <1>9, <1>10 DEF TrialInv, Trying

LEMMA MakeMemberStep ==
  ASSUME ParseInv, ParentsInv, InheritInv, TrialInv, MakeMember
  PROVE  TrialInv'
<1>1. PICK s, x, f, M, L : /\ s = Top.type /\ x = Top.next /\ f = Current /\ M = Member(Current)
                           /\ L = Len(stack)
  OBVIOUS
<1> DEFINE t == f.type
           new == M # {} /\ StructKey(t) \notin seen
           filled == Put(value, s, Put(value[s], f.name, M))
<1>2. /\ pc = "test" /\ pc' = "test" /\ InProgress
      /\ UNCHANGED <<elems, structs, allFields, root>>
      /\ seen' = seen \cup (IF f.isArray THEN {ArrayKey(t)} ELSE {})
                      \cup (IF new THEN {StructKey(t)} ELSE {})
      /\ value' = IF new THEN Put(filled, t, Empty) ELSE filled
      /\ stack' = IF new THEN Append(Advanced(stack), Frame(t)) ELSE Advanced(stack)
  BY <1>1 DEF MakeMember, newIdl, computed
<1>3. /\ stack \in Seq(AnyFrame) /\ L \in Nat \ {0} /\ s = stack[L].type /\ x = stack[L].next
      /\ s \in Tried /\ x \in Nat \ {0} /\ x \in DOMAIN FieldsOf(s) /\ f = FieldsOf(s)[x]
      /\ \A r \in Tried : DOMAIN FieldsOf(r) = 1..Len(FieldsOf(r)) /\ Len(FieldsOf(r)) \in Nat
      /\ t # Root
  BY <1>1, <1>2, AtTop DEF Current
<1>4. /\ M \subseteq {t}
      /\ M # {} => IsStruct(t) /\ (f.isArray => ArrayKey(t) \notin seen)
      /\ IsStruct(t) /\ ~f.isArray => M = {t}
  BY <1>1 DEF Member, Cut
<1>5. ValueInv /\ OrderInv /\ TestInv
  BY <1>2 DEF TrialInv, Trying
<1>6. /\ \A k \in 1..L : stack[k].type \in Tried
      /\ \A j, k \in 1..L : stack[j].type = stack[k].type => j = k
      /\ \A k \in 1..L : stack[k].next \in 1..(Len(FieldsOf(stack[k].type)) + 1)
      /\ \A r : StructKey(r) \in seen <=> r \in Tried \ {Root}
      /\ \A r \in Tried \ {Root} : ArrayKey(r) \in seen \/ PlainSomewhere(r)
  BY <1>1, <1>5 DEF TestInv
<1> HIDE DEF new, t, filled
<1>7. (new => t \notin Tried) /\ (~new => M \subseteq Tried \ {Root})
  BY <1>3, <1>4, <1>6 DEF new
<1>8. IsStruct(t) => t \in DOMAIN structs
  BY DEF IsStruct
<1>9. FieldsOf(s)' = FieldsOf(s) /\ \A r : FieldsOf(r)' = FieldsOf(r)
  BY <1>2 DEF FieldsOf
\* The recursion.
<1>10. /\ stack' \in Seq(AnyFrame)
       /\ \A k \in 1..L : stack'[k].type = stack[k].type
       /\ \A k \in 1..L : k # L => stack'[k].next = stack[k].next
       /\ stack'[L].next = x + 1
       /\ ~new => Len(stack') = L
       /\ new => Len(stack') = L + 1 /\ stack'[L + 1].type = t /\ stack'[L + 1].next = 1
  <2> DEFINE moved == Advanced(stack)
             e == Frame(t)
  <2>1. /\ moved \in Seq(AnyFrame) /\ Len(moved) = L
        /\ \A k \in 1..L : k # L => moved[k] = stack[k]
        /\ moved[L].type = s /\ moved[L].next = x + 1
    BY <1>1, <1>3, Advance
  <2>2. new => e \in AnyFrame
    BY <1>4, <1>8 DEF new, Frame, AnyFrame
  <2>3. e.type = t /\ e.next = 1
    BY DEF Frame
  <2>4. stack' = IF new THEN Append(moved, e) ELSE moved
    BY <1>2
  <2> HIDE DEF moved, e
  <2>5. CASE new
    <3>1. /\ stack' \in Seq(AnyFrame) /\ Len(stack') = L + 1 /\ stack'[L + 1] = e
          /\ \A k \in 1..L : stack'[k] = moved[k]
      BY <2>1, <2>2, <2>4, <2>5, AppendLonger
    <3>2. L \in 1..L
      BY <1>3
    <3> QED
      BY <1>3, <2>1, <2>3, <2>5, <3>1, <3>2
  <2>6. CASE ~new
    BY <1>3, <2>1, <2>4, <2>6
  <2> QED
    BY <2>5, <2>6
<1>11. AnyFrame' = AnyFrame /\ AnyField' = AnyField
  BY <1>2 DEF AnyFrame, AnyField
\* The maps.
<1>12. /\ Tried' = Tried \cup (IF new THEN {t} ELSE {})
       /\ \A r \in Tried \ {s} : value'[r] = value[r]
       /\ DOMAIN value'[s] = DOMAIN value[s] \cup {f.name} /\ value'[s][f.name] = M
       /\ \A n \in DOMAIN value[s] \ {f.name} : value'[s][n] = value[s][n]
       /\ new => DOMAIN value'[t] = {}
  <2> DEFINE mine == Put(value[s], f.name, M)
  <2>1. /\ DOMAIN mine = DOMAIN value[s] \cup {f.name} /\ mine[f.name] = M
        /\ \A n \in DOMAIN value[s] \ {f.name} : mine[n] = value[s][n]
    BY DEF Put
  <2> HIDE DEF mine
  <2>2. /\ DOMAIN filled = Tried /\ filled[s] = mine
        /\ \A r \in Tried \ {s} : filled[r] = value[r]
    BY <1>3 DEF Put, filled, mine, Tried
  <2>3. CASE new
    <3>1. value' = Put(filled, t, Empty)
      BY <1>2, <2>3
    <3>2. /\ DOMAIN value' = Tried \cup {t} /\ DOMAIN value'[t] = {}
          /\ \A r \in Tried : value'[r] = filled[r]
      BY <1>7, <2>2, <2>3, <3>1 DEF Put, Empty
    <3> QED
      BY <1>3, <2>1, <2>2, <2>3, <3>2 DEF Tried
  <2>4. CASE ~new
    BY <1>2, <1>3, <2>1, <2>2, <2>4 DEF Tried
  <2> QED
    BY <2>3, <2>4
\* What is made now.
<1>13. ~Made(s, x) /\ L \in 1..L
  BY <1>1, <1>2, <1>3 DEF Made
<1>14. ASSUME NEW r \in Tried, NEW y \in DOMAIN FieldsOf(r)
       PROVE  Made(r, y)' <=> Made(r, y) \/ (r = s /\ y = x)
  <2>0. y \in Nat
    BY <1>3
  <2>1. ASSUME Made(r, y)', ~(r = s /\ y = x) PROVE Made(r, y)
    <3> SUFFICES ASSUME NEW k \in 1..L, stack[k].type = r PROVE y < stack[k].next
      BY <1>1 DEF Made
    <3>1. k \in 1..Len(stack') /\ stack'[k].type = r
      BY <1>3, <1>10
    <3>2. y < stack'[k].next
      BY <1>2, <2>1, <3>1 DEF Made
    <3>3. CASE k = L
      BY <1>3, <1>10, <2>0, <2>1, <3>2, <3>3
    <3>4. CASE k # L
      BY <1>10, <3>2, <3>4
    <3> QED
      BY <3>3, <3>4
  <2>2. ASSUME Made(r, y) \/ (r = s /\ y = x) PROVE Made(r, y)'
    <3> SUFFICES ASSUME NEW k \in 1..Len(stack'), stack'[k].type = r PROVE y < stack'[k].next
      BY DEF Made
    <3>1. k \in 1..L
      <4>1. CASE new
        <5>1. k = L + 1 \/ k \in 1..L
          BY <1>3, <1>10, <4>1
        <5> QED
          BY <1>7, <1>10, <4>1, <5>1
      <4>2. CASE ~new
        BY <1>10, <4>2
      <4> QED
        BY <4>1, <4>2
    <3>2. stack[k].type = r
      BY <1>10, <3>1
    <3>3. CASE r = s /\ y = x
      <4>1. k = L
        BY <1>3, <1>6, <1>13, <3>1, <3>2, <3>3
      <4> QED
        BY <1>3, <1>10, <3>3, <4>1
    <3>4. CASE Made(r, y)
      <4>1. y < stack[k].next
        BY <1>1, <1>2, <3>1, <3>2, <3>4 DEF Made
      <4> QED
        BY <1>3, <1>10, <2>0, <3>1, <4>1
    <3> QED
      BY <2>2, <3>3, <3>4
  <2> QED
    BY <2>1, <2>2
<1>15. new => \A y \in DOMAIN FieldsOf(t) : ~Made(t, y)'
  <2> SUFFICES ASSUME new, NEW y \in DOMAIN FieldsOf(t), Made(t, y)' PROVE FALSE
    OBVIOUS
  <2>1. t \in DOMAIN structs \cup {Root} /\ root \in AnyField /\ Computed
    BY <1>2, <1>4, <1>5, <1>8 DEF new, ValueInv, Computed
  <2>2. DOMAIN FieldsOf(t) = 1..Len(FieldsOf(t)) /\ Len(FieldsOf(t)) \in Nat
    BY <2>1, FieldsShape
  <2>3. L + 1 \in 1..Len(stack')
    BY <1>3, <1>10
  <2>4. y < 1
    BY <1>2, <1>10, <2>3 DEF Made
  <2> QED
    BY <2>2, <2>4
<1>16. ValueInv'
  <2>1. Root \in Tried' /\ Tried' \subseteq {r \in DOMAIN structs : IsStruct(r)}' \cup {Root}
    <3>1. new => t \in {r \in DOMAIN structs : IsStruct(r)}
      BY <1>4, <1>8 DEF new
    <3>2. {r \in DOMAIN structs : IsStruct(r)}' = {r \in DOMAIN structs : IsStruct(r)}
      BY <1>2 DEF IsStruct
    <3> QED
      BY <1>5, <1>12, <3>1, <3>2 DEF ValueInv
  <2>2. root' \in AnyField'
    BY <1>2, <1>5, <1>11 DEF ValueInv
  <2>3. ASSUME NEW r \in Tried', NEW n \in DOMAIN value'[r]
        PROVE  \E y \in DOMAIN FieldsOf(r) :
                 /\ Made(r, y)' /\ FieldsOf(r)[y].name = n
                 /\ value'[r][n] \subseteq {FieldsOf(r)[y].type} \cap (Tried' \ {Root})
    <3>1. r \in Tried
      BY <1>12, <2>3
    <3>2. CASE r = s /\ n = f.name
      <4>1. Made(s, x)'
        BY <1>3, <1>14
      <4>2. M \subseteq {t} \cap (Tried' \ {Root})
        BY <1>3, <1>4, <1>7, <1>12
      <4> QED
        BY <1>3, <1>12, <3>2, <4>1, <4>2 DEF t
    <3>3. CASE ~(r = s /\ n = f.name)
      <4>1. n \in DOMAIN value[r] /\ value'[r][n] = value[r][n]
        BY <1>12, <3>1, <3>3, <2>3
      <4>2. PICK y \in DOMAIN FieldsOf(r) :
              /\ Made(r, y) /\ FieldsOf(r)[y].name = n
              /\ value[r][n] \subseteq {FieldsOf(r)[y].type} \cap (Tried \ {Root})
        BY <1>5, <3>1, <4>1 DEF ValueInv
      <4>3. Made(r, y)'
        BY <1>14, <3>1, <4>2
      <4> QED
        BY <1>12, <4>1, <4>2, <4>3
    <3> QED
      BY <3>2, <3>3
  <2>4. ASSUME NEW r \in Tried', NEW y \in DOMAIN FieldsOf(r), Made(r, y)'
        PROVE  /\ FieldsOf(r)[y].name \in DOMAIN value'[r]
               /\ NamesApart(r) /\ ~FieldsOf(r)[y].isArray /\ IsStruct(FieldsOf(r)[y].type) =>
                    value'[r][FieldsOf(r)[y].name] = {FieldsOf(r)[y].type}
    <3>1. r \in Tried
      BY <1>12, <1>15, <2>4
    <3>2. CASE r = s /\ y = x
      BY <1>3, <1>4, <1>12, <3>2 DEF t
    <3>3. CASE ~(r = s /\ y = x)
      <4> DEFINE n == FieldsOf(r)[y].name
      <4>1. Made(r, y)
        BY <1>14, <2>4, <3>1, <3>3
      <4>2. /\ n \in DOMAIN value[r]
            /\ NamesApart(r) /\ ~FieldsOf(r)[y].isArray /\ IsStruct(FieldsOf(r)[y].type) =>
                 value[r][n] = {FieldsOf(r)[y].type}
        BY <1>5, <3>1, <4>1 DEF ValueInv
      <4>3. NamesApart(r) => ~(r = s /\ n = f.name)
        BY <1>3, <3>3 DEF NamesApart
      <4>4. n \in DOMAIN value'[r] /\ (~(r = s /\ n = f.name) => value'[r][n] = value[r][n])
        BY <1>12, <3>1, <4>2
      <4> QED
        BY <4>2, <4>3, <4>4
    <3> QED
      BY <3>2, <3>3
  <2>5. \A r : NamesApart(r)' = NamesApart(r) /\ IsStruct(r)' = IsStruct(r)
    BY <1>2, <1>9 DEF NamesApart, IsStruct
  <2> QED
    BY <1>9, <2>1, <2>2, <2>3, <2>4, <2>5 DEF ValueInv
<1>17. \A r : PlainSomewhere(r) => PlainSomewhere(r)'
  BY <1>9, <1>12 DEF PlainSomewhere, ContainsPlain
<1>18. M # {} => PlainSomewhere(t)' \/ (f.isArray /\ new)
  <2> SUFFICES ASSUME M # {}, ~(f.isArray /\ new) PROVE PlainSomewhere(t)
    BY <1>17
  <2>1. CASE f.isArray
    BY <1>4, <1>6, <1>7, <2>1
  <2>2. CASE ~f.isArray
    BY <1>3, <2>2 DEF PlainSomewhere, ContainsPlain, t
  <2> QED
    BY <2>1, <2>2
<1>19. OrderInv'
  <2>1. PICK m \in Nat : \E ord \in [Tried -> 0..m] :
          /\ \A r \in Tried : \A n \in DOMAIN value[r] : \A u \in value[r][n] :
               ord[r] < ord[u] \/ PlainSomewhere(u)
          /\ (\A r \in Tried : NamesApart(r)) =>
               \A u \in Tried \ {Root} :
                 \E r \in Tried : ord[r] < ord[u] /\ \E n \in DOMAIN value[r] : u \in value[r][n]
    BY <1>5 DEF OrderInv
  <2>2. PICK ord \in [Tried -> 0..m] :
          /\ \A r \in Tried : \A n \in DOMAIN value[r] : \A u \in value[r][n] :
               ord[r] < ord[u] \/ PlainSomewhere(u)
          /\ (\A r \in Tried : NamesApart(r)) =>
               \A u \in Tried \ {Root} :
                 \E r \in Tried : ord[r] < ord[u] /\ \E n \in DOMAIN value[r] : u \in value[r][n]
    BY <2>1
  <2> DEFINE m2 == m + 1
             ord2 == [r \in Tried' |-> IF r \in Tried THEN ord[r] ELSE m2]
  <2>3. m2 \in Nat /\ \A r \in Tried : ord[r] \in 0..m2 /\ ord[r] < m2
    OBVIOUS
  <2>4. /\ \A r \in Tried : r \in Tried' /\ ord2[r] = ord[r]
        /\ new => t \in Tried' /\ ord2[t] = m2
    BY <1>7, <1>12
  <2>5. ord2 \in [Tried' -> 0..m2]
    <3>1. m2 \in 0..m2
      BY <2>3
    <3> HIDE DEF m2
    <3> QED
      BY <2>3, <3>1
  <2> HIDE DEF m2, ord2
  <2>6. ASSUME NEW r \in Tried', NEW n \in DOMAIN value'[r], NEW u \in value'[r][n]
        PROVE  ord2[r] < ord2[u] \/ PlainSomewhere(u)'
    <3>1. r \in Tried
      BY <1>12, <2>6
    <3>2. CASE r = s /\ n = f.name
      <4>1. u = t /\ M # {}
        BY <1>4, <1>12, <3>2
      <4>2. CASE new
        BY <2>3, <2>4, <3>1, <4>1, <4>2
      <4>3. CASE ~new
        BY <1>18, <4>1, <4>3
      <4> QED
        BY <4>2, <4>3
    <3>3. CASE ~(r = s /\ n = f.name)
      <4>1. n \in DOMAIN value[r] /\ u \in value[r][n]
        BY <1>12, <3>1, <3>3, <2>6
      <4>2. u \in Tried
        BY <1>5, <3>1, <4>1 DEF ValueInv
      <4>3. ord[r] < ord[u] \/ PlainSomewhere(u)
        BY <2>2, <3>1, <4>1
      <4> QED
        BY <1>17, <2>4, <3>1, <4>2, <4>3
    <3> QED
      BY <3>2, <3>3
  <2>7. ASSUME \A r \in Tried' : NamesApart(r)', NEW u \in Tried' \ {Root}
        PROVE  \E r \in Tried' : ord2[r] < ord2[u] /\ \E n \in DOMAIN value'[r] : u \in value'[r][n]
    <3>1. \A r \in Tried : NamesApart(r)
      BY <1>9, <2>4, <2>7 DEF NamesApart
    <3>2. f.name \notin DOMAIN value[s]
      <4> SUFFICES ASSUME f.name \in DOMAIN value[s] PROVE FALSE
        OBVIOUS
      <4>1. PICK y \in DOMAIN FieldsOf(s) : Made(s, y) /\ FieldsOf(s)[y].name = f.name
        BY <1>3, <1>5 DEF ValueInv
      <4>2. y = x
        BY <1>3, <3>1, <4>1 DEF NamesApart
      <4> QED
        BY <1>13, <4>1, <4>2
    <3>3. CASE u \in Tried
      <4>1. PICK r \in Tried : ord[r] < ord[u] /\ \E n \in DOMAIN value[r] : u \in value[r][n]
        BY <2>2, <2>7, <3>1, <3>3
      <4>2. PICK n \in DOMAIN value[r] : u \in value[r][n]
        BY <4>1
      <4>3. n \in DOMAIN value'[r] /\ value'[r][n] = value[r][n]
        BY <1>12, <3>2
      <4> QED
        BY <2>4, <3>3, <4>1, <4>2, <4>3
    <3>4. CASE u \notin Tried
      <4>1. new /\ u = t
        BY <1>12, <2>7, <3>4
      <4>2. M = {t}
        BY <1>4, <4>1 DEF new
      <4>3. ord2[s] < ord2[u] /\ s \in Tried'
        BY <1>3, <2>3, <2>4, <4>1
      <4>4. f.name \in DOMAIN value'[s] /\ u \in value'[s][f.name]
        BY <1>12, <4>1, <4>2
      <4> QED
        BY <4>3, <4>4
    <3> QED
      BY <3>3, <3>4
  <2> QED
    BY <2>3, <2>5, <2>6, <2>7 DEF OrderInv
<1>20. TestInv'
  <2>1. stack' \in Seq(AnyFrame)' /\ stack' # <<>> /\ Len(stack') \in Nat
    BY <1>3, <1>10, <1>11
  <2>2. \A k \in 1..Len(stack') : k \in 1..L \/ (new /\ k = L + 1)
    BY <1>3, <1>10
  <2>3. ASSUME NEW k \in 1..Len(stack')
        PROVE  stack'[k].type \in Tried' /\ stack'[k].next \in 1..(Len(FieldsOf(stack'[k].type)) + 1)
    <3>1. CASE k \in 1..L /\ k # L
      BY <1>6, <1>10, <1>12, <3>1
    <3>2. CASE k = L
      <4> DEFINE n == Len(FieldsOf(s))
      <4>1. n \in Nat /\ x \in 1..n
        BY <1>3
      <4> HIDE DEF n
      <4>2. x + 1 \in 1..(n + 1)
        BY <4>1
      <4> QED
        BY <1>3, <1>10, <1>12, <1>13, <3>2, <4>2 DEF n
    <3>3. CASE new /\ k = L + 1
      <4> DEFINE n == Len(FieldsOf(t))
      <4>1. t \in DOMAIN structs \cup {Root} /\ root \in AnyField /\ Computed
        BY <1>2, <1>4, <1>5, <1>8, <3>3 DEF new, ValueInv, Computed
      <4>2. n \in Nat
        BY <4>1, FieldsShape
      <4> HIDE DEF n
      <4>3. 1 \in 1..(n + 1)
        BY <4>2
      <4> QED
        BY <1>10, <1>12, <3>3, <4>3 DEF n
    <3> QED
      BY <2>2, <3>1, <3>2, <3>3
  <2>4. ASSUME NEW j \in 1..Len(stack'), NEW k \in 1..Len(stack'), stack'[j].type = stack'[k].type
        PROVE  j = k
    <3>1. CASE j \in 1..L /\ k \in 1..L
      BY <1>6, <1>10, <2>4, <3>1
    <3>2. CASE new /\ j = L + 1 /\ k \in 1..L
      BY <1>6, <1>7, <1>10, <2>4, <3>2
    <3>3. CASE new /\ j \in 1..L /\ k = L + 1
      BY <1>6, <1>7, <1>10, <2>4, <3>3
    <3> QED
      BY <2>2, <3>1, <3>2, <3>3
  <2>5. ASSUME NEW r PROVE (StructKey(r) \in seen <=> r \in Tried \ {Root})'
    <3>1. \A u : StructKey(r) # ArrayKey(u)
      BY DEF StructKey, ArrayKey
    <3>2. \A u : StructKey(r) = StructKey(u) <=> r = u
      BY DEF StructKey
    <3>3. StructKey(r) \in seen' <=> StructKey(r) \in seen \/ (new /\ r = t)
      BY <1>2, <3>1, <3>2
    <3> QED
      BY <1>3, <1>6, <1>12, <3>3
  <2>6. ASSUME NEW r \in Tried' \ {Root} PROVE ArrayKey(r) \in seen' \/ PlainSomewhere(r)'
    <3>1. CASE r \in Tried
      BY <1>2, <1>6, <1>17, <2>6, <3>1
    <3>2. CASE r \notin Tried
      <4>1. new /\ r = t
        BY <1>12, <2>6, <3>2
      <4>2. M # {}
        BY <4>1 DEF new
      <4> QED
        BY <1>2, <1>18, <4>1, <4>2
    <3> QED
      BY <3>1, <3>2
  <2> QED
    BY <1>9, <2>1, <2>3, <2>4, <2>5, <2>6 DEF TestInv
<1> QED
  BY <1>2, <1>8, <1>16, <1>19, <1>20 DEF TrialInv, Trying, ValueInv

LEMMA TrialKept ==
  ASSUME ValueInv, OrderInv, UNCHANGED <<elems, structs, allFields, root, value>>,
         \A s \in Tried : \A x \in DOMAIN FieldsOf(s) : Made(s, x)' <=> Made(s, x)
  PROVE  ValueInv' /\ OrderInv'
<1>1. Tried' = Tried /\ AnyField' = AnyField /\ \A s : FieldsOf(s)' = FieldsOf(s)
  BY DEF Tried, AnyField, FieldsOf
<1>2. \A s : NamesApart(s)' = NamesApart(s) /\ IsStruct(s)' = IsStruct(s)
  BY <1>1 DEF NamesApart, IsStruct
<1>3. \A s : PlainSomewhere(s)' = PlainSomewhere(s)
  BY <1>1 DEF PlainSomewhere, ContainsPlain
<1>4. OrderInv'
  BY <1>1, <1>2, <1>3 DEF OrderInv
<1>5. {s \in DOMAIN structs : IsStruct(s)}' = {s \in DOMAIN structs : IsStruct(s)}
  BY <1>2
<1> QED
  BY <1>1, <1>2, <1>4, <1>5 DEF ValueInv

LEMMA NoTestValueStep ==
  ASSUME TrialInv, NoTestValue
  PROVE  TrialInv'
BY DEF NoTestValue, TrialInv, Trying, Tried, Goto, newIdl, computed, trial

\* What the conversion of a field goes on to.
LEMMA MembersShape ==
  ASSUME ValueInv, pc # "test", NEW s \in Tried, NEW x \in DOMAIN FieldsOf(s)
  PROVE  /\ \A t \in Members(s, x) : t \in Tried /\ t # Root /\ Includes(s, t)
         /\ \A t, u \in Members(s, x) : t = u
<1>1. Made(s, x)
  BY DEF Made
<1>2. FieldsOf(s)[x].name \in DOMAIN value[s]
  BY <1>1 DEF ValueInv
<1>3. PICK y \in DOMAIN FieldsOf(s) :
        Members(s, x) \subseteq {FieldsOf(s)[y].type} \cap (Tried \ {Root})
  BY <1>2 DEF ValueInv, Members
<1> QED
  BY <1>3 DEF Includes

LEMMA ConvertedAlso ==
  ASSUME NEW D, NEW rank, NEW m, Converted(D, rank, m), NEW s \in Tried,
         \A x \in DOMAIN FieldsOf(s) : Members(s, x) \subseteq D
  PROVE  \E rank2, m2 : Converted(D \cup {s}, rank2, m2)
<1>1. /\ D \subseteq Tried /\ m \in Nat /\ rank \in [D -> 0..m]
      /\ \A r \in D : \A x \in DOMAIN FieldsOf(r) : \A t \in Members(r, x) :
           t \in D /\ rank[t] < rank[r]
  BY DEF Converted
<1>2. CASE s \in D
  <2>1. D \cup {s} = D
    BY <1>2
  <2> QED
    BY <2>1
<1>3. CASE s \notin D
  <2> DEFINE m2 == m + 1
             D2 == D \cup {s}
             rank2 == [r \in D2 |-> IF r \in D THEN rank[r] ELSE m2]
  <2>1. m2 \in Nat /\ m2 \in 0..m2 /\ \A r \in D : rank[r] \in 0..m2 /\ rank[r] < m2
    BY <1>1
  <2> HIDE DEF m2
  <2>2. rank2 \in [D2 -> 0..m2] /\ rank2[s] = m2 /\ \A r \in D : rank2[r] = rank[r]
    BY <1>3, <2>1
  <2>3. D \subseteq D2 /\ D2 \subseteq Tried /\ \A r \in D2 : r \in D \/ r = s
    BY <1>1
  <2> HIDE DEF rank2, D2
  <2>4. ASSUME NEW r \in D2, NEW x \in DOMAIN FieldsOf(r), NEW t \in Members(r, x)
        PROVE  t \in D2 /\ rank2[t] < rank2[r]
    <3>1. CASE r \in D
      BY <1>1, <2>2, <2>3, <3>1
    <3>2. CASE r = s
      BY <2>1, <2>2, <2>3, <3>2
    <3> QED
      BY <2>3, <2>4, <3>1, <3>2
  <2>5. Converted(D2, rank2, m2)
    BY <2>1, <2>2, <2>3, <2>4 DEF Converted
  <2> QED
    BY <2>5 DEF D2
<1> QED
  BY <1>2, <1>3

LEMMA StructEndsStep ==
  ASSUME ParseInv, ParentsInv, InheritInv, TrialInv, StructEnds
  PROVE  TrialInv'
<1>1. PICK s, x, L : s = Top.type /\ x = Top.next /\ L = Len(stack)
  OBVIOUS
<1>2. /\ pc \in {"test", "convert"} /\ ~InProgress
      /\ UNCHANGED <<elems, structs, allFields, root, value, seen>>
  BY DEF StructEnds, newIdl, computed, trial
<1>3. /\ stack \in Seq(AnyFrame) /\ L \in Nat \ {0} /\ s = stack[L].type /\ x = stack[L].next
      /\ s \in Tried /\ x = Len(FieldsOf(s)) + 1
      /\ \A r \in Tried : DOMAIN FieldsOf(r) = 1..Len(FieldsOf(r)) /\ Len(FieldsOf(r)) \in Nat
  BY <1>1, <1>2, AtTop
<1>4. /\ Tried' = Tried /\ AnyFrame' = AnyFrame /\ AnyField' = AnyField
      /\ \A r : FieldsOf(r)' = FieldsOf(r)
      /\ \A r, y : Members(r, y)' = Members(r, y)
      /\ \A r : PlainSomewhere(r)' = PlainSomewhere(r)
  <2>1. \A r : FieldsOf(r)' = FieldsOf(r)
    BY <1>2 DEF FieldsOf
  <2> QED
    BY <1>2, <2>1 DEF Tried, AnyFrame, AnyField, Members, PlainSomewhere, ContainsPlain
<1>5. ValueInv /\ OrderInv /\ Tried \subseteq DOMAIN structs \cup {Root}
  BY <1>2 DEF TrialInv, Trying
<1>6. CASE pc = "test"
  <2>1. TestInv
    BY <1>6 DEF TrialInv
  <2>2. /\ \A k \in 1..L : stack[k].type \in Tried
        /\ \A j, k \in 1..L : stack[j].type = stack[k].type => j = k
        /\ \A k \in 1..L : stack[k].next \in 1..(Len(FieldsOf(stack[k].type)) + 1)
    BY <1>1, <2>1 DEF TestInv
  <2>3. CASE L > 1
    <3>1. stack' = Front(stack) /\ pc' = "test"
      BY <1>1, <1>6, <2>3 DEF StructEnds, Pop
    <3>2. /\ stack' \in Seq(AnyFrame) /\ Len(stack') = L - 1
          /\ \A k \in 1..(L - 1) : stack'[k] = stack[k]
      <4>1. Len(stack) > 0 /\ L = Len(stack)
        BY <1>1, <2>3
      <4> QED
        BY <1>3, <3>1, <4>1, FrontShorter
    <3>3. ASSUME NEW r \in Tried, NEW y \in DOMAIN FieldsOf(r) PROVE Made(r, y)' <=> Made(r, y)
      <4>1. \A k \in 1..(L - 1) : k \in 1..L
        BY <1>3
      <4>2. \A k \in 1..L : k = L \/ k \in 1..(L - 1)
        BY <1>3
      <4>3. r = s => y < stack[L].next
        BY <1>3
      <4>4. Made(r, y) <=> \A k \in 1..L : stack[k].type = r => y < stack[k].next
        BY <1>1, <1>6 DEF Made
      <4>5. Made(r, y)' <=> \A k \in 1..(L - 1) : stack[k].type = r => y < stack[k].next
        BY <3>1, <3>2 DEF Made
      <4> QED
        BY <1>3, <4>1, <4>2, <4>3, <4>4, <4>5
    <3>4. ValueInv' /\ OrderInv'
      BY <1>2, <1>5, <3>3, TrialKept
    <3>5. TestInv'
      <4>1. \A k \in 1..(L - 1) : k \in 1..L
        BY <1>3
      <4>2. stack' # <<>>
        BY <1>3, <2>3, <3>2
      <4>3. \A k \in 1..(L - 1) : /\ stack'[k].type \in Tried
                                  /\ stack'[k].next \in 1..(Len(FieldsOf(stack'[k].type)) + 1)
        BY <2>2, <3>2, <4>1
      <4>4. \A j, k \in 1..(L - 1) : stack'[j].type = stack'[k].type => j = k
        BY <2>2, <3>2, <4>1
      <4> QED
        BY <1>2, <1>4, <2>1, <3>2, <4>2, <4>3, <4>4 DEF TestInv
    <3> QED
      BY <1>2, <1>4, <1>5, <3>1, <3>4, <3>5 DEF TrialInv, Trying
  <2>4. CASE ~(L > 1)
    <3> DEFINE e == Frame(Root)
    <3>1. stack' = <<e>> /\ pc' = "convert"
      BY <1>1, <1>6, <2>4 DEF StructEnds, Goto
    <3>2. e \in AnyFrame /\ e.type = Root /\ e.next = 1
      BY DEF Frame, AnyFrame
    <3> HIDE DEF e
    <3>3. stack' \in Seq(AnyFrame) /\ Len(stack') = 1 /\ stack'[1] = e
      BY <3>1, <3>2
    <3>4. ASSUME NEW r \in Tried, NEW y \in DOMAIN FieldsOf(r) PROVE Made(r, y)' <=> Made(r, y)
      <4>1. L = 1
        BY <1>3, <2>4
      <4>2. r = s => y < stack[L].next
        BY <1>3
      <4>3. Made(r, y)
        <5>1. \A k \in 1..Len(stack) : k = L
          BY <1>1, <4>1
        <5> QED
          BY <1>3, <4>2, <5>1 DEF Made
      <4>4. Made(r, y)'
        BY <3>1 DEF Made
      <4> QED
        BY <4>3, <4>4
    <3>5. ValueInv' /\ OrderInv'
      BY <1>2, <1>5, <3>4, TrialKept
    <3>6. ConvertInv'
      <4> DEFINE none == [r \in {} |-> 0]
      <4>1. 1 \in 1..StackLimit
        <5>1. Cardinality(DOMAIN structs) \in Nat /\ Cardinality(DOMAIN structs) < StackLimit
          BY StructsFinite, FS_CardinalityType
        <5> QED
          BY <5>1, LimitNat
      <4>2. Root \in Tried /\ 1 \in 1..(Len(FieldsOf(Root)) + 1)
        BY <1>3, <1>5 DEF ValueInv
      <4>3. Converted({}, none, 0)'
        BY DEF Converted
      <4>4. \A k \in 1..Len(stack') : k = 1
        BY <3>3
      <4>5. \A x2 \in 1..(stack'[1].next - 1) : FALSE
        BY <3>2, <3>3
      <4>6. \A k \in 1..(Len(stack') - 1) : FALSE
        BY <3>3
      <4>7. \A k \in 1..Len(stack') :
              stack'[k].type \in Tried /\ stack'[k].next \in 1..(Len(FieldsOf(stack'[k].type)) + 1)
        BY <3>2, <3>3, <4>2, <4>4
      <4>8. \A k \in 1..Len(stack') : \A x2 \in 1..(stack'[k].next - 1) :
              (k < Len(stack') /\ x2 = stack'[k].next - 1) \/ Members(stack'[k].type, x2) \subseteq {}
        BY <4>4, <4>5
      <4>9. \E D, rank, m :
              /\ Converted(D, rank, m)'
              /\ \A k \in 1..Len(stack') : \A x2 \in 1..(stack'[k].next - 1) :
                   (k < Len(stack') /\ x2 = stack'[k].next - 1) \/ Members(stack'[k].type, x2) \subseteq D
        BY <4>3, <4>8
      <4>10. stack'[1].type = Root /\ Len(stack') \in 1..StackLimit
        BY <3>2, <3>3, <4>1
      <4> QED
        BY <1>4, <3>3, <4>6, <4>7, <4>9, <4>10 DEF ConvertInv
    <3> QED
      BY <1>2, <1>4, <1>5, <3>1, <3>5, <3>6 DEF TrialInv, Trying
  <2> QED
    BY <2>3, <2>4
<1>7. CASE pc = "convert"
  <2>1. /\ Len(stack) \in 1..StackLimit /\ stack[1].type = Root
        /\ \A k \in 1..L :
             stack[k].type \in Tried /\ stack[k].next \in 1..(Len(FieldsOf(stack[k].type)) + 1)
        /\ \A k \in 1..(L - 1) :
             stack[k].next > 1 /\ stack[k + 1].type \in Members(stack[k].type, stack[k].next - 1)
    BY <1>1, <1>7 DEF TrialInv, ConvertInv
  <2>2. PICK D, rank, m :
          /\ Converted(D, rank, m)
          /\ \A k \in 1..L : \A y \in 1..(stack[k].next - 1) :
               (k < L /\ y = stack[k].next - 1) \/ Members(stack[k].type, y) \subseteq D
    BY <1>1, <1>7 DEF TrialInv, ConvertInv
  <2>3. ASSUME NEW y \in DOMAIN FieldsOf(s) PROVE Members(s, y) \subseteq D
    <3>1. y \in 1..(stack[L].next - 1) /\ L \in 1..L /\ ~(L < L)
      BY <1>3
    <3> QED
      BY <1>3, <2>2, <3>1
  <2>4. PICK rank2, m2 : Converted(D \cup {s}, rank2, m2)
    BY <1>3, <2>2, <2>3, ConvertedAlso
  <2>5. Converted(D \cup {s}, rank2, m2)'
    BY <1>4, <2>4 DEF Converted
  <2>6. CASE L > 1
    <3>1. stack' = Front(stack) /\ pc' = "convert"
      BY <1>1, <1>7, <2>6 DEF StructEnds, Pop
    <3>2. /\ stack' \in Seq(AnyFrame) /\ Len(stack') = L - 1
          /\ \A k \in 1..(L - 1) : stack'[k] = stack[k]
      <4>1. Len(stack) > 0 /\ L = Len(stack)
        BY <1>1, <2>6
      <4> QED
        BY <1>3, <3>1, <4>1, FrontShorter
    <3>3. ValueInv' /\ OrderInv'
      BY <1>2, <1>5, <1>7, <3>1, TrialKept DEF Made
    <3>4. ConvertInv'
      <4>1. \A k \in 1..(L - 1) : k \in 1..L
        BY <1>3
      <4>2. L - 1 \in 1..StackLimit /\ 1 \in 1..(L - 1)
        BY <1>1, <1>3, <2>1, <2>6, LimitNat
      <4>3. stack'[1].type = Root
        BY <2>1, <3>2, <4>2
      <4>4. \A k \in 1..(L - 1) : /\ stack'[k].type \in Tried
                                  /\ stack'[k].next \in 1..(Len(FieldsOf(stack'[k].type)) + 1)
        BY <2>1, <3>2, <4>1
      <4>5. ASSUME NEW k \in 1..(L - 1 - 1)
            PROVE  /\ stack'[k].next > 1
                   /\ stack'[k + 1].type \in Members(stack'[k].type, stack'[k].next - 1)
        <5>1. k \in 1..(L - 1) /\ k + 1 \in 1..(L - 1)
          BY <1>3
        <5>2. stack'[k] = stack[k] /\ stack'[k + 1] = stack[k + 1]
          BY <3>2, <5>1
        <5> QED
          BY <2>1, <5>1, <5>2
      <4>6. ASSUME NEW k \in 1..(L - 1), NEW y \in 1..(stack'[k].next - 1)
            PROVE  \/ k < L - 1 /\ y = stack'[k].next - 1
                   \/ Members(stack'[k].type, y) \subseteq D \cup {s}
        <5>1. stack'[k] = stack[k] /\ k \in 1..L /\ k < L
          BY <1>3, <3>2, <4>1
        <5>2. CASE y # stack[k].next - 1
          BY <2>2, <5>1, <5>2
        <5>3. CASE y = stack[k].next - 1 /\ k < L - 1
          BY <5>1, <5>3
        <5>4. CASE y = stack[k].next - 1 /\ ~(k < L - 1)
          <6>1. k = L - 1 /\ k + 1 = L
            BY <1>3, <5>4
          <6>2. s \in Members(stack[k].type, y)
            BY <1>3, <2>1, <5>4, <6>1
          <6>3. stack[k].type \in Tried /\ y \in DOMAIN FieldsOf(stack[k].type)
            <7> DEFINE n == Len(FieldsOf(stack[k].type))
            <7>1. stack[k].type \in Tried /\ stack[k].next \in 1..(n + 1)
              BY <2>1, <5>1
            <7>2. n \in Nat /\ DOMAIN FieldsOf(stack[k].type) = 1..n
              BY <1>3, <7>1
            <7> HIDE DEF n
            <7>3. stack[k].next > 1
              BY <2>1
            <7> QED
              BY <5>4, <7>1, <7>2, <7>3
          <6>4. \A t, u \in Members(stack[k].type, y) : t = u
            BY <1>5, <1>7, <6>3, MembersShape
          <6> QED
            BY <5>1, <6>2, <6>4
        <5> QED
          BY <5>2, <5>3, <5>4
      <4>7. \E D2, rank3, m3 :
              /\ Converted(D2, rank3, m3)'
              /\ \A k \in 1..Len(stack') : \A y \in 1..(stack'[k].next - 1) :
                   (k < Len(stack') /\ y = stack'[k].next - 1) \/ Members(stack'[k].type, y) \subseteq D2
        BY <2>5, <3>2, <4>6
      <4> QED
        BY <1>4, <3>2, <4>2, <4>3, <4>4, <4>5, <4>7 DEF ConvertInv
    <3> QED
      BY <1>2, <1>4, <1>5, <3>1, <3>3, <3>4 DEF TrialInv, Trying
  <2>7. CASE ~(L > 1)
    <3>1. pc' = "accepted" /\ L = 1
      BY <1>1, <1>3, <1>7, <2>7 DEF StructEnds, Goto
    <3>2. s = Root
      BY <1>3, <2>1, <3>1
    <3>3. ValueInv' /\ OrderInv'
      BY <1>2, <1>5, <1>7, <3>1, TrialKept DEF Made
    <3>4. \E D2, rank3, m3 : Converted(D2, rank3, m3)' /\ Root \in D2
      BY <2>5, <3>2
    <3> QED
      BY <1>2, <1>4, <1>5, <3>1, <3>3, <3>4 DEF TrialInv, Trying
  <2> QED
    BY <2>6, <2>7
<1> QED
  BY <1>2, <1>6, <1>7

LEMMA Climb ==
  ASSUME NEW C, C # {}, NEW m \in Nat, NEW T, C \subseteq T, NEW ord \in [T -> 0..m],
         \A s \in C : \E t \in C : ord[s] < ord[t]
  PROVE  FALSE
<1> DEFINE left == {m - ord[s] : s \in C}
<1>1. \A s \in C : ord[s] \in 0..m /\ m - ord[s] \in Nat
  OBVIOUS
<1>2. left # {} /\ left \subseteq Nat
  BY <1>1
<1>3. PICK least \in left : \A n \in left : least <= n
  <2> HIDE DEF left
  <2> QED
    BY <1>2, LeastNumber
<1>4. PICK s \in C : m - ord[s] = least
  BY <1>3
<1>5. PICK t \in C : ord[s] < ord[t]
  OBVIOUS
<1>6. m - ord[s] <= m - ord[t]
  BY <1>3, <1>4
<1> QED
  BY <1>1, <1>5, <1>6

\* A recursion of conversions goes from a struct to one of its fields.
Leads(s, t) == s \in Tried /\ \E x \in DOMAIN FieldsOf(s) : t \in Members(s, x)

LEMMA TrialOverflow ==
  ASSUME ParseInv, ParentsInv, InheritInv, TrialInv, pc = "convert", InProgress,
         Len(stack) = StackLimit, NEW t \in Members(Top.type, Top.next)
  PROVE  TrialCircle
<1> DEFINE L == Len(stack)
           c == [k \in 1..L |-> IF k < L THEN stack[k + 1].type ELSE t]
<1>1. L \in Nat \ {0} /\ Top = stack[L] /\ Leads(stack[L].type, t)
  BY AtTop DEF Leads
<1>2. ValueInv /\ OrderInv /\ Tried \subseteq DOMAIN structs \cup {Root}
  BY DEF TrialInv, Trying
<1>3. ASSUME NEW k \in 1..(L - 1) PROVE Leads(stack[k].type, stack[k + 1].type)
  <2> DEFINE s == stack[k].type
             x == stack[k].next
  <2>1. k \in 1..L
    BY <1>1
  <2>2. s \in Tried /\ x \in 1..(Len(FieldsOf(s)) + 1) /\ x > 1
        /\ stack[k + 1].type \in Members(s, x - 1)
    BY <2>1 DEF TrialInv, ConvertInv
  <2>3. DOMAIN FieldsOf(s) = 1..Len(FieldsOf(s)) /\ Len(FieldsOf(s)) \in Nat
    BY <2>2, AtTop
  <2> HIDE DEF s, x
  <2>4. x - 1 \in DOMAIN FieldsOf(s)
    BY <2>2, <2>3
  <2> QED
    BY <2>2, <2>4 DEF Leads, s
<1>4. ASSUME NEW s, NEW u, Leads(s, u)
      PROVE  u \in Tried /\ u \in DOMAIN structs /\ Includes(s, u)
  <2>1. u \in Tried /\ u # Root /\ Includes(s, u)
    BY <1>2, <1>4, MembersShape DEF Leads
  <2> QED
    BY <1>2, <2>1
<1>5. ASSUME NEW k \in 1..L PROVE \E s : Leads(s, c[k])
  <2>1. CASE k < L
    <3>1. k \in 1..(L - 1)
      BY <1>1, <2>1
    <3> QED
      BY <1>3, <2>1, <3>1
  <2>2. CASE ~(k < L)
    BY <1>1, <2>2
  <2> QED
    BY <2>1, <2>2
<1>6. ASSUME NEW k \in 1..(L - 1) PROVE Leads(c[k], c[k + 1])
  <2>1. k \in 1..L /\ k + 1 \in 1..L /\ k < L /\ c[k] = stack[k + 1].type
    BY <1>1
  <2>2. CASE k + 1 < L
    <3>1. k + 1 \in 1..(L - 1) /\ c[k + 1] = stack[k + 1 + 1].type
      BY <1>1, <2>1, <2>2
    <3> HIDE DEF c, L
    <3> QED
      BY <1>3, <2>1, <3>1
  <2>3. CASE ~(k + 1 < L)
    <3>1. k + 1 = L /\ c[k + 1] = t
      BY <1>1, <2>1, <2>3
    <3> HIDE DEF c, L
    <3> QED
      BY <1>1, <2>1, <3>1
  <2> QED
    BY <2>2, <2>3
<1>7. Cardinality(DOMAIN structs) < L /\ IsFiniteSet(DOMAIN structs)
  BY StructsFinite
<1>8. DOMAIN c = 1..L /\ c = [k \in 1..L |-> c[k]]
  OBVIOUS
<1> HIDE DEF c, L
<1>9. c \in [1..L -> DOMAIN structs]
  BY <1>4, <1>5, <1>8
<1>10. PICK j, k \in 1..L : j < k /\ c[j] = c[k]
  BY <1>1, <1>7, <1>9, Repeats
<1> DEFINE C == {c[z] : z \in j..(k - 1)}
<1>11. C # {} /\ \A z \in j..(k - 1) : z \in 1..(L - 1) /\ z \in 1..L /\ (z + 1 = k \/ z + 1 \in j..(k - 1))
  BY <1>1, <1>10
<1>12. \A s \in C : s \in Tried
  BY <1>4, <1>5, <1>11
<1>13. ASSUME NEW s \in C PROVE \E u \in C : Leads(s, u)
  <2>1. PICK z \in j..(k - 1) : s = c[z]
    OBVIOUS
  <2>2. Leads(s, c[z + 1])
    BY <1>6, <1>11, <2>1
  <2>3. c[z + 1] \in C
    <3>1. CASE z + 1 = k
      <4>1. j \in j..(k - 1)
        BY <1>1, <1>10
      <4> QED
        BY <1>10, <3>1, <4>1
    <3>2. CASE z + 1 \in j..(k - 1)
      BY <3>2
    <3> QED
      BY <1>11, <3>1, <3>2
  <2> QED
    BY <2>2, <2>3
<1> HIDE DEF C
<1>14. \E u \in C : PlainSomewhere(u)
  <2> SUFFICES ASSUME \A u \in C : ~PlainSomewhere(u) PROVE FALSE
    OBVIOUS
  <2>1. PICK m \in Nat : \E ord \in [Tried -> 0..m] :
          \A s \in Tried : \A n \in DOMAIN value[s] : \A u \in value[s][n] :
            ord[s] < ord[u] \/ PlainSomewhere(u)
    BY <1>2 DEF OrderInv
  <2>2. PICK ord \in [Tried -> 0..m] :
          \A s \in Tried : \A n \in DOMAIN value[s] : \A u \in value[s][n] :
            ord[s] < ord[u] \/ PlainSomewhere(u)
    BY <2>1
  <2>3. ASSUME NEW s \in C PROVE \E u \in C : ord[s] < ord[u]
    <3>1. PICK u \in C : Leads(s, u)
      BY <1>13
    <3>2. PICK x \in DOMAIN FieldsOf(s) : u \in Members(s, x)
      BY <3>1 DEF Leads
    <3>3. Made(s, x)
      BY DEF Made
    <3>4. FieldsOf(s)[x].name \in DOMAIN value[s]
      BY <1>2, <1>12, <3>3 DEF ValueInv
    <3> QED
      BY <1>12, <2>2, <3>1, <3>2, <3>4 DEF Members
  <2> QED
    BY <1>11, <1>12, <2>3, Climb
<1>15. \A s \in C : \E u \in C : Includes(s, u)
  BY <1>4, <1>13
<1> QED
  BY <1>11, <1>12, <1>14, <1>15 DEF TrialCircle

LEMMA ConvertMemberStep ==
  ASSUME ParseInv, ParentsInv, InheritInv, TrialInv, ConvertMember
  PROVE  TrialInv'
<1>1. PICK s, x, L : s = Top.type /\ x = Top.next /\ L = Len(stack)
  OBVIOUS
<1>2. /\ pc = "convert" /\ InProgress
      /\ UNCHANGED <<elems, structs, allFields, root, value, seen>>
  BY DEF ConvertMember, newIdl, computed, trial
<1>3. /\ stack \in Seq(AnyFrame) /\ L \in Nat \ {0} /\ s = stack[L].type /\ x = stack[L].next
      /\ s \in Tried /\ x \in Nat \ {0} /\ x \in DOMAIN FieldsOf(s)
      /\ \A r \in Tried : DOMAIN FieldsOf(r) = 1..Len(FieldsOf(r)) /\ Len(FieldsOf(r)) \in Nat
  BY <1>1, <1>2, AtTop
<1>4. /\ Tried' = Tried /\ AnyFrame' = AnyFrame /\ AnyField' = AnyField
      /\ \A r : FieldsOf(r)' = FieldsOf(r)
      /\ \A r, y : Members(r, y)' = Members(r, y)
      /\ \A r : PlainSomewhere(r)' = PlainSomewhere(r)
  <2>1. \A r : FieldsOf(r)' = FieldsOf(r)
    BY <1>2 DEF FieldsOf
  <2> QED
    BY <1>2, <2>1 DEF Tried, AnyFrame, AnyField, Members, PlainSomewhere, ContainsPlain
<1>5. ValueInv /\ OrderInv /\ Tried \subseteq DOMAIN structs \cup {Root}
  BY <1>2 DEF TrialInv, Trying
<1>6. /\ L \in 1..StackLimit /\ stack[1].type = Root
      /\ \A k \in 1..L :
           stack[k].type \in Tried /\ stack[k].next \in 1..(Len(FieldsOf(stack[k].type)) + 1)
      /\ \A k \in 1..(L - 1) :
           stack[k].next > 1 /\ stack[k + 1].type \in Members(stack[k].type, stack[k].next - 1)
  BY <1>1, <1>2 DEF TrialInv, ConvertInv
<1>7. PICK D, rank, m :
        /\ Converted(D, rank, m)
        /\ \A k \in 1..L : \A y \in 1..(stack[k].next - 1) :
             (k < L /\ y = stack[k].next - 1) \/ Members(stack[k].type, y) \subseteq D
  BY <1>1, <1>2 DEF TrialInv, ConvertInv
<1>8. Converted(D, rank, m)'
  BY <1>4, <1>7 DEF Converted
<1> DEFINE moved == Advanced(stack)
<1>9. /\ moved \in Seq(AnyFrame) /\ Len(moved) = L
      /\ \A k \in 1..L : k # L => moved[k] = stack[k]
      /\ moved[L].type = s /\ moved[L].next = x + 1
  BY <1>1, <1>3, Advance
<1> DEFINE member == Members(s, x)
<1>10. /\ member = {} => stack' = moved /\ UNCHANGED pc
       /\ member # {} => \E t \in member : Enter(moved, t, "trial overflow")
  BY <1>1 DEF ConvertMember, Members, Current
<1> HIDE DEF moved, member
<1>11. x + 1 \in 1..(Len(FieldsOf(s)) + 1) /\ L \in 1..L
  BY <1>3
<1>12. \A k \in 1..L : moved[k].type \in Tried
                    /\ moved[k].next \in 1..(Len(FieldsOf(moved[k].type)) + 1)
  BY <1>3, <1>6, <1>9, <1>11
<1>13. moved[1].type = Root
  <2>1. CASE L = 1
    BY <1>3, <1>6, <1>9, <2>1
  <2>2. CASE L # 1
    <3>1. 1 \in 1..L
      BY <1>3
    <3> QED
      BY <1>6, <1>9, <2>2, <3>1
  <2> QED
    BY <2>1, <2>2
<1>14. ASSUME NEW k \in 1..(L - 1)
       PROVE  moved[k].next > 1 /\ moved[k + 1].type \in Members(moved[k].type, moved[k].next - 1)
  <2>1. k \in 1..L /\ k # L /\ k + 1 \in 1..L
    BY <1>3
  <2>2. moved[k] = stack[k] /\ moved[k + 1].type = stack[k + 1].type
    BY <1>3, <1>9, <2>1
  <2> QED
    BY <1>6, <2>2
<1>15. ASSUME NEW k \in 1..L, NEW y \in 1..(moved[k].next - 1)
       PROVE  (y = moved[k].next - 1 /\ (k = L => y = x)) \/ Members(moved[k].type, y) \subseteq D
  <2>1. CASE k = L /\ y # x
    <3>1. y \in 1..(stack[L].next - 1) /\ ~(L < L)
      BY <1>3, <1>9, <2>1
    <3> QED
      BY <1>3, <1>7, <1>9, <1>11, <2>1, <3>1
  <2>2. CASE k = L /\ y = x
    BY <1>3, <1>9, <2>2
  <2>3. CASE k # L
    BY <1>7, <1>9, <2>3
  <2> QED
    BY <2>1, <2>2, <2>3
<1>16. pc' # "test" => ValueInv' /\ OrderInv'
  BY <1>2, <1>5, TrialKept DEF Made
<1>17. CASE member = {}
  <2>1. stack' = moved /\ pc' = "convert"
    BY <1>2, <1>10, <1>17
  <2>2. \A k \in 1..L : \A y \in 1..(stack'[k].next - 1) :
          (k < L /\ y = stack'[k].next - 1) \/ Members(stack'[k].type, y) \subseteq D
    <3> SUFFICES ASSUME NEW k \in 1..L, NEW y \in 1..(moved[k].next - 1)
                 PROVE  (k < L /\ y = moved[k].next - 1) \/ Members(moved[k].type, y) \subseteq D
      BY <2>1
    <3>1. k = L \/ k < L
      BY <1>3
    <3> QED
      BY <1>9, <1>15, <1>17, <3>1 DEF member
  <2>3. \E D2, rank2, m2 :
          /\ Converted(D2, rank2, m2)'
          /\ \A k \in 1..L : \A y \in 1..(stack'[k].next - 1) :
               (k < L /\ y = stack'[k].next - 1) \/ Members(stack'[k].type, y) \subseteq D2
    BY <1>8, <2>2
  <2>4. ConvertInv'
    BY <1>4, <1>6, <1>9, <1>12, <1>13, <1>14, <2>1, <2>3 DEF ConvertInv
  <2> QED
    BY <1>2, <1>4, <1>5, <1>16, <2>1, <2>4 DEF TrialInv, Trying
<1>18. CASE member # {}
  <2>1. PICK t \in member : Enter(moved, t, "trial overflow")
    BY <1>10, <1>18
  <2>2. t \in Tried
    BY <1>2, <1>3, <1>5, MembersShape DEF member
  <2>3. CASE L < StackLimit
    <3> DEFINE e == Frame(t)
    <3>1. stack' = Append(moved, e) /\ pc' = "convert"
      BY <1>2, <1>9, <2>1, <2>3 DEF Enter
    <3>2. e \in AnyFrame /\ e.type = t /\ e.next = 1
      BY <1>5, <2>2 DEF Frame, AnyFrame
    <3> HIDE DEF e
    <3>3. /\ stack' \in Seq(AnyFrame) /\ Len(stack') = L + 1 /\ stack'[L + 1] = e
          /\ \A k \in 1..L : stack'[k] = moved[k]
      BY <1>9, <3>1, <3>2, AppendLonger
    <3>4. L + 1 \in 1..StackLimit /\ 1 \in 1..L /\ L + 1 - 1 = L
      BY <1>3, <2>3, LimitNat
    <3>5. \A k \in 1..(L + 1) : k = L + 1 \/ (k \in 1..L /\ k < L + 1)
      BY <1>3
    <3>6. stack'[1].type = Root
      BY <1>13, <3>3, <3>4
    <3>7. ASSUME NEW k \in 1..(L + 1)
          PROVE  /\ stack'[k].type \in Tried
                 /\ stack'[k].next \in 1..(Len(FieldsOf(stack'[k].type)) + 1)
      <4>1. 1 \in 1..(Len(FieldsOf(t)) + 1)
        BY <1>3, <2>2
      <4> QED
        BY <1>12, <2>2, <3>2, <3>3, <3>5, <4>1
    <3>8. ASSUME NEW k \in 1..L
          PROVE  /\ stack'[k].next > 1
                 /\ stack'[k + 1].type \in Members(stack'[k].type, stack'[k].next - 1)
      <4>1. CASE k = L
        <5>1. stack'[k].next = x + 1 /\ stack'[k].type = s /\ stack'[k + 1].type = t
          BY <1>9, <3>2, <3>3, <4>1
        <5>2. x + 1 > 1 /\ x + 1 - 1 = x
          BY <1>3
        <5> QED
          <6>1. stack'[k].next - 1 = x
            BY <1>3, <5>1
          <6>2. t \in Members(s, x)
            BY DEF member
          <6> QED
            BY <5>1, <5>2, <6>1, <6>2
      <4>2. CASE k # L
        <5>1. k \in 1..(L - 1) /\ k + 1 \in 1..L
          BY <1>3, <4>2
        <5>2. stack'[k] = moved[k] /\ stack'[k + 1] = moved[k + 1]
          BY <3>3, <5>1
        <5> QED
          BY <1>14, <5>1, <5>2
      <4> QED
        BY <4>1, <4>2
    <3>9. ASSUME NEW k \in 1..(L + 1), NEW y \in 1..(stack'[k].next - 1)
          PROVE  \/ k < L + 1 /\ y = stack'[k].next - 1
                 \/ Members(stack'[k].type, y) \subseteq D
      <4>1. CASE k = L + 1
        <5>1. y \in 1..0
          BY <3>2, <3>3, <4>1
        <5> QED
          BY <5>1
      <4>2. CASE k \in 1..L /\ k < L + 1
        BY <1>15, <3>3, <4>2
      <4> QED
        BY <3>5, <4>1, <4>2
    <3>10. \E D2, rank2, m2 :
             /\ Converted(D2, rank2, m2)'
             /\ \A k \in 1..(L + 1) : \A y \in 1..(stack'[k].next - 1) :
                  (k < L + 1 /\ y = stack'[k].next - 1) \/ Members(stack'[k].type, y) \subseteq D2
      BY <1>8, <3>9
    <3>11. ConvertInv'
      <4>1. \A k \in 1..(Len(stack') - 1) :
              stack'[k].next > 1 /\ stack'[k + 1].type \in Members(stack'[k].type, stack'[k].next - 1)
        <5>1. Len(stack') - 1 = L
          BY <1>3, <3>3
        <5> QED
          BY <3>8, <5>1
      <4>2. stack' \in Seq(AnyFrame) /\ Len(stack') = L + 1
        BY <3>3
      <4> QED
        BY <1>4, <3>4, <3>6, <3>7, <3>10, <4>1, <4>2 DEF ConvertInv
    <3> QED
      BY <1>2, <1>4, <1>5, <1>16, <3>1, <3>11 DEF TrialInv, Trying
  <2>4. CASE ~(L < StackLimit)
    <3>1. pc' = "trial overflow" /\ Len(stack) = StackLimit
      <4>1. L = StackLimit
        BY <1>3, <1>6, <2>4, LimitNat
      <4> QED
        BY <1>1, <1>9, <2>1, <2>4, <4>1 DEF Enter, Goto
    <3>2. TrialCircle
      BY <1>1, <1>2, <2>1, <3>1, TrialOverflow DEF member
    <3>3. TrialCircle'
      BY <1>4, <3>2 DEF TrialCircle, Includes
    <3> QED
      BY <1>2, <1>4, <1>5, <1>16, <3>1, <3>3 DEF TrialInv, Trying
  <2> QED
    BY <2>3, <2>4
<1> QED
  BY <1>17, <1>18

LEMMA TrialStep ==
  ParseInv /\ ParentsInv /\ InheritInv /\ TrialInv /\ [Next]_vars => TrialInv'
<1> SUFFICES ASSUME ParseInv, ParentsInv, InheritInv, TrialInv, [Next]_vars PROVE TrialInv'
  OBVIOUS
<1>1. CASE ReadElem \/ Parsed \/ NextStruct \/ ToParent \/ Topmost \/ AppendFields \/ FieldsDone
  <2>1. /\ UNCHANGED <<seen, value>>
        /\ pc \in {"parse", "fields", "up", "down"}
        /\ pc' \in {"parse", "fields", "up", "down", "ready", "extends overflow"}
    BY <1>1 DEF ReadElem, Parsed, NextStruct, ToParent, Topmost, AppendFields, FieldsDone,
                Enter, Goto, trial
  <2> QED
    BY <2>1 DEF TrialInv, Trying, Tried
<1>2. CASE Validate \/ MakeMember \/ NoTestValue \/ StructEnds \/ ConvertMember
  BY <1>2, ValidateStep, MakeMemberStep, NoTestValueStep, StructEndsStep, ConvertMemberStep
<1>3. CASE UNCHANGED vars
  <2>1. UNCHANGED <<elems, structs, allFields, root, value, seen, pc, stack>>
    BY <1>3 DEF vars, newIdl, computed, trial
  <2>2. /\ Tried' = Tried /\ AnyFrame' = AnyFrame /\ AnyField' = AnyField
        /\ \A r : FieldsOf(r)' = FieldsOf(r)
    BY <2>1 DEF Tried, AnyFrame, AnyField, FieldsOf
  <2>3. /\ \A r, y : Members(r, y)' = Members(r, y)
        /\ \A r : PlainSomewhere(r)' = PlainSomewhere(r)
        /\ \A r, y : Made(r, y)' <=> Made(r, y)
    BY <2>1, <2>2 DEF Members, PlainSomewhere, ContainsPlain, Made
  <2>4. \A D, rank, m : Converted(D, rank, m)' <=> Converted(D, rank, m)
    BY <2>2, <2>3 DEF Converted
  <2>5. Trying => ValueInv' /\ OrderInv'
    BY <2>1, <2>3, TrialKept DEF TrialInv
  <2>6. pc = "test" => TestInv'
    BY <2>1, <2>2, <2>3 DEF TrialInv, TestInv
  <2>7. pc = "convert" => ConvertInv'
    BY <2>1, <2>2, <2>3, <2>4 DEF TrialInv, ConvertInv
  <2>8. pc = "trial overflow" => TrialCircle'
    BY <2>1, <2>2, <2>3 DEF TrialInv, TrialCircle, Includes
  <2> QED
    BY <2>1, <2>2, <2>4, <2>5, <2>6, <2>7, <2>8 DEF TrialInv, Trying
<1> QED
  BY <1>1, <1>2, <1>3 DEF Next

LEMMA FullInv == Spec => [](ParseInv /\ ParentsInv /\ InheritInv /\ TrialInv)
<1>1. ParseInv /\ ParentsInv /\ InheritInv /\ TrialInv /\ [Next]_vars => TrialInv'
  BY TrialStep
<1> QED
  BY <1>1, TrialInit, IdlInv, PTL DEF Spec

(* Types: in particular, a recursion through the test values is at structs *)
(* that have a map, and at one of their fields or past the last.           *)
THEOREM TypeCorrect == Spec => []TypeOK
<1>1. ASSUME ParseInv, ParentsInv, InheritInv, TrialInv PROVE TypeOK
  <2>1. ASSUME pc \in {"test", "convert"}, NEW k \in DOMAIN stack
        PROVE  /\ stack[k].type \in DOMAIN value
               /\ stack[k].next \in 1..(Len(FieldsOf(stack[k].type)) + 1)
    <3>1. k \in 1..Len(stack)
      BY <1>1, <2>1, AtTop
    <3>2. TestInv \/ ConvertInv
      BY <1>1, <2>1 DEF TrialInv
    <3> QED
      BY <3>1, <3>2 DEF TestInv, ConvertInv, Tried
  <2> QED
    BY <1>1, <2>1 DEF TypeOK, ParentsInv, TrialInv, Tried
<1> QED
  BY <1>1, FullInv, PTL

\* Accepted: all structs with a test value have been converted.
LEMMA AllConverted ==
  ASSUME ValueInv, OrderInv, pc # "test", \A s \in Tried : NamesApart(s),
         NEW D, NEW rank, NEW m, Converted(D, rank, m), Root \in D
  PROVE  Tried \subseteq D
<1> SUFFICES ASSUME Tried \ D # {} PROVE FALSE
  OBVIOUS
<1>1. PICK n \in Nat : \E ord \in [Tried -> 0..n] :
        \A t \in Tried \ {Root} :
          \E s \in Tried : ord[s] < ord[t] /\ \E k \in DOMAIN value[s] : t \in value[s][k]
  BY DEF OrderInv
<1>2. PICK ord \in [Tried -> 0..n] :
        \A t \in Tried \ {Root} :
          \E s \in Tried : ord[s] < ord[t] /\ \E k \in DOMAIN value[s] : t \in value[s][k]
  BY <1>1
<1> DEFINE late == {ord[t] : t \in Tried \ D}
<1>3. late # {} /\ late \subseteq Nat
  OBVIOUS
<1>4. PICK least \in late : \A y \in late : least <= y
  <2> HIDE DEF late
  <2> QED
    BY <1>3, LeastNumber
<1>5. PICK t \in Tried \ D : ord[t] = least
  BY <1>4
<1>6. PICK s \in Tried : ord[s] < ord[t] /\ \E k \in DOMAIN value[s] : t \in value[s][k]
  BY <1>2, <1>5
<1>7. s \in D
  <2> SUFFICES ASSUME s \notin D PROVE FALSE
    OBVIOUS
  <2>1. ord[t] <= ord[s] /\ ord[t] \in 0..n /\ ord[s] \in 0..n
    BY <1>4, <1>5
  <2> QED
    BY <1>6, <2>1
<1>8. PICK k \in DOMAIN value[s] : t \in value[s][k]
  BY <1>6
<1>9. PICK x \in DOMAIN FieldsOf(s) : FieldsOf(s)[x].name = k
  BY DEF ValueInv
<1>10. t \in Members(s, x)
  BY <1>8, <1>9 DEF Members
<1> QED
  BY <1>5, <1>7, <1>10 DEF Converted

LEMMA NoPlainCircle ==
  ASSUME ParseInv, ParentsInv, InheritInv, TrialInv, pc = "accepted",
         \A s \in Tried : NamesApart(s)
  PROVE  ~Circle(Tried, ContainsPlain)
<1> SUFFICES ASSUME NEW C \in (SUBSET Tried) \ {{}},
                    \A s \in C : \E t \in C : ContainsPlain(s, t)
             PROVE  FALSE
  BY DEF Circle
<1>1. ValueInv /\ OrderInv /\ Tried \subseteq DOMAIN structs \cup {Root}
  BY DEF TrialInv, Trying
<1>2. PICK D, rank, m : Converted(D, rank, m) /\ Root \in D
  BY DEF TrialInv
<1>3. Tried \subseteq D
  BY <1>1, <1>2, AllConverted
<1>4. ASSUME NEW s \in C, NEW t \in C, ContainsPlain(s, t) PROVE rank[t] < rank[s]
  <2>1. PICK x \in DOMAIN FieldsOf(s) : FieldsOf(s)[x].type = t /\ ~FieldsOf(s)[x].isArray
    BY <1>4 DEF ContainsPlain
  <2>2. t # Root
    BY <1>1, <2>1, FieldsShape DEF ValueInv, Computed
  <2>3. IsStruct(t)
    BY <1>1, <2>2 DEF ValueInv
  <2>4. Made(s, x)
    BY DEF Made
  <2>5. value[s][FieldsOf(s)[x].name] = {t}
    BY <1>1, <2>1, <2>3, <2>4 DEF ValueInv
  <2>6. t \in Members(s, x)
    BY <2>5 DEF Members
  <2> QED
    BY <1>2, <1>3, <2>6 DEF Converted
<1> DEFINE ranks == {rank[s] : s \in C}
<1>5. ranks # {} /\ ranks \subseteq Nat
  BY <1>2, <1>3 DEF Converted
<1>6. PICK least \in ranks : \A y \in ranks : least <= y
  <2> HIDE DEF ranks
  <2> QED
    BY <1>5, LeastNumber
<1>7. PICK s \in C : rank[s] = least
  BY <1>6
<1>8. PICK t \in C : ContainsPlain(s, t)
  OBVIOUS
<1>9. rank[t] < rank[s] /\ rank[s] <= rank[t] /\ rank[t] \in Nat /\ rank[s] \in Nat
  BY <1>4, <1>5, <1>6, <1>7, <1>8
<1> QED
  BY <1>9

(* Which recursions end, for every document, stack and order of the        *)
(* structs: NewIdl's exactly if structs do not extend each other in a      *)
(* circle; the one of AddHandler's trial not before there are structs that *)
(* contain each other, one of them somewhere without an array; and no      *)
(* handler is accepted whose structs contain each other without any.       *)
THEOREM RecursionsDecided == Spec => []RecursionFound
<1>1. ASSUME ParseInv, ParentsInv, InheritInv, TrialInv PROVE RecursionFound
  <2>1. Circle(DOMAIN structs, Extends) <=> ExtendsCircle
    BY DEF Circle, Extends, ExtendsCircle
  <2>2. pc = "extends overflow" => Circle(DOMAIN structs, Extends)
    BY <1>1, <2>1 DEF ParentsInv
  <2>3. Computed => ~Circle(DOMAIN structs, Extends)
    BY <1>1, <2>1, NoExtendsCircle
  <2>4. pc = "trial overflow" =>
          \E C \in (SUBSET Tried) \ {{}} :
            /\ \A s \in C : \E t \in C : Includes(s, t)
            /\ \E s \in Tried, t \in C : ContainsPlain(s, t)
    <3> SUFFICES ASSUME pc = "trial overflow"
                 PROVE  \E C \in (SUBSET Tried) \ {{}} :
                          /\ \A s \in C : \E t \in C : Includes(s, t)
                          /\ \E s \in Tried, t \in C : ContainsPlain(s, t)
      OBVIOUS
    <3>1. TrialCircle
      BY <1>1 DEF TrialInv
    <3> QED
      BY <3>1 DEF TrialCircle, PlainSomewhere
  <2>5. pc = "accepted" /\ (\A s \in Tried : NamesApart(s)) => ~Circle(Tried, ContainsPlain)
    BY <1>1, NoPlainCircle
  <2> QED
    BY <2>2, <2>3, <2>4, <2>5 DEF RecursionFound, Tried
<1> QED
  BY <1>1, FullInv, PTL
=============================================================================
