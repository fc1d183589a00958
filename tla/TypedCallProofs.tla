---------------------------- MODULE TypedCallProofs ---------------------------
(***************************************************************************)
(* Theorems about TypedCall: what becomes of a value between a caller, a   *)
(* handler and a proxy, for values and structs of any depth.               *)
(*                                                                         *)
(* The functions of GoValues, Convert and TypedCall are recursive over     *)
(* values, or over structs.  That each of them has the equation of its     *)
(* definition is by RecursionExists, and what it computes by               *)
(* HeightInduction, both with the height of a tree.                        *)
(***************************************************************************)
EXTENDS TypedCall, Loops, TLAPS

-----------------------------------------------------------------------------
(* Values and their height.                                                *)
ValueTypes == GoTypes \cup {NilType, AnySlice, Map}
AllAtoms == Atoms \cup {NilSlice, NilPtr}
Level(V) == [type : ValueTypes, atom : AllAtoms, elems : Seq(V), fields : [Keys -> Seq(V)]]

\* Depth bounds the height of values.
LEMMA DepthNat == Depth \in Nat /\ Depth > 2
BY GoValuesAssumption

IsValuesTo(f, d) == f = [n \in 0..d |-> IF n = 0 THEN {} ELSE Level(f[n - 1])]

LEMMA ValuesToExists == \E f : IsValuesTo(f, Depth)
<1> DEFINE S == {d \in 0..Depth : \E f : IsValuesTo(f, d)}
<1>1. 0 \in S
  <2> DEFINE f == [n \in 0..0 |-> {}]
  <2>1. IsValuesTo(f, 0)
    BY DEF IsValuesTo
  <2> HIDE DEF f
  <2> QED
    BY <2>1, DepthNat
<1>2. ASSUME NEW d \in 1..Depth, d - 1 \in S PROVE d \in S
  <2>1. PICK f : IsValuesTo(f, d - 1)
    BY <1>2
  <2> DEFINE g == [n \in 0..d |-> IF n = d THEN Level(f[d - 1]) ELSE f[n]]
  <2>2. ASSUME NEW n \in 0..d PROVE g[n] = IF n = 0 THEN {} ELSE Level(g[n - 1])
    <3>1. d \in Nat /\ n \in Nat /\ (n = d \/ n \in 0..(d - 1)) /\ (n # 0 => n - 1 \in 0..(d - 1) /\ n - 1 # d)
      BY DepthNat
    <3>2. n # 0 => g[n - 1] = f[n - 1]
      BY <3>1
    <3>3. CASE n = d
      BY <3>1, <3>2, <3>3
    <3>4. CASE n \in 0..(d - 1)
      <4>1. f[n] = IF n = 0 THEN {} ELSE Level(f[n - 1])
        BY <2>1, <3>4 DEF IsValuesTo
      <4>2. g[n] = f[n]
        BY <3>1, <3>4
      <4> HIDE DEF g
      <4> QED
        BY <3>2, <4>1, <4>2
    <3> QED
      BY <3>1, <3>3, <3>4
  <2>3. IsValuesTo(g, d)
    <3>1. g = [n \in 0..d |-> g[n]]
      OBVIOUS
    <3> HIDE DEF g
    <3> QED
      BY <2>2, <3>1 DEF IsValuesTo
  <2> HIDE DEF g
  <2> QED
    BY <2>3
<1>3. 0..Depth \subseteq S
  <2> HIDE DEF S
  <2> QED
    BY <1>1, <1>2, DepthNat, LoopInduction
<1> QED
  BY <1>3, DepthNat

\* The equation of ValuesTo.
LEMMA ValuesToIs ==
  /\ ValuesTo[0] = {}
  /\ \A n \in 1..Depth : ValuesTo[n] = Level(ValuesTo[n - 1])
<1>1. IsValuesTo(ValuesTo, Depth)
  <2>1. ValuesTo = CHOOSE f : IsValuesTo(f, Depth)
    BY DEF ValuesTo, IsValuesTo, Level, ValueTypes, AllAtoms
  <2> QED
    BY <2>1, ValuesToExists
<1>2. ASSUME NEW n \in 0..Depth PROVE ValuesTo[n] = IF n = 0 THEN {} ELSE Level(ValuesTo[n - 1])
  <2> HIDE DEF ValuesTo
  <2> QED
    BY <1>1 DEF IsValuesTo
<1>3. 0 \in 0..Depth /\ \A n \in 1..Depth : n \in 0..Depth /\ n # 0
  BY DepthNat
<1> QED
  BY <1>2, <1>3

\* A value of a level is of all higher ones.
LEMMA ValuesToGrows == \A n \in 1..Depth : ValuesTo[n - 1] \subseteq ValuesTo[n]
<1> DEFINE S == {n \in 0..Depth : n = 0 \/ ValuesTo[n - 1] \subseteq ValuesTo[n]}
<1>1. 0 \in S
  BY DepthNat
<1>2. ASSUME NEW n \in 1..Depth, n - 1 \in S PROVE n \in S
  <2>1. n \in 0..Depth /\ n - 1 \in 0..Depth
    BY DepthNat
  <2>2. CASE n - 1 = 0
    BY <2>1, <2>2, ValuesToIs
  <2>3. CASE n - 1 # 0
    <3>1. n - 1 \in 1..Depth
      BY <2>1, <2>3
    <3>2. ValuesTo[(n - 1) - 1] \subseteq ValuesTo[n - 1]
      BY <1>2, <2>3
    <3> DEFINE A == ValuesTo[(n - 1) - 1]
               B == ValuesTo[n - 1]
    <3>3. B = Level(A) /\ ValuesTo[n] = Level(B)
      BY <3>1, ValuesToIs
    <3>4. Level(A) \subseteq Level(B)
      <4> HIDE DEF A, B
      <4>1. Seq(A) \subseteq Seq(B)
        <5>1. A \subseteq B
          BY <3>2 DEF A, B
        <5> QED
          BY <5>1
      <4> QED
        BY <4>1 DEF Level
    <3> HIDE DEF A
    <3> QED
      BY <2>1, <3>3, <3>4
  <2> QED
    BY <2>2, <2>3
<1>3. 0..Depth \subseteq S
  <2> HIDE DEF S
  <2> QED
    BY <1>1, <1>2, DepthNat, LoopInduction
<1>4. \A n \in 1..Depth : n \in 0..Depth /\ n # 0
  BY DepthNat
<1> QED
  BY <1>3, <1>4

LEMMA ValuesToMonotone ==
  ASSUME NEW m \in 0..Depth, NEW n \in 0..Depth, m <= n
  PROVE  ValuesTo[m] \subseteq ValuesTo[n]
<1> DEFINE S == {k \in 0..Depth : m <= k => ValuesTo[m] \subseteq ValuesTo[k]}
<1>1. 0 \in S
  <2>1. m <= 0 => m = 0
    BY DepthNat
  <2> QED
    BY <2>1, DepthNat
<1>2. ASSUME NEW k \in 1..Depth, k - 1 \in S PROVE k \in S
  <2>1. k \in 0..Depth /\ (m <= k => m = k \/ m <= k - 1) /\ m \in Nat
    BY DepthNat
  <2>2. ValuesTo[k - 1] \subseteq ValuesTo[k]
    BY ValuesToGrows
  <2> QED
    BY <1>2, <2>1, <2>2
<1>3. 0..Depth \subseteq S
  <2> HIDE DEF S
  <2> QED
    BY <1>1, <1>2, DepthNat, LoopInduction
<1> QED
  BY <1>3

\* How high a value is.
HeightAt(v, n) == n \in 1..Depth /\ v \in ValuesTo[n] /\ v \notin ValuesTo[n - 1]
Height == [v \in Values |-> CHOOSE n \in 1..Depth : HeightAt(v, n)]

\* Every value has a height, the first level it is of.
LEMMA HeightIs ==
  ASSUME NEW v \in Values
  PROVE  Height[v] \in 1..Depth /\ HeightAt(v, Height[v])
<1>1. \E n \in 1..Depth : HeightAt(v, n)
  <2> DEFINE T == {n \in 0..Depth : v \in ValuesTo[n]}
  <2>1. Depth \in T
    BY DepthNat DEF Values
  <2>2. T \subseteq Nat /\ T # {}
    BY <2>1, DepthNat
  <2>3. PICK n \in T : \A m \in T : n <= m
    BY <2>2, LeastNumber
  <2>4. n # 0
    <3>1. n \in 0..Depth /\ v \in ValuesTo[n]
      BY <2>3
    <3> QED
      BY <3>1, ValuesToIs
  <2>5. n \in 1..Depth /\ n - 1 \in 0..Depth /\ ~(n <= n - 1)
    BY <2>4, DepthNat
  <2>6. v \notin ValuesTo[n - 1]
    BY <2>3, <2>5
  <2>7. v \in ValuesTo[n]
    BY <2>3
  <2> QED
    BY <2>5, <2>6, <2>7 DEF HeightAt
<1> QED
  BY <1>1 DEF Height

LEMMA HeightLow ==
  ASSUME NEW v \in Values, NEW n \in 0..Depth
  PROVE  v \in ValuesTo[n] <=> Height[v] <= n
<1>1. Height[v] \in 1..Depth /\ v \in ValuesTo[Height[v]] /\ v \notin ValuesTo[Height[v] - 1]
  BY HeightIs DEF HeightAt
<1> DEFINE h == Height[v]
<1>2. h \in 0..Depth /\ h - 1 \in 0..Depth
  BY <1>1, DepthNat
<1> HIDE DEF h
<1>3. CASE h <= n
  <2>1. ValuesTo[h] \subseteq ValuesTo[n]
    BY <1>2, <1>3, ValuesToMonotone
  <2> QED
    BY <1>1, <1>3, <2>1 DEF h
<1>4. CASE ~(h <= n)
  <2>1. n <= h - 1
    BY <1>2, <1>4
  <2>2. ValuesTo[n] \subseteq ValuesTo[h - 1]
    BY <1>2, <2>1, ValuesToMonotone
  <2> QED
    BY <1>1, <1>4, <2>2 DEF h
<1> QED
  BY <1>3, <1>4

LEMMA ValuesSubset == \A n \in 0..Depth : ValuesTo[n] \subseteq Values
<1>1. Depth \in 0..Depth /\ \A n \in 0..Depth : n <= Depth
  BY DepthNat
<1> QED
  BY <1>1, ValuesToMonotone DEF Values

LEMMA HeightType == Height \in [Values -> Nat]
<1>1. \A v \in Values : Height[v] \in Nat
  <2>1. 1..Depth \subseteq Nat
    BY DepthNat
  <2> QED
    BY <2>1, HeightIs
<1>2. Height = [v \in Values |-> Height[v]]
  BY DEF Height
<1> QED
  BY <1>1, <1>2

\* A value has parts, which are lower.
LEMMA Parts ==
  ASSUME NEW v \in Values
  PROVE  /\ v = Value(v.type, v.atom, v.elems, v.fields)
         /\ v.type \in ValueTypes /\ v.atom \in AllAtoms
         /\ v.elems \in Seq(Values) /\ v.fields \in [Keys -> Seq(Values)]
         /\ \A x \in DOMAIN v.elems : v.elems[x] \in Values /\ Height[v.elems[x]] < Height[v]
         /\ \A k \in Keys : \A x \in DOMAIN v.fields[k] :
              v.fields[k][x] \in Values /\ Height[v.fields[k][x]] < Height[v]
<1> DEFINE h == Height[v]
           V == ValuesTo[h - 1]
<1>1. h \in 1..Depth /\ v \in ValuesTo[h]
  BY HeightIs DEF HeightAt
<1>2. v \in Level(V)
  BY <1>1, ValuesToIs
<1>3. h - 1 \in 0..Depth /\ h \in Nat
  BY <1>1, DepthNat
<1>4. V \subseteq Values
  BY <1>3, ValuesSubset
<1>5. ASSUME NEW w \in V PROVE w \in Values /\ Height[w] < h
  <2>1. w \in Values
    BY <1>4
  <2>2. Height[w] <= h - 1 /\ Height[w] \in 1..Depth
    BY <1>3, <2>1, HeightLow, HeightIs
  <2> HIDE DEF h, V
  <2>3. Height[w] < h
    BY <1>1, <2>2, DepthNat
  <2> QED
    BY <2>1, <2>3
<1> HIDE DEF V
<1>6. /\ v = Value(v.type, v.atom, v.elems, v.fields)
      /\ v.type \in ValueTypes /\ v.atom \in AllAtoms
      /\ v.elems \in Seq(V) /\ v.fields \in [Keys -> Seq(V)]
  BY <1>2 DEF Level, Value
<1>7. Seq(V) \subseteq Seq(Values)
  BY <1>4
<1>8. v.elems \in Seq(Values) /\ v.fields \in [Keys -> Seq(Values)]
  BY <1>6, <1>7
<1>9. \A s \in Seq(V) : \A x \in DOMAIN s : s[x] \in V
  OBVIOUS
<1>10. \A x \in DOMAIN v.elems : v.elems[x] \in Values /\ Height[v.elems[x]] < h
  BY <1>5, <1>6, <1>9
<1>11. ASSUME NEW k \in Keys, NEW x \in DOMAIN v.fields[k]
       PROVE  v.fields[k][x] \in Values /\ Height[v.fields[k][x]] < h
  <2>1. v.fields[k] \in Seq(V)
    BY <1>6
  <2>2. v.fields[k][x] \in V
    BY <1>9, <2>1
  <2> QED
    BY <1>5, <2>2
<1> HIDE DEF h
<1> QED
  BY <1>6, <1>8, <1>10, <1>11 DEF h

\* A value of lower parts.
LEMMA Build ==
  ASSUME NEW n \in 1..Depth, NEW t \in ValueTypes, NEW a \in AllAtoms,
         NEW s \in Seq(ValuesTo[n - 1]), NEW m \in [Keys -> Seq(ValuesTo[n - 1])]
  PROVE  Value(t, a, s, m) \in ValuesTo[n]
<1>1. ValuesTo[n] = Level(ValuesTo[n - 1])
  BY ValuesToIs
<1> QED
  BY <1>1 DEF Level, Value

LEMMA NoFieldsType ==
  /\ \A V : NoFields \in [Keys -> Seq(V)] /\ <<>> \in Seq(V)
  /\ \A k \in Keys : NoFields[k] = <<>>
BY DEF NoFields

LEMMA FlatValue ==
  ASSUME NEW n \in 1..Depth, NEW t \in ValueTypes, NEW a \in AllAtoms
  PROVE  Atom(t, a) \in ValuesTo[n] /\ Atom(t, a) \in Values
<1>1. Atom(t, a) \in ValuesTo[n]
  <2> DEFINE V == ValuesTo[n - 1]
  <2>1. NoFields \in [Keys -> Seq(V)] /\ <<>> \in Seq(V)
    BY NoFieldsType
  <2> QED
    BY <2>1, Build DEF Atom
<1>2. n \in 0..Depth
  BY DepthNat
<1> QED
  BY <1>1, <1>2, ValuesSubset

-----------------------------------------------------------------------------
(* Types.                                                                  *)
LEMMA Domains ==
  /\ DOMAIN Basic = {"string", "int", "float", "bool"}
  /\ DOMAIN TestAtom = {"string", "int", "float", "bool"}
  /\ DOMAIN IdlType = {"int64", "float64", "bool"}
  /\ DOMAIN ZeroAtom = {"string", "int64", "float64", "bool"}
BY DEF Basic, TestAtom, IdlType, ZeroAtom

ScalarKinds == {"string", "int64", "float64", "bool"}

IsPlain(t, type, p) ==
  /\ t.kind \in ScalarKinds \cup {"struct"} /\ t.elem = <<>>
  /\ t.kind = "struct" <=> type \in DOMAIN AllFields
  /\ t.kind = "struct" => t = Struct(type, p)
  /\ type = "string" => t = String
  /\ type = "int" => t = Int64
  /\ type = "float" => t = Float64
  /\ type = "bool" => t = Bool
  /\ type \in DOMAIN Enum => t = Named(type) /\ t.kind = "string" /\ t # String

\* The Go type of a field's name, by kind of IDL type.
LEMMA PlainShape ==
  ASSUME NEW type \in IdlTypes, NEW p \in BOOLEAN
  PROVE  IsPlain(Plain(type, p), type, p)
<1>1. \A e \in DOMAIN Enum : e \notin {"string", "int", "float", "bool"} /\ e # ""
  BY Domains, GoValuesAssumption
<1>2. \A s \in DOMAIN AllFields : s \notin {"string", "int", "float", "bool"} /\ s \notin DOMAIN Enum
  BY Domains, GoValuesAssumption
<1>3. type \in {"string", "int", "float", "bool"} \/ type \in DOMAIN Enum \/ type \in DOMAIN AllFields
  BY Domains DEF IdlTypes
<1>4. CASE type \in {"string", "int", "float", "bool"}
  <2>1. Plain(type, p) = Basic[type]
    BY <1>1, <1>2, <1>4, Domains DEF Plain
  <2>2. /\ type = "string" => Basic[type] = String
        /\ type = "int" => Basic[type] = Int64
        /\ type = "float" => Basic[type] = Float64
        /\ type = "bool" => Basic[type] = Bool
    BY DEF Basic
  <2>3. ASSUME NEW t, t = Basic[type] PROVE IsPlain(t, type, p)
    <3>1. type \notin DOMAIN AllFields /\ type \notin DOMAIN Enum
      BY <1>1, <1>2, <1>4
    <3>2. CASE type = "string"
      <4>1. t = String
        BY <2>2, <2>3, <3>2
      <4> QED
        BY <3>1, <3>2, <4>1 DEF IsPlain, String, Builtin, Type, ScalarKinds
    <3>3. CASE type = "int"
      <4>1. t = Int64
        BY <2>2, <2>3, <3>3
      <4> QED
        BY <3>1, <3>3, <4>1 DEF IsPlain, Int64, Builtin, Type, ScalarKinds
    <3>4. CASE type = "float"
      <4>1. t = Float64
        BY <2>2, <2>3, <3>4
      <4> QED
        BY <3>1, <3>4, <4>1 DEF IsPlain, Float64, Builtin, Type, ScalarKinds
    <3>5. CASE type = "bool"
      <4>1. t = Bool
        BY <2>2, <2>3, <3>5
      <4> QED
        BY <3>1, <3>5, <4>1 DEF IsPlain, Bool, Builtin, Type, ScalarKinds
    <3> QED
      BY <1>4, <3>2, <3>3, <3>4, <3>5
  <2> QED
    BY <2>1, <2>3
<1>5. CASE type \in DOMAIN Enum
  <2>1. Plain(type, p) = Named(type)
    BY <1>1, <1>2, <1>5, Domains DEF Plain
  <2>2. ASSUME NEW t, t = Named(type) PROVE IsPlain(t, type, p)
    <3>1. type \notin DOMAIN AllFields /\ type \notin {"string", "int", "float", "bool"} /\ type # ""
      BY <1>1, <1>2, <1>5
    <3> QED
      BY <2>2, <3>1 DEF IsPlain, Named, String, Builtin, Type, ScalarKinds
  <2> QED
    BY <2>1, <2>2
<1>6. CASE type \in DOMAIN AllFields
  <2>1. Plain(type, p) = Struct(type, p)
    BY <1>2, <1>6, Domains DEF Plain
  <2>2. ASSUME NEW t, t = Struct(type, p) PROVE IsPlain(t, type, p)
    <3>1. type \notin DOMAIN Enum /\ type \notin {"string", "int", "float", "bool"}
      BY <1>1, <1>2, <1>6
    <3> QED
      BY <1>6, <2>2, <3>1 DEF IsPlain, Struct, Type, ScalarKinds
  <2> QED
    BY <2>1, <2>2
<1> QED
  BY <1>3, <1>4, <1>5, <1>6

\* A type that is no pointer and holds none but in a slice.
LEMMA PlainTypesShape ==
  ASSUME NEW t \in PlainTypes
  PROVE  /\ t.kind \in ScalarKinds \cup {"struct"} /\ t.elem = <<>>
         /\ t.kind = "struct" => t.name \in DOMAIN AllFields /\ t.toPtr \in BOOLEAN
                                 /\ t = Struct(t.name, t.toPtr)
         /\ Base(t) = t
<1>1. PICK type \in IdlTypes, p \in BOOLEAN : t = Plain(type, p)
  BY DEF PlainTypes
<1>2. IsPlain(t, type, p)
  BY <1>1, PlainShape
<1> QED
  BY <1>2 DEF IsPlain, Struct, Type, Base, ScalarKinds

LEMMA PtrShape ==
  ASSUME NEW t
  PROVE  /\ Ptr(t).kind = "ptr" /\ Base(Ptr(t)) = t
         /\ SliceOf(t).kind = "slice" /\ SliceOf(t).elem[1] = t /\ Base(SliceOf(t)) = SliceOf(t)
BY DEF Ptr, SliceOf, Base, Type

\* What a slice holds, with or without a pointer.
LEMMA SliceTypesShape ==
  ASSUME NEW t \in SliceTypes
  PROVE  /\ t.kind = "slice" /\ t = SliceOf(t.elem[1])
         /\ Base(t) = t /\ Base(t.elem[1]) \in PlainTypes
         /\ t.elem[1] = Base(t.elem[1]) \/ t.elem[1] = Ptr(Base(t.elem[1]))
<1>1. PICK u \in PlainTypes : t = SliceOf(u) \/ t = SliceOf(Ptr(u))
  BY DEF SliceTypes
<1>2. Base(u) = u
  BY PlainTypesShape
<1>3. CASE t = SliceOf(u)
  BY <1>2, <1>3, PtrShape
<1>4. CASE t = SliceOf(Ptr(u))
  BY <1>2, <1>4, PtrShape
<1> QED
  BY <1>1, <1>3, <1>4

\* A Go type is plain, a slice, or a pointer to one of them.
LEMMA GoTypesShape ==
  ASSUME NEW t \in GoTypes
  PROVE  /\ Base(t) \in PlainTypes \cup SliceTypes
         /\ t \in PlainTypes \cup SliceTypes \/ t = Ptr(Base(t))
         /\ t.kind = "ptr" <=> t \notin PlainTypes \cup SliceTypes
         /\ t.kind = "ptr" => t = Ptr(Base(t))
         /\ t.kind # "ptr" => Base(t) = t
<1>1. \A u \in PlainTypes \cup SliceTypes : u.kind # "ptr" /\ Base(u) = u
  BY PlainTypesShape, SliceTypesShape DEF ScalarKinds
<1>2. CASE t \in PlainTypes \cup SliceTypes
  BY <1>1, <1>2
<1>3. CASE t \in {Ptr(u) : u \in PlainTypes \cup SliceTypes}
  <2>1. PICK u \in PlainTypes \cup SliceTypes : t = Ptr(u)
    BY <1>3
  <2>2. t.kind = "ptr" /\ Base(t) = u
    BY <2>1, PtrShape
  <2> QED
    BY <1>1, <2>1, <2>2
<1> QED
  BY <1>2, <1>3 DEF GoTypes

\* The Go type of a field, but for the pointer of an optional one.
Bare(f, p) == IF f.isArray THEN SliceOf(Plain(f.type, p)) ELSE Plain(f.type, p)

\* The parts of an IDL field, and the field of an array's elements.
LEMMA FieldParts ==
  ASSUME NEW f \in IdlFields
  PROVE  /\ f.type \in IdlTypes /\ f.optional \in BOOLEAN /\ f.isArray \in BOOLEAN /\ f.name \in Keys
         /\ Element(f) \in IdlFields /\ Element(f).type = f.type
         /\ Element(f).optional = f.optional /\ Element(f).isArray = FALSE
BY DEF IdlFields, Element

\* The fields of a struct are IDL fields with names of their own.
LEMMA StructFields ==
  ASSUME NEW s \in DOMAIN AllFields
  PROVE  /\ s \in IdlTypes /\ s \notin DOMAIN Enum /\ s \notin {"string", "int", "float", "bool"}
         /\ AllFields[s] \in Seq(IdlFields)
         /\ \A i \in DOMAIN AllFields[s] : AllFields[s][i] \in IdlFields
         /\ \A x, y \in DOMAIN AllFields[s] : AllFields[s][x].name = AllFields[s][y].name => x = y
<1>1. AllFields[s] \in Seq(IdlFields)
  BY GoValuesAssumption
<1>2. \A i \in DOMAIN AllFields[s] : AllFields[s][i] \in IdlFields
  BY <1>1
<1>3. s \notin DOMAIN Enum /\ s \notin {"string", "int", "float", "bool"}
  BY GoValuesAssumption, Domains
<1>4. \A x, y \in DOMAIN AllFields[s] : AllFields[s][x].name = AllFields[s][y].name => x = y
  BY GoValuesAssumption
<1> QED
  BY <1>1, <1>2, <1>3, <1>4 DEF IdlTypes

LEMMA PlainIsGoType ==
  ASSUME NEW type \in IdlTypes, NEW p \in BOOLEAN
  PROVE  /\ Plain(type, p) \in PlainTypes /\ Ptr(Plain(type, p)) \in GoTypes
         /\ SliceOf(Plain(type, p)) \in SliceTypes /\ SliceOf(Ptr(Plain(type, p))) \in SliceTypes
         /\ Ptr(SliceOf(Plain(type, p))) \in GoTypes
         /\ PlainTypes \subseteq GoTypes /\ SliceTypes \subseteq GoTypes
<1>1. Plain(type, p) \in PlainTypes
  BY DEF PlainTypes
<1>2. SliceOf(Plain(type, p)) \in SliceTypes /\ SliceOf(Ptr(Plain(type, p))) \in SliceTypes
  BY <1>1 DEF SliceTypes
<1> QED
  BY <1>1, <1>2 DEF GoTypes

\* The Go type of a field is a pointer exactly when the code says so.
LEMMA GoTypeShape ==
  ASSUME NEW f \in IdlFields, NEW p \in BOOLEAN
  PROVE  /\ GoType(f, p) \in GoTypes /\ Bare(f, p) \in GoTypes
         /\ Bare(f, p).kind # "ptr" /\ Base(Bare(f, p)) = Bare(f, p)
         /\ Base(GoType(f, p)) = Bare(f, p)
         /\ GoType(f, p) = Bare(f, p) \/ GoType(f, p) = Ptr(Bare(f, p))
         /\ GoType(f, p) = Ptr(Bare(f, p)) <=>
              f.optional /\ (p \/ (f.type \in DOMAIN AllFields /\ ~f.isArray))
<1> DEFINE u == Plain(f.type, p)
<1>0. f.type \in IdlTypes
  BY FieldParts
<1>1. u \in PlainTypes /\ IsPlain(u, f.type, p)
  BY <1>0, PlainShape, PlainIsGoType
<1>2. u.kind = "struct" <=> f.type \in DOMAIN AllFields
  BY <1>1 DEF IsPlain
<1>3. Base(u) = u /\ u.kind # "ptr"
  BY <1>1, PlainTypesShape DEF ScalarKinds
<1>4. u \in GoTypes /\ SliceOf(u) \in GoTypes /\ Ptr(u) \in GoTypes /\ Ptr(SliceOf(u)) \in GoTypes
  BY <1>0, PlainIsGoType
<1>5. GoType(f, p) = IF f.optional /\ (p \/ (u.kind = "struct" /\ ~f.isArray)) THEN Ptr(Bare(f, p)) ELSE Bare(f, p)
  BY DEF GoType, Bare
<1>6. Bare(f, p) = IF f.isArray THEN SliceOf(u) ELSE u
  BY DEF Bare
<1> HIDE DEF u
<1>7. Bare(f, p) \in GoTypes /\ Ptr(Bare(f, p)) \in GoTypes /\ Bare(f, p).kind # "ptr" /\ Base(Bare(f, p)) = Bare(f, p)
  BY <1>3, <1>4, <1>6, PtrShape
<1>8. Base(Ptr(Bare(f, p))) = Bare(f, p) /\ Ptr(Bare(f, p)).kind = "ptr"
  BY PtrShape
<1> QED
  BY <1>2, <1>5, <1>7, <1>8

-----------------------------------------------------------------------------
(* How high the values of a type are that have no more than it asks for.   *)
IsNested(high) ==
  \A s \in DOMAIN AllFields : \A x \in DOMAIN AllFields[s] :
    AllFields[s][x].type \in DOMAIN AllFields => high[AllFields[s][x].type] + 1 < high[s]
High == CHOOSE high \in [DOMAIN AllFields -> 3..(Depth - 1)] : IsNested(high)

\* Structs contain lower ones only.
LEMMA HighIs == High \in [DOMAIN AllFields -> 3..(Depth - 1)] /\ IsNested(High)
<1>1. \E high \in [DOMAIN AllFields -> 3..(Depth - 1)] : IsNested(high)
  BY GoValuesAssumption DEF IsNested
<1> QED
  BY <1>1 DEF High

PlainHeight(t) == IF t.kind = "struct" THEN High[t.name] ELSE 1
TypeHeight(t) ==
  IF Base(t).kind = "slice" THEN PlainHeight(Base(Base(t).elem[1])) + 1 ELSE PlainHeight(Base(t))
FieldHeight(f) ==
  (IF f.type \in DOMAIN AllFields THEN High[f.type] ELSE 1) + (IF f.isArray THEN 1 ELSE 0)

LEMMA PlainHeightIs ==
  ASSUME NEW t \in PlainTypes
  PROVE  PlainHeight(t) \in 1..(Depth - 1) /\ TypeHeight(t) = PlainHeight(t)
<1>1. t.kind = "struct" => t.name \in DOMAIN AllFields
  BY PlainTypesShape
<1>2. Base(t) = t /\ t.kind # "slice"
  BY PlainTypesShape DEF ScalarKinds
<1>3. PlainHeight(t) \in 1..(Depth - 1)
  BY <1>1, HighIs, DepthNat DEF PlainHeight
<1> QED
  BY <1>2, <1>3 DEF TypeHeight

\* A slice holds values of a type that is lower.
LEMMA SliceElem ==
  ASSUME NEW t \in GoTypes, t.kind = "slice"
  PROVE  /\ t \in SliceTypes /\ t.elem[1] \in GoTypes /\ t.elem[1].kind # "slice"
         /\ TypeHeight(t) = TypeHeight(t.elem[1]) + 1
<1>1. t \in SliceTypes
  <2>1. t \in PlainTypes \cup SliceTypes
    BY GoTypesShape
  <2> QED
    BY <2>1, PlainTypesShape DEF ScalarKinds
<1> DEFINE e == t.elem[1]
<1>2. Base(e) \in PlainTypes /\ (e = Base(e) \/ e = Ptr(Base(e))) /\ Base(t) = t
  BY <1>1, SliceTypesShape
<1>3. TypeHeight(t) = PlainHeight(Base(e)) + 1
  BY <1>2 DEF TypeHeight
<1> HIDE DEF e
<1>4. Base(e).kind # "slice" /\ e.kind # "slice"
  <2>1. Base(e).kind # "slice"
    BY <1>2, PlainTypesShape DEF ScalarKinds
  <2>2. Ptr(Base(e)).kind = "ptr"
    BY PtrShape
  <2> QED
    BY <1>2, <2>1, <2>2
<1>5. TypeHeight(e) = PlainHeight(Base(e))
  BY <1>4 DEF TypeHeight
<1>6. e \in GoTypes
  BY <1>2 DEF GoTypes
<1> QED
  BY <1>1, <1>3, <1>4, <1>5, <1>6 DEF e

LEMMA TypeHeightIs ==
  ASSUME NEW t \in GoTypes
  PROVE  TypeHeight(t) \in 1..Depth /\ TypeHeight(Base(t)) = TypeHeight(t) /\ Base(t) \in GoTypes
<1>1. Base(t) \in PlainTypes \cup SliceTypes
  BY GoTypesShape
<1>2. Base(Base(t)) = Base(t)
  BY <1>1, PlainTypesShape, SliceTypesShape
<1>3. TypeHeight(Base(t)) = TypeHeight(t)
  BY <1>2 DEF TypeHeight
<1>4. CASE Base(t) \in PlainTypes
  <2>1. TypeHeight(Base(t)) \in 1..(Depth - 1)
    BY <1>4, PlainHeightIs
  <2> QED
    BY <1>3, <1>4, <2>1, DepthNat DEF GoTypes
<1>5. CASE Base(t) \in SliceTypes
  <2> DEFINE u == Base(Base(t).elem[1])
  <2>1. u \in PlainTypes /\ Base(t).kind = "slice"
    BY <1>5, SliceTypesShape
  <2>2. TypeHeight(t) = PlainHeight(u) + 1
    BY <2>1 DEF TypeHeight
  <2> HIDE DEF u
  <2>3. PlainHeight(u) \in 1..(Depth - 1)
    BY <2>1, PlainHeightIs
  <2> QED
    BY <1>3, <1>5, <2>2, <2>3, DepthNat DEF GoTypes
<1> QED
  BY <1>1, <1>4, <1>5

LEMMA FieldHeightIs ==
  ASSUME NEW f \in IdlFields, NEW p \in BOOLEAN
  PROVE  /\ FieldHeight(f) \in 1..Depth
         /\ TypeHeight(GoType(f, p)) = FieldHeight(f) /\ TypeHeight(Bare(f, p)) = FieldHeight(f)
         /\ f.isArray => FieldHeight(Element(f)) + 1 = FieldHeight(f)
<1> DEFINE u == Plain(f.type, p)
<1>0. f.type \in IdlTypes
  BY FieldParts
<1>1. u \in PlainTypes /\ IsPlain(u, f.type, p)
  BY <1>0, PlainShape, PlainIsGoType
<1>2. PlainHeight(u) = IF f.type \in DOMAIN AllFields THEN High[f.type] ELSE 1
  BY <1>1 DEF IsPlain, PlainHeight, Struct, Type
<1>3. /\ Bare(f, p) = IF f.isArray THEN SliceOf(u) ELSE u
      /\ f.isArray \in BOOLEAN
  BY FieldParts DEF Bare
<1>4. Bare(f, p) \in GoTypes /\ Base(Bare(f, p)) = Bare(f, p) /\ Base(GoType(f, p)) = Bare(f, p)
      /\ GoType(f, p) \in GoTypes
  BY GoTypeShape
<1> HIDE DEF u
<1>5. PlainHeight(u) \in 1..(Depth - 1) /\ TypeHeight(u) = PlainHeight(u) /\ Base(u) = u
  BY <1>1, PlainHeightIs, PlainTypesShape
<1>6. TypeHeight(Bare(f, p)) = FieldHeight(f)
  <2>1. CASE f.isArray
    <3>1. Base(SliceOf(u)).kind = "slice" /\ Base(Base(SliceOf(u)).elem[1]) = u
      BY <1>5, PtrShape
    <3>2. TypeHeight(SliceOf(u)) = PlainHeight(u) + 1
      BY <3>1 DEF TypeHeight
    <3> QED
      BY <1>2, <1>3, <2>1, <3>2 DEF FieldHeight
  <2>2. CASE ~f.isArray
    <3>1. PlainHeight(u) \in Nat
      BY <1>5, DepthNat
    <3> QED
      BY <1>2, <1>3, <1>5, <2>2, <3>1 DEF FieldHeight
  <2> QED
    BY <2>1, <2>2
<1>7. TypeHeight(GoType(f, p)) = TypeHeight(Bare(f, p))
  BY <1>4, TypeHeightIs
<1>8. FieldHeight(f) \in 1..Depth
  BY <1>4, <1>6, TypeHeightIs
<1>9. f.isArray => FieldHeight(Element(f)) + 1 = FieldHeight(f)
  <2>1. PlainHeight(u) \in Nat
    BY <1>5, DepthNat
  <2>2. Element(f).type = f.type /\ Element(f).isArray = FALSE
    BY FieldParts
  <2>3. FieldHeight(Element(f)) = PlainHeight(u) + 0
    BY <1>2, <2>2 DEF FieldHeight
  <2>4. f.isArray => FieldHeight(f) = PlainHeight(u) + 1
    BY <1>2 DEF FieldHeight
  <2> QED
    BY <2>1, <2>3, <2>4
<1> QED
  BY <1>6, <1>7, <1>8, <1>9

LEMMA FieldHeightType ==
  ASSUME NEW f \in IdlFields
  PROVE  /\ FieldHeight(f) \in 1..Depth
         /\ f.isArray => FieldHeight(Element(f)) + 1 = FieldHeight(f)
<1>1. TRUE \in BOOLEAN
  OBVIOUS
<1>2. TypeHeight(GoType(f, TRUE)) = FieldHeight(f) /\ FieldHeight(f) \in 1..Depth
      /\ (f.isArray => FieldHeight(Element(f)) + 1 = FieldHeight(f))
  BY <1>1, FieldHeightIs
<1> QED
  BY <1>2

\* A field of a struct is lower than the struct.
LEMMA FieldLower ==
  ASSUME NEW s \in DOMAIN AllFields, NEW i \in DOMAIN AllFields[s]
  PROVE  FieldHeight(AllFields[s][i]) < High[s] /\ High[s] \in 3..(Depth - 1)
<1> DEFINE f == AllFields[s][i]
<1>1. f \in IdlFields
  BY StructFields
<1>2. High[s] \in 3..(Depth - 1)
  BY HighIs
<1>3. f.type \in DOMAIN AllFields => High[f.type] + 1 < High[s] /\ High[f.type] \in 3..(Depth - 1)
  BY HighIs DEF IsNested
<1> HIDE DEF f
<1>4. FieldHeight(f) < High[s]
  BY <1>2, <1>3, DepthNat DEF FieldHeight
<1> QED
  BY <1>2, <1>4 DEF f

\* The fields of a struct type are lower than it.
LEMMA FieldTypeIs ==
  ASSUME NEW t \in GoTypes, t.kind = "struct", NEW i \in DOMAIN AllFields[t.name]
  PROVE  /\ t.name \in DOMAIN AllFields /\ t.toPtr \in BOOLEAN /\ t \in PlainTypes
         /\ FieldType(t, i) = GoType(AllFields[t.name][i], t.toPtr)
         /\ FieldType(t, i) \in GoTypes
         /\ TypeHeight(FieldType(t, i)) < TypeHeight(t)
<1>1. t \in PlainTypes
  <2>1. t \in PlainTypes \cup SliceTypes
    BY GoTypesShape
  <2> QED
    BY <2>1, SliceTypesShape
<1>2. t.name \in DOMAIN AllFields /\ t.toPtr \in BOOLEAN
  BY <1>1, PlainTypesShape
<1>3. FieldType(t, i) = GoType(AllFields[t.name][i], t.toPtr)
  BY DEF FieldType
<1>4. AllFields[t.name][i] \in IdlFields
  BY <1>2, StructFields
<1>5. FieldType(t, i) \in GoTypes /\ TypeHeight(FieldType(t, i)) = FieldHeight(AllFields[t.name][i])
  BY <1>2, <1>3, <1>4, GoTypeShape, FieldHeightIs
<1>6. TypeHeight(t) = High[t.name]
  BY <1>1, PlainHeightIs DEF PlainHeight
<1> QED
  BY <1>1, <1>2, <1>3, <1>5, <1>6, FieldLower

-----------------------------------------------------------------------------
(* The recursive definitions have the equations they are written as.       *)
LEMMA MemberLower ==
  ASSUME NEW v \in Values, NEW k \in Keys, Has(v, k)
  PROVE  Member(v, k) \in Values /\ Height[Member(v, k)] < Height[v]
<1>1. v.fields[k] \in Seq(Values) /\ v.fields[k] # <<>>
  BY Parts DEF Has
<1>2. 1 \in DOMAIN v.fields[k]
  BY <1>1
<1>3. v.fields[k][1] \in Values /\ Height[v.fields[k][1]] < Height[v]
  BY <1>2, Parts
<1> QED
  BY <1>3 DEF Member

NullIn(f, v) ==
  \/ v.type = NilType
  \/ \E x \in DOMAIN v.elems : f[v.elems[x]]
  \/ \E k \in Keys : Has(v, k) /\ f[Member(v, k)]

\* The equation of HasNull.
LEMMA HasNullIs == \A v \in Values : HasNull[v] = NullIn(HasNull, v)
<1> DEFINE R == [Values -> BOOLEAN]
           step == [f \in R |-> [v \in Values |-> NullIn(f, v)]]
           Is(f) == f = [v \in Values |-> NullIn(f, v)]
<1>1. step \in [R -> R]
  BY DEF NullIn
<1>2. LooksDown(Values, BOOLEAN, Height, step)
  <2> SUFFICES ASSUME NEW v \in Values, NEW f \in R, NEW g \in R,
                      \A w \in Values : Height[w] < Height[v] => f[w] = g[w]
               PROVE  step[f][v] = step[g][v]
    BY DEF LooksDown
  <2>1. \A x \in DOMAIN v.elems : f[v.elems[x]] = g[v.elems[x]]
    BY Parts
  <2>2. \A k \in Keys : Has(v, k) => f[Member(v, k)] = g[Member(v, k)]
    BY MemberLower
  <2>3. NullIn(f, v) = NullIn(g, v)
    BY <2>1, <2>2 DEF NullIn
  <2> QED
    BY <2>3
<1>3. \E f \in R : f = step[f]
  <2>1. IsRecursion(Values, BOOLEAN, Height, step)
    <3> HIDE DEF step
    <3> QED
      BY <1>1, <1>2, HeightType DEF IsRecursion
  <2> HIDE DEF step
  <2> QED
    BY <2>1, RecursionExists
<1>4. \E f : Is(f)
  <2>1. PICK f \in R : f = step[f]
    BY <1>3
  <2>2. Is(f)
    BY <2>1
  <2> HIDE DEF Is
  <2> QED
    BY <2>2
<1>5. HasNull = CHOOSE f : Is(f)
  BY DEF HasNull, NullIn
<1>6. Is(HasNull)
  <2> HIDE DEF Is
  <2> QED
    BY <1>4, <1>5
<1> QED
  BY <1>6

JsonIn(f, v) ==
  /\ v.type \in {NilType, String, Float64, Bool, AnySlice, Map}
  /\ v.atom \in Atoms /\ (v.type \in {NilType, AnySlice, Map} => v.atom = "")
  /\ v.type # AnySlice => v.elems = <<>>
  /\ v.type # Map => v.fields = NoFields
  /\ \A x \in DOMAIN v.elems : f[v.elems[x]]
  /\ \A k \in Keys : Len(v.fields[k]) <= 1 /\ \A x \in DOMAIN v.fields[k] : f[v.fields[k][x]]

\* The equation of Json.
LEMMA JsonIs == \A v \in Values : Json[v] = JsonIn(Json, v)
<1> DEFINE R == [Values -> BOOLEAN]
           step == [f \in R |-> [v \in Values |-> JsonIn(f, v)]]
           Is(f) == f = [v \in Values |-> JsonIn(f, v)]
<1>1. step \in [R -> R]
  BY DEF JsonIn
<1>2. LooksDown(Values, BOOLEAN, Height, step)
  <2> SUFFICES ASSUME NEW v \in Values, NEW f \in R, NEW g \in R,
                      \A w \in Values : Height[w] < Height[v] => f[w] = g[w]
               PROVE  step[f][v] = step[g][v]
    BY DEF LooksDown
  <2>1. \A x \in DOMAIN v.elems : f[v.elems[x]] = g[v.elems[x]]
    BY Parts
  <2>2. \A k \in Keys : \A x \in DOMAIN v.fields[k] : f[v.fields[k][x]] = g[v.fields[k][x]]
    BY Parts
  <2>3. JsonIn(f, v) <=> JsonIn(g, v)
    <3>1. (\A x \in DOMAIN v.elems : f[v.elems[x]]) <=> (\A x \in DOMAIN v.elems : g[v.elems[x]])
      BY <2>1
    <3>2. ASSUME NEW k \in Keys
          PROVE  (\A x \in DOMAIN v.fields[k] : f[v.fields[k][x]])
                   <=> (\A x \in DOMAIN v.fields[k] : g[v.fields[k][x]])
      BY <2>2
    <3> QED
      BY <3>1, <3>2 DEF JsonIn
  <2> QED
    <3>1. JsonIn(f, v) = JsonIn(g, v)
      BY <2>3 DEF JsonIn
    <3> QED
      BY <3>1
<1>3. \E f \in R : f = step[f]
  <2>1. IsRecursion(Values, BOOLEAN, Height, step)
    <3> HIDE DEF step
    <3> QED
      BY <1>1, <1>2, HeightType DEF IsRecursion
  <2> HIDE DEF step
  <2> QED
    BY <2>1, RecursionExists
<1>4. \E f : Is(f)
  <2>1. PICK f \in R : f = step[f]
    BY <1>3
  <2>2. Is(f)
    BY <2>1
  <2> HIDE DEF Is
  <2> QED
    BY <2>2
<1>5. Json = CHOOSE f : Is(f)
  BY DEF Json, JsonIn
<1>6. Is(Json)
  <2> HIDE DEF Is
  <2> QED
    BY <1>4, <1>5
<1> QED
  BY <1>6

TypedIn(f, v) ==
  LET t == Base(v.type)
  IN IF v.atom \in {NilPtr, NilSlice} THEN v = Zero[v.type]
     ELSE /\ t.kind = "slice" =>
               \A x \in DOMAIN v.elems : v.elems[x].type = t.elem[1] /\ f[v.elems[x]]
          /\ t.kind = "struct" =>
               /\ Len(v.elems) = Len(AllFields[t.name])
               /\ \A i \in DOMAIN v.elems : v.elems[i].type = FieldType(t, i) /\ f[v.elems[i]]
          /\ t.kind \notin {"slice", "struct"} => v.elems = <<>>

\* The equation of Typed.
LEMMA TypedIs == \A v \in Values : Typed[v] = TypedIn(Typed, v)
<1> DEFINE R == [Values -> BOOLEAN]
           step == [f \in R |-> [v \in Values |-> TypedIn(f, v)]]
           Is(f) == f = [v \in Values |-> TypedIn(f, v)]
<1>1. step \in [R -> R]
  <2>1. \A f, v : TypedIn(f, v) \in BOOLEAN
    BY DEF TypedIn
  <2> QED
    BY <2>1
<1>2. LooksDown(Values, BOOLEAN, Height, step)
  <2> SUFFICES ASSUME NEW v \in Values, NEW f \in R, NEW g \in R,
                      \A w \in Values : Height[w] < Height[v] => f[w] = g[w]
               PROVE  step[f][v] = step[g][v]
    BY DEF LooksDown
  <2>1. \A x \in DOMAIN v.elems : f[v.elems[x]] = g[v.elems[x]]
    BY Parts
  <2>3. TypedIn(f, v) = TypedIn(g, v)
    BY <2>1 DEF TypedIn
  <2> QED
    BY <2>3
<1>3. \E f \in R : f = step[f]
  <2>1. IsRecursion(Values, BOOLEAN, Height, step)
    <3> HIDE DEF step
    <3> QED
      BY <1>1, <1>2, HeightType DEF IsRecursion
  <2> HIDE DEF step
  <2> QED
    BY <2>1, RecursionExists
<1>4. \E f : Is(f)
  <2>1. PICK f \in R : f = step[f]
    BY <1>3
  <2>2. Is(f)
    BY <2>1
  <2> HIDE DEF Is
  <2> QED
    BY <2>2
<1>5. Typed = CHOOSE f : Is(f)
  BY DEF Typed, TypedIn
<1>6. Is(Typed)
  <2> HIDE DEF Is
  <2> QED
    BY <1>4, <1>5
<1> QED
  BY <1>6

AdmitsIn(h, v, f) ==
  IF v.type = NilType THEN f.optional
  ELSE IF f.isArray
  THEN v.type = AnySlice /\ \A x \in DOMAIN v.elems : h[v.elems[x]][Element(f)]
  ELSE CASE f.type = "string" -> v.type = String
         [] f.type = "float" -> v.type = Float64
         [] f.type = "int" -> v.type = Float64 /\ v.atom \notin Fractional
         [] f.type = "bool" -> v.type = Bool
         [] f.type \in DOMAIN Enum -> v.type = String /\ Contains(Enum[f.type], v.atom)
         [] OTHER ->
              v.type = Map /\ \A g \in ToSet(AllFields[f.type]) :
                IF Has(v, g.name) THEN h[Member(v, g.name)][g] ELSE g.optional

\* What the last case is about, and its fields.
LEMMA FieldsOf ==
  ASSUME NEW s \in DOMAIN AllFields
  PROVE  /\ ToSet(AllFields[s]) = {AllFields[s][i] : i \in DOMAIN AllFields[s]}
         /\ \A g \in ToSet(AllFields[s]) : g \in IdlFields /\ g.name \in Keys /\ g.optional \in BOOLEAN
<1>1. ToSet(AllFields[s]) = {AllFields[s][i] : i \in DOMAIN AllFields[s]}
  BY DEF ToSet
<1>2. ASSUME NEW g \in ToSet(AllFields[s])
      PROVE  g \in IdlFields /\ g.name \in Keys /\ g.optional \in BOOLEAN
  <2>1. PICK i \in DOMAIN AllFields[s] : g = AllFields[s][i]
    BY <1>1
  <2>2. g \in IdlFields
    BY <2>1, StructFields
  <2> QED
    BY <2>2, FieldParts
<1> QED
  BY <1>1, <1>2

\* The equation of Admits.
LEMMA AdmitsIs == \A v \in Values : \A f \in IdlFields : Admits[v][f] = AdmitsIn(Admits, v, f)
<1> DEFINE B == [IdlFields -> BOOLEAN]
           R == [Values -> B]
           step == [h \in R |-> [v \in Values |-> [f \in IdlFields |-> AdmitsIn(h, v, f)]]]
           Is(h) == h = [v \in Values |-> [f \in IdlFields |-> AdmitsIn(h, v, f)]]
<1>0. ASSUME NEW f \in IdlFields, NEW v \in Values
      PROVE  \/ v.type = NilType \/ f.isArray \/ f.type \in {"string", "float", "int", "bool"}
             \/ f.type \in DOMAIN Enum \/ f.type \in DOMAIN AllFields
  BY FieldParts, Domains DEF IdlTypes
<1>1. step \in [R -> R]
  <2>1. ASSUME NEW h \in R, NEW v \in Values, NEW f \in IdlFields PROVE AdmitsIn(h, v, f) \in BOOLEAN
    BY FieldParts DEF AdmitsIn
  <2> QED
    BY <2>1
<1>2. LooksDown(Values, B, Height, step)
  <2> SUFFICES ASSUME NEW v \in Values, NEW f \in R, NEW g \in R,
                      \A w \in Values : Height[w] < Height[v] => f[w] = g[w]
               PROVE  step[f][v] = step[g][v]
    BY DEF LooksDown
  <2>1. \A x \in DOMAIN v.elems : f[v.elems[x]] = g[v.elems[x]]
    BY Parts
  <2>2. \A k \in Keys : Has(v, k) => f[Member(v, k)] = g[Member(v, k)]
    BY MemberLower
  <2>3. ASSUME NEW fld \in IdlFields PROVE AdmitsIn(f, v, fld) = AdmitsIn(g, v, fld)
    <3>1. CASE v.type = NilType \/ fld.isArray \/ fld.type \in {"string", "float", "int", "bool"}
               \/ fld.type \in DOMAIN Enum
      BY <2>1, <3>1 DEF AdmitsIn
    <3>2. CASE fld.type \in DOMAIN AllFields
      <4>1. \A m \in ToSet(AllFields[fld.type]) : m.name \in Keys
        BY <3>2, FieldsOf
      <4> QED
        BY <2>1, <2>2, <4>1 DEF AdmitsIn
    <3> QED
      BY <1>0, <3>1, <3>2
  <2> QED
    BY <2>3
<1>3. \E h \in R : h = step[h]
  <2>0. B # {}
    <3>1. [f \in IdlFields |-> TRUE] \in B
      OBVIOUS
    <3> QED
      BY <3>1
  <2>1. IsRecursion(Values, B, Height, step)
    <3> HIDE DEF step, B
    <3> QED
      BY <1>1, <1>2, <2>0, HeightType DEF IsRecursion
  <2> HIDE DEF step, B
  <2> QED
    BY <2>1, RecursionExists
<1>4. \E h : Is(h)
  <2>1. PICK h \in R : h = step[h]
    BY <1>3
  <2>2. Is(h)
    BY <2>1
  <2> HIDE DEF Is
  <2> QED
    BY <2>2
<1>5. Admits = CHOOSE h : Is(h)
  BY DEF Admits, AdmitsIn
<1>6. Is(Admits)
  <2> HIDE DEF Is
  <2> QED
    BY <1>4, <1>5
<1> QED
  BY <1>6

MeansIn(f, g, v) ==
  LET t == Base(g.type)
      member(k) == IF Has(v, k) THEN Member(v, k) ELSE Nil
  IN IF v.type = NilType THEN g = Zero[g.type]
     ELSE /\ g.atom \notin {NilPtr, NilSlice}
          /\ t.kind = "slice" =>
               /\ Len(g.elems) = Len(v.elems)
               /\ \A x \in DOMAIN v.elems : f[g.elems[x]][v.elems[x]]
          /\ t.kind = "struct" =>
               \A i \in DOMAIN g.elems : f[g.elems[i]][member(AllFields[t.name][i].name)]
          /\ t.kind \notin {"slice", "struct"} => g.atom = v.atom

\* The equation of Means.
LEMMA MeansIs == \A g, v \in Values : Means[g][v] = MeansIn(Means, g, v)
<1> DEFINE B == [Values -> BOOLEAN]
           R == [Values -> B]
           step == [f \in R |-> [g \in Values |-> [v \in Values |-> MeansIn(f, g, v)]]]
           Is(f) == f = [g \in Values |-> [v \in Values |-> MeansIn(f, g, v)]]
<1>1. step \in [R -> R]
  <2>1. ASSUME NEW f \in R, NEW g \in Values, NEW v \in Values PROVE MeansIn(f, g, v) \in BOOLEAN
    BY DEF MeansIn
  <2> QED
    BY <2>1
<1>2. LooksDown(Values, B, Height, step)
  <2> SUFFICES ASSUME NEW v \in Values, NEW f \in R, NEW g \in R,
                      \A w \in Values : Height[w] < Height[v] => f[w] = g[w]
               PROVE  step[f][v] = step[g][v]
    BY DEF LooksDown
  <2>1. \A x \in DOMAIN v.elems : f[v.elems[x]] = g[v.elems[x]]
    BY Parts
  <2>3. ASSUME NEW w \in Values PROVE MeansIn(f, v, w) = MeansIn(g, v, w)
    <3>1. v.elems \in Seq(Values) /\ w.elems \in Seq(Values)
      BY Parts
    <3>2. Len(v.elems) = Len(w.elems) => DOMAIN w.elems = DOMAIN v.elems
      BY <3>1
    <3> QED
      BY <2>1, <3>2 DEF MeansIn
  <2> QED
    BY <2>3
<1>3. \E h \in R : h = step[h]
  <2>0. B # {}
    <3>1. [f \in Values |-> TRUE] \in B
      OBVIOUS
    <3> QED
      BY <3>1
  <2>1. IsRecursion(Values, B, Height, step)
    <3> HIDE DEF step, B
    <3> QED
      BY <1>1, <1>2, <2>0, HeightType DEF IsRecursion
  <2> HIDE DEF step, B
  <2> QED
    BY <2>1, RecursionExists
<1>4. \E h : Is(h)
  <2>1. PICK h \in R : h = step[h]
    BY <1>3
  <2>2. Is(h)
    BY <2>1
  <2> HIDE DEF Is
  <2> QED
    BY <2>2
<1>5. Means = CHOOSE h : Is(h)
  BY DEF Means, MeansIn
<1>6. Is(Means)
  <2> HIDE DEF Is
  <2> QED
    BY <1>4, <1>5
<1> QED
  BY <1>6

-----------------------------------------------------------------------------
(* Zero values, what AddHandler tries, and what is marshalled: their equations.*)
ZeroOf(f, t) ==
  CASE t.kind = "struct" -> Compound(t, [i \in DOMAIN AllFields[t.name] |-> f[FieldType(t, i)]])
    [] t.kind = "slice"  -> Atom(t, NilSlice)
    [] t.kind = "ptr"    -> Atom(t, NilPtr)
    [] OTHER             -> Atom(t, ZeroAtom[t.kind])

\* The atoms that the code names.
LEMMA AtomsIn ==
  /\ {"", "testval", "99", "10.3", "true", "0", "false"} \subseteq Atoms
  /\ NilSlice \notin Atoms /\ NilPtr \notin Atoms /\ NilSlice # NilPtr
  /\ ZeroAtom["string"] = "" /\ ZeroAtom["int64"] = "0" /\ ZeroAtom["float64"] = "0"
  /\ ZeroAtom["bool"] = "false" /\ \A k \in ScalarKinds : ZeroAtom[k] \in Atoms
<1>1. /\ ZeroAtom["string"] = "" /\ ZeroAtom["int64"] = "0" /\ ZeroAtom["float64"] = "0"
      /\ ZeroAtom["bool"] = "false"
  BY DEF ZeroAtom
<1>2. \A k \in ScalarKinds : ZeroAtom[k] \in Atoms
  BY Domains, GoValuesAssumption DEF ScalarKinds
<1>3. NilSlice # NilPtr
  BY DEF NilSlice, NilPtr
<1> QED
  BY <1>1, <1>2, <1>3, GoValuesAssumption DEF ScalarKinds

\* A compound value of lower parts.
LEMMA CompoundIn ==
  ASSUME NEW n \in 1..Depth, NEW t \in ValueTypes, NEW s \in Seq(ValuesTo[n - 1])
  PROVE  Compound(t, s) \in ValuesTo[n] /\ Compound(t, s) \in Values
<1>1. NoFields \in [Keys -> Seq(ValuesTo[n - 1])]
  BY NoFieldsType
<1>2. "" \in AllAtoms
  BY AtomsIn DEF AllAtoms
<1>3. Compound(t, s) \in ValuesTo[n]
  BY <1>1, <1>2, Build DEF Compound
<1> QED
  BY <1>3, ValuesSubset, DepthNat

LEMMA NilIn == \A n \in 1..Depth : Nil \in ValuesTo[n] /\ Nil \in Values
<1> SUFFICES ASSUME NEW n \in 1..Depth PROVE Nil \in ValuesTo[n] /\ Nil \in Values
  OBVIOUS
<1>1. <<>> \in Seq(ValuesTo[n - 1]) /\ NilType \in ValueTypes
  BY DEF ValueTypes
<1> QED
  BY <1>1, CompoundIn DEF Nil

LEMMA ZeroIn ==
  ASSUME NEW f, NEW t \in GoTypes,
         \A u \in GoTypes : TypeHeight(u) < TypeHeight(t) => f[u] \in ValuesTo[TypeHeight(u)]
  PROVE  ZeroOf(f, t) \in ValuesTo[TypeHeight(t)] /\ ZeroOf(f, t) \in Values
<1> DEFINE n == TypeHeight(t)
<1>1. n \in 1..Depth
  BY TypeHeightIs
<1>2. t \in ValueTypes
  BY DEF ValueTypes
<1>3. t.kind \in ScalarKinds \cup {"struct", "slice", "ptr"}
  BY GoTypesShape, PlainTypesShape, SliceTypesShape
<1>4. CASE t.kind = "struct"
  <2> DEFINE s == [i \in DOMAIN AllFields[t.name] |-> f[FieldType(t, i)]]
  <2>0. t \in PlainTypes \cup SliceTypes
    BY <1>4, GoTypesShape
  <2>a. t.name \in DOMAIN AllFields
    BY <1>4, <2>0, PlainTypesShape, SliceTypesShape
  <2>1. ASSUME NEW i \in DOMAIN AllFields[t.name] PROVE f[FieldType(t, i)] \in ValuesTo[n - 1]
    <3> DEFINE u == FieldType(t, i)
    <3>1. u \in GoTypes /\ TypeHeight(u) < n /\ TypeHeight(u) \in 1..Depth
      BY <1>4, FieldTypeIs, TypeHeightIs
    <3> HIDE DEF u
    <3>2. f[u] \in ValuesTo[TypeHeight(u)]
      BY <3>1
    <3>3. TypeHeight(u) \in 0..Depth /\ n - 1 \in 0..Depth /\ TypeHeight(u) <= n - 1
      <4> HIDE DEF n
      <4> QED
        BY <1>1, <3>1, DepthNat
    <3>4. ValuesTo[TypeHeight(u)] \subseteq ValuesTo[n - 1]
      BY <3>3, ValuesToMonotone
    <3> QED
      BY <3>2, <3>4 DEF u
  <2>2. AllFields[t.name] \in Seq(IdlFields)
    BY <2>a, StructFields
  <2>3. s \in Seq(ValuesTo[n - 1])
    <3> HIDE DEF n
    <3> QED
      BY <2>1, <2>2
  <2>4. ZeroOf(f, t) = Compound(t, s)
    BY <1>4 DEF ZeroOf
  <2> HIDE DEF s
  <2> QED
    BY <1>1, <1>2, <2>3, <2>4, CompoundIn
<1>5. CASE t.kind # "struct"
  <2>1. PICK a \in AllAtoms : ZeroOf(f, t) = Atom(t, a)
    BY <1>3, <1>5, AtomsIn DEF ZeroOf, AllAtoms, ScalarKinds
  <2> QED
    BY <1>1, <1>2, <2>1, FlatValue
<1> QED
  BY <1>4, <1>5

TypeHeights == [t \in GoTypes |-> TypeHeight(t)]

LEMMA TypeHeightsIs ==
  /\ TypeHeights \in [GoTypes -> Nat]
  /\ \A t \in GoTypes : TypeHeights[t] = TypeHeight(t)
<1>1. \A t \in GoTypes : TypeHeight(t) \in Nat
  BY TypeHeightIs, DepthNat
<1> QED
  BY <1>1 DEF TypeHeights

IsZero(f) == f = [t \in GoTypes |-> ZeroOf(f, t)]

LEMMA ZeroTyped ==
  ASSUME NEW f, \A t \in GoTypes : f[t] = IF ZeroOf(f, t) \in Values THEN ZeroOf(f, t) ELSE Nil
  PROVE  \A t \in GoTypes : f[t] \in ValuesTo[TypeHeight(t)] /\ ZeroOf(f, t) \in Values
<1> DEFINE T == {t \in GoTypes : f[t] \in ValuesTo[TypeHeight(t)] /\ ZeroOf(f, t) \in Values}
<1>1. ASSUME NEW t \in GoTypes, \A u \in GoTypes : TypeHeights[u] < TypeHeights[t] => u \in T
      PROVE  t \in T
  <2>1. \A u \in GoTypes : TypeHeight(u) < TypeHeight(t) => f[u] \in ValuesTo[TypeHeight(u)]
    BY <1>1, TypeHeightsIs
  <2>2. ZeroOf(f, t) \in ValuesTo[TypeHeight(t)] /\ ZeroOf(f, t) \in Values
    BY <2>1, ZeroIn
  <2> QED
    BY <2>2
<1>2. GoTypes \subseteq T
  <2> HIDE DEF T
  <2> QED
    BY <1>1, TypeHeightsIs, HeightInduction
<1> QED
  BY <1>2

\* The equation of Zero, and that it makes values.
LEMMA ZeroIs ==
  /\ \A t \in GoTypes : Zero[t] = ZeroOf(Zero, t)
  /\ \A t \in GoTypes : Zero[t] \in ValuesTo[TypeHeight(t)] /\ Zero[t] \in Values
<1> DEFINE R == [GoTypes -> Values]
           Out(f, t) == IF ZeroOf(f, t) \in Values THEN ZeroOf(f, t) ELSE Nil
           step == [f \in R |-> [t \in GoTypes |-> Out(f, t)]]
<1>0. Nil \in Values
  BY NilIn, DepthNat
<1>1. step \in [R -> R]
  BY <1>0
<1>2. LooksDown(GoTypes, Values, TypeHeights, step)
  <2> SUFFICES ASSUME NEW t \in GoTypes, NEW f \in R, NEW g \in R,
                      \A u \in GoTypes : TypeHeights[u] < TypeHeights[t] => f[u] = g[u]
               PROVE  step[f][t] = step[g][t]
    BY DEF LooksDown
  <2>1. ZeroOf(f, t) = ZeroOf(g, t)
    <3>1. CASE t.kind = "struct"
      <4>1. \A i \in DOMAIN AllFields[t.name] : f[FieldType(t, i)] = g[FieldType(t, i)]
        BY <3>1, FieldTypeIs, TypeHeightsIs
      <4>2. [i \in DOMAIN AllFields[t.name] |-> f[FieldType(t, i)]] = [i \in DOMAIN AllFields[t.name] |-> g[FieldType(t, i)]]
        BY <4>1
      <4> QED
        BY <3>1, <4>2 DEF ZeroOf
    <3>2. CASE t.kind # "struct"
      BY <3>2 DEF ZeroOf
    <3> QED
      BY <3>1, <3>2
  <2> QED
    BY <2>1
<1>3. \E f \in R : f = step[f]
  <2>1. IsRecursion(GoTypes, Values, TypeHeights, step)
    <3> HIDE DEF step
    <3> QED
      BY <1>0, <1>1, <1>2, TypeHeightsIs DEF IsRecursion
  <2> HIDE DEF step
  <2> QED
    BY <2>1, RecursionExists
<1>4. \E f : IsZero(f)
  <2>1. PICK f \in R : f = step[f]
    BY <1>3
  <2>2. \A t \in GoTypes : f[t] = Out(f, t)
    BY <2>1
  <2>3. \A t \in GoTypes : ZeroOf(f, t) \in Values
    BY <2>2, ZeroTyped
  <2>4. f = [t \in GoTypes |-> f[t]]
    BY <2>1
  <2>5. f = [t \in GoTypes |-> ZeroOf(f, t)]
    BY <2>2, <2>3, <2>4
  <2> QED
    BY <2>5 DEF IsZero
<1>5. Zero = CHOOSE f : IsZero(f)
  BY DEF Zero, IsZero, ZeroOf
<1>6. IsZero(Zero)
  BY <1>4, <1>5
<1>7. \A t \in GoTypes : Zero[t] = ZeroOf(Zero, t)
  <2> DEFINE z == Zero
  <2>1. z = [t \in GoTypes |-> ZeroOf(z, t)]
    BY <1>6 DEF IsZero
  <2> HIDE DEF z
  <2>2. \A t \in GoTypes : z[t] = ZeroOf(z, t)
    BY <2>1
  <2> QED
    BY <2>2 DEF z
<1>8. \A t \in GoTypes : Zero[t] \in ValuesTo[TypeHeight(t)]
  <2> DEFINE T == {t \in GoTypes : Zero[t] \in ValuesTo[TypeHeight(t)]}
  <2>1. ASSUME NEW t \in GoTypes, \A u \in GoTypes : TypeHeights[u] < TypeHeights[t] => u \in T
        PROVE  t \in T
    <3>1. \A u \in GoTypes : TypeHeight(u) < TypeHeight(t) => Zero[u] \in ValuesTo[TypeHeight(u)]
      BY <2>1, TypeHeightsIs
    <3>2. ZeroOf(Zero, t) \in ValuesTo[TypeHeight(t)]
      BY <3>1, ZeroIn
    <3> QED
      BY <1>7, <3>2
  <2>2. GoTypes \subseteq T
    <3> HIDE DEF T
    <3> QED
      BY <2>1, TypeHeightsIs, HeightInduction
  <2> QED
    BY <2>2
<1>9. \A t \in GoTypes : ZeroOf(Zero, t) \in Values
  BY <1>8, ZeroIn
<1> QED
  BY <1>7, <1>8, <1>9

LEMMA MapIn ==
  ASSUME NEW n \in 1..Depth, NEW m, \A k \in Keys : k \in DOMAIN m => m[k] \in ValuesTo[n - 1]
  PROVE  MapValue(m) \in ValuesTo[n] /\ MapValue(m) \in Values
<1> DEFINE V == ValuesTo[n - 1]
           s == [k \in Keys |-> IF k \in DOMAIN m THEN <<m[k]>> ELSE <<>>]
<1>1. s \in [Keys -> Seq(V)]
  <2> SUFFICES ASSUME NEW k \in Keys PROVE (IF k \in DOMAIN m THEN <<m[k]>> ELSE <<>>) \in Seq(V)
    OBVIOUS
  <2>1. CASE k \in DOMAIN m
    <3>1. m[k] \in V
      BY <2>1
    <3> HIDE DEF V
    <3> QED
      BY <2>1, <3>1
  <2>2. CASE k \notin DOMAIN m
    BY <2>2
  <2> QED
    BY <2>1, <2>2
<1>2. "" \in AllAtoms /\ Map \in ValueTypes /\ <<>> \in Seq(V)
  <2>1. "" \in AllAtoms /\ Map \in ValueTypes
    BY AtomsIn DEF AllAtoms, ValueTypes
  <2> QED
    BY <2>1, NoFieldsType
<1>3. MapValue(m) = Value(Map, "", <<>>, s)
  BY DEF MapValue
<1> HIDE DEF s
<1>4. MapValue(m) \in ValuesTo[n]
  BY <1>1, <1>2, <1>3, Build
<1> QED
  BY <1>4, ValuesSubset, DepthNat

\* The members of a map value.
LEMMA MapHas ==
  ASSUME NEW m, NEW k \in Keys
  PROVE  /\ Has(MapValue(m), k) <=> k \in DOMAIN m
         /\ Has(MapValue(m), k) => Member(MapValue(m), k) = m[k]
         /\ MapValue(m).type = Map /\ MapValue(m).elems = <<>> /\ MapValue(m).atom = ""
BY DEF MapValue, Value, Has, Member

FieldHeights == [f \in IdlFields |-> FieldHeight(f)]

LEMMA FieldHeightsIs ==
  /\ FieldHeights \in [IdlFields -> Nat]
  /\ \A f \in IdlFields : FieldHeights[f] = FieldHeight(f)
<1>1. \A f \in IdlFields : FieldHeight(f) \in Nat
  BY FieldHeightType, DepthNat
<1> QED
  BY <1>1 DEF FieldHeights

TestValOf(h, f) ==
  LET named(n) == CHOOSE g \in ToSet(AllFields[f.type]) : g.name = n
  IN IF f.isArray THEN Compound(AnySlice, <<h[Element(f)]>>)
     ELSE CASE f.type \in DOMAIN TestAtom  -> TestAtom[f.type]
            [] f.type \in DOMAIN AllFields ->
                 MapValue([n \in {g.name : g \in ToSet(AllFields[f.type])} |-> h[named(n)]])
            [] OTHER                       -> Atom(String, Enum[f.type][1])

\* The kinds of types an IDL field has.
LEMMA FieldKinds ==
  ASSUME NEW f \in IdlFields
  PROVE  \/ f.type \in {"string", "int", "float", "bool"} /\ f.type \notin DOMAIN Enum /\ f.type \notin DOMAIN AllFields
         \/ f.type \in DOMAIN Enum /\ f.type \notin {"string", "int", "float", "bool"} /\ f.type \notin DOMAIN AllFields
         \/ f.type \in DOMAIN AllFields /\ f.type \notin {"string", "int", "float", "bool"} /\ f.type \notin DOMAIN Enum
<1>1. f.type \in {"string", "int", "float", "bool"} \/ f.type \in DOMAIN Enum \/ f.type \in DOMAIN AllFields
  BY FieldParts, Domains DEF IdlTypes
<1>2. \A e \in DOMAIN Enum : e \notin {"string", "int", "float", "bool"}
  BY Domains, GoValuesAssumption
<1>3. \A s \in DOMAIN AllFields : s \notin {"string", "int", "float", "bool"} /\ s \notin DOMAIN Enum
  BY StructFields
<1> QED
  BY <1>1, <1>2, <1>3

\* The fields of a struct are found by their names.
LEMMA NamedField ==
  ASSUME NEW s \in DOMAIN AllFields, NEW i \in DOMAIN AllFields[s]
  PROVE  (CHOOSE g \in ToSet(AllFields[s]) : g.name = AllFields[s][i].name) = AllFields[s][i]
<1> DEFINE f == AllFields[s][i]
<1>1. f \in ToSet(AllFields[s])
  BY FieldsOf
<1>2. \A g \in ToSet(AllFields[s]) : g.name = f.name => g = f
  BY FieldsOf, StructFields
<1> HIDE DEF f
<1>3. (CHOOSE g \in ToSet(AllFields[s]) : g.name = f.name) = f
  BY <1>1, <1>2
<1> QED
  BY <1>3 DEF f

LEMMA TestValIn ==
  ASSUME NEW h, NEW f \in IdlFields,
         \A g \in IdlFields : FieldHeight(g) < FieldHeight(f) => h[g] \in ValuesTo[FieldHeight(g)]
  PROVE  TestValOf(h, f) \in ValuesTo[FieldHeight(f)] /\ TestValOf(h, f) \in Values
<1> DEFINE n == FieldHeight(f)
<1>1. n \in 1..Depth /\ n - 1 \in 0..Depth /\ f.isArray \in BOOLEAN
  <2>1. n \in 1..Depth /\ f.isArray \in BOOLEAN
    BY FieldHeightType, FieldParts
  <2> HIDE DEF n
  <2> QED
    BY <2>1, DepthNat
<1>0. ASSUME NEW g \in IdlFields, FieldHeight(g) < n PROVE h[g] \in ValuesTo[n - 1]
  <2>1. FieldHeight(g) \in 1..Depth /\ h[g] \in ValuesTo[FieldHeight(g)]
    BY <1>0, FieldHeightType
  <2>2. FieldHeight(g) \in 0..Depth /\ FieldHeight(g) <= n - 1
    <3> DEFINE l == FieldHeight(g)
    <3>1. l \in 1..Depth /\ l < n
      BY <2>1, <1>0
    <3> HIDE DEF n, l
    <3> QED
      BY <1>1, <3>1, DepthNat DEF l
  <2>3. ValuesTo[FieldHeight(g)] \subseteq ValuesTo[n - 1]
    BY <1>1, <2>2, ValuesToMonotone
  <2> QED
    BY <2>1, <2>3
<1>2. CASE f.isArray
  <2>1. Element(f) \in IdlFields /\ FieldHeight(Element(f)) < n
    <3>1. FieldHeight(Element(f)) \in 1..Depth /\ FieldHeight(Element(f)) + 1 = FieldHeight(f)
      BY <1>2, FieldParts, FieldHeightType
    <3> DEFINE l == FieldHeight(Element(f))
    <3>2. l \in 1..Depth /\ l + 1 = n
      BY <3>1
    <3> HIDE DEF l, n
    <3>3. l < n
      BY <3>2, DepthNat
    <3> QED
      BY <3>3, FieldParts DEF l
  <2>2. h[Element(f)] \in ValuesTo[n - 1]
    BY <1>0, <2>1
  <2>3. TestValOf(h, f) = Compound(AnySlice, <<h[Element(f)]>>)
    BY <1>2 DEF TestValOf
  <2>4. AnySlice \in ValueTypes /\ <<h[Element(f)]>> \in Seq(ValuesTo[n - 1])
    <3>1. AnySlice \in ValueTypes
      BY DEF ValueTypes
    <3> DEFINE e == h[Element(f)]
               V == ValuesTo[n - 1]
    <3>2. e \in V
      BY <2>2
    <3> HIDE DEF e, V
    <3>3. <<e>> \in Seq(V)
      BY <3>2
    <3> QED
      BY <3>1, <3>3 DEF e, V
  <2> HIDE DEF n
  <2> QED
    BY <1>1, <2>3, <2>4, CompoundIn DEF n
<1>3. CASE ~f.isArray /\ f.type \in {"string", "int", "float", "bool"}
  <2>1. TestValOf(h, f) = TestAtom[f.type]
    BY <1>3, FieldKinds, Domains DEF TestValOf
  <2>2. String \in GoTypes /\ Int64 \in GoTypes /\ Float64 \in GoTypes /\ Bool \in GoTypes
    <3>1. "string" \in IdlTypes /\ "int" \in IdlTypes /\ "float" \in IdlTypes /\ "bool" \in IdlTypes
      BY Domains DEF IdlTypes
    <3>2. /\ Plain("string", TRUE) \in GoTypes /\ Plain("int", TRUE) \in GoTypes
          /\ Plain("float", TRUE) \in GoTypes /\ Plain("bool", TRUE) \in GoTypes
      BY <3>1, PlainIsGoType
    <3> QED
      BY <3>1, <3>2, PlainShape DEF IsPlain
  <2>3. \A t \in GoTypes : \A a \in Atoms : Atom(t, a) \in ValuesTo[n] /\ Atom(t, a) \in Values
    BY <1>1, FlatValue DEF ValueTypes, AllAtoms
  <2>4. TestAtom[f.type] \in {Atom(String, "testval"), Atom(Int64, "99"), Atom(Float64, "10.3"), Atom(Bool, "true")}
    BY <1>3 DEF TestAtom
  <2> QED
    BY <2>1, <2>2, <2>3, <2>4, AtomsIn
<1>4. CASE ~f.isArray /\ f.type \in DOMAIN Enum
  <2>1. TestValOf(h, f) = Atom(String, Enum[f.type][1])
    BY <1>4, FieldKinds, Domains DEF TestValOf
  <2>2. Enum[f.type] \in Seq(Atoms) /\ Enum[f.type] # <<>>
    BY <1>4, GoValuesAssumption
  <2>3. Enum[f.type][1] \in Atoms
    BY <2>2
  <2>4. String \in GoTypes
    <3>1. "string" \in IdlTypes
      BY Domains DEF IdlTypes
    <3>2. Plain("string", TRUE) \in GoTypes
      BY <3>1, PlainIsGoType
    <3> QED
      BY <3>1, <3>2, PlainShape DEF IsPlain
  <2> QED
    BY <1>1, <2>1, <2>3, <2>4, FlatValue DEF ValueTypes, AllAtoms
<1>5. CASE ~f.isArray /\ f.type \in DOMAIN AllFields
  <2> DEFINE N == {g.name : g \in ToSet(AllFields[f.type])}
             m == [k \in N |-> h[CHOOSE g \in ToSet(AllFields[f.type]) : g.name = k]]
  <2>1. TestValOf(h, f) = MapValue(m)
    BY <1>5, FieldKinds, Domains DEF TestValOf
  <2>2. ASSUME NEW k \in N PROVE m[k] \in ValuesTo[n - 1]
    <3> DEFINE g == CHOOSE g \in ToSet(AllFields[f.type]) : g.name = k
    <3>1. g \in ToSet(AllFields[f.type])
      OBVIOUS
    <3>2. PICK i \in DOMAIN AllFields[f.type] : g = AllFields[f.type][i]
      BY <1>5, <3>1, FieldsOf
    <3> HIDE DEF g
    <3>3. g \in IdlFields /\ FieldHeight(g) < High[f.type]
      BY <1>5, <3>2, StructFields, FieldLower
    <3>4. FieldHeight(f) = High[f.type]
      <4>1. High[f.type] \in Nat
        BY <1>5, HighIs, DepthNat
      <4> QED
        BY <1>5, <4>1 DEF FieldHeight
    <3>5. m[k] = h[g]
      BY DEF g
    <3> HIDE DEF m
    <3> QED
      BY <1>0, <3>3, <3>4, <3>5
  <2>3. DOMAIN m = N
    OBVIOUS
  <2> HIDE DEF m, n
  <2> QED
    BY <1>1, <2>1, <2>2, <2>3, MapIn DEF n
<1> QED
  BY <1>1, <1>2, <1>3, <1>4, <1>5, FieldKinds

IsTestVal(h) == h = [f \in IdlFields |-> TestValOf(h, f)]

LEMMA TestValSame ==
  ASSUME NEW h, NEW l, NEW f \in IdlFields,
         \A g \in IdlFields : FieldHeight(g) < FieldHeight(f) => h[g] = l[g]
  PROVE  TestValOf(h, f) = TestValOf(l, f)
<1>1. CASE f.isArray
  <2>1. FieldHeight(Element(f)) \in 1..Depth /\ FieldHeight(Element(f)) + 1 = FieldHeight(f) /\ Element(f) \in IdlFields
    BY <1>1, FieldParts, FieldHeightType
  <2>2. FieldHeight(Element(f)) < FieldHeight(f)
    BY <2>1, DepthNat
  <2> QED
    BY <1>1, <2>1, <2>2 DEF TestValOf
<1>2. CASE ~f.isArray /\ f.type \notin DOMAIN AllFields
  BY <1>2 DEF TestValOf
<1>3. CASE ~f.isArray /\ f.type \in DOMAIN AllFields
  <2> DEFINE N == {g.name : g \in ToSet(AllFields[f.type])}
             named(k) == CHOOSE g \in ToSet(AllFields[f.type]) : g.name = k
  <2>1. ASSUME NEW k \in N PROVE h[named(k)] = l[named(k)]
    <3> DEFINE g == named(k)
    <3>1. g \in ToSet(AllFields[f.type])
      OBVIOUS
    <3>2. PICK i \in DOMAIN AllFields[f.type] : g = AllFields[f.type][i]
      BY <1>3, <3>1, FieldsOf
    <3> HIDE DEF g
    <3>3. g \in IdlFields /\ FieldHeight(g) < High[f.type]
      BY <1>3, <3>2, StructFields, FieldLower
    <3>4. FieldHeight(f) = High[f.type]
      <4>1. High[f.type] \in Nat
        BY <1>3, HighIs, DepthNat
      <4> QED
        BY <1>3, <4>1 DEF FieldHeight
    <3> HIDE DEF g
    <3>5. h[g] = l[g]
      BY <3>3, <3>4
    <3> QED
      BY <3>5 DEF g
  <2>2. [k \in N |-> h[named(k)]] = [k \in N |-> l[named(k)]]
    BY <2>1
  <2>3. TestValOf(h, f) = MapValue([k \in N |-> h[named(k)]])
    BY <1>3, FieldKinds, Domains DEF TestValOf
  <2>4. TestValOf(l, f) = MapValue([k \in N |-> l[named(k)]])
    BY <1>3, FieldKinds, Domains DEF TestValOf
  <2> QED
    BY <2>2, <2>3, <2>4
<1> QED
  BY <1>1, <1>2, <1>3, FieldParts

LEMMA TestValTyped ==
  ASSUME NEW h, \A f \in IdlFields : h[f] = IF TestValOf(h, f) \in Values THEN TestValOf(h, f) ELSE Nil
  PROVE  \A f \in IdlFields : h[f] \in ValuesTo[FieldHeight(f)] /\ TestValOf(h, f) \in Values
<1> DEFINE T == {f \in IdlFields : h[f] \in ValuesTo[FieldHeight(f)] /\ TestValOf(h, f) \in Values}
<1>1. ASSUME NEW f \in IdlFields, \A g \in IdlFields : FieldHeights[g] < FieldHeights[f] => g \in T
      PROVE  f \in T
  <2>1. \A g \in IdlFields : FieldHeight(g) < FieldHeight(f) => h[g] \in ValuesTo[FieldHeight(g)]
    BY <1>1, FieldHeightsIs
  <2>2. TestValOf(h, f) \in ValuesTo[FieldHeight(f)] /\ TestValOf(h, f) \in Values
    BY <2>1, TestValIn
  <2> QED
    BY <2>2
<1>2. IdlFields \subseteq T
  <2> HIDE DEF T
  <2> QED
    BY <1>1, FieldHeightsIs, HeightInduction
<1> QED
  BY <1>2

\* The equation of TestVal, and that it makes values.
LEMMA TestValIs ==
  /\ \A f \in IdlFields : TestVal[f] = TestValOf(TestVal, f)
  /\ \A f \in IdlFields : TestVal[f] \in Values
<1> DEFINE R == [IdlFields -> Values]
           Out(h, f) == IF TestValOf(h, f) \in Values THEN TestValOf(h, f) ELSE Nil
           step == [h \in R |-> [f \in IdlFields |-> Out(h, f)]]
<1>0. Nil \in Values
  BY NilIn, DepthNat
<1>1. step \in [R -> R]
  BY <1>0
<1>2. LooksDown(IdlFields, Values, FieldHeights, step)
  <2> SUFFICES ASSUME NEW f \in IdlFields, NEW h \in R, NEW l \in R,
                      \A g \in IdlFields : FieldHeights[g] < FieldHeights[f] => h[g] = l[g]
               PROVE  step[h][f] = step[l][f]
    BY DEF LooksDown
  <2>1. \A g \in IdlFields : FieldHeight(g) < FieldHeight(f) => h[g] = l[g]
    BY FieldHeightsIs
  <2>2. TestValOf(h, f) = TestValOf(l, f)
    BY <2>1, TestValSame
  <2> QED
    BY <2>2
<1>3. \E h \in R : h = step[h]
  <2>1. IsRecursion(IdlFields, Values, FieldHeights, step)
    <3> HIDE DEF step
    <3> QED
      BY <1>0, <1>1, <1>2, FieldHeightsIs DEF IsRecursion
  <2> HIDE DEF step
  <2> QED
    BY <2>1, RecursionExists
<1>4. \E h : IsTestVal(h)
  <2>1. PICK h \in R : h = step[h]
    BY <1>3
  <2>2. \A f \in IdlFields : h[f] = Out(h, f)
    BY <2>1
  <2>3. \A f \in IdlFields : TestValOf(h, f) \in Values
    BY <2>2, TestValTyped
  <2>4. h = [f \in IdlFields |-> h[f]]
    BY <2>1
  <2>5. h = [f \in IdlFields |-> TestValOf(h, f)]
    BY <2>2, <2>3, <2>4
  <2> QED
    BY <2>5 DEF IsTestVal
<1>5. TestVal = CHOOSE h : IsTestVal(h)
  BY DEF TestVal, IsTestVal, TestValOf
<1>6. IsTestVal(TestVal)
  BY <1>4, <1>5
<1>7. \A f \in IdlFields : TestVal[f] = TestValOf(TestVal, f)
  <2> DEFINE z == TestVal
  <2>1. z = [f \in IdlFields |-> TestValOf(z, f)]
    BY <1>6 DEF IsTestVal
  <2> HIDE DEF z
  <2>2. \A f \in IdlFields : z[f] = TestValOf(z, f)
    BY <2>1
  <2> QED
    BY <2>2 DEF z
<1>8. \A f \in IdlFields : TestVal[f] \in ValuesTo[FieldHeight(f)]
  <2> DEFINE T == {f \in IdlFields : TestVal[f] \in ValuesTo[FieldHeight(f)]}
  <2>1. ASSUME NEW f \in IdlFields, \A g \in IdlFields : FieldHeights[g] < FieldHeights[f] => g \in T
        PROVE  f \in T
    <3>1. \A g \in IdlFields : FieldHeight(g) < FieldHeight(f) => TestVal[g] \in ValuesTo[FieldHeight(g)]
      BY <2>1, FieldHeightsIs
    <3>2. TestValOf(TestVal, f) \in ValuesTo[FieldHeight(f)]
      BY <3>1, TestValIn
    <3> QED
      BY <1>7, <3>2
  <2>2. IdlFields \subseteq T
    <3> HIDE DEF T
    <3> QED
      BY <2>1, FieldHeightsIs, HeightInduction
  <2> QED
    BY <2>2
<1>9. \A f \in IdlFields : TestVal[f] \in Values
  <2>1. ASSUME NEW f \in IdlFields PROVE TestVal[f] \in Values
    <3>1. FieldHeight(f) \in 0..Depth
      BY FieldHeightType, DepthNat
    <3> QED
      BY <1>8, <3>1, ValuesSubset
  <2> QED
    BY <2>1
<1> QED
  BY <1>7, <1>9

DecodedOf(f, v) ==
  LET t == Base(v.type)
  IN IF v.atom \in {NilPtr, NilSlice} THEN Nil
     ELSE CASE t.kind = "slice" -> Compound(AnySlice, [x \in DOMAIN v.elems |-> f[v.elems[x]]])
            [] t.kind = "struct" -> MapValue([k \in KeptNames(v) |-> f[KeptField(v, k)]])
            [] t.kind \in {"int64", "float64"} -> Atom(Float64, v.atom)
            [] t.kind = "string" -> Atom(String, v.atom)
            [] OTHER -> Atom(t, v.atom)

LEMMA BuiltinTypes ==
  /\ String \in PlainTypes /\ Int64 \in PlainTypes /\ Float64 \in PlainTypes /\ Bool \in PlainTypes
  /\ PlainTypes \subseteq GoTypes /\ GoTypes \subseteq ValueTypes
  /\ NilType \in ValueTypes /\ AnySlice \in ValueTypes /\ Map \in ValueTypes
<1>1. "string" \in IdlTypes /\ "int" \in IdlTypes /\ "float" \in IdlTypes /\ "bool" \in IdlTypes
  BY Domains DEF IdlTypes
<1>2. /\ Plain("string", TRUE) \in PlainTypes /\ Plain("int", TRUE) \in PlainTypes
      /\ Plain("float", TRUE) \in PlainTypes /\ Plain("bool", TRUE) \in PlainTypes
  BY <1>1, PlainIsGoType
<1>3. /\ Plain("string", TRUE) = String /\ Plain("int", TRUE) = Int64
      /\ Plain("float", TRUE) = Float64 /\ Plain("bool", TRUE) = Bool
  BY <1>1, PlainShape DEF IsPlain
<1> QED
  BY <1>2, <1>3 DEF GoTypes, ValueTypes

\* The field of a name among those that are not left out.
LEMMA KeptIs ==
  ASSUME NEW v \in Values, NEW k \in KeptNames(v)
  PROVE  \E i \in Kept(v) : i \in DOMAIN v.elems /\ AllFields[Base(v.type).name][i].name = k
                            /\ KeptField(v, k) = v.elems[i]
<1> DEFINE name(i) == AllFields[Base(v.type).name][i].name
           i == CHOOSE i \in Kept(v) : name(i) = k
<1>1. i \in Kept(v) /\ name(i) = k
  BY DEF KeptNames
<1>2. KeptField(v, k) = v.elems[i]
  BY DEF KeptField
<1>3. i \in DOMAIN v.elems
  BY <1>1 DEF Kept
<1> HIDE DEF i
<1> QED
  BY <1>1, <1>2, <1>3

LEMMA DecodedIn ==
  ASSUME NEW f, NEW v \in Values,
         \A w \in Values : Height[w] < Height[v] => f[w] \in ValuesTo[Height[w]]
  PROVE  DecodedOf(f, v) \in ValuesTo[Height[v]] /\ DecodedOf(f, v) \in Values
<1> DEFINE n == Height[v]
           t == Base(v.type)
<1>1. n \in 1..Depth
  BY HeightIs
<1>2. n - 1 \in 0..Depth /\ n \in Nat
  <2> HIDE DEF n
  <2> QED
    BY <1>1, DepthNat
<1>3. \A x \in DOMAIN v.elems : f[v.elems[x]] \in ValuesTo[n - 1]
  <2> SUFFICES ASSUME NEW w \in Values, Height[w] < n PROVE f[w] \in ValuesTo[n - 1]
    BY Parts
  <2> DEFINE l == Height[w]
  <2>1. l \in 1..Depth /\ l < n
    BY HeightIs
  <2>2. f[w] \in ValuesTo[l]
    BY <2>1
  <2> HIDE DEF l, n
  <2>3. l \in 0..Depth /\ l <= n - 1
    BY <1>2, <2>1, DepthNat
  <2>4. ValuesTo[l] \subseteq ValuesTo[n - 1]
    BY <1>2, <2>3, ValuesToMonotone
  <2> QED
    BY <2>2, <2>4
<1>4. v.type \in ValueTypes /\ v.atom \in AllAtoms /\ v.elems \in Seq(Values)
  BY Parts
<1>5. t \in ValueTypes
  <2>1. v.type \in GoTypes => t \in GoTypes
    BY GoTypesShape DEF GoTypes
  <2>2. v.type \in {NilType, AnySlice, Map} => t = v.type
    <3>1. NilType.kind = "nil" /\ Map.kind = "map" /\ AnySlice.kind = "slice"
      BY DEF NilType, AnySlice, Map, SliceOf, Builtin, Type
    <3> QED
      BY <3>1 DEF Base
  <2> QED
    BY <1>4, <2>1, <2>2 DEF ValueTypes
<1>6. CASE v.atom \in {NilPtr, NilSlice}
  BY <1>1, <1>6, NilIn DEF DecodedOf
<1>7. CASE v.atom \notin {NilPtr, NilSlice} /\ t.kind = "slice"
  <2> DEFINE s == [x \in DOMAIN v.elems |-> f[v.elems[x]]]
  <2>1. DecodedOf(f, v) = Compound(AnySlice, s)
    BY <1>7 DEF DecodedOf
  <2>2. s \in Seq(ValuesTo[n - 1])
    <3> HIDE DEF n
    <3> QED
      BY <1>3, <1>4
  <2> HIDE DEF s
  <2> QED
    BY <1>1, <2>1, <2>2, BuiltinTypes, CompoundIn
<1>8. CASE v.atom \notin {NilPtr, NilSlice} /\ t.kind = "struct"
  <2> DEFINE m == [k \in KeptNames(v) |-> f[KeptField(v, k)]]
  <2>1. DecodedOf(f, v) = MapValue(m)
    BY <1>8 DEF DecodedOf
  <2>2. \A k \in DOMAIN m : m[k] \in ValuesTo[n - 1]
    <3> SUFFICES ASSUME NEW k \in KeptNames(v) PROVE f[KeptField(v, k)] \in ValuesTo[n - 1]
      OBVIOUS
    <3> QED
      BY <1>3, KeptIs
  <2> HIDE DEF m
  <2> QED
    BY <1>1, <2>1, <2>2, MapIn
<1>9. CASE v.atom \notin {NilPtr, NilSlice} /\ t.kind \notin {"slice", "struct"}
  <2>1. \E u \in {Float64, String, t} : DecodedOf(f, v) = Atom(u, v.atom)
    BY <1>9 DEF DecodedOf
  <2>2. \A u \in {Float64, String, t} : u \in ValueTypes
    BY <1>5, BuiltinTypes
  <2>3. PICK u \in ValueTypes : DecodedOf(f, v) = Atom(u, v.atom)
    BY <2>1, <2>2
  <2> QED
    BY <1>1, <1>4, <2>3, FlatValue
<1> QED
  BY <1>6, <1>7, <1>8, <1>9

IsDecoded(h) == h = [v \in Values |-> DecodedOf(h, v)]

LEMMA DecodedSame ==
  ASSUME NEW h, NEW l, NEW v \in Values,
         \A w \in Values : Height[w] < Height[v] => h[w] = l[w]
  PROVE  DecodedOf(h, v) = DecodedOf(l, v)
<1>1. \A x \in DOMAIN v.elems : h[v.elems[x]] = l[v.elems[x]]
  BY Parts
<1>2. [x \in DOMAIN v.elems |-> h[v.elems[x]]] = [x \in DOMAIN v.elems |-> l[v.elems[x]]]
  BY <1>1
<1>3. \A k \in KeptNames(v) : h[KeptField(v, k)] = l[KeptField(v, k)]
  BY <1>1, KeptIs
<1>4. [k \in KeptNames(v) |-> h[KeptField(v, k)]] = [k \in KeptNames(v) |-> l[KeptField(v, k)]]
  BY <1>3
<1> QED
  BY <1>2, <1>4 DEF DecodedOf

LEMMA DecodedTyped ==
  ASSUME NEW h, \A v \in Values : h[v] = IF DecodedOf(h, v) \in Values THEN DecodedOf(h, v) ELSE Nil
  PROVE  \A v \in Values : h[v] \in ValuesTo[Height[v]] /\ DecodedOf(h, v) \in Values
<1> DEFINE T == {v \in Values : h[v] \in ValuesTo[Height[v]] /\ DecodedOf(h, v) \in Values}
<1>1. ASSUME NEW v \in Values, \A w \in Values : Height[w] < Height[v] => w \in T
      PROVE  v \in T
  <2>1. \A w \in Values : Height[w] < Height[v] => h[w] \in ValuesTo[Height[w]]
    BY <1>1
  <2>2. DecodedOf(h, v) \in ValuesTo[Height[v]] /\ DecodedOf(h, v) \in Values
    BY <2>1, DecodedIn
  <2> QED
    BY <2>2
<1>2. Values \subseteq T
  <2> HIDE DEF T
  <2> QED
    BY <1>1, HeightType, HeightInduction
<1> QED
  BY <1>2

\* The equation of Decoded, and that it makes values.
LEMMA DecodedIs ==
  /\ \A v \in Values : Decoded[v] = DecodedOf(Decoded, v)
  /\ \A v \in Values : Decoded[v] \in Values
<1> DEFINE R == [Values -> Values]
           Out(h, v) == IF DecodedOf(h, v) \in Values THEN DecodedOf(h, v) ELSE Nil
           step == [h \in R |-> [v \in Values |-> Out(h, v)]]
<1>0. Nil \in Values
  BY NilIn, DepthNat
<1>1. step \in [R -> R]
  BY <1>0
<1>2. LooksDown(Values, Values, Height, step)
  <2> SUFFICES ASSUME NEW v \in Values, NEW h \in R, NEW l \in R,
                      \A w \in Values : Height[w] < Height[v] => h[w] = l[w]
               PROVE  step[h][v] = step[l][v]
    BY DEF LooksDown
  <2>2. DecodedOf(h, v) = DecodedOf(l, v)
    BY DecodedSame
  <2> QED
    BY <2>2
<1>3. \E h \in R : h = step[h]
  <2>1. IsRecursion(Values, Values, Height, step)
    <3> HIDE DEF step
    <3> QED
      BY <1>0, <1>1, <1>2, HeightType DEF IsRecursion
  <2> HIDE DEF step
  <2> QED
    BY <2>1, RecursionExists
<1>4. \E h : IsDecoded(h)
  <2>1. PICK h \in R : h = step[h]
    BY <1>3
  <2>2. \A v \in Values : h[v] = Out(h, v)
    BY <2>1
  <2>3. \A v \in Values : DecodedOf(h, v) \in Values
    BY <2>2, DecodedTyped
  <2>4. h = [v \in Values |-> h[v]]
    BY <2>1
  <2>5. h = [v \in Values |-> DecodedOf(h, v)]
    BY <2>2, <2>3, <2>4
  <2> QED
    BY <2>5 DEF IsDecoded
<1>5. Decoded = CHOOSE h : IsDecoded(h)
  BY DEF Decoded, IsDecoded, DecodedOf
<1>6. IsDecoded(Decoded)
  BY <1>4, <1>5
<1>7. \A v \in Values : Decoded[v] = DecodedOf(Decoded, v)
  <2> DEFINE z == Decoded
  <2>1. z = [v \in Values |-> DecodedOf(z, v)]
    BY <1>6 DEF IsDecoded
  <2> HIDE DEF z
  <2>2. \A v \in Values : z[v] = DecodedOf(z, v)
    BY <2>1
  <2> QED
    BY <2>2 DEF z
<1>8. \A v \in Values : Decoded[v] \in ValuesTo[Height[v]]
  <2> DEFINE T == {v \in Values : Decoded[v] \in ValuesTo[Height[v]]}
  <2>1. ASSUME NEW v \in Values, \A w \in Values : Height[w] < Height[v] => w \in T
        PROVE  v \in T
    <3>1. \A w \in Values : Height[w] < Height[v] => Decoded[w] \in ValuesTo[Height[w]]
      BY <2>1
    <3>2. DecodedOf(Decoded, v) \in ValuesTo[Height[v]]
      BY <3>1, DecodedIn
    <3> QED
      BY <1>7, <3>2
  <2>2. Values \subseteq T
    <3> HIDE DEF T
    <3> QED
      BY <2>1, HeightType, HeightInduction
  <2> QED
    BY <2>2
<1>9. \A v \in Values : Decoded[v] \in Values
  <2>1. ASSUME NEW v \in Values PROVE Decoded[v] \in Values
    <3>1. Height[v] \in 0..Depth
      BY HeightIs, DepthNat
    <3> QED
      BY <1>8, <3>1, ValuesSubset
  <2> QED
    BY <2>1
<1> QED
  BY <1>7, <1>9

-----------------------------------------------------------------------------
(* Outcomes, and the equation of Run.                                      *)
\* Outcomes whose values are in V.
Outcomes(V) == [status : {"ok", "error", "panic"}, val : V]

LEMMA OutcomesIn ==
  ASSUME NEW n \in 1..Depth, NEW v \in ValuesTo[n]
  PROVE  Ok(v) \in Outcomes(ValuesTo[n]) /\ Err \in Outcomes(ValuesTo[n]) /\ Panic \in Outcomes(ValuesTo[n])
BY NilIn DEF Ok, Err, Panic, Outcomes

LEMMA OutcomesAre ==
  /\ \A v : Ok(v).status = "ok" /\ Ok(v).val = v
  /\ Err.status = "error" /\ Err.val = Nil /\ Panic.status = "panic" /\ Panic.val = Nil
BY DEF Ok, Err, Panic

LEMMA AssignedIs ==
  ASSUME NEW t, NEW r
  PROVE  \/ r.status = "ok" /\ r.val.type # t /\ Assigned(t, r) = Panic
         \/ ~(r.status = "ok" /\ r.val.type # t) /\ Assigned(t, r) = r
BY DEF Assigned

\* A loop ends with its result or at a step that failed.
LEMMA InOrderIs ==
  ASSUME NEW n \in Nat, NEW steps, DOMAIN steps = 1..n, NEW whole
  PROVE  \/ (\A x \in 1..n : steps[x].status = "ok") /\ InOrder(steps, whole) = Ok(whole)
         \/ \E x \in 1..n : steps[x].status # "ok" /\ InOrder(steps, whole) = steps[x]
<1> DEFINE F == {x \in DOMAIN steps : steps[x].status # "ok"}
<1>1. InOrder(steps, whole) =
        IF F = {} THEN Ok(whole) ELSE steps[CHOOSE x \in F : \A y \in F : x <= y]
  BY DEF InOrder
<1>2. CASE F = {}
  BY <1>1, <1>2
<1>3. CASE F # {}
  <2>1. F \subseteq Nat
    OBVIOUS
  <2>2. \E x \in F : \A y \in F : x <= y
    <3> HIDE DEF F
    <3> QED
      BY <1>3, <2>1, LeastNumber
  <2>3. PICK x \in F : x = CHOOSE z \in F : \A y \in F : z <= y
    <3> HIDE DEF F
    <3> QED
      BY <2>2
  <2> QED
    BY <1>1, <1>3, <2>3
<1> QED
  BY <1>2, <1>3

LEMMA NewConvertIs ==
  ASSUME NEW f \in IdlFields, NEW t \in GoTypes, NEW a \in Values
  PROVE  /\ NewConvert(f, t, a) \in Conversions
         /\ NewConvert(f, t, a).field = f /\ NewConvert(f, t, a).desired = t
         /\ ~NewConvert(f, t, a).desirePtr /\ NewConvert(f, t, a).actual = a
BY DEF NewConvert, Conversions

LEMMA ConversionParts ==
  ASSUME NEW c \in Conversions
  PROVE  /\ c.field \in IdlFields /\ c.desired \in GoTypes \cup {NilType}
         /\ c.desirePtr \in BOOLEAN /\ c.actual \in Values
BY DEF Conversions

\* The pointer step.
LEMMA ElemIs ==
  ASSUME NEW c \in Conversions, c.desired \in GoTypes
  PROVE  /\ Elem(c) \in Conversions /\ Elem(c).field = c.field /\ Elem(c).actual = c.actual
         /\ Elem(c).desired = Base(c.desired) /\ Elem(c).desired \in PlainTypes \cup SliceTypes
         /\ Elem(c).desirePtr <=> c.desirePtr \/ c.desired.kind = "ptr"
         /\ Elem(c).desired \in GoTypes
         /\ c.desired.kind # "ptr" => Elem(c) = c
<1>1. Base(c.desired) \in GoTypes /\ Base(c.desired) \in PlainTypes \cup SliceTypes
  BY GoTypesShape, TypeHeightIs
<1>2. CASE c.desired.kind = "ptr"
  <2>1. Elem(c) = [c EXCEPT !.desired = Base(c.desired), !.desirePtr = TRUE]
    BY <1>2 DEF Elem
  <2>2. Elem(c) = [field |-> c.field, desired |-> Base(c.desired), desirePtr |-> TRUE, actual |-> c.actual]
    BY <2>1 DEF Conversions
  <2>3. /\ Elem(c).field = c.field /\ Elem(c).actual = c.actual
        /\ Elem(c).desired = Base(c.desired) /\ Elem(c).desirePtr = TRUE
    BY <2>2
  <2>4. Elem(c) \in Conversions
    BY <1>1, <2>2, ConversionParts DEF Conversions
  <2> QED
    BY <1>1, <1>2, <2>3, <2>4
<1>3. CASE c.desired.kind # "ptr"
  <2>1. Elem(c) = c /\ Base(c.desired) = c.desired
    BY <1>3 DEF Elem, Base
  <2> QED
    BY <1>1, <1>3, <2>1, ConversionParts
<1> QED
  BY <1>2, <1>3

RunOf(run, c) ==
  IF c.desired = NilType THEN Panic
  ELSE IF c.actual.type = c.desired THEN Ok(c.actual)
  ELSE IF c.actual.type # NilType THEN ByKind(run, Elem(c))
  ELSE IF ~c.field.optional THEN Err
  ELSE Ok(IF c.desired.kind \in {"ptr", "slice"} THEN Nil ELSE Zero[c.desired])

\* What ConvertSlice and ConvertStruct make of the parts.
SliceFrom(set, c) == InOrder(set, Compound(c.desired, [x \in DOMAIN set |-> set[x].val]))
StructFrom(set, c) ==
  LET own == AllFields[c.desired.name]
      wanted == AllFields[c.field.type]
      slot(i) == LET from == Places(wanted, own[i].name)
                 IN IF from = {} THEN Zero[FieldType(c.desired, i)]
                    ELSE set[CHOOSE x \in from : TRUE].val
      all == InOrder(set, Compound(c.desired, [i \in DOMAIN own |-> slot(i)]))
  IN IF all.status = "ok" THEN ConvertedVal(c, all.val) ELSE all
SliceSteps(run, c) == [x \in DOMAIN c.actual.elems |-> ConvertElement(run, c, x)]
StructSteps(run, c) ==
  [x \in DOMAIN AllFields[c.field.type] |-> ConvertField(run, c, AllFields[c.field.type][x])]

\* ConvertSlice and ConvertStruct by their steps and what is made of them.
LEMMA ByParts ==
  ASSUME NEW run, NEW c
  PROVE  /\ ConvertSlice(run, c) = SliceFrom(SliceSteps(run, c), c)
         /\ ConvertStruct(run, c) =
              IF c.field.type \notin DOMAIN AllFields THEN Err ELSE StructFrom(StructSteps(run, c), c)
<1>1. ConvertSlice(run, c) = SliceFrom(SliceSteps(run, c), c)
  BY DEF ConvertSlice, SliceFrom, SliceSteps
<1>2. ConvertStruct(run, c) =
        IF c.field.type \notin DOMAIN AllFields THEN Err ELSE StructFrom(StructSteps(run, c), c)
  BY DEF ConvertStruct, StructFrom, StructSteps
<1> QED
  BY <1>1, <1>2

\* The conversion of an element, and of a field.
ElementOf(c, x) == NewConvert(Element(c.field), c.desired.elem[1], c.actual.elems[x])

\* An element's conversion is a lower one, with or without the pointer step.
LEMMA ElementIs ==
  ASSUME NEW c \in Conversions, c.desired \in GoTypes, c.desired.kind = "slice", NEW x \in DOMAIN c.actual.elems
  PROVE  /\ ElementOf(c, x) \in Conversions /\ Elem(ElementOf(c, x)) \in Conversions
         /\ Height[ElementOf(c, x).actual] < Height[c.actual]
         /\ Elem(ElementOf(c, x)).actual = ElementOf(c, x).actual
         /\ ElementOf(c, x).actual = c.actual.elems[x]
         /\ ElementOf(c, x).desired = c.desired.elem[1] /\ c.desired.elem[1] \in GoTypes
         /\ ElementOf(c, x).field = Element(c.field)
         /\ TypeHeight(c.desired) = TypeHeight(ElementOf(c, x).desired) + 1
         /\ TypeHeight(Elem(ElementOf(c, x)).desired) = TypeHeight(ElementOf(c, x).desired)
         /\ \A run : \E d \in {ElementOf(c, x), Elem(ElementOf(c, x))} :
               ConvertElement(run, c, x) = Assigned(c.desired.elem[1], run[d])
<1> DEFINE d == ElementOf(c, x)
<1>1. Element(c.field) \in IdlFields /\ c.actual.elems[x] \in Values /\ Height[c.actual.elems[x]] < Height[c.actual]
  BY ConversionParts, FieldParts, Parts
<1>2. c.desired.elem[1] \in GoTypes /\ TypeHeight(c.desired) = TypeHeight(c.desired.elem[1]) + 1
  BY SliceElem
<1>3. /\ d \in Conversions /\ d.actual = c.actual.elems[x] /\ d.desired = c.desired.elem[1]
      /\ d.field = Element(c.field)
  <2> DEFINE f == Element(c.field)
             t == c.desired.elem[1]
             a == c.actual.elems[x]
  <2>1. f \in IdlFields /\ t \in GoTypes /\ a \in Values /\ d = NewConvert(f, t, a)
    BY <1>1, <1>2 DEF ElementOf
  <2> HIDE DEF d, f, t, a
  <2>2. d \in Conversions /\ d.actual = a /\ d.desired = t /\ d.field = f
    BY <2>1, NewConvertIs
  <2> QED
    BY <2>2 DEF f, t, a
<1>4. ASSUME NEW run PROVE \E e \in {d, Elem(d)} : ConvertElement(run, c, x) = Assigned(c.desired.elem[1], run[e])
  BY DEF ConvertElement, ElementOf
<1> HIDE DEF d
<1>5. Elem(d) \in Conversions /\ Elem(d).actual = d.actual /\ TypeHeight(Elem(d).desired) = TypeHeight(d.desired)
  BY <1>2, <1>3, ElemIs, TypeHeightIs
<1> QED
  BY <1>1, <1>2, <1>3, <1>4, <1>5 DEF d

\* A field of the wanted struct has one place in the desired one, or none.
LEMMA SlotIs ==
  ASSUME NEW c \in Conversions, c.desired \in GoTypes, c.desired.kind = "struct", NEW g \in IdlFields
  PROVE  \/ \A run : ConvertField(run, c, g) = Err
         \/ \E i \in DOMAIN AllFields[c.desired.name] : LET slot == FieldType(c.desired, i) IN
              /\ AllFields[c.desired.name][i].name = g.name
              /\ slot \in GoTypes /\ TypeHeight(slot) < TypeHeight(c.desired)
              /\ \A run : ConvertField(run, c, g) =
                   IF Has(c.actual, g.name)
                   THEN Stored(slot, run[NewConvert(g, slot, Member(c.actual, g.name))])
                   ELSE IF g.optional THEN Ok(Zero[slot]) ELSE Err
<1> DEFINE P == Places(AllFields[c.desired.name], g.name)
           slots == {FieldType(c.desired, i) : i \in P}
<1>1. CASE P = {}
  BY <1>1 DEF ConvertField
<1>2. CASE P # {}
  <2> DEFINE s == CHOOSE t \in slots : TRUE
  <2>1. s \in slots
    BY <1>2
  <2>2. PICK i \in P : s = FieldType(c.desired, i)
    BY <2>1
  <2>3. i \in DOMAIN AllFields[c.desired.name] /\ AllFields[c.desired.name][i].name = g.name
    BY DEF Places
  <2>4. FieldType(c.desired, i) \in GoTypes /\ TypeHeight(FieldType(c.desired, i)) < TypeHeight(c.desired)
    BY <2>3, FieldTypeIs
  <2>5. slots # {}
    BY <2>1
  <2>6. ASSUME NEW run
        PROVE  ConvertField(run, c, g) =
                   IF Has(c.actual, g.name)
                   THEN Stored(s, run[NewConvert(g, s, Member(c.actual, g.name))])
                   ELSE IF g.optional THEN Ok(Zero[s]) ELSE Err
    BY <2>5 DEF ConvertField
  <2> HIDE DEF s, slots, P
  <2> QED
    BY <2>2, <2>3, <2>4, <2>6
<1> QED
  BY <1>1, <1>2

\* The kinds there are after the pointer step, and what happens to each.
LEMMA ByKindIs ==
  ASSUME NEW run, NEW e \in Conversions, e.desired \in PlainTypes \cup SliceTypes
  PROVE  \/ e.desired \in PlainTypes /\ e.desired.kind = "string" /\ ByKind(run, e) = StringOrEnum(e)
         \/ e.desired \in PlainTypes /\ e.desired.kind \in {"int64", "float64", "bool"} /\ ByKind(run, e) = Scalar(e)
         \/ /\ e.desired \in SliceTypes /\ e.desired.kind = "slice"
            /\ ByKind(run, e) = IF e.actual.type.kind = "slice" THEN SliceFrom(SliceSteps(run, e), e) ELSE Err
         \/ /\ e.desired \in PlainTypes /\ e.desired.kind = "struct"
            /\ ByKind(run, e) =
                 IF e.actual.type.kind = "map" /\ e.field.type \in DOMAIN AllFields
                 THEN StructFrom(StructSteps(run, e), e) ELSE Err
<1>1. \/ e.desired \in PlainTypes /\ e.desired.kind \in {"string", "int64", "float64", "bool", "struct"}
      \/ e.desired \in SliceTypes /\ e.desired.kind = "slice"
  BY PlainTypesShape, SliceTypesShape DEF ScalarKinds
<1>2. CASE e.desired.kind = "string"
  BY <1>1, <1>2, Domains DEF ByKind
<1>3. CASE e.desired.kind \in {"int64", "float64", "bool"}
  BY <1>1, <1>3, Domains DEF ByKind
<1>4. CASE e.desired.kind = "slice"
  <2>1. ByKind(run, e) = IF e.actual.type.kind = "slice" THEN ConvertSlice(run, e) ELSE Err
    BY <1>4, Domains DEF ByKind
  <2> QED
    BY <1>1, <1>4, <2>1, ByParts
<1>5. CASE e.desired.kind = "struct"
  <2>1. ByKind(run, e) = IF e.actual.type.kind = "map" THEN ConvertStruct(run, e) ELSE Err
    BY <1>5, Domains DEF ByKind
  <2> QED
    BY <1>1, <1>5, <2>1, ByParts
<1> QED
  BY <1>1, <1>2, <1>3, <1>4, <1>5

LEMMA RunSame ==
  ASSUME NEW run, NEW other, NEW c \in Conversions,
         \A d \in Conversions : Height[d.actual] < Height[c.actual] => run[d] = other[d]
  PROVE  RunOf(run, c) = RunOf(other, c)
<1> DEFINE e == Elem(c)
<1>1. CASE c.desired = NilType
  BY <1>1 DEF RunOf
<1>2. CASE c.desired \in GoTypes
  <2>1. e \in Conversions /\ e.actual = c.actual /\ e.desired \in PlainTypes \cup SliceTypes
        /\ e.desired \in GoTypes
    BY <1>2, ElemIs
  <2> HIDE DEF e
  <2>2. CASE e.desired.kind = "slice"
    <3>1. ASSUME NEW x \in DOMAIN e.actual.elems PROVE ConvertElement(run, e, x) = ConvertElement(other, e, x)
      <4> DEFINE d == ElementOf(e, x)
      <4>1. /\ d \in Conversions /\ Elem(d) \in Conversions
            /\ Height[d.actual] < Height[c.actual] /\ Elem(d).actual = d.actual
        BY <2>1, <2>2, ElementIs
      <4>2. run[d] = other[d] /\ run[Elem(d)] = other[Elem(d)]
        <5> HIDE DEF d
        <5> QED
          BY <4>1
      <4> QED
        BY <4>2 DEF ConvertElement, ElementOf
    <3>2. SliceSteps(run, e) = SliceSteps(other, e)
      BY <3>1 DEF SliceSteps
    <3>3. ByKind(run, e) = ByKind(other, e)
      <4>1. ByKind(run, e) = IF e.actual.type.kind = "slice" THEN SliceFrom(SliceSteps(run, e), e) ELSE Err
        BY <2>1, <2>2, ByKindIs
      <4>2. ByKind(other, e) = IF e.actual.type.kind = "slice" THEN SliceFrom(SliceSteps(other, e), e) ELSE Err
        BY <2>1, <2>2, ByKindIs
      <4> QED
        BY <3>2, <4>1, <4>2
    <3> QED
      BY <3>3 DEF RunOf, e
  <2>3. CASE e.desired.kind = "struct"
    <3>1. ASSUME e.field.type \in DOMAIN AllFields, NEW x \in DOMAIN AllFields[e.field.type]
          PROVE  ConvertField(run, e, AllFields[e.field.type][x]) = ConvertField(other, e, AllFields[e.field.type][x])
      <4> DEFINE g == AllFields[e.field.type][x]
      <4>1. g \in IdlFields
        BY <3>1, StructFields
      <4>2. g.name \in Keys
        BY <4>1, FieldParts
      <4> HIDE DEF g
      <4>3. CASE \A r : ConvertField(r, e, g) = Err
        BY <4>3 DEF g
      <4>4. CASE ~(\A r : ConvertField(r, e, g) = Err)
        <5>1. PICK i \in DOMAIN AllFields[e.desired.name] : LET slot == FieldType(e.desired, i) IN
                /\ slot \in GoTypes
                /\ \A r : ConvertField(r, e, g) =
                     IF Has(e.actual, g.name)
                     THEN Stored(slot, r[NewConvert(g, slot, Member(e.actual, g.name))])
                     ELSE IF g.optional THEN Ok(Zero[slot]) ELSE Err
          BY <2>1, <2>3, <4>1, <4>4, SlotIs
        <5> DEFINE slot == FieldType(e.desired, i)
                   m == Member(e.actual, g.name)
                   d == NewConvert(g, slot, m)
        <5>2. slot \in GoTypes
          BY <5>1
        <5>3. ASSUME Has(e.actual, g.name) PROVE run[d] = other[d]
          <6>1. m \in Values /\ Height[m] < Height[c.actual]
            BY <2>1, <4>2, <5>3, MemberLower, ConversionParts
          <6> HIDE DEF slot, m
          <6>2. d \in Conversions /\ d.actual = m
            BY <4>1, <5>2, <6>1, NewConvertIs
          <6> HIDE DEF d
          <6> QED
            BY <6>1, <6>2
        <5>4. \A r : ConvertField(r, e, g) =
                IF Has(e.actual, g.name) THEN Stored(slot, r[d])
                ELSE IF g.optional THEN Ok(Zero[slot]) ELSE Err
          BY <5>1
        <5> HIDE DEF d, slot
        <5> QED
          BY <5>3, <5>4 DEF g
      <4> QED
        BY <4>3, <4>4
    <3>2. e.field.type \in DOMAIN AllFields => StructSteps(run, e) = StructSteps(other, e)
      BY <3>1 DEF StructSteps
    <3>3. ByKind(run, e) = ByKind(other, e)
      <4> DEFINE ok == e.actual.type.kind = "map" /\ e.field.type \in DOMAIN AllFields
      <4>1. ByKind(run, e) = IF ok THEN StructFrom(StructSteps(run, e), e) ELSE Err
        BY <2>1, <2>3, ByKindIs, PlainTypesShape
      <4>2. ByKind(other, e) = IF ok THEN StructFrom(StructSteps(other, e), e) ELSE Err
        BY <2>1, <2>3, ByKindIs
      <4> QED
        BY <3>2, <4>1, <4>2
    <3> QED
      BY <3>3 DEF RunOf, e
  <2>4. CASE e.desired.kind \notin {"slice", "struct"}
    <3>1. ByKind(run, e) = ByKind(other, e)
      <4>1. e.desired.kind = "string" \/ e.desired.kind \in {"int64", "float64", "bool"}
        BY <2>1, <2>4, PlainTypesShape, SliceTypesShape DEF ScalarKinds
      <4>2. CASE e.desired.kind = "string"
        BY <4>2 DEF ByKind, IdlType
      <4>3. CASE e.desired.kind \in {"int64", "float64", "bool"}
        BY <4>3, Domains DEF ByKind
      <4> QED
        BY <4>1, <4>2, <4>3
    <3> QED
      BY <3>1 DEF RunOf, e
  <2> QED
    BY <2>2, <2>3, <2>4
<1> QED
  BY <1>1, <1>2, ConversionParts

\* Outcomes keep within what the value and the type ask for.
InBounds(r, d) ==
  \A m \in 1..Depth :
    Height[d.actual] <= m /\ (d.desired \in GoTypes => TypeHeight(d.desired) <= m) => r \in Outcomes(ValuesTo[m])

LEMMA ConvertedIn ==
  ASSUME NEW n \in 1..Depth, NEW e \in Conversions, e.desired \in PlainTypes,
         NEW v \in ValuesTo[n], v.type = e.desired
  PROVE  ConvertedVal(e, v) \in Outcomes(ValuesTo[n])
<1>1. PointerTo(v) \in ValuesTo[n]
  <2>1. ValuesTo[n] = Level(ValuesTo[n - 1])
    BY ValuesToIs
  <2>2. Ptr(v.type) \in ValueTypes
    BY DEF ValueTypes, GoTypes
  <2>3. PointerTo(v) = [v EXCEPT !.type = Ptr(v.type)]
    BY <2>1 DEF PointerTo, Level
  <2> QED
    BY <2>1, <2>2, <2>3 DEF Level
<1>2. ConvertedVal(e, v) = Ok(PointerTo(v)) \/ ConvertedVal(e, v) = Ok(v)
  BY DEF ConvertedVal
<1> QED
  BY <1>1, <1>2, OutcomesIn

\* One of the steps that did not succeed, or the whole.
LEMMA InOrderIn ==
  ASSUME NEW n \in 1..Depth, NEW k \in Nat, NEW steps, DOMAIN steps = 1..k,
         \A x \in 1..k : steps[x] \in Outcomes(ValuesTo[n - 1]),
         NEW v, (\A x \in 1..k : steps[x].status = "ok") => v \in ValuesTo[n]
  PROVE  InOrder(steps, v) \in Outcomes(ValuesTo[n])
<1>1. CASE (\A x \in 1..k : steps[x].status = "ok") /\ InOrder(steps, v) = Ok(v)
  BY <1>1, OutcomesIn
<1>2. CASE \E x \in 1..k : steps[x].status # "ok" /\ InOrder(steps, v) = steps[x]
  <2>1. InOrder(steps, v) \in Outcomes(ValuesTo[n - 1])
    BY <1>2
  <2>2. ValuesTo[n - 1] \subseteq ValuesTo[n]
    BY ValuesToGrows
  <2> QED
    BY <2>1, <2>2 DEF Outcomes
<1> QED
  BY <1>1, <1>2, InOrderIs

LowerInBounds(run, c) ==
  \A d \in Conversions : Height[d.actual] < Height[c.actual] => InBounds(run[d], d)

LEMMA SliceIn ==
  ASSUME NEW run, NEW e \in Conversions, e.desired \in SliceTypes, LowerInBounds(run, e),
         NEW n \in 1..Depth, Height[e.actual] <= n, TypeHeight(e.desired) <= n
  PROVE  SliceFrom(SliceSteps(run, e), e) \in Outcomes(ValuesTo[n])
<1> DEFINE steps == SliceSteps(run, e)
           k == Len(e.actual.elems)
           v == Compound(e.desired, [x \in DOMAIN steps |-> steps[x].val])
<1>0. e.desired \in GoTypes /\ e.desired.kind = "slice" /\ e.desired \in ValueTypes
  BY SliceTypesShape DEF GoTypes, ValueTypes
<1>1. k \in Nat /\ DOMAIN steps = 1..k /\ \A x \in 1..k : steps[x] = ConvertElement(run, e, x)
  <2>1. e.actual.elems \in Seq(Values)
    BY ConversionParts, Parts
  <2> QED
    BY <2>1 DEF SliceSteps
<1>2. ASSUME NEW x \in 1..k PROVE steps[x] \in Outcomes(ValuesTo[n - 1])
  <2> DEFINE d == ElementOf(e, x)
             t == e.desired.elem[1]
  <2>0. x \in DOMAIN e.actual.elems
    BY <1>1 DEF SliceSteps
  <2>1. /\ d \in Conversions /\ Elem(d) \in Conversions /\ Height[d.actual] < Height[e.actual]
        /\ Elem(d).actual = d.actual /\ d.desired \in GoTypes
        /\ TypeHeight(e.desired) = TypeHeight(d.desired) + 1 /\ TypeHeight(Elem(d).desired) = TypeHeight(d.desired)
        /\ \E g \in {d, Elem(d)} : ConvertElement(run, e, x) = Assigned(t, run[g])
    BY <1>0, <2>0, ElementIs
  <2> HIDE DEF d, t
  <2>2. TypeHeight(d.desired) \in 1..Depth /\ d.actual \in Values /\ Height[d.actual] \in 1..Depth
        /\ Height[e.actual] \in 1..Depth
    BY <2>1, TypeHeightIs, ConversionParts, HeightIs
  <2>3. n - 1 \in 1..Depth /\ Height[d.actual] <= n - 1 /\ TypeHeight(d.desired) <= n - 1
    <3> DEFINE a == Height[d.actual]
               b == Height[e.actual]
               h == TypeHeight(d.desired)
    <3>1. a \in 1..Depth /\ b \in 1..Depth /\ a < b /\ b <= n /\ h + 1 <= n /\ h \in 1..Depth
      BY <2>1, <2>2
    <3> HIDE DEF a, b, h
    <3>2. n - 1 \in 1..Depth /\ a <= n - 1 /\ h <= n - 1
      BY <3>1, DepthNat
    <3> QED
      BY <3>2 DEF a, h
  <2>4. InBounds(run[d], d) /\ InBounds(run[Elem(d)], Elem(d))
    BY <2>1 DEF LowerInBounds
  <2>5. run[d] \in Outcomes(ValuesTo[n - 1]) /\ run[Elem(d)] \in Outcomes(ValuesTo[n - 1])
    BY <2>1, <2>3, <2>4 DEF InBounds
  <2>6. PICK r \in Outcomes(ValuesTo[n - 1]) : ConvertElement(run, e, x) = Assigned(t, r)
    BY <2>1, <2>5
  <2>7. Panic \in Outcomes(ValuesTo[n - 1])
    BY <2>3, NilIn DEF Outcomes, Panic
  <2>8. ConvertElement(run, e, x) \in Outcomes(ValuesTo[n - 1])
    BY <2>6, <2>7, AssignedIs
  <2> QED
    BY <1>1, <2>8
<1>3. v \in ValuesTo[n]
  <2>1. \A x \in 1..k : steps[x].val \in ValuesTo[n - 1]
    BY <1>2 DEF Outcomes
  <2> DEFINE s == [x \in DOMAIN steps |-> steps[x].val]
  <2>2. s \in Seq(ValuesTo[n - 1])
    <3> HIDE DEF steps, k
    <3> QED
      BY <1>1, <2>1
  <2> HIDE DEF s, steps
  <2>3. Compound(e.desired, s) \in ValuesTo[n]
    BY <1>0, <2>2, CompoundIn
  <2> QED
    BY <2>3 DEF s
<1>4. SliceFrom(steps, e) = InOrder(steps, v)
  BY DEF SliceFrom
<1> HIDE DEF steps, v, k
<1> QED
  BY <1>1, <1>2, <1>3, <1>4, InOrderIn DEF steps

LEMMA FieldIn ==
  ASSUME NEW run, NEW e \in Conversions, e.desired \in PlainTypes, e.desired.kind = "struct",
         LowerInBounds(run, e), NEW g \in IdlFields,
         NEW n \in 1..Depth, Height[e.actual] <= n, TypeHeight(e.desired) <= n
  PROVE  ConvertField(run, e, g) \in Outcomes(ValuesTo[n - 1])
<1>0. e.desired \in GoTypes /\ e.desired.name \in DOMAIN AllFields /\ TypeHeight(e.desired) = High[e.desired.name]
  BY PlainTypesShape, PlainHeightIs DEF GoTypes, PlainHeight
<1>1. n - 1 \in 1..Depth
  <2>1. High[e.desired.name] \in 3..(Depth - 1)
    BY <1>0, HighIs
  <2> QED
    BY <1>0, <2>1, DepthNat
<1>2. Err \in Outcomes(ValuesTo[n - 1]) /\ Panic \in Outcomes(ValuesTo[n - 1])
  BY <1>1, NilIn DEF Outcomes, Panic, Err
<1>3. CASE \A r : ConvertField(r, e, g) = Err
  BY <1>2, <1>3
<1>4. CASE ~(\A r : ConvertField(r, e, g) = Err)
  <2>1. PICK i \in DOMAIN AllFields[e.desired.name] : LET slot == FieldType(e.desired, i) IN
          /\ slot \in GoTypes /\ TypeHeight(slot) < TypeHeight(e.desired)
          /\ \A r : ConvertField(r, e, g) =
               IF Has(e.actual, g.name)
               THEN Stored(slot, r[NewConvert(g, slot, Member(e.actual, g.name))])
               ELSE IF g.optional THEN Ok(Zero[slot]) ELSE Err
    BY <1>0, <1>4, SlotIs
  <2> DEFINE slot == FieldType(e.desired, i)
             m == Member(e.actual, g.name)
             d == NewConvert(g, slot, m)
  <2>2. slot \in GoTypes /\ TypeHeight(slot) < TypeHeight(e.desired)
    BY <2>1
  <2>3. ConvertField(run, e, g) =
          IF Has(e.actual, g.name) THEN Stored(slot, run[d]) ELSE IF g.optional THEN Ok(Zero[slot]) ELSE Err
    BY <2>1
  <2> HIDE DEF slot
  <2>4. TypeHeight(slot) \in 1..Depth /\ TypeHeight(slot) <= n - 1
    <3> DEFINE h == TypeHeight(slot)
               l == TypeHeight(e.desired)
    <3>1. h \in 1..Depth /\ l \in 1..Depth /\ h < l /\ l <= n
      BY <1>0, <2>2, TypeHeightIs
    <3> HIDE DEF h, l
    <3>2. h <= n - 1
      BY <3>1, DepthNat
    <3> QED
      BY <3>1, <3>2 DEF h
  <2>5. Ok(Zero[slot]) \in Outcomes(ValuesTo[n - 1])
    <3>1. TypeHeight(slot) \in 0..Depth /\ n - 1 \in 0..Depth
      BY <1>1, <2>4, DepthNat
    <3>2. ValuesTo[TypeHeight(slot)] \subseteq ValuesTo[n - 1]
      BY <2>4, <3>1, ValuesToMonotone
    <3>3. Zero[slot] \in ValuesTo[n - 1]
      BY <2>2, <3>2, ZeroIs
    <3> QED
      BY <1>1, <3>3, OutcomesIn
  <2>6. ASSUME Has(e.actual, g.name) PROVE Stored(slot, run[d]) \in Outcomes(ValuesTo[n - 1])
    <3>0. e.actual \in Values /\ g.name \in Keys
      BY ConversionParts, FieldParts
    <3>1. m \in Values /\ Height[m] < Height[e.actual]
      BY <2>6, <3>0, MemberLower
    <3> HIDE DEF m
    <3>2. d \in Conversions /\ d.actual = m /\ d.desired = slot
      BY <2>2, <3>1, NewConvertIs
    <3> HIDE DEF d
    <3>3. Height[m] <= n - 1
      <4> DEFINE a == Height[m]
                 b == Height[e.actual]
      <4>1. a \in 1..Depth /\ b \in 1..Depth /\ a < b /\ b <= n
        BY <3>0, <3>1, HeightIs
      <4> HIDE DEF a, b
      <4>2. a <= n - 1
        BY <4>1, DepthNat
      <4> QED
        BY <4>2 DEF a
    <3>4. InBounds(run[d], d)
      BY <3>1, <3>2 DEF LowerInBounds
    <3>5. run[d] \in Outcomes(ValuesTo[n - 1])
      BY <1>1, <2>4, <3>2, <3>3, <3>4 DEF InBounds
    <3> QED
      BY <1>2, <2>5, <3>5, AssignedIs DEF Stored
  <2> HIDE DEF d
  <2> QED
    BY <1>2, <2>3, <2>5, <2>6
<1> QED
  BY <1>3, <1>4

LEMMA StructIn ==
  ASSUME NEW run, NEW e \in Conversions, e.desired \in PlainTypes, e.desired.kind = "struct",
         LowerInBounds(run, e), e.field.type \in DOMAIN AllFields,
         NEW n \in 1..Depth, Height[e.actual] <= n, TypeHeight(e.desired) <= n
  PROVE  StructFrom(StructSteps(run, e), e) \in Outcomes(ValuesTo[n])
<1> DEFINE own == AllFields[e.desired.name]
           wanted == AllFields[e.field.type]
           steps == StructSteps(run, e)
           k == Len(wanted)
           slot(i) == IF Places(wanted, own[i].name) = {} THEN Zero[FieldType(e.desired, i)]
                      ELSE steps[CHOOSE x \in Places(wanted, own[i].name) : TRUE].val
           v == Compound(e.desired, [i \in DOMAIN own |-> slot(i)])
<1>0. e.desired \in GoTypes /\ e.desired.name \in DOMAIN AllFields /\ e.desired \in ValueTypes
  BY PlainTypesShape DEF GoTypes, ValueTypes
<1>1. wanted \in Seq(IdlFields) /\ own \in Seq(IdlFields)
  BY <1>0, StructFields
<1>2. k \in Nat /\ DOMAIN wanted = 1..k /\ DOMAIN steps = 1..k
      /\ \A x \in 1..k : steps[x] = ConvertField(run, e, wanted[x]) /\ wanted[x] \in IdlFields
  BY <1>1 DEF StructSteps
<1>3. \A x \in 1..k : steps[x] \in Outcomes(ValuesTo[n - 1])
  BY <1>2, FieldIn
<1>4. v \in ValuesTo[n]
  <2>1. ASSUME NEW i \in DOMAIN own PROVE slot(i) \in ValuesTo[n - 1]
    <3> DEFINE t == FieldType(e.desired, i)
               P == Places(wanted, own[i].name)
    <3>1. CASE P = {}
      <4>1. t \in GoTypes /\ TypeHeight(t) < TypeHeight(e.desired)
        BY <1>0, FieldTypeIs
      <4> HIDE DEF t
      <4>2. TypeHeight(t) \in 1..Depth /\ TypeHeight(e.desired) \in 1..Depth
        BY <1>0, <4>1, TypeHeightIs
      <4>3. TypeHeight(t) <= n - 1 /\ TypeHeight(t) \in 0..Depth /\ n - 1 \in 0..Depth
        <5> DEFINE h == TypeHeight(t)
                   l == TypeHeight(e.desired)
        <5>1. h \in 1..Depth /\ l \in 1..Depth /\ h < l /\ l <= n
          BY <4>1, <4>2
        <5> HIDE DEF h, l
        <5>2. h <= n - 1 /\ h \in 0..Depth /\ n - 1 \in 0..Depth
          BY <5>1, DepthNat
        <5> QED
          BY <5>2 DEF h
      <4>4. Zero[t] \in ValuesTo[n - 1]
        BY <4>1, <4>3, ZeroIs, ValuesToMonotone
      <4> QED
        BY <3>1, <4>4 DEF t
    <3>2. CASE P # {}
      <4>1. PICK x \in P : x = CHOOSE z \in P : TRUE
        BY <3>2
      <4>2. x \in 1..k
        BY <1>2 DEF Places
      <4>3. steps[x].val \in ValuesTo[n - 1]
        BY <1>3, <4>2 DEF Outcomes
      <4> QED
        BY <3>2, <4>1, <4>3
    <3> QED
      BY <3>1, <3>2
  <2> DEFINE s == [i \in DOMAIN own |-> slot(i)]
  <2>2. s \in Seq(ValuesTo[n - 1])
    <3> HIDE DEF slot, own
    <3> QED
      BY <1>1, <2>1
  <2> HIDE DEF s, slot
  <2>3. Compound(e.desired, s) \in ValuesTo[n]
    BY <1>0, <2>2, CompoundIn
  <2> QED
    BY <2>3 DEF s
<1>5. StructFrom(steps, e) =
        IF InOrder(steps, v).status = "ok" THEN ConvertedVal(e, InOrder(steps, v).val) ELSE InOrder(steps, v)
  BY DEF StructFrom
<1>6. v.type = e.desired
  BY DEF Compound, Value
<1> HIDE DEF steps, v, k
<1>7. InOrder(steps, v) \in Outcomes(ValuesTo[n])
  BY <1>2, <1>3, <1>4, InOrderIn
<1>8. InOrder(steps, v).status = "ok" => InOrder(steps, v) = Ok(v)
  BY <1>2, InOrderIs
<1>9. ConvertedVal(e, v) \in Outcomes(ValuesTo[n])
  BY <1>4, <1>6, ConvertedIn
<1> QED
  BY <1>5, <1>7, <1>8, <1>9, OutcomesAre DEF steps

\* What Run makes is no higher than what it is given and asked for.
LEMMA RunIn ==
  ASSUME NEW run, NEW c \in Conversions, LowerInBounds(run, c)
  PROVE  InBounds(RunOf(run, c), c)
<1> SUFFICES ASSUME NEW n \in 1..Depth, Height[c.actual] <= n,
                    c.desired \in GoTypes => TypeHeight(c.desired) <= n
             PROVE  RunOf(run, c) \in Outcomes(ValuesTo[n])
  BY DEF InBounds
<1>0. c.actual \in Values /\ n \in 0..Depth
  BY ConversionParts, DepthNat
<1>a. c.actual \in ValuesTo[n] /\ Nil \in ValuesTo[n]
  BY <1>0, HeightLow, NilIn
<1>b. Err \in Outcomes(ValuesTo[n]) /\ Panic \in Outcomes(ValuesTo[n])
  BY <1>a, OutcomesIn
<1>1. CASE c.desired = NilType
  BY <1>1, <1>b DEF RunOf
<1>2. CASE c.desired \in GoTypes /\ c.desired # NilType
  <2>0. TypeHeight(c.desired) <= n /\ TypeHeight(c.desired) \in 1..Depth
    BY <1>2, TypeHeightIs
  <2>1. Zero[c.desired] \in ValuesTo[n]
    <3>1. TypeHeight(c.desired) \in 0..Depth
      BY <2>0, DepthNat
    <3>2. ValuesTo[TypeHeight(c.desired)] \subseteq ValuesTo[n]
      BY <1>0, <2>0, <3>1, ValuesToMonotone
    <3> QED
      BY <1>2, <3>2, ZeroIs
  <2> DEFINE e == Elem(c)
  <2>2. /\ e \in Conversions /\ e.actual = c.actual /\ e.desired \in PlainTypes \cup SliceTypes
        /\ e.desired \in GoTypes /\ e.field = c.field /\ TypeHeight(e.desired) = TypeHeight(c.desired)
    BY <1>2, ElemIs, TypeHeightIs
  <2>3. RunOf(run, c) = Ok(c.actual) \/ RunOf(run, c) = ByKind(run, e) \/ RunOf(run, c) = Err
        \/ RunOf(run, c) = Ok(Nil) \/ RunOf(run, c) = Ok(Zero[c.desired])
    BY <1>2 DEF RunOf
  <2> HIDE DEF e
  <2>4. LowerInBounds(run, e)
    BY <2>2 DEF LowerInBounds
  <2>5. ByKind(run, e) \in Outcomes(ValuesTo[n])
    <3>1. Height[e.actual] <= n /\ TypeHeight(e.desired) <= n
      BY <2>0, <2>2
    <3>2. e.desired \in PlainTypes => Atom(e.desired, e.actual.atom) \in ValuesTo[n]
                                      /\ Atom(e.desired, e.actual.atom).type = e.desired
      <4>1. e.actual.atom \in AllAtoms
        BY <1>0, <2>2, Parts
      <4> QED
        BY <4>1, BuiltinTypes, FlatValue DEF Atom, Value
    <3>3. e.desired \in PlainTypes => ConvertedVal(e, Atom(e.desired, e.actual.atom)) \in Outcomes(ValuesTo[n])
      BY <2>2, <3>2, ConvertedIn
    <3>4. e.desired \in PlainTypes /\ e.actual.type = e.desired => ConvertedVal(e, e.actual) \in Outcomes(ValuesTo[n])
      BY <1>a, <2>2, ConvertedIn
    <3>5. CASE e.desired \in PlainTypes /\ e.desired.kind = "string"
      <4>1. ByKind(run, e) = StringOrEnum(e)
        BY <2>2, <3>5, ByKindIs
      <4> QED
        BY <1>b, <3>3, <3>4, <3>5, <4>1 DEF StringOrEnum
    <3>6. CASE e.desired \in PlainTypes /\ e.desired.kind \in {"int64", "float64", "bool"}
      <4>1. ByKind(run, e) = Scalar(e)
        BY <2>2, <3>6, ByKindIs
      <4> QED
        BY <1>b, <3>3, <3>6, <4>1 DEF Scalar
    <3>7. CASE e.desired \in SliceTypes /\ e.desired.kind = "slice"
      <4>1. SliceFrom(SliceSteps(run, e), e) \in Outcomes(ValuesTo[n])
        BY <2>2, <2>4, <3>1, <3>7, SliceIn
      <4> QED
        BY <1>b, <2>2, <3>7, <4>1, ByKindIs
    <3>8. CASE e.desired \in PlainTypes /\ e.desired.kind = "struct"
      <4>1. e.field.type \in DOMAIN AllFields => StructFrom(StructSteps(run, e), e) \in Outcomes(ValuesTo[n])
        BY <2>2, <2>4, <3>1, <3>8, StructIn
      <4> QED
        BY <1>b, <2>2, <3>8, <4>1, ByKindIs
    <3> QED
      BY <2>2, <3>5, <3>6, <3>7, <3>8, ByKindIs
  <2> QED
    BY <1>a, <1>b, <2>1, <2>3, <2>5, OutcomesIn
<1> QED
  BY <1>1, <1>2, ConversionParts

ConvHeight == [c \in Conversions |-> Height[c.actual]]

LEMMA ConvHeightIs ==
  /\ ConvHeight \in [Conversions -> Nat]
  /\ \A c \in Conversions : ConvHeight[c] = Height[c.actual]
<1>1. \A c \in Conversions : Height[c.actual] \in Nat
  BY ConversionParts, HeightType
<1> QED
  BY <1>1 DEF ConvHeight

IsRun(run) == run = [c \in Conversions |-> RunOf(run, c)]

\* Everything in bounds is an outcome.
LEMMA BoundsOutcome ==
  ASSUME NEW r, NEW c \in Conversions, InBounds(r, c)
  PROVE  r \in Outcomes(Values)
<1>1. Depth \in 1..Depth /\ Height[c.actual] \in 1..Depth
  BY DepthNat, ConversionParts, HeightIs
<1>2. c.desired \in GoTypes => TypeHeight(c.desired) \in 1..Depth
  BY TypeHeightIs
<1> QED
  BY <1>1, <1>2, DepthNat DEF InBounds, Values

LEMMA RunTyped ==
  ASSUME NEW run,
         \A c \in Conversions :
           run[c] = IF RunOf(run, c) \in Outcomes(Values) THEN RunOf(run, c) ELSE Panic
  PROVE  \A c \in Conversions : InBounds(run[c], c) /\ RunOf(run, c) \in Outcomes(Values)
<1> DEFINE T == {c \in Conversions : InBounds(run[c], c) /\ RunOf(run, c) \in Outcomes(Values)}
<1>1. ASSUME NEW c \in Conversions, \A d \in Conversions : ConvHeight[d] < ConvHeight[c] => d \in T
      PROVE  c \in T
  <2>1. LowerInBounds(run, c)
    BY <1>1, ConvHeightIs DEF LowerInBounds
  <2>2. InBounds(RunOf(run, c), c)
    BY <2>1, RunIn
  <2>3. RunOf(run, c) \in Outcomes(Values)
    BY <2>2, BoundsOutcome
  <2> QED
    BY <2>2, <2>3
<1>2. Conversions \subseteq T
  <2> HIDE DEF T
  <2> QED
    BY <1>1, ConvHeightIs, HeightInduction
<1> QED
  BY <1>2

\* The equation of Run, and that it makes values.
LEMMA RunIs ==
  /\ \A c \in Conversions : Run[c] = RunOf(Run, c)
  /\ \A c \in Conversions : Run[c] \in Outcomes(Values)
<1> DEFINE R == [Conversions -> Outcomes(Values)]
           Out(run, c) == IF RunOf(run, c) \in Outcomes(Values) THEN RunOf(run, c) ELSE Panic
           step == [run \in R |-> [c \in Conversions |-> Out(run, c)]]
<1>0. Panic \in Outcomes(Values)
  BY NilIn, DepthNat DEF Outcomes, Panic
<1>1. step \in [R -> R]
  BY <1>0
<1>2. LooksDown(Conversions, Outcomes(Values), ConvHeight, step)
  <2> SUFFICES ASSUME NEW c \in Conversions, NEW run \in R, NEW other \in R,
                      \A d \in Conversions : ConvHeight[d] < ConvHeight[c] => run[d] = other[d]
               PROVE  step[run][c] = step[other][c]
    BY DEF LooksDown
  <2>1. \A d \in Conversions : Height[d.actual] < Height[c.actual] => run[d] = other[d]
    BY ConvHeightIs
  <2>2. RunOf(run, c) = RunOf(other, c)
    BY <2>1, RunSame
  <2> QED
    BY <2>2
<1>3. \E run \in R : run = step[run]
  <2>1. IsRecursion(Conversions, Outcomes(Values), ConvHeight, step)
    <3> HIDE DEF step
    <3> QED
      BY <1>0, <1>1, <1>2, ConvHeightIs DEF IsRecursion
  <2> HIDE DEF step
  <2> QED
    BY <2>1, RecursionExists
<1>4. \E run : IsRun(run)
  <2>1. PICK run \in R : run = step[run]
    BY <1>3
  <2>2. \A c \in Conversions : run[c] = Out(run, c)
    BY <2>1
  <2>3. \A c \in Conversions : RunOf(run, c) \in Outcomes(Values)
    BY <2>2, RunTyped
  <2>4. run = [c \in Conversions |-> run[c]]
    BY <2>1
  <2>5. run = [c \in Conversions |-> RunOf(run, c)]
    BY <2>2, <2>3, <2>4
  <2> QED
    BY <2>5 DEF IsRun
<1>5. Run = CHOOSE run : IsRun(run)
  BY DEF Run, IsRun, RunOf
<1>6. IsRun(Run)
  BY <1>4, <1>5
<1>7. \A c \in Conversions : Run[c] = RunOf(Run, c)
  <2> DEFINE z == Run
  <2>1. z = [c \in Conversions |-> RunOf(z, c)]
    BY <1>6 DEF IsRun
  <2> HIDE DEF z
  <2>2. \A c \in Conversions : z[c] = RunOf(z, c)
    BY <2>1
  <2> QED
    BY <2>2 DEF z
<1>8. \A c \in Conversions : InBounds(Run[c], c)
  <2> DEFINE T == {c \in Conversions : InBounds(Run[c], c)}
  <2>1. ASSUME NEW c \in Conversions, \A d \in Conversions : ConvHeight[d] < ConvHeight[c] => d \in T
        PROVE  c \in T
    <3>1. LowerInBounds(Run, c)
      BY <2>1, ConvHeightIs DEF LowerInBounds
    <3>2. InBounds(RunOf(Run, c), c)
      BY <3>1, RunIn
    <3> QED
      BY <1>7, <3>2
  <2>2. Conversions \subseteq T
    <3> HIDE DEF T
    <3> QED
      BY <2>1, ConvHeightIs, HeightInduction
  <2> QED
    BY <2>2
<1>9. \A c \in Conversions : Run[c] \in Outcomes(Values)
  BY <1>8, BoundsOutcome
<1> QED
  BY <1>7, <1>9

-----------------------------------------------------------------------------
(* Zero values.                                                            *)
LEMMA AtomIs ==
  ASSUME NEW v, NEW t, NEW a, v = Atom(t, a)
  PROVE  v.type = t /\ v.atom = a /\ v.elems = <<>> /\ v.fields = NoFields
BY DEF Atom, Value

\* A zero value by kind of type.
LEMMA ZeroFacts ==
  ASSUME NEW t \in GoTypes
  PROVE  /\ Zero[t] \in Values /\ Zero[t].type = t /\ Zero[t].fields = NoFields
         /\ t.kind = "ptr" => Zero[t].atom = NilPtr /\ Zero[t].elems = <<>>
         /\ t.kind = "slice" => Zero[t].atom = NilSlice /\ Zero[t].elems = <<>>
         /\ t.kind \in ScalarKinds => Zero[t].atom = ZeroAtom[t.kind] /\ Zero[t].elems = <<>> /\ Zero[t].atom \in Atoms
         /\ t.kind = "struct" => /\ Zero[t].atom = "" /\ t.name \in DOMAIN AllFields
                                 /\ Zero[t].elems \in Seq(Values) /\ Len(Zero[t].elems) = Len(AllFields[t.name])
                                 /\ \A i \in DOMAIN Zero[t].elems :
                                      i \in DOMAIN AllFields[t.name] /\ Zero[t].elems[i] = Zero[FieldType(t, i)]
<1>0. Zero[t] = ZeroOf(Zero, t) /\ Zero[t] \in Values
  BY ZeroIs
<1>1. CASE t.kind = "ptr"
  <2>1. Zero[t] = Atom(t, NilPtr)
    BY <1>0, <1>1 DEF ZeroOf
  <2> QED
    BY <1>0, <1>1, <2>1, AtomIs DEF ScalarKinds
<1>2. CASE t.kind = "slice"
  <2>1. Zero[t] = Atom(t, NilSlice)
    BY <1>0, <1>2 DEF ZeroOf
  <2> QED
    BY <1>0, <1>2, <2>1, AtomIs DEF ScalarKinds
<1>3. CASE t.kind \in ScalarKinds
  <2>1. ZeroOf(Zero, t) = Atom(t, ZeroAtom[t.kind])
    BY <1>3 DEF ZeroOf, ScalarKinds
  <2>2. t.kind \notin {"ptr", "slice", "struct"}
    BY <1>3 DEF ScalarKinds
  <2>3. Zero[t].type = t /\ Zero[t].atom = ZeroAtom[t.kind] /\ Zero[t].elems = <<>> /\ Zero[t].fields = NoFields
    BY <1>0, <2>1, AtomIs
  <2> QED
    BY <1>0, <1>3, <2>2, <2>3, AtomsIn
<1>4. CASE t.kind = "struct"
  <2> DEFINE s == [i \in DOMAIN AllFields[t.name] |-> Zero[FieldType(t, i)]]
  <2>1. Zero[t] = Compound(t, s)
    BY <1>0, <1>4 DEF ZeroOf
  <2>0. Zero[t].type = t /\ Zero[t].fields = NoFields /\ Zero[t].atom = "" /\ Zero[t].elems = s
    <3> DEFINE z == Zero[t]
    <3>1. z = Compound(t, s)
      BY <2>1
    <3> HIDE DEF s, z
    <3>2. z.type = t /\ z.fields = NoFields /\ z.atom = "" /\ z.elems = s
      BY <3>1 DEF Compound, Value
    <3> QED
      BY <3>2 DEF z
  <2>2. t.name \in DOMAIN AllFields
    BY <1>4, GoTypesShape, PlainTypesShape, SliceTypesShape
  <2>3. AllFields[t.name] \in Seq(IdlFields)
    BY <2>2, StructFields
  <2>4. Zero[t].elems = [i \in DOMAIN AllFields[t.name] |-> Zero[FieldType(t, i)]]
    BY <2>0
  <2>5. Zero[t].type = t /\ Zero[t].fields = NoFields /\ Zero[t].atom = ""
    BY <2>0
  <2>6. Zero[t].elems \in Seq(Values)
    BY <1>0, Parts
  <2>7. Len(Zero[t].elems) = Len(AllFields[t.name]) /\ DOMAIN Zero[t].elems = DOMAIN AllFields[t.name]
    BY <2>3, <2>4, <2>6
  <2> QED
    BY <1>0, <1>4, <2>2, <2>4, <2>5, <2>6, <2>7 DEF ScalarKinds
<1> QED
  BY <1>1, <1>2, <1>3, <1>4, GoTypesShape, PlainTypesShape, SliceTypesShape

\* A zero value is typed in all its parts.
LEMMA TypedZero == \A t \in GoTypes : Typed[Zero[t]]
<1> DEFINE T == {t \in GoTypes : Typed[Zero[t]]}
<1>1. ASSUME NEW t \in GoTypes, \A u \in GoTypes : TypeHeights[u] < TypeHeights[t] => u \in T
      PROVE  t \in T
  <2> DEFINE z == Zero[t]
  <2>0. z \in Values /\ z.type = t
    BY ZeroFacts
  <2>1. Typed[z] = TypedIn(Typed, z)
    BY <2>0, TypedIs
  <2>2. CASE t.kind \in {"ptr", "slice"}
    <3>1. z.atom \in {NilPtr, NilSlice}
      BY <2>2, ZeroFacts
    <3> QED
      BY <2>0, <2>1, <3>1 DEF TypedIn
  <2>3. CASE t.kind \in ScalarKinds
    <3>1. z.atom \notin {NilPtr, NilSlice} /\ z.elems = <<>>
      BY <2>3, ZeroFacts, AtomsIn
    <3>2. Base(t).kind \notin {"slice", "struct"}
      BY <2>3, GoTypesShape DEF ScalarKinds
    <3> QED
      BY <2>0, <2>1, <3>1, <3>2 DEF TypedIn
  <2>4. CASE t.kind = "struct"
    <3>0. Base(t) = t
      BY <2>4, GoTypesShape
    <3>1. /\ z.atom \notin {NilPtr, NilSlice} /\ Len(z.elems) = Len(AllFields[t.name])
          /\ \A i \in DOMAIN z.elems : i \in DOMAIN AllFields[t.name] /\ z.elems[i] = Zero[FieldType(t, i)]
      <4>1. "" \notin {NilPtr, NilSlice}
        BY AtomsIn
      <4> QED
        BY <2>4, <4>1, ZeroFacts
    <3>2. ASSUME NEW i \in DOMAIN z.elems PROVE z.elems[i].type = FieldType(t, i) /\ Typed[z.elems[i]]
      <4>1. FieldType(t, i) \in GoTypes /\ TypeHeight(FieldType(t, i)) < TypeHeight(t)
        BY <2>4, <3>1, FieldTypeIs
      <4>2. FieldType(t, i) \in T
        BY <1>1, <4>1, TypeHeightsIs
      <4> QED
        BY <3>1, <4>1, <4>2, ZeroFacts
    <3> HIDE DEF z
    <3>3. TypedIn(Typed, z)
      BY <2>0, <2>4, <3>0, <3>1, <3>2 DEF TypedIn
    <3> QED
      BY <2>1, <3>3 DEF z
  <2> QED
    BY <2>2, <2>3, <2>4, GoTypesShape, PlainTypesShape, SliceTypesShape
<1>2. GoTypes \subseteq T
  <2> HIDE DEF T
  <2> QED
    BY <1>1, TypeHeightsIs, HeightInduction
<1> QED
  BY <1>2

-----------------------------------------------------------------------------
(* Decoded JSON.                                                           *)
LEMMA Kinds ==
  /\ NilType.kind = "nil" /\ String.kind = "string" /\ Float64.kind = "float64" /\ Bool.kind = "bool"
  /\ Int64.kind = "int64" /\ AnySlice.kind = "slice" /\ Map.kind = "map" /\ AnySlice.elem[1].kind = "interface"
  /\ String.name = "" /\ Base(AnySlice) = AnySlice
  /\ \A e : Named(e).kind = "string" /\ Named(e).name = e
  /\ \A s, p : Struct(s, p).kind = "struct" /\ Struct(s, p).name = s /\ Struct(s, p).toPtr = p
  /\ \A t : Ptr(t).kind = "ptr" /\ Base(Ptr(t)) = t /\ SliceOf(t).kind = "slice" /\ SliceOf(t).elem[1] = t
BY DEF NilType, String, Float64, Bool, Int64, AnySlice, Map, SliceOf, Builtin, Type, Named, Struct, Ptr, Base

LEMMA NotGoTypes == NilType \notin GoTypes /\ AnySlice \notin GoTypes /\ Map \notin GoTypes
<1>1. \A t \in GoTypes : t.kind \in ScalarKinds \cup {"struct", "slice", "ptr"}
  BY GoTypesShape, PlainTypesShape, SliceTypesShape
<1>2. NilType \notin GoTypes /\ Map \notin GoTypes
  BY <1>1, Kinds DEF ScalarKinds
<1>3. ASSUME AnySlice \in GoTypes PROVE FALSE
  <2>1. AnySlice \in SliceTypes
    BY <1>3, Kinds, SliceElem
  <2>2. Base(AnySlice.elem[1]) \in PlainTypes
    BY <2>1, SliceTypesShape
  <2>3. Base(AnySlice.elem[1]).kind = "interface"
    BY Kinds DEF Base
  <2> QED
    BY <2>2, <2>3, PlainTypesShape DEF ScalarKinds
<1> QED
  BY <1>2, <1>3

\* What decoded JSON looks like.
LEMMA JsonFacts ==
  ASSUME NEW a \in Values, Json[a]
  PROVE  /\ a.type \in {NilType, String, Float64, Bool, AnySlice, Map}
         /\ a.atom \in Atoms /\ a.atom \notin {NilPtr, NilSlice}
         /\ a.type.kind = "string" => a.type = String
         /\ a.type.kind = "slice" => a.type = AnySlice
         /\ a.type.kind = "map" => a.type = Map
         /\ a.type = NilType => a = Nil
         /\ a.type # AnySlice => a.elems = <<>>
         /\ \A x \in DOMAIN a.elems : Json[a.elems[x]]
         /\ \A k \in Keys : Has(a, k) => Json[Member(a, k)]
<1>0. JsonIn(Json, a)
  BY JsonIs
<1>1. /\ a.type \in {NilType, String, Float64, Bool, AnySlice, Map}
      /\ a.atom \in Atoms /\ a.atom \notin {NilPtr, NilSlice}
      /\ a.type # AnySlice => a.elems = <<>>
      /\ \A x \in DOMAIN a.elems : Json[a.elems[x]]
  BY <1>0, AtomsIn DEF JsonIn
<1>2. /\ a.type.kind = "string" => a.type = String
      /\ a.type.kind = "slice" => a.type = AnySlice
      /\ a.type.kind = "map" => a.type = Map
  BY <1>1, Kinds
<1>3. ASSUME NEW k \in Keys, Has(a, k) PROVE Json[Member(a, k)]
  <2>1. a.fields[k] \in Seq(Values) /\ a.fields[k] # <<>>
    BY <1>3, Parts DEF Has
  <2>2. 1 \in DOMAIN a.fields[k]
    BY <2>1
  <2> QED
    BY <1>0, <2>2 DEF JsonIn, Member
<1>4. a.type = NilType => a = Nil
  <2>1. ASSUME a.type = NilType PROVE a = Nil
    <3>1. NilType # AnySlice /\ NilType # Map
      BY Kinds
    <3>2. a.atom = "" /\ a.elems = <<>> /\ a.fields = NoFields
      BY <1>0, <2>1, <3>1 DEF JsonIn
    <3>3. a = Value(a.type, a.atom, a.elems, a.fields)
      BY Parts
    <3> QED
      BY <2>1, <3>2, <3>3 DEF Nil, Compound
  <2> QED
    BY <2>1
<1> QED
  BY <1>1, <1>2, <1>3, <1>4

-----------------------------------------------------------------------------
(* One conversion.                                                         *)
StepTo(f, t, a) == Elem(NewConvert(f, t, a))

\* A conversion after its pointer step.
LEMMA StepIs ==
  ASSUME NEW f \in IdlFields, NEW t \in GoTypes, NEW a \in Values
  PROVE  /\ StepTo(f, t, a) \in Conversions /\ StepTo(f, t, a).field = f /\ StepTo(f, t, a).actual = a
         /\ StepTo(f, t, a).desired = Base(t) /\ Base(t) \in PlainTypes \cup SliceTypes
         /\ StepTo(f, t, a).desired \in GoTypes
         /\ StepTo(f, t, a).desirePtr <=> t.kind = "ptr"
<1> DEFINE c == NewConvert(f, t, a)
<1>1. c \in Conversions /\ c.field = f /\ c.desired = t /\ ~c.desirePtr /\ c.actual = a
  BY NewConvertIs
<1> HIDE DEF c
<1>2. /\ Elem(c) \in Conversions /\ Elem(c).field = f /\ Elem(c).actual = a
      /\ Elem(c).desired = Base(t) /\ Elem(c).desired \in PlainTypes \cup SliceTypes
      /\ Elem(c).desired \in GoTypes
      /\ Elem(c).desirePtr <=> t.kind = "ptr"
  BY <1>1, ElemIs
<1> QED
  BY <1>2 DEF StepTo, c

\* Run for a new convert object.
LEMMA RunNew ==
  ASSUME NEW f \in IdlFields, NEW t \in GoTypes, NEW a \in Values
  PROVE  /\ Run[NewConvert(f, t, a)] \in Outcomes(Values)
         /\ Run[NewConvert(f, t, a)] =
              IF a.type = t THEN Ok(a)
              ELSE IF a.type # NilType THEN ByKind(Run, StepTo(f, t, a))
              ELSE IF ~f.optional THEN Err
              ELSE Ok(IF t.kind \in {"ptr", "slice"} THEN Nil ELSE Zero[t])
<1> DEFINE c == NewConvert(f, t, a)
<1>1. c \in Conversions /\ c.field = f /\ c.desired = t /\ c.actual = a
  BY NewConvertIs
<1>2. t # NilType
  BY NotGoTypes
<1>3. Run[c] = RunOf(Run, c) /\ Run[c] \in Outcomes(Values)
  BY <1>1, RunIs
<1>4. StepTo(f, t, a) = Elem(c)
  BY DEF StepTo
<1> HIDE DEF c
<1>5. RunOf(Run, c) =
        IF a.type = t THEN Ok(a)
        ELSE IF a.type # NilType THEN ByKind(Run, StepTo(f, t, a))
        ELSE IF ~f.optional THEN Err
        ELSE Ok(IF t.kind \in {"ptr", "slice"} THEN Nil ELSE Zero[t])
  BY <1>1, <1>2, <1>4 DEF RunOf
<1> QED
  BY <1>3, <1>5 DEF c

-----------------------------------------------------------------------------
(* Which conversions the theorems are about.  C is a set of structs that   *)
(* is closed under what their fields are, and has no optional array.       *)
Clean(f, p, C) == p => ~(f.optional /\ f.isArray) /\ (f.type \in DOMAIN AllFields => f.type \in C)
Closed(p, C) ==
  p => \A s \in C : s \in DOMAIN AllFields =>
         \A i \in DOMAIN AllFields[s] : Clean(AllFields[s][i], p, C)

\* A field's Go type, but that any plain type and the structs of an array may have a pointer.
Fits(f, t, p) ==
  IF f.isArray
  THEN \/ t = SliceOf(Plain(f.type, p))
       \/ f.type \in DOMAIN AllFields /\ t = SliceOf(Ptr(Plain(f.type, p)))
  ELSE t = Plain(f.type, p) \/ t = Ptr(Plain(f.type, p))

\* v is a value of type t that stands for a.
Arrived(t, a, v) == v \in Values /\ v.type = t /\ Typed[v] /\ Means[v][a]
Good(f, t, a, r) ==
  /\ r.status = "ok" =>
       /\ Admits[a][f]
       /\ Arrived(t, a, r.val) \/ (a = Nil /\ r.val = Nil /\ t.kind \in {"ptr", "slice"})
  /\ r.status = "error" => ~Admits[a][f]
  /\ r.status = "panic" => HasNull[a]
GoodFor(a, p, C) ==
  \A f \in IdlFields : \A t \in GoTypes :
    Clean(f, p, C) /\ Fits(f, t, p) => Good(f, t, a, Run[NewConvert(f, t, a)])

\* The parts of a type that fits a field.
LEMMA FitsIs ==
  ASSUME NEW f \in IdlFields, NEW p \in BOOLEAN, NEW t \in GoTypes, Fits(f, t, p)
  PROVE  /\ Plain(f.type, p) \in PlainTypes /\ IsPlain(Plain(f.type, p), f.type, p)
         /\ f.isArray => /\ t \in SliceTypes /\ t.kind = "slice" /\ Base(t) = t
                         /\ Fits(Element(f), t.elem[1], p) /\ t.elem[1] \in GoTypes
         /\ ~f.isArray => Base(t) = Plain(f.type, p) /\ t.kind # "slice"
<1> DEFINE u == Plain(f.type, p)
<1>1. f.type \in IdlTypes /\ Element(f).type = f.type /\ ~Element(f).isArray
  BY FieldParts
<1>2. u \in PlainTypes /\ IsPlain(u, f.type, p) /\ SliceOf(u) \in SliceTypes /\ SliceOf(Ptr(u)) \in SliceTypes
      /\ u \in GoTypes /\ Ptr(u) \in GoTypes
  BY <1>1, PlainIsGoType, PlainShape
<1>3. Base(u) = u /\ u.kind # "slice"
  BY <1>2, PlainTypesShape DEF ScalarKinds
<1>4. CASE f.isArray
  <2>1. t = SliceOf(u) \/ t = SliceOf(Ptr(u))
    BY <1>4 DEF Fits
  <2>2. t.elem[1] = u \/ t.elem[1] = Ptr(u)
    <3> HIDE DEF u
    <3> QED
      BY <2>1, PtrShape
  <2>3. Fits(Element(f), t.elem[1], p)
    BY <1>1, <2>2 DEF Fits
  <2> HIDE DEF u
  <2>4. t \in SliceTypes /\ t.elem[1] \in GoTypes
    BY <1>2, <2>1, <2>2
  <2> QED
    BY <1>2, <1>4, <2>3, <2>4, SliceTypesShape DEF u
<1>5. CASE ~f.isArray
  <2>1. t = u \/ t = Ptr(u)
    BY <1>5 DEF Fits
  <2> HIDE DEF u
  <2>2. Base(t) = u /\ t.kind # "slice"
    BY <1>3, <2>1, PtrShape
  <2> QED
    BY <1>2, <1>5, <2>2 DEF u
<1> QED
  BY <1>4, <1>5

\* null becomes the zero value, nil, or an error.
LEMMA NullGood ==
  ASSUME NEW f \in IdlFields, NEW t \in GoTypes
  PROVE  Good(f, t, Nil, Run[NewConvert(f, t, Nil)])
<1>0. Nil \in Values /\ Nil.type = NilType /\ t # NilType
  <2>1. Nil.type = NilType
    BY DEF Nil, Compound, Value
  <2> QED
    BY <2>1, NilIn, NotGoTypes, DepthNat
<1>1. Run[NewConvert(f, t, Nil)] =
        IF ~f.optional THEN Err ELSE Ok(IF t.kind \in {"ptr", "slice"} THEN Nil ELSE Zero[t])
  BY <1>0, RunNew
<1>2. Admits[Nil][f] <=> f.optional
  BY <1>0, AdmitsIs DEF AdmitsIn
<1>3. Arrived(t, Nil, Zero[t])
  <2>1. Zero[t] \in Values /\ Zero[t].type = t /\ Typed[Zero[t]]
    BY ZeroFacts, TypedZero
  <2>2. Means[Zero[t]][Nil]
    BY <1>0, <2>1, MeansIs DEF MeansIn
  <2> QED
    BY <2>1, <2>2 DEF Arrived
<1> QED
  BY <1>1, <1>2, <1>3, OutcomesAre DEF Good

-----------------------------------------------------------------------------
(* Scalars.                                                                *)
\* A pointer has the contents of what it points to.
LEMMA PointerIs ==
  ASSUME NEW v \in Values, v.type \in PlainTypes, v.atom \in Atoms
  PROVE  /\ PointerTo(v) \in Values /\ PointerTo(v).type = Ptr(v.type) /\ PointerTo(v).atom = v.atom
         /\ PointerTo(v).elems = v.elems
         /\ Typed[PointerTo(v)] <=> Typed[v]
         /\ \A a \in Values : a.type # NilType => (Means[PointerTo(v)][a] <=> Means[v][a])
<1> DEFINE g == PointerTo(v)
<1>1. /\ v.type \in ValueTypes /\ v.atom \in AllAtoms
      /\ v.elems \in Seq(Values) /\ v.fields \in [Keys -> Seq(Values)]
      /\ v = Value(v.type, v.atom, v.elems, v.fields)
  BY Parts
<1>2. g = Value(Ptr(v.type), v.atom, v.elems, v.fields)
  <2>1. g = [v EXCEPT !.type = Ptr(v.type)]
    BY <1>1 DEF PointerTo, Value
  <2> QED
    BY <1>1, <2>1 DEF Value
<1>3. g.type = Ptr(v.type) /\ g.atom = v.atom /\ g.elems = v.elems
  BY <1>2 DEF Value
<1>4. g \in Values
  <2> DEFINE n == Height[v]
  <2>1. n \in 1..Depth /\ v \in ValuesTo[n]
    BY HeightIs DEF HeightAt
  <2>2. ValuesTo[n] = Level(ValuesTo[n - 1])
    BY <2>1, ValuesToIs
  <2>3. Ptr(v.type) \in ValueTypes
    BY DEF ValueTypes, GoTypes
  <2>4. g \in Level(ValuesTo[n - 1])
    BY <1>2, <2>1, <2>2, <2>3 DEF Level, Value
  <2>5. n \in 0..Depth
    BY <2>1, DepthNat
  <2> HIDE DEF n, g
  <2> QED
    BY <2>2, <2>4, <2>5, ValuesSubset
<1> HIDE DEF g
<1>5. Base(g.type) = v.type /\ Base(v.type) = v.type /\ v.atom # NilPtr /\ v.atom # NilSlice
  <2>1. Base(Ptr(v.type)) = v.type
    BY PtrShape
  <2>2. Base(v.type) = v.type
    BY PlainTypesShape
  <2>3. v.atom # NilPtr /\ v.atom # NilSlice
    BY AtomsIn
  <2> QED
    BY <1>3, <2>1, <2>2, <2>3
<1>6. Typed[g] <=> Typed[v]
  <2>1. Typed[g] = TypedIn(Typed, g) /\ Typed[v] = TypedIn(Typed, v)
    BY <1>4, TypedIs
  <2>2. TypedIn(Typed, g) = TypedIn(Typed, v)
    BY <1>3, <1>5 DEF TypedIn
  <2> QED
    BY <2>1, <2>2
<1>7. ASSUME NEW a \in Values, a.type # NilType PROVE Means[g][a] <=> Means[v][a]
  <2>1. Means[g][a] = MeansIn(Means, g, a) /\ Means[v][a] = MeansIn(Means, v, a)
    BY <1>4, MeansIs
  <2>2. MeansIn(Means, g, a) = MeansIn(Means, v, a)
    BY <1>3, <1>5, <1>7 DEF MeansIn
  <2> QED
    BY <2>1, <2>2
<1> QED
  BY <1>3, <1>4, <1>6, <1>7 DEF g

\* e is the conversion of something to what t is or points to.
For(e, t) == e \in Conversions /\ e.desired = Base(t) /\ (e.desirePtr <=> t.kind = "ptr")

\* convertedVal keeps what a value stands for.
LEMMA ConvertedIs ==
  ASSUME NEW e, NEW t \in GoTypes, For(e, t), Base(t) \in PlainTypes,
         NEW v \in Values, v.type = Base(t), v.atom \in Atoms, Typed[v]
  PROVE  /\ ConvertedVal(e, v).status = "ok"
         /\ \A a \in Values : a.type # NilType /\ Means[v][a] => Arrived(t, a, ConvertedVal(e, v).val)
<1>1. CASE t.kind = "ptr"
  <2>1. ConvertedVal(e, v) = Ok(PointerTo(v)) /\ t = Ptr(Base(t))
    BY <1>1, GoTypesShape DEF For, ConvertedVal
  <2>2. /\ PointerTo(v) \in Values /\ PointerTo(v).type = t /\ Typed[PointerTo(v)]
        /\ \A a \in Values : a.type # NilType => (Means[PointerTo(v)][a] <=> Means[v][a])
    BY <2>1, PointerIs
  <2> QED
    BY <2>1, <2>2, OutcomesAre DEF Arrived
<1>2. CASE t.kind # "ptr"
  <2>1. ConvertedVal(e, v) = Ok(v) /\ Base(t) = t
    BY <1>2, GoTypesShape DEF For, ConvertedVal
  <2> QED
    BY <2>1, OutcomesAre DEF Arrived
<1> QED
  BY <1>1, <1>2

\* An atom of a scalar type.
LEMMA AtomMeans ==
  ASSUME NEW t \in PlainTypes, t.kind \in ScalarKinds, NEW x \in Atoms
  PROVE  /\ Atom(t, x) \in Values /\ Atom(t, x).type = t /\ Atom(t, x).atom = x /\ Typed[Atom(t, x)]
         /\ \A a \in Values : a.type # NilType /\ a.atom = x => Means[Atom(t, x)][a]
<1> DEFINE v == Atom(t, x)
<1>1. v \in Values
  <2>1. 1 \in 1..Depth /\ t \in ValueTypes /\ x \in AllAtoms
    BY DepthNat, BuiltinTypes DEF AllAtoms
  <2> QED
    BY <2>1, FlatValue
<1>2. v.type = t /\ v.atom = x /\ v.elems = <<>>
  BY DEF Atom, Value
<1> HIDE DEF v
<1>3. Base(t) = t /\ x # NilPtr /\ x # NilSlice /\ t.kind \notin {"slice", "struct"}
  BY PlainTypesShape, AtomsIn DEF ScalarKinds
<1>4. Typed[v]
  <2>1. TypedIn(Typed, v)
    BY <1>2, <1>3 DEF TypedIn
  <2> QED
    BY <1>1, <2>1, TypedIs
<1>5. ASSUME NEW a \in Values, a.type # NilType, a.atom = x PROVE Means[v][a]
  <2>1. MeansIn(Means, v, a)
    BY <1>2, <1>3, <1>5 DEF MeansIn
  <2> QED
    BY <1>1, <2>1, MeansIs
<1> QED
  BY <1>1, <1>2, <1>4, <1>5 DEF v

\* Scalars: what Admits asks for.
LEMMA AdmitsScalar ==
  ASSUME NEW a \in Values, NEW f \in IdlFields, a.type # NilType, ~f.isArray, f.type \notin DOMAIN AllFields
  PROVE  /\ f.type = "string" => (Admits[a][f] <=> a.type = String)
         /\ f.type = "float" => (Admits[a][f] <=> a.type = Float64)
         /\ f.type = "int" => (Admits[a][f] <=> a.type = Float64 /\ a.atom \notin Fractional)
         /\ f.type = "bool" => (Admits[a][f] <=> a.type = Bool)
         /\ f.type \in DOMAIN Enum => (Admits[a][f] <=> a.type = String /\ Contains(Enum[f.type], a.atom))
<1>1. Admits[a][f] = AdmitsIn(Admits, a, f)
  BY AdmitsIs
<1> QED
  BY <1>1, FieldKinds DEF AdmitsIn

LEMMA Different ==
  /\ Int64 # Float64 /\ String # Float64 /\ Bool # Float64 /\ String # Bool /\ Int64 # String /\ Int64 # Bool
  /\ NilType \notin {String, Int64, Float64, Bool, AnySlice, Map} /\ AnySlice \notin {String, Float64, Bool, Map}
  /\ Map \notin {String, Float64, Bool}
BY Kinds

\* Scalars and enums are converted as the IDL has them.
LEMMA ScalarGood ==
  ASSUME NEW f \in IdlFields, NEW p \in BOOLEAN, NEW t \in GoTypes, Fits(f, t, p),
         ~f.isArray, f.type \notin DOMAIN AllFields, NEW a \in Values, Json[a], a.type # NilType
  PROVE  Good(f, t, a, Run[NewConvert(f, t, a)])
<1> DEFINE u == Plain(f.type, p)
           e == StepTo(f, t, a)
           r == Run[NewConvert(f, t, a)]
<1>1. u \in PlainTypes /\ IsPlain(u, f.type, p) /\ Base(t) = u
  BY FitsIs
<1>2. u.kind \in ScalarKinds
  BY <1>1 DEF IsPlain, ScalarKinds
<1>3. /\ e \in Conversions /\ e.field = f /\ e.actual = a /\ e.desired = u /\ For(e, t)
  BY <1>1, StepIs DEF For
<1>4. r = IF a.type = t THEN Ok(a) ELSE ByKind(Run, e)
  BY RunNew
<1>5. f.type \in {"string", "int", "float", "bool"} \/ f.type \in DOMAIN Enum
  BY FieldKinds
<1>6. (a.atom \in Atoms /\ a.elems = <<>>) \/ a.type \in {AnySlice, Map}
  BY JsonFacts
<1>7. a.type \in {String, Float64, Bool, AnySlice, Map} /\ a.atom \in Atoms
  BY JsonFacts
<1> HIDE DEF u, e, r
<1>8. CASE a.type = t
  <2>1. t.kind # "ptr"
    BY <1>7, <1>8, Kinds
  <2>2. t = u
    BY <1>1, <2>1, GoTypesShape
  <2>3. t \in {String, Float64, Bool}
    <3>1. AnySlice.kind = "slice" /\ Map.kind = "map"
      BY Kinds
    <3>2. t # AnySlice /\ t # Map
      BY <1>2, <2>2, <3>1 DEF ScalarKinds
    <3> QED
      BY <1>7, <1>8, <3>2
  <2>4. Admits[a][f]
    <3>1. /\ f.type \in DOMAIN Enum => t # String /\ t.kind = "string"
          /\ f.type = "string" => t = String
          /\ f.type = "int" => t = Int64
          /\ f.type = "float" => t = Float64
          /\ f.type = "bool" => t = Bool
      BY <1>1, <2>2 DEF IsPlain
    <3>2. Float64.kind = "float64" /\ Bool.kind = "bool"
      BY Kinds
    <3>3. f.type \notin DOMAIN Enum /\ f.type # "int"
      BY <2>3, <3>1, <3>2, Different
    <3>4. f.type \in {"string", "float", "bool"}
      BY <1>5, <3>3
    <3>5. /\ f.type = "string" => (Admits[a][f] <=> a.type = String)
          /\ f.type = "float" => (Admits[a][f] <=> a.type = Float64)
          /\ f.type = "bool" => (Admits[a][f] <=> a.type = Bool)
      BY AdmitsScalar
    <3> QED
      BY <1>8, <3>1, <3>4, <3>5
  <2>5. Base(t) = t /\ t.kind \notin {"slice", "struct"} /\ a.elems = <<>>
    <3>1. Base(t) = t
      BY <1>1, <2>2
    <3>2. t.kind \notin {"slice", "struct"}
      BY <1>2, <2>2 DEF ScalarKinds
    <3>3. a.elems = <<>>
      BY <1>8, <2>3, JsonFacts, Different
    <3> QED
      BY <3>1, <3>2, <3>3
  <2>6. a.atom # NilPtr /\ a.atom # NilSlice
    BY <1>7, AtomsIn
  <2>7. Typed[a] /\ Means[a][a]
    <3>1. TypedIn(Typed, a)
      BY <1>8, <2>5, <2>6 DEF TypedIn
    <3>2. MeansIn(Means, a, a)
      BY <1>8, <2>5, <2>6 DEF MeansIn
    <3> QED
      BY <3>1, <3>2, TypedIs, MeansIs
  <2>8. Arrived(t, a, a)
    BY <1>8, <2>7 DEF Arrived
  <2>9. r = Ok(a)
    BY <1>4, <1>8
  <2> QED
    BY <2>4, <2>8, <2>9, OutcomesAre DEF Good, r
<1>9. CASE a.type # t
  <2>1. r = ByKind(Run, e)
    BY <1>4, <1>9
  <2> DEFINE v == ConvertedVal(e, Atom(u, a.atom))
  <2>2. v.status = "ok" /\ Arrived(t, a, v.val)
    <3>1. /\ Atom(u, a.atom) \in Values /\ Atom(u, a.atom).type = u /\ Atom(u, a.atom).atom = a.atom
          /\ Typed[Atom(u, a.atom)] /\ Means[Atom(u, a.atom)][a]
      BY <1>1, <1>2, <1>7, AtomMeans
    <3> QED
      BY <1>1, <1>3, <1>7, <3>1, ConvertedIs
  <2> HIDE DEF v
  <2>3. ASSUME r = v \/ r = Err, r = v <=> Admits[a][f] PROVE Good(f, t, a, r)
    <3>1. Err # v
      BY <2>2, OutcomesAre
    <3> QED
      BY <2>2, <2>3, <3>1, OutcomesAre DEF Good
  <2>4. CASE u.kind = "string"
    <3>1. r = StringOrEnum(e)
      BY <1>1, <1>3, <2>1, <2>4, ByKindIs
    <3>2. CASE f.type = "string"
      <4>1. u = String
        BY <1>1, <3>2 DEF IsPlain
      <4>2. Admits[a][f] <=> a.type = String
        BY <3>2, AdmitsScalar
      <4>3. a.type.kind = "string" <=> a.type = String
        BY <1>7, Kinds
      <4>4. a.type # String => r = Err
        BY <1>3, <3>1, <4>3 DEF StringOrEnum
      <4>5. a.type = String => r = ConvertedVal(e, a)
        BY <1>3, <3>1, <3>2, <4>1, <4>3 DEF StringOrEnum
      <4>6. ASSUME a.type = String PROVE ConvertedVal(e, a).status = "ok" /\ Arrived(t, a, ConvertedVal(e, a).val)
        <5>0. a.atom # NilPtr /\ a.atom # NilSlice /\ Base(u) = u /\ a.elems = <<>> /\ u.kind \notin {"slice", "struct"}
          BY <1>1, <1>2, <1>7, <4>6, AtomsIn, PlainTypesShape, JsonFacts, Different DEF ScalarKinds
        <5>1. TypedIn(Typed, a)
          BY <4>1, <4>6, <5>0 DEF TypedIn
        <5>2. MeansIn(Means, a, a)
          BY <4>1, <4>6, <5>0 DEF MeansIn
        <5>3. Typed[a] /\ Means[a][a]
          BY <5>1, <5>2, TypedIs, MeansIs
        <5> QED
          BY <1>1, <1>3, <1>7, <4>1, <4>6, <5>3, ConvertedIs
      <4> QED
        BY <4>2, <4>4, <4>5, <4>6, OutcomesAre DEF Good, r
    <3>3. CASE f.type # "string"
      <4>1. f.type \in DOMAIN Enum
        BY <1>1, <1>5, <2>4, <3>3, Kinds DEF IsPlain
      <4>2. Admits[a][f] <=> a.type = String /\ Contains(Enum[f.type], a.atom)
        BY <4>1, AdmitsScalar
      <4>3. a.type.kind = "string" <=> a.type = String
        BY <1>7, Kinds
      <4>4. InEnum(e) <=> Contains(Enum[f.type], a.atom)
        BY <1>3, <4>1 DEF InEnum
      <4>5. r = IF a.type = String /\ Contains(Enum[f.type], a.atom) THEN v ELSE Err
        BY <1>3, <3>1, <3>3, <4>3, <4>4 DEF StringOrEnum, v
      <4>6. Err # v
        BY <2>2, OutcomesAre
      <4> QED
        BY <2>3, <4>2, <4>5, <4>6 DEF r
    <3> QED
      BY <3>2, <3>3
  <2>5. CASE u.kind # "string"
    <3>1. r = Scalar(e)
      BY <1>1, <1>2, <1>3, <2>1, <2>5, ByKindIs DEF ScalarKinds
    <3>2. f.type \in {"int", "float", "bool"}
      BY <1>1, <1>5, <2>5, Kinds DEF IsPlain
    <3>3. f.type = IdlType[u.kind]
      <4>1. /\ f.type = "int" => u = Int64
            /\ f.type = "float" => u = Float64
            /\ f.type = "bool" => u = Bool
        BY <1>1 DEF IsPlain
      <4>2. Float64.kind = "float64" /\ Bool.kind = "bool" /\ Int64.kind = "int64"
        BY Kinds
      <4>3. IdlType["int64"] = "int" /\ IdlType["float64"] = "float" /\ IdlType["bool"] = "bool"
        BY DEF IdlType
      <4> QED
        BY <3>2, <4>1, <4>2, <4>3
    <3>4. r = IF Accepts(u, a) THEN v ELSE Err
      BY <1>3, <3>1, <3>3 DEF Scalar, v
    <3>5. Accepts(u, a) <=> Admits[a][f]
      <4>1. CASE f.type = "int"
        <5>1. u = Int64
          BY <1>1, <4>1 DEF IsPlain
        <5> QED
          BY <1>7, <4>1, <5>1, AdmitsScalar, Different, Kinds DEF Accepts
      <4>2. CASE f.type = "float"
        <5>1. u = Float64
          BY <1>1, <4>2 DEF IsPlain
        <5> QED
          BY <1>7, <4>2, <5>1, AdmitsScalar, Different, Kinds DEF Accepts
      <4>3. CASE f.type = "bool"
        <5>1. u = Bool
          BY <1>1, <4>3 DEF IsPlain
        <5> QED
          BY <1>7, <4>3, <5>1, AdmitsScalar, Different, Kinds DEF Accepts
      <4> QED
        BY <3>2, <4>1, <4>2, <4>3
    <3>6. Err # v
      BY <2>2, OutcomesAre
    <3> QED
      BY <2>3, <3>4, <3>5, <3>6 DEF r
  <2> QED
    BY <2>4, <2>5
<1> QED
  BY <1>8, <1>9

-----------------------------------------------------------------------------
(* Slices.                                                                 *)
\* What reaches a place of type t.
Placed(f, t, a, r) ==
  /\ r.status = "ok" => Admits[a][f] /\ Arrived(t, a, r.val)
  /\ r.status = "error" => ~Admits[a][f]
  /\ r.status = "panic" => HasNull[a]

LEMMA NullHas == ASSUME NEW a \in Values, a.type = NilType PROVE HasNull[a]
BY HasNullIs DEF NullIn

LEMMA NilIsNil == Nil \in Values /\ Nil.type = NilType /\ \A t \in GoTypes : t # NilType
<1>1. Nil.type = NilType
  BY DEF Nil, Compound, Value
<1> QED
  BY <1>1, NilIn, NotGoTypes, DepthNat

\* What reflect lets be assigned has arrived.
LEMMA AssignedGood ==
  ASSUME NEW f, NEW t \in GoTypes, NEW a \in Values, NEW r, Good(f, t, a, r)
  PROVE  Placed(f, t, a, Assigned(t, r))
<1>1. CASE r.status = "ok" /\ r.val.type # t /\ Assigned(t, r) = Panic
  <2>1. a = Nil
    BY <1>1 DEF Good, Arrived
  <2>2. HasNull[a]
    BY <2>1, NullHas, NilIsNil
  <2> QED
    BY <1>1, <2>2, OutcomesAre DEF Placed
<1>2. CASE ~(r.status = "ok" /\ r.val.type # t) /\ Assigned(t, r) = r
  <2>1. r.status = "ok" => r.val # Nil
    BY <1>2, NilIsNil
  <2> QED
    BY <1>2, <2>1 DEF Good, Placed
<1> QED
  BY <1>1, <1>2, AssignedIs

\* A conversion that goes on after the pointer step, as later elements of a slice do.
LEMMA TurnedIs ==
  ASSUME NEW f \in IdlFields, NEW t \in GoTypes, t.kind = "ptr", Base(t).kind = "struct", NEW a \in Values, Json[a]
  PROVE  Run[StepTo(f, t, a)] =
           IF a.type # NilType THEN Run[NewConvert(f, t, a)]
           ELSE IF ~f.optional THEN Err ELSE Ok(Zero[Base(t)])
<1> DEFINE c == StepTo(f, t, a)
<1>1. /\ c \in Conversions /\ c.field = f /\ c.actual = a /\ c.desired = Base(t) /\ c.desired \in GoTypes
  BY StepIs
<1>2. a.type # t /\ a.type # Base(t)
  <2>1. a.type.kind \notin {"ptr", "struct"}
    BY JsonFacts, Kinds
  <2> QED
    BY <2>1
<1>3. Run[NewConvert(f, t, a)] = IF a.type # NilType THEN ByKind(Run, c)
                                ELSE IF ~f.optional THEN Err
                                ELSE Ok(IF t.kind \in {"ptr", "slice"} THEN Nil ELSE Zero[t])
  BY <1>2, RunNew
<1> HIDE DEF c
<1>4. Elem(c) = c
  BY <1>1, ElemIs
<1>5. Run[c] = RunOf(Run, c)
  BY <1>1, RunIs
<1>6. Run[c] = IF a.type # NilType THEN ByKind(Run, c)
               ELSE IF ~f.optional THEN Err ELSE Ok(Zero[Base(t)])
  BY <1>1, <1>2, <1>4, <1>5, NotGoTypes DEF RunOf
<1> QED
  BY <1>3, <1>6 DEF c

\* So it has for an element, whichever convert object was used.
LEMMA ElementGood ==
  ASSUME NEW f \in IdlFields, NEW p \in BOOLEAN, NEW C, NEW t \in GoTypes, Fits(f, t, p), Clean(f, p, C), ~f.isArray,
         t.kind = "ptr" => f.type \in DOMAIN AllFields,
         NEW a \in Values, Json[a], GoodFor(a, p, C),
         NEW d, d = NewConvert(f, t, a) \/ d = StepTo(f, t, a)
  PROVE  Placed(f, t, a, Assigned(t, Run[d]))
<1>1. Good(f, t, a, Run[NewConvert(f, t, a)])
  BY DEF GoodFor
<1>2. CASE d = NewConvert(f, t, a)
  BY <1>1, <1>2, AssignedGood
<1>3. CASE d = StepTo(f, t, a) /\ t.kind # "ptr"
  <2>1. StepTo(f, t, a) = NewConvert(f, t, a)
    <3>1. NewConvert(f, t, a) \in Conversions /\ NewConvert(f, t, a).desired = t
      BY NewConvertIs
    <3> QED
      BY <1>3, <3>1, ElemIs DEF StepTo
  <2> QED
    BY <1>1, <1>3, <2>1, AssignedGood
<1>4. CASE d = StepTo(f, t, a) /\ t.kind = "ptr"
  <2>1. Base(t).kind = "struct"
    <3>1. Base(t) = Plain(f.type, p) /\ IsPlain(Plain(f.type, p), f.type, p)
      BY FitsIs
    <3> QED
      BY <1>4, <3>1 DEF IsPlain
  <2>2. Run[d] = IF a.type # NilType THEN Run[NewConvert(f, t, a)]
                 ELSE IF ~f.optional THEN Err ELSE Ok(Zero[Base(t)])
    BY <1>4, <2>1, TurnedIs
  <2>3. CASE a.type # NilType
    BY <1>1, <2>2, <2>3, AssignedGood
  <2>4. CASE a.type = NilType /\ ~f.optional
    <3>1. ~Admits[a][f]
      BY <2>4, AdmitsIs DEF AdmitsIn
    <3>2. Assigned(t, Run[d]) = Err
      BY <2>2, <2>4, OutcomesAre DEF Assigned
    <3> QED
      BY <3>1, <3>2, OutcomesAre DEF Placed
  <2>5. CASE a.type = NilType /\ f.optional
    <3>1. Zero[Base(t)].type = Base(t) /\ Base(t) # t
      <4>1. Base(t) \in GoTypes
        BY TypeHeightIs
      <4>2. Zero[Base(t)].type = Base(t)
        BY <4>1, ZeroFacts
      <4> QED
        BY <1>4, <2>1, <4>2
    <3>2. Assigned(t, Run[d]) = Panic
      BY <2>2, <2>5, <3>1, OutcomesAre DEF Assigned
    <3>3. HasNull[a]
      BY <2>5, NullHas
    <3> QED
      BY <3>2, <3>3, OutcomesAre DEF Placed
  <2> QED
    BY <2>3, <2>4, <2>5
<1> QED
  BY <1>2, <1>3, <1>4

LowerGood(a, p, C) == \A w \in Values : Height[w] < Height[a] /\ Json[w] => GoodFor(w, p, C)

\* The elements of an array, each on its own.
LEMMA StepsGood ==
  ASSUME NEW f \in IdlFields, NEW p \in BOOLEAN, NEW C, NEW t \in GoTypes, Fits(f, t, p), Clean(f, p, C), f.isArray,
         NEW a \in Values, Json[a], LowerGood(a, p, C), NEW x \in DOMAIN a.elems
  PROVE  /\ a.elems[x] \in Values
         /\ Placed(Element(f), t.elem[1], a.elems[x], ConvertElement(Run, StepTo(f, t, a), x))
<1> DEFINE e == StepTo(f, t, a)
           w == a.elems[x]
           u == t.elem[1]
           g == Element(f)
           d == ElementOf(e, x)
<1>1. t.kind = "slice" /\ Base(t) = t /\ Fits(g, u, p) /\ u \in GoTypes
  BY FitsIs
<1>2. e \in Conversions /\ e.field = f /\ e.actual = a /\ e.desired = t
  BY <1>1, StepIs
<1>3. w \in Values /\ Height[w] < Height[a] /\ Json[w]
  BY Parts, JsonFacts
<1>4. g \in IdlFields /\ g.type = f.type /\ ~g.isArray
  BY FieldParts
<1>5. Clean(g, p, C)
  BY <1>4 DEF Clean
<1>6. u.kind = "ptr" => f.type \in DOMAIN AllFields
  <2> DEFINE q == Plain(f.type, p)
  <2>1. t = SliceOf(q) \/ (f.type \in DOMAIN AllFields /\ t = SliceOf(Ptr(q)))
    BY DEF Fits
  <2>2. q \in PlainTypes
    BY FitsIs
  <2> HIDE DEF q
  <2>3. q.kind # "ptr" /\ SliceOf(q).elem[1] = q
    BY <2>2, PlainTypesShape, PtrShape DEF ScalarKinds
  <2> QED
    BY <2>1, <2>3
<1>7. GoodFor(w, p, C)
  BY <1>3 DEF LowerGood
<1>8. d = NewConvert(g, u, w)
  BY <1>2 DEF ElementOf
<1>9. \E h \in {d, Elem(d)} : ConvertElement(Run, e, x) = Assigned(u, Run[h])
  <2> HIDE DEF e, d
  <2>1. \E h \in {ElementOf(e, x), Elem(ElementOf(e, x))} : ConvertElement(Run, e, x) = Assigned(e.desired.elem[1], Run[h])
    BY <1>1, <1>2, ElementIs
  <2> QED
    BY <1>2, <2>1 DEF d
<1>10. Elem(d) = StepTo(g, u, w)
  BY <1>8 DEF StepTo
<1> HIDE DEF e, d, w, u, g
<1>11. PICK h : h \in {NewConvert(g, u, w), StepTo(g, u, w)} /\ ConvertElement(Run, e, x) = Assigned(u, Run[h])
  BY <1>8, <1>9, <1>10
<1>12. Placed(g, u, w, Assigned(u, Run[h]))
  BY <1>1, <1>3, <1>4, <1>5, <1>6, <1>7, <1>11, ElementGood
<1> QED
  BY <1>3, <1>11, <1>12 DEF e, w, u, g

\* Arrays are converted as the IDL has them.
LEMMA SliceGood ==
  ASSUME NEW f \in IdlFields, NEW p \in BOOLEAN, NEW C, NEW t \in GoTypes, Fits(f, t, p), Clean(f, p, C), f.isArray,
         NEW a \in Values, Json[a], a.type # NilType, LowerGood(a, p, C)
  PROVE  Good(f, t, a, Run[NewConvert(f, t, a)])
<1> DEFINE e == StepTo(f, t, a)
           r == Run[NewConvert(f, t, a)]
           n == Len(a.elems)
           steps == SliceSteps(Run, e)
           v == Compound(t, [x \in DOMAIN steps |-> steps[x].val])
<1>1. t \in SliceTypes /\ t.kind = "slice" /\ Base(t) = t
  BY FitsIs
<1>2. e \in Conversions /\ e.field = f /\ e.actual = a /\ e.desired = t
  BY <1>1, StepIs
<1>3. a.type # t /\ (a.type.kind = "slice" => a.type = AnySlice)
  BY <1>1, JsonFacts, NotGoTypes
<1>4. Admits[a][f] <=> a.type = AnySlice /\ \A x \in DOMAIN a.elems : Admits[a.elems[x]][Element(f)]
  BY AdmitsIs DEF AdmitsIn
<1>5. r = IF a.type.kind = "slice" THEN SliceFrom(steps, e) ELSE Err
  <2> HIDE DEF e, steps
  <2>1. r = ByKind(Run, e)
    BY <1>3, RunNew DEF e
  <2>2. ByKind(Run, e) = IF e.actual.type.kind = "slice" THEN SliceFrom(SliceSteps(Run, e), e) ELSE Err
    BY <1>1, <1>2, ByKindIs, PlainTypesShape DEF ScalarKinds
  <2> QED
    BY <1>2, <2>1, <2>2 DEF steps
<1>6. CASE a.type # AnySlice
  <2>1. r = Err
    BY <1>3, <1>5, <1>6
  <2>2. ~Admits[a][f]
    BY <1>4, <1>6
  <2> HIDE DEF r
  <2> QED
    BY <2>1, <2>2, OutcomesAre DEF Good, r
<1>7. CASE a.type = AnySlice
  <2>0. a.elems \in Seq(Values)
    BY Parts
  <2>1. n \in Nat /\ DOMAIN steps = 1..n /\ DOMAIN a.elems = 1..n
        /\ \A x \in 1..n : steps[x] = ConvertElement(Run, e, x)
    BY <1>2, <2>0 DEF SliceSteps
  <2>2. \A x \in 1..n : a.elems[x] \in Values /\ Placed(Element(f), t.elem[1], a.elems[x], steps[x])
    <3> HIDE DEF e, steps, n
    <3> SUFFICES ASSUME NEW x \in 1..n PROVE a.elems[x] \in Values /\ Placed(Element(f), t.elem[1], a.elems[x], steps[x])
      OBVIOUS
    <3>1. x \in DOMAIN a.elems
      BY <2>1
    <3>2. a.elems[x] \in Values /\ Placed(Element(f), t.elem[1], a.elems[x], ConvertElement(Run, StepTo(f, t, a), x))
      BY <3>1, StepsGood
    <3> QED
      BY <2>1, <3>2 DEF e
  <2>3. r = InOrder(steps, v)
    <3>1. AnySlice.kind = "slice"
      BY Kinds
    <3>2. SliceFrom(steps, e) = InOrder(steps, Compound(e.desired, [x \in DOMAIN steps |-> steps[x].val]))
      BY DEF SliceFrom
    <3> HIDE DEF e, steps, r
    <3> QED
      BY <1>2, <1>5, <1>7, <3>1, <3>2
  <2> HIDE DEF r, e, steps, n, v
  <2>4. CASE \E x \in 1..n : steps[x].status # "ok" /\ r = steps[x]
    <3>1. PICK x \in 1..n : steps[x].status # "ok" /\ r = steps[x]
      BY <2>4
    <3>2. a.elems[x] \in Values /\ x \in DOMAIN a.elems /\ Placed(Element(f), t.elem[1], a.elems[x], r)
      BY <2>1, <2>2, <3>1
    <3>3. r.status = "error" => ~Admits[a][f]
      BY <1>4, <3>2 DEF Placed
    <3>4. r.status = "panic" => HasNull[a]
      BY <3>2, HasNullIs DEF Placed, NullIn
    <3> QED
      BY <3>1, <3>3, <3>4 DEF Good, r
  <2>5. CASE (\A x \in 1..n : steps[x].status = "ok") /\ r = Ok(v)
    <3>1. \A x \in 1..n : Admits[a.elems[x]][Element(f)] /\ Arrived(t.elem[1], a.elems[x], steps[x].val)
      BY <2>2, <2>5 DEF Placed
    <3>2. Admits[a][f]
      BY <1>4, <1>7, <2>1, <3>1
    <3>3. r \in Outcomes(Values)
      BY RunNew DEF r
    <3>4. v \in Values
      BY <2>5, <3>3, OutcomesAre DEF Outcomes
    <3>5. v.type = t /\ v.atom = "" /\ v.elems = [x \in 1..n |-> steps[x].val]
      BY <2>1 DEF Compound, Value, v
    <3>6. v.atom \notin {NilPtr, NilSlice}
      BY <3>5, AtomsIn
    <3>7. Typed[v]
      <4>1. \A x \in DOMAIN v.elems : v.elems[x].type = t.elem[1] /\ Typed[v.elems[x]]
        BY <3>1, <3>5 DEF Arrived
      <4>2. TypedIn(Typed, v)
        BY <1>1, <3>5, <3>6, <4>1 DEF TypedIn
      <4> QED
        BY <3>4, <4>2, TypedIs
    <3>8. Means[v][a]
      <4>1. \A x \in DOMAIN a.elems : Means[v.elems[x]][a.elems[x]]
        <5>1. \A x \in 1..n : Means[steps[x].val][a.elems[x]]
          BY <3>1 DEF Arrived
        <5>2. \A x \in 1..n : v.elems[x] = steps[x].val
          BY <3>5
        <5> QED
          BY <2>1, <5>1, <5>2
      <4>2. Len(v.elems) = Len(a.elems)
        <5>1. v.elems \in Seq(Values) /\ DOMAIN v.elems = 1..n
          BY <3>4, <3>5, Parts
        <5> QED
          BY <2>0, <2>1, <5>1
      <4>3. MeansIn(Means, v, a)
        BY <1>1, <3>5, <3>6, <4>1, <4>2 DEF MeansIn
      <4> QED
        BY <3>4, <4>3, MeansIs
    <3> QED
      BY <2>5, <3>2, <3>4, <3>5, <3>7, <3>8, OutcomesAre DEF Good, Arrived, r
  <2> QED
    BY <2>1, <2>3, <2>4, <2>5, InOrderIs
<1> QED
  BY <1>6, <1>7

-----------------------------------------------------------------------------
(* Structs.                                                                *)
LEMMA ZeroArrived == \A t \in GoTypes : Arrived(t, Nil, Zero[t])
<1> SUFFICES ASSUME NEW t \in GoTypes PROVE Arrived(t, Nil, Zero[t])
  OBVIOUS
<1>1. Zero[t] \in Values /\ Zero[t].type = t /\ Typed[Zero[t]]
  BY ZeroFacts, TypedZero
<1>2. MeansIn(Means, Zero[t], Nil)
  BY <1>1, NilIsNil DEF MeansIn
<1>3. Means[Zero[t]][Nil]
  BY <1>1, <1>2, NilIsNil, MeansIs
<1> QED
  BY <1>1, <1>3 DEF Arrived

\* The generated type of a field fits it.
LEMMA GoTypeFits ==
  ASSUME NEW f \in IdlFields, NEW p \in BOOLEAN, ~(p /\ f.optional /\ f.isArray)
  PROVE  Fits(f, GoType(f, p), p)
<1>1. /\ GoType(f, p) = Bare(f, p) \/ GoType(f, p) = Ptr(Bare(f, p))
      /\ GoType(f, p) = Ptr(Bare(f, p)) <=> f.optional /\ (p \/ (f.type \in DOMAIN AllFields /\ ~f.isArray))
  BY GoTypeShape
<1> QED
  BY <1>1, FieldParts DEF Fits, Bare

\* What is stored in a field.
LEMMA StoredGood ==
  ASSUME NEW f, NEW t \in GoTypes, NEW a \in Values, NEW r, Good(f, t, a, r)
  PROVE  Placed(f, t, a, Stored(t, r))
<1>1. CASE t.kind = "ptr" /\ r.status = "ok" /\ r.val.type.kind # "ptr"
  <2>1. Stored(t, r) = Ok(Zero[t])
    BY <1>1 DEF Stored
  <2>2. a = Nil /\ Admits[a][f]
    BY <1>1 DEF Good, Arrived
  <2>3. Arrived(t, a, Zero[t])
    BY <2>2, ZeroArrived
  <2> QED
    BY <2>1, <2>2, <2>3, OutcomesAre DEF Placed
<1>2. CASE ~(t.kind = "ptr" /\ r.status = "ok" /\ r.val.type.kind # "ptr")
  <2>1. Stored(t, r) = Assigned(t, r)
    BY <1>2 DEF Stored
  <2> QED
    BY <2>1, AssignedGood
<1> QED
  BY <1>1, <1>2

\* A struct's own fields have a place each.
LEMMA OwnSlot ==
  ASSUME NEW s \in DOMAIN AllFields, NEW x \in DOMAIN AllFields[s], NEW p,
         NEW e, e.desired = Struct(s, p), NEW g, g = AllFields[s][x], NEW run
  PROVE  /\ Places(AllFields[s], g.name) = {x}
         /\ ConvertField(run, e, g) =
              IF Has(e.actual, g.name)
              THEN Stored(GoType(g, p), run[NewConvert(g, GoType(g, p), Member(e.actual, g.name))])
              ELSE IF g.optional THEN Ok(Zero[GoType(g, p)]) ELSE Err
<1>1. Places(AllFields[s], g.name) = {x}
  BY StructFields DEF Places
<1>2. e.desired.name = s /\ e.desired.toPtr = p
  BY DEF Struct, Type
<1>3. FieldType(e.desired, x) = GoType(g, p)
  BY <1>2 DEF FieldType
<1> DEFINE slots == {FieldType(e.desired, i) : i \in Places(AllFields[e.desired.name], g.name)}
<1>4. slots = {GoType(g, p)}
  BY <1>1, <1>2, <1>3
<1>5. (CHOOSE t \in slots : TRUE) = GoType(g, p) /\ slots # {}
  BY <1>4
<1>6. ConvertField(run, e, g) =
        IF slots = {} THEN Err
        ELSE IF Has(e.actual, g.name)
        THEN Stored(CHOOSE t \in slots : TRUE, run[NewConvert(g, CHOOSE t \in slots : TRUE, Member(e.actual, g.name))])
        ELSE IF g.optional THEN Ok(Zero[CHOOSE t \in slots : TRUE]) ELSE Err
  BY DEF ConvertField
<1> HIDE DEF slots
<1> QED
  BY <1>1, <1>5, <1>6

MemberOf(a, k) == IF Has(a, k) THEN Member(a, k) ELSE Nil
FieldAdmitted(a, g) == IF Has(a, g.name) THEN Admits[Member(a, g.name)][g] ELSE g.optional

\* What becomes of a field of a struct.
FieldPlaced(g, t, a, r) ==
  /\ r.status = "ok" => FieldAdmitted(a, g) /\ Arrived(t, MemberOf(a, g.name), r.val)
  /\ r.status = "error" => ~FieldAdmitted(a, g)
  /\ r.status = "panic" => HasNull[a]

\* A field of a struct is converted as the IDL has it, if it is there at all.
LEMMA FieldGood ==
  ASSUME NEW s \in DOMAIN AllFields, NEW x \in DOMAIN AllFields[s], NEW p \in BOOLEAN, NEW C,
         Closed(p, C), p => s \in C,
         NEW e, e.desired = Struct(s, p), e.actual \in Values, Json[e.actual], LowerGood(e.actual, p, C)
  PROVE  FieldPlaced(AllFields[s][x], GoType(AllFields[s][x], p), e.actual, ConvertField(Run, e, AllFields[s][x]))
<1> DEFINE g == AllFields[s][x]
           t == GoType(g, p)
           a == e.actual
           m == Member(a, g.name)
           r == Run[NewConvert(g, t, m)]
<1>1. g \in IdlFields /\ g.name \in Keys
  BY StructFields, FieldParts
<1>2. Clean(g, p, C)
  <2>1. p => Clean(g, p, C)
    BY DEF Closed
  <2>2. ~p => Clean(g, p, C)
    BY DEF Clean
  <2> QED
    BY <2>1, <2>2
<1>3. ConvertField(Run, e, g) =
        IF Has(a, g.name) THEN Stored(t, r) ELSE IF g.optional THEN Ok(Zero[t]) ELSE Err
  BY OwnSlot
<1> HIDE DEF g
<1>4. t \in GoTypes /\ Fits(g, t, p)
  BY <1>1, <1>2, GoTypeShape, GoTypeFits DEF Clean
<1>5. CASE Has(a, g.name)
  <2>1. m \in Values /\ Height[m] < Height[a] /\ Json[m]
    BY <1>1, <1>5, MemberLower, JsonFacts
  <2>2. Good(g, t, m, r)
    <3>1. GoodFor(m, p, C)
      BY <2>1 DEF LowerGood
    <3> HIDE DEF t, m
    <3> QED
      BY <1>1, <1>2, <1>4, <3>1 DEF GoodFor
  <2>3. HasNull[m] => HasNull[a]
    BY <1>1, <1>5, HasNullIs DEF NullIn
  <2> HIDE DEF r, t, m, a
  <2>4. Placed(g, t, m, Stored(t, r))
    BY <1>4, <2>1, <2>2, StoredGood
  <2> QED
    BY <1>3, <1>5, <2>3, <2>4 DEF Placed, FieldPlaced, FieldAdmitted, MemberOf, a, m, t, g
<1>6. CASE ~Has(a, g.name)
  <2>1. Arrived(t, Nil, Zero[t])
    BY <1>4, ZeroArrived
  <2> HIDE DEF r, t, a
  <2> QED
    BY <1>3, <1>6, <2>1, OutcomesAre DEF FieldPlaced, FieldAdmitted, MemberOf, a, t, g
<1> QED
  BY <1>5, <1>6

LEMMA PointerValue ==
  ASSUME NEW t, NEW a, NEW s, NEW m, NEW v, v = Value(t, a, s, m)
  PROVE  /\ PointerTo(v) = Value(Ptr(t), a, s, m)
         /\ v.type = t /\ v.atom = a /\ v.elems = s /\ v.fields = m
BY DEF PointerTo, Value

Blank == ""

LEMMA CompoundValue ==
  /\ Blank \in Atoms /\ Blank \notin {NilPtr, NilSlice}
  /\ \A t, s : Compound(t, s) = Value(t, Blank, s, NoFields)
<1>1. Blank \in Atoms
  BY AtomsIn DEF Blank
<1>2. \A t, s : Compound(t, s) = Value(t, Blank, s, NoFields)
  BY Zenon DEF Compound, Blank
<1> QED
  BY <1>1, <1>2, AtomsIn

\* The contents of a value, with another type.
LEMMA Retyped ==
  ASSUME NEW g \in Values, NEW t \in ValueTypes
  PROVE  Value(t, g.atom, g.elems, g.fields) \in Values
<1> DEFINE n == Height[g]
<1>1. n \in 1..Depth /\ g \in ValuesTo[n]
  BY HeightIs DEF HeightAt
<1>2. ValuesTo[n] = Level(ValuesTo[n - 1])
  BY <1>1, ValuesToIs
<1>3. Value(t, g.atom, g.elems, g.fields) \in Level(ValuesTo[n - 1])
  BY <1>1, <1>2 DEF Level, Value
<1>4. n \in 0..Depth
  BY <1>1, DepthNat
<1> HIDE DEF n
<1> QED
  BY <1>2, <1>3, <1>4, ValuesSubset

LEMMA AdmitsStruct ==
  ASSUME NEW a \in Values, NEW f \in IdlFields, a.type # NilType, ~f.isArray, f.type \in DOMAIN AllFields
  PROVE  Admits[a][f] <=>
           a.type = Map /\ \A x \in DOMAIN AllFields[f.type] : FieldAdmitted(a, AllFields[f.type][x])
<1>1. Admits[a][f] = AdmitsIn(Admits, a, f)
  BY AdmitsIs
<1>2. AdmitsIn(Admits, a, f) =
        (a.type = Map /\ \A g \in ToSet(AllFields[f.type]) : FieldAdmitted(a, g))
  BY FieldKinds DEF AdmitsIn, FieldAdmitted
<1>3. ToSet(AllFields[f.type]) = {AllFields[f.type][i] : i \in DOMAIN AllFields[f.type]}
  BY FieldsOf
<1> QED
  BY <1>1, <1>2, <1>3

\* A struct whose fields all arrived.
LEMMA StructArrived ==
  ASSUME NEW s \in DOMAIN AllFields, NEW p \in BOOLEAN, NEW a \in Values, a.type # NilType,
         NEW v \in Values, v.type = Struct(s, p), v.atom = Blank,
         DOMAIN v.elems = DOMAIN AllFields[s],
         \A i \in DOMAIN AllFields[s] :
           Arrived(GoType(AllFields[s][i], p), MemberOf(a, AllFields[s][i].name), v.elems[i])
  PROVE  Arrived(v.type, a, v)
<1>1. Base(v.type) = v.type /\ v.type.kind = "struct" /\ v.type.name = s /\ v.type.toPtr = p
  <2>1. Struct(s, p).kind = "struct" /\ Struct(s, p).name = s /\ Struct(s, p).toPtr = p
    BY DEF Struct, Type
  <2> QED
    BY <2>1 DEF Base
<1>2. v.atom \notin {NilPtr, NilSlice}
  BY CompoundValue
<1>3. AllFields[s] \in Seq(IdlFields) /\ v.elems \in Seq(Values)
  BY StructFields, Parts
<1>4. DOMAIN v.elems = DOMAIN AllFields[s] /\ Len(v.elems) = Len(AllFields[s])
  <2> DEFINE own == AllFields[s]
             w == v.elems
  <2>1. own \in Seq(IdlFields) /\ w \in Seq(Values) /\ DOMAIN w = DOMAIN own
    BY <1>3
  <2> HIDE DEF own, w
  <2>2. DOMAIN w = DOMAIN own /\ Len(w) = Len(own)
    <3> DEFINE k == Len(w)
               m == Len(own)
    <3>1. DOMAIN w = 1..k /\ k \in Nat
      BY <2>1
    <3>2. DOMAIN own = 1..m /\ m \in Nat
      BY <2>1
    <3>3. 1..k = 1..m
      BY <2>1, <3>1, <3>2
    <3>4. k = m
      <4> HIDE DEF k, m
      <4>1. ~(k < m)
        <5>1. k < m => m \in 1..m /\ m \notin 1..k
          BY <3>1, <3>2
        <5> QED
          BY <3>3, <5>1
      <4>2. ~(m < k)
        <5>1. m < k => k \in 1..k /\ k \notin 1..m
          BY <3>1, <3>2
        <5> QED
          BY <3>3, <5>1
      <4> QED
        BY <3>1, <3>2, <4>1, <4>2
    <3> HIDE DEF k, m
    <3> QED
      BY <2>1, <3>4 DEF k, m
  <2> QED
    BY <2>2 DEF own, w
<1>5. \A i \in DOMAIN v.elems :
        /\ v.elems[i].type = FieldType(v.type, i) /\ Typed[v.elems[i]]
        /\ Means[v.elems[i]][MemberOf(a, AllFields[s][i].name)]
  BY <1>1, <1>4 DEF Arrived, FieldType
<1>6. TypedIn(Typed, v)
  BY <1>1, <1>2, <1>4, <1>5 DEF TypedIn
<1>7. MeansIn(Means, v, a)
  BY <1>1, <1>2, <1>5 DEF MeansIn, MemberOf
<1> QED
  BY <1>6, <1>7, TypedIs, MeansIs DEF Arrived

\* Structs are converted as the IDL has them.
LEMMA StructGood ==
  ASSUME NEW f \in IdlFields, NEW p \in BOOLEAN, NEW C, NEW t \in GoTypes, Fits(f, t, p), Clean(f, p, C), ~f.isArray,
         f.type \in DOMAIN AllFields, Closed(p, C),
         NEW a \in Values, Json[a], a.type # NilType, LowerGood(a, p, C)
  PROVE  Good(f, t, a, Run[NewConvert(f, t, a)])
<1> DEFINE s == f.type
           u == Struct(s, p)
           own == AllFields[s]
           e == StepTo(f, t, a)
           r == Run[NewConvert(f, t, a)]
           n == Len(own)
           steps == StructSteps(Run, e)
           slot(i) == IF Places(AllFields[e.field.type], AllFields[e.desired.name][i].name) = {}
                      THEN Zero[FieldType(e.desired, i)]
                      ELSE steps[CHOOSE x \in Places(AllFields[e.field.type], AllFields[e.desired.name][i].name) : TRUE].val
           v == Compound(e.desired, [i \in DOMAIN AllFields[e.desired.name] |-> slot(i)])
           all == InOrder(steps, v)
<1>1. Base(t) = u /\ u \in PlainTypes /\ u.kind = "struct" /\ u.name = s /\ t.kind # "slice"
  <2>1. Base(t) = Plain(s, p) /\ Plain(s, p) \in PlainTypes /\ IsPlain(Plain(s, p), s, p) /\ t.kind # "slice"
    BY FitsIs
  <2>2. Plain(s, p) = u
    BY <2>1 DEF IsPlain
  <2> QED
    BY <2>1, <2>2 DEF Struct, Type
<1>2. e \in Conversions /\ e.field = f /\ e.actual = a /\ e.desired = u /\ For(e, t)
  BY <1>1, StepIs DEF For
<1>3. a.type # t /\ (a.type.kind = "map" => a.type = Map)
  <2>1. a.type.kind \notin {"ptr", "struct"}
    BY JsonFacts, Kinds
  <2>2. t.kind \in {"ptr", "struct"}
    BY <1>1, GoTypesShape
  <2> QED
    BY <2>1, <2>2, JsonFacts
<1>4. Admits[a][f] <=> a.type = Map /\ \A x \in DOMAIN own : FieldAdmitted(a, own[x])
  BY AdmitsStruct
<1>5. r = IF a.type.kind = "map" THEN StructFrom(steps, e) ELSE Err
  <2>1. r = ByKind(Run, e)
    BY <1>3, RunNew
  <2> HIDE DEF e, r, u
  <2>2. ByKind(Run, e) = IF e.actual.type.kind = "map" /\ e.field.type \in DOMAIN AllFields
                         THEN StructFrom(StructSteps(Run, e), e) ELSE Err
    BY <1>1, <1>2, ByKindIs, SliceTypesShape DEF ScalarKinds
  <2> QED
    BY <1>2, <2>1, <2>2
<1>6. CASE a.type # Map
  <2>1. r = Err
    BY <1>3, <1>5, <1>6
  <2>2. ~Admits[a][f]
    BY <1>4, <1>6
  <2> HIDE DEF r
  <2> QED
    BY <2>1, <2>2, OutcomesAre DEF Good, r
<1>7. CASE a.type = Map
  <2>0. own \in Seq(IdlFields)
    BY StructFields
  <2>1. n \in Nat /\ DOMAIN own = 1..n /\ DOMAIN steps = 1..n
        /\ \A x \in 1..n : steps[x] = ConvertField(Run, e, own[x])
    BY <1>2, <2>0 DEF StructSteps
  <2>2. \A x \in 1..n : FieldPlaced(own[x], GoType(own[x], p), a, steps[x])
    <3> HIDE DEF e, steps, n
    <3> SUFFICES ASSUME NEW x \in 1..n PROVE FieldPlaced(own[x], GoType(own[x], p), a, ConvertField(Run, e, own[x]))
      BY <2>1
    <3>1. x \in DOMAIN AllFields[s]
      BY <2>1
    <3>2. p => s \in C
      BY DEF Clean
    <3> HIDE DEF s
    <3>3. s \in DOMAIN AllFields
      BY DEF s
    <3> QED
      BY <1>2, <3>1, <3>2, <3>3, FieldGood
  <2>3. StructFrom(steps, e) = IF all.status = "ok" THEN ConvertedVal(e, all.val) ELSE all
    <3> HIDE DEF e, steps, u
    <3> QED
      BY DEF StructFrom
  <2>4. r = IF all.status = "ok" THEN ConvertedVal(e, all.val) ELSE all
    <3>1. Map.kind = "map"
      BY Kinds
    <3> HIDE DEF r, all, steps, e
    <3> QED
      BY <1>5, <1>7, <2>3, <3>1
  <2>5. \A i \in 1..n : slot(i) = steps[i].val
    <3> SUFFICES ASSUME NEW i \in 1..n PROVE slot(i) = steps[i].val
      OBVIOUS
    <3> HIDE DEF steps, n
    <3>1. Places(own, own[i].name) = {i}
      BY <2>1, StructFields DEF Places
    <3> HIDE DEF e, u
    <3>2. AllFields[e.field.type] = own /\ AllFields[e.desired.name] = own
      BY <1>1, <1>2
    <3> QED
      BY <3>1, <3>2
  <2> DEFINE z == [i \in DOMAIN own |-> steps[i].val]
  <2>a. v = Value(u, Blank, z, NoFields)
    <3>0. AllFields[e.desired.name] = own
      <4> HIDE DEF e, u
      <4> QED
        BY <1>1, <1>2
    <3>1. [i \in DOMAIN AllFields[e.desired.name] |-> slot(i)] = z
      <4> HIDE DEF slot, steps, n, e
      <4> QED
        BY <2>1, <2>5, <3>0
    <3> HIDE DEF slot, steps, e, u, z
    <3> QED
      BY <1>2, <3>1, CompoundValue
  <2>6. v.type = u /\ v.atom = Blank /\ v.elems = z /\ v.fields = NoFields
    <3> HIDE DEF v, z, u
    <3> QED
      BY <2>a, PointerValue
  <2>b. DOMAIN z = DOMAIN own /\ \A i \in DOMAIN own : z[i] = steps[i].val
    OBVIOUS
  <2> HIDE DEF r, e, steps, n, v, slot, u, z
  <2>7. CASE \E x \in 1..n : steps[x].status # "ok" /\ all = steps[x]
    <3>1. PICK x \in 1..n : steps[x].status # "ok" /\ r = steps[x]
      <4> HIDE DEF all
      <4> QED
        BY <2>4, <2>7
    <3>2. x \in DOMAIN own /\ FieldPlaced(own[x], GoType(own[x], p), a, r)
      BY <2>1, <2>2, <3>1
    <3>3. r.status = "error" => ~Admits[a][f]
      BY <1>4, <3>2 DEF FieldPlaced
    <3>4. r.status = "panic" => HasNull[a]
      BY <3>2 DEF FieldPlaced
    <3> QED
      BY <3>1, <3>3, <3>4 DEF Good, r
  <2>8. CASE (\A x \in 1..n : steps[x].status = "ok") /\ all = Ok(v)
    <3>1. \A x \in 1..n : FieldAdmitted(a, own[x])
                          /\ Arrived(GoType(own[x], p), MemberOf(a, own[x].name), steps[x].val)
      BY <2>2, <2>8 DEF FieldPlaced
    <3>2. Admits[a][f]
      BY <1>4, <1>7, <2>1, <3>1
    <3>a. r = ConvertedVal(e, v)
      <4> HIDE DEF all
      <4> QED
        BY <2>4, <2>8, OutcomesAre
    <3>b. r.val \in Values
      <4>1. r \in Outcomes(Values)
        BY RunNew DEF r
      <4> QED
        BY <4>1 DEF Outcomes
    <3>3. v \in Values
      <4>1. CASE r.val = v
        BY <3>b, <4>1
      <4>2. CASE r.val = PointerTo(v)
        <5>1. PointerTo(v) = Value(Ptr(u), Blank, z, NoFields)
          BY <2>a, PointerValue
        <5> DEFINE g == PointerTo(v)
        <5>2. g.atom = v.atom /\ g.elems = v.elems /\ g.fields = v.fields
          BY <2>6, <5>1 DEF Value
        <5>3. v.type \in ValueTypes /\ g \in Values
          BY <1>1, <2>6, <3>b, <4>2, BuiltinTypes
        <5>4. Value(v.type, g.atom, g.elems, g.fields) \in Values
          <6> HIDE DEF g
          <6> QED
            BY <5>3, Retyped
        <5> HIDE DEF g
        <5> QED
          BY <2>6, <2>a, <5>2, <5>4
      <4> QED
        BY <3>a, <4>1, <4>2, OutcomesAre DEF ConvertedVal
    <3>4. Arrived(v.type, a, v)
      <4>1. \A i \in DOMAIN own : Arrived(GoType(own[i], p), MemberOf(a, own[i].name), v.elems[i])
        BY <2>1, <2>6, <2>b, <3>1
      <4> HIDE DEF s
      <4>2. s \in DOMAIN AllFields
        BY DEF s
      <4>3. v.type = Struct(s, p) /\ v.atom = Blank /\ DOMAIN v.elems = DOMAIN AllFields[s]
        BY <2>6, <2>b DEF u
      <4> QED
        BY <3>3, <4>1, <4>2, <4>3, StructArrived
    <3>6. r.status = "ok" /\ Arrived(t, a, r.val)
      <4>1. Blank \in Atoms
        BY CompoundValue
      <4> QED
        BY <1>1, <1>2, <2>6, <3>3, <3>4, <3>a, <4>1, ConvertedIs DEF Arrived
    <3> QED
      BY <3>2, <3>6 DEF Good, r
  <2> QED
    BY <2>1, <2>7, <2>8, InOrderIs
<1> QED
  BY <1>6, <1>7

-----------------------------------------------------------------------------
(* All conversions of JSON.                                                *)
\* What Run makes of any decoded JSON.
LEMMA ConversionGood ==
  ASSUME NEW p \in BOOLEAN, NEW C, Closed(p, C), NEW a \in Values, Json[a]
  PROVE  GoodFor(a, p, C)
<1> DEFINE T == {v \in Values : Json[v] => GoodFor(v, p, C)}
<1>1. ASSUME NEW v \in Values, \A w \in Values : Height[w] < Height[v] => w \in T
      PROVE  v \in T
  <2> SUFFICES ASSUME Json[v], NEW f \in IdlFields, NEW t \in GoTypes, Clean(f, p, C), Fits(f, t, p)
               PROVE  Good(f, t, v, Run[NewConvert(f, t, v)])
    BY DEF GoodFor
  <2>1. LowerGood(v, p, C)
    BY <1>1 DEF LowerGood
  <2>2. CASE v.type = NilType
    BY <2>2, NullGood, JsonFacts
  <2>3. CASE v.type # NilType /\ f.isArray
    BY <2>1, <2>3, SliceGood
  <2>4. CASE v.type # NilType /\ ~f.isArray /\ f.type \in DOMAIN AllFields
    BY <2>1, <2>4, StructGood
  <2>5. CASE v.type # NilType /\ ~f.isArray /\ f.type \notin DOMAIN AllFields
    BY <2>5, ScalarGood
  <2> QED
    BY <2>2, <2>3, <2>4, <2>5
<1>2. Values \subseteq T
  <2> HIDE DEF T
  <2> QED
    BY <1>1, HeightType, HeightInduction
<1> QED
  BY <1>2

\* The structs of a method's field.
LEMMA SoundClean ==
  ASSUME NEW m, m.field \in IdlFields, m.toPtr \in BOOLEAN, m.toPtr => NoOptionalArrays(m.field)
  PROVE  \E C : Closed(m.toPtr, C) /\ Clean(m.field, m.toPtr, C)
<1>1. CASE m.toPtr
  <2>1. PICK C \in SUBSET DOMAIN AllFields :
          \A g \in {m.field} \cup UNION {ToSet(AllFields[s]) : s \in C} :
            ~(g.optional /\ g.isArray) /\ (g.type \in DOMAIN AllFields => g.type \in C)
    BY <1>1 DEF NoOptionalArrays
  <2>2. Clean(m.field, m.toPtr, C)
    BY <2>1 DEF Clean
  <2>3. ASSUME NEW s \in C, NEW i \in DOMAIN AllFields[s] PROVE Clean(AllFields[s][i], m.toPtr, C)
    <3>1. AllFields[s][i] \in ToSet(AllFields[s])
      BY <2>1, FieldsOf
    <3> QED
      BY <2>1, <3>1 DEF Clean
  <2> QED
    BY <2>2, <2>3 DEF Closed
<1>2. CASE ~m.toPtr
  BY <1>2 DEF Closed, Clean
<1> QED
  BY <1>1, <1>2

\* The types of a sound method fit its field.
LEMMA SoundFits ==
  ASSUME NEW m, m.field \in IdlFields, m.toPtr \in BOOLEAN, Sound(m)
  PROVE  Fits(m.field, m.accepts, m.toPtr)
<1> DEFINE f == m.field
           p == m.toPtr
<1>1. CASE m.accepts = GoType(f, p)
  <2>1. ~(p /\ f.optional /\ f.isArray)
    BY DEF Sound, NoOptionalArrays
  <2> HIDE DEF f, p
  <2>2. Fits(f, GoType(f, p), p)
    BY <2>1, GoTypeFits DEF f, p
  <2> QED
    BY <1>1, <2>2 DEF f, p
<1>2. CASE TakesPointers(m)
  <2>1. f.isArray /\ f.type \in DOMAIN AllFields /\ m.accepts = SliceOf(Ptr(Struct(f.type, p)))
    BY <1>2 DEF TakesPointers
  <2>2. Plain(f.type, p) = Struct(f.type, p)
    <3> DEFINE t == f.type
    <3>1. t \in IdlTypes
      BY FieldParts
    <3> HIDE DEF t
    <3>2. IsPlain(Plain(t, p), t, p)
      BY <3>1, PlainShape
    <3> QED
      BY <2>1, <3>2 DEF IsPlain, t
  <2> QED
    BY <2>1, <2>2 DEF Fits
<1> QED
  BY <1>1, <1>2 DEF Sound

-----------------------------------------------------------------------------
(* The values AddHandler tries a handler's types with.                     *)

\* Good enough for a place of type t, or for a field's.
Taken(t, r) == r.status = "ok" /\ (r.val.type = t \/ (t.kind = "ptr" /\ r.val.type.kind # "ptr"))

LEMMA TakenStored ==
  ASSUME NEW t, NEW r, Taken(t, r)
  PROVE  /\ Stored(t, r).status = "ok"
         /\ t.kind # "ptr" => Assigned(t, r).status = "ok"
BY OutcomesAre DEF Taken, Stored, Assigned

LEMMA ConvertedType ==
  ASSUME NEW e, NEW t \in GoTypes, For(e, t), NEW a, NEW s, NEW m, NEW v, v = Value(Base(t), a, s, m)
  PROVE  Taken(t, ConvertedVal(e, v))
<1>1. CASE t.kind = "ptr"
  <2>1. ConvertedVal(e, v) = Ok(PointerTo(v)) /\ t = Ptr(Base(t))
    BY <1>1, GoTypesShape DEF For, ConvertedVal
  <2>2. PointerTo(v) = Value(t, a, s, m)
    BY <2>1, PointerValue
  <2> DEFINE w == PointerTo(v)
  <2>3. w = Value(t, a, s, m)
    BY <2>2
  <2> HIDE DEF w
  <2>4. w.type = t
    BY <2>3, PointerValue
  <2> QED
    BY <2>1, <2>4, OutcomesAre DEF Taken, w
<1>2. CASE t.kind # "ptr"
  <2>1. ConvertedVal(e, v) = Ok(v) /\ Base(t) = t
    BY <1>2, GoTypesShape DEF For, ConvertedVal
  <2>2. v.type = t
    BY <2>1, PointerValue
  <2> QED
    BY <2>1, <2>2, OutcomesAre DEF Taken
<1> QED
  BY <1>1, <1>2

\* The type of a field, or of an element of an array of such.
Declares(f, t, p) == t = GoType(f, p) \/ t = Bare(f, p)
TestTaken(f) ==
  \A p \in BOOLEAN : \A t \in GoTypes :
    Declares(f, t, p) => Taken(t, Run[NewConvert(f, t, TestVal[f])])

LEMMA DeclaresIs ==
  ASSUME NEW f \in IdlFields, NEW p \in BOOLEAN, NEW t \in GoTypes, Declares(f, t, p)
  PROVE  /\ Base(t) = Bare(f, p) /\ (t = Base(t) \/ t = Ptr(Base(t)))
         /\ f.isArray => Base(t) = SliceOf(Plain(f.type, p))
         /\ ~f.isArray => Base(t) = Plain(f.type, p)
         /\ Plain(f.type, p) \in PlainTypes /\ IsPlain(Plain(f.type, p), f.type, p)
<1>1. /\ Base(Bare(f, p)) = Bare(f, p) /\ Base(GoType(f, p)) = Bare(f, p)
      /\ GoType(f, p) = Bare(f, p) \/ GoType(f, p) = Ptr(Bare(f, p))
  BY GoTypeShape
<1>2. Plain(f.type, p) \in PlainTypes /\ IsPlain(Plain(f.type, p), f.type, p)
  BY FieldParts, PlainIsGoType, PlainShape
<1>3. /\ f.isArray => Bare(f, p) = SliceOf(Plain(f.type, p))
      /\ ~f.isArray => Bare(f, p) = Plain(f.type, p)
  BY DEF Bare
<1> QED
  BY <1>1, <1>2, <1>3 DEF Declares

\* AddHandler takes the types of scalars,
LEMMA ScalarTaken ==
  ASSUME NEW f \in IdlFields, ~f.isArray, f.type \notin DOMAIN AllFields
  PROVE  TestTaken(f)
<1> SUFFICES ASSUME NEW p \in BOOLEAN, NEW t \in GoTypes, Declares(f, t, p)
             PROVE  Taken(t, Run[NewConvert(f, t, TestVal[f])])
  BY DEF TestTaken
<1> DEFINE a == TestVal[f]
           u == Plain(f.type, p)
           e == StepTo(f, t, a)
           r == Run[NewConvert(f, t, a)]
<1>1. u \in PlainTypes /\ IsPlain(u, f.type, p) /\ Base(t) = u
  BY DeclaresIs
<1>2. a \in Values /\ a = TestValOf(TestVal, f)
  BY TestValIs
<1>3. /\ e \in Conversions /\ e.field = f /\ e.actual = a /\ e.desired = u /\ For(e, t)
  BY <1>1, <1>2, StepIs DEF For
<1>4. r = IF a.type = t THEN Ok(a)
          ELSE IF a.type # NilType THEN ByKind(Run, e)
          ELSE IF ~f.optional THEN Err
          ELSE Ok(IF t.kind \in {"ptr", "slice"} THEN Nil ELSE Zero[t])
  BY <1>2, RunNew
<1>5. CASE f.type \in {"string", "int", "float", "bool"}
  <2>1. PICK x : a = Value(u, x, <<>>, NoFields)
    <3>1. a = TestAtom[f.type]
      BY <1>2, <1>5, FieldKinds, Domains DEF TestValOf
    <3>2. /\ f.type = "string" => u = String /\ a = Atom(String, "testval")
          /\ f.type = "int" => u = Int64 /\ a = Atom(Int64, "99")
          /\ f.type = "float" => u = Float64 /\ a = Atom(Float64, "10.3")
          /\ f.type = "bool" => u = Bool /\ a = Atom(Bool, "true")
      BY <1>1, <3>1 DEF IsPlain, TestAtom
    <3>3. \E x : a = Atom(u, x)
      <4> HIDE DEF a, u
      <4> QED
        BY <1>5, <3>2
    <3> HIDE DEF a, u
    <3> QED
      BY <3>3 DEF Atom
  <2> HIDE DEF a, u, e, r
  <2>2. a.type = u /\ a.atom = x
    BY <2>1, PointerValue
  <2>3. CASE t = u
    BY <1>4, <2>2, <2>3, OutcomesAre DEF Taken, r, a
  <2>4. CASE t # u
    <3>1. t = Ptr(u) /\ a.type # NilType
      BY <1>1, <2>2, <2>4, DeclaresIs, BuiltinTypes, NotGoTypes DEF u
    <3>2. r = ByKind(Run, e)
      BY <1>4, <2>2, <2>4, <3>1
    <3>3. ConvertedVal(e, a) = r
      <4>1. CASE f.type = "string"
        <5>1. u.kind = "string"
          BY <1>1, <4>1, Kinds DEF IsPlain
        <5>2. ByKind(Run, e) = StringOrEnum(e)
          BY <1>1, <1>3, <5>1, ByKindIs
        <5> QED
          BY <1>3, <2>2, <3>2, <4>1, <5>1, <5>2 DEF StringOrEnum
      <4>2. CASE f.type \in {"int", "float", "bool"}
        <5>1. /\ f.type = "int" => u = Int64
              /\ f.type = "float" => u = Float64
              /\ f.type = "bool" => u = Bool
          BY <1>1 DEF IsPlain
        <5>2. Float64.kind = "float64" /\ Bool.kind = "bool" /\ Int64.kind = "int64"
          BY Kinds
        <5>3. IdlType["int64"] = "int" /\ IdlType["float64"] = "float" /\ IdlType["bool"] = "bool"
          BY DEF IdlType
        <5>4. u.kind \in {"int64", "float64", "bool"} /\ f.type = IdlType[u.kind]
          BY <4>2, <5>1, <5>2, <5>3
        <5>5. ByKind(Run, e) = Scalar(e)
          BY <1>1, <1>3, <5>4, ByKindIs
        <5>6. Accepts(u, a)
          BY <2>2 DEF Accepts
        <5>7. Scalar(e) = ConvertedVal(e, Atom(u, x))
          BY <1>3, <2>2, <5>4, <5>6 DEF Scalar
        <5>8. Atom(u, x) = a
          BY <2>1 DEF Atom
        <5> QED
          BY <3>2, <5>5, <5>7, <5>8
      <4> QED
        BY <1>5, <4>1, <4>2
    <3> QED
      BY <1>1, <1>3, <2>1, <3>3, ConvertedType DEF r, a
  <2> QED
    BY <2>3, <2>4
<1>6. CASE f.type \in DOMAIN Enum
  <2>1. a = Atom(String, Enum[f.type][1]) /\ u = Named(f.type) /\ u.kind = "string" /\ u # String
    BY <1>1, <1>2, <1>6, FieldKinds, Domains DEF TestValOf, IsPlain
  <2> DEFINE x == Enum[f.type][1]
  <2> HIDE DEF a, u, e, r, x
  <2>2. a.type = String /\ a.atom = x
    <3>1. a = Value(String, x, <<>>, NoFields)
      BY <2>1 DEF Atom, x
    <3> QED
      BY <3>1, PointerValue
  <2>3. a.type # t /\ a.type # NilType
    <3>1. t = u \/ t = Ptr(u)
      BY <1>1, DeclaresIs DEF u
    <3>2. Ptr(u).kind = "ptr" /\ String.kind = "string" /\ NilType.kind = "nil"
      BY Kinds
    <3> QED
      BY <2>1, <2>2, <3>1, <3>2
  <2>4. r = StringOrEnum(e)
    <3>1. r = ByKind(Run, e)
      BY <1>4, <2>3
    <3> QED
      BY <1>1, <1>3, <2>1, <3>1, ByKindIs
  <2>5. InEnum(e)
    <3>1. Enum[f.type] \in Seq(Atoms) /\ Enum[f.type] # <<>>
      BY <1>6, GoValuesAssumption
    <3>2. Contains(Enum[f.type], x)
      <4> DEFINE s == Enum[f.type]
      <4>1. s \in Seq(Atoms) /\ s # <<>> /\ x = s[1]
        BY <3>1 DEF x
      <4> HIDE DEF s
      <4>2. 1 \in 1..Len(s)
        BY <4>1
      <4>3. Contains(s, x)
        BY <4>1, <4>2 DEF Contains
      <4> QED
        BY <4>3 DEF s
    <3> QED
      BY <1>3, <1>6, <2>2, <3>2 DEF InEnum
  <2>6. r = ConvertedVal(e, Atom(u, x))
    <3>1. f.type # "string"
      BY <1>6, FieldKinds
    <3>2. String.kind = "string"
      BY Kinds
    <3> QED
      BY <1>3, <2>2, <2>4, <2>5, <3>1, <3>2 DEF StringOrEnum
  <2>7. Atom(u, x) = Value(u, x, <<>>, NoFields)
    BY DEF Atom
  <2> QED
    BY <1>1, <1>3, <2>6, <2>7, ConvertedType DEF r, a
<1> QED
  BY <1>5, <1>6, FieldKinds

LEMMA OrderedOk ==
  ASSUME NEW n \in Nat, NEW steps, DOMAIN steps = 1..n, \A x \in 1..n : steps[x].status = "ok", NEW v
  PROVE  InOrder(steps, v) = Ok(v)
BY InOrderIs

\* of arrays whose element type it takes,
LEMMA SliceTaken ==
  ASSUME NEW f \in IdlFields, f.isArray, TestTaken(Element(f))
  PROVE  TestTaken(f)
<1> SUFFICES ASSUME NEW p \in BOOLEAN, NEW t \in GoTypes, Declares(f, t, p)
             PROVE  Taken(t, Run[NewConvert(f, t, TestVal[f])])
  BY DEF TestTaken
<1> DEFINE g == Element(f)
           w == TestVal[g]
           a == TestVal[f]
           u == Plain(f.type, p)
           e == StepTo(f, t, a)
           r == Run[NewConvert(f, t, a)]
           steps == SliceSteps(Run, e)
           v == Compound(e.desired, [x \in DOMAIN steps |-> steps[x].val])
<1>1. u \in PlainTypes /\ Base(t) = SliceOf(u)
  BY DeclaresIs
<1>2. a \in Values /\ a = Compound(AnySlice, <<w>>)
  BY TestValIs DEF TestValOf
<1>3. e \in Conversions /\ e.field = f /\ e.actual = a /\ e.desired = SliceOf(u) /\ For(e, t)
      /\ e.desired \in SliceTypes /\ e.desired \in GoTypes
  BY <1>1, <1>2, StepIs DEF For, SliceTypes
<1>4. g \in IdlFields /\ g.type = f.type /\ ~g.isArray /\ w \in Values
  BY FieldParts, TestValIs
<1>5. u \in GoTypes /\ u.kind # "ptr" /\ Declares(g, u, p)
  <2>1. Bare(g, p) = u
    BY <1>4 DEF Bare
  <2> HIDE DEF u
  <2> QED
    BY <1>1, <2>1, PlainTypesShape, BuiltinTypes DEF Declares, ScalarKinds
<1>6. a.type = AnySlice /\ a.elems = <<w>>
  <2> HIDE DEF a, w
  <2>1. a = Value(AnySlice, Blank, <<w>>, NoFields)
    BY <1>2, CompoundValue
  <2> QED
    BY <2>1, PointerValue
<1>7. r = SliceFrom(steps, e)
  <2> HIDE DEF e, r, a
  <2>1. a.type # t /\ a.type # NilType /\ a.type.kind = "slice"
    BY <1>6, NotGoTypes, Different, Kinds
  <2>2. r = ByKind(Run, e)
    BY <1>2, <2>1, RunNew DEF r, e
  <2>3. e.desired.kind = "slice"
    BY <1>3, SliceTypesShape
  <2> QED
    BY <1>3, <2>1, <2>2, <2>3, ByKindIs
<1>8. DOMAIN steps = 1..1 /\ \A x \in 1..1 : steps[x].status = "ok"
  <2>1. DOMAIN a.elems = 1..1 /\ a.elems[1] = w
    <3> HIDE DEF a, w
    <3> QED
      BY <1>6
  <2>2. ElementOf(e, 1) = NewConvert(g, u, w)
    <3>1. SliceOf(u).elem[1] = u
      <4> HIDE DEF u
      <4> QED
        BY PtrShape
    <3> HIDE DEF e, a, w, u, g
    <3> QED
      BY <1>3, <2>1, <3>1 DEF ElementOf, g
  <2>3. Elem(NewConvert(g, u, w)) = NewConvert(g, u, w)
    <3> HIDE DEF u, g, w
    <3>1. NewConvert(g, u, w) \in Conversions /\ NewConvert(g, u, w).desired = u
      BY <1>4, <1>5, NewConvertIs
    <3> QED
      BY <1>5, <3>1, ElemIs
  <2>4. ConvertElement(Run, e, 1) = Assigned(u, Run[NewConvert(g, u, w)])
    <3>1. 1 \in DOMAIN e.actual.elems /\ e.desired.kind = "slice" /\ e.desired.elem[1] = u
      <4>1. SliceOf(u).elem[1] = u /\ SliceOf(u).kind = "slice"
        <5> HIDE DEF u
        <5> QED
          BY PtrShape
      <4> HIDE DEF e, a, u
      <4> QED
        BY <1>3, <2>1, <4>1
    <3> HIDE DEF e, u, g, w
    <3>2. \E d \in {ElementOf(e, 1), Elem(ElementOf(e, 1))} : ConvertElement(Run, e, 1) = Assigned(e.desired.elem[1], Run[d])
      BY <1>3, <3>1, ElementIs
    <3> QED
      BY <2>2, <2>3, <3>1, <3>2
  <2>5. Taken(u, Run[NewConvert(g, u, w)])
    BY <1>5 DEF TestTaken
  <2>6. Assigned(u, Run[NewConvert(g, u, w)]).status = "ok"
    <3> HIDE DEF u, g, w
    <3> QED
      BY <1>5, <2>5, TakenStored
  <2>7. DOMAIN steps = 1..1 /\ steps[1] = ConvertElement(Run, e, 1)
    <3> HIDE DEF e, a
    <3> QED
      BY <1>3, <2>1 DEF SliceSteps
  <2> HIDE DEF steps, e, u, g, w
  <2> QED
    BY <2>4, <2>6, <2>7
<1>9. r = Ok(v)
  <2>1. SliceFrom(steps, e) = InOrder(steps, v)
    BY DEF SliceFrom
  <2> HIDE DEF steps, v, r, e
  <2> QED
    BY <1>7, <1>8, <2>1, OrderedOk
<1>10. v.type = SliceOf(u)
  <2> DEFINE z == [x \in DOMAIN steps |-> steps[x].val]
  <2>1. v = Compound(SliceOf(u), z)
    BY <1>3
  <2> HIDE DEF v, z, u
  <2>2. v = Value(SliceOf(u), Blank, z, NoFields)
    BY <2>1, CompoundValue
  <2> QED
    BY <2>2, PointerValue
<1>11. t.kind = "ptr" \/ t = SliceOf(u)
  BY <1>1, GoTypesShape
<1>12. SliceOf(u).kind # "ptr"
  BY PtrShape
<1> HIDE DEF r, v, u
<1> QED
  BY <1>9, <1>10, <1>11, <1>12, OutcomesAre DEF Taken, r

\* and of structs whose field types it takes.
LEMMA StructTaken ==
  ASSUME NEW f \in IdlFields, ~f.isArray, f.type \in DOMAIN AllFields,
         \A x \in DOMAIN AllFields[f.type] : TestTaken(AllFields[f.type][x])
  PROVE  TestTaken(f)
<1> SUFFICES ASSUME NEW p \in BOOLEAN, NEW t \in GoTypes, Declares(f, t, p)
             PROVE  Taken(t, Run[NewConvert(f, t, TestVal[f])])
  BY DEF TestTaken
<1> DEFINE s == f.type
           own == AllFields[s]
           N == {g.name : g \in ToSet(own)}
           m == [k \in N |-> TestVal[CHOOSE g \in ToSet(own) : g.name = k]]
           a == TestVal[f]
           u == Struct(s, p)
           e == StepTo(f, t, a)
           r == Run[NewConvert(f, t, a)]
           n == Len(own)
           steps == StructSteps(Run, e)
<1>1. u \in PlainTypes /\ Base(t) = u /\ u.kind = "struct" /\ u.name = s
  <2>1. Base(t) = Plain(s, p) /\ Plain(s, p) \in PlainTypes /\ IsPlain(Plain(s, p), s, p)
    BY DeclaresIs
  <2>2. Plain(s, p) = u
    BY <2>1 DEF IsPlain
  <2> QED
    BY <2>1, <2>2 DEF Struct, Type
<1>2. a \in Values /\ a = MapValue(m)
  BY TestValIs, FieldKinds, Domains DEF TestValOf
<1>3. e \in Conversions /\ e.field = f /\ e.actual = a /\ e.desired = u /\ For(e, t)
  BY <1>1, <1>2, StepIs DEF For
<1>4. \A x \in DOMAIN own : own[x].name \in Keys /\ own[x].name \in DOMAIN m /\ m[own[x].name] = TestVal[own[x]]
  <2> SUFFICES ASSUME NEW x \in DOMAIN own
               PROVE  own[x].name \in Keys /\ own[x].name \in DOMAIN m /\ m[own[x].name] = TestVal[own[x]]
    OBVIOUS
  <2>1. own[x] \in ToSet(own) /\ own[x].name \in Keys
    BY FieldsOf
  <2>2. (CHOOSE g \in ToSet(own) : g.name = own[x].name) = own[x]
    BY NamedField
  <2> QED
    BY <2>1, <2>2
<1>5. r = StructFrom(steps, e)
  <2> HIDE DEF e, r, m, a, u
  <2>1. a.type = Map
    <3>1. a = Value(Map, Blank, <<>>, [k \in Keys |-> IF k \in DOMAIN m THEN <<m[k]>> ELSE <<>>])
      BY <1>2 DEF MapValue, Blank
    <3> QED
      BY <3>1, PointerValue
  <2>2. a.type # t /\ a.type # NilType /\ a.type.kind = "map"
    BY <2>1, NotGoTypes, Different, Kinds
  <2>3. r = ByKind(Run, e)
    BY <1>2, <2>2, RunNew DEF r, e
  <2> QED
    BY <1>1, <1>3, <2>2, <2>3, ByKindIs
<1>6. own \in Seq(IdlFields)
  BY StructFields
<1>7. n \in Nat /\ DOMAIN own = 1..n /\ DOMAIN steps = 1..n
      /\ \A x \in 1..n : steps[x] = ConvertField(Run, e, own[x])
  BY <1>3, <1>6 DEF StructSteps
<1>8. \A x \in 1..n : steps[x].status = "ok"
  <2> SUFFICES ASSUME NEW x \in 1..n PROVE ConvertField(Run, e, own[x]).status = "ok"
    <3> HIDE DEF steps, n
    <3> QED
      BY <1>7
  <2> DEFINE g == own[x]
             q == GoType(g, p)
  <2>0. x \in DOMAIN own
    <3> HIDE DEF n
    <3> QED
      BY <1>7
  <2>1. g \in IdlFields /\ q \in GoTypes /\ Declares(g, q, p)
    BY <2>0, StructFields, GoTypeShape DEF Declares
  <2>2. Has(a, g.name) /\ Member(a, g.name) = TestVal[g]
    <3> HIDE DEF m, a
    <3> QED
      BY <1>2, <1>4, <2>0, MapHas
  <2>3. Taken(q, Run[NewConvert(g, q, TestVal[g])])
    <3>1. TestTaken(g)
      BY <2>0
    <3> HIDE DEF g, q
    <3> QED
      BY <2>1, <3>1 DEF TestTaken
  <2>4. ConvertField(Run, e, g) =
          IF Has(e.actual, g.name) THEN Stored(q, Run[NewConvert(g, q, Member(e.actual, g.name))])
          ELSE IF g.optional THEN Ok(Zero[q]) ELSE Err
    <3>1. s \in DOMAIN AllFields
      OBVIOUS
    <3> HIDE DEF e, s
    <3> QED
      BY <1>3, <2>0, <3>1, OwnSlot
  <2> HIDE DEF g, q, e, a
  <2> QED
    BY <1>3, <2>2, <2>3, <2>4, TakenStored DEF g
<1>9. PICK z, w :
        /\ w = Compound(e.desired, z)
        /\ StructFrom(steps, e) =
             IF InOrder(steps, w).status = "ok" THEN ConvertedVal(e, InOrder(steps, w).val) ELSE InOrder(steps, w)
  <2> DEFINE slot(i) == IF Places(AllFields[e.field.type], AllFields[e.desired.name][i].name) = {}
                        THEN Zero[FieldType(e.desired, i)]
                        ELSE steps[CHOOSE x \in Places(AllFields[e.field.type], AllFields[e.desired.name][i].name) : TRUE].val
             placed == [i \in DOMAIN AllFields[e.desired.name] |-> slot(i)]
             whole == Compound(e.desired, placed)
  <2>1. StructFrom(steps, e) =
          IF InOrder(steps, whole).status = "ok" THEN ConvertedVal(e, InOrder(steps, whole).val)
          ELSE InOrder(steps, whole)
    <3> HIDE DEF steps, e
    <3> QED
      BY DEF StructFrom
  <2>2. whole = Compound(e.desired, placed)
    OBVIOUS
  <2> HIDE DEF placed, whole, steps, e, slot
  <2> QED
    BY <2>1, <2>2
<1> HIDE DEF steps, e, r, u, n
<1>10. InOrder(steps, w) = Ok(w)
  BY <1>7, <1>8, OrderedOk
<1>11. r = ConvertedVal(e, w)
  BY <1>5, <1>9, <1>10, OutcomesAre
<1>12. w = Value(Base(t), Blank, z, NoFields)
  <2>1. w = Value(e.desired, Blank, z, NoFields)
    BY <1>9, CompoundValue
  <2> QED
    BY <1>1, <1>3, <2>1
<1> QED
  BY <1>3, <1>11, <1>12, ConvertedType DEF r

\* AddHandler takes the generated types of every field.
LEMMA AllTaken == \A f \in IdlFields : TestTaken(f)
<1> DEFINE T == {f \in IdlFields : TestTaken(f)}
<1>1. ASSUME NEW f \in IdlFields, \A g \in IdlFields : FieldHeights[g] < FieldHeights[f] => g \in T
      PROVE  f \in T
  <2>1. \A g \in IdlFields : FieldHeight(g) < FieldHeight(f) => TestTaken(g)
    BY <1>1, FieldHeightsIs
  <2>2. CASE f.isArray
    <3>1. Element(f) \in IdlFields /\ FieldHeight(Element(f)) < FieldHeight(f)
      <4>1. FieldHeight(Element(f)) \in 1..Depth /\ FieldHeight(Element(f)) + 1 = FieldHeight(f) /\ Element(f) \in IdlFields
        BY <2>2, FieldParts, FieldHeightType
      <4> QED
        BY <4>1, DepthNat
    <3> QED
      BY <2>1, <2>2, <3>1, SliceTaken
  <2>3. CASE ~f.isArray /\ f.type \in DOMAIN AllFields
    <3>1. ASSUME NEW x \in DOMAIN AllFields[f.type] PROVE TestTaken(AllFields[f.type][x])
      <4> DEFINE g == AllFields[f.type][x]
      <4>1. g \in IdlFields /\ FieldHeight(g) < High[f.type] /\ High[f.type] \in Nat
        BY <2>3, StructFields, FieldLower, HighIs, DepthNat
      <4> HIDE DEF g
      <4>2. FieldHeight(f) = High[f.type]
        BY <2>3, <4>1 DEF FieldHeight
      <4> QED
        BY <2>1, <4>1, <4>2 DEF g
    <3> QED
      BY <2>3, <3>1, StructTaken
  <2>4. CASE ~f.isArray /\ f.type \notin DOMAIN AllFields
    BY <2>4, ScalarTaken
  <2> QED
    BY <2>2, <2>3, <2>4
<1>2. IdlFields \subseteq T
  <2> HIDE DEF T
  <2> QED
    BY <1>1, FieldHeightsIs, HeightInduction
<1> QED
  BY <1>2

-----------------------------------------------------------------------------
(* What marshalling makes of the values a program holds.                   *)
\* What marshalling makes of the Go values that a program can hold.
Held(w) == w \in Values /\ w.type \in GoTypes /\ Typed[w]
IsNil(w) == w.atom \in {NilPtr, NilSlice}

\* nil pointers and slices are zero values, and null in JSON.
LEMMA NilHeld ==
  ASSUME NEW w, Held(w), IsNil(w)
  PROVE  w = Zero[w.type] /\ w.type.kind \in {"ptr", "slice"} /\ Decoded[w] = Nil /\ Empty(w)
<1>1. w = Zero[w.type]
  BY TypedIs DEF Held, IsNil, TypedIn
<1>2. w.type.kind \notin ScalarKinds \cup {"struct"}
  <2>1. w.type.kind \in ScalarKinds => w.atom \in Atoms
    BY <1>1, ZeroFacts DEF Held
  <2>2. ASSUME NEW t \in GoTypes, t.kind = "struct" PROVE Zero[t].atom \notin {NilPtr, NilSlice}
    <3>1. Zero[t].atom = ""
      BY <2>2, ZeroFacts
    <3> QED
      BY <3>1, AtomsIn
  <2> QED
    BY <1>1, <2>1, <2>2, AtomsIn DEF IsNil, Held
<1>3. w.type.kind \in {"ptr", "slice"}
  BY <1>2, GoTypesShape, PlainTypesShape, SliceTypesShape DEF Held
<1>4. Decoded[w] = Nil
  BY DecodedIs DEF DecodedOf, Held, IsNil
<1>5. w.type.kind = "ptr" => w.atom = NilPtr
  BY <1>1, ZeroFacts DEF Held
<1>6. w.type.kind = "slice" => w.elems = <<>>
  BY <1>1, ZeroFacts DEF Held
<1> QED
  BY <1>1, <1>3, <1>4, <1>5, <1>6 DEF Empty

LEMMA BaseKinds ==
  ASSUME NEW t \in GoTypes
  PROVE  /\ Base(t) \in GoTypes
         /\ Base(t).kind \in ScalarKinds \cup {"slice", "struct"}
         /\ Base(t).kind = "slice" => Base(t) \in SliceTypes
         /\ Base(t).kind # "slice" => Base(t) \in PlainTypes
BY GoTypesShape, PlainTypesShape, SliceTypesShape DEF GoTypes, ScalarKinds

\* The elements of a slice, and its JSON.
LEMMA SliceHeld ==
  ASSUME NEW w, Held(w), ~IsNil(w), Base(w.type).kind = "slice"
  PROVE  /\ Decoded[w] = Compound(AnySlice, [x \in DOMAIN w.elems |-> Decoded[w.elems[x]]])
         /\ w.elems \in Seq(Values)
         /\ \A x \in DOMAIN w.elems :
              Held(w.elems[x]) /\ w.elems[x].type = Base(w.type).elem[1] /\ Height[w.elems[x]] < Height[w]
<1> DEFINE t == Base(w.type)
<1>0. t.elem[1] \in GoTypes
  <2>1. t \in GoTypes
    BY BaseKinds DEF Held
  <2> QED
    BY <2>1, SliceElem
<1>1. Decoded[w] = Compound(AnySlice, [x \in DOMAIN w.elems |-> Decoded[w.elems[x]]])
  BY DecodedIs DEF DecodedOf, Held, IsNil
<1>2. w.elems \in Seq(Values) /\ \A x \in DOMAIN w.elems : w.elems[x] \in Values /\ Height[w.elems[x]] < Height[w]
  BY Parts DEF Held
<1>3. \A x \in DOMAIN w.elems : w.elems[x].type = t.elem[1] /\ Typed[w.elems[x]]
  BY TypedIs DEF TypedIn, Held, IsNil
<1> HIDE DEF t
<1>4. \A x \in DOMAIN w.elems : Held(w.elems[x])
  BY <1>0, <1>2, <1>3 DEF Held
<1> QED
  BY <1>1, <1>2, <1>3, <1>4 DEF t

\* ScalarJson: the type that encoding/json reads a scalar of Go type t back as.
ScalarJson(t) == IF t.kind \in {"int64", "float64"} THEN Float64 ELSE IF t.kind = "string" THEN String ELSE t

\* The JSON of a scalar.
LEMMA ScalarHeld ==
  ASSUME NEW w, Held(w), ~IsNil(w), Base(w.type).kind \notin {"slice", "struct"}
  PROVE  /\ Decoded[w] = Atom(ScalarJson(Base(w.type)), w.atom)
         /\ ScalarJson(Base(w.type)) \in {String, Float64, Bool} /\ w.atom \in Atoms /\ w.elems = <<>>
<1> DEFINE t == Base(w.type)
<1>1. Decoded[w] = Atom(ScalarJson(t), w.atom)
  BY DecodedIs DEF DecodedOf, Held, IsNil, ScalarJson
<1>2. t \in PlainTypes /\ t.kind \in ScalarKinds
  BY BaseKinds DEF Held
<1>3. t.kind = "bool" => t = Bool
  <2>1. PICK type \in IdlTypes, p \in BOOLEAN : t = Plain(type, p)
    BY <1>2 DEF PlainTypes
  <2>2. IsPlain(t, type, p)
    BY <2>1, PlainShape
  <2>3. Int64.kind = "int64" /\ Float64.kind = "float64" /\ String.kind = "string"
    BY Kinds
  <2>4. type \in {"string", "int", "float", "bool"} \/ type \in DOMAIN Enum \/ type \in DOMAIN AllFields
    BY Domains DEF IdlTypes
  <2> HIDE DEF t
  <2> QED
    BY <2>2, <2>3, <2>4 DEF IsPlain
<1>4. w.atom \in AllAtoms
  BY Parts DEF Held
<1>5. w.elems = <<>>
  BY TypedIs DEF TypedIn, Held, IsNil
<1> HIDE DEF t
<1> QED
  BY <1>1, <1>2, <1>3, <1>4, <1>5 DEF ScalarJson, ScalarKinds, AllAtoms, IsNil, t

IsStruct(w, s, p) == Held(w) /\ ~IsNil(w) /\ Base(w.type) = Struct(s, p)

LEMMA StructIs ==
  ASSUME NEW w, Held(w), Base(w.type).kind = "struct"
  PROVE  \E s \in DOMAIN AllFields, p \in BOOLEAN : Base(w.type) = Struct(s, p)
<1>1. Base(w.type) \in PlainTypes
  BY BaseKinds DEF Held
<1> QED
  BY <1>1, PlainTypesShape

\* The fields of a struct value.
LEMMA StructParts ==
  ASSUME NEW w, NEW s \in DOMAIN AllFields, NEW p \in BOOLEAN, IsStruct(w, s, p)
  PROVE  /\ w.elems \in Seq(Values) /\ DOMAIN w.elems = DOMAIN AllFields[s]
         /\ \A i \in DOMAIN AllFields[s] :
              Held(w.elems[i]) /\ w.elems[i].type = GoType(AllFields[s][i], p) /\ Height[w.elems[i]] < Height[w]
<1> DEFINE t == Base(w.type)
<1>1. t.kind = "struct" /\ t.name = s /\ t.toPtr = p
  <2>1. Struct(s, p).kind = "struct" /\ Struct(s, p).name = s /\ Struct(s, p).toPtr = p
    BY DEF Struct, Type
  <2> QED
    BY <2>1 DEF IsStruct
<1>2. Len(w.elems) = Len(AllFields[t.name]) /\ \A i \in DOMAIN w.elems : w.elems[i].type = FieldType(t, i) /\ Typed[w.elems[i]]
  BY <1>1, TypedIs DEF TypedIn, IsStruct, Held, IsNil
<1>3. w.elems \in Seq(Values) /\ \A x \in DOMAIN w.elems : w.elems[x] \in Values /\ Height[w.elems[x]] < Height[w]
  BY Parts DEF IsStruct, Held
<1>4. AllFields[s] \in Seq(IdlFields) /\ \A i \in DOMAIN AllFields[s] : AllFields[s][i] \in IdlFields
  BY StructFields
<1>5. \A i \in DOMAIN AllFields[s] : FieldType(t, i) = GoType(AllFields[s][i], p) /\ GoType(AllFields[s][i], p) \in GoTypes
  BY <1>1, <1>4, GoTypeShape DEF FieldType
<1> HIDE DEF t
<1>6. DOMAIN w.elems = DOMAIN AllFields[s]
  BY <1>1, <1>2, <1>3, <1>4
<1> QED
  BY <1>2, <1>3, <1>5, <1>6 DEF Held

\* The fields that are not left out of its JSON.
LEMMA KeptParts ==
  ASSUME NEW w, NEW s \in DOMAIN AllFields, NEW p \in BOOLEAN, IsStruct(w, s, p)
  PROVE  /\ Kept(w) = {i \in DOMAIN AllFields[s] : ~(AllFields[s][i].optional /\ Empty(w.elems[i]))}
         /\ KeptNames(w) = {AllFields[s][i].name : i \in Kept(w)}
         /\ \A i \in Kept(w) : KeptField(w, AllFields[s][i].name) = w.elems[i]
<1>1. Base(w.type).name = s
  <2>1. Struct(s, p).name = s
    BY DEF Struct, Type
  <2> QED
    BY <2>1 DEF IsStruct
<1>2. DOMAIN w.elems = DOMAIN AllFields[s]
  BY StructParts
<1>3. Kept(w) = {i \in DOMAIN AllFields[s] : ~(AllFields[s][i].optional /\ Empty(w.elems[i]))}
  BY <1>1, <1>2 DEF Kept
<1>4. KeptNames(w) = {AllFields[s][i].name : i \in Kept(w)}
  BY <1>1 DEF KeptNames
<1>5. ASSUME NEW i \in Kept(w) PROVE KeptField(w, AllFields[s][i].name) = w.elems[i]
  <2> DEFINE own == AllFields[s]
             j == CHOOSE j \in Kept(w) : own[j].name = own[i].name
  <2>1. j \in Kept(w) /\ own[j].name = own[i].name
    OBVIOUS
  <2>2. KeptField(w, own[i].name) = w.elems[j]
    BY <1>1 DEF KeptField
  <2>3. i \in DOMAIN own /\ j \in DOMAIN own
    <3> HIDE DEF j
    <3> QED
      BY <1>3, <2>1
  <2> HIDE DEF j
  <2>4. i = j
    BY <2>1, <2>3, StructFields
  <2> QED
    BY <2>2, <2>4
<1> QED
  BY <1>3, <1>4, <1>5

\* Its JSON,
LEMMA StructDecoded ==
  ASSUME NEW w, NEW s \in DOMAIN AllFields, NEW p \in BOOLEAN, IsStruct(w, s, p)
  PROVE  Decoded[w] = MapValue([k \in KeptNames(w) |-> Decoded[KeptField(w, k)]])
<1>1. Base(w.type).kind = "struct"
  <2>1. Struct(s, p).kind = "struct"
    BY DEF Struct, Type
  <2> QED
    BY <2>1 DEF IsStruct
<1> QED
  BY <1>1, DecodedIs DEF DecodedOf, IsStruct, Held, IsNil

\* and the member a field became.
LEMMA StructMember ==
  ASSUME NEW w, NEW s \in DOMAIN AllFields, NEW p \in BOOLEAN, IsStruct(w, s, p), NEW i \in DOMAIN AllFields[s]
  PROVE  /\ i \in Kept(w) => MemberOf(Decoded[w], AllFields[s][i].name) = Decoded[w.elems[i]]
         /\ i \notin Kept(w) => MemberOf(Decoded[w], AllFields[s][i].name) = Nil
<1> DEFINE m == [k \in KeptNames(w) |-> Decoded[KeptField(w, k)]]
           own == AllFields[s]
           k == own[i].name
<1>1. Decoded[w] = MapValue(m)
  BY StructDecoded
<1>2. k \in Keys
  BY StructFields, FieldParts
<1>3. k \in KeptNames(w) <=> i \in Kept(w)
  <2>1. KeptNames(w) = {own[j].name : j \in Kept(w)} /\ Kept(w) \subseteq DOMAIN own
    BY KeptParts
  <2>2. \A j \in DOMAIN own : own[j].name = own[i].name => j = i
    BY StructFields
  <2> QED
    BY <2>1, <2>2
<1>4. /\ Has(MapValue(m), k) <=> k \in DOMAIN m
      /\ Has(MapValue(m), k) => Member(MapValue(m), k) = m[k]
  <2> HIDE DEF m, k
  <2> QED
    BY <1>2, MapHas
<1>5. i \in Kept(w) => m[k] = Decoded[w.elems[i]]
  BY <1>3, KeptParts
<1>6. DOMAIN m = KeptNames(w)
  OBVIOUS
<1> HIDE DEF m, k, own
<1>7. /\ i \in Kept(w) => MemberOf(Decoded[w], k) = Decoded[w.elems[i]]
      /\ i \notin Kept(w) => MemberOf(Decoded[w], k) = Nil
  BY <1>1, <1>3, <1>4, <1>5, <1>6 DEF MemberOf
<1> QED
  BY <1>7 DEF k, own

\* A member of the JSON of a struct is one of its fields.
LEMMA MemberIsField ==
  ASSUME NEW w, NEW s \in DOMAIN AllFields, NEW p \in BOOLEAN, IsStruct(w, s, p), NEW k \in Keys, Has(Decoded[w], k)
  PROVE  \E i \in Kept(w) : i \in DOMAIN AllFields[s] /\ AllFields[s][i].name = k
                             /\ Member(Decoded[w], k) = Decoded[w.elems[i]]
<1> DEFINE m == [n \in KeptNames(w) |-> Decoded[KeptField(w, n)]]
<1>1. k \in DOMAIN m /\ Member(Decoded[w], k) = m[k]
  <2>1. Decoded[w] = MapValue(m)
    BY StructDecoded
  <2> HIDE DEF m
  <2> QED
    BY <2>1, MapHas
<1>2. PICK i \in Kept(w) : AllFields[s][i].name = k
  BY <1>1, KeptParts
<1>3. m[k] = Decoded[w.elems[i]] /\ i \in DOMAIN AllFields[s]
  BY <1>1, <1>2, KeptParts
<1> HIDE DEF m
<1> QED
  BY <1>1, <1>2, <1>3

IsJson(a) ==
  /\ a \in Values /\ a.type \in {NilType, String, Float64, Bool, AnySlice, Map} /\ a.atom \in Atoms
  /\ a.type \in {NilType, AnySlice, Map} => a.atom = Blank
  /\ a.type # AnySlice => a.elems = <<>>
  /\ a.type # Map => a.fields = NoFields
  /\ \A x \in DOMAIN a.elems : Json[a.elems[x]]
  /\ \A k \in Keys : Len(a.fields[k]) <= 1 /\ \A x \in DOMAIN a.fields[k] : Json[a.fields[k][x]]

\* Json, read as a condition on the parts.
LEMMA JsonBuilt == ASSUME NEW a, IsJson(a) PROVE Json[a]
<1>1. JsonIn(Json, a)
  BY DEF IsJson, JsonIn, Blank
<1> QED
  BY <1>1, JsonIs DEF IsJson

LEMMA NoFieldsEmpty == \A k \in Keys : Len(NoFields[k]) <= 1 /\ DOMAIN NoFields[k] = {}
<1> SUFFICES ASSUME NEW k \in Keys PROVE Len(NoFields[k]) <= 1 /\ DOMAIN NoFields[k] = {}
  OBVIOUS
<1>1. NoFields[k] = <<>>
  BY NoFieldsType
<1>2. Len(<<>>) <= 1 /\ DOMAIN <<>> = {}
  OBVIOUS
<1> QED
  BY <1>1, <1>2

LEMMA JsonFlat ==
  ASSUME NEW a \in Values, NEW t \in {NilType, String, Float64, Bool, AnySlice}, NEW x \in Atoms, NEW s \in Seq(Values),
         a = Value(t, x, s, NoFields), t # AnySlice => s = <<>>, t \in {NilType, AnySlice} => x = Blank,
         \A y \in DOMAIN s : Json[s[y]]
  PROVE  Json[a]
<1>1. a.type = t /\ a.atom = x /\ a.elems = s /\ a.fields = NoFields
  BY PointerValue
<1>2. t # Map
  BY Different
<1> QED
  BY <1>1, <1>2, NoFieldsEmpty, JsonBuilt DEF IsJson

LEMMA JsonObject ==
  ASSUME NEW m, MapValue(m) \in Values, \A k \in Keys : k \in DOMAIN m => Json[m[k]]
  PROVE  Json[MapValue(m)]
<1> DEFINE a == MapValue(m)
           e == [k \in Keys |-> IF k \in DOMAIN m THEN <<m[k]>> ELSE <<>>]
<1>1. a = Value(Map, Blank, <<>>, e)
  BY Zenon DEF MapValue, Blank
<1>2. ASSUME NEW k \in Keys PROVE Len(e[k]) <= 1 /\ \A x \in DOMAIN e[k] : Json[e[k][x]]
  <2>1. CASE k \in DOMAIN m
    <3> DEFINE w == m[k]
    <3>1. e[k] = <<w>> /\ Json[w]
      BY <2>1
    <3> HIDE DEF w, e
    <3>2. Len(<<w>>) = 1 /\ DOMAIN <<w>> = {1} /\ <<w>>[1] = w
      OBVIOUS
    <3> QED
      BY <3>1, <3>2
  <2>2. CASE k \notin DOMAIN m
    <3>1. e[k] = <<>>
      BY <2>2
    <3> HIDE DEF e
    <3>2. Len(<<>>) <= 1 /\ DOMAIN <<>> = {}
      OBVIOUS
    <3> QED
      BY <3>1, <3>2
  <2> QED
    BY <2>1, <2>2
<1> HIDE DEF e, a
<1>3. a.type = Map /\ a.atom = Blank /\ a.elems = <<>> /\ a.fields = e
  BY <1>1, PointerValue
<1>4. DOMAIN <<>> = {}
  OBVIOUS
<1>5. Map # AnySlice
  BY Different
<1> QED
  BY <1>2, <1>3, <1>4, <1>5, CompoundValue, JsonBuilt DEF IsJson, a

LEMMA JsonScalar ==
  ASSUME NEW t \in {String, Float64, Bool}, NEW x \in Atoms
  PROVE  Atom(t, x) \in Values /\ Json[Atom(t, x)]
<1>1. t \in ValueTypes /\ x \in AllAtoms /\ 1 \in 1..Depth
  BY BuiltinTypes, DepthNat DEF AllAtoms
<1>2. Atom(t, x) \in Values
  BY <1>1, FlatValue
<1>3. Atom(t, x) = Value(t, x, <<>>, NoFields)
  BY DEF Atom
<1>4. t \notin {NilType, AnySlice} /\ <<>> \in Seq(Values) /\ DOMAIN <<>> = {}
  BY Different, NoFieldsType
<1> QED
  BY <1>2, <1>3, <1>4, JsonFlat

\* Whatever is marshalled is JSON.
LEMMA JsonHeld == ASSUME NEW w, Held(w) PROVE Decoded[w] \in Values /\ Json[Decoded[w]]
<1> DEFINE T == {v \in Values : Held(v) => Json[Decoded[v]]}
<1>1. ASSUME NEW v \in Values, \A u \in Values : Height[u] < Height[v] => u \in T
      PROVE  v \in T
  <2> SUFFICES ASSUME Held(v) PROVE Json[Decoded[v]]
    OBVIOUS
  <2>1. CASE IsNil(v)
    <3>1. Decoded[v] = Nil
      BY <2>1, NilHeld
    <3>2. Nil \in Values /\ Nil = Value(NilType, Blank, <<>>, NoFields)
      BY NilIsNil, CompoundValue DEF Nil
    <3>3. <<>> \in Seq(Values) /\ DOMAIN <<>> = {}
      BY NoFieldsType
    <3>4. Json[Nil]
      BY <3>2, <3>3, CompoundValue, JsonFlat
    <3> QED
      BY <3>1, <3>4
  <2>2. CASE ~IsNil(v) /\ Base(v.type).kind = "slice"
    <3> DEFINE s == [x \in DOMAIN v.elems |-> Decoded[v.elems[x]]]
    <3>1. Decoded[v] = Compound(AnySlice, s) /\ Decoded[v] \in Values
      BY <2>2, SliceHeld, DecodedIs
    <3>2. v.elems \in Seq(Values) /\ \A x \in DOMAIN v.elems : Json[Decoded[v.elems[x]]]
      BY <1>1, <2>2, SliceHeld DEF Held
    <3>3. \A x \in DOMAIN v.elems : Decoded[v.elems[x]] \in Values
      BY <3>2, DecodedIs
    <3>4. s \in Seq(Values) /\ \A y \in DOMAIN s : Json[s[y]]
      BY <3>2, <3>3
    <3> HIDE DEF s
    <3>5. Decoded[v] = Value(AnySlice, Blank, s, NoFields) /\ Blank \in Atoms
      BY <3>1, CompoundValue
    <3> QED
      BY <3>1, <3>4, <3>5, JsonFlat
  <2>3. CASE ~IsNil(v) /\ Base(v.type).kind = "struct"
    <3>1. PICK s \in DOMAIN AllFields, p \in BOOLEAN : IsStruct(v, s, p)
      BY <2>3, StructIs DEF IsStruct
    <3> DEFINE m == [k \in KeptNames(v) |-> Decoded[KeptField(v, k)]]
    <3>2. Decoded[v] = MapValue(m) /\ MapValue(m) \in Values
      BY <3>1, StructDecoded, DecodedIs
    <3>3. ASSUME NEW k \in KeptNames(v) PROVE Json[m[k]]
      <4>1. PICK i \in Kept(v) : AllFields[s][i].name = k
        BY <3>1, KeptParts
      <4>2. m[k] = Decoded[v.elems[i]] /\ i \in DOMAIN AllFields[s]
        BY <3>1, <4>1, KeptParts
      <4>3. Held(v.elems[i]) /\ Height[v.elems[i]] < Height[v]
        BY <3>1, <4>2, StructParts
      <4> HIDE DEF m
      <4> QED
        BY <1>1, <4>2, <4>3 DEF Held
    <3>4. DOMAIN m = KeptNames(v)
      OBVIOUS
    <3> HIDE DEF m
    <3> QED
      BY <3>2, <3>3, <3>4, JsonObject
  <2>4. CASE ~IsNil(v) /\ Base(v.type).kind \notin {"slice", "struct"}
    BY <2>4, ScalarHeld, JsonScalar
  <2> QED
    BY <2>1, <2>2, <2>3, <2>4
<1>2. Values \subseteq T
  <2> HIDE DEF T
  <2> QED
    BY <1>1, HeightType, HeightInduction
<1> QED
  BY <1>2, DecodedIs DEF Held

LEMMA DecodedAtom ==
  ASSUME NEW t, NEW a, NEW u, NEW b, Atom(t, a) = Atom(u, b)
  PROVE  t = u /\ a = b
BY DEF Atom, Value

LEMMA MapType == ASSUME NEW m PROVE MapValue(m).type = Map /\ MapValue(m).elems = <<>>
<1> DEFINE e == [k \in Keys |-> IF k \in DOMAIN m THEN <<m[k]>> ELSE <<>>]
           v == MapValue(m)
<1>1. v = Value(Map, Blank, <<>>, e)
  BY Zenon DEF MapValue, Blank
<1> HIDE DEF v, e
<1>2. v.type = Map /\ v.elems = <<>>
  BY <1>1, PointerValue
<1> QED
  BY <1>2 DEF v

\* What is marshalled to null is a nil pointer or slice.
LEMMA NullDecoded ==
  ASSUME NEW w, Held(w)
  PROVE  /\ IsNil(w) <=> Decoded[w] = Nil
         /\ IsNil(w) <=> Decoded[w].type = NilType
<1>0. Nil.type = NilType
  BY NilIsNil
<1>1. IsNil(w) => Decoded[w] = Nil
  BY NilHeld
<1>2. ASSUME ~IsNil(w), Base(w.type).kind = "slice" PROVE Decoded[w].type # NilType
  <2> DEFINE s == [x \in DOMAIN w.elems |-> Decoded[w.elems[x]]]
  <2>1. Decoded[w] = Compound(AnySlice, s)
    BY <1>2, SliceHeld
  <2> HIDE DEF s
  <2>2. Decoded[w] = Value(AnySlice, Blank, s, NoFields)
    BY <2>1, CompoundValue
  <2> QED
    BY <2>2, PointerValue, Different
<1>3. ASSUME ~IsNil(w), Base(w.type).kind = "struct" PROVE Decoded[w].type # NilType
  <2>1. PICK s \in DOMAIN AllFields, p \in BOOLEAN : IsStruct(w, s, p)
    BY <1>3, StructIs DEF IsStruct
  <2>2. PICK m : Decoded[w] = MapValue(m)
    BY <2>1, StructDecoded
  <2>4. Decoded[w].type = Map
    BY <2>2, MapType
  <2> QED
    BY <2>4, Different
<1>4. ASSUME ~IsNil(w), Base(w.type).kind \notin {"slice", "struct"} PROVE Decoded[w].type # NilType
  <2>1. Decoded[w] = Atom(ScalarJson(Base(w.type)), w.atom) /\ ScalarJson(Base(w.type)) \in {String, Float64, Bool}
    BY <1>4, ScalarHeld
  <2>2. Decoded[w].type \in {String, Float64, Bool}
    BY <2>1, AtomIs
  <2> QED
    BY <2>2, Different
<1> QED
  BY <1>0, <1>1, <1>2, <1>3, <1>4

\* The elements of a slice that is not nil.
LEMMA ArrayDecoded ==
  ASSUME NEW w, Held(w), ~IsNil(w), Base(w.type).kind = "slice"
  PROVE  /\ Decoded[w].type = AnySlice /\ Decoded[w].fields = NoFields
         /\ DOMAIN Decoded[w].elems = DOMAIN w.elems /\ Len(Decoded[w].elems) = Len(w.elems)
         /\ \A x \in DOMAIN w.elems : Decoded[w].elems[x] = Decoded[w.elems[x]]
<1> DEFINE s == [x \in DOMAIN w.elems |-> Decoded[w.elems[x]]]
<1>1. Decoded[w] = Compound(AnySlice, s) /\ w.elems \in Seq(Values)
  BY SliceHeld
<1>2. s \in Seq(Values)
  <2>1. \A x \in DOMAIN w.elems : Decoded[w.elems[x]] \in Values
    BY <1>1, DecodedIs
  <2> QED
    BY <1>1, <2>1
<1>3. DOMAIN s = DOMAIN w.elems /\ Len(s) = Len(w.elems) /\ \A x \in DOMAIN w.elems : s[x] = Decoded[w.elems[x]]
  BY <1>1, <1>2
<1> HIDE DEF s
<1>4. Decoded[w] = Value(AnySlice, Blank, s, NoFields)
  BY <1>1, CompoundValue
<1>5. Decoded[w].type = AnySlice /\ Decoded[w].fields = NoFields /\ Decoded[w].elems = s
  BY <1>4, PointerValue
<1> QED
  BY <1>3, <1>5

\* What omitempty leaves out can be seen in the JSON.
LEMMA EmptySame ==
  ASSUME NEW v, NEW w, Held(v), Held(w), v.type = w.type, Decoded[v] = Decoded[w]
  PROVE  Empty(v) <=> Empty(w)
<1>1. IsNil(v) <=> IsNil(w)
  BY NullDecoded
<1>2. CASE IsNil(v)
  BY <1>1, <1>2, NilHeld
<1>3. CASE ~IsNil(v) /\ v.type.kind \in {"ptr", "struct"}
  BY <1>1, <1>3 DEF Empty, IsNil
<1>4. CASE ~IsNil(v) /\ v.type.kind = "slice"
  <2>1. Base(v.type) = v.type
    BY <1>4, GoTypesShape DEF Held
  <2>2. DOMAIN v.elems = DOMAIN w.elems
    BY <1>1, <1>4, <2>1, ArrayDecoded
  <2>3. v.elems \in Seq(Values) /\ w.elems \in Seq(Values)
    BY Parts DEF Held
  <2>4. \A s \in Seq(Values) : s = <<>> <=> DOMAIN s = {}
    OBVIOUS
  <2> QED
    BY <1>4, <2>2, <2>3, <2>4 DEF Empty
<1>5. CASE ~IsNil(v) /\ v.type.kind \in ScalarKinds
  <2>1. Base(v.type) = v.type /\ v.type.kind \notin {"slice", "struct", "ptr"}
    BY <1>5, GoTypesShape DEF Held, ScalarKinds
  <2>2. Decoded[v] = Atom(ScalarJson(v.type), v.atom) /\ Decoded[w] = Atom(ScalarJson(v.type), w.atom)
    BY <1>1, <1>5, <2>1, ScalarHeld
  <2>3. v.atom = w.atom
    <3> DEFINE t == ScalarJson(v.type)
               a == v.atom
               b == w.atom
    <3>1. Atom(t, a) = Atom(t, b)
      BY <2>2
    <3> HIDE DEF t, a, b
    <3>2. a = b
      BY <3>1, DecodedAtom
    <3> QED
      BY <3>2 DEF a, b
  <2> QED
    BY <2>1, <2>3 DEF Empty
<1> QED
  BY <1>2, <1>3, <1>4, <1>5, GoTypesShape, PlainTypesShape, SliceTypesShape DEF Held

-----------------------------------------------------------------------------
(* A value that stands for the JSON of another marshals to that JSON.      *)
LEMMA SliceDecoded ==
  ASSUME NEW w, Held(w), ~IsNil(w), Base(w.type).kind = "slice"
  PROVE  Decoded[w] = Compound(AnySlice, [x \in DOMAIN w.elems |-> Decoded[w.elems[x]]])
BY SliceHeld

LEMMA SameArray ==
  ASSUME NEW v, NEW w, Held(v), Held(w), ~IsNil(v), ~IsNil(w),
         Base(v.type).kind = "slice", Base(w.type).kind = "slice", Len(v.elems) = Len(w.elems),
         \A x \in DOMAIN w.elems : Decoded[v.elems[x]] = Decoded[w.elems[x]]
  PROVE  Decoded[v] = Decoded[w]
<1>1. v.elems \in Seq(Values) /\ w.elems \in Seq(Values)
  BY SliceHeld
<1>2. DOMAIN v.elems = DOMAIN w.elems
  BY <1>1
<1>3. [x \in DOMAIN v.elems |-> Decoded[v.elems[x]]] = [x \in DOMAIN w.elems |-> Decoded[w.elems[x]]]
  BY <1>2
<1> QED
  BY <1>3, SliceDecoded

LEMMA SameStruct ==
  ASSUME NEW v, NEW w, NEW s \in DOMAIN AllFields, NEW p \in BOOLEAN, IsStruct(v, s, p), IsStruct(w, s, p),
         Kept(v) = Kept(w), \A i \in Kept(w) : Decoded[v.elems[i]] = Decoded[w.elems[i]]
  PROVE  Decoded[v] = Decoded[w]
<1>1. KeptNames(v) = KeptNames(w)
  BY KeptParts
<1>2. ASSUME NEW k \in KeptNames(w) PROVE Decoded[KeptField(v, k)] = Decoded[KeptField(w, k)]
  <2>1. PICK i \in Kept(w) : AllFields[s][i].name = k
    BY KeptParts
  <2>2. KeptField(v, k) = v.elems[i] /\ KeptField(w, k) = w.elems[i]
    BY <2>1, KeptParts
  <2> QED
    BY <2>2
<1>3. [k \in KeptNames(v) |-> Decoded[KeptField(v, k)]] = [k \in KeptNames(w) |-> Decoded[KeptField(w, k)]]
  BY <1>1, <1>2
<1> QED
  BY <1>3, StructDecoded

\* A value without members is empty where omitempty can leave it out.
LEMMA ZeroEmpty ==
  ASSUME NEW f \in IdlFields, NEW p \in BOOLEAN, f.optional
  PROVE  Empty(Zero[GoType(f, p)])
<1> DEFINE t == GoType(f, p)
<1>1. t \in GoTypes /\ t.kind # "struct"
  <2>1. t \in GoTypes
    BY GoTypeShape
  <2>2. t = Bare(f, p) \/ t = Ptr(Bare(f, p))
    BY GoTypeShape
  <2>3. Ptr(Bare(f, p)).kind = "ptr" /\ SliceOf(Plain(f.type, p)).kind = "slice"
    BY PtrShape
  <2>4. f.type \in DOMAIN AllFields /\ ~f.isArray => t = Ptr(Bare(f, p))
    BY GoTypeShape
  <2>5. f.type \notin DOMAIN AllFields => Plain(f.type, p).kind # "struct"
    BY FieldParts, PlainShape DEF IsPlain
  <2> HIDE DEF t
  <2> QED
    BY <2>1, <2>2, <2>3, <2>4, <2>5, FieldParts DEF Bare
<1> HIDE DEF t
<1>2. Zero[t].type = t
  BY <1>1, ZeroFacts
<1>3. t.kind \in {"ptr", "slice"} \cup ScalarKinds
  BY <1>1, GoTypesShape, PlainTypesShape, SliceTypesShape
<1> DEFINE z == Zero[t]
<1>4. t.kind = "ptr" => z.atom = NilPtr
  BY <1>1, ZeroFacts
<1>5. t.kind = "slice" => z.elems = <<>>
  BY <1>1, ZeroFacts
<1>6. t.kind \in ScalarKinds => z.atom = ZeroAtom[t.kind]
  BY <1>1, ZeroFacts
<1>7. z.type = t
  BY <1>2
<1> HIDE DEF z
<1>8. Empty(z)
  BY <1>1, <1>3, <1>4, <1>5, <1>6, <1>7 DEF Empty, ScalarKinds
<1> QED
  BY <1>8 DEF z, t

Carries(v, w) ==
  Held(v) /\ Base(v.type) = Base(w.type) /\ (v.type = w.type \/ Decoded[w] # Nil) /\ Means[v][Decoded[w]]

\* A struct with the members of another's JSON.
LEMMA StructCarries ==
  ASSUME NEW w, Held(w), ~IsNil(w), NEW v, Carries(v, w),
         NEW s \in DOMAIN AllFields, NEW p \in BOOLEAN, IsStruct(w, s, p),
         \A i \in DOMAIN AllFields[s] : Carries(v.elems[i], w.elems[i]) => Decoded[v.elems[i]] = Decoded[w.elems[i]]
  PROVE  Decoded[v] = Decoded[w]
<1> DEFINE a == Decoded[w]
           own == AllFields[s]
<1>1. a \in Values /\ a.type # NilType
  BY NullDecoded, DecodedIs DEF Held
<1>2. MeansIn(Means, v, a) /\ Base(v.type) = Struct(s, p)
  BY <1>1, MeansIs DEF Carries, Held, IsStruct
<1>3. Struct(s, p).kind = "struct" /\ Struct(s, p).name = s
  BY DEF Struct, Type
<1>4. IsStruct(v, s, p) /\ \A i \in DOMAIN v.elems : Means[v.elems[i]][MemberOf(a, own[i].name)]
  BY <1>1, <1>2, <1>3 DEF MeansIn, IsStruct, Carries, IsNil, MemberOf
<1> HIDE DEF a
<1>5. ASSUME NEW i \in DOMAIN own, i \in Kept(w) PROVE Decoded[v.elems[i]] = Decoded[w.elems[i]]
  <2>1. MemberOf(a, own[i].name) = Decoded[w.elems[i]]
    BY <1>5, StructMember DEF a
  <2>2. Held(v.elems[i]) /\ v.elems[i].type = GoType(own[i], p) /\ i \in DOMAIN v.elems
    BY <1>4, <1>5, StructParts
  <2>5. w.elems[i].type = GoType(own[i], p)
    BY <1>5, StructParts
  <2>3. Means[v.elems[i]][Decoded[w.elems[i]]]
    BY <1>4, <2>1, <2>2
  <2>4. Carries(v.elems[i], w.elems[i])
    BY <2>2, <2>3, <2>5 DEF Carries
  <2> QED
    BY <2>4
<1>6. ASSUME NEW i \in DOMAIN own PROVE i \in Kept(v) <=> i \in Kept(w)
  <2>0. /\ i \in Kept(v) <=> ~(own[i].optional /\ Empty(v.elems[i]))
        /\ i \in Kept(w) <=> ~(own[i].optional /\ Empty(w.elems[i]))
    BY <1>4, KeptParts
  <2>1. /\ Held(v.elems[i]) /\ v.elems[i].type = GoType(own[i], p) /\ i \in DOMAIN v.elems
        /\ Held(w.elems[i]) /\ w.elems[i].type = GoType(own[i], p)
    BY <1>4, StructParts
  <2>2. CASE i \in Kept(w)
    <3>1. Decoded[v.elems[i]] = Decoded[w.elems[i]]
      BY <1>5, <2>2
    <3>2. Empty(v.elems[i]) <=> Empty(w.elems[i])
      BY <2>1, <3>1, EmptySame
    <3> QED
      BY <2>0, <3>2
  <2>3. CASE i \notin Kept(w)
    <3>1. MemberOf(a, own[i].name) = Nil
      BY <2>3, StructMember DEF a
    <3>2. Means[v.elems[i]][Nil]
      BY <1>4, <2>1, <3>1
    <3>3. v.elems[i] = Zero[GoType(own[i], p)]
      <4> DEFINE y == v.elems[i]
      <4>1. y \in Values /\ y.type = GoType(own[i], p) /\ Means[y][Nil]
        BY <2>1, <3>2 DEF Held
      <4> HIDE DEF y
      <4>2. y = Zero[y.type]
        BY <4>1, MeansIs, NilIsNil DEF MeansIn
      <4> QED
        BY <4>1, <4>2 DEF y
    <3>4. own[i] \in IdlFields /\ own[i].optional
      BY <2>0, <2>3, StructFields
    <3>5. Empty(v.elems[i])
      BY <3>3, <3>4, ZeroEmpty
    <3> QED
      BY <2>0, <2>3, <3>4, <3>5
  <2> QED
    BY <2>2, <2>3
<1>7. Kept(v) \subseteq DOMAIN own /\ Kept(w) \subseteq DOMAIN own
  BY <1>4, KeptParts
<1>8. Kept(v) = Kept(w)
  BY <1>6, <1>7
<1> QED
  BY <1>4, <1>5, <1>7, <1>8, SameStruct

\* What stands for the JSON of a value marshals to the same JSON.
LEMMA CarriedBack ==
  ASSUME NEW w, Held(w), NEW v, Carries(v, w)
  PROVE  Decoded[v] = Decoded[w]
<1> DEFINE T == {y \in Values : Held(y) => \A x \in Values : Carries(x, y) => Decoded[x] = Decoded[y]}
<1>1. ASSUME NEW y \in Values, \A u \in Values : Height[u] < Height[y] => u \in T
      PROVE  y \in T
  <2> SUFFICES ASSUME Held(y), NEW x \in Values, Carries(x, y) PROVE Decoded[x] = Decoded[y]
    OBVIOUS
  <2>0. ASSUME NEW u, NEW z, Held(u), Height[u] < Height[y], Carries(z, u) PROVE Decoded[z] = Decoded[u]
    BY <1>1, <2>0 DEF Held, Carries
  <2>1. MeansIn(Means, x, Decoded[y]) /\ Held(x) /\ Decoded[y] \in Values
    BY MeansIs, DecodedIs DEF Held, Carries
  <2>2. CASE IsNil(y)
    <3>1. Decoded[y] = Nil /\ Nil.type = NilType
      BY <2>2, NilHeld, NilIsNil
    <3>2. x.type = y.type /\ x = Zero[x.type]
      BY <2>1, <3>1 DEF Carries, MeansIn
    <3>3. IsNil(x)
      <4>1. y = Zero[y.type]
        BY <2>2, NilHeld
      <4> QED
        BY <2>2, <3>2, <4>1 DEF IsNil
    <3> QED
      BY <2>1, <3>1, <3>3, NilHeld
  <2>3. CASE ~IsNil(y)
    <3>1. Decoded[y].type # NilType
      BY <2>3, NullDecoded
    <3>2. ~IsNil(x) /\ Base(x.type) = Base(y.type)
      BY <2>1, <3>1 DEF MeansIn, IsNil, Carries
    <3>3. CASE Base(y.type).kind = "slice"
      <4>1. Len(x.elems) = Len(Decoded[y].elems) /\ \A i \in DOMAIN Decoded[y].elems : Means[x.elems[i]][Decoded[y].elems[i]]
        BY <2>1, <3>1, <3>2, <3>3 DEF MeansIn
      <4>2. Len(x.elems) = Len(y.elems)
        BY <2>3, <3>3, <4>1, ArrayDecoded
      <4>3. ASSUME NEW i \in DOMAIN y.elems PROVE Decoded[x.elems[i]] = Decoded[y.elems[i]]
        <5>0. Means[x.elems[i]][Decoded[y.elems[i]]]
          BY <2>3, <3>3, <4>1, ArrayDecoded
        <5>1. Held(y.elems[i]) /\ y.elems[i].type = Base(y.type).elem[1] /\ Height[y.elems[i]] < Height[y]
          BY <2>3, <3>3, SliceHeld
        <5>2. i \in DOMAIN x.elems
          <6>1. x.elems \in Seq(Values) /\ y.elems \in Seq(Values)
            BY <2>1, Parts DEF Held
          <6> QED
            BY <4>2, <6>1
        <5>3. Held(x.elems[i]) /\ x.elems[i].type = Base(y.type).elem[1]
          BY <2>1, <3>2, <3>3, <5>2, SliceHeld
        <5>4. Carries(x.elems[i], y.elems[i])
          BY <5>0, <5>1, <5>3 DEF Carries
        <5> QED
          BY <2>0, <5>1, <5>4
      <4> QED
        BY <2>1, <2>3, <3>2, <3>3, <4>2, <4>3, SameArray
    <3>4. CASE Base(y.type).kind = "struct"
      <4>1. PICK s \in DOMAIN AllFields, p \in BOOLEAN : IsStruct(y, s, p)
        BY <2>3, <3>4, StructIs DEF IsStruct
      <4>2. \A i \in DOMAIN AllFields[s] : Carries(x.elems[i], y.elems[i]) => Decoded[x.elems[i]] = Decoded[y.elems[i]]
        BY <2>0, <4>1, StructParts
      <4> QED
        BY <2>3, <4>1, <4>2, StructCarries
    <3>5. CASE Base(y.type).kind \notin {"slice", "struct"}
      <4>1. x.atom = Decoded[y].atom
        BY <2>1, <3>1, <3>2, <3>5 DEF MeansIn
      <4>2. Decoded[y] = Atom(ScalarJson(Base(y.type)), y.atom) /\ Decoded[x] = Atom(ScalarJson(Base(y.type)), x.atom)
        BY <2>1, <2>3, <3>2, <3>5, ScalarHeld
      <4>3. Decoded[y].atom = y.atom
        <5> DEFINE t == ScalarJson(Base(y.type))
                   b == y.atom
                   d == Decoded[y]
        <5>1. d = Atom(t, b)
          BY <4>2
        <5> HIDE DEF t, b, d
        <5>2. d.atom = b
          BY <5>1, AtomIs
        <5> QED
          BY <5>2 DEF b, d
      <4> QED
        BY <4>1, <4>2, <4>3
    <3> QED
      BY <3>3, <3>4, <3>5
  <2> QED
    BY <2>2, <2>3
<1>2. Values \subseteq T
  <2> HIDE DEF T
  <2> QED
    BY <1>1, HeightType, HeightInduction
<1> QED
  BY <1>2 DEF Held, Carries

-----------------------------------------------------------------------------
(* Where there are nulls in it.                                            *)

\* null is admitted where a value is optional.
LEMMA AdmitsNull == ASSUME NEW f \in IdlFields PROVE Admits[Nil][f] <=> f.optional
BY NilIsNil, AdmitsIs DEF AdmitsIn

LEMMA AdmitsArray ==
  ASSUME NEW a \in Values, NEW f \in IdlFields, a.type # NilType, f.isArray
  PROVE  Admits[a][f] <=> a.type = AnySlice /\ \A x \in DOMAIN a.elems : Admits[a.elems[x]][Element(f)]
BY AdmitsIs DEF AdmitsIn

LEMMA NoNullFlat ==
  ASSUME NEW a \in Values, a.type # NilType, a.fields = NoFields, \A x \in DOMAIN a.elems : ~HasNull[a.elems[x]]
  PROVE  ~HasNull[a]
<1>1. \A k \in Keys : ~Has(a, k)
  BY NoFieldsType DEF Has
<1> QED
  BY <1>1, HasNullIs DEF NullIn

\* The Go type of a field says what kind of field it is.
LEMMA BareKinds ==
  ASSUME NEW f \in IdlFields, NEW p \in BOOLEAN
  PROVE  /\ Bare(f, p).kind = "slice" <=> f.isArray
         /\ f.isArray => Bare(f, p).elem[1] = Plain(f.type, p)
         /\ Bare(f, p).kind = "struct" <=> ~f.isArray /\ f.type \in DOMAIN AllFields
         /\ Bare(f, p).kind = "struct" => Bare(f, p) = Struct(f.type, p)
         /\ Plain(f.type, p) \in GoTypes /\ Plain(f.type, p).kind \notin {"ptr", "slice"}
         /\ Base(Plain(f.type, p)) = Plain(f.type, p) /\ Bare(Element(f), p) = Plain(f.type, p)
<1> DEFINE u == Plain(f.type, p)
<1>1. u \in PlainTypes /\ PlainTypes \subseteq GoTypes /\ IsPlain(u, f.type, p)
  BY FieldParts, PlainIsGoType, PlainShape
<1>2. u.kind \notin {"ptr", "slice"} /\ Base(u) = u
  BY <1>1, PlainTypesShape DEF ScalarKinds
<1>3. SliceOf(u).kind = "slice" /\ SliceOf(u).elem[1] = u
  BY PtrShape
<1>4. Element(f).type = f.type /\ ~Element(f).isArray
  BY FieldParts
<1>5. u.kind = "struct" <=> f.type \in DOMAIN AllFields
  BY <1>1 DEF IsPlain
<1>6. u.kind = "struct" => u = Struct(f.type, p)
  BY <1>1 DEF IsPlain
<1>7. Bare(f, p) = IF f.isArray THEN SliceOf(u) ELSE u
  BY DEF Bare
<1>8. Bare(Element(f), p) = u
  BY <1>4 DEF Bare
<1> HIDE DEF u
<1> QED
  BY <1>1, <1>2, <1>3, <1>5, <1>6, <1>7, <1>8 DEF u

Full(w) ==
  \A f \in IdlFields : \A p \in BOOLEAN :
    Base(w.type) = Bare(f, p) /\ Admits[Decoded[w]][f] /\ Decoded[w] # Nil => ~HasNull[Decoded[w]]

\* An admitted array of plain elements has no nulls.
LEMMA FullSlice ==
  ASSUME NEW w, Held(w), ~IsNil(w), Base(w.type).kind = "slice",
         \A x \in DOMAIN w.elems : Full(w.elems[x])
  PROVE  Full(w)
<1> SUFFICES ASSUME NEW f \in IdlFields, NEW p \in BOOLEAN, Base(w.type) = Bare(f, p), Admits[Decoded[w]][f]
             PROVE  ~HasNull[Decoded[w]]
  BY DEF Full
<1> DEFINE a == Decoded[w]
<1>1. a \in Values /\ a.type # NilType /\ a.fields = NoFields /\ DOMAIN a.elems = DOMAIN w.elems
      /\ \A x \in DOMAIN w.elems : a.elems[x] = Decoded[w.elems[x]]
  BY ArrayDecoded, NullDecoded, DecodedIs DEF Held
<1> HIDE DEF a
<1>2. f.isArray
  BY BareKinds
<1>3. ASSUME NEW x \in DOMAIN w.elems PROVE ~HasNull[a.elems[x]]
  <2> DEFINE v == w.elems[x]
  <2>1. Held(v) /\ v.type = Plain(f.type, p)
    <3>1. Held(v) /\ v.type = Base(w.type).elem[1]
      BY SliceHeld
    <3>2. Bare(f, p).elem[1] = Plain(f.type, p)
      BY <1>2, BareKinds
    <3> HIDE DEF v
    <3> QED
      BY <3>1, <3>2
  <2>2. Base(v.type) = Bare(Element(f), p) /\ v.type.kind \notin {"ptr", "slice"}
    BY <2>1, BareKinds
  <2>3. Admits[Decoded[v]][Element(f)] /\ Element(f) \in IdlFields
    <3>1. \A y \in DOMAIN a.elems : Admits[a.elems[y]][Element(f)]
      <4>1. Admits[a][f]
        BY DEF a
      <4> QED
        BY <1>1, <1>2, <4>1, AdmitsArray
    <3>2. Element(f) \in IdlFields
      BY FieldParts
    <3>3. a.elems[x] = Decoded[v]
      BY <1>1
    <3> HIDE DEF v
    <3> QED
      BY <1>1, <3>1, <3>2, <3>3
  <2>4. Full(v)
    OBVIOUS
  <2> HIDE DEF v
  <2>5. Decoded[v] # Nil
    BY <2>1, <2>2, NilHeld, NullDecoded
  <2>6. ~HasNull[Decoded[v]]
    BY <2>2, <2>3, <2>4, <2>5 DEF Full
  <2> QED
    BY <1>1, <2>6 DEF v
<1>4. ~HasNull[a]
  BY <1>1, <1>3, NoNullFlat
<1> QED
  BY <1>4 DEF a

\* An admitted struct has none: a field that is nil is optional, and left out.
LEMMA FullStruct ==
  ASSUME NEW w, NEW s \in DOMAIN AllFields, NEW q \in BOOLEAN, IsStruct(w, s, q),
         \A i \in DOMAIN AllFields[s] : Full(w.elems[i])
  PROVE  Full(w)
<1> SUFFICES ASSUME NEW f \in IdlFields, NEW p \in BOOLEAN, Base(w.type) = Bare(f, p), Admits[Decoded[w]][f]
             PROVE  ~HasNull[Decoded[w]]
  BY DEF Full
<1> DEFINE a == Decoded[w]
           own == AllFields[s]
<1>0. a \in Values /\ a.type # NilType
  BY NullDecoded, DecodedIs DEF Held, IsStruct
<1>1. f.type = s /\ p = q /\ ~f.isArray
  <2>1. /\ Struct(s, q).kind = "struct" /\ Struct(s, q).name = s /\ Struct(s, q).toPtr = q
        /\ Struct(f.type, p).name = f.type /\ Struct(f.type, p).toPtr = p
    BY DEF Struct, Type
  <2> QED
    BY <2>1, BareKinds DEF IsStruct
<1>2. a.elems = <<>>
  <2> DEFINE m == [k \in KeptNames(w) |-> Decoded[KeptField(w, k)]]
  <2>1. a = MapValue(m)
    BY StructDecoded
  <2> HIDE DEF m
  <2> QED
    BY <2>1, MapType
<1> HIDE DEF a
<1>3. \A i \in DOMAIN own : FieldAdmitted(a, own[i])
  BY <1>0, <1>1, AdmitsStruct DEF a
<1>4. ASSUME NEW k \in Keys, Has(a, k) PROVE ~HasNull[Member(a, k)]
  <2>1. PICK i \in Kept(w) : i \in DOMAIN own /\ own[i].name = k /\ Member(a, k) = Decoded[w.elems[i]]
    BY <1>4, MemberIsField DEF a
  <2> DEFINE v == w.elems[i]
  <2>2. Held(v) /\ v.type = GoType(own[i], q) /\ own[i] \in IdlFields
    <3>1. Held(v) /\ v.type = GoType(own[i], q)
      BY <2>1, StructParts
    <3>2. own[i] \in IdlFields
      BY <2>1, StructFields
    <3> QED
      BY <3>1, <3>2
  <2>3. Base(v.type) = Bare(own[i], q)
    BY <2>2, GoTypeShape
  <2>4. Admits[Decoded[v]][own[i]]
    BY <1>3, <1>4, <2>1 DEF FieldAdmitted
  <2>5. ~(own[i].optional /\ Empty(v))
    BY <2>1, KeptParts
  <2>6. Full(v)
    BY <2>1
  <2> HIDE DEF v
  <2>7. Decoded[v] # Nil
    <3>1. Decoded[v] = Nil => own[i].optional
      BY <2>2, <2>4, AdmitsNull
    <3>2. Decoded[v] = Nil => Empty(v)
      BY <2>2, NullDecoded, NilHeld
    <3> QED
      BY <2>5, <3>1, <3>2
  <2>8. ~HasNull[Decoded[v]]
    BY <2>2, <2>3, <2>4, <2>6, <2>7 DEF Full
  <2> QED
    BY <2>1, <2>8 DEF v
<1>5. ~NullIn(HasNull, a)
  <2>1. DOMAIN <<>> = {}
    OBVIOUS
  <2> QED
    BY <1>0, <1>2, <1>4, <2>1 DEF NullIn
<1>6. ~HasNull[a]
  BY <1>0, <1>5, HasNullIs
<1> QED
  BY <1>6 DEF a

\* A result without nil where the IDL allows none has no nulls: omitempty leaves out the rest.
LEMMA FullHeld == ASSUME NEW w, Held(w) PROVE Full(w)
<1> DEFINE T == {v \in Values : Held(v) => Full(v)}
<1>1. ASSUME NEW v \in Values, \A u \in Values : Height[u] < Height[v] => u \in T
      PROVE  v \in T
  <2> SUFFICES ASSUME Held(v) PROVE Full(v)
    OBVIOUS
  <2>0. ASSUME NEW u, Held(u), Height[u] < Height[v] PROVE Full(u)
    BY <1>1, <2>0 DEF Held
  <2>1. CASE IsNil(v)
    BY <2>1, NilHeld DEF Full
  <2>2. CASE ~IsNil(v) /\ Base(v.type).kind = "slice"
    <3>1. \A x \in DOMAIN v.elems : Full(v.elems[x])
      BY <2>0, <2>2, SliceHeld
    <3> QED
      BY <2>2, <3>1, FullSlice
  <2>3. CASE ~IsNil(v) /\ Base(v.type).kind = "struct"
    <3>1. PICK s \in DOMAIN AllFields, p \in BOOLEAN : IsStruct(v, s, p)
      BY <2>3, StructIs DEF IsStruct
    <3>2. \A i \in DOMAIN AllFields[s] : Full(v.elems[i])
      BY <2>0, <3>1, StructParts
    <3> QED
      BY <3>1, <3>2, FullStruct
  <2>4. CASE ~IsNil(v) /\ Base(v.type).kind \notin {"slice", "struct"}
    <3> DEFINE t == ScalarJson(Base(v.type))
               b == v.atom
               d == Decoded[v]
    <3>1. d = Atom(t, b) /\ t \in {String, Float64, Bool} /\ d \in Values
      BY <2>4, ScalarHeld, DecodedIs
    <3> HIDE DEF t, b, d
    <3>2. d.type = t /\ d.elems = <<>> /\ d.fields = NoFields /\ DOMAIN <<>> = {}
      BY <3>1, AtomIs
    <3>3. ~HasNull[d]
      BY <3>1, <3>2, Different, NoNullFlat
    <3> QED
      BY <3>3 DEF d, Full
  <2> QED
    BY <2>1, <2>2, <2>3, <2>4
<1>2. Values \subseteq T
  <2> HIDE DEF T
  <2> QED
    BY <1>1, HeightType, HeightInduction
<1> QED
  BY <1>2 DEF Held

-----------------------------------------------------------------------------
(* Proxies.                                                                *)
\* A proxy gets a result through Convert only for types that have neither nil nor "" as zero value expression.
Whole(f, p, t) == t = GoType(f, p) /\ t = Bare(f, p) /\ ~(p /\ f.optional) /\ t \in GoTypes

LEMMA ProxyTypes ==
  ASSUME NEW f \in IdlFields, NEW p \in BOOLEAN
  PROVE  /\ \/ ZeroValType(f, p) = NilType
            \/ ZeroValType(f, p) = String /\ GoType(f, p) # String /\ ~(p /\ f.optional)
            \/ Whole(f, p, ZeroValType(f, p))
         /\ ~f.optional /\ (f.isArray \/ f.type \notin DOMAIN Enum) => Whole(f, p, ZeroValType(f, p))
<1> DEFINE u == Plain(f.type, p)
           t == ZeroValType(f, p)
<1>1. f.type \in IdlTypes /\ f.optional \in BOOLEAN /\ f.isArray \in BOOLEAN
  BY FieldParts
<1>2. GoType(f, p) = Bare(f, p) \/ GoType(f, p) = Ptr(Bare(f, p))
  BY GoTypeShape
<1>3. GoType(f, p) = Ptr(Bare(f, p)) <=> f.optional /\ (p \/ (f.type \in DOMAIN AllFields /\ ~f.isArray))
  BY GoTypeShape
<1>4. Bare(f, p) \in GoTypes /\ IsPlain(u, f.type, p)
  BY <1>1, GoTypeShape, PlainShape
<1>5. Bare(f, p) = IF f.isArray THEN SliceOf(u) ELSE u
  BY DEF Bare
<1>6. CASE f.optional /\ p
  BY <1>6 DEF ZeroValType
<1>7. CASE ~(f.optional /\ p) /\ f.isArray
  <2> DEFINE g == [f EXCEPT !.optional = FALSE]
  <2>1. g \in IdlFields /\ g.type = f.type /\ g.isArray = f.isArray /\ ~g.optional
    BY DEF IdlFields
  <2>2. GoType(g, p) = Bare(g, p)
    BY <2>1, GoTypeShape
  <2>3. Bare(g, p) = Bare(f, p)
    BY <2>1 DEF Bare
  <2>4. t = GoType(g, p)
    BY <1>7 DEF ZeroValType
  <2> HIDE DEF g, t
  <2>5. Whole(f, p, t)
    BY <1>2, <1>3, <1>4, <1>7, <2>2, <2>3, <2>4 DEF Whole
  <2> QED
    BY <2>5 DEF t
<1>8. CASE ~(f.optional /\ p) /\ ~f.isArray /\ f.type \in DOMAIN Enum
  <2>1. t = String
    BY <1>8 DEF ZeroValType
  <2>2. u # String /\ GoType(f, p) = u
    BY <1>2, <1>3, <1>4, <1>5, <1>8, FieldKinds DEF IsPlain
  <2> HIDE DEF u, t
  <2> QED
    BY <1>8, <2>1, <2>2 DEF t
<1>9. CASE ~(f.optional /\ p) /\ ~f.isArray /\ f.type \notin DOMAIN Enum /\ f.optional /\ f.type \in DOMAIN AllFields
  BY <1>9 DEF ZeroValType
<1>10. CASE ~(f.optional /\ p) /\ ~f.isArray /\ f.type \notin DOMAIN Enum /\ ~(f.optional /\ f.type \in DOMAIN AllFields)
  <2>1. t = GoType(f, p)
    BY <1>10 DEF ZeroValType
  <2> HIDE DEF t
  <2>2. Whole(f, p, t)
    BY <1>2, <1>3, <1>4, <1>10, <2>1 DEF Whole
  <2> QED
    BY <2>2 DEF t
<1> QED
  BY <1>1, <1>6, <1>7, <1>8, <1>9, <1>10

\* A conversion to string makes strings.
LEMMA StringOnly ==
  ASSUME NEW f \in IdlFields, NEW a \in Values, Run[NewConvert(f, String, a)].status = "ok"
  PROVE  Run[NewConvert(f, String, a)].val.type = String
<1> DEFINE e == StepTo(f, String, a)
           r == Run[NewConvert(f, String, a)]
<1>0. String \in PlainTypes /\ String \in GoTypes /\ String.kind = "string" /\ Base(String) = String
  BY BuiltinTypes, Kinds, PlainTypesShape
<1>1. e \in Conversions /\ e.desired = String /\ ~e.desirePtr /\ e.actual = a
  BY <1>0, StepIs
<1>2. r = IF a.type = String THEN Ok(a)
          ELSE IF a.type # NilType THEN ByKind(Run, e)
          ELSE IF ~f.optional THEN Err
          ELSE Ok(IF String.kind \in {"ptr", "slice"} THEN Nil ELSE Zero[String])
  BY <1>0, RunNew
<1>3. ByKind(Run, e) = StringOrEnum(e)
  BY <1>0, <1>1, ByKindIs
<1>4. StringOrEnum(e).status = "ok" => StringOrEnum(e).val.type = String
  <2> DEFINE v == Atom(String, a.atom)
  <2>1. v.type = String
    BY AtomIs
  <2> HIDE DEF v, e
  <2>2. ConvertedVal(e, v) = Ok(v) /\ ConvertedVal(e, a) = Ok(a)
    BY <1>1 DEF ConvertedVal
  <2>3. StringOrEnum(e) \in {Err, Panic, ConvertedVal(e, v)} \/ (a.type = String /\ StringOrEnum(e) = ConvertedVal(e, a))
    BY <1>1 DEF StringOrEnum, v
  <2> QED
    BY <2>1, <2>2, <2>3, OutcomesAre
<1>5. Zero[String].type = String
  BY <1>0, ZeroFacts
<1> HIDE DEF e, r
<1>6. r.status = "ok" => r.val.type = String
  BY <1>0, <1>2, <1>3, <1>4, <1>5, OutcomesAre
<1> QED
  BY <1>6 DEF r

\* A proxy that returns no error took one of two ways.
LEMMA CastIs ==
  ASSUME NEW f \in IdlFields, NEW p \in BOOLEAN, NEW a \in Values, Cast(f, p, a).status = "ok"
  PROVE  \/ /\ p /\ f.optional /\ a = Nil
            /\ Cast(f, p, a).val = Zero[GoType(f, p)]
         \/ /\ Whole(f, p, GoType(f, p)) /\ Run[NewConvert(f, GoType(f, p), a)].status = "ok"
            /\ Cast(f, p, a).val = Run[NewConvert(f, GoType(f, p), a)].val
            /\ Cast(f, p, a).val.type = GoType(f, p)
<1> DEFINE t == ZeroValType(f, p)
           c == NewConvert(f, t, a)
           r == Run[c]
           g == GoType(f, p)
           k == Cast(f, p, a)
<1>1. CASE p /\ f.optional /\ a = Nil
  BY <1>1, OutcomesAre DEF Cast
<1>2. CASE ~(p /\ f.optional /\ a = Nil)
  <2>1. k = IF ConvertFn(f, t, a).status = "ok" /\ ConvertFn(f, t, a).val.type # g THEN Err ELSE ConvertFn(f, t, a)
    BY <1>2 DEF Cast, Asserted
  <2>2. ConvertFn(f, t, a) = IF r = Ok(Nil) THEN Panic ELSE r
    BY DEF ConvertFn, Interface
  <2>3. k.status = "ok"
    OBVIOUS
  <2>4. t = String => (r.status = "ok" => r.val.type = String)
    BY StringOnly
  <2>5. t = NilType => r = Panic
    <3> SUFFICES ASSUME t = NilType PROVE r = Panic
      OBVIOUS
    <3>1. c \in Conversions /\ c.desired = NilType
      <4> HIDE DEF t
      <4> QED
        BY DEF NewConvert, Conversions
    <3> HIDE DEF c
    <3> QED
      BY <3>1, RunIs DEF RunOf
  <2>6. t = NilType \/ (t = String /\ g # String) \/ Whole(f, p, t)
    BY ProxyTypes
  <2>7. Whole(f, p, t) => t = g
    BY DEF Whole
  <2>8. r = Run[NewConvert(f, t, a)]
    OBVIOUS
  <2> HIDE DEF t, g, r, k, c
  <2>9. k = r /\ k.val.type = g /\ r.status = "ok"
    BY <2>1, <2>2, <2>3, OutcomesAre
  <2>10. Whole(f, p, t)
    BY <2>4, <2>5, <2>6, <2>9, OutcomesAre
  <2>11. t = GoType(f, p)
    BY <2>7, <2>10 DEF g
  <2> QED
    BY <2>8, <2>9, <2>10, <2>11 DEF k, g
<1> QED
  BY <1>1, <1>2

SoundMethod(m) ==
  m.field \in IdlFields /\ m.accepts \in GoTypes /\ m.toPtr \in BOOLEAN /\ Sound(m)

\* What Server.Call makes of an argument.
LEMMA ArgumentGood ==
  ASSUME NEW m, SoundMethod(m), NEW a \in Values, Json[a]
  PROVE  Placed(m.field, m.accepts, a, Assigned(m.accepts, Run[NewConvert(m.field, m.accepts, a)]))
<1>1. PICK C : Closed(m.toPtr, C) /\ Clean(m.field, m.toPtr, C)
  BY SoundClean DEF SoundMethod, Sound
<1>2. Fits(m.field, m.accepts, m.toPtr)
  BY SoundFits DEF SoundMethod
<1>3. GoodFor(a, m.toPtr, C)
  BY <1>1, ConversionGood DEF SoundMethod
<1>4. Good(m.field, m.accepts, a, Run[NewConvert(m.field, m.accepts, a)])
  BY <1>1, <1>2, <1>3 DEF GoodFor, SoundMethod
<1> QED
  BY <1>4, AssignedGood DEF SoundMethod

\* What a proxy's conversion makes of a result.
LEMMA ResultGood ==
  ASSUME NEW m, SoundMethod(m), Whole(m.field, m.toPtr, GoType(m.field, m.toPtr)), NEW a \in Values, Json[a]
  PROVE  LET t == GoType(m.field, m.toPtr) IN Good(m.field, t, a, Run[NewConvert(m.field, t, a)])
<1>1. PICK C : Closed(m.toPtr, C) /\ Clean(m.field, m.toPtr, C)
  BY SoundClean DEF SoundMethod, Sound
<1>2. Fits(m.field, GoType(m.field, m.toPtr), m.toPtr)
  BY GoTypeFits DEF SoundMethod, Whole
<1>3. GoodFor(a, m.toPtr, C)
  BY <1>1, ConversionGood DEF SoundMethod
<1> QED
  BY <1>1, <1>2, <1>3 DEF GoodFor, SoundMethod, Whole

\* A handler with []*T returns what a proxy reads as []T.
LEMMA PointersCarried ==
  ASSUME NEW f \in IdlFields, NEW p \in BOOLEAN, f.isArray, ~f.optional, f.type \in DOMAIN AllFields,
         NEW w, Held(w), w.type = SliceOf(Ptr(Struct(f.type, p))),
         NEW v, Held(v), v.type = Bare(f, p), Means[v][Decoded[w]], Admits[Decoded[w]][f]
  PROVE  Decoded[v] = Decoded[w]
<1> DEFINE a == Decoded[w]
           u == Struct(f.type, p)
<1>1. Base(w.type).kind = "slice" /\ Base(w.type).elem[1] = Ptr(u)
  BY PtrShape
<1>2. Base(v.type).kind = "slice" /\ Base(v.type).elem[1] = u /\ Base(Ptr(u)) = u /\ Base(u) = u
  <2>1. Bare(f, p) = SliceOf(Plain(f.type, p)) /\ Plain(f.type, p) = u
    <3>1. IsPlain(Plain(f.type, p), f.type, p)
      BY FieldParts, PlainShape
    <3> QED
      BY <3>1 DEF Bare, IsPlain
  <2>2. Base(Plain(f.type, p)) = Plain(f.type, p)
    BY BareKinds
  <2> HIDE DEF u
  <2> QED
    BY <2>1, <2>2, PtrShape
<1>3. a \in Values /\ a # Nil
  BY AdmitsNull, DecodedIs DEF Held
<1>4. ~IsNil(w) /\ a.type # NilType
  BY <1>3, NullDecoded
<1>5. a.type = AnySlice /\ \A x \in DOMAIN a.elems : Admits[a.elems[x]][Element(f)]
  BY <1>3, <1>4, AdmitsArray
<1>6. /\ DOMAIN a.elems = DOMAIN w.elems /\ Len(a.elems) = Len(w.elems)
      /\ \A x \in DOMAIN w.elems : a.elems[x] = Decoded[w.elems[x]]
  BY <1>1, <1>4, ArrayDecoded
<1>7. ~IsNil(v) /\ Len(v.elems) = Len(a.elems) /\ \A x \in DOMAIN a.elems : Means[v.elems[x]][a.elems[x]]
  <2>1. MeansIn(Means, v, a)
    BY <1>3, MeansIs DEF Held
  <2> HIDE DEF a
  <2> QED
    BY <1>2, <1>4, <2>1 DEF MeansIn, IsNil
<1> HIDE DEF a, u
<1>8. ASSUME NEW x \in DOMAIN w.elems PROVE Decoded[v.elems[x]] = Decoded[w.elems[x]]
  <2> DEFINE y == v.elems[x]
             z == w.elems[x]
  <2>1. x \in DOMAIN v.elems
    <3>1. v.elems \in Seq(Values) /\ w.elems \in Seq(Values)
      BY Parts DEF Held
    <3> QED
      BY <1>6, <1>7, <3>1
  <2>2. Held(z) /\ z.type = Ptr(u)
    BY <1>1, <1>4, SliceHeld
  <2>3. Held(y) /\ y.type = u
    BY <1>2, <1>7, <2>1, SliceHeld
  <2>4. Means[y][Decoded[z]] /\ Admits[Decoded[z]][Element(f)]
    BY <1>5, <1>6, <1>7
  <2> HIDE DEF y, z
  <2>5. Decoded[z] # Nil
    BY <2>4, AdmitsNull, FieldParts
  <2>6. Carries(y, z)
    BY <1>2, <2>2, <2>3, <2>4, <2>5 DEF Carries
  <2>7. Decoded[y] = Decoded[z]
    BY <2>2, <2>6, CarriedBack
  <2> QED
    BY <2>7 DEF y, z
<1> QED
  BY <1>1, <1>2, <1>4, <1>6, <1>7, <1>8, SameArray

ProxyGood(m, w) ==
  LET r == Cast(m.field, m.toPtr, Decoded[w])
      t == GoType(m.field, m.toPtr)
  IN r.status = "ok" => Held(r.val) /\ r.val.type = t /\ Decoded[r.val] = Decoded[w]

\* A proxy returns its declared type, with the data it was sent.
LEMMA CastGood ==
  ASSUME NEW m, SoundMethod(m), NEW w, Held(w), w.type = m.accepts
  PROVE  ProxyGood(m, w)
<1> DEFINE f == m.field
           p == m.toPtr
           t == GoType(f, p)
           a == Decoded[w]
           r == Cast(f, p, a)
           v == r.val
<1> SUFFICES ASSUME r.status = "ok" PROVE Held(v) /\ v.type = t /\ Decoded[v] = a
  BY DEF ProxyGood
<1>1. f \in IdlFields /\ p \in BOOLEAN /\ m.accepts \in GoTypes /\ Sound(m)
  BY DEF SoundMethod
<1>2. a \in Values /\ Json[a] /\ t \in GoTypes
  BY <1>1, JsonHeld, GoTypeShape
<1>3. CASE p /\ f.optional /\ a = Nil /\ v = Zero[t]
  <2>1. t.kind = "ptr"
    <3>1. t = Ptr(Bare(f, p))
      BY <1>1, <1>3, GoTypeShape
    <3> QED
      BY <3>1, PtrShape
  <2> HIDE DEF v, t, a
  <2>2. Held(v) /\ v.type = t /\ IsNil(v)
    BY <1>2, <1>3, <2>1, ZeroFacts, TypedZero DEF Held, IsNil
  <2> QED
    BY <1>3, <2>2, NilHeld
<1>4. CASE /\ Whole(f, p, t) /\ Run[NewConvert(f, t, a)].status = "ok"
           /\ v = Run[NewConvert(f, t, a)].val /\ v.type = t
  <2> DEFINE o == Run[NewConvert(f, t, a)]
  <2>1. Good(f, t, a, o)
    BY <1>2, <1>4, ResultGood
  <2>2. o.status = "ok" /\ v = o.val /\ v.type = t /\ t # NilType
    BY <1>2, <1>4, NilIsNil
  <2> HIDE DEF o, v
  <2>3. Admits[a][f] /\ Arrived(t, a, v)
    BY <2>1, <2>2, NilIsNil DEF Good
  <2>4. Held(v) /\ Means[v][a]
    BY <1>2, <2>2, <2>3 DEF Arrived, Held
  <2>5. CASE m.accepts = t
    <3>1. Carries(v, w)
      BY <2>2, <2>4, <2>5 DEF Carries
    <3> QED
      BY <2>2, <2>4, <3>1, CarriedBack
  <2>6. CASE TakesPointers(m)
    <3>1. t = Bare(f, p)
      BY <1>4 DEF Whole
    <3> QED
      BY <1>1, <2>2, <2>3, <2>4, <2>6, <3>1, PointersCarried DEF TakesPointers
  <2> QED
    BY <1>1, <2>5, <2>6 DEF Sound
<1> QED
  <2> HIDE DEF v, r, t, a
  <2>1. \/ p /\ f.optional /\ a = Nil /\ v = Zero[t]
        \/ /\ Whole(f, p, t) /\ Run[NewConvert(f, t, a)].status = "ok"
           /\ v = Run[NewConvert(f, t, a)].val /\ v.type = t
    BY <1>1, <1>2, CastIs DEF r, v, t
  <2> QED
    BY <1>3, <1>4, <2>1

\* An admitted []*T has no nulls.
LEMMA PointersFull ==
  ASSUME NEW f \in IdlFields, NEW p \in BOOLEAN, f.isArray, ~f.optional, f.type \in DOMAIN AllFields,
         NEW w, Held(w), w.type = SliceOf(Ptr(Struct(f.type, p))), Admits[Decoded[w]][f]
  PROVE  ~HasNull[Decoded[w]]
<1> DEFINE a == Decoded[w]
           u == Struct(f.type, p)
<1>1. Base(w.type).kind = "slice" /\ Base(w.type).elem[1] = Ptr(u) /\ Base(Ptr(u)) = u
  BY PtrShape
<1>2. a \in Values /\ a # Nil
  BY AdmitsNull, DecodedIs DEF Held
<1>3. ~IsNil(w) /\ a.type # NilType
  BY <1>2, NullDecoded
<1>4. a.type = AnySlice /\ \A x \in DOMAIN a.elems : Admits[a.elems[x]][Element(f)]
  BY <1>2, <1>3, AdmitsArray
<1>5. /\ DOMAIN a.elems = DOMAIN w.elems /\ a.fields = NoFields
      /\ \A x \in DOMAIN w.elems : a.elems[x] = Decoded[w.elems[x]]
  BY <1>1, <1>3, ArrayDecoded
<1>6. Bare(Element(f), p) = u /\ Element(f) \in IdlFields /\ ~Element(f).optional
  <2>1. IsPlain(Plain(f.type, p), f.type, p)
    BY FieldParts, PlainShape
  <2> QED
    BY <2>1, BareKinds, FieldParts DEF IsPlain
<1> HIDE DEF a, u
<1>7. ASSUME NEW x \in DOMAIN a.elems PROVE ~HasNull[a.elems[x]]
  <2> DEFINE z == w.elems[x]
  <2>1. Held(z) /\ z.type = Ptr(u)
    BY <1>1, <1>3, <1>5, SliceHeld
  <2>2. Admits[Decoded[z]][Element(f)] /\ a.elems[x] = Decoded[z]
    BY <1>4, <1>5
  <2> HIDE DEF z
  <2>3. Decoded[z] # Nil
    BY <1>6, <2>2, AdmitsNull
  <2>4. Full(z)
    BY <2>1, FullHeld
  <2>5. Base(z.type) = Bare(Element(f), p)
    BY <1>1, <1>6, <2>1
  <2> QED
    BY <1>6, <2>2, <2>3, <2>4, <2>5 DEF Full
<1>8. ~HasNull[a]
  BY <1>2, <1>3, <1>5, <1>7, NoNullFlat
<1> QED
  BY <1>8 DEF a

\* A proxy returns every result that the IDL admits, where it can at all.
LEMMA CastDelivers ==
  ASSUME NEW m, SoundMethod(m), NEW w, Held(w), w.type = m.accepts,
         ~m.field.optional, m.field.isArray \/ m.field.type \notin DOMAIN Enum, Admits[Decoded[w]][m.field]
  PROVE  Cast(m.field, m.toPtr, Decoded[w]).status = "ok"
<1> DEFINE f == m.field
           p == m.toPtr
           t == GoType(f, p)
           a == Decoded[w]
           o == Run[NewConvert(f, t, a)]
<1>1. f \in IdlFields /\ p \in BOOLEAN /\ m.accepts \in GoTypes /\ Sound(m)
  BY DEF SoundMethod
<1>2. a \in Values /\ Json[a] /\ t \in GoTypes
  BY <1>1, JsonHeld, GoTypeShape
<1>3. Whole(f, p, ZeroValType(f, p)) /\ ZeroValType(f, p) = t /\ Whole(f, p, t)
  BY <1>1, ProxyTypes DEF Whole
<1>4. Good(f, t, a, o)
  BY <1>2, <1>3, ResultGood
<1>5. a # Nil /\ ~HasNull[a]
  <2>1. a # Nil
    BY <1>1, AdmitsNull
  <2>2. CASE m.accepts = t
    <3>1. Base(w.type) = Bare(f, p)
      BY <1>1, <2>2, GoTypeShape
    <3>2. Full(w)
      BY FullHeld
    <3> HIDE DEF a, t, o
    <3> QED
      BY <1>1, <2>1, <3>1, <3>2 DEF Full, a
  <2>3. CASE TakesPointers(m)
    <3> HIDE DEF t, o
    <3> QED
      BY <1>1, <2>1, <2>3, PointersFull DEF TakesPointers
  <2> QED
    BY <1>1, <2>1, <2>2, <2>3 DEF Sound
<1>6. o.status \in {"ok", "error", "panic"}
  BY <1>1, <1>2, RunNew DEF Outcomes
<1> HIDE DEF o
<1>7. o.status = "ok" /\ o.val.type = t /\ o.val # Nil
  <2>1. Admits[a][f]
    OBVIOUS
  <2> HIDE DEF a, t
  <2> QED
    BY <1>2, <1>4, <1>5, <1>6, <2>1, NilIsNil DEF Good, Arrived
<1>8. ConvertFn(f, ZeroValType(f, p), a) = o
  <2> HIDE DEF t, a
  <2> QED
    BY <1>3, <1>7, OutcomesAre DEF ConvertFn, Interface, o
<1>9. Cast(f, p, a) = o
  <2> HIDE DEF a
  <2> QED
    BY <1>1, <1>7, <1>8 DEF Cast, Asserted
<1> QED
  BY <1>7, <1>9

-----------------------------------------------------------------------------
(* The steps of a call: what each of them found is still what the next one *)
(* works on.                                                               *)
Conversion(a) == Run[NewConvert(fn.field, fn.accepts, a)]

TrialInv ==
  /\ fn \in Methods
  /\ registered \in {"no", "yes", "refused"}
  /\ registered = "refused" => Conversion(TestVal[fn.field]).status # "ok"

ArgumentInv ==
  /\ wire \in Wire \cup {Nil}
  /\ got # None => wire \in Wire /\ got = Assigned(fn.accepts, Conversion(wire))

ResultInv ==
  /\ result # None => got.status = "ok" /\ result.val \in {got.val, Zero[fn.accepts]}
  /\ back # None => result # None /\ back = Cast(fn.field, fn.toPtr, Decoded[result.val])

IInv == TrialInv /\ ArgumentInv /\ ResultInv

LEMMA NoneIs == None.status = "none" /\ \A v : Ok(v) # None
BY OutcomesAre DEF None

LEMMA Initially == Init => IInv
BY NoneIs DEF Init, IInv, TrialInv, ArgumentInv, ResultInv

\* No step changes what an earlier one found.
LEMMA Step == IInv /\ [Next]_vars => IInv'
<1> SUFFICES ASSUME IInv, [Next]_vars PROVE IInv'
  OBVIOUS
<1> USE DEF IInv
<1>1. CASE AddHandler
  <2>1. TrialInv'
    BY <1>1 DEF AddHandler, TrialInv, Conversion
  <2>2. ArgumentInv' /\ ResultInv'
    BY <1>1 DEF AddHandler, ArgumentInv, ResultInv, Conversion
  <2> QED
    BY <2>1, <2>2
<1>2. CASE Invoke
  <2>1. TrialInv'
    BY <1>2 DEF Invoke, TrialInv, Conversion
  <2>2. ArgumentInv'
    BY <1>2 DEF Invoke, ArgumentInv, Conversion
  <2>3. ResultInv'
    BY <1>2 DEF Invoke, ResultInv
  <2> QED
    BY <2>1, <2>2, <2>3
<1>3. CASE HandlerReturns
  <2>1. TrialInv' /\ ArgumentInv'
    BY <1>3 DEF HandlerReturns, TrialInv, ArgumentInv, Conversion
  <2>2. ResultInv'
    BY <1>3, NoneIs, OutcomesAre DEF HandlerReturns, ResultInv
  <2> QED
    BY <2>1, <2>2
<1>4. CASE ProxyReturns
  <2>1. TrialInv' /\ ArgumentInv'
    BY <1>4 DEF ProxyReturns, TrialInv, ArgumentInv, Conversion
  <2>2. ResultInv'
    BY <1>4 DEF ProxyReturns, ResultInv
  <2> QED
    BY <2>1, <2>2
<1>5. CASE UNCHANGED vars
  BY <1>5 DEF vars, TrialInv, ArgumentInv, ResultInv, Conversion
<1> QED
  BY <1>1, <1>2, <1>3, <1>4, <1>5 DEF Next

LEMMA Invariance == Spec => []IInv
BY Initially, Step, PTL DEF Spec

-----------------------------------------------------------------------------
\* What is supposed of the methods: their handlers have the generated types, or
\* []*T for a []T, and idl2go -n was not run on an IDL with optional arrays.
AllSound == \A m \in Methods : Sound(m)

\* The method of the run.
LEMMA MethodIs ==
  ASSUME AllSound, IInv
  PROVE  SoundMethod(fn) /\ fn.field \in IdlFields /\ fn.accepts \in GoTypes /\ fn.toPtr \in BOOLEAN
BY TypedCallAssumption DEF IInv, TrialInv, AllSound, SoundMethod

\* The argument.
LEMMA GotPlaced ==
  ASSUME AllSound, IInv, got # None
  PROVE  wire \in Values /\ Json[wire] /\ Placed(fn.field, fn.accepts, wire, got)
<1>1. wire \in Values /\ Json[wire] /\ got = Assigned(fn.accepts, Run[NewConvert(fn.field, fn.accepts, wire)])
  BY TypedCallAssumption DEF IInv, ArgumentInv, Conversion
<1> QED
  BY <1>1, MethodIs, ArgumentGood

\* What a handler may return is a value of its type.
LEMMA ResultHeld ==
  ASSUME AllSound, IInv, result # None
  PROVE  Held(result.val) /\ result.val.type = fn.accepts
<1>1. got.status = "ok" /\ result.val \in {got.val, Zero[fn.accepts]}
  BY DEF IInv, ResultInv
<1>2. Placed(fn.field, fn.accepts, wire, got)
  BY <1>1, NoneIs, GotPlaced
<1>3. got.val \in Values /\ got.val.type = fn.accepts /\ Typed[got.val]
  BY <1>1, <1>2 DEF Placed, Arrived
<1>4. Zero[fn.accepts] \in Values /\ Zero[fn.accepts].type = fn.accepts /\ Typed[Zero[fn.accepts]] /\ fn.accepts \in GoTypes
  BY MethodIs, ZeroFacts, TypedZero
<1> DEFINE v == result.val
           z == Zero[fn.accepts]
           g == got.val
<1>5. v \in {g, z} /\ Held(g) /\ g.type = fn.accepts /\ Held(z) /\ z.type = fn.accepts
  BY <1>1, <1>3, <1>4 DEF Held
<1> HIDE DEF v, z, g
<1>6. Held(v) /\ v.type = fn.accepts
  BY <1>5
<1> QED
  BY <1>6 DEF v

-----------------------------------------------------------------------------
\* TypeCorrect: for any IDL and any JSON, a handler gets values of the types it declares in
\* every part of them, and so does the caller of a proxy.
THEOREM TypeCorrect == ASSUME AllSound PROVE Spec => []TypeOK
<1>1. ASSUME IInv PROVE TypeOK
  <2>1. got.status = "ok" => WellTyped(got.val, fn.accepts)
    BY <1>1, NoneIs, GotPlaced DEF Placed, Arrived, WellTyped
  <2>2. back.status = "ok" => WellTyped(back.val, GoType(fn.field, fn.toPtr))
    <3> SUFFICES ASSUME back.status = "ok" PROVE WellTyped(back.val, GoType(fn.field, fn.toPtr))
      OBVIOUS
    <3>1. result # None /\ back = Cast(fn.field, fn.toPtr, Decoded[result.val])
      BY <1>1, NoneIs DEF IInv, ResultInv
    <3> DEFINE w == result.val
    <3>2. Held(w) /\ w.type = fn.accepts
      BY <1>1, <3>1, ResultHeld
    <3> HIDE DEF w
    <3>3. ProxyGood(fn, w)
      BY <1>1, <3>2, MethodIs, CastGood
    <3> QED
      BY <3>1, <3>3 DEF ProxyGood, Held, WellTyped, w
  <2> QED
    BY <1>1, <2>1, <2>2 DEF TypeOK, IInv, TrialInv, ArgumentInv
<1> QED
  BY <1>1, Invariance, PTL

\* GeneratedAcceptedCorrect: AddHandler takes every handler with the generated types,
\* those with optional arrays too.
THEOREM GeneratedAcceptedCorrect == Spec => []GeneratedAccepted
<1>1. ASSUME IInv PROVE GeneratedAccepted
  <2> SUFFICES ASSUME fn.accepts = GoType(fn.field, fn.toPtr), registered = "refused" PROVE FALSE
    BY DEF GeneratedAccepted
  <2> DEFINE f == fn.field
             p == fn.toPtr
             t == GoType(f, p)
             r == Run[NewConvert(f, t, TestVal[f])]
  <2>1. f \in IdlFields /\ p \in BOOLEAN /\ t \in GoTypes
    BY <1>1, TypedCallAssumption DEF IInv, TrialInv
  <2>2. r.status # "ok"
    BY <1>1 DEF IInv, TrialInv, Conversion
  <2>3. Taken(t, r)
    BY <2>1, AllTaken DEF TestTaken, Declares
  <2> QED
    BY <2>2, <2>3 DEF Taken
<1> QED
  BY <1>1, Invariance, PTL

\* OnlyAdmittedCorrect: no argument that the IDL refuses reaches a handler.
THEOREM OnlyAdmittedCorrect == ASSUME AllSound PROVE Spec => []OnlyAdmitted
<1>1. ASSUME IInv PROVE OnlyAdmitted
  BY <1>1, NoneIs, GotPlaced DEF OnlyAdmitted, Placed
<1> QED
  BY <1>1, Invariance, PTL

\* AdmittedNotRefusedCorrect: no argument that the IDL admits is an invalid parameter.
THEOREM AdmittedNotRefusedCorrect == ASSUME AllSound PROVE Spec => []AdmittedNotRefused
<1>1. ASSUME IInv PROVE AdmittedNotRefused
  BY <1>1, NoneIs, GotPlaced DEF AdmittedNotRefused, Placed
<1> QED
  BY <1>1, Invariance, PTL

\* FaithfulCorrect: what reaches a handler stands for the JSON that was sent.
THEOREM FaithfulCorrect == ASSUME AllSound PROVE Spec => []Faithful
<1>1. ASSUME IInv PROVE Faithful
  BY <1>1, NoneIs, GotPlaced DEF Faithful, Placed, Arrived
<1> QED
  BY <1>1, Invariance, PTL

\* OnlyNullPanicsCorrect: without a null in it, no JSON makes the conversion panic.
THEOREM OnlyNullPanicsCorrect == ASSUME AllSound PROVE Spec => []OnlyNullPanics
<1>1. ASSUME IInv PROVE OnlyNullPanics
  BY <1>1, NoneIs, GotPlaced DEF OnlyNullPanics, Placed
<1> QED
  BY <1>1, Invariance, PTL

\* ProxyFaithfulCorrect: a proxy returns the data of the handler's result or an error.
THEOREM ProxyFaithfulCorrect == ASSUME AllSound PROVE Spec => []ProxyFaithful
<1>1. ASSUME IInv PROVE ProxyFaithful
  <2> SUFFICES ASSUME back.status = "ok" PROVE Decoded[back.val] = Decoded[result.val]
    BY DEF ProxyFaithful
  <2>1. result # None /\ back = Cast(fn.field, fn.toPtr, Decoded[result.val])
    BY <1>1, NoneIs DEF IInv, ResultInv
  <2> DEFINE w == result.val
  <2>2. Held(w) /\ w.type = fn.accepts
    BY <1>1, <2>1, ResultHeld
  <2> HIDE DEF w
  <2>3. ProxyGood(fn, w)
    BY <1>1, <2>2, MethodIs, CastGood
  <2> QED
    BY <2>1, <2>3 DEF ProxyGood, w
<1> QED
  BY <1>1, Invariance, PTL

\* PlainResultsDeliveredCorrect: results that are neither optional nor an enum arrive.
THEOREM PlainResultsDeliveredCorrect == ASSUME AllSound PROVE Spec => []PlainResultsDelivered
<1>1. ASSUME IInv PROVE PlainResultsDelivered
  <2> DEFINE f == fn.field
             w == result.val
  <2> SUFFICES ASSUME ~f.optional, f.isArray \/ f.type \notin DOMAIN Enum, back # None, Admits[Decoded[w]][f]
               PROVE  back.status = "ok"
    BY DEF PlainResultsDelivered
  <2>1. result # None /\ back = Cast(fn.field, fn.toPtr, Decoded[w])
    BY <1>1 DEF IInv, ResultInv
  <2>2. Held(w) /\ w.type = fn.accepts
    BY <1>1, <2>1, ResultHeld
  <2> HIDE DEF w
  <2>3. Cast(fn.field, fn.toPtr, Decoded[w]).status = "ok"
    BY <1>1, <2>2, MethodIs, CastDelivers
  <2> QED
    BY <2>1, <2>3
<1> QED
  BY <1>1, Invariance, PTL
=============================================================================
