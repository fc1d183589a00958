------------------------------ MODULE GoValues ------------------------------
(***************************************************************************)
(* Go types and values as package reflect shows them to convert.go, IDL    *)
(* fields, the Go types the generator chooses for them, and the two        *)
(* libraries the conversion stands on: reflect and encoding/json.          *)
(*                                                                         *)
(* A type is a kind, a name ("" unless declared with `type`), what it      *)
(* points to or holds, and for a struct the package it is from: idl2go     *)
(* writes one with its flag -n (toPtr) and one without.                    *)
(*                                                                         *)
(* A value is its type and, by kind, an atom (scalars), a sequence (slice  *)
(* elements, struct fields) or a map: a function from names to a sequence  *)
(* of at most one value.  A pointer has the contents of what it points to. *)
(* Values are finite trees: recursive structs are in Idl, not here.        *)
(***************************************************************************)
EXTENDS Naturals, Sequences, SequencesExt

CONSTANTS
  Enum,        \* enum name -> sequence of its values
  AllFields,   \* struct name -> sequence of its fields, inherited ones first
  Atoms,       \* what scalars hold
  Fractional,  \* the atoms that are numbers with a fraction
  Keys,        \* the names of fields and of members of JSON objects
  Depth        \* how deep values nest

Type(kind, name, elem, toPtr) == [kind |-> kind, name |-> name, elem |-> elem, toPtr |-> toPtr]

Builtin(kind) == Type(kind, "", <<>>, FALSE)
NilType == Builtin("nil")             \* reflect.TypeOf(nil)
String == Builtin("string")
Int64 == Builtin("int64")
Float64 == Builtin("float64")
Bool == Builtin("bool")
Map == Builtin("map")
Named(enum) == Type("string", enum, <<>>, FALSE)
Struct(s, toPtr) == Type("struct", s, <<>>, toPtr)
Ptr(t) == Type("ptr", "", <<t>>, FALSE)
SliceOf(t) == Type("slice", "", <<t>>, FALSE)
AnySlice == SliceOf(Builtin("interface"))

\* What a pointer points to, or the type itself.
Base(t) == IF t.kind = "ptr" THEN t.elem[1] ELSE t

(* The Go types idl2go writes for IDL fields.  toPtr is its flag -n.       *)
Basic == [string |-> String, int |-> Int64, float |-> Float64, bool |-> Bool]

Plain(type, toPtr) ==
  CASE type \in DOMAIN Basic     -> Basic[type]
    [] type \in DOMAIN AllFields -> Struct(type, toPtr)
    [] OTHER                     -> Named(type)

GoType(f, toPtr) ==
  LET plain == Plain(f.type, toPtr)
      base == IF f.isArray THEN SliceOf(plain) ELSE plain
  IN IF f.optional /\ (toPtr \/ (plain.kind = "struct" /\ ~f.isArray)) THEN Ptr(base) ELSE base

FieldType(t, i) == GoType(AllFields[t.name][i], t.toPtr)

IdlTypes == DOMAIN Basic \cup DOMAIN Enum \cup DOMAIN AllFields
IdlFields == [name : Keys, type : IdlTypes, optional : BOOLEAN, isArray : BOOLEAN]
Field(name, type, optional, isArray) ==
  [name |-> name, type |-> type, optional |-> optional, isArray |-> isArray]
\* convertSlice's field for the elements of an array.
Element(f) == [f EXCEPT !.isArray = FALSE]

PlainTypes == {Plain(type, toPtr) : type \in IdlTypes, toPtr \in BOOLEAN}
SliceTypes == {SliceOf(t) : t \in PlainTypes \cup {Ptr(t) : t \in PlainTypes}}
GoTypes == PlainTypes \cup SliceTypes \cup {Ptr(t) : t \in PlainTypes \cup SliceTypes}

-----------------------------------------------------------------------------
NilSlice == "nil slice"
NilPtr == "nil pointer"
ValuesTo[n \in 0..Depth] ==
  IF n = 0 THEN {}
  ELSE [type : GoTypes \cup {NilType, AnySlice, Map}, atom : Atoms \cup {NilSlice, NilPtr},
        elems : Seq(ValuesTo[n - 1]), fields : [Keys -> Seq(ValuesTo[n - 1])]]
Values == ValuesTo[Depth]

NoFields == [k \in Keys |-> <<>>]
Value(t, atom, elems, fields) == [type |-> t, atom |-> atom, elems |-> elems, fields |-> fields]
Atom(t, a) == Value(t, a, <<>>, NoFields)
Compound(t, s) == Value(t, "", s, NoFields)
MapValue(m) == Value(Map, "", <<>>, [k \in Keys |-> IF k \in DOMAIN m THEN <<m[k]>> ELSE <<>>])
Has(v, k) == v.fields[k] # <<>>
Member(v, k) == v.fields[k][1]
PointerTo(v) == [v EXCEPT !.type = Ptr(@)]

\* A nil interface; also the reflect.Value that ValueOf makes of it.
Nil == Compound(NilType, <<>>)

ZeroAtom == [string |-> "", int64 |-> "0", float64 |-> "0", bool |-> "false"]

Zero[t \in GoTypes] ==
  CASE t.kind = "struct" -> Compound(t, [i \in DOMAIN AllFields[t.name] |-> Zero[FieldType(t, i)]])
    [] t.kind = "slice"  -> Atom(t, NilSlice)
    [] t.kind = "ptr"    -> Atom(t, NilPtr)
    [] OTHER             -> Atom(t, ZeroAtom[t.kind])

\* What AddHandler tries a handler's types with.
TestAtom == [string |-> Atom(String, "testval"), int |-> Atom(Int64, "99"),
             float |-> Atom(Float64, "10.3"), bool |-> Atom(Bool, "true")]

(* The IDL names no type it does not declare, no struct has two fields of  *)
(* one name, and structs contain each other no deeper than values nest:    *)
(* high is how deep the values of a struct are, at least.                  *)
ASSUME GoValuesAssumption ==
  /\ Depth \in Nat /\ Depth > 2
  /\ NilSlice \notin Atoms /\ NilPtr \notin Atoms
  /\ {"", "testval", "99", "10.3", "true"} \cup {ZeroAtom[k] : k \in DOMAIN ZeroAtom} \subseteq Atoms
  /\ \A e \in DOMAIN Enum : Enum[e] \in Seq(Atoms) \ {<<>>} /\ e \notin DOMAIN Basic \cup {""}
  /\ \A s \in DOMAIN AllFields :
       /\ AllFields[s] \in Seq(IdlFields) /\ s \notin DOMAIN Basic \cup DOMAIN Enum
       /\ \A x, y \in DOMAIN AllFields[s] : AllFields[s][x].name = AllFields[s][y].name => x = y
  /\ \E high \in [DOMAIN AllFields -> 3..(Depth - 1)] :
       \A s \in DOMAIN AllFields : \A x \in DOMAIN AllFields[s] :
         LET inner == AllFields[s][x].type
         IN inner \in DOMAIN AllFields => high[inner] + 1 < high[s]

-----------------------------------------------------------------------------
(* Outcomes: a value, a returned error, or a panic.                        *)
Ok(v) == [status |-> "ok", val |-> v]
Err == [status |-> "error", val |-> Nil]
Panic == [status |-> "panic", val |-> Nil]

\* reflect.Value.Set: panics unless the value has the slot's type.
Assigned(t, r) == IF r.status = "ok" /\ r.val.type # t THEN Panic ELSE r

\* The outcome of a loop that stops at the first step that fails.
InOrder(steps, result) ==
  LET failed == {x \in DOMAIN steps : steps[x].status # "ok"}
  IN IF failed = {} THEN Ok(result)
     ELSE steps[CHOOSE x \in failed : \A y \in failed : x <= y]

-----------------------------------------------------------------------------
(* encoding/json with the tags the generator writes: what a reader of      *)
(* v's JSON gets when it decodes into interface{}.                         *)
Empty(v) ==
  CASE v.type.kind = "struct" -> FALSE
    [] v.type.kind = "ptr"    -> v.atom = NilPtr
    [] v.type.kind = "slice"  -> v.elems = <<>>
    [] OTHER                  -> v.atom = ZeroAtom[v.type.kind]

\* The fields of a struct value that are not left out, their names, and the one of a name.
Kept(v) ==
  LET own == AllFields[Base(v.type).name]
  IN {i \in DOMAIN v.elems : ~(own[i].optional /\ Empty(v.elems[i]))}
KeptNames(v) == {AllFields[Base(v.type).name][i].name : i \in Kept(v)}
KeptField(v, k) == v.elems[CHOOSE i \in Kept(v) : AllFields[Base(v.type).name][i].name = k]

Decoded[v \in Values] ==
  LET t == Base(v.type)
  IN IF v.atom \in {NilPtr, NilSlice} THEN Nil
     ELSE CASE t.kind = "slice" -> Compound(AnySlice, [x \in DOMAIN v.elems |-> Decoded[v.elems[x]]])
            [] t.kind = "struct" -> MapValue([k \in KeptNames(v) |-> Decoded[KeptField(v, k)]])
            [] t.kind \in {"int64", "float64"} -> Atom(Float64, v.atom)
            [] t.kind = "string" -> Atom(String, v.atom)
            [] OTHER -> Atom(t, v.atom)

(* What encoding/json decodes into interface{}.                            *)
Json[v \in Values] ==
  /\ v.type \in {NilType, String, Float64, Bool, AnySlice, Map}
  /\ v.atom \in Atoms /\ (v.type \in {NilType, AnySlice, Map} => v.atom = "")
  /\ v.type # AnySlice => v.elems = <<>>
  /\ v.type # Map => v.fields = NoFields
  /\ \A x \in DOMAIN v.elems : Json[v.elems[x]]
  /\ \A k \in Keys : Len(v.fields[k]) <= 1 /\ \A x \in DOMAIN v.fields[k] : Json[v.fields[k][x]]
=============================================================================
