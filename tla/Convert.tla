------------------------------- MODULE Convert -------------------------------
(***************************************************************************)
(* convert.go: a value (decoded JSON, or anything a program passes to      *)
(* Server.Call) becomes a value of the Go type a handler or a proxy wants, *)
(* checked against an IDL field on the way.                                *)
(*                                                                         *)
(* c is the convert object of the code.                                    *)
(***************************************************************************)
EXTENDS GoValues

Conversions ==
  [field : IdlFields, desired : GoTypes \cup {NilType}, desirePtr : BOOLEAN, actual : Values]
NewConvert(f, desired, a) == [field |-> f, desired |-> desired, desirePtr |-> FALSE, actual |-> a]

\* run's step from a pointer to what it points to.
Elem(c) ==
  IF c.desired.kind = "ptr" THEN [c EXCEPT !.desired = Base(@), !.desirePtr = TRUE] ELSE c

(* returnVal: which IDL type each kind stands for; and the types the type  *)
(* assertions of run let through.  JSON numbers are float64: an int64 is   *)
(* made of one without fraction only.                                      *)
IdlType == [int64 |-> "int", float64 |-> "float", bool |-> "bool"]

\* Slips: the test value of an int is not foreseen; fractions are cut off.
AcceptsJsonOnly(t, a) ==
  \/ a.type = t /\ t # Int64
  \/ t.kind = "int64" /\ a.type = Float64 /\ a.atom \notin Fractional
AcceptsAnyNumber(t, a) == a.type = t \/ {t, a.type} = {Int64, Float64}

Accepts(t, a) ==
  \/ a.type = t
  \/ t.kind = "int64" /\ a.type = Float64 /\ a.atom \notin Fractional
  \/ t.kind = "float64" /\ a.type = Int64

(* convertedVal: the address if a pointer is wanted, else what it holds.   *)
\* Slip: never the address.
ConvertedValPlain(c, v) == Ok(v)

ConvertedVal(c, v) == Ok(IF c.desirePtr THEN PointerTo(v) ELSE v)

Scalar(c) ==
  IF Accepts(c.desired, c.actual) /\ c.field.type = IdlType[c.desired.kind]
  THEN ConvertedVal(c, Atom(c.desired, c.actual.atom))
  ELSE Err

(* Strings and enums.  reflect refuses to set a named string to a plain    *)
(* one, which is how a "string" field and a handler's own type clash.      *)
\* Slip: the last enum value is not looked at.
InEnumShort(c) == c.field.type \in DOMAIN Enum /\ Contains(Front(Enum[c.field.type]), c.actual.atom)

InEnum(c) == c.field.type \in DOMAIN Enum /\ Contains(Enum[c.field.type], c.actual.atom)

StringOrEnum(c) ==
  IF c.actual.type.kind # "string" THEN Err
  ELSE IF c.field.type # "string"
  THEN IF InEnum(c) THEN ConvertedVal(c, Atom(c.desired, c.actual.atom)) ELSE Err
  ELSE IF c.actual.type = c.desired THEN ConvertedVal(c, c.actual) ELSE Panic

(* One convert object serves all elements of a slice, and run overwrites   *)
(* its `desired` and `desirePtr` when a pointer is wanted: later elements  *)
(* are converted to the pointed-to type.                                   *)
ConvertElement(run, c, x) ==
  LET elem == c.desired.elem[1]
      turned == \E y \in 1..x-1 : c.actual.elems[y].type \notin {NilType, elem}
      new == NewConvert(Element(c.field), elem, c.actual.elems[x])
  IN Assigned(elem, run[IF turned THEN Elem(new) ELSE new])

\* Slip: all elements are stored in one place.
ConvertSliceShared(run, c) ==
  LET set == [x \in DOMAIN c.actual.elems |-> ConvertElement(run, c, x)]
  IN InOrder(set, Compound(c.desired, [x \in DOMAIN set |-> set[Len(set)].val]))

ConvertSlice(run, c) ==
  LET set == [x \in DOMAIN c.actual.elems |-> ConvertElement(run, c, x)]
  IN InOrder(set, Compound(c.desired, [x \in DOMAIN set |-> set[x].val]))

(* A converted field is stored through its pointer or its value.  What is  *)
(* no pointer and has no address is not stored in a pointer field, and     *)
(* nothing is said about it: that is right for null and wrong for slices,  *)
(* which convertedVal never takes the address of.                          *)
Stored(t, r) ==
  IF t.kind = "ptr" /\ r.status = "ok" /\ r.val.type.kind # "ptr"
  THEN Ok(Zero[t]) ELSE Assigned(t, r)

\* The places of fields of that name, of which there is at most one.
Places(fields, name) == {i \in DOMAIN fields : fields[i].name = name}

ConvertField(run, c, g) ==
  LET slots == {FieldType(c.desired, i) : i \in Places(AllFields[c.desired.name], g.name)}
      slot == CHOOSE t \in slots : TRUE
  IN IF slots = {} THEN Err
     ELSE IF Has(c.actual, g.name)
     THEN Stored(slot, run[NewConvert(g, slot, Member(c.actual, g.name))])
     ELSE IF g.optional THEN Ok(Zero[slot]) ELSE Err

ConvertStruct(run, c) ==
  LET own == AllFields[c.desired.name]
      wanted == AllFields[c.field.type]
      set == [x \in DOMAIN wanted |-> ConvertField(run, c, wanted[x])]
      slot(i) == LET from == Places(wanted, own[i].name)
                 IN IF from = {} THEN Zero[FieldType(c.desired, i)]
                    ELSE set[CHOOSE x \in from : TRUE].val
      all == InOrder(set, Compound(c.desired, [i \in DOMAIN own |-> slot(i)]))
  IN IF c.field.type \notin DOMAIN AllFields THEN Err
     ELSE IF all.status = "ok" THEN ConvertedVal(c, all.val) ELSE all

(* run.  A value of the desired type passes unchecked.  ByKind is what     *)
(* follows the pointer step.                                               *)
ByKind(run, c) ==
  LET kind == c.desired.kind
  IN CASE kind = "string"                                 -> StringOrEnum(c)
       [] kind \in DOMAIN IdlType                         -> Scalar(c)
       [] kind = "slice" /\ c.actual.type.kind = "slice"  -> ConvertSlice(run, c)
       [] kind = "struct" /\ c.actual.type.kind = "map"   -> ConvertStruct(run, c)
       [] OTHER                                           -> Err

Run[c \in Conversions] ==
  IF c.desired = NilType THEN Panic
  ELSE IF c.actual.type = c.desired THEN Ok(c.actual)
  ELSE IF c.actual.type # NilType THEN ByKind(Run, Elem(c))
  ELSE IF ~c.field.optional THEN Err
  ELSE Ok(IF c.desired.kind \in {"ptr", "slice"} THEN Nil ELSE Zero[c.desired])

\* reflect.Value.Interface, which panics if there is nothing in the value.
Interface(r) == IF r = Ok(Nil) THEN Panic ELSE r

\* The exported Convert.
ConvertFn(f, desired, a) == Interface(Run[NewConvert(f, desired, a)])

-----------------------------------------------------------------------------
(* The type of the expression a proxy writes for a result it does not      *)
(* have: nil has none, and an enum's is an untyped "".                     *)
\* Slip: nil for arrays.
ZeroValTypeNilArray(f, toPtr) ==
  IF f.isArray \/ f.optional THEN NilType
  ELSE IF f.type \in DOMAIN Enum THEN String ELSE GoType(f, toPtr)

ZeroValType(f, toPtr) ==
  IF f.optional /\ toPtr THEN NilType
  ELSE IF f.isArray THEN GoType([f EXCEPT !.optional = FALSE], toPtr)
  ELSE IF f.type \in DOMAIN Enum THEN String
  ELSE IF f.optional /\ f.type \in DOMAIN AllFields THEN NilType
  ELSE GoType(f, toPtr)

(* What AddHandler tries a handler's types with.  Of a second list of the  *)
(* same type the code makes an empty one (Cut of Idl): this tries more.    *)
TestVal[f \in IdlFields] ==
  LET named(n) == CHOOSE g \in ToSet(AllFields[f.type]) : g.name = n
  IN IF f.isArray THEN Compound(AnySlice, <<TestVal[Element(f)]>>)
     ELSE CASE f.type \in DOMAIN TestAtom  -> TestAtom[f.type]
            [] f.type \in DOMAIN AllFields ->
                 MapValue([n \in {g.name : g \in ToSet(AllFields[f.type])} |-> TestVal[named(n)]])
            [] OTHER                       -> Atom(String, Enum[f.type][1])
=============================================================================
