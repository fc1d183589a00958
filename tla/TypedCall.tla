------------------------------ MODULE TypedCall ------------------------------
(***************************************************************************)
(* A method with one parameter and a result of the same IDL type, from end *)
(* to end: AddHandler checks the handler's Go types, Server.Call converts  *)
(* what arrives, the handler returns what it was given or its type's zero  *)
(* value, and a generated proxy converts the JSON it gets back.            *)
(*                                                                         *)
(* A method fn has its IDL field, the Go type its handler declares, and    *)
(* the flag the code was generated with.                                   *)
(***************************************************************************)
EXTENDS Convert

CONSTANTS
  Methods,   \* what may be registered and called
  Wire       \* decoded JSON values that may arrive

ASSUME TypedCallAssumption ==
  /\ Methods \subseteq [field : IdlFields, accepts : GoTypes, toPtr : BOOLEAN]
  /\ \A v \in Wire : v \in Values /\ Json[v]

VARIABLES
  fn,          \* the method of this run
  registered,  \* "no", "yes", or "refused" by AddHandler
  wire,        \* the last argument
  got,         \* what became of it: a value for the handler, an error, a panic
  result,      \* what the handler returned
  back         \* what the proxy's caller got

vars == <<fn, registered, wire, got, result, back>>

None == [status |-> "none", val |-> Nil]

Method(field, accepts, toPtr) == [field |-> field, accepts |-> accepts, toPtr |-> toPtr]
Generated(field, toPtr) == Method(field, GoType(field, toPtr), toPtr)

Init ==
  /\ fn \in Methods
  /\ registered = "no"
  /\ wire = Nil
  /\ got = None /\ result = None /\ back = None

(* validate: any failure is a panic of AddHandler.                         *)
AddHandler ==
  /\ registered = "no"
  /\ LET r == Run[NewConvert(fn.field, fn.accepts, TestVal[fn.field])]
     IN registered' = IF r.status = "ok" THEN "yes" ELSE "refused"
  /\ UNCHANGED <<fn, wire, got, result, back>>

(* The parameter's conversion in Call, and fn.Call, which panics on a      *)
(* value of another type and on an invalid one.                            *)
Invoke ==
  /\ registered = "yes"
  /\ \E v \in Wire :
       /\ wire' = v
       /\ got' = Assigned(fn.accepts, Run[NewConvert(fn.field, fn.accepts, v)])
  /\ result' = None /\ back' = None
  /\ UNCHANGED <<fn, registered>>

HandlerReturns ==
  /\ got.status = "ok" /\ result = None
  /\ \E v \in {got.val, Zero[fn.accepts]} : result' = Ok(v)
  /\ UNCHANGED <<fn, registered, wire, got, back>>

(* The body of a generated proxy method once Client.Call has succeeded.    *)
\* Slips: no type assertion; nil returned for any optional result.
CastUnchecked(f, toPtr, res) ==
  IF toPtr /\ f.optional /\ res = Nil THEN Ok(Zero[GoType(f, toPtr)])
  ELSE ConvertFn(f, ZeroValType(f, toPtr), res)
CastNil(f, toPtr, res) ==
  IF f.optional THEN Ok(Zero[GoType(f, toPtr)]) ELSE ConvertFn(f, ZeroValType(f, toPtr), res)

\* The type assertion at the end of the body.
Asserted(t, r) == IF r.status = "ok" /\ r.val.type # t THEN Err ELSE r

Cast(f, toPtr, res) ==
  IF toPtr /\ f.optional /\ res = Nil THEN Ok(Zero[GoType(f, toPtr)])
  ELSE Asserted(GoType(f, toPtr), ConvertFn(f, ZeroValType(f, toPtr), res))

ProxyReturns ==
  /\ result # None /\ back = None
  /\ back' = Cast(fn.field, fn.toPtr, Decoded[result.val])
  /\ UNCHANGED <<fn, registered, wire, got, result>>

Next == AddHandler \/ Invoke \/ HandlerReturns \/ ProxyReturns

Spec == Init /\ [][Next]_vars

-----------------------------------------------------------------------------
(* Reference: which JSON values the IDL admits for a field, and when a Go  *)
(* value stands for one.  The elements of an optional array are optional.  *)
Admits[v \in Values] ==
  [f \in IdlFields |->
    IF v.type = NilType THEN f.optional
    ELSE IF f.isArray
    THEN v.type = AnySlice /\ \A x \in DOMAIN v.elems : Admits[v.elems[x]][Element(f)]
    ELSE CASE f.type = "string" -> v.type = String
           [] f.type = "float" -> v.type = Float64
           [] f.type = "int" -> v.type = Float64 /\ v.atom \notin Fractional
           [] f.type = "bool" -> v.type = Bool
           [] f.type \in DOMAIN Enum -> v.type = String /\ Contains(Enum[f.type], v.atom)
           [] OTHER ->
                v.type = Map /\ \A g \in ToSet(AllFields[f.type]) :
                  IF Has(v, g.name) THEN Admits[Member(v, g.name)][g] ELSE g.optional]

Means[g \in Values] ==
  [v \in Values |->
    LET t == Base(g.type)
        member(k) == IF Has(v, k) THEN Member(v, k) ELSE Nil
    IN IF v.type = NilType THEN g = Zero[g.type]
       ELSE /\ g.atom \notin {NilPtr, NilSlice}
            /\ t.kind = "slice" =>
                 /\ Len(g.elems) = Len(v.elems)
                 /\ \A x \in DOMAIN v.elems : Means[g.elems[x]][v.elems[x]]
            /\ t.kind = "struct" =>
                 \A i \in DOMAIN g.elems : Means[g.elems[i]][member(AllFields[t.name][i].name)]
            /\ t.kind \notin {"slice", "struct"} => g.atom = v.atom]

HasNull[v \in Values] ==
  \/ v.type = NilType
  \/ \E x \in DOMAIN v.elems : HasNull[v.elems[x]]
  \/ \E k \in Keys : Has(v, k) /\ HasNull[Member(v, k)]

\* Every part of a value has the type of the place it is in.
Typed[v \in Values] ==
  LET t == Base(v.type)
  IN IF v.atom \in {NilPtr, NilSlice} THEN v = Zero[v.type]
     ELSE /\ t.kind = "slice" =>
               \A x \in DOMAIN v.elems : v.elems[x].type = t.elem[1] /\ Typed[v.elems[x]]
          /\ t.kind = "struct" =>
               /\ Len(v.elems) = Len(AllFields[t.name])
               /\ \A i \in DOMAIN v.elems : v.elems[i].type = FieldType(t, i) /\ Typed[v.elems[i]]
          /\ t.kind \notin {"slice", "struct"} => v.elems = <<>>
WellTyped(v, t) == v.type = t /\ Typed[v]

-----------------------------------------------------------------------------
(* The methods that the properties are about: a handler has the generated  *)
(* types, or takes []*T for a []T that is not optional; and where idl2go   *)
(* ran with -n there is no optional array, neither in the field nor in any *)
(* struct below it.                                                        *)
NoOptionalArrays(f) ==
  \E below \in SUBSET DOMAIN AllFields :
    \A g \in {f} \cup UNION {ToSet(AllFields[s]) : s \in below} :
      /\ ~(g.optional /\ g.isArray)
      /\ g.type \in DOMAIN AllFields => g.type \in below

TakesPointers(m) ==
  /\ m.field.isArray /\ ~m.field.optional /\ m.field.type \in DOMAIN AllFields
  /\ m.accepts = SliceOf(Ptr(Struct(m.field.type, m.toPtr)))

Sound(m) ==
  /\ m.accepts = GoType(m.field, m.toPtr) \/ TakesPointers(m)
  /\ m.toPtr => NoOptionalArrays(m.field)

-----------------------------------------------------------------------------
(* TypeOK: handlers are called with values of the type they declare, in    *)
(* every part of them (fn.Call in Server.Call).                            *)
TypeOK ==
  /\ fn \in Methods
  /\ registered \in {"no", "yes", "refused"}
  /\ wire \in Wire \cup {Nil}
  /\ got.status = "ok" => WellTyped(got.val, fn.accepts)
  /\ back.status = "ok" => WellTyped(back.val, GoType(fn.field, fn.toPtr))

(* GeneratedAccepted: a handler with the types idl2go generates passes     *)
(* AddHandler, which tries them with values of its own making.             *)
GeneratedAccepted ==
  fn.accepts = GoType(fn.field, fn.toPtr) => registered # "refused"

(* OnlyAdmitted: what reaches a handler satisfies the IDL; an argument     *)
(* that does not is refused (Call's step 5).                               *)
OnlyAdmitted == got.status = "ok" => Admits[wire][fn.field]

(* AdmittedNotRefused: what the IDL admits is never answered with an       *)
(* invalid-parameter error.                                                *)
AdmittedNotRefused == got.status = "error" => ~Admits[wire][fn.field]

(* Faithful: the handler gets the data that was sent, null and absent      *)
(* fields being zero values.                                               *)
Faithful == got.status = "ok" => Means[got.val][wire]

(* OnlyNullPanics: conversion itself panics on nothing but nulls.          *)
OnlyNullPanics == got.status = "panic" => HasNull[wire]

(* ProxyFaithful: what a proxy returns without an error marshals to the    *)
(* JSON it was made from.                                                  *)
ProxyFaithful == back.status = "ok" => Decoded[back.val] = Decoded[result.val]

(* PlainResultsDelivered: results that are neither optional nor an enum    *)
(* reach the proxy's caller.  The others do not: the zero expression of an *)
(* enum is a plain string, that of an optional struct has no type.         *)
PlainResultsDelivered ==
  LET f == fn.field
      plain == ~f.optional /\ (f.isArray \/ f.type \notin DOMAIN Enum)
  IN plain /\ back # None /\ Admits[Decoded[result.val]][f] => back.status = "ok"

(* AdmittedArrives: an argument the IDL admits reaches the handler, with   *)
(* its data.  Violated: null for an optional struct or array, and the      *)
(* optional arrays of code generated with pointers.                        *)
AdmittedArrives ==
  got # None /\ Admits[wire][fn.field] => got.status = "ok" /\ Means[got.val][wire]
=============================================================================
