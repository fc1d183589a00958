----------------------------- MODULE MCTypedCall -----------------------------
(***************************************************************************)
(* Instances of TypedCall for TLC: the enum MathOp and the struct Person   *)
(* of test/conform.json in short, and a struct Box in the manner of        *)
(* NoNesting and Nested in barrister_test.go, with an optional array, an   *)
(* optional struct and an enum.                                            *)
(***************************************************************************)
EXTENDS TypedCall, TLC

MCEnum == [MathOp |-> <<"add", "multiply">>]
MCFractional == {"1.5", "10.3"}
MCAtoms == MCFractional \cup {"", "0", "1", "99", "false", "true", "testval", "a", "b", "add", "multiply"}
NoMembers == [k \in {} |-> k]
MCKeys == {"p", "personId", "email", "count", "op", "tags", "owner", "age"}
MCAllFields ==
  [Person |-> <<Field("personId", "string", FALSE, FALSE), Field("email", "string", TRUE, FALSE)>>,
   Box    |-> <<Field("count", "int", FALSE, FALSE), Field("op", "MathOp", TRUE, FALSE),
                Field("tags", "string", TRUE, TRUE), Field("owner", "Person", TRUE, FALSE)>>]

Types == {"string", "int", "float", "bool", "MathOp", "Person"}
AnyField == [name : {"p"}, type : Types, optional : BOOLEAN, isArray : BOOLEAN]
Boxes == [name : {"p"}, type : {"Box"}, optional : {FALSE}, isArray : BOOLEAN]

GeneratedMethods == {Generated(f, toPtr) : f \in AnyField \cup Boxes, toPtr \in BOOLEAN}
\* Handlers written by hand to take []*T where the generator has []T.
ByHand ==
  {Method(Field("p", s, FALSE, TRUE), SliceOf(Ptr(Struct(s, toPtr))), toPtr) :
     s \in {"Person", "Box"}, toPtr \in BOOLEAN}
SoundMethods == {m \in GeneratedMethods \cup ByHand : Sound(m)}

S(a) == Atom(String, a)
N(a) == Atom(Float64, a)
Array(s) == Compound(AnySlice, s)
Ada == MapValue([personId |-> S("a")])

Scalars == {Nil, S("a"), S("add"), S("multiply"), N("0"), N("1"), N("1.5"), Atom(Bool, "true")}
People == {MapValue(NoMembers), Ada, MapValue([personId |-> S("a"), email |-> S("b")]),
           MapValue([personId |-> S("a"), email |-> Nil]), MapValue([personId |-> Nil]),
           MapValue([personId |-> N("1")]), MapValue([personId |-> S("a"), age |-> N("1")])}
BoxValues ==
  {MapValue([count |-> N(n)] @@ m) :
     n \in {"1", "1.5"},
     m \in {NoMembers} \cup [{"op"} -> {S("add"), S("a"), Nil}] \cup [{"owner"} -> People \cup {Nil}]
           \cup [{"tags"} -> {Nil, Array(<<>>), Array(<<S("a"), S("b")>>), Array(<<N("1")>>)}]
           \cup {[op |-> S("add"), tags |-> Array(<<S("a")>>), owner |-> Ada]}}
Elements == Scalars \cup {Ada, MapValue(NoMembers)}
Arrays == {Array(<<>>)} \cup {Array(<<v>>) : v \in Elements}
          \cup {Array(<<v, w>>) : v, w \in Elements}
          \cup {Array(<<b>>) : b \in BoxValues}
MCWire == Scalars \cup People \cup BoxValues \cup Arrays
=============================================================================
