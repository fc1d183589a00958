------------------------------- MODULE MCIdl -------------------------------
(***************************************************************************)
(* Documents for TLC: structs A, B and C that extend and contain each      *)
(* other in every way, with two of them in a namespace of their own.       *)
(***************************************************************************)
EXTENDS Idl, TLC

Element(kind, name, extends, fields, values) ==
  [kind |-> kind, name |-> name, extends |-> extends, fields |-> fields, values |-> values]
F(name, type, isArray) == [name |-> name, type |-> type, isArray |-> isArray]

MCScalar == {"int"}
MCNs == [n \in {"", "int", "A", "Api", "missing"} |-> ""] @@ [n \in {"B", "E"} |-> "inc"] @@ ("C" :> "base")
MCDefaults == {"main", "inc"}

Refs(names) == {F("f", t, a) : t \in names, a \in BOOLEAN}

Struct(name, parents, lists) ==
  {Element("struct", name, p, fields, <<>>) : p \in parents, fields \in lists}

As == Struct("A", {"", "A", "B", "missing"}, {<<f>> : f \in Refs({"int", "A", "B"})})
Bs == Struct("B", {"", "A", "C"}, {<<[f EXCEPT !.name = "g"]>> : f \in Refs({"A", "B", "C"})})
Cs == Struct("C", {"", "A"}, {<<F("h", "int", TRUE), F("i", "int", TRUE)>>,
                              <<F("h", "A", TRUE)>>, <<F("h", "E", FALSE)>>})
Es == {Element("enum", "E", "", <<>>, v) : v \in {<<>>, <<"x">>}}
Apis == {Element("interface", "Api", "", <<F("p", "A", FALSE), F("p", "A", TRUE), F("p", "C", FALSE)>>, <<>>)}

MCDocuments ==
  {<<a, b, c, e, api, Element("meta", "", "", <<>>, <<>>)>> :
     a \in As, b \in Bs, c \in Cs, e \in Es, api \in Apis}

\* Trees: no struct extends another, nor contains one but in a list.
Tree(el) == el.extends = "" /\ \A f \in ToSet(el.fields) : f.type \in {"A", "B", "C"} => f.isArray
TreeDocuments == {d \in MCDocuments : \A el \in ToSet(d) : el.kind = "struct" => Tree(el)}
=============================================================================
