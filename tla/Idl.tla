-------------------------------- MODULE Idl --------------------------------
(***************************************************************************)
(* What the library makes of an IDL document: NewIdl with the fields each  *)
(* struct inherits, the test value AddHandler tries a handler's type with  *)
(* and the walk of a converter through it, and the packages the generator  *)
(* writes.                                                                 *)
(*                                                                         *)
(* The recursive functions have their call stack in `stack`: a frame is a  *)
(* struct and the index of the next of its fields.                         *)
(***************************************************************************)
EXTENDS Naturals, Sequences, SequencesExt, FiniteSets

CONSTANTS
  Documents,   \* sequences of elements [kind, name, extends, fields, values]; the
               \* fields of an interface are its parameters and results
  Scalar,      \* the built-in types
  None,        \* the empty name
  Root,        \* stands for the parameter or result AddHandler looks at
  Ns,          \* what is before the first period of each name, or None
  Defaults,    \* package names for elements without a namespace
  StackLimit   \* how deep a recursion goes before Go ends the program

ASSUME IdlAssumption ==
  /\ StackLimit \in Nat
  /\ \A d \in Documents :
       /\ d \in Seq(ToSet(d))
       /\ \A n \in DOMAIN d :
            /\ d[n].name # Root /\ d[n].fields \in Seq(ToSet(d[n].fields))
            /\ \A f \in ToSet(d[n].fields) : f.type # Root
       \* Go has room for a recursion through all structs of a document.
       /\ Cardinality({d[n].name : n \in {x \in DOMAIN d : d[x].kind = "struct"}}) < StackLimit

VARIABLES
  elems, i,        \* the document, and where NewIdl is in it
  structs, enums,  \* the maps of Idl
  allFields,       \* Struct.allFields, once computed
  pc, todo,        \* structs computeAllStructFields still has to visit
  stack, acc,      \* the recursion, and the slice it appends to
  root,            \* the field that is tried
  seen, value      \* of testVal: its map, and what each struct's map has per field

newIdl == <<elems, i, structs, enums>>
computed == <<todo, acc, allFields>>
trial == <<root, seen, value>>
vars == <<newIdl, computed, trial, pc, stack>>

Empty == [x \in {} |-> x]
Put(f, k, v) == [x \in DOMAIN f \cup {k} |-> IF x = k THEN v ELSE f[x]]
Frame(s) == [type |-> s, next |-> 1]
Top == Last(stack)
Pop == stack' = Front(stack)
Goto(there) == pc' = there

\* The next level of a recursion, or the end of the program.
Enter(base, s, overflow) ==
  IF Len(base) < StackLimit
  THEN stack' = Append(base, Frame(s)) /\ UNCHANGED pc
  ELSE Goto(overflow) /\ UNCHANGED stack

Init ==
  /\ elems \in Documents /\ i = 1
  /\ structs = Empty /\ enums = Empty
  /\ allFields = Empty /\ todo = {} /\ acc = <<>>
  /\ stack = <<>> /\ pc = "parse"
  /\ root = [name |-> None, type |-> None, isArray |-> FALSE] /\ seen = {} /\ value = Empty

-----------------------------------------------------------------------------
(* NewIdl.                                                                 *)
ReadElem ==
  /\ pc = "parse" /\ i <= Len(elems)
  /\ LET el == elems[i]
     IN /\ structs' = IF el.kind = "struct" THEN Put(structs, el.name, el) ELSE structs
        /\ enums' = IF el.kind = "enum" THEN Put(enums, el.name, el.values) ELSE enums
  /\ i' = i + 1
  /\ UNCHANGED <<elems, computed, trial, pc, stack>>

Parsed ==
  /\ pc = "parse" /\ i > Len(elems)
  /\ Goto("fields") /\ todo' = DOMAIN structs
  /\ UNCHANGED <<newIdl, acc, allFields, trial, stack>>

(* computeAllStructFields visits the structs in the order of a Go map.     *)
NextStruct ==
  /\ pc = "fields"
  /\ \E s \in todo : todo' = todo \ {s} /\ stack' = <<Frame(s)>>
  /\ Goto("up")
  /\ UNCHANGED <<newIdl, acc, allFields, trial>>

Parent(s) == structs[s].extends
HasParent(s) == Parent(s) # None /\ Parent(s) \in DOMAIN structs

(* computeStructFields: first the parents.                                 *)
ToParent ==
  /\ pc = "up" /\ HasParent(Top.type)
  /\ Enter(stack, Parent(Top.type), "extends overflow")
  /\ UNCHANGED <<newIdl, computed, trial>>

Topmost ==
  /\ pc = "up" /\ ~HasParent(Top.type)
  /\ Goto("down")
  /\ UNCHANGED <<newIdl, computed, trial, stack>>

\* Slip: the slice is not new for every struct.
AppendFieldsKept ==
  LET fields == acc \o structs[Top.type].fields
      last == Len(stack) = 1
  IN /\ pc = "down"
     /\ Pop
     /\ acc' = fields
     /\ allFields' = IF last THEN Put(allFields, Top.type, fields) ELSE allFields
     /\ Goto(IF last THEN "fields" ELSE "down")
     /\ UNCHANGED <<newIdl, todo, trial>>

AppendFields ==
  LET fields == acc \o structs[Top.type].fields
      last == Len(stack) = 1
  IN /\ pc = "down"
     /\ Pop
     /\ acc' = IF last THEN <<>> ELSE fields
     /\ allFields' = IF last THEN Put(allFields, Top.type, fields) ELSE allFields
     /\ Goto(IF last THEN "fields" ELSE "down")
     /\ UNCHANGED <<newIdl, todo, trial>>

\* Slip: the last struct is left out.
FieldsDoneEarly ==
  /\ pc = "fields" /\ (todo = {} \/ \E s \in todo : todo = {s})
  /\ Goto("ready")
  /\ UNCHANGED <<newIdl, computed, trial, stack>>

FieldsDone ==
  /\ pc = "fields" /\ todo = {}
  /\ Goto("ready")
  /\ UNCHANGED <<newIdl, computed, trial, stack>>

-----------------------------------------------------------------------------
(* validate: a value for the type of a parameter or result, made by        *)
(* testValRecur, which stops at what it has seen ...                       *)
FieldsOf(s) == IF s = Root THEN <<root>> ELSE allFields[s]
Interfaces == {n \in DOMAIN elems : elems[n].kind = "interface"}

Validate ==
  /\ pc = "ready"
  /\ \E n \in Interfaces : \E x \in DOMAIN elems[n].fields : root' = elems[n].fields[x]
  /\ stack' = <<Frame(Root)>> /\ value' = Put(Empty, Root, Empty)
  /\ Goto("test")
  /\ UNCHANGED <<newIdl, computed, seen>>

InProgress == Top.next <= Len(FieldsOf(Top.type))
Advanced(frames) == [frames EXCEPT ![Len(frames)].next = @ + 1]
Current == FieldsOf(Top.type)[Top.next]

ArrayKey(t) == <<"array", t>>
StructKey(t) == <<"struct", t>>
IsStruct(t) == t \in DOMAIN structs \ Scalar

\* Slip: nothing is remembered of arrays.
CutNever(f) == FALSE

Cut(f) == f.isArray /\ ArrayKey(f.type) \in seen
Unknown(f) == f.type \notin Scalar \cup DOMAIN structs /\ (f.type \in DOMAIN enums => enums[f.type] = <<>>)

\* The struct in what the map of a struct holds for a field, which is the map of that
\* struct, alone or in a list of one.  A scalar or an empty list has none.
Member(f) == IF IsStruct(f.type) /\ ~Cut(f) THEN {f.type} ELSE {}

MakeMember ==
  LET f == Current
      new == Member(f) # {} /\ StructKey(f.type) \notin seen
      filled == Put(value, Top.type, Put(value[Top.type], f.name, Member(f)))
  IN /\ pc = "test" /\ InProgress /\ (Cut(f) \/ ~Unknown(f))
     /\ seen' = seen \cup (IF f.isArray THEN {ArrayKey(f.type)} ELSE {})
                     \cup (IF new THEN {StructKey(f.type)} ELSE {})
     /\ value' = IF new THEN Put(filled, f.type, Empty) ELSE filled
     /\ stack' = IF new THEN Append(Advanced(stack), Frame(f.type)) ELSE Advanced(stack)
     /\ UNCHANGED <<newIdl, computed, root, pc>>

NoTestValue ==
  /\ pc = "test" /\ InProgress /\ Unknown(Current) /\ ~Cut(Current)
  /\ Goto("refused")
  /\ UNCHANGED <<newIdl, computed, trial, stack>>

(* ... and its conversion, which does not.                                 *)
\* Slip: a struct is converted again and again.
ConvertMemberAgain ==
  LET member == value[Top.type][Current.name]
  IN /\ pc = "convert" /\ InProgress
     /\ IF member = {} THEN stack' = Advanced(stack) /\ UNCHANGED pc
        ELSE \E s \in member : Enter(stack, s, "trial overflow")
     /\ UNCHANGED <<newIdl, computed, trial>>

ConvertMember ==
  LET member == value[Top.type][Current.name]
  IN /\ pc = "convert" /\ InProgress
     /\ IF member = {} THEN stack' = Advanced(stack) /\ UNCHANGED pc
        ELSE \E s \in member : Enter(Advanced(stack), s, "trial overflow")
     /\ UNCHANGED <<newIdl, computed, trial>>

StructEnds ==
  /\ pc \in {"test", "convert"} /\ ~InProgress
  /\ IF Len(stack) > 1 THEN Pop /\ UNCHANGED pc
     ELSE IF pc = "test" THEN stack' = <<Frame(Root)>> /\ Goto("convert")
     ELSE Pop /\ Goto("accepted")
  /\ UNCHANGED <<newIdl, computed, trial>>

-----------------------------------------------------------------------------
(* GenerateGo: a package per namespace, with the imports its code needs.   *)
Package(el, default) == IF Ns[el.name] = None THEN default ELSE Ns[el.name]
InPackage(el, p, default) == el.kind # "meta" /\ Package(el, default) = p
Elements(p, default) ==
  LET part[n \in 0..Len(elems)] ==
        IF n = 0 THEN <<>>
        ELSE IF InPackage(elems[n], p, default) THEN Append(part[n - 1], elems[n]) ELSE part[n - 1]
  IN part[Len(elems)]
Packages(default) == {Package(elems[n], default) : n \in {x \in DOMAIN elems : elems[x].kind # "meta"}}

\* Slip: a package imports itself.
AddIfNotInSliceSelf(list, name, ignore) ==
  IF name = None \/ Contains(list, name) THEN list ELSE Append(list, name)

AddIfNotInSlice(list, name, ignore) ==
  IF name = None \/ name = ignore \/ Contains(list, name) THEN list ELSE Append(list, name)

TypesIn(el) == <<el.extends>> \o [n \in DOMAIN el.fields |-> el.fields[n].type]
FindAllImports(p, els) ==
  LET types == FlattenSeq([n \in DOMAIN els |-> TypesIn(els[n])])
      imports[n \in 0..Len(types)] ==
        IF n = 0 THEN <<>> ELSE AddIfNotInSlice(imports[n - 1], Ns[types[n]], p)
  IN imports[Len(types)]

-----------------------------------------------------------------------------
Finished == pc \in {"accepted", "refused", "extends overflow", "trial overflow"}

Next ==
  \/ ReadElem \/ Parsed
  \/ NextStruct \/ ToParent \/ Topmost \/ AppendFields \/ FieldsDone
  \/ Validate \/ MakeMember \/ NoTestValue \/ ConvertMember \/ StructEnds

Spec == Init /\ [][Next]_vars

(* Fairness: one goroutine, which keeps running.                           *)
FairSpec == Spec /\ WF_vars(Next)
-----------------------------------------------------------------------------
Computed == pc \in {"ready", "test", "convert", "accepted", "refused", "trial overflow"}

TypeOK ==
  /\ Computed \/ pc \in {"parse", "fields", "up", "down", "extends overflow"}
  /\ todo \subseteq DOMAIN structs
  /\ DOMAIN allFields \subseteq DOMAIN structs
  /\ Computed => DOMAIN allFields = DOMAIN structs
  /\ DOMAIN value \subseteq DOMAIN structs \cup {Root}
  /\ pc \in {"test", "convert"} =>
       \A k \in DOMAIN stack :
         /\ stack[k].type \in DOMAIN value
         /\ stack[k].next \in 1..Len(FieldsOf(stack[k].type)) + 1

(* InheritedFirst: the fields of a struct are those of its parent, the     *)
(* parent's own parent first, and then its own, each once, in whatever     *)
(* order computeAllStructFields visits the structs.                        *)
InheritedFirst ==
  \A s \in DOMAIN allFields :
    /\ ~HasParent(s) => allFields[s] = structs[s].fields
    /\ HasParent(s) /\ Parent(s) \in DOMAIN allFields =>
         allFields[s] = allFields[Parent(s)] \o structs[s].fields

(* RecursionFound: which documents the recursions do not end for.  NewIdl  *)
(* overflows the stack exactly if structs extend each other in a circle.   *)
(* AddHandler does so only for structs that contain each other, and one of *)
(* them somewhere without an array around it; and it always does if they   *)
(* do without any array.  It never accepts them, unless a struct hides a   *)
(* field it inherits behind one of the same name.                          *)
Circle(names, refers(_, _)) ==
  \E C \in (SUBSET names) \ {{}} : \A s \in C : \E t \in C : refers(s, t)

Extends(s, t) == HasParent(s) /\ t = Parent(s)
Includes(s, t) == \E x \in DOMAIN FieldsOf(s) : FieldsOf(s)[x].type = t
ContainsPlain(s, t) ==
  \E x \in DOMAIN FieldsOf(s) : FieldsOf(s)[x].type = t /\ ~FieldsOf(s)[x].isArray

NamesApart(s) ==
  \A x, y \in DOMAIN FieldsOf(s) : FieldsOf(s)[x].name = FieldsOf(s)[y].name => x = y

RecursionFound ==
  LET tried == DOMAIN value
  IN /\ pc = "extends overflow" => Circle(DOMAIN structs, Extends)
     /\ Computed => ~Circle(DOMAIN structs, Extends)
     /\ pc = "trial overflow" =>
          \E C \in (SUBSET tried) \ {{}} :
            /\ \A s \in C : \E t \in C : Includes(s, t)
            /\ \E s \in tried, t \in C : ContainsPlain(s, t)
     /\ pc = "accepted" /\ (\A s \in tried : NamesApart(s)) => ~Circle(tried, ContainsPlain)

(* ImportsMatch: every element is in one package, and a package imports    *)
(* exactly the other namespaces its elements name, once each, also if the  *)
(* default package has the name of a namespace: Go refuses an import too   *)
(* many, one too few and one of the package itself.                        *)
ImportsMatch ==
  pc = "ready" => \A default \in Defaults :
    /\ \A n \in DOMAIN elems : elems[n].kind # "meta" =>
         Cardinality({p \in Packages(default) : Contains(Elements(p, default), elems[n])}) = 1
    /\ \A p \in Packages(default) :
         LET els == Elements(p, default)
             imports == FindAllImports(p, els)
             named == UNION {{Ns[TypesIn(els[n])[x]] : x \in DOMAIN TypesIn(els[n])} : n \in DOMAIN els}
         IN IsInjective(imports) /\ ToSet(imports) = named \ {p, None}

(* TrialEnds: testVal returns "an empty slice now to avoid cycles" (comment *)
(* at barrister.go:230), so that AddHandler can try any type Go has.       *)
(* Violated: a struct with a list of itself, taken as a plain parameter.   *)
TrialEnds == pc # "trial overflow"

(* Ends: every recursion ends, if only with the program.                   *)
Ends == <>(Finished \/ (pc = "ready" /\ Interfaces = {}))
=============================================================================
