----------------------------- MODULE Serializer -----------------------------
(***************************************************************************)
(* JsonSerializer on both ends of a wire.  A JSON document is reduced to   *)
(* the bracket it opens with and the text in it; on the wire a rune of the *)
(* text is written as it is or as an escape.                               *)
(***************************************************************************)
EXTENDS Naturals, Sequences

CONSTANTS
  Rune,  \* "brace" and "bracket", the opening ones, which texts may have too, and others
  Size   \* how many bytes UTF-8 takes for each

ASSUME SerializerAssumption ==
  /\ {"brace", "bracket"} \subseteq Rune
  /\ Size \in [Rune -> 1..4]
  /\ Size["brace"] = 1 /\ Size["bracket"] = 1

Raw(r) == [escape |-> "none", rune |-> r]
Escaped(escape, r) == [escape |-> escape, rune |-> r]

(* A short escape, \uXXXX, for two bytes of UTF-8, and for three or four a *)
(* long one, \UXXXXXXXX, which JSON does not know.                         *)
EncodeRune(r) ==
  IF Size[r] = 1 THEN Raw(r) ELSE Escaped(IF Size[r] = 2 THEN "short" ELSE "long", r)

\* Slip: every rune gets a short escape, with at least four digits, of which a reader takes four.
EncodeASCIIShort(b) ==
  [i \in DOMAIN b |-> IF Size[b[i]] = 1 THEN Raw(b[i])
                      ELSE Escaped("short", IF Size[b[i]] = 4 THEN "brace" ELSE b[i])]

EncodeASCII(b) == [i \in DOMAIN b |-> EncodeRune(b[i])]

(* json.Marshal of a list or an object, and json.Unmarshal.                *)
Json(isList, text) == <<IF isList THEN "bracket" ELSE "brace">> \o text
ReadableJson(wire) == \A i \in DOMAIN wire : wire[i].escape # "long"
TextOf(wire) == [i \in 1..Len(wire) - 1 |-> wire[i + 1].rune]
OpensWith(wire, bracket) == wire[1] = Raw(bracket)

Marshal(isList, text, forceASCII) ==
  LET b == Json(isList, text)
  IN IF forceASCII THEN EncodeASCII(b) ELSE [i \in DOMAIN b |-> Raw(b[i])]

IsBatch(wire) ==
  \E i \in DOMAIN wire : wire[i] = Raw("bracket") /\ \A j \in 1..i - 1 : wire[j] # Raw("brace")

(* What JSON has an escape for, the reference for what follows.            *)
Narrow(text) == \A i \in DOMAIN text : Size[text[i]] < 3
=============================================================================
