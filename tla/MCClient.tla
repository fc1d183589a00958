------------------------------ MODULE MCClient ------------------------------
(***************************************************************************)
(* An instance of Client for TLC: two callers, c1 with a hook and a        *)
(* timeout, c2 with neither, on one http.Client; c1's first transport has  *)
(* a jar, its second none, and c2's has another.                           *)
(***************************************************************************)
EXTENDS Client, TLC

CONSTANTS c1, c2, http1, jar1, jar2, id1, id2

MCMaxCalls == c1 :> 2 @@ c2 :> 1
MCClientOf == c1 :> http1 @@ c2 :> http1
MCJarOf == <<c1, 1>> :> jar1 @@ <<c1, 2>> :> NoJar @@ <<c2, 1>> :> jar2

Request(batch, ids, text, marshals) ==
  [batch |-> batch, ids |-> ids, text |-> text, marshals |-> marshals]

MCSize == "brace" :> 1 @@ "bracket" :> 1 @@ "e" :> 2 @@ "euro" :> 3 @@ "clef" :> 4

\* Single calls and batches; a parameter that has no JSON; texts with brackets, with
\* runes of two, three and four bytes.
MCBodiesOf ==
  c1 :> { Request(FALSE, <<id1>>, <<"bracket", "e">>, TRUE), Request(FALSE, <<id1>>, <<>>, FALSE),
          Request(TRUE, <<id1, id2>>, <<"brace">>, TRUE), Request(TRUE, <<id1, id2>>, <<"euro">>, TRUE),
          Request(TRUE, <<>>, <<>>, TRUE) }
  @@ c2 :> { Request(FALSE, <<id1>>, <<"clef">>, TRUE) }
=============================================================================
