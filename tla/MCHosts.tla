------------------------------ MODULE MCHosts ------------------------------
(***************************************************************************)
(* An instance of Hosts for TLC: a request over each transport, and one    *)
(* from a queue without a Server; two workers.                             *)
(***************************************************************************)
EXTENDS Hosts, TLC

CONSTANTS h1, q1, q2, s1

MCVia == h1 :> "http" @@ q1 :> "retinaws" @@ q2 :> "retinaws" @@ s1 :> "iris"
MCCallsOf == h1 :> 2 @@ q1 :> 1 @@ q2 :> 1 @@ s1 :> 1

Pair(name, value) == [name |-> name, value |-> value]

\* Quotes around a value, or only before it, or only one; values that are empty or have
\* an illegal character; two cookies of one name; an illegal name.
Lines ==
  {<<Pair("n", <<"quote">>), Pair("n", <<"quote", "space", "quote">>), Pair("n", <<"quote", "a", "quote">>),
     Pair("m", <<>>)>>,
   <<Pair("?", <<"a">>), Pair("n", <<"quote", "a">>), Pair("n", <<"a">>), Pair("m", <<"quote", "quote">>)>>,
   <<Pair("m", <<"space">>), Pair("n", <<"b">>), Pair("n", <<"a">>)>>}

MCCookiesOf == h1 :> {<<>>} @@ q2 :> {<<>>} @@ s1 :> {<<>>} @@ q1 :> Lines
=============================================================================
