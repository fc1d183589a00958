SPECIFICATION FairSpec
CONSTANTS
  Caller = {c1, c2}
  MaxCalls <- MCMaxCalls
  Id = {id1, id2}
  BodiesOf <- MCBodiesOf
  ForceASCII = {c1}
  ServerASCII = TRUE
  Rune = {"brace", "bracket", "e", "euro", "clef"}
  Size <- MCSize
  Hooked = {c1}
  WithTimeout = {c1}
  HttpClient = {http1}
  ClientOf <- MCClientOf
  Jar = {jar1, jar2}
  JarOf <- MCJarOf
  NoId = NoId
  NoBody = NoBody
  NoClient = NoClient
  NoJar = NoJar
  c1 = c1
  c2 = c2
  http1 = http1
  jar1 = jar1
  jar2 = jar2
  id1 = id1
  id2 = id2
INVARIANTS
  TypeOK
  OwnAnswer
  TextIntact
  AtMostOnce
  HooksPair
  OwnJar
PROPERTIES
  TimeoutsReturn
\* Callers stop at their bound, and the network may deliver nothing.
CHECK_DEADLOCK FALSE
