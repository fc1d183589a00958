SPECIFICATION FairSpec
CONSTANTS
  Request = {h1, q1, q2, s1}
  Via <- MCVia
  Bound = {q1}
  CallsOf <- MCCallsOf
  Header = {"X"}
  CookiesOf <- MCCookiesOf
  Token = {"n", "m"}
  CookieByte = {"a", "b"}
  Quote = "quote"
  N = 2
  NoMap = NoMap
  h1 = h1
  q1 = q1
  q2 = q2
  s1 = s1
INVARIANTS
  TypeOK
  HeadersReturned
  CookiesSeen
  WaitsForWorkers
PROPERTIES
  Stops
\* The program exits, and nobody has to send a request.
CHECK_DEADLOCK FALSE
