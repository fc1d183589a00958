SPECIFICATION Spec
CONSTANTS
  Request = {h1, q1, q2, s1}
  Via <- MCVia
  Bound = {q1}
  CallsOf <- MCCallsOf
  Header = {"X"}
  CookiesOf <- MCCookiesOf
  Token = {"n", "m"}
  CookieByte = {"a", "b"}
  Quote = "quote"
  N = 2
  NoMap = NoMap
  h1 = h1
  q1 = q1
  q2 = q2
  s1 = s1
INVARIANT
  HeadersWriteable
\* The program exits, and nobody has to send a request.
CHECK_DEADLOCK FALSE
