SPECIFICATION Spec
CONSTANTS
  b1 = b1
  b2 = b2
  b3 = b3
  b4 = b4
  b5 = b5
  u1 = u1
  u2 = u2
  c1 = c1
  c2 = c2
  c3 = c3
  Null = Null
  AppContext = AppContext
  Blocks = {b1, b2}
  Kind <- KindPlain
  Uris = {u1, u2}
  UriOf <- UriPlain
  Contexts = {c1, c2}
  Failures <- NoFailure
  Concurrent = TRUE
  MaxCount = 3
  MaxEntries = 3
INVARIANTS
  SharesOpenContext
