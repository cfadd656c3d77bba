SPECIFICATION Spec
CONSTANTS
  b1 = b1
  b2 = b2
  b3 = b3
  b4 = b4
  b5 = b5
  u1 = u1
  u2 = u2
  c1 = c1
  c2 = c2
  c3 = c3
  Null = Null
  AppContext = AppContext
  Blocks = {b1, b2, b3, b4, b5}
  Kind <- KindMixed
  Uris = {u1, u2}
  UriOf <- UriMixed
  Contexts = {c1, c2, c3}
  Failures <- FailuresMixed
  Concurrent = FALSE
  MaxCount = 5
  MaxEntries = 3
INVARIANTS
  TypeOK
  SharesOpenContext
  RegistryIsOpen
  CountsUsers
  ClosedWithLastBlock
PROPERTY ImplementsSharedContexts
