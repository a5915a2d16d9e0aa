CONSTANTS
  c1 = c1  c2 = c2  c3 = c3
  k1 = k1  t1 = t1  t2 = t2
  NoCall = NoCall  NoKey = NoKey  NoSandbox = NoSandbox
  TenantOf <- MCTenantOf
  KeyOf <- MCKeyOf
  MaxAttempts = 1
  Sandbox = {s1, s2}
  Call = {c1, c3}
CHECK_DEADLOCK FALSE
SPECIFICATION Spec
SYMMETRY Symmetry
INVARIANT TypeOK
INVARIANT OneSessionPerSandbox
INVARIANT AnswerIsOwned
INVARIANT ConflictMeansTaken
INVARIANT SessionHasContract
PROPERTY StockReclaimSparesSessions
PROPERTY ClaimOnlyStock
