CONSTANTS
  c1 = c1  c2 = c2  c3 = c3
  k1 = k1  t1 = t1  t2 = t2
  NoCall = NoCall  NoKey = NoKey  NoSandbox = NoSandbox
  TenantOf <- MCTenantOf
  KeyOf <- MCKeyOf
  MaxAttempts = 1
  Sandbox = {s1}
  Call = {c1}
CHECK_DEADLOCK FALSE
SPECIFICATION Spec
PROPERTY DrainSparesSessions
