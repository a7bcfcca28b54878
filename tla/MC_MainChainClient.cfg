CONSTANTS
  Callers = {c1, c2}
  Addrs = {a1, a2}
  Fallback = Fallback
  Empty = Empty
  Nil = Nil
  NoOne = NoOne
  MaxCalls = 3
SPECIFICATION Spec
INVARIANTS
  TypeOK
  
  ExplicitAddressHonoured
PROPERTIES
  CallsReturn
