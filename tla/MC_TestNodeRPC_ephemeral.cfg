CONSTANTS
  m1 = m1
  m2 = m2
  c1 = c1
  Mains <- MCMains
  Callers <- MCCallers
  GrpcPort = 1
  JrpcPort = 2
  Ephemeral <- MCEphemeral
  GrpcBinds <- MCGrpcAny
  JrpcBinds <- MCJrpcAny
  None = None
  Fallback = Fallback
  Empty = Empty
  Nil = Nil
  NoOne = NoOne
  MaxCalls = 2
SPECIFICATION Spec
PROPERTIES
  ParaReachesMain
CHECK_DEADLOCK FALSE
