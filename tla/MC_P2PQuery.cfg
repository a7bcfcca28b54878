\* Two protocol handlers sharing the queue client, three messages.
CONSTANTS
  h1 = h1  h2 = h2
  Handlers <- MCHandlers
  MaxMsgs = 3
  NoMsg = NoMsg
SPECIFICATION Spec
PROPERTIES QueryReturns
\* The handlers stop once the messages of the bound are used.
CHECK_DEADLOCK FALSE
