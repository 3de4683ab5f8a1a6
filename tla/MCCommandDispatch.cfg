\* Commands are put on and off and prefixes edited between the steps of a call.
SPECIFICATION DispatchSpec
CONSTANTS
  c1 = c1
  c2 = c2
  None = None
  Space = " "
  Clients <- MCClients
  Declared <- MCDeclared
  Bodies <- MCBodies
  ClientPrefixes <- MCPrefixes
  DefaultPrefix <- MCDefaultPrefix
  LowerOf <- MCLowerOf
INVARIANTS
  CallsAreAnswered
  RemovalIsExact
