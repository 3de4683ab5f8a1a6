\* Clients come and go between subscriptions, events and operations.
SPECIFICATION Spec
CONSTANTS
  c1 = c1
  c2 = c2
  h1 = h1
  h2 = h2
  f1 = f1
  f2 = f2
  f3 = f3
  None = None
  Clients <- MCClients
  DefaultName = c1
  Derived <- MCDerived
  Native <- MCNative
  Supported <- MCSupported
  Handlers = {h1, h2}
  Throwing = {h1}
  Found <- MCFound
  Packages <- MCPackages
  Implemented <- MCImplemented
  Unsupported <- MCUnsupported
  BuiltIn <- MCBuiltIn
  MaxSubscribed = 2
INVARIANTS
  ExactlySubscribersHear
PROPERTIES
  SupportedStaysSupported
