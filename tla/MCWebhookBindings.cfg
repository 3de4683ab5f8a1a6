SPECIFICATION Spec
CONSTANTS
  Clients = {c1, c2}
  DefaultName = c1
  Named = {c1}
  Handlers = {h1}
  Once = {h1}
  Bindable <- AllBindable
  DefaultKey = byDefault
  MaxSaves = 2
  None = None
  Torn = Torn
  Missing = Missing
INVARIANTS
  BindingsAreAttached
  BindingsSurvive
  FileFollows
CHECK_DEADLOCK FALSE
