\* Messages, statuses or chats, one at a time; a message that got everywhere is at its end.
SPECIFICATION MCSpec
CONSTANTS
  World <- MCWorld
  Window = 1
  MaxTime = 2
  MaxHeld = 3
  MaxAsked = 2
  MaxEdits = 2
  MaxResent = 1
  Recipients = {"ann", "bob"}
  MaxReports = 2
  Directs = {"direct"}
  Groups = {"group", "community"}
  Communities = {"community"}
  MaxEvents = 2
  MaxMessages = 2
  MaxAccounts = 2
INVARIANTS
  HandledOnce
  WritersAreKnown
  StatusesAreTrue
  StoreIsPhones
PROPERTIES
  ListingIsWhole
CHECK_DEADLOCK FALSE
