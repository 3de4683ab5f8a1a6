\* Every store of an adapter over sockets that open, drop, end and are unlinked.
SPECIFICATION MCSpec
CONSTANTS
  None = None
  Ttl = 1
  Groups = {g1, g2}
  MaxLists = 1
  Retried = {k1, k2, k3}
  MaxRetries = 2
  Messages <- MCMessages
  MaxMessages = 2
  Chats = {"c1", "c2", "c3"}
  MaxChats = 2
  Activities = {0, 1, 2}
  Contacts = {p1, p2}
  MaxAccounts = 2
  MaxChanges = 2
  MaxTime = 2
  MaxLoops = 2
  MaxAsked = 2
SYMMETRY MCSymmetry
INVARIANTS
  StaleOnlyIfRaced
  RecentAreAnswered
  AccountIsFollowed
PROPERTIES
  IdleChatsGo
