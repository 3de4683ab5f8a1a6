\* One machine at a time; a message that is answered, and a module that stopped or
\* failed, end theirs.
SPECIFICATION AlgorithmsSpec
CONSTANTS
  MaxAttempts = 7
  AttemptCap = 8
  BaseDelay = 1000
  MaxDelay = 60000
  ForbiddenCooldown = 300000
  JitterShares <- MCJitterShares
  Kinds <- MCKinds
  Texts <- MCTexts
  Touched <- MCTouched
  Raws <- MCRaws
  Shares <- MCShares
  Numbers <- MCNumbers
  Preferences <- MCPreferences
  ResolverLists <- MCLists
  Catalogues <- MCCatalogues
  Fallbacks = {"en-US", "pt-BR"}
  TextKeys = {"hello", "bye"}
  Nothing = Nothing
  Configs <- MCConfigs
  Capitals <- MCCapitals
  DefaultName = "default"
INVARIANTS
  LanguageFits
  WiringHolds
PROPERTIES
  BackoffNeverShrinks
  FormsAreFaithful
CHECK_DEADLOCK FALSE
