SPECIFICATION Spec
CONSTANTS
  MaxFailures = 3
  FailureWindow = 2
  Cooldown = 2
  MaxActive = 2
  TokenLifetime = 4
  MaxTime = 7
  MaxTokens = 4
INVARIANTS
  GuessesAreLimited
PROPERTIES
  LockoutIsExact
  TokensAreRotated
