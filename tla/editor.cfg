SPECIFICATION MCSpec
CONSTANTS
  Docs = {d1, d2}
  Texts = {0, 1}
  Css = css
  Extra = {ext}
  CacheLimit = 1
  None = none
  MaxGeneration = 6
  MaxVersion = 3
  CssRules = 4
  CssRuleDepth = 2
  NodeLists <- MCNodeLists
  Sheets <- MCSheets
INVARIANTS
  PublishedIsCurrent
  NoPluginSilenced
  NoWrongRule
  NothingLost
PROPERTIES
  LatestSelectionIsPresented
\* A walk ends, and once the changes are used up, what is shown stays.
CHECK_DEADLOCK FALSE
