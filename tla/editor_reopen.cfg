SPECIFICATION MCSpec
CONSTANTS
  Docs = {d1, d2}
  Texts = {0, 1}
  Css = css
  Extra = {ext}
  CacheLimit = 1
  None = none
  MaxGeneration = 4
  MaxVersion = 3
  CssRules = 4
  CssRuleDepth = 2
  NodeLists <- NoRules
  Sheets <- NoRules
INVARIANT ShownRangesFitTheDocument
CHECK_DEADLOCK FALSE
