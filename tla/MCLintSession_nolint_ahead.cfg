SPECIFICATION Spec
CONSTANTS
  Categories <- MCCategories
  Legacy <- MCLegacy
  TopLevel <- MCTopLevel
  Covers <- MCCovers
  DefaultFilters <- MCDefaultFilters
  Path <- MCPath
  Ext <- MCExt
  RepositoryName <- MCRepositoryName
  Missing = Missing
  Unreadable = Unreadable
  NotANumber = NotANumber
  Environments <- MCEarlyEnvironments
INVARIANT NolintObeyed
CHECK_DEADLOCK FALSE
