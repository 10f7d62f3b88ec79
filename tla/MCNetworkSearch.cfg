SPECIFICATION FairSpec
CONSTANTS
  MaxSearches = 2
  MaxCommands = 1
INVARIANTS
  TypeOK
  OnlyTheHandlerMeets
  OthersListsAreLate
  SearchIsGuarded
  FlagMeansSearch
  
PROPERTIES
  SearchesEnd
CHECK_DEADLOCK FALSE
