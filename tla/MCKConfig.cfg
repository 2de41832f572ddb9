CONSTANTS
  Symbols <- MCSymbols
  Modules = "mods"
  Choice = "c"
  Number <- MCNumber
  TypeOf <- MCTypeOf
  Scenarios <- MCScenarios
  Answers <- MCAnswers
  Cuts <- MCCuts
SPECIFICATION Spec
INVARIANTS
  VisibleAsWritten
  NothingHidden
  CirclesTold
  CachesAreFresh
  OneMember
  SavedIsRead
  ConfigSurvives
PROPERTIES
  AutoconfIsLast
  QuestionsEnd
