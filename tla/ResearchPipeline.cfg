SPECIFICATION FairSpec
CONSTANTS
  b1 = b1  p1 = p1
  Names = 4
  Statements <- MCStatements
  Reported <- MCReported
  ReuseAge = 0
  MaxRanked = 1
  Builders = {b1}
  Bootstrappers = {p1}
  UniverseOrder <- MCUniverseOrder
  RequestLimit = 2
  Priced <- MCPriced
  Calendars <- MCCalendars
  MaxTime = 1
  MaxPeriod = 2
INVARIANTS TypeOK SpentIsKept PacketsAreBacked
PROPERTIES ResearchNeverStepsBack BaselineUnlessOvertaken
  EveryNameIsResearched
