SPECIFICATION ResolverSpec
CONSTANTS
  N = 2
  Labels = {"blue"}
  Specs <- MCSpecs
  Statuses <- MCStatuses
  Services <- MCServices
  Options <- MCOptions
  MaxChanges = 2
  None = None
INVARIANTS
  NotFoundMeansAbsent
PROPERTIES
  TargetsAreServing
  ResolvesInTheEnd
