SPECIFICATION FairSpec
CONSTANTS
  Callers = {c1}
  Tasks = {"renew", "http"}
  Listings <- AllOrNone
  Kind <- MCKind
  Runs = {x1, x2}
  MaxRunners = 2
INVARIANT OneRunner
INVARIANT ScheduleInForce
INVARIANT NoOverlap
INVARIANT LastOutcomeShown
PROPERTY GuardReopens
