SPECIFICATION Spec
CONSTANTS
  Callers = {c1, c2}
  Tasks = {"renew"}
  Listings <- AllOrNone
  Kind <- MCKind
  Runs = {x1}
  MaxRunners = 3
INVARIANT OneRunner
