SPECIFICATION Spec
CONSTANTS
  Hosts = {"server", "desktop"}
  Caller = {"quit", "mainEnd"}
  Source = {"s1", "s2"}
  Url = {"a", "b"}
  Refresher = {"request", "timer"}
  Capacities = {1, 2}
  MaxRefreshes = 3
  MaxEdits = 1
  MaxUpsets = 1
  AgingInterval = 1
  AgingPointsPerInterval = 5
  MaxAgingBonus = 250
  Low = 1
  High = {2, 3}
  Duration = 4
  Horizon = 52
\* The runtime stops for good, and what the user may do is bounded.
CHECK_DEADLOCK FALSE
INVARIANTS OrderedTeardown 
PROPERTIES LifecycleEnds RefreshReturns 
