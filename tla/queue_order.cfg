SPECIFICATION QueueSpec
CONSTANTS
  AgingInterval = 1
  AgingPointsPerInterval = 5
  MaxAgingBonus = 250
  Job = {1, 2, 3}
  Lanes = {"high", "low"}
  Instants <- MCInstants
  MaxRequests = 3
\* Requests and time are bounded: a behaviour may come to rest.
CHECK_DEADLOCK FALSE
INVARIANTS QueueTypeOK RankingIsSound
PROPERTIES AgeSurvivesRequests
