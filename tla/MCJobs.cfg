\* A crash and a stop; handlers raise, deletions fail, and may outrun the timeout.
SPECIFICATION Spec
CONSTANTS
  w1 = w1
  w2 = w2
  Workers = {w1, w2}
  MaxSends = 1
  Backends = {"sqs", "inline"}
  MaxBatch = 1
  MaxReceives = 3
  MaxCrashes = 1
  MaxStops = 1
  Outruns = {TRUE, FALSE}
INVARIANTS TypeOK SentAgainOnlyAfterFailure DeliveryMatchesLog
PROPERTIES DecidedOnce EveryJobDecided
\* A behaviour makes a bounded number of sends.
CHECK_DEADLOCK FALSE
