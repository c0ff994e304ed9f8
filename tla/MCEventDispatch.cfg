CONSTANTS
  Events = {e1, e2}
  Direct = {redis}
  Kafka = {kafka}
  RetrySink = redis
  MaxAttempts = 2
SPECIFICATION FairDispatchSpec
INVARIANTS LossExplained
PROPERTIES DeliveriesEnd
CHECK_DEADLOCK FALSE
