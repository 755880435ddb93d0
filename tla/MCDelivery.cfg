CONSTANTS
  t1 = t1
  t2 = t2
  c1 = c1
  c2 = c2
  noId = noId
  Nobody = nobody
  NoId = noId
  Requested = 1
  TraceIds <- MCTraceIds
  Consumers <- MCConsumers
  KeyOf <- MCKeyOf
  Routes <- MCRoutes
  SendChCap = 2
  MaxEmits = 3
  MaxControls = 1
SPECIFICATION Spec
INVARIANTS TypeOK PushAlwaysLands EventsInOrder NoUncountedLoss NoticesNeverOverstate
PROPERTIES PublishTerminates DedupImplementsWindow
CHECK_DEADLOCK FALSE
