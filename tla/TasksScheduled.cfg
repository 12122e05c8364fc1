SPECIFICATION FairSpec
CONSTANTS
  a = a  b = b  c = c  hourly = hourly  daily = daily
  Tenant = {a, b, c}
  Cron = {hourly, daily}
  Ends = {"success", "failed"}
  None = None
  Keep = Keep
  News <- MCNews
  Bodies <- MCBodies
  MaxTask = 2
  MaxRow = 6
  MaxRequests = 3
  MaxCalls = 2
  MaxStops = 1
  MaxEvents = 3
INVARIANTS EnabledIsScheduled NeverOntoItself ParentTellsChildren
PROPERTIES OutcomeIsOwn CallsEnd
\* A server may stay down and its bounds be used up.
CHECK_DEADLOCK FALSE
