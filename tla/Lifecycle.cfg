\* A request and an operation on a websocket for one user, a timer for each.
\* The process ends, and with it the model.
CONSTANTS
  Loads = {l1, l2}
  WebSockets = {l2}
  UserIDs = {u1}
  Timers = {t1, t2}
  None = None
  closer = closer
SPECIFICATION LifeSpec
INVARIANTS
  StopsAfterUse
PROPERTIES
  RequestsAnswered
  ProcessExits
CHECK_DEADLOCK FALSE
