\* Three requests for two users, a timer for each request: a second flight while
\* calls of the first are open, a timer that fires as Shutdown begins.  The model
\* stops when every request has returned and Shutdown has.
CONSTANTS
  Loads = {l1, l2, l3}
  UserIDs = {u1, u2}
  Timers = {t1, t2, t3}
  None = None
  closer = closer
SPECIFICATION SafetySpec
INVARIANTS
  SingleFlight
  NoOrphan
  KnownUserFound
  ShutdownQuiesces
SYMMETRY Symmetry
CHECK_DEADLOCK FALSE
