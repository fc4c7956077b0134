\* Three requests and two names over either store, with a configured secret or
\* not, and one restart.  The model stops when the ids have run out.
CONSTANTS
  Requests = {r1, r2, r3}
  Names = {alice, bob}
  MaxIDs = 4
  MaxRestarts = 1
SPECIFICATION Spec
INVARIANTS
  OneUserPerName
  LoginFindsItsUser
  SessionNamesItsUser
CHECK_DEADLOCK FALSE
