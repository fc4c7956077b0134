\* Eight attempts run over the cap of the shift and would overflow the eight
\* bits without it.  Two checks, so that one may fail and the other not.
CONSTANTS
  Attempts = 8
  Delay = 3
  MaxShift = 4
  Width = 8
  Requests = {r1, r2}
  Checks = {database, other}
  Database = database
  Codes = {200, 401}
SPECIFICATION Spec
INVARIANTS
  StartsOnItsStore
  AnswersAccountedFor
  ReadinessTruthful
SYMMETRY Symmetry
CHECK_DEADLOCK FALSE
