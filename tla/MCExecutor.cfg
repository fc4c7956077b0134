\* Lists of up to two elements, two events, and one operation over the limit.
CONSTANTS
  Operations <- MCOperations
  MaxItems = 2
  ComplexityLimit = 10
  MaxEvents = 2
SPECIFICATION Spec
INVARIANTS
  ResponseTruthful
  HasNextTruthful
PROPERTIES
  MutationsSerial
  OperationAnswered
\* The operation ends.
CHECK_DEADLOCK FALSE
