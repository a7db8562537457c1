SPECIFICATION Spec
CONSTANTS
  long = long
  short = short
  push = push
  None = None
  Requests <- MCRequestSet
  WithCallback <- MCWithCallback
  Timeout <- MCTimeout
  WriterMayEnd = TRUE
CHECK_DEADLOCK FALSE
INVARIANTS AtMostOneCall NoRequestForgotten AnswerableIsRegistered
PROPERTIES ImplementsOutcome EveryRequestConcludes
