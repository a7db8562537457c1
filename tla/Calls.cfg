\* Two clients call the server by names that collide; a client and the server
\* call each other; two objects of type expected.  Handlers return a message,
\* error 0 or an error of their own.
SPECIFICATION CallsSpec
CONSTANTS
  Conns = {"k1", "k2"}
  Names <- MCNames
  Hash <- MCHash
  Calls <- MCCalls
  Caller <- MCCaller
  ConnOf <- MCConnOf
  NameOf <- MCNameOf
  Offers <- MCOffers
  Codes = {0, 7}
  None = None
  Objects = {"x", "y"}
  Vals = {v1, v2}
  Errs = {e1, e2}
  Moved = Moved
  Torn = Torn
  MaxLost = 1
INVARIANTS
  ResultsAreGenuine
  HandlersRunAsAsked
PROPERTIES
  AllCallsEnd
  HoldsWhatItSays
CHECK_DEADLOCK FALSE
