CONSTANTS
  Netlists <- MCNetlists
  Documents <- MCDocuments
  Odd <- MCOdd
SPECIFICATION Conversions
INVARIANTS CircuitOK ConnectivityKept WireExact
CHECK_DEADLOCK FALSE
