SPECIFICATION FairSpec
CONSTANTS
  Ranks = {0, 1}
  Views = {1, 2}
  Programs <- MCPrograms
INVARIANTS TypeOK Quiet
PROPERTIES KeepsDelivery AllCallsEnd
\* Programs end.
CHECK_DEADLOCK FALSE
