SPECIFICATION FairSpec
CONSTANTS
  MaxPuts = 2
  Transactions = {2}
  l1 = l1
  l2 = l2
  q1 = q1
  Specs = {l1, l2}
  QueryOf <- MCQueryOf
  Tokens = {tA}
  Nil = Nil
  NoFetch = NoFetch
  NoRetry = NoRetry
  MaxDrops = 3
  MaxChanges = 2
  NSUIntegerMax = 99
INVARIANTS ConnectionExact PutsConserved DurableOrder TokenFollowsListener
PROPERTIES WritesLeaveQueue
\* Every drop and every change may have happened, with nothing left to do.
CHECK_DEADLOCK FALSE
