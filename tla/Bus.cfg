SPECIFICATION FairSpec
CONSTANTS
  Handlers = {relay, sink}
  Relays = {relay}
  Clients = {c1}
  Capacity = 2
  WorkerCount = 2
  MaxEvents = 2
  MaxStarts = 2
CHECK_DEADLOCK FALSE
INVARIANTS DeliveredOnce PoolMatches
PROPERTIES InOrder Delivered
