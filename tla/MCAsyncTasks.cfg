SPECIFICATION TasksSpec
CONSTANTS
  Clients = {c1, c2, c3, c4, c5}
  Values = {v1, v2, v3, v4}
  Consumers = {k1, k2, k3, k4}
  Capacity = 2
  Nothing = Nothing
  Permits = 2
  MaxStray = 2
  WorkerCount = 3
  ItemCount = 6
INVARIANTS IInv QueueSafe SemaphoreSafe FanOutSafe
PROPERTIES WriterNotOvertaken WriterServed ImplementsSharedExclusive SemaphoreFirstComeFirstServed TasksGoOn
CHECK_DEADLOCK FALSE
