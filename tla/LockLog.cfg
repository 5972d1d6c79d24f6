SPECIFICATION LockLogSpec
CONSTANTS
  part_names = {"lock", "logger", "events", "signals"}
  None = None
  t1 = t1
  t2 = t2
  t3 = t3
  Threads = {t1, t2, t3}
  MaxReaders = 2
  Loggers = {t1, t2}
  MaxMessages = 4
  Ports = {"posix", "kernel"}
  b1 = b1
  Waiters = {t1, t2}
  Setters = {t3}
  Bits = {b1, b2}
  Masks = {{b1}, {b1, b2}}
INVARIANTS
  RwInv
  MessagesAreSafe
  EventsReachOneWaiter
PROPERTIES
  WritersArePreferred WriterIsServed ImplementsRwLock
  NothingWaitsForEver
  WaiterWakes
  ImplementsAutoReset
