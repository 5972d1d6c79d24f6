SPECIFICATION TrafficSpec
CONSTANTS
  part_names = {"acn"}
  None = None
  i1 = i1
  i2 = i2
  Senders = {s1, s2}
  Receivers = {r1, r2}
  Resetters = {r2}
  Observers = {s2}
  Items = {i1, i2}
  Capacity = 2
  Sockets = {0, 2}
  EventSets = {{"in", "out"}, {"connect", "oob"}}
  MaxPoll = 2
  MaxDoubtful = 1
  MaxControl = 3
  MaxPdus = 3
  Vectors = {"E131", "RPT"}
  LongVectors = {"RPT"}
  Cids = {c1, c2}
  Datas <- MCDatas
  Uuids <- MCUuids
  Digests <- MCDigests
  Generated <- MCGenerated
  Strings <- MCStrings
  Numbers <- MCNumbers
  c1 = c1
  c2 = c2
  Indexes = {1, 2}
  IndexArgs = {0, 1, 2, 257}
  LinkAddresses = {0, 1, 2}
  OptionValues <- MCOptionValues
  Datagrams <- MCDatagrams
  SocketPorts = {"linux", "macos", "windows", "lwip", "mqx"}
  CallPorts = {"linux", "windows", "lwip", "mqx"}
  CallSockets = {k1, k2}
  KernelPorts = {"freertos", "zephyr"}
  Threads = {s1, r1}
  Isrs = {o1}
  ScopeIds <- MCScopeIds
  ScopeLimit = 8
  Ips <- MCIps
  PortNumbers <- MCPortNumbers
  MaskLengths = {0, 1, 8, 9, 15, 24, 31, 32, 33, 64, 127, 128, 129}
  Macs <- MCMacs
  MaxWaiting = 2
  MaxAddresses = 3
INVARIANT EveryBlockRoundTrips
