CONSTANTS
  k = k
  a = a
  b = b
  NoDep = NoDep
  Requests = {r1, r2}
  Deployments = {k, a}
  Kilo = {k}
  Models = {1, 2}
  Channels = {k, a}
  ChannelOf <- MCChannelOf
  VirtualModels = {v}
  VirtualModelOf <- MCVirtualModelOf
  Preferred = NoDep
  MaxConcurrent <- KiloLimitOne
  Limited = {}
  QuotaLimited = {}
  Doubao = {}
  ToolRequests = {r1}
  StreamRequests = {}
  Outcomes = {"ok", "badTools", "rate429", "temporary", "panic"}
  EnvEvents = {}
SPECIFICATION FairSpec
INVARIANTS
  SupplierChargedOnce
  NoDeploymentPassedOver
  SlotAccounting
PROPERTIES
  ImplementsSlots
  RequestsEnd
