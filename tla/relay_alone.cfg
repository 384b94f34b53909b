CONSTANTS
  k = k
  a = a
  b = b
  NoDep = NoDep
  Requests = {r1}
  Deployments = {k, a}
  Kilo = {k}
  Models = {1, 2}
  Channels = {k, a}
  ChannelOf <- MCChannelOf
  VirtualModels = {v}
  VirtualModelOf <- MCVirtualModelOf
  Preferred = NoDep
  MaxConcurrent <- KiloLimitOne
  Limited = {a}
  QuotaLimited = {a}
  Doubao = {a}
  ToolRequests = {r1}
  StreamRequests = {}
  Outcomes = {"ok", "badTools", "rate429", "rateSoft", "temporary", "quota", "denied", "notFound", "client", "panic"}
  EnvEvents = {"cooldownLapse", "modelLapse", "health", "channel", "newDay", "recover"}
SPECIFICATION Spec
INVARIANTS
  HardFailureEndsDeployment
  SwitchOnlyOnDeploymentChange
  OneWriter
PROPERTIES
  MarkNeedsCharge
