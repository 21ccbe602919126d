CONSTANTS
  Parts = {"exec", "socket", "session", "remoting", "input"}
  ExPrograms = {"echo", "store"}
  ExChunks = 5
  ExChannel = 1
  ExPipe = 1
  ExPolls = 2
  HcProviders = {"es", "rocketmq", "mqtt"}
  HcRequests = 3
  HcWindow <- MCWindow
  HcNotices <- MCNotices
  HcMaxDeferred = 2
  MqFilters = {"a", "b"}
  MqQos = {"q0"}
  MqCap = 2
  MqMaxOps = 3
  MqMaxFaults = 2
  RqNameservers <- MCNameservers
  RqBroker = "b"
  RqMaxChannels = 2
  RqMaxRequests = 2
  InPositions = {1, 2}
  InButtons = {"b"}
  InCapacity = 2
  InRequests = 5
SPECIFICATION Spec
CHECK_DEADLOCK FALSE
PROPERTIES
  CallsSafe
  EveryCallEnds
