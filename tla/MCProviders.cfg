CONSTANTS
  Parts = {"jobs", "objects", "files", "target", "dates", "searches", "cluster", "events", "profile", "history", "admin", "pages", "reads", "resource"}
  DkResources = {r1, r2}
  DkJobs = {j1, j2}
  MAX_JOBS = 1
  DkContainers = {c1}
  DkImages = {r1, r2}
  DkTags = {t1}
  DkVolumes = {v1}
  DkNetworks = {n1}
  DfNames <- MCNames
  DfTrim <- MCTrim
  DfRaw <- MCPaths
  DfDepth = 2
  DfChanges = 2
  DhForms <- MCForms
  DhUnix = TRUE
  DtFirst <- MC1970
  DtDays = 158000
  EsResources = {r1, r2}
  EsJobs = {j1, j2}
  EsBlobs = {b1, b2}
  EsStreams = {es1}
  EsMaxJobs = 1
  EsMaxStreams = 1
  EsBudget = 1
  EsSizes = {0, 1}
  EsCapacity = 1
  EsIndices = {r1, r2}
  EsDocs = {d1}
  EsAliases = {a1}
  MqResources = {r1, r2}
  MqStreams = {j1, j2}
  MqSizes = {1, 2}
  MqChannel = 3
  MqBatch = 2
  MqPending = 2
  MqMaxStreams = 1
  MqMaxEvents = {1, 4}
  MqMessages = 4
  MqpResources = {"r1", "r2", "r3"}
  MqpFilters = {"a", "b"}
  MqpKeyOf <- MCKeyOf
  MqpAuto = {"none", "a"}
  MqaTopics <- MCTopics
  MqaFilters <- MCFilters
  MqaSizes = {1, 2}
  MqaCapacity = 2
  MqaBytes = 3
  MqaMaxBody = 1
  MqaChannel = 1
  MqaMessages = 2
  MqaSends = 2
  MqaTime = 2
  RqaBrokers <- MCBrokers
  RqaServers <- MCServers
  RqaTopics = {"t"}
  RqaResets = 1
  RqwQueues <- MCBrokers
  RqwTime = 2
  RqwLength = 2
  RqwFaults = 2
  RrBrokers <- MCBrokers
  RrGroups = {"g", "h"}
  RrClients = {"c"}
  RrTopics = {"t"}
  RrEnrich = 1
  RrAddr <- MCAddr
  RrLog <- MCLog
  RrHosts <- MCHosts
  RrIndexEnd = 1
  RrChanges = 1
  RpForms <- MCSecretForms
  RpSecrets = {"text", "blank"}
  RpIds = {"rocketmq-resource", "other"}
  RpFixed = "rocketmq-resource"
  RpSizes = {0, 1, 2, 3, 5}
  RpInline = 1
  RpBudget = 5
  RpReads = {1, 2}
  RpBlobs = {"x", "y"}
  RpOpens = 3
SYMMETRY ProviderSymmetry
SPECIFICATION Spec
CHECK_DEADLOCK FALSE
INVARIANTS
  MqttRecordsSafe
  RocketmqClusterSafe
PROPERTIES
  DockerSafe
  DockerViewsSafe
  ElasticsearchSafe
  MqttEventsSafe
  RocketmqResourceSafe
