CONSTANTS
  Pid = {1, 2, 3}
  dir <- Directories
  Configs <- RoleSets
  V2 = TRUE
  MaxBoots = 1
  MaxWork = 2
  MaxVersion = 3
  OffTrack = 9
  Broken = {2}
  MinWait = 1
  MaxWait = 2
  MaxClock = 2
  MaxLooks = 2
  Box = {"a", "b", "s"}
  Self = "s"
  Given = {"a", "s"}
  Target = 1
  MaxConnections = 1
  MaxFailures = 1
  BookMax = 1
  Rekeyed = {"a"}
  MaxKey = 2
  MaxDeaths = 1
  Consumer = {1, 2}
  MinGap = 1
  MaxGap = 4
  MaxIdle = 3
  GossipPeer = {1, 2}
  Old = {2}
  GossipTx = {1}
  MaxTs = 2
  MaxRetries = 1
  MaxStarts = 1
  MaxEvict = 1
  Tx = {1, 2}
  Leader = {1}
  Sender <- Senders
  Ttl = 0
  MaxTombs = 1
  MaxNow = 1
  MaxCrash = 1
  MaxRuns = 3
  Shard = {1, 2}
  Size <- Sizes
  Capacity = 2
  StorageCaller = {1, 2}
  MaxStorageOps = 3
  MaxStorageCrash = 1
  MaxProbe = 2
  Task <- ComputeJobs
  Slot = {1, 2}
  MaxPages = 2
  HostGives = {"env.verkle_get"}
  Allowed = {"env.log"}
  Deadline = 2
  MaxJobs = 2
  Call = {1, 2}
  SimulatorTx = {1}
  Available <- Installed
  InitialIds = 3
  MaxOps = 2
  MaxTurns = 4
  Request = {1, 2}
  Wanted = 2
  MaxRequests = 3
  MaxDisposals = 1
  MaxCalls = 4
  MaxWindows = 1
  CacheKey = {1, 2, 3}
  CacheValue = {1, 2}
  CacheSize = 2
  Ttls = {0, 1}
  MaxCacheNow = 2
  MaxTouch = 4
  Ip = {1, 2}
  Response = {1, 99}
  Unmeasured = 99
  Timeout = 1
  Rotation = 2
  MaxSeats = 1
  MaxElectionNow = 3
  MaxPulses = 3
  RateClient = {1}
  MaxRate = 2
  RateWindow = 2
  MaxRateClock = 6
  MaxRateCalls = 6
SPECIFICATION Spec
INVARIANTS
  
  
  
  
  StorageSound
  
  ToolsSound
  LimitsSound
CHECK_DEADLOCK FALSE
