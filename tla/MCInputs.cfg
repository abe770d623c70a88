\* a sequence space of eight, of which a stream starts near the end
SPECIFICATION AllSpec
CONSTANTS Modulus     = 8
          MaxSize     = 2
          MaxDelay    = 2
          LargeGap    = 3
          First       = {6, 7}
          Last        = 12
          MaxArrivals = 5
          MaxResets   = 1
          StreamSsrcs    = {"s", "t"}
          MappedFormats  = {"m"}
          SingleFormats  = {"f", "g", "m"}
          SingleNeed     = 2
          SingleSessions = 4
          SapFormats     = {"f", "m"}
          SapSessions    = 2
          PairSources    = {"a", "b"}
          PairFormats    = {"f", "g"}
          PairNeed       = 1
          PairSessions   = 2
          ClockConds    = {"a"}
          ClockFormats  <- TwoFormats
          ClockLate     = 3
          ClockCalls    = 2
          ClientConds   = {"a", "b"}
          ClientFormats <- OneFormat
          ClientLate    = 6
          ClientCalls   = 2
          ChunkBytes    = 4
          PulsePrograms = {"p"}
          PoolIds       = {1, 2}
          PulseUnits    = 2
          PulseMinReq   = 1
          FlowOps       = {"auth", "create", "cork", "uncork", "flush"}
          FlowLimit     = 2
          FlowMsgs      = 3
          FlowData      = 3
          FlowCredit    = 2
          TagOps        = {"auth", "create", "delete"}
          TagConns      = {"c"}
          TagLimit      = 2
          TagStreams    = 2
          TagMsgs       = 4
          PairOps       = {"auth", "create", "delete"}
          PairConns     = {"c", "d"}
          PairLimit     = 1
          PairStreams   = 1
          PairMsgs      = 2
          FdOps         = {"auth", "query", "memfd", "bad", "exit", "set", "attr"}
          FdConns       = {"c"}
          FdLimit       = 2
          FdStreams     = 1
          FdWindow      = 2
          FdMsgs        = 3
          DeviceHints   = {"h"}
          ProbedHints   = {"h"}
          DeviceFiles   = {"f"}
          DeviceManifests = {"f"}
          DeviceTag     <- FileTag
          DeviceChanges = 1
INVARIANTS InOrder NoSilentLoss DecodedAsSent TagsMatchStreams FdsAccounted NeverAhead
           AnnouncedIsRegistered
PROPERTIES WaitsEnd
CHECK_DEADLOCK FALSE
