\* one sink starts the clock, three more join and leave
SPECIFICATION AllSpec
CONSTANTS Sink      = {s1, s2, s3, s4}
          ByManager = {s1}
          MixerInputs      = {"a"}
          MixerQueued      = 1
          MixerBacklog     = 1
          MixerUnits       = 2
          MixerAmounts     = {1, 2, 3}
          MixerWord        = 64
          MixerChannels    = 2
          MixerRing        = 2
          MixerPackets     = 3
          MixerConnections = 1
          MixerTicks       = 1
          HurryAmounts     = {2}
          HurryForced      = {1}
          HurryPackets     = 1
          WebClients   = {"c"}
          WebListeners = 2
          WebSinks     = 2
          WebChanges   = 2
          SourceFormats       <- PacketFormats
          SourceSizes          = {0, 8}
          SourceMisaligned     = TRUE
          SourceRates          = {20}
          SourceChannels       = 2
          SourceSinkRate       = 48
          SourceChunk          = 6
          SourceOversampling   = 1
          SourceSettings       = {"equalizer"}
          SourceMayFail        = TRUE
          SourcePackets        = 3
          ListenerFormats     <- SinkFormats
          ListenerChunk        = 4
          ListenerOpus         = 3
          ListenerMultichannel = TRUE
          ListenerChunks       = 5
          AlsaDepths      = {32}
          AlsaMixDepth    = 16
          AlsaPeriods     = 3
          AlsaLatency     = 6
          AlsaLimits     <- SixToNine
          AlsaBoost       = 3
          AlsaStep        = 3
          AlsaHysteresis  = 1
          AlsaMaxRate     = 1
          AlsaSizes       = {3}
          AlsaSends       = 2
          RtpFrame        = 2
          RtpSlice        = 2
          RtpSizes        = {3}
          RtpFrames       = 6
          RtpSetups       = 2
          MultiReceivers  = {"r1", "r2"}
          MultiPacket     = 2
          MultiSizes      = {3}
          MultiStart      = 5
          MultiPcmFrames  = 3
          MultiPcmSetups  = 2
          MultiOpusFrames = 6
          MultiOpusSetups = 1
INVARIANTS NobodyStranded MixedInOrder OneListenerPerClient AccumulatorIsCurrent HearsAllMixed
           WidthAgrees SocketsOutliveThreads LossIsSeen InLockstep
PROPERTIES RoundComplete WaitsEnd
CHECK_DEADLOCK FALSE
