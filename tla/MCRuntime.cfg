\* push_bounded with drop_oldest, two blocking consumers and a thread that polls;
\* two receivers for the run loop
SPECIFICATION AllSpec
CONSTANTS Producer   = {p1, p2}
          Consumer   = {c1, c2}
          Poller     = {t}
          Limit      = 2
          DropOldest = TRUE
          MaxPush    = 4
          Receiver   = {r1, r2}
          RingSlots  = 3
          Pushes     = 7
          QueueMax   = 2
          MaxPackets = 2
          MaxControls = 1
          Sinks      = {sink}
          Tags       = {device}
          MayFail    = {"network", "enumerator"}
          MaxInits   = 2
          MaxCalls   = 4
          Mp3Depth   = 1
          MaxStarts  = 2
          Sources    = {source}
          Duration   = 3
          ChunkDuration = 2
          MaxReady   = 1
          MaxChunks  = 3
          MaxAttach  = 2
INVARIANTS NoSleepOnWork StopHeard ReceiverOrder VersionCoversQueue NothingDangles  StopLeavesNothing DetachedIsGone
PROPERTIES RingIsQueue WaitsEnd
CHECK_DEADLOCK FALSE
