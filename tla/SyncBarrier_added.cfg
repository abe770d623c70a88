\* the sinks are added as the engine adds them
SPECIFICATION FairSpec
CONSTANTS Sink      = {s1, s2}
          ByManager = {s1, s2}
PROPERTY CallsReturn
CHECK_DEADLOCK FALSE
