\* one sink and one device
SPECIFICATION Spec
CONSTANTS Sinks       = {"a"}
          Tags        = {"x"}
          MayFail     = {"network", "enumerator"}
          DeviceFails = TRUE
          MaxInits    = 2
          MaxCalls    = 4
INVARIANT CoordinatorOutlivesMixer
CHECK_DEADLOCK FALSE
