\* nothing fails and no stream comes or goes
SPECIFICATION Spec
CONSTANTS Streams    = {}
          Captures   = {}
          States    <- MCStates
          MayFail    = FALSE
          MaxApplies = 2
          MaxEvents  = 0
INVARIANT Reestablished
CHECK_DEADLOCK FALSE
