\* two senders, each of whose packets tells its format
SPECIFICATION FairSpec
CONSTANTS Sources     = {a, b}
          Ssrcs       = {s, t}
          Formats     = {m}
          Mapped      = {m}
          ProbeNeed   = 2
          Announced   = FALSE
          Reused      = FALSE
          MaxSessions = 2
PROPERTY HeldIsReleased
CHECK_DEADLOCK FALSE
