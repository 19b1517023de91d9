CONSTANTS
  LimitCap = 36
  Scenes = {"bird", "snake", "bridge", "pit", "alcove", "dragon", "meeting", "axeman",
            "saved", "hunted", "closing", "asleep", "dimming", "boulders"}
SPECIFICATION MCSpec
INVARIANTS HoldingCounts GoTogether TrollHoldsBridge FatalHasKnownCause
PROPERTIES DyingNeverPays RestoreIsExact ClosingRunsDown
CHECK_DEADLOCK FALSE
