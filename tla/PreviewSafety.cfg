SPECIFICATION PreviewSpec
CONSTANTS
  MaxText = 5
  MaxBreaks = 3
  MaxChars = 2
  MaxTimers = 3
  PreviewFaults = {"start", "update"}
  Platforms <- AllPlatforms
  Displays <- AllDisplays
PROPERTIES
  Delivered
  NoGhost
  SegmentsStand
  NoAfterword
CHECK_DEADLOCK FALSE
