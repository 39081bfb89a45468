SPECIFICATION PreviewSpec
CONSTANTS
  MaxText = 3
  MaxBreaks = 0
  MaxChars = 2
  MaxTimers = 1
  PreviewFaults = {"start", "update"}
  Platforms <- AllPlatforms
  Displays <- AllDisplays
PROPERTIES
  FinalStands
CHECK_DEADLOCK FALSE
