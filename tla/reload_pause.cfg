SPECIFICATION ReloadSpec
CONSTANTS
  MaxControls = 3
  MaxFaults = 2
PROPERTY PauseWaits
CHECK_DEADLOCK FALSE
