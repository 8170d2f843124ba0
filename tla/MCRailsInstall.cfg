SPECIFICATION InstallFairSpec
CONSTANTS
  Installers = {i1, i2}
  N = 2
  Contents = {a, b}
  None = none
  MaxFaults = 2
  RailsRivals = TRUE

PROPERTY NoOverwrite
CHECK_DEADLOCK FALSE
