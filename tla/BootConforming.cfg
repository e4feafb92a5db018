SPECIFICATION Spec
CONSTANTS
  InitLen = 2
  MaxLen = 6
  MaxEvents = 1
  Slack = 4
  ConformingExit = TRUE
PROPERTY ExitReachesKernel
\* The stub stops in the kernel or back in the firmware.
CHECK_DEADLOCK FALSE
