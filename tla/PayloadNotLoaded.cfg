SPECIFICATION Spec
CONSTANTS
  InitLen = 2
  MaxLen = 4
  MaxEvents = 2
  Slack = 2
  ConformingExit = FALSE
INVARIANT PayloadTableNamesKernel
\* The stub stops in the kernel or back in the firmware.
CHECK_DEADLOCK FALSE
