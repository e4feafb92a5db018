SPECIFICATION Spec
CONSTANTS
  InitLen = 2
  MaxLen = 4
  MaxEvents = 2
  Slack = 2
  ConformingExit = FALSE
INVARIANT TypeOK
INVARIANT HandoffMapIsFinal
INVARIANT NoDanglingTable
INVARIANT HandoffMemoryLive
INVARIANT FreesAreLive
PROPERTY NoBootServiceAfterExit
PROPERTY HandoffSpec
\* The stub stops in the kernel or back in the firmware.
CHECK_DEADLOCK FALSE
