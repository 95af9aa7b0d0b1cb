SPECIFICATION QueuesSpec
CONSTANTS
  PhysicalDevices <- MCDevices
  MaxDevices = 1
INVARIANT TransferOnlyFamilyIsUsed
CHECK_DEADLOCK FALSE
