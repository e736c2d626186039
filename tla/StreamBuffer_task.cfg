\* A task sends with portMAX_DELAY, the DMA interrupt may fall anywhere.
SPECIFICATION FairSpec
CONSTANTS
  Byte = {0, 1}
  Length = 5
  Trans = 2
  Chunks = {2, 3}
  Modes = {"task"}
  UsbPrio = 15
  DmaPrio = 6
INVARIANTS NoLostWakeup NoMutualWait
PROPERTIES SendReturns ImplementsFifo
CHECK_DEADLOCK TRUE
