\* The priorities the comments of stm32h7xx_it.c give: OTG_FS 5, DMA1_Stream0 6.
SPECIFICATION Spec
CONSTANTS
  Byte = {0, 1}
  Length = 4
  Trans = 2
  Chunks = {1, 2, 5}
  Modes = {"isr"}
  UsbPrio = 5
  DmaPrio = 6
PROPERTIES ReadableUntouched ImplementsFifo
CHECK_DEADLOCK TRUE
