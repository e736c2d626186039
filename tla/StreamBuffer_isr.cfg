\* The priorities periph.c and audio_if.c program: OTG_FS 15, DMA1_Stream0 6.
SPECIFICATION Spec
CONSTANTS
  Byte = {0, 1}
  Length = 5
  Trans = 2
  Chunks = {1, 3}
  Modes = {"isr"}
  UsbPrio = 15
  DmaPrio = 6
INVARIANTS TypeOK BlockWhole
PROPERTIES ReadableUntouched ImplementsFifo
CHECK_DEADLOCK TRUE
