\* The layout of the firmware: 16 credentials, a package of 4672 bytes in a sector of 4096.
SPECIFICATION FairSpec
CONSTANTS
  n1 = n1
  n2 = n2
  p1 = p1
  a1 = a1
  b1 = b1
  b2 = b2
  b3 = b3
  None = None
  Names = {n1, n2}
  Trunc <- ShortNames
  Payloads = {p1}
  AccessCodes = {}
  KeyBits = {b1, b2}
  RandomKeys <- OneBitKey
  MAX_CREDENTIALS = 16
  FLASH_SECTOR_SIZE = 4096
  MaxCounter = 0
  ForeignBackups <- NoForeignBackup
INVARIANT
  SlotsReadable
PROPERTIES
  KeyChangesOnlyBySpill
  KeepsServing
  ImplementsVault
