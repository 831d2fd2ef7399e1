\* The layout of the firmware, against the promise of a permanent master key.
SPECIFICATION Spec
CONSTANTS
  n1 = n1
  n2 = n2
  p1 = p1
  a1 = a1
  b1 = b1
  b2 = b2
  b3 = b3
  None = None
  Names = {n1}
  Trunc <- ShortNames
  Payloads = {p1}
  AccessCodes = {}
  KeyBits = {b1, b2, b3}
  RandomKeys <- OneRandomKey
  MAX_CREDENTIALS = 16
  FLASH_SECTOR_SIZE = 4096
  MaxCounter = 0
  ForeignBackups <- NoForeignBackup
PROPERTY
  MasterKeyPermanent
