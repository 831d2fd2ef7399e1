\* Two credential slots: the package fits its sector. A foreign credential may take one of them.
SPECIFICATION Spec
CONSTANTS
  n1 = n1
  n2 = n2
  p1 = p1
  a1 = a1
  b1 = b1
  b2 = b2
  b3 = b3
  None = None
  Names = {n1, n2}
  Trunc <- ShortNames
  Payloads = {p1}
  AccessCodes = {a1}
  KeyBits = {b1, b2, b3}
  RandomKeys <- TwoRandomKeys
  MAX_CREDENTIALS = 2
  FLASH_SECTOR_SIZE = 4096
  MaxCounter = 1
  ForeignBackups <- OneForeignBackup
INVARIANTS
  TypeOK
  IdleIsDurable
  SlotsReadable
  NamesUnique
PROPERTIES
  MasterKeyPermanent
  ImplementsVault
