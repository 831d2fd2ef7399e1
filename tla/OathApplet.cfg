\* The layout of the firmware; an HOTP credential that wants a touch, a TOTP one and a broken one.
SPECIFICATION AppletFairSpec
CONSTANTS
  n1 = n1
  touched = touched
  timed = timed
  broken = broken
  b1 = b1
  b2 = b2
  None = None
  Names = {n1}
  Trunc <- ShortNames
  Payloads = {touched, timed, broken}
  AccessCodes = {}
  KeyBits = {b1, b2}
  RandomKeys <- OneRandomKey
  MAX_CREDENTIALS = 16
  FLASH_SECTOR_SIZE = 4096
  MaxCounter = 2
  ForeignBackups <- NoForeignBackup
  TestName = n1
  Hotp = {touched}
  Touch = {touched}
  Refused = {broken}
INVARIANTS
  CodesSpent
PROPERTIES
  SpentNotGiven
  CalculateAnswered
