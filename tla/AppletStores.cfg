\* Two HSM slots and two credentials; three keys, so that the storage fills up.
SPECIFICATION Spec
CONSTANTS
  None = None
  HSM_MAX_SLOTS = 2
  FIDO2_MAX_CREDENTIALS = 2
  HsmStarted = TRUE
  MaxKeys = 3
INVARIANTS
  StoresTypeOK
  SectorsWritten
  WriterAgrees
PROPERTY
  CredentialAnswered
