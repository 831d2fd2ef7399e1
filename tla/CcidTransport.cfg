\* Commands of one packet; two sequence numbers, so that a late answer of the
\* command before the last has the number of the open one.
SPECIFICATION Spec
CONSTANTS
  None = None
  SeqMod = 2
  MaxRequests = 4
  LongMessages = FALSE
INVARIANTS
  CcidTypeOK
  AnswerBelongs
  RunsOnce
PROPERTY
  AnsweredWhenFree
CHECK_DEADLOCK FALSE
