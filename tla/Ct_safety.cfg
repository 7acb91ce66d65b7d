SPECIFICATION CtSpec
CONSTANTS
  RIO_LAST_DEV8 = 2
  RIO_LAST_DEV16 = 5
  NUMBER_OF_CTS = 3
  MaxRef = 2
  Share = FALSE
INVARIANTS UniqueDid RefCount TagHasDid NoOrphanDid
