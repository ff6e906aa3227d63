\* Five files of up to three groups, on two threads, under every fault.
SPECIFICATION FairSpec
CONSTANTS
  NFiles = 5
  Listings <- MCListings
  Secrets <- MCSecrets
  Cipher <- MCCipher
  Kek <- MCKek
  Plain <- MCPlain
  Workers = 2
  Retries = 2
  Environment = {"process", "busy", "dks", "nokey", "mknod"}
CHECK_DEADLOCK FALSE
INVARIANTS
  TypeOK
  OwnKey
  NothingLeftOut
  DksCallsBounded
  TotalSurvives
PROPERTY RunEnds
