SPECIFICATION FairSpec
CONSTANTS
  Mails = {m1, m2}
  MaxAttempts = 2
  MaxStalls = 1
  Concurrency = 1
  MaxTroubles <- EachTrouble
CHECK_DEADLOCK FALSE
INVARIANTS
  TypeOK
  FailedIsGivenUp
  DuplicatesExplained
  FinishedIsLogged
PROPERTIES
  EveryJobEnds
  EveryMailSettles
