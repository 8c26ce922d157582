SPECIFICATION FairSpec
CHECK_DEADLOCK FALSE
CONSTANTS
  None = None
  Owners = {a, b}
  Steady = {b}
  MaxMsgs = 2
  MaxLapses = 0
  MaxStale = 2
  MaxCrashes = 1
INVARIANTS TypeOK AnsweredOnce
PROPERTIES SentLeadsToAnswered TimelyMailbox
