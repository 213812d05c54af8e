CONSTANTS
  MaxBusyRetry = 3
  PresenceShots = 4
  Tolerance = 2
  EmptyRounds = 3
SPECIFICATION FairSellSpec
INVARIANTS
  OutcomeClosesWindow
  TakenMeansTaken
  LeftSausageIsFault
  CarriedOutOnce
PROPERTY EverySaleEnds
CHECK_DEADLOCK FALSE
