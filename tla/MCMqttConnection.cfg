CONSTANTS
  Generation = {g1, g2}
  NoGeneration = g0
  MaxJobs = 2
SPECIFICATION FairMqttSpec
INVARIANTS
  NothingLeftBehind
  LiveSessionIsCurrent
PROPERTY EndsUpSubscribed
CHECK_DEADLOCK FALSE
