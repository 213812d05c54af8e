CONSTANTS
  Pictures = 2
  Retries = 1
  QueueLimit = 1
  MaxPrewarms = 1
  MaxStops = 1
SPECIFICATION FairCameraSpec
INVARIANTS
  WaitingNotForgotten
PROPERTIES
  AnswerComes
  CameraNotLeftOn
CHECK_DEADLOCK FALSE
