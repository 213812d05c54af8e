CONSTANTS
  Pictures = 1
  Retries = 1
  QueueLimit = 1
  MaxPrewarms = 0
  MaxStops = 0
SPECIFICATION FairCameraSpec
PROPERTY CameraComesBack
CHECK_DEADLOCK FALSE
