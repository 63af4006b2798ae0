SPECIFICATION Spec
CONSTANTS
  Fits <- MCFits
  Speeds <- MCSpeeds
  Ceiling = 2
  Garbage <- MCGarbage
  DEVICE_TIMEOUT = 1
  GPSTIMEOUT = 2
  MaxAge = 4
INVARIANTS TypeOK FreshReadings
PROPERTIES HeadingOptionKept SpreadOfInterval
