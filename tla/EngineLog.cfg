SPECIFICATION FairSpec
CONSTANTS
  Engines <- MCEngine1AndGenerator
  OptionEngines <- MCGenerator
  DEVICE_TIMEOUT = 1
  MaxAge = 2
INVARIANTS TypeOK RunningAccount NoHoursTwice
PROPERTIES StopBooksAll RpmSilenceStops
