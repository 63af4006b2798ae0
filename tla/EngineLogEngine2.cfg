SPECIFICATION Spec
CONSTANTS
  Engines <- MCEngines
  OptionEngines <- MCNone
  DEVICE_TIMEOUT = 1
  MaxAge = 2
INVARIANT Engine2Account
