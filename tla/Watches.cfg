SPECIFICATION Spec
CONSTANTS
  DayLength = 5
  HourLength = 3
  Misread = 1
  LoadLimit = 6
  FirstTime = 2
  Lengths <- MCLengths
  Crews <- MCCrews
  Stars <- MCStars
  Starts <- MCStarts
  Trips <- MCTrips
  FirstTrip = 2
  Bases <- MCBases
  MaxClock = 6
  MaxWatches = 3
  MaxEdits = 3
INVARIANTS TypeOK DaysAreFilled ChangeAtMostAMinuteLate GuardLoggedOnce
PROPERTIES ChangesApplyToTheDay StarsKeepTheirTime CrewsTakeTurns
