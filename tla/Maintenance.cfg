SPECIFICATION FairSpec
CONSTANTS
  Kinds <- MCKinds
  Texts = {"oil", "pump"}
  Readings <- MCReadings
  Limits = {1, 2}
  Priorities = {0, 1}
  Stored <- MCStored
  Capacity = 2
  Quarter = 1
  Hour = 2
  MaxDay = 1
  MaxRows = 2
  MaxEdits = 2
INVARIANTS TypeOK FrameShowsRows EditsAreMarked
PROPERTIES DoneTurnsGreen FrameStaysCurrent FrameCatchesUp PartsFollowServices
