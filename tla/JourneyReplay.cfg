SPECIFICATION ReplaySpec
CONSTANTS
  Journeys <- Defined
  MaxEvents = 6
INVARIANTS
  ReplayTypeOK
  ReplayMatchesLive
  CompletedInFull
PROPERTY OnlyForward
CHECK_DEADLOCK FALSE
