SPECIFICATION FairSpec
CONSTANTS
  e1 = e1
  e2 = e2
  Sweep = Sweep
  None = None
  Events = {e1, e2}
  WithCallback <- JustOne
  MaxAttempts = 3
  MaxSegments = 2
  MaxReplays = 1
  MaxCrashes = 1
CHECK_DEADLOCK FALSE
INVARIANT OneAnswer
INVARIANT InOrder
INVARIANT NotShownAgain
INVARIANT DeliveredIsShown
PROPERTY EventsEnd
