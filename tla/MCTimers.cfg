SPECIFICATION FairSpec
CONSTANTS
  Duration <- MCShort
  Period <- MCPeriod
  PollWait <- MCPollWait
  Ms = 2
  MaxTimer = 2
  MaxTime = 4
INVARIANTS
  SleepsNoLongerThanFirst
  Schedule
  DueInOrder
PROPERTY DueFiresUnlessOversleeping
