SPECIFICATION FairSpec
CONSTANTS
  Duration = 3
  Limits <- MCLimits
  Unlimited = Unlimited
  StartTime = 2
  TimerLimit = 4
  Absent = Absent
  MaxRestarts = 3
  MaxLosses = 2
INVARIANTS OverrunsOnlyAfterRestart
PROPERTIES RunsApart RunsItsCourse
