CONSTANTS
  Period <- Periods
  What = {"tatort", "sport", "news", "auto"}
  Apids = {"none"}
  AddRequests <- WeekdaysRequests
  ModifyRequests <- None
  Extras <- MarginsNone
  InitialFiles <- NoTimers
  AutoWhat = "auto"
  NoApids = "none"
  Quiet = 3
  AutoAnnounce = 1
  AutoAlarm = 2
  Lead = 1
  SaveMayFail = FALSE
  MaxTime = 3
  MaxCmds = 1
  MaxBoots = 1
SPECIFICATION FairSpec
PROPERTY WeekdaysComeAgain
CHECK_DEADLOCK FALSE
