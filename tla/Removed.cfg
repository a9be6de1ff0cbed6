CONSTANTS
  Period <- Periods
  What = {"tatort", "sport", "news", "auto"}
  Apids = {"none"}
  AddRequests <- None
  ModifyRequests <- None
  Extras <- MarginsNone
  InitialFiles <- SurviveFiles
  AutoWhat = "auto"
  NoApids = "none"
  Quiet = 3
  AutoAnnounce = 1
  AutoAlarm = 2
  Lead = 1
  SaveMayFail = FALSE
  MaxTime = 2
  MaxCmds = 2
  MaxBoots = 1
SPECIFICATION Spec
INVARIANT RemovedStaysRemoved
CHECK_DEADLOCK FALSE
