CONSTANTS
  Period <- Periods
  What = {"tatort", "sport", "news", "auto"}
  Apids = {"none"}
  AddRequests <- SurviveRequests
  ModifyRequests <- None
  Extras <- None
  InitialFiles <- SurviveFiles
  AutoWhat = "auto"
  NoApids = "none"
  Quiet = 3
  AutoAnnounce = 1
  AutoAlarm = 2
  Lead = 1
  SaveMayFail = FALSE
  MaxTime = 3
  MaxCmds = 2
  MaxBoots = 1
SPECIFICATION Spec
PROPERTY TimersSurviveShutdown
CHECK_DEADLOCK FALSE
