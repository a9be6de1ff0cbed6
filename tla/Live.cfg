CONSTANTS
  Period <- Periods
  What = {"tatort", "sport", "news", "auto"}
  Apids = {"none"}
  AddRequests <- LiveRequests
  ModifyRequests <- LiveModify
  Extras <- MarginsNone
  InitialFiles <- NoTimers
  AutoWhat = "auto"
  NoApids = "none"
  Quiet = 3
  AutoAnnounce = 1
  AutoAlarm = 2
  Lead = 1
  SaveMayFail = FALSE
  MaxTime = 4
  MaxCmds = 2
  MaxBoots = 1
SPECIFICATION FairSpec
PROPERTIES DueIsFired RecordingIsStopped ShutdownEnds
CHECK_DEADLOCK FALSE
