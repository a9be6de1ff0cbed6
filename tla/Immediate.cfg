CONSTANTS
  Period <- Periods
  What = {"tatort", "sport", "news", "auto"}
  Apids = {"none"}
  AddRequests <- ImmediateRequests
  ModifyRequests <- None
  Extras <- MarginsNone
  InitialFiles <- ImmediateFiles
  AutoWhat = "auto"
  NoApids = "none"
  Quiet = 3
  AutoAnnounce = 1
  AutoAlarm = 2
  Lead = 1
  SaveMayFail = FALSE
  MaxTime = 5
  MaxCmds = 1
  MaxBoots = 2
SPECIFICATION Spec
PROPERTY NoShutdownDuringRecording
CHECK_DEADLOCK FALSE
