CONSTANTS
  Period <- Periods
  What = {"tatort", "sport", "news", "auto"}
  Apids = {"none"}
  AddRequests <- BootRequests
  ModifyRequests <- None
  Extras <- MarginsNone
  InitialFiles <- BootFiles
  AutoWhat = "auto"
  NoApids = "none"
  Quiet = 3
  AutoAnnounce = 1
  AutoAlarm = 2
  Lead = 1
  SaveMayFail = TRUE
  MaxTime = 5
  MaxCmds = 1
  MaxBoots = 2
SPECIFICATION Spec
INVARIANTS WakeupProgrammed
PROPERTIES NoShutdownDuringRecording SavesKeepTimers
CHECK_DEADLOCK FALSE
