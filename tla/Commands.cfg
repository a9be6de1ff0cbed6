CONSTANTS
  Period <- Periods
  What = {"tatort", "sport", "news", "auto"}
  Apids = {"none", "dts"}
  AddRequests <- CommandRequests
  ModifyRequests <- CommandModify
  Extras <- Margins
  InitialFiles <- CommandFiles
  AutoWhat = "auto"
  NoApids = "none"
  Quiet = 3
  AutoAnnounce = 1
  AutoAlarm = 2
  Lead = 1
  SaveMayFail = FALSE
  MaxTime = 3
  MaxCmds = 3
  MaxBoots = 1
SPECIFICATION Spec
INVARIANTS TypeOK CleanMeansSaved RecordingHasOwner PassComplete
CHECK_DEADLOCK FALSE
