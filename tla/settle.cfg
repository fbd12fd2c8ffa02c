SPECIFICATION FairSpec
CONSTANTS
  Chapter = {1, 2}
  Body = {b1}
  NoBody = NoBody
  Platform = {fanqie}
  Format = {txt}
  KeepBibles = 2
  Configs <- NoConfigs
  DefaultPlan <- NoStages
  AttemptCap = 8
  AutoResume = TRUE
  w1 = w1  w2 = w2  p1 = p1  p2 = p2
  Worker = {w1, w2}
  Process = {p1}
  Home <- SharedHome
  MaxAttempts = 2
  AutoExport = FALSE
  Txt = txt
  LeaseMayLapse = TRUE
  MaxFaults = 1
  Request = {r1}
  Ops = {"generate", "cancel", "pause", "continue"}
  CancelOf = {"PENDING", "RUNNING"}
  MaxRequests = 2
  MaxOutages = 0
PROPERTIES JobsSettle
