SPECIFICATION FairSpec
CONSTANTS
  Chapter = {1}
  Body = {b1}
  NoBody = NoBody
  Platform = {fanqie}
  Format = {txt}
  KeepBibles = 2
  Configs <- NoConfigs
  DefaultPlan <- OneStage
  AttemptCap = 3
  AutoResume = TRUE
  w1 = w1  w2 = w2  p1 = p1  p2 = p2
  Worker = {w1}
  Process = {p1}
  Home <- OneHome
  MaxAttempts = 2
  AutoExport = FALSE
  Txt = txt
  LeaseMayLapse = FALSE
  MaxFaults = 0
  Request = {r1}
  Ops = {"generate"}
  CancelOf = {"PENDING"}
  MaxRequests = 2
  MaxOutages = 0
PROPERTIES JobsSettle
CHECK_DEADLOCK FALSE
