SPECIFICATION Spec
CONSTANTS
  Chapter = {1}
  Body = {b1, b2}
  NoBody = NoBody
  Platform = {fanqie}
  Format = {txt}
  KeepBibles = 2
  Configs <- Plans3
  DefaultPlan <- NoStages
  AttemptCap = 3
  AutoResume = TRUE
  w1 = w1  w2 = w2  p1 = p1  p2 = p2
  Worker = {w1, w2}
  Process = {p1, p2}
  Home <- TwoHomes
  MaxAttempts = 2
  AutoExport = TRUE
  Txt = txt
  LeaseMayLapse = TRUE
  MaxFaults = 1
  Request = {r1}
  Ops = {"generate"}
  CancelOf = {"PENDING"}
  MaxRequests = 1
  MaxOutages = 0
INVARIANTS SucceededWasDrafted
SYMMETRY BodySymmetry
