SPECIFICATION MCSpec
CONSTANTS
  c1 = c1
  c2 = c2
  t1 = t1
  t2 = t2
  appA = appA
  appB = appB
  modM = modM
  e1 = e1
  e2 = e2
  e3 = e3
  NoOp = NoOp
  NoJob = NoJob
  Null = Null
  Callers = {c1, c2}
  Tasks = {t1, t2}
  Terminators = {c2}
  Titles = {appA, appB, modM}
  AppTitles = {appA, appB}
  Deps <- DepsOfA
  Pool <- ThreePool
  Asks = {"LaunchTitle", "LaunchTitleUpdate", "LaunchTitleDebug"}
  Fails = {"register", "load", "run"}
  MayExit = {appA, appB}
  Calm = {appA, modM}
INVARIANTS
  OneApplication
PROPERTIES
  ImplementsHandoff
  RequestedTaskIsRun
  EndedIsRemoved
  CheatEnds
CHECK_DEADLOCK FALSE
