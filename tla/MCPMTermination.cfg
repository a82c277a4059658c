SPECIFICATION MCSpec
CONSTANTS
  app = app
  applet = applet
  sysmodule = sysmodule
  NoProc = NoProc
  Procs = {app, applet, sysmodule}
  Application = app
  Deps <- SharedDeps
  Listens = {app, sysmodule}
  Notifies = {app}
  MayExit = {applet}
  Terminators = {"main", "task"}
  MaxMain = 1
  MaxTask = 2
  Early = {app}
INVARIANTS
  RefcountsCount
PROPERTIES
  DependencyKept
  TerminationReturns
