SPECIFICATION LaunchFairSpec
CONSTANTS
  applet = applet
  modM = modM
  e1 = e1
  e2 = e2
  e3 = e3
  Null = Null
  Titles = {applet, modM}
  AppTitles = {}
  Deps <- OneDep
  Pool <- ThreePool
  Asks = {"LaunchTitle"}
  Fails = {"load"}
  MayExit = {}
  Calm = {}
PROPERTIES
  FailedLaunchIsRemoved
CHECK_DEADLOCK FALSE
