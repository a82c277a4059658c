SPECIFICATION MCSpec
CONSTANTS
  SessionAddresses = {1, 2, 3, 4}
  Names = {"a", "b"}
  MaxSession = 4
  Words = {1, 2, 3}
  MAX_BREAKPOINT = 3
  Parts = {"boot"}
  appA = appA
  applet = applet
  modM = modM
  modN = modN
  e1 = e1
  e2 = e2
  e3 = e3
  e4 = e4
  None = None
  Null = Null
  Titles = {appA, applet, modM, modN}
  AppTitles = {appA}
  Deps <- SomeDeps
  Pool <- FourPool
  Asks = {"LaunchTitle", "LaunchAppDebug", "RunQueuedProcess", "DebugNextApplication"}
  Fails = {"run"}
  MayExit = {appA, applet}
  Calm = {appA, applet, modM, modN}
  Apps = {1, 2}
  MaxParameters = 4
  SingleOptions = {0, 7}
  MultiOptions = {3}
  EmuNands = {0}
  MaxVersion = 2
  Absent = Absent
  MAX_DEBUG = 1
  Processes = {"p"}
  App = "next"
  Packets = {"extended", "attach", "continue", "detach", "kill"}
  MenuDoes = {"select", "disable"}
  Launchers = {"main", "task"}
  Applications = {"app", "hb"}
  Modules = {"m1", "m2"}
  Homebrew = {"hb"}
  Files = {"m1", "m2"}
  Handles = {"h1"}
  MaxProcesses = 2
INVARIANTS
  TwlFilterIsOff
CHECK_DEADLOCK FALSE
