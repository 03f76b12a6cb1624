SPECIFICATION Spec
CONSTANTS
  main = main
  sub = sub
  s1 = s1
  s2 = s2
  f1 = f1
  d1 = d1
  big = big
  x = x
  Main = main
  NoManifest = NoManifest
  Factory = Factory
  Broken = Broken
  Blank = Blank
  Torn = Torn
  ManComp <- MCManComp
  ManVer <- MCManVer
  ManBlocks <- MCManBlocks
  ManAuthentic <- MCManAuthentic
  ManDelta <- MCManDelta
  ManBase <- MCManBase
  FactoryVer <- MCFactoryVer
  Reprinted <- MCReprinted
  Components = {main, sub}
  Manifests = {s1, f1}
  NeedReboot = {main, sub}
  PostInstallCb = {sub}
  Encryption = TRUE
  ResumeSupport = "resume"
  Slots = 3
  HeaderSlack = 0
  Faults = {"defer", "nvm", "storage", "installer", "app", "notify", "fragment", "network", "update", "reregister"}
  MaxFaults = 3
INVARIANT CallbackHasContext
INVARIANT RequestIsNext
INVARIANT QuestionFitsState
INVARIANT ReportSlotFree
INVARIANT OneUpdate
\* A full registration may swallow the notification the engine waits for.
CHECK_DEADLOCK FALSE
