SPECIFICATION Spec
CONSTANTS
  main = main
  sub = sub
  s1 = s1
  s2 = s2
  f1 = f1
  d1 = d1
  big = big
  x = x
  Main = main
  NoManifest = NoManifest
  Factory = Factory
  Broken = Broken
  Blank = Blank
  Torn = Torn
  ManComp <- MCManComp
  ManVer <- MCManVer
  ManBlocks <- MCManBlocks
  ManAuthentic <- MCManAuthentic
  ManDelta <- MCManDelta
  ManBase <- MCManBase
  FactoryVer <- MCFactoryVer
  Reprinted <- MCReprinted
  Components = {main, sub}
  Manifests = {s1, s2, d1, x}
  NeedReboot = {main}
  PostInstallCb = {sub}
  Encryption = FALSE
  ResumeSupport = "restart"
  Slots = 3
  HeaderSlack = 0
  Faults = {"crash", "defer", "nvm", "storage", "installer", "app", "notify", "fragment", "network", "update", "verify", "version"}
  MaxFaults = 2
INVARIANT HeaderMatchesUpdate
INVARIANT ReadyNamesHeader
INVARIANT VersionRecorded
PROPERTY NoRollback
PROPERTY RemovalSettled
PROPERTY TruthfulSuccess
