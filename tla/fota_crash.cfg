SPECIFICATION Spec
CONSTANTS
  main = main
  sub = sub
  s1 = s1
  s2 = s2
  f1 = f1
  d1 = d1
  big = big
  x = x
  Main = main
  NoManifest = NoManifest
  Factory = Factory
  Broken = Broken
  Blank = Blank
  Torn = Torn
  ManComp <- MCManComp
  ManVer <- MCManVer
  ManBlocks <- MCManBlocks
  ManAuthentic <- MCManAuthentic
  ManDelta <- MCManDelta
  ManBase <- MCManBase
  FactoryVer <- MCFactoryVer
  Reprinted <- MCReprinted
  Components = {main, sub}
  Manifests = {s1, f1, big}
  NeedReboot = {main}
  PostInstallCb = {sub}
  Encryption = TRUE
  ResumeSupport = "resume"
  Slots = 3
  HeaderSlack = 0
  Faults = {"crash", "defer", "update"}
  MaxFaults = 3
INVARIANT TypeOK
INVARIANT InstalledIsAuthentic
INVARIANT DownloadConsistent
INVARIANT WithinStorage
INVARIANT IInv
