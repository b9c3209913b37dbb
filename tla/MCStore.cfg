SPECIFICATION MCSpec
CONSTANTS
  None = None
  sha = sha
  lib = lib
  v1 = v1
  NoHooks = NoHooks
  Hash = {sha}
  HookMap <- MCHookMap
  BypassPackages = {}
  MinAge = 1
  Floor = 2
  Package = {lib}
  Version = {v1}
  SeenRetention = 1
  AuditRetention = 2
  ServedIdentities <- MCServed
  RecordedRules <- MCRules
  GivenReasons <- MCReasons
  MaxDay = 3
  MaxLag = 1
  MaxTxn = 3
  MaxWanted = 1
  ScanFactor = 2
  Nothing = Nothing
  t1 = t1
  t2 = t2
  plain = plain
  scoped = scoped
  other = other
  small = small
  large = large
  over = over
  Task = {t1, t2}
  CacheKey = {plain, scoped, other}
  Document = {small, large, over}
  Size <- MCSize
  Ttl = 2
  MaxEntries = 2
  MaxBytes = 4
  MaxTime = 2
SYMMETRY Symmetric
INVARIANTS VerdictsAlternate ForeignOnce LatestRowIsCurrent ReportIsCurrent BudgetHeld
PROPERTIES EvidenceFrozen EvictionNeeded LossySpec
