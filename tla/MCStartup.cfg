SPECIFICATION MCSpec
CONSTANTS
  p1 = p1
  p2 = p2
  rel1 = rel1
  a1 = a1
  a2 = a2
  Process = {p1, p2}
  Release = {rel1}
  Supported = 4
  Address = {a1, a2}
  None = None
  MaxDeaths = 2
  Inputs <- MCInputs
  Content <- MCContent
  Hooks = {"no_hooks", "h"}
  NoHooks = "no_hooks"
  Manifest <- MCManifest
  Invalid = "invalid"
  Absent = Absent
  Capacity = 2
  MaxCompressed = 4
  MaxUnpacked = 6
  MaxEntries = 3
  MaxManifest = 1
INVARIANTS LedgerUsable SurfaceWhole ScanFaithful ReportWarns PinsAudited
PROPERTIES OnlyNullsDropped ComesUp ScanEnds
CHECK_DEADLOCK FALSE
