SPECIFICATION Spec
CONSTANTS
  None = None
  sha1 = sha1
  sha2 = sha2
  cmds = cmds
  lib = lib
  v1 = v1
  v2 = v2
  r1 = r1
  r2 = r2
  r3 = r3
  o1 = o1
  anon = anon
  NoHooks = NoHooks
  Hash = {sha1, sha2}
  HookMap = {NoHooks, cmds}
  BypassPackages = {}
  MinAge = 0
  Floor = 0
  Package = {lib}
  Version = {v1}
  SeenRetention = 0
  AuditRetention = 0
  MaxDay = 1
  Request = {r1, r2}
  Operator = {o1}
  Credential = {anon}
  Anonymous = anon
  Histories <- Replaced
  MaxConcurrent = 2
  Hazards = {"fault", "crash", "disconnect"}
  MaxCommands = 1
  MaxTxn = 1
SYMMETRY Symmetric
INVARIANTS AllowedIsJustified
PROPERTIES ServedIsOnLedger ImplementsStore
