SPECIFICATION MCSpec
CONSTANTS
  None = None
  sha1 = sha1
  sha2 = sha2
  cmds = cmds
  cmds2 = cmds2
  lib = lib
  own = own
  v1 = v1
  v2 = v2
  r1 = r1
  r2 = r2
  r3 = r3
  o1 = o1
  anon = anon
  NoHooks = NoHooks
  Hash = {sha1, sha2}
  HookMap = {NoHooks, cmds, cmds2}
  BypassPackages = {own}
  MinAge = 1
  Floor = 2
  Package = {lib}
  Version = {v1}
  SeenRetention = 1
  AuditRetention = 0
  MaxDay = 0
  Packages = {lib, own}
  Metas <- MCMetas
  LastDay = 3
  Request = {r1, r2, r3}
  Operator = {o1}
  Credential = {anon}
  Anonymous = anon
  Histories <- Rejected
  MaxConcurrent = 1
  Hazards = {"fault", "audit_fault"}
  MaxCommands = 0
  MaxTxn = 3
INVARIANTS OwnFailuresOnly DocumentsBounded GateOrderSound
PROPERTIES EveryRequestEnds TimeOnlyAdmits ApprovalTakesEffect EffectExact QuarantineClears
