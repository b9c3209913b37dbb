SPECIFICATION Spec
CONSTANTS
  None = None
  sha1 = sha1
  sha2 = sha2
  cmds = cmds
  lib = lib
  v1 = v1
  v2 = v2
  r1 = r1
  r2 = r2
  r3 = r3
  o1 = o1
  anon = anon
  NoHooks = NoHooks
  Hash = {sha1, sha2}
  HookMap = {NoHooks, cmds}
  BypassPackages = {}
  MinAge = 1
  Floor = 1
  Package = {lib}
  Version = {v1, v2}
  SeenRetention = 1
  AuditRetention = 0
  MaxDay = 2
  Request = {r1, r2}
  Operator = {o1}
  Credential = {anon}
  Anonymous = anon
  Histories <- Various
  MaxConcurrent = 2
  Hazards = {}
  MaxCommands = 1
  MaxTxn = 10
SYMMETRY Symmetric
INVARIANTS NoticedIsOnRecord VerdictsJustified
