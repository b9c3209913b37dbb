SPECIFICATION Spec
CONSTANTS
  None = None
  sha1 = sha1
  sha2 = sha2
  cmds = cmds
  lib = lib
  v1 = v1
  v2 = v2
  c1 = c1
  c2 = c2
  NoHooks = NoHooks
  Hash = {sha1, sha2}
  HookMap = {NoHooks, cmds}
  BypassPackages = {}
  MinAge = 0
  Floor = 0
  Package = {lib}
  Version = {v1, v2}
  SeenRetention = 1
  AuditRetention = 0
  MaxDay = 0
  Client = {c1}
  Asked <- DryRun
  Published <- MCPublished
  MaxConnections = 1
  MaxEntries = 2
  Hazards = {}
  MaxTxn = 3
INVARIANT DryRunWritesNothing
