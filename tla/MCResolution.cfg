SPECIFICATION MCSpec
CONSTANTS
  None = None
  latest = latest
  beta = beta
  Version <- MCVersion
  Stable <- MCStable
  Tag = {latest, beta}
  Paths <- MCPaths
  Scopes = {"@s"}
  Unnameable = {".", "..", "_all"}
  Backslash <- MCBackslash
  Named <- MCNamed
  Responses <- MCResponses
  MaxBytes = 2
  MaxVersions = 2
  MaxWrites = 2
  Dir = {1, 2, 3}
  DirName <- MCDirName
  Contents <- MCContents
  Root = "root"
  Layouts <- MCLayouts
  Manifests <- MCManifests
  Lockfiles <- MCLockfiles
  Replacements <- MCReplacements
  PackageName = {"a", "b"}
  PackageVersion = {1, 2}
  Hooks = {"no_hooks", "hook"}
  NoHooks = "no_hooks"
  Unset = Unset
  Absent = Absent
  Unreadable = Unreadable
  Gone = Gone
  MaxDepth = 2
  MaxSeedEntries = 2
  MaxInstalls = 1
INVARIANTS NeverRedirected NotFoundIsTrue WithheldTagsExplained WritesAccounted PinsTheRelease NothingSilent
PROPERTY NothingWithheldServed
