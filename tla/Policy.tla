------------------------------- MODULE Policy -------------------------------
(***************************************************************************)
(* The policy engine (src/policy/mod.rs): a pure function from one          *)
(* version's metadata, its rule, the ledger's answer and the time to a      *)
(* verdict, and from a packument to the filtered packument.                 *)
(*                                                                          *)
(* Data.  A version of a packument is a Meta record.  Hashes and hook maps  *)
(* are opaque values; sha256 over the sorted hook map is taken to be        *)
(* injective, so the hook map stands for its own hash.  Times and ages are  *)
(* in days, the unit of both configured floors.  A publish time that is     *)
(* absent and one that does not parse are both None: every gate treats the  *)
(* two alike and differs only in the wording of the block detail.           *)
(***************************************************************************)
EXTENDS Integers

CONSTANTS
  None,           \* Option::None
  Hash,           \* content hashes: dist.integrity and dist.shasum values
  HookMap,        \* maps hook -> command a version can declare
  NoHooks,        \* the empty hook map
  BypassPackages, \* the packages whose scope is in config.bypass_scopes
  MinAge,         \* config.min_age_days, 0 disables the gate
  Floor           \* config.install_script_quarantine_days, 0 disables it

ASSUME PolicyAssumption ==
  /\ NoHooks \in HookMap
  /\ MinAge \in Nat
  /\ Floor \in Nat

Reasons ==
  {"integrity_changed", "deny_rule", "too_new", "install_script",
   "scripts_changed", "no_integrity", "install_script_quarantine"}

Verdicts == Reasons \cup {"allow"}

Critical == {"integrity_changed", "scripts_changed"}

(* One entry of `versions`, with its entry of `time`.                       *)
Meta ==
  [integrity : Hash \cup {None},
   shasum    : Hash \cup {None},
   hooks     : HookMap,
   flag      : BOOLEAN,              \* hasInstallScript
   published : Int \cup {None}]

(* The part of a rule the engine reads.                                     *)
Rule ==
  [verdict   : {"allow", "deny"},
   integrity : Hash \cup {None},
   scripts   : HookMap \cup {None}]

Identity == ({"integrity", "shasum-sha1"} \X Hash) \cup {None}

(* What the ledger pins: dist.integrity, else the prefixed shasum.          *)
VersionIdentity(meta) ==
  IF meta.integrity # None THEN <<"integrity", meta.integrity>>
  ELSE IF meta.shasum # None THEN <<"shasum-sha1", meta.shasum>>
  ELSE None

RunsInstallScript(meta) == meta.hooks # NoHooks \/ meta.flag

\* mutant: a version is old enough a day late
OlderThanStrictly(meta, days, now) ==
  meta.published # None /\ now - meta.published > days

\* mutant: only the day on which the age is reached counts
OlderThanOnce(meta, days, now) ==
  meta.published # None /\ now - meta.published = days

(* A publish time that cannot be read never shows a version to be old.      *)
OlderThan(meta, days, now) ==
  meta.published # None /\ now - meta.published >= days

(* Gate 2: the floor no approval overrides.                                 *)
Quarantined(pkg, meta, now) ==
  /\ Floor > 0
  /\ RunsInstallScript(meta)
  /\ pkg \notin BypassPackages
  /\ ~OlderThan(meta, Floor, now)

(* Gate 3: an allow rule holds while both of its pins match.                *)
ApprovalVerdict(rule, meta) ==
  IF rule.integrity # meta.integrity THEN "integrity_changed"
  ELSE IF rule.scripts # None /\ rule.scripts # meta.hooks THEN "scripts_changed"
  ELSE "allow"

(* The gates a version without a rule goes through.                         *)
AutomaticVerdict(pkg, meta, now) ==
  IF pkg \in BypassPackages THEN "allow"
  ELSE IF VersionIdentity(meta) = None THEN "no_integrity"
  ELSE IF MinAge > 0 /\ ~OlderThan(meta, MinAge, now) THEN "too_new"
  ELSE IF RunsInstallScript(meta) THEN "install_script"
  ELSE "allow"

\* mutant: the approval is consulted before the quarantine floor
ApprovalFirst(pkg, meta, changed, rule, now) ==
  IF changed THEN "integrity_changed"
  ELSE IF rule # None /\ rule.verdict = "deny" THEN "deny_rule"
  ELSE IF rule # None THEN ApprovalVerdict(rule, meta)
  ELSE IF Quarantined(pkg, meta, now) THEN "install_script_quarantine"
  ELSE AutomaticVerdict(pkg, meta, now)

(* evaluate_version: the gates in order.  `changed` is the ledger's answer, *)
(* `rule` the row for this version or None.                                 *)
Decide(pkg, meta, changed, rule, now) ==
  IF changed THEN "integrity_changed"
  ELSE IF rule # None /\ rule.verdict = "deny" THEN "deny_rule"
  ELSE IF Quarantined(pkg, meta, now) THEN "install_script_quarantine"
  ELSE IF rule # None THEN ApprovalVerdict(rule, meta)
  ELSE AutomaticVerdict(pkg, meta, now)

(* The rule `allow` records for a version: pinned to the published          *)
(* integrity and to the hook map it declares.                               *)
AllowRule(meta) ==
  [verdict |-> "allow", integrity |-> meta.integrity, scripts |-> meta.hooks]

DenyRule == [verdict |-> "deny", integrity |-> None, scripts |-> None]
=============================================================================
