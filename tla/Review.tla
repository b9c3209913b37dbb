------------------------------- MODULE Review -------------------------------
(***************************************************************************)
(* One published version under review: the verdict the policy engine gives  *)
(* it as days pass, rules are recorded for it, and upstream replaces it.     *)
(* The verdict is a function of the state, so the properties are about the  *)
(* order of the gates and about how an approval ages.                       *)
(***************************************************************************)
EXTENDS Policy

CONSTANTS
  Packages,
  Metas,      \* the metadata upstream may publish for the version
  LastDay      \* bound on the clock

ASSUME ReviewAssumption ==
  /\ None \notin [verdict : {"allow", "deny"},
                  integrity : Hash \cup {None}, scripts : HookMap \cup {None}]
  /\ Metas \subseteq Meta
  /\ LastDay \in Nat

VARIABLES
  pkg,      \* the package, never changes
  meta,     \* what upstream serves for the version now
  baseline, \* the identity the ledger recorded when it first saw the version
  rule,     \* the rule on record, or None
  now       \* the day

reviewVars == <<pkg, meta, baseline, rule, now>>

Changed == VersionIdentity(meta) # baseline

Verdict == Decide(pkg, meta, Changed, rule, now)

Admitted == Verdict = "allow"

ReviewInit ==
  /\ pkg \in Packages
  /\ meta \in Metas
  /\ baseline = VersionIdentity(meta)
  /\ rule = None
  /\ now = 0

Day ==
  /\ now < LastDay
  /\ now' = now + 1
  /\ UNCHANGED <<pkg, meta, baseline, rule>>

(* Upstream serves something else under the same version: the first         *)
(* observation stays on the ledger.                                         *)
Replace(m) ==
  /\ meta' = m
  /\ UNCHANGED <<pkg, baseline, rule, now>>

\* mutant: the approval leaves the commands out of its pins
ApproveUnpinned ==
  /\ meta.integrity # None
  /\ rule' = [AllowRule(meta) EXCEPT !.scripts = NoHooks]
  /\ UNCHANGED <<pkg, meta, baseline, now>>

\* mutant: the effect is worked out from the approval alone
EffectOfRule == "admitted"

(* What `allow` tells the operator the approval does right now: it looks at *)
(* the declared hooks and the publish time, not at the flag, the bypassed   *)
(* scopes or the ledger.                                                    *)
Effect ==
  IF /\ meta.hooks # NoHooks
     /\ Floor > 0
     /\ meta.published # None
     /\ meta.published + Floor > now
  THEN "not_yet" ELSE "admitted"

(* ControlService::allow: refused without a dist.integrity.                 *)
Approve ==
  /\ meta.integrity # None
  /\ rule' = AllowRule(meta)
  /\ UNCHANGED <<pkg, meta, baseline, now>>

Deny ==
  /\ rule' = DenyRule
  /\ UNCHANGED <<pkg, meta, baseline, now>>

ReviewNext ==
  \/ Day
  \/ \E m \in Metas : Replace(m)
  \/ Approve
  \/ Deny

ReviewSpec == ReviewInit /\ [][ReviewNext]_reviewVars

FairReview == ReviewSpec /\ WF_reviewVars(Day)

-----------------------------------------------------------------------------

ReviewTypeOK ==
  /\ pkg \in Packages
  /\ meta \in Meta
  /\ baseline \in Identity
  /\ rule \in Rule \cup {None}
  /\ now \in 0..LastDay

(* What it takes to be served, with no order among the conditions: nothing  *)
(* replaced, nothing denied, no live quarantine, and either an approval for *)
(* exactly this artefact or every automatic gate clear.                     *)
Admissible ==
  /\ VersionIdentity(meta) = baseline
  /\ rule # None => rule.verdict = "allow"
  /\ (RunsInstallScript(meta) /\ pkg \notin BypassPackages /\ Floor > 0)
       => OlderThan(meta, Floor, now)
  /\ \/ /\ rule # None
        /\ rule.integrity = meta.integrity
        /\ rule.scripts \in {None, meta.hooks}
     \/ /\ rule = None
        /\ \/ pkg \in BypassPackages
           \/ /\ baseline # None
              /\ MinAge = 0 \/ OlderThan(meta, MinAge, now)
              /\ ~RunsInstallScript(meta)

(* The gates of evaluate_version, taken in the code's order, admit exactly  *)
(* the admissible versions: no early return hides a later refusal.          *)
GateOrderSound == Admitted <=> Admissible

(* The passing of time alone never withdraws a version that was admitted    *)
(* (evaluate_version, both age gates compare with an age that only grows).  *)
TimeOnlyAdmits == [][(Admitted /\ now' > now) => Admitted']_reviewVars

(* The block reasons that tell the operator to review and approve are       *)
(* honest: an approval recorded now admits the version, unless the floor    *)
(* stands, in which case the verdict says so both before and after.         *)
Remediable == {"too_new", "install_script", "scripts_changed"}

ApprovalTakesEffect ==
  [][Approve =>
       /\ Verdict \in Remediable => Admitted'
       /\ Verdict = "install_script_quarantine" => Verdict' = Verdict
       /\ Changed => ~Admitted']_reviewVars

(* An approval granted inside the quarantine window takes effect when the   *)
(* window clears: once operators and upstream leave the version alone, one  *)
(* approved as it stands and never replaced is admitted for good, with      *)
(* nothing further from anyone (policy/mod.rs,                              *)
(* install_script_quarantine_days).                                         *)
Approved ==
  /\ rule = AllowRule(meta)
  /\ ~Changed
  /\ meta.published # None /\ meta.published + Floor <= LastDay

QuarantineClears ==
  (<>[][UNCHANGED <<meta, rule>>]_reviewVars /\ []<>Approved) => <>[]Admitted

(* For a version that declares its hooks and its publish time, outside the  *)
(* bypassed scopes and unreplaced, the operator is told exactly whether the *)
(* approval admits the version now (ControlService::allow).                 *)
EffectExact ==
  [][(/\ Approve
       /\ pkg \notin BypassPackages
       /\ ~Changed
       /\ meta.published # None
       /\ (meta.flag => meta.hooks # NoHooks))
      => (Admitted' <=> Effect = "admitted")]_reviewVars

=============================================================================
