---------------------------- MODULE ReviewProofs ----------------------------
(***************************************************************************)
(* Proofs about one version under review: for every floor, every age limit   *)
(* and whatever upstream publishes, the gates admit what they should, time   *)
(* only admits, and an approval does what the operator is told.              *)
(***************************************************************************)
EXTENDS Review, TLAPS

LEMMA IdentityType ==
  ASSUME NEW m \in Meta
  PROVE  VersionIdentity(m) \in Identity
BY DEF VersionIdentity, Meta, Identity

LEMMA AllowRuleType ==
  ASSUME NEW m \in Meta
  PROVE  AllowRule(m) \in Rule
BY DEF AllowRule, Meta, Rule

(* Every state of a review is well typed.                                   *)
THEOREM TypeCorrect == ReviewSpec => []ReviewTypeOK
<1> USE ReviewAssumption, PolicyAssumption DEF ReviewTypeOK
<1>1. ReviewInit => ReviewTypeOK
  BY IdentityType DEF ReviewInit
<1>2. ReviewTypeOK /\ [ReviewNext]_reviewVars => ReviewTypeOK'
  <2> SUFFICES ASSUME ReviewTypeOK, [ReviewNext]_reviewVars
               PROVE  ReviewTypeOK'
    OBVIOUS
  <2>1. CASE Day
    BY <2>1 DEF Day
  <2>2. ASSUME NEW m \in Metas, Replace(m)
        PROVE  ReviewTypeOK'
    BY <2>2 DEF Replace
  <2>3. CASE Approve
    BY <2>3, AllowRuleType DEF Approve
  <2>4. CASE Deny
    BY <2>4 DEF Deny, DenyRule, Rule
  <2>5. CASE UNCHANGED reviewVars
    BY <2>5 DEF reviewVars
  <2> QED
    BY <2>1, <2>2, <2>3, <2>4, <2>5 DEF ReviewNext
<1> QED
  BY <1>1, <1>2, PTL DEF ReviewSpec

-----------------------------------------------------------------------------

(* None is no rule: an approval and a denial are rules.                     *)
LEMMA RuleIsNotNone ==
  ASSUME NEW r \in Rule
  PROVE  r # None /\ r.verdict \in {"allow", "deny"}
BY ReviewAssumption DEF Rule

(* The gates, taken in the code's order, admit exactly the versions that    *)
(* satisfy every condition at once.                                         *)
THEOREM GatesSound == ReviewSpec => []GateOrderSound
<1>1. ReviewTypeOK => GateOrderSound
  <2> SUFFICES ASSUME ReviewTypeOK
               PROVE  Admitted <=> Admissible
    BY DEF GateOrderSound
  <2> USE PolicyAssumption
  <2>1. rule = None \/ (rule # None /\ rule.verdict \in {"allow", "deny"})
    BY RuleIsNotNone DEF ReviewTypeOK
  <2>2. CASE Changed
    BY <2>2 DEF Admitted, Verdict, Decide, Admissible, Changed
  <2>3. CASE ~Changed /\ rule = None
    BY <2>3 DEF Admitted, Verdict, Decide, Admissible, Changed, Quarantined,
                AutomaticVerdict
  <2>4. CASE ~Changed /\ rule # None
    BY <2>1, <2>4 DEF Admitted, Verdict, Decide, Admissible, Changed, Quarantined,
                      ApprovalVerdict
  <2> QED
    BY <2>2, <2>3, <2>4
<1> QED
  BY <1>1, TypeCorrect, PTL

(* The passing of time alone never withdraws a version.                     *)
THEOREM TimeNeverWithdraws == ReviewSpec => TimeOnlyAdmits
<1>1. ReviewTypeOK /\ [ReviewNext]_reviewVars => [(Admitted /\ now' > now) => Admitted']_reviewVars
  <2> SUFFICES ASSUME ReviewTypeOK, ReviewNext, Admitted, now' > now
               PROVE  Admitted'
    OBVIOUS
  <2>1. UNCHANGED <<pkg, meta, baseline, rule>> /\ now' = now + 1 /\ now \in Int
    BY DEF ReviewNext, Day, Replace, Approve, Deny, ReviewTypeOK
  <2>2. ASSUME NEW days \in Nat, OlderThan(meta, days, now)
        PROVE  OlderThan(meta, days, now')
    BY <2>1, <2>2 DEF OlderThan, ReviewTypeOK, Meta
  <2>3. Quarantined(pkg, meta, now') => Quarantined(pkg, meta, now)
    BY <2>2, PolicyAssumption DEF Quarantined
  <2>4. AutomaticVerdict(pkg, meta, now) = "allow"
          => AutomaticVerdict(pkg, meta, now') = "allow"
    BY <2>2, PolicyAssumption DEF AutomaticVerdict
  <2>5. Verdict' = Decide(pkg, meta, Changed, rule, now')
    BY <2>1 DEF Verdict, Changed
  <2> QED
    BY <2>3, <2>4, <2>5 DEF Admitted, Verdict, Decide
<1> QED
  BY <1>1, TypeCorrect, PTL DEF ReviewSpec, TimeOnlyAdmits

-----------------------------------------------------------------------------

(* What the engine answers right after an approval of an unchanged version. *)
LEMMA VerdictOfApproved ==
  ASSUME ReviewTypeOK, Approve
  PROVE  /\ Changed' <=> Changed
         /\ Changed => Verdict' = "integrity_changed"
         /\ ~Changed => Verdict' = IF Quarantined(pkg, meta, now)
                                   THEN "install_script_quarantine" ELSE "allow"
<1>1. UNCHANGED <<pkg, meta, baseline, now>> /\ rule' = AllowRule(meta)
  BY DEF Approve
<1>2. rule' # None /\ rule'.verdict = "allow"
  BY <1>1, AllowRuleType, RuleIsNotNone DEF AllowRule, ReviewTypeOK
<1>3. ApprovalVerdict(rule', meta) = "allow"
  BY <1>1 DEF ApprovalVerdict, AllowRule
<1> QED
  BY <1>1, <1>2, <1>3 DEF Changed, Verdict, Decide

(* An approval recorded in answer to a block that asks for one admits the   *)
(* version, and nothing else can.                                           *)
THEOREM ApprovalEffective == ReviewSpec => ApprovalTakesEffect
<1>1. ReviewTypeOK /\ [ReviewNext]_reviewVars =>
        [Approve =>
           /\ Verdict \in Remediable => Admitted'
           /\ Verdict = "install_script_quarantine" => Verdict' = Verdict
           /\ Changed => ~Admitted']_reviewVars
  <2> SUFFICES ASSUME ReviewTypeOK, Approve
               PROVE  /\ Verdict \in Remediable => Admitted'
                      /\ Verdict = "install_script_quarantine" => Verdict' = Verdict
                      /\ Changed => ~Admitted'
    OBVIOUS
  <2>1. Verdict \in Remediable => ~Changed /\ ~Quarantined(pkg, meta, now)
    BY DEF Verdict, Decide, Remediable
  <2>2. Verdict = "install_script_quarantine" => ~Changed /\ Quarantined(pkg, meta, now)
    BY DEF Verdict, Decide, ApprovalVerdict, AutomaticVerdict
  <2> QED
    BY <2>1, <2>2, VerdictOfApproved DEF Admitted
<1> QED
  BY <1>1, TypeCorrect, PTL DEF ReviewSpec, ApprovalTakesEffect

(* What `allow` reports is exact for a version that declares what it runs   *)
(* and when it was published, outside the bypassed scopes.                  *)
THEOREM EffectIsExact == ReviewSpec => EffectExact
<1> DEFINE Declared ==
      /\ pkg \notin BypassPackages
      /\ ~Changed
      /\ meta.published # None
      /\ (meta.flag => meta.hooks # NoHooks)
<1>1. ReviewTypeOK /\ [ReviewNext]_reviewVars =>
        [(Approve /\ Declared) => (Admitted' <=> Effect = "admitted")]_reviewVars
  <2> SUFFICES ASSUME ReviewTypeOK, Approve, Declared
               PROVE  Admitted' <=> Effect = "admitted"
    OBVIOUS
  <2>1. meta.published \in Int /\ now \in Int
    BY DEF ReviewTypeOK, Meta
  <2>2. Quarantined(pkg, meta, now) <=> Effect = "not_yet"
    BY <2>1, PolicyAssumption DEF Quarantined, Effect, RunsInstallScript, OlderThan
  <2> QED
    BY <2>2, VerdictOfApproved DEF Admitted, Effect
<1> QED
  BY <1>1, TypeCorrect, PTL DEF ReviewSpec, EffectExact
=============================================================================
