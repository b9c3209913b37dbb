----------------------------- MODULE StoreSpec -----------------------------
(***************************************************************************)
(* The store as its callers may use it: any operation, on any argument, in  *)
(* any order.  What holds here holds of the store whatever the daemon does. *)
(*                                                                          *)
(* A caller reads the clock when its evaluation or command begins           *)
(* (proxy/mod.rs, evaluate) and commits with that time when it comes to it, *)
(* so rows need not be committed in the order of their times.               *)
(***************************************************************************)
EXTENDS Store

CONSTANTS
  ServedIdentities, \* the identities upstream may serve, of Identity
  RecordedRules,    \* the rules operators may record, of Rule
  GivenReasons,     \* the reasons evaluations may report, of Reasons
  MaxLag,           \* how long a caller may hold on to the time it has read
  MaxTxn            \* bound on audit transactions

ASSUME StoreSpecAssumption ==
  /\ ServedIdentities \subseteq Identity
  /\ RecordedRules \subseteq Rule
  /\ GivenReasons \subseteq Reasons
  /\ MaxLag \in Nat
  /\ MaxTxn \in Nat

BlockEvents == {"block", "tamper"}

Subject == Release \X BlockEvents

VARIABLE reported  \* history: the last verdict reported for a version and event

specVars == <<storeVars, reported>>

Partial(S, T) == UNION {[D -> T] : D \in SUBSET S}

(* The `now` a caller may have.                                             *)
Moments == {at \in 0..clock : clock <= at + MaxLag}

Observe(pkg, identities, at, bump) ==
  /\ ObserveBatch(pkg, identities, at, bump)
  /\ UNCHANGED <<rules, audit, nextId, clock, reported>>

SetRule(rel, rule) ==
  /\ RecordRule(rel, rule)
  /\ UNCHANGED <<seen, audit, nextId, clock, reported>>

AuditRule(rel, rule, at) ==
  /\ nextId < MaxTxn
  /\ AppendRuleAudit(rel, rule, at)
  /\ UNCHANGED <<rules, seen, clock, reported>>

AuditBlocks(pkg, blocked, at) ==
  /\ nextId < MaxTxn
  /\ RecordBlocks(pkg, blocked, at)
  /\ reported' = [subject \in Subject |->
       LET v == subject[1][2]
       IN  IF /\ subject[1][1] = pkg /\ v \in DOMAIN blocked
              /\ BlockEvent(blocked[v]) = subject[2]
           THEN blocked[v] ELSE reported[subject]]
  /\ UNCHANGED <<rules, seen, clock>>

AuditForeign(pkg, at) ==
  /\ nextId < MaxTxn
  /\ AppendForeignOnce(pkg, at)
  /\ UNCHANGED <<rules, seen, clock, reported>>

Housekeeping ==
  /\ MaintainAudit \/ MaintainSeen \/ Tick
  /\ UNCHANGED reported

Next ==
  \/ \E at \in Moments :
       \/ \E pkg \in Package, ids \in Partial(Version, ServedIdentities), bump \in BOOLEAN :
            Observe(pkg, ids, at, bump)
       \/ \E rel \in Release, rule \in RecordedRules : AuditRule(rel, rule, at)
       \/ \E pkg \in Package, blocked \in Partial(Version, GivenReasons) :
            AuditBlocks(pkg, blocked, at)
       \/ \E pkg \in Package : AuditForeign(pkg, at)
  \/ \E rel \in Release, rule \in RecordedRules : SetRule(rel, rule)
  \/ Housekeeping

Init ==
  /\ StoreInit
  /\ reported = [subject \in Subject |-> None]

Spec == Init /\ [][Next]_specVars

-----------------------------------------------------------------------------

TypeOK ==
  /\ StoreTypeOK
  /\ reported \in [Subject -> Reasons \cup {None}]

(* Evidence is frozen: a row that recorded a replacement, or that a rule    *)
(* was formed against, is never dropped, never re-recorded under another    *)
(* identity and never forgets the replacement (try_observe_batch and        *)
(* prune_seen, in any order, with rules coming and going).                  *)
Evidence(rel) == seen[rel] # None /\ (seen[rel].replaced \/ rules[rel] # None)

EvidenceFrozen ==
  [][\A rel \in Release :
       Evidence(rel) =>
         /\ seen'[rel] # None
         /\ seen'[rel].identity = seen[rel].identity
         /\ seen[rel].replaced => seen'[rel].replaced]_specVars

(* No row that came after this one can have been pruned: one may be older   *)
(* than what it came after, but not by more than MaxLag.                    *)
Settled(row) == AuditRetention = 0 \/ row.ts + AuditRetention >= clock + MaxLag

(* The audit log tells verdicts apart and not requests: between two rows    *)
(* that report the same reason for a version there is one of the same event *)
(* that reports another, in whatever order the evaluations that reported    *)
(* them began (record_blocks).  Pruning goes by a row's time and may take   *)
(* the one between before the two, but only where the first of the two is   *)
(* itself about to go.                                                      *)
VerdictsAlternate ==
  \A row, other \in audit :
    (/\ row.event \in BlockEvents /\ Settled(row)
     /\ row.pkg = other.pkg /\ row.version = other.version
     /\ row.event = other.event /\ row.reason = other.reason
     /\ row.id < other.id)
    => \E between \in RowsOf(<<row.pkg, row.version>>, row.event) :
         between.id > row.id /\ between.id < other.id /\ between.reason # row.reason

(* The latest row kept for a version and event gives the verdict last       *)
(* reported for it: one that recurs after another is not mistaken for the   *)
(* row it had before (record_blocks).  Here too a row that is about to be   *)
(* pruned may have outlived the one that came after it.                     *)
LatestRowIsCurrent ==
  \A rel \in Release, event \in BlockEvents :
    LET rows == RowsOf(rel, event)
    IN  reported[<<rel, event>>] # None /\ rows # {} /\ Settled(Newest(rows))
          => Newest(rows).reason = reported[<<rel, event>>]

(* A package's foreign tarballs are reported once however often they are    *)
(* seen, for as long as the row is kept (append_audit_once).                *)
ForeignOnce ==
  \A row, other \in audit :
    row.event = "foreign_tarball" /\ other.event = "foreign_tarball"
      /\ row.pkg = other.pkg => row = other
=============================================================================
