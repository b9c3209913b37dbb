------------------------------- MODULE Store -------------------------------
(***************************************************************************)
(* The state database (src/store/mod.rs): the rules, the trust-on-first-use *)
(* integrity ledger `seen` and the audit log, behind one connection mutex,  *)
(* so every operation below is one atomic step.  Each operation constrains  *)
(* only the table it writes; its caller completes the step.                 *)
(*                                                                          *)
(* Data.  times_seen, first_seen_ts, last_mismatch_ts, reasons, actors and  *)
(* pins are carried but never read by a decision and are left out;          *)
(* mismatch_count is read only as zero or not.  An audit row's detail is    *)
(* its reason prefix, which is all record_blocks compares.  The rows one    *)
(* transaction inserts share its number as id: it never inserts two rows    *)
(* for one version and event, which is all the order is used for.           *)
(***************************************************************************)
EXTENDS Policy, FiniteSets

CONSTANTS
  Package,
  Version,
  SeenRetention,   \* SEEN_RETENTION_DAYS
  AuditRetention,  \* config.audit_retention_days, 0 keeps every row
  MaxDay           \* bound on the clock

ASSUME StoreAssumption ==
  /\ SeenRetention \in Nat
  /\ AuditRetention \in Nat
  /\ MaxDay \in Nat

Release == Package \X Version

VARIABLES
  rules,  \* Release -> its row of `rules`, or None
  seen,   \* Release -> its row of `seen`, or None
  audit,  \* the rows of `audit`
  nextId, \* the next audit transaction
  clock   \* Utc::now(), in days

tables == <<rules, seen, audit, nextId>>
storeVars == <<rules, seen, audit, nextId, clock>>

SeenRow == [identity : Identity, last : Nat, replaced : BOOLEAN]

(* None is no hash, no rule, no ledger row, no version and no reason.       *)
ASSUME NoneAssumption ==
  /\ None \notin Hash
  /\ None \notin Rule
  /\ None \notin SeenRow
  /\ None \notin Version
  /\ None \notin Reasons

Events == {"block", "tamper", "allow", "deny", "foreign_tarball", "seed_refused"}

AuditRow ==
  [id : Nat, ts : Nat, event : Events, pkg : Package,
   version : Version \cup {None}, reason : Reasons \cup {None}]

-----------------------------------------------------------------------------
(* The ledger.                                                              *)

(* LedgerCheck::Changed: on record with another identity.                   *)
LedgerChanged(rel, identity) ==
  seen[rel] # None /\ seen[rel].identity # identity

(* One version of try_observe_batch.  The recorded identity is never        *)
(* overwritten; a mismatch is noted even when `bump` is off.                *)
Observed(row, identity, now, bump) ==
  IF row = None THEN [identity |-> identity, last |-> now, replaced |-> FALSE]
  ELSE IF row.identity # identity THEN [row EXCEPT !.replaced = TRUE]
  ELSE IF bump THEN [row EXCEPT !.last = now] ELSE row

(* try_observe_batch: every version of one document, in one transaction.    *)
ObserveBatch(pkg, identities, now, bump) ==
  seen' = [rel \in Release |->
             IF rel[1] = pkg /\ rel[2] \in DOMAIN identities
             THEN Observed(seen[rel], identities[rel[2]], now, bump)
             ELSE seen[rel]]

\* mutant: the retention ignores the rules
PruneSeenIgnoringRules(before) ==
  seen' = [rel \in Release |->
             IF seen[rel] # None /\ seen[rel].last < before /\ ~seen[rel].replaced
             THEN None ELSE seen[rel]]

(* prune_seen: all three conditions, because the table is evidence.         *)
PruneSeen(before) ==
  seen' = [rel \in Release |->
             IF /\ seen[rel] # None
                /\ seen[rel].last < before
                /\ ~seen[rel].replaced
                /\ rules[rel] = None
             THEN None ELSE seen[rel]]

-----------------------------------------------------------------------------
(* The rules.                                                               *)

(* record_rule: the upsert replaces the whole row.                          *)
RecordRule(rel, rule) == rules' = [rules EXCEPT ![rel] = rule]

-----------------------------------------------------------------------------
(* The audit log.                                                           *)

AppendRows(rows) ==
  /\ audit' = audit \cup rows
  /\ nextId' = nextId + 1

Row(event, rel, reason, now) ==
  [id |-> nextId, ts |-> now, event |-> event,
   pkg |-> rel[1], version |-> rel[2], reason |-> reason]

(* NewRule::audit_entry, appended by append_audit.                          *)
AppendRuleAudit(rel, rule, now) == AppendRows({Row(rule.verdict, rel, None, now)})

(* AuditEntry::block.                                                       *)
BlockEvent(reason) == IF reason \in Critical THEN "tamper" ELSE "block"

RowsOf(rel, event) ==
  {row \in audit : row.pkg = rel[1] /\ row.version = rel[2] /\ row.event = event}

Newest(rows) == CHOOSE row \in rows : \A other \in rows : other.id <= row.id

\* mutant: the audit log is searched for the reason, not asked for the latest
RecordedEver(rel, reason) ==
  \E row \in RowsOf(rel, BlockEvent(reason)) : row.reason = reason

\* mutant: a verdict never counts as recorded
RecordedNever(rel, reason) == FALSE

(* The latest row for this version and event carries the same reason.       *)
Recorded(rel, reason) ==
  LET rows == RowsOf(rel, BlockEvent(reason))
  IN  rows # {} /\ Newest(rows).reason = reason

(* record_blocks: one row per newly withheld version, in one transaction.   *)
RecordBlocks(pkg, blocked, now) ==
  LET new == {v \in DOMAIN blocked : ~Recorded(<<pkg, v>>, blocked[v])}
  IN  IF new = {} THEN UNCHANGED <<audit, nextId>>
      ELSE AppendRows({Row(BlockEvent(blocked[v]), <<pkg, v>>, blocked[v], now) : v \in new})

\* mutant: the package-level row is written on every observation
ForeignAlways(pkg) == FALSE

(* append_audit_once has already written for this package.                  *)
ForeignRecorded(pkg) ==
  \E row \in audit : row.pkg = pkg /\ row.event = "foreign_tarball"

AppendForeignOnce(pkg, now) ==
  IF ForeignRecorded(pkg) THEN UNCHANGED <<audit, nextId>>
  ELSE AppendRows({Row("foreign_tarball", <<pkg, None>>, None, now)})

PruneAudit(before) ==
  /\ audit' = {row \in audit : row.ts >= before}
  /\ UNCHANGED nextId

-----------------------------------------------------------------------------
(* The empty database, the housekeeping nobody calls for, and time.         *)

StoreInit ==
  /\ rules = [rel \in Release |-> None]
  /\ seen = [rel \in Release |-> None]
  /\ audit = {}
  /\ nextId = 0
  /\ clock = 0

(* prune_state, its first half: skipped when the retention is 0.            *)
MaintainAudit ==
  /\ AuditRetention > 0
  /\ PruneAudit(clock - AuditRetention)
  /\ UNCHANGED <<rules, seen, clock>>

MaintainSeen ==
  /\ PruneSeen(clock - SeenRetention)
  /\ UNCHANGED <<rules, audit, nextId, clock>>

Tick ==
  /\ clock < MaxDay
  /\ clock' = clock + 1
  /\ UNCHANGED tables

StoreTypeOK ==
  /\ rules \in [Release -> Rule \cup {None}]
  /\ seen \in [Release -> SeenRow \cup {None}]
  /\ audit \subseteq AuditRow
  /\ nextId \in Nat
  /\ clock \in Nat
=============================================================================
