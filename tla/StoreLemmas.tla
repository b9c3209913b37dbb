----------------------------- MODULE StoreLemmas -----------------------------
(***************************************************************************)
(* Facts about the store's operations (Store), for the proofs about the     *)
(* modules that use it: what each of them does to the types of the tables,  *)
(* to the evidence in the ledger and to the order of the audit log.         *)
(***************************************************************************)
EXTENDS Store, TLAPS, WellFoundedInduction

LEMMA ReleaseParts ==
  ASSUME NEW rel \in Release
  PROVE  rel[1] \in Package /\ rel[2] \in Version
BY DEF Release

(* The rules that are made up or approved are rules.                        *)
LEMMA DenyRuleType == DenyRule \in Rule
BY DEF DenyRule, Rule

LEMMA AllowRuleType ==
  ASSUME NEW meta \in Meta
  PROVE  AllowRule(meta) \in Rule
BY DEF AllowRule, Meta, Rule

-----------------------------------------------------------------------------
(* The ledger.                                                              *)

(* One observation maps a row of the ledger, or none, to a row.             *)
LEMMA ObservedType ==
  ASSUME NEW row \in SeenRow \cup {None}, NEW identity \in Identity,
         NEW now \in Nat, NEW bump \in BOOLEAN
  PROVE  Observed(row, identity, now, bump) \in SeenRow
BY DEF Observed, SeenRow

(* ... and keeps what evidence the row was.                                 *)
LEMMA ObservedKeeps ==
  ASSUME NEW row \in SeenRow, row # None,
         NEW identity, NEW now \in Nat, NEW bump \in BOOLEAN
  PROVE  /\ Observed(row, identity, now, bump).identity = row.identity
         /\ row.replaced => Observed(row, identity, now, bump).replaced
BY DEF Observed, SeenRow

LEMMA ObserveBatchType ==
  ASSUME StoreTypeOK, NEW pkg, NEW ids, \A v \in DOMAIN ids : ids[v] \in Identity,
         NEW now \in Nat, NEW bump \in BOOLEAN, ObserveBatch(pkg, ids, now, bump)
  PROVE  seen' \in [Release -> SeenRow \cup {None}]
<1>1. ASSUME NEW rel \in Release, rel[2] \in DOMAIN ids
      PROVE  Observed(seen[rel], ids[rel[2]], now, bump) \in SeenRow
  BY <1>1, ObservedType DEF StoreTypeOK
<1> QED
  BY <1>1 DEF ObserveBatch, StoreTypeOK

-----------------------------------------------------------------------------
(* The audit log.                                                           *)

(* The rows a transaction appends are audit rows when their parts are.      *)
LEMMA RowType ==
  ASSUME nextId \in Nat, NEW event \in Events, NEW p \in Package,
         NEW v \in Version \cup {None}, NEW reason \in Reasons \cup {None},
         NEW now \in Nat
  PROVE  Row(event, <<p, v>>, reason, now) \in AuditRow
BY DEF Row, AuditRow

LEMMA BlockEventType ==
  ASSUME NEW reason
  PROVE  BlockEvent(reason) \in {"block", "tamper"}
BY DEF BlockEvent

(* The audit row of a rule, of a foreign tarball and of each verdict of a   *)
(* record_blocks transaction.                                               *)
LEMMA RuleRow ==
  ASSUME nextId \in Nat, NEW rel \in Release, NEW rule \in Rule, NEW now \in Nat
  PROVE  LET row == Row(rule.verdict, rel, None, now)
         IN  /\ row \in AuditRow /\ row.id = nextId /\ row.ts = now
             /\ row.event = rule.verdict /\ row.event \in {"allow", "deny"}
             /\ row.pkg = rel[1] /\ row.version = rel[2]
<1>1. rule.verdict \in {"allow", "deny"}
  BY DEF Rule
<1> QED
  BY <1>1, ReleaseParts DEF Row, AuditRow, Events

LEMMA ForeignRow ==
  ASSUME nextId \in Nat, NEW pkg \in Package, NEW now \in Nat
  PROVE  LET row == Row("foreign_tarball", <<pkg, None>>, None, now)
         IN  /\ row \in AuditRow /\ row.id = nextId /\ row.ts = now
             /\ row.event = "foreign_tarball" /\ row.pkg = pkg
             /\ row.version = None
BY DEF Row, AuditRow, Events

LEMMA BlockRow ==
  ASSUME nextId \in Nat, NEW pkg \in Package, NEW v \in Version,
         NEW reason \in Reasons, NEW now \in Nat
  PROVE  LET row == Row(BlockEvent(reason), <<pkg, v>>, reason, now)
         IN  /\ row \in AuditRow /\ row.id = nextId /\ row.ts = now
             /\ row.event = BlockEvent(reason) /\ row.event \in {"block", "tamper"}
             /\ row.pkg = pkg /\ row.version = v /\ row.reason = reason
<1>1. BlockEvent(reason) \in Events
  BY BlockEventType DEF Events
<1>2. Row(BlockEvent(reason), <<pkg, v>>, reason, now) \in AuditRow
  BY <1>1, RowType
<1> QED
  BY <1>2, BlockEventType DEF Row

(* record_blocks appends one row for each verdict that is not the latest of *)
(* its version and event already, or leaves the log alone.                  *)
BlocksAppended(pkg, blocked, now, rows) ==
  /\ audit' = audit \cup rows
  /\ nextId' = IF rows = {} THEN nextId ELSE nextId + 1
  /\ \A row \in rows :
       /\ row.id = nextId /\ row.ts = now /\ row.pkg = pkg
       /\ row.version \in DOMAIN blocked /\ row.reason = blocked[row.version]
       /\ row.event = BlockEvent(row.reason)
       /\ ~Recorded(<<pkg, row.version>>, row.reason)
  /\ \A row, other \in rows : row.version = other.version => row = other
  /\ \A v \in DOMAIN blocked :
       Recorded(<<pkg, v>>, blocked[v]) \/ \E row \in rows : row.version = v

LEMMA RecordBlocksRows ==
  ASSUME StoreTypeOK, NEW pkg \in Package, NEW blocked,
         DOMAIN blocked \subseteq Version, \A v \in DOMAIN blocked : blocked[v] \in Reasons,
         NEW now \in Nat, RecordBlocks(pkg, blocked, now)
  PROVE  \E rows \in SUBSET AuditRow : BlocksAppended(pkg, blocked, now, rows)
<1> DEFINE new == {v \in DOMAIN blocked : ~Recorded(<<pkg, v>>, blocked[v])}
           RowFor(v) == Row(BlockEvent(blocked[v]), <<pkg, v>>, blocked[v], now)
           rows == {RowFor(v) : v \in new}
<1>1. /\ audit' = audit \cup rows
      /\ nextId' = IF rows = {} THEN nextId ELSE nextId + 1
  <2>1. CASE new = {}
    <3>1. rows = {}
      BY <2>1
    <3>2. audit' = audit /\ nextId' = nextId
      BY <2>1, Zenon DEF RecordBlocks
    <3> QED
      BY <3>1, <3>2
  <2>2. CASE new # {}
    <3>1. rows # {}
      BY <2>2
    <3>2. audit' = audit \cup rows /\ nextId' = nextId + 1
      BY <2>2, Zenon DEF RecordBlocks, AppendRows
    <3> QED
      BY <3>1, <3>2
  <2> QED
    BY <2>1, <2>2
<1>2. ASSUME NEW v \in new
      PROVE  /\ RowFor(v) \in AuditRow
             /\ RowFor(v).id = nextId /\ RowFor(v).ts = now /\ RowFor(v).pkg = pkg
             /\ RowFor(v).version = v /\ RowFor(v).reason = blocked[v]
             /\ RowFor(v).event = BlockEvent(blocked[v])
             /\ ~Recorded(<<pkg, v>>, blocked[v])
  BY BlockRow DEF StoreTypeOK
<1>3. \A v \in DOMAIN blocked : v \in new \/ Recorded(<<pkg, v>>, blocked[v])
  OBVIOUS
<1>4. new \subseteq DOMAIN blocked
  OBVIOUS
<1> HIDE DEF RowFor, new
<1>5. rows \in SUBSET AuditRow
  BY <1>2
<1>6. ASSUME NEW row \in rows
      PROVE  /\ row.id = nextId /\ row.ts = now /\ row.pkg = pkg
             /\ row.version \in DOMAIN blocked /\ row.reason = blocked[row.version]
             /\ row.event = BlockEvent(row.reason)
             /\ ~Recorded(<<pkg, row.version>>, row.reason)
  <2>1. PICK v \in new : row = RowFor(v)
    BY <1>6
  <2> QED
    BY <1>2, <1>4, <2>1
<1>7. ASSUME NEW row \in rows, NEW other \in rows, row.version = other.version
      PROVE  row = other
  <2>1. PICK v \in new, w \in new : row = RowFor(v) /\ other = RowFor(w)
    BY <1>7
  <2> QED
    BY <1>2, <1>7, <2>1
<1>8. ASSUME NEW v \in DOMAIN blocked
      PROVE  Recorded(<<pkg, v>>, blocked[v]) \/ \E row \in rows : row.version = v
  BY <1>2, <1>3
<1> HIDE DEF rows
<1>9. BlocksAppended(pkg, blocked, now, rows)
  BY <1>1, <1>6, <1>7, <1>8 DEF BlocksAppended
<1> QED
  BY <1>5, <1>9

-----------------------------------------------------------------------------
(* The latest of a set of audit rows.                                      *)

(* A nonempty set of naturals below a bound has a largest member: seen from *)
(* the bound it is the smallest, and < is well-founded.                     *)
LEMMA LargestExists ==
  ASSUME NEW bound \in Nat, NEW S \in SUBSET Nat, S # {},
         \A n \in S : n < bound
  PROVE  \E n \in S : \A m \in S : m <= n
<1> DEFINE T == {bound - n : n \in S}
<1>0. \A n \in S : bound - n \in Nat
  OBVIOUS
<1>1. T \subseteq Nat /\ T # {}
  BY <1>0, Zenon
<1>2. PICK x \in T : \A y \in T : ~ (<<y, x>> \in OpToRel(<, Nat))
  <2> HIDE DEF T
  <2> QED
    BY <1>1, NatLessThanWellFounded, WFMin
<1>3. \A y \in T : ~(y < x)
  BY <1>1, <1>2 DEF OpToRel
<1>4. PICK n \in S : x = bound - n
  BY <1>2
<1>5. ASSUME NEW m \in S
      PROVE  m <= n
  <2>1. ~(bound - m < bound - n)
    BY <1>3, <1>4
  <2> QED
    BY <2>1
<1> QED
  BY <1>5

(* Newest picks a row that no other row of the set is newer than.           *)
LEMMA NewestIsLatest ==
  ASSUME StoreTypeOK, \A row \in audit : row.id < nextId,
         NEW rows \in SUBSET audit, rows # {}
  PROVE  /\ Newest(rows) \in rows
         /\ \A other \in rows : other.id <= Newest(rows).id
<1> DEFINE ids == {row.id : row \in rows}
<1>1. \A row \in rows : row.id \in Nat
  BY DEF StoreTypeOK, AuditRow
<1>2. nextId \in Nat
  BY DEF StoreTypeOK
<1>3. ids \in SUBSET Nat /\ ids # {} /\ \A n \in ids : n < nextId
  BY <1>1
<1>4. PICK n \in ids : \A m \in ids : m <= n
  <2> HIDE DEF ids
  <2> QED
    BY <1>2, <1>3, LargestExists
<1>5. \E row \in rows : \A other \in rows : other.id <= row.id
  BY <1>4
<1> QED
  BY <1>5, Zenon DEF Newest

(* A row that no other is as new as is the one Newest picks.                *)
LEMMA NewestUnique ==
  ASSUME NEW rows, NEW row \in rows,
         \A other \in rows : other.id \in Nat /\ (other # row => other.id < row.id)
  PROVE  Newest(rows) = row
<1> DEFINE Latest(r) == \A other \in rows : other.id <= r.id
<1>1. Latest(row)
  OBVIOUS
<1>2. ASSUME NEW r \in rows, Latest(r)
      PROVE  r = row
  BY <1>2
<1> HIDE DEF Latest
<1>3. (CHOOSE r \in rows : Latest(r)) = row
  BY <1>1, <1>2, Zenon
<1> QED
  BY <1>3, Zenon DEF Newest, Latest
=============================================================================
