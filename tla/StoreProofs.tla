---------------------------- MODULE StoreProofs ----------------------------
(***************************************************************************)
(* Proofs about the store (StoreSpec): its type invariant, that evidence in *)
(* the ledger is frozen, that the audit log tells verdicts apart and not    *)
(* requests, that it reports a package's foreign tarballs once, and that    *)
(* the report on what was withheld (Reports) is current.  They hold for     *)
(* every set of packages and versions, every retention, and every order in  *)
(* which callers use the store.                                             *)
(***************************************************************************)
EXTENDS Reports, StoreLemmas, FiniteSetTheorems

LEMMA PartialType ==
  ASSUME NEW S, NEW T, NEW f \in Partial(S, T)
  PROVE  DOMAIN f \subseteq S /\ \A x \in DOMAIN f : f[x] \in T
BY DEF Partial

(* The time a caller has read is a day of the past, and not long ago.       *)
LEMMA MomentType ==
  ASSUME TypeOK, NEW at \in Moments
  PROVE  at \in Nat /\ at <= clock /\ clock <= at + MaxLag
BY DEF Moments, TypeOK, StoreTypeOK

-----------------------------------------------------------------------------

(* Every state of the store is well typed, whatever its callers do.         *)
THEOREM TypeCorrect == Spec => []TypeOK
<1> USE StoreAssumption, StoreSpecAssumption, PolicyAssumption
<1>1. Init => TypeOK
  BY DEF Init, StoreInit, TypeOK, StoreTypeOK
<1>2. TypeOK /\ [Next]_specVars => TypeOK'
  <2> SUFFICES ASSUME TypeOK, [Next]_specVars
               PROVE  TypeOK'
    OBVIOUS
  <2>0. \A at \in Moments : at \in Nat
    BY MomentType
  <2> USE DEF TypeOK, StoreTypeOK
  <2>1. ASSUME NEW at \in Moments,
               NEW pkg \in Package, NEW ids \in Partial(Version, ServedIdentities),
               NEW bump \in BOOLEAN, Observe(pkg, ids, at, bump)
        PROVE  TypeOK'
    <3>1. \A v \in DOMAIN ids : ids[v] \in Identity
      BY <2>1, PartialType
    <3>2. ASSUME NEW rel \in Release, rel[2] \in DOMAIN ids
          PROVE  Observed(seen[rel], ids[rel[2]], at, bump) \in SeenRow
      BY <2>0, <3>1, <3>2, ObservedType
    <3>3. seen' \in [Release -> SeenRow \cup {None}]
      BY <2>1, <3>2 DEF Observe, ObserveBatch
    <3> QED
      BY <2>1, <3>3 DEF Observe
  <2>2. ASSUME NEW rel \in Release, NEW rule \in RecordedRules, SetRule(rel, rule)
        PROVE  TypeOK'
    BY <2>2 DEF SetRule, RecordRule
  <2>3. ASSUME NEW at \in Moments,
               NEW rel \in Release, NEW rule \in RecordedRules, AuditRule(rel, rule, at)
        PROVE  TypeOK'
    <3>1. rule.verdict \in Events
      BY DEF Rule, Events
    <3>2. Row(rule.verdict, rel, None, at) \in AuditRow
      BY <2>0, <3>1, ReleaseParts DEF Row, AuditRow
    <3> QED
      BY <2>3, <3>2 DEF AuditRule, AppendRuleAudit, AppendRows
  <2>4. ASSUME NEW at \in Moments,
               NEW pkg \in Package, NEW blocked \in Partial(Version, GivenReasons),
               AuditBlocks(pkg, blocked, at)
        PROVE  TypeOK'
    <3>1. ASSUME NEW v \in DOMAIN blocked
          PROVE  Row(BlockEvent(blocked[v]), <<pkg, v>>, blocked[v], at) \in AuditRow
      <4>1. v \in Version /\ blocked[v] \in Reasons
        BY PartialType
      <4>2. BlockEvent(blocked[v]) \in Events
        BY BlockEventType DEF Events
      <4> QED
        BY <2>0, <4>1, <4>2, RowType
    <3>0. reported' \in [Subject -> Reasons \cup {None}]
      BY <2>4, PartialType DEF AuditBlocks
    <3>2. CASE UNCHANGED <<audit, nextId>>
      BY <2>4, <3>0, <3>2 DEF AuditBlocks
    <3>3. CASE ~UNCHANGED <<audit, nextId>>
      <4> DEFINE new == {v \in DOMAIN blocked : ~Recorded(<<pkg, v>>, blocked[v])}
                 rows == {Row(BlockEvent(blocked[v]), <<pkg, v>>, blocked[v], at) :
                            v \in new}
      <4>1. AppendRows(rows)
        BY <2>4, <3>3, Zenon DEF AuditBlocks, RecordBlocks
      <4>2. rows \subseteq AuditRow
        BY <3>1
      <4> QED
        BY <2>4, <3>0, <4>1, <4>2 DEF AuditBlocks, AppendRows
    <3> QED
      BY <3>2, <3>3
  <2>5. ASSUME NEW at \in Moments, NEW pkg \in Package, AuditForeign(pkg, at)
        PROVE  TypeOK'
    <3>1. Row("foreign_tarball", <<pkg, None>>, None, at) \in AuditRow
      BY <2>0, RowType DEF Events
    <3> QED
      BY <2>5, <3>1 DEF AuditForeign, AppendForeignOnce, AppendRows
  <2>6. CASE Housekeeping
    BY <2>6 DEF Housekeeping, MaintainAudit, PruneAudit, MaintainSeen, PruneSeen, Tick, tables
  <2>7. CASE UNCHANGED specVars
    BY <2>7 DEF specVars, storeVars
  <2> QED
    BY <2>1, <2>2, <2>3, <2>4, <2>5, <2>6, <2>7 DEF Next
<1> QED
  BY <1>1, <1>2, PTL DEF Spec

-----------------------------------------------------------------------------

(* Evidence is frozen: no order of observations, rules and pruning drops,   *)
(* rewrites or clears a ledger row that recorded a replacement or that a    *)
(* rule was formed against.                                                 *)
THEOREM EvidenceStaysFrozen == Spec => EvidenceFrozen
<1> DEFINE Frozen ==
      \A rel \in Release :
        Evidence(rel) =>
          /\ seen'[rel] # None
          /\ seen'[rel].identity = seen[rel].identity
          /\ seen[rel].replaced => seen'[rel].replaced
<1>1. TypeOK /\ [Next]_specVars => [Frozen]_specVars
  <2> SUFFICES ASSUME TypeOK, Next, NEW rel \in Release, Evidence(rel)
               PROVE  /\ seen'[rel] # None
                      /\ seen'[rel].identity = seen[rel].identity
                      /\ seen[rel].replaced => seen'[rel].replaced
    OBVIOUS
  <2> USE StoreAssumption, StoreSpecAssumption
  <2>0. seen[rel] # None /\ seen[rel] \in SeenRow /\ clock \in Nat
    BY DEF Evidence, TypeOK, StoreTypeOK
  <2>1. ASSUME NEW at \in Moments,
               NEW pkg \in Package, NEW ids \in Partial(Version, ServedIdentities),
               NEW bump \in BOOLEAN, Observe(pkg, ids, at, bump)
        PROVE  /\ seen'[rel] # None
               /\ seen'[rel].identity = seen[rel].identity
               /\ seen[rel].replaced => seen'[rel].replaced
    <3>1. CASE rel[1] = pkg /\ rel[2] \in DOMAIN ids
      <4>1. seen'[rel] = Observed(seen[rel], ids[rel[2]], at, bump)
        BY <2>1, <3>1 DEF Observe, ObserveBatch
      <4>3. at \in Nat
        BY MomentType
      <4>2. seen'[rel] \in SeenRow
        <5>1. ids[rel[2]] \in Identity
          BY <3>1, PartialType
        <5> QED
          BY <2>0, <4>1, <4>3, <5>1, ObservedType
      <4> QED
        BY <2>0, <4>1, <4>2, <4>3, ObservedKeeps, NoneAssumption
    <3>2. CASE ~(rel[1] = pkg /\ rel[2] \in DOMAIN ids)
      BY <2>0, <2>1, <3>2 DEF Observe, ObserveBatch
    <3> QED
      BY <3>1, <3>2
  <2>2. CASE MaintainSeen
    BY <2>0, <2>2 DEF MaintainSeen, PruneSeen, Evidence
  <2>3. CASE seen' = seen
    BY <2>0, <2>3
  <2> QED
    BY <2>1, <2>2, <2>3
       DEF Next, SetRule, AuditRule, AuditBlocks, AuditForeign, Housekeeping, MaintainAudit,
           Tick, tables
<1>2. Spec => []TypeOK
  BY TypeCorrect
<1> QED
  BY <1>1, <1>2, PTL DEF Spec, EvidenceFrozen

-----------------------------------------------------------------------------
(* What makes the latest row of a version and event well defined, and its   *)
(* pruning harmless: within one version and event an id is given once, and  *)
(* a row is older than one before it by no more than MaxLag.                *)

Ordered ==
  /\ \A row \in audit : row.id < nextId /\ row.ts <= clock
  /\ \A row, other \in audit : row.id < other.id => row.ts <= other.ts + MaxLag
  /\ \A row, other \in audit :
       (/\ row.pkg = other.pkg /\ row.version = other.version
        /\ row.event = other.event /\ row.id = other.id)
       => row = other

(* Appending a transaction keeps the order: its rows carry the next id and  *)
(* its caller's time, and no two of them are of one version and event.      *)
LEMMA AppendKeepsOrder ==
  ASSUME TypeOK, Ordered, NEW at \in Moments,
         NEW rows \in SUBSET AuditRow, AppendRows(rows), clock' = clock,
         \A row \in rows : row.id = nextId /\ row.ts = at,
         \A row, other \in rows :
           row.pkg = other.pkg /\ row.version = other.version /\ row.event = other.event
             => row = other
  PROVE  Ordered'
<1>1. audit' = audit \cup rows /\ nextId' = nextId + 1
  BY DEF AppendRows
<1>2. \A row \in audit : row.id \in Nat /\ row.ts \in Nat
  BY DEF TypeOK, StoreTypeOK, AuditRow
<1>3. /\ nextId \in Nat /\ clock \in Nat /\ MaxLag \in Nat
      /\ at \in Nat /\ at <= clock /\ clock <= at + MaxLag
  BY MomentType, StoreSpecAssumption DEF TypeOK, StoreTypeOK
<1>4. \A row \in audit' : row.id < nextId' /\ row.ts <= clock'
  BY <1>1, <1>2, <1>3 DEF Ordered
<1>5. ASSUME NEW row \in audit', NEW other \in audit', row.id < other.id
      PROVE  row.ts <= other.ts + MaxLag
  <2>1. row \in audit
    BY <1>1, <1>2, <1>3, <1>4, <1>5 DEF Ordered
  <2> QED
    BY <1>1, <1>2, <1>3, <1>5, <2>1 DEF Ordered
<1>6. ASSUME NEW row \in audit', NEW other \in audit',
             row.pkg = other.pkg, row.version = other.version,
             row.event = other.event, row.id = other.id
      PROVE  row = other
  <2>1. (row \in audit /\ other \in audit) \/ (row \in rows /\ other \in rows)
    BY <1>1, <1>2, <1>3, <1>6 DEF Ordered
  <2> QED
    BY <1>6, <2>1 DEF Ordered
<1> QED
  BY <1>4, <1>5, <1>6 DEF Ordered

(* The three appending operations, each with the rows it appends.           *)
LEMMA RuleRows ==
  ASSUME TypeOK, NEW at \in Moments,
                 NEW rel \in Release, NEW rule \in RecordedRules, AuditRule(rel, rule, at)
  PROVE  \E row \in AuditRow :
           /\ row.id = nextId /\ row.ts = at
           /\ row.event \in {"allow", "deny"}
           /\ AppendRows({row})
<1> DEFINE row == Row(rule.verdict, rel, None, at)
<1>1. rule.verdict \in {"allow", "deny"}
  BY StoreSpecAssumption DEF Rule
<1>2. row \in AuditRow
  BY <1>1, ReleaseParts, MomentType DEF Row, AuditRow, Events, TypeOK, StoreTypeOK
<1>3. row.id = nextId /\ row.ts = at /\ row.event = rule.verdict
  BY DEF Row
<1>4. AppendRows({row})
  BY DEF AuditRule, AppendRuleAudit
<1> HIDE DEF row
<1> QED
  BY <1>1, <1>2, <1>3, <1>4

LEMMA ForeignRows ==
  ASSUME TypeOK, NEW at \in Moments,
                 NEW pkg \in Package, AuditForeign(pkg, at), ~UNCHANGED <<audit, nextId>>
  PROVE  /\ ~ForeignRecorded(pkg)
         /\ \E row \in AuditRow :
              /\ row.id = nextId /\ row.ts = at
              /\ row.event = "foreign_tarball" /\ row.pkg = pkg
              /\ AppendRows({row})
<1> DEFINE row == Row("foreign_tarball", <<pkg, None>>, None, at)
<1>1. row \in AuditRow
  BY MomentType DEF Row, AuditRow, Events, TypeOK, StoreTypeOK
<1>2. /\ row.id = nextId /\ row.ts = at
      /\ row.event = "foreign_tarball" /\ row.pkg = pkg
  BY DEF Row
<1>3. ~ForeignRecorded(pkg) /\ AppendRows({row})
  BY Zenon DEF AuditForeign, AppendForeignOnce
<1> HIDE DEF row
<1> QED
  BY <1>1, <1>2, <1>3

(* Every row of a record_blocks transaction reports a verdict that was not  *)
(* the latest of its version and event.                                     *)
LEMMA BlockRows ==
  ASSUME TypeOK, NEW at \in Moments,
                 NEW pkg \in Package, NEW blocked \in Partial(Version, GivenReasons),
         AuditBlocks(pkg, blocked, at), ~UNCHANGED <<audit, nextId>>
  PROVE  \E rows \in SUBSET AuditRow :
           /\ AppendRows(rows)
           /\ \A row \in rows :
                /\ row.id = nextId /\ row.ts = at
                /\ row.event \in {"block", "tamper"}
                /\ LET old == RowsOf(<<row.pkg, row.version>>, row.event)
                   IN  old # {} => Newest(old).reason # row.reason
           /\ \A row, other \in rows :
                row.pkg = other.pkg /\ row.version = other.version
                  /\ row.event = other.event => row = other
<1> DEFINE new == {v \in DOMAIN blocked : ~Recorded(<<pkg, v>>, blocked[v])}
           RowFor(v) == Row(BlockEvent(blocked[v]), <<pkg, v>>, blocked[v], at)
           rows == {RowFor(v) : v \in new}
<1>1. AppendRows(rows)
  BY Zenon DEF AuditBlocks, RecordBlocks
<1>2. ASSUME NEW v \in new
      PROVE  /\ RowFor(v) \in AuditRow
             /\ RowFor(v).id = nextId /\ RowFor(v).ts = at
             /\ RowFor(v).event = BlockEvent(blocked[v])
             /\ RowFor(v).event \in {"block", "tamper"}
             /\ RowFor(v).pkg = pkg /\ RowFor(v).version = v
             /\ RowFor(v).reason = blocked[v]
  <2>1. v \in Version /\ blocked[v] \in Reasons
    BY PartialType, StoreSpecAssumption
  <2>2. BlockEvent(blocked[v]) \in {"block", "tamper"}
    BY BlockEventType
  <2>3. RowFor(v) \in AuditRow
    BY <2>1, <2>2, MomentType, RowType DEF Events, TypeOK, StoreTypeOK
  <2> QED
    BY <2>2, <2>3 DEF Row
<1>3. ASSUME NEW v \in new
      PROVE  LET old == RowsOf(<<pkg, v>>, BlockEvent(blocked[v]))
             IN  old # {} => Newest(old).reason # blocked[v]
  BY <1>3 DEF Recorded
<1> HIDE DEF RowFor, new
<1>4. ASSUME NEW row \in rows
      PROVE  /\ row.id = nextId /\ row.ts = at
             /\ row.event \in {"block", "tamper"}
             /\ LET old == RowsOf(<<row.pkg, row.version>>, row.event)
                IN  old # {} => Newest(old).reason # row.reason
  <2>1. PICK v \in new : row = RowFor(v)
    BY <1>4
  <2> QED
    BY <1>2, <1>3, <2>1
<1>5. ASSUME NEW row \in rows, NEW other \in rows, row.version = other.version
      PROVE  row = other
  <2>1. PICK v \in new : row = RowFor(v)
    BY <1>5
  <2>2. PICK w \in new : other = RowFor(w)
    BY <1>5
  <2> QED
    BY <1>2, <1>5, <2>1, <2>2
<1>6. rows \in SUBSET AuditRow
  BY <1>2
<1> HIDE DEF rows
<1> QED
  BY <1>1, <1>4, <1>5, <1>6

(* Pruning only removes rows; no other operation touches the log.           *)
LEMMA StepsOfTheLog ==
  ASSUME [Next]_specVars
  PROVE  \/ \E at \in Moments, rel \in Release, rule \in RecordedRules :
              AuditRule(rel, rule, at)
         \/ \E at \in Moments, pkg \in Package,
               blocked \in Partial(Version, GivenReasons) :
              AuditBlocks(pkg, blocked, at) /\ ~UNCHANGED <<audit, nextId>>
         \/ \E at \in Moments, pkg \in Package :
              AuditForeign(pkg, at) /\ ~UNCHANGED <<audit, nextId>>
         \/ MaintainAudit
         \/ UNCHANGED <<audit, nextId>> /\ (clock' = clock \/ clock' = clock + 1)
<1>1. CASE Next
  <2>1. CASE Housekeeping
    BY <2>1 DEF Housekeeping, MaintainSeen, Tick, tables
  <2>2. ASSUME NEW at \in Moments,
               NEW pkg \in Package, NEW blocked \in Partial(Version, GivenReasons),
               AuditBlocks(pkg, blocked, at)
        PROVE  clock' = clock
    BY <2>2 DEF AuditBlocks
  <2>3. ASSUME NEW at \in Moments, NEW pkg \in Package, AuditForeign(pkg, at)
        PROVE  clock' = clock
    BY <2>3 DEF AuditForeign
  <2>4. ASSUME NEW at \in Moments,
               NEW pkg, NEW ids, NEW bump, Observe(pkg, ids, at, bump)
        PROVE  UNCHANGED <<audit, nextId>> /\ clock' = clock
    BY <2>4 DEF Observe
  <2>5. ASSUME NEW rel, NEW rule, SetRule(rel, rule)
        PROVE  UNCHANGED <<audit, nextId>> /\ clock' = clock
    BY <2>5 DEF SetRule
  <2> QED
    BY <1>1, <2>1, <2>2, <2>3, <2>4, <2>5, Zenon DEF Next
<1>2. CASE UNCHANGED specVars
  BY <1>2 DEF specVars, storeVars
<1> QED
  BY <1>1, <1>2

(* Time goes on, a day at a time.                                           *)
LEMMA ClockMoves ==
  ASSUME [Next]_specVars
  PROVE  clock' = clock \/ clock' = clock + 1
BY StepsOfTheLog
   DEF AuditRule, AuditBlocks, AuditForeign, MaintainAudit

THEOREM OrderHolds == Spec => []Ordered
<1>1. Init => Ordered
  BY DEF Init, StoreInit, Ordered
<1>2. TypeOK /\ Ordered /\ [Next]_specVars => Ordered'
  <2> SUFFICES ASSUME TypeOK, Ordered, [Next]_specVars
               PROVE  Ordered'
    OBVIOUS
  <2>1. ASSUME NEW at \in Moments,
               NEW rel \in Release, NEW rule \in RecordedRules, AuditRule(rel, rule, at)
        PROVE  Ordered'
    <3>1. clock' = clock
      BY <2>1 DEF AuditRule
    <3>2. PICK row \in AuditRow :
            row.id = nextId /\ row.ts = at /\ AppendRows({row})
      BY <2>1, RuleRows
    <3> QED
      BY <3>1, <3>2, AppendKeepsOrder
  <2>2. ASSUME NEW at \in Moments,
               NEW pkg \in Package, NEW blocked \in Partial(Version, GivenReasons),
               AuditBlocks(pkg, blocked, at), ~UNCHANGED <<audit, nextId>>
        PROVE  Ordered'
    <3>1. clock' = clock
      BY <2>2 DEF AuditBlocks
    <3> QED
      BY <2>2, <3>1, BlockRows, AppendKeepsOrder
  <2>3. ASSUME NEW at \in Moments,
               NEW pkg \in Package, AuditForeign(pkg, at), ~UNCHANGED <<audit, nextId>>
        PROVE  Ordered'
    <3>1. clock' = clock
      BY <2>3 DEF AuditForeign
    <3>2. PICK row \in AuditRow :
            row.id = nextId /\ row.ts = at /\ AppendRows({row})
      BY <2>3, ForeignRows
    <3> QED
      BY <3>1, <3>2, AppendKeepsOrder
  <2>4. CASE MaintainAudit
    BY <2>4 DEF MaintainAudit, PruneAudit, Ordered
  <2>5. CASE UNCHANGED <<audit, nextId>> /\ (clock' = clock \/ clock' = clock + 1)
    BY <2>5, StoreSpecAssumption DEF Ordered, TypeOK, StoreTypeOK, AuditRow
  <2> QED
    BY <2>1, <2>2, <2>3, <2>4, <2>5, StepsOfTheLog
<1> QED
  BY <1>1, <1>2, TypeCorrect, PTL DEF Spec

-----------------------------------------------------------------------------

(* Between two rows with the same verdict there is always one with another. *)
(* Two kept rows may lean on a third: while the older of the two is not     *)
(* about to go, the order keeps pruning from removing the third.            *)
THEOREM VerdictsAlwaysAlternate == Spec => []VerdictsAlternate
<1>1. Init => VerdictsAlternate
  BY DEF Init, StoreInit, VerdictsAlternate
<1>2. TypeOK /\ Ordered /\ VerdictsAlternate /\ [Next]_specVars => VerdictsAlternate'
  <2> SUFFICES ASSUME TypeOK, Ordered, VerdictsAlternate, [Next]_specVars,
                      NEW row \in audit', NEW other \in audit',
                      row.event \in {"block", "tamper"}, Settled(row)',
                      row.pkg = other.pkg, row.version = other.version,
                      row.event = other.event, row.reason = other.reason,
                      row.id < other.id
               PROVE  \E between \in audit' :
                        /\ between.pkg = row.pkg /\ between.version = row.version
                        /\ between.event = row.event
                        /\ between.id > row.id /\ between.id < other.id
                        /\ between.reason # row.reason
    BY DEF VerdictsAlternate, RowsOf, BlockEvents
  <2>0. /\ \A r \in audit : r.id \in Nat /\ r.ts \in Nat /\ r.id < nextId
        /\ nextId \in Nat
    BY DEF TypeOK, StoreTypeOK, AuditRow, Ordered
  <2>a. row \in audit => Settled(row)
    BY <2>0, ClockMoves, StoreAssumption, StoreSpecAssumption
       DEF Settled, TypeOK, StoreTypeOK
  <2>1. ASSUME row \in audit, other \in audit
        PROVE  \E between \in audit :
                 /\ between.pkg = row.pkg /\ between.version = row.version
                 /\ between.event = row.event
                 /\ between.id > row.id /\ between.id < other.id
                 /\ between.reason # row.reason
    BY <2>1, <2>a DEF VerdictsAlternate, RowsOf, BlockEvents
  <2>2. ASSUME NEW new \in AuditRow, AppendRows({new}), new.id = nextId,
               new.event \notin {"block", "tamper"}
        PROVE  row \in audit /\ other \in audit /\ audit \subseteq audit'
    BY <2>2 DEF AppendRows
  <2>3. ASSUME NEW at \in Moments,
               NEW rel \in Release, NEW rule \in RecordedRules, AuditRule(rel, rule, at)
        PROVE  row \in audit /\ other \in audit /\ audit \subseteq audit'
    BY <2>2, <2>3, RuleRows
  <2>4. ASSUME NEW at \in Moments,
               NEW pkg \in Package, AuditForeign(pkg, at), ~UNCHANGED <<audit, nextId>>
        PROVE  row \in audit /\ other \in audit /\ audit \subseteq audit'
    BY <2>2, <2>4, ForeignRows
  <2>5. ASSUME NEW at \in Moments,
               NEW pkg \in Package, NEW blocked \in Partial(Version, GivenReasons),
               AuditBlocks(pkg, blocked, at), ~UNCHANGED <<audit, nextId>>
        PROVE  \E between \in audit' :
                 /\ between.pkg = row.pkg /\ between.version = row.version
                 /\ between.event = row.event
                 /\ between.id > row.id /\ between.id < other.id
                 /\ between.reason # row.reason
    <3>1. PICK rows \in SUBSET AuditRow :
            /\ AppendRows(rows)
            /\ \A new \in rows :
                 /\ new.id = nextId
                 /\ LET old == RowsOf(<<new.pkg, new.version>>, new.event)
                    IN  old # {} => Newest(old).reason # new.reason
      BY <2>5, BlockRows
    <3>2. audit' = audit \cup rows
      BY <3>1 DEF AppendRows
    <3>3. row \in audit
      <4>1. /\ \A new \in rows : new.id = nextId
            /\ \A r \in audit : r.id \in Nat /\ r.id < nextId
            /\ nextId \in Nat /\ row.id < other.id
        BY <2>0, <3>1, Zenon
      <4>2. other.id <= nextId
        BY <3>2, <4>1
      <4>3. row.id # nextId
        BY <4>1, <4>2, <3>2
      <4> QED
        BY <3>2, <4>1, <4>3
    <3>4. CASE other \in audit
      BY <2>1, <3>2, <3>3, <3>4
    <3>5. CASE other \in rows
      <4> DEFINE old == RowsOf(<<other.pkg, other.version>>, other.event)
      <4>1. row \in old /\ old \in SUBSET audit
        BY <3>3 DEF RowsOf
      <4>2. Newest(old).reason # other.reason
        BY <3>1, <3>5, <4>1
      <4>3. Newest(old) \in old /\ \A r \in old : r.id <= Newest(old).id
        <5> HIDE DEF old
        <5> QED
          BY <2>0, <4>1, NewestIsLatest DEF TypeOK
      <4> DEFINE between == Newest(old)
      <4>4. /\ between \in audit /\ between.pkg = row.pkg
            /\ between.version = row.version /\ between.event = row.event
        BY <4>3 DEF RowsOf
      <4>5. between.id # row.id
        BY <3>3, <4>2, <4>4 DEF Ordered
      <4>6. between.id > row.id /\ between.id < other.id
        <5> HIDE DEF old, between
        <5>1. row.id <= between.id
          BY <4>1, <4>3 DEF between
        <5>2. between.id \in Nat /\ between.id < nextId /\ row.id \in Nat
          BY <2>0, <3>3, <4>4
        <5>3. other.id = nextId
          BY <3>1, <3>5, Zenon
        <5> QED
          BY <4>5, <5>1, <5>2, <5>3
      <4> HIDE DEF between
      <4> QED
        BY <3>2, <4>2, <4>4, <4>6 DEF between
    <3> QED
      BY <3>2, <3>4, <3>5
  <2>6. CASE MaintainAudit
    <3>1. audit' = {r \in audit : r.ts >= clock - AuditRetention}
      BY <2>6 DEF MaintainAudit, PruneAudit
    <3>2. PICK between \in audit :
            /\ between.pkg = row.pkg /\ between.version = row.version
            /\ between.event = row.event
            /\ between.id > row.id /\ between.id < other.id
            /\ between.reason # row.reason
      BY <2>1, <3>1
    <3>3. row \in audit /\ row.ts <= between.ts + MaxLag
      BY <2>0, <3>1, <3>2 DEF Ordered
    <3>4. AuditRetention > 0 /\ row.ts + AuditRetention >= clock + MaxLag
      BY <2>6, <2>a, <3>3 DEF Settled, MaintainAudit
    <3>5. between.ts >= clock - AuditRetention
      BY <2>0, <3>2, <3>3, <3>4, StoreAssumption, StoreSpecAssumption
         DEF TypeOK, StoreTypeOK
    <3>6. between \in audit'
      BY <3>1, <3>2, <3>5
    <3> QED
      BY <3>2, <3>6
  <2>7. CASE UNCHANGED audit
    BY <2>1, <2>7
  <2> QED
    BY <2>1, <2>3, <2>4, <2>5, <2>6, <2>7, StepsOfTheLog
<1> QED
  BY <1>1, <1>2, TypeCorrect, OrderHolds, PTL DEF Spec

-----------------------------------------------------------------------------

(* What record_blocks does to the rows of one version and event: it adds    *)
(* the newest one, with the reported reason, or leaves them as they are.    *)
LEMMA ReportedRows ==
  ASSUME TypeOK, NEW at \in Moments, Ordered, NEW pkg \in Package,
         NEW blocked \in Partial(Version, GivenReasons), AuditBlocks(pkg, blocked, at),
         NEW rel \in Release, NEW event \in BlockEvents
  PROVE  \/ /\ RowsOf(rel, event)' = RowsOf(rel, event)
            /\ \/ reported'[<<rel, event>>] = reported[<<rel, event>>]
               \/ /\ RowsOf(rel, event) # {}
                  /\ Newest(RowsOf(rel, event)).reason = reported'[<<rel, event>>]
         \/ Newest(RowsOf(rel, event)').reason = reported'[<<rel, event>>]
<1> DEFINE new == {v \in DOMAIN blocked : ~Recorded(<<pkg, v>>, blocked[v])}
           RowFor(v) == Row(BlockEvent(blocked[v]), <<pkg, v>>, blocked[v], at)
           Concerned == rel[1] = pkg /\ rel[2] \in DOMAIN blocked
                          /\ BlockEvent(blocked[rel[2]]) = event
<1>1. audit' = audit \cup {RowFor(v) : v \in new}
  <2>1. CASE new = {}
    <3>1. audit' = audit
      BY <2>1, Zenon DEF AuditBlocks, RecordBlocks
    <3> QED
      BY <2>1, <3>1
  <2>2. CASE new # {}
    <3>1. AppendRows({RowFor(v) : v \in new})
      BY <2>2, Zenon DEF AuditBlocks, RecordBlocks
    <3> QED
      BY <3>1, Zenon DEF AppendRows
  <2> QED
    BY <2>1, <2>2
<1>2. \A v \in new :
        /\ RowFor(v).id = nextId /\ RowFor(v).event = BlockEvent(blocked[v])
        /\ RowFor(v).pkg = pkg /\ RowFor(v).version = v /\ RowFor(v).reason = blocked[v]
  BY DEF Row
<1>3. reported'[<<rel, event>>] =
        IF Concerned THEN blocked[rel[2]] ELSE reported[<<rel, event>>]
  <2>1. <<rel, event>> \in Subject
    BY DEF Subject
  <2> QED
    BY <2>1 DEF AuditBlocks
<1>4. \A row \in audit : row.id \in Nat /\ row.id < nextId
  BY DEF TypeOK, StoreTypeOK, AuditRow, Ordered
<1>5. nextId \in Nat
  BY DEF TypeOK, StoreTypeOK
<1>6. CASE Concerned /\ rel[2] \in new
  <2> DEFINE row == RowFor(rel[2])
  <2>1. row \in RowsOf(rel, event)'
    BY <1>1, <1>2, <1>6 DEF RowsOf
  <2>2. ASSUME NEW other \in RowsOf(rel, event)'
        PROVE  other.id \in Nat /\ (other # row => other.id < row.id)
    <3>1. CASE other \in audit
      BY <1>2, <1>4, <1>6, <3>1
    <3>2. CASE other \notin audit
      <4>1. PICK v \in new : other = RowFor(v)
        BY <1>1, <2>2, <3>2 DEF RowsOf
      <4>2. v = rel[2]
        BY <1>2, <2>2, <4>1 DEF RowsOf
      <4> QED
        BY <1>2, <1>5, <4>1, <4>2
    <3> QED
      BY <3>1, <3>2
  <2>3. row.reason = blocked[rel[2]]
    BY <1>2, <1>6
  <2> HIDE DEF row
  <2>4. Newest(RowsOf(rel, event)') = row
    BY <2>1, <2>2, NewestUnique
  <2> QED
    BY <1>3, <1>6, <2>3, <2>4
<1>7. CASE ~(Concerned /\ rel[2] \in new)
  <2>1. RowsOf(rel, event)' = RowsOf(rel, event)
    <3>1. \A v \in new :
            ~(RowFor(v).pkg = rel[1] /\ RowFor(v).version = rel[2]
                /\ RowFor(v).event = event)
      BY <1>2, <1>7
    <3> HIDE DEF RowFor, new
    <3> QED
      BY <1>1, <3>1 DEF RowsOf
  <2>2. CASE Concerned
    <3>1. Recorded(<<pkg, rel[2]>>, blocked[rel[2]])
      BY <1>7, <2>2
    <3>2. RowsOf(<<pkg, rel[2]>>, event) = RowsOf(rel, event)
      BY <2>2 DEF RowsOf
    <3> QED
      BY <1>3, <2>1, <2>2, <3>1, <3>2 DEF Recorded
  <2> QED
    BY <1>3, <2>1, <2>2
<1> QED
  BY <1>6, <1>7

(* The latest row kept for a version and event gives the verdict last       *)
(* reported.  Pruning may take it before another row of its version and     *)
(* event, but then that one is about to go.                                 *)
THEOREM LatestRowStaysCurrent == Spec => []LatestRowIsCurrent
<1>1. Init => LatestRowIsCurrent
  BY DEF Init, StoreInit, LatestRowIsCurrent, RowsOf
<1>2. TypeOK /\ Ordered /\ LatestRowIsCurrent /\ [Next]_specVars => LatestRowIsCurrent'
  <2> SUFFICES ASSUME TypeOK, Ordered, LatestRowIsCurrent, [Next]_specVars,
                      NEW rel \in Release, NEW event \in BlockEvents,
                      reported'[<<rel, event>>] # None, RowsOf(rel, event)' # {},
                      Settled(Newest(RowsOf(rel, event)))'
               PROVE  Newest(RowsOf(rel, event)').reason = reported'[<<rel, event>>]
    BY DEF LatestRowIsCurrent
  <2> DEFINE rows == RowsOf(rel, event)
             Reported == reported[<<rel, event>>]
  <2>0. rows # {} /\ Reported # None /\ Settled(Newest(rows)) =>
          Newest(rows).reason = Reported
    BY DEF LatestRowIsCurrent
  <2>a. \A r \in audit : r.id \in Nat /\ r.ts \in Nat /\ r.id < nextId
    BY DEF TypeOK, StoreTypeOK, AuditRow, Ordered
  <2>b. /\ clock \in Nat /\ AuditRetention \in Nat /\ MaxLag \in Nat
        /\ clock' = clock \/ clock' = clock + 1
    BY ClockMoves, StoreAssumption, StoreSpecAssumption DEF TypeOK, StoreTypeOK
  <2>c. rows \in SUBSET audit /\ \A r, other \in rows : r.id = other.id => r = other
    BY DEF Ordered, RowsOf
  <2>d. rows # {} => Newest(rows) \in rows /\ \A r \in rows : r.id <= Newest(rows).id
    <3> HIDE DEF rows
    <3> QED
      BY <2>a, <2>c, NewestIsLatest DEF TypeOK
  <2>e. ASSUME rows' = rows
        PROVE  Settled(Newest(rows))
    <3> DEFINE latest == Newest(rows)
    <3>1. latest' = latest
      BY <2>e
    <3>2. rows # {}
      BY <2>e
    <3>3. latest.ts \in Nat
      BY <2>a, <2>c, <2>d, <3>2
    <3>4. AuditRetention = 0 \/ latest.ts + AuditRetention >= clock' + MaxLag
      BY <3>1 DEF Settled
    <3> HIDE DEF latest, rows
    <3>5. Settled(latest)
      BY <2>b, <3>3, <3>4 DEF Settled
    <3> QED
      BY <3>5 DEF latest
  <2>1. ASSUME NEW at \in Moments,
               NEW pkg \in Package, NEW blocked \in Partial(Version, GivenReasons),
               AuditBlocks(pkg, blocked, at)
        PROVE  Newest(rows').reason = Reported'
    <3>1. \/ rows' = rows /\ Reported' = Reported
          \/ rows' = rows /\ Newest(rows).reason = Reported'
          \/ Newest(rows').reason = Reported'
      BY <2>1, ReportedRows
    <3> QED
      BY <2>0, <2>e, <3>1
  <2>2. ASSUME NEW row, AppendRows({row}), row.event \notin BlockEvents
        PROVE  rows' = rows
    BY <2>2 DEF AppendRows, RowsOf
  <2>3. ASSUME NEW at \in Moments,
               NEW r \in Release, NEW rule \in RecordedRules, AuditRule(r, rule, at)
        PROVE  rows' = rows /\ reported' = reported
    BY <2>2, <2>3, RuleRows DEF BlockEvents, AuditRule
  <2>4. ASSUME NEW at \in Moments, NEW pkg \in Package, AuditForeign(pkg, at)
        PROVE  rows' = rows /\ reported' = reported
    <3>1. CASE UNCHANGED <<audit, nextId>>
      BY <2>4, <3>1 DEF AuditForeign, RowsOf
    <3>2. CASE ~UNCHANGED <<audit, nextId>>
      BY <2>2, <2>4, <3>2, ForeignRows DEF BlockEvents, AuditForeign
    <3> QED
      BY <3>1, <3>2
  <2>5. ASSUME MaintainAudit, reported' = reported
        PROVE  Newest(rows').reason = Reported'
    <3>1. /\ audit' = {r \in audit : r.ts >= clock - AuditRetention}
          /\ AuditRetention > 0 /\ clock' = clock
      BY <2>5 DEF MaintainAudit, PruneAudit
    <3>2. rows' \in SUBSET rows /\ rows' # {} /\ rows # {}
      BY <3>1 DEF RowsOf
    <3>3. PICK latest \in rows : latest = Newest(rows) /\ \A r \in rows : r.id <= latest.id
      BY <2>d, <3>2
    <3>4. CASE latest \in rows'
      <4>1. \A r \in rows' : r.id \in Nat /\ (r # latest => r.id < latest.id)
        <5> HIDE DEF rows
        <5> QED
          BY <2>a, <2>c, <3>2, <3>3
      <4>2. Newest(rows') = latest
        <5> HIDE DEF rows
        <5> QED
          BY <3>4, <4>1, NewestUnique
      <4>3. Newest(rows)' = Newest(rows)
        BY <3>3, <4>2
      <4>4. Settled(Newest(rows))
        <5>1. Settled(latest)'
          BY <4>2
        <5> QED
          BY <3>1, <3>3, <5>1 DEF Settled
      <4> QED
        BY <2>0, <2>5, <3>2, <4>3, <4>4
    <3>5. CASE latest \notin rows'
      <4>1. latest \in audit /\ latest.ts \in Nat /\ ~(latest.ts >= clock - AuditRetention)
        BY <2>a, <3>1, <3>5 DEF RowsOf
      <4>2. PICK kept : kept = Newest(rows') /\ kept \in rows'
        <5>1. Newest(rows') \in rows'
          <6>1. audit' \in SUBSET audit /\ rows' \in SUBSET audit
            BY <3>1, <2>c, <3>2
          <6> HIDE DEF rows
          <6> QED
            BY <2>a, <2>c, <3>2, <6>1, NewestIsLatest DEF TypeOK
        <5> QED
          BY <5>1
      <4>3. kept \in audit /\ kept.ts \in Nat /\ kept.id < latest.id
        <5> HIDE DEF rows
        <5> QED
          BY <2>a, <2>c, <3>2, <3>3, <3>5, <4>2
      <4>4. kept.ts <= latest.ts + MaxLag
        BY <4>1, <4>3 DEF Ordered
      <4>5. kept.ts + AuditRetention >= clock + MaxLag
        <5>1. Settled(kept)'
          BY <4>2
        <5> QED
          BY <2>b, <3>1, <5>1 DEF Settled
      <4> QED
        BY <2>b, <4>1, <4>3, <4>4, <4>5
    <3> QED
      BY <3>4, <3>5
  <2>6. ASSUME audit' = audit, reported' = reported
        PROVE  rows' = rows /\ reported' = reported
    BY <2>6 DEF RowsOf
  <2>7. ASSUME rows' = rows, reported' = reported
        PROVE  Newest(rows').reason = Reported'
    BY <2>0, <2>7, <2>e
  <2>8. CASE Housekeeping
    BY <2>5, <2>6, <2>7, <2>8 DEF Housekeeping, MaintainSeen, Tick, tables
  <2>9. CASE UNCHANGED specVars
    BY <2>6, <2>7, <2>9 DEF specVars, storeVars
  <2>10. ASSUME NEW at \in Moments,
                NEW pkg \in Package, NEW ids \in Partial(Version, ServedIdentities),
                NEW bump \in BOOLEAN, Observe(pkg, ids, at, bump)
         PROVE  audit' = audit /\ reported' = reported
    BY <2>10 DEF Observe
  <2>11. ASSUME NEW r \in Release, NEW rule \in RecordedRules, SetRule(r, rule)
         PROVE  audit' = audit /\ reported' = reported
    BY <2>11 DEF SetRule
  <2> HIDE DEF rows, Reported
  <2> QED
    BY <2>1, <2>3, <2>4, <2>6, <2>7, <2>8, <2>9, <2>10, <2>11 DEF Next, rows, Reported
<1> QED
  BY <1>1, <1>2, TypeCorrect, OrderHolds, PTL DEF Spec

(* A package's foreign tarballs are reported once.                          *)
THEOREM ForeignReportedOnce == Spec => []ForeignOnce
<1>1. Init => ForeignOnce
  BY DEF Init, StoreInit, ForeignOnce
<1>2. TypeOK /\ ForeignOnce /\ [Next]_specVars => ForeignOnce'
  <2> SUFFICES ASSUME TypeOK, ForeignOnce, [Next]_specVars
               PROVE  ForeignOnce'
    OBVIOUS
  <2>1. ASSUME NEW at \in Moments,
               NEW rel \in Release, NEW rule \in RecordedRules, AuditRule(rel, rule, at)
        PROVE  ForeignOnce'
    BY <2>1, RuleRows DEF ForeignOnce, AppendRows
  <2>2. ASSUME NEW at \in Moments,
               NEW pkg \in Package, NEW blocked \in Partial(Version, GivenReasons),
               AuditBlocks(pkg, blocked, at), ~UNCHANGED <<audit, nextId>>
        PROVE  ForeignOnce'
    BY <2>2, BlockRows DEF ForeignOnce, AppendRows
  <2>3. ASSUME NEW at \in Moments,
               NEW pkg \in Package, AuditForeign(pkg, at), ~UNCHANGED <<audit, nextId>>
        PROVE  ForeignOnce'
    BY <2>3, ForeignRows DEF ForeignOnce, AppendRows, ForeignRecorded
  <2>4. CASE MaintainAudit
    BY <2>4 DEF MaintainAudit, PruneAudit, ForeignOnce
  <2>5. CASE UNCHANGED audit
    BY <2>5 DEF ForeignOnce
  <2> QED
    BY <2>1, <2>2, <2>3, <2>4, <2>5, StepsOfTheLog
<1> QED
  BY <1>1, <1>2, TypeCorrect, PTL DEF Spec

-----------------------------------------------------------------------------
(* The report (Reports).                                                    *)

(* Whoever is before row takes less room than there is: row is kept.        *)
LEMMA KeptIfFewBefore ==
  ASSUME NEW rows, IsFiniteSet(rows), NEW n \in Nat, NEW kept \in FirstOf(n, rows),
         NEW row \in rows, NEW before, IsFiniteSet(before), Cardinality(before) < n,
         \A other \in rows : other # row /\ ~Newer(row, other) => other \in before
  PROVE  row \in kept
<1> SUFFICES ASSUME row \notin kept
             PROVE  FALSE
  OBVIOUS
<1>1. /\ kept \in SUBSET rows
      /\ Cardinality(kept) = IF n < Cardinality(rows) THEN n ELSE Cardinality(rows)
      /\ \A other \in kept, cut \in rows \ kept : ~Newer(cut, other)
  BY Zenon DEF FirstOf
<1>2. kept \in SUBSET before
  BY <1>1
<1>3. Cardinality(kept) <= Cardinality(before)
  BY <1>2, FS_Subset
<1>4. Cardinality(rows) \in Nat /\ Cardinality(before) \in Nat
  BY FS_CardinalityType
<1>5. CASE n < Cardinality(rows)
  <2>1. Cardinality(kept) = n
    BY <1>1, <1>5
  <2> QED
    BY <1>3, <1>4, <2>1
<1>6. CASE ~(n < Cardinality(rows))
  <2>1. Cardinality(rows) = Cardinality(kept)
    BY <1>1, <1>6
  <2>2. rows = kept
    BY <1>1, <2>1, FS_Subset
  <2> QED
    BY <2>2
<1> QED
  BY <1>5, <1>6

(* One transaction appends finitely many rows, so the log is finite.        *)
LEMMA FewRows ==
  ASSUME IsFiniteSet(Version), NEW rows, \A row \in rows : row.version \in Version,
         \A row, other \in rows : row.version = other.version => row = other
  PROVE  IsFiniteSet(rows)
<1> DEFINE f == [row \in rows |-> row.version]
<1>1. f \in Injection(rows, Version)
  BY DEF Injection, IsInjective
<1> HIDE DEF f
<1> QED
  BY <1>1, FS_Injection

LEMMA LogIsFinite ==
  ASSUME IsFiniteSet(Version)
  PROVE  Spec => []IsFiniteSet(audit)
<1>1. Init => IsFiniteSet(audit)
  BY FS_EmptySet DEF Init, StoreInit
<1>2. TypeOK /\ IsFiniteSet(audit) /\ [Next]_specVars => IsFiniteSet(audit)'
  <2> SUFFICES ASSUME TypeOK, IsFiniteSet(audit), [Next]_specVars
               PROVE  IsFiniteSet(audit')
    OBVIOUS
  <2>1. ASSUME NEW rows, IsFiniteSet(rows), AppendRows(rows)
        PROVE  IsFiniteSet(audit')
    <3>1. audit' = audit \cup rows
      BY <2>1 DEF AppendRows
    <3> QED
      BY <2>1, <3>1, FS_Union
  <2>2. ASSUME NEW at \in Moments,
               NEW rel \in Release, NEW rule \in RecordedRules, AuditRule(rel, rule, at)
        PROVE  IsFiniteSet(audit')
    BY <2>1, <2>2, FS_Singleton DEF AuditRule, AppendRuleAudit
  <2>3. ASSUME NEW at \in Moments,
               NEW pkg \in Package, NEW blocked \in Partial(Version, GivenReasons),
               AuditBlocks(pkg, blocked, at)
        PROVE  IsFiniteSet(audit')
    <3>1. /\ DOMAIN blocked \subseteq Version
          /\ \A v \in DOMAIN blocked : blocked[v] \in Reasons
      BY PartialType, StoreSpecAssumption
    <3>2. RecordBlocks(pkg, blocked, at) /\ at \in Nat
      BY <2>3, MomentType DEF AuditBlocks
    <3>3. PICK rows \in SUBSET AuditRow : BlocksAppended(pkg, blocked, at, rows)
      BY <3>1, <3>2, RecordBlocksRows DEF TypeOK
    <3>4. /\ audit' = audit \cup rows
          /\ \A row \in rows : row.version \in Version
          /\ \A row, other \in rows : row.version = other.version => row = other
      BY <3>1, <3>3 DEF BlocksAppended
    <3>5. IsFiniteSet(rows)
      BY <3>4, FewRows
    <3> QED
      BY <3>4, <3>5, FS_Union
  <2>4. ASSUME NEW at \in Moments, NEW pkg \in Package, AuditForeign(pkg, at)
        PROVE  IsFiniteSet(audit')
    BY <2>1, <2>4, FS_Singleton DEF AuditForeign, AppendForeignOnce
  <2>5. CASE MaintainAudit
    <3>1. audit' \in SUBSET audit
      BY <2>5 DEF MaintainAudit, PruneAudit
    <3> QED
      BY <3>1, FS_Subset
  <2>6. CASE UNCHANGED audit
    BY <2>6
  <2> QED
    BY <2>2, <2>3, <2>4, <2>5, <2>6, StepsOfTheLog
<1> QED
  BY <1>1, <1>2, TypeCorrect, PTL DEF Spec

(* What recent_blocks answers with: an entry for each block it keeps of the *)
(* rows it reads.                                                           *)
Of(filter) == {row \in audit : filter = None \/ row.pkg = filter}

Blocks(rows) == {row \in rows : IsBlock(row)}

MadeOf(report, filter, limit) ==
  \E read, kept :
    /\ read \in FirstOf(ScanFactor * limit, Of(filter))
    /\ kept \in FirstOf(limit, Blocks(read))
    /\ report = {FromAudit(row) : row \in kept}

LEMMA ReportMade ==
  ASSUME NEW filter, NEW limit \in 1..MaxWanted, NEW report \in RecentBlocks(filter, limit)
  PROVE  MadeOf(report, filter, limit)
<1>1. (IF limit < MaxWanted THEN limit ELSE MaxWanted) = limit
  BY ReportsAssumption
<1>2. PICK reads : /\ reads = RecentAudit(filter, ScanFactor * limit)
                   /\ report \in BlocksAmong(reads, limit)
  BY <1>1, Zenon DEF RecentBlocks
<1>3. PICK kept \in UNION {FirstOf(limit, {row \in read : IsBlock(row)}) : read \in reads} :
        report = {FromAudit(row) : row \in kept}
  BY <1>2, Zenon DEF BlocksAmong
<1>4. PICK read \in reads : kept \in FirstOf(limit, {row \in read : IsBlock(row)})
  BY <1>3, Zenon
<1> QED
  BY <1>2, <1>3, <1>4, Zenon DEF RecentAudit, MadeOf, Of, Blocks

(* Whatever it reports is a row of the log.                                 *)
LEMMA ReportedIsRow ==
  ASSUME NEW filter, NEW limit \in 1..MaxWanted, NEW report \in RecentBlocks(filter, limit),
         NEW entry \in report
  PROVE  \E row \in audit : entry = FromAudit(row)
<1>0. MadeOf(report, filter, limit)
  BY ReportMade
<1>1. PICK read, kept :
        /\ read \in FirstOf(ScanFactor * limit, Of(filter))
        /\ kept \in FirstOf(limit, Blocks(read))
        /\ report = {FromAudit(row) : row \in kept}
  BY <1>0, Zenon DEF MadeOf
<1>3. kept \in SUBSET read /\ read \in SUBSET audit
  BY <1>1, Zenon DEF FirstOf, Of, Blocks
<1>4. PICK row \in kept : entry = FromAudit(row)
  BY <1>1
<1> QED
  BY <1>3, <1>4

(* What recent_blocks answers, as a row of the log sees it.                 *)
LEMMA ReportedIfFewBefore ==
  ASSUME IsFiniteSet(audit), NEW filter, NEW limit \in 1..MaxWanted,
         NEW report \in RecentBlocks(filter, limit),
         NEW row \in audit, filter = None \/ row.pkg = filter, IsBlock(row)
  PROVE  LET before == {other \in audit : /\ filter = None \/ other.pkg = filter
                                          /\ other # row /\ ~Newer(row, other)}
         IN  /\ Cardinality({other \in before : IsBlock(other)}) < limit
             /\ Cardinality(before) < ScanFactor * limit
             => FromAudit(row) \in report
<1> DEFINE rows   == Of(filter)
           before == {other \in audit : /\ filter = None \/ other.pkg = filter
                                        /\ other # row /\ ~Newer(row, other)}
           blocks == {other \in before : IsBlock(other)}
<1> SUFFICES ASSUME Cardinality(blocks) < limit, Cardinality(before) < ScanFactor * limit
             PROVE  FromAudit(row) \in report
  BY Zenon
<1>1. limit \in Nat /\ ScanFactor * limit \in Nat
  BY ReportsAssumption
<1>0. MadeOf(report, filter, limit)
  BY ReportMade
<1>2. PICK read, kept : /\ read \in FirstOf(ScanFactor * limit, rows)
                        /\ kept \in FirstOf(limit, Blocks(read))
                        /\ report = {FromAudit(other) : other \in kept}
  BY <1>0, Zenon DEF MadeOf
<1> DEFINE among == Blocks(read)
<1>3. /\ read \in FirstOf(ScanFactor * limit, rows)
      /\ kept \in FirstOf(limit, among)
      /\ report = {FromAudit(other) : other \in kept}
  BY <1>2
<1>4. rows \in SUBSET audit /\ before \in SUBSET audit /\ blocks \in SUBSET before
  BY DEF Of
<1>5. IsFiniteSet(rows) /\ IsFiniteSet(before) /\ IsFiniteSet(blocks)
  BY <1>4, FS_Subset
<1>6. row \in rows
  BY DEF Of
<1>7. \A other \in rows : other # row /\ ~Newer(row, other) => other \in before
  BY DEF Of
<1>8. \A other \in rows : other \in before /\ IsBlock(other) => other \in blocks
  BY DEF Of
<1> HIDE DEF rows, before, blocks
<1>9. row \in read
  BY <1>1, <1>2, <1>5, <1>6, <1>7, KeptIfFewBefore
<1>10. read \in SUBSET rows
  BY <1>3, Zenon DEF FirstOf
<1>11. IsFiniteSet(read)
  BY <1>5, <1>10, FS_Subset
<1>12. among \in SUBSET read /\ row \in among
  BY <1>9 DEF Blocks
<1>13. IsFiniteSet(among)
  BY <1>11, <1>12, FS_Subset
<1>14. \A other \in among : other # row /\ ~Newer(row, other) => other \in blocks
  BY <1>7, <1>8, <1>10 DEF Blocks
<1> HIDE DEF among
<1>15. row \in kept
  BY <1>1, <1>3, <1>5, <1>12, <1>13, <1>14, KeptIfFewBefore
<1> QED
  BY <1>3, <1>15

(* An entry is its row, but for a reason it does not know.                  *)
LEMMA EntryOfRow ==
  ASSUME NEW row \in AuditRow
  PROVE  LET entry == FromAudit(row)
         IN  /\ entry.pkg = row.pkg /\ entry.version = row.version
             /\ entry.event = row.event /\ entry.ts = row.ts
             /\ entry.reason = ParseReason(row.reason)
BY DEF FromAudit, AuditRow

(* The report has the verdict in force for as long as no more may come      *)
(* before it than are read and asked for, and nothing else it says of the   *)
(* version is younger by more than MaxLag.  It is the order of the log that *)
(* bounds what stands above the latest row, its latest row that carries the *)
(* verdict, and that it is finite makes a cut of it a number of rows.  A    *)
(* document has finitely many versions.                                     *)
THEOREM ReportStaysCurrent ==
  ASSUME IsFiniteSet(Version)
  PROVE  Spec => []ReportIsCurrent
<1>1. TypeOK /\ Ordered /\ IsFiniteSet(audit) /\ LatestRowIsCurrent => ReportIsCurrent
  <2> SUFFICES ASSUME TypeOK, Ordered, IsFiniteSet(audit), LatestRowIsCurrent,
                      NEW filter \in Package \cup {None}, NEW limit \in 1..MaxWanted,
                      NEW report \in RecentBlocks(filter, limit),
                      NEW rel \in Release, NEW event \in BlockEvents,
                      filter \in {None, rel[1]}, RowsOf(rel, event) # {}
               PROVE  CurrentFor(filter, limit, report, rel, event)
    BY Zenon DEF ReportIsCurrent
  <2> DEFINE kept   == RowsOf(rel, event)
             latest == Newest(kept)
             entry  == FromAudit(latest)
             about  == {other \in report :
                          <<other.pkg, other.version>> = rel /\ other.event = event}
             before == {row \in audit : /\ filter = None \/ row.pkg = filter
                                        /\ row # latest /\ ~Newer(latest, row)}
  <2>1. \A row \in audit :
          row.id \in Nat /\ row.ts \in Nat /\ row.id < nextId /\ row \in AuditRow
    BY DEF TypeOK, StoreTypeOK, AuditRow, Ordered
  <2>2. /\ kept \in SUBSET audit
        /\ \A row \in kept : row.pkg = rel[1] /\ row.version = rel[2] /\ row.event = event
        /\ \A row, other \in kept : row.id = other.id => row = other
    BY DEF RowsOf, Ordered
  <2>3. latest \in kept /\ \A row \in kept : row.id <= latest.id
    <3> HIDE DEF kept
    <3>1. kept # {}
      BY DEF kept
    <3> QED
      BY <2>1, <2>2, <3>1, NewestIsLatest DEF TypeOK
  <2>4. latest \in audit /\ IsBlock(latest) /\ (filter = None \/ latest.pkg = filter)
    <3> HIDE DEF kept, latest
    <3> QED
      BY <2>2, <2>3 DEF IsBlock
  <2>5. reported[<<rel, event>>] # None /\ Settled(latest) =>
          latest.reason = reported[<<rel, event>>]
    BY DEF LatestRowIsCurrent
  <2>6. /\ <<entry.pkg, entry.version>> = rel /\ entry.event = event
        /\ entry.ts = latest.ts /\ entry.reason = ParseReason(latest.reason)
    <3>1. rel = <<rel[1], rel[2]>>
      BY DEF Release
    <3> HIDE DEF kept, latest
    <3> QED
      BY <2>1, <2>2, <2>3, <2>4, <3>1, EntryOfRow
  <2>7. ASSUME Cardinality({row \in before : IsBlock(row)}) < limit,
               Cardinality(before) < ScanFactor * limit
        PROVE  entry \in about
    <3>1. entry \in report
      <4> HIDE DEF latest
      <4> QED
        BY <2>4, <2>7, ReportedIfFewBefore
    <3> HIDE DEF entry
    <3> QED
      BY <2>6, <3>1
  <2>8. ASSUME NEW other \in about
        PROVE  other.ts <= latest.ts + MaxLag
    <3>1. PICK row \in audit : other = FromAudit(row)
      BY ReportedIsRow
    <3>2. other.ts = row.ts /\ row \in kept
      BY <2>1, <3>1, EntryOfRow DEF RowsOf
    <3> HIDE DEF kept, latest, about
    <3>3. CASE row = latest
      BY <2>1, <3>2, <3>3, StoreSpecAssumption
    <3>4. CASE row # latest
      <4>1. row.id < latest.id
        BY <2>1, <2>2, <2>3, <3>2, <3>4
      <4> QED
        BY <2>4, <3>2, <4>1 DEF Ordered
    <3> QED
      BY <3>3, <3>4
  <2> HIDE DEF kept, latest, entry, about, before
  <2>9. /\ reported[<<rel, event>>] # None /\ Settled(latest) =>
             entry.reason = ParseReason(reported[<<rel, event>>])
        /\ \A other \in about : other.ts <= entry.ts + MaxLag
    BY <2>5, <2>6, <2>8
  <2> QED
    BY <2>7, <2>9, Zenon DEF CurrentFor, kept, latest, entry, about, before
<1>2. Spec => []IsFiniteSet(audit)
  BY LogIsFinite
<1> QED
  BY <1>1, <1>2, TypeCorrect, OrderHolds, LatestRowStaysCurrent, PTL
=============================================================================
