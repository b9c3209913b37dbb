---------------------------- MODULE DaemonProofs ----------------------------
(***************************************************************************)
(* Proofs about the daemon (Daemon): what it lets through and what it says  *)
(* of a version, what it holds at a time, which failures it reports, what   *)
(* its ledger and audit log can be relied on for, and that all it does to   *)
(* its tables is what StoreSpec allows.  They hold for any number of        *)
(* requests and operators, every history of upstream, and every hazard that *)
(* a theorem does not exclude by name.                                      *)
(***************************************************************************)
EXTENDS Daemon, StoreLemmas, FiniteSetTheorems

USE DEF Key, Release

(* What upstream serves for a key is one of its documents.                  *)
UpstreamOK ==
  \A key \in Key : upstream[key].at \in 1..Len(upstream[key].docs)

(* Where a request is under way, and where it has its document.             *)
Asked == RequestPcs \ {"idle", "answered"}

Loaded == {"fetched", "evaluate", "observe", "lookup", "foreign"}

(* A request under way knows what was asked for and, from the fetch on, has *)
(* the document.                                                            *)
RequestsOK ==
  \A r \in Request :
    /\ req[r].pc \in Asked => req[r].key \in Key
    /\ req[r].pc \in Loaded => req[r].doc \in Doc
    /\ Served(r) => req[r].key \in Key /\ req[r].doc \in Doc

(* A command knows its release and, once approved, the rule it writes.      *)
OperatorsOK ==
  \A o \in Operator :
    /\ oper[o].pc # "idle" => oper[o].rel \in Release
    /\ oper[o].pc \in {"record", "audit"} => oper[o].rule \in Rule

(* The types, strengthened by what each place of a request or a command     *)
(* relies on.                                                               *)
Typed == TypeOK /\ UpstreamOK /\ RequestsOK /\ OperatorsOK

(* The engine gives a reason or "allow".                                    *)
LEMMA DecideType ==
  ASSUME NEW pkg, NEW meta, NEW changed, NEW rule, NEW now
  PROVE  Decide(pkg, meta, changed, rule, now) \in Verdicts
BY DEF Decide, ApprovalVerdict, AutomaticVerdict, Verdicts, Reasons

(* A made-up deny lets nothing through, and neither does a changed identity. *)
LEMMA DenyNeverAllows ==
  ASSUME NEW pkg, NEW meta, NEW now
  PROVE  Decide(pkg, meta, FALSE, DenyRule, now) # "allow"
<1>1. DenyRule # None /\ DenyRule.verdict = "deny"
  BY NoneAssumption DEF DenyRule, Rule
<1> QED
  BY <1>1 DEF Decide

(* What is let through is let through as unchanged.                         *)
LEMMA AllowNeedsUnchanged ==
  ASSUME NEW pkg, NEW meta, NEW changed, NEW rule, NEW now,
         Decide(pkg, meta, changed, rule, now) = "allow"
  PROVE  ~changed /\ Decide(pkg, meta, FALSE, rule, now) = "allow"
BY DEF Decide

(* What is idle is well typed.                                              *)
LEMMA IdleType == IdleRequest \in RequestState /\ IdleOperator \in OperatorState
BY DEF IdleRequest, RequestState, RequestPcs, IdleOperator, OperatorState

(* Every state upstream goes through is a document, whose versions are well *)
(* typed.                                                                   *)
LEMMA HistoryType ==
  ASSUME NEW docs \in Histories
  PROVE  1 \in 1..Len(docs) /\ \A i \in 1..Len(docs) : docs[i] \in Doc
BY DaemonAssumption

LEMMA ServesType ==
  ASSUME TypeOK, UpstreamOK, NEW key \in Key
  PROVE  Serves(key) \in Doc
BY HistoryType DEF TypeOK, UpstreamOK, Serves

LEMMA VersionType ==
  ASSUME NEW doc \in Doc, NEW v \in InDoc(doc)
  PROVE  v \in Version /\ doc.versions[v] \in Meta
BY DEF InDoc, Doc

LEMMA IdentityType ==
  ASSUME NEW meta \in Meta
  PROVE  VersionIdentity(meta) \in Identity
BY DEF VersionIdentity, Meta, Identity

-----------------------------------------------------------------------------

(* One request's share of Typed.                                            *)
Fits(new) ==
  /\ new \in RequestState
  /\ new.pc \in Asked => new.key \in Key
  /\ new.pc \in Loaded => new.doc \in Doc
  /\ new.pc = "answered" /\ new.status = "ok" => new.key \in Key /\ new.doc \in Doc

(* A step that moves one request to a fitting state keeps everything typed. *)
LEMMA TypedStep ==
  ASSUME Typed, NEW r \in Request, NEW new, Fits(new),
         req' = [req EXCEPT ![r] = new], UNCHANGED <<upstream, control>>,
         StoreTypeOK', failure' \in BOOLEAN, cache' \in [Key -> Doc \cup {None}],
         slots' \subseteq Request
  PROVE  Typed'
<1>1. TypeOK'
  BY DEF Typed, TypeOK, Fits, control
<1>2. RequestsOK'
  BY DEF Typed, TypeOK, RequestsOK, Fits, Served
<1> QED
  BY <1>1, <1>2 DEF Typed, UpstreamOK, OperatorsOK, control

LEMMA FitsNow ==
  ASSUME Typed, NEW r \in Request
  PROVE  Fits(req[r])
BY DEF Typed, TypeOK, RequestsOK, Fits, Served

(* Past the fetch a step that leaves key and document alone leaves them fit. *)
LEMMA FitsSame ==
  ASSUME NEW old, Fits(old), old.pc \in Loaded, NEW new \in RequestState,
         new.pc \in Loaded, new.key = old.key, new.doc = old.doc
  PROVE  Fits(new)
BY DEF Fits, Asked, Loaded, RequestPcs

(* An answer fits, whoever of the clients is there to take it.              *)
LEMMA AnswerFits ==
  ASSUME Typed, NEW r \in Request, NEW status \in {"ok", "upstream", "malformed", "bad_gateway"},
         status = "ok" => req[r].pc \in Loaded,
         Answer(r, status)
  PROVE  \E new : Fits(new) /\ req' = [req EXCEPT ![r] = new]
<1>1. Fits(req[r]) /\ IdleRequest \in RequestState
  BY FitsNow, IdleType
<1>2. CASE ~req[r].client
  BY <1>1, <1>2 DEF Answer, Fits, Asked, Loaded, IdleRequest
<1>3. CASE req[r].client /\ status = "ok"
  BY <1>1, <1>3, ZenonT(30) DEF Answer, Fits, Asked, Loaded, RequestState, RequestPcs
<1>4. CASE req[r].client /\ status # "ok"
  <2> DEFINE new == [IdleRequest EXCEPT !.pc = "answered", !.status = status,
                                        !.faulted = req[r].faulted]
  <2>1. new \in RequestState /\ new.pc = "answered" /\ new.status # "ok"
    BY <1>1, <1>4 DEF Fits, RequestState, RequestPcs
  <2>2. Fits(new)
    BY <2>1 DEF Fits, Asked, Loaded
  <2>3. req' = [req EXCEPT ![r] = new]
    BY <1>4 DEF Answer
  <2> QED
    BY <2>2, <2>3
<1> QED
  BY <1>2, <1>3, <1>4

(* The identities that are observed and the verdicts that are reported.     *)
LEMMA IdentitiesType ==
  ASSUME NEW doc \in Doc
  PROVE  /\ DOMAIN Identities(doc) = InDoc(doc)
         /\ \A v \in InDoc(doc) : /\ Identities(doc)[v] = VersionIdentity(doc.versions[v])
                                  /\ Identities(doc)[v] \in Identity
BY VersionType, IdentityType DEF Identities

LEMMA BlockedType ==
  ASSUME NEW r \in Request, req[r].doc \in Doc,
         req[r].verdicts \in [Version -> Verdicts \cup {None}], Decided(r)
  PROVE  /\ DOMAIN Blocked(r) \subseteq Version
         /\ \A v \in DOMAIN Blocked(r) : Blocked(r)[v] \in Reasons
         /\ \A v \in InDoc(req[r].doc) : req[r].verdicts[v] \in Verdicts
<1>1. InDoc(req[r].doc) \subseteq Version
  BY DEF InDoc
<1>2. \A v \in InDoc(req[r].doc) : req[r].verdicts[v] \in Verdicts
  BY <1>1 DEF Decided, Pending
<1> QED
  BY <1>1, <1>2 DEF Blocked, Verdicts

(* Typed is inductive: one step for each action.                            *)
LEMMA TypedInductive == Typed /\ [Next]_vars => Typed'
<1> SUFFICES ASSUME Typed, [Next]_vars
             PROVE  Typed'
  OBVIOUS
<1>t. TypeOK /\ StoreTypeOK
  BY DEF Typed, TypeOK
<1>1. ASSUME NEW r \in Request, NEW key \in Key, Arrive(r, key)
      PROVE  Typed'
  <2> DEFINE new == [IdleRequest EXCEPT !.pc = "queued", !.key = key]
  <2>1. new \in RequestState /\ new.pc = "queued" /\ new.key = key
    BY IdleType DEF RequestState, RequestPcs
  <2>2. Fits(new)
    BY <2>1 DEF Fits, Loaded
  <2>3. req' = [req EXCEPT ![r] = new]
    BY <1>1 DEF Arrive
  <2> HIDE DEF new
  <2> QED
    BY <1>1, <1>t, <2>2, <2>3, TypedStep DEF Arrive, TypeOK, StoreTypeOK, storeVars
<1>2. ASSUME NEW r \in Request, AdmitHit(r)
      PROVE  Typed'
  <2>1. cache[req[r].key] \in Doc
    BY <1>2, <1>t, FitsNow DEF AdmitHit, Fits, Asked, RequestPcs, TypeOK
  <2> DEFINE new == [req[r] EXCEPT !.pc = "evaluate", !.cached = TRUE,
                                   !.doc = cache[req[r].key]]
  <2>2. Fits(new)
    BY <1>2, <2>1, FitsNow, ZenonT(30) DEF AdmitHit, Fits, Asked, RequestPcs, RequestState
  <2>3. req' = [req EXCEPT ![r] = new]
    BY <1>2 DEF AdmitHit
  <2> HIDE DEF new
  <2>4. slots' \subseteq Request
    BY <1>2, <1>t DEF AdmitHit, TypeOK
  <2> QED
    BY <1>2, <1>t, <2>2, <2>3, <2>4, TypedStep DEF AdmitHit, TypeOK, StoreTypeOK, storeVars
<1>3. ASSUME NEW r \in Request, AdmitMiss(r)
      PROVE  Typed'
  <2> DEFINE new == [req[r] EXCEPT !.pc = "fetch"]
  <2>2. Fits(new)
    BY <1>3, FitsNow DEF AdmitMiss, Fits, Asked, Loaded, RequestPcs, RequestState
  <2>3. req' = [req EXCEPT ![r] = new]
    BY <1>3 DEF AdmitMiss
  <2> HIDE DEF new
  <2> QED
    BY <1>3, <1>t, <2>2, <2>3, TypedStep DEF AdmitMiss, TypeOK, StoreTypeOK, storeVars
<1>4. ASSUME NEW r \in Request, Fetch(r)
      PROVE  Typed'
  <2> DEFINE new == [req[r] EXCEPT !.pc = "fetched", !.doc = Serves(req[r].key)]
  <2>1. Serves(req[r].key) \in Doc
    BY <1>4, FitsNow, ServesType DEF Fetch, Fits, Asked, RequestPcs, Typed
  <2>2. Fits(new)
    BY <1>4, <2>1, FitsNow, ZenonT(30) DEF Fetch, Fits, Asked, Loaded, RequestPcs, RequestState
  <2>3. req' = [req EXCEPT ![r] = new]
    BY <1>4 DEF Fetch
  <2> HIDE DEF new
  <2> QED
    BY <1>4, <1>t, <2>2, <2>3, TypedStep DEF Fetch, TypeOK, StoreTypeOK, storeVars
<1>5. ASSUME NEW r \in Request, FetchFails(r)
      PROVE  Typed'
  <2>1. PICK new : Fits(new) /\ req' = [req EXCEPT ![r] = new]
    BY <1>5, AnswerFits DEF FetchFails
  <2> QED
    BY <1>5, <1>t, <2>1, TypedStep DEF FetchFails, Answer, TypeOK, StoreTypeOK, storeVars
<1>6. ASSUME NEW r \in Request, CacheInsert(r)
      PROVE  Typed'
  <2> DEFINE new == [req[r] EXCEPT !.pc = "evaluate"]
  <2>2. Fits(new)
    BY <1>6, FitsNow DEF CacheInsert, Fits, Asked, Loaded, RequestPcs, RequestState
  <2>3. req' = [req EXCEPT ![r] = new]
    BY <1>6 DEF CacheInsert
  <2>4. cache' \in [Key -> Doc \cup {None}]
    BY <1>6, <1>t, FitsNow DEF CacheInsert, Fits, Loaded, TypeOK
  <2> HIDE DEF new
  <2> QED
    BY <1>6, <1>t, <2>2, <2>3, <2>4, TypedStep DEF CacheInsert, TypeOK, StoreTypeOK, storeVars
<1>7. ASSUME NEW r \in Request, BeginEvaluation(r)
      PROVE  Typed'
  <2> DEFINE new == [req[r] EXCEPT
                       !.pc = "observe", !.now = clock,
                       !.inforce = [v \in Version |-> {rules[<<req[r].key[1], v>>]}]]
  <2>1. [v \in Version |-> {rules[<<req[r].key[1], v>>]}]
          \in [Version -> SUBSET (Rule \cup {None})]
    BY <1>7, <1>t, FitsNow DEF BeginEvaluation, Fits, Asked, RequestPcs, StoreTypeOK
  <2>2. Fits(new)
    <3>1. req[r] \in RequestState /\ req[r].pc = "evaluate" /\ Fits(req[r]) /\ clock \in Nat
      BY <1>7, <1>t, FitsNow DEF BeginEvaluation, Fits, StoreTypeOK
    <3>2. /\ new \in RequestState /\ new.pc = "observe"
          /\ new.key = req[r].key /\ new.doc = req[r].doc
      BY <2>1, <3>1 DEF RequestState, RequestPcs
    <3> QED
      BY <3>1, <3>2, FitsSame DEF Loaded
  <2>3. req' = [req EXCEPT ![r] = new]
    BY <1>7 DEF BeginEvaluation
  <2> HIDE DEF new
  <2> QED
    BY <1>7, <1>t, <2>2, <2>3, TypedStep
       DEF BeginEvaluation, FailureAtStart, TypeOK, StoreTypeOK, storeVars
<1>8. ASSUME NEW r \in Request, Observe(r)
      PROVE  Typed'
  <2> DEFINE pkg == req[r].key[1]
             ids == Identities(req[r].doc)
             said == [v \in Version |-> v \in DOMAIN ids /\ LedgerChanged(<<pkg, v>>, ids[v])]
             new == [req[r] EXCEPT !.pc = "lookup", !.changed = said]
  <2>1. req[r].doc \in Doc /\ req[r].now \in Nat /\ req[r].cached \in BOOLEAN
    BY <1>8, FitsNow DEF Observe, Fits, Loaded, RequestState
  <2>2. said \in [Version -> BOOLEAN]
    BY DEF LedgerChanged
  <2>3. seen' \in [Release -> SeenRow \cup {None}]
    <3>1. ObserveBatch(pkg, ids, req[r].now, ~req[r].cached)
      BY <1>8 DEF Observe, ObserveDocument
    <3> HIDE DEF pkg, ids
    <3>2. \A v \in DOMAIN ids : ids[v] \in Identity
      BY <2>1, IdentitiesType DEF ids
    <3> QED
      BY <1>t, <2>1, <3>1, <3>2, ObserveBatchType
  <2>4. req' = [req EXCEPT ![r] = new]
    BY <1>8 DEF Observe, ObserveDocument
  <2> HIDE DEF said
  <2>5. Fits(req[r]) /\ req[r] \in RequestState /\ req[r].pc = "observe"
    BY <1>8, FitsNow DEF Observe, Fits
  <2>6. /\ new \in RequestState /\ new.pc = "lookup"
        /\ new.key = req[r].key /\ new.doc = req[r].doc
    BY <2>2, <2>5 DEF RequestState, RequestPcs
  <2> HIDE DEF new
  <2>7. Fits(new)
    BY <2>5, <2>6, FitsSame DEF Loaded
  <2> QED
    BY <1>8, <1>t, <2>3, <2>4, <2>7, TypedStep DEF Observe, TypeOK, StoreTypeOK
<1>9. ASSUME NEW r \in Request, ObserveFails(r)
      PROVE  Typed'
  <2> DEFINE said == [v \in Version |-> v \in InDoc(req[r].doc)]
             new == [req[r] EXCEPT !.pc = "lookup", !.faulted = TRUE, !.changed = said]
  <2>1. said \in [Version -> BOOLEAN]
    OBVIOUS
  <2>2. req' = [req EXCEPT ![r] = new]
    BY <1>9 DEF ObserveFails
  <2> HIDE DEF said
  <2>3. Fits(new)
    BY <1>9, <2>1, FitsNow, ZenonT(30) DEF ObserveFails, Fits, Asked, Loaded, RequestPcs, RequestState
  <2> HIDE DEF new
  <2> QED
    BY <1>9, <1>t, <2>2, <2>3, TypedStep DEF ObserveFails, TypeOK, StoreTypeOK, storeVars
<1>10. ASSUME NEW r \in Request, RejectMalformed(r)
       PROVE  Typed'
  <2>1. PICK new : Fits(new) /\ req' = [req EXCEPT ![r] = new]
    BY <1>10, AnswerFits DEF RejectMalformed
  <2> QED
    BY <1>10, <1>t, <2>1, TypedStep
       DEF RejectMalformed, Answer, TypeOK, StoreTypeOK, storeVars
<1>11. ASSUME NEW r \in Request, NEW v \in Version, NEW verdict \in Verdicts,
              NEW faulted \in BOOLEAN, req[r].pc = "lookup",
              req' = [req EXCEPT ![r].faulted = faulted, ![r].verdicts[v] = verdict],
              UNCHANGED <<storeVars, upstream, cache, slots, control>>,
              failure' \in BOOLEAN
       PROVE  Typed'
  <2> DEFINE new == [req[r] EXCEPT !.faulted = faulted, !.verdicts[v] = verdict]
  <2>3. Fits(req[r]) /\ req[r] \in RequestState
    BY FitsNow DEF Fits
  <2>4. /\ new \in RequestState /\ new.pc = "lookup"
        /\ new.key = req[r].key /\ new.doc = req[r].doc
    BY <1>11, <2>3 DEF RequestState, RequestPcs
  <2>1. Fits(new)
    BY <1>11, <2>3, <2>4, FitsSame DEF Loaded
  <2>2. req' = [req EXCEPT ![r] = new]
    BY <1>11
  <2> HIDE DEF new
  <2> QED
    BY <1>11, <1>t, <2>1, <2>2, TypedStep DEF TypeOK, StoreTypeOK, storeVars
<1>12. ASSUME NEW r \in Request, Lookup(r)
       PROVE  Typed'
  <2>1. NextVersion(r) \in Version
    BY <1>12 DEF Lookup, NextVersion, Pending, InDoc
  <2> DEFINE verdict == Decide(req[r].key[1], req[r].doc.versions[NextVersion(r)],
                               req[r].changed[NextVersion(r)],
                               RuleFor(req[r].key[1], NextVersion(r)), req[r].now)
  <2>2. verdict \in Verdicts
    BY DecideType
  <2>3. req' = [req EXCEPT ![r].verdicts[NextVersion(r)] = verdict]
    BY <1>12 DEF Lookup
  <2> HIDE DEF verdict
  <2>4. req[r].faulted \in BOOLEAN /\ req[r] \in RequestState /\ req[r].pc = "lookup"
    BY <1>12, FitsNow DEF Fits, RequestState, Lookup
  <2>5. req' = [req EXCEPT ![r].faulted = req[r].faulted,
                           ![r].verdicts[NextVersion(r)] = verdict]
    BY <1>t, <2>3, <2>4 DEF RequestState, TypeOK
  <2> QED
    <3>1. UNCHANGED <<storeVars, upstream, cache, slots, control>> /\ failure' \in BOOLEAN
      BY <1>12, <1>t DEF Lookup, TypeOK
    <3> QED
      BY <1>11, <2>1, <2>2, <2>4, <2>5, <3>1
<1>13. ASSUME NEW r \in Request, LookupFails(r)
       PROVE  Typed'
  <2>1. NextVersion(r) \in Version
    BY <1>13 DEF LookupFails, NextVersion, Pending, InDoc
  <2>2. PICK verdict \in Verdicts :
          req' = [req EXCEPT ![r].faulted = TRUE, ![r].verdicts[NextVersion(r)] = verdict]
    BY <1>13, DecideType DEF LookupFails
  <2> QED
    BY <1>11, <1>13, <2>1, <2>2 DEF LookupFails
<1>14. ASSUME NEW r \in Request, ReportFailure(r)
       PROVE  Typed'
  <2>1. PICK new : Fits(new) /\ req' = [req EXCEPT ![r] = new]
    BY <1>14, AnswerFits DEF ReportFailure
  <2> QED
    BY <1>14, <1>t, <2>1, TypedStep DEF ReportFailure, Answer, TypeOK, StoreTypeOK, storeVars
<1>15. ASSUME NEW r \in Request, ReportBlocks(r)
       PROVE  Typed'
  <2>1. req[r].pc = "lookup" /\ Decided(r)
    BY <1>15 DEF ReportBlocks, Decided
  <2>2. req[r] \in RequestState /\ req[r].key \in Key /\ req[r].doc \in Doc
    BY <2>1, FitsNow DEF Fits, Asked, Loaded, RequestPcs
  <2>3. audit' \subseteq AuditRow /\ nextId' \in Nat
    <3>1. CASE UNCHANGED <<audit, nextId>>
      BY <1>t, <3>1 DEF StoreTypeOK
    <3>2. CASE RecordBlocks(req[r].key[1], Blocked(r), req[r].now)
      <4>1. /\ DOMAIN Blocked(r) \subseteq Version
            /\ \A v \in DOMAIN Blocked(r) : Blocked(r)[v] \in Reasons
        BY <2>1, <2>2, BlockedType DEF RequestState
      <4>2. req[r].key[1] \in Package /\ req[r].now \in Nat
        BY <2>2 DEF RequestState
      <4>3. PICK rows \in SUBSET AuditRow :
              BlocksAppended(req[r].key[1], Blocked(r), req[r].now, rows)
        BY <1>t, <3>2, <4>1, <4>2, RecordBlocksRows
      <4> QED
        BY <1>t, <4>3 DEF BlocksAppended, StoreTypeOK
    <3> QED
      BY <1>15, <3>1, <3>2 DEF ReportBlocks
  <2>4. \E new : Fits(new) /\ req' = [req EXCEPT ![r] = new]
    <3>1. CASE NotesForeign(r)
      <4> DEFINE new == [req[r] EXCEPT !.pc = "foreign"]
      <4>1. Fits(new)
        BY <2>1, FitsNow DEF Fits, Asked, Loaded, RequestPcs, RequestState
      <4>2. req' = [req EXCEPT ![r] = new]
        BY <1>15, <3>1 DEF ReportBlocks
      <4> QED
        BY <4>1, <4>2
    <3>2. CASE ~NotesForeign(r)
      BY <1>15, <2>1, <3>2, AnswerFits DEF ReportBlocks, Loaded
    <3> QED
      BY <3>1, <3>2
  <2>5. slots' \subseteq Request
    BY <1>15, <1>t DEF ReportBlocks, Answer, TypeOK
  <2> QED
    BY <1>15, <1>t, <2>3, <2>4, <2>5, TypedStep DEF ReportBlocks, TypeOK, StoreTypeOK
<1>16. ASSUME NEW r \in Request, NoteForeign(r)
       PROVE  Typed'
  <2>1. req[r] \in RequestState /\ req[r].key \in Key
    BY <1>16, FitsNow DEF NoteForeign, Fits, Asked, RequestPcs
  <2>2. audit' \subseteq AuditRow /\ nextId' \in Nat
    <3>1. Row("foreign_tarball", <<req[r].key[1], None>>, None, req[r].now) \in AuditRow
      BY <1>t, <2>1, ForeignRow DEF StoreTypeOK, RequestState
    <3> QED
      BY <1>16, <1>t, <3>1 DEF NoteForeign, AppendForeignOnce, AppendRows, StoreTypeOK
  <2>3. PICK new : Fits(new) /\ req' = [req EXCEPT ![r] = new]
    BY <1>16, AnswerFits DEF NoteForeign, Loaded
  <2> QED
    BY <1>16, <1>t, <2>2, <2>3, TypedStep DEF NoteForeign, Answer, TypeOK, StoreTypeOK
<1>17. ASSUME NEW r \in Request, Disconnect(r)
       PROVE  Typed'
  <2> DEFINE new == IF OnPool(r) THEN [req[r] EXCEPT !.client = FALSE] ELSE IdleRequest
  <2>1. Fits(new)
    <3>1. CASE OnPool(r)
      <4>1. Fits(req[r]) /\ req[r] \in RequestState /\ req[r].pc \in Loaded
        BY <3>1, FitsNow DEF Fits, OnPool, Evaluating, Loaded
      <4>2. /\ new \in RequestState /\ new.pc = req[r].pc
            /\ new.key = req[r].key /\ new.doc = req[r].doc
        BY <3>1, <4>1 DEF RequestState
      <4> HIDE DEF new
      <4> QED
        BY <4>1, <4>2, FitsSame
    <3>2. CASE ~OnPool(r)
      BY <3>2, IdleType DEF Fits, Asked, Loaded, IdleRequest
    <3> QED
      BY <3>1, <3>2
  <2>2. req' = [req EXCEPT ![r] = new]
    BY <1>17 DEF Disconnect
  <2> HIDE DEF new
  <2> QED
    BY <1>17, <1>t, <2>1, <2>2, TypedStep DEF Disconnect, TypeOK, StoreTypeOK, storeVars
<1>18. ASSUME NEW o \in Operator, NEW new \in OperatorState,
              new.pc # "idle" => new.rel \in Release,
              new.pc \in {"record", "audit"} => new.rule \in Rule,
              oper' = [oper EXCEPT ![o] = new], UNCHANGED <<failure, upstream, path>>,
              commands' \in 0..MaxCommands, StoreTypeOK'
       PROVE  Typed'
  <2>1. TypeOK'
    BY <1>18, <1>t DEF TypeOK, path
  <2>2. OperatorsOK'
    BY <1>18, <1>t DEF Typed, OperatorsOK, TypeOK
  <2> QED
    BY <1>18, <2>1, <2>2 DEF Typed, UpstreamOK, RequestsOK, Served, path
<1>19. ASSUME NEW o \in Operator, NEW rel \in Release, StartAllow(o, rel)
       PROVE  Typed'
  <2> DEFINE new == [pc |-> "fetch", rel |-> rel, rule |-> None]
  <2>1. new \in OperatorState
    BY DEF OperatorState
  <2>2. commands' \in 0..MaxCommands
    BY <1>19, <1>t, DaemonAssumption DEF StartAllow, TypeOK
  <2> QED
    BY <1>18, <1>19, <1>t, <2>1, <2>2 DEF StartAllow, StoreTypeOK, storeVars
<1>20. ASSUME NEW o \in Operator, NEW rel \in Release, StartDeny(o, rel)
       PROVE  Typed'
  <2> DEFINE new == [pc |-> "record", rel |-> rel, rule |-> DenyRule]
  <2>1. new \in OperatorState /\ new.rule \in Rule
    BY DenyRuleType DEF OperatorState
  <2>2. commands' \in 0..MaxCommands
    BY <1>20, <1>t, DaemonAssumption DEF StartDeny, TypeOK
  <2> QED
    BY <1>18, <1>20, <1>t, <2>1, <2>2 DEF StartDeny, StoreTypeOK, storeVars
<1>21. ASSUME NEW o \in Operator, Command(o)
       PROVE  Typed'
  <2>0. /\ oper[o] \in OperatorState /\ commands \in 0..MaxCommands
        /\ oper[o].pc # "idle" => oper[o].rel \in Release
        /\ oper[o].pc \in {"record", "audit"} => oper[o].rule \in Rule
    BY <1>t DEF Typed, OperatorsOK, TypeOK
  <2>i. IdleOperator \in OperatorState /\ IdleOperator.pc = "idle"
    BY IdleType DEF IdleOperator
  <2>1. CASE FetchForAllow(o)
    <3>0. oper[o].rel \in Release
      BY <2>0, <2>1 DEF FetchForAllow
    <3> DEFINE rule == Approvable(oper[o].rel)
               new == IF rule = None THEN IdleOperator
                      ELSE [oper[o] EXCEPT !.pc = "record", !.rule = rule]
    <3>1. rule # None => rule \in Rule
      <4>1. <<oper[o].rel[1], Anonymous>> \in Key
        BY <3>0, DaemonAssumption
      <4>2. Serves(<<oper[o].rel[1], Anonymous>>) \in Doc
        BY <4>1, ServesType DEF Typed
      <4>3. Serves(<<oper[o].rel[1], Anonymous>>).versions[oper[o].rel[2]] \in Meta \cup {None}
        BY <3>0, <4>2 DEF Doc
      <4> QED
        BY <4>3, AllowRuleType DEF Approvable
    <3>2. oper' = [oper EXCEPT ![o] = new]
      BY <2>1 DEF FetchForAllow
    <3> HIDE DEF rule
    <3>3. /\ new \in OperatorState
          /\ new.pc # "idle" => new.rel \in Release /\ new.rule \in Rule
      BY <2>0, <2>i, <3>0, <3>1 DEF OperatorState
    <3> HIDE DEF new
    <3> QED
      BY <1>18, <1>t, <2>0, <2>1, <3>2, <3>3 DEF FetchForAllow, StoreTypeOK, storeVars
  <2>2. CASE CommitRule(o)
    <3>0. /\ oper[o].pc = "record" /\ oper[o].rel \in Release /\ oper[o].rule \in Rule
          /\ oper[o].rel[1] \in Package /\ oper[o].rel[2] \in Version
      BY <2>0, <2>2 DEF CommitRule
    <3>1. StoreTypeOK'
      BY <1>t, <2>2, <3>0 DEF CommitRule, RecordRule, StoreTypeOK
    <3>2. ASSUME NEW r \in Request
          PROVE  /\ req'[r] \in RequestState /\ req'[r].pc = req[r].pc
                 /\ req'[r].key = req[r].key /\ req'[r].doc = req[r].doc
                 /\ req'[r].status = req[r].status
      <4>0. req[r] \in RequestState
        BY <1>t DEF TypeOK
      <4> DEFINE new == [req[r] EXCEPT !.inforce[oper[o].rel[2]] = @ \cup {oper[o].rule}]
      <4>1. req'[r] = new \/ req'[r] = req[r]
        BY <2>2 DEF CommitRule
      <4>2. /\ new \in RequestState /\ new.pc = req[r].pc /\ new.key = req[r].key
            /\ new.doc = req[r].doc /\ new.status = req[r].status
        BY <3>0, <4>0 DEF RequestState
      <4> HIDE DEF new
      <4> QED
        BY <4>0, <4>1, <4>2
    <3>3. req' \in [Request -> RequestState]
      <4>1. \E f : req' = [r \in Request |-> f[r]]
        <5> DEFINE f == [r \in Request |->
                 IF Evaluating(r) /\ req[r].key[1] = oper[o].rel[1]
                 THEN [req[r] EXCEPT !.inforce[oper[o].rel[2]] = @ \cup {oper[o].rule}]
                 ELSE req[r]]
        <5>1. req' = f /\ f = [r \in Request |-> f[r]]
          BY <2>2, Zenon DEF CommitRule
        <5> QED
          BY <5>1
      <4> QED
        BY <3>2, <4>1
    <3>4. RequestsOK'
      BY <3>2 DEF Typed, RequestsOK, Served
    <3>5. oper' = [oper EXCEPT ![o].pc = "audit"]
      BY <2>2 DEF CommitRule
    <3>6. oper' \in [Operator -> OperatorState]
      BY <1>t, <2>0, <3>5 DEF OperatorState, TypeOK
    <3>7. OperatorsOK'
      BY <1>t, <2>0, <3>0, <3>5 DEF Typed, OperatorsOK, TypeOK, OperatorState
    <3> QED
      BY <1>t, <2>2, <3>1, <3>3, <3>4, <3>6, <3>7
         DEF CommitRule, Typed, TypeOK, UpstreamOK
  <2>3. CASE CommitRuleAudit(o)
    <3>1. audit' \subseteq AuditRow /\ nextId' \in Nat
      BY <1>t, <2>0, <2>3, RuleRow
         DEF CommitRuleAudit, AuditOf, AppendRuleAudit, AppendRows, StoreTypeOK
    <3> QED
      BY <1>18, <1>t, <2>0, <2>i, <2>3, <3>1 DEF CommitRuleAudit, StoreTypeOK
  <2>4. CASE CommandFails(o)
    BY <1>18, <1>t, <2>0, <2>i, <2>4 DEF CommandFails, StoreTypeOK, storeVars
  <2> QED
    BY <1>21, <2>1, <2>2, <2>3, <2>4 DEF Command
<1>22. CASE Maintain
  <2>1. StoreTypeOK'
    BY <1>t, <1>22 DEF Maintain, MaintainAudit, PruneAudit, MaintainSeen, PruneSeen, StoreTypeOK
  <2> QED
    BY <1>22, <2>1
       DEF Maintain, Typed, TypeOK, UpstreamOK, RequestsOK, OperatorsOK, Served, path, control
<1>23. ASSUME NEW key \in Key, Republish(key)
       PROVE  Typed'
  <2>1. /\ upstream' \in [Key -> [docs : Histories, at : Nat]]
        /\ UpstreamOK'
    <3>1. \A k \in Key : upstream[k] \in [docs : Histories, at : Nat]
                           /\ upstream[k].at \in 1..Len(upstream[k].docs)
                           /\ Len(upstream[k].docs) \in Nat
      BY <1>t, DaemonAssumption DEF Typed, TypeOK, UpstreamOK
    <3> QED
      BY <1>23, <1>t, <3>1 DEF Republish, TypeOK, UpstreamOK
  <2>2. StoreTypeOK'
    BY <1>23, <1>t DEF Republish, StoreTypeOK, storeVars
  <2> QED
    BY <1>23, <2>1, <2>2
       DEF Republish, Typed, TypeOK, RequestsOK, OperatorsOK, Served, path, control
<1>24. CASE DayPasses
  <2>1. StoreTypeOK'
    BY <1>24, <1>t DEF DayPasses, Tick, tables, StoreTypeOK
  <2> QED
    BY <1>24, <2>1
       DEF DayPasses, Typed, TypeOK, UpstreamOK, RequestsOK, OperatorsOK, Served, control
<1>25. CASE Crash
  <2>1. StoreTypeOK'
    BY <1>25, <1>t DEF Crash, StoreTypeOK, storeVars
  <2>2. TypeOK'
    BY <1>25, <2>1, IdleType DEF Crash, Typed, TypeOK
  <2>3. RequestsOK' /\ OperatorsOK'
    BY <1>25 DEF Crash, RequestsOK, OperatorsOK, Served, IdleRequest, IdleOperator, Asked, Loaded
  <2> QED
    BY <1>25, <2>2, <2>3 DEF Crash, Typed, UpstreamOK
<1>26. CASE UNCHANGED vars
  BY <1>26 DEF vars, storeVars, path, control, Typed, TypeOK, StoreTypeOK, UpstreamOK,
               RequestsOK, OperatorsOK, Served
<1>27. ASSUME NEW r \in Request, Handler(r) \/ Evaluation(r)
       PROVE  Typed'
  BY <1>2, <1>3, <1>4, <1>5, <1>6, <1>7, <1>8, <1>9, <1>10, <1>12, <1>13, <1>14, <1>15, <1>16,
     <1>27, Zenon DEF Handler, Evaluation
<1> QED
  BY <1>1, <1>17, <1>19, <1>20, <1>21, <1>22, <1>23, <1>24, <1>25, <1>26, <1>27, Zenon DEF Next

(* Every state of the daemon is well typed, whatever the environment does.  *)
THEOREM AlwaysTyped == Spec => []Typed
<1>1. Init => Typed
  <2> SUFFICES ASSUME Init
               PROVE  Typed
    OBVIOUS
  <2>1. StoreTypeOK
    BY DEF Init, StoreInit, StoreTypeOK
  <2>2. /\ \A key \in Key : \E docs \in Histories : upstream[key] = [docs |-> docs, at |-> 1]
        /\ upstream = [key \in Key |-> upstream[key]]
    BY DEF Init
  <2>3. \A key \in Key : /\ upstream[key] \in [docs : Histories, at : Nat]
                         /\ upstream[key].at \in 1..Len(upstream[key].docs)
    BY <2>2, HistoryType
  <2>4. UpstreamOK /\ upstream \in [Key -> [docs : Histories, at : Nat]]
    BY <2>2, <2>3 DEF UpstreamOK
  <2>5. req = [r \in Request |-> IdleRequest] /\ IdleRequest.pc = "idle"
    BY DEF Init, IdleRequest
  <2>6. RequestsOK
    BY <2>5 DEF RequestsOK, Served, Asked, Loaded
  <2>7. oper = [o \in Operator |-> IdleOperator] /\ IdleOperator.pc = "idle"
    BY DEF Init, IdleOperator
  <2>8. OperatorsOK
    BY <2>7 DEF OperatorsOK
  <2>9. TypeOK
    <3>1. cache \in [Key -> Doc \cup {None}] /\ slots \subseteq Request /\ failure \in BOOLEAN
      BY DEF Init
    <3>2. commands \in 0..MaxCommands
      BY DaemonAssumption DEF Init
    <3>3. req \in [Request -> RequestState] /\ oper \in [Operator -> OperatorState]
      BY <2>5, <2>7, IdleType
    <3> QED
      BY <2>1, <2>4, <3>1, <3>2, <3>3 DEF TypeOK
  <2> QED
    BY <2>4, <2>6, <2>8, <2>9 DEF Typed
<1> QED
  BY <1>1, TypedInductive, PTL DEF Spec

(* Every state of the daemon has the types the runs check.                  *)
THEOREM TypeCorrect == Spec => []TypeOK
BY AlwaysTyped, PTL DEF Typed

-----------------------------------------------------------------------------
(* What a step means for one request.                                       *)

(* No verdict is there before the lookups.                                  *)
Undecided ==
  \A r \in Request :
    req[r].pc \notin {"lookup", "foreign", "answered"} =>
      \A v \in Version : req[r].verdicts[v] = None

(* Nothing has been evaluated, or what was is forgotten.                    *)
Blank(x) ==
  /\ req[x].pc \notin {"observe", "lookup", "foreign"}
  /\ ~Served(x)
  /\ \A v \in Version : req[x].verdicts[v] = None

(* The step leaves the request blank, and no more faulted than it was.      *)
Erased(x) == Blank(x)' /\ (req'[x].faulted => req[x].faulted)

(* The evaluation stands as it was; a rule recorded meanwhile is in force.  *)
Stands(x) ==
  /\ req'[x].key = req[x].key /\ req'[x].doc = req[x].doc
  /\ req'[x].now = req[x].now /\ req'[x].changed = req[x].changed
  /\ req'[x].verdicts = req[x].verdicts /\ req'[x].faulted = req[x].faulted
  /\ \A v \in Version : req[x].inforce[v] \subseteq req'[x].inforce[v]
  /\ \A v \in Version : Evaluating(x) =>
       \/ rules'[<<req[x].key[1], v>>] = rules[<<req[x].key[1], v>>]
       \/ rules'[<<req[x].key[1], v>>] \in req'[x].inforce[v]
  /\ req'[x].pc # "answered" => req'[x].cached = req[x].cached
  /\ \/ req'[x].pc = req[x].pc /\ req'[x].status = req[x].status
     \/ /\ Decided(x) \/ req[x].pc = "foreign"
        /\ req'[x].pc \in {"foreign", "answered"}

(* Another's step leaves the request and the rules as they are.             *)
Same(x) == req'[x] = req[x] /\ rules' = rules

LEMMA SameStands ==
  ASSUME NEW x \in Request, Same(x)
  PROVE  Stands(x)
BY DEF Same, Stands

LEMMA BlankIdle ==
  ASSUME NEW x \in Request, req'[x].pc \in {"idle", "queued", "answered"},
         req'[x].pc = "answered" => req'[x].status # "ok",
         req'[x].verdicts = IdleRequest.verdicts
  PROVE  Blank(x)'
BY DEF IdleRequest, Blank, Served

(* An answer keeps the evaluation or gives none.                            *)
LEMMA AnswerMeans ==
  ASSUME Typed, NEW r \in Request, NEW status \in {"ok", "upstream", "malformed", "bad_gateway"},
         req[r].pc \in Asked, status = "ok" => Decided(r) \/ req[r].pc = "foreign",
         Answer(r, status), rules' = rules
  PROVE  Erased(r) \/ Stands(r)
<1>0. IdleRequest \in RequestState /\ req[r] \in RequestState /\ req' = [req EXCEPT ![r] = req'[r]]
  BY IdleType DEF Typed, TypeOK, Answer
<1>1. CASE ~req[r].client
  <2>1. req'[r] = IdleRequest
    BY <1>0, <1>1 DEF Answer, Typed, TypeOK
  <2> QED
    BY <2>1 DEF Erased, Blank, Served, IdleRequest
<1>2. CASE req[r].client /\ status = "ok"
  <2>1. req'[r] = [req[r] EXCEPT !.pc = "answered", !.status = status, !.cached = FALSE]
    BY <1>2 DEF Answer, Typed, TypeOK
  <2> QED
    BY <1>0, <1>2, <2>1 DEF Stands, RequestState
<1>3. CASE req[r].client /\ status # "ok"
  <2>1. req'[r] = [IdleRequest EXCEPT !.pc = "answered", !.status = status,
                                      !.faulted = req[r].faulted]
    BY <1>3 DEF Answer, Typed, TypeOK
  <2>2. /\ req'[r].pc = "answered" /\ req'[r].status = status
        /\ req'[r].verdicts = IdleRequest.verdicts /\ req'[r].faulted = req[r].faulted
    BY <1>0, <2>1 DEF RequestState
  <2> QED
    BY <1>3, <2>2, BlankIdle DEF Erased
<1> QED
  BY <1>1, <1>2, <1>3

(* What concerns one request leaves the others as they were.                *)
RequestStep(r) ==
  (\E key \in Key : Arrive(r, key)) \/ Handler(r) \/ Evaluation(r) \/ Disconnect(r)

(* A step of one request means nothing to another.                          *)
LEMMA OthersSame ==
  ASSUME Typed, NEW x \in Request, NEW r \in Request, r # x, RequestStep(r)
  PROVE  Same(x)
<1>t. req \in [Request -> RequestState] /\ req[x] \in RequestState
  BY DEF Typed, TypeOK
<1>1. CASE \E key \in Key : Arrive(r, key)
  BY <1>t, <1>1 DEF Arrive, Same, storeVars
<1>2. CASE Handler(r)
  BY <1>t, <1>2
     DEF Handler, AdmitHit, AdmitMiss, Fetch, FetchFails, CacheInsert, Answer, Same, storeVars
<1>3. CASE BeginEvaluation(r) \/ Observe(r) \/ ObserveFails(r)
  BY <1>t, <1>3
     DEF BeginEvaluation, Observe, ObserveDocument, ObserveFails, Same, storeVars
<1>4. CASE RejectMalformed(r) \/ ReportFailure(r) \/ ReportBlocks(r) \/ NoteForeign(r)
  BY <1>t, <1>4
     DEF RejectMalformed, ReportFailure, ReportBlocks, NoteForeign, Answer, Same, storeVars
<1>5. CASE Lookup(r) \/ LookupFails(r)
  BY <1>t, <1>5 DEF Lookup, LookupFails, Same, storeVars
<1>6. CASE Disconnect(r)
  BY <1>t, <1>6 DEF Disconnect, Same, storeVars
<1> QED
  BY <1>1, <1>2, <1>3, <1>4, <1>5, <1>6 DEF RequestStep, Evaluation

(* Every step is for one request one of a few things.                       *)
LEMMA StepMeans ==
  ASSUME Typed, Undecided, [Next]_vars, NEW x \in Request
  PROVE  \/ Erased(x) \/ Stands(x)
         \/ BeginEvaluation(x) \/ Observe(x) \/ ObserveFails(x)
         \/ Lookup(x) \/ LookupFails(x)
<1>t. req \in [Request -> RequestState] /\ req[x] \in RequestState
  BY DEF Typed, TypeOK
<1>2. CASE \E key \in Key : Arrive(x, key)
  <2>1. PICK key \in Key : req'[x] = [IdleRequest EXCEPT !.pc = "queued", !.key = key]
    BY <1>t, <1>2 DEF Arrive
  <2>2. /\ req'[x].pc = "queued" /\ req'[x].verdicts = IdleRequest.verdicts
        /\ req'[x].faulted = IdleRequest.faulted /\ ~IdleRequest.faulted
    BY <2>1, IdleType DEF RequestState, IdleRequest
  <2> QED
    BY <2>2, BlankIdle DEF Erased
<1>3. CASE AdmitHit(x) \/ AdmitMiss(x) \/ Fetch(x) \/ CacheInsert(x)
  <2>1. /\ req[x].pc \in {"queued", "fetch", "fetched"}
        /\ req'[x].pc \in {"fetch", "fetched", "evaluate"}
        /\ req'[x].verdicts = req[x].verdicts /\ req'[x].faulted = req[x].faulted
    BY <1>t, <1>3 DEF AdmitHit, AdmitMiss, Fetch, CacheInsert, RequestState
  <2> QED
    BY <2>1 DEF Erased, Undecided, Blank, Served
<1>4. CASE FetchFails(x) \/ RejectMalformed(x) \/ ReportFailure(x)
  BY <1>4, AnswerMeans
     DEF FetchFails, RejectMalformed, ReportFailure, Decided, Asked, RequestPcs, storeVars
<1>5. CASE ReportBlocks(x) \/ NoteForeign(x)
  <2>1. CASE ReportBlocks(x) /\ NotesForeign(x)
    <3>1. Decided(x)
      BY <2>1 DEF ReportBlocks
    <3>2. req'[x] = [req[x] EXCEPT !.pc = "foreign"] /\ rules' = rules
      BY <1>t, <2>1 DEF ReportBlocks
    <3> QED
      BY <1>t, <3>1, <3>2 DEF Stands, RequestState
  <2>2. CASE Answer(x, "ok")
    BY <1>5, <2>2, AnswerMeans DEF ReportBlocks, NoteForeign, Decided, Asked, RequestPcs
  <2> QED
    BY <1>5, <2>1, <2>2 DEF ReportBlocks, NoteForeign
<1>6. CASE Disconnect(x)
  <2>1. CASE OnPool(x)
    <3>1. req'[x] = [req[x] EXCEPT !.client = FALSE] /\ rules' = rules
      BY <1>6, <1>t, <2>1 DEF Disconnect, storeVars
    <3> QED
      BY <1>t, <3>1 DEF Stands, RequestState
  <2>2. CASE ~OnPool(x)
    <3>1. req'[x] = IdleRequest
      BY <1>6, <1>t, <2>2 DEF Disconnect
    <3> QED
      BY <3>1 DEF Erased, Blank, Served, IdleRequest
  <2> QED
    BY <2>1, <2>2
<1>7. ASSUME NEW o \in Operator, CommitRule(o)
      PROVE  Stands(x)
  <2>0. /\ oper[o].rel \in Release /\ oper[o].rel[1] \in Package /\ oper[o].rel[2] \in Version
        /\ rules \in [Release -> Rule \cup {None}]
    BY <1>7 DEF Typed, OperatorsOK, CommitRule, TypeOK, StoreTypeOK
  <2>1. CASE Evaluating(x) /\ req[x].key[1] = oper[o].rel[1]
    <3>1. req'[x] = [req[x] EXCEPT !.inforce[oper[o].rel[2]] = @ \cup {oper[o].rule}]
      BY <1>7, <2>1 DEF CommitRule
    <3>2. /\ req'[x].inforce = [req[x].inforce EXCEPT ![oper[o].rel[2]] = @ \cup {oper[o].rule}]
          /\ req'[x].key = req[x].key /\ req'[x].doc = req[x].doc /\ req'[x].pc = req[x].pc
          /\ req'[x].now = req[x].now /\ req'[x].changed = req[x].changed
          /\ req'[x].verdicts = req[x].verdicts /\ req'[x].faulted = req[x].faulted
          /\ req'[x].status = req[x].status /\ req'[x].cached = req[x].cached
      BY <1>t, <3>1 DEF RequestState
    <3>3. req[x].inforce \in [Version -> SUBSET (Rule \cup {None})]
      BY <1>t DEF RequestState
    <3>4. rules' = [rules EXCEPT ![oper[o].rel] = oper[o].rule]
      BY <1>7 DEF CommitRule, RecordRule
    <3>5. req[x].key \in Key
      BY <2>1 DEF Typed, RequestsOK, Evaluating, Asked, RequestPcs
    <3>6. ASSUME NEW v \in Version
          PROVE  \/ rules'[<<req[x].key[1], v>>] = rules[<<req[x].key[1], v>>]
                 \/ rules'[<<req[x].key[1], v>>] \in req'[x].inforce[v]
      <4>1. CASE v = oper[o].rel[2]
        <5>1. rules'[<<req[x].key[1], v>>] = oper[o].rule
          BY <2>0, <2>1, <3>4, <4>1
        <5> QED
          BY <2>0, <3>2, <3>3, <4>1, <5>1
      <4>2. CASE v # oper[o].rel[2]
        BY <2>0, <3>4, <3>5, <4>2
      <4> QED
        BY <4>1, <4>2
    <3>7. \A v \in Version : req[x].inforce[v] \subseteq req'[x].inforce[v]
      BY <2>0, <3>2, <3>3
    <3> QED
      BY <3>2, <3>6, <3>7 DEF Stands
  <2>2. CASE ~(Evaluating(x) /\ req[x].key[1] = oper[o].rel[1])
    <3>1. req'[x] = req[x]
      BY <1>7, <2>2 DEF CommitRule
    <3>2. ASSUME NEW v \in Version, Evaluating(x)
          PROVE  rules'[<<req[x].key[1], v>>] = rules[<<req[x].key[1], v>>]
      <4>1. req[x].key \in Key
        BY <3>2 DEF Typed, RequestsOK, Evaluating, Asked, RequestPcs
      <4>2. <<req[x].key[1], v>> \in Release /\ <<req[x].key[1], v>> # oper[o].rel
        BY <2>2, <3>2, <4>1
      <4> QED
        BY <1>7, <2>0, <4>2 DEF CommitRule, RecordRule
    <3> QED
      BY <3>1, <3>2 DEF Stands
  <2> QED
    BY <2>1, <2>2
<1>8. CASE Crash
  <2>1. req'[x] = IdleRequest
    BY <1>8 DEF Crash
  <2> QED
    BY <2>1 DEF Erased, Blank, Served, IdleRequest
<1>9. ASSUME NEW o \in Operator,
             \/ \E rel \in Release : StartAllow(o, rel) \/ StartDeny(o, rel)
             \/ FetchForAllow(o) \/ CommitRuleAudit(o) \/ CommandFails(o)
      PROVE  Same(x)
  BY <1>9 DEF StartAllow, StartDeny, FetchForAllow, CommitRuleAudit, CommandFails, Same,
              storeVars, path
<1>10. CASE Maintain \/ (\E key \in Key : Republish(key)) \/ DayPasses \/ UNCHANGED vars
  <2>1. Same(x)
    BY <1>10 DEF Maintain, MaintainAudit, MaintainSeen, Republish, DayPasses, Tick, tables,
                 vars, storeVars, path, Same
  <2> QED
    BY <2>1, SameStands
<1>11. CASE \E r \in Request : RequestStep(r)
  <2>1. PICK r \in Request : RequestStep(r)
    BY <1>11
  <2>2. CASE r # x
    BY <2>1, <2>2, OthersSame, SameStands
  <2>3. CASE r = x
    BY <1>2, <1>3, <1>4, <1>5, <1>6, <2>1, <2>3, Zenon DEF RequestStep, Handler, Evaluation
  <2> QED
    BY <2>2, <2>3
<1>12. CASE \E o \in Operator :
              (\E rel \in Release : StartAllow(o, rel) \/ StartDeny(o, rel)) \/ Command(o)
  BY <1>7, <1>9, <1>12, SameStands, Zenon DEF Command
<1> QED
  BY <1>8, <1>10, <1>11, <1>12, Zenon DEF Next, RequestStep

-----------------------------------------------------------------------------
(* Verdicts and the rules they were formed against.                         *)

(* What is on record for a version under evaluation has been noted.         *)
RulesNoted ==
  \A r \in Request : Evaluating(r) =>
    \A v \in Version : rules[<<req[r].key[1], v>>] \in req[r].inforce[v]

(* A verdict is the engine's, over what the ledger said and a rule in force *)
(* meanwhile, or, after a fault, over the deny made up for an unreadable    *)
(* rule.                                                                    *)
JustifiedVerdict(r, v) ==
  \/ \E rule \in req[r].inforce[v] :
       req[r].verdicts[v] = Decide(req[r].key[1], req[r].doc.versions[v],
                                   req[r].changed[v], rule, req[r].now)
  \/ /\ req[r].faulted
     /\ req[r].verdicts[v] = Decide(req[r].key[1], req[r].doc.versions[v],
                                    FALSE, DenyRule, req[r].now)

(* Every verdict has its reason, and every version of a document has a      *)
(* verdict by the time it is answered.                                      *)
Justified ==
  \A r \in Request, v \in Version :
    req[r].verdicts[v] # None => JustifiedVerdict(r, v)

Complete ==
  \A r \in Request :
    req[r].pc = "foreign" \/ Served(r) =>
      \A v \in InDoc(req[r].doc) : req[r].verdicts[v] # None

(* The inductive invariant of the decision.                                 *)
DecisionInv == Undecided /\ RulesNoted /\ Justified /\ Complete

LEMMA DecisionInductive ==
  ASSUME Typed, DecisionInv, [Next]_vars
  PROVE  DecisionInv'
<1> SUFFICES ASSUME NEW x \in Request
             PROVE  /\ req'[x].pc \notin {"lookup", "foreign", "answered"} =>
                         \A v \in Version : req'[x].verdicts[v] = None
                    /\ Evaluating(x)' => \A v \in Version :
                         rules'[<<req'[x].key[1], v>>] \in req'[x].inforce[v]
                    /\ \A v \in Version : req'[x].verdicts[v] # None => JustifiedVerdict(x, v)'
                    /\ req'[x].pc = "foreign" \/ Served(x)' =>
                         \A v \in InDoc(req'[x].doc) : req'[x].verdicts[v] # None
  BY DEF DecisionInv, Undecided, RulesNoted, Justified, Complete
<1>t. req \in [Request -> RequestState] /\ req[x] \in RequestState
  BY DEF Typed, TypeOK
<1>1. CASE Erased(x)
  BY <1>1 DEF Erased, Blank, Evaluating
<1>2. CASE Stands(x)
  <2>1. Evaluating(x)' => Evaluating(x)
    BY <1>2 DEF Stands, Evaluating, Decided
  <2>2. \A v \in Version : JustifiedVerdict(x, v) => JustifiedVerdict(x, v)'
    BY <1>2 DEF Stands, JustifiedVerdict
  <2>3. Decided(x) => \A v \in InDoc(req[x].doc) : req[x].verdicts[v] # None
    BY DEF Decided, Pending
  <2>4. req'[x].pc = "foreign" \/ Served(x)' =>
          \A v \in InDoc(req'[x].doc) : req'[x].verdicts[v] # None
    BY <1>2, <2>3 DEF Stands, DecisionInv, Complete, Served
  <2>5. req'[x].pc \notin {"lookup", "foreign", "answered"} =>
          \A v \in Version : req'[x].verdicts[v] = None
    BY <1>2 DEF Stands, DecisionInv, Undecided
  <2> QED
    BY <1>2, <2>1, <2>2, <2>4, <2>5 DEF Stands, DecisionInv, RulesNoted, Justified
<1>3. CASE BeginEvaluation(x)
  <2>1. /\ req[x].pc = "evaluate" /\ req'[x].pc = "observe"
        /\ req'[x].verdicts = req[x].verdicts /\ req'[x].key = req[x].key
        /\ req'[x].inforce = [v \in Version |-> {rules[<<req[x].key[1], v>>]}]
        /\ rules' = rules
    BY <1>t, <1>3 DEF BeginEvaluation, RequestState, storeVars
  <2> QED
    BY <2>1 DEF DecisionInv, Undecided, Served
<1>4. CASE Observe(x) \/ ObserveFails(x)
  <2>1. /\ req[x].pc = "observe" /\ req'[x].pc = "lookup"
        /\ req'[x].verdicts = req[x].verdicts /\ req'[x].key = req[x].key
        /\ req'[x].inforce = req[x].inforce /\ rules' = rules
    BY <1>t, <1>4 DEF Observe, ObserveDocument, ObserveFails, RequestState, storeVars
  <2> QED
    BY <2>1 DEF DecisionInv, Undecided, RulesNoted, Evaluating, Served
<1>5. CASE Lookup(x) \/ LookupFails(x)
  <2>0. PICK w \in Version : w = NextVersion(x)
    BY <1>5 DEF Lookup, LookupFails, NextVersion, Pending, InDoc
  <2>1. \/ /\ Lookup(x)
           /\ req'[x] = [req[x] EXCEPT !.verdicts[w] =
                Decide(req[x].key[1], req[x].doc.versions[w], req[x].changed[w],
                       rules[<<req[x].key[1], w>>], req[x].now)]
        \/ /\ LookupFails(x)
           /\ req'[x] = [req[x] EXCEPT !.faulted = TRUE, !.verdicts[w] =
                Decide(req[x].key[1], req[x].doc.versions[w], FALSE, DenyRule, req[x].now)]
    BY <1>t, <1>5, <2>0 DEF Lookup, LookupFails, RuleFor, UnreadableRule
  <2>2. req[x].pc = "lookup" /\ rules' = rules
    BY <1>5 DEF Lookup, LookupFails, storeVars
  <2>3. PICK verdict \in Verdicts :
          /\ \/ req'[x] = [req[x] EXCEPT !.verdicts[w] = verdict]
             \/ req'[x] = [req[x] EXCEPT !.faulted = TRUE, !.verdicts[w] = verdict]
          /\ \/ verdict = Decide(req[x].key[1], req[x].doc.versions[w], req[x].changed[w],
                                 rules[<<req[x].key[1], w>>], req[x].now)
             \/ req'[x].faulted /\ verdict = Decide(req[x].key[1], req[x].doc.versions[w],
                                                    FALSE, DenyRule, req[x].now)
    BY <1>t, <2>1, DecideType DEF RequestState
  <2>4. /\ req'[x].key = req[x].key /\ req'[x].doc = req[x].doc /\ req'[x].now = req[x].now
        /\ req'[x].changed = req[x].changed /\ req'[x].inforce = req[x].inforce
        /\ req[x].faulted => req'[x].faulted
        /\ req'[x].pc = "lookup"
        /\ req'[x].verdicts = [req[x].verdicts EXCEPT ![w] = verdict]
    <3>1. CASE req'[x] = [req[x] EXCEPT !.verdicts[w] = verdict]
      BY <1>t, <2>2, <3>1 DEF RequestState
    <3>2. CASE req'[x] = [req[x] EXCEPT !.faulted = TRUE, !.verdicts[w] = verdict]
      BY <1>t, <2>2, <3>2 DEF RequestState
    <3> QED
      BY <2>3, <3>1, <3>2
  <2>5. /\ req'[x].verdicts[w] = verdict
        /\ \A v \in Version : v # w => req'[x].verdicts[v] = req[x].verdicts[v]
    BY <1>t, <2>4 DEF RequestState
  <2>6. rules[<<req[x].key[1], w>>] \in req[x].inforce[w]
    BY <2>2 DEF DecisionInv, RulesNoted, Evaluating
  <2>7. JustifiedVerdict(x, w)'
    <3>1. CASE verdict = Decide(req[x].key[1], req[x].doc.versions[w], req[x].changed[w],
                                rules[<<req[x].key[1], w>>], req[x].now)
      <4>1. PICK rule : /\ rule = rules[<<req[x].key[1], w>>]
                        /\ rule \in req'[x].inforce[w]
        BY <2>4, <2>6
      <4>2. req'[x].verdicts[w] = Decide(req'[x].key[1], req'[x].doc.versions[w],
                                         req'[x].changed[w], rule, req'[x].now)
        BY <2>4, <2>5, <3>1, <4>1
      <4> QED
        BY <4>1, <4>2, Zenon DEF JustifiedVerdict
    <3>2. CASE /\ req'[x].faulted
               /\ verdict = Decide(req[x].key[1], req[x].doc.versions[w], FALSE, DenyRule,
                                   req[x].now)
      BY <2>4, <2>5, <3>2 DEF JustifiedVerdict
    <3> QED
      BY <2>3, <3>1, <3>2, Zenon
  <2>8. \A v \in Version : v # w /\ JustifiedVerdict(x, v) => JustifiedVerdict(x, v)'
    BY <2>4, <2>5, ZenonT(30) DEF JustifiedVerdict
  <2> QED
    BY <2>2, <2>4, <2>5, <2>7, <2>8 DEF DecisionInv, RulesNoted, Justified, Evaluating, Served
<1> QED
  BY <1>1, <1>2, <1>3, <1>4, <1>5, StepMeans DEF DecisionInv

LEMMA DecisionHolds == Spec => []DecisionInv
<1>1. Init => DecisionInv
  <2> SUFFICES ASSUME Init
               PROVE  DecisionInv
    OBVIOUS
  <2>1. ASSUME NEW r \in Request
        PROVE  req[r].pc = "idle" /\ \A v \in Version : req[r].verdicts[v] = None
    BY DEF Init, IdleRequest
  <2> QED
    BY <2>1 DEF DecisionInv, Undecided, RulesNoted, Justified, Complete, Evaluating, Served
<1>2. Typed /\ DecisionInv /\ [Next]_vars => DecisionInv'
  BY DecisionInductive
<1> QED
  BY <1>1, <1>2, AlwaysTyped, PTL DEF Spec

(* Fail closed: what is let through is let through by the gates, whatever   *)
(* faults, crashes and departures the environment mixes in.                 *)
THEOREM AllowedAlwaysJustified == Spec => []AllowedIsJustified
<1>1. Typed /\ DecisionInv => AllowedIsJustified
  <2> SUFFICES ASSUME Typed, DecisionInv, NEW r \in Request, Served(r),
                      NEW v \in InDoc(req[r].doc), req[r].verdicts[v] = "allow"
               PROVE  \E rule \in req[r].inforce[v] :
                        Decide(req[r].key[1], req[r].doc.versions[v], FALSE, rule,
                               req[r].now) = "allow"
    BY DEF AllowedIsJustified
  <2>1. v \in Version /\ req[r].verdicts[v] # None
    BY DaemonAssumption DEF InDoc, Verdicts
  <2>2. JustifiedVerdict(r, v)
    BY <2>1 DEF DecisionInv, Justified
  <2>3. Decide(req[r].key[1], req[r].doc.versions[v], FALSE, DenyRule, req[r].now) # "allow"
    BY DenyNeverAllows
  <2>4. PICK rule \in req[r].inforce[v] :
          Decide(req[r].key[1], req[r].doc.versions[v], req[r].changed[v], rule, req[r].now)
            = "allow"
    BY <2>2, <2>3 DEF JustifiedVerdict
  <2>5. Decide(req[r].key[1], req[r].doc.versions[v], FALSE, rule, req[r].now) = "allow"
    BY <2>4 DEF Decide
  <2> QED
    BY <2>5
<1> QED
  BY <1>1, AlwaysTyped, DecisionHolds, PTL

-----------------------------------------------------------------------------

(* Without storage faults no request meets one.                             *)
Unfaulted == \A r \in Request : ~req[r].faulted

LEMMA UnfaultedHolds ==
  ASSUME "fault" \notin Hazards
  PROVE  Spec => []Unfaulted
<1>1. Init => Unfaulted
  BY DEF Init, Unfaulted, IdleRequest
<1>2. Typed /\ Undecided /\ Unfaulted /\ [Next]_vars => Unfaulted'
  <2> SUFFICES ASSUME Typed, Undecided, Unfaulted, [Next]_vars, NEW x \in Request
               PROVE  ~req'[x].faulted
    BY DEF Unfaulted
  <2>t. req \in [Request -> RequestState] /\ req[x] \in RequestState /\ ~req[x].faulted
    BY DEF Typed, TypeOK, Unfaulted
  <2>1. ~ObserveFails(x) /\ ~LookupFails(x)
    BY DEF ObserveFails, LookupFails, May
  <2>2. CASE BeginEvaluation(x) \/ Observe(x) \/ Lookup(x)
    BY <2>t, <2>2 DEF BeginEvaluation, Observe, ObserveDocument, Lookup, RequestState
  <2> QED
    BY <2>t, <2>1, <2>2, StepMeans DEF Erased, Stands
<1> QED
  BY <1>1, <1>2, AlwaysTyped, DecisionHolds, PTL DEF Spec, DecisionInv

(* While storage answers, every verdict is the engine's over a rule that    *)
(* was in force while the request was evaluated.                            *)
THEOREM VerdictsAlwaysJustified ==
  ASSUME "fault" \notin Hazards
  PROVE  Spec => []VerdictsJustified
<1>1. Typed /\ DecisionInv /\ Unfaulted => VerdictsJustified
  <2> SUFFICES ASSUME Typed, DecisionInv, Unfaulted, NEW r \in Request, Served(r),
                      NEW v \in InDoc(req[r].doc)
               PROVE  \E rule \in req[r].inforce[v] :
                        req[r].verdicts[v] = Decide(req[r].key[1], req[r].doc.versions[v],
                                                    req[r].changed[v], rule, req[r].now)
    BY DEF VerdictsJustified
  <2>1. v \in Version /\ req[r].verdicts[v] # None
    BY DEF InDoc, DecisionInv, Complete
  <2> QED
    BY <2>1 DEF DecisionInv, Justified, JustifiedVerdict, Unfaulted
<1> QED
  BY <1>1, AlwaysTyped, DecisionHolds, UnfaultedHolds, PTL

-----------------------------------------------------------------------------
(* The packument slots.                                                     *)

(* Where a request fetches or evaluates a document.                         *)
Busy == {"fetch", "fetched", "evaluate", "observe", "lookup", "foreign"}

(* A request being fetched or evaluated holds a slot while its client is    *)
(* there, and no more slots are given than there are.                       *)
SlotInv ==
  /\ IsFiniteSet(slots) /\ Cardinality(slots) <= MaxConcurrent
  /\ \A r \in Request : req[r].pc \in Busy /\ req[r].client => r \in slots
  /\ \A r \in Request : ~req[r].client => May("disconnect")

(* A slot is given to a request of its own, or given back.                  *)
LEMMA SlotMoves ==
  ASSUME Typed, NEW r \in Request, RequestStep(r)
  PROVE  /\ \/ SlotFree /\ slots' = slots \cup {r}
            \/ /\ slots' = slots
               /\ (req'[r].pc \in Busy /\ req'[r].client => req[r].pc \in Busy /\ req[r].client)
            \/ slots' = slots \ {r} /\ ~(req'[r].pc \in Busy /\ req'[r].client)
         /\ req'[r].client \/ ~req[r].client \/ May("disconnect")
<1>t. /\ req \in [Request -> RequestState] /\ req[r] \in RequestState
      /\ IdleRequest \in RequestState /\ IdleRequest.pc = "idle" /\ IdleRequest.client
  BY IdleType DEF Typed, TypeOK, IdleRequest
<1>1. CASE \E key \in Key : Arrive(r, key)
  <2>1. PICK key \in Key : req' = [req EXCEPT ![r] =
                                     [IdleRequest EXCEPT !.pc = "queued", !.key = key]]
    BY <1>1 DEF Arrive
  <2>2. req'[r].pc = "queued" /\ req'[r].client = IdleRequest.client
    BY <1>t, <2>1 DEF RequestState
  <2> QED
    BY <1>1, <1>t, <2>2 DEF Arrive, Busy
<1>2. CASE AdmitHit(r) \/ AdmitMiss(r)
  BY <1>2, <1>t DEF AdmitHit, AdmitMiss, RequestState
<1>3. CASE Fetch(r) \/ CacheInsert(r) \/ BeginEvaluation(r) \/ Observe(r) \/ ObserveFails(r)
             \/ Lookup(r) \/ LookupFails(r)
  <2>0. slots' = slots /\ req[r].pc \in Busy
    BY <1>3
       DEF Fetch, CacheInsert, BeginEvaluation, Observe, ObserveFails, Lookup, LookupFails, Busy
  <2>1. CASE Fetch(r) \/ CacheInsert(r)
    BY <1>t, <2>0, <2>1 DEF Fetch, CacheInsert, RequestState
  <2>2. CASE BeginEvaluation(r)
    BY <1>t, <2>0, <2>2 DEF BeginEvaluation, RequestState
  <2>3. CASE Observe(r) \/ ObserveFails(r)
    BY <1>t, <2>0, <2>3 DEF Observe, ObserveDocument, ObserveFails, RequestState
  <2>4. CASE Lookup(r) \/ LookupFails(r)
    <3>1. PICK verdicts :
            \/ req'[r] = [req[r] EXCEPT !.verdicts = verdicts]
            \/ req'[r] = [req[r] EXCEPT !.faulted = TRUE, !.verdicts = verdicts]
      BY <1>t, <2>4 DEF Lookup, LookupFails
    <3> QED
      BY <1>t, <2>0, <3>1 DEF RequestState
  <2> QED
    BY <1>3, <2>1, <2>2, <2>3, <2>4
<1>4. ASSUME NEW status, Answer(r, status)
      PROVE  slots' = slots \ {r} /\ req'[r].pc \notin Busy
               /\ (req'[r].client \/ ~req[r].client)
  <2>1. CASE ~req[r].client
    BY <1>4, <1>t, <2>1 DEF Answer, Busy
  <2>2. CASE req[r].client /\ status = "ok"
    BY <1>4, <1>t, <2>2 DEF Answer, Busy, RequestState
  <2>3. CASE req[r].client /\ status # "ok"
    <3>1. req'[r] = [IdleRequest EXCEPT !.pc = "answered", !.status = status,
                                        !.faulted = req[r].faulted]
      BY <1>4, <1>t, <2>3 DEF Answer
    <3>2. \A new : new = [IdleRequest EXCEPT !.pc = "answered", !.status = status,
                                             !.faulted = req[r].faulted]
                     => new.pc = "answered" /\ new.client = IdleRequest.client
      BY <1>t DEF RequestState
    <3> QED
      BY <1>4, <1>t, <3>1, <3>2 DEF Answer, Busy
  <2> QED
    BY <2>1, <2>2, <2>3
<1>5. CASE FetchFails(r) \/ RejectMalformed(r) \/ ReportFailure(r) \/ NoteForeign(r)
  BY <1>4, <1>5 DEF FetchFails, RejectMalformed, ReportFailure, NoteForeign
<1>6. CASE ReportBlocks(r)
  <2>1. CASE NotesForeign(r)
    <3>1. /\ slots' = slots /\ req[r].pc \in Busy
          /\ req'[r] = [req[r] EXCEPT !.pc = "foreign"]
      BY <1>6, <1>t, <2>1 DEF ReportBlocks, Decided, Busy
    <3> QED
      BY <1>t, <3>1 DEF RequestState
  <2>2. CASE ~NotesForeign(r)
    BY <1>4, <1>6, <2>2 DEF ReportBlocks
  <2> QED
    BY <2>1, <2>2
<1>7. CASE Disconnect(r)
  <2>1. req'[r] = IF OnPool(r) THEN [req[r] EXCEPT !.client = FALSE] ELSE IdleRequest
    BY <1>7, <1>t DEF Disconnect
  <2>2. ~(req'[r].pc \in Busy /\ req'[r].client)
    BY <1>t, <2>1 DEF Busy, RequestState
  <2> QED
    BY <1>7, <2>2 DEF Disconnect
<1> QED
  BY <1>1, <1>2, <1>3, <1>5, <1>6, <1>7 DEF RequestStep, Handler, Evaluation

(* What is not about a request leaves the slots and each request's place,   *)
(* but for a crash, which clears them.                                      *)
LEMMA OtherSteps ==
  ASSUME Typed, [Next]_vars, \A r \in Request : ~RequestStep(r)
  PROVE  \/ Crash
         \/ /\ UNCHANGED <<slots, failure>>
            /\ \A r \in Request : req'[r] = [req[r] EXCEPT !.inforce = req'[r].inforce]
<1>t. \A r \in Request : req[r] \in RequestState
  BY DEF Typed, TypeOK
<1>0. ASSUME req' = req, NEW r \in Request
      PROVE  req'[r] = [req[r] EXCEPT !.inforce = req'[r].inforce]
  BY <1>0, <1>t DEF RequestState
<1>1. ASSUME NEW o \in Operator,
             (\E rel \in Release : StartAllow(o, rel) \/ StartDeny(o, rel)) \/ Command(o)
      PROVE  /\ UNCHANGED <<slots, failure>>
             /\ \A r \in Request : req'[r] = [req[r] EXCEPT !.inforce = req'[r].inforce]
  <2>1. CASE CommitRule(o)
    <3>1. ASSUME NEW r \in Request
          PROVE  req'[r] = [req[r] EXCEPT !.inforce = req'[r].inforce]
      <4>1. \/ req'[r] = [req[r] EXCEPT !.inforce[oper[o].rel[2]] = @ \cup {oper[o].rule}]
            \/ req'[r] = req[r]
        BY <2>1 DEF CommitRule
      <4> QED
        BY <1>t, <4>1 DEF RequestState
    <3> QED
      BY <2>1, <3>1 DEF CommitRule
  <2>2. CASE ~CommitRule(o)
    BY <1>0, <1>1, <2>2
       DEF Command, StartAllow, StartDeny, FetchForAllow, CommitRuleAudit, CommandFails, path
  <2> QED
    BY <2>1, <2>2
<1>2. CASE Maintain \/ (\E key \in Key : Republish(key)) \/ DayPasses \/ UNCHANGED vars
  BY <1>0, <1>2 DEF Maintain, Republish, DayPasses, path, vars
<1> QED
  BY <1>1, <1>2, Zenon DEF Next, RequestStep

(* Slots are given one at a time, each to a request that has none.          *)
LEMMA SlotHolds == Spec => []SlotInv
<1>1. Init => SlotInv
  BY FS_EmptySet, DaemonAssumption DEF Init, SlotInv, Busy, IdleRequest
<1>2. Typed /\ SlotInv /\ [Next]_vars => SlotInv'
  <2> SUFFICES ASSUME Typed, SlotInv, [Next]_vars
               PROVE  SlotInv'
    OBVIOUS
  <2>1. ASSUME NEW r \in Request, RequestStep(r)
        PROVE  SlotInv'
    <3>1. \A x \in Request : x # r => req'[x] = req[x]
      BY <2>1, OthersSame DEF Same
    <3>2. IsFiniteSet(slots') /\ Cardinality(slots') <= MaxConcurrent
      <4>0. /\ IsFiniteSet(slots) /\ Cardinality(slots) \in Nat /\ MaxConcurrent \in Nat
            /\ Cardinality(slots) <= MaxConcurrent
        BY FS_CardinalityType, DaemonAssumption DEF SlotInv
      <4>1. CASE SlotFree /\ slots' = slots \cup {r}
        <5>1. /\ IsFiniteSet(slots \cup {r})
              /\ \/ Cardinality(slots \cup {r}) = Cardinality(slots)
                 \/ Cardinality(slots \cup {r}) = Cardinality(slots) + 1
          BY <4>0, FS_AddElement
        <5> QED
          BY <4>0, <4>1, <5>1 DEF SlotFree
      <4>2. CASE slots' = slots \ {r}
        <5>1. /\ IsFiniteSet(slots \ {r})
              /\ \/ Cardinality(slots \ {r}) = Cardinality(slots)
                 \/ Cardinality(slots \ {r}) = Cardinality(slots) - 1
          BY <4>0, FS_RemoveElement
        <5> QED
          BY <4>0, <4>2, <5>1
      <4>3. CASE slots' = slots
        BY <4>3 DEF SlotInv
      <4> QED
        BY <2>1, <4>1, <4>2, <4>3, SlotMoves
    <3>3. req'[r].pc \in Busy /\ req'[r].client => r \in slots'
      BY <2>1, SlotMoves DEF SlotInv
    <3> QED
      BY <2>1, <3>1, <3>2, <3>3, SlotMoves DEF SlotInv, May
  <2>2. CASE Crash
    BY <2>2, FS_EmptySet, DaemonAssumption DEF Crash, SlotInv, Busy, IdleRequest
  <2>3. CASE /\ UNCHANGED <<slots, failure>>
             /\ \A r \in Request : req'[r] = [req[r] EXCEPT !.inforce = req'[r].inforce]
    <3>1. \A r \in Request : req'[r].pc = req[r].pc /\ req'[r].client = req[r].client
      <4>1. \A r \in Request : req[r] \in RequestState
        BY DEF Typed, TypeOK
      <4> QED
        BY <2>3, <4>1 DEF RequestState
    <3> QED
      BY <2>3, <3>1 DEF SlotInv, May
  <2> QED
    BY <2>1, <2>2, <2>3, OtherSteps
<1> QED
  BY <1>1, <1>2, AlwaysTyped, PTL DEF Spec

(* At most MaxConcurrent documents are fetched or evaluated at a time,      *)
(* while no client leaves its evaluation behind on the pool.                *)
THEOREM DocumentsStayBounded ==
  ASSUME "disconnect" \notin Hazards
  PROVE  Spec => []DocumentsBounded
<1>1. SlotInv => DocumentsBounded
  <2> SUFFICES ASSUME SlotInv
               PROVE  DocumentsBounded
    OBVIOUS
  <2> DEFINE busy == {r \in Request : req[r].pc \in Busy}
  <2>1. busy \subseteq slots
    BY DEF SlotInv, May
  <2>2. Cardinality(busy) <= Cardinality(slots) /\ Cardinality(busy) \in Nat
    BY <2>1, FS_Subset, FS_CardinalityType DEF SlotInv
  <2>3. Cardinality(slots) \in Nat
    BY FS_CardinalityType DEF SlotInv
  <2> QED
    BY <2>2, <2>3, DaemonAssumption DEF SlotInv, DocumentsBounded, Busy
<1> QED
  BY <1>1, SlotHolds, PTL

(* ... and as many requests as hold a slot, whoever has left.               *)
THEOREM AwaitedStayBounded ==
  Spec => [](Cardinality({r \in Request : req[r].pc \in Busy /\ req[r].client})
               <= MaxConcurrent)
<1>1. SlotInv => Cardinality({r \in Request : req[r].pc \in Busy /\ req[r].client})
                   <= MaxConcurrent
  <2> SUFFICES ASSUME SlotInv
               PROVE  Cardinality({r \in Request : req[r].pc \in Busy /\ req[r].client})
                        <= MaxConcurrent
    OBVIOUS
  <2> DEFINE awaited == {r \in Request : req[r].pc \in Busy /\ req[r].client}
  <2>1. awaited \subseteq slots
    BY DEF SlotInv
  <2>2. Cardinality(awaited) <= Cardinality(slots) /\ Cardinality(awaited) \in Nat
    BY <2>1, FS_Subset, FS_CardinalityType DEF SlotInv
  <2>3. Cardinality(slots) \in Nat
    BY FS_CardinalityType DEF SlotInv
  <2> QED
    BY <2>2, <2>3, DaemonAssumption DEF SlotInv
<1> QED
  BY <1>1, SlotHolds, PTL

-----------------------------------------------------------------------------
(* What an answer leaves of a request.                                      *)
LEMMA AnswerLeaves ==
  ASSUME Typed, NEW r \in Request, NEW status, Answer(r, status)
  PROVE  \/ req'[r] = IdleRequest
         \/ /\ req'[r].pc = "answered" /\ req'[r].status = status
            /\ req'[r].faulted = req[r].faulted
<1>t. req \in [Request -> RequestState] /\ req[r] \in RequestState /\ IdleRequest \in RequestState
  BY IdleType DEF Typed, TypeOK
<1>1. CASE ~req[r].client
  BY <1>1, <1>t DEF Answer
<1>2. CASE req[r].client /\ status = "ok"
  <2>1. req'[r] = [req[r] EXCEPT !.pc = "answered", !.status = status, !.cached = FALSE]
    BY <1>2, <1>t DEF Answer
  <2> QED
    BY <1>t, <2>1 DEF RequestState
<1>3. CASE req[r].client /\ status # "ok"
  <2>1. req'[r] = [IdleRequest EXCEPT !.pc = "answered", !.status = status,
                                      !.faulted = req[r].faulted]
    BY <1>3, <1>t DEF Answer
  <2>2. \A new : new = [IdleRequest EXCEPT !.pc = "answered", !.status = status,
                                           !.faulted = req[r].faulted]
                   => new.pc = "answered" /\ new.status = status
                        /\ new.faulted = req[r].faulted
    BY <1>t DEF RequestState
  <2> QED
    BY <2>1, <2>2
<1> QED
  BY <1>1, <1>2, <1>3

-----------------------------------------------------------------------------
(* The audit log.                                                           *)

(* Who writes to the tables.                                                *)
LEMMA StoreSteps ==
  ASSUME Typed, [Next]_vars
  PROVE  \/ UNCHANGED storeVars
         \/ \E r \in Request : Observe(r) \/ ReportBlocks(r) \/ NoteForeign(r)
         \/ \E o \in Operator : CommitRule(o) \/ CommitRuleAudit(o)
         \/ MaintainAudit \/ MaintainSeen \/ DayPasses
<1>1. ASSUME NEW r \in Request, RequestStep(r),
             ~Observe(r), ~ReportBlocks(r), ~NoteForeign(r)
      PROVE  UNCHANGED storeVars
  BY <1>1
     DEF RequestStep, Arrive, Handler, AdmitHit, AdmitMiss, Fetch, FetchFails, CacheInsert,
         Evaluation, BeginEvaluation, ObserveFails, RejectMalformed, Lookup, LookupFails,
         ReportFailure, Disconnect
<1>2. ASSUME NEW o \in Operator, ~CommitRule(o), ~CommitRuleAudit(o),
             (\E rel \in Release : StartAllow(o, rel) \/ StartDeny(o, rel)) \/ Command(o)
      PROVE  UNCHANGED storeVars
  BY <1>2 DEF Command, StartAllow, StartDeny, FetchForAllow, CommandFails
<1>3. CASE Maintain
  BY <1>3 DEF Maintain
<1>4. CASE (\E key \in Key : Republish(key)) \/ Crash \/ UNCHANGED vars
  BY <1>4 DEF Republish, Crash, vars
<1> QED
  BY <1>1, <1>2, <1>3, <1>4, Zenon DEF Next, RequestStep

(* What each of the three appending operations adds to the log, if its      *)
(* transaction is not lost.                                                 *)
LEMMA BlockRowsAppended ==
  ASSUME Typed, NEW r \in Request, ReportBlocks(r)
  PROVE  \/ May("audit_fault") /\ UNCHANGED <<audit, nextId>>
         \/ \E rows \in SUBSET AuditRow :
              /\ audit' = audit \cup rows
              /\ nextId' = IF rows = {} THEN nextId ELSE nextId + 1
              /\ \A row \in rows :
                   /\ row.id = nextId /\ row.pkg = req[r].key[1]
                   /\ row.event \in {"block", "tamper"}
              /\ \A v \in DOMAIN Blocked(r) :
                   \/ Recorded(<<req[r].key[1], v>>, Blocked(r)[v])
                   \/ \E row \in rows : /\ row.version = v
                                        /\ row.event = BlockEvent(Blocked(r)[v])
<1>1. /\ req[r].key[1] \in Package /\ req[r].now \in Nat /\ StoreTypeOK
      /\ DOMAIN Blocked(r) \subseteq Version
      /\ \A v \in DOMAIN Blocked(r) : Blocked(r)[v] \in Reasons
  <2>1. Decided(r) /\ req[r].pc = "lookup" /\ req[r] \in RequestState
    BY DEF ReportBlocks, Decided, Typed, TypeOK
  <2>2. req[r].key \in Key /\ req[r].doc \in Doc
    BY <2>1, FitsNow DEF Fits, Asked, Loaded, RequestPcs
  <2> QED
    BY <2>1, <2>2, BlockedType DEF RequestState, Typed, TypeOK
<1>2. CASE RecordBlocks(req[r].key[1], Blocked(r), req[r].now)
  <2>0. PICK pkg, blocked, now :
          pkg = req[r].key[1] /\ blocked = Blocked(r) /\ now = req[r].now
    OBVIOUS
  <2>1. /\ pkg \in Package /\ now \in Nat /\ StoreTypeOK
        /\ DOMAIN blocked \subseteq Version
        /\ \A v \in DOMAIN blocked : blocked[v] \in Reasons
        /\ RecordBlocks(pkg, blocked, now)
    BY <1>1, <1>2, <2>0
  <2>2. PICK rows \in SUBSET AuditRow : BlocksAppended(pkg, blocked, now, rows)
    BY <2>1, RecordBlocksRows
  <2>3. \A row \in rows : row.event \in {"block", "tamper"}
    BY <2>2, BlockEventType DEF BlocksAppended
  <2>4. \A v \in DOMAIN blocked :
          \/ Recorded(<<pkg, v>>, blocked[v])
          \/ \E row \in rows : row.version = v /\ row.event = BlockEvent(blocked[v])
    BY <2>2 DEF BlocksAppended
  <2>5. /\ audit' = audit \cup rows
        /\ nextId' = IF rows = {} THEN nextId ELSE nextId + 1
        /\ \A row \in rows : /\ row.id = nextId /\ row.pkg = pkg
                             /\ row.event \in {"block", "tamper"}
        /\ \A v \in DOMAIN blocked :
             \/ Recorded(<<pkg, v>>, blocked[v])
             \/ \E row \in rows : row.version = v /\ row.event = BlockEvent(blocked[v])
    BY <2>2, <2>3, <2>4 DEF BlocksAppended
  <2> QED
    BY <2>0, <2>5
<1> QED
  BY <1>2 DEF ReportBlocks

LEMMA ForeignRowAppended ==
  ASSUME Typed, NEW r \in Request, NoteForeign(r)
  PROVE  \/ May("audit_fault") /\ UNCHANGED <<audit, nextId>>
         \/ ForeignRecorded(req[r].key[1]) /\ UNCHANGED <<audit, nextId>>
         \/ \E row \in AuditRow :
              /\ audit' = audit \cup {row} /\ nextId' = nextId + 1
              /\ row.id = nextId /\ row.event = "foreign_tarball"
              /\ row.pkg = req[r].key[1]
<1>1. req[r].key[1] \in Package /\ req[r].now \in Nat /\ nextId \in Nat
  BY FitsNow DEF NoteForeign, Fits, Asked, RequestPcs, RequestState, Typed, TypeOK, StoreTypeOK
<1> DEFINE row == Row("foreign_tarball", <<req[r].key[1], None>>, None, req[r].now)
<1>2. /\ row \in AuditRow /\ row.id = nextId /\ row.event = "foreign_tarball"
      /\ row.pkg = req[r].key[1]
  BY <1>1 DEF Row, AuditRow, Events
<1>3. CASE AppendForeignOnce(req[r].key[1], req[r].now)
  <2>1. \/ ForeignRecorded(req[r].key[1]) /\ UNCHANGED <<audit, nextId>>
        \/ audit' = audit \cup {row} /\ nextId' = nextId + 1
    BY <1>3 DEF AppendForeignOnce, AppendRows
  <2> HIDE DEF row
  <2> QED
    BY <1>2, <2>1
<1> QED
  BY <1>3 DEF NoteForeign

LEMMA RuleRowAppended ==
  ASSUME Typed, NEW o \in Operator, CommitRuleAudit(o)
  PROVE  \E row \in AuditRow :
           /\ audit' = audit \cup {row} /\ nextId' = nextId + 1
           /\ row.id = nextId /\ row.event = oper[o].rule.verdict
           /\ row.event \in {"allow", "deny"}
           /\ row.pkg = oper[o].rel[1] /\ row.version = oper[o].rel[2]
<1>1. /\ oper[o].rel \in Release /\ oper[o].rule \in Rule
      /\ nextId \in Nat /\ clock \in Nat
  BY DEF CommitRuleAudit, Typed, OperatorsOK, TypeOK, StoreTypeOK
<1> DEFINE row == Row(oper[o].rule.verdict, oper[o].rel, None, clock)
<1>2. /\ row \in AuditRow /\ row.id = nextId /\ row.event = oper[o].rule.verdict
      /\ row.event \in {"allow", "deny"}
      /\ row.pkg = oper[o].rel[1] /\ row.version = oper[o].rel[2]
  BY <1>1, RuleRow
<1>3. audit' = audit \cup {row} /\ nextId' = nextId + 1
  BY DEF CommitRuleAudit, AuditOf, AppendRuleAudit, AppendRows
<1> HIDE DEF row
<1> QED
  BY <1>2, <1>3

(* Ids are given once: no row has the next one.                             *)
IdsGiven == \A row \in audit : row.id \in Nat /\ row.id < nextId

LEMMA IdsHold == Spec => []IdsGiven
<1>1. Init => IdsGiven
  BY DEF Init, StoreInit, IdsGiven
<1>2. Typed /\ IdsGiven /\ [Next]_vars => IdsGiven'
  <2> SUFFICES ASSUME Typed, IdsGiven, [Next]_vars
               PROVE  IdsGiven'
    OBVIOUS
  <2>0. nextId \in Nat
    BY DEF Typed, TypeOK, StoreTypeOK
  <2>1. CASE UNCHANGED <<audit, nextId>> \/ MaintainAudit
    BY <2>1 DEF IdsGiven, MaintainAudit, PruneAudit
  <2>6. ASSUME UNCHANGED storeVars \/ (\E r \in Request : Observe(r)) \/ MaintainSeen \/ DayPasses
                 \/ (\E o \in Operator : CommitRule(o))
        PROVE  UNCHANGED <<audit, nextId>>
    BY <2>6 DEF storeVars, Observe, MaintainSeen, DayPasses, Tick, tables, CommitRule
  <2>2. ASSUME NEW rows \in SUBSET AuditRow, audit' = audit \cup rows,
               nextId' = IF rows = {} THEN nextId ELSE nextId + 1,
               \A row \in rows : row.id = nextId
        PROVE  IdsGiven'
    BY <2>0, <2>2 DEF IdsGiven
  <2>3. ASSUME NEW o \in Operator, CommitRuleAudit(o)
        PROVE  IdsGiven'
    BY <2>0, <2>3, RuleRowAppended DEF IdsGiven
  <2>4. ASSUME NEW r \in Request, NoteForeign(r)
        PROVE  IdsGiven'
    BY <2>0, <2>1, <2>4, ForeignRowAppended DEF IdsGiven
  <2>5. ASSUME NEW r \in Request, ReportBlocks(r)
        PROVE  IdsGiven'
    BY <2>1, <2>2, <2>5, BlockRowsAppended
  <2> QED
    BY <2>1, <2>3, <2>4, <2>5, <2>6, StoreSteps
<1> QED
  BY <1>1, <1>2, AlwaysTyped, PTL DEF Spec

-----------------------------------------------------------------------------
(* What is served and the ledger.                                           *)

(* No day passes during an evaluation.                                      *)
Prompt == \A r \in Request : Evaluating(r) => req[r].now = clock

(* No day passes while an evaluation runs.                                  *)
LEMMA PromptHolds == Spec => []Prompt
<1>1. Init => Prompt
  BY DEF Init, Prompt, Evaluating, IdleRequest
<1>2. Typed /\ Undecided /\ Prompt /\ [Next]_vars => Prompt'
  <2> SUFFICES ASSUME Typed, Undecided, Prompt, [Next]_vars
               PROVE  Prompt'
    OBVIOUS
  <2>1. CASE DayPasses
    BY <2>1 DEF DayPasses, OnPool, Prompt, Evaluating
  <2>2. CASE ~DayPasses
    <3>1. clock' = clock
      BY <2>2, StoreSteps
         DEF storeVars, Observe, ReportBlocks, NoteForeign, CommitRule, CommitRuleAudit,
             MaintainAudit, MaintainSeen
    <3>2. ASSUME NEW x \in Request, Evaluating(x)'
          PROVE  req'[x].now = clock
      <4>t. req \in [Request -> RequestState] /\ req[x] \in RequestState
        BY DEF Typed, TypeOK
      <4>1. CASE Stands(x)
        BY <3>2, <4>1 DEF Stands, Evaluating, Decided, Prompt
      <4>2. CASE BeginEvaluation(x)
        BY <4>t, <4>2 DEF BeginEvaluation, RequestState
      <4>3. CASE Observe(x) \/ ObserveFails(x)
        <5>1. Evaluating(x) /\ req'[x].now = req[x].now
          BY <4>t, <4>3 DEF Observe, ObserveDocument, ObserveFails, Evaluating, RequestState
        <5> QED
          BY <5>1 DEF Prompt
      <4>4. CASE Lookup(x) \/ LookupFails(x)
        <5>1. PICK verdicts :
                \/ req'[x] = [req[x] EXCEPT !.verdicts = verdicts]
                \/ req'[x] = [req[x] EXCEPT !.faulted = TRUE, !.verdicts = verdicts]
          BY <4>t, <4>4 DEF Lookup, LookupFails
        <5>2. Evaluating(x) /\ req'[x].now = req[x].now
          BY <4>t, <4>4, <5>1 DEF Lookup, LookupFails, Evaluating, RequestState
        <5> QED
          BY <5>2 DEF Prompt
      <4>5. CASE Erased(x)
        BY <3>2, <4>5 DEF Erased, Blank, Evaluating
      <4> QED
        BY <4>1, <4>2, <4>3, <4>4, <4>5, StepMeans
    <3> QED
      BY <3>1, <3>2 DEF Prompt
  <2> QED
    BY <2>1, <2>2
<1> QED
  BY <1>1, <1>2, AlwaysTyped, DecisionHolds, PTL DEF Spec, DecisionInv

(* A row that pruning does not reach yet.                                   *)
Safe(row) == row.last >= clock \/ clock <= SeenRetention

(* The ledger holds `identity` for the release, out of pruning's reach.     *)
Holds(rel, identity) ==
  /\ seen[rel] # None /\ seen[rel].identity = identity /\ Safe(seen[rel])

(* No step takes it away.                                                   *)
LEMMA LedgerHolds ==
  ASSUME Typed, Prompt, [Next]_vars, clock' = clock,
         NEW rel \in Release, NEW identity, Holds(rel, identity)
  PROVE  Holds(rel, identity)'
<1>t. /\ seen \in [Release -> SeenRow \cup {None}] /\ clock \in Nat
      /\ seen[rel] \in SeenRow
  BY DEF Typed, TypeOK, StoreTypeOK, Holds
<1>1. CASE seen' = seen
  BY <1>1 DEF Holds, Safe
<1>2. ASSUME NEW r \in Request, Observe(r)
      PROVE  Holds(rel, identity)'
  <2>0. /\ req[r].now = clock /\ req[r].cached \in BOOLEAN /\ req[r].doc \in Doc
    BY <1>2, FitsNow DEF Observe, Prompt, Evaluating, Fits, Loaded, RequestState
  <2>1. PICK ids, bump, pkg :
          /\ ids = Identities(req[r].doc) /\ bump = ~req[r].cached /\ pkg = req[r].key[1]
    OBVIOUS
  <2>2. ObserveBatch(pkg, ids, clock, bump)
    BY <1>2, <2>0, <2>1 DEF Observe, ObserveDocument
  <2>3. \/ seen'[rel] = seen[rel]
        \/ seen'[rel] = Observed(seen[rel], ids[rel[2]], clock, bump)
    BY <2>2 DEF ObserveBatch
  <2>4. \A id : LET row == Observed(seen[rel], id, clock, bump)
                IN  row \in SeenRow /\ row.identity = seen[rel].identity
                      /\ (row.last = seen[rel].last \/ row.last = clock)
    BY <1>t, NoneAssumption DEF Observed, SeenRow
  <2> QED
    BY <1>t, <2>3, <2>4, NoneAssumption DEF Holds, Safe
<1>3. CASE MaintainSeen
  <2>1. ~(seen[rel].last < clock - SeenRetention)
    BY <1>t, StoreAssumption DEF Holds, Safe, Prompt, SeenRow
  <2> QED
    BY <1>3, <2>1 DEF MaintainSeen, PruneSeen, Holds, Safe
<1> QED
  BY <1>1, <1>2, <1>3, StoreSteps
     DEF storeVars, ReportBlocks, NoteForeign, CommitRule, CommitRuleAudit, MaintainAudit,
         DayPasses, Tick, tables

(* A version the ledger did not object to is on it, under the identity in   *)
(* the document, until the evaluation ends; for a cached document only      *)
(* while no row has come of age for pruning, because a cache hit compares   *)
(* without refreshing the row.                                              *)
LedgerInv ==
  \A r \in Request :
    req[r].pc \in {"lookup", "foreign"} /\ (~req[r].cached \/ clock <= SeenRetention) =>
      \A v \in InDoc(req[r].doc) : ~req[r].changed[v] =>
        Holds(<<req[r].key[1], v>>, VersionIdentity(req[r].doc.versions[v]))

(* Time stands still while an evaluation runs.                              *)
LEMMA ClockStands ==
  ASSUME Typed, [Next]_vars, NEW x \in Request, Evaluating(x)
  PROVE  clock' = clock
BY StoreSteps
   DEF storeVars, Observe, ReportBlocks, NoteForeign, CommitRule, CommitRuleAudit,
       MaintainAudit, MaintainSeen, DayPasses, OnPool

(* LedgerInv is inductive: nothing prunes a row observed today.             *)
LEMMA LedgerInductive ==
  ASSUME Typed, Undecided, Prompt, LedgerInv, [Next]_vars
  PROVE  LedgerInv'
<1> SUFFICES ASSUME NEW x \in Request,
                    req'[x].pc \in {"lookup", "foreign"},
                    ~req'[x].cached \/ clock' <= SeenRetention,
                    NEW v \in InDoc(req'[x].doc), ~req'[x].changed[v]
             PROVE  Holds(<<req[x].key[1], v>>, VersionIdentity(req[x].doc.versions[v]))'
  BY DEF LedgerInv
<1>t. req \in [Request -> RequestState] /\ req[x] \in RequestState /\ v \in Version
  BY DEF Typed, TypeOK, InDoc
<1>1. ASSUME req[x].pc \in {"lookup", "foreign"},
             req'[x].key = req[x].key, req'[x].doc = req[x].doc,
             req'[x].changed = req[x].changed, req'[x].cached = req[x].cached
      PROVE  Holds(<<req[x].key[1], v>>, VersionIdentity(req[x].doc.versions[v]))'
  <2>1. clock' = clock
    BY <1>1, ClockStands DEF Evaluating
  <2>2. req[x].key \in Key
    BY <1>1, FitsNow DEF Fits, Asked, RequestPcs
  <2>3. PICK rel, identity :
          rel = <<req[x].key[1], v>> /\ identity = VersionIdentity(req[x].doc.versions[v])
    OBVIOUS
  <2>4. rel \in Release /\ Holds(rel, identity)
    BY <1>t, <1>1, <2>1, <2>2, <2>3 DEF LedgerInv
  <2>5. Holds(rel, identity)'
    BY <2>1, <2>4, LedgerHolds
  <2>6. rel = <<req'[x].key[1], v>> /\ identity = VersionIdentity(req'[x].doc.versions[v])
    BY <1>1, <2>3
  <2> QED
    BY <2>5, <2>6
<1>2. CASE Erased(x) \/ BeginEvaluation(x) \/ ObserveFails(x)
  <2>1. ~Erased(x)
    BY DEF Erased, Blank
  <2>2. ~BeginEvaluation(x)
    BY <1>t DEF BeginEvaluation, RequestState
  <2>3. CASE ObserveFails(x)
    <3>1. /\ req'[x].doc = req[x].doc
          /\ req'[x].changed = [w \in Version |-> w \in InDoc(req[x].doc)]
      BY <1>t, <2>3 DEF ObserveFails, RequestState
    <3> QED
      BY <1>t, <3>1
  <2> QED
    BY <1>2, <2>1, <2>2, <2>3
<1>3. CASE Stands(x)
  BY <1>1, <1>3 DEF Stands, Decided
<1>4. CASE Lookup(x) \/ LookupFails(x)
  <2>1. PICK verdicts :
          \/ req'[x] = [req[x] EXCEPT !.verdicts = verdicts]
          \/ req'[x] = [req[x] EXCEPT !.faulted = TRUE, !.verdicts = verdicts]
    BY <1>t, <1>4 DEF Lookup, LookupFails
  <2>2. /\ req[x].pc = "lookup" /\ req'[x].key = req[x].key /\ req'[x].doc = req[x].doc
        /\ req'[x].changed = req[x].changed /\ req'[x].cached = req[x].cached
    BY <1>t, <1>4, <2>1 DEF Lookup, LookupFails, RequestState
  <2> QED
    BY <1>1, <2>2
<1>5. CASE Observe(x)
  <2>0. /\ req[x].now = clock /\ req[x].cached \in BOOLEAN /\ req[x].doc \in Doc
        /\ req[x].key \in Key /\ clock' = clock /\ clock \in Nat
        /\ seen \in [Release -> SeenRow \cup {None}]
    BY <1>5, FitsNow
       DEF Observe, Prompt, Evaluating, Fits, Asked, RequestPcs, Loaded, RequestState,
           Typed, TypeOK, StoreTypeOK
  <2>1. PICK pkg, ids, bump :
          /\ pkg = req[x].key[1] /\ ids = Identities(req[x].doc) /\ bump = ~req[x].cached
    OBVIOUS
  <2>2. /\ req'[x].key = req[x].key /\ req'[x].doc = req[x].doc
        /\ req'[x].cached = req[x].cached
        /\ req'[x].changed = [w \in Version |->
             w \in DOMAIN ids /\ LedgerChanged(<<pkg, w>>, ids[w])]
        /\ ObserveBatch(pkg, ids, clock, bump)
    BY <1>t, <1>5, <2>0, <2>1 DEF Observe, ObserveDocument, RequestState
  <2>3. v \in DOMAIN ids /\ ids[v] = VersionIdentity(req'[x].doc.versions[v])
    BY <2>0, <2>1, <2>2, IdentitiesType
  <2>4. PICK rel \in Release : rel = <<pkg, v>>
    BY <1>t, <2>0, <2>1
  <2>5. seen'[rel] = Observed(seen[rel], ids[v], clock, bump)
    BY <2>2, <2>3, <2>4 DEF ObserveBatch
  <2>6. seen[rel] = None \/ seen[rel].identity = ids[v]
    BY <1>t, <2>2, <2>3, <2>4 DEF LedgerChanged
  <2>7. PICK row : row = seen[rel] /\ row \in SeenRow \cup {None}
    BY <2>0
  <2>8. PICK id : id = ids[v]
    OBVIOUS
  <2>9. bump \/ clock <= SeenRetention
    BY <2>0, <2>1, <2>2
  <2>10. /\ seen'[rel] # None /\ seen'[rel].identity = id
         /\ (seen'[rel].last = clock \/ clock <= SeenRetention)
    <3>1. CASE row = None
      <4>1. seen'[rel] = [identity |-> id, last |-> clock, replaced |-> FALSE]
        BY <2>5, <2>7, <2>8, <3>1 DEF Observed
      <4>2. id \in Identity
        BY <2>0, <2>1, <2>3, <2>8, IdentitiesType
      <4>3. seen'[rel] \in SeenRow
        BY <2>0, <4>1, <4>2 DEF SeenRow
      <4>4. seen'[rel].identity = id /\ seen'[rel].last = clock
        BY <4>1
      <4>5. seen'[rel] # None
        BY <4>3, NoneAssumption
      <4> QED
        BY <4>4, <4>5
    <3>2. CASE row # None
      <4>1. row \in SeenRow /\ row.identity = id
        BY <2>6, <2>7, <2>8, <3>2
      <4>2. seen'[rel] = IF bump THEN [row EXCEPT !.last = clock] ELSE row
        BY <2>5, <2>7, <2>8, <3>2, <4>1 DEF Observed
      <4> QED
        BY <2>0, <2>9, <4>1, <4>2, NoneAssumption DEF SeenRow
    <3> QED
      BY <3>1, <3>2
  <2> QED
    BY <2>0, <2>1, <2>2, <2>3, <2>4, <2>8, <2>10 DEF Holds, Safe
<1> QED
  BY <1>2, <1>3, <1>4, <1>5, StepMeans

(* What is served is on the ledger, unless it is a cached document and rows *)
(* have come of age: pruning never takes a row that the answer to a fetched *)
(* document relies on, because the observation has just refreshed it.       *)
THEOREM ServedStaysOnLedger == Spec => ServedIsOnLedger
<1>1. Init => LedgerInv
  BY DEF Init, LedgerInv, IdleRequest
<1>2. Typed /\ Undecided /\ Prompt /\ LedgerInv /\ [Next]_vars => LedgerInv'
  BY LedgerInductive
<1>3. ASSUME Typed, DecisionInv, LedgerInv, [Next]_vars,
             NEW x \in Request, (Served(x))', ~Served(x),
             NEW v \in InDoc(req'[x].doc), req'[x].verdicts[v] = "allow",
             ~(req[x].cached /\ clock > SeenRetention)
      PROVE  LET row == seen[<<req'[x].key[1], v>>]
             IN  row # None /\ row.identity = VersionIdentity(req'[x].doc.versions[v])
  <2>t. req \in [Request -> RequestState] /\ req[x] \in RequestState /\ v \in Version
    BY <1>3 DEF Typed, TypeOK, InDoc
  <2>1. Stands(x)
    <3>1. ~Erased(x)
      BY <1>3 DEF Erased, Blank, Served
    <3>2. ~BeginEvaluation(x) /\ ~Observe(x) /\ ~ObserveFails(x)
      BY <1>3, <2>t
         DEF BeginEvaluation, Observe, ObserveDocument, ObserveFails, Served, RequestState
    <3>3. ~Lookup(x) /\ ~LookupFails(x)
      <4> SUFFICES ASSUME Lookup(x) \/ LookupFails(x)
                   PROVE  FALSE
        OBVIOUS
      <4>1. PICK verdicts :
              \/ req'[x] = [req[x] EXCEPT !.verdicts = verdicts]
              \/ req'[x] = [req[x] EXCEPT !.faulted = TRUE, !.verdicts = verdicts]
        BY <2>t DEF Lookup, LookupFails
      <4> QED
        BY <1>3, <2>t, <4>1 DEF Lookup, LookupFails, Served, RequestState
    <3> QED
      BY <1>3, <3>1, <3>2, <3>3, StepMeans DEF DecisionInv
  <2>2. /\ req[x].pc \in {"lookup", "foreign"}
        /\ req'[x].key = req[x].key /\ req'[x].doc = req[x].doc
        /\ req'[x].verdicts = req[x].verdicts
    BY <1>3, <2>1 DEF Stands, Served, Decided
  <2>3. ~req[x].changed[v]
    <3>1. req[x].verdicts[v] = "allow" /\ JustifiedVerdict(x, v)
      BY <1>3, <2>t, <2>2, DaemonAssumption DEF DecisionInv, Justified, Verdicts
    <3>2. Decide(req[x].key[1], req[x].doc.versions[v], FALSE, DenyRule, req[x].now) # "allow"
      BY DenyNeverAllows
    <3>3. PICK rule :
            Decide(req[x].key[1], req[x].doc.versions[v], req[x].changed[v], rule, req[x].now)
              = "allow"
      BY <3>1, <3>2 DEF JustifiedVerdict
    <3> QED
      BY <3>3 DEF Decide
  <2>4. Holds(<<req[x].key[1], v>>, VersionIdentity(req[x].doc.versions[v]))
    <3>1. ~req[x].cached \/ clock <= SeenRetention
      <4>1. clock \in Nat /\ SeenRetention \in Nat /\ req[x].cached \in BOOLEAN
        BY <1>3, <2>t, StoreAssumption DEF Typed, TypeOK, StoreTypeOK, RequestState
      <4> QED
        BY <1>3, <4>1
    <3> QED
      BY <1>3, <2>2, <2>3, <3>1 DEF LedgerInv
  <2> QED
    BY <2>2, <2>4 DEF Holds
<1>4. Typed /\ DecisionInv /\ LedgerInv /\ [Next]_vars =>
        [\A r \in Request : (Served(r))' /\ ~Served(r) =>
           \A v \in InDoc(req'[r].doc) : req'[r].verdicts[v] = "allow" =>
             LET row == seen[<<req'[r].key[1], v>>]
             IN  \/ row # None /\ row.identity = VersionIdentity(req'[r].doc.versions[v])
                 \/ req[r].cached /\ clock > SeenRetention]_vars
  BY <1>3
<1> QED
  BY <1>1, <1>2, <1>4, AlwaysTyped, DecisionHolds, PromptHolds, PTL
     DEF Spec, DecisionInv, ServedIsOnLedger

-----------------------------------------------------------------------------
(* What an evaluation notices.                                              *)

(* How a request comes to where it is, and with which document.             *)
Kept(x) ==
  /\ req'[x].key = req[x].key /\ req'[x].doc = req[x].doc
  /\ req'[x].pc # "answered" => req'[x].cached = req[x].cached
  /\ \/ req'[x].pc = req[x].pc /\ req'[x].status = req[x].status
     \/ req[x].pc = "fetched" /\ req'[x].pc = "evaluate"
     \/ req[x].pc \in {"evaluate", "observe", "lookup"} /\ req'[x].pc \in {"observe", "lookup"}
     \/ Decided(x) /\ req'[x].pc = "foreign"
     \/ (Decided(x) \/ req[x].pc = "foreign") /\ req'[x].pc = "answered"

(* What a step does to one request, as far as its place and its document    *)
(* go.                                                                      *)
Moves(x) ==
  \/ req'[x].pc \in {"idle", "answered"} /\ ~Served(x)'
  \/ (\E key \in Key : Arrive(x, key)) /\ req'[x].pc = "queued" /\ ~req'[x].cached
  \/ req'[x].pc = "fetch" /\ req[x].pc = "queued" /\ req'[x].cached = req[x].cached
  \/ Fetch(x) /\ req'[x].pc = "fetched" /\ req'[x].cached = req[x].cached
  \/ AdmitHit(x)
  \/ Kept(x)

LEMMA StepMoves ==
  ASSUME Typed, [Next]_vars, NEW x \in Request
  PROVE  Moves(x)
<1>t. /\ req \in [Request -> RequestState] /\ req[x] \in RequestState
      /\ IdleRequest \in RequestState /\ IdleRequest.pc = "idle" /\ ~IdleRequest.cached
  BY IdleType DEF Typed, TypeOK, IdleRequest
<1>a. ASSUME NEW status, Answer(x, status),
             status = "ok" => Decided(x) \/ req[x].pc = "foreign"
      PROVE  Moves(x)
  <2>1. CASE req[x].client /\ status = "ok"
    <3>1. req'[x] = [req[x] EXCEPT !.pc = "answered", !.status = status, !.cached = FALSE]
      BY <1>t, <1>a, <2>1 DEF Answer
    <3> QED
      BY <1>t, <1>a, <2>1, <3>1 DEF Moves, Kept, RequestState
  <2>2. CASE ~(req[x].client /\ status = "ok")
    <3>1. \/ req'[x] = IdleRequest
          \/ req'[x] = [IdleRequest EXCEPT !.pc = "answered", !.status = status,
                                           !.faulted = req[x].faulted] /\ status # "ok"
      BY <1>t, <1>a, <2>2 DEF Answer
    <3>2. \A new : new = [IdleRequest EXCEPT !.pc = "answered", !.status = status,
                                             !.faulted = req[x].faulted]
                     => new.pc = "answered" /\ new.status = status
      BY <1>t DEF RequestState
    <3> QED
      BY <1>t, <3>1, <3>2 DEF Moves, Served
  <2> QED
    BY <2>1, <2>2
<1>1. CASE RequestStep(x)
  <2>1. CASE \E key \in Key : Arrive(x, key)
    <3>1. PICK key \in Key : req'[x] = [IdleRequest EXCEPT !.pc = "queued", !.key = key]
      BY <1>t, <2>1 DEF Arrive
    <3>2. req'[x].pc = "queued" /\ req'[x].cached = IdleRequest.cached
      BY <1>t, <3>1 DEF RequestState
    <3> QED
      BY <1>t, <2>1, <3>2 DEF Moves
  <2>2. CASE AdmitHit(x)
    BY <2>2 DEF Moves
  <2>3. CASE AdmitMiss(x) \/ Fetch(x)
    BY <1>t, <2>3 DEF AdmitMiss, Fetch, Moves, RequestState
  <2>4. CASE CacheInsert(x) \/ BeginEvaluation(x)
    BY <1>t, <2>4 DEF CacheInsert, BeginEvaluation, OnPool, Moves, Kept, RequestState
  <2>5. CASE Observe(x) \/ ObserveFails(x)
    BY <1>t, <2>5
       DEF Observe, ObserveDocument, ObserveFails, OnPool, Evaluating, Moves, Kept, RequestState
  <2>6. CASE Lookup(x) \/ LookupFails(x)
    <3>1. PICK verdicts :
            \/ req'[x] = [req[x] EXCEPT !.verdicts = verdicts]
            \/ req'[x] = [req[x] EXCEPT !.faulted = TRUE, !.verdicts = verdicts]
      BY <1>t, <2>6 DEF Lookup, LookupFails
    <3> QED
      BY <1>t, <3>1, ZenonT(30) DEF Moves, Kept, RequestState
  <2>7. CASE FetchFails(x) \/ RejectMalformed(x) \/ ReportFailure(x) \/ NoteForeign(x)
    BY <1>a, <2>7 DEF FetchFails, RejectMalformed, ReportFailure, NoteForeign
  <2>8. CASE ReportBlocks(x)
    <3>1. CASE NotesForeign(x)
      <4>1. Decided(x) /\ req'[x] = [req[x] EXCEPT !.pc = "foreign"]
        BY <1>t, <2>8, <3>1 DEF ReportBlocks
      <4> QED
        BY <1>t, <4>1 DEF Moves, Kept, RequestState
    <3>2. CASE ~NotesForeign(x)
      BY <1>a, <2>8, <3>2 DEF ReportBlocks
    <3> QED
      BY <3>1, <3>2
  <2>9. CASE Disconnect(x)
    <3>1. CASE OnPool(x)
      <4>1. req'[x] = [req[x] EXCEPT !.client = FALSE]
        BY <1>t, <2>9, <3>1 DEF Disconnect
      <4> QED
        BY <1>t, <4>1 DEF Moves, Kept, RequestState
    <3>2. CASE ~OnPool(x)
      BY <1>t, <2>9, <3>2 DEF Disconnect, Moves, Served
    <3> QED
      BY <3>1, <3>2
  <2> QED
    BY <1>1, <2>1, <2>2, <2>3, <2>4, <2>5, <2>6, <2>7, <2>8, <2>9, Zenon
       DEF RequestStep, Handler, Evaluation
<1>2. ASSUME NEW r \in Request, r # x, RequestStep(r)
      PROVE  Moves(x)
  BY <1>2, OthersSame DEF Same, Moves, Kept
<1>3. CASE Crash
  BY <1>t, <1>3 DEF Crash, Moves, Served
<1>4. CASE \A r \in Request : req'[r] = [req[r] EXCEPT !.inforce = req'[r].inforce]
  BY <1>t, <1>4 DEF Moves, Kept, RequestState
<1> QED
  BY <1>1, <1>2, <1>3, <1>4, OtherSteps

(* An evaluation on the pool goes on until it ends in one of four ways.     *)
LEMMA PoolStep ==
  ASSUME Typed, [Next]_vars, "crash" \notin Hazards, NEW x \in Request, OnPool(x)
  PROVE  \/ RejectMalformed(x) \/ ReportFailure(x) \/ ReportBlocks(x) \/ NoteForeign(x)
         \/ /\ OnPool(x)' /\ req'[x].key = req[x].key /\ req'[x].doc = req[x].doc
            /\ req'[x].cached = req[x].cached
            /\ req[x].pc = "lookup" =>
                 req'[x].pc = "lookup" /\ req'[x].changed = req[x].changed
<1>t. req \in [Request -> RequestState] /\ req[x] \in RequestState
  BY DEF Typed, TypeOK
<1>1. ASSUME RequestStep(x), ~RejectMalformed(x), ~ReportFailure(x), ~ReportBlocks(x),
             ~NoteForeign(x)
      PROVE  /\ OnPool(x)' /\ req'[x].key = req[x].key /\ req'[x].doc = req[x].doc
             /\ req'[x].cached = req[x].cached
             /\ req[x].pc = "lookup" =>
                  req'[x].pc = "lookup" /\ req'[x].changed = req[x].changed
  <2>1. CASE BeginEvaluation(x)
    BY <1>t, <2>1 DEF BeginEvaluation, OnPool, Evaluating, RequestState
  <2>2. CASE Observe(x) \/ ObserveFails(x)
    BY <1>t, <2>2 DEF Observe, ObserveDocument, ObserveFails, OnPool, Evaluating, RequestState
  <2>3. CASE Lookup(x) \/ LookupFails(x)
    <3>1. PICK verdicts :
            \/ req'[x] = [req[x] EXCEPT !.verdicts = verdicts]
            \/ req'[x] = [req[x] EXCEPT !.faulted = TRUE, !.verdicts = verdicts]
      BY <1>t, <2>3 DEF Lookup, LookupFails
    <3> QED
      BY <1>t, <3>1 DEF OnPool, Evaluating, RequestState
  <2>4. CASE Disconnect(x)
    <3>1. req'[x] = [req[x] EXCEPT !.client = FALSE]
      BY <1>t, <2>4 DEF Disconnect
    <3> QED
      BY <1>t, <3>1 DEF OnPool, Evaluating, RequestState
  <2>5. (\A key \in Key : ~Arrive(x, key)) /\ ~Handler(x)
    BY DEF Arrive, Handler, AdmitHit, AdmitMiss, Fetch, FetchFails, CacheInsert, OnPool, Evaluating
  <2> QED
    BY <1>1, <2>1, <2>2, <2>3, <2>4, <2>5, Zenon DEF RequestStep, Evaluation
<1>2. ASSUME NEW r \in Request, r # x, RequestStep(r)
      PROVE  req'[x] = req[x]
  BY <1>2, OthersSame DEF Same
<1>3. ~Crash
  BY DEF Crash, May
<1>4. ASSUME \A r \in Request : req'[r] = [req[r] EXCEPT !.inforce = req'[r].inforce]
      PROVE  /\ req'[x].key = req[x].key /\ req'[x].doc = req[x].doc
             /\ req'[x].cached = req[x].cached /\ req'[x].pc = req[x].pc
             /\ req'[x].changed = req[x].changed
  BY <1>t, <1>4 DEF RequestState
<1> QED
  BY <1>1, <1>2, <1>3, <1>4, OtherSteps DEF OnPool, Evaluating

(* Rows stay while nothing is pruned.                                       *)
LEMMA AuditGrows ==
  ASSUME Typed, [Next]_vars, AuditRetention = 0
  PROVE  audit \subseteq audit'
<1>1. ASSUME NEW r \in Request, ReportBlocks(r) \/ NoteForeign(r)
      PROVE  audit \subseteq audit'
  BY <1>1 DEF ReportBlocks, RecordBlocks, NoteForeign, AppendForeignOnce, AppendRows
<1>2. ASSUME NEW o \in Operator, CommitRuleAudit(o)
      PROVE  audit \subseteq audit'
  BY <1>2 DEF CommitRuleAudit, AuditOf, AppendRuleAudit, AppendRows
<1>3. ~MaintainAudit
  BY DEF MaintainAudit
<1> QED
  BY <1>1, <1>2, <1>3, StoreSteps
     DEF storeVars, Observe, CommitRule, MaintainSeen, DayPasses, Tick, tables

(* A cached document is one that a request has just fetched.                *)
LEMMA CacheSteps ==
  ASSUME Typed, [Next]_vars, NEW key \in Key
  PROVE  \/ cache'[key] = cache[key] \/ cache'[key] = None
         \/ \E r \in Request :
              CacheInsert(r) /\ req[r].key = key /\ cache'[key] = req[r].doc
<1>t. cache \in [Key -> Doc \cup {None}]
  BY DEF Typed, TypeOK
<1>1. ASSUME NEW r \in Request, RequestStep(r), ~CacheInsert(r)
      PROVE  cache' = cache
  BY <1>1
     DEF RequestStep, Arrive, Handler, AdmitHit, AdmitMiss, Fetch, FetchFails,
         Evaluation, BeginEvaluation, Observe, ObserveFails, RejectMalformed, Lookup,
         LookupFails, ReportFailure, ReportBlocks, NoteForeign, Disconnect
<1>2. ASSUME NEW r \in Request, CacheInsert(r)
      PROVE  cache'[key] = cache[key] \/ (req[r].key = key /\ cache'[key] = req[r].doc)
  BY <1>2, <1>t DEF CacheInsert
<1>3. ASSUME NEW o \in Operator,
             (\E rel \in Release : StartAllow(o, rel) \/ StartDeny(o, rel)) \/ Command(o)
      PROVE  cache' = cache
  BY <1>3
     DEF Command, StartAllow, StartDeny, FetchForAllow, CommitRule, CommitRuleAudit,
         CommandFails, path
<1>4. CASE Maintain \/ (\E k \in Key : Republish(k)) \/ DayPasses \/ Crash \/ UNCHANGED vars
  BY <1>4 DEF Maintain, Republish, DayPasses, Crash, vars, path
<1> QED
  BY <1>1, <1>2, <1>3, <1>4, Zenon DEF Next, RequestStep

(* Once upstream has served a malformed document it has served one for      *)
(* good.                                                                    *)
LEMMA PublishedStays ==
  ASSUME Typed, [Next]_vars, PublishedMalformed
  PROVE  PublishedMalformed'
<1>1. CASE upstream' = upstream
  BY <1>1 DEF PublishedMalformed
<1>2. ASSUME NEW key \in Key, Republish(key)
      PROVE  PublishedMalformed'
  <2>1. PICK k \in Key : \E i \in 1..upstream[k].at : upstream[k].docs[i].malformed
    BY DEF PublishedMalformed
  <2>2. upstream[k] \in [docs : Histories, at : Nat]
    BY DEF Typed, TypeOK
  <2>3. upstream'[k].docs = upstream[k].docs
          /\ (upstream'[k].at = upstream[k].at \/ upstream'[k].at = upstream[k].at + 1)
    BY <1>2, <2>2 DEF Republish, Typed, TypeOK
  <2>4. 1..upstream[k].at \subseteq 1..upstream'[k].at
    BY <2>2, <2>3
  <2> QED
    BY <2>1, <2>3, <2>4 DEF PublishedMalformed
<1>3. ASSUME NEW r \in Request, RequestStep(r)
      PROVE  upstream' = upstream
  BY <1>3
     DEF RequestStep, Arrive, Handler, AdmitHit, AdmitMiss, Fetch, FetchFails, CacheInsert,
         Evaluation, BeginEvaluation, Observe, ObserveFails, RejectMalformed, Lookup,
         LookupFails, ReportFailure, ReportBlocks, NoteForeign, Disconnect
<1>4. ASSUME NEW o \in Operator,
             (\E rel \in Release : StartAllow(o, rel) \/ StartDeny(o, rel)) \/ Command(o)
      PROVE  upstream' = upstream
  BY <1>4
     DEF Command, StartAllow, StartDeny, FetchForAllow, CommitRule, CommitRuleAudit,
         CommandFails
<1>5. CASE Maintain \/ DayPasses \/ Crash \/ UNCHANGED vars
  BY <1>1, <1>5 DEF Maintain, DayPasses, Crash, vars
<1> QED
  BY <1>1, <1>2, <1>3, <1>4, <1>5, Zenon DEF Next, RequestStep

(* A document at hand that the engine cannot read has been published.       *)
DocsOrigin ==
  /\ \A key \in Key :
       cache[key] # None /\ cache[key].malformed => PublishedMalformed
  /\ \A r \in Request :
       (req[r].pc \in Loaded \/ Served(r)) /\ req[r].doc.malformed => PublishedMalformed

(* Every document a request or the cache holds was served by upstream.      *)
LEMMA OriginHolds == Spec => []DocsOrigin
<1>1. Init => DocsOrigin
  BY DEF Init, DocsOrigin, IdleRequest, Served, Loaded
<1>2. Typed /\ DocsOrigin /\ [Next]_vars => DocsOrigin'
  <2> SUFFICES ASSUME Typed, DocsOrigin, [Next]_vars
               PROVE  DocsOrigin'
    OBVIOUS
  <2>1. PublishedMalformed => PublishedMalformed'
    BY PublishedStays
  <2>2. ASSUME NEW key \in Key, cache'[key] # None, cache'[key].malformed
        PROVE  PublishedMalformed'
    <3>1. CASE cache'[key] = cache[key]
      BY <2>1, <2>2, <3>1 DEF DocsOrigin
    <3>2. ASSUME NEW r \in Request, CacheInsert(r), cache'[key] = req[r].doc
          PROVE  PublishedMalformed'
      BY <2>1, <2>2, <3>2 DEF DocsOrigin, CacheInsert, Loaded
    <3> QED
      BY <2>2, <3>1, <3>2, CacheSteps
  <2>3. ASSUME NEW x \in Request, req'[x].pc \in Loaded \/ Served(x)', req'[x].doc.malformed
        PROVE  PublishedMalformed'
    <3>t. req \in [Request -> RequestState] /\ req[x] \in RequestState
      BY DEF Typed, TypeOK
    <3>1. CASE Fetch(x)
      <4>1. req'[x].doc = Serves(req[x].key) /\ upstream' = upstream
        BY <3>t, <3>1 DEF Fetch, RequestState
      <4>2. req[x].key \in Key
        BY <3>1, FitsNow DEF Fetch, Fits, Asked, RequestPcs
      <4>3. upstream[req[x].key].at \in 1..upstream[req[x].key].at
        BY <4>2 DEF Typed, UpstreamOK
      <4> QED
        BY <2>1, <2>3, <4>1, <4>2, <4>3 DEF Serves, PublishedMalformed
    <3>2. CASE AdmitHit(x)
      <4>1. req'[x].doc = cache[req[x].key] /\ cache[req[x].key] # None
        BY <3>t, <3>2 DEF AdmitHit, RequestState
      <4>2. req[x].key \in Key
        BY <3>2, FitsNow DEF AdmitHit, Fits, Asked, RequestPcs
      <4> QED
        BY <2>1, <2>3, <4>1, <4>2 DEF DocsOrigin
    <3>3. CASE Kept(x)
      <4>1. req[x].pc \in Loaded \/ Served(x)
        BY <2>3, <3>3 DEF Kept, Loaded, Served, OnPool, Evaluating, Decided
      <4> QED
        BY <2>1, <2>3, <3>3, <4>1 DEF DocsOrigin, Kept
    <3> QED
      BY <2>3, <3>1, <3>2, <3>3, StepMoves DEF Moves, Loaded, Served
  <2> QED
    BY <2>2, <2>3 DEF DocsOrigin
<1> QED
  BY <1>1, <1>2, AlwaysTyped, PTL DEF Spec

(* While storage answers, nothing is ever put in the failure slot.          *)
LEMMA NeverFails ==
  ASSUME "fault" \notin Hazards
  PROVE  Spec => [](~failure)
<1>1. Init => ~failure
  BY DEF Init
<1>2. Typed /\ ~failure /\ [Next]_vars => ~failure'
  <2> SUFFICES ASSUME Typed, ~failure, [Next]_vars
               PROVE  ~failure'
    OBVIOUS
  <2>1. ASSUME NEW r \in Request, RequestStep(r)
        PROVE  ~failure'
    BY <2>1
       DEF RequestStep, Arrive, Handler, AdmitHit, AdmitMiss, Fetch, FetchFails, CacheInsert,
           Evaluation, BeginEvaluation, FailureAtStart, Observe, ObserveFails, RejectMalformed,
           Lookup, LookupFails, ReportFailure, ReportBlocks, NoteForeign, Disconnect, May
  <2> QED
    BY <2>1, OtherSteps DEF Crash
<1> QED
  BY <1>1, <1>2, AlwaysTyped, PTL DEF Spec

(* An entry of the cache or a document in use that is to be noted has been, *)
(* or the request that fetched one for the package is at it.                *)
ToNote(doc) == doc.foreign /\ ~doc.malformed

(* The row of a package is there, or a request is about to write it.        *)
Coming(pkg) ==
  \E r \in Request :
    OnPool(r) /\ req[r].key[1] = pkg /\ ~req[r].cached /\ ToNote(req[r].doc)

Noted(pkg) == ForeignRecorded(pkg) \/ Coming(pkg)

(* The inductive invariant for foreign tarballs.                            *)
ForeignInv ==
  /\ \A r \in Request : req[r].pc \in {"queued", "fetch", "fetched"} => ~req[r].cached
  /\ \A key \in Key : cache[key] # None /\ ToNote(cache[key]) => Noted(key[1])
  /\ \A r \in Request :
       (OnPool(r) \/ Served(r)) /\ ToNote(req[r].doc) => Noted(req[r].key[1])
  /\ \A r \in Request : req[r].pc = "foreign" \/ Served(r) => ~req[r].doc.malformed

(* A row that is coming arrives before its request ends.                    *)
LEMMA NotedStays ==
  ASSUME Typed, ~failure, [Next]_vars, Hazards \subseteq {"disconnect"}, AuditRetention = 0,
         NEW pkg, Noted(pkg)
  PROVE  Noted(pkg)'
<1>1. CASE ForeignRecorded(pkg)
  BY <1>1, AuditGrows DEF ForeignRecorded, Noted
<1>2. CASE Coming(pkg)
  <2>1. PICK r \in Request :
          OnPool(r) /\ req[r].key[1] = pkg /\ ~req[r].cached /\ ToNote(req[r].doc)
    BY <1>2 DEF Coming
  <2>t. req \in [Request -> RequestState] /\ req[r] \in RequestState
    BY DEF Typed, TypeOK
  <2>2. ~RejectMalformed(r) /\ ~ReportFailure(r)
    BY <2>1 DEF RejectMalformed, ReportFailure, ToNote
  <2>3. CASE ReportBlocks(r)
    <3>1. req'[r] = [req[r] EXCEPT !.pc = "foreign"]
      BY <2>1, <2>3, <2>t DEF ReportBlocks, NotesForeign, ToNote
    <3>2. OnPool(r)' /\ req'[r].key = req[r].key /\ req'[r].cached = req[r].cached
            /\ req'[r].doc = req[r].doc
      BY <2>t, <3>1 DEF OnPool, Evaluating, RequestState
    <3> QED
      BY <2>1, <3>2 DEF Noted, Coming, ToNote
  <2>4. CASE NoteForeign(r)
    <3>1. ForeignRecorded(pkg)'
      <4>1. AppendForeignOnce(req[r].key[1], req[r].now)
        BY <2>4 DEF NoteForeign, May
      <4>2. CASE ForeignRecorded(pkg)
        BY <4>2, AuditGrows DEF ForeignRecorded
      <4>3. CASE ~ForeignRecorded(pkg)
        <5>1. Row("foreign_tarball", <<pkg, None>>, None, req[r].now) \in audit'
          BY <2>1, <4>1, <4>3 DEF AppendForeignOnce, AppendRows
        <5> QED
          BY <5>1 DEF ForeignRecorded, Row
      <4> QED
        BY <4>2, <4>3
    <3> QED
      BY <3>1 DEF Noted
  <2>5. CASE /\ OnPool(r)' /\ req'[r].key = req[r].key /\ req'[r].doc = req[r].doc
             /\ req'[r].cached = req[r].cached
    BY <2>1, <2>5 DEF Noted, Coming, ToNote
  <2> QED
    BY <2>1, <2>2, <2>3, <2>4, <2>5, PoolStep
<1> QED
  BY <1>1, <1>2 DEF Noted

LEMMA ForeignInductive ==
  ASSUME Typed, ~failure, ForeignInv, [Next]_vars, Hazards \subseteq {"disconnect"},
         AuditRetention = 0
  PROVE  ForeignInv'
<1>t. req \in [Request -> RequestState]
  BY DEF Typed, TypeOK
<1>1. ASSUME NEW x \in Request
      PROVE  req'[x].pc \in {"queued", "fetch", "fetched"} => ~req'[x].cached
  <2>1. ~AdmitHit(x) \/ req'[x].pc = "evaluate"
    BY <1>t DEF AdmitHit, RequestState
  <2>2. Kept(x) /\ req'[x].pc \in {"queued", "fetch", "fetched"} => ~req'[x].cached
    BY DEF Kept, ForeignInv
  <2> QED
    BY <2>1, <2>2, StepMoves DEF Moves, Fetch, ForeignInv
<1>2. ASSUME NEW key \in Key, cache'[key] # None, ToNote(cache'[key])
      PROVE  Noted(key[1])'
  <2>1. CASE cache'[key] = cache[key]
    <3>1. Noted(key[1])
      BY <1>2, <2>1 DEF ForeignInv
    <3> QED
      BY <3>1, NotedStays
  <2>2. ASSUME NEW r \in Request, CacheInsert(r), req[r].key = key, cache'[key] = req[r].doc
        PROVE  Noted(key[1])'
    <3>1. /\ req'[r].pc = "evaluate" /\ req'[r].key = key /\ req'[r].cached = req[r].cached
          /\ req'[r].doc = req[r].doc /\ ~req[r].cached
      BY <1>t, <2>2 DEF CacheInsert, ForeignInv, RequestState
    <3> QED
      BY <1>2, <2>2, <3>1 DEF Noted, Coming, OnPool
  <2> QED
    BY <1>2, <2>1, <2>2, CacheSteps
<1>3. ASSUME NEW x \in Request, OnPool(x)' \/ Served(x)', ToNote(req'[x].doc)
      PROVE  Noted(req[x].key[1])'
  <2>1. CASE AdmitHit(x)
    <3>1. PICK pkg : pkg = req[x].key[1]
      OBVIOUS
    <3>2. req'[x].key = req[x].key /\ req'[x].doc = cache[req[x].key] /\ cache[req[x].key] # None
      BY <1>t, <2>1 DEF AdmitHit, RequestState
    <3>3. req[x].key \in Key
      BY <2>1, FitsNow DEF AdmitHit, Fits, Asked, RequestPcs
    <3>4. Noted(pkg)
      BY <1>3, <3>1, <3>2, <3>3 DEF ForeignInv
    <3> QED
      BY <3>1, <3>2, <3>4, NotedStays
  <2>2. CASE Kept(x)
    <3>1. PICK pkg : pkg = req[x].key[1]
      OBVIOUS
    <3>2. CASE OnPool(x) \/ Served(x)
      <4>1. Noted(pkg)
        BY <1>3, <2>2, <3>1, <3>2 DEF ForeignInv, Kept
      <4> QED
        BY <2>2, <3>1, <4>1, NotedStays DEF Kept
    <3>3. CASE req[x].pc = "fetched" /\ req'[x].pc = "evaluate"
      <4>1. ~req'[x].cached /\ req'[x].key = req[x].key
        BY <2>2, <3>3 DEF Kept, ForeignInv
      <4> QED
        BY <1>3, <3>3, <4>1 DEF Noted, Coming, OnPool
    <3> QED
      BY <1>3, <2>2, <3>2, <3>3 DEF Kept, OnPool, Evaluating, Served, Decided
  <2>3. ~Fetch(x) \/ req'[x].pc # "fetched"
    BY <1>3 DEF OnPool, Evaluating, Served
  <2> QED
    BY <1>3, <2>1, <2>2, <2>3, StepMoves DEF Moves, OnPool, Evaluating, Served
<1>4. ASSUME NEW x \in Request, req'[x].pc = "foreign" \/ Served(x)'
      PROVE  ~req'[x].doc.malformed
  <2>1. ~AdmitHit(x)
    BY <1>t, <1>4 DEF AdmitHit, Served, RequestState
  <2>2. Kept(x)
    BY <1>4, <2>1, StepMoves DEF Moves, Served
  <2> QED
    BY <1>4, <2>2 DEF Kept, Decided, ForeignInv, Served
<1> QED
  BY <1>1, <1>2, <1>3, <1>4 DEF ForeignInv, ToNote

(* A request has seen the replacement and not yet reported its verdicts.    *)
Telling(r, rel) ==
  /\ req[r].pc = "lookup" /\ req[r].key[1] = rel[1]
  /\ req[r].changed[rel[2]] /\ rel[2] \in InDoc(req[r].doc)

(* A replacement is on record as tampering, or whoever saw it is at it, or  *)
(* upstream has served a document whose evaluation ends without a report.   *)
Told(rel) ==
  (\E r \in Request : Telling(r, rel)) \/ RowsOf(rel, "tamper") # {} \/ PublishedMalformed

(* A ledger row that recorded a replacement is told.                        *)
TamperInv ==
  \A rel \in Release : seen[rel] # None /\ seen[rel].replaced => Told(rel)

LEMMA ToldStays ==
  ASSUME Typed, ~failure, DecisionInv, Unfaulted, DocsOrigin, [Next]_vars,
         Hazards \subseteq {"disconnect"}, AuditRetention = 0,
         NEW rel \in Release, Told(rel)
  PROVE  Told(rel)'
<1>1. CASE PublishedMalformed
  BY <1>1, PublishedStays DEF Told
<1>2. CASE RowsOf(rel, "tamper") # {}
  BY <1>2, AuditGrows DEF Told, RowsOf
<1>3. ASSUME NEW r \in Request, Telling(r, rel)
      PROVE  Told(rel)'
  <2>t. /\ req \in [Request -> RequestState] /\ req[r] \in RequestState
        /\ rel[2] \in Version /\ rel = <<rel[1], rel[2]>>
    BY DEF Typed, TypeOK
  <2>0. /\ req[r].pc = "lookup" /\ req[r].key[1] = rel[1]
        /\ req[r].changed[rel[2]] /\ rel[2] \in InDoc(req[r].doc)
    BY <1>3 DEF Telling
  <2>1. ~ReportFailure(r) /\ ~NoteForeign(r)
    BY <2>0 DEF ReportFailure, NoteForeign
  <2>2. CASE RejectMalformed(r)
    <3>1. PublishedMalformed
      BY <2>2 DEF RejectMalformed, DocsOrigin, Loaded
    <3> QED
      BY <3>1, PublishedStays DEF Told
  <2>3. CASE ReportBlocks(r)
    <3>1. Decided(r)
      BY <2>3 DEF ReportBlocks
    <3>2. req[r].verdicts[rel[2]] # None
      BY <2>0, <2>t, <3>1 DEF Decided, Pending
    <3>3. JustifiedVerdict(r, rel[2])
      BY <2>t, <3>2 DEF DecisionInv, Justified
    <3>4. req[r].verdicts[rel[2]] = "integrity_changed"
      BY <2>0, <3>3 DEF JustifiedVerdict, Unfaulted, Decide
    <3>5. rel[2] \in DOMAIN Blocked(r) /\ Blocked(r)[rel[2]] = "integrity_changed"
      BY <2>0, <3>4 DEF Blocked
    <3>6. BlockEvent("integrity_changed") = "tamper"
      BY DEF BlockEvent, Critical
    <3>7. PICK rows \in SUBSET AuditRow :
            /\ audit' = audit \cup rows
            /\ \A row \in rows : row.id = nextId /\ row.pkg = req[r].key[1]
            /\ \A v \in DOMAIN Blocked(r) :
                 \/ Recorded(<<req[r].key[1], v>>, Blocked(r)[v])
                 \/ \E row \in rows : /\ row.version = v
                                      /\ row.event = BlockEvent(Blocked(r)[v])
      BY <2>3, BlockRowsAppended DEF May
    <3>8. CASE Recorded(rel, "integrity_changed")
      BY <3>6, <3>7, <3>8 DEF Recorded, RowsOf, Told
    <3>9. CASE \E row \in rows : row.version = rel[2] /\ row.event = "tamper"
      BY <2>0, <3>7, <3>9 DEF RowsOf, Told
    <3> QED
      BY <2>0, <2>t, <3>5, <3>6, <3>7, <3>8, <3>9
  <2>4. CASE /\ req'[r].key = req[r].key /\ req'[r].doc = req[r].doc
             /\ req'[r].pc = "lookup" /\ req'[r].changed = req[r].changed
    BY <2>0, <2>4 DEF Told, Telling
  <2> QED
    BY <2>0, <2>1, <2>2, <2>3, <2>4, PoolStep DEF OnPool, Evaluating
<1> QED
  BY <1>1, <1>2, <1>3 DEF Told

LEMMA TamperInductive ==
  ASSUME Typed, ~failure, DecisionInv, Unfaulted, DocsOrigin, TamperInv, [Next]_vars,
         Hazards \subseteq {"disconnect"}, AuditRetention = 0
  PROVE  TamperInv'
<1> SUFFICES ASSUME NEW rel \in Release, seen'[rel] # None, seen'[rel].replaced
             PROVE  Told(rel)'
  BY DEF TamperInv
<1>t. seen \in [Release -> SeenRow \cup {None}] /\ req \in [Request -> RequestState]
  BY DEF Typed, TypeOK, StoreTypeOK
<1>1. CASE seen[rel] # None /\ seen[rel].replaced
  BY <1>1, ToldStays DEF TamperInv
<1>2. CASE seen'[rel] = seen[rel]
  BY <1>1, <1>2
<1>3. ASSUME NEW r \in Request, Observe(r), ~(seen[rel] # None /\ seen[rel].replaced),
             seen'[rel] # seen[rel]
      PROVE  Told(rel)'
  <2>1. PICK pkg, ids, now, bump :
          /\ pkg = req[r].key[1] /\ ids = Identities(req[r].doc)
          /\ now = req[r].now /\ bump = ~req[r].cached
    OBVIOUS
  <2>2. /\ req'[r].key = req[r].key /\ req'[r].doc = req[r].doc /\ req'[r].pc = "lookup"
        /\ req'[r].changed = [w \in Version |->
             w \in DOMAIN ids /\ LedgerChanged(<<pkg, w>>, ids[w])]
        /\ ObserveBatch(pkg, ids, now, bump)
    BY <1>t, <1>3, <2>1 DEF Observe, ObserveDocument, RequestState
  <2>3. /\ rel[1] = pkg /\ rel[2] \in DOMAIN ids
        /\ seen'[rel] = Observed(seen[rel], ids[rel[2]], now, bump)
    BY <1>3, <2>2 DEF ObserveBatch
  <2>4. PICK row, id : row = seen[rel] /\ id = ids[rel[2]]
    OBVIOUS
  <2>5. seen'[rel] = Observed(row, id, now, bump) /\ row \in SeenRow \cup {None}
    BY <1>t, <2>3, <2>4
  <2>6. row # None /\ row.identity # id
    <3>1. row # None
      <4> SUFFICES ASSUME row = None
                   PROVE  FALSE
        OBVIOUS
      <4>1. seen'[rel] = [identity |-> id, last |-> now, replaced |-> FALSE]
        BY <2>5 DEF Observed
      <4> QED
        BY <4>1
    <3>2. row \in SeenRow /\ ~row.replaced
      BY <1>3, <2>4, <2>5, <3>1
    <3>3. row.identity = id => seen'[rel] = [row EXCEPT !.last = now] \/ seen'[rel] = row
      BY <2>5, <3>1 DEF Observed
    <3> QED
      BY <3>1, <3>2, <3>3 DEF SeenRow
  <2>7. rel[2] \in Version /\ rel = <<pkg, rel[2]>>
    BY <2>3
  <2>8. req'[r].changed[rel[2]]
    <3>1. LedgerChanged(rel, id)
      BY <2>4, <2>6 DEF LedgerChanged
    <3>2. LedgerChanged(<<pkg, rel[2]>>, ids[rel[2]])
      BY <2>4, <2>7, <3>1
    <3> QED
      BY <2>2, <2>3, <2>7, <3>2
  <2>9. rel[2] \in InDoc(req[r].doc)
    BY <2>1, <2>3 DEF Identities
  <2> QED
    BY <2>1, <2>2, <2>3, <2>8, <2>9 DEF Told, Telling
<1>4. CASE MaintainSeen
  BY <1>2, <1>4, <1>t DEF MaintainSeen, PruneSeen
<1> QED
  BY <1>1, <1>2, <1>3, <1>4, StoreSteps
     DEF storeVars, ReportBlocks, NoteForeign, CommitRule, CommitRuleAudit, MaintainAudit,
         DayPasses, Tick, tables

(* While storage answers and nothing is pruned, what an evaluation notices  *)
(* reaches the audit log, whichever of the clients wait for it.             *)
THEOREM NoticedStaysOnRecord ==
  ASSUME Hazards \subseteq {"disconnect"}, AuditRetention = 0
  PROVE  Spec => []NoticedIsOnRecord
<1>1. Init => ForeignInv /\ TamperInv
  BY DEF Init, StoreInit, ForeignInv, TamperInv, IdleRequest, OnPool, Evaluating, Served
<1>2. Typed /\ ~failure /\ ForeignInv /\ [Next]_vars => ForeignInv'
  BY ForeignInductive
<1>3. Typed /\ ~failure /\ DecisionInv /\ Unfaulted /\ DocsOrigin /\ TamperInv
        /\ [Next]_vars => TamperInv'
  BY TamperInductive
<1>4. ForeignInv /\ TamperInv => NoticedIsOnRecord
  <2>1. TamperInv => MismatchReported
    BY DEF TamperInv, Told, Telling, MismatchReported, Evaluating
  <2>2. ForeignInv => ForeignReported
    BY DEF ForeignInv, Noted, Coming, ToNote, ForeignReported
  <2> QED
    BY <2>1, <2>2 DEF NoticedIsOnRecord
<1>5. "fault" \notin Hazards
  OBVIOUS
<1>6. Spec => [](~failure)
  BY <1>5, NeverFails
<1>7. Spec => []Unfaulted
  BY <1>5, UnfaultedHolds
<1> QED
  BY <1>1, <1>2, <1>3, <1>4, <1>6, <1>7, AlwaysTyped, DecisionHolds, OriginHolds, PTL DEF Spec

-----------------------------------------------------------------------------
(* The daemon's tables as an instance of StoreSpec.                         *)

(* The reason of the latest of a set of rows, which is what StoreSpec calls *)
(* reported.                                                                *)
ReasonOf(rows) == IF rows = {} THEN None ELSE Newest(rows).reason

LEMMA LatestOf ==
  /\ LatestReported = [subject \in Release \X {"block", "tamper"} |->
                         ReasonOf(RowsOf(subject[1], subject[2]))]
  /\ LatestReported' = [subject \in Release \X {"block", "tamper"} |->
                          ReasonOf(RowsOf(subject[1], subject[2])')]
<1>1. LatestReported = [subject \in Release \X {"block", "tamper"} |->
                         ReasonOf(RowsOf(subject[1], subject[2]))]
  BY DEF LatestReported, ReasonOf
<1>2. LatestReported' = [subject \in Release \X {"block", "tamper"} |->
                          ReasonOf(RowsOf(subject[1], subject[2])')]
  BY DEF LatestReported, ReasonOf, RowsOf, Newest
<1> QED
  BY <1>1, <1>2

(* What a transaction of record_blocks makes of the latest reasons.         *)
ReportedAfter(pkg, blocked) ==
  [subject \in Release \X {"block", "tamper"} |->
     IF /\ subject[1][1] = pkg /\ subject[1][2] \in DOMAIN blocked
        /\ BlockEvent(blocked[subject[1][2]]) = subject[2]
     THEN blocked[subject[1][2]] ELSE LatestReported[subject]]

LEMMA ReportedMoves ==
  ASSUME Typed, IdsGiven, NEW pkg \in Package, NEW blocked, DOMAIN blocked \subseteq Version,
         \A v \in DOMAIN blocked : blocked[v] \in Reasons, NEW now \in Nat,
         RecordBlocks(pkg, blocked, now)
  PROVE  LatestReported' = ReportedAfter(pkg, blocked)
<1>0. StoreTypeOK
  BY DEF Typed, TypeOK
<1>b. PICK rows \in SUBSET AuditRow : BlocksAppended(pkg, blocked, now, rows)
  BY <1>0, RecordBlocksRows
<1>1. /\ audit' = audit \cup rows
      /\ \A row \in rows :
           /\ row.id = nextId /\ row.pkg = pkg
           /\ row.version \in DOMAIN blocked /\ row.reason = blocked[row.version]
           /\ row.event = BlockEvent(row.reason)
      /\ \A row, other \in rows : row.version = other.version => row = other
      /\ \A v \in DOMAIN blocked :
           Recorded(<<pkg, v>>, blocked[v]) \/ \E row \in rows : row.version = v
  BY <1>b DEF BlocksAppended
<1>2. ASSUME NEW rel \in Release, NEW event \in {"block", "tamper"}
      PROVE  LatestReported'[<<rel, event>>] =
               IF /\ rel[1] = pkg /\ rel[2] \in DOMAIN blocked
                  /\ BlockEvent(blocked[rel[2]]) = event
               THEN blocked[rel[2]] ELSE LatestReported[<<rel, event>>]
  <2>0. rel = <<rel[1], rel[2]>> /\ rel[2] \in Version
    OBVIOUS
  <2>l. /\ LatestReported[<<rel, event>>] = ReasonOf(RowsOf(rel, event))
        /\ LatestReported'[<<rel, event>>] = ReasonOf(RowsOf(rel, event)')
    BY LatestOf
  <2>1. CASE \A row \in rows : ~(row.pkg = rel[1] /\ row.version = rel[2] /\ row.event = event)
    <3>1. RowsOf(rel, event)' = RowsOf(rel, event)
      BY <1>1, <2>1 DEF RowsOf
    <3>2. ASSUME rel[1] = pkg, rel[2] \in DOMAIN blocked, BlockEvent(blocked[rel[2]]) = event
          PROVE  RowsOf(rel, event) # {} /\ Newest(RowsOf(rel, event)).reason = blocked[rel[2]]
      <4>1. Recorded(<<pkg, rel[2]>>, blocked[rel[2]])
        BY <1>1, <2>1, <3>2
      <4>2. <<pkg, rel[2]>> = rel
        BY <2>0, <3>2
      <4>3. Recorded(rel, blocked[rel[2]])
        BY <4>1, <4>2
      <4> QED
        BY <3>2, <4>3 DEF Recorded
    <3> QED
      BY <2>l, <3>1, <3>2 DEF ReasonOf
  <2>2. ASSUME NEW row \in rows, row.pkg = rel[1], row.version = rel[2], row.event = event
        PROVE  LatestReported'[<<rel, event>>] =
                 IF /\ rel[1] = pkg /\ rel[2] \in DOMAIN blocked
                    /\ BlockEvent(blocked[rel[2]]) = event
                 THEN blocked[rel[2]] ELSE LatestReported[<<rel, event>>]
    <3>1. /\ rel[1] = pkg /\ rel[2] \in DOMAIN blocked
          /\ BlockEvent(blocked[rel[2]]) = event /\ row.reason = blocked[rel[2]]
      BY <1>1, <2>2
    <3>2. PICK after : after = RowsOf(rel, event)'
      OBVIOUS
    <3>3. row \in after
      BY <1>1, <2>2, <3>2 DEF RowsOf
    <3>4. nextId \in Nat /\ row.id = nextId
      BY <1>1, <2>2 DEF Typed, TypeOK, StoreTypeOK
    <3>5. \A other \in after : other.id \in Nat /\ (other # row => other.id < row.id)
      <4> SUFFICES ASSUME NEW other \in after
                   PROVE  other.id \in Nat /\ (other # row => other.id < row.id)
        OBVIOUS
      <4>1. (other \in audit \/ other \in rows) /\ other.version = rel[2]
        BY <1>1, <3>2 DEF RowsOf
      <4>2. CASE other \in audit
        BY <3>4, <4>2 DEF IdsGiven
      <4>3. CASE other \in rows
        BY <1>1, <2>2, <3>4, <4>1, <4>3
      <4> QED
        BY <4>1, <4>2, <4>3
    <3>6. Newest(after) = row
      BY <3>3, <3>5, NewestUnique
    <3> QED
      BY <2>l, <3>1, <3>2, <3>3, <3>6 DEF ReasonOf
  <2> QED
    BY <2>1, <2>2
<1>3. ASSUME NEW subject \in Release \X {"block", "tamper"}
      PROVE  LatestReported'[subject] =
               IF /\ subject[1][1] = pkg /\ subject[1][2] \in DOMAIN blocked
                  /\ BlockEvent(blocked[subject[1][2]]) = subject[2]
               THEN blocked[subject[1][2]] ELSE LatestReported[subject]
  <2>1. PICK rel \in Release, event \in {"block", "tamper"} : subject = <<rel, event>>
    OBVIOUS
  <2> QED
    BY <1>2, <2>1
<1>4. LatestReported' = [subject \in Release \X {"block", "tamper"} |-> LatestReported'[subject]]
  BY DEF LatestReported
<1> QED
  BY <1>3, <1>4, Zenon DEF ReportedAfter

(* Rows of another event leave them alone.                                  *)
LEMMA ReportedSame ==
  ASSUME NEW row, audit' = audit \cup {row} \/ audit' = audit,
         row.event \notin {"block", "tamper"}
  PROVE  LatestReported' = LatestReported
<1>1. \A rel \in Release, event \in {"block", "tamper"} :
        RowsOf(rel, event)' = RowsOf(rel, event)
  BY DEF RowsOf
<1>2. \A subject \in Release \X {"block", "tamper"} :
        RowsOf(subject[1], subject[2])' = RowsOf(subject[1], subject[2])
  BY <1>1
<1> QED
  BY <1>2, LatestOf

-----------------------------------------------------------------------------
(* Room for the audit transactions still to come.                           *)

(* Where a request has its record_blocks transaction ahead.                 *)
Writing == {"queued", "fetch", "fetched", "evaluate", "observe", "lookup"}

(* Who has both audit transactions ahead, who has one, which commands run.  *)
First == {r \in Request : req[r].pc \in Writing}
Second == {r \in Request : req[r].pc \in Writing \cup {"foreign"}}
Active == {o \in Operator : oper[o].pc # "idle"}

(* The bound StoreSpec is instanced with.                                   *)
Room == MaxTxn + 2 * Cardinality(Request) + MaxCommands

(* What is ahead fits under the bound, with what has been written.          *)
RoomInv ==
  /\ IsFiniteSet(Active) /\ Cardinality(Active) <= commands
  /\ nextId + Cardinality(First) + Cardinality(Second) + Cardinality(Active)
       + (MaxCommands - commands) <= Room

(* Only an arrival adds to the work ahead.                                  *)
LEMMA WorkShrinks ==
  ASSUME Typed, [Next]_vars, NEW x \in Request, \A key \in Key : ~Arrive(x, key)
  PROVE  /\ req'[x].pc \in Writing => req[x].pc \in Writing
         /\ req'[x].pc = "foreign" => req[x].pc \in Writing \cup {"foreign"}
<1>1. AdmitHit(x) => req[x].pc = "queued" /\ req'[x].pc = "evaluate"
  BY DEF AdmitHit, Typed, TypeOK, RequestState
<1> QED
  BY <1>1, StepMoves DEF Moves, Kept, Fetch, OnPool, Evaluating, Decided, Writing

(* The steps that are not a request's and not housekeeping.                 *)
LEMMA ControlSteps ==
  ASSUME Typed, [Next]_vars
  PROVE  \/ UNCHANGED control \/ Crash
         \/ \E o \in Operator :
              (\E rel \in Release : StartAllow(o, rel) \/ StartDeny(o, rel)) \/ Command(o)
<1>1. ASSUME NEW r \in Request, RequestStep(r)
      PROVE  UNCHANGED control
  BY <1>1
     DEF RequestStep, Arrive, Handler, AdmitHit, AdmitMiss, Fetch, FetchFails, CacheInsert,
         Evaluation, BeginEvaluation, Observe, ObserveFails, RejectMalformed, Lookup,
         LookupFails, ReportFailure, ReportBlocks, NoteForeign, Disconnect
<1>2. CASE Maintain \/ (\E key \in Key : Republish(key)) \/ DayPasses \/ UNCHANGED vars
  BY <1>2 DEF Maintain, Republish, DayPasses, vars
<1> QED
  BY <1>1, <1>2, Zenon DEF Next, RequestStep

LEMMA RoomHolds ==
  ASSUME IsFiniteSet(Request)
  PROVE  Spec => []RoomInv
<1>c. /\ Cardinality(Request) \in Nat /\ MaxTxn \in Nat /\ MaxCommands \in Nat
      /\ Room \in Nat
  BY FS_CardinalityType, DaemonAssumption DEF Room
<1>1. Init => RoomInv
  <2> SUFFICES ASSUME Init
               PROVE  RoomInv
    OBVIOUS
  <2>1. First = {} /\ Second = {} /\ Active = {}
    BY DEF Init, First, Second, Active, Writing, IdleRequest, IdleOperator
  <2>2. nextId = 0 /\ commands = 0
    BY DEF Init, StoreInit
  <2> QED
    BY <1>c, <2>1, <2>2, FS_EmptySet DEF RoomInv, Room
<1>2. Typed /\ RoomInv /\ [Next]_vars => RoomInv'
  <2> SUFFICES ASSUME Typed, RoomInv, [Next]_vars
               PROVE  RoomInv'
    OBVIOUS
  <2>t. /\ nextId \in Nat /\ commands \in 0..MaxCommands
        /\ req \in [Request -> RequestState] /\ oper \in [Operator -> OperatorState]
    BY DEF Typed, TypeOK, StoreTypeOK
  <2>f. /\ IsFiniteSet(First) /\ IsFiniteSet(Second) /\ IsFiniteSet(Active)
        /\ Cardinality(First) \in Nat /\ Cardinality(Second) \in Nat
        /\ Cardinality(Active) \in Nat
    <3>1. First \subseteq Request /\ Second \subseteq Request
      BY DEF First, Second
    <3> QED
      BY <3>1, FS_Subset, FS_CardinalityType DEF RoomInv
  <2>g. /\ Cardinality(First') \in Nat /\ Cardinality(First') <= Cardinality(Request)
        /\ Cardinality(Second') \in Nat /\ Cardinality(Second') <= Cardinality(Request)
    <3>1. First' \subseteq Request /\ Second' \subseteq Request
      BY DEF First, Second
    <3> QED
      BY <3>1, FS_Subset, FS_CardinalityType
  <2>i. Cardinality(Active) <= commands
          /\ nextId + Cardinality(First) + Cardinality(Second) + Cardinality(Active)
               + (MaxCommands - commands) <= Room
    BY DEF RoomInv
  <2>1. ASSUME NEW r \in Request, NEW key \in Key, Arrive(r, key)
        PROVE  RoomInv'
    <3>1. /\ nextId < MaxTxn /\ nextId' = nextId /\ commands' = commands
          /\ Active' = Active
      BY <2>1 DEF Arrive, storeVars, control, Active
    <3> QED
      BY <1>c, <2>t, <2>f, <2>g, <2>i, <3>1 DEF RoomInv, Room
  <2>2. CASE \A r \in Request, key \in Key : ~Arrive(r, key)
    <3>1. First' \subseteq First /\ Second' \subseteq Second
      BY <2>2, WorkShrinks DEF First, Second
    <3>2. /\ Cardinality(First') <= Cardinality(First)
          /\ Cardinality(Second') <= Cardinality(Second)
      BY <2>f, <3>1, FS_Subset
    <3>3. CASE Active' \subseteq Active /\ nextId' = nextId /\ commands' = commands
      <4>1. /\ IsFiniteSet(Active') /\ Cardinality(Active') <= Cardinality(Active)
            /\ Cardinality(Active') \in Nat
        BY <2>f, <3>3, FS_Subset, FS_CardinalityType
      <4> QED
        BY <1>c, <2>t, <2>f, <2>g, <2>i, <3>2, <3>3, <4>1 DEF RoomInv
    <3>4. ASSUME NEW r \in Request, ReportBlocks(r) \/ NoteForeign(r)
          PROVE  RoomInv'
      <4>1. Active' = Active /\ commands' = commands /\ nextId' \in {nextId, nextId + 1}
        <5>1. UNCHANGED control
          BY <3>4 DEF ReportBlocks, NoteForeign
        <5>2. nextId' \in {nextId, nextId + 1}
          BY <3>4 DEF ReportBlocks, RecordBlocks, NoteForeign, AppendForeignOnce, AppendRows
        <5> QED
          BY <5>1, <5>2 DEF control, Active
      <4>2. CASE ReportBlocks(r)
        <5>1. req[r].pc = "lookup" /\ req'[r].pc \notin Writing
          <6>1. CASE NotesForeign(r)
            <7>1. req'[r] = [req[r] EXCEPT !.pc = "foreign"]
              BY <2>t, <4>2, <6>1 DEF ReportBlocks
            <7> QED
              BY <2>t, <4>2, <7>1 DEF ReportBlocks, Decided, Writing, RequestState
          <6>2. CASE ~NotesForeign(r)
            <7>1. Answer(r, "ok") /\ req[r].pc = "lookup"
              BY <4>2, <6>2 DEF ReportBlocks, Decided
            <7> QED
              BY <7>1, AnswerLeaves DEF IdleRequest, Writing
          <6> QED
            BY <6>1, <6>2
        <5>2. r \in First /\ First' \subseteq First \ {r}
          BY <3>1, <5>1 DEF First, Writing
        <5>r. IsFiniteSet(First \ {r}) /\ Cardinality(First \ {r}) = Cardinality(First) - 1
          BY <2>f, <5>2, FS_RemoveElement
        <5>3. Cardinality(First') <= Cardinality(First) - 1
          BY <5>2, <5>r, FS_Subset
        <5> QED
          BY <1>c, <2>t, <2>f, <2>g, <2>i, <3>2, <4>1, <5>3 DEF RoomInv
      <4>3. CASE NoteForeign(r)
        <5>1. req[r].pc = "foreign" /\ req'[r].pc \notin Writing \cup {"foreign"}
          BY <4>3, AnswerLeaves DEF NoteForeign, IdleRequest, Writing
        <5>2. r \in Second /\ Second' \subseteq Second \ {r}
          BY <3>1, <5>1 DEF Second
        <5>r. IsFiniteSet(Second \ {r}) /\ Cardinality(Second \ {r}) = Cardinality(Second) - 1
          BY <2>f, <5>2, FS_RemoveElement
        <5>3. Cardinality(Second') <= Cardinality(Second) - 1
          BY <5>2, <5>r, FS_Subset
        <5> QED
          BY <1>c, <2>t, <2>f, <2>g, <2>i, <3>2, <4>1, <5>3 DEF RoomInv
      <4> QED
        BY <3>4, <4>2, <4>3
    <3>5. ASSUME NEW o \in Operator, NEW rel \in Release, StartAllow(o, rel) \/ StartDeny(o, rel)
          PROVE  RoomInv'
      <4>1. nextId' = nextId /\ commands' = commands + 1 /\ commands < MaxCommands
        BY <3>5 DEF StartAllow, StartDeny, storeVars
      <4>2. Active' \subseteq Active \cup {o}
        BY <2>t, <3>5 DEF StartAllow, StartDeny, Active
      <4>3. /\ IsFiniteSet(Active \cup {o})
            /\ Cardinality(Active \cup {o}) <= Cardinality(Active) + 1
            /\ Cardinality(Active \cup {o}) \in Nat
        <5>1. /\ IsFiniteSet(Active \cup {o})
              /\ \/ Cardinality(Active \cup {o}) = Cardinality(Active)
                 \/ Cardinality(Active \cup {o}) = Cardinality(Active) + 1
          BY <2>f, FS_AddElement
        <5> QED
          BY <2>f, <5>1
      <4>4. /\ IsFiniteSet(Active') /\ Cardinality(Active') <= Cardinality(Active) + 1
            /\ Cardinality(Active') \in Nat
        BY <2>f, <4>2, <4>3, FS_Subset, FS_CardinalityType
      <4> QED
        BY <1>c, <2>t, <2>f, <2>g, <2>i, <3>2, <4>1, <4>4 DEF RoomInv
    <3>6. ASSUME NEW o \in Operator, CommitRuleAudit(o)
          PROVE  RoomInv'
      <4>1. nextId' = nextId + 1 /\ commands' = commands
        BY <3>6, RuleRowAppended DEF CommitRuleAudit
      <4>2. o \in Active /\ Active' \subseteq Active \ {o}
        BY <2>t, <3>6 DEF CommitRuleAudit, Active, IdleOperator
      <4>3. /\ IsFiniteSet(Active') /\ Cardinality(Active') <= Cardinality(Active) - 1
            /\ Cardinality(Active') \in Nat
        <5>1. IsFiniteSet(Active \ {o}) /\ Cardinality(Active \ {o}) = Cardinality(Active) - 1
          BY <2>f, <4>2, FS_RemoveElement
        <5> QED
          BY <4>2, <5>1, FS_Subset, FS_CardinalityType
      <4> QED
        BY <1>c, <2>t, <2>f, <2>g, <2>i, <3>2, <4>1, <4>3 DEF RoomInv
    <3>7. \/ nextId' = nextId
          \/ \E r \in Request : ReportBlocks(r) \/ NoteForeign(r)
          \/ \E o \in Operator : CommitRuleAudit(o)
      BY StoreSteps
         DEF storeVars, Observe, CommitRule, MaintainAudit, PruneAudit, MaintainSeen, DayPasses,
             Tick, tables
    <3>8. \/ Active' \subseteq Active /\ commands' = commands
          \/ \E o \in Operator, rel \in Release : StartAllow(o, rel) \/ StartDeny(o, rel)
      <4>1. CASE UNCHANGED control
        BY <4>1 DEF control, Active
      <4>2. CASE Crash
        BY <4>2 DEF Crash, Active, IdleOperator
      <4>3. ASSUME NEW o \in Operator, Command(o)
            PROVE  Active' \subseteq Active /\ commands' = commands
        <5>1. oper[o].pc # "idle" /\ commands' = commands
          BY <4>3 DEF Command, FetchForAllow, CommitRule, CommitRuleAudit, CommandFails
        <5>2. \A p \in Operator : p # o => oper'[p] = oper[p]
          BY <2>t, <4>3 DEF Command, FetchForAllow, CommitRule, CommitRuleAudit, CommandFails
        <5> QED
          BY <5>1, <5>2 DEF Active
      <4> QED
        BY <4>1, <4>2, <4>3, ControlSteps
    <3> QED
      BY <3>3, <3>4, <3>5, <3>6, <3>7, <3>8
  <2> QED
    BY <2>1, <2>2
<1> QED
  BY <1>1, <1>2, AlwaysTyped, PTL DEF Spec

(* Whoever is about to write has an id left below the bound.                *)
LEMMA RoomLeft ==
  ASSUME Typed, RoomInv, IsFiniteSet(Request),
         First # {} \/ Second # {} \/ Active # {}
  PROVE  nextId < Room
<1>1. First \subseteq Request /\ Second \subseteq Request
  BY DEF First, Second
<1>2. IsFiniteSet(First) /\ IsFiniteSet(Second) /\ IsFiniteSet(Active)
  BY <1>1, FS_Subset DEF RoomInv
<1>3. /\ Cardinality(First) \in Nat /\ Cardinality(Second) \in Nat
      /\ Cardinality(Active) \in Nat
      /\ First # {} => Cardinality(First) # 0
      /\ Second # {} => Cardinality(Second) # 0
      /\ Active # {} => Cardinality(Active) # 0
  BY <1>2, FS_CardinalityType, FS_EmptySet
<1>4. /\ nextId \in Nat /\ commands \in 0..MaxCommands /\ MaxCommands \in Nat
      /\ Cardinality(Request) \in Nat /\ Room \in Nat
  BY FS_CardinalityType, DaemonAssumption DEF Typed, TypeOK, StoreTypeOK, Room
<1>5. Cardinality(First) + Cardinality(Second) + Cardinality(Active) >= 1
  <2>1. \/ Cardinality(First) # 0 \/ Cardinality(Second) # 0 \/ Cardinality(Active) # 0
    BY <1>3, Zenon
  <2>2. \A f, s, a \in Nat : f # 0 \/ s # 0 \/ a # 0 => f + s + a >= 1
    OBVIOUS
  <2> QED
    BY <1>3, <2>1, <2>2
<1>6. nextId + Cardinality(First) + Cardinality(Second) + Cardinality(Active)
        + (MaxCommands - commands) <= Room
  BY DEF RoomInv
<1>7. MaxCommands - commands \in Nat
  BY <1>4
<1> QED
  BY <1>3, <1>4, <1>5, <1>6, <1>7

-----------------------------------------------------------------------------
(* The refinement.                                                          *)

(* Every function from a part of a set is one of StoreSpec's partial        *)
(* functions.                                                               *)
LEMMA PartialFunction ==
  ASSUME NEW S, NEW T, NEW D \in SUBSET S, NEW f \in [D -> T]
  PROVE  f \in Tables!Partial(S, T)
BY DEF Tables!Partial

(* A request commits with the time of its evaluation, which is the present. *)
LEMMA TablesMoment ==
  ASSUME Typed
  PROVE  clock \in Tables!Moments
BY DEF Typed, TypeOK, StoreTypeOK, Tables!Moments

(* Each step of the daemon is a step of StoreSpec on its tables, or none.   *)
LEMMA TablesStep ==
  ASSUME Typed, DecisionInv, Prompt, IdsGiven, RoomInv, [Next]_vars,
         AuditRetention = 0, IsFiniteSet(Request)
  PROVE  UNCHANGED storeVars \/ Tables!Next
<1>t. /\ StoreTypeOK /\ nextId \in Nat /\ clock \in Nat
  BY DEF Typed, TypeOK, StoreTypeOK
<1>1. ASSUME NEW r \in Request, Observe(r)
      PROVE  Tables!Next
  <2>1. /\ req[r].pc = "observe" /\ req[r].now = clock /\ req[r].cached \in BOOLEAN
        /\ req[r].doc \in Doc /\ req[r].key \in Key
    BY <1>1, FitsNow
       DEF Observe, Prompt, Evaluating, Fits, Asked, RequestPcs, Loaded, RequestState
  <2>2. PICK pkg, ids, bump :
          /\ pkg \in Package /\ pkg = req[r].key[1]
          /\ ids = Identities(req[r].doc) /\ bump = ~req[r].cached
    BY <2>1
  <2>3. ids \in Tables!Partial(Version, Identity)
    <3>1. ids \in [InDoc(req[r].doc) -> Identity]
      BY <2>1, <2>2, IdentitiesType DEF Identities
    <3>2. InDoc(req[r].doc) \in SUBSET Version
      BY DEF InDoc
    <3> QED
      BY <3>1, <3>2, PartialFunction
  <2>4. LatestReported' = LatestReported
    BY <1>1 DEF Observe, LatestReported, RowsOf, Newest
  <2>5. Tables!Observe(pkg, ids, clock, bump)
    BY <1>1, <2>1, <2>2, <2>4
       DEF Observe, ObserveDocument, ObserveBatch, Observed, Tables!Observe,
           Tables!ObserveBatch, Tables!Observed, Tables!Release
  <2> QED
    BY <2>1, <2>2, <2>3, <2>5, TablesMoment DEF Tables!Next
<1>2. ASSUME NEW r \in Request, ReportBlocks(r)
      PROVE  UNCHANGED storeVars \/ Tables!Next
  <2>1. /\ Decided(r) /\ req[r].pc = "lookup" /\ req[r].now = clock
        /\ req[r].doc \in Doc /\ req[r].key \in Key /\ req[r] \in RequestState
    BY <1>2, FitsNow
       DEF ReportBlocks, Decided, Prompt, Evaluating, Fits, Asked, RequestPcs, Loaded
  <2>2. CASE UNCHANGED <<audit, nextId>>
    BY <1>2, <2>2 DEF ReportBlocks, storeVars
  <2>3. CASE RecordBlocks(req[r].key[1], Blocked(r), req[r].now)
    <3>0. PICK pkg \in Package : pkg = req[r].key[1]
      BY <2>1
    <3>1. PICK blocked : blocked = Blocked(r)
      OBVIOUS
    <3>2. /\ DOMAIN blocked \subseteq Version
          /\ \A v \in DOMAIN blocked : blocked[v] \in Reasons
      BY <2>1, <3>1, BlockedType DEF RequestState
    <3>3. blocked \in Tables!Partial(Version, Reasons)
      <4>1. blocked \in [DOMAIN blocked -> Reasons]
        BY <3>1, <3>2 DEF Blocked
      <4> QED
        BY <3>2, <4>1, PartialFunction
    <3>4. RecordBlocks(pkg, blocked, clock)
      BY <2>1, <2>3, <3>0, <3>1
    <3>5. LatestReported' = ReportedAfter(pkg, blocked)
      BY <1>t, <3>2, <3>4, ReportedMoves
    <3>6. nextId < Room
      BY <2>1, RoomLeft DEF First, Writing
    <3>7. Tables!RecordBlocks(pkg, blocked, clock)
      BY <3>4 DEF RecordBlocks, Recorded, RowsOf, Newest, AppendRows, Row, BlockEvent, Critical,
                  Tables!RecordBlocks, Tables!Recorded, Tables!RowsOf, Tables!Newest,
                  Tables!AppendRows, Tables!Row, Tables!BlockEvent, Tables!Critical
    <3>8. UNCHANGED <<rules, seen, clock>>
      BY <1>2 DEF ReportBlocks
    <3>9. Tables!AuditBlocks(pkg, blocked, clock)
      BY <3>5, <3>6, <3>7, <3>8
         DEF ReportedAfter, Tables!AuditBlocks, Tables!Subject, Tables!Release, Tables!BlockEvents,
             Tables!BlockEvent, Tables!Critical, BlockEvent, Critical, Room
    <3> QED
      BY <3>1, <3>3, <3>9, TablesMoment DEF Tables!Next, Tables!Reasons, Reasons
  <2> QED
    BY <1>2, <2>2, <2>3 DEF ReportBlocks
<1>3. ASSUME NEW r \in Request, NoteForeign(r)
      PROVE  UNCHANGED storeVars \/ Tables!Next
  <2>1. /\ req[r].pc = "foreign" /\ req[r].now = clock /\ req[r].key \in Key
    BY <1>3, FitsNow DEF NoteForeign, Prompt, Evaluating, Fits, Asked, RequestPcs
  <2>2. CASE UNCHANGED <<audit, nextId>>
    BY <1>3, <2>2 DEF NoteForeign, storeVars
  <2>3. CASE AppendForeignOnce(req[r].key[1], req[r].now)
    <3>1. PICK pkg \in Package : pkg = req[r].key[1]
      BY <2>1
    <3>2. AppendForeignOnce(pkg, clock)
      BY <2>1, <2>3, <3>1
    <3>3. LatestReported' = LatestReported
      <4> DEFINE row == Row("foreign_tarball", <<pkg, None>>, None, clock)
      <4>1. row.event = "foreign_tarball"
        BY DEF Row
      <4>2. audit' = audit \cup {row} \/ audit' = audit
        BY <3>2 DEF AppendForeignOnce, AppendRows
      <4> HIDE DEF row
      <4>3. PICK new : new = row
        OBVIOUS
      <4> QED
        BY <4>1, <4>2, <4>3, ReportedSame
    <3>4. nextId < Room
      BY <2>1, RoomLeft DEF Second
    <3>5. Tables!AppendForeignOnce(pkg, clock)
      BY <3>2 DEF AppendForeignOnce, ForeignRecorded, AppendRows, Row,
                  Tables!AppendForeignOnce, Tables!ForeignRecorded, Tables!AppendRows, Tables!Row
    <3>6. Tables!AuditForeign(pkg, clock)
      BY <1>3, <3>3, <3>4, <3>5 DEF NoteForeign, Tables!AuditForeign, Room
    <3> QED
      BY <3>6, TablesMoment DEF Tables!Next
  <2> QED
    BY <1>3, <2>2, <2>3 DEF NoteForeign
<1>4. ASSUME NEW o \in Operator, CommitRule(o)
      PROVE  Tables!Next
  <2>1. oper[o].rel \in Release /\ oper[o].rule \in Rule
    BY <1>4 DEF CommitRule, Typed, OperatorsOK
  <2>2. LatestReported' = LatestReported
    BY <1>4 DEF CommitRule, LatestReported, RowsOf, Newest
  <2>3. Tables!SetRule(oper[o].rel, oper[o].rule)
    BY <1>4, <2>2 DEF CommitRule, RecordRule, Tables!SetRule, Tables!RecordRule
  <2> QED
    BY <2>1, <2>3 DEF Tables!Next, Tables!Release
<1>5. ASSUME NEW o \in Operator, CommitRuleAudit(o)
      PROVE  Tables!Next
  <2>1. oper[o].rel \in Release /\ oper[o].rule \in Rule /\ oper[o].pc = "audit"
    BY <1>5 DEF CommitRuleAudit, Typed, OperatorsOK
  <2>2. LatestReported' = LatestReported
    <3>1. PICK row \in AuditRow : audit' = audit \cup {row} /\ row.event \in {"allow", "deny"}
      BY <1>5, RuleRowAppended
    <3> QED
      BY <3>1, ReportedSame
  <2>3. nextId < Room
    BY <2>1, RoomLeft DEF Active
  <2>4. Tables!AuditRule(oper[o].rel, oper[o].rule, clock)
    BY <1>5, <2>2, <2>3
       DEF CommitRuleAudit, AuditOf, AppendRuleAudit, AppendRows, Row, Tables!AuditRule,
           Tables!AppendRuleAudit, Tables!AppendRows, Tables!Row, Room
  <2> QED
    BY <2>1, <2>4, TablesMoment DEF Tables!Next, Tables!Release
<1>6. CASE MaintainSeen \/ DayPasses
  <2>1. LatestReported' = LatestReported
    <3>1. audit' = audit
      BY <1>6 DEF MaintainSeen, DayPasses, Tick, tables
    <3> QED
      BY <3>1 DEF LatestReported, RowsOf, Newest
  <2>2. Tables!MaintainSeen \/ Tables!Tick
    BY <1>6 DEF MaintainSeen, PruneSeen, DayPasses, Tick, tables,
                Tables!MaintainSeen, Tables!PruneSeen, Tables!Tick, Tables!tables, Tables!Release
  <2> QED
    BY <2>1, <2>2 DEF Tables!Next, Tables!Housekeeping
<1>7. ~MaintainAudit
  BY DEF MaintainAudit
<1> QED
  BY <1>1, <1>2, <1>3, <1>4, <1>5, <1>6, <1>7, StoreSteps

(* The daemon does nothing to its tables but what StoreSpec allows, one     *)
(* operation at a time, under every interleaving and every hazard.          *)
THEOREM DaemonImplementsStore ==
  ASSUME AuditRetention = 0, IsFiniteSet(Request)
  PROVE  Spec => ImplementsStore
<1>1. Init => Tables!Init
  <2> SUFFICES ASSUME Init
               PROVE  Tables!Init
    OBVIOUS
  <2>1. Tables!StoreInit
    BY DEF Init, StoreInit, Tables!StoreInit, Tables!Release
  <2>2. LatestReported = [subject \in Release \X {"block", "tamper"} |-> None]
    BY DEF Init, StoreInit, LatestReported, RowsOf
  <2> QED
    BY <2>1, <2>2 DEF Tables!Init, Tables!Subject, Tables!Release, Tables!BlockEvents
<1>2. Typed /\ DecisionInv /\ Prompt /\ IdsGiven /\ RoomInv /\ [Next]_vars
        => [UNCHANGED storeVars \/ Tables!Next]_(Tables!specVars)
  BY TablesStep
<1> QED
  BY <1>1, <1>2, AlwaysTyped, DecisionHolds, PromptHolds, IdsHold, RoomHolds, PTL
     DEF Spec, ImplementsStore
=============================================================================
