------------------------------- MODULE Daemon -------------------------------
(***************************************************************************)
(* The daemon: packument requests (src/proxy/mod.rs) and operator commands  *)
(* (src/control/service.rs) running concurrently over one store, one        *)
(* packument cache and one upstream.                                        *)
(*                                                                          *)
(* A request waits for one of MaxConcurrent slots, takes the document from  *)
(* the cache or from upstream, and evaluates it on the blocking pool: one   *)
(* transaction observes every version, then each version's rule is looked   *)
(* up under a lock of its own, then the failure slot is read and the audit  *)
(* rows are written.  Every await and every release of the connection mutex *)
(* is a point where another request, an operator, maintenance or a crash    *)
(* may step in.                                                             *)
(*                                                                          *)
(* Abstractions.  The cache may forget an entry at any time: its TTL, its   *)
(* limits and its eviction order only decide when.  A day does not pass     *)
(* while a request holds a slot or an evaluation runs, and no cached        *)
(* document outlives one.  A document that has a name has that of the       *)
(* package it was asked for.                                                *)
(***************************************************************************)
EXTENDS Store, Sequences

CONSTANTS
  Request,       \* the HTTP connections
  Operator,      \* the control connections
  Credential,    \* fingerprints of the Authorization header
  Anonymous,     \* no Authorization: what the control service fetches with
  Histories,     \* the sequences of documents upstream may serve for a key
  MaxConcurrent, \* MAX_CONCURRENT_PACKUMENTS
  Hazards,       \* what the environment may do beyond serving documents
  MaxCommands,   \* bound on operator commands
  MaxTxn         \* bound on audit transactions: no request arrives past it

(* A packument: None is a version it does not have.  A malformed one lacks  *)
(* a `name` or a usable `versions` object; foreign says that some version's *)
(* dist.tarball is not on the upstream host.                                *)
Doc ==
  [versions : [Version -> Meta \cup {None}], malformed : BOOLEAN, foreign : BOOLEAN]

ASSUME DaemonAssumption ==
  /\ Anonymous \in Credential
  /\ Histories \subseteq Seq(Doc) /\ <<>> \notin Histories
  /\ MaxConcurrent \in Nat \ {0}
  /\ Hazards \subseteq {"fault", "audit_fault", "crash", "disconnect"}
  /\ MaxCommands \in Nat
  /\ MaxTxn \in Nat
  /\ None \notin Meta
  /\ None \notin Verdicts

Key == Package \X Credential

VARIABLES
  failure,  \* Store.failure: whether a swallowed storage failure is noted
  upstream, \* Key -> what upstream serves, and how far it is through that
  cache,    \* Key -> the cached document, or None
  slots,    \* the requests holding a packument slot
  req,      \* Request -> its handler and its evaluation
  oper,     \* Operator -> its command
  commands  \* operator commands issued so far

path == <<cache, slots, req>>
control == <<oper, commands>>
vars == <<storeVars, failure, upstream, path, control>>

May(hazard) == hazard \in Hazards

InDoc(doc) == {v \in Version : doc.versions[v] # None}

Serves(key) == upstream[key].docs[upstream[key].at]

(* A request's handler and evaluation: where it is, what it asked for, the  *)
(* document and where that came from, the client still being there, the     *)
(* time of the evaluation, what the ledger said, the verdicts so far, and   *)
(* the answer.  Two fields are history: `inforce`, the rules in force for   *)
(* each version at some point of the evaluation, and `faulted`, whether one *)
(* of its own storage operations failed.                                    *)
IdleRequest ==
  [pc |-> "idle", key |-> None, doc |-> None, cached |-> FALSE, client |-> TRUE,
   now |-> 0, changed |-> [v \in Version |-> FALSE],
   verdicts |-> [v \in Version |-> None], status |-> None,
   inforce |-> [v \in Version |-> {}], faulted |-> FALSE]

IdleOperator == [pc |-> "idle", rel |-> None, rule |-> None]

Evaluating(r) == req[r].pc \in {"observe", "lookup", "foreign"}

(* The document is there and its evaluation is handed to the blocking pool. *)
OnPool(r) == req[r].pc = "evaluate" \/ Evaluating(r)

Init ==
  /\ StoreInit
  /\ failure = FALSE
  /\ upstream \in [Key -> {[docs |-> docs, at |-> 1] : docs \in Histories}]
  /\ cache = [key \in Key |-> None]
  /\ slots = {}
  /\ req = [r \in Request |-> IdleRequest]
  /\ oper = [o \in Operator |-> IdleOperator]
  /\ commands = 0

-----------------------------------------------------------------------------
(* The request path: handle and resolve.                                    *)

Arrive(r, key) ==
  /\ req[r].pc \in {"idle", "answered"}
  /\ nextId < MaxTxn
  /\ req' = [req EXCEPT ![r] = [IdleRequest EXCEPT !.pc = "queued", !.key = key]]
  /\ UNCHANGED <<storeVars, failure, upstream, cache, slots, control>>

\* mutant: one permit too many
SlotFreeLate == Cardinality(slots) <= MaxConcurrent

SlotFree == Cardinality(slots) < MaxConcurrent

AdmitHit(r) ==
  /\ req[r].pc = "queued" /\ SlotFree
  /\ cache[req[r].key] # None
  /\ slots' = slots \cup {r}
  /\ req' = [req EXCEPT ![r].pc = "evaluate", ![r].cached = TRUE,
                        ![r].doc = cache[req[r].key]]
  /\ UNCHANGED <<storeVars, failure, upstream, cache, control>>

(* Nothing cached, or the entry is past its TTL.                            *)
AdmitMiss(r) ==
  /\ req[r].pc = "queued" /\ SlotFree
  /\ slots' = slots \cup {r}
  /\ req' = [req EXCEPT ![r].pc = "fetch"]
  /\ UNCHANGED <<storeVars, failure, upstream, cache, control>>

(* Upstream answers; the body is still to be read.                          *)
Fetch(r) ==
  /\ req[r].pc = "fetch"
  /\ req' = [req EXCEPT ![r].pc = "fetched", ![r].doc = Serves(req[r].key)]
  /\ UNCHANGED <<storeVars, failure, upstream, cache, slots, control>>

\* mutant: the permit is not returned when the answer is not the document
AnswerKeepingSlot(r, status) ==
  /\ slots' = IF status = "ok" THEN slots \ {r} ELSE slots
  /\ req' = [req EXCEPT ![r] =
       [IdleRequest EXCEPT !.pc = "answered", !.status = status]]

(* The response leaves and the permit is dropped.  When the client is gone  *)
(* both are gone already.                                                   *)
Answer(r, status) ==
  /\ slots' = slots \ {r}
  /\ req' = [req EXCEPT ![r] =
       IF ~@.client THEN IdleRequest
       ELSE IF status = "ok"
       THEN [@ EXCEPT !.pc = "answered", !.status = status, !.cached = FALSE]
       ELSE [IdleRequest EXCEPT !.pc = "answered", !.status = status,
                                 !.faulted = req[r].faulted]]

(* Upstream declines, times out or sends too much: nothing is evaluated.    *)
FetchFails(r) ==
  /\ req[r].pc \in {"fetch", "fetched"}
  /\ Answer(r, "upstream")
  /\ UNCHANGED <<storeVars, failure, upstream, cache, control>>

(* The document is cached before it is evaluated.                           *)
CacheInsert(r) ==
  /\ req[r].pc = "fetched"
  /\ cache' = [cache EXCEPT ![req[r].key] = req[r].doc]
  /\ req' = [req EXCEPT ![r].pc = "evaluate"]
  /\ UNCHANGED <<storeVars, failure, upstream, slots, control>>

-----------------------------------------------------------------------------
(* The evaluation, on the blocking pool.                                    *)

\* mutant: the slot is not cleared
FailureKept == failure

(* clear_failure: what an earlier evaluation left in the slot is forgotten. *)
FailureAtStart == FALSE

(* now = Utc::now(); store.clear_failure().                                 *)
BeginEvaluation(r) ==
  /\ req[r].pc = "evaluate"
  /\ failure' = FailureAtStart
  /\ req' = [req EXCEPT
       ![r].pc = "observe", ![r].now = clock,
       ![r].inforce = [v \in Version |-> {rules[<<req[r].key[1], v>>]}]]
  /\ UNCHANGED <<storeVars, upstream, cache, slots, control>>

Identities(doc) == [v \in InDoc(doc) |-> VersionIdentity(doc.versions[v])]

\* mutant: a cache hit is taken to have been observed when it was fetched
ObserveFetched(r) ==
  LET pkg == req[r].key[1]
      ids == Identities(req[r].doc)
  IN  /\ IF req[r].cached THEN UNCHANGED seen
         ELSE ObserveBatch(pkg, ids, req[r].now, TRUE)
      /\ req' = [req EXCEPT
           ![r].pc = "lookup",
           ![r].changed = [v \in Version |->
              ~req[r].cached /\ v \in DOMAIN ids /\ LedgerChanged(<<pkg, v>>, ids[v])]]

\* mutant: a fetch compares without bumping, like a cache hit
ObserveUnbumped(r) ==
  LET pkg == req[r].key[1]
      ids == Identities(req[r].doc)
  IN  /\ ObserveBatch(pkg, ids, req[r].now, FALSE)
      /\ req' = [req EXCEPT
           ![r].pc = "lookup",
           ![r].changed = [v \in Version |->
              v \in DOMAIN ids /\ LedgerChanged(<<pkg, v>>, ids[v])]]

(* observe_batch: one transaction; a cache hit compares without bumping.    *)
ObserveDocument(r) ==
  LET pkg == req[r].key[1]
      ids == Identities(req[r].doc)
  IN  /\ ObserveBatch(pkg, ids, req[r].now, ~req[r].cached)
      /\ req' = [req EXCEPT
           ![r].pc = "lookup",
           ![r].changed = [v \in Version |->
              v \in DOMAIN ids /\ LedgerChanged(<<pkg, v>>, ids[v])]]

Observe(r) ==
  /\ req[r].pc = "observe"
  /\ ObserveDocument(r)
  /\ UNCHANGED <<rules, audit, nextId, clock, failure, upstream, cache, slots, control>>

(* The ledger cannot be read: every version counts as changed, and the      *)
(* failure is noted for the request path to report.                         *)
ObserveFails(r) ==
  /\ May("fault")
  /\ req[r].pc = "observe" /\ InDoc(req[r].doc) # {}
  /\ failure' = TRUE
  /\ req' = [req EXCEPT ![r].pc = "lookup", ![r].faulted = TRUE,
                        ![r].changed = [v \in Version |-> v \in InDoc(req[r].doc)]]
  /\ UNCHANGED <<storeVars, upstream, cache, slots, control>>

(* PolicyError: the engine cannot read the document it has just observed,   *)
(* and returns before the failure slot is read or anything is reported.     *)
RejectMalformed(r) ==
  /\ req[r].pc = "lookup" /\ req[r].doc.malformed
  /\ Answer(r, "malformed")
  /\ UNCHANGED <<storeVars, failure, upstream, cache, control>>

(* The versions whose verdict is outstanding, and the next one in document  *)
(* order, which may be any order.                                           *)
Pending(r) ==
  IF req[r].doc.malformed THEN {}
  ELSE {v \in InDoc(req[r].doc) : req[r].verdicts[v] = None}

NextVersion(r) == CHOOSE v \in Pending(r) : TRUE

\* mutant: the query names the package and not the version
RuleByName(pkg, v) ==
  LET ruled == {w \in Version : rules[<<pkg, w>>] # None}
  IN  IF ruled = {} THEN None ELSE rules[<<pkg, CHOOSE w \in ruled : TRUE>>]

(* try_lookup_rule.                                                         *)
RuleFor(pkg, v) == rules[<<pkg, v>>]

(* evaluate_version, over the rule on record at this moment.                *)
Lookup(r) ==
  /\ req[r].pc = "lookup" /\ Pending(r) # {}
  /\ LET v == NextVersion(r)
         pkg == req[r].key[1]
     IN  req' = [req EXCEPT ![r].verdicts[v] =
           Decide(pkg, req[r].doc.versions[v], req[r].changed[v],
                  RuleFor(pkg, v), req[r].now)]
  /\ UNCHANGED <<storeVars, failure, upstream, cache, slots, control>>

\* mutant: a rules table that cannot be read has no rule
NoRuleFound == None

(* The rule RuleStore::lookup makes up when the rules cannot be read.       *)
UnreadableRule == DenyRule

(* The rules cannot be read: the failure is noted.  A changed version never *)
(* gets as far as its rule.                                                 *)
LookupFails(r) ==
  /\ May("fault")
  /\ req[r].pc = "lookup" /\ Pending(r) # {}
  /\ LET v == NextVersion(r)
     IN  /\ ~req[r].changed[v]
         /\ req' = [req EXCEPT
              ![r].faulted = TRUE,
              ![r].verdicts[v] = Decide(req[r].key[1], req[r].doc.versions[v],
                                        FALSE, UnreadableRule, req[r].now)]
  /\ failure' = TRUE
  /\ UNCHANGED <<storeVars, upstream, cache, slots, control>>

Decided(r) ==
  req[r].pc = "lookup" /\ ~req[r].doc.malformed /\ Pending(r) = {}

(* take_failure found one: a 502, and no audit row for the verdicts.        *)
ReportFailure(r) ==
  /\ Decided(r) /\ failure
  /\ failure' = FALSE
  /\ Answer(r, "bad_gateway")
  /\ UNCHANGED <<storeVars, upstream, cache, control>>

\* mutant: the versions let through are reported with the others
BlockedAll(r) == [v \in InDoc(req[r].doc) |-> req[r].verdicts[v]]

\* mutant: the ledger's verdict is reported like any other, not as tampering
BlockedQuietly(r) ==
  [v \in {w \in InDoc(req[r].doc) : req[r].verdicts[w] \notin {"allow", "integrity_changed"}}
     |-> req[r].verdicts[v]]

(* outcome.blocked.                                                         *)
Blocked(r) ==
  [v \in {w \in InDoc(req[r].doc) : req[r].verdicts[w] # "allow"} |-> req[r].verdicts[v]]

\* mutant: the check for a cache hit is inverted
ForeignUnnoted(r) == req[r].doc.foreign /\ req[r].cached

(* note_foreign_tarballs has something to say, and the document is new.     *)
NotesForeign(r) == req[r].doc.foreign /\ ~req[r].cached

(* take_failure found none: record_blocks, whose own failure is logged and  *)
(* swallowed, then note_foreign_tarballs for a document just fetched.       *)
ReportBlocks(r) ==
  /\ Decided(r) /\ ~failure
  /\ \/ RecordBlocks(req[r].key[1], Blocked(r), req[r].now)
     \/ May("audit_fault") /\ UNCHANGED <<audit, nextId>>
  /\ IF NotesForeign(r)
     THEN req' = [req EXCEPT ![r].pc = "foreign"] /\ UNCHANGED slots
     ELSE Answer(r, "ok")
  /\ UNCHANGED <<rules, seen, clock, failure, upstream, cache, control>>

NoteForeign(r) ==
  /\ req[r].pc = "foreign"
  /\ \/ AppendForeignOnce(req[r].key[1], req[r].now)
     \/ May("audit_fault") /\ UNCHANGED <<audit, nextId>>
  /\ Answer(r, "ok")
  /\ UNCHANGED <<rules, seen, clock, failure, upstream, cache, control>>

(* The client goes away: the handler's future is dropped and with it the    *)
(* permit.  What runs on the blocking pool runs on.                         *)
Disconnect(r) ==
  /\ May("disconnect")
  /\ req[r].pc \notin {"idle", "answered"} /\ req[r].client
  /\ slots' = slots \ {r}
  /\ req' = [req EXCEPT ![r] =
       IF OnPool(r) THEN [@ EXCEPT !.client = FALSE] ELSE IdleRequest]
  /\ UNCHANGED <<storeVars, failure, upstream, cache, control>>

-----------------------------------------------------------------------------
(* Operator commands: ControlService::allow and deny.                       *)

StartAllow(o, rel) ==
  /\ oper[o].pc = "idle" /\ commands < MaxCommands
  /\ oper' = [oper EXCEPT ![o] = [pc |-> "fetch", rel |-> rel, rule |-> None]]
  /\ commands' = commands + 1
  /\ UNCHANGED <<storeVars, failure, upstream, path>>

(* What `allow` finds upstream: None when the fetch fails, the version is   *)
(* unknown or it publishes no dist.integrity, and the command is refused.   *)
Approvable(rel) ==
  LET doc == Serves(<<rel[1], Anonymous>>)
  IN  IF doc.versions[rel[2]] # None /\ doc.versions[rel[2]].integrity # None
      THEN AllowRule(doc.versions[rel[2]])
      ELSE None

FetchForAllow(o) ==
  /\ oper[o].pc = "fetch"
  /\ LET rule == Approvable(oper[o].rel)
     IN  oper' = [oper EXCEPT ![o] =
           IF rule = None THEN IdleOperator
           ELSE [oper[o] EXCEPT !.pc = "record", !.rule = rule]]
  /\ UNCHANGED <<storeVars, failure, upstream, path, commands>>

StartDeny(o, rel) ==
  /\ oper[o].pc = "idle" /\ commands < MaxCommands
  /\ oper' = [oper EXCEPT ![o] = [pc |-> "record", rel |-> rel, rule |-> DenyRule]]
  /\ commands' = commands + 1
  /\ UNCHANGED <<storeVars, failure, upstream, path>>

(* record_rule_audited, its first transaction.                              *)
CommitRule(o) ==
  /\ oper[o].pc = "record"
  /\ RecordRule(oper[o].rel, oper[o].rule)
  /\ oper' = [oper EXCEPT ![o].pc = "audit"]
  /\ req' = [r \in Request |->
       IF Evaluating(r) /\ req[r].key[1] = oper[o].rel[1]
       THEN [req[r] EXCEPT !.inforce[oper[o].rel[2]] = @ \cup {oper[o].rule}]
       ELSE req[r]]
  /\ UNCHANGED <<seen, audit, nextId, clock, failure, upstream, cache, slots, commands>>

AuditOf(o) == AppendRuleAudit(oper[o].rel, oper[o].rule, clock)

(* record_rule_audited, its second.                                         *)
CommitRuleAudit(o) ==
  /\ oper[o].pc = "audit"
  /\ AuditOf(o)
  /\ oper' = [oper EXCEPT ![o] = IdleOperator]
  /\ UNCHANGED <<rules, seen, clock, failure, upstream, path, commands>>

(* Either transaction fails: the command answers an error.                  *)
CommandFails(o) ==
  /\ May("fault")
  /\ oper[o].pc \in {"record", "audit"}
  /\ oper' = [oper EXCEPT ![o] = IdleOperator]
  /\ UNCHANGED <<storeVars, failure, upstream, path, commands>>

-----------------------------------------------------------------------------
(* Maintenance, upstream, time and crashes.                                 *)

(* prune_state, at startup and every MAINTENANCE_INTERVAL.                  *)
Maintain ==
  /\ MaintainAudit \/ MaintainSeen
  /\ UNCHANGED <<failure, upstream, path, control>>

Republish(key) ==
  /\ upstream[key].at < Len(upstream[key].docs)
  /\ upstream' = [upstream EXCEPT ![key].at = @ + 1]
  /\ UNCHANGED <<storeVars, failure, path, control>>

DayPasses ==
  /\ slots = {} /\ \A r \in Request : ~OnPool(r)
  /\ Tick
  /\ cache' = [key \in Key |-> None]
  /\ UNCHANGED <<failure, upstream, slots, req, control>>

(* The process is killed; what is on disk stays.                            *)
Crash ==
  /\ May("crash")
  /\ failure' = FALSE
  /\ cache' = [key \in Key |-> None]
  /\ slots' = {}
  /\ req' = [r \in Request |-> IdleRequest]
  /\ oper' = [o \in Operator |-> IdleOperator]
  /\ UNCHANGED <<storeVars, upstream, commands>>

-----------------------------------------------------------------------------

Handler(r) ==
  \/ AdmitHit(r) \/ AdmitMiss(r)
  \/ Fetch(r) \/ FetchFails(r) \/ CacheInsert(r)

Evaluation(r) ==
  \/ BeginEvaluation(r)
  \/ Observe(r) \/ ObserveFails(r) \/ RejectMalformed(r)
  \/ Lookup(r) \/ LookupFails(r)
  \/ ReportFailure(r) \/ ReportBlocks(r) \/ NoteForeign(r)

Command(o) ==
  \/ FetchForAllow(o) \/ CommitRule(o) \/ CommitRuleAudit(o) \/ CommandFails(o)

Next ==
  \/ \E r \in Request :
       \/ \E key \in Key : Arrive(r, key)
       \/ Handler(r)
       \/ Evaluation(r)
       \/ Disconnect(r)
  \/ \E o \in Operator :
       \/ \E rel \in Release : StartAllow(o, rel) \/ StartDeny(o, rel)
       \/ Command(o)
  \/ Maintain
  \/ \E key \in Key : Republish(key)
  \/ DayPasses
  \/ Crash

Spec == Init /\ [][Next]_vars

(* Every task the runtime has started is run on; a fetch ends, because the  *)
(* upstream client has a timeout; the semaphore is first come, first        *)
(* served, so a waiter for whom a slot comes free again and again gets one. *)
Fairness ==
  \A r \in Request :
    /\ SF_vars(AdmitHit(r) \/ AdmitMiss(r))
    /\ WF_vars(Fetch(r) \/ FetchFails(r))
    /\ WF_vars(CacheInsert(r))
    /\ WF_vars(Evaluation(r))

FairSpec == Spec /\ Fairness

-----------------------------------------------------------------------------

RequestPcs ==
  {"idle", "queued", "fetch", "fetched", "evaluate", "observe", "lookup",
   "foreign", "answered"}

RequestState ==
  [pc : RequestPcs, key : Key \cup {None}, doc : Doc \cup {None},
   cached : BOOLEAN, client : BOOLEAN, now : Nat,
   changed : [Version -> BOOLEAN], verdicts : [Version -> Verdicts \cup {None}],
   status : {"ok", "upstream", "malformed", "bad_gateway", None},
   inforce : [Version -> SUBSET (Rule \cup {None})], faulted : BOOLEAN]

OperatorState ==
  [pc : {"idle", "fetch", "record", "audit"}, rel : Release \cup {None},
   rule : Rule \cup {None}]

TypeOK ==
  /\ StoreTypeOK
  /\ failure \in BOOLEAN
  /\ upstream \in [Key -> [docs : Histories, at : Nat]]
  /\ cache \in [Key -> Doc \cup {None}]
  /\ slots \subseteq Request
  /\ req \in [Request -> RequestState]
  /\ oper \in [Operator -> OperatorState]
  /\ commands \in 0..MaxCommands

Served(r) == req[r].pc = "answered" /\ req[r].status = "ok"

(* Every verdict of an answer is the engine's over what the ledger said and *)
(* over a rule that was in force while this request was evaluated: a rule   *)
(* recorded before the evaluation began is never ignored and none is        *)
(* remembered from an earlier answer, cached document or not.               *)
VerdictsJustified ==
  \A r \in Request : Served(r) =>
    \A v \in InDoc(req[r].doc) : \E rule \in req[r].inforce[v] :
      req[r].verdicts[v] = Decide(req[r].key[1], req[r].doc.versions[v],
                                  req[r].changed[v], rule, req[r].now)

(* What is let through is let through by the gates even when storage fails  *)
(* and whichever request takes the failure: fail closed.                    *)
AllowedIsJustified ==
  \A r \in Request : Served(r) =>
    \A v \in InDoc(req[r].doc) : req[r].verdicts[v] = "allow" =>
      \E rule \in req[r].inforce[v] :
        Decide(req[r].key[1], req[r].doc.versions[v], FALSE, rule, req[r].now) = "allow"

(* No version is served that the ledger does not hold, under the identity   *)
(* it was first seen with, at the moment the answer leaves: neither the     *)
(* cache nor a failed or abandoned evaluation of the same document opens a  *)
(* way around it.  Pruning does, but only for a cached document and once    *)
(* rows are old enough to be pruned at all: a fetch has refreshed the rows  *)
(* it relies on, a cache hit has only compared them (prune_seen and         *)
(* try_observe_batch).                                                      *)
ServedIsOnLedger ==
  [][\A r \in Request : (Served(r))' /\ ~Served(r) =>
       \A v \in InDoc(req'[r].doc) : req'[r].verdicts[v] = "allow" =>
         LET row == seen[<<req'[r].key[1], v>>]
         IN  \/ row # None /\ row.identity = VersionIdentity(req'[r].doc.versions[v])
             \/ req[r].cached /\ clock > SeenRetention]_vars

PublishedMalformed ==
  \E key \in Key : \E i \in 1..upstream[key].at : upstream[key].docs[i].malformed

MismatchReported ==
  \A rel \in Release :
    (seen[rel] # None /\ seen[rel].replaced) =>
      \/ \E r \in Request :
           Evaluating(r) /\ req[r].key[1] = rel[1] /\ req[r].changed[rel[2]]
      \/ RowsOf(rel, "tamper") # {}
      \/ PublishedMalformed

(* A storage failure is reported by the request it happened to and by no    *)
(* other: never served as a policy verdict, never pinned on a bystander.    *)
OwnFailuresOnly ==
  \A r \in Request : req[r].pc = "answered" =>
    /\ req[r].status = "ok" => ~req[r].faulted
    /\ req[r].status = "bad_gateway" => req[r].faulted

(* The latest allow or deny row of a version is the verdict in force, once  *)
(* no command on it is in progress: a rule and its row are recorded         *)
(* together or not at all, as record_rule_audited is documented to do.  It  *)
(* commits them one after the other, so this does not hold: a crash or a    *)
(* failing write comes between, and so may another command's pair.          *)
AuditTrailAgrees ==
  \A rel \in Release :
    (rules[rel] # None /\ \A o \in Operator : oper[o].rel # rel) =>
      LET rows == RowsOf(rel, "allow") \cup RowsOf(rel, "deny")
      IN  rows # {} /\ Newest(rows).event = rules[rel].verdict

ForeignReported ==
  \A r \in Request :
    (Served(r) /\ req[r].doc.foreign) =>
      \/ ForeignRecorded(req[r].key[1])
      \/ \E other \in Request :
           /\ OnPool(other) /\ req[other].key[1] = req[r].key[1]
           /\ req[other].doc.foreign /\ ~req[other].cached

(* What an evaluation notices reaches the audit log, whoever was waiting    *)
(* for it.  A replacement is there as tampering once the evaluation that    *)
(* saw it has ended, unless the engine then rejected the document; and a    *)
(* document with tarballs on a foreign host is not served without that      *)
(* being on record, or being put there by whoever fetched it                *)
(* (record_blocks; note_foreign_tarballs, which a cache hit leaves out).    *)
NoticedIsOnRecord == MismatchReported /\ ForeignReported

(* At most MaxConcurrent documents are being fetched or evaluated.          *)
DocumentsBounded ==
  Cardinality({r \in Request :
    req[r].pc \in {"fetch", "fetched", "evaluate", "observe", "lookup", "foreign"}})
      <= MaxConcurrent

(* Every request is answered, or its client leaves, however the slots and   *)
(* the connection mutex are contended for.                                  *)
EveryRequestEnds ==
  \A r \in Request :
    req[r].pc = "queued" ~> req[r].pc \in {"answered", "idle"}

(* The verdict a version's latest row gives, which is the one last reported *)
(* for as long as rows are not pruned.                                      *)
LatestReported ==
  [subject \in Release \X {"block", "tamper"} |->
     LET rows == RowsOf(subject[1], subject[2])
     IN  IF rows = {} THEN None ELSE Newest(rows).reason]

(* The work in flight when the bound on transactions is reached adds to it. *)
Tables == INSTANCE StoreSpec WITH
  ServedIdentities <- Identity,
  RecordedRules    <- Rule,
  GivenReasons     <- Reasons,
  MaxLag           <- 0,
  MaxTxn           <- MaxTxn + 2 * Cardinality(Request) + MaxCommands,
  reported         <- LatestReported

(* The daemon does nothing to its tables but what StoreSpec allows, one     *)
(* operation at a time, under every interleaving: what is proved of the     *)
(* store holds inside the daemon.  (While no audit row is pruned, so that   *)
(* the latest row says what was reported last.  This is Tables!Spec, with   *)
(* the steps that leave the tables alone set apart from its operations.)    *)
ImplementsStore ==
  Tables!Init /\ [][UNCHANGED storeVars \/ Tables!Next]_(Tables!specVars)
=============================================================================
