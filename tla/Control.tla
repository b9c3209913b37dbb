------------------------------ MODULE Control ------------------------------
(***************************************************************************)
(* The control socket, end to end: the client (src/control/client.rs), the  *)
(* server and its ceiling (src/control/server.rs) and the commands that     *)
(* write (src/control/service.rs): allow with its file pins, deny, seed.    *)
(* Daemon has allow and deny against the request path; here they run        *)
(* against timeouts, clients that leave and one another.                    *)
(*                                                                          *)
(* A connection takes one of MaxConnections permits or is refused.  Its     *)
(* handler reads one frame and serves it, waiting for upstream or for the   *)
(* blocking pool between steps; a timeout drops the handler where it waits  *)
(* and gives its permit back, and what is on the pool runs on.              *)
(*                                                                          *)
(* Abstractions.  A package has one file worth pinning, `bytes` is its      *)
(* hash.  A frame that is too long, does not parse or fails validation is   *)
(* garbled; one that the server fails to attribute is not modelled.         *)
(* Reports, which only read, are one step.  A timer may fire at any time:   *)
(* what the limits are does not matter, only that each wait has one.  No    *)
(* day passes.                                                              *)
(***************************************************************************)
EXTENDS Store, Sequences

CONSTANTS
  Client,         \* processes that open the socket, one connection at a time
  Asked,          \* the requests they make
  Published,      \* the states the registry moves through
  MaxConnections, \* MAX_CONCURRENT_CONNECTIONS
  MaxEntries,     \* MAX_SEED_ENTRIES
  Hazards,        \* what the environment may do beyond answering
  MaxTxn          \* bound on audit transactions: no client connects past it

(* What the registry has for a version: its metadata and its tarball.       *)
Item == [meta : Meta, bytes : Hash]

Registry == [Release -> Item \cup {None}]

(* An entry of a seed: what the tree on disk says.                          *)
Entry == [rel : Release, integrity : Hash, hooks : HookMap]

(* One request.  `pin` is "none", "named" for a path, or the digest the     *)
(* caller asserts for it.  A silent client connects and sends nothing.      *)
Ops == {"allow", "deny", "seed", "report", "garbled", "silent"}

Request ==
  [op : Ops, rel : Release \cup {None}, pin : {"none", "named"} \cup Hash,
   entries : Seq(Entry), dry : BOOLEAN, offline : BOOLEAN]

ASSUME ControlAssumption ==
  /\ Asked \subseteq Request
  /\ \A r \in Asked : r.op \in {"allow", "deny"} => r.rel # None
  /\ \A r \in Asked : r.pin # "none" => r.op = "allow"
  /\ Published \in Seq(Registry) /\ Published # <<>>
  /\ MaxConnections \in Nat \ {0}
  /\ MaxEntries \in Nat
  /\ Hazards \subseteq {"fault", "timeout", "crash"}
  /\ MaxTxn \in Nat
  /\ None \notin Item /\ None \notin Release

VARIABLES
  pins,     \* Release -> the pinned hash of the rule on record, or None
  upstream, \* how far the registry has moved through Published
  permits,  \* permits left in the semaphore
  conn      \* Client -> its connection

vars == <<storeVars, pins, upstream, permits, conn>>

May(hazard) == hazard \in Hazards

(* A connection: where its handler is, its request, whether the frame is    *)
(* sent, whether the client still waits and whether the handler still runs, *)
(* the entries a seed has left, the packuments it has fetched, the rule it  *)
(* is about to write, the answer, and what the client made of it.  Two      *)
(* fields are history: `since`, where the registry was when the client      *)
(* connected, and `did`, the transactions committed for this request.       *)
NoWrite == [rel |-> None, rule |-> None, pins |-> None]

Unfetched == -1
FetchFailed == 0

Idle ==
  [pc |-> "none", request |-> None, sent |-> FALSE, waits |-> FALSE,
   handler |-> FALSE, todo |-> <<>>, memo |-> [pkg \in Package |-> Unfetched],
   write |-> NoWrite, answer |-> None, heard |-> None, since |-> 0, did |-> {}]

Init ==
  /\ StoreInit
  /\ pins = [rel \in Release |-> None]
  /\ upstream = 1
  /\ permits = MaxConnections
  /\ conn = [c \in Client |-> Idle]

At(c, pc) == conn[c].pc = pc

(* The handler, or what is left of it on the blocking pool, is done: the    *)
(* client hears the answer if it still waits, "io" if it had yet to write   *)
(* its frame.                                                               *)
Closed(c, answer) ==
  [Idle EXCEPT !.heard =
     IF ~conn[c].waits THEN conn[c].heard
     ELSE IF conn[c].sent THEN answer ELSE "io"]

-----------------------------------------------------------------------------
(* The client: send and exchange.                                           *)

Connect(c, request) ==
  /\ At(c, "none") /\ nextId < MaxTxn
  /\ conn' = [conn EXCEPT ![c] =
       [Idle EXCEPT !.pc = "backlog", !.request = request, !.waits = TRUE,
                    !.since = upstream]]
  /\ UNCHANGED <<storeVars, pins, upstream, permits>>

Send(c) ==
  /\ conn[c].pc \in {"backlog", "reading"}
  /\ conn[c].waits /\ ~conn[c].sent /\ conn[c].request.op # "silent"
  /\ conn' = [conn EXCEPT ![c].sent = TRUE]
  /\ UNCHANGED <<storeVars, pins, upstream, permits>>

(* CLIENT_TIMEOUT, or the command is interrupted.  The server learns of it  *)
(* when it next uses the socket.                                            *)
Leave(c) ==
  /\ May("timeout")
  /\ conn[c].waits
  /\ conn' = [conn EXCEPT ![c].waits = FALSE, ![c].heard = "timeout"]
  /\ UNCHANGED <<storeVars, pins, upstream, permits>>

-----------------------------------------------------------------------------
(* The server: serve and handle.                                            *)

PermitLeft == permits > 0

Accept(c) ==
  /\ At(c, "backlog") /\ PermitLeft
  /\ permits' = permits - 1
  /\ conn' = [conn EXCEPT ![c].pc = "reading", ![c].handler = TRUE]
  /\ UNCHANGED <<storeVars, pins, upstream>>

(* refuse_busy: outside the semaphore, and nothing of the request is read.  *)
Refuse(c) ==
  /\ At(c, "backlog") /\ ~PermitLeft
  /\ conn' = [conn EXCEPT ![c] = Closed(c, "busy")]
  /\ UNCHANGED <<storeVars, pins, upstream, permits>>

Answered(c, answer) == [conn[c] EXCEPT !.pc = "reply", !.answer = answer]

Valid(request) ==
  request.op # "garbled" /\ Len(request.entries) <= MaxEntries

FirstStep(request) ==
  CASE request.op = "allow"  -> "packument"
    [] request.op = "deny"   -> "record"
    [] request.op = "seed"   -> "verify"
    [] request.op = "report" -> "query"

(* The frame arrives, is parsed, validated and dispatched.                  *)
ReadFrame(c) ==
  /\ At(c, "reading") /\ conn[c].sent
  /\ LET request == conn[c].request
     IN  conn' = [conn EXCEPT ![c] =
           IF ~Valid(request) THEN Answered(c, "refused")
           ELSE [@ EXCEPT !.pc = FirstStep(request), !.todo = request.entries,
                          !.write = IF request.op = "deny"
                                    THEN [rel |-> request.rel, rule |-> DenyRule, pins |-> None]
                                    ELSE NoWrite]]
  /\ UNCHANGED <<storeVars, pins, upstream, permits>>

\* mutant: a peer that says nothing is waited for
GivesUpAtEof(c) == ~conn[c].waits

(* The client has gone without a frame, or REQUEST_TIMEOUT passes.          *)
GivesUp(c) ==
  ~conn[c].waits \/ conn[c].request.op = "silent" \/ May("timeout")

NoFrame(c) ==
  /\ At(c, "reading") /\ ~conn[c].sent /\ GivesUp(c)
  /\ conn' = [conn EXCEPT ![c] = Answered(c, "refused")]
  /\ UNCHANGED <<storeVars, pins, upstream, permits>>

(* write_frame; the permit is dropped with the task.                        *)
Reply(c) ==
  /\ At(c, "reply")
  /\ permits' = permits + 1
  /\ conn' = [conn EXCEPT ![c] = Closed(c, conn[c].answer)]
  /\ UNCHANGED <<storeVars, pins, upstream>>

OnPool(c) == conn[c].pc \in {"record", "row", "refuse"}

(* CONNECTION_TIMEOUT drops the handler where it waits.  A task it has put  *)
(* on the blocking pool is not cancelled.                                   *)
ConnectionTimeout(c) ==
  /\ May("timeout")
  /\ conn[c].handler /\ conn[c].pc # "reading"
  /\ permits' = permits + 1
  /\ conn' = [conn EXCEPT ![c] =
       LET dropped == Closed(c, "no_answer")
       IN  IF OnPool(c)
           THEN [@ EXCEPT !.handler = FALSE, !.waits = FALSE, !.heard = dropped.heard]
           ELSE dropped]
  /\ UNCHANGED <<storeVars, pins, upstream>>

Query(c) ==
  /\ At(c, "query")
  /\ \E answer \in {"done", "refused"} \cup (IF May("fault") THEN {"internal"} ELSE {}) :
       conn' = [conn EXCEPT ![c] = Answered(c, answer)]
  /\ UNCHANGED <<storeVars, pins, upstream, permits>>

-----------------------------------------------------------------------------
(* allow: the packument, then the tarball if files are pinned.              *)

(* Upstream fails, a pin does not resolve, the version is not there, or it *)
(* carries no hash.                                                         *)
NotApproved(c) ==
  /\ conn[c].pc \in {"packument", "tarball"}
  /\ conn' = [conn EXCEPT ![c] = Answered(c, "refused")]
  /\ UNCHANGED <<storeVars, pins, upstream, permits>>

ReadPackument(c) ==
  /\ At(c, "packument")
  /\ LET request == conn[c].request
         item == Published[upstream][request.rel]
     IN  /\ item # None /\ item.meta.integrity # None
         /\ conn' = [conn EXCEPT
              ![c].pc = IF request.pin = "none" THEN "record" ELSE "tarball",
              ![c].write = [rel |-> request.rel, rule |-> AllowRule(item.meta), pins |-> None]]
  /\ UNCHANGED <<storeVars, pins, upstream, permits>>

\* mutant: the digest the caller asserts is recorded in place of the computed one
PinAsserted(request, computed) ==
  IF request.pin = "named" THEN computed ELSE request.pin

(* The daemon's own hash of the file, checked against an asserted digest:   *)
(* None fails the approval.                                                 *)
ResolvedPin(request, computed) ==
  IF request.pin \in {"named", computed} THEN computed ELSE None

ScanTarball(c) ==
  /\ At(c, "tarball")
  /\ LET request == conn[c].request
         item == Published[upstream][request.rel]
     IN  /\ item # None /\ ResolvedPin(request, item.bytes) # None
         /\ conn' = [conn EXCEPT ![c].pc = "record",
                                 ![c].write.pins = ResolvedPin(request, item.bytes)]
  /\ UNCHANGED <<storeVars, pins, upstream, permits>>

-----------------------------------------------------------------------------
(* seed: verify, then record or refuse, one entry after another.            *)

\* mutant: the hooks on disk are taken as they are
ConfirmedByHash(entry, state) ==
  /\ state > 0
  /\ Published[state][entry.rel] # None
  /\ Published[state][entry.rel].meta.integrity = entry.integrity

(* verify_seed_entry over the packument fetched at `state`.                 *)
Confirmed(entry, state) ==
  /\ state > 0
  /\ Published[state][entry.rel] # None
  /\ Published[state][entry.rel].meta.integrity = entry.integrity
  /\ Published[state][entry.rel].meta.hooks = entry.hooks

(* One fetch for each package of the request, successful or not.            *)
Fetches(c, pkg) ==
  IF conn[c].memo[pkg] = Unfetched THEN {upstream, FetchFailed} ELSE {conn[c].memo[pkg]}

SeedRule(entry) ==
  [verdict |-> "allow", integrity |-> entry.integrity, scripts |-> entry.hooks]

(* What follows a verified entry: a dry run writes no rule.                 *)
AfterVerified(c, entry) ==
  IF conn[c].request.dry THEN [conn[c] EXCEPT !.todo = Tail(@)]
  ELSE [conn[c] EXCEPT !.pc = "record",
          !.write = [rel |-> entry.rel, rule |-> SeedRule(entry), pins |-> None]]

VerifyOffline(c) ==
  /\ At(c, "verify") /\ conn[c].todo # <<>> /\ conn[c].request.offline
  /\ conn' = [conn EXCEPT ![c] = AfterVerified(c, Head(conn[c].todo))]
  /\ UNCHANGED <<storeVars, pins, upstream, permits>>

Verify(c) ==
  /\ At(c, "verify") /\ conn[c].todo # <<>> /\ ~conn[c].request.offline
  /\ LET entry == Head(conn[c].todo)
         pkg == entry.rel[1]
         refused == [conn[c] EXCEPT !.pc = "refuse"]
     IN  \E state \in Fetches(c, pkg) :
           conn' = [conn EXCEPT ![c] =
             [(IF Confirmed(entry, state) THEN AfterVerified(c, entry) ELSE refused)
                EXCEPT !.memo[pkg] = state]]
  /\ UNCHANGED <<storeVars, pins, upstream, permits>>

SeedDone(c) ==
  /\ At(c, "verify") /\ conn[c].todo = <<>>
  /\ conn' = [conn EXCEPT ![c] = Answered(c, "done")]
  /\ UNCHANGED <<storeVars, pins, upstream, permits>>

-----------------------------------------------------------------------------
(* The blocking pool: record_rule_audited, and the audit row of a refusal.  *)

Did(c, what, rel) == [conn[c] EXCEPT !.did = @ \cup {<<what, rel>>}]

RecordWrite(c) ==
  /\ At(c, "record")
  /\ LET write == conn[c].write
     IN  /\ RecordRule(write.rel, write.rule)
         /\ pins' = [pins EXCEPT ![write.rel] = write.pins]
         /\ conn' = [conn EXCEPT ![c] = [Did(c, "rule", write.rel) EXCEPT !.pc = "row"]]
  /\ UNCHANGED <<seen, audit, nextId, clock, upstream, permits>>

(* Where a finished task leaves its connection: without a handler nobody is *)
(* left to go on, and only a seed has more to do.                           *)
Resumed(c, done) ==
  IF ~done.handler THEN Closed(c, None)
  ELSE IF done.request.op = "seed"
  THEN [done EXCEPT !.pc = "verify", !.todo = Tail(@), !.write = NoWrite]
  ELSE [done EXCEPT !.pc = "reply", !.answer = "done", !.write = NoWrite]

AuditWrite(c) ==
  /\ At(c, "row")
  /\ LET write == conn[c].write
     IN  /\ AppendRuleAudit(write.rel, write.rule, clock)
         /\ conn' = [conn EXCEPT ![c] = Resumed(c, Did(c, "row", write.rel))]
  /\ UNCHANGED <<rules, seen, clock, pins, upstream, permits>>

RecordRefusal(c) ==
  /\ At(c, "refuse")
  /\ LET rel == Head(conn[c].todo).rel
     IN  /\ AppendRows({Row("seed_refused", rel, None, clock)})
         /\ conn' = [conn EXCEPT ![c] = Resumed(c, Did(c, "refusal", rel))]
  /\ UNCHANGED <<rules, seen, clock, pins, upstream, permits>>

\* mutant: a failed audit write is logged and the command carries on
SwallowFailure(c) == Resumed(c, conn[c])

(* The error ends the request, whatever a seed has left.                    *)
AfterFailure(c) ==
  IF conn[c].handler THEN Answered(c, "internal") ELSE Closed(c, None)

WriteFails(c) ==
  /\ May("fault")
  /\ OnPool(c)
  /\ conn' = [conn EXCEPT ![c] = AfterFailure(c)]
  /\ UNCHANGED <<storeVars, pins, upstream, permits>>

-----------------------------------------------------------------------------
(* The registry moves on; the daemon is killed and started again.           *)

Republish ==
  /\ upstream < Len(Published)
  /\ upstream' = upstream + 1
  /\ UNCHANGED <<storeVars, pins, permits, conn>>

Crash ==
  /\ May("crash")
  /\ permits' = MaxConnections
  /\ conn' = [c \in Client |-> IF At(c, "none") THEN conn[c] ELSE Closed(c, "no_answer")]
  /\ UNCHANGED <<storeVars, pins, upstream>>

-----------------------------------------------------------------------------

Handler(c) ==
  \/ ReadFrame(c) \/ NoFrame(c) \/ Query(c) \/ Reply(c)
  \/ NotApproved(c) \/ ReadPackument(c) \/ ScanTarball(c)
  \/ VerifyOffline(c) \/ Verify(c) \/ SeedDone(c)

Pool(c) == RecordWrite(c) \/ AuditWrite(c) \/ RecordRefusal(c) \/ WriteFails(c)

Next ==
  \/ \E c \in Client :
       \/ \E request \in Asked : Connect(c, request)
       \/ Send(c) \/ Leave(c)
       \/ Accept(c) \/ Refuse(c)
       \/ Handler(c) \/ Pool(c)
       \/ ConnectionTimeout(c)
  \/ Republish
  \/ Crash

Spec == Init /\ [][Next]_vars

(* The runtime runs what it has started, and each of its waits has a limit: *)
(* REQUEST_TIMEOUT for the frame, the HTTP client's for upstream.  Clients  *)
(* need do nothing.                                                         *)
Fairness == \A c \in Client : WF_vars(Handler(c) \/ Pool(c))

FairSpec == Spec /\ Fairness

-----------------------------------------------------------------------------

Write ==
  [rel : Release \cup {None}, rule : Rule \cup {None}, pins : Hash \cup {None}]

Connection ==
  [pc : {"none", "backlog", "reading", "packument", "tarball", "record", "row",
         "verify", "refuse", "query", "reply"},
   request : Asked \cup {None}, sent : BOOLEAN, waits : BOOLEAN, handler : BOOLEAN,
   todo : Seq(Entry), memo : [Package -> {Unfetched, FetchFailed} \cup 1..Len(Published)],
   write : Write, answer : {"done", "refused", "internal", None},
   heard : {"done", "refused", "internal", "busy", "io", "no_answer", "timeout", None},
   since : 0..Len(Published), did : SUBSET ({"rule", "row", "refusal"} \X Release)]

TypeOK ==
  /\ StoreTypeOK
  /\ pins \in [Release -> Hash \cup {None}]
  /\ upstream \in 1..Len(Published)
  /\ permits \in 0..MaxConnections
  /\ conn \in [Client -> Connection]

(* What was committed for a request that is reported as carried out: its    *)
(* rule and audit row, or for each entry of a seed either these or the      *)
(* audit row of its refusal.                                                *)
CarriedOut(request, did) ==
  CASE request.op \in {"allow", "deny"} ->
         did = {<<"rule", request.rel>>, <<"row", request.rel>>}
    [] request.op = "seed" /\ ~request.dry ->
         \A i \in DOMAIN request.entries :
           LET rel == request.entries[i].rel
           IN  {<<"rule", rel>>, <<"row", rel>>} \subseteq did \/ <<"refusal", rel>> \in did
    [] OTHER -> \A what \in did : what[1] = "refusal"

Writes(request) == request.op \in {"allow", "deny", "seed"} /\ ~request.dry

(* What a client is told is what happened to its request, whoever else was  *)
(* writing, and whatever failed or timed out on the way: "done" means done  *)
(* to the last entry, and after a refusal nothing of it is on record.       *)
AnswersTruthful ==
  [][\A c \in Client :
       LET request == conn[c].request
           did == conn[c].did
           heard == conn'[c].heard
       IN  (~At(c, "none") /\ conn'[c].pc = "none") =>
             /\ heard = "done" => CarriedOut(request, did)
             /\ heard \in {"refused", "busy"} => did = {}
             /\ (heard = "internal" /\ Writes(request)) => ~CarriedOut(request, did)]_vars

(* The states the registry has been in since a client connected.            *)
ServedSince(c) == conn[c].since..upstream

(* An approval that is about to be written pins what the registry served    *)
(* while it was being decided: the integrity and the commands of a version  *)
(* together, and the bytes of its file, asserted or not.  Nothing is taken  *)
(* from the disk of the client or from an earlier request, unless a seed is *)
(* offline.                                                                 *)
WritesWhatWasServed ==
  \A c \in Client :
    LET request == conn[c].request
        write == conn[c].write
    IN  (At(c, "record") /\ write.rule.verdict = "allow" /\ ~request.offline) =>
          /\ \E i \in ServedSince(c) :
               LET item == Published[i][write.rel]
               IN  item # None /\ write.rule = AllowRule(item.meta)
          /\ request.pin # "none" =>
               \E i \in ServedSince(c) :
                 LET item == Published[i][write.rel]
                 IN  item # None /\ write.pins = item.bytes /\ request.pin \in {"named", write.pins}

(* A full server has room again, whatever its clients do or fail to do      *)
(* ("a client that is refused can retry into a slot that frees").           *)
SlotComesFree == permits = 0 ~> permits > 0

(* "dry_run: Verify and report, write nothing."                             *)
DryRunWritesNothing ==
  \A c \in Client :
    (conn[c].request # None /\ conn[c].request.dry) => conn[c].did = {}
=============================================================================
