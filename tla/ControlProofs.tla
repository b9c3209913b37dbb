---------------------------- MODULE ControlProofs ----------------------------
(***************************************************************************)
(* Proofs about the control socket (Control): its type invariant with the   *)
(* permits it counts, that an approval pins what the registry served, and   *)
(* that a client is told what happened to its request.  They hold for any   *)
(* number of clients and permits, any requests, every history of the        *)
(* registry and every timeout, fault and crash.                             *)
(***************************************************************************)
EXTENDS Control, StoreLemmas, FiniteSetTheorems, SequenceTheorems

(* Where a connection is: what its place says of its handler and request.   *)
Waiting == {"reading", "packument", "tarball", "verify", "query", "reply"}
Pooled == {"record", "row", "refuse"}

Placed(k) ==
  /\ k.pc \in {"none", "backlog"} => ~k.handler
  /\ k.pc \in Waiting => k.handler
  /\ k.pc # "none" => k.request \in Asked
  /\ k.pc # "none" /\ k.sent => k.request.op # "silent"
  /\ k.pc # "none" /\ ~k.waits => k.heard \in {"timeout", "no_answer", "io"}
  /\ k.pc \in Pooled /\ ~k.handler => ~k.waits
  /\ k.pc \in {"packument", "tarball"} => k.request.op = "allow"
  /\ k.pc \in {"verify", "refuse"} => k.request.op = "seed"
  /\ k.pc = "query" => k.request.op = "report"
  /\ k.pc \in {"record", "row"} => k.request.op \in {"allow", "deny", "seed"}

(* What is about to be written is for the release that is asked for.        *)
Addressed(k) ==
  /\ k.pc \in {"tarball", "record", "row"} => k.write.rel \in Release /\ k.write.rule \in Rule
  /\ k.pc \in {"tarball", "record", "row"} /\ k.request.op \in {"allow", "deny"} =>
       k.write.rel = k.request.rel
  /\ k.pc \in {"refuse", "record", "row"} /\ k.request.op = "seed" => k.todo # <<>>
  /\ k.pc \in {"record", "row"} /\ k.request.op = "seed" =>
       ~k.request.dry /\ k.write.rel = Head(k.todo).rel

(* What a seed has done: the entries it has left are the last ones of its   *)
(* request, those before are settled, and nothing else is on record for it  *)
(* but the rule of the entry whose audit row is next.                       *)
Settled(rel, did) ==
  {<<"rule", rel>>, <<"row", rel>>} \subseteq did \/ <<"refusal", rel>> \in did

Behind(k) == Len(k.request.entries) - Len(k.todo)

SeedSoFar(k) ==
  /\ Behind(k) \in Nat
  /\ \A j \in DOMAIN k.todo : k.todo[j] = k.request.entries[Behind(k) + j]
  /\ ~k.request.dry => \A i \in 1..Behind(k) : Settled(k.request.entries[i].rel, k.did)
  /\ k.request.dry => \A what \in k.did : what[1] = "refusal"
  /\ \A what \in k.did :
       \/ \E i \in 1..Behind(k) : what[2] = k.request.entries[i].rel
       \/ k.pc = "row" /\ what = <<"rule", k.write.rel>>
  /\ k.pc = "row" => <<"rule", k.write.rel>> \in k.did

(* Every entry of a seed is for a release of its own.                       *)
Distinct(request) ==
  \A i, j \in DOMAIN request.entries :
    request.entries[i].rel = request.entries[j].rel => i = j

Truthful(request, did, answer) ==
  /\ answer \in {"done", "refused", "internal"}
  /\ answer = "done" => CarriedOut(request, did)
  /\ answer = "refused" => did = {}
  /\ answer = "internal" /\ Writes(request) /\ Distinct(request) => ~CarriedOut(request, did)

Accounted(k) ==
  /\ k.pc \in {"backlog", "reading", "packument", "tarball", "query"} => k.did = {}
  /\ k.pc = "record" /\ k.request.op # "seed" => k.did = {}
  /\ k.pc = "row" /\ k.request.op # "seed" => k.did = {<<"rule", k.write.rel>>}
  /\ k.pc \in {"verify", "record", "row", "refuse"} /\ k.request.op = "seed" => SeedSoFar(k)
  /\ k.pc = "reply" => Truthful(k.request, k.did, k.answer)

(* The document `rule` was approved from was served since the client came.  *)
Approved(rel, rule, first, last) ==
  \E i \in first..last :
    Published[i][rel] # None /\ rule = AllowRule(Published[i][rel].meta)

Computed(rel, pin, write, first, last) ==
  \E i \in first..last :
    /\ Published[i][rel] # None
    /\ write = Published[i][rel].bytes /\ pin \in {"named", write}

Grounded(k, now) ==
  /\ k.pc # "none" => k.since \in 1..now
  /\ k.pc # "none" => \A pkg \in Package :
       k.memo[pkg] \in {Unfetched, FetchFailed} \cup k.since..now
  /\ k.pc \in {"tarball", "record"} /\ k.write.rule.verdict = "allow" /\ ~k.request.offline =>
       Approved(k.write.rel, k.write.rule, k.since, now)
  /\ k.pc = "tarball" => k.request.pin # "none"
  /\ k.pc = "record" /\ k.request.pin # "none" =>
       Computed(k.write.rel, k.request.pin, k.write.pins, k.since, now)

Good(k, now) ==
  k \in Connection /\ Placed(k) /\ Addressed(k) /\ Accounted(k) /\ Grounded(k, now)

ConnInv == \A c \in Client : Good(conn[c], upstream)

(* Each permit is left or held by a handler that runs.                      *)
Held == {c \in Client : conn[c].handler}

PermitInv == IsFiniteSet(Held) /\ permits + Cardinality(Held) = MaxConnections

IInv == TypeOK /\ ConnInv /\ PermitInv

-----------------------------------------------------------------------------
(* Connections.                                                             *)

LEMMA LenPublished == Len(Published) \in Nat \ {0} /\ Published \in Seq(Registry)
BY ControlAssumption

(* What the registry serves of a release is an item, or nothing.            *)
LEMMA ItemType ==
  ASSUME NEW i \in 1..Len(Published), NEW rel \in Release
  PROVE  Published[i][rel] \in Item \cup {None}
BY ControlAssumption DEF Registry

LEMMA ItemParts ==
  ASSUME NEW i \in 1..Len(Published), NEW rel \in Release, Published[i][rel] # None
  PROVE  /\ Published[i][rel].meta \in Meta /\ Published[i][rel].bytes \in Hash
         /\ AllowRule(Published[i][rel].meta) \in Rule
         /\ AllowRule(Published[i][rel].meta).verdict = "allow"
<1>1. Published[i][rel] \in Item
  BY ItemType
<1>2. Published[i][rel].meta \in Meta /\ Published[i][rel].bytes \in Hash
  BY <1>1 DEF Item
<1> QED
  BY <1>2, AllowRuleType DEF AllowRule

LEMMA RequestParts ==
  ASSUME NEW r \in Asked
  PROVE  /\ r \in Request
         /\ r.op \in {"allow", "deny"} => r.rel \in Release
         /\ r.pin # "none" => r.op = "allow"
         /\ r.entries \in Seq(Entry)
BY ControlAssumption DEF Request

LEMMA IdleGood ==
  /\ Idle \in Connection
  /\ Idle.pc = "none" /\ ~Idle.handler /\ Idle.did = {} /\ Idle.memo = [pkg \in Package |-> Unfetched]
  /\ Idle.todo = <<>> /\ ~Idle.waits /\ ~Idle.sent
BY DEF Idle, Connection, Write, NoWrite

(* A connection that is over asks for nothing.                              *)
LEMMA OverGood ==
  ASSUME NEW k \in Connection, k.pc = "none", ~k.handler, NEW now
  PROVE  Good(k, now)
BY DEF Good, Placed, Addressed, Accounted, Grounded, Waiting, Pooled

LEMMA ClosedGood ==
  ASSUME NEW c \in Client, conn[c] \in Connection, NEW answer, NEW now,
         answer \in {"done", "refused", "internal", "busy", "io", "no_answer", "timeout", None}
  PROVE  /\ Good(Closed(c, answer), now)
         /\ Closed(c, answer).pc = "none" /\ ~Closed(c, answer).handler
         /\ Closed(c, answer).heard =
              IF ~conn[c].waits THEN conn[c].heard ELSE IF conn[c].sent THEN answer ELSE "io"
<1> DEFINE heard == IF ~conn[c].waits THEN conn[c].heard
                    ELSE IF conn[c].sent THEN answer ELSE "io"
           k == [Idle EXCEPT !.heard = heard]
<1>1. heard \in {"done", "refused", "internal", "busy", "io", "no_answer", "timeout", None}
  BY DEF Connection
<1>2. k \in Connection /\ k.pc = "none" /\ ~k.handler /\ k.heard = heard
  BY <1>1, IdleGood DEF Connection
<1>3. Closed(c, answer) = k
  BY DEF Closed
<1> QED
  BY <1>2, <1>3, OverGood

(* One connection moves, or the registry does.                              *)
LEMMA OneMoves ==
  ASSUME conn \in [Client -> Connection], ConnInv, NEW c \in Client, NEW k,
         Good(k, upstream), conn' = [conn EXCEPT ![c] = k], upstream' = upstream
  PROVE  conn' \in [Client -> Connection] /\ ConnInv'
BY DEF ConnInv, Good

LEMMA LaterGood ==
  ASSUME NEW k, NEW now \in Int, NEW later \in Int, now <= later, Good(k, now)
  PROVE  Good(k, later)
<1>1. k.since \in Nat
  BY DEF Good, Connection
<1>2. \A i \in k.since..now : i \in k.since..later
  BY <1>1
<1>3. Grounded(k, later)
  BY <1>1, <1>2 DEF Good, Grounded, Approved, Computed
<1> QED
  BY <1>3 DEF Good

-----------------------------------------------------------------------------
(* The client and the server's ceiling.                                     *)

LEMMA ConnectGood ==
  ASSUME TypeOK, ConnInv, NEW c \in Client, NEW request \in Asked, Connect(c, request)
  PROVE  \E k : /\ Good(k, upstream) /\ conn' = [conn EXCEPT ![c] = k]
                /\ k.handler = conn[c].handler
<1>1. PICK k : k = [Idle EXCEPT !.pc = "backlog", !.request = request, !.waits = TRUE,
                                !.since = upstream]
  OBVIOUS
<1>2. /\ k \in Connection
      /\ k.pc = "backlog" /\ k.request = request /\ k.since = upstream /\ k.waits
      /\ ~k.handler /\ ~k.sent /\ k.did = {} /\ k.memo = [pkg \in Package |-> Unfetched]
  <2>1. upstream \in 0..Len(Published)
    BY LenPublished DEF TypeOK
  <2> QED
    BY <1>1, <2>1, IdleGood DEF Connection
<1>3. conn' = [conn EXCEPT ![c] = k]
  BY <1>1 DEF Connect
<1>4. conn[c].handler = k.handler
  BY <1>2 DEF Connect, At, ConnInv, Good, Placed, Connection
<1>5. upstream \in 1..upstream
  BY DEF TypeOK
<1>6. Good(k, upstream)
  BY <1>2, <1>5 DEF Good, Placed, Addressed, Accounted, Grounded, Waiting, Pooled
<1> QED
  BY <1>2, <1>3, <1>4, <1>6, Zenon

LEMMA SendGood ==
  ASSUME TypeOK, ConnInv, NEW c \in Client, Send(c)
  PROVE  \E k : /\ Good(k, upstream) /\ conn' = [conn EXCEPT ![c] = k]
                /\ k.handler = conn[c].handler
<1> DEFINE h == conn[c]
<1>0. h \in Connection /\ Good(h, upstream)
  BY DEF TypeOK, ConnInv
<1>1. PICK k : k = [h EXCEPT !.sent = TRUE]
  OBVIOUS
<1>2. /\ k \in Connection
      /\ k.pc = h.pc /\ k.request = h.request /\ k.since = h.since /\ k.waits = h.waits
      /\ k.handler = h.handler /\ k.did = h.did /\ k.memo = h.memo /\ k.heard = h.heard
  BY <1>0, <1>1 DEF Connection
<1>3. conn' = [conn EXCEPT ![c] = k]
  BY <1>1 DEF Send
<1>4. h.pc \in {"backlog", "reading"} /\ h.request.op # "silent"
  BY DEF Send
<1> HIDE DEF h
<1>5. Placed(k)
  BY <1>0, <1>2, <1>4 DEF Good, Placed, Waiting, Pooled
<1>6. Addressed(k) /\ Accounted(k) /\ Grounded(k, upstream)
  BY <1>0, <1>2, <1>4 DEF Good, Addressed, Accounted, Grounded
<1> QED
  BY <1>2, <1>3, <1>5, <1>6, Zenon DEF Good, h

LEMMA LeaveGood ==
  ASSUME TypeOK, ConnInv, NEW c \in Client, Leave(c)
  PROVE  \E k : /\ Good(k, upstream) /\ conn' = [conn EXCEPT ![c] = k]
                /\ k.handler = conn[c].handler /\ k.pc = conn[c].pc
<1> DEFINE h == conn[c]
<1>0. h \in Connection /\ Good(h, upstream)
  BY DEF TypeOK, ConnInv
<1>1. PICK k : k = [h EXCEPT !.waits = FALSE, !.heard = "timeout"]
  OBVIOUS
<1>2. /\ k \in Connection
      /\ k.pc = h.pc /\ k.request = h.request /\ k.since = h.since /\ ~k.waits
      /\ k.handler = h.handler /\ k.did = h.did /\ k.memo = h.memo /\ k.heard = "timeout"
      /\ k.todo = h.todo /\ k.write = h.write /\ k.answer = h.answer /\ k.sent = h.sent
  BY <1>0, <1>1 DEF Connection
<1>3. conn' = [conn EXCEPT ![c] = k]
  BY <1>1, <1>0 DEF Leave, TypeOK, Connection
<1> HIDE DEF h
<1>4. Placed(k)
  BY <1>0, <1>2 DEF Good, Placed
<1>5. Addressed(k)
  BY <1>0, <1>2 DEF Good, Addressed
<1>6. Accounted(k)
  <2>1. SeedSoFar(h) => SeedSoFar(k)
    BY <1>2 DEF SeedSoFar, Behind
  <2> QED
    BY <1>0, <1>2, <2>1 DEF Good, Accounted
<1>7. Grounded(k, upstream)
  BY <1>0, <1>2 DEF Good, Grounded
<1> QED
  BY <1>2, <1>3, <1>4, <1>5, <1>6, <1>7, Zenon DEF Good, h

LEMMA AcceptGood ==
  ASSUME TypeOK, ConnInv, NEW c \in Client, Accept(c)
  PROVE  \E k : /\ Good(k, upstream) /\ conn' = [conn EXCEPT ![c] = k]
                /\ k.handler /\ k.pc = "reading"
<1> DEFINE h == conn[c]
<1>0. h \in Connection /\ Good(h, upstream) /\ h.pc = "backlog"
  BY DEF TypeOK, ConnInv, Accept, At
<1>1. PICK k : k = [h EXCEPT !.pc = "reading", !.handler = TRUE]
  OBVIOUS
<1>2. /\ k \in Connection
      /\ k.pc = "reading" /\ k.request = h.request /\ k.since = h.since /\ k.waits = h.waits
      /\ k.handler /\ k.did = h.did /\ k.memo = h.memo /\ k.heard = h.heard
      /\ k.sent = h.sent
  BY <1>0, <1>1 DEF Connection
<1>3. conn' = [conn EXCEPT ![c] = k]
  BY <1>1, <1>0 DEF Accept, TypeOK, Connection
<1> HIDE DEF h
<1>4. Placed(k)
  BY <1>0, <1>2 DEF Good, Placed, Waiting, Pooled
<1>5. Addressed(k) /\ Accounted(k) /\ Grounded(k, upstream)
  BY <1>0, <1>2 DEF Good, Addressed, Accounted, Grounded
<1> QED
  BY <1>2, <1>3, <1>4, <1>5, Zenon DEF Good


(* A handler that answers, and a connection that is over.                   *)
LEMMA AnsweredGood ==
  ASSUME TypeOK, ConnInv, NEW c \in Client, conn[c].pc # "none", conn[c].handler,
         NEW answer, Truthful(conn[c].request, conn[c].did, answer)
  PROVE  /\ Good(Answered(c, answer), upstream)
         /\ Answered(c, answer).handler = conn[c].handler
         /\ Answered(c, answer).pc = "reply"
<1> DEFINE h == conn[c]
<1>0. h \in Connection /\ Good(h, upstream) /\ h.pc # "none" /\ h.handler
  BY DEF TypeOK, ConnInv
<1>1. PICK k : k = [h EXCEPT !.pc = "reply", !.answer = answer]
  OBVIOUS
<1>2. /\ k \in Connection
      /\ k.pc = "reply" /\ k.request = h.request /\ k.since = h.since /\ k.waits = h.waits
      /\ k.handler = h.handler /\ k.did = h.did /\ k.memo = h.memo /\ k.heard = h.heard
      /\ k.sent = h.sent /\ k.answer = answer
  <2>1. answer \in {"done", "refused", "internal"}
    BY Zenon DEF Truthful
  <2> QED
    BY <1>0, <1>1, <2>1 DEF Connection
<1>3. k = Answered(c, answer)
  BY <1>1 DEF Answered
<1>4. Truthful(k.request, k.did, k.answer)
  BY <1>2
<1> HIDE DEF h
<1>5. Placed(k)
  BY <1>0, <1>2 DEF Good, Placed, Waiting, Pooled
<1>6. Addressed(k)
  BY <1>2 DEF Addressed
<1>7. Accounted(k)
  BY <1>2, <1>4 DEF Accounted
<1>8. Grounded(k, upstream)
  BY <1>0, <1>2 DEF Good, Grounded
<1> QED
  BY <1>2, <1>3, <1>5, <1>6, <1>7, <1>8, Zenon DEF Good, h

(* Nothing is on record yet of a request that is turned away.               *)
LEMMA NothingDone ==
  ASSUME NEW request, NEW answer \in {"refused", "internal", "done"},
         answer = "internal" => ~Writes(request),
         answer = "done" => request.op \notin {"allow", "deny", "seed"}
  PROVE  Truthful(request, {}, answer)
BY DEF Truthful, CarriedOut

LEMMA NotApprovedGood ==
  ASSUME TypeOK, ConnInv, NEW c \in Client, NotApproved(c) \/ NoFrame(c)
  PROVE  /\ Good(Answered(c, "refused"), upstream)
         /\ conn' = [conn EXCEPT ![c] = Answered(c, "refused")]
         /\ Answered(c, "refused").handler = conn[c].handler
         /\ Answered(c, "refused").pc = "reply"
<1>1. conn[c].pc \in {"packument", "tarball", "reading"}
  BY DEF NotApproved, NoFrame, At
<1>2. conn[c].did = {} /\ conn[c].pc # "none" /\ conn[c].handler
  BY <1>1 DEF ConnInv, Good, Accounted, Placed, Waiting
<1>3. Truthful(conn[c].request, conn[c].did, "refused")
  BY <1>2, NothingDone
<1>4. conn' = [conn EXCEPT ![c] = Answered(c, "refused")]
  BY DEF NotApproved, NoFrame
<1> QED
  BY <1>2, <1>3, <1>4, AnsweredGood

LEMMA QueryGood ==
  ASSUME TypeOK, ConnInv, NEW c \in Client, Query(c)
  PROVE  \E k : /\ Good(k, upstream) /\ conn' = [conn EXCEPT ![c] = k]
                /\ k.handler = conn[c].handler /\ k.pc = "reply"
<1>1. PICK answer \in {"done", "refused", "internal"} :
        conn' = [conn EXCEPT ![c] = Answered(c, answer)]
  BY DEF Query
<1>2. conn[c].pc = "query"
  BY DEF Query, At
<1>3. conn[c].did = {} /\ conn[c].pc # "none" /\ conn[c].handler /\ conn[c].request.op = "report"
  BY <1>2 DEF ConnInv, Good, Accounted, Placed, Waiting
<1>4. Truthful(conn[c].request, conn[c].did, answer)
  BY <1>3, NothingDone DEF Writes
<1> QED
  BY <1>1, <1>3, <1>4, AnsweredGood

(* The last entry of a seed is behind it.                                   *)
LEMMA SeedDoneGood ==
  ASSUME TypeOK, ConnInv, NEW c \in Client, SeedDone(c)
  PROVE  \E k : /\ Good(k, upstream) /\ conn' = [conn EXCEPT ![c] = k]
                /\ k.handler = conn[c].handler /\ k.pc = "reply"
<1> DEFINE h == conn[c]
<1>1. h.pc = "verify" /\ h.todo = <<>> /\ h \in Connection
  BY DEF SeedDone, At, TypeOK
<1>2. h.pc # "none" /\ h.handler /\ h.request \in Asked /\ h.request.op = "seed" /\ SeedSoFar(h)
  BY <1>1 DEF ConnInv, Good, Accounted, Placed, Waiting
<1>3. Behind(h) = Len(h.request.entries) /\ h.request.entries \in Seq(Entry)
  BY <1>1, <1>2, RequestParts, EmptySeq DEF Behind
<1>4. CarriedOut(h.request, h.did)
  <2> HIDE DEF h
  <2>1. CASE h.request.dry
    BY <1>2, <2>1 DEF CarriedOut, SeedSoFar
  <2>2. CASE ~h.request.dry
    <3>1. \A i \in DOMAIN h.request.entries : i \in 1..Behind(h)
      BY <1>3
    <3>2. \A i \in DOMAIN h.request.entries : Settled(h.request.entries[i].rel, h.did)
      BY <1>2, <2>2, <3>1 DEF SeedSoFar
    <3> QED
      BY <1>2, <2>2, <3>2 DEF CarriedOut, Settled
  <2> QED
    BY <2>1, <2>2
<1>5. Truthful(h.request, h.did, "done")
  BY <1>4 DEF Truthful
<1>6. conn' = [conn EXCEPT ![c] = Answered(c, "done")]
  BY DEF SeedDone
<1> QED
  BY <1>2, <1>5, <1>6, AnsweredGood

LEMMA RefuseGood ==
  ASSUME TypeOK, ConnInv, NEW c \in Client, Refuse(c)
  PROVE  \E k : /\ Good(k, upstream) /\ conn' = [conn EXCEPT ![c] = k]
                /\ k.handler = conn[c].handler
<1>1. ~conn[c].handler /\ conn[c] \in Connection
  BY DEF Refuse, At, ConnInv, Good, Placed
<1>2. Good(Closed(c, "busy"), upstream) /\ ~Closed(c, "busy").handler
  BY <1>1, ClosedGood
<1>3. Closed(c, "busy").handler = conn[c].handler
  BY <1>1, <1>2 DEF Good, Connection
<1> QED
  BY <1>2, <1>3 DEF Refuse

LEMMA ReplyGood ==
  ASSUME TypeOK, ConnInv, NEW c \in Client, Reply(c)
  PROVE  \E k : /\ Good(k, upstream) /\ conn' = [conn EXCEPT ![c] = k]
                /\ ~k.handler /\ conn[c].handler
<1>1. conn[c].handler /\ conn[c] \in Connection
  BY DEF Reply, At, ConnInv, Good, Placed, Waiting
<1>2. conn[c].answer \in {"done", "refused", "internal", "busy", "io", "no_answer", "timeout", None}
  BY <1>1 DEF Connection
<1>3. Good(Closed(c, conn[c].answer), upstream) /\ ~Closed(c, conn[c].answer).handler
  BY <1>1, <1>2, ClosedGood
<1> QED
  BY <1>1, <1>3 DEF Reply

LEMMA NewSeed ==
  ASSUME NEW k \in Connection, k.request \in Asked, k.todo = k.request.entries,
         k.did = {}, k.pc # "row"
  PROVE  SeedSoFar(k)
<1>1. Len(k.todo) \in Nat
  BY RequestParts, LenProperties
<1>2. Behind(k) = 0
  BY <1>1 DEF Behind
<1> QED
  BY <1>1, <1>2 DEF SeedSoFar

(* A request that is accepted starts at the first step of its operation.    *)
LEMMA ReadFrameGood ==
  ASSUME TypeOK, ConnInv, NEW c \in Client, ReadFrame(c)
  PROVE  \E k : /\ Good(k, upstream) /\ conn' = [conn EXCEPT ![c] = k]
                /\ k.handler = conn[c].handler /\ k.pc # "none"
<1> DEFINE h == conn[c]
           request == h.request
<1>0. h \in Connection /\ Good(h, upstream) /\ h.pc = "reading" /\ h.sent
  BY DEF TypeOK, ConnInv, ReadFrame, At
<1>1. /\ h.did = {} /\ h.handler /\ request \in Asked /\ request.op # "silent"
      /\ request \in Request
  BY <1>0, RequestParts DEF Good, Accounted, Placed, Waiting
<1>2. CASE ~Valid(request)
  <2>1. conn' = [conn EXCEPT ![c] = Answered(c, "refused")]
    BY <1>0, <1>2 DEF ReadFrame, TypeOK
  <2>2. Truthful(request, h.did, "refused")
    BY <1>1, NothingDone
  <2> QED
    BY <1>0, <1>1, <2>1, <2>2, AnsweredGood
<1>3. CASE Valid(request)
  <2>1. request.op \in {"allow", "deny", "seed", "report"}
    BY <1>1, <1>3 DEF Valid, Request, Ops
  <2> DEFINE write == IF request.op = "deny"
                      THEN [rel |-> request.rel, rule |-> DenyRule, pins |-> None]
                      ELSE NoWrite
  <2>2. PICK k : k = [h EXCEPT !.pc = FirstStep(request), !.todo = request.entries,
                               !.write = write]
    OBVIOUS
  <2>3. conn' = [conn EXCEPT ![c] = k]
    BY <1>0, <1>3, <2>2 DEF ReadFrame, TypeOK
  <2>4. /\ write \in Write
        /\ request.op = "deny" =>
             write.rel = request.rel /\ write.rel \in Release
             /\ write.rule = DenyRule /\ write.rule \in Rule
    BY <1>1, RequestParts, DenyRuleType DEF Write, NoWrite, Request
  <2>5. /\ FirstStep(request) = IF request.op = "allow" THEN "packument"
                                ELSE IF request.op = "deny" THEN "record"
                                ELSE IF request.op = "seed" THEN "verify" ELSE "query"
    BY <2>1 DEF FirstStep
  <2>6. /\ k \in Connection
        /\ k.pc = FirstStep(request) /\ k.request = request /\ k.since = h.since
        /\ k.waits = h.waits /\ k.handler = h.handler /\ k.did = {} /\ k.memo = h.memo
        /\ k.heard = h.heard /\ k.sent = h.sent /\ k.todo = request.entries /\ k.write = write
    <3>1. request.entries \in Seq(Entry)
      BY <1>1, RequestParts
    <3> HIDE DEF write
    <3> QED
      BY <1>0, <1>1, <2>1, <2>2, <2>4, <2>5, <3>1 DEF Connection
  <2>7. request.pin # "none" => request.op = "allow"
    BY <1>1, RequestParts
  <2>8. DenyRule.verdict # "allow"
    BY DEF DenyRule
  <2> HIDE DEF h, request, write
  <2>9. Placed(k)
    BY <1>0, <1>1, <2>1, <2>5, <2>6 DEF Good, Placed, Waiting, Pooled
  <2>10. Addressed(k)
    BY <2>1, <2>4, <2>5, <2>6 DEF Addressed
  <2>11. Accounted(k)
    <3>1. request.op = "seed" => SeedSoFar(k)
      BY <1>1, <2>5, <2>6, NewSeed
    <3> QED
      BY <2>1, <2>5, <2>6, <3>1 DEF Accounted
  <2>12. Grounded(k, upstream)
    BY <1>0, <2>1, <2>4, <2>5, <2>6, <2>7, <2>8 DEF Good, Grounded
  <2>13. k.pc # "none"
    BY <2>1, <2>5, <2>6
  <2> QED
    BY <2>3, <2>6, <2>9, <2>10, <2>11, <2>12, <2>13, Zenon DEF Good, h
<1> QED
  BY <1>2, <1>3

(* The approval is made from what is served now.                            *)
LEMMA ReadPackumentGood ==
  ASSUME TypeOK, ConnInv, NEW c \in Client, ReadPackument(c)
  PROVE  \E k : /\ Good(k, upstream) /\ conn' = [conn EXCEPT ![c] = k]
                /\ k.handler = conn[c].handler /\ k.pc # "none"
<1> DEFINE h == conn[c]
           request == h.request
           item == Published[upstream][request.rel]
           write == [rel |-> request.rel, rule |-> AllowRule(item.meta), pins |-> None]
           pc == IF request.pin = "none" THEN "record" ELSE "tarball"
<1>0. h \in Connection /\ Good(h, upstream) /\ h.pc = "packument"
  BY DEF TypeOK, ConnInv, ReadPackument, At
<1>1. /\ h.did = {} /\ h.handler /\ request \in Asked /\ request.op = "allow"
      /\ request.rel \in Release
  BY <1>0, RequestParts DEF Good, Accounted, Placed, Waiting
<1>2. upstream \in 1..Len(Published) /\ upstream \in Nat
  BY LenPublished DEF TypeOK
<1>3. item # None /\ AllowRule(item.meta) \in Rule
  BY <1>1, <1>2, ItemParts DEF ReadPackument
<1>4. /\ write \in Write /\ write.rel = request.rel
      /\ write.rule = AllowRule(item.meta)
  BY <1>1, <1>3 DEF Write
<1>5. PICK k : k = [h EXCEPT !.pc = pc, !.write = write]
  OBVIOUS
<1>6. conn' = [conn EXCEPT ![c] = k]
  BY <1>0, <1>5 DEF ReadPackument, TypeOK, Connection
<1>7. h.since \in 1..upstream /\ upstream \in h.since..upstream
  BY <1>0, <1>2 DEF Good, Grounded
<1> HIDE DEF write
<1>8. /\ k \in Connection
      /\ k.pc = pc /\ k.request = request /\ k.since = h.since
      /\ k.waits = h.waits /\ k.handler = h.handler /\ k.did = {} /\ k.memo = h.memo
      /\ k.heard = h.heard /\ k.sent = h.sent /\ k.todo = h.todo /\ k.write = write
  BY <1>0, <1>1, <1>4, <1>5 DEF Connection
<1>9. Approved(request.rel, write.rule, h.since, upstream)
  BY <1>3, <1>4, <1>7 DEF Approved
<1> HIDE DEF h, request, item
<1>10. Placed(k)
  BY <1>0, <1>1, <1>8 DEF Good, Placed, Waiting, Pooled
<1>11. Addressed(k)
  BY <1>1, <1>3, <1>4, <1>8 DEF Addressed
<1>12. Accounted(k)
  BY <1>1, <1>8 DEF Accounted
<1>13. Grounded(k, upstream)
  BY <1>0, <1>4, <1>8, <1>9 DEF Good, Grounded
<1> QED
  BY <1>6, <1>8, <1>10, <1>11, <1>12, <1>13, Zenon DEF Good, h

(* The bytes that are pinned were served, and are those the caller names.   *)
LEMMA ScanTarballGood ==
  ASSUME TypeOK, ConnInv, NEW c \in Client, ScanTarball(c)
  PROVE  \E k : /\ Good(k, upstream) /\ conn' = [conn EXCEPT ![c] = k]
                /\ k.handler = conn[c].handler /\ k.pc # "none"
<1> DEFINE h == conn[c]
           request == h.request
           item == Published[upstream][request.rel]
<1>0. h \in Connection /\ Good(h, upstream) /\ h.pc = "tarball"
  BY DEF TypeOK, ConnInv, ScanTarball, At
<1>1. /\ h.did = {} /\ h.handler /\ request \in Asked /\ request.op = "allow"
      /\ request.rel \in Release /\ h.write \in Write
      /\ h.write.rel = request.rel /\ h.write.rule \in Rule
  BY <1>0, RequestParts DEF Good, Accounted, Placed, Waiting, Addressed, Connection
<1>2. upstream \in 1..Len(Published) /\ upstream \in Nat
  BY LenPublished DEF TypeOK
<1>3. /\ item # None /\ item.bytes \in Hash
      /\ ResolvedPin(request, item.bytes) = item.bytes
      /\ request.pin \in {"named", item.bytes}
  BY <1>1, <1>2, ItemParts DEF ScanTarball, ResolvedPin
<1>4. PICK w : w = [h.write EXCEPT !.pins = item.bytes]
  OBVIOUS
<1>5. w \in Write /\ w.rel = request.rel /\ w.rule = h.write.rule /\ w.pins = item.bytes
  BY <1>1, <1>3, <1>4 DEF Write
<1>6. PICK k : k = [h EXCEPT !.pc = "record", !.write = w]
  OBVIOUS
<1>7. conn' = [conn EXCEPT ![c] = k]
  BY <1>0, <1>1, <1>3, <1>4, <1>6 DEF ScanTarball, TypeOK, Connection
<1>8. h.since \in 1..upstream /\ upstream \in h.since..upstream
  BY <1>0, <1>2 DEF Good, Grounded
<1>9. /\ k \in Connection
      /\ k.pc = "record" /\ k.request = request /\ k.since = h.since
      /\ k.waits = h.waits /\ k.handler = h.handler /\ k.did = {} /\ k.memo = h.memo
      /\ k.heard = h.heard /\ k.sent = h.sent /\ k.todo = h.todo /\ k.write = w
  BY <1>0, <1>1, <1>5, <1>6 DEF Connection
<1>r. h.request = request
  OBVIOUS
<1>10. Computed(request.rel, request.pin, w.pins, h.since, upstream)
  BY <1>3, <1>5, <1>8 DEF Computed
<1> HIDE DEF h, request, item
<1>11. Placed(k)
  BY <1>0, <1>1, <1>9 DEF Good, Placed, Waiting, Pooled
<1>12. Addressed(k)
  BY <1>1, <1>5, <1>9 DEF Addressed
<1>13. Accounted(k)
  BY <1>1, <1>9 DEF Accounted
<1>14. Grounded(k, upstream)
  <2>1. w.rule.verdict = "allow" /\ ~request.offline =>
          Approved(w.rel, w.rule, k.since, upstream)
    BY <1>0, <1>1, <1>5, <1>9, <1>r DEF Good, Grounded
  <2> QED
    BY <1>0, <1>5, <1>9, <1>10, <2>1 DEF Good, Grounded
<1> QED
  BY <1>7, <1>9, <1>11, <1>12, <1>13, <1>14, Zenon DEF Good, h

-----------------------------------------------------------------------------
(* A seed.                                                                  *)

(* The next entry of a seed is an entry of its request.                     *)
LEMMA NextEntry ==
  ASSUME NEW k \in Connection, k.todo # <<>>
  PROVE  /\ Head(k.todo) \in Entry /\ Head(k.todo) = k.todo[1] /\ 1 \in DOMAIN k.todo
         /\ Head(k.todo).rel \in Release /\ Head(k.todo).rel[1] \in Package
         /\ Tail(k.todo) \in Seq(Entry) /\ Len(Tail(k.todo)) = Len(k.todo) - 1
         /\ DOMAIN Tail(k.todo) = 1..(Len(k.todo) - 1)
         /\ \A j \in DOMAIN Tail(k.todo) : j + 1 \in DOMAIN k.todo /\ Tail(k.todo)[j] = k.todo[j + 1]
         /\ Len(k.todo) \in Nat \ {0}
<1>1. k.todo \in Seq(Entry)
  BY DEF Connection
<1>2. Len(k.todo) \in Nat \ {0} /\ Head(k.todo) = k.todo[1]
  BY <1>1, EmptySeq
<1>3. k.todo[1] \in Entry /\ 1 \in DOMAIN k.todo
  BY <1>1, <1>2
<1>4. k.todo[1].rel \in Release
  BY <1>3 DEF Entry
<1> QED
  BY <1>1, <1>2, <1>3, <1>4, ReleaseParts

LEMMA SeedMovesOn ==
  ASSUME NEW h \in Connection, NEW k \in Connection,
         h.request \in Asked, SeedSoFar(h), h.todo # <<>>,
         h.pc = "row" => h.write.rel = Head(h.todo).rel,
         k.request = h.request, k.todo = Tail(h.todo), k.pc # "row",
         h.did \subseteq k.did,
         ~h.request.dry => Settled(Head(h.todo).rel, k.did),
         h.request.dry => \A what \in k.did : what[1] = "refusal",
         \A what \in k.did : what \in h.did \/ what[2] = Head(h.todo).rel
  PROVE  SeedSoFar(k)
<1> DEFINE n == Behind(h)
           entries == h.request.entries
<1>1. n \in Nat /\ Behind(k) = n + 1
  <2>1. Len(h.todo) \in Nat \ {0} /\ Len(k.todo) = Len(h.todo) - 1
    BY NextEntry
  <2>2. Len(entries) \in Nat
    BY RequestParts
  <2>3. n \in Nat
    BY DEF SeedSoFar
  <2>4. n = Len(entries) - Len(h.todo) /\ Behind(k) = Len(entries) - Len(k.todo)
    BY DEF Behind
  <2> HIDE DEF n, entries
  <2> QED
    BY <2>1, <2>2, <2>3, <2>4
<1>2. entries[n + 1] = Head(h.todo)
  BY NextEntry DEF SeedSoFar
<1>3. ASSUME NEW j \in DOMAIN k.todo
      PROVE  k.todo[j] = k.request.entries[Behind(k) + j]
  <2>1. j + 1 \in DOMAIN h.todo /\ k.todo[j] = h.todo[j + 1] /\ j \in Int
    BY NextEntry
  <2>2. h.todo[j + 1] = entries[n + (j + 1)]
    BY <2>1 DEF SeedSoFar
  <2>3. n + (j + 1) = Behind(k) + j
    BY <1>1, <2>1
  <2> QED
    BY <2>1, <2>2, <2>3
<1>4. ASSUME ~k.request.dry, NEW i \in 1..Behind(k)
      PROVE  Settled(k.request.entries[i].rel, k.did)
  <2>1. CASE i = n + 1
    BY <1>2, <1>4, <2>1
  <2>2. CASE i # n + 1
    <3>1. i \in 1..n
      BY <1>1, <2>2
    <3> QED
      BY <1>4, <3>1 DEF SeedSoFar, Settled
  <2> QED
    BY <2>1, <2>2
<1>5. ASSUME NEW what \in k.did
      PROVE  \E i \in 1..Behind(k) : what[2] = k.request.entries[i].rel
  <2>1. CASE what[2] = Head(h.todo).rel
    BY <1>1, <1>2, <2>1
  <2>2. CASE what \in h.did /\ what[2] # Head(h.todo).rel
    <3>1. PICK i \in 1..n : what[2] = entries[i].rel
      BY <2>2 DEF SeedSoFar
    <3>2. i \in 1..Behind(k)
      BY <1>1, <3>1
    <3> QED
      BY <3>1, <3>2
  <2> QED
    BY <1>5, <2>1, <2>2
<1> QED
  BY <1>1, <1>3, <1>4, <1>5 DEF SeedSoFar

LEMMA SeedStays ==
  ASSUME NEW h, NEW k, SeedSoFar(h), h.pc # "row", k.pc # "row",
         k.request = h.request, k.todo = h.todo, k.did = h.did
  PROVE  SeedSoFar(k)
BY DEF SeedSoFar, Behind

(* The packuments a seed has fetched are as old as its connection.          *)
Recent(memo, since, now) ==
  /\ memo \in [Package -> {Unfetched, FetchFailed} \cup 1..Len(Published)]
  /\ \A pkg \in Package : memo[pkg] \in {Unfetched, FetchFailed} \cup since..now

(* A confirmed entry says what the registry served of its release.          *)
LEMMA FetchRecent ==
  ASSUME TypeOK, ConnInv, NEW c \in Client, conn[c].pc # "none", NEW pkg \in Package,
         NEW state \in Fetches(c, pkg)
  PROVE  /\ state \in {Unfetched, FetchFailed} \cup conn[c].since..upstream
         /\ state > 0 => state \in conn[c].since..upstream
         /\ Recent([conn[c].memo EXCEPT ![pkg] = state], conn[c].since, upstream)
<1> DEFINE h == conn[c]
<1>1. /\ h.since \in 1..upstream /\ upstream \in 1..Len(Published) /\ upstream \in Nat
      /\ Recent(h.memo, h.since, upstream)
  BY LenPublished DEF TypeOK, ConnInv, Good, Grounded, Connection, Recent
<1>2. state \in {Unfetched, FetchFailed} \cup h.since..upstream
  BY <1>1 DEF Fetches, Recent
<1>3. h.since..upstream \subseteq 1..Len(Published)
  BY <1>1, LenPublished
<1> HIDE DEF h
<1>4. Recent([h.memo EXCEPT ![pkg] = state], h.since, upstream)
  BY <1>1, <1>2, <1>3 DEF Recent
<1>5. state > 0 => state \in h.since..upstream
  BY <1>2 DEF Unfetched, FetchFailed
<1> QED
  BY <1>2, <1>4, <1>5 DEF h

LEMMA ConfirmedApproved ==
  ASSUME NEW entry \in Entry, NEW since \in Nat, NEW now \in Nat, NEW state,
         state > 0 => state \in since..now, Confirmed(entry, state)
  PROVE  Approved(entry.rel, SeedRule(entry), since, now)
BY DEF Confirmed, Approved, SeedRule, AllowRule

(* What follows the verification of an entry.                               *)
LEMMA AfterVerifiedGood ==
  ASSUME TypeOK, ConnInv, NEW c \in Client, conn[c].pc = "verify", conn[c].todo # <<>>,
         NEW memo, Recent(memo, conn[c].since, upstream),
         NEW entry, entry = Head(conn[c].todo),
         \/ conn[c].request.offline
         \/ Approved(entry.rel, SeedRule(entry), conn[c].since, upstream)
  PROVE  /\ Good([AfterVerified(c, entry) EXCEPT !.memo = memo], upstream)
         /\ [AfterVerified(c, entry) EXCEPT !.memo = memo].handler = conn[c].handler
         /\ [AfterVerified(c, entry) EXCEPT !.memo = memo].pc # "none"
<1> DEFINE h == conn[c]
<1>0. h \in Connection /\ Good(h, upstream) /\ h.pc = "verify" /\ h.todo # <<>>
  BY DEF TypeOK, ConnInv
<1>1. /\ h.handler /\ h.request \in Asked /\ h.request.op = "seed" /\ SeedSoFar(h)
      /\ h.request.pin = "none"
  BY <1>0, RequestParts DEF Good, Accounted, Placed, Waiting
<1>2. entry \in Entry /\ entry.rel \in Release /\ Tail(h.todo) \in Seq(Entry)
  BY <1>0, NextEntry
<1>3. CASE h.request.dry
  <2>1. PICK k : k = [AfterVerified(c, entry) EXCEPT !.memo = memo]
    OBVIOUS
  <2>2. /\ k \in Connection
        /\ k.pc = "verify" /\ k.request = h.request /\ k.since = h.since
        /\ k.waits = h.waits /\ k.handler = h.handler /\ k.did = h.did /\ k.memo = memo
        /\ k.heard = h.heard /\ k.sent = h.sent /\ k.todo = Tail(h.todo)
    BY <1>0, <1>2, <1>3, <2>1 DEF AfterVerified, Connection, Recent
  <2> HIDE DEF h
  <2>3. SeedSoFar(k)
    <3>1. \A what \in k.did : what[1] = "refusal"
      BY <1>1, <1>3, <2>2 DEF SeedSoFar
    <3> QED
      BY <1>0, <1>1, <1>3, <2>2, <3>1, SeedMovesOn
  <2>4. Placed(k)
    BY <1>0, <1>1, <2>2 DEF Good, Placed, Waiting, Pooled
  <2>5. Addressed(k) /\ Accounted(k)
    BY <2>2, <2>3 DEF Addressed, Accounted
  <2>6. Grounded(k, upstream)
    BY <1>0, <2>2 DEF Good, Grounded, Recent, h
  <2> QED
    BY <2>1, <2>2, <2>4, <2>5, <2>6 DEF Good, h
<1>4. CASE ~h.request.dry
  <2> DEFINE write == [rel |-> entry.rel, rule |-> SeedRule(entry), pins |-> None]
  <2>1. PICK k : k = [AfterVerified(c, entry) EXCEPT !.memo = memo]
    OBVIOUS
  <2>2. write \in Write /\ SeedRule(entry) \in Rule
    BY <1>2 DEF Write, SeedRule, Rule, Entry
  <2>3. /\ k \in Connection
        /\ k.pc = "record" /\ k.request = h.request /\ k.since = h.since
        /\ k.waits = h.waits /\ k.handler = h.handler /\ k.did = h.did /\ k.memo = memo
        /\ k.heard = h.heard /\ k.sent = h.sent /\ k.todo = h.todo /\ k.write = write
    BY <1>0, <1>2, <1>4, <2>1, <2>2 DEF AfterVerified, Connection, Recent
  <2>4. write.rel = entry.rel /\ write.rule = SeedRule(entry)
    OBVIOUS
  <2> HIDE DEF write
  <2>5. SeedSoFar(k)
    BY <1>0, <1>1, <2>3, SeedStays
  <2>6. Placed(k)
    BY <1>0, <1>1, <2>3 DEF Good, Placed, Waiting, Pooled
  <2>7. Addressed(k)
    BY <1>0, <1>1, <1>2, <1>4, <2>2, <2>3, <2>4 DEF Addressed
  <2>8. Accounted(k)
    BY <1>1, <2>3, <2>5 DEF Accounted
  <2>9. Grounded(k, upstream)
    BY <1>0, <1>1, <2>3, <2>4 DEF Good, Grounded, Recent
  <2> QED
    BY <2>1, <2>3, <2>6, <2>7, <2>8, <2>9 DEF Good
<1> QED
  BY <1>3, <1>4

LEMMA VerifyOfflineGood ==
  ASSUME TypeOK, ConnInv, NEW c \in Client, VerifyOffline(c)
  PROVE  \E k : /\ Good(k, upstream) /\ conn' = [conn EXCEPT ![c] = k]
                /\ k.handler = conn[c].handler /\ k.pc # "none"
<1> DEFINE h == conn[c]
           entry == Head(h.todo)
<1>0. /\ h \in Connection /\ Good(h, upstream) /\ h.pc = "verify" /\ h.todo # <<>>
      /\ h.request.offline
  BY DEF TypeOK, ConnInv, VerifyOffline, At
<1>1. Recent(h.memo, h.since, upstream)
  BY <1>0 DEF Good, Grounded, Connection, Recent
<1>2. PICK k : k = [AfterVerified(c, entry) EXCEPT !.memo = h.memo]
  OBVIOUS
<1>3. Good(k, upstream) /\ k.handler = h.handler /\ k.pc # "none"
  BY <1>0, <1>1, <1>2, AfterVerifiedGood
<1>4. k = AfterVerified(c, entry)
  BY <1>0, <1>2 DEF AfterVerified, Connection
<1>5. conn' = [conn EXCEPT ![c] = k]
  BY <1>4 DEF VerifyOffline
<1> QED
  BY <1>3, <1>5

LEMMA VerifyGood ==
  ASSUME TypeOK, ConnInv, NEW c \in Client, Verify(c)
  PROVE  \E k : /\ Good(k, upstream) /\ conn' = [conn EXCEPT ![c] = k]
                /\ k.handler = conn[c].handler /\ k.pc # "none"
<1> DEFINE h == conn[c]
           entry == Head(h.todo)
           pkg == entry.rel[1]
<1>0. h \in Connection /\ Good(h, upstream) /\ h.pc = "verify" /\ h.todo # <<>>
  BY DEF TypeOK, ConnInv, Verify, At
<1>1. entry \in Entry /\ pkg \in Package
  BY <1>0, NextEntry
<1>2. PICK state \in Fetches(c, pkg) :
        conn' = [conn EXCEPT ![c] =
          [(IF Confirmed(entry, state) THEN AfterVerified(c, entry) ELSE [h EXCEPT !.pc = "refuse"])
             EXCEPT !.memo[pkg] = state]]
  BY DEF Verify
<1>3. PICK memo : memo = [h.memo EXCEPT ![pkg] = state]
  OBVIOUS
<1>4. Recent(memo, h.since, upstream) /\ (state > 0 => state \in h.since..upstream)
  BY <1>0, <1>1, <1>3, FetchRecent
<1>5. CASE Confirmed(entry, state)
  <2>1. PICK k : k = [AfterVerified(c, entry) EXCEPT !.memo = memo]
    OBVIOUS
  <2>2. Approved(entry.rel, SeedRule(entry), h.since, upstream)
    <3>1. h.since \in Nat /\ upstream \in Nat
      BY <1>0, LenPublished DEF Connection, TypeOK
    <3> QED
      BY <1>1, <1>4, <1>5, <3>1, ConfirmedApproved
  <2>3. Good(k, upstream) /\ k.handler = h.handler /\ k.pc # "none"
    BY <1>0, <1>4, <2>1, <2>2, AfterVerifiedGood
  <2>4. [AfterVerified(c, entry) EXCEPT !.memo[pkg] = state] = k
    BY <1>0, <1>3, <2>1 DEF AfterVerified, Connection
  <2>5. conn' = [conn EXCEPT ![c] = k]
    BY <1>2, <1>5, <2>4
  <2> QED
    BY <2>3, <2>5
<1>6. CASE ~Confirmed(entry, state)
  <2>1. PICK k : k = [h EXCEPT !.pc = "refuse", !.memo = memo]
    OBVIOUS
  <2>2. conn' = [conn EXCEPT ![c] = k]
    BY <1>0, <1>2, <1>3, <1>6, <2>1 DEF Connection
  <2>3. /\ k \in Connection
        /\ k.pc = "refuse" /\ k.request = h.request /\ k.since = h.since
        /\ k.waits = h.waits /\ k.handler = h.handler /\ k.did = h.did /\ k.memo = memo
        /\ k.heard = h.heard /\ k.sent = h.sent /\ k.todo = h.todo
    BY <1>0, <1>4, <2>1 DEF Connection, Recent
  <2>4. h.request.op = "seed" /\ SeedSoFar(h) /\ h.handler
    BY <1>0 DEF Good, Accounted, Placed, Waiting
  <2> HIDE DEF h
  <2>5. SeedSoFar(k)
    BY <1>0, <2>3, <2>4, SeedStays
  <2>6. Placed(k)
    BY <1>0, <2>3, <2>4 DEF Good, Placed, Waiting, Pooled
  <2>7. Addressed(k) /\ Accounted(k)
    BY <1>0, <2>3, <2>4, <2>5 DEF Addressed, Accounted
  <2>8. Grounded(k, upstream)
    BY <1>0, <1>4, <2>3 DEF Good, Grounded, Recent
  <2> QED
    BY <2>2, <2>3, <2>6, <2>7, <2>8, Zenon DEF Good, h
<1> QED
  BY <1>5, <1>6

-----------------------------------------------------------------------------
(* The blocking pool.                                                       *)

(* The rule is on record; its audit row is next.                            *)
LEMMA RecordWriteGood ==
  ASSUME TypeOK, ConnInv, NEW c \in Client, RecordWrite(c)
  PROVE  /\ \E k : /\ Good(k, upstream) /\ conn' = [conn EXCEPT ![c] = k]
                   /\ k.handler = conn[c].handler /\ k.pc # "none"
         /\ conn[c].write \in Write
         /\ conn[c].write.rel \in Release /\ conn[c].write.rule \in Rule
<1> DEFINE h == conn[c]
           rel == h.write.rel
<1>0. h \in Connection /\ Good(h, upstream) /\ h.pc = "record"
  BY DEF TypeOK, ConnInv, RecordWrite, At
<1>1. rel \in Release /\ h.write.rule \in Rule /\ h.write \in Write
  BY <1>0 DEF Good, Addressed, Connection
<1>2. PICK k : k = [h EXCEPT !.did = @ \cup {<<"rule", rel>>}, !.pc = "row"]
  OBVIOUS
<1>3. conn' = [conn EXCEPT ![c] = k]
  BY <1>0, <1>2 DEF RecordWrite, Did, Connection
<1>4. /\ k \in Connection
      /\ k.pc = "row" /\ k.request = h.request /\ k.since = h.since
      /\ k.waits = h.waits /\ k.handler = h.handler
      /\ k.did = h.did \cup {<<"rule", rel>>} /\ k.memo = h.memo
      /\ k.heard = h.heard /\ k.sent = h.sent /\ k.todo = h.todo /\ k.write = h.write
  <2>1. h.did \cup {<<"rule", rel>>} \in SUBSET ({"rule", "row", "refusal"} \X Release)
    BY <1>0, <1>1 DEF Connection
  <2> QED
    BY <1>0, <1>2, <2>1 DEF Connection
<1>5. rel = k.write.rel
  BY <1>4
<1> HIDE DEF h, rel
<1>6. Placed(k)
  BY <1>0, <1>4 DEF Good, Placed, Waiting, Pooled
<1>7. Addressed(k)
  BY <1>0, <1>4 DEF Good, Addressed
<1>8. ASSUME k.request.op = "seed"
      PROVE  SeedSoFar(k)
  <2>1. SeedSoFar(h) /\ ~h.request.dry
    BY <1>0, <1>4, <1>8 DEF Good, Accounted, Addressed
  <2>2. Behind(k) = Behind(h)
    BY <1>4 DEF Behind
  <2>3. \A what \in k.did : what \in h.did \/ what = <<"rule", k.write.rel>>
    BY <1>4, <1>5
  <2>4. /\ \A what \in k.did :
             \/ \E i \in 1..Behind(k) : what[2] = k.request.entries[i].rel
             \/ k.pc = "row" /\ what = <<"rule", k.write.rel>>
    BY <1>0, <1>4, <2>1, <2>2, <2>3 DEF SeedSoFar
  <2>5. ~k.request.dry => \A i \in 1..Behind(k) : Settled(k.request.entries[i].rel, k.did)
    BY <1>4, <2>1, <2>2 DEF SeedSoFar, Settled
  <2>6. <<"rule", k.write.rel>> \in k.did
    BY <1>4, <1>5
  <2> QED
    BY <1>4, <2>1, <2>2, <2>4, <2>5, <2>6 DEF SeedSoFar
<1>9. Accounted(k)
  BY <1>0, <1>4, <1>5, <1>8 DEF Good, Accounted
<1>10. Grounded(k, upstream)
  BY <1>0, <1>4 DEF Good, Grounded
<1> QED
  BY <1>1, <1>3, <1>4, <1>6, <1>7, <1>9, <1>10 DEF Good, h, rel

(* A finished task leaves its connection to a handler, or to nobody.        *)
LEMMA ResumedGood ==
  ASSUME TypeOK, ConnInv, NEW c \in Client, conn[c].pc \in {"row", "refuse"},
         NEW did \in SUBSET ({"rule", "row", "refusal"} \X Release), conn[c].did \subseteq did,
         conn[c].request.op # "seed" => CarriedOut(conn[c].request, did),
         conn[c].request.op = "seed" =>
           /\ ~conn[c].request.dry => Settled(Head(conn[c].todo).rel, did)
           /\ conn[c].request.dry => \A what \in did : what[1] = "refusal"
           /\ \A what \in did : what \in conn[c].did \/ what[2] = Head(conn[c].todo).rel,
         NEW done, done = [conn[c] EXCEPT !.did = did]
  PROVE  /\ Good(Resumed(c, done), upstream)
         /\ Resumed(c, done).handler = conn[c].handler
         /\ conn[c].handler => Resumed(c, done).pc # "none"
<1> DEFINE h == conn[c]
<1>0. h \in Connection /\ Good(h, upstream) /\ h.pc \in {"row", "refuse"}
  BY DEF TypeOK, ConnInv
<1>1. /\ h.request \in Asked
      /\ h.request.op = "seed" =>
           /\ SeedSoFar(h) /\ h.todo # <<>>
           /\ h.pc = "row" => h.write.rel = Head(h.todo).rel
  BY <1>0 DEF Good, Placed, Accounted, Addressed
<1>2. /\ done \in Connection
      /\ done.pc = h.pc /\ done.request = h.request /\ done.since = h.since
      /\ done.waits = h.waits /\ done.handler = h.handler /\ done.did = did
      /\ done.memo = h.memo /\ done.heard = h.heard /\ done.sent = h.sent
      /\ done.todo = h.todo
  BY <1>0 DEF Connection
<1>3. CASE ~h.handler
  <2>1. Resumed(c, done) = Closed(c, None)
    BY <1>2, <1>3 DEF Resumed
  <2>2. Good(Closed(c, None), upstream) /\ ~Closed(c, None).handler
    BY <1>0, ClosedGood
  <2>3. Closed(c, None).handler = h.handler
    BY <1>0, <1>3, <2>2 DEF Good, Connection
  <2> QED
    BY <1>3, <2>1, <2>2, <2>3
<1>4. CASE h.handler /\ h.request.op = "seed"
  <2>1. PICK k : k = [done EXCEPT !.pc = "verify", !.todo = Tail(@), !.write = NoWrite]
    OBVIOUS
  <2>2. k = Resumed(c, done)
    BY <1>2, <1>4, <2>1 DEF Resumed
  <2>3. NoWrite \in Write /\ Tail(h.todo) \in Seq(Entry)
    BY <1>0, <1>1, <1>4, NextEntry DEF NoWrite, Write
  <2>4. /\ k \in Connection
        /\ k.pc = "verify" /\ k.request = h.request /\ k.since = h.since
        /\ k.waits = h.waits /\ k.handler = h.handler /\ k.did = did
        /\ k.memo = h.memo /\ k.heard = h.heard /\ k.sent = h.sent
        /\ k.todo = Tail(h.todo)
    BY <1>2, <2>1, <2>3 DEF Connection
  <2>5. SeedSoFar(k)
    BY <1>0, <1>1, <1>4, <2>4, SeedMovesOn
  <2> HIDE DEF h
  <2>6. Placed(k)
    BY <1>0, <1>1, <1>4, <2>4 DEF Good, Placed, Waiting, Pooled
  <2>7. Addressed(k) /\ Accounted(k)
    BY <2>4, <2>5 DEF Addressed, Accounted
  <2>8. Grounded(k, upstream)
    BY <1>0, <2>4 DEF Good, Grounded
  <2>9. Good(k, upstream)
    BY <2>4, <2>6, <2>7, <2>8 DEF Good
  <2> QED
    BY <2>2, <2>4, <2>9 DEF h
<1>5. CASE h.handler /\ h.request.op # "seed"
  <2>1. PICK k : k = [done EXCEPT !.pc = "reply", !.answer = "done", !.write = NoWrite]
    OBVIOUS
  <2>2. k = Resumed(c, done)
    BY <1>2, <1>5, <2>1 DEF Resumed
  <2>3. NoWrite \in Write
    BY DEF NoWrite, Write
  <2>4. /\ k \in Connection
        /\ k.pc = "reply" /\ k.request = h.request /\ k.since = h.since
        /\ k.waits = h.waits /\ k.handler = h.handler /\ k.did = did
        /\ k.memo = h.memo /\ k.heard = h.heard /\ k.sent = h.sent
        /\ k.answer = "done"
    BY <1>2, <2>1, <2>3 DEF Connection
  <2>5. Truthful(k.request, k.did, k.answer)
    BY <1>5, <2>4 DEF Truthful
  <2> HIDE DEF h
  <2>6. Placed(k)
    BY <1>0, <1>1, <1>5, <2>4 DEF Good, Placed, Waiting, Pooled
  <2>7. Addressed(k) /\ Accounted(k)
    BY <2>4, <2>5 DEF Addressed, Accounted
  <2>8. Grounded(k, upstream)
    BY <1>0, <2>4 DEF Good, Grounded
  <2>9. Good(k, upstream)
    BY <2>4, <2>6, <2>7, <2>8 DEF Good
  <2> QED
    BY <2>2, <2>4, <2>9 DEF h
<1> QED
  BY <1>3, <1>4, <1>5

LEMMA AuditWriteGood ==
  ASSUME TypeOK, ConnInv, NEW c \in Client, AuditWrite(c)
  PROVE  /\ \E k : /\ Good(k, upstream) /\ conn' = [conn EXCEPT ![c] = k]
                   /\ k.handler = conn[c].handler /\ (conn[c].handler => k.pc # "none")
         /\ conn[c].write.rel \in Release /\ conn[c].write.rule \in Rule
<1> DEFINE h == conn[c]
           rel == h.write.rel
<1>0. h \in Connection /\ Good(h, upstream) /\ h.pc = "row"
  BY DEF TypeOK, ConnInv, AuditWrite, At
<1>1. /\ rel \in Release /\ h.write.rule \in Rule
      /\ h.request.op \in {"allow", "deny", "seed"} /\ h.request \in Asked
      /\ h.request.op # "seed" => h.did = {<<"rule", rel>>} /\ rel = h.request.rel
      /\ h.request.op = "seed" =>
           SeedSoFar(h) /\ h.todo # <<>> /\ ~h.request.dry /\ rel = Head(h.todo).rel
           /\ <<"rule", rel>> \in h.did
  BY <1>0 DEF Good, Addressed, Accounted, Placed, SeedSoFar
<1>2. PICK did : did = h.did \cup {<<"row", rel>>}
  OBVIOUS
<1>3. PICK done : done = [h EXCEPT !.did = did]
  OBVIOUS
<1>4. conn' = [conn EXCEPT ![c] = Resumed(c, done)]
  BY <1>0, <1>2, <1>3 DEF AuditWrite, Did, Connection
<1>5. did \in SUBSET ({"rule", "row", "refusal"} \X Release) /\ h.did \subseteq did
  BY <1>0, <1>1, <1>2 DEF Connection
<1>6. h.request.op # "seed" => CarriedOut(h.request, did)
  BY <1>1, <1>2 DEF CarriedOut
<1>7. h.request.op = "seed" =>
        /\ Settled(rel, did) /\ rel = Head(h.todo).rel /\ ~h.request.dry
        /\ \A what \in did : what \in h.did \/ what[2] = rel
  BY <1>1, <1>2 DEF Settled
<1> QED
  BY <1>0, <1>1, <1>3, <1>4, <1>5, <1>6, <1>7, ResumedGood

LEMMA RecordRefusalGood ==
  ASSUME TypeOK, ConnInv, NEW c \in Client, RecordRefusal(c)
  PROVE  /\ \E k : /\ Good(k, upstream) /\ conn' = [conn EXCEPT ![c] = k]
                   /\ k.handler = conn[c].handler /\ (conn[c].handler => k.pc # "none")
         /\ Head(conn[c].todo).rel \in Release
<1> DEFINE h == conn[c]
           rel == Head(h.todo).rel
<1>0. h \in Connection /\ Good(h, upstream) /\ h.pc = "refuse"
  BY DEF TypeOK, ConnInv, RecordRefusal, At
<1>1. /\ h.request.op = "seed" /\ SeedSoFar(h) /\ h.todo # <<>>
  BY <1>0 DEF Good, Addressed, Accounted, Placed
<1>r. rel \in Release
  BY <1>0, <1>1, NextEntry
<1>2. PICK did : did = h.did \cup {<<"refusal", rel>>}
  OBVIOUS
<1>3. PICK done : done = [h EXCEPT !.did = did]
  OBVIOUS
<1>4. conn' = [conn EXCEPT ![c] = Resumed(c, done)]
  BY <1>0, <1>2, <1>3 DEF RecordRefusal, Did, Connection
<1>5. did \in SUBSET ({"rule", "row", "refusal"} \X Release) /\ h.did \subseteq did
  BY <1>0, <1>r, <1>2 DEF Connection
<1>6. /\ Settled(rel, did)
      /\ h.request.dry => \A what \in did : what[1] = "refusal"
      /\ \A what \in did : what \in h.did \/ what[2] = rel
  BY <1>1, <1>2 DEF Settled, SeedSoFar
<1> QED
  BY <1>0, <1>1, <1>r, <1>3, <1>4, <1>5, <1>6, ResumedGood

(* While a task of a request is on the pool, not all of it is on record.    *)
LEMMA NotYetCarriedOut ==
  ASSUME NEW k \in Connection, Placed(k), Addressed(k), Accounted(k), k.pc \in Pooled,
         Distinct(k.request), ~k.request.dry
  PROVE  ~CarriedOut(k.request, k.did)
<1>1. CASE k.request.op = "seed"
  <2> DEFINE n == Behind(k)
             entries == k.request.entries
             rel == Head(k.todo).rel
  <2>1. SeedSoFar(k) /\ k.todo # <<>> /\ k.request \in Asked
    BY <1>1 DEF Placed, Addressed, Accounted, Pooled
  <2>2. n \in Nat /\ entries[n + 1].rel = rel
    BY <2>1, NextEntry DEF SeedSoFar
  <2>3. n + 1 \in DOMAIN entries /\ 1..n \subseteq DOMAIN entries
    <3>1. Len(k.todo) \in Nat \ {0}
      BY <2>1, NextEntry
    <3>2. Len(entries) \in Nat
      BY <2>1, RequestParts
    <3>d. DOMAIN entries = 1..Len(entries)
      BY <2>1, RequestParts
    <3>3. n = Len(entries) - Len(k.todo)
      BY DEF Behind
    <3>4. n \in Nat
      BY <2>2
    <3> HIDE DEF n, entries
    <3>5. n + 1 <= Len(entries)
      BY <3>1, <3>2, <3>3, <3>4
    <3>6. n + 1 \in 1..Len(entries) /\ 1..n \subseteq 1..Len(entries)
      BY <3>2, <3>4, <3>5
    <3> QED
      BY <3>6, <3>d
  <2>4. \A i \in 1..n : entries[i].rel # rel
    BY <2>2, <2>3 DEF Distinct
  <2>5. \A what \in k.did : what[2] = rel => k.pc = "row" /\ what = <<"rule", k.write.rel>>
    BY <2>1, <2>4 DEF SeedSoFar
  <2>6. <<"row", rel>> \notin k.did /\ <<"refusal", rel>> \notin k.did
    BY <2>5
  <2> HIDE DEF n, entries, rel
  <2> QED
    BY <1>1, <2>2, <2>3, <2>6 DEF CarriedOut, entries
<1>2. CASE k.request.op # "seed"
  <2>1. k.request.op \in {"allow", "deny"} /\ k.pc \in {"record", "row"}
    BY <1>2 DEF Placed, Pooled
  <2>2. k.did = {} \/ k.did = {<<"rule", k.write.rel>>}
    BY <1>2, <2>1 DEF Accounted
  <2>3. <<"row", k.request.rel>> \notin k.did
    BY <2>2
  <2> QED
    BY <2>1, <2>3 DEF CarriedOut
<1> QED
  BY <1>1, <1>2

LEMMA WriteFailsGood ==
  ASSUME TypeOK, ConnInv, NEW c \in Client, WriteFails(c)
  PROVE  \E k : /\ Good(k, upstream) /\ conn' = [conn EXCEPT ![c] = k]
                /\ k.handler = conn[c].handler /\ (conn[c].handler => k.pc # "none")
<1> DEFINE h == conn[c]
<1>0. h \in Connection /\ Good(h, upstream) /\ h.pc \in Pooled
  BY DEF TypeOK, ConnInv, WriteFails, OnPool, Pooled
<1>1. conn' = [conn EXCEPT ![c] = AfterFailure(c)]
  BY DEF WriteFails
<1>2. CASE h.handler
  <2>1. Truthful(h.request, h.did, "internal")
    BY <1>0, NotYetCarriedOut DEF Good, Truthful, Writes
  <2>2. h.pc # "none"
    BY <1>0 DEF Pooled
  <2>3. Good(Answered(c, "internal"), upstream)
        /\ Answered(c, "internal").handler = h.handler
        /\ Answered(c, "internal").pc = "reply"
    BY <1>2, <2>1, <2>2, AnsweredGood
  <2> QED
    BY <1>1, <1>2, <2>3 DEF AfterFailure
<1>3. CASE ~h.handler
  <2>1. Good(Closed(c, None), upstream) /\ ~Closed(c, None).handler
    BY <1>0, ClosedGood
  <2>2. Closed(c, None).handler = h.handler
    BY <1>0, <1>3, <2>1 DEF Good, Connection
  <2> QED
    BY <1>1, <1>3, <2>1, <2>2 DEF AfterFailure
<1> QED
  BY <1>2, <1>3

(* A handler that is dropped leaves its task on the pool.                   *)
LEMMA ConnectionTimeoutGood ==
  ASSUME TypeOK, ConnInv, NEW c \in Client, ConnectionTimeout(c)
  PROVE  \E k : /\ Good(k, upstream) /\ conn' = [conn EXCEPT ![c] = k]
                /\ ~k.handler /\ conn[c].handler
<1> DEFINE h == conn[c]
           heard == Closed(c, "no_answer").heard
<1>0. h \in Connection /\ Good(h, upstream) /\ h.handler /\ h.pc # "reading"
  BY DEF TypeOK, ConnInv, ConnectionTimeout, At
<1>c. /\ Good(Closed(c, "no_answer"), upstream) /\ ~Closed(c, "no_answer").handler
      /\ heard = IF ~h.waits THEN h.heard ELSE IF h.sent THEN "no_answer" ELSE "io"
  BY <1>0, ClosedGood
<1>1. CASE ~OnPool(c)
  <2>1. conn' = [conn EXCEPT ![c] = Closed(c, "no_answer")]
    BY <1>1 DEF ConnectionTimeout
  <2> QED
    BY <1>0, <1>c, <2>1
<1>2. CASE OnPool(c)
  <2>0. h.pc \in Pooled
    BY <1>2 DEF OnPool, Pooled
  <2>1. PICK k : k = [h EXCEPT !.handler = FALSE, !.waits = FALSE, !.heard = heard]
    OBVIOUS
  <2>2. conn' = [conn EXCEPT ![c] = k]
    BY <1>0, <1>2, <2>1 DEF ConnectionTimeout, Connection
  <2>3. heard \in {"done", "refused", "internal", "busy", "io", "no_answer", "timeout", None}
    BY <1>0, <1>c DEF Connection
  <2>4. heard \in {"timeout", "no_answer", "io"}
    BY <1>0, <1>c, <2>0 DEF Good, Placed, Pooled
  <2> HIDE DEF heard
  <2>5. /\ k \in Connection
        /\ k.pc = h.pc /\ k.request = h.request /\ k.since = h.since /\ ~k.waits
        /\ ~k.handler /\ k.did = h.did /\ k.memo = h.memo /\ k.heard = heard
        /\ k.todo = h.todo /\ k.write = h.write /\ k.answer = h.answer /\ k.sent = h.sent
    BY <1>0, <2>1, <2>3 DEF Connection
  <2> HIDE DEF h
  <2>6. Placed(k)
    BY <1>0, <2>0, <2>4, <2>5 DEF Good, Placed, Waiting, Pooled
  <2>7. Addressed(k)
    BY <1>0, <2>5 DEF Good, Addressed
  <2>8. Accounted(k)
    <3>1. SeedSoFar(h) => SeedSoFar(k)
      BY <2>5 DEF SeedSoFar, Behind
    <3> QED
      BY <1>0, <2>5, <3>1 DEF Good, Accounted
  <2>9. Grounded(k, upstream)
    BY <1>0, <2>5 DEF Good, Grounded
  <2> QED
    BY <1>0, <2>2, <2>5, <2>6, <2>7, <2>8, <2>9 DEF Good, h
<1> QED
  BY <1>1, <1>2

-----------------------------------------------------------------------------
(* The permits.                                                             *)

LEMMA PermitsKept ==
  ASSUME TypeOK, PermitInv, NEW c \in Client, NEW k, conn' = [conn EXCEPT ![c] = k],
         k.handler = conn[c].handler, permits' = permits
  PROVE  PermitInv'
<1>1. \A d \in Client : conn'[d].handler = conn[d].handler
  BY DEF TypeOK
<1>2. Held' = Held
  BY <1>1 DEF Held
<1> QED
  BY <1>2 DEF PermitInv

LEMMA PermitTaken ==
  ASSUME TypeOK, PermitInv, NEW c \in Client, NEW k, conn' = [conn EXCEPT ![c] = k],
         k.handler, ~conn[c].handler, permits' = permits - 1
  PROVE  PermitInv'
<1>1. conn'[c].handler /\ \A d \in Client : d # c => conn'[d].handler = conn[d].handler
  BY DEF TypeOK
<1>2. Held' = Held \cup {c} /\ c \notin Held
  BY <1>1 DEF Held
<1>3. PICK held : held = Held
  OBVIOUS
<1>4. IsFiniteSet(held) /\ Cardinality(held) \in Nat /\ permits + Cardinality(held) = MaxConnections
  BY <1>3, FS_CardinalityType DEF PermitInv
<1>5. IsFiniteSet(held \cup {c}) /\ Cardinality(held \cup {c}) = Cardinality(held) + 1
  BY <1>2, <1>3, <1>4, FS_AddElement
<1>6. permits' + Cardinality(held \cup {c}) = MaxConnections
  BY <1>4, <1>5 DEF TypeOK
<1> QED
  BY <1>2, <1>3, <1>5, <1>6 DEF PermitInv

LEMMA PermitBack ==
  ASSUME TypeOK, PermitInv, NEW c \in Client, NEW k, conn' = [conn EXCEPT ![c] = k],
         ~k.handler, conn[c].handler, permits' = permits + 1
  PROVE  PermitInv' /\ permits' \in 0..MaxConnections
<1>1. ~conn'[c].handler /\ \A d \in Client : d # c => conn'[d].handler = conn[d].handler
  BY DEF TypeOK
<1>2. Held' = Held \ {c} /\ c \in Held
  BY <1>1 DEF Held
<1>3. PICK held : held = Held
  OBVIOUS
<1>4. IsFiniteSet(held) /\ Cardinality(held) \in Nat /\ permits + Cardinality(held) = MaxConnections
  BY <1>3, FS_CardinalityType DEF PermitInv
<1>5. IsFiniteSet(held \ {c}) /\ Cardinality(held \ {c}) = Cardinality(held) - 1
  BY <1>2, <1>3, <1>4, FS_RemoveElement
<1>6. Cardinality(held \ {c}) \in Nat
  BY <1>5, FS_CardinalityType
<1>7. permits' + Cardinality(held \ {c}) = MaxConnections
  BY <1>4, <1>5 DEF TypeOK
<1>8. permits' \in 0..MaxConnections
  BY <1>6, <1>7, ControlAssumption DEF TypeOK
<1> QED
  BY <1>2, <1>3, <1>5, <1>7, <1>8 DEF PermitInv

-----------------------------------------------------------------------------
(* The inductive invariant.                                                 *)

LEMMA InitInv == Init => IInv
<1> SUFFICES ASSUME Init
             PROVE  IInv
  OBVIOUS
<1>1. StoreTypeOK
  BY DEF Init, StoreInit, StoreTypeOK
<1>2. \A c \in Client : conn[c] = Idle
  BY DEF Init
<1>3. TypeOK
  BY <1>1, IdleGood, ControlAssumption DEF Init, TypeOK
<1>4. ConnInv
  BY <1>2, IdleGood, OverGood DEF ConnInv
<1>5. Held = {}
  BY <1>2, IdleGood DEF Held
<1>6. permits = MaxConnections /\ MaxConnections + 0 = MaxConnections
  BY ControlAssumption DEF Init
<1>7. IsFiniteSet(Held) /\ Cardinality(Held) = 0
  BY <1>5, FS_EmptySet
<1>8. PermitInv
  BY <1>6, <1>7 DEF PermitInv
<1> QED
  BY <1>3, <1>4, <1>8 DEF IInv

(* A step that moves one connection and leaves the permits alone.           *)
LEMMA KeepsInv ==
  ASSUME IInv, NEW c \in Client, NEW k, Good(k, upstream), conn' = [conn EXCEPT ![c] = k],
         k.handler = conn[c].handler, permits' = permits, upstream' = upstream,
         StoreTypeOK', pins' \in [Release -> Hash \cup {None}]
  PROVE  IInv'
<1>1. conn' \in [Client -> Connection] /\ ConnInv'
  BY OneMoves DEF IInv, TypeOK
<1>2. PermitInv'
  BY PermitsKept DEF IInv
<1> QED
  BY <1>1, <1>2 DEF IInv, TypeOK

LEMMA NextInv ==
  ASSUME IInv, Next
  PROVE  IInv'
<1>t. TypeOK /\ ConnInv /\ PermitInv /\ StoreTypeOK /\ pins \in [Release -> Hash \cup {None}]
  BY DEF IInv, TypeOK
<1>q. ASSUME UNCHANGED <<storeVars, pins>>
      PROVE  StoreTypeOK' /\ pins' \in [Release -> Hash \cup {None}]
  BY <1>t, <1>q DEF storeVars, StoreTypeOK
<1>1. ASSUME NEW c \in Client, NEW request \in Asked, Connect(c, request)
      PROVE  IInv'
  <2>1. PICK k : /\ Good(k, upstream) /\ conn' = [conn EXCEPT ![c] = k]
                 /\ k.handler = conn[c].handler
    BY <1>1, <1>t, ConnectGood
  <2> QED
    BY <1>1, <1>q, <2>1, KeepsInv DEF Connect
<1>2. ASSUME NEW c \in Client, Send(c) \/ Leave(c)
      PROVE  IInv'
  <2>1. PICK k : /\ Good(k, upstream) /\ conn' = [conn EXCEPT ![c] = k]
                 /\ k.handler = conn[c].handler
    BY <1>2, <1>t, SendGood, LeaveGood
  <2> QED
    BY <1>2, <1>q, <2>1, KeepsInv DEF Send, Leave
<1>3. ASSUME NEW c \in Client, Accept(c)
      PROVE  IInv'
  <2>1. PICK k : /\ Good(k, upstream) /\ conn' = [conn EXCEPT ![c] = k]
                 /\ k.handler /\ k.pc = "reading"
    BY <1>3, <1>t, AcceptGood
  <2>2. ~conn[c].handler
    BY <1>3, <1>t DEF Accept, At, ConnInv, Good, Placed
  <2>3. permits' = permits - 1 /\ permits > 0 /\ upstream' = upstream
    BY <1>3 DEF Accept, PermitLeft
  <2>4. PermitInv'
    BY <1>t, <2>1, <2>2, <2>3, PermitTaken
  <2>5. permits' \in 0..MaxConnections
    BY <1>t, <2>3, ControlAssumption DEF TypeOK
  <2>6. conn' \in [Client -> Connection] /\ ConnInv'
    BY <1>t, <2>1, <2>3, OneMoves DEF TypeOK
  <2>7. StoreTypeOK' /\ pins' \in [Release -> Hash \cup {None}]
    BY <1>3, <1>q DEF Accept
  <2> QED
    BY <1>t, <2>3, <2>4, <2>5, <2>6, <2>7 DEF IInv, TypeOK
<1>4. ASSUME NEW c \in Client, Refuse(c)
      PROVE  IInv'
  <2>1. PICK k : /\ Good(k, upstream) /\ conn' = [conn EXCEPT ![c] = k]
                 /\ k.handler = conn[c].handler
    BY <1>4, <1>t, RefuseGood
  <2> QED
    BY <1>4, <1>q, <2>1, KeepsInv DEF Refuse
<1>5. ASSUME NEW c \in Client, ReadFrame(c) \/ ReadPackument(c) \/ ScanTarball(c)
      PROVE  IInv'
  <2>1. PICK k : /\ Good(k, upstream) /\ conn' = [conn EXCEPT ![c] = k]
                 /\ k.handler = conn[c].handler
    BY <1>5, <1>t, ReadFrameGood, ReadPackumentGood, ScanTarballGood
  <2> QED
    BY <1>5, <1>q, <2>1, KeepsInv DEF ReadFrame, ReadPackument, ScanTarball
<1>6. ASSUME NEW c \in Client, NoFrame(c) \/ NotApproved(c) \/ Query(c) \/ SeedDone(c)
      PROVE  IInv'
  <2>1. PICK k : /\ Good(k, upstream) /\ conn' = [conn EXCEPT ![c] = k]
                 /\ k.handler = conn[c].handler
    BY <1>6, <1>t, NotApprovedGood, QueryGood, SeedDoneGood
  <2> QED
    BY <1>6, <1>q, <2>1, KeepsInv DEF NoFrame, NotApproved, Query, SeedDone
<1>7. ASSUME NEW c \in Client, VerifyOffline(c) \/ Verify(c)
      PROVE  IInv'
  <2>1. PICK k : /\ Good(k, upstream) /\ conn' = [conn EXCEPT ![c] = k]
                 /\ k.handler = conn[c].handler
    BY <1>7, <1>t, VerifyOfflineGood, VerifyGood
  <2> QED
    BY <1>7, <1>q, <2>1, KeepsInv DEF VerifyOffline, Verify
<1>8. ASSUME NEW c \in Client, Reply(c) \/ ConnectionTimeout(c)
      PROVE  IInv'
  <2>1. PICK k : /\ Good(k, upstream) /\ conn' = [conn EXCEPT ![c] = k]
                 /\ ~k.handler /\ conn[c].handler
    BY <1>8, <1>t, ReplyGood, ConnectionTimeoutGood
  <2>2. permits' = permits + 1 /\ upstream' = upstream /\ UNCHANGED <<storeVars, pins>>
    BY <1>8 DEF Reply, ConnectionTimeout
  <2>3. PermitInv' /\ permits' \in 0..MaxConnections
    BY <1>t, <2>1, <2>2, PermitBack
  <2>4. conn' \in [Client -> Connection] /\ ConnInv'
    BY <1>t, <2>1, <2>2, OneMoves DEF TypeOK
  <2> QED
    BY <1>t, <1>q, <2>2, <2>3, <2>4 DEF IInv, TypeOK
<1>9. ASSUME NEW c \in Client, RecordWrite(c)
      PROVE  IInv'
  <2>1. PICK k : /\ Good(k, upstream) /\ conn' = [conn EXCEPT ![c] = k]
                 /\ k.handler = conn[c].handler
    BY <1>9, <1>t, RecordWriteGood
  <2>2. conn[c].write \in Write /\ conn[c].write.rel \in Release /\ conn[c].write.rule \in Rule
    BY <1>9, <1>t, RecordWriteGood
  <2>3. pins' \in [Release -> Hash \cup {None}]
    BY <1>9, <1>t, <2>2 DEF RecordWrite, Write
  <2>4. rules' = [rules EXCEPT ![conn[c].write.rel] = conn[c].write.rule]
        /\ UNCHANGED <<seen, audit, nextId, clock, upstream, permits>>
    BY <1>9 DEF RecordWrite, RecordRule
  <2>5. StoreTypeOK'
    BY <1>t, <2>2, <2>4 DEF StoreTypeOK
  <2> QED
    BY <2>1, <2>3, <2>4, <2>5, KeepsInv
<1>10. ASSUME NEW c \in Client, AuditWrite(c)
       PROVE  IInv'
  <2>1. PICK k : /\ Good(k, upstream) /\ conn' = [conn EXCEPT ![c] = k]
                 /\ k.handler = conn[c].handler
    BY <1>10, <1>t, AuditWriteGood
  <2>2. conn[c].write.rel \in Release /\ conn[c].write.rule \in Rule
    BY <1>10, <1>t, AuditWriteGood
  <2>3. PICK rel, rule : rel = conn[c].write.rel /\ rule = conn[c].write.rule
    OBVIOUS
  <2>4. Row(rule.verdict, rel, None, clock) \in AuditRow
    BY <1>t, <2>2, <2>3, RuleRow DEF StoreTypeOK
  <2>5. audit' = audit \cup {Row(rule.verdict, rel, None, clock)} /\ nextId' = nextId + 1
        /\ UNCHANGED <<rules, seen, clock, pins, upstream, permits>>
    BY <1>10, <2>3 DEF AuditWrite, AppendRuleAudit, AppendRows
  <2>6. StoreTypeOK'
    BY <1>t, <2>4, <2>5 DEF StoreTypeOK
  <2> QED
    BY <1>t, <2>1, <2>5, <2>6, KeepsInv
<1>11. ASSUME NEW c \in Client, RecordRefusal(c)
       PROVE  IInv'
  <2>1. PICK k : /\ Good(k, upstream) /\ conn' = [conn EXCEPT ![c] = k]
                 /\ k.handler = conn[c].handler
    BY <1>11, <1>t, RecordRefusalGood
  <2>2. PICK rel \in Release : rel = Head(conn[c].todo).rel
    BY <1>11, <1>t, RecordRefusalGood
  <2>3. Row("seed_refused", rel, None, clock) \in AuditRow
    BY <1>t, ReleaseParts DEF Row, AuditRow, Events, StoreTypeOK
  <2>4. audit' = audit \cup {Row("seed_refused", rel, None, clock)} /\ nextId' = nextId + 1
        /\ UNCHANGED <<rules, seen, clock, pins, upstream, permits>>
    BY <1>11, <2>2 DEF RecordRefusal, AppendRows
  <2>5. StoreTypeOK'
    BY <1>t, <2>3, <2>4 DEF StoreTypeOK
  <2> QED
    BY <1>t, <2>1, <2>4, <2>5, KeepsInv
<1>12. ASSUME NEW c \in Client, WriteFails(c)
       PROVE  IInv'
  <2>1. PICK k : /\ Good(k, upstream) /\ conn' = [conn EXCEPT ![c] = k]
                 /\ k.handler = conn[c].handler
    BY <1>12, <1>t, WriteFailsGood
  <2> QED
    BY <1>12, <1>q, <2>1, KeepsInv DEF WriteFails
<1>13. ASSUME Republish
       PROVE  IInv'
  <2>1. /\ upstream' = upstream + 1 /\ upstream' \in 1..Len(Published)
        /\ UNCHANGED <<storeVars, pins, permits, conn>> /\ upstream \in Int
    BY <1>13, <1>t, LenPublished DEF Republish, TypeOK
  <2>2. ConnInv'
    <3>1. PICK now, later : now = upstream /\ later = upstream'
      OBVIOUS
    <3>2. now \in Int /\ later \in Int /\ now <= later
      BY <2>1, <3>1
    <3>3. \A c \in Client : Good(conn[c], later)
      BY <1>t, <3>1, <3>2, LaterGood DEF ConnInv
    <3> QED
      BY <2>1, <3>1, <3>3 DEF ConnInv
  <2>3. PermitInv'
    BY <1>t, <2>1 DEF PermitInv, Held
  <2> QED
    BY <1>t, <1>q, <2>1, <2>2, <2>3 DEF IInv, TypeOK
<1>14. ASSUME Crash
       PROVE  IInv'
  <2>1. ASSUME NEW c \in Client
        PROVE  Good(conn'[c], upstream) /\ ~conn'[c].handler
    <3>1. conn[c] \in Connection /\ Good(conn[c], upstream)
      BY <1>t DEF TypeOK, ConnInv
    <3>2. CASE At(c, "none")
      BY <1>14, <3>1, <3>2 DEF Crash, At, Good, Placed
    <3>3. CASE ~At(c, "none")
      <4>1. conn'[c] = Closed(c, "no_answer")
        BY <1>14, <3>3 DEF Crash
      <4> QED
        BY <3>1, <4>1, ClosedGood
    <3> QED
      BY <3>2, <3>3
  <2>2. permits' = MaxConnections /\ upstream' = upstream /\ UNCHANGED <<storeVars, pins>>
    BY <1>14 DEF Crash
  <2>3. ConnInv'
    BY <2>1, <2>2 DEF ConnInv
  <2>4. conn' \in [Client -> Connection]
    BY <1>14, <2>1 DEF Crash, Good
  <2>5. Held' = {}
    BY <2>1 DEF Held
  <2>6. IsFiniteSet(Held') /\ Cardinality(Held') = 0
    BY <2>5, FS_EmptySet
  <2>7. permits' + 0 = MaxConnections /\ permits' \in 0..MaxConnections
    BY <2>2, ControlAssumption
  <2>8. PermitInv'
    BY <2>6, <2>7 DEF PermitInv
  <2> QED
    BY <1>t, <1>q, <2>2, <2>3, <2>4, <2>7, <2>8 DEF IInv, TypeOK
<1> QED
  BY <1>1, <1>2, <1>3, <1>4, <1>5, <1>6, <1>7, <1>8, <1>9, <1>10, <1>11, <1>12, <1>13, <1>14
     DEF Next, Handler, Pool

LEMMA Invariant == Spec => []IInv
<1>1. IInv /\ UNCHANGED vars => IInv'
  BY DEF vars, storeVars, IInv, TypeOK, StoreTypeOK, ConnInv, PermitInv, Held
<1>2. IInv /\ [Next]_vars => IInv'
  BY <1>1, NextInv
<1> QED
  BY <1>2, InitInv, PTL DEF Spec

-----------------------------------------------------------------------------
(* The theorems.                                                            *)

(* Every state of the control socket is well-typed: whatever a client asks  *)
(* and however it is interrupted, what its handler carries from one step to *)
(* the next is a rule for a release, pins and entries left to seed.         *)
THEOREM TypeCorrect == Spec => []TypeOK
BY Invariant, PTL DEF IInv

(* A permit is never lost and never given back twice: those left and those  *)
(* of the handlers that run are MAX_CONCURRENT_CONNECTIONS, through answers, *)
(* timeouts that drop a handler and leave its task on the pool, and crashes. *)
THEOREM PermitsAccountedFor == Spec => []PermitInv
BY Invariant, PTL DEF IInv

(* An approval that is about to be written pins what the registry served    *)
(* since its client connected, the integrity, the commands and the bytes.   *)
THEOREM ApprovalsPinWhatWasServed == Spec => []WritesWhatWasServed
<1>1. IInv => WritesWhatWasServed
  <2> SUFFICES ASSUME IInv, NEW c \in Client, At(c, "record"),
                      conn[c].write.rule.verdict = "allow", ~conn[c].request.offline
               PROVE  /\ \E i \in ServedSince(c) :
                           /\ Published[i][conn[c].write.rel] # None
                           /\ conn[c].write.rule = AllowRule(Published[i][conn[c].write.rel].meta)
                      /\ conn[c].request.pin # "none" =>
                           \E i \in ServedSince(c) :
                             /\ Published[i][conn[c].write.rel] # None
                             /\ conn[c].write.pins = Published[i][conn[c].write.rel].bytes
                             /\ conn[c].request.pin \in {"named", conn[c].write.pins}
    BY DEF WritesWhatWasServed
  <2> DEFINE h == conn[c]
  <2>1. h.pc = "record" /\ Good(h, upstream)
    BY DEF At, IInv, ConnInv
  <2>2. Approved(h.write.rel, h.write.rule, h.since, upstream)
    BY <2>1 DEF Good, Grounded
  <2>3. h.request.pin # "none" =>
          Computed(h.write.rel, h.request.pin, h.write.pins, h.since, upstream)
    BY <2>1 DEF Good, Grounded
  <2> QED
    BY <2>2, <2>3 DEF Approved, Computed, ServedSince
<1> QED
  BY <1>1, Invariant, PTL

(* What a client that still waits hears when its connection is over.        *)
AnswerFits(c) ==
  LET request == conn[c].request
      did == conn[c].did
      heard == conn'[c].heard
  IN  /\ heard = "done" => CarriedOut(request, did)
      /\ heard \in {"refused", "busy"} => did = {}
      /\ (heard = "internal" /\ Writes(request)) => ~CarriedOut(request, did)

LEMMA ClosedFits ==
  ASSUME TypeOK, ConnInv, NEW c \in Client, conn[c].pc # "none", Distinct(conn[c].request),
         NEW answer \in {"done", "refused", "internal", "busy", "io", "no_answer", "timeout", None},
         \/ answer = "no_answer"
         \/ ~conn[c].waits
         \/ answer = "busy" /\ conn[c].pc = "backlog"
         \/ answer = conn[c].answer /\ conn[c].pc = "reply",
         conn'[c] = Closed(c, answer)
  PROVE  AnswerFits(c)
<1> DEFINE h == conn[c]
<1>0. h \in Connection /\ Good(h, upstream)
  BY DEF TypeOK, ConnInv
<1>1. conn'[c].heard = IF ~h.waits THEN h.heard ELSE IF h.sent THEN answer ELSE "io"
  BY <1>0, ClosedGood
<1>2. ~h.waits => h.heard \in {"timeout", "no_answer", "io"}
  BY <1>0 DEF Good, Placed
<1>3. conn'[c].heard \in {"timeout", "no_answer", "io", answer}
  BY <1>1, <1>2
<1>4. answer = "busy" /\ h.pc = "backlog" => h.did = {}
  BY <1>0 DEF Good, Accounted
<1>5. answer = h.answer /\ h.pc = "reply" => Truthful(h.request, h.did, answer)
  BY <1>0 DEF Good, Accounted
<1>6. CASE answer = "no_answer" \/ ~h.waits
  <2>1. conn'[c].heard \in {"timeout", "no_answer", "io"}
    BY <1>1, <1>2, <1>6
  <2> QED
    BY <2>1 DEF AnswerFits
<1>7. CASE answer = "busy" /\ h.pc = "backlog"
  BY <1>3, <1>4, <1>7 DEF AnswerFits
<1>8. CASE answer = h.answer /\ h.pc = "reply"
  BY <1>3, <1>5, <1>8 DEF AnswerFits, Truthful
<1> QED
  BY <1>6, <1>7, <1>8

(* A finished task that nobody waits for.                                   *)
LEMMA PoolEnds ==
  ASSUME TypeOK, ConnInv, NEW c \in Client, Pool(c), conn'[c].pc = "none"
  PROVE  ~conn[c].waits /\ conn'[c] = Closed(c, None)
<1> DEFINE h == conn[c]
<1>0. h \in Connection /\ Good(h, upstream) /\ c \in DOMAIN conn
  BY DEF TypeOK, ConnInv
<1>1. ~RecordWrite(c)
  <2>1. RecordWrite(c) => conn'[c].pc = "row"
    BY <1>0 DEF RecordWrite, Did, Connection
  <2> QED
    BY <2>1
<1>2. h.pc \in Pooled
  BY <1>1 DEF Pool, AuditWrite, RecordRefusal, WriteFails, OnPool, At, Pooled
<1>3. ~h.handler => ~h.waits
  BY <1>0, <1>2 DEF Good, Placed
<1>4. CASE AuditWrite(c) \/ RecordRefusal(c)
  <2>1. PICK k : conn' = [conn EXCEPT ![c] = k] /\ (h.handler => k.pc # "none")
    BY <1>4, AuditWriteGood, RecordRefusalGood
  <2>2. ~h.handler
    BY <1>0, <2>1
  <2>3. PICK what, rel : conn'[c] = Resumed(c, Did(c, what, rel))
    BY <1>0, <1>4 DEF AuditWrite, RecordRefusal
  <2>4. ~Did(c, what, rel).handler
    BY <1>0, <2>2 DEF Did, Connection
  <2> QED
    BY <1>3, <2>2, <2>3, <2>4 DEF Resumed
<1>5. CASE WriteFails(c)
  <2>1. conn'[c] = AfterFailure(c)
    BY <1>0, <1>5 DEF WriteFails
  <2>2. Answered(c, "internal").pc = "reply"
    BY <1>0 DEF Answered, Connection
  <2>3. ~h.handler
    BY <2>1, <2>2 DEF AfterFailure
  <2> QED
    BY <1>3, <2>1, <2>3 DEF AfterFailure
<1> QED
  BY <1>1, <1>4, <1>5 DEF Pool

(* A connection ends refused, answered, dropped or with the daemon.         *)
LEMMA Ends ==
  ASSUME TypeOK, ConnInv, Next, NEW c \in Client,
         conn[c].pc # "none", conn'[c].pc = "none"
  PROVE  \E answer \in {"done", "refused", "internal", "busy", "io", "no_answer", "timeout", None} :
           /\ conn'[c] = Closed(c, answer)
           /\ \/ answer = "no_answer"
              \/ ~conn[c].waits
              \/ answer = "busy" /\ conn[c].pc = "backlog"
              \/ answer = conn[c].answer /\ conn[c].pc = "reply"
<1>0. conn[c] \in Connection /\ c \in DOMAIN conn
  BY DEF TypeOK
<1>1. ASSUME NEW d \in Client, NEW k, conn' = [conn EXCEPT ![d] = k], d # c
      PROVE  FALSE
  BY <1>0, <1>1
<1>2. ASSUME NEW request \in Asked, Connect(c, request)
      PROVE  FALSE
  BY <1>2 DEF Connect, At
<1>3. ~Send(c)
  BY <1>0 DEF Send, Connection
<1>4. ASSUME Leave(c) \/ Accept(c) \/ ReadFrame(c) \/ NoFrame(c) \/ Query(c) \/ NotApproved(c)
             \/ ReadPackument(c) \/ ScanTarball(c) \/ VerifyOffline(c) \/ Verify(c)
             \/ SeedDone(c)
      PROVE  FALSE
  <2>1. PICK k : conn' = [conn EXCEPT ![c] = k] /\ k.pc # "none"
    <3>1. CASE Leave(c) \/ Accept(c)
      BY <3>1, LeaveGood, AcceptGood
    <3>2. CASE ReadFrame(c) \/ ReadPackument(c) \/ ScanTarball(c)
      BY <3>2, ReadFrameGood, ReadPackumentGood, ScanTarballGood
    <3>3. CASE NoFrame(c) \/ NotApproved(c)
      BY <3>3, NotApprovedGood
    <3>4. CASE Query(c) \/ SeedDone(c)
      BY <3>4, QueryGood, SeedDoneGood
    <3>5. CASE VerifyOffline(c) \/ Verify(c)
      BY <3>5, VerifyOfflineGood, VerifyGood
    <3> QED
      BY <1>4, <3>1, <3>2, <3>3, <3>4, <3>5
  <2> QED
    BY <1>0, <2>1
<1>5. CASE Refuse(c)
  BY <1>0, <1>5 DEF Refuse, At
<1>6. CASE Reply(c)
  BY <1>0, <1>6 DEF Reply, At, Connection
<1>7. CASE ConnectionTimeout(c)
  <2>1. ~OnPool(c)
    <3>1. OnPool(c) => conn'[c].pc = conn[c].pc
      BY <1>0, <1>7 DEF ConnectionTimeout, Connection
    <3> QED
      BY <3>1
  <2> QED
    BY <1>0, <1>7, <2>1 DEF ConnectionTimeout
<1>8. CASE Pool(c)
  BY <1>8, PoolEnds
<1>9. CASE Crash
  BY <1>9 DEF Crash, At
<1>10. ~Republish
  BY DEF Republish
<1>11. ASSUME NEW d \in Client, d # c,
              \/ \E request \in Asked : Connect(d, request)
              \/ Send(d) \/ Leave(d) \/ Accept(d) \/ Refuse(d)
              \/ Handler(d) \/ Pool(d) \/ ConnectionTimeout(d)
       PROVE  FALSE
  <2>1. \E k : conn' = [conn EXCEPT ![d] = k]
    <3>1. CASE \E request \in Asked : Connect(d, request)
      BY <3>1 DEF Connect
    <3>2. CASE Send(d)
      BY <3>2, SendGood
    <3>3. CASE Leave(d) \/ Accept(d)
      BY <3>3, LeaveGood, AcceptGood
    <3>4. CASE Refuse(d)
      BY <3>4, RefuseGood
    <3>5. CASE Reply(d) \/ ConnectionTimeout(d)
      BY <3>5, ReplyGood, ConnectionTimeoutGood
    <3>6. CASE ReadFrame(d) \/ ReadPackument(d) \/ ScanTarball(d)
      BY <3>6, ReadFrameGood, ReadPackumentGood, ScanTarballGood
    <3>7. CASE NoFrame(d) \/ NotApproved(d) \/ Query(d) \/ SeedDone(d)
      BY <3>7, NotApprovedGood, QueryGood, SeedDoneGood
    <3>8. CASE VerifyOffline(d) \/ Verify(d)
      BY <3>8, VerifyOfflineGood, VerifyGood
    <3>9. CASE RecordWrite(d) \/ AuditWrite(d) \/ RecordRefusal(d) \/ WriteFails(d)
      BY <3>9, RecordWriteGood, AuditWriteGood, RecordRefusalGood, WriteFailsGood
    <3> QED
      BY <1>11, <3>1, <3>2, <3>3, <3>4, <3>5, <3>6, <3>7, <3>8, <3>9 DEF Handler, Pool
  <2> QED
    BY <1>1, <1>11, <2>1
<1>12. Crash \/ \/ \E request \in Asked : Connect(c, request)
                \/ Send(c) \/ Leave(c) \/ Accept(c) \/ Refuse(c)
                \/ Handler(c) \/ Pool(c) \/ ConnectionTimeout(c)
  BY <1>10, <1>11 DEF Next
<1> QED
  BY <1>2, <1>3, <1>4, <1>5, <1>6, <1>7, <1>8, <1>9, <1>12 DEF Handler

(* What a client is told is what happened to its request, whoever else was  *)
(* writing and whatever failed or timed out: "done" means done to the last  *)
(* entry, a refusal that nothing is on record, and "internal" that not all  *)
(* of it is.  The entries of a seed name different releases, as the client  *)
(* collects them; of two for one release the first alone would carry out    *)
(* the other.                                                               *)
THEOREM ClientsHearTheTruth ==
  ASSUME \A r \in Asked : Distinct(r)
  PROVE  Spec => AnswersTruthful
<1>1. ASSUME IInv, [Next]_vars, NEW c \in Client, conn[c].pc # "none", conn'[c].pc = "none"
      PROVE  AnswerFits(c)
  <2>1. TypeOK /\ ConnInv
    BY <1>1 DEF IInv
  <2>2. Next
    BY <1>1 DEF vars
  <2>3. conn[c].request \in Asked
    BY <1>1, <2>1 DEF ConnInv, Good, Placed
  <2>4. PICK answer \in {"done", "refused", "internal", "busy", "io", "no_answer", "timeout", None} :
          /\ conn'[c] = Closed(c, answer)
          /\ \/ answer = "no_answer"
             \/ ~conn[c].waits
             \/ answer = "busy" /\ conn[c].pc = "backlog"
             \/ answer = conn[c].answer /\ conn[c].pc = "reply"
    BY <1>1, <2>1, <2>2, Ends
  <2> QED
    BY <1>1, <2>1, <2>3, <2>4, ClosedFits
<1>2. IInv /\ [Next]_vars =>
        [\A c \in Client :
           LET request == conn[c].request
               did == conn[c].did
               heard == conn'[c].heard
           IN  (~At(c, "none") /\ conn'[c].pc = "none") =>
                 /\ heard = "done" => CarriedOut(request, did)
                 /\ heard \in {"refused", "busy"} => did = {}
                 /\ (heard = "internal" /\ Writes(request)) => ~CarriedOut(request, did)]_vars
  BY <1>1 DEF At, AnswerFits
<1> QED
  BY <1>2, Invariant, PTL DEF Spec, AnswersTruthful
=============================================================================
