--------------------------- MODULE RoutingProofs ---------------------------
(***************************************************************************)
(* Proofs about what is answered from an evaluated document (Resolution),   *)
(* about what is relayed and what is served (Routing), and about what a     *)
(* seed scan finds and what it pins (SeedScan).  They hold for every set of *)
(* versions and tags, every finite document, every path, and every tree and *)
(* lockfile.                                                                *)
(*                                                                          *)
(* What a path is to the route table and what it is to upstream, what the   *)
(* lockfiles say, and what is under a directory are recursions.  UpTo is    *)
(* the induction they need, drawn from the well-foundedness of < on sets of *)
(* naturals.                                                                *)
(***************************************************************************)
EXTENDS Routing, SeedScan, FiniteSetTheorems, FunctionTheorems, SequenceTheorems, TLAPS

(* An answer stands for as long as the evaluation it was given from.        *)
Standing ==
  answer # None =>
    /\ answer.spec \in Version \cup Tag
    /\ answer = Answer(answer.spec)

(* What an answer is, whatever is asked.                                    *)
LEMMA AnswerShape ==
  ASSUME TypeOK, NEW spec \in Version \cup Tag
  PROVE  /\ Answer(spec).spec = spec
         /\ Answer(spec).status \in {"found", "version_withheld", "version_not_found"}
         /\ Answer(spec).version \in versions \cup {None}
BY DEF Answer, TypeOK, Surviving

(* The answers depend on the document and the verdicts alone.               *)
LEMMA SameAnswers ==
  ASSUME UNCHANGED <<downgrade, versions, tags, withheld>>
  PROVE  \A s : Answer(s)' = Answer(s)
<1>1. Surviving' = Surviving
  BY DEF Surviving
<1>2. FilteredTags' = FilteredTags
  <2>1. Repointed' = Repointed
    BY <1>1 DEF Repointed, NewestSurviving
  <2> QED
    BY <2>1 DEF FilteredTags
<1>3. ASSUME NEW s
      PROVE  ResolveSpec(s)' = ResolveSpec(s)
  BY <1>1, <1>2 DEF ResolveSpec
<1> QED
  BY <1>1, <1>3 DEF Answer

(* A new evaluation takes the answer back; a request gives one of its own.  *)
LEMMA StandingHolds ==
  ASSUME TypeOK, Standing, [Next]_vars
  PROVE  TypeOK' /\ Standing'
<1>1. ASSUME Reevaluate
      PROVE  TypeOK' /\ Standing'
  BY <1>1 DEF Reevaluate, TypeOK, Standing
<1>2. ASSUME NEW spec \in Version \cup Tag, GetVersion(spec)
      PROVE  TypeOK' /\ Standing'
  <2>1. answer' = Answer(spec)
    BY <1>2 DEF GetVersion
  <2>2. \A s : Answer(s)' = Answer(s)
    BY <1>2, SameAnswers DEF GetVersion
  <2>3. TypeOK'
    <3>1. /\ answer'.status \in {"found", "version_withheld", "version_not_found"}
          /\ answer'.version \in versions \cup {None}
      BY <2>1, AnswerShape
    <3>2. UNCHANGED <<downgrade, versions, tags, withheld>>
      BY <1>2 DEF GetVersion
    <3> QED
      BY <3>1, <3>2 DEF TypeOK
  <2> QED
    BY <2>1, <2>2, <2>3, AnswerShape DEF Standing
<1>3. ASSUME UNCHANGED vars
      PROVE  TypeOK' /\ Standing'
  <2>1. \A s : Answer(s)' = Answer(s)
    BY <1>3, SameAnswers DEF vars
  <2> QED
    BY <1>3, <2>1 DEF vars, TypeOK, Standing
<1> QED
  BY <1>1, <1>2, <1>3 DEF Next

(* The inductive invariant of the endpoint.                                 *)
LEMMA Invariant == Spec => [](TypeOK /\ Standing)
<1>1. Init => TypeOK /\ Standing
  BY DEF Init, TypeOK, Standing
<1>2. TypeOK /\ Standing /\ [Next]_vars => (TypeOK /\ Standing)'
  BY StandingHolds
<1> QED
  BY <1>1, <1>2, PTL DEF Spec

(* Every state of an evaluated document and its last answer is well typed.  *)
THEOREM TypeCorrect == Spec => []TypeOK
BY Invariant, PTL

(* Without the opt-in no client is moved onto a version it did not ask for. *)
THEOREM Redirects == Spec => []NeverRedirected
<1>1. ASSUME TypeOK, Standing
      PROVE  NeverRedirected
  <2> SUFFICES ASSUME ~downgrade, answer # None, answer.status # "version_not_found"
               PROVE  answer.version = Upstream(answer.spec)
    BY DEF NeverRedirected
  <2> DEFINE spec == answer.spec
             target == ResolveSpec(spec)
  <2>1. spec \in Version \cup Tag /\ answer = Answer(spec)
    BY <1>1 DEF Standing
  <2> HIDE DEF spec
  <2>2. ASSUME target \in Surviving
        PROVE  answer.version = Upstream(spec)
    <3>1. answer.version = target
      BY <2>1, <2>2 DEF Answer
    <3> QED
      BY <1>1, <2>1, <2>2, <3>1, ResolutionAssumption
         DEF ResolveSpec, Upstream, FilteredTags, Surviving, TypeOK
  <2>3. ASSUME target \notin Surviving
        PROVE  answer.version = Upstream(spec)
    <3>1. answer.version = (IF target = None THEN spec ELSE target) /\ answer.version \in withheld
      BY <2>1, <2>3 DEF Answer
    <3> QED
      BY <1>1, <2>1, <2>3, <3>1, ResolutionAssumption
         DEF ResolveSpec, Upstream, FilteredTags, Surviving, TypeOK
  <2>4. answer.version = Upstream(spec)
    BY <2>2, <2>3
  <2> QED
    BY <2>4 DEF spec
<1> QED
  BY Invariant, <1>1, PTL

(* Without the opt-in a version that is told not to exist does not.         *)
THEOREM NotFoundTrue == Spec => []NotFoundIsTrue
<1>1. ASSUME TypeOK, Standing
      PROVE  NotFoundIsTrue
  <2> SUFFICES ASSUME ~downgrade, answer # None, answer.status = "version_not_found"
               PROVE  Upstream(answer.spec) \notin versions
    BY DEF NotFoundIsTrue
  <2> DEFINE spec == answer.spec
             target == ResolveSpec(spec)
  <2>1. spec \in Version \cup Tag /\ answer = Answer(spec)
    BY <1>1 DEF Standing
  <2> HIDE DEF spec
  <2>2. /\ target \notin Surviving
        /\ (IF target = None THEN spec ELSE target) \notin withheld
    BY <2>1 DEF Answer
  <2>3. Upstream(spec) \notin versions
    BY <1>1, <2>1, <2>2, ResolutionAssumption
       DEF ResolveSpec, Upstream, FilteredTags, Surviving, TypeOK
  <2> QED
    BY <2>3 DEF spec
<1> QED
  BY Invariant, <1>1, PTL

(* The tags a response names as withheld are those a client that asks for   *)
(* them is told about, with the opt-in or without.                          *)
THEOREM TagsExplained == Spec => []WithheldTagsExplained
<1>1. ASSUME TypeOK
      PROVE  WithheldTagsExplained
  <2> SUFFICES ASSUME NEW t \in Tag
               PROVE  t \in WithheldTags <=> Answer(t).status = "version_withheld"
    BY DEF WithheldTagsExplained
  <2>1. t \notin versions /\ t \notin withheld /\ None \notin withheld
    BY <1>1, ResolutionAssumption DEF TypeOK
  <2>2. ResolveSpec(t) = IF t \in DOMAIN FilteredTags THEN FilteredTags[t] ELSE None
    BY <2>1 DEF ResolveSpec, Surviving
  <2>3. Answer(t).status = "version_withheld" <=>
          /\ ResolveSpec(t) \notin Surviving
          /\ (IF ResolveSpec(t) = None THEN t ELSE ResolveSpec(t)) \in withheld
    BY DEF Answer
  <2> QED
    BY <2>1, <2>2, <2>3 DEF WithheldTags, Surviving
<1> QED
  BY TypeCorrect, <1>1, PTL

-----------------------------------------------------------------------------

(* A write is on its way only where it may be, and has its row before it    *)
(* goes: between the row and the relay the count of rows is ahead.          *)
Owed ==
  /\ rows \in Nat /\ relayed \in Nat
  /\ relayed <= rows
  /\ relayed > 0 => optIn
  /\ stage = "audit" => optIn
  /\ stage = "relay" /\ IsWrite => optIn /\ relayed < rows

(* No step of a handler, and no client that leaves, breaks it.              *)
LEMMA OwedHolds ==
  ASSUME Owed, [RoutingNext]_<<docVars, routingVars>>
  PROVE  Owed'
<1>1. ASSUME NEW method \in Methods, NEW path \in Paths, Receive(method, path)
      PROVE  Owed'
  <2> DEFINE route == Classify(path)
             next == NextStage(method, route)
  <2>1. next = "audit" => optIn
    BY DEF NextStage
  <2>2. next = "relay" => ~IsMutating(method, route)
    BY DEF NextStage
  <2>3. UNCHANGED <<optIn, rows, relayed>>
    BY <1>1 DEF Receive
  <2>4. \/ stage' = "idle"
        \/ /\ stage' = next
           /\ request' = [method |-> method, path |-> path, route |-> route]
    BY <1>1 DEF Receive, Replies
  <2>5. stage' = "relay" => ~IsWrite'
    BY <2>2, <2>4 DEF IsWrite
  <2> QED
    BY <2>1, <2>3, <2>4, <2>5 DEF Owed
<1>2. ASSUME AuditPublish
      PROVE  Owed'
  BY <1>2 DEF AuditPublish, Owed
<1>3. ASSUME AuditFails
      PROVE  Owed'
  BY <1>3 DEF AuditFails, AfterAuditFailure, Replies, Owed
<1>4. ASSUME Relay
      PROVE  Owed'
  BY <1>4 DEF Relay, Replies, Owed
<1>5. ASSUME Fetch
      PROVE  Owed'
  BY <1>5 DEF Fetch, Replies, Owed
<1>6. ASSUME Disconnect
      PROVE  Owed'
  BY <1>6 DEF Disconnect, Replies, Owed
<1>7. ASSUME UNCHANGED <<docVars, routingVars>>
      PROVE  Owed'
  BY <1>7 DEF routingVars, Owed, IsWrite
<1> QED
  BY <1>1, <1>2, <1>3, <1>4, <1>5, <1>6, <1>7 DEF RoutingNext

(* No write reaches upstream without the operator's opt-in and its own row  *)
(* in the audit log, whoever leaves and whatever fails meanwhile.           *)
THEOREM Accounted == RoutingSpec => []WritesAccounted
<1>1. RoutingInit => Owed
  BY DEF RoutingInit, Owed
<1>2. Owed /\ [RoutingNext]_<<docVars, routingVars>> => Owed'
  BY OwedHolds
<1>3. Owed => WritesAccounted
  BY DEF Owed, WritesAccounted
<1> QED
  BY <1>1, <1>2, <1>3, PTL DEF RoutingSpec

(* The type invariant: a handler has a request exactly as long as it has    *)
(* something to do, and the bound on writes is the rows' and the relays'.   *)
THEOREM RoutingTypeCorrect == RoutingSpec => []RoutingTypeOK
<1> DEFINE Bounded ==
             /\ stage = "audit" => rows < MaxWrites
             /\ rows <= MaxWrites
           IInv == RoutingTypeOK /\ Owed /\ Bounded
<1>1. RoutingInit => IInv
  BY RoutingAssumption DEF RoutingInit, RoutingTypeOK, Owed
<1>2. IInv /\ [RoutingNext]_<<docVars, routingVars>> => IInv'
  <2> SUFFICES ASSUME RoutingTypeOK, Owed, Bounded, [RoutingNext]_<<docVars, routingVars>>
               PROVE  RoutingTypeOK' /\ Bounded'
    BY OwedHolds
  <2>1. MaxWrites \in Nat /\ rows \in Nat /\ relayed \in Nat /\ relayed <= rows
    BY RoutingAssumption DEF Owed
  <2>2. ASSUME NEW method \in Methods, NEW path \in Paths, Receive(method, path)
        PROVE  RoutingTypeOK' /\ Bounded'
    <3> DEFINE route == Classify(path)
               next == NextStage(method, route)
               new == [method |-> method, path |-> path, route |-> route]
    <3>1. new \in Request
      BY DEF Request
    <3>2. next \in {"invalid_path", "publish_refused", "audit", "relay", "fetch"}
      BY DEF NextStage
    <3>3. /\ next = "audit" => rows + relayed < MaxWrites
          /\ \/ stage' = "idle" /\ request' = None
             \/ /\ next \notin {"invalid_path", "publish_refused"}
                /\ stage' = next /\ request' = new
          /\ UNCHANGED <<rows, relayed>>
      BY <2>2, Zenon DEF Receive, Replies
    <3> HIDE DEF next, new
    <3>4. Bounded'
      BY <2>1, <3>2, <3>3
    <3>5. RoutingTypeOK'
      BY <3>1, <3>2, <3>3, RequestAssumption DEF RoutingTypeOK
    <3> QED
      BY <3>4, <3>5
  <2>3. CASE AuditPublish
    BY <2>1, <2>3 DEF AuditPublish, RoutingTypeOK
  <2>4. CASE AuditFails
    BY <2>4 DEF AuditFails, AfterAuditFailure, Replies, RoutingTypeOK
  <2>5. CASE Relay
    <3>1. /\ stage' = "idle" /\ request' = None /\ rows' = rows
          /\ relayed' = relayed \/ relayed' = relayed + 1
      BY <2>1, <2>5 DEF Relay, Replies
    <3>2. relayed' <= rows' /\ relayed' \in Nat
      BY OwedHolds DEF Owed
    <3> QED
      BY <2>1, <3>1, <3>2 DEF RoutingTypeOK
  <2>6. CASE Fetch
    BY <2>6 DEF Fetch, Replies, RoutingTypeOK
  <2>7. CASE Disconnect
    BY <2>1, <2>7 DEF Disconnect, Replies, RoutingTypeOK
  <2>8. CASE UNCHANGED <<docVars, routingVars>>
    BY <2>8 DEF routingVars, RoutingTypeOK
  <2> QED
    BY <2>2, <2>3, <2>4, <2>5, <2>6, <2>7, <2>8 DEF RoutingNext
<1>3. IInv => RoutingTypeOK
  OBVIOUS
<1> QED
  BY <1>1, <1>2, <1>3, PTL DEF RoutingSpec

-----------------------------------------------------------------------------
(* Induction up to a natural number, of a set.                              *)
LEMMA UpTo ==
  ASSUME NEW n \in Nat, NEW T, 0 \in T,
         \A k \in 0..n : k < n /\ k \in T => k + 1 \in T
  PROVE  \A k \in 0..n : k \in T
<1> DEFINE Missing == {k \in 0..n : k \notin T}
<1> SUFFICES ASSUME Missing # {}
             PROVE  FALSE
  OBVIOUS
<1>1. Missing \subseteq Nat
  OBVIOUS
<1>2. PICK x \in Missing : \A y \in Missing : ~ (<<y, x>> \in OpToRel(<, Nat))
  <2> HIDE DEF Missing
  <2> QED
    BY <1>1, NatLessThanWellFounded, WFMin
<1>3. \A y \in Missing : ~(y < x)
  BY <1>1, <1>2 DEF OpToRel
<1>4. x \in 1..n /\ x - 1 \notin Missing
  BY <1>3
<1> QED
  BY <1>4

(* `g` is what the recursion from `base` by `step` makes of 0..m.           *)
Computes(g, m, S, base, step) ==
  /\ g \in [0..m -> S]
  /\ g[0] = base
  /\ \A i \in 1..m : g[i] = step[i][g[i - 1]]

(* A function defined by recursion up to a natural number exists.           *)
LEMMA Recursion ==
  ASSUME NEW n \in Nat, NEW S, NEW base \in S, NEW step \in [1..n -> [S -> S]]
  PROVE  \E g : Computes(g, n, S, base, step)
<1> DEFINE T == {m \in 0..n : \E g : Computes(g, m, S, base, step)}
<1>1. 0 \in T
  <2> DEFINE g == [i \in 0..0 |-> base]
  <2>1. g \in [0..0 -> S] /\ g[0] = base
    OBVIOUS
  <2>2. Computes(g, 0, S, base, step)
    BY <2>1 DEF Computes
  <2> QED
    BY <2>2
<1>2. ASSUME NEW m \in 0..n, m < n, m \in T
      PROVE  m + 1 \in T
  <2>1. PICK g : Computes(g, m, S, base, step)
    BY <1>2
  <2>2. m \in Nat /\ g[m] \in S /\ step[m + 1] \in [S -> S]
    BY <1>2, <2>1 DEF Computes
  <2> DEFINE top == step[m + 1][g[m]]
  <2>3. top \in S
    BY <2>2
  <2> HIDE DEF top
  <2> DEFINE h == [i \in 0..(m + 1) |-> IF i = m + 1 THEN top ELSE g[i]]
  <2>4. h \in [0..(m + 1) -> S]
    BY <2>1, <2>2, <2>3 DEF Computes
  <2>5. h[0] = base /\ h[m + 1] = top /\ \A i \in 0..m : h[i] = g[i]
    BY <2>1, <2>2 DEF Computes
  <2> HIDE DEF h
  <2>6. ASSUME NEW i \in 1..(m + 1)
        PROVE  h[i] = step[i][h[i - 1]]
    <3>1. CASE i = m + 1
      <4>1. h[i - 1] = g[m]
        BY <2>2, <2>5, <3>1
      <4> QED
        BY <2>5, <3>1, <4>1 DEF top
    <3>2. CASE i # m + 1
      <4>1. i \in 1..m /\ i \in 0..m /\ i - 1 \in 0..m
        BY <2>2, <3>2
      <4>2. g[i] = step[i][g[i - 1]]
        BY <2>1, <4>1 DEF Computes
      <4> QED
        BY <2>5, <4>1, <4>2
    <3> QED
      BY <3>1, <3>2
  <2>7. Computes(h, m + 1, S, base, step)
    BY <2>4, <2>5, <2>6 DEF Computes
  <2> QED
    BY <1>2, <2>7
<1>3. \A k \in 0..n : k \in T
  <2> HIDE DEF T
  <2> QED
    BY <1>1, <1>2, UpTo
<1> QED
  BY <1>3

(* A segment with no backslash in it.                                       *)
Plain == {segment \in Segment : Backslash \notin ToSet(segment)}

(* A sequence is built of its first terms, one after the other.             *)
Built(S, s) ==
  /\ SubSeq(s, 1, 0) = <<>> /\ SubSeq(s, 1, Len(s)) = s
  /\ \A i \in 0..Len(s) : SubSeq(s, 1, i) \in Seq(S)
  /\ \A i \in 1..Len(s) : /\ SubSeq(s, 1, i - 1) \in Seq(S)
                          /\ SubSeq(s, 1, i) = Append(SubSeq(s, 1, i - 1), s[i])

LEMMA FirstTerms ==
  ASSUME NEW S, NEW s \in Seq(S)
  PROVE  Built(S, s)
<1>1. ASSUME NEW i \in 0..Len(s)
      PROVE  SubSeq(s, 1, i) \in Seq(S)
  OBVIOUS
<1>2. ASSUME NEW i \in 1..Len(s)
      PROVE  SubSeq(s, 1, i) = Append(SubSeq(s, 1, i - 1), s[i])
  OBVIOUS
<1>3. \A i \in 1..Len(s) : i - 1 \in 0..Len(s)
  OBVIOUS
<1>4. SubSeq(s, 1, 0) = <<>> /\ SubSeq(s, 1, Len(s)) = s
  OBVIOUS
<1> QED
  BY <1>1, <1>2, <1>3, <1>4 DEF Built

(* Two functions that one recursion defines are the same.                   *)
LEMMA Alike ==
  ASSUME NEW n \in Nat, NEW f, NEW g, f[0] = g[0],
         \A i \in 1..n : f[i - 1] = g[i - 1] => f[i] = g[i]
  PROVE  f[n] = g[n]
<1> DEFINE T == {i \in 0..n : f[i] = g[i]}
<1>1. 0 \in T
  OBVIOUS
<1>2. ASSUME NEW k \in 0..n, k < n, k \in T
      PROVE  k + 1 \in T
  <2>1. k + 1 \in 1..n /\ k + 1 \in 0..n /\ (k + 1) - 1 = k
    BY <1>2
  <2> QED
    BY <1>2, <2>1
<1>3. \A k \in 0..n : k \in T
  <2> HIDE DEF T
  <2> QED
    BY <1>1, <1>2, UpTo, Zenon
<1> QED
  BY <1>3

(* A segment without a backslash is one part.                               *)
LEMMA OnePart ==
  ASSUME NEW segment \in Plain
  PROVE  Parts(segment) = <<segment>>
<1> DEFINE n == Len(segment)
           Step(i, p) == IF segment[i] = Backslash THEN Append(p, <<>>)
                         ELSE Append(Front(p), Append(Last(p), segment[i]))
           f == CHOOSE f : f = [i \in 0..n |-> IF i = 0 THEN <<<<>>>>
                                 ELSE IF segment[i] = Backslash THEN Append(f[i - 1], <<>>)
                                 ELSE Append(Front(f[i - 1]), Append(Last(f[i - 1]), segment[i]))]
           g == [i \in 0..n |-> <<SubSeq(segment, 1, i)>>]
<1>1. segment \in Seq(STRING) /\ n \in Nat /\ \A i \in 1..n : segment[i] # Backslash
  BY DEF Plain, Segment, ToSet
<1>0. Built(STRING, segment)
  BY <1>1, FirstTerms
<1>2. Parts(segment) = f[n]
  BY DEF Parts
<1>3. (\E h : h = [i \in 0..n |-> IF i = 0 THEN <<<<>>>> ELSE Step(i, h[i - 1])])
        => f = [i \in 0..n |-> IF i = 0 THEN <<<<>>>> ELSE Step(i, f[i - 1])]
  OBVIOUS
<1> HIDE DEF f
<1>4. ASSUME NEW i \in 1..n
      PROVE  g[i] = Step(i, g[i - 1])
  <2> DEFINE q == SubSeq(segment, 1, i - 1)
  <2>1. q \in Seq(STRING) /\ SubSeq(segment, 1, i) = Append(q, segment[i])
    BY <1>0 DEF Built
  <2>2. i - 1 \in 0..n /\ i \in 0..n
    BY <1>1
  <2>3. g[i - 1] = <<q>> /\ g[i] = <<SubSeq(segment, 1, i)>>
    BY <2>2
  <2> HIDE DEF q, g
  <2>4. Front(<<q>>) = <<>> /\ Last(<<q>>) = q
    BY DEF Front, Last
  <2>5. Append(<<>>, Append(q, segment[i])) = <<Append(q, segment[i])>>
    OBVIOUS
  <2> QED
    BY <1>1, <2>1, <2>3, <2>4, <2>5
<1>5. g[0] = <<<<>>>> /\ g[n] = <<segment>>
  BY <1>0, <1>1 DEF Built
<1>e. g = [i \in 0..n |-> g[i]]
  OBVIOUS
<1> HIDE DEF Step, g, n
<1>6. g = [i \in 0..n |-> IF i = 0 THEN <<<<>>>> ELSE Step(i, g[i - 1])]
  <2> DEFINE Body(i) == IF i = 0 THEN <<<<>>>> ELSE Step(i, g[i - 1])
  <2>1. ASSUME NEW i \in 0..n
        PROVE  g[i] = Body(i)
    <3>1. CASE i = 0
      BY <1>5, <3>1
    <3>2. CASE i # 0
      <4>1. i \in 1..n
        BY <1>1, <3>2
      <4> QED
        BY <1>4, <3>2, <4>1
    <3> QED
      BY <3>1, <3>2
  <2> HIDE DEF Body
  <2>2. g = [i \in 0..n |-> Body(i)]
    BY <1>e, <2>1
  <2> QED
    BY <2>2 DEF Body
<1>7. f = [i \in 0..n |-> IF i = 0 THEN <<<<>>>> ELSE Step(i, f[i - 1])]
  BY <1>3, <1>6
<1>8. f[0] = g[0] /\ \A i \in 1..n : f[i] = Step(i, f[i - 1])
  BY <1>1, <1>5, <1>7
<1>9. f[n] = g[n]
  <2>1. \A i \in 1..n : f[i - 1] = g[i - 1] => f[i] = g[i]
    BY <1>4, <1>8
  <2> QED
    BY <1>1, <1>8, <2>1, Alike
<1> QED
  BY <1>2, <1>5, <1>9

(* A path without one is split where classify splits it.                    *)
LEMMA SplitAlike ==
  ASSUME NEW path \in Seq(Plain)
  PROVE  Resplit(path) = path
<1> DEFINE n == Len(path)
           Step(i, p) == p \o Parts(path[i])
           f == CHOOSE f : f = [i \in 0..n |-> IF i = 0 THEN <<>> ELSE f[i - 1] \o Parts(path[i])]
           g == [i \in 0..n |-> SubSeq(path, 1, i)]
<1>1. n \in Nat /\ \A i \in 1..n : path[i] \in Plain
  OBVIOUS
<1>0. Built(Plain, path)
  BY FirstTerms
<1>2. Resplit(path) = f[n]
  BY DEF Resplit
<1>3. (\E h : h = [i \in 0..n |-> IF i = 0 THEN <<>> ELSE Step(i, h[i - 1])])
        => f = [i \in 0..n |-> IF i = 0 THEN <<>> ELSE Step(i, f[i - 1])]
  OBVIOUS
<1> HIDE DEF f
<1>4. ASSUME NEW i \in 1..n
      PROVE  g[i] = Step(i, g[i - 1])
  <2> DEFINE q == SubSeq(path, 1, i - 1)
  <2>1. q \in Seq(Plain) /\ SubSeq(path, 1, i) = Append(q, path[i])
    BY <1>0 DEF Built
  <2>2. i - 1 \in 0..n /\ i \in 0..n
    BY <1>1
  <2>3. g[i - 1] = q /\ g[i] = SubSeq(path, 1, i)
    BY <2>2
  <2>4. path[i] \in Plain /\ Parts(path[i]) = <<path[i]>>
    BY <1>1, OnePart
  <2> HIDE DEF q, g
  <2>5. q \o <<path[i]>> = Append(q, path[i])
    BY <2>1, <2>4
  <2> QED
    BY <2>1, <2>3, <2>4, <2>5
<1>5. g[0] = <<>> /\ g[n] = path
  BY <1>0, <1>1 DEF Built
<1>e. g = [i \in 0..n |-> g[i]]
  OBVIOUS
<1> HIDE DEF Step, g, n
<1>6. g = [i \in 0..n |-> IF i = 0 THEN <<>> ELSE Step(i, g[i - 1])]
  <2> DEFINE Body(i) == IF i = 0 THEN <<>> ELSE Step(i, g[i - 1])
  <2>1. ASSUME NEW i \in 0..n
        PROVE  g[i] = Body(i)
    <3>1. CASE i = 0
      BY <1>5, <3>1
    <3>2. CASE i # 0
      <4>1. i \in 1..n
        BY <1>1, <3>2
      <4> QED
        BY <1>4, <3>2, <4>1
    <3> QED
      BY <3>1, <3>2
  <2> HIDE DEF Body
  <2>2. g = [i \in 0..n |-> Body(i)]
    BY <1>e, <2>1
  <2> QED
    BY <2>2 DEF Body
<1>7. f = [i \in 0..n |-> IF i = 0 THEN <<>> ELSE Step(i, f[i - 1])]
  BY <1>3, <1>6
<1>8. f[0] = g[0] /\ \A i \in 1..n : f[i] = Step(i, f[i - 1])
  BY <1>1, <1>5, <1>7
<1>9. f[n] = g[n]
  <2>1. \A i \in 1..n : f[i - 1] = g[i - 1] => f[i] = g[i]
    BY <1>4, <1>8
  <2> QED
    BY <1>1, <1>8, <2>1, Alike
<1> QED
  BY <1>2, <1>5, <1>9

(* A path without dot segments keeps them all.                              *)
LEMMA CollapsedAlike ==
  ASSUME NEW path \in Seq(Plain), \A i \in 1..Len(path) : ~IsDotSegment(path[i])
  PROVE  Collapsed(path) = path
<1> DEFINE n == Len(path)
           Step(i, p) == CASE i = 0 -> <<>>
                           [] i > 0 /\ path[i] = <<".">> -> p
                           [] i > 0 /\ path[i] = <<"..">> -> IF p = <<>> THEN <<>> ELSE Front(p)
                           [] OTHER -> Append(p, path[i])
           f == CHOOSE f : f = [i \in 0..n |->
                  CASE i = 0 -> <<>>
                    [] i > 0 /\ path[i] = <<".">> -> f[i - 1]
                    [] i > 0 /\ path[i] = <<"..">> ->
                         IF f[i - 1] = <<>> THEN <<>> ELSE Front(f[i - 1])
                    [] OTHER -> Append(f[i - 1], path[i])]
           g == [i \in 0..n |-> SubSeq(path, 1, i)]
<1>1. n \in Nat /\ \A i \in 1..n : path[i] # <<".">> /\ path[i] # <<"..">>
  <2>1. n \in Nat
    OBVIOUS
  <2>2. \A i \in 1..n : path[i] \notin {<<".">>, <<"..">>}
    BY Zenon DEF IsDotSegment
  <2> QED
    BY <2>1, <2>2
<1>0. Built(Plain, path)
  BY FirstTerms
<1>2. Collapsed(path) = f[n]
  BY DEF Collapsed
<1>3. (\E h : h = [i \in 0..n |-> Step(i, h[i - 1])]) => f = [i \in 0..n |-> Step(i, f[i - 1])]
  OBVIOUS
<1> HIDE DEF f
<1>4. ASSUME NEW i \in 1..n
      PROVE  g[i] = Step(i, g[i - 1])
  <2> DEFINE q == SubSeq(path, 1, i - 1)
  <2>1. q \in Seq(Plain) /\ SubSeq(path, 1, i) = Append(q, path[i])
    BY <1>0 DEF Built
  <2>2. i - 1 \in 0..n /\ i \in 0..n /\ i > 0
    BY <1>1
  <2>3. g[i - 1] = q /\ g[i] = SubSeq(path, 1, i)
    BY <2>2
  <2> HIDE DEF q, g
  <2>4. Step(i, q) = Append(q, path[i])
    BY <1>1, <2>2
  <2> HIDE DEF Step
  <2> QED
    BY <2>1, <2>3, <2>4
<1>5. g[0] = <<>> /\ g[n] = path
  BY <1>0, <1>1 DEF Built
<1>6. \A p : Step(0, p) = <<>>
  OBVIOUS
<1>e. g = [i \in 0..n |-> g[i]]
  OBVIOUS
<1> HIDE DEF Step, g, n
<1>7. g = [i \in 0..n |-> Step(i, g[i - 1])]
  <2> DEFINE Body(i) == Step(i, g[i - 1])
  <2>1. ASSUME NEW i \in 0..n
        PROVE  g[i] = Body(i)
    <3>1. CASE i = 0
      BY <1>5, <1>6, <3>1
    <3>2. CASE i # 0
      <4>1. i \in 1..n
        BY <1>1, <3>2
      <4> QED
        BY <1>4, <4>1
    <3> QED
      BY <3>1, <3>2
  <2> HIDE DEF Body
  <2>2. g = [i \in 0..n |-> Body(i)]
    BY <1>e, <2>1
  <2> QED
    BY <2>2 DEF Body
<1>8. f = [i \in 0..n |-> Step(i, f[i - 1])]
  BY <1>3, <1>7
<1>9. f[0] = g[0] /\ \A i \in 1..n : f[i] = Step(i, f[i - 1])
  BY <1>1, <1>5, <1>6, <1>8
<1>10. f[n] = g[n]
  <2>1. \A i \in 1..n : f[i - 1] = g[i - 1] => f[i] = g[i]
    BY <1>4, <1>9
  <2> QED
    BY <1>1, <1>9, <2>1, Alike
<1> QED
  BY <1>2, <1>5, <1>10
(* What Words computes, from the left.                                      *)
LEMMA WordsOf ==
  ASSUME NEW path \in Seq(Segment)
  PROVE  \E w \in [0..Len(path) -> Segment] :
           /\ w[0] = <<>>
           /\ \A i \in 1..Len(path) : w[i] = w[i - 1] \o path[i]
           /\ Words(path) = w[Len(path)]
<1> DEFINE n == Len(path)
           w == CHOOSE w : w = [i \in 0..n |-> IF i = 0 THEN <<>> ELSE w[i - 1] \o path[i]]
           step == [i \in 1..n |-> [words \in Segment |-> words \o path[i]]]
<1>1. n \in Nat /\ \A i \in 1..n : path[i] \in Segment
  OBVIOUS
<1>2. <<>> \in Segment /\ \A a, b \in Segment : a \o b \in Segment
  BY DEF Segment
<1>3. step \in [1..n -> [Segment -> Segment]]
  BY <1>1, <1>2
<1>4. PICK g : Computes(g, n, Segment, <<>>, step)
  <2> HIDE DEF step, n
  <2> QED
    BY <1>1, <1>2, <1>3, Recursion
<1>5. \A i \in 1..n : g[i] = g[i - 1] \o path[i]
  <2>1. ASSUME NEW i \in 1..n
        PROVE  g[i] = g[i - 1] \o path[i]
    <3>1. g[i] = step[i][g[i - 1]]
      <4> HIDE DEF step, n
      <4> QED
        BY <1>4, <2>1 DEF Computes
    <3>2. i - 1 \in 0..n
      BY <1>1, <2>1
    <3>3. g[i - 1] \in Segment
      <4> HIDE DEF step, n
      <4> QED
        BY <1>4, <3>2 DEF Computes
    <3>4. step[i] = [words \in Segment |-> words \o path[i]]
      BY <2>1
    <3> HIDE DEF step
    <3> QED
      BY <3>1, <3>3, <3>4
  <2> QED
    BY <2>1
<1>6. g \in [0..n -> Segment] /\ g[0] = <<>>
  BY <1>4 DEF Computes
<1> HIDE DEF step
<1>7. g = [i \in 0..n |-> IF i = 0 THEN <<>> ELSE g[i - 1] \o path[i]]
  BY <1>1, <1>5, <1>6
<1>8. w = [i \in 0..n |-> IF i = 0 THEN <<>> ELSE w[i - 1] \o path[i]]
  BY <1>7
<1>9. Words(path) = w[n]
  BY DEF Words
<1> HIDE DEF w
<1>10. w[0] = <<>> /\ \A i \in 1..n : w[i] = w[i - 1] \o path[i]
  BY <1>1, <1>8
<1> DEFINE Typed == {i \in 0..n : w[i] \in Segment}
<1>11. 0 \in Typed /\ \A k \in 0..n : k < n /\ k \in Typed => k + 1 \in Typed
  <2>1. ASSUME NEW k \in 0..n, k < n, w[k] \in Segment
        PROVE  k + 1 \in 0..n /\ w[k + 1] \in Segment
    <3>1. k + 1 \in 1..n /\ (k + 1) - 1 = k
      BY <1>1, <2>1
    <3>2. w[k + 1] = w[k] \o path[k + 1]
      BY <1>10, <3>1
    <3> QED
      BY <1>1, <1>2, <2>1, <3>1, <3>2
  <2> QED
    BY <1>1, <1>2, <1>10, <2>1
<1>12. \A k \in 0..n : k \in Typed
  <2> HIDE DEF Typed
  <2> QED
    BY <1>1, <1>11, UpTo, Zenon
<1>13. \A k \in 0..n : w[k] \in Segment
  BY <1>12
<1> DEFINE body(i) == IF i = 0 THEN <<>> ELSE w[i - 1] \o path[i]
<1>14. w = [i \in 0..n |-> body(i)] /\ \A i \in 0..n : body(i) \in Segment
  <2>1. w = [i \in 0..n |-> body(i)]
    BY <1>8
  <2>2. \A i \in 0..n : w[i] = body(i)
    <3> HIDE DEF body
    <3> QED
      BY <2>1
  <2> QED
    BY <1>13, <2>1, <2>2
<1>15. w \in [0..n -> Segment]
  <2> HIDE DEF body
  <2> QED
    BY <1>14
<1> QED
  BY <1>9, <1>10, <1>15
(* What Segments computes, from the left.                                   *)
Full == Plain \ {<<>>}

LEMMA SegmentsOf ==
  ASSUME NEW path \in Seq(Plain)
  PROVE  \E kept \in [0..Len(path) -> Seq(Full)] :
           /\ kept[0] = <<>>
           /\ \A i \in 1..Len(path) :
                kept[i] = IF path[i] = <<>> THEN kept[i - 1] ELSE Append(kept[i - 1], path[i])
           /\ Segments(path) = kept[Len(path)]
<1> DEFINE n == Len(path)
           kept == CHOOSE kept : kept = [i \in 0..n |->
                     IF i = 0 THEN <<>>
                     ELSE IF path[i] = <<>> THEN kept[i - 1] ELSE Append(kept[i - 1], path[i])]
           Folded(i, segments) == IF path[i] = <<>> THEN segments ELSE Append(segments, path[i])
           step == [i \in 1..n |-> [segments \in Seq(Full) |-> Folded(i, segments)]]
<1>1. n \in Nat /\ \A i \in 1..n : path[i] \in Plain
  OBVIOUS
<1>2. <<>> \in Seq(Full)
  OBVIOUS
<1>3. \A i \in 1..n : \A segments \in Seq(Full) : Folded(i, segments) \in Seq(Full)
  BY <1>1 DEF Full
<1>4. Segments(path) = kept[n]
  BY DEF Segments
<1>5. (\E g : g = [i \in 0..n |-> IF i = 0 THEN <<>> ELSE Folded(i, g[i - 1])])
        => kept = [i \in 0..n |-> IF i = 0 THEN <<>> ELSE Folded(i, kept[i - 1])]
  OBVIOUS
<1> HIDE DEF kept, Folded
<1>6. step \in [1..n -> [Seq(Full) -> Seq(Full)]]
  BY <1>3
<1>7. PICK g : Computes(g, n, Seq(Full), <<>>, step)
  <2> HIDE DEF step, n
  <2> QED
    BY <1>1, <1>2, <1>6, Recursion
<1>8. ASSUME NEW i \in 1..n
      PROVE  g[i] = Folded(i, g[i - 1])
  <2>1. i - 1 \in 0..n /\ g[i - 1] \in Seq(Full)
    BY <1>1, <1>7 DEF Computes
  <2>2. g[i] = step[i][g[i - 1]]
    BY <1>7 DEF Computes
  <2> QED
    BY <2>1, <2>2
<1>9. g \in [0..n -> Seq(Full)] /\ g[0] = <<>>
  BY <1>7 DEF Computes
<1> HIDE DEF step
<1>10. g = [i \in 0..n |-> IF i = 0 THEN <<>> ELSE Folded(i, g[i - 1])]
  BY <1>1, <1>8, <1>9
<1>11. kept = [i \in 0..n |-> IF i = 0 THEN <<>> ELSE Folded(i, kept[i - 1])]
  BY <1>5, <1>10
<1>12. kept[0] = <<>> /\ \A i \in 1..n : kept[i] = Folded(i, kept[i - 1])
  BY <1>1, <1>11
<1> DEFINE Same == {i \in 0..n : kept[i] = g[i]}
<1>13. 0 \in Same /\ \A k \in 0..n : k < n /\ k \in Same => k + 1 \in Same
  <2>1. ASSUME NEW k \in 0..n, k < n, kept[k] = g[k]
        PROVE  k + 1 \in 0..n /\ kept[k + 1] = g[k + 1]
    <3>1. k + 1 \in 1..n /\ (k + 1) - 1 = k
      BY <1>1, <2>1
    <3> QED
      BY <1>8, <1>12, <2>1, <3>1
  <2> QED
    BY <1>1, <1>9, <1>12, <2>1
<1>14. \A k \in 0..n : k \in Same
  <2> HIDE DEF Same
  <2> QED
    BY <1>1, <1>13, UpTo, Zenon
<1>15. kept = g
  BY <1>10, <1>11, <1>14
<1> QED
  BY <1>4, <1>9, <1>12, <1>15 DEF Folded

(* No segment is lost but the empty ones.                                   *)
LEMMA SegmentsHold ==
  ASSUME NEW path \in Seq(Plain), NEW j \in 1..Len(path), path[j] # <<>>
  PROVE  \E m \in DOMAIN Segments(path) : Segments(path)[m] = path[j]
<1> DEFINE n == Len(path)
<1>1. PICK kept \in [0..n -> Seq(Full)] :
         /\ kept[0] = <<>>
         /\ \A i \in 1..n :
              kept[i] = IF path[i] = <<>> THEN kept[i - 1] ELSE Append(kept[i - 1], path[i])
         /\ Segments(path) = kept[n]
  BY SegmentsOf
<1>2. n \in Nat /\ j \in 1..n
  OBVIOUS
<1> DEFINE Holds(i) == j <= i => \E m \in DOMAIN kept[i] : kept[i][m] = path[j]
           Good == {i \in 0..n : Holds(i)}
<1>3. 0 \in Good
  BY <1>2
<1>4. ASSUME NEW k \in 0..n, k < n, k \in Good
      PROVE  k + 1 \in Good
  <2>1. k + 1 \in 1..n /\ (k + 1) - 1 = k /\ k + 1 \in 0..n
    BY <1>2, <1>4
  <2>2. kept[k] \in Seq(Full) /\ kept[k + 1] \in Seq(Full)
    BY <1>1, <2>1
  <2> DEFINE s == kept[k]
             p == path[k + 1]
  <2>3. kept[k + 1] = IF p = <<>> THEN s ELSE Append(s, p)
    BY <1>1, <2>1
  <2> HIDE DEF n
  <2>4. CASE p = <<>>
    <3>1. j # k + 1
      BY <2>4
    <3>2. j <= k + 1 => j <= k
      BY <1>2, <2>1, <3>1
    <3> QED
      BY <1>4, <2>1, <2>3, <2>4, <3>2
  <2>5. CASE p # <<>> /\ j = k + 1
    <3>1. PICK q : q = Append(s, p)
      OBVIOUS
    <3>2. kept[k + 1] = q /\ Len(q) \in DOMAIN q /\ q[Len(q)] = p
      BY <2>2, <2>3, <2>5, <3>1
    <3> QED
      BY <2>1, <2>5, <3>2
  <2>6. CASE p # <<>> /\ j # k + 1
    <3>1. j <= k + 1 => j <= k
      BY <1>2, <2>1, <2>6
    <3>2. \A m \in DOMAIN s : m \in DOMAIN Append(s, p) /\ Append(s, p)[m] = s[m]
      BY <2>2
    <3> QED
      BY <1>4, <2>1, <2>3, <2>6, <3>1, <3>2
  <2> QED
    BY <2>4, <2>5, <2>6
<1>5. \A k \in 0..n : k \in Good
  <2> HIDE DEF Good
  <2> QED
    BY <1>2, <1>3, <1>4, UpTo, Zenon
<1>6. n \in 0..n /\ j <= n
  BY <1>2
<1> QED
  BY <1>1, <1>5, <1>6

(* The words of a path begin with those of its first segment, and there are *)
(* as many as segments, or more.                                            *)
Reads(segments, words) ==
  /\ segments = <<>> => words = <<>>
  /\ Len(segments) = 1 => words = segments[1]
  /\ segments # <<>> =>
       /\ words # <<>> /\ words[1] = segments[1][1]
       /\ Len(words) >= Len(segments[1]) + Len(segments) - 1

LEMMA WordsRead ==
  ASSUME NEW path \in Seq(Plain)
  PROVE  /\ Segments(path) \in Seq(Full)
         /\ Words(path) \in Segment
         /\ Reads(Segments(path), Words(path))
<1> DEFINE n == Len(path)
<1>0. path \in Seq(Segment)
  BY DEF Plain
<1>1. PICK w \in [0..n -> Segment] :
         /\ w[0] = <<>>
         /\ \A i \in 1..n : w[i] = w[i - 1] \o path[i]
         /\ Words(path) = w[n]
  BY <1>0, WordsOf
<1>2. PICK kept \in [0..n -> Seq(Full)] :
         /\ kept[0] = <<>>
         /\ \A i \in 1..n :
              kept[i] = IF path[i] = <<>> THEN kept[i - 1] ELSE Append(kept[i - 1], path[i])
         /\ Segments(path) = kept[n]
  BY SegmentsOf
<1>3. n \in Nat /\ \A i \in 1..n : path[i] \in Plain
  OBVIOUS
<1> DEFINE Good == {i \in 0..n : Reads(kept[i], w[i])}
<1>4. 0 \in Good
  BY <1>1, <1>2, <1>3 DEF Reads
<1>5. ASSUME NEW k \in 0..n, k < n, k \in Good
      PROVE  k + 1 \in Good
  <2> DEFINE p == path[k + 1]
             s == kept[k]
             u == w[k]
  <2>1. k + 1 \in 1..n /\ (k + 1) - 1 = k
    BY <1>3, <1>5
  <2>2. p \in Seq(STRING) /\ s \in Seq(Full) /\ u \in Seq(STRING) /\ Reads(s, u)
    BY <1>3, <1>5, <2>1 DEF Plain, Segment
  <2>3. w[k + 1] = u \o p /\ kept[k + 1] = IF p = <<>> THEN s ELSE Append(s, p)
    BY <1>1, <1>2, <2>1
  <2> HIDE DEF p, s, u
  <2>4. CASE p = <<>>
    BY <2>1, <2>2, <2>3, <2>4
  <2>5. CASE p # <<>>
    <3> DEFINE a == Append(s, p)
               v == u \o p
    <3>1. Len(a) = Len(s) + 1 /\ Len(v) = Len(u) + Len(p) /\ Len(p) >= 1
      BY <2>2, <2>5
    <3>2. CASE s = <<>>
      <4>1. a[1] = p /\ v = p /\ Len(a) = 1
        BY <2>2, <3>2 DEF Reads
      <4> QED
        BY <2>1, <2>2, <2>3, <2>5, <4>1 DEF Reads
    <3>3. CASE s # <<>>
      <4>0. kept[k + 1] = a /\ w[k + 1] = v /\ a \in Seq(Full) /\ v \in Seq(STRING)
        <5>1. p \in Full
          BY <1>3, <2>1, <2>5 DEF Full, p
        <5>2. a \in Seq(Full)
          BY <2>2, <5>1
        <5>3. v \in Seq(STRING)
          BY <2>2
        <5> QED
          BY <2>3, <2>5, <5>2, <5>3
      <4>1. a[1] = s[1] /\ Len(s) >= 1 /\ s[1] \in Segment
        BY <2>2, <3>3 DEF Full, Plain
      <4>2. v[1] = u[1] /\ u # <<>> /\ u[1] = s[1][1] /\ Len(u) >= Len(s[1]) + Len(s) - 1
        BY <2>2, <3>3 DEF Reads
      <4>3. Len(s[1]) \in Nat /\ Len(u) \in Nat /\ Len(p) \in Nat /\ Len(s) \in Nat
        BY <2>2, <4>1 DEF Plain, Segment
      <4> HIDE DEF a, v
      <4>4. Len(v) >= Len(a[1]) + Len(a) - 1
        BY <3>1, <4>1, <4>2, <4>3
      <4>5. Len(a) # 1 /\ a # <<>> /\ v # <<>> /\ v[1] = a[1][1]
        BY <2>2, <3>1, <4>0, <4>1, <4>2, <4>3
      <4>6. Reads(a, v)
        BY <4>4, <4>5 DEF Reads
      <4> QED
        BY <2>1, <4>0, <4>6
    <3> QED
      BY <3>2, <3>3
  <2> QED
    BY <2>4, <2>5
<1>6. \A k \in 0..n : k \in Good
  <2> HIDE DEF Good
  <2> QED
    BY <1>3, <1>4, <1>5, UpTo, Zenon
<1> QED
  BY <1>1, <1>2, <1>3, <1>6

(* Without a backslash, what classify lets pass is not rewritten on its way.*)
LEMMA ReadAlike ==
  ASSUME NEW path \in Seq(Plain), Classify(path).kind = "passthrough"
  PROVE  UrlRead(path) = path
<1>1. ASSUME NEW i \in DOMAIN Segments(path)
      PROVE  ~IsDotSegment(Segments(path)[i])
  BY DEF Classify, Route
<1>2. ASSUME NEW j \in 1..Len(path)
      PROVE  ~IsDotSegment(path[j])
  <2>1. CASE path[j] = <<>>
    BY <2>1 DEF IsDotSegment
  <2>2. CASE path[j] # <<>>
    <3>1. PICK m \in DOMAIN Segments(path) : Segments(path)[m] = path[j]
      BY <2>2, SegmentsHold
    <3>2. ~IsDotSegment(Segments(path)[m])
      BY <1>1
    <3> QED
      BY <3>1, <3>2
  <2> QED
    BY <2>1, <2>2
<1>3. Resplit(path) = path /\ Collapsed(path) = path
  BY <1>2, SplitAlike, CollapsedAlike
<1> QED
  BY <1>3 DEF UrlRead

(* A path that classify lets pass as no package's is none to upstream.      *)
LEMMA PassedIsNoPackage ==
  ASSUME NEW path \in Seq(Plain), Classify(path).kind = "passthrough"
  PROVE  ~ResolvesPackage(path)
<1> DEFINE s == Segments(path)
           words == Words(path)
           name == IF words # <<>> /\ words[1] \in Scopes THEN 2 ELSE 1
<1>1. s \in Seq(Full) /\ words \in Seq(STRING) /\ Reads(s, words)
  BY WordsRead DEF Segment
<1>0. UrlRead(path) = path
  BY ReadAlike
<1>2. \/ Taken(s) = 0
      \/ Taken(s) # 0 /\ Len(s) # Taken(s) /\ Len(s) # Taken(s) + 1
  BY DEF Classify, Route
<1>3. ResolvesPackage(path) <=>
        Len(words) \in {name, name + 1} /\ words[1] \notin Unnameable \cup {"-"}
  BY <1>0 DEF ResolvesPackage
<1> HIDE DEF s, words
<1>4. CASE s = <<>>
  <2>1. Len(words) = 0
    BY <1>1, <1>4 DEF Reads
  <2> QED
    BY <1>3, <2>1
<1>5. CASE s # <<>>
  <2> DEFINE first == s[1]
             count == Len(s)
             wide == Len(first)
             long == Len(words)
  <2>1. first \in Seq(STRING) /\ first # <<>> /\ \A i \in 1..Len(first) : first[i] # Backslash
    BY <1>1, <1>5 DEF Full, Plain, Segment, ToSet
  <2>2. count \in Nat /\ count >= 1 /\ wide \in Nat /\ wide >= 1 /\ long \in Nat
    BY <1>1, <1>5, <2>1
  <2>3. words # <<>> /\ words[1] = first[1] /\ long >= wide + count - 1
    BY <1>1, <1>5 DEF Reads
  <2>4. count = 1 => long = wide
    BY <1>1 DEF Reads
  <2>5. Taken(s) = IF ~IsPackageSegment(first) THEN 0
                   ELSE IF first[1] \in Scopes /\ wide = 1 THEN IF count > 1 THEN 2 ELSE 0
                   ELSE 1
    <3>1. HasSlash(first) <=> wide # 1
      <4>1. wide # 1 => 2 \in 2..Len(first) /\ first[2] # Backslash /\ first[1] # Backslash
        <5>1. wide = Len(first)
          OBVIOUS
        <5> HIDE DEF wide, first
        <5>2. wide # 1 => 2 \in 2..wide /\ 1 \in 1..wide /\ 2 \in 1..wide
          BY <2>2
        <5> QED
          BY <2>1, <5>1, <5>2
      <4>2. wide = 1 => 2..Len(first) = {}
        OBVIOUS
      <4>3. wide # 1 => Backslash \notin {first[2 - 1], first[2]}
        BY <4>1
      <4> HIDE DEF first
      <4> QED
        BY <4>1, <4>2, <4>3 DEF HasSlash
    <3> QED
      BY <1>5, <3>1 DEF Taken
  <2>6. Taken(s) = 0 \/ (count # Taken(s) /\ count # Taken(s) + 1)
    BY <1>2
  <2>7. name = IF first[1] \in Scopes THEN 2 ELSE 1
    BY <2>3
  <2>8. ResolvesPackage(path) =>
          (long = name \/ long = name + 1) /\ first[1] \notin Unnameable \cup {"-"}
    BY <1>3, <2>3
  <2>9. IsPackageSegment(first) <=> first # <<"-">> /\ first[1] \notin Unnameable
    BY <2>1 DEF IsPackageSegment
  <2>10. first = <<"-">> => first[1] = "-"
    OBVIOUS
  <2> HIDE DEF count, wide, long, first, name
  <2>11. CASE ~IsPackageSegment(first)
    BY <2>8, <2>9, <2>10, <2>11
  <2>12. CASE IsPackageSegment(first) /\ first[1] \in Scopes /\ wide = 1
    <3>1. count = 1 \/ count >= 4
      BY <2>2, <2>5, <2>6, <2>12
    <3> QED
      BY <2>2, <2>3, <2>4, <2>7, <2>8, <2>12, <3>1
  <2>13. CASE IsPackageSegment(first) /\ ~(first[1] \in Scopes /\ wide = 1)
    <3>1. count >= 3
      BY <2>2, <2>5, <2>6, <2>13
    <3> QED
      BY <2>2, <2>3, <2>7, <2>8, <2>13, <3>1
  <2> QED
    BY <2>11, <2>12, <2>13
<1> QED
  BY <1>4, <1>5

(* A finite set of numbers has a largest one.                               *)
LEMMA MaxOf ==
  ASSUME NEW S, S \subseteq Nat, IsFiniteSet(S), S # {}
  PROVE  Max(S) \in S
<1>1. PICK n \in Nat : ExistsSurjection(1..n, S)
  BY FS_NatSurjection
<1>2. PICK f \in Surjection(1..n, S) : TRUE
  BY <1>1 DEF ExistsSurjection
<1>3. f \in [1..n -> S] /\ \A x \in S : \E i \in 1..n : f[i] = x
  BY <1>2, Fun_SurjectionProperties DEF Surjection
<1>0. \A x \in S : x \in Nat
  OBVIOUS
<1> DEFINE T == {k \in 0..n : k = 0 \/ \E x \in S : \A i \in 1..k : x >= f[i]}
<1>4. 0 \in T
  OBVIOUS
<1>5. ASSUME NEW k \in 0..n, k < n, k \in T
      PROVE  k + 1 \in T
  <2>1. k + 1 \in 1..n /\ f[k + 1] \in S
    BY <1>3, <1>5
  <2>2. CASE k = 0
    <3>1. \A i \in 1..(k + 1) : f[k + 1] >= f[i]
      <4>1. \A i \in 1..(k + 1) : i = k + 1
        BY <2>2
      <4>2. f[k + 1] \in Nat
        BY <1>0, <2>1
      <4> QED
        BY <4>1, <4>2
    <3>2. k + 1 \in 0..n
      BY <2>1
    <3> QED
      BY <2>1, <3>1, <3>2
  <2>3. CASE k # 0
    <3>1. PICK x \in S : \A i \in 1..k : x >= f[i]
      BY <1>5, <2>3
    <3>2. PICK y \in S : y >= x /\ y >= f[k + 1]
      <4>1. x \in Nat /\ f[k + 1] \in S /\ f[k + 1] \in Nat
        BY <1>0, <2>1
      <4>2. CASE x >= f[k + 1]
        BY <4>1, <4>2
      <4>3. CASE f[k + 1] >= x
        BY <4>1, <4>3
      <4> QED
        BY <4>1, <4>2, <4>3
    <3>3. ASSUME NEW i \in 1..(k + 1)
          PROVE  y >= f[i]
      <4>1. i = k + 1 \/ i \in 1..k
        OBVIOUS
      <4>2. i \in 1..n
        BY <1>5
      <4>3. f[i] \in Nat /\ x \in Nat /\ y \in Nat
        BY <1>0, <1>3, <4>2
      <4> QED
        BY <3>1, <3>2, <4>1, <4>3
    <3>4. k + 1 \in 0..n
      BY <2>1
    <3> QED
      BY <3>3, <3>4
  <2> QED
    BY <2>2, <2>3
<1>6. \A k \in 0..n : k \in T
  <2> HIDE DEF T
  <2> QED
    BY <1>4, <1>5, UpTo, Zenon
<1>7. n # 0
  <2>1. PICK x \in S : TRUE
    OBVIOUS
  <2>2. \E i \in 1..n : f[i] = x
    BY <1>3
  <2> QED
    BY <2>2
<1>8. PICK x \in S : \A i \in 1..n : x >= f[i]
  BY <1>6, <1>7
<1>9. \A y \in S : x >= y
  BY <1>3, <1>8
<1> QED
  BY <1>8, <1>9 DEF Max

(* What is answered from a document is what survives of it.                 *)
LEMMA ServedSurvives ==
  ASSUME versions \subseteq Nat, IsFiniteSet(versions),
         NEW route, route.kind \in {"packument", "version", "dist_tags"}
  PROVE  /\ Served(route).versions \subseteq Surviving
         /\ downgrade => \A t \in DOMAIN Served(route).tags : Served(route).tags[t] \in Surviving
<1>1. ASSUME NEW stable
      PROVE  NewestSurviving(Surviving, stable) \in Surviving \cup {None}
  <2>1. \A S \in SUBSET Surviving : S # {} => Max(S) \in S
    BY MaxOf, FS_Subset DEF Surviving
  <2> QED
    BY <2>1 DEF NewestSurviving
<1>2. downgrade => \A t \in DOMAIN FilteredTags : FilteredTags[t] \in Surviving
  <2> SUFFICES ASSUME downgrade, NEW t \in DOMAIN Repointed
               PROVE  Repointed[t] \in Surviving
    BY DEF FilteredTags
  <2> DEFINE target == IF tags[t] \in Surviving THEN tags[t]
                       ELSE NewestSurviving(Surviving, tags[t] = None \/ tags[t] \in Stable)
  <2>1. Repointed[t] = target /\ target # None
    BY DEF Repointed
  <2>2. target \in Surviving \cup {None}
    BY <1>1
  <2> QED
    BY <2>1, <2>2
<1>3. \A segment : Found(segment) \subseteq Surviving
  BY DEF Found, Answer
<1>4. CASE route.kind = "packument"
  BY <1>2, <1>4 DEF Served, ServedTags
<1>5. CASE route.kind = "version"
  BY <1>3, <1>5 DEF Served
<1>6. CASE route.kind = "dist_tags"
  BY <1>2, <1>6 DEF Served, ServedTags
<1> QED
  BY <1>4, <1>5, <1>6

(* A request at a stage is one that stage is for.                           *)
Bound ==
  /\ versions \subseteq Nat /\ IsFiniteSet(versions)
  /\ stage # "idle" => reply = None
  /\ stage = "audit" => IsWrite
  /\ stage = "fetch" => request.route.kind \in {"packument", "version", "dist_tags"}
  /\ stage = "relay" => \/ IsWrite \/ HasBackslash(request.path)
                        \/ ~ResolvesPackage(request.path)

(* What a step may answer.                                                  *)
Harmless ==
  reply' # None /\ ~(stage = "relay" /\ HasBackslash(request.path)) =>
    /\ reply'.versions \cap withheld' = {}
    /\ downgrade' => \A t \in DOMAIN reply'.tags : reply'.tags[t] \notin withheld'

LEMMA HarmlessReply ==
  ASSUME UNCHANGED docVars,
         \/ reply' = None
         \/ /\ reply'.versions \cap withheld = {}
            /\ downgrade => \A t \in DOMAIN reply'.tags : reply'.tags[t] \notin withheld
  PROVE  Harmless
BY DEF Harmless, docVars

LEMMA ErrorHarmless ==
  ASSUME NEW code, UNCHANGED docVars, Replies(Error(code))
  PROVE  Harmless /\ stage' = "idle"
<1>1. reply'.versions = {} /\ DOMAIN reply'.tags = {} /\ stage' = "idle"
  BY DEF Replies, Error
<1> QED
  BY <1>1, HarmlessReply

(* No step of a handler breaks it.                                          *)
LEMMA BoundHolds ==
  ASSUME Bound, RoutingNext
  PROVE  Bound' /\ Harmless
<1>0. UNCHANGED docVars
  BY DEF RoutingNext, Receive, AuditPublish, AuditFails, Relay, Fetch, Disconnect
<1>d. UNCHANGED <<downgrade, versions, tags, withheld, answer>>
  BY <1>0 DEF docVars
<1>i. ASSUME stage' = "idle"
      PROVE  Bound'
  BY <1>d, <1>i DEF Bound
<1>1. ASSUME NEW method \in Methods, NEW path \in Paths, Receive(method, path)
      PROVE  Bound' /\ Harmless
  <2> DEFINE route == Classify(path)
             next == NextStage(method, route)
  <2>1. CASE next \in {"invalid_path", "publish_refused"}
    BY <1>0, <1>i, <1>1, <2>1, ErrorHarmless DEF Receive
  <2>2. CASE next \notin {"invalid_path", "publish_refused"}
    <3>1. /\ request' = [method |-> method, path |-> path, route |-> route]
          /\ stage' = next /\ reply' = None
      BY <1>1, <2>2 DEF Receive
    <3>2. /\ IsWrite' <=> IsMutating(method, route)
          /\ request'.route = route /\ request'.path = path
      BY <3>1 DEF IsWrite
    <3>3. route.kind \in {"invalid", "passthrough", "packument", "version", "dist_tags"}
      BY DEF Classify, Route, Passthrough
    <3>4. /\ next = "audit" => IsMutating(method, route)
          /\ next = "relay" => route.kind = "passthrough"
          /\ next = "fetch" => route.kind \in {"packument", "version", "dist_tags"}
      <4> HIDE DEF route
      <4> QED
        BY <3>3 DEF NextStage
    <3>5. next = "relay" => HasBackslash(path) \/ ~ResolvesPackage(path)
      <4>1. SUFFICES ASSUME next = "relay", ~HasBackslash(path)
                     PROVE  ~ResolvesPackage(path)
        OBVIOUS
      <4>2. path \in Seq(Segment)
        BY RoutingAssumption
      <4>3. path \in Seq(Plain)
        <5>1. \A i \in 1..Len(path) : path[i] \in Plain
          BY <4>1, <4>2 DEF HasBackslash, Plain
        <5> QED
          BY <4>2, <5>1
      <4> QED
        BY <3>4, <4>1, <4>3, PassedIsNoPackage
    <3> QED
      BY <1>0, <1>d, <3>1, <3>2, <3>4, <3>5, HarmlessReply DEF Bound
  <2> QED
    BY <2>1, <2>2
<1>2. ASSUME AuditPublish
      PROVE  Bound' /\ Harmless
  BY <1>2, <1>d DEF AuditPublish, Bound, IsWrite, Harmless
<1>3. ASSUME AuditFails
      PROVE  Bound' /\ Harmless
  BY <1>0, <1>i, <1>3, ErrorHarmless DEF AuditFails, AfterAuditFailure
<1>4. ASSUME Relay
      PROVE  Bound' /\ Harmless
  <2>1. CASE Replies(Error("upstream_failed"))
    BY <1>0, <1>i, <2>1, ErrorHarmless
  <2>2. CASE Replies(Relayed)
    <3>1. CASE HasBackslash(request.path)
      BY <1>i, <1>4, <2>2, <3>1 DEF Relay, Replies, Harmless
    <3>2. CASE ~HasBackslash(request.path)
      <4>1. Relayed.versions = {} /\ DOMAIN Relayed.tags = {}
        BY <1>4, <3>2 DEF Relay, Relayed, Bound
      <4> QED
        BY <1>0, <1>i, <2>2, <4>1, HarmlessReply DEF Replies
    <3> QED
      BY <3>1, <3>2
  <2> QED
    BY <1>4, <2>1, <2>2 DEF Relay
<1>5. ASSUME Fetch
      PROVE  Bound' /\ Harmless
  <2>1. PICK response \in Responses :
          Replies(IF Fetched(response) = "document" THEN Served(request.route)
                  ELSE Error(Fetched(response)))
    BY <1>5 DEF Fetch
  <2>2. CASE Fetched(response) = "document"
    <3>1. Replies(Served(request.route))
      BY <2>1, <2>2
    <3>2. /\ Served(request.route).versions \subseteq Surviving
          /\ downgrade => \A t \in DOMAIN Served(request.route).tags :
                            Served(request.route).tags[t] \in Surviving
      BY <1>5, ServedSurvives DEF Fetch, Bound
    <3>3. Surviving \cap withheld = {}
      BY DEF Surviving
    <3> QED
      BY <1>0, <1>i, <3>1, <3>2, <3>3, HarmlessReply DEF Replies
  <2>3. CASE Fetched(response) # "document"
    BY <1>0, <1>i, <2>1, <2>3, ErrorHarmless
  <2> QED
    BY <2>2, <2>3
<1>6. ASSUME Disconnect
      PROVE  Bound' /\ Harmless
  BY <1>0, <1>i, <1>6, HarmlessReply DEF Disconnect, Replies
<1> QED
  BY <1>1, <1>2, <1>3, <1>4, <1>5, <1>6 DEF RoutingNext

(* No endpoint or method, and no spelling of a path without a raw backslash,*)
(* brings a client a version the gates withhold, for any paths, of any      *)
(* length, and any finite document.                                         *)
THEOREM NothingWithheld ==
  Init /\ IsFiniteSet(versions) /\ RoutingSpec => NothingWithheldServed
<1>1. Init /\ IsFiniteSet(versions) /\ RoutingInit => Bound
  BY ResolutionAssumption DEF Init, RoutingInit, Bound
<1>2. Bound /\ [RoutingNext]_<<docVars, routingVars>> => Bound' /\ [Harmless]_<<docVars, routingVars>>
  <2>1. ASSUME Bound, UNCHANGED <<docVars, routingVars>>
        PROVE  Bound'
    BY <2>1 DEF docVars, routingVars, Bound, IsWrite
  <2> QED
    BY <2>1, BoundHolds
<1>3. [Harmless]_<<docVars, routingVars>> =>
        [reply' # None /\ ~(stage = "relay" /\ HasBackslash(request.path)) =>
           /\ reply'.versions \cap withheld' = {}
           /\ downgrade' => \A t \in DOMAIN reply'.tags : reply'.tags[t] \notin withheld']_<<
          docVars, routingVars>>
  BY DEF Harmless
<1> QED
  BY <1>1, <1>2, <1>3, PTL DEF RoutingSpec, NothingWithheldServed

-----------------------------------------------------------------------------
(* The seed scan.                                                           *)

(* What the index is, as far as its type.                                   *)
LEMMA AbsorbedIs ==
  ASSUME NEW document \in Seq(Record)
  PROVE  Absorbed(document) \in Seq(Record)
<1> DEFINE n == Len(document)
           S == Seq(Record)
           Folded(i, records) ==
             IF Usable(document[i]) THEN Append(records, document[i]) ELSE records
           kept == CHOOSE kept : kept = [i \in 0..n |->
                     IF i = 0 THEN <<>>
                     ELSE IF Usable(document[i]) THEN Append(kept[i - 1], document[i])
                          ELSE kept[i - 1]]
           step == [i \in 1..n |-> [records \in S |-> Folded(i, records)]]
<1>1. n \in Nat /\ \A i \in 1..n : document[i] \in Record
  OBVIOUS
<1>2. <<>> \in S
  OBVIOUS
<1>3. \A i \in 1..n : \A records \in S : Folded(i, records) \in S
  BY <1>1
<1>4. Absorbed(document) = kept[n]
  BY DEF Absorbed
<1>5. (\E g : g = [i \in 0..n |-> IF i = 0 THEN <<>> ELSE Folded(i, g[i - 1])])
        => kept = [i \in 0..n |-> IF i = 0 THEN <<>> ELSE Folded(i, kept[i - 1])]
  OBVIOUS
<1> HIDE DEF kept, Folded, S
<1>6. step \in [1..n -> [S -> S]]
  BY <1>3
<1>7. PICK g : Computes(g, n, S, <<>>, step)
  <2> HIDE DEF step, n
  <2> QED
    BY <1>1, <1>2, <1>6, Recursion
<1>8. ASSUME NEW i \in 1..n
      PROVE  g[i] = Folded(i, g[i - 1])
  <2>1. i - 1 \in 0..n /\ g[i - 1] \in S
    <3> HIDE DEF n, step
    <3> QED
      BY <1>1, <1>7 DEF Computes
  <2>2. g[i] = step[i][g[i - 1]]
    BY <1>7 DEF Computes
  <2> QED
    BY <2>1, <2>2
<1>9. g \in [0..n -> S] /\ g[0] = <<>>
  BY <1>7 DEF Computes
<1> HIDE DEF step
<1>10. g = [i \in 0..n |-> IF i = 0 THEN <<>> ELSE Folded(i, g[i - 1])]
  BY <1>1, <1>8, <1>9
<1>11. kept = [i \in 0..n |-> IF i = 0 THEN <<>> ELSE Folded(i, kept[i - 1])]
  BY <1>5, <1>10
<1>12. kept[0] = <<>> /\ \A i \in 1..n : kept[i] = Folded(i, kept[i - 1])
  BY <1>1, <1>11
<1> DEFINE T == {i \in 0..n : kept[i] \in S}
<1>13. 0 \in T /\ \A i \in 0..n : i < n /\ i \in T => i + 1 \in T
  <2>1. ASSUME NEW i \in 0..n, i < n, kept[i] \in S
        PROVE  i + 1 \in 0..n /\ kept[i + 1] \in S
    <3>1. i + 1 \in 1..n /\ i + 1 \in 0..n /\ (i + 1) - 1 = i
      BY <1>1, <2>1
    <3> HIDE DEF n
    <3> QED
      BY <1>3, <1>12, <2>1, <3>1
  <2> QED
    BY <1>1, <1>2, <1>12, <2>1
<1>14. \A i \in 0..n : i \in T
  <2> HIDE DEF T, n
  <2> QED
    BY <1>1, <1>13, UpTo, Zenon
<1>15. kept[n] \in S
  BY <1>1, <1>14
<1> QED
  BY <1>4, <1>15 DEF S

(* The index holds the records of the lockfiles.                            *)
LEMMA IndexIs ==
  ASSUME NEW documents \in Seq(Seq(Record))
  PROVE  IndexOf(documents) \in Seq(Record)
<1> DEFINE n == Len(documents)
           S == Seq(Record)
           Folded(i, records) == records \o Absorbed(documents[i])
           kept == CHOOSE kept : kept = [i \in 0..n |->
                     IF i = 0 THEN <<>> ELSE kept[i - 1] \o Absorbed(documents[i])]
           step == [i \in 1..n |-> [records \in S |-> Folded(i, records)]]
<1>1. n \in Nat /\ \A i \in 1..n : documents[i] \in Seq(Record)
  OBVIOUS
<1>2. <<>> \in S
  OBVIOUS
<1>3. \A i \in 1..n : \A records \in S : Folded(i, records) \in S
  <2>1. ASSUME NEW i \in 1..n, NEW records \in S
        PROVE  Folded(i, records) \in S
    <3>1. Absorbed(documents[i]) \in Seq(Record)
      BY <1>1, AbsorbedIs
    <3> QED
      BY <3>1
  <2> QED
    BY <2>1
<1>4. IndexOf(documents) = kept[n]
  BY DEF IndexOf
<1>5. (\E g : g = [i \in 0..n |-> IF i = 0 THEN <<>> ELSE Folded(i, g[i - 1])])
        => kept = [i \in 0..n |-> IF i = 0 THEN <<>> ELSE Folded(i, kept[i - 1])]
  OBVIOUS
<1> HIDE DEF kept, Folded, S
<1>6. step \in [1..n -> [S -> S]]
  BY <1>3
<1>7. PICK g : Computes(g, n, S, <<>>, step)
  <2> HIDE DEF step, n
  <2> QED
    BY <1>1, <1>2, <1>6, Recursion
<1>8. ASSUME NEW i \in 1..n
      PROVE  g[i] = Folded(i, g[i - 1])
  <2>1. i - 1 \in 0..n /\ g[i - 1] \in S
    <3> HIDE DEF n, step
    <3> QED
      BY <1>1, <1>7 DEF Computes
  <2>2. g[i] = step[i][g[i - 1]]
    BY <1>7 DEF Computes
  <2> QED
    BY <2>1, <2>2
<1>9. g \in [0..n -> S] /\ g[0] = <<>>
  BY <1>7 DEF Computes
<1> HIDE DEF step
<1>10. g = [i \in 0..n |-> IF i = 0 THEN <<>> ELSE Folded(i, g[i - 1])]
  BY <1>1, <1>8, <1>9
<1>11. kept = [i \in 0..n |-> IF i = 0 THEN <<>> ELSE Folded(i, kept[i - 1])]
  BY <1>5, <1>10
<1>12. kept[0] = <<>> /\ \A i \in 1..n : kept[i] = Folded(i, kept[i - 1])
  BY <1>1, <1>11
<1> DEFINE T == {i \in 0..n : kept[i] \in S}
<1>13. 0 \in T /\ \A i \in 0..n : i < n /\ i \in T => i + 1 \in T
  <2>1. ASSUME NEW i \in 0..n, i < n, kept[i] \in S
        PROVE  i + 1 \in 0..n /\ kept[i + 1] \in S
    <3>1. i + 1 \in 1..n /\ i + 1 \in 0..n /\ (i + 1) - 1 = i
      BY <1>1, <2>1
    <3> HIDE DEF n
    <3> QED
      BY <1>3, <1>12, <2>1, <3>1
  <2> QED
    BY <1>1, <1>2, <1>12, <2>1
<1>14. \A i \in 0..n : i \in T
  <2> HIDE DEF T, n
  <2> QED
    BY <1>1, <1>13, UpTo, Zenon
<1>15. kept[n] \in S
  BY <1>1, <1>14
<1> QED
  BY <1>4, <1>15 DEF S

(* A directory to visit: its key ends with the name it is installed under.  *)
Place ==
  {v \in [dir : Dir, key : Seq(PackageName), depth : Nat] :
     v.key # <<>> /\ Last(v.key) = DirName[v.dir]}

(* A set of naturals has a least.                                           *)
LEMMA LeastOf ==
  ASSUME NEW I, I \subseteq Nat, I # {}
  PROVE  Min(I) \in I
<1>1. PICK x \in I : \A y \in I : ~ (<<y, x>> \in OpToRel(<, Nat))
  BY NatLessThanWellFounded, WFMin
<1>2. \A y \in I : ~(y < x)
  BY <1>1 DEF OpToRel
<1>3. \A y \in I : x <= y
  BY <1>2
<1> QED
  BY <1>3 DEF Min

(* What the index says of a directory is one of its records of that key.    *)
LEMMA PathRecordIs ==
  ASSUME index \in Seq(Record), NEW key, PathRecord(key) # Unset
  PROVE  \E i \in DOMAIN index : PathRecord(key) = index[i] /\ index[i].key = key
<1> DEFINE I == {i \in 1..Len(index) : index[i].key = key}
<1>1. PathRecord(key) = LET i == IF I # {} THEN Min(I) ELSE 0
                        IN  IF i = 0 THEN Unset ELSE index[i]
  BY DEF PathRecord, First, SelectInSeq
<1>2. I \subseteq Nat /\ I \subseteq 1..Len(index) /\ DOMAIN index = 1..Len(index)
  OBVIOUS
<1>3. \A i \in I : index[i].key = key
  OBVIOUS
<1> HIDE DEF I
<1>4. I # {} /\ PathRecord(key) = index[Min(I)]
  BY <1>1
<1>5. Min(I) \in I
  BY <1>2, <1>4, LeastOf
<1> QED
  BY <1>2, <1>3, <1>4, <1>5

(* What it says of a release is one of its records of that release.         *)
LEMMA ReleaseRecordIs ==
  ASSUME index \in Seq(Record), NEW name, NEW version, ReleaseRecord(name, version) # Unset
  PROVE  \E i \in DOMAIN index : /\ ReleaseRecord(name, version) = index[i]
                                 /\ index[i].version = version
                                 /\ NameOfRecord(index[i]) = name
<1> DEFINE I == {i \in 1..Len(index) :
                   index[i].version = version /\ NameOfRecord(index[i]) = name}
<1>1. ReleaseRecord(name, version) = LET i == IF I # {} THEN Min(I) ELSE 0
                                     IN  IF i = 0 THEN Unset ELSE index[i]
  BY DEF ReleaseRecord, First, SelectInSeq
<1>2. I \subseteq Nat /\ I \subseteq 1..Len(index) /\ DOMAIN index = 1..Len(index)
  OBVIOUS
<1>3. \A i \in I : index[i].version = version /\ NameOfRecord(index[i]) = name
  OBVIOUS
<1> HIDE DEF I
<1>4. I # {} /\ ReleaseRecord(name, version) = index[Min(I)]
  BY <1>1
<1>5. Min(I) \in I
  BY <1>2, <1>4, LeastOf
<1> QED
  BY <1>2, <1>3, <1>4, <1>5

(* What a node_modules lists are directories to visit.                      *)
LEMMA ListedIs ==
  ASSUME NEW nm \in DOMAIN Contents, NEW key \in Seq(PackageName), NEW depth \in Nat
  PROVE  Listed(nm, key, depth) \in Seq(Place)
<1> DEFINE n == Len(Contents[nm])
           visit(i) == [dir |-> Contents[nm][i], key |-> Append(key, DirName[Contents[nm][i]]),
                        depth |-> depth + 1]
<1>1. Contents[nm] \in Seq(Dir)
  BY SeedAssumption
<1>2. n \in Nat /\ DOMAIN Contents[nm] = 1..n /\ \A i \in 1..n : Contents[nm][i] \in Dir
  BY <1>1
<1>3. ASSUME NEW i \in 1..n
      PROVE  visit(i) \in Place
  <2>1. Contents[nm][i] \in Dir /\ DirName[Contents[nm][i]] \in PackageName
    BY <1>2, SeedAssumption
  <2> DEFINE long == Append(key, DirName[Contents[nm][i]])
  <2>2. long \in Seq(PackageName) /\ long # <<>> /\ Last(long) = DirName[Contents[nm][i]]
    BY <2>1 DEF Last
  <2> HIDE DEF long
  <2>3. visit(i) = [dir |-> Contents[nm][i], key |-> long, depth |-> depth + 1]
    BY DEF long
  <2> HIDE DEF visit
  <2> QED
    BY <2>1, <2>2, <2>3 DEF Place
<1>4. Listed(nm, key, depth) = [i \in 1..n |-> visit(i)]
  BY <1>2 DEF Listed
<1> HIDE DEF visit, n
<1> QED
  BY <1>2, <1>3, <1>4

(* And so is what comes next after a visit.                                 *)
LEMMA NextVisitsAre ==
  ASSUME nested \in [Dir -> DOMAIN Contents \cup {Unset}], NEW visit \in Place,
         NEW is
  PROVE  NextVisits(visit, is) \in Seq(Place)
<1>1. visit.dir \in Dir /\ visit.key \in Seq(PackageName) /\ visit.depth + 1 \in Nat
  BY DEF Place
<1>2. CASE ~is.below \/ nested[visit.dir] = Unset \/ IsTooDeep(visit)
  <2>1. NextVisits(visit, is) = <<>>
    BY <1>2 DEF NextVisits, Below
  <2> QED
    BY <2>1
<1>3. CASE ~(~is.below \/ nested[visit.dir] = Unset \/ IsTooDeep(visit))
  <2>1. NextVisits(visit, is) = Listed(nested[visit.dir], visit.key, visit.depth + 1)
    BY <1>3 DEF NextVisits, Below
  <2>2. nested[visit.dir] \in DOMAIN Contents
    BY <1>1, <1>3
  <2> QED
    BY <1>1, <2>1, <2>2, ListedIs
<1> QED
  BY <1>2, <1>3

(* What a visit does to the candidates and says of the package.json.        *)
Added(after, visit, manifest) ==
  /\ manifest \in PackageJson
  /\ IsTrusted(visit.key, manifest)
  /\ \E entry :
       /\ entry.key = visit.key
       /\ entry.pin = Lookup(visit.key, manifest)
       /\ after = [r \in DOMAIN candidates \cup {<<manifest.name, manifest.version>>} |->
                     IF r = <<manifest.name, manifest.version>> THEN entry ELSE candidates[r]]

(* What the report says of a package.json that was read.                    *)
Reported(dir, manifest, found, warnings) ==
  \/ manifest \notin PackageJson \/ manifest.hooks = NoHooks
  \/ <<manifest.name, manifest.version>> \in found
  \/ <<"package", dir>> \in warnings \/ <<"below", dir>> \in warnings

(* visit_package and record_candidate, by what their callers rely on.       *)
LEMMA VisitedIs ==
  ASSUME NEW visit, NEW is \in Stats(visit), NEW hashed,
         tree[visit.dir] \in PackageJson \cup {Absent, Unreadable, Gone}
  PROVE  LET after == Visited(visit, is, hashed)
         IN  /\ after.candidates = candidates \/
                  (is.file /\ Added(after.candidates, visit, tree[visit.dir]))
             /\ <<"package", visit.dir>> \in Missed(visit, is) \/
                  Reported(visit.dir, tree[visit.dir], DOMAIN after.candidates, after.warned)
             /\ tree[visit.dir] = Gone => <<"below", visit.dir>> \in after.warned
<1> DEFINE manifest == tree[visit.dir]
           after == Visited(visit, is, hashed)
           release == <<manifest.name, manifest.version>>
           entry == [key |-> visit.key, hooks |-> manifest.hooks,
                     pin |-> Lookup(visit.key, manifest)]
<1>0. manifest \in {Gone, Absent} => ~is.file
  BY DEF Stats
<1>1. CASE manifest = Gone
  BY <1>0, <1>1, MarkersAssumption DEF Visited, Reported
<1>2. CASE manifest # Gone /\ ~is.file
  BY <1>2, MarkersAssumption DEF Visited, Reported, Missed
<1>3. CASE manifest = Unreadable /\ is.file
  BY <1>3, MarkersAssumption DEF Visited, Reported
<1>4. CASE manifest \in PackageJson /\ is.file
  <2>1. manifest # Gone /\ manifest # Unreadable /\ manifest # Absent
    BY <1>4, MarkersAssumption
  <2>2. after = IF manifest.hooks = NoHooks THEN [candidates |-> candidates, warned |-> {}]
                ELSE Recorded(visit, manifest, hashed)
    BY <1>4, <2>1 DEF Visited
  <2>3. CASE manifest.hooks = NoHooks
    BY <2>1, <2>2, <2>3 DEF Reported
  <2>4. CASE manifest.hooks # NoHooks
    <3>1. after = Recorded(visit, manifest, hashed)
      BY <2>2, <2>4
    <3> HIDE DEF after, manifest
    <3>2. CASE ~IsTrusted(visit.key, manifest)
      <4>1. after = [candidates |-> candidates, warned |-> {<<"package", visit.dir>>}]
        BY <3>1, <3>2 DEF Recorded
      <4> QED
        BY <2>1, <4>1 DEF Reported, after, manifest
    <3>3. CASE IsTrusted(visit.key, manifest) /\ release \in DOMAIN candidates
      <4>1. after.candidates = candidates
        BY <3>1, <3>3 DEF Recorded
      <4> QED
        BY <2>1, <3>3, <4>1 DEF Reported, after, manifest
    <3>4. CASE IsTrusted(visit.key, manifest) /\ release \notin DOMAIN candidates /\ ~hashed
      <4>1. after = [candidates |-> candidates, warned |-> {<<"package", visit.dir>>}]
        BY <3>1, <3>4 DEF Recorded
      <4> QED
        BY <2>1, <4>1 DEF Reported, after, manifest
    <3>5. CASE IsTrusted(visit.key, manifest) /\ release \notin DOMAIN candidates /\ hashed
      <4>1. after.candidates = [r \in DOMAIN candidates \cup {release} |->
                                  IF r = release THEN entry ELSE candidates[r]]
        BY <3>1, <3>5 DEF Recorded
      <4>2. release \in DOMAIN after.candidates
        BY <4>1
      <4>3. entry.key = visit.key /\ entry.pin = Lookup(visit.key, manifest)
        OBVIOUS
      <4> HIDE DEF entry
      <4>4. Added(after.candidates, visit, manifest)
        BY <1>4, <3>5, <4>1, <4>3 DEF Added
      <4> QED
        <5>1. Reported(visit.dir, manifest, DOMAIN after.candidates, after.warned)
          BY <4>2 DEF Reported
        <5> QED
          BY <1>4, <2>1, <4>4, <5>1 DEF after, manifest
    <3> QED
      BY <3>2, <3>3, <3>4, <3>5
  <2> QED
    BY <2>3, <2>4
<1> QED
  BY <1>0, <1>1, <1>2, <1>3, <1>4

(* Where a candidate comes from: a package.json that this run has read.     *)
FoundAs(r, c, d, m) ==
  /\ d \in Dir /\ m \in PackageJson
  /\ <<d, m>> \in read /\ m \in Manifests[d]
  /\ c.key \in Seq(PackageName) /\ Last(c.key) = DirName[d]
  /\ IsTrusted(c.key, m)
  /\ r = <<m.name, m.version>>
  /\ c.pin = Lookup(c.key, m)

(* The invariant of the walk: types, and where every candidate comes from.  *)
Walk ==
  /\ nested \in Layouts
  /\ DOMAIN tree = Dir /\ \A d \in Dir : tree[d] \in Manifests[d]
  /\ locks \in Lockfiles
  /\ index \in Seq(Record)
  /\ todo \in Seq(Place)
  /\ \A r \in DOMAIN candidates : \E d, m : FoundAs(r, candidates[r], d, m)

(* Nothing but the index decides what a directory may be pinned to.         *)
LEMMA SameRecords ==
  ASSUME index' = index
  PROVE  /\ \A key : PathRecord(key)' = PathRecord(key)
         /\ \A key, m : Lookup(key, m)' = Lookup(key, m)
         /\ \A key, m : IsTrusted(key, m)' = IsTrusted(key, m)
<1>1. \A key : PathRecord(key)' = PathRecord(key)
  BY DEF PathRecord, First, SelectInSeq
<1>2. \A name, version : ReleaseRecord(name, version)' = ReleaseRecord(name, version)
  BY DEF ReleaseRecord, First, SelectInSeq, NameOfRecord
<1>3. \A key, m : Lookup(key, m)' = Lookup(key, m)
  BY <1>1, <1>2 DEF Lookup
<1>4. \A key, m : IsTrusted(key, m)' = IsTrusted(key, m)
  BY <1>1 DEF IsTrusted
<1> QED
  BY <1>1, <1>3, <1>4

(* What was found stays found while the index does.                         *)
LEMMA StillFound ==
  ASSUME index' = index, read \subseteq read', NEW r, NEW c, NEW d, NEW m, FoundAs(r, c, d, m)
  PROVE  FoundAs(r, c, d, m)'
BY SameRecords DEF FoundAs

(* A visit keeps the invariant of the walk.                                 *)
LEMMA VisitKeepsWalk ==
  ASSUME Walk, Visit
  PROVE  Walk'
<1> DEFINE visit == Head(todo)
<1>1. visit \in Place /\ Tail(todo) \in Seq(Place)
  BY DEF Walk, Visit
<1>2. /\ visit.dir \in Dir /\ visit.key \in Seq(PackageName)
      /\ Last(visit.key) = DirName[visit.dir]
  BY <1>1 DEF Place
<1> HIDE DEF visit
<1>3. PICK is \in Stats(visit), hashed \in BOOLEAN :
        /\ todo' = NextVisits(visit, is) \o Tail(todo)
        /\ candidates' = Visited(visit, is, hashed).candidates
        /\ read' = read \cup (IF <<"package", visit.dir>> \in Missed(visit, is) THEN {}
                            ELSE {<<visit.dir, tree[visit.dir]>>})
  BY DEF Visit, visit
<1>4. UNCHANGED <<nested, tree, locks, index>>
  BY DEF Visit, diskVars
<1>5. nested \in [Dir -> DOMAIN Contents \cup {Unset}]
  BY SeedAssumption DEF Walk
<1>6. todo' \in Seq(Place)
  BY <1>1, <1>3, <1>5, NextVisitsAre
<1>7. tree[visit.dir] \in Manifests[visit.dir]
      /\ tree[visit.dir] \in PackageJson \cup {Absent, Unreadable, Gone}
  <2>1. tree[visit.dir] \in Manifests[visit.dir]
    BY <1>2 DEF Walk
  <2>2. Manifests[visit.dir] \in SUBSET (PackageJson \cup {Absent, Unreadable, Gone})
    BY <1>2, SeedAssumption
  <2> QED
    BY <2>1, <2>2
<1>8. candidates' = candidates \/ (is.file /\ Added(candidates', visit, tree[visit.dir]))
  BY <1>3, <1>7, VisitedIs
<1>9. ASSUME NEW r \in DOMAIN candidates'
      PROVE  (\E d, m : FoundAs(r, candidates[r], d, m))'
  <2>1. CASE r \in DOMAIN candidates /\ candidates'[r] = candidates[r]
    <3>1. PICK d, m : FoundAs(r, candidates[r], d, m)
      BY <2>1 DEF Walk
    <3>2. PICK c : c = candidates[r]
      OBVIOUS
    <3>3. FoundAs(r, c, d, m)'
      BY <1>3, <1>4, <3>1, <3>2, StillFound
    <3>4. c = candidates'[r]
      BY <2>1, <3>2
    <3> QED
      BY <3>3, <3>4
  <2>2. CASE ~(r \in DOMAIN candidates /\ candidates'[r] = candidates[r])
    <3>1. is.file /\ Added(candidates', visit, tree[visit.dir])
      BY <1>8, <2>2
    <3>2. PICK d, m, key : d = visit.dir /\ m = tree[visit.dir] /\ key = visit.key
      OBVIOUS
    <3>3. /\ m \in PackageJson /\ IsTrusted(key, m) /\ r = <<m.name, m.version>>
          /\ candidates'[r].key = key /\ candidates'[r].pin = Lookup(key, m)
      BY <2>2, <3>1, <3>2 DEF Added
    <3>4. IsTrusted(key, m)' /\ Lookup(key, m)' = Lookup(key, m)
      BY <1>4, <3>3, SameRecords
    <3>a. <<"package", visit.dir>> \notin Missed(visit, is)
      BY <3>1 DEF Missed
    <3>5. d \in Dir /\ m \in Manifests[d] /\ <<d, m>> \in read'
          /\ key \in Seq(PackageName) /\ Last(key) = DirName[d]
      BY <1>2, <1>3, <1>7, <3>2, <3>a
    <3>6. PICK c : c = candidates'[r]
      OBVIOUS
    <3>7. FoundAs(r, c, d, m)'
      <4>1. c.key = key /\ c.pin = Lookup(key, m)'
        BY <3>3, <3>4, <3>6
      <4> QED
        BY <3>3, <3>4, <3>5, <4>1 DEF FoundAs
    <3> QED
      BY <3>6, <3>7
  <2> QED
    BY <2>1, <2>2
<1> QED
  BY <1>4, <1>6, <1>9 DEF Walk

(* The invariant of the walk, whatever is installed under it.               *)
LEMMA WalkHolds == SeedSpec => []Walk
<1>1. SeedInit => Walk
  <2> SUFFICES ASSUME SeedInit
               PROVE  Walk
    OBVIOUS
  <2>1. DOMAIN tree = Dir /\ \A d \in Dir : tree[d] \in Manifests[d]
    BY DEF SeedInit
  <2> QED
    BY <2>1 DEF SeedInit, Walk
<1>2. Walk /\ [SeedNext]_seedVars => Walk'
  <2> SUFFICES ASSUME Walk, [SeedNext]_seedVars
               PROVE  Walk'
    OBVIOUS
  <2>1. ASSUME UNCHANGED <<nested, locks, index, candidates>>, read \subseteq read',
               todo' \in Seq(Place), DOMAIN tree' = Dir, \A d \in Dir : tree'[d] \in Manifests[d]
        PROVE  Walk'
    <3>1. ASSUME NEW r \in DOMAIN candidates'
          PROVE  (\E d, m : FoundAs(r, candidates[r], d, m))'
      <4>1. PICK d, m : FoundAs(r, candidates[r], d, m)
        BY <2>1 DEF Walk
      <4>2. PICK c : c = candidates[r]
        OBVIOUS
      <4>3. FoundAs(r, c, d, m)'
        BY <2>1, <4>1, <4>2, StillFound
      <4>4. c = candidates'[r]
        BY <2>1, <4>2
      <4> QED
        BY <4>3, <4>4
    <3> QED
      BY <2>1, <3>1 DEF Walk
  <2>2. CASE Start
    <3>1. locks \in Seq(Seq(Record))
      BY SeedAssumption DEF Walk
    <3>2. index' \in Seq(Record)
      BY <2>2, <3>1, IndexIs DEF Start
    <3>3. todo' \in Seq(Place)
      <4>1. Root \in DOMAIN Contents /\ <<>> \in Seq(PackageName) /\ 0 \in Nat
        BY SeedAssumption
      <4>2. Listed(Root, <<>>, 0) \in Seq(Place)
        BY <4>1, ListedIs
      <4> QED
        BY <2>2, <4>2 DEF Start
    <3>4. DOMAIN candidates' = {} /\ UNCHANGED <<nested, tree, locks>>
      BY <2>2 DEF Start, diskVars
    <3> QED
      BY <3>2, <3>3, <3>4 DEF Walk
  <2>3. CASE Visit
    BY <2>3, VisitKeepsWalk
  <2>4. CASE Unlistable \/ Send \/ UNCHANGED seedVars
    <3>1. UNCHANGED <<nested, tree, locks, index, todo, candidates, read>>
      BY <2>4 DEF Unlistable, Send, seedVars, diskVars
    <3> QED
      BY <2>1, <3>1 DEF Walk
  <2>5. ASSUME NEW r \in Replacements, Install(r[1], r[2])
        PROVE  Walk'
    <3>1. /\ UNCHANGED <<nested, locks, index, todo, candidates, read>>
          /\ tree' = [tree EXCEPT ![r[1]] = r[2]]
      BY <2>5 DEF Install
    <3>2. r[1] \in Dir /\ r[2] \in Manifests[r[1]]
      BY SeedAssumption
    <3>3. DOMAIN tree' = Dir /\ \A d \in Dir : tree'[d] \in Manifests[d]
      BY <3>1, <3>2 DEF Walk
    <3> QED
      BY <2>1, <3>1, <3>3 DEF Walk
  <2> QED
    BY <2>2, <2>3, <2>4, <2>5 DEF SeedNext
<1> QED
  BY <1>1, <1>2, PTL DEF SeedSpec

(* From truthful lockfiles an entry that is sent has the hash of its own    *)
(* release, or one from a package.json that was read in a directory of that *)
(* name and named the release, and says so; what a lockfile places in a     *)
(* directory without a hash is never pinned by a lockfile: for any tree and *)
(* any package.json, of any depth, that may change under the walk.          *)
THEOREM PinsAreReleases == SeedSpec => []PinsTheRelease
<1>1. Walk => PinsTheRelease
  <2> SUFFICES ASSUME Walk, \A i \in DOMAIN index : Truthful(index[i]), NEW e \in Entries
               PROVE  /\ e.source = "lockfile" => e.integrity = e.release
                      /\ e.source # "lockfile" =>
                           /\ e.source = "package.json"
                           /\ \E seen \in read : /\ DirName[seen[1]] = Last(e.key)
                                                 /\ seen[2] \in PackageJson
                                                 /\ <<seen[2].name, seen[2].version>> = e.release
                                                 /\ seen[2].integrity = e.integrity
                      /\ LET path == PathRecord(e.key)
                         IN  path # Unset /\ path.integrity = Unset =>
                               e.source = "package.json"
    BY DEF PinsTheRelease
  <2>1. PICK r \in DOMAIN candidates :
          /\ candidates[r].pin.integrity # Unset
          /\ e.release = r /\ e.key = candidates[r].key
          /\ e.integrity = candidates[r].pin.integrity /\ e.source = candidates[r].pin.source
    BY DEF Entries
  <2>2. PICK d, m : FoundAs(r, candidates[r], d, m)
    BY <2>1 DEF Walk
  <2> DEFINE path == PathRecord(e.key)
             other == ReleaseRecord(m.name, m.version)
  <2>3. /\ e.key \in Seq(PackageName) /\ Last(e.key) = DirName[d] /\ <<d, m>> \in read
        /\ m \in PackageJson /\ d \in Dir /\ m \in Manifests[d]
        /\ e.release = <<m.name, m.version>>
        /\ e.integrity = Lookup(e.key, m).integrity /\ e.integrity # Unset
        /\ e.source = Lookup(e.key, m).source
        /\ m.name = Last(e.key)
        /\ path # Unset => path.version \in {Unset, m.version}
    BY <2>1, <2>2 DEF FoundAs, IsTrusted
  <2>4. index \in Seq(Record)
    BY DEF Walk
  <2>5. path # Unset => Truthful(path) /\ path.key = e.key
    BY <2>4, PathRecordIs
  <2>6. other # Unset => Truthful(other) /\ other.version = m.version /\ NameOfRecord(other) = m.name
    BY <2>4, ReleaseRecordIs
  <2>7. e.key # Unset
    BY <2>3, MarkersAssumption
  <2> HIDE DEF path, other
  <2>8. <<e.integrity, e.source>> =
          IF path # Unset /\ path.integrity # Unset THEN <<path.integrity, "lockfile">>
          ELSE IF path = Unset /\ other # Unset /\ other.integrity # Unset
          THEN <<other.integrity, "lockfile">> ELSE <<m.integrity, "package.json">>
    BY <2>3 DEF Lookup, Located, path, other
  <2>9. CASE path # Unset /\ path.integrity # Unset
    <3>1. path.integrity = <<m.name, m.version>>
      BY <2>3, <2>5, <2>7, <2>9 DEF Truthful
    <3> QED
      BY <2>3, <2>8, <2>9, <3>1 DEF path
  <2>10. CASE path = Unset /\ other # Unset /\ other.integrity # Unset
    <3>1. other.integrity = <<m.name, m.version>>
      BY <2>6, <2>10 DEF Truthful
    <3> QED
      BY <2>3, <2>8, <2>10, <3>1 DEF path
  <2>11. CASE /\ ~(path # Unset /\ path.integrity # Unset)
              /\ ~(path = Unset /\ other # Unset /\ other.integrity # Unset)
    <3>1. e.integrity = m.integrity /\ e.source = "package.json"
      BY <2>8, <2>11
    <3>2. PICK seen : seen = <<d, m>>
      OBVIOUS
    <3>3. /\ seen \in read /\ DirName[seen[1]] = Last(e.key) /\ seen[2] \in PackageJson
          /\ <<seen[2].name, seen[2].version>> = e.release /\ seen[2].integrity = e.integrity
      BY <2>3, <3>1, <3>2
    <3> QED
      BY <3>1, <3>3
  <2> QED
    BY <2>9, <2>10, <2>11
<1> QED
  BY <1>1, WalkHolds, PTL

(* Some directories and what is directly under them.                        *)
Opened(dirs) ==
  dirs \cup UNION {ToSet(Contents[nested[d]]) : d \in {e \in dirs : nested[e] # Unset}}

(* The levels of one node_modules, each with those before it.               *)
Levels(w, nm) ==
  /\ w[0] = ToSet(Contents[nm])
  /\ \A i \in 1..Cardinality(Dir) : w[i] = Opened(w[i - 1])
  /\ \A i \in 0..Cardinality(Dir) : w[0] \subseteq w[i]
  /\ Under(nm) = w[Cardinality(Dir)]

(* Every node_modules is one of those listed.                               *)
NestedOK == nested \in [Dir -> DOMAIN Contents \cup {Unset}]

(* The levels of a node_modules exist.                                      *)
LEMMA LevelsExist ==
  ASSUME NestedOK, NEW nm \in DOMAIN Contents
  PROVE  \E w : Levels(w, nm)
<1> DEFINE n == Cardinality(Dir)
           S == SUBSET Dir
           base == ToSet(Contents[nm])
           within == CHOOSE within : within = [i \in 0..n |->
              IF i = 0 THEN ToSet(Contents[nm])
              ELSE within[i - 1] \cup
                   UNION {ToSet(Contents[nested[d]]) :
                            d \in {e \in within[i - 1] : nested[e] # Unset}}]
           step == [i \in 1..n |-> [dirs \in S |-> Opened(dirs)]]
<1>1. n \in Nat
  BY SeedAssumption, FS_CardinalityType
<1>2. \A m \in DOMAIN Contents : ToSet(Contents[m]) \in S
  <2>1. ASSUME NEW m \in DOMAIN Contents
        PROVE  ToSet(Contents[m]) \in S
    <3>1. Contents[m] \in Seq(Dir)
      BY SeedAssumption
    <3> QED
      BY <3>1 DEF ToSet
  <2> QED
    BY <2>1
<1>3. \A dirs \in S : Opened(dirs) \in S
  <2>1. ASSUME NEW dirs \in S, NEW x \in Opened(dirs)
        PROVE  x \in Dir
    <3>1. CASE x \in dirs
      BY <3>1
    <3>2. CASE x \notin dirs
      <4>1. PICK d \in dirs : nested[d] # Unset /\ x \in ToSet(Contents[nested[d]])
        BY <2>1, <3>2 DEF Opened
      <4>2. nested[d] \in DOMAIN Contents
        BY <4>1 DEF NestedOK
      <4> QED
        BY <1>2, <4>1, <4>2
    <3> QED
      BY <3>1, <3>2
  <2> QED
    BY <2>1
<1>4. Under(nm) = within[n]
  BY DEF Under
<1>5. (\E g : g = [i \in 0..n |-> IF i = 0 THEN base ELSE Opened(g[i - 1])])
        => within = [i \in 0..n |-> IF i = 0 THEN base ELSE Opened(within[i - 1])]
  BY DEF Opened
<1>6. base \in S
  BY <1>2
<1> HIDE DEF within, base, n
<1>7. step \in [1..n -> [S -> S]]
  BY <1>3
<1>8. PICK g : Computes(g, n, S, base, step)
  <2> HIDE DEF step, S
  <2> QED
    BY <1>1, <1>6, <1>7, Recursion
<1>9. ASSUME NEW i \in 1..n
      PROVE  g[i] = Opened(g[i - 1])
  <2>1. i - 1 \in 0..n /\ g[i - 1] \in S
    <3> HIDE DEF step, S
    <3> QED
      BY <1>1, <1>8 DEF Computes
  <2>2. g[i] = step[i][g[i - 1]]
    BY <1>8 DEF Computes
  <2> QED
    BY <2>1, <2>2
<1>10. g \in [0..n -> S] /\ g[0] = base
  BY <1>8 DEF Computes
<1> HIDE DEF step
<1>11. g = [i \in 0..n |-> IF i = 0 THEN base ELSE Opened(g[i - 1])]
  BY <1>1, <1>9, <1>10
<1>12. within = [i \in 0..n |-> IF i = 0 THEN base ELSE Opened(within[i - 1])]
  BY <1>5, <1>11
<1>13. within[0] = base /\ \A i \in 1..n : within[i] = Opened(within[i - 1])
  BY <1>1, <1>12
<1> DEFINE T == {i \in 0..n : within[0] \subseteq within[i]}
<1>14. 0 \in T /\ \A i \in 0..n : i < n /\ i \in T => i + 1 \in T
  <2>1. ASSUME NEW i \in 0..n, i < n, within[0] \subseteq within[i]
        PROVE  i + 1 \in 0..n /\ within[0] \subseteq within[i + 1]
    <3>1. i + 1 \in 1..n /\ i + 1 \in 0..n /\ (i + 1) - 1 = i
      BY <1>1, <2>1
    <3>2. within[i + 1] = Opened(within[i])
      BY <1>13, <3>1
    <3> QED
      BY <2>1, <3>1, <3>2 DEF Opened
  <2> QED
    BY <1>1, <2>1
<1>15. \A i \in 0..n : i \in T
  <2> HIDE DEF T
  <2> QED
    BY <1>1, <1>14, UpTo, Zenon
<1>16. Levels(within, nm)
  BY <1>4, <1>13, <1>15 DEF Levels, n, base
<1> QED
  BY <1>16

(* Visiting `dir` leads to d: it is d, or d is under its node_modules.       *)
Leads(dir, d) == d = dir \/ (nested[dir] # Unset /\ d \in Under(nested[dir]))

(* Whatever is under a node_modules is in it or under one of its packages.  *)
LEMMA UnderOpens ==
  ASSUME NestedOK, NEW nm \in DOMAIN Contents, NEW d \in Under(nm)
  PROVE  \E e \in ToSet(Contents[nm]) : Leads(e, d)
<1> DEFINE n == Cardinality(Dir)
           L(m) == CHOOSE w : Levels(w, m)
<1>1. n \in Nat
  BY SeedAssumption, FS_CardinalityType
<1>2. \A m \in DOMAIN Contents : Levels(L(m), m)
  BY LevelsExist
<1>3. \A e \in ToSet(Contents[nm]) : e \in Dir /\ (nested[e] # Unset => nested[e] \in DOMAIN Contents)
  <2>1. Contents[nm] \in Seq(Dir)
    BY SeedAssumption
  <2> QED
    BY <2>1 DEF ToSet, NestedOK
<1> HIDE DEF L, n
<1> DEFINE In(x, i) == \E e \in ToSet(Contents[nm]) :
                         x = e \/ (nested[e] # Unset /\ x \in L(nested[e])[i])
           T == {i \in 0..n : \A x \in L(nm)[i] : In(x, i)}
<1>4. 0 \in T
  <2>1. L(nm)[0] = ToSet(Contents[nm])
    BY <1>2 DEF Levels
  <2> QED
    BY <1>1, <2>1
<1>5. ASSUME NEW i \in 0..n, i < n, i \in T
      PROVE  i + 1 \in T
  <2>1. i + 1 \in 1..n /\ i + 1 \in 0..n /\ (i + 1) - 1 = i
    BY <1>1, <1>5
  <2>2. \A m \in DOMAIN Contents : /\ L(m)[i + 1] = Opened(L(m)[i])
                                   /\ ToSet(Contents[m]) \subseteq L(m)[i + 1]
    BY <1>2, <2>1 DEF Levels, n
  <2>3. ASSUME NEW x \in L(nm)[i + 1]
        PROVE  In(x, i + 1)
    <3>1. CASE x \in L(nm)[i]
      <4>1. PICK e \in ToSet(Contents[nm]) :
              x = e \/ (nested[e] # Unset /\ x \in L(nested[e])[i])
        BY <1>5, <3>1
      <4>2. nested[e] # Unset => L(nested[e])[i] \subseteq L(nested[e])[i + 1]
        BY <1>3, <2>2, <4>1 DEF Opened
      <4> QED
        BY <4>1, <4>2
    <3>2. CASE x \notin L(nm)[i]
      <4>1. PICK c \in L(nm)[i] : nested[c] # Unset /\ x \in ToSet(Contents[nested[c]])
        BY <2>2, <2>3, <3>2 DEF Opened
      <4>2. PICK e \in ToSet(Contents[nm]) :
              c = e \/ (nested[e] # Unset /\ c \in L(nested[e])[i])
        BY <1>5, <4>1
      <4>3. CASE c = e
        BY <1>3, <2>2, <4>1, <4>2, <4>3
      <4>4. CASE nested[e] # Unset /\ c \in L(nested[e])[i]
        <5>1. L(nested[e])[i + 1] = Opened(L(nested[e])[i])
          BY <1>3, <2>2, <4>2, <4>4
        <5>2. x \in L(nested[e])[i + 1]
          BY <4>1, <4>4, <5>1 DEF Opened
        <5> QED
          BY <4>2, <4>4, <5>2
      <4> QED
        BY <4>2, <4>3, <4>4
    <3> QED
      BY <3>1, <3>2
  <2> HIDE DEF In
  <2> QED
    BY <2>1, <2>3
<1>6. \A i \in 0..n : i \in T
  <2> HIDE DEF T
  <2> QED
    BY <1>1, <1>4, <1>5, UpTo, Zenon
<1>7. n \in 0..n /\ Under(nm) = L(nm)[n]
  BY <1>1, <1>2 DEF Levels, n
<1>8. In(d, n)
  <2> HIDE DEF In
  <2> QED
    BY <1>6, <1>7
<1>9. PICK e \in ToSet(Contents[nm]) : d = e \/ (nested[e] # Unset /\ d \in L(nested[e])[n])
  BY <1>8
<1>10. nested[e] # Unset => Under(nested[e]) = L(nested[e])[n]
  BY <1>2, <1>3, <1>9 DEF Levels, n
<1> QED
  BY <1>9, <1>10 DEF Leads

(* A visit still to come leads to d.                                        *)
Pending(d) == \E v \in ToSet(todo) : Leads(v.dir, d)

(* What is under a directory was not walked, d with it: a warning says so,  *)
(* or a stat failed.                                                        *)
BelowWarned(d) ==
  \E e \in Dir : /\ <<"below", e>> \in warned \cup missed
                 /\ nested[e] # Unset /\ d \in Under(nested[e])

(* Every package of the tree has been read, is still to come, or is below a *)
(* warning, unless a stat failed; and what has been read is in the report.  *)
Told ==
  /\ result \in {"walking", "sent", "too_many"} =>
       \A d \in Under(Root) : \/ \E m : <<d, m>> \in read
                              \/ <<"package", d>> \in missed
                              \/ BelowWarned(d)
                              \/ Pending(d)
  /\ result \in {"sent", "too_many"} => todo = <<>>
  /\ \A d, m : <<d, m>> \in read => Reported(d, m, DOMAIN candidates, warned)
  /\ installs \in Nat
  /\ installs = 0 => \A d, m : <<d, m>> \in read => m = tree[d]

(* The tree's layout alone decides what is under what.                      *)
LEMMA SameTree ==
  ASSUME nested' = nested
  PROVE  /\ \A nm : Under(nm)' = Under(nm)
         /\ \A dir, d : Leads(dir, d)' <=> Leads(dir, d)
<1>1. \A nm : Under(nm)' = Under(nm)
  BY DEF Under
<1> QED
  BY <1>1 DEF Leads

(* Whatever is below a package that is visited comes next, or is below a    *)
(* warning.                                                                 *)
LEMMA NextVisitsCover ==
  ASSUME Walk, NEW visit \in Place, NEW is, NEW d, nested[visit.dir] # Unset,
         d \in Under(nested[visit.dir]), is.below, ~IsTooDeep(visit)
  PROVE  \E v \in ToSet(NextVisits(visit, is)) : Leads(v.dir, d)
<1> DEFINE nm == nested[visit.dir]
<1>1. NestedOK
  BY SeedAssumption DEF Walk, NestedOK
<1>2. visit.dir \in Dir /\ nm \in DOMAIN Contents
  BY <1>1 DEF Place, NestedOK
<1>3. PICK e \in ToSet(Contents[nm]) : Leads(e, d)
  BY <1>1, <1>2, UnderOpens
<1>4. NextVisits(visit, is) = Listed(nm, visit.key, visit.depth + 1)
  BY DEF NextVisits, Below
<1>5. PICK i \in DOMAIN Contents[nm] : e = Contents[nm][i]
  BY DEF ToSet
<1> HIDE DEF nm
<1>6. i \in DOMAIN NextVisits(visit, is) /\ NextVisits(visit, is)[i].dir = e
  BY <1>4, <1>5 DEF Listed
<1> QED
  BY <1>3, <1>6 DEF ToSet

(* Start finds everything still to come.                                    *)
LEMMA StartTells ==
  ASSUME Walk, Told, Start
  PROVE  Told'
<1>1. NestedOK
  BY SeedAssumption DEF Walk, NestedOK
<1>2. /\ todo' = Listed(Root, <<>>, 0) /\ read' = {} /\ result' = "walking"
      /\ UNCHANGED <<nested, tree, installs>>
  BY DEF Start, diskVars
<1>3. ASSUME NEW d \in Under(Root)
      PROVE  Pending(d)'
  <2>1. PICK e \in ToSet(Contents[Root]) : Leads(e, d)
    BY <1>1, UnderOpens, SeedAssumption
  <2>2. PICK i \in DOMAIN Contents[Root] : e = Contents[Root][i]
    BY DEF ToSet
  <2>3. PICK v : v = todo'[i]
    OBVIOUS
  <2>4. v \in ToSet(todo)' /\ v.dir = e
    BY <1>2, <2>2, <2>3 DEF Listed, ToSet
  <2>5. Leads(v.dir, d)'
    BY <1>2, <2>1, <2>4, SameTree
  <2> QED
    BY <2>4, <2>5 DEF Pending
<1>4. Under(Root)' = Under(Root)
  BY <1>2, SameTree
<1> QED
  BY <1>2, <1>3, <1>4 DEF Told

(* A visit reads its package, and what is below it comes next.              *)
LEMMA VisitTells ==
  ASSUME Walk, Told, Visit
  PROVE  Told'
<1> DEFINE visit == Head(todo)
<1>0. todo \in Seq(Place) /\ todo # <<>>
  BY DEF Walk, Visit
<1>1. /\ visit \in Place /\ Tail(todo) \in Seq(Place)
      /\ ToSet(todo) \subseteq {visit} \cup ToSet(Tail(todo))
  <2>1. visit \in Place /\ Tail(todo) \in Seq(Place)
    BY <1>0
  <2>2. ASSUME NEW i \in DOMAIN todo
        PROVE  todo[i] = visit \/ \E j \in DOMAIN Tail(todo) : todo[i] = Tail(todo)[j]
    <3>1. CASE i = 1
      BY <1>0, <3>1
    <3>2. CASE i # 1
      <4>1. i - 1 \in DOMAIN Tail(todo) /\ Tail(todo)[i - 1] = todo[i]
        BY <1>0, <2>2, <3>2
      <4> QED
        BY <4>1
    <3> QED
      BY <3>1, <3>2
  <2> HIDE DEF visit
  <2> QED
    BY <2>1, <2>2 DEF ToSet
<1>2. visit.dir \in Dir
  BY <1>1 DEF Place
<1> HIDE DEF visit
<1>3. PICK is \in Stats(visit), hashed \in BOOLEAN :
        LET after == Visited(visit, is, hashed)
        IN  /\ todo' = NextVisits(visit, is) \o Tail(todo)
            /\ candidates' = after.candidates
            /\ warned' = warned \cup after.warned \cup
                 (IF is.below /\ IsTooDeep(visit) THEN {<<"below", visit.dir>>} ELSE {})
            /\ read' = read \cup (IF <<"package", visit.dir>> \in Missed(visit, is) THEN {}
                                ELSE {<<visit.dir, tree[visit.dir]>>})
            /\ missed' = missed \cup Missed(visit, is)
  BY DEF Visit, visit
<1>4. UNCHANGED <<nested, tree, installs, result>> /\ result = "walking"
  BY DEF Visit, diskVars
<1>5. tree[visit.dir] \in PackageJson \cup {Absent, Unreadable, Gone}
  <2>1. tree[visit.dir] \in Manifests[visit.dir]
    BY <1>2 DEF Walk
  <2>2. Manifests[visit.dir] \in SUBSET (PackageJson \cup {Absent, Unreadable, Gone})
    BY <1>2, SeedAssumption
  <2> QED
    BY <2>1, <2>2
<1>6. /\ candidates' = candidates \/ Added(candidates', visit, tree[visit.dir])
      /\ \/ <<"package", visit.dir>> \in Missed(visit, is)
         \/ Reported(visit.dir, tree[visit.dir], DOMAIN candidates', warned')
      /\ tree[visit.dir] = Gone => <<"below", visit.dir>> \in warned'
  <2> DEFINE after == Visited(visit, is, hashed)
  <2>1. /\ after.candidates = candidates \/ Added(after.candidates, visit, tree[visit.dir])
        /\ \/ <<"package", visit.dir>> \in Missed(visit, is)
           \/ Reported(visit.dir, tree[visit.dir], DOMAIN after.candidates, after.warned)
        /\ tree[visit.dir] = Gone => <<"below", visit.dir>> \in after.warned
    BY <1>5, VisitedIs
  <2>2. candidates' = after.candidates /\ after.warned \subseteq warned'
    BY <1>3
  <2> HIDE DEF after
  <2> QED
    BY <2>1, <2>2 DEF Reported
<1>7. DOMAIN candidates \subseteq DOMAIN candidates' /\ warned \subseteq warned' /\ read \subseteq read'
      /\ missed \subseteq missed'
  BY <1>3, <1>6 DEF Added
<1>8. ASSUME NEW d, NEW m, <<d, m>> \in read'
      PROVE  Reported(d, m, DOMAIN candidates', warned')
  <2>1. CASE <<d, m>> \in read
    <3>1. Reported(d, m, DOMAIN candidates, warned)
      BY <2>1 DEF Told
    <3> QED
      BY <1>7, <3>1 DEF Reported
  <2>2. CASE <<d, m>> \notin read
    <3>1. /\ d = visit.dir /\ m = tree[visit.dir]
          /\ <<"package", visit.dir>> \notin Missed(visit, is)
      BY <1>3, <1>8, <2>2
    <3> QED
      BY <1>6, <3>1
  <2> QED
    BY <2>1, <2>2
<1>9. ASSUME installs = 0, NEW d, NEW m, <<d, m>> \in read'
      PROVE  m = tree'[d]
  <2>1. <<d, m>> \in read \/ (d = visit.dir /\ m = tree[visit.dir])
    BY <1>3, <1>9
  <2> QED
    BY <1>4, <1>9, <2>1 DEF Told
<1>10. ToSet(todo)' = ToSet(NextVisits(visit, is)) \cup ToSet(Tail(todo))
  <2>1. NextVisits(visit, is) \in Seq(Place) /\ Tail(todo) \in Seq(Place)
    BY <1>1, NextVisitsAre, SeedAssumption DEF Walk
  <2>2. PICK a, b : a = NextVisits(visit, is) /\ b = Tail(todo)
    OBVIOUS
  <2>3. a \in Seq(Place) /\ b \in Seq(Place)
    BY <2>1, <2>2
  <2>4. ToSet(a \o b) = ToSet(a) \cup ToSet(b)
    <3>1. Len(a) \in Nat /\ Len(b) \in Nat /\ DOMAIN a = 1..Len(a) /\ DOMAIN b = 1..Len(b)
          /\ DOMAIN (a \o b) = 1..(Len(a) + Len(b))
      BY <2>3
    <3>2. ASSUME NEW i \in DOMAIN a
          PROVE  i \in DOMAIN (a \o b) /\ (a \o b)[i] = a[i]
      BY <2>3
    <3>3. ASSUME NEW i \in DOMAIN b
          PROVE  i + Len(a) \in DOMAIN (a \o b) /\ (a \o b)[i + Len(a)] = b[i]
      BY <2>3
    <3>4. ASSUME NEW i \in DOMAIN (a \o b)
          PROVE  \/ i \in DOMAIN a /\ (a \o b)[i] = a[i]
                 \/ i - Len(a) \in DOMAIN b /\ (a \o b)[i] = b[i - Len(a)]
      BY <2>3
    <3>5. ToSet(a) \cup ToSet(b) \subseteq ToSet(a \o b)
      BY <3>2, <3>3 DEF ToSet
    <3>6. ToSet(a \o b) \subseteq ToSet(a) \cup ToSet(b)
      BY <3>4 DEF ToSet
    <3> QED
      BY <3>5, <3>6
  <2>5. ToSet(todo)' = ToSet(a \o b)
    BY <1>3, <2>2 DEF ToSet
  <2> QED
    BY <2>2, <2>4, <2>5
<1>11. ASSUME NEW d \in Under(Root)
       PROVE  \/ \E m : <<d, m>> \in read'
              \/ <<"package", d>> \in missed'
              \/ BelowWarned(d)'
              \/ Pending(d)'
  <2>1. CASE (\E m : <<d, m>> \in read) \/ <<"package", d>> \in missed
    BY <1>7, <2>1
  <2>2. CASE BelowWarned(d)
    <3>1. PICK e \in Dir : <<"below", e>> \in warned \cup missed /\ nested[e] # Unset /\ d \in Under(nested[e])
      BY <2>2 DEF BelowWarned
    <3>2. <<"below", e>> \in (warned \cup missed)' /\ nested'[e] # Unset /\ d \in Under(nested[e])'
      BY <1>4, <1>7, <3>1, SameTree
    <3> QED
      BY <3>2 DEF BelowWarned
  <2>3. CASE Pending(d)
    <3>1. PICK v \in ToSet(todo) : Leads(v.dir, d)
      BY <2>3 DEF Pending
    <3>2. CASE v \in ToSet(Tail(todo))
      <4>1. v \in ToSet(todo)' /\ Leads(v.dir, d)'
        BY <1>4, <1>10, <3>1, <3>2, SameTree
      <4> QED
        BY <4>1 DEF Pending
    <3>3. CASE v = visit /\ d = visit.dir
      <4>1. <<d, tree[visit.dir]>> \in read' \/ <<"package", d>> \in missed'
        BY <1>3, <3>3
      <4> QED
        BY <4>1
    <3>4. CASE v = visit /\ nested[visit.dir] # Unset /\ d \in Under(nested[visit.dir])
      <4>1. CASE ~is.below \/ IsTooDeep(visit)
        <5>1. <<"below", visit.dir>> \in (warned \cup missed)'
          <6>1. CASE is.below
            BY <1>3, <4>1, <6>1
          <6>2. CASE ~is.below /\ tree[visit.dir] = Gone
            BY <1>6, <6>2
          <6>3. CASE ~is.below /\ tree[visit.dir] # Gone
            <7>1. <<"below", visit.dir>> \in Missed(visit, is)
              BY <3>4, <6>3 DEF Missed
            <7> QED
              BY <1>3, <7>1
          <6> QED
            BY <6>1, <6>2, <6>3
        <5>2. PICK e \in Dir : e = visit.dir
          BY <1>2
        <5>3. <<"below", e>> \in (warned \cup missed)' /\ nested'[e] # Unset /\ d \in Under(nested[e])'
          BY <1>4, <3>4, <5>1, <5>2, SameTree
        <5> QED
          BY <5>3 DEF BelowWarned
      <4>2. CASE is.below /\ ~IsTooDeep(visit)
        <5>1. PICK next \in ToSet(NextVisits(visit, is)) : Leads(next.dir, d)
          BY <1>1, <3>4, <4>2, NextVisitsCover
        <5>2. next \in ToSet(todo)' /\ Leads(next.dir, d)'
          BY <1>4, <1>10, <5>1, SameTree
        <5> QED
          BY <5>2 DEF Pending
      <4> QED
        BY <4>1, <4>2
    <3> QED
      BY <1>1, <3>1, <3>2, <3>3, <3>4 DEF Leads
  <2> QED
    BY <2>1, <2>2, <2>3 DEF Told, Visit
<1>12. Under(Root)' = Under(Root)
  BY <1>4, SameTree
<1> QED
  BY <1>4, <1>8, <1>9, <1>11, <1>12 DEF Told

(* The invariant that the last theorem rests on.                            *)
LEMMA ToldHolds == SeedSpec => []Told
<1>1. SeedInit => Told
  BY DEF SeedInit, Told
<1>2. Walk /\ Told /\ [SeedNext]_seedVars => Told'
  <2> SUFFICES ASSUME Walk, Told, [SeedNext]_seedVars
               PROVE  Told'
    OBVIOUS
  <2>1. ASSUME UNCHANGED <<nested, todo, candidates, warned, read, missed>>
        PROVE  /\ Under(Root)' = Under(Root)
               /\ \A d : BelowWarned(d)' <=> BelowWarned(d)
               /\ \A d : Pending(d)' <=> Pending(d)
    <3>1. /\ \A nm : Under(nm)' = Under(nm)
          /\ \A dir, d : Leads(dir, d)' <=> Leads(dir, d)
      BY <2>1, SameTree
    <3>2. \A d : BelowWarned(d)' <=> BelowWarned(d)
      BY <2>1, <3>1 DEF BelowWarned
    <3>3. ToSet(todo)' = ToSet(todo)
      BY <2>1
    <3>4. \A d : Pending(d)' <=> Pending(d)
      BY <3>1, <3>3 DEF Pending
    <3> QED
      BY <3>1, <3>2, <3>4
  <2>2. CASE Start
    BY <2>2, StartTells
  <2>3. CASE Visit
    BY <2>3, VisitTells
  <2>4. CASE Unlistable
    <3>1. /\ UNCHANGED <<nested, tree, installs, todo, candidates, warned, read, missed>>
          /\ result' = "failed"
      BY <2>4 DEF Unlistable, diskVars
    <3> QED
      BY <2>1, <3>1 DEF Told
  <2>5. CASE Send
    <3>1. /\ UNCHANGED <<nested, tree, installs, todo, candidates, warned, read, missed>>
          /\ todo = <<>> /\ result = "walking" /\ result' \in {"too_many", "sent"}
      BY <2>5 DEF Send, diskVars
    <3> QED
      BY <2>1, <3>1 DEF Told
  <2>6. ASSUME NEW r \in Replacements, Install(r[1], r[2])
        PROVE  Told'
    <3>1. /\ UNCHANGED <<nested, todo, candidates, warned, read, missed, result>>
          /\ installs' = installs + 1
      BY <2>6 DEF Install
    <3>2. installs' \in Nat /\ installs' # 0
      BY <3>1 DEF Told
    <3> QED
      BY <2>1, <3>1, <3>2 DEF Told
  <2>7. CASE UNCHANGED seedVars
    <3>1. UNCHANGED <<nested, tree, installs, todo, candidates, warned, read, missed, result>>
      BY <2>7 DEF seedVars
    <3> QED
      BY <2>1, <3>1 DEF Told
  <2> QED
    BY <2>2, <2>3, <2>4, <2>5, <2>6, <2>7 DEF SeedNext
<1> QED
  BY <1>1, <1>2, WalkHolds, PTL DEF SeedSpec

(* A walk that ended has every package that runs install hooks in its       *)
(* report: as a candidate, or by a warning, for any tree of finitely many   *)
(* directories.  Only what npm put in place after the visit may be missed,  *)
(* and what a stat failed on.                                               *)
THEOREM NothingIsSilent == SeedSpec => []NothingSilent
<1>1. Walk /\ Told => NothingSilent
  <2> SUFFICES ASSUME Walk, Told, result \in {"sent", "too_many"}, NEW d \in Under(Root)
               PROVE  \/ tree[d] \notin PackageJson \/ tree[d].hooks = NoHooks
                      \/ <<tree[d].name, tree[d].version>> \in DOMAIN candidates
                      \/ <<"package", d>> \in warned \cup missed \/ <<"below", d>> \in warned
                      \/ \E e \in Dir : /\ <<"below", e>> \in warned \cup missed
                                        /\ nested[e] # Unset /\ d \in Under(nested[e])
                      \/ installs > 0 /\ <<d, tree[d]>> \notin read
    BY DEF NothingSilent
  <2>1. ~Pending(d)
    <3>1. todo = <<>>
      BY DEF Told
    <3>2. ToSet(todo) = {}
      BY <3>1 DEF ToSet
    <3> QED
      BY <3>2 DEF Pending
  <2>2. (\E m : <<d, m>> \in read) \/ <<"package", d>> \in missed \/ BelowWarned(d)
    BY <2>1 DEF Told
  <2>3. CASE BelowWarned(d)
    BY <2>3 DEF BelowWarned
  <2>6. CASE <<"package", d>> \in missed
    BY <2>6
  <2>4. CASE <<d, tree[d]>> \in read
    <3>1. Reported(d, tree[d], DOMAIN candidates, warned)
      BY <2>4 DEF Told
    <3> QED
      BY <3>1 DEF Reported
  <2>5. CASE (\E m : <<d, m>> \in read) /\ <<d, tree[d]>> \notin read
    <3>1. installs # 0 /\ installs \in Nat
      BY <2>5 DEF Told
    <3>2. installs > 0
      BY <3>1
    <3> QED
      BY <2>5, <3>2
  <2> QED
    BY <2>2, <2>3, <2>4, <2>5, <2>6
<1> QED
  BY <1>1, WalkHolds, ToldHolds, PTL
=============================================================================
