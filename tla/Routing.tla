------------------------------ MODULE Routing ------------------------------
(***************************************************************************)
(* A request to the registry port, from its path and method to its answer   *)
(* (src/proxy/mod.rs, classify and handle; src/proxy/upstream.rs): refused, *)
(* answered from the filtered document, or relayed as it came; a relayed    *)
(* write only after its audit row.  Resolution is the filtered document.    *)
(*                                                                          *)
(* Abstractions.  A segment of a path is the sequence of its words, which   *)
(* encoded slashes separate, an empty one <<>>; a raw backslash is a word   *)
(* of its own.  Words are told apart by the first character where the code  *)
(* looks at it.  Upstream is at the root of its host.  One request at a     *)
(* time: they share only the audit log.                                     *)
(***************************************************************************)
EXTENDS Resolution, SequencesExt

CONSTANTS
  Paths,       \* the paths clients send
  Scopes,      \* the words that start with @
  Unnameable,  \* the words that start with . or _
  Backslash,   \* the raw one, not an encoded one
  Named,       \* segment -> the version or tag it spells
  Responses,   \* what upstream may answer a packument request, see Response
  MaxBytes,    \* MAX_PACKUMENT_BYTES
  MaxVersions, \* MAX_PACKUMENT_VERSIONS
  MaxWrites    \* bound: writes are sent while fewer rows and relays than this

Segment == Seq(STRING)

(* The document is the one of Resolution, its versions as many as `count`.  *)
Response ==
  [ok : BOOLEAN, declared : Nat \cup {None}, bytes : Nat, json : BOOLEAN, count : Nat]

ASSUME RoutingAssumption ==
  /\ Paths \subseteq Seq(Segment)
  /\ Scopes \subseteq STRING /\ Unnameable \subseteq STRING
  /\ {".", ".."} \subseteq Unnameable
  /\ Backslash \in STRING /\ Backslash \notin Scopes \cup Unnameable \cup {"-"}
  /\ \A segment \in DOMAIN Named : Named[segment] \in Version \cup Tag
  /\ Responses \subseteq Response
  /\ MaxBytes \in Nat /\ MaxVersions \in Nat /\ MaxWrites \in Nat

VARIABLES
  optIn,    \* config.allow_publish_passthrough, never changes
  request,  \* the request being handled, None between two
  stage,    \* what its handler does next
  reply,    \* what it was answered, None until it is
  rows,     \* audit rows of relayed writes
  relayed   \* writes sent upstream

routingVars == <<optIn, request, stage, reply, rows, relayed>>
docVars == <<downgrade, versions, tags, withheld, answer>>

RoutingInit ==
  /\ optIn \in BOOLEAN
  /\ request = None /\ stage = "idle" /\ reply = None
  /\ rows = 0 /\ relayed = 0

-----------------------------------------------------------------------------
(* classify.                                                                *)

IsPackageSegment(segment) ==
  segment # <<>> /\ segment # <<"-">> /\ segment[1] \notin Unnameable

IsDotSegment(segment) == segment \in {<<".">>, <<"..">>}

Route(kind, package, spec) == [kind |-> kind, package |-> package, spec |-> spec]

Passthrough == Route("passthrough", None, None)

IsDistTags(segments) ==
  /\ Len(segments) = 4
  /\ segments[1] = <<"-">> /\ segments[2] = <<"package">> /\ segments[4] = <<"dist-tags">>
  /\ IsPackageSegment(segments[3])

HasSlash(segment) ==
  \E i \in 2..Len(segment) : Backslash \notin {segment[i - 1], segment[i]}

(* take_package: how many segments the name at the head takes, 0 for none.  *)
Taken(segments) ==
  IF segments = <<>> \/ ~IsPackageSegment(segments[1]) THEN 0
  ELSE IF segments[1][1] \in Scopes /\ ~HasSlash(segments[1])
  THEN IF Len(segments) > 1 THEN 2 ELSE 0
  ELSE 1

\* mutant: a route table that sees the path as it is written
SegmentsAsWritten(path) == path

(* The segments of a path that are not empty.                               *)
Segments(path) ==
  LET kept[i \in 0..Len(path)] ==
        IF i = 0 THEN <<>>
        ELSE IF path[i] = <<>> THEN kept[i - 1] ELSE Append(kept[i - 1], path[i])
  IN  kept[Len(path)]

Classify(path) ==
  LET segments == Segments(path)
      taken    == Taken(segments)
      package  == IF taken = 2 THEN segments[1] \o segments[2] ELSE segments[1]
  IN  IF \E i \in DOMAIN segments : IsDotSegment(segments[i]) THEN Route("invalid", None, None)
      ELSE IF IsDistTags(segments) THEN Route("dist_tags", segments[3], None)
      ELSE IF taken = 0 THEN Passthrough
      ELSE IF Len(segments) = taken THEN Route("packument", package, None)
      ELSE IF Len(segments) = taken + 1 THEN Route("version", package, segments[taken + 1])
      ELSE Passthrough

(* is_mutating: whatever is not known to read writes.                       *)
IsMutating(method, route) ==
  CASE method \in {"GET", "HEAD"} -> FALSE
    [] method = "POST" -> route.kind # "passthrough"
    [] OTHER -> TRUE

Methods == {"GET", "HEAD", "POST", "PUT", "COPY"}

-----------------------------------------------------------------------------
(* handle.                                                                  *)

Error(code) == [code |-> code, versions |-> {}, tags |-> <<>>]

Replies(with) == stage' = "idle" /\ request' = None /\ reply' = with

NextStage(method, route) ==
  CASE route.kind = "invalid" -> "invalid_path"
    [] route.kind # "invalid" /\ IsMutating(method, route) ->
         IF optIn THEN "audit" ELSE "publish_refused"
    [] route.kind = "passthrough" /\ ~IsMutating(method, route) -> "relay"
    [] OTHER -> "fetch"

(* A request, with the route it was given.                                  *)
Request == [method : Methods, path : Paths, route : {Classify(path) : path \in Paths}]

ASSUME RequestAssumption == None \notin Request

Receive(method, path) ==
  /\ stage = "idle"
  /\ LET route == Classify(path)
         next  == NextStage(method, route)
     IN  /\ next = "audit" => rows + relayed < MaxWrites
         /\ IF next \in {"invalid_path", "publish_refused"} THEN Replies(Error(next))
            ELSE /\ request' = [method |-> method, path |-> path, route |-> route]
                 /\ stage' = next
                 /\ reply' = None
  /\ UNCHANGED <<docVars, optIn, rows, relayed>>

(* record_mutation, on the blocking pool.                                   *)
AuditPublish ==
  /\ stage = "audit"
  /\ rows' = rows + 1
  /\ stage' = "relay"
  /\ UNCHANGED <<docVars, optIn, request, reply, relayed>>

\* mutant: a write that cannot be audited is relayed all the same
AfterAuditFailureRelays == stage' = "relay" /\ UNCHANGED <<request, reply>>

AfterAuditFailure == Replies(Error("store_unavailable"))

AuditFails ==
  /\ stage = "audit"
  /\ AfterAuditFailure
  /\ UNCHANGED <<docVars, optIn, rows, relayed>>

IsWrite == IsMutating(request.method, request.route)

(* The URL that forward builds of a path is read again by the client's URL  *)
(* parser.  A backslash separates segments like a slash:                    *)
Parts(segment) ==
  LET parts[i \in 0..Len(segment)] ==
        IF i = 0 THEN <<<<>>>>
        ELSE IF segment[i] = Backslash THEN Append(parts[i - 1], <<>>)
        ELSE Append(Front(parts[i - 1]), Append(Last(parts[i - 1]), segment[i]))
  IN  parts[Len(segment)]

Resplit(path) ==
  LET split[i \in 0..Len(path)] == IF i = 0 THEN <<>> ELSE split[i - 1] \o Parts(path[i])
  IN  split[Len(path)]

(* and a dot segment is followed.                                           *)
Collapsed(path) ==
  LET kept[i \in 0..Len(path)] ==
        CASE i = 0 -> <<>>
          [] i > 0 /\ path[i] = <<".">> -> kept[i - 1]
          [] i > 0 /\ path[i] = <<"..">> ->
               IF kept[i - 1] = <<>> THEN <<>> ELSE Front(kept[i - 1])
          [] OTHER -> Append(kept[i - 1], path[i])
  IN  kept[Len(path)]

UrlRead(path) == Collapsed(Resplit(path))

(* What upstream makes of that, by the registry's API: the words of all     *)
(* segments, an encoded slash no different from a plain one.                *)
Words(path) ==
  LET words[i \in 0..Len(path)] == IF i = 0 THEN <<>> ELSE words[i - 1] \o path[i]
  IN  words[Len(path)]

ResolvesPackage(path) ==
  LET words == Words(UrlRead(path))
      scoped == words # <<>> /\ words[1] \in Scopes
      name == IF scoped THEN 2 ELSE 1
  IN  /\ Len(words) \in {name, name + 1}
      /\ words[1] \notin Unnameable \cup {"-"}

(* What a relay brings back: whatever upstream has, unfiltered, unless what *)
(* it was sent is a write.                                                  *)
Relayed ==
  [code |-> "relayed", tags |-> <<>>,
   versions |-> IF ~IsWrite /\ ResolvesPackage(request.path) THEN versions ELSE {}]

(* proxy_through: upstream answers, or the body or the connection fails.    *)
Relay ==
  /\ stage = "relay"
  /\ relayed' = relayed + (IF IsWrite THEN 1 ELSE 0)
  /\ \E with \in {Relayed, Error("upstream_failed")} : Replies(with)
  /\ UNCHANGED <<docVars, optIn, rows>>

(* fetch_packument: the caps, on what is declared and on what comes; a      *)
(* status is handed on, and a document is taken whole or not at all.        *)
Fetched(response) ==
  CASE response.declared # None /\ response.declared > MaxBytes -> "too_large"
    [] response.bytes > MaxBytes -> "too_large"
    [] ~response.ok -> "status"
    [] ~response.json -> "bad_packument"
    [] response.count > MaxVersions -> "too_many_versions"
    [] OTHER -> "document"

\* mutant: the tags of the document upstream sent
ServedTagsRaw == tags

ServedTags == FilteredTags

Found(segment) ==
  {Answer(Named[s]).version : s \in
     {s \in {segment} \cap DOMAIN Named : Answer(Named[s]).status = "found"}}

(* serve_packument, serve_version and serve_dist_tags.                      *)
Served(route) ==
  CASE route.kind = "packument" ->
         [code |-> "packument", versions |-> Surviving, tags |-> ServedTags]
    [] route.kind = "version" ->
         [code |-> "version", versions |-> Found(route.spec), tags |-> <<>>]
    [] route.kind = "dist_tags" -> [code |-> "dist_tags", versions |-> {}, tags |-> ServedTags]

Fetch ==
  /\ stage = "fetch"
  /\ \E response \in Responses :
       Replies(IF Fetched(response) = "document" THEN Served(request.route)
               ELSE Error(Fetched(response)))
  /\ UNCHANGED <<docVars, optIn, rows, relayed>>

(* The client goes, and with it the handler; a row that is on the blocking  *)
(* pool is written all the same, or fails.                                  *)
Disconnect ==
  /\ stage # "idle"
  /\ Replies(None)
  /\ rows' \in {rows} \cup (IF stage = "audit" THEN {rows + 1} ELSE {})
  /\ UNCHANGED <<docVars, optIn, relayed>>

RoutingNext ==
  \/ \E method \in Methods, path \in Paths : Receive(method, path)
  \/ AuditPublish \/ AuditFails \/ Relay \/ Fetch \/ Disconnect

RoutingSpec == RoutingInit /\ [][RoutingNext]_<<docVars, routingVars>>

-----------------------------------------------------------------------------

RoutingTypeOK ==
  /\ stage \in {"idle", "audit", "relay", "fetch"}
  /\ request \in Request \cup {None} /\ (request # None <=> stage # "idle")
  /\ rows \in 0..MaxWrites /\ relayed \in 0..MaxWrites

HasBackslash(path) == \E i \in DOMAIN path : Backslash \in ToSet(path[i])

(* No endpoint or method, and no spelling of a path by encoded characters,  *)
(* empty or dot segments or encoded slashes, brings a client a version the  *)
(* gates withhold, whatever upstream answers: such a path that upstream     *)
(* reads as a package is never relayed, and a document is filtered whole    *)
(* (the claim of classify, build_app and resolve in proxy/mod.rs).  Nothing *)
(* is said of the relay of a path with a raw backslash in it, which the     *)
(* URL parser reads otherwise than classify: see RelayedAsClassified.       *)
NothingWithheldServed ==
  [][reply' # None /\ ~(stage = "relay" /\ HasBackslash(request.path)) =>
       /\ reply'.versions \cap withheld' = {}
       /\ downgrade' => \A t \in DOMAIN reply'.tags : reply'.tags[t] \notin withheld']_<<
     docVars, routingVars>>

(* The claim of Route::Invalid, proxy/mod.rs:337-338, that a path the URL   *)
(* parser reads otherwise than classify is not forwarded.  It does not      *)
(* hold: dot segments are refused, a raw backslash is not looked for.       *)
RelayedAsClassified ==
  stage = "relay" => Segments(UrlRead(request.path)) = Segments(request.path)

(* A write reaches upstream only where the operator has opted in, and never *)
(* without its row in the audit log, whoever leaves and whatever fails      *)
(* between the two.                                                         *)
WritesAccounted == relayed <= rows /\ (relayed > 0 => optIn)
=============================================================================
