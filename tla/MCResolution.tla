---------------------------- MODULE MCResolution ----------------------------
(* Three kinds of behaviours, told apart by `part`, that share no state.    *)
(*                                                                          *)
(* "resolution": four versions, two of them prereleases, under two tags;    *)
(* every document, every set of withheld versions, every spec.              *)
(*                                                                          *)
(* "routing": every path of up to three segments and some of four, every    *)
(* method and answer of upstream, over one document of two versions.        *)
(*                                                                          *)
(* "seed": a tree of two packages and one below the first, whose own        *)
(* node_modules may also be a link to the root, and up to two lockfiles.    *)
EXTENDS Routing, SeedScan

CONSTANTS latest, beta

VARIABLE part

MCVersion == 1..4
MCStable == {1, 3}

MCSegments ==
  {<<>>, <<"pkg">>, <<"@s">>, <<"@s", "pkg">>, <<"-">>, <<"latest">>, <<"v1">>, <<"..">>,
   <<"_all">>, <<"..", "\\", "pkg">>}

MCBackslash == "\\"

MCPaths ==
  (UNION {[1..n -> MCSegments] : n \in 0..3}) \cup
  {<<a, <<"package">>, b, c>> :
     a \in {<<"-">>, <<>>}, b \in MCSegments, c \in {<<"dist-tags">>, <<"v1">>}}

MCNamed == <<"latest">> :> latest @@ <<"v1">> :> 1

MCResponses ==
  LET good == [ok |-> TRUE, declared |-> 1, bytes |-> 1, json |-> TRUE, count |-> 2]
  IN  {good, [good EXCEPT !.declared = None], [good EXCEPT !.declared = 3],
       [good EXCEPT !.declared = None, !.bytes = 3], [good EXCEPT !.ok = FALSE],
       [good EXCEPT !.json = FALSE], [good EXCEPT !.count = 3]}

-----------------------------------------------------------------------------
(* Directories: 1 and 2 at the root, 3 in 1 and a namesake of 2.            *)

MCDirName == <<"a", "b", "b">>
MCContents == [root |-> <<1, 2>>, inner |-> <<3>>]
MCLayouts == {<<where, Unset, Unset>> : where \in {Unset, "inner", "root"}}

Json(name, version, hooks, integrity) ==
  [name |-> name, version |-> version, hooks |-> hooks, integrity |-> integrity]

MCManifests ==
  <<{Absent, Unreadable, Gone, Json("a", 1, "no_hooks", Unset), Json("a", 1, "hook", Unset),
     Json("a", 2, "hook", Unset), Json("b", 1, "hook", Unset), Json(Unset, 1, "hook", Unset),
     Json("a", Unset, "hook", Unset), Json("a", 1, "hook", <<"a", 1>>),
     Json("a", 1, "hook", <<"a", 2>>)},
    {Absent, Json("b", 1, "hook", Unset)},
    {Gone, Json("b", 1, "hook", Unset), Json("b", 2, "hook", <<"b", 2>>)}>>

MCReplacements ==
  {<<1, Json("a", 2, "hook", Unset)>>, <<2, Json("b", 1, "hook", Unset)>>, <<3, Gone>>,
   <<3, Json("b", 2, "hook", <<"b", 2>>)>>}

Locked(key, version, integrity, resolved) ==
  [key |-> key, name |-> IF key = Unset THEN "b" ELSE Unset, version |-> version,
   integrity |-> integrity, resolved |-> resolved]

(* The hidden lockfile and the project's: the registry's releases with      *)
(* their hashes, a git dependency without one, one npm took from a bundle,  *)
(* and a document of version 1.                                             *)
MCLockfiles ==
  LET a(v) == Locked(<<"a">>, v, <<"a", v>>, TRUE)
      b(key) == Locked(key, 1, <<"b", 1>>, TRUE)
  IN  {<<first \o inner \o outer, second>> :
         first \in {<<>>, <<a(1)>>, <<Locked(<<"a">>, 1, Unset, TRUE)>>,
                   <<Locked(<<"a">>, Unset, Unset, TRUE)>>, <<Locked(<<"a">>, 1, Unset, FALSE)>>},
         inner \in {<<>>, <<b(<<"a", "b">>)>>, <<Locked(<<"a", "b">>, 1, Unset, TRUE)>>},
         outer \in {<<>>, <<b(<<"b">>)>>},
         second \in {<<>>, <<a(2)>>, <<b(Unset)>>}}

-----------------------------------------------------------------------------

(* One document: `latest` names the newer of two versions.                  *)
OneDocument ==
  /\ downgrade \in BOOLEAN
  /\ versions = {1, 3}
  /\ tags = (latest :> 3)
  /\ withheld \in {{}, {3}, {1, 3}}
  /\ answer = None

Unrouted ==
  /\ optIn = FALSE /\ request = None /\ stage = "idle" /\ reply = None
  /\ rows = 0 /\ relayed = 0

(* No path is routed and no tree is walked.                                 *)
Unwalked ==
  /\ nested = <<Unset, Unset, Unset>> /\ tree = <<Absent, Absent, Absent>> /\ locks = <<>>
  /\ installs = 0 /\ index = <<>> /\ todo = <<>>
  /\ candidates = [r \in {} |-> Unset] /\ warned = {} /\ read = {} /\ missed = {}
  /\ result = "idle"

Undecided ==
  downgrade = FALSE /\ versions = {} /\ tags = [t \in {} |-> None] /\ withheld = {} /\ answer = None

MCInit ==
  \/ part = "resolution" /\ Init /\ Unrouted /\ Unwalked
  \/ part = "routing" /\ OneDocument /\ RoutingInit /\ Unwalked
  \/ part = "seed" /\ Undecided /\ Unrouted /\ SeedInit

MCNext ==
  \/ part = "resolution" /\ Next /\ UNCHANGED <<routingVars, seedVars, part>>
  \/ part = "routing" /\ RoutingNext /\ UNCHANGED <<seedVars, part>>
  \/ part = "seed" /\ SeedNext /\ UNCHANGED <<vars, routingVars, part>>

MCSpec == MCInit /\ [][MCNext]_<<vars, routingVars, seedVars, part>>
=============================================================================
