----------------------------- MODULE Resolution -----------------------------
(***************************************************************************)
(* The filtered packument and the endpoints answered from it: which         *)
(* versions and dist-tags survive (policy::evaluate, repoint_dist_tags),    *)
(* which withheld tags a response names (shape::withheld_dist_tags), and    *)
(* what GET /{package}/{spec} answers (resolve_spec, version_not_found).    *)
(*                                                                          *)
(* Versions are numbers in the order of compare_versions, which is total.   *)
(* Verdicts are given here as the set of withheld versions; Policy says how *)
(* one comes about.                                                         *)
(***************************************************************************)
EXTENDS Integers, FiniteSetsExt, Functions

CONSTANTS
  Version,     \* every version string, as its rank under compare_versions
  Stable,      \* the versions that parse as semver without a prerelease part
  Tag,         \* dist-tag names, none of which is a version string
  None

ASSUME ResolutionAssumption ==
  /\ Version \subseteq Nat
  /\ Stable \subseteq Version
  /\ Tag \cap Version = {}
  /\ None \notin Version \cup Tag

VARIABLES
  downgrade, \* config.allow_dist_tag_downgrade, never changes
  versions, \* the versions upstream publishes
  tags,     \* upstream's dist-tags; None is a target that is not a string
  withheld, \* the versions the gates block in this evaluation
  answer    \* the last answer of the version endpoint, None before any

vars == <<downgrade, versions, tags, withheld, answer>>

Surviving == versions \ withheld

(* newest_surviving: stable releases first when the target was stable.      *)
NewestSurviving(S, preferStable) ==
  LET stable == S \cap Stable
  IN  IF preferStable /\ stable # {} THEN Max(stable)
      ELSE IF S # {} THEN Max(S)
      ELSE None

(* repoint_dist_tags: a tag whose target survived is kept, any other moves, *)
(* and one with no candidate at all is dropped.                             *)
Repointed ==
  LET Target(t) ==
        IF tags[t] \in Surviving THEN tags[t]
        ELSE NewestSurviving(Surviving, tags[t] = None \/ tags[t] \in Stable)
  IN  [t \in {u \in DOMAIN tags : Target(u) # None} |-> Target(t)]

\* mutant: the opt-in is not asked for
FilteredTagsAlways == Repointed

\* mutant: the opt-in is ignored
FilteredTagsNever == tags

FilteredTags == IF downgrade THEN Repointed ELSE tags

\* mutant: only tags on stable releases are listed
WithheldStableTags ==
  {t \in DOMAIN FilteredTags : FilteredTags[t] \in withheld \cap Stable}

(* withheld_dist_tags: the tags of the response that name a withheld        *)
(* version, as the response headers and the packument summary list them.    *)
WithheldTags == {t \in DOMAIN FilteredTags : FilteredTags[t] \in withheld}

(* resolve_spec: an exact surviving version, else what the tag names.       *)
ResolveSpec(spec) ==
  IF spec \in Surviving THEN spec
  ELSE IF spec \in DOMAIN FilteredTags THEN FilteredTags[spec]
  ELSE None

\* mutant: block records are looked up by what the client asked for
AnswerBySpec(spec) ==
  LET target == ResolveSpec(spec)
  IN  IF target \in Surviving THEN [status |-> "found", spec |-> spec, version |-> target]
      ELSE IF spec \in withheld
      THEN [status |-> "version_withheld", spec |-> spec, version |-> spec]
      ELSE [status |-> "version_not_found", spec |-> spec, version |-> None]

(* serve_version and version_not_found.                                     *)
Answer(spec) ==
  LET target  == ResolveSpec(spec)
      blocked == IF target = None THEN spec ELSE target
  IN  IF target \in Surviving THEN [status |-> "found", spec |-> spec, version |-> target]
      ELSE IF blocked \in withheld
      THEN [status |-> "version_withheld", spec |-> spec, version |-> blocked]
      ELSE [status |-> "version_not_found", spec |-> spec, version |-> None]

Init ==
  /\ downgrade \in BOOLEAN
  /\ versions \in SUBSET Version \ {{}}
  /\ tags \in UNION {[D -> Version \cup {None}] : D \in SUBSET Tag}
  /\ withheld \in SUBSET versions
  /\ answer = None

(* A later evaluation of the same document: gates clear, rules change.      *)
Reevaluate ==
  /\ withheld' \in SUBSET versions
  /\ answer' = None
  /\ UNCHANGED <<downgrade, versions, tags>>

GetVersion(spec) ==
  /\ answer' = Answer(spec)
  /\ UNCHANGED <<downgrade, versions, tags, withheld>>

Next ==
  \/ Reevaluate
  \/ \E spec \in Version \cup Tag : GetVersion(spec)

Spec == Init /\ [][Next]_vars

-----------------------------------------------------------------------------

TypeOK ==
  /\ downgrade \in BOOLEAN
  /\ versions \subseteq Version
  /\ tags \in UNION {[D -> Version \cup {None}] : D \in SUBSET Tag}
  /\ withheld \subseteq versions
  /\ answer # None =>
       /\ answer.status \in {"found", "version_withheld", "version_not_found"}
       /\ answer.version \in versions \cup {None}

(* What upstream would have answered for a spec.                            *)
Upstream(spec) ==
  IF spec \in versions THEN spec
  ELSE IF spec \in DOMAIN tags THEN tags[spec] ELSE None

(* Without the opt-in a client is never moved onto a version it did not ask *)
(* for: what it gets, or is told is withheld, is what upstream means by the *)
(* spec (policy/mod.rs, allow_dist_tag_downgrade).                          *)
NeverRedirected ==
  ~downgrade /\ answer # None /\ answer.status # "version_not_found"
    => answer.version = Upstream(answer.spec)

(* Without the opt-in, a 404 that says the version does not exist is never  *)
(* about a version upstream publishes (proxy/mod.rs, version_not_found).    *)
NotFoundIsTrue ==
  ~downgrade /\ answer # None /\ answer.status = "version_not_found"
    => Upstream(answer.spec) \notin versions

(* A tag whose target is withheld is named to the client, and it is the     *)
(* only kind of tag that is: a client asking for such a tag is told which   *)
(* gate stopped it and by no other 404 (shape::withheld_dist_tags).         *)
WithheldTagsExplained ==
  \A t \in Tag :
    t \in WithheldTags <=> Answer(t).status = "version_withheld"
=============================================================================
