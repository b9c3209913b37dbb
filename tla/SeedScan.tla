------------------------------ MODULE SeedScan ------------------------------
(***************************************************************************)
(* The client's half of `npmfilter seed` (src/seed/mod.rs): the lockfiles   *)
(* are read, an installed tree is walked package by package, and what runs  *)
(* install hooks becomes an entry for the daemon, pinned to a hash found on *)
(* disk.  The tree is not held still meanwhile: npm may be installing.      *)
(* Control has the daemon's half.                                           *)
(*                                                                          *)
(* Abstractions.  A release <<name, version>> stands for the dist.integrity *)
(* the registry serves for it.  A tree is a set of package directories; one *)
(* of pnpm's store is a directory with no manifest, at the same depth.      *)
(* Symbolic links and files among a node_modules' entries, which are passed *)
(* over, are left out, but a package's own node_modules may be a link to    *)
(* one above it: it is followed.  Of a rule's reason only the source of the *)
(* hash is kept, and of that whether it is a lockfile.  `copies` and the    *)
(* tree hash are left out; that hashing can fail is not, nor that a stat    *)
(* can.                                                                     *)
(***************************************************************************)
EXTENDS Integers, SequencesExt

CONSTANTS
  Dir,            \* package directories
  DirName,        \* Dir -> the name it is installed under
  Contents,       \* the node_modules directories -> their packages, sorted
  Root,           \* the node_modules that is walked
  Layouts,        \* where the node_modules of each directory leads, or Unset
  Manifests,      \* Dir -> what its package.json may be
  Lockfiles,      \* what the lockfiles may say, see Record
  Replacements,   \* what npm may put in place of what: <<directory, package.json>>
  PackageName, PackageVersion, Hooks,
  NoHooks,        \* an empty ScriptSet
  Unset,
  Absent, Unreadable, Gone,  \* no package.json; not JSON; no directory any more
  MaxDepth,       \* MAX_DEPTH
  MaxSeedEntries, \* MAX_SEED_ENTRIES
  MaxInstalls     \* bound: packages replaced while the program runs

Hash == PackageName \X PackageVersion

PackageJson ==
  [name : PackageName \cup {Unset}, version : PackageVersion \cup {Unset},
   hooks : Hooks, integrity : Hash \cup {Unset}]

(* What a lockfile says of one package.  A v1 document names no directory.  *)
Record ==
  [key : Seq(PackageName) \cup {Unset}, name : PackageName \cup {Unset},
   version : PackageVersion \cup {Unset}, integrity : Hash \cup {Unset}, resolved : BOOLEAN]

ASSUME SeedAssumption ==
  /\ IsFiniteSet(Dir)
  /\ DirName \in [Dir -> PackageName]
  /\ \A nm \in DOMAIN Contents : Contents[nm] \in Seq(Dir)
  /\ Root \in DOMAIN Contents
  /\ Layouts \subseteq [Dir -> DOMAIN Contents \cup {Unset}]
  /\ Manifests \in [Dir -> SUBSET (PackageJson \cup {Absent, Unreadable, Gone})]
  /\ \A r \in Replacements : r[1] \in Dir /\ r[2] \in Manifests[r[1]]
  /\ Lockfiles \subseteq Seq(Seq(Record))
  /\ NoHooks \in Hooks
  /\ MaxDepth \in Nat /\ MaxSeedEntries \in Nat /\ MaxInstalls \in Nat

ASSUME MarkersAssumption ==
  /\ Unset \notin Seq(PackageName)
  /\ Absent \notin PackageJson /\ Unreadable \notin PackageJson /\ Gone \notin PackageJson
  /\ Absent # Unreadable /\ Absent # Gone /\ Unreadable # Gone

VARIABLES
  nested,   \* where the node_modules of each directory leads
  tree,     \* what the package.json of each directory is
  locks,    \* the hidden lockfile, package-lock.json, npm-shrinkwrap.json
  installs, \* packages replaced so far
  index,    \* the IntegrityIndex
  todo,     \* the directories to visit, next first
  candidates, \* release -> what was found of it
  warned,   \* what a warning names: <<"package", dir>>, or <<"below", dir>>
  result,   \* "idle", "walking", or how the last run ended
  read,     \* history: what this run has seen of the package.json of which directory
  missed    \* history: <<"package", dir>> or <<"below", dir>> of a stat that failed

diskVars == <<nested, tree, locks, installs>>
seedVars == <<nested, tree, locks, installs, index, todo, candidates, warned, result, read,
             missed>>

-----------------------------------------------------------------------------
(* Integrity discovery.                                                     *)

(* absorb and absorb_v1 pass over a record with neither an integrity nor a  *)
(* URL.                                                                     *)
Usable(record) == record.integrity # Unset \/ record.resolved

Absorbed(document) ==
  LET kept[i \in 0..Len(document)] ==
        IF i = 0 THEN <<>>
        ELSE IF Usable(document[i]) THEN Append(kept[i - 1], document[i]) ELSE kept[i - 1]
  IN  kept[Len(document)]

(* Both maps keep what was entered first, in the order of the sources: one  *)
(* sequence, of which the first that fits is taken.                         *)
IndexOf(documents) ==
  LET kept[i \in 0..Len(documents)] ==
        IF i = 0 THEN <<>> ELSE kept[i - 1] \o Absorbed(documents[i])
  IN  kept[Len(documents)]

First(Test(_)) ==
  LET i == SelectInSeq(index, Test) IN IF i = 0 THEN Unset ELSE index[i]

PathRecord(key) == First(LAMBDA record : record.key = key)

NameOfRecord(record) == IF record.name = Unset THEN Last(record.key) ELSE record.name

ReleaseRecord(name, version) ==
  First(LAMBDA record : record.version = version /\ NameOfRecord(record) = name)

(* Located: a hash, and where it was found.                                 *)
Located(integrity, source) ==
  [integrity |-> integrity, source |-> IF integrity = Unset THEN Unset ELSE source]

\* mutant: any record of the release will do for any directory of it
LookupByRelease(key, manifest) ==
  LET path  == PathRecord(key)
      other == ReleaseRecord(manifest.name, manifest.version)
  IN  IF path # Unset /\ path.integrity # Unset THEN Located(path.integrity, "lockfile")
      ELSE IF other # Unset /\ other.integrity # Unset THEN Located(other.integrity, "lockfile")
      ELSE Located(manifest.integrity, "package.json")

Lookup(key, manifest) ==
  LET path  == PathRecord(key)
      other == ReleaseRecord(manifest.name, manifest.version)
  IN  IF path # Unset /\ path.integrity # Unset THEN Located(path.integrity, "lockfile")
      ELSE IF path = Unset /\ other # Unset /\ other.integrity # Unset
           THEN Located(other.integrity, "lockfile")
      ELSE Located(manifest.integrity, "package.json")

-----------------------------------------------------------------------------
(* The walk.                                                                *)

(* walk_node_modules, as far as listing the directories: one too deep is    *)
(* not listed.                                                              *)
Listed(nm, key, depth) ==
  [i \in DOMAIN Contents[nm] |->
     [dir |-> Contents[nm][i], key |-> Append(key, DirName[Contents[nm][i]]), depth |-> depth + 1]]

IsTooDeep(visit) == nested[visit.dir] # Unset /\ visit.depth + 1 > MaxDepth

Below(visit) ==
  IF nested[visit.dir] = Unset \/ IsTooDeep(visit) THEN <<>>
  ELSE Listed(nested[visit.dir], visit.key, visit.depth + 1)

\* mutant: the lockfile's version is not compared
IsTrustedByName(key, manifest) ==
  /\ manifest.name # Unset /\ manifest.version # Unset
  /\ manifest.name = Last(key)

(* record_candidate: what may be seeded under the name and version that its *)
(* package.json gives.                                                      *)
IsTrusted(key, manifest) ==
  /\ manifest.name # Unset /\ manifest.version # Unset
  /\ manifest.name = Last(key)
  /\ PathRecord(key) # Unset => PathRecord(key).version \in {Unset, manifest.version}

(* record_candidate for a manifest that declares hooks: the candidates and  *)
(* warnings it leaves.                                                      *)
Recorded(visit, manifest, hashed) ==
  LET release == <<manifest.name, manifest.version>>
      entry   == [key |-> visit.key, hooks |-> manifest.hooks,
                  pin |-> Lookup(visit.key, manifest)]
      warn    == [candidates |-> candidates, warned |-> {<<"package", visit.dir>>}]
  IN  IF ~IsTrusted(visit.key, manifest) THEN warn
      ELSE IF release \in DOMAIN candidates THEN [warn EXCEPT !.warned = {}]
      ELSE IF ~hashed THEN warn
      ELSE [candidates |-> [r \in DOMAIN candidates \cup {release} |->
                              IF r = release THEN entry ELSE candidates[r]],
            warned |-> {}]

(* is_file of its package.json and is_dir of its node_modules are false of  *)
(* what is not there, and of what a stat fails on.                          *)
Stats(visit) ==
  [file : IF tree[visit.dir] \in {Gone, Absent} THEN {FALSE} ELSE BOOLEAN,
   below : IF tree[visit.dir] = Gone \/ nested[visit.dir] = Unset THEN {FALSE} ELSE BOOLEAN]

Missed(visit, is) ==
  (IF is.file \/ tree[visit.dir] \in {Gone, Absent} THEN {} ELSE {<<"package", visit.dir>>}) \cup
  (IF is.below \/ tree[visit.dir] = Gone \/ nested[visit.dir] = Unset THEN {}
   ELSE {<<"below", visit.dir>>})

(* visit_package, up to the walk of its own node_modules.                   *)
Visited(visit, is, hashed) ==
  LET manifest == tree[visit.dir]
      warn(why) == [candidates |-> candidates, warned |-> {<<why, visit.dir>>}]
      nothing == [candidates |-> candidates, warned |-> {}]
  IN  CASE manifest = Gone -> warn("below")
        [] manifest # Gone /\ ~is.file -> nothing
        [] manifest = Unreadable /\ is.file -> warn("package")
        [] OTHER -> IF manifest.hooks = NoHooks THEN nothing
                    ELSE Recorded(visit, manifest, hashed)

\* mutant: a package.json that does not parse ends the visit
NextVisitsIfRead(visit, is) ==
  IF is.below /\ tree[visit.dir] # Unreadable THEN Below(visit) ELSE <<>>

(* A directory that symlink_metadata cannot find has nothing below it.      *)
NextVisits(visit, is) == IF is.below THEN Below(visit) ELSE <<>>

Visit ==
  /\ result = "walking" /\ todo # <<>>
  /\ \E is \in Stats(Head(todo)), hashed \in BOOLEAN :
       LET visit == Head(todo)
           after == Visited(visit, is, hashed)
       IN  /\ todo' = NextVisits(visit, is) \o Tail(todo)
           /\ candidates' = after.candidates
           /\ warned' = warned \cup after.warned \cup
                (IF is.below /\ IsTooDeep(visit) THEN {<<"below", visit.dir>>} ELSE {})
           /\ read' = read \cup (IF <<"package", visit.dir>> \in Missed(visit, is) THEN {}
                               ELSE {<<visit.dir, tree[visit.dir]>>})
           /\ missed' = missed \cup Missed(visit, is)
  /\ UNCHANGED <<diskVars, index, result>>

(* read_dir fails, and the whole scan with it.                              *)
Unlistable ==
  /\ result = "walking" /\ todo # <<>>
  /\ result' = "failed"
  /\ UNCHANGED <<diskVars, index, todo, candidates, warned, read, missed>>

(* run: the index is loaded once, before the walk.                          *)
Start ==
  /\ result # "walking"
  /\ index' = IndexOf(locks)
  /\ todo' = Listed(Root, <<>>, 0)
  /\ candidates' = [r \in {} |-> Unset]
  /\ warned' = {} /\ read' = {} /\ missed' = {}
  /\ result' = "walking"
  /\ UNCHANGED diskVars

(* What can be pinned, as SeedCandidate::entry hands it to the daemon.      *)
Entries ==
  {[release |-> r, key |-> candidates[r].key, hooks |-> candidates[r].hooks,
    integrity |-> candidates[r].pin.integrity, source |-> candidates[r].pin.source] :
     r \in {c \in DOMAIN candidates : candidates[c].pin.integrity # Unset}}

Send ==
  /\ result = "walking" /\ todo = <<>>
  /\ result' = IF Cardinality(Entries) > MaxSeedEntries THEN "too_many" ELSE "sent"
  /\ UNCHANGED <<diskVars, index, todo, candidates, warned, read, missed>>

(* External: npm puts another package where one is, between two visits.     *)
Install(dir, manifest) ==
  /\ installs < MaxInstalls /\ result = "walking"
  /\ tree[dir] # manifest
  /\ tree' = [tree EXCEPT ![dir] = manifest]
  /\ installs' = installs + 1
  /\ UNCHANGED <<nested, locks, index, todo, candidates, warned, result, read, missed>>

SeedInit ==
  /\ nested \in Layouts
  /\ tree \in {t \in [Dir -> UNION {Manifests[d] : d \in Dir}] :
                 \A d \in Dir : t[d] \in Manifests[d] \ {Gone}}
  /\ locks \in Lockfiles
  /\ installs = 0
  /\ index = <<>> /\ todo = <<>>
  /\ candidates = [r \in {} |-> Unset]
  /\ warned = {} /\ read = {} /\ missed = {}
  /\ result = "idle"

SeedNext ==
  \/ Start \/ Visit \/ Unlistable \/ Send
  \/ \E r \in Replacements : Install(r[1], r[2])

SeedSpec == SeedInit /\ [][SeedNext]_seedVars

-----------------------------------------------------------------------------

(* A lockfile of npm's: a hash it records is that of the release it names,  *)
(* the registry's releases are recorded with theirs, and no directory is an *)
(* alias of another package.                                                *)
Truthful(record) ==
  /\ record.integrity # Unset =>
       /\ record.version # Unset
       /\ record.integrity = <<NameOfRecord(record), record.version>>
  /\ record.key # Unset => NameOfRecord(record) = Last(record.key)

(* From truthful lockfiles no entry takes the hash of another release: such *)
(* a rule would withhold the version for good (record_candidate's comment). *)
(* The tree, and so the package.json that the name and version come from,   *)
(* may be anything and may change under the walk, and an _integrity in it   *)
(* may be forged or stale.  Such a hash goes into no entry but one of the   *)
(* release that package.json names, installed under that name, and the      *)
(* entry says so; what the lockfile places in a directory without a hash, a *)
(* git or file dependency, never gets the hash of a namesake (lookup's).    *)
PinsTheRelease ==
  result = "sent" /\ (\A i \in DOMAIN index : Truthful(index[i])) =>
    \A e \in Entries :
      /\ e.source = "lockfile" => e.integrity = e.release
      /\ e.source # "lockfile" =>
           /\ e.source = "package.json"
           /\ \E seen \in read : /\ DirName[seen[1]] = Last(e.key)
                                 /\ seen[2] \in PackageJson
                                 /\ <<seen[2].name, seen[2].version>> = e.release
                                 /\ seen[2].integrity = e.integrity
      /\ LET path == PathRecord(e.key)
         IN  path # Unset /\ path.integrity = Unset => e.source = "package.json"

(* The directories under `nm`.                                              *)
Under(nm) ==
  LET within[n \in 0..Cardinality(Dir)] ==
        IF n = 0 THEN ToSet(Contents[nm])
        ELSE within[n - 1] \cup
             UNION {ToSet(Contents[nested[d]]) : d \in {e \in within[n - 1] : nested[e] # Unset}}
  IN  within[Cardinality(Dir)]

(* Whatever in the tree runs install hooks is in the report of a walk that  *)
(* ended: as a candidate, in a warning about itself, or under a directory   *)
(* that a warning says was not walked.  What npm put in place during the    *)
(* walk may be missed, and so is, in silence, a package.json or all that is *)
(* below a node_modules when a stat fails on it (visit_package).            *)
NothingSilent ==
  result \in {"sent", "too_many"} =>
    \A d \in Under(Root) :
      \/ tree[d] \notin PackageJson \/ tree[d].hooks = NoHooks
      \/ <<tree[d].name, tree[d].version>> \in DOMAIN candidates
      \/ <<"package", d>> \in warned \cup missed \/ <<"below", d>> \in warned
      \/ \E e \in Dir : /\ <<"below", e>> \in warned \cup missed
                        /\ nested[e] # Unset /\ d \in Under(nested[e])
      \/ installs > 0 /\ <<d, tree[d]>> \notin read
=============================================================================
