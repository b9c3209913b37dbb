----------------------------- MODULE MCStartup -----------------------------
(* Two kinds of behaviours, told apart by `part`, that share no state.      *)
(*                                                                          *)
(* "startup": two daemons, one ledger row, every earlier version of the     *)
(* database, the same or different addresses, two endings.                  *)
(*                                                                          *)
(* "inspection": one inspection in a daemon that is up, the rest of the     *)
(* world held still.  Its inputs are many archives under one packument, and *)
(* many packuments with one archive.                                        *)
EXTENDS Startup, Inspection, TLC

CONSTANTS p1, p2, rel1, a1, a2

VARIABLE part

-----------------------------------------------------------------------------
(* Archives.  "none" and "hook" are manifests without and with hooks, "bad" *)
(* is not JSON.                                                             *)

MCContent == {"none", "hook", "bad", "x", "y"}

MCManifest ==
  [c \in MCContent |-> CASE c = "none" -> "no_hooks" [] c = "hook" -> "h" [] OTHER -> "invalid"]

File(root, name, content, size) ==
  [kind |-> "entry", file |-> TRUE, path |-> <<root, name>>, content |-> content, size |-> size]

Other(kind, size) ==
  [kind |-> kind, file |-> FALSE, path |-> <<"package">>, content |-> Absent, size |-> size]

MCBlocks ==
  {File("package", "package.json", c, 1) : c \in {"none", "hook", "bad"}} \cup
  {File("package", "package.json", "none", 2),
   File("package", "install.js", "x", 1), File("other", "install.js", "y", 1),
   Other("entry", 0), Other("more", 3), Other("corrupt", 0)}

End == Other("end", 0)

MCWires ==
  LET short == UNION {[1..n -> MCBlocks] : n \in 0..2}
  IN  short \cup {w \o <<End>> : w \in short} \cup {w \o <<End, Other("more", 3)>> : w \in short} \cup
      {<<b, c, Other(k, 0), Other(l, 0)>> \o <<End>> :
         b \in MCBlocks, c \in MCBlocks, k, l \in {"entry", "more"}}

Meta(semver, time, hooks) ==
  [semver |-> semver, time |-> time, hooks |-> hooks, integrity |-> TRUE, tarball |-> TRUE]

MCArchives ==
  {[versions |-> [v \in {1, 2} |-> Meta(v, v, IF v = 2 THEN hooks ELSE "no_hooks")],
    latest |-> 2, requested |-> Absent, wire |-> wire,
    pinned |-> (<<"install.js">> :> "x")] :
     wire \in MCWires, hooks \in {"no_hooks", "h"}}

MCPackuments ==
  {[versions |-> [v \in 1..3 |-> Meta(semver[v], time[v], hooks[v])],
    latest |-> latest, requested |-> Absent, pinned |-> (<<"install.js">> :> "x"),
    wire |-> <<File("package", "package.json", "hook", 1), End>>] :
     semver \in {<<3, 1, 2>>, <<1, Absent, 2>>},
     time \in [1..3 -> {0, 1, 2, Absent}],
     hooks \in {f \in [1..3 -> {"no_hooks", "h"}] : f[3] = "no_hooks"},
     latest \in {Absent, 3}}

(* No such version, no tarball, no hash to pin.                             *)
MCUnusual ==
  LET base == CHOOSE in \in MCArchives : in.wire = <<File("package", "package.json", "hook", 1), End>>
  IN  {[base EXCEPT !.requested = 9], [base EXCEPT !.requested = 1],
       [base EXCEPT !.versions[2].tarball = FALSE],
       [base EXCEPT !.versions[2].integrity = FALSE],
       [base EXCEPT !.versions = <<>>, !.latest = Absent]}

MCInputs == MCArchives \cup MCPackuments \cup MCUnusual

-----------------------------------------------------------------------------

AtRest ==
  /\ input = CHOOSE in \in MCUnusual : TRUE
  /\ handler = "gone" /\ pump = "idle" /\ fetched = 0 /\ hand = Broken
  /\ queue = <<>> /\ scan = Unstarted /\ report = Absent

AlreadyUp ==
  /\ version = Supported /\ columns = Late /\ seen = [rel \in Release |-> "none"]
  /\ pc = [p \in Process |-> IF p = p1 THEN "open" ELSE "closed"]
  /\ listen = [p \in Process |-> a1]
  /\ stage = [p \in Process |-> IF p = p1 THEN "serving" ELSE "down"]
  /\ port = [a \in Address |-> IF a = a1 THEN p1 ELSE None]
  /\ node = p1 /\ listening = {p1} /\ deaths = 0

MCInit ==
  \/ part = "startup" /\ StartInit /\ AtRest
  \/ part = "inspection" /\ AlreadyUp /\ InspectInit

MCNext ==
  \/ part = "startup" /\ StartNext /\ UNCHANGED <<inspectVars, part>>
  \/ part = "inspection" /\ InspectNext /\ UNCHANGED <<allVars, part>>

mcVars == <<allVars, inspectVars, part>>

MCSpec ==
  /\ MCInit /\ [][MCNext]_mcVars
  /\ \A p \in Process : WF_mcVars(part = "startup" /\ Step(p) /\ UNCHANGED <<inspectVars, part>>)
  /\ WF_mcVars(part = "inspection" /\ Scan /\ UNCHANGED <<allVars, part>>)
  /\ WF_mcVars(part = "inspection" /\ Pump /\ UNCHANGED <<allVars, part>>)
  /\ WF_mcVars(part = "inspection" /\ Command /\ UNCHANGED <<allVars, part>>)
=============================================================================
