----------------------------- MODULE MCControl -----------------------------
(* One package with two versions; then the first is replaced and the second *)
(* no longer runs anything.                                                 *)
EXTENDS Control, TLC

CONSTANTS sha1, sha2, cmds, lib, v1, v2, c1, c2

Published1(hash, hooks) ==
  [meta |-> [integrity |-> hash, shasum |-> None, hooks |-> hooks,
             flag |-> FALSE, published |-> 0],
   bytes |-> hash]

State(hash, hooks) ==
  [rel \in Release |-> IF rel[2] = v1 THEN Published1(hash, cmds) ELSE Published1(sha1, hooks)]

MCPublished == <<State(sha1, cmds), State(sha2, NoHooks)>>

Ask(op) ==
  [op |-> op, rel |-> <<lib, v1>>, pin |-> "none", entries |-> <<>>,
   dry |-> FALSE, offline |-> FALSE]

Tree == <<[rel |-> <<lib, v1>>, integrity |-> sha1, hooks |-> cmds],
          [rel |-> <<lib, v2>>, integrity |-> sha1, hooks |-> cmds]>>

Seed == [Ask("seed") EXCEPT !.entries = Tree]

MCAsked ==
  {Ask("deny"), Ask("silent"), Ask("garbled"), Ask("report"),
   Ask("allow"), [Ask("allow") EXCEPT !.pin = sha2],
   Seed, [Seed EXCEPT !.offline = TRUE], [Seed EXCEPT !.dry = TRUE]}

DryRun == {[Seed EXCEPT !.dry = TRUE]}
=============================================================================
