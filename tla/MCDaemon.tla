------------------------------ MODULE MCDaemon ------------------------------
(* One package and one client credential; each run gives the versions, the  *)
(* documents upstream moves through and the hazards.                        *)
EXTENDS Daemon, TLC

CONSTANTS sha1, sha2, cmds, lib, v1, v2, r1, r2, r3, o1, anon

Symmetric == Permutations(Request)

Plain(hash) ==
  [integrity |-> hash, shasum |-> None, hooks |-> NoHooks, flag |-> FALSE,
   published |-> 0]

Hooked(hash) == [Plain(hash) EXCEPT !.hooks = cmds]

Single(meta) ==
  [versions |-> [v \in Version |-> IF v = v1 THEN meta ELSE None],
   malformed |-> FALSE, foreign |-> FALSE]

Pair(meta1, meta2) ==
  [versions |-> [v \in Version |-> IF v = v1 THEN meta1 ELSE meta2],
   malformed |-> FALSE, foreign |-> FALSE]

(* One version, replaced on a mirror that serves tarballs elsewhere.        *)
ReplacedDocs == <<Single(Plain(sha1)), [Single(Plain(sha2)) EXCEPT !.foreign = TRUE]>>
Replaced == {ReplacedDocs}

(* A plain version, and one an approval admits once it is old enough.       *)
ReviewedDocs == <<Pair(Plain(sha1), Hooked(sha1))>>

(* A document the engine cannot read.                                       *)
MalformedDocs == <<[Single(Plain(sha1)) EXCEPT !.malformed = TRUE]>>

Various == {ReplacedDocs, ReviewedDocs, MalformedDocs}

(* Never anything but one plain version.                                    *)
Steady == {<<Single(Plain(sha1))>>}
=============================================================================
