------------------------------ MODULE MCSerial ------------------------------
(* Two kinds of behaviours, told apart by `part`, that share no state: one  *)
(* thing at a time.                                                         *)
(*                                                                          *)
(* "daemon": three requests, a single evaluation slot.                      *)
(*                                                                          *)
(* "review": every shape one version can have, over a window of a few days. *)
EXTENDS MCDaemon, Review

CONSTANTS cmds2, own

VARIABLE part

(* Older than either age the gates ask for.                                 *)
Aged == [Plain(sha1) EXCEPT !.published = 0 - Floor]

(* A document the engine cannot read, put right by upstream.                *)
Rejected == {<<[Single(Aged) EXCEPT !.malformed = TRUE], Single(Aged)>>}

(* Versions with a hash of either kind, both or none; hooks declared,       *)
(* flagged, both or neither; published before or after the review began, or *)
(* at an unknown time.                                                      *)
MCMetas ==
  [integrity : {None, sha1, sha2}, shasum : {None, sha1},
   hooks : {NoHooks, cmds}, flag : BOOLEAN, published : {None, 0, 1}]
  \cup [integrity : {sha1}, shasum : {None}, hooks : {cmds2},
        flag : {FALSE}, published : {None, 0, 1}]

-----------------------------------------------------------------------------

Unreviewed ==
  /\ pkg = lib /\ meta = Aged /\ baseline = VersionIdentity(meta)
  /\ rule = None /\ now = 0

MCInit ==
  \/ part = "daemon" /\ Init /\ Unreviewed
  \/ part = "review" /\ Init /\ ReviewInit

MCNext ==
  \/ part = "daemon" /\ Next /\ UNCHANGED <<reviewVars, part>>
  \/ part = "review" /\ ReviewNext /\ UNCHANGED <<vars, part>>

mcVars == <<vars, reviewVars, part>>

MCSpec ==
  /\ MCInit /\ [][MCNext]_mcVars
  /\ \A r \in Request :
       /\ SF_mcVars(part = "daemon" /\ (AdmitHit(r) \/ AdmitMiss(r)) /\ UNCHANGED <<reviewVars, part>>)
       /\ WF_mcVars(part = "daemon" /\ (Fetch(r) \/ FetchFails(r)) /\ UNCHANGED <<reviewVars, part>>)
       /\ WF_mcVars(part = "daemon" /\ CacheInsert(r) /\ UNCHANGED <<reviewVars, part>>)
       /\ WF_mcVars(part = "daemon" /\ Evaluation(r) /\ UNCHANGED <<reviewVars, part>>)
  /\ WF_mcVars(part = "review" /\ Day /\ UNCHANGED <<vars, part>>)
=============================================================================
