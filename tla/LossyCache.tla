----------------------------- MODULE LossyCache -----------------------------
(***************************************************************************)
(* What the rest of the daemon may rely on in the packument cache: a lookup *)
(* answers with the document last stored under that key, or with nothing.   *)
(* Which documents are forgotten, and when, is left open; one that has been *)
(* followed by another under its key is never seen again.                   *)
(***************************************************************************)
CONSTANTS Key, Doc, None

VARIABLES
  latest, \* Key -> the document last stored under it, or None
  answer  \* the last lookup: its key and what it answered

lossyVars == <<latest, answer>>

Init ==
  /\ latest = [k \in Key |-> None]
  /\ answer = None

Insert(key, doc) ==
  /\ latest' = [latest EXCEPT ![key] = doc]
  /\ UNCHANGED answer

Lookup(key) ==
  /\ \E doc \in {latest[key], None} : answer' = [key |-> key, doc |-> doc]
  /\ UNCHANGED latest

Next ==
  \E key \in Key :
    \/ \E doc \in Doc : Insert(key, doc)
    \/ Lookup(key)

Spec == Init /\ [][Next]_lossyVars
=============================================================================
