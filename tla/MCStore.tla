------------------------------ MODULE MCStore ------------------------------
(* Two kinds of behaviours, told apart by `part`, that share no state.      *)
(*                                                                          *)
(* "store": one package with one version: versions are independent but for  *)
(* the transaction they are reported in.                                    *)
(*                                                                          *)
(* "cache": two packages and a second credential for one of them; a small   *)
(* document, one most of the budget and one beyond it.                      *)
EXTENDS Reports, Cache, TLC

CONSTANTS sha, lib, v1, t1, t2, plain, scoped, other, small, large, over

VARIABLE part

MCHookMap == {NoHooks}

(* A version served with its sha512, then without any hash.                 *)
MCServed == {<<"integrity", sha>>, None}

MCRules == {DenyRule}

(* Two reasons of one event and one of the other.                           *)
MCReasons == {"too_new", "install_script_quarantine", "integrity_changed"}

MCSize == small :> 1 @@ large :> 3 @@ over :> 5

Symmetric == Permutations(Task) \cup Permutations(CacheKey)

-----------------------------------------------------------------------------

MCInit == part \in {"store", "cache"} /\ Init /\ CacheInit

MCNext ==
  \/ part = "store" /\ Next /\ UNCHANGED <<cacheVars, part>>
  \/ part = "cache" /\ CacheNext /\ UNCHANGED <<specVars, part>>

MCSpec == MCInit /\ [][MCNext]_<<specVars, cacheVars, part>>
=============================================================================
