----------------------------- MODULE Migration -----------------------------
(***************************************************************************)
(* Opening the state database (src/store/mod.rs, migrate): the schema is    *)
(* applied, the columns earlier binaries lack are added, the ledger rows    *)
(* that are evidence of nothing are dropped, and the version is stamped.    *)
(* Every statement commits on its own, so a process may die between any two *)
(* and run the whole again over what is there, and two processes opening    *)
(* one file interleave statement by statement.                              *)
(*                                                                          *)
(* Only the columns an earlier binary's tables can lack are modelled; the   *)
(* audit table has none and is left out.                                    *)
(***************************************************************************)
EXTENDS Naturals

CONSTANTS
  Process,   \* the daemons that may open the file
  Release,   \* the versions the ledger may hold a row for
  Supported  \* SCHEMA_VERSION

ASSUME MigrationAssumption == Supported \in Nat /\ Supported >= 4

VARIABLES
  version, \* PRAGMA user_version
  columns, \* table -> the late columns it has; a table that is absent has no entry
  seen,    \* Release -> "none", "null" (integrity IS NULL) or "hash"
  pc       \* Process -> the statement it is at

vars == <<version, columns, seen, pc>>

Late == [rules |-> {"pins_json"}, seen |-> {"mismatch_count", "last_mismatch_ts"}]

Exists(table) == table \in DOMAIN columns

Has(table, column) == Exists(table) /\ column \in columns[table]

(* What the binaries before this one left: the mismatch columns came with   *)
(* v2, the end of NULL rows with v3, the pins with v4.  Version 0 is a file *)
(* just created; a larger version is a later binary's.                      *)
Left(v) ==
  IF v = 0 THEN [t \in {} |-> {}]
  ELSE [rules |-> IF v >= 4 THEN Late.rules ELSE {},
        seen |-> IF v >= 2 THEN Late.seen ELSE {}]

Init ==
  /\ version \in 0..(Supported + 1)
  /\ columns = Left(version)
  /\ seen \in [Release -> IF version = 0 THEN {"none"}
                          ELSE IF version < 3 THEN {"none", "null", "hash"}
                          ELSE {"none", "hash"}]
  /\ pc = [p \in Process |-> "closed"]

Goes(p, from, to) == pc[p] = from /\ pc' = [pc EXCEPT ![p] = to]

\* mutant: any other version than this binary's is migrated
AfterVersionAny(v) == IF v = Supported THEN "open" ELSE "create_rules"

(* Too new is refused, current is opened as it is.                          *)
AfterVersion(v) ==
  CASE v > Supported -> "refused"
    [] v < Supported -> "create_rules"
    [] OTHER -> "open"

ReadVersion(p) ==
  /\ Goes(p, "closed", AfterVersion(version))
  /\ UNCHANGED <<version, columns, seen>>

(* CREATE TABLE IF NOT EXISTS, with every column; an existing table keeps   *)
(* the columns it has.                                                      *)
Create(table) ==
  columns' = [t \in DOMAIN columns \cup {table} |->
                IF t \in DOMAIN columns THEN columns[t] ELSE Late[t]]

CreateRules(p) ==
  /\ Goes(p, "create_rules", "create_seen")
  /\ Create("rules")
  /\ UNCHANGED <<version, seen>>

CreateSeen(p) ==
  /\ Goes(p, "create_seen", "look_count")
  /\ Create("seen")
  /\ UNCHANGED <<version, seen>>

\* mutant: a table that has one of the late columns is taken to have both
LooksAny(p, column, at, absent, present) ==
  /\ Goes(p, at, IF columns["seen"] # {} THEN present ELSE absent)
  /\ UNCHANGED <<version, columns, seen>>

(* add_missing_column, first half: PRAGMA table_info.                       *)
Looks(p, column, at, absent, present) ==
  /\ Goes(p, at, IF Has("seen", column) THEN present ELSE absent)
  /\ UNCHANGED <<version, columns, seen>>

(* Second half: ALTER TABLE, which fails on a column another process has    *)
(* added since, and with it the opening.                                    *)
Alters(p, column, at, done) ==
  /\ Goes(p, at, IF Has("seen", column) THEN "failed" ELSE done)
  /\ columns' = [columns EXCEPT !["seen"] = @ \cup {column}]
  /\ UNCHANGED <<version, seen>>

LookCount(p) == Looks(p, "mismatch_count", "look_count", "add_count", "look_ts")
AddCount(p) == Alters(p, "mismatch_count", "add_count", "look_ts")
LookTs(p) == Looks(p, "last_mismatch_ts", "look_ts", "add_ts", "purge")
AddTs(p) == Alters(p, "last_mismatch_ts", "add_ts", "purge")

\* mutant: the ledger starts over
PurgedAll == [rel \in Release |-> "none"]

(* DELETE FROM seen WHERE integrity IS NULL.                                *)
Purged == [rel \in Release |-> IF seen[rel] = "null" THEN "none" ELSE seen[rel]]

Purge(p) ==
  /\ Goes(p, "purge", "stamp")
  /\ seen' = Purged
  /\ UNCHANGED <<version, columns>>

Stamp(p) ==
  /\ Goes(p, "stamp", "open")
  /\ version' = Supported
  /\ UNCHANGED <<columns, seen>>

Opens(p) ==
  \/ ReadVersion(p) \/ CreateRules(p) \/ CreateSeen(p)
  \/ LookCount(p) \/ AddCount(p) \/ LookTs(p) \/ AddTs(p)
  \/ Purge(p) \/ Stamp(p)

(* The ledger records what it sees, a version without a hash as NULL.       *)
Record(rel) ==
  /\ \E p \in Process : pc[p] = "open"
  /\ seen[rel] = "none"
  /\ \E identity \in {"hash", "null"} : seen' = [seen EXCEPT ![rel] = identity]
  /\ UNCHANGED <<version, columns, pc>>

(* The process ends or dies, at any point.                                  *)
Die(p) ==
  /\ pc[p] # "closed"
  /\ pc' = [pc EXCEPT ![p] = "closed"]
  /\ UNCHANGED <<version, columns, seen>>

Next ==
  \/ \E p \in Process : Opens(p) \/ Die(p)
  \/ \E rel \in Release : Record(rel)

Spec == Init /\ [][Next]_vars

-----------------------------------------------------------------------------

TypeOK ==
  /\ version \in 0..(Supported + 1)
  /\ DOMAIN columns \subseteq DOMAIN Late
  /\ \A t \in DOMAIN columns : columns[t] \subseteq Late[t]
  /\ seen \in [Release -> {"none", "null", "hash"}]
  /\ pc \in [Process -> {"closed", "create_rules", "create_seen", "look_count",
                         "add_count", "look_ts", "add_ts", "purge", "stamp",
                         "open", "refused", "failed"}]

(* However often opening was interrupted, and whoever else opens the file,  *)
(* a database that opens has a ledger every statement of the store can run  *)
(* on.                                                                      *)
LedgerUsable ==
  (\E p \in Process : pc[p] = "open") =>
    Exists("seen") /\ Late.seen \subseteq columns["seen"]

(* Upgrading drops what was evidence of nothing and no other row, and a     *)
(* later binary's database is left as it is.                                *)
OnlyNullsDropped ==
  [][/\ \A rel \in Release : seen[rel] = "hash" => seen'[rel] = "hash"
     /\ version > Supported => UNCHANGED <<version, columns, seen>>]_vars

(* The claim of migrate: a database written by an earlier binary gets what  *)
(* it lacks, so that the rules can be read and written, too.                *)
RulesUsable ==
  (\E p \in Process : pc[p] = "open") =>
    Exists("rules") /\ Late.rules \subseteq columns["rules"]
=============================================================================
