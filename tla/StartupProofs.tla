---------------------------- MODULE StartupProofs ----------------------------
(***************************************************************************)
(* Proofs about opening the state database (Migration), about daemons that  *)
(* start, die and are restarted over it (Startup), and about the inspection *)
(* of a tarball (Inspection).                                               *)
(*                                                                          *)
(* A database that opens has a ledger the store can use, upgrading drops    *)
(* nothing that is evidence, and the approval surface is never split in     *)
(* two: for any number of processes, each interrupted at any statement or   *)
(* system call, from every earlier version of the file and every state the  *)
(* path may be left in.  What a scan says of an archive is true of it, and  *)
(* a report warns of what an install would run: for every packument, wire   *)
(* and limit, wherever the download breaks or the command is dropped.       *)
(***************************************************************************)
EXTENDS Startup, Inspection, FiniteSetTheorems, SequenceTheorems,
        WellFoundedInduction, TLAPS

Pcs ==
  {"closed", "create_rules", "create_seen", "look_count", "add_count", "look_ts",
   "add_ts", "purge", "stamp", "open", "refused", "failed"}

(* Which statements a process has behind it, by the one it is at.           *)
SeenMade == {"look_count", "add_count", "look_ts", "add_ts", "purge", "stamp", "open"}
CountMade == {"look_ts", "add_ts", "purge", "stamp", "open"}
TsMade == {"purge", "stamp", "open"}

(* What a process has done stays done, whoever else runs, dies or starts    *)
(* over: tables and columns are only ever added.  And a file that carries   *)
(* the current version lacks nothing, as the stamp comes last.              *)
Progress ==
  /\ \A p \in Process :
       /\ pc[p] \in SeenMade => Exists("seen")
       /\ pc[p] \in CountMade => Has("seen", "mismatch_count")
       /\ pc[p] \in TsMade => Has("seen", "last_mismatch_ts")
  /\ version = Supported =>
       Has("seen", "mismatch_count") /\ Has("seen", "last_mismatch_ts")

IInv == TypeOK /\ Progress

(* The tables that have late columns.                                       *)
LEMMA LateTables == DOMAIN Late = {"rules", "seen"}
BY DEF Late

(* The late columns.                                                        *)
LEMMA LateColumns ==
  /\ Late["rules"] = {"pins_json"}
  /\ Late["seen"] = {"mismatch_count", "last_mismatch_ts"}
BY DEF Late

(* A file as an earlier binary left it, or a later one.                     *)
LEMMA InitHolds == Init => IInv
<1> SUFFICES ASSUME Init PROVE IInv
  OBVIOUS
<1> USE MigrationAssumption
<1>1. TypeOK
  BY DEF Init, TypeOK, Left, Late
<1>2. Progress
  <2>1. ASSUME version = Supported
        PROVE  Has("seen", "mismatch_count") /\ Has("seen", "last_mismatch_ts")
    BY <2>1 DEF Init, Left, Late, Has, Exists
  <2> QED
    BY <2>1 DEF Init, Progress, SeenMade, CountMade, TsMade
<1> QED
  BY <1>1, <1>2 DEF IInv

(* No action takes a table or a column away.                                *)
Grows ==
  /\ DOMAIN columns \subseteq DOMAIN columns'
  /\ \A t \in DOMAIN columns : columns[t] \subseteq columns'[t]

(* CREATE TABLE IF NOT EXISTS adds a table or changes nothing.              *)
LEMMA CreateGrows ==
  ASSUME TypeOK, NEW table \in {"rules", "seen"}, Create(table)
  PROVE  /\ Grows
         /\ table \in DOMAIN columns'
         /\ DOMAIN columns' \subseteq DOMAIN Late
         /\ \A t \in DOMAIN columns' : columns'[t] \subseteq Late[t]
BY LateTables DEF TypeOK, Create, Grows

(* ALTER TABLE ADD COLUMN adds a column to one table.                       *)
LEMMA AlterGrows ==
  ASSUME TypeOK, Exists("seen"), NEW column \in Late["seen"],
         columns' = [columns EXCEPT !["seen"] = @ \cup {column}]
  PROVE  /\ Grows
         /\ column \in columns'["seen"]
         /\ DOMAIN columns' = DOMAIN columns
         /\ \A t \in DOMAIN columns' : columns'[t] \subseteq Late[t]
BY DEF TypeOK, Exists, Grows

(* One process moves; the tables grow, and what its new place asks for is   *)
(* there.                                                                   *)
LEMMA OneMoves ==
  ASSUME Progress, TypeOK, Grows, NEW p \in Process, NEW to \in Pcs,
         pc' = [pc EXCEPT ![p] = to],
         to \in SeenMade => Exists("seen")',
         to \in CountMade => Has("seen", "mismatch_count")',
         to \in TsMade => Has("seen", "last_mismatch_ts")',
         version' = Supported =>
           version = Supported \/ (Has("seen", "mismatch_count") /\ Has("seen", "last_mismatch_ts"))'
  PROVE  Progress'
<1>1. Exists("seen") => Exists("seen")'
  BY DEF Grows, Exists
<1>2. \A c : Has("seen", c) => Has("seen", c)'
  BY DEF Grows, Has, Exists
<1>3. \A q \in Process : pc'[q] = IF q = p THEN to ELSE pc[q]
  BY DEF TypeOK
<1> QED
  BY <1>1, <1>2, <1>3 DEF Progress

(* The statements that only look, and those that only write rows.           *)
LEMMA SameColumns ==
  ASSUME TypeOK, UNCHANGED columns
  PROVE  Grows
BY DEF Grows

(* Every statement of every process keeps the invariant.                    *)
LEMMA StepHolds ==
  ASSUME IInv, [Next]_vars
  PROVE  IInv'
<1> USE MigrationAssumption
<1>1. TypeOK /\ Progress
  BY DEF IInv
<1>2. ASSUME NEW p \in Process, ReadVersion(p)
      PROVE  IInv'
  <2>1. TypeOK'
    BY <1>1, <1>2 DEF ReadVersion, Goes, AfterVersion, TypeOK
  <2>2. AfterVersion(version) \in Pcs
    BY DEF AfterVersion, Pcs
  <2>3. AfterVersion(version) \in SeenMade \cup CountMade \cup TsMade => version = Supported
    BY <1>1 DEF AfterVersion, SeenMade, CountMade, TsMade, TypeOK
  <2>4. Grows
    BY <1>1, <1>2, SameColumns DEF ReadVersion
  <2>5. Progress'
    BY <1>1, <1>2, <2>2, <2>3, <2>4, OneMoves DEF ReadVersion, Goes, Progress, Has, Exists
  <2> QED
    BY <2>1, <2>5 DEF IInv
<1>3. ASSUME NEW p \in Process, CreateRules(p)
      PROVE  IInv'
  <2>1. Grows /\ TypeOK'
    BY <1>1, <1>3, CreateGrows DEF CreateRules, Goes, TypeOK
  <2>2. Progress'
    BY <1>1, <1>3, <2>1, OneMoves DEF CreateRules, Goes, Pcs, SeenMade, CountMade, TsMade
  <2> QED
    BY <2>1, <2>2 DEF IInv
<1>4. ASSUME NEW p \in Process, CreateSeen(p)
      PROVE  IInv'
  <2>1. Grows /\ TypeOK' /\ Exists("seen")'
    BY <1>1, <1>4, CreateGrows DEF CreateSeen, Goes, TypeOK, Exists
  <2>2. Progress'
    BY <1>1, <1>4, <2>1, OneMoves DEF CreateSeen, Goes, Pcs, SeenMade, CountMade, TsMade
  <2> QED
    BY <2>1, <2>2 DEF IInv
<1>5. ASSUME NEW p \in Process, LookCount(p)
      PROVE  IInv'
  <2>1. Grows /\ TypeOK'
    BY <1>1, <1>5, SameColumns DEF LookCount, Looks, Goes, TypeOK
  <2>2. Exists("seen")
    BY <1>1, <1>5 DEF LookCount, Looks, Goes, Progress, SeenMade
  <2>3. Progress'
    BY <1>1, <1>5, <2>1, <2>2, OneMoves
       DEF LookCount, Looks, Goes, Pcs, SeenMade, CountMade, TsMade, Exists, Has
  <2> QED
    BY <2>1, <2>3 DEF IInv
<1>6. ASSUME NEW p \in Process, LookTs(p)
      PROVE  IInv'
  <2>1. Grows /\ TypeOK'
    BY <1>1, <1>6, SameColumns DEF LookTs, Looks, Goes, TypeOK
  <2>2. Exists("seen") /\ Has("seen", "mismatch_count")
    BY <1>1, <1>6 DEF LookTs, Looks, Goes, Progress, SeenMade, CountMade
  <2>3. Progress'
    BY <1>1, <1>6, <2>1, <2>2, OneMoves
       DEF LookTs, Looks, Goes, Pcs, SeenMade, CountMade, TsMade, Exists, Has
  <2> QED
    BY <2>1, <2>3 DEF IInv
<1>7. ASSUME NEW p \in Process, AddCount(p)
      PROVE  IInv'
  <2>1. Exists("seen")
    BY <1>1, <1>7 DEF AddCount, Alters, Goes, Progress, SeenMade
  <2>2. /\ Grows /\ "mismatch_count" \in columns'["seen"]
        /\ DOMAIN columns' = DOMAIN columns
        /\ \A t \in DOMAIN columns' : columns'[t] \subseteq Late[t]
    BY <1>1, <1>7, <2>1, AlterGrows, LateColumns DEF AddCount, Alters
  <2>3. TypeOK'
    BY <1>1, <1>7, <2>2 DEF AddCount, Alters, Goes, TypeOK
  <2>4. PICK to \in {"failed", "look_ts"} : pc' = [pc EXCEPT ![p] = to]
    BY <1>7 DEF AddCount, Alters, Goes
  <2>5. Has("seen", "mismatch_count")' /\ Exists("seen")'
    BY <2>1, <2>2 DEF Has, Exists
  <2>6. Progress'
    BY <1>1, <1>7, <2>2, <2>4, <2>5, OneMoves
       DEF AddCount, Alters, Pcs, SeenMade, CountMade, TsMade
  <2> QED
    BY <2>3, <2>6 DEF IInv
<1>8. ASSUME NEW p \in Process, AddTs(p)
      PROVE  IInv'
  <2>1. Exists("seen") /\ Has("seen", "mismatch_count")
    BY <1>1, <1>8 DEF AddTs, Alters, Goes, Progress, SeenMade, CountMade
  <2>2. /\ Grows /\ "last_mismatch_ts" \in columns'["seen"]
        /\ DOMAIN columns' = DOMAIN columns
        /\ \A t \in DOMAIN columns' : columns'[t] \subseteq Late[t]
    BY <1>1, <1>8, <2>1, AlterGrows, LateColumns DEF AddTs, Alters
  <2>3. TypeOK'
    BY <1>1, <1>8, <2>2 DEF AddTs, Alters, Goes, TypeOK
  <2>4. PICK to \in {"failed", "purge"} : pc' = [pc EXCEPT ![p] = to]
    BY <1>8 DEF AddTs, Alters, Goes
  <2>5. Has("seen", "mismatch_count")' /\ Has("seen", "last_mismatch_ts")' /\ Exists("seen")'
    BY <2>1, <2>2 DEF Has, Exists, Grows
  <2>6. Progress'
    BY <1>1, <1>8, <2>2, <2>4, <2>5, OneMoves
       DEF AddTs, Alters, Pcs, SeenMade, CountMade, TsMade
  <2> QED
    BY <2>3, <2>6 DEF IInv
<1>9. ASSUME NEW p \in Process, Purge(p)
      PROVE  IInv'
  <2>1. TypeOK'
    BY <1>1, <1>9 DEF Purge, Purged, Goes, TypeOK
  <2>2. Grows
    BY <1>1, <1>9, SameColumns DEF Purge
  <2>3. Exists("seen") /\ Has("seen", "mismatch_count") /\ Has("seen", "last_mismatch_ts")
    BY <1>1, <1>9 DEF Purge, Goes, Progress, SeenMade, CountMade, TsMade
  <2>4. Progress'
    BY <1>1, <1>9, <2>2, <2>3, OneMoves
       DEF Purge, Goes, Pcs, SeenMade, CountMade, TsMade, Has, Exists
  <2> QED
    BY <2>1, <2>4 DEF IInv
<1>10. ASSUME NEW p \in Process, Stamp(p)
       PROVE  IInv'
  <2>1. TypeOK'
    BY <1>1, <1>10 DEF Stamp, Goes, TypeOK
  <2>2. Grows
    BY <1>1, <1>10, SameColumns DEF Stamp
  <2>3. Exists("seen") /\ Has("seen", "mismatch_count") /\ Has("seen", "last_mismatch_ts")
    BY <1>1, <1>10 DEF Stamp, Goes, Progress, SeenMade, CountMade, TsMade
  <2>4. Progress'
    BY <1>1, <1>10, <2>2, <2>3, OneMoves
       DEF Stamp, Goes, Pcs, SeenMade, CountMade, TsMade, Has, Exists
  <2> QED
    BY <2>1, <2>4 DEF IInv
<1>11. ASSUME NEW p \in Process, Die(p)
       PROVE  IInv'
  <2>1. TypeOK'
    BY <1>1, <1>11 DEF Die, TypeOK
  <2>2. Grows
    BY <1>1, <1>11, SameColumns DEF Die
  <2>3. Progress'
    BY <1>1, <1>11, <2>2, OneMoves DEF Die, Pcs, SeenMade, CountMade, TsMade
  <2> QED
    BY <2>1, <2>3 DEF IInv
<1>12. ASSUME NEW rel \in Release, Record(rel)
       PROVE  IInv'
  BY <1>1, <1>12 DEF Record, IInv, TypeOK, Progress, Has, Exists
<1>13. ASSUME UNCHANGED vars
       PROVE  IInv'
  BY <1>1, <1>13 DEF vars, IInv, TypeOK, Progress, Has, Exists
<1> QED
  BY <1>2, <1>3, <1>4, <1>5, <1>6, <1>7, <1>8, <1>9, <1>10, <1>11, <1>12, <1>13
     DEF Next, Opens

(* Nobody gets past the version of a file that a later binary has stamped.  *)
Refused == version > Supported => \A p \in Process : pc[p] \in {"closed", "refused"}

(* With a file of a later binary a process can only be refused or end.      *)
LEMMA OnlyRefused ==
  ASSUME TypeOK, Refused, version > Supported, [Next]_vars
  PROVE  (\E p \in Process : ReadVersion(p) \/ Die(p)) \/ UNCHANGED vars
<1>1. ASSUME NEW p \in Process, Opens(p)
      PROVE  ReadVersion(p)
  BY <1>1 DEF Opens, Refused, CreateRules, CreateSeen, LookCount, AddCount, LookTs, AddTs,
              Looks, Alters, Purge, Stamp, Goes
<1>2. ASSUME NEW rel \in Release, Record(rel)
      PROVE  FALSE
  BY <1>2 DEF Record, Refused
<1> QED
  BY <1>1, <1>2 DEF Next

(* ... and a file of this or an earlier one never becomes one.              *)
LEMMA RefusedHolds ==
  ASSUME TypeOK, Refused, [Next]_vars
  PROVE  Refused'
<1> USE MigrationAssumption
<1>1. CASE version > Supported
  <2>1. ASSUME NEW p \in Process, ReadVersion(p)
        PROVE  Refused'
    BY <1>1, <2>1 DEF ReadVersion, Goes, AfterVersion, Refused, TypeOK
  <2>2. ASSUME NEW p \in Process, Die(p)
        PROVE  Refused'
    BY <1>1, <2>2 DEF Die, Refused, TypeOK
  <2>3. CASE UNCHANGED vars
    BY <2>3 DEF vars, Refused
  <2> QED
    BY <1>1, <2>1, <2>2, <2>3, OnlyRefused
<1>2. CASE ~(version > Supported)
  <2>1. version' \in {version, Supported}
    BY DEF Next, vars, Opens, ReadVersion, CreateRules, CreateSeen, LookCount, AddCount,
           LookTs, AddTs, Looks, Alters, Purge, Stamp, Record, Die
  <2> QED
    BY <1>2, <2>1 DEF Refused, TypeOK
<1> QED
  BY <1>1, <1>2

(* The inductive invariant of migrate.                                      *)
LEMMA Invariant == Spec => []IInv
<1>1. IInv /\ [Next]_vars => IInv'
  BY StepHolds
<1> QED
  BY InitHolds, <1>1, PTL DEF Spec

-----------------------------------------------------------------------------

(* Every state of the file and of the processes that open it is well typed. *)
THEOREM TypeCorrect == Spec => []TypeOK
<1>1. IInv => TypeOK
  BY DEF IInv
<1> QED
  BY Invariant, <1>1, PTL

(* A database that opens has a ledger every statement of the store can run  *)
(* on, whatever interrupted its migration and whoever else migrates it.     *)
THEOREM OpensUsable == Spec => []LedgerUsable
<1>1. IInv => LedgerUsable
  BY LateColumns DEF IInv, Progress, LedgerUsable, SeenMade, CountMade, TsMade, Has
<1> QED
  BY Invariant, <1>1, PTL

(* Upgrading drops rows without a hash and no others, and does not touch    *)
(* the database of a later binary.                                          *)
THEOREM DropsOnlyNulls == Spec => OnlyNullsDropped
<1> DEFINE Kept == \A rel \in Release : seen[rel] = "hash" => seen'[rel] = "hash"
           Untouched == version > Supported => UNCHANGED <<version, columns, seen>>
<1>1. Init => Refused
  BY DEF Init, Refused
<1>2. TypeOK /\ Refused /\ [Next]_vars => Refused'
  BY RefusedHolds
<1>3. ASSUME TypeOK, [Next]_vars
      PROVE  Kept
  <2>1. ASSUME NEW p \in Process, Purge(p)
        PROVE  Kept
    BY <2>1, <1>3 DEF Purge, Purged, TypeOK
  <2>2. ASSUME NEW rel \in Release, Record(rel)
        PROVE  Kept
    BY <2>2, <1>3 DEF Record, TypeOK
  <2>3. (\E p \in Process : Purge(p)) \/ (\E rel \in Release : Record(rel)) \/ seen' = seen
    BY <1>3 DEF Next, vars, Opens, ReadVersion, CreateRules, CreateSeen, LookCount, AddCount,
                LookTs, AddTs, Looks, Alters, Stamp, Die
  <2> QED
    BY <2>1, <2>2, <2>3
<1>4. ASSUME TypeOK, Refused, [Next]_vars
      PROVE  Untouched
  BY <1>4, OnlyRefused DEF ReadVersion, Die, vars
<1>5. TypeOK /\ Refused /\ [Next]_vars => [Kept /\ Untouched]_vars
  BY <1>3, <1>4
<1> QED
  BY TypeCorrect, <1>1, <1>2, <1>5, PTL DEF Spec, OnlyNullsDropped

-----------------------------------------------------------------------------
(* A daemon's life is, to the database, opening it, using it and ending.    *)

LEMMA EndsDies ==
  ASSUME TypeOK, NEW p \in Process, Ends(p)
  PROVE  [Next]_vars
<1>1. CASE pc[p] = "closed"
  <2>1. pc' = pc
    BY <1>1 DEF Ends, TypeOK
  <2> QED
    BY <2>1 DEF Ends, vars
<1>2. CASE pc[p] # "closed"
  <2>1. Die(p)
    BY <1>2 DEF Ends, Die
  <2> QED
    BY <2>1 DEF Next
<1> QED
  BY <1>1, <1>2

LEMMA StepOpens ==
  ASSUME TypeOK, [StartNext]_allVars
  PROVE  [Next]_vars
<1> USE DEF migrateVars, vars
<1>1. ASSUME NEW p \in Process, Step(p)
      PROVE  [Next]_vars
  <2>1. CASE OpenStore(p)
    BY <2>1 DEF OpenStore, Next
  <2>2. CASE Ends(p)
    BY <2>2, EndsDies
  <2>3. CASE UNCHANGED migrateVars
    BY <2>3
  <2> QED
    BY <1>1, <2>1, <2>2, <2>3
       DEF Step, Start, OpenFails, BindPort, PortTaken, LookAtPath, ProbePath,
           ProbeAnswered, UnlinkPath, UnlinkFails, BindPath, BindFails, ListenOnPath,
           RestrictPath, RestrictFails, DropListener, Exit
<1>2. ASSUME NEW p \in Process, ServerFails(p)
      PROVE  [Next]_vars
  BY <1>2 DEF ServerFails
<1>3. ASSUME NEW p \in Process, Kill(p)
      PROVE  [Next]_vars
  BY <1>3, EndsDies DEF Kill
<1>4. ASSUME NEW rel \in Release, RecordInLedger(rel)
      PROVE  [Next]_vars
  BY <1>4 DEF RecordInLedger, Next
<1>5. CASE UNCHANGED allVars
  BY <1>5 DEF allVars
<1> QED
  BY <1>1, <1>2, <1>3, <1>4, <1>5 DEF StartNext

(* Start-up implements the migration it contains: whatever interrupts or    *)
(* restarts the daemons, the file only goes through steps of migrate.       *)
THEOREM StartupOpensTheStore == StartSpec => Spec
<1>1. StartInit => Init
  BY DEF StartInit
<1>2. TypeOK /\ [StartNext]_allVars => [Next]_vars
  BY StepOpens
<1>3. StartSpec => []TypeOK
  <2>1. Init => IInv
    BY InitHolds
  <2>2. IInv => TypeOK
    BY DEF IInv
  <2>3. IInv /\ [StartNext]_allVars => IInv'
    BY <1>2, <2>2, StepHolds
  <2> QED
    BY <1>1, <2>1, <2>2, <2>3, PTL DEF StartSpec
<1> QED
  BY <1>1, <1>2, <1>3, PTL DEF StartSpec, Spec

-----------------------------------------------------------------------------
(* What keeps two daemons of one address off the path.                      *)

Holding == {"path", "probe", "unlink", "bind", "listen", "restrict", "serving"}

(* From the binding of the port on a daemon has it, and when one of the     *)
(* servers fails the port may go before the path does.  Until then the path *)
(* names the daemon, because nobody else can be past the probe: who found   *)
(* the path free, or answered by nobody, did so when no ending daemon had   *)
(* its listener.                                                            *)
OnePath ==
  /\ \A p \in Process : stage[p] \in Holding => port[listen[p]] = p
  /\ \A p \in Process :
       stage[p] \in {"listen", "restrict", "serving", "dropping"} => node = p
  /\ \A p \in Process :
       stage[p] \in {"restrict", "serving", "dropping"} => p \in listening
  /\ \A p, q \in Process :
       stage[p] \in {"unlink", "bind"} => stage[q] # "dropping"

Stages ==
  Holding \cup {"down", "opening", "dropping", "ending"}

PathInv == IInv /\ StartTypeOK /\ (OneAddress => OnePath)

LEMMA OneHolds ==
  ASSUME OneAddress, OnePath, NEW p \in Process, NEW q \in Process,
         stage[p] \in Holding, stage[q] \in Holding
  PROVE  p = q
BY DEF OneAddress, OnePath

(* The end of a daemon takes what it held with it, and nothing of others.   *)
LEMMA EndsKeeps ==
  ASSUME StartTypeOK, NEW p \in Process, Ends(p)
  PROVE  /\ stage' \in [Process -> Stages]
         /\ port' \in [Address -> {None} \cup Process]
         /\ listening' \subseteq Process
         /\ UNCHANGED <<listen, node>>
         /\ OnePath => OnePath'
<1>1. /\ stage' = [stage EXCEPT ![p] = "down"]
      /\ port' = [a \in Address |-> IF port[a] = p THEN None ELSE port[a]]
      /\ listening' = listening \ {p}
      /\ UNCHANGED <<listen, node>>
  BY DEF Ends
<1>2. /\ stage' \in [Process -> Stages]
      /\ port' \in [Address -> {None} \cup Process]
      /\ listening' \subseteq Process
  BY <1>1 DEF StartTypeOK, Stages, Holding
<1>3. ASSUME OnePath
      PROVE  OnePath'
  <2>1. \A q \in Process : stage'[q] = IF q = p THEN "down" ELSE stage[q]
    BY <1>1 DEF StartTypeOK
  <2>2. ASSUME NEW q \in Process, stage'[q] \in Holding
        PROVE  port'[listen'[q]] = q
    <3>1. q # p /\ stage[q] \in Holding
      BY <2>1, <2>2 DEF Holding
    <3>2. listen[q] \in Address /\ port[listen[q]] = q
      BY <1>3, <3>1 DEF OnePath, StartTypeOK
    <3> QED
      BY <1>1, <3>1, <3>2
  <2> QED
    BY <1>1, <1>3, <2>1, <2>2 DEF OnePath
<1> QED
  BY <1>1, <1>2, <1>3

LEMMA PathInit == StartInit => PathInv
<1> SUFFICES ASSUME StartInit
             PROVE  PathInv
  OBVIOUS
<1> USE StartupAssumption
<1>1. TypeOK
  BY InitHolds DEF StartInit, IInv
<1>2. StartTypeOK
  BY <1>1 DEF StartInit, StartTypeOK
<1>3. OnePath
  BY DEF StartInit, OnePath, Holding
<1> QED
  BY <1>2, <1>3, InitHolds DEF PathInv, StartInit

LEMMA PathStep ==
  ASSUME PathInv, [StartNext]_allVars
  PROVE  PathInv'
<1> USE StartupAssumption DEF Stages
<1>0. IInv /\ StartTypeOK /\ (OneAddress => OnePath)
  BY DEF PathInv
<1>1. IInv' /\ TypeOK'
  <2>1. [Next]_vars
    BY <1>0, StepOpens DEF StartTypeOK
  <2> QED
    BY <1>0, <2>1, StepHolds DEF IInv
<1>2. listen' = listen
  BY DEF StartNext, Step, Start, OpenStore, OpenFails, BindPort, PortTaken, LookAtPath,
         ProbePath, ProbeAnswered, UnlinkPath, UnlinkFails, BindPath, BindFails,
         ListenOnPath, RestrictPath, RestrictFails, DropListener, Exit, ServerFails,
         Kill, RecordInLedger, Ends, allVars
<1>3. OneAddress' => OneAddress
  BY <1>2 DEF OneAddress
<1>4. ASSUME NEW p \in Process, Start(p)
      PROVE  PathInv'
  <2>1. StartTypeOK'
    BY <1>0, <1>1, <1>4 DEF Start, Moves, migrateVars, socketVars, StartTypeOK
  <2>2. ASSUME OneAddress, OnePath
        PROVE  OnePath'
    BY <1>0, <1>4, <2>2, OneHolds
       DEF Start, Moves, migrateVars, socketVars, StartTypeOK, OnePath, Holding
  <2> QED
    BY <1>0, <1>1, <1>3, <2>1, <2>2 DEF PathInv
<1>5. ASSUME NEW p \in Process, BindPort(p)
      PROVE  PathInv'
  <2>1. StartTypeOK'
    BY <1>0, <1>1, <1>5 DEF BindPort, Moves, migrateVars, socketVars, StartTypeOK
  <2>2. ASSUME OneAddress, OnePath
        PROVE  OnePath'
    BY <1>0, <1>5, <2>2, OneHolds
       DEF BindPort, Moves, migrateVars, socketVars, StartTypeOK, OnePath, Holding
  <2> QED
    BY <1>0, <1>1, <1>3, <2>1, <2>2 DEF PathInv
<1>6. ASSUME NEW p \in Process, LookAtPath(p)
      PROVE  PathInv'
  <2>1. StartTypeOK'
    BY <1>0, <1>1, <1>6 DEF LookAtPath, Moves, migrateVars, socketVars, StartTypeOK
  <2>2. ASSUME OneAddress, OnePath
        PROVE  OnePath'
    BY <1>0, <1>6, <2>2, OneHolds
       DEF LookAtPath, Moves, migrateVars, socketVars, StartTypeOK, OnePath, Holding
  <2> QED
    BY <1>0, <1>1, <1>3, <2>1, <2>2 DEF PathInv
<1>7. ASSUME NEW p \in Process, ProbePath(p)
      PROVE  PathInv'
  <2>1. StartTypeOK'
    BY <1>0, <1>1, <1>7 DEF ProbePath, Moves, migrateVars, socketVars, StartTypeOK
  <2>2. ASSUME OneAddress, OnePath
        PROVE  OnePath'
    BY <1>0, <1>7, <2>2, OneHolds
       DEF ProbePath, Moves, migrateVars, socketVars, StartTypeOK, OnePath, Holding, Answers
  <2> QED
    BY <1>0, <1>1, <1>3, <2>1, <2>2 DEF PathInv
<1>8. ASSUME NEW p \in Process, UnlinkPath(p)
      PROVE  PathInv'
  <2>1. StartTypeOK'
    BY <1>0, <1>1, <1>8 DEF UnlinkPath, Moves, migrateVars, socketVars, StartTypeOK
  <2>2. ASSUME OneAddress, OnePath
        PROVE  OnePath'
    BY <1>0, <1>8, <2>2, OneHolds
       DEF UnlinkPath, Moves, migrateVars, socketVars, StartTypeOK, OnePath, Holding
  <2> QED
    BY <1>0, <1>1, <1>3, <2>1, <2>2 DEF PathInv
<1>9. ASSUME NEW p \in Process, BindPath(p)
      PROVE  PathInv'
  <2>1. StartTypeOK'
    BY <1>0, <1>1, <1>9 DEF BindPath, Moves, migrateVars, socketVars, StartTypeOK
  <2>2. ASSUME OneAddress, OnePath
        PROVE  OnePath'
    BY <1>0, <1>9, <2>2, OneHolds
       DEF BindPath, Moves, migrateVars, socketVars, StartTypeOK, OnePath, Holding
  <2> QED
    BY <1>0, <1>1, <1>3, <2>1, <2>2 DEF PathInv
<1>10. ASSUME NEW p \in Process, ListenOnPath(p)
      PROVE  PathInv'
  <2>1. StartTypeOK'
    BY <1>0, <1>1, <1>10 DEF ListenOnPath, Moves, migrateVars, socketVars, StartTypeOK
  <2>2. ASSUME OneAddress, OnePath
        PROVE  OnePath'
    BY <1>0, <1>10, <2>2, OneHolds
       DEF ListenOnPath, Moves, migrateVars, socketVars, StartTypeOK, OnePath, Holding
  <2> QED
    BY <1>0, <1>1, <1>3, <2>1, <2>2 DEF PathInv
<1>11. ASSUME NEW p \in Process, RestrictPath(p)
      PROVE  PathInv'
  <2>1. StartTypeOK'
    BY <1>0, <1>1, <1>11 DEF RestrictPath, Moves, migrateVars, socketVars, StartTypeOK
  <2>2. ASSUME OneAddress, OnePath
        PROVE  OnePath'
    BY <1>0, <1>11, <2>2, OneHolds
       DEF RestrictPath, Moves, migrateVars, socketVars, StartTypeOK, OnePath, Holding
  <2> QED
    BY <1>0, <1>1, <1>3, <2>1, <2>2 DEF PathInv
<1>12. ASSUME NEW p \in Process, DropListener(p)
      PROVE  PathInv'
  <2>1. StartTypeOK'
    BY <1>0, <1>1, <1>12 DEF DropListener, Moves, migrateVars, socketVars, StartTypeOK
  <2>2. ASSUME OneAddress, OnePath
        PROVE  OnePath'
    BY <1>0, <1>12, <2>2, OneHolds
       DEF DropListener, Moves, migrateVars, socketVars, StartTypeOK, OnePath, Holding
  <2> QED
    BY <1>0, <1>1, <1>3, <2>1, <2>2 DEF PathInv
<1>13. ASSUME NEW p \in Process, ServerFails(p)
      PROVE  PathInv'
  <2>1. StartTypeOK'
    BY <1>0, <1>1, <1>13 DEF ServerFails, Moves, migrateVars, StartTypeOK
  <2>2. ASSUME OneAddress, OnePath
        PROVE  OnePath'
    BY <1>0, <1>13, <2>2, OneHolds
       DEF ServerFails, Moves, migrateVars, StartTypeOK, OnePath, Holding
  <2> QED
    BY <1>0, <1>1, <1>3, <2>1, <2>2 DEF PathInv
<1>14. ASSUME NEW p \in Process, Ends(p), deaths' \in 0..MaxDeaths
      PROVE  PathInv'
  BY <1>0, <1>1, <1>3, <1>14, EndsKeeps DEF PathInv, StartTypeOK, Holding
<1>15. ASSUME UNCHANGED <<listen, stage, port, node, listening, deaths>>
      PROVE  PathInv'
  BY <1>0, <1>1, <1>3, <1>15 DEF PathInv, StartTypeOK, OnePath, OneAddress
<1>16. ASSUME NEW p \in Process, Step(p)
      PROVE  PathInv'
  <2>1. CASE Ends(p) /\ deaths' = deaths
    BY <1>0, <1>14, <2>1 DEF StartTypeOK
  <2>2. CASE OpenStore(p)
    BY <1>15, <2>2 DEF OpenStore, socketVars
  <2> QED
    BY <1>4, <1>5, <1>6, <1>7, <1>8, <1>9, <1>10, <1>11, <1>12, <1>16, <2>1, <2>2
       DEF Step, OpenFails, PortTaken, ProbeAnswered, UnlinkFails, BindFails, RestrictFails, Exit
<1>17. ASSUME NEW p \in Process, Kill(p)
      PROVE  PathInv'
  BY <1>0, <1>14, <1>17 DEF Kill, StartTypeOK
<1> QED
  BY <1>15, <1>13, <1>16, <1>17 DEF StartNext, RecordInLedger, socketVars, allVars

(* Every state of the daemons, the port and the path is well typed.         *)
THEOREM StartTypeCorrect == StartSpec => []StartTypeOK
<1>1. PathInv /\ [StartNext]_allVars => PathInv'
  BY PathStep
<1>2. PathInv => StartTypeOK
  BY DEF PathInv
<1> QED
  BY PathInit, <1>1, <1>2, PTL DEF StartSpec

(* The approval surface is never split in two: as long as all daemons are   *)
(* configured with one address, the one that serves it is the one that      *)
(* answers at the control path, whatever was killed, failed or restarted.   *)
THEOREM SurfaceStaysWhole == StartSpec => []SurfaceWhole
<1>1. PathInv /\ [StartNext]_allVars => PathInv'
  BY PathStep
<1>2. ASSUME PathInv
      PROVE  SurfaceWhole
  BY <1>2, OneHolds DEF PathInv, OnePath, SurfaceWhole, Serving, Holding
<1> QED
  BY PathInit, <1>1, <1>2, PTL DEF StartSpec

-----------------------------------------------------------------------------
(* Numbers: induction up to one, the largest and the least of a set, and    *)
(* what a recursive function returns.                                       *)

(* Induction up to a natural number, of a set: a least number that it lacks *)
(* has no place, as < is well-founded.                                      *)
LEMMA UpTo ==
  ASSUME NEW n \in Nat, NEW T, 0 \in T,
         \A k \in 0..n : k < n /\ k \in T => k + 1 \in T
  PROVE  \A k \in 0..n : k \in T
<1> DEFINE Lacking == {k \in 0..n : k \notin T}
<1> SUFFICES ASSUME Lacking # {}
             PROVE  FALSE
  OBVIOUS
<1>1. Lacking \subseteq Nat
  OBVIOUS
<1>2. PICK x \in Lacking : \A y \in Lacking : ~ (<<y, x>> \in OpToRel(<, Nat))
  <2> HIDE DEF Lacking
  <2> QED
    BY <1>1, NatLessThanWellFounded, WFMin
<1>3. \A y \in Lacking : ~(y < x)
  BY <1>1, <1>2 DEF OpToRel
<1>4. x \in 1..n /\ x - 1 \notin Lacking
  BY <1>3
<1> QED
  BY <1>4

LEMMA LeastOf ==
  ASSUME NEW I, I \subseteq Nat, I # {}
  PROVE  Min(I) \in I /\ \A i \in I : Min(I) <= i
<1>1. PICK x \in I : \A y \in I : ~ (<<y, x>> \in OpToRel(<, Nat))
  BY NatLessThanWellFounded, WFMin
<1>2. \A y \in I : ~(y < x)
  BY <1>1 DEF OpToRel
<1>3. \A y \in I : x <= y
  BY <1>2
<1> QED
  BY <1>3 DEF Min

(* The largest member of a set that has one is its Max.                     *)
LEMMA MaxIs ==
  ASSUME NEW S, S \subseteq Nat, NEW m \in S, \A y \in S : y <= m
  PROVE  Max(S) = m
<1>1. m \in S /\ \A y \in S : m >= y
  BY SMT
<1>2. \A x \in S : (\A y \in S : x >= y) => x = m
  BY SMT
<1> DEFINE Largest(x) == \A y \in S : x >= y
<1>3. Largest(m) /\ \A x \in S : Largest(x) => x = m
  BY <1>1, <1>2
<1> HIDE DEF Largest
<1>4. (CHOOSE x \in S : Largest(x)) = m
  BY <1>3, Zenon
<1> QED
  BY <1>4, Zenon DEF Max, Largest

(* A finite set of numbers has a largest member: the numbers up to which    *)
(* the members listed so far have one are all of them.                      *)
LEMMA LargestOf ==
  ASSUME NEW S, S \subseteq Nat, IsFiniteSet(S), S # {}
  PROVE  Max(S) \in S /\ \A y \in S : y <= Max(S)
<1> DEFINE n == Cardinality(S)
<1>1. n \in Nat /\ ExistsBijection(1..n, S)
  BY FS_CardinalityType
<1>2. PICK f \in [1..n -> S] : \A x \in S : \E i \in 1..n : f[i] = x
  BY <1>1 DEF ExistsBijection, Bijection, Surjection
<1>3. \A x \in S : x \in Nat
  OBVIOUS
<1>4. n \in Nat
  BY <1>1
<1> HIDE DEF n
<1> DEFINE T == {k \in 0..n : k = 0 \/ \E x \in S : \A i \in 1..k : f[i] <= x}
<1>5. 0 \in T
  BY <1>4
<1>6. ASSUME NEW k \in 0..n, k < n, k \in T
      PROVE  k + 1 \in T
  <2>1. k + 1 \in 1..n /\ k + 1 \in 0..n /\ f[k + 1] \in S
    BY <1>2, <1>4, <1>6
  <2>2. CASE k = 0
    <3>1. \A i \in 1..(k + 1) : i = k + 1
      BY <2>2
    <3>2. f[k + 1] \in Nat
      BY <1>3, <2>1
    <3>3. f[k + 1] <= f[k + 1]
      BY <3>2
    <3>4. \A i \in 1..(k + 1) : f[i] <= f[k + 1]
      BY <3>1, <3>3, Zenon
    <3> QED
      BY <2>1, <3>4
  <2>3. CASE k # 0
    <3>1. PICK x \in S : \A i \in 1..k : f[i] <= x
      BY <1>6, <2>3
    <3>2. PICK y \in S : x <= y /\ f[k + 1] <= y
      <4>1. x \in Nat /\ f[k + 1] \in S /\ f[k + 1] \in Nat
        BY <1>3, <2>1
      <4> QED
        BY <4>1
    <3>3. ASSUME NEW i \in 1..(k + 1)
          PROVE  f[i] <= y
      <4>1. i = k + 1 \/ i \in 1..k
        OBVIOUS
      <4>2. i \in 1..n
        BY <1>4, <1>6
      <4>3. f[i] \in Nat /\ x \in Nat /\ y \in Nat
        BY <1>2, <1>3, <4>2
      <4> QED
        BY <3>1, <3>2, <4>1, <4>3
    <3> QED
      BY <2>1, <3>3
  <2> QED
    BY <2>2, <2>3
<1>7. \A k \in 0..n : k \in T
  <2> HIDE DEF T
  <2> QED
    BY <1>4, <1>5, <1>6, UpTo, Zenon
<1>8. n # 0
  <2>1. PICK x \in S : TRUE
    OBVIOUS
  <2>2. \E i \in 1..n : f[i] = x
    BY <1>2
  <2> QED
    BY <2>2
<1>9. n \in 0..n
  BY <1>4
<1>10. PICK x \in S : \A i \in 1..n : f[i] <= x
  BY <1>7, <1>8, <1>9
<1>11. \A y \in S : y <= x
  BY <1>2, <1>10
<1>12. Max(S) = x
  BY <1>11, MaxIs
<1> QED
  BY <1>11, <1>12

(* `g` is what the recursion from `base` by `step` makes of 0..m.           *)
Computes(g, m, S, base, step) ==
  /\ g \in [0..m -> S]
  /\ g[0] = base
  /\ \A i \in 1..m : g[i] = step[i][g[i - 1]]

(* A function defined by recursion up to a natural number exists.           *)
LEMMA Recursion ==
  ASSUME NEW n \in Nat, NEW S, NEW base \in S, NEW step \in [1..n -> [S -> S]]
  PROVE  \E g : Computes(g, n, S, base, step)
<1> DEFINE T == {m \in 0..n : \E g : Computes(g, m, S, base, step)}
<1>1. 0 \in T
  <2> DEFINE g == [i \in 0..0 |-> base]
  <2>1. g \in [0..0 -> S] /\ g[0] = base
    OBVIOUS
  <2>2. Computes(g, 0, S, base, step)
    BY <2>1 DEF Computes
  <2> QED
    BY <2>2
<1>2. ASSUME NEW m \in 0..n, m < n, m \in T
      PROVE  m + 1 \in T
  <2>1. PICK g : Computes(g, m, S, base, step)
    BY <1>2
  <2>2. m \in Nat /\ g[m] \in S /\ step[m + 1] \in [S -> S]
    BY <1>2, <2>1 DEF Computes
  <2> DEFINE top == step[m + 1][g[m]]
  <2>3. top \in S
    BY <2>2
  <2> HIDE DEF top
  <2> DEFINE h == [i \in 0..(m + 1) |-> IF i = m + 1 THEN top ELSE g[i]]
  <2>4. h \in [0..(m + 1) -> S]
    BY <2>1, <2>2, <2>3 DEF Computes
  <2>5. h[0] = base /\ h[m + 1] = top /\ \A i \in 0..m : h[i] = g[i]
    BY <2>1, <2>2 DEF Computes
  <2> HIDE DEF h
  <2>6. ASSUME NEW i \in 1..(m + 1)
        PROVE  h[i] = step[i][h[i - 1]]
    <3>1. CASE i = m + 1
      <4>1. h[i - 1] = g[m]
        BY <2>2, <2>5, <3>1
      <4> QED
        BY <2>5, <3>1, <4>1 DEF top
    <3>2. CASE i # m + 1
      <4>1. i \in 1..m /\ i \in 0..m /\ i - 1 \in 0..m
        BY <2>2, <3>2
      <4>2. g[i] = step[i][g[i - 1]]
        BY <2>1, <4>1 DEF Computes
      <4> QED
        BY <2>5, <4>1, <4>2
    <3> QED
      BY <3>1, <3>2
  <2>7. Computes(h, m + 1, S, base, step)
    BY <2>4, <2>5, <2>6 DEF Computes
  <2> QED
    BY <1>2, <2>7
<1>3. \A k \in 0..n : k \in T
  <2> HIDE DEF T
  <2> QED
    BY <1>1, <1>2, UpTo
<1> QED
  BY <1>3

-----------------------------------------------------------------------------
(* The scan of an inspection.                                               *)

FileRow == [path : Path, content : Content \cup {Absent}]

Results ==
  {"none", "ok", "read", "compressed_limit", "unpacked_limit", "entry_limit",
   "manifest_limit", "manifest"}

(* A scan goes on at a block only if nothing stops it, and what it says     *)
(* stopped it was met.                                                      *)
LEMMA StopIs ==
  ASSUME NEW s, NEW b
  PROVE  LET stops == Stops(s, b)
             met(i) == stops[i].if
         IN  /\ Stop(s, b) \in Results
             /\ Stop(s, b) = "none" => \A i \in 1..8 : ~met(i)
             /\ Stop(s, b) = "ok" => ~met(1) /\ ~met(2) /\ ~met(3) /\ met(4)
             /\ Stop(s, b) = "compressed_limit" => met(1)
             /\ Stop(s, b) = "read" => met(2)
             /\ Stop(s, b) = "unpacked_limit" => met(3) \/ met(7)
             /\ Stop(s, b) = "entry_limit" => met(5)
<1> DEFINE stops == Stops(s, b)
           met == {i \in 1..8 : stops[i].if}
<1>1. DOMAIN stops = 1..8
  BY DEF Stops
<1>2. /\ stops[1].as = "compressed_limit" /\ stops[2].as = "read"
      /\ stops[3].as = "unpacked_limit" /\ stops[4].as = "ok"
      /\ stops[5].as = "entry_limit" /\ stops[6].as = "manifest_limit"
      /\ stops[7].as = "unpacked_limit" /\ stops[8].as = "manifest"
  BY DEF Stops
<1> HIDE DEF stops
<1>3. Stop(s, b) = IF met = {} THEN "none" ELSE stops[Min(met)].as
  BY <1>1, Zenon DEF Stop, stops
<1>4. CASE met = {}
  BY <1>3, <1>4 DEF Results, stops
<1>5. CASE met # {}
  <2>1. met \subseteq Nat
    OBVIOUS
  <2>2. Min(met) \in met /\ \A i \in met : Min(met) <= i
    <3> HIDE DEF met
    <3> QED
      BY <1>5, <2>1, LeastOf
  <2> DEFINE m == Min(met)
  <2>3. Stop(s, b) = stops[m].as
    BY <1>3, <1>5, Zenon
  <2> HIDE DEF m
  <2>4. m \in 1..8 /\ stops[m].if /\ \A i \in 1..8 : i < m => ~stops[i].if
    <3>1. m \in met /\ \A i \in met : m <= i
      BY <2>2 DEF m
    <3>2. m \in 1..8 /\ stops[m].if
      BY <3>1
    <3>3. ASSUME NEW i \in 1..8, i < m
          PROVE  ~stops[i].if
      BY <3>1, <3>2, <3>3
    <3> QED
      BY <3>2, <3>3
  <2>5. m = 1 \/ m = 2 \/ m = 3 \/ m = 4 \/ m = 5 \/ m = 6 \/ m = 7 \/ m = 8
    BY <2>4
  <2> QED
    BY <1>2, <2>3, <2>4, <2>5 DEF Results, stops
<1> QED
  BY <1>4, <1>5

(* What the sum over the blocks makes of the next one.                      *)
LEMMA UnpackedUnfolds ==
  ASSUME IsInput(input)
  PROVE  /\ UnpackedTo(0) = 0
         /\ \A i \in 0..Len(input.wire) : UnpackedTo(i) \in Nat
         /\ \A i \in 1..Len(input.wire) :
              UnpackedTo(i) = UnpackedTo(i - 1) + Header(Wire(i)) + Wire(i).size
<1> DEFINE n == Len(input.wire)
           size(i) == Header(Wire(i)) + Wire(i).size
           Rest(g) == [i \in 0..n |-> IF i = 0 THEN 0
                                       ELSE g[i - 1] + Header(Wire(i)) + Wire(i).size]
           sum == CHOOSE g : g = Rest(g)
           step == [i \in 1..n |-> [t \in Nat |-> t + size(i)]]
<1>1. n \in Nat /\ \A i \in 1..n : Wire(i) \in Block
  BY DEF IsInput, Wire
<1>2. \A i \in 1..n : Header(Wire(i)) \in Nat /\ Wire(i).size \in Nat
  BY <1>1 DEF Header, Block
<1>3. \A i \in 0..n : UnpackedTo(i) = sum[i]
  BY Zenon DEF UnpackedTo
<1> HIDE DEF n
<1>4. \A i \in 1..n : size(i) \in Nat
  BY <1>2
<1>5. step \in [1..n -> [Nat -> Nat]]
  <2> HIDE DEF size
  <2> QED
    BY <1>4
<1>6. PICK g : Computes(g, n, Nat, 0, step)
  <2> HIDE DEF step
  <2> QED
    BY <1>1, <1>5, Recursion
<1>7. g \in [0..n -> Nat] /\ g[0] = 0
  BY <1>6 DEF Computes
<1>8. \A i \in 1..n : g[i] = g[i - 1] + Header(Wire(i)) + Wire(i).size
  <2> SUFFICES ASSUME NEW i \in 1..n
               PROVE  g[i] = g[i - 1] + Header(Wire(i)) + Wire(i).size
    OBVIOUS
  <2>1. g[i] = step[i][g[i - 1]]
    BY <1>6 DEF Computes
  <2>2. i - 1 \in 0..n
    BY <1>1
  <2>3. g[i - 1] \in Nat
    BY <1>7, <2>2
  <2>4. g[i] = g[i - 1] + size(i)
    <3> HIDE DEF size
    <3> QED
      BY <2>1, <2>3
  <2> QED
    BY <1>2, <2>3, <2>4
<1> HIDE DEF step
<1>9. g = Rest(g)
  BY <1>1, <1>7, <1>8
<1>10. sum = Rest(sum)
  <2> HIDE DEF Rest
  <2> QED
    BY <1>9, Zenon
<1> HIDE DEF sum
<1>11. sum[0] = 0 /\ \A i \in 1..n : sum[i] = sum[i - 1] + Header(Wire(i)) + Wire(i).size
  BY <1>1, <1>10
<1> DEFINE T == {i \in 0..n : sum[i] \in Nat}
<1>12. 0 \in T
  BY <1>1, <1>11
<1>13. ASSUME NEW k \in 0..n, k < n, k \in T
       PROVE  k + 1 \in T
  <2>1. k + 1 \in 1..n /\ k + 1 \in 0..n /\ (k + 1) - 1 = k
    BY <1>1, <1>13
  <2>2. sum[k + 1] = sum[k] + Header(Wire(k + 1)) + Wire(k + 1).size
    BY <1>11, <2>1
  <2> QED
    BY <1>2, <1>13, <2>1, <2>2
<1>14. \A k \in 0..n : k \in T
  <2> HIDE DEF T
  <2> QED
    BY <1>1, <1>12, <1>13, UpTo, Zenon
<1>15. \A k \in 0..n : sum[k] \in Nat
  BY <1>14
<1>16. \A i \in 1..n : i \in 0..n /\ i - 1 \in 0..n /\ 0 \in 0..n
  BY <1>1
<1>17. 0 \in 0..n
  BY <1>1
<1> QED
  BY <1>3, <1>11, <1>15, <1>16, <1>17 DEF n

(* What the variables are.                                                  *)
InspectTyped ==
  /\ input \in Inputs
  /\ handler \in {"resolving", "scanning", "answered", "failed", "gone"}
  /\ pump \in {"idle", "reading", "sending", "done"}
  /\ fetched \in 0..Len(input.wire) /\ hand \in 0..fetched
  /\ queue \in Seq(0..fetched) /\ Len(queue) <= Capacity
  /\ scan \in [result : Results, read : 0..fetched, compressed : Nat, unpacked : Nat,
               entries : Nat, manifest : Nat, files : Seq(FileRow)]

Sending == IF pump = "sending" /\ hand # Broken THEN 1 ELSE 0

(* Blocks come to the scan in their order, each of them once: the channel   *)
(* holds those after the last that was read, in the hand of the pump is the *)
(* one after these, and a failure is only ever the last message.            *)
InOrder ==
  /\ handler = "resolving" => pump = "idle"
  /\ pump = "idle" => fetched = 0 /\ queue = <<>> /\ scan.read = 0
  /\ scan.result = "none" =>
       /\ \A j \in DOMAIN queue : queue[j] # Broken => queue[j] = scan.read + j
       /\ pump # "done" =>
            /\ \A j \in DOMAIN queue : queue[j] # Broken
            /\ fetched = scan.read + Len(queue) + Sending
            /\ Sending = 1 => hand = fetched

(* What the scan has counted is what it has read.                           *)
Counted ==
  /\ scan.compressed = scan.read
  /\ scan.unpacked = UnpackedTo(scan.read)
  /\ scan.entries = Cardinality(EntriesRead)
  /\ Len(scan.files) = Cardinality(FilesRead)
  /\ \A i \in FilesRead :
       scan.files[Cardinality(FilesRead \cap 1..i)].content = Wire(i).content
  /\ \A path \in Path : Observed(scan.files, path) = Unpacked(path)

(* As long as nothing has stopped it, nothing was there to stop it.         *)
Unstopped ==
  scan.result = "none" =>
    /\ \A i \in Read : Wire(i).kind \in {"entry", "more"}
    /\ scan.read <= MaxCompressed /\ scan.unpacked <= MaxUnpacked
    /\ scan.entries <= MaxEntries

(* A report is made of a scan that succeeded, and stands.                   *)
Reported ==
  /\ handler = "scanning" => Inspected # Absent
  /\ report # Absent =>
       /\ Inspected # Absent /\ scan.result # "none"
       /\ report = Report(input, Inspected)

InspectInv ==
  InspectTyped /\ InOrder /\ Counted /\ Unstopped /\ ScanFaithful /\ Reported

(* A length that is not zero.                                               *)
LEMMA OneOrMore ==
  ASSUME NEW n \in Nat \ {0}
  PROVE  (n > 1 \/ n = 1) /\ (n > 1 => n # 1)
OBVIOUS

(* The name a pin has for a file is the path that unpacking leaves it at.   *)
LEMMA RelativeIs ==
  ASSUME NEW p \in Path, NEW path \in Path
  PROVE  /\ Relative(p) \in Path
         /\ Relative(p) = path <=> (Tail(p) = path \/ (Len(path) = 1 /\ p = path))
<1>1. p \in Seq(STRING) /\ p # <<>> /\ path \in Seq(STRING) /\ path # <<>>
  BY DEF Path
<1>2. Len(p) \in Nat \ {0}
  BY <1>1, EmptySeq
<1>3. Len(path) \in Nat \ {0}
  BY <1>1, EmptySeq
<1>4. Tail(p) \in Seq(STRING)
  BY <1>1, HeadTailProperties
<1>5. Len(Tail(p)) = Len(p) - 1
  BY <1>1, HeadTailProperties
<1>6. Len(<<>>) = 0
  BY EmptySeq
<1>7. (Len(p) > 1 \/ Len(p) = 1) /\ (Len(p) > 1 => Len(p) # 1)
  BY <1>2, OneOrMore
<1>8. Relative(p) = IF Len(p) > 1 THEN Tail(p) ELSE p
  BY DEF Relative
<1>9. CASE Len(p) > 1
  <2>1. Len(Tail(p)) # 0
    BY <1>2, <1>5, <1>9
  <2>2. Tail(p) # <<>>
    BY <1>6, <2>1
  <2>3. ~(Len(path) = 1 /\ p = path)
    <3>1. Len(p) # 1
      BY <1>7, <1>9
    <3> QED
      BY <3>1
  <2> QED
    BY <1>4, <1>8, <1>9, <2>2, <2>3, Zenon DEF Path
<1>10. CASE Len(p) = 1
  <2>1. Len(Tail(p)) = 0
    BY <1>5, <1>10
  <2>2. Tail(p) # path
    <3>1. Len(path) # 0
      BY <1>3
    <3> QED
      BY <2>1, <3>1
  <2>3. Relative(p) = p
    <3>1. ~(Len(p) > 1)
      BY <1>10
    <3> QED
      BY <1>8, <3>1
  <2> QED
    BY <1>10, <2>2, <2>3, Zenon
<1> QED
  BY <1>7, <1>9, <1>10

(* The numbers that blocks are counted with.                                *)
LEMMA InputTyped ==
  ASSUME InspectTyped
  PROVE  /\ IsInput(input) /\ Len(input.wire) \in Nat
         /\ fetched \in Nat /\ fetched <= Len(input.wire)
         /\ scan.read \in 0..fetched /\ scan.read \in Nat
<1>1. IsInput(input)
  BY InspectionAssumption DEF InspectTyped
<1>2. input.wire \in Seq(Block)
  BY <1>1 DEF IsInput
<1>3. Len(input.wire) \in Nat
  BY <1>2
<1>4. fetched \in 0..Len(input.wire) /\ scan.read \in 0..fetched
  BY DEF InspectTyped
<1> QED
  BY <1>1, <1>3, <1>4

(* A block of the wire is a block, and the end has no content.              *)
LEMMA NextTyped ==
  ASSUME InspectTyped, NEW n \in 1..Len(input.wire)
  PROVE  /\ IsInput(input) /\ scan.read \in Nat /\ n \in Nat
         /\ Wire(n) \in Block /\ (Wire(n).kind = "end" => Wire(n).size = 0)
         /\ Wire(n).size \in Nat /\ Header(Wire(n)) \in Nat
<1>1. IsInput(input)
  BY InspectionAssumption DEF InspectTyped
<1>2. input.wire \in Seq(Block) /\ Len(input.wire) \in Nat /\ DOMAIN input.wire = 1..Len(input.wire)
  BY <1>1 DEF IsInput
<1>3. Wire(n) \in Block
  BY <1>2 DEF Wire
<1>4. Wire(n).kind = "end" => Wire(n).size = 0
  BY <1>1, <1>2 DEF IsInput, Wire
<1>5. Wire(n).size \in Nat
  BY <1>3 DEF Block
<1>6. Header(Wire(n)) \in Nat
  BY DEF Header
<1> QED
  BY <1>1, <1>3, <1>4, <1>5, <1>6, InputTyped

(* The block the scan gets is the next.                                     *)
LEMMA NextBlock ==
  ASSUME InspectTyped, InOrder, ScanBlock
  PROVE  /\ Head(queue) = scan.read + 1
         /\ scan.read \in Nat /\ scan.read + 1 \in 1..fetched
         /\ scan.read + 1 \in 1..Len(input.wire)
         /\ scan' = Scanned(scan, scan.read + 1)
         /\ scan.result = "none"
<1>1. fetched \in Nat /\ fetched <= Len(input.wire) /\ Len(input.wire) \in Nat
  BY InputTyped
<1>2. /\ scan.result = "none" /\ queue # <<>> /\ Head(queue) # Broken
      /\ scan' = Scanned(scan, Head(queue))
  BY DEF ScanBlock, Scanning
<1>3. queue \in Seq(0..fetched) /\ scan.read \in 0..fetched
  BY DEF InspectTyped
<1>4. 1 \in DOMAIN queue /\ Head(queue) = queue[1] /\ Head(queue) \in 0..fetched
  <2>1. Len(queue) \in Nat /\ Len(queue) # 0 /\ Head(queue) \in 0..fetched
    BY <1>2, <1>3, EmptySeq, HeadTailProperties
  <2>2. DOMAIN queue = 1..Len(queue)
    BY <1>3
  <2> QED
    BY <2>1, <2>2
<1>5. Head(queue) = scan.read + 1
  BY <1>2, <1>4 DEF InOrder
<1> QED
  BY <1>1, <1>2, <1>3, <1>4, <1>5

(* What has been read grows by one block.                                   *)
LEMMA ReadMore ==
  ASSUME InspectTyped, input' = input, NEW n, n = scan.read + 1, n \in 1..Len(input.wire),
         scan' = Scanned(scan, n)
  PROVE  /\ Read' = Read \cup {n} /\ n \notin Read
         /\ EntriesRead' = IF Wire(n).kind = "entry" THEN EntriesRead \cup {n} ELSE EntriesRead
         /\ FilesRead' = IF Wire(n).kind = "entry" /\ Wire(n).file
                         THEN FilesRead \cup {n} ELSE FilesRead
         /\ \A i : Wire(i)' = Wire(i)
         /\ scan'.read = n
<1>1. scan.read \in Nat /\ scan'.read = n
  BY InputTyped DEF InspectTyped, Scanned
<1>2. Read' = Read \cup {n} /\ n \notin Read
  BY <1>1 DEF Read
<1>3. \A i : Wire(i)' = Wire(i)
  BY DEF Wire
<1>4. EntriesRead' = IF Wire(n).kind = "entry" THEN EntriesRead \cup {n} ELSE EntriesRead
  BY <1>2, <1>3 DEF EntriesRead
<1>5. FilesRead' = IF Wire(n).kind = "entry" /\ Wire(n).file
                   THEN FilesRead \cup {n} ELSE FilesRead
  BY <1>3, <1>4 DEF FilesRead
<1> QED
  BY <1>1, <1>2, <1>3, <1>4, <1>5

(* The entries and the files read are finitely many.                        *)
LEMMA ReadFinite ==
  ASSUME InspectTyped
  PROVE  /\ IsFiniteSet(EntriesRead) /\ IsFiniteSet(FilesRead)
         /\ Cardinality(EntriesRead) \in Nat /\ Cardinality(FilesRead) \in Nat
         /\ FilesRead \subseteq EntriesRead /\ EntriesRead \subseteq Read
<1>1. scan.read \in Nat
  BY InputTyped
<1>2. IsFiniteSet(Read)
  BY <1>1, FS_Interval DEF Read
<1>3. EntriesRead \in SUBSET Read /\ FilesRead \in SUBSET EntriesRead
  BY DEF EntriesRead, FilesRead
<1>4. IsFiniteSet(EntriesRead)
  BY <1>2, <1>3, FS_Subset
<1>5. IsFiniteSet(FilesRead)
  BY <1>3, <1>4, FS_Subset
<1> QED
  BY <1>3, <1>4, <1>5, FS_CardinalityType

(* A file that is appended replaces those of its path and no others, in the *)
(* list as on the disk.                                                     *)
LEMMA ObservedMore ==
  ASSUME InspectTyped, Counted, input' = input, NEW n, n = scan.read + 1,
         n \in 1..Len(input.wire), scan' = Scanned(scan, n), NEW path \in Path
  PROVE  Observed(scan'.files, path) = Unpacked(path)'
<1> DEFINE b == Wire(n)
           Isfile == b.kind = "entry" /\ b.file
           row == [path |-> Relative(b.path), content |-> b.content]
           files == scan.files
           Listed(f) == {i \in DOMAIN f : f[i].path = path}
           Leaves(i) == Tail(Wire(i).path) = path \/ (Len(path) = 1 /\ Wire(i).path = path)
           at == {i \in FilesRead : Leaves(i)}
<1>1. /\ FilesRead' = IF Isfile THEN FilesRead \cup {n} ELSE FilesRead
      /\ \A i : Wire(i)' = Wire(i)
  BY ReadMore
<1>2. scan'.files = IF Isfile THEN Append(files, row) ELSE files
  BY DEF Scanned, InspectTyped
<1>3. \A f : Observed(f, path) = IF Listed(f) = {} THEN Absent ELSE f[Max(Listed(f))].content
  BY Zenon DEF Observed
<1>4. Unpacked(path) = IF at = {} THEN Absent ELSE Wire(Max(at)).content
  BY Zenon DEF Unpacked
<1>5. at' = {i \in FilesRead' : Leaves(i)}
  BY <1>1
<1>6. Unpacked(path)' = IF at' = {} THEN Absent ELSE Wire(Max(at')).content
  BY <1>1, Zenon DEF Unpacked
<1>7. Observed(files, path) = Unpacked(path)
  BY DEF Counted
<1>8. files \in Seq(FileRow) /\ Len(files) \in Nat /\ b \in Block /\ scan.read \in Nat
  <2>1. files \in Seq(FileRow)
    BY DEF InspectTyped
  <2> HIDE DEF files
  <2>2. Len(files) \in Nat
    BY <2>1
  <2> QED
    BY <2>1, <2>2, NextTyped
<1>9. Leaves(n) <=> Relative(b.path) = path
  BY <1>8, RelativeIs DEF Block
<1>10. \A i \in FilesRead : i \in Nat /\ i < n
  BY <1>8 DEF FilesRead, EntriesRead, Read
<1> HIDE DEF b, row, files
<1>11. CASE ~Isfile
  <2>1. scan'.files = files /\ at' = at
    BY <1>1, <1>2, <1>5, <1>11
  <2> HIDE DEF Listed, at
  <2> QED
    BY <1>4, <1>6, <1>7, <2>1
<1>12. CASE Isfile /\ row.path = path
  <2>1. scan'.files = Append(files, row) /\ Len(files) + 1 \in Nat
    BY <1>2, <1>8, <1>12
  <2> DEFINE f == Append(files, row)
  <2>2. DOMAIN f = 1..(Len(files) + 1) /\ f[Len(files) + 1] = row
    BY <1>8
  <2>3. Listed(f) \subseteq Nat /\ Len(files) + 1 \in Listed(f)
        /\ \A i \in Listed(f) : i <= Len(files) + 1
    BY <1>8, <1>12, <2>2
  <2> HIDE DEF f
  <2>4. Max(Listed(f)) = Len(files) + 1
    <3> HIDE DEF Listed
    <3> QED
      BY <2>3, MaxIs
  <2>5. Observed(f, path) = row.content
    <3>1. Listed(f) # {}
      BY <2>3
    <3> HIDE DEF Listed
    <3> QED
      BY <1>3, <2>2, <2>4, <3>1
  <2>6. n \in at' /\ at' \subseteq Nat /\ \A i \in at' : i <= n
    <3>1. Leaves(n)
      BY <1>9, <1>12 DEF row
    <3>2. FilesRead' = FilesRead \cup {n} /\ n \in Nat
      BY <1>1, <1>8, <1>12
    <3> HIDE DEF Left
    <3> QED
      BY <1>5, <1>10, <3>1, <3>2
  <2>7. Max(at') = n /\ at' # {}
    <3> HIDE DEF at
    <3> QED
      BY <2>6, MaxIs
  <2>8. Unpacked(path)' = b.content
    <3> HIDE DEF at
    <3> QED
      BY <1>6, <2>7 DEF b
  <2> QED
    BY <2>1, <2>5, <2>8 DEF row, f
<1>13. CASE Isfile /\ row.path # path
  <2>1. scan'.files = Append(files, row)
    BY <1>2, <1>13
  <2> DEFINE f == Append(files, row)
  <2>2. /\ DOMAIN f = 1..(Len(files) + 1) /\ f[Len(files) + 1] = row
        /\ DOMAIN files = 1..Len(files) /\ \A i \in DOMAIN files : f[i] = files[i]
    BY <1>8
  <2> HIDE DEF f
  <2>3. Listed(f) = Listed(files)
    BY <1>8, <1>13, <2>2
  <2>4. ASSUME Listed(files) # {}
        PROVE  Max(Listed(files)) \in DOMAIN files
    <3>1. Listed(files) \subseteq Nat /\ Listed(files) \in SUBSET (1..Len(files))
      BY <1>8, <2>2
    <3>2. IsFiniteSet(1..Len(files))
      BY <1>8, FS_Interval
    <3> DEFINE listed == Listed(files)
    <3>3. listed \subseteq Nat /\ listed \in SUBSET (1..Len(files)) /\ listed # {}
      BY <2>4, <3>1
    <3> HIDE DEF listed
    <3>4. IsFiniteSet(listed)
      BY <3>2, <3>3, FS_Subset
    <3>5. Max(listed) \in listed
      BY <3>3, <3>4, LargestOf
    <3> QED
      BY <3>5 DEF listed
  <2>5. Observed(f, path) = Observed(files, path)
    <3> HIDE DEF Listed
    <3> QED
      BY <1>3, <2>2, <2>3, <2>4
  <2>6. at' = at
    <3>1. ~Leaves(n)
      BY <1>9, <1>13 DEF row
    <3>2. FilesRead' = FilesRead \cup {n}
      BY <1>1, <1>13
    <3> HIDE DEF Left
    <3> QED
      BY <1>5, <3>1, <3>2
  <2> HIDE DEF at
  <2> QED
    BY <1>4, <1>6, <1>7, <2>1, <2>5, <2>6 DEF f
<1> QED
  BY <1>11, <1>12, <1>13

(* The scan counts a block it reads.                                        *)
LEMMA CountedMore ==
  ASSUME InspectTyped, Counted, input' = input, NEW n, n = scan.read + 1,
         n \in 1..Len(input.wire), scan' = Scanned(scan, n)
  PROVE  Counted'
<1> DEFINE b == Wire(n)
           Isfile == b.kind = "entry" /\ b.file
           row == [path |-> Relative(b.path), content |-> b.content]
           files == scan.files
           Place(i) == Cardinality(FilesRead \cap 1..i)
<1>1. /\ Read' = Read \cup {n} /\ n \notin Read
      /\ EntriesRead' = IF b.kind = "entry" THEN EntriesRead \cup {n} ELSE EntriesRead
      /\ FilesRead' = IF Isfile THEN FilesRead \cup {n} ELSE FilesRead
      /\ \A i : Wire(i)' = Wire(i)
      /\ scan'.read = n
  BY ReadMore
<1>2. /\ IsFiniteSet(EntriesRead) /\ IsFiniteSet(FilesRead)
      /\ Cardinality(EntriesRead) \in Nat /\ Cardinality(FilesRead) \in Nat
      /\ n \notin EntriesRead /\ n \notin FilesRead
  BY <1>1, ReadFinite
<1>3. IsInput(input) /\ scan.read \in Nat /\ b \in Block /\ n \in Nat
  BY NextTyped
<1>4. scan'.compressed = n /\ scan'.unpacked = scan.unpacked + Header(b) + b.size
  BY DEF Scanned, InspectTyped, Counted
<1>5. UnpackedTo(scan.read)' = UnpackedTo(scan'.read)
  BY <1>1 DEF UnpackedTo, Wire
<1>6. scan'.unpacked = UnpackedTo(scan'.read)
  <2>1. UnpackedTo(n) = UnpackedTo(n - 1) + Header(b) + b.size
    BY <1>3, UnpackedUnfolds
  <2>2. n - 1 = scan.read
    BY <1>3
  <2> QED
    BY <1>1, <1>4, <2>1, <2>2 DEF Counted
<1>7. scan'.entries = Cardinality(EntriesRead')
  <2>1. scan'.entries = IF b.kind = "entry" THEN scan.entries + 1 ELSE scan.entries
    BY DEF Scanned, InspectTyped
  <2>2. Cardinality(EntriesRead \cup {n}) = Cardinality(EntriesRead) + 1
    BY <1>2, FS_AddElement
  <2> QED
    BY <1>1, <2>1, <2>2 DEF Counted
<1>8. files \in Seq(FileRow) /\ Len(files) = Cardinality(FilesRead)
  BY DEF InspectTyped, Counted
<1>9. scan'.files = IF Isfile THEN Append(files, row) ELSE files
  BY DEF Scanned, InspectTyped
<1>10. \A i \in FilesRead : files[Place(i)].content = Wire(i).content
  BY DEF Counted
<1>11. Cardinality(FilesRead \cup {n}) = Cardinality(FilesRead) + 1
  BY <1>2, FS_AddElement
<1>12. FilesRead \subseteq 1..scan.read
  BY ReadFinite DEF Read
<1> HIDE DEF b, row, files
<1>13. /\ Len(scan'.files) = Cardinality(FilesRead')
       /\ \A i \in FilesRead' :
            scan'.files[Cardinality(FilesRead' \cap 1..i)].content = Wire(i).content
  <2>1. CASE ~Isfile
    <3>1. scan'.files = files /\ FilesRead' = FilesRead
      BY <1>1, <1>9, <2>1
    <3> QED
      BY <1>8, <1>10, <3>1
  <2>2. CASE Isfile
    <3>1. scan'.files = Append(files, row) /\ FilesRead' = FilesRead \cup {n}
      BY <1>1, <1>9, <2>2
    <3> DEFINE f == Append(files, row)
               c == Cardinality(FilesRead)
    <3>2. c \in Nat /\ Len(files) = c
      BY <1>2, <1>8
    <3>3. /\ Len(f) = Len(files) + 1 /\ f[Len(files) + 1] = row
          /\ \A k \in 1..Len(files) : f[k] = files[k]
      BY <1>8
    <3> HIDE DEF f, c
    <3>4. Len(f) = Cardinality(FilesRead')
      BY <1>8, <1>11, <3>1, <3>3
    <3>5. ASSUME NEW i \in FilesRead
          PROVE  f[Cardinality(FilesRead' \cap 1..i)].content = Wire(i).content
      <4>1. FilesRead' \cap 1..i = FilesRead \cap 1..i
        <5>1. i \in 1..scan.read
          BY <1>12, <3>5
        <5>2. n \notin 1..i
          BY <1>3, <5>1
        <5> QED
          BY <3>1, <5>2
      <4> DEFINE upto == FilesRead \cap 1..i
      <4>2. upto \in SUBSET FilesRead /\ i \in upto
        BY <1>3, <1>12, <3>5
      <4> HIDE DEF upto
      <4>3. IsFiniteSet(upto) /\ Cardinality(upto) <= c
        BY <1>2, <4>2, FS_Subset DEF c
      <4>4. Cardinality(upto) \in Nat /\ Cardinality(upto) # 0
        BY <4>2, <4>3, FS_CardinalityType, FS_EmptySet
      <4>5. Cardinality(upto) \in 1..Len(files)
        BY <3>2, <4>3, <4>4
      <4>6. files[Cardinality(upto)].content = Wire(i).content
        BY <1>10, <3>5 DEF upto
      <4>7. f[Cardinality(upto)].content = Wire(i).content
        BY <3>3, <4>5, <4>6
      <4> QED
        BY <4>1, <4>7 DEF upto
    <3>6. f[Cardinality(FilesRead' \cap 1..n)].content = Wire(n).content
      <4>1. FilesRead' \cap 1..n = FilesRead \cup {n}
        <5>1. n \in 1..n /\ \A i \in 1..scan.read : i \in 1..n
          BY <1>3
        <5> QED
          BY <1>12, <3>1, <5>1
      <4>2. Cardinality(FilesRead' \cap 1..n) = Len(files) + 1
        BY <1>8, <1>11, <4>1
      <4> QED
        BY <3>3, <4>2 DEF row, b
    <3> QED
      BY <3>1, <3>4, <3>5, <3>6 DEF f
  <2> QED
    BY <2>1, <2>2
<1>14. \A path \in Path : Observed(scan'.files, path) = Unpacked(path)'
  BY ObservedMore
<1> QED
  BY <1>1, <1>4, <1>5, <1>6, <1>7, <1>13, <1>14 DEF Counted, Observed

(* The scan takes a block.                                                  *)
LEMMA BlockScanned ==
  ASSUME InspectTyped, InOrder, Counted, Unstopped, ScanBlock
  PROVE  Counted' /\ Unstopped' /\ ScanFaithful'
<1> DEFINE n == scan.read + 1
           b == Wire(n)
           stops == Stops(scan, b)
<1>1. /\ scan.read \in Nat /\ n \in 1..Len(input.wire)
      /\ scan' = Scanned(scan, n) /\ scan.result = "none" /\ input' = input
  BY NextBlock DEF ScanBlock
<1>2. Counted'
  BY <1>1, CountedMore
<1>3. /\ Read' = Read \cup {n} /\ \A i : Wire(i)' = Wire(i) /\ scan'.read = n
  BY <1>1, ReadMore
<1>4. /\ scan'.result = Stop(scan, b) /\ scan'.compressed = scan.compressed + 1
      /\ scan'.unpacked = scan.unpacked + Header(b) + b.size
      /\ scan'.entries = IF b.kind = "entry" THEN scan.entries + 1 ELSE scan.entries
  BY <1>1 DEF Scanned, InspectTyped
<1>5. /\ b \in Block /\ (b.kind = "end" => b.size = 0) /\ b.size \in Nat /\ Header(b) \in Nat
  BY <1>1, NextTyped
<1>6. /\ scan.unpacked \in Nat /\ scan.entries \in Nat /\ scan.compressed = scan.read
      /\ MaxCompressed \in Nat /\ MaxUnpacked \in Nat /\ MaxEntries \in Nat
  BY InspectionAssumption DEF InspectTyped, Counted
<1>7. /\ \A i \in Read : Wire(i).kind \in {"entry", "more"}
      /\ scan.read <= MaxCompressed /\ scan.unpacked <= MaxUnpacked
      /\ scan.entries <= MaxEntries
  BY <1>1 DEF Unstopped
<1>8. /\ stops[1].if = (scan.compressed + 1 > MaxCompressed)
      /\ stops[2].if = (b.kind = "corrupt")
      /\ stops[3].if = (scan.unpacked + Header(b) > MaxUnpacked)
      /\ stops[4].if = (b.kind = "end")
      /\ stops[5].if = (b.kind = "entry" /\ scan.entries + 1 > MaxEntries)
      /\ stops[7].if = (scan.unpacked + Header(b) + b.size > MaxUnpacked)
  BY DEF Stops
<1>9. /\ Stop(scan, b) = "none" => \A i \in 1..8 : ~stops[i].if
      /\ Stop(scan, b) = "ok" => ~stops[1].if /\ ~stops[2].if /\ ~stops[3].if /\ stops[4].if
      /\ Stop(scan, b) = "compressed_limit" => stops[1].if
      /\ Stop(scan, b) = "read" => stops[2].if
      /\ Stop(scan, b) = "unpacked_limit" => stops[3].if \/ stops[7].if
      /\ Stop(scan, b) = "entry_limit" => stops[5].if
  BY StopIs
<1>10. /\ scan'.unpacked = UnpackedTo(scan.read)' /\ scan'.entries = Cardinality(EntriesRead')
       /\ Len(scan'.files) = Cardinality(FilesRead')
       /\ \A i \in FilesRead' :
            scan'.files[Cardinality(FilesRead' \cap 1..i)].content = Wire(i)'.content
  BY <1>2 DEF Counted
<1> HIDE DEF n, b, stops
<1>11. n \in Nat /\ n = scan.read + 1 /\ \A i \in Read : i # n
  BY <1>1 DEF n, Read
<1>12. CASE Stop(scan, b) = "none"
  <2>0. ~stops[1].if /\ ~stops[2].if /\ ~stops[4].if /\ ~stops[5].if /\ ~stops[7].if
    BY <1>9, <1>12
  <2>1. /\ ~(scan.compressed + 1 > MaxCompressed) /\ b.kind # "corrupt" /\ b.kind # "end"
        /\ ~(b.kind = "entry" /\ scan.entries + 1 > MaxEntries)
        /\ ~(scan.unpacked + Header(b) + b.size > MaxUnpacked)
    BY <1>8, <2>0, Zenon
  <2>2. b.kind \in {"entry", "more"}
    BY <1>5, <2>1 DEF Block
  <2>3. \A i \in Read' : Wire(i)'.kind \in {"entry", "more"}
    BY <1>3, <1>7, <2>2 DEF b
  <2>4. scan'.read <= MaxCompressed
    BY <1>3, <1>6, <1>11, <2>1
  <2>5. scan'.unpacked <= MaxUnpacked
    BY <1>4, <1>5, <1>6, <2>1
  <2>6. scan'.entries <= MaxEntries
    BY <1>4, <1>6, <1>7, <2>1
  <2>7. Unstopped'
    BY <2>3, <2>4, <2>5, <2>6 DEF Unstopped
  <2>8. ScanFaithful'
    BY <1>4, <1>12 DEF ScanFaithful
  <2> QED
    BY <1>2, <2>7, <2>8
<1>13. CASE Stop(scan, b) = "ok"
  <2>1. /\ ~(scan.compressed + 1 > MaxCompressed) /\ b.kind = "end"
        /\ ~(scan.unpacked + Header(b) > MaxUnpacked)
    BY <1>8, <1>9, <1>13
  <2>2. scan'.read > 0 /\ scan'.read <= MaxCompressed
    BY <1>1, <1>3, <1>6, <1>11, <2>1
  <2>3. scan'.unpacked <= MaxUnpacked
    <3>1. b.size = 0
      BY <1>5, <2>1
    <3> QED
      BY <1>4, <1>5, <1>6, <2>1, <3>1
  <2>4. scan'.entries <= MaxEntries
    BY <1>4, <1>7, <2>1
  <2>5. \A i \in Read' :
          Wire(i)'.kind \in IF i = scan'.read THEN {"end"} ELSE {"entry", "more"}
    <3> SUFFICES ASSUME NEW i \in Read'
                 PROVE  Wire(i).kind \in IF i = n THEN {"end"} ELSE {"entry", "more"}
      BY <1>3
    <3> QED
      BY <1>3, <1>7, <1>11, <2>1 DEF b
  <2>6. ScanFaithful'
    BY <1>4, <1>10, <1>13, <2>2, <2>3, <2>4, <2>5 DEF ScanFaithful
  <2> QED
    BY <1>2, <1>4, <1>13, <2>6 DEF Unstopped
<1>14. CASE Stop(scan, b) = "compressed_limit"
  <2>1. scan'.read > MaxCompressed
    BY <1>3, <1>6, <1>8, <1>9, <1>11, <1>14
  <2> QED
    BY <1>2, <1>4, <1>14, <2>1 DEF Unstopped, ScanFaithful
<1>15. CASE Stop(scan, b) = "unpacked_limit"
  <2>1. stops[3].if \/ stops[7].if
    BY <1>9, <1>15
  <2>2. \/ scan.unpacked + Header(b) > MaxUnpacked
        \/ scan.unpacked + Header(b) + b.size > MaxUnpacked
    BY <1>8, <2>1, Zenon
  <2>3. scan'.unpacked > MaxUnpacked
    BY <1>4, <1>5, <1>6, <2>2
  <2> QED
    BY <1>2, <1>4, <1>10, <1>15, <2>3 DEF Unstopped, ScanFaithful
<1>16. CASE Stop(scan, b) = "entry_limit"
  <2>1. scan'.entries > MaxEntries
    BY <1>4, <1>6, <1>8, <1>9, <1>16
  <2> QED
    BY <1>2, <1>4, <1>10, <1>16, <2>1 DEF Unstopped, ScanFaithful
<1>17. CASE Stop(scan, b) = "read"
  <2>1. b.kind = "corrupt"
    BY <1>8, <1>9, <1>17
  <2>2. \A i \in Read' : Wire(i)'.kind # "end"
    BY <1>3, <1>7, <2>1 DEF b
  <2> QED
    BY <1>2, <1>4, <1>17, <2>2 DEF Unstopped, ScanFaithful
<1>18. CASE Stop(scan, b) \notin {"none", "ok", "compressed_limit", "unpacked_limit",
                                  "entry_limit", "read"}
  BY <1>2, <1>4, <1>18 DEF Unstopped, ScanFaithful
<1> QED
  BY <1>12, <1>13, <1>14, <1>15, <1>16, <1>17, <1>18

(* While the scan stands still, so does what is said of it, and the report. *)
LEMMA ScanStill ==
  ASSUME input' = input, scan' = scan
  PROVE  /\ Counted => Counted'
         /\ Unstopped => Unstopped'
         /\ ScanFaithful => ScanFaithful'
         /\ Inspected' = Inspected
         /\ Report(input, Inspected)' = Report(input, Inspected)
<1>1. Read' = Read /\ \A i : Wire(i)' = Wire(i)
  BY DEF Read, Wire
<1>2. EntriesRead' = EntriesRead
  BY <1>1 DEF EntriesRead
<1>3. FilesRead' = FilesRead
  BY <1>1, <1>2 DEF FilesRead
<1>4. UnpackedTo(scan.read)' = UnpackedTo(scan.read)
  BY DEF UnpackedTo, Wire
<1>5. \A path : Unpacked(path)' = Unpacked(path)
  BY <1>1, <1>3 DEF Unpacked
<1>6. Counted => Counted'
  BY <1>1, <1>2, <1>3, <1>4, <1>5 DEF Counted
<1>7. Unstopped => Unstopped'
  BY <1>1 DEF Unstopped
<1>8. ScanFaithful => ScanFaithful'
  BY <1>1, <1>2, <1>3, <1>4 DEF ScanFaithful
<1>9. Inspected' = Inspected
  BY DEF Inspected
<1>10. TarballHooks' = TarballHooks
  BY <1>1 DEF TarballHooks
<1>11. /\ ScriptDelta(input, Inspected)' = ScriptDelta(input, Inspected)
       /\ PinAudit(input)' = PinAudit(input)
  BY <1>9, <1>10 DEF ScriptDelta, DeltaNow, PinAudit
<1>12. Notes(input, Inspected)' = Notes(input, Inspected)
  BY <1>9, <1>10, <1>11 DEF Notes
<1>13. Report(input, Inspected)' = Report(input, Inspected)
  BY <1>9, <1>11, <1>12, Zenon DEF Report
<1> QED
  BY <1>6, <1>7, <1>8, <1>9, <1>13

(* Taking one message off the channel.                                      *)
LEMMA Taken ==
  ASSUME NEW S, NEW q \in Seq(S), q # <<>>
  PROVE  /\ Tail(q) \in Seq(S) /\ Len(q) \in Nat /\ Len(Tail(q)) = Len(q) - 1
         /\ DOMAIN q = 1..Len(q) /\ DOMAIN Tail(q) = 1..(Len(q) - 1)
         /\ \A j \in DOMAIN Tail(q) : j + 1 \in DOMAIN q /\ Tail(q)[j] = q[j + 1]
<1>1. Tail(q) \in Seq(S) /\ Len(Tail(q)) = Len(q) - 1
  BY HeadTailProperties
<1>2. Len(q) \in Nat /\ DOMAIN q = 1..Len(q) /\ DOMAIN Tail(q) = 1..(Len(q) - 1)
  BY <1>1
<1>3. \A j \in 1..(Len(q) - 1) : Tail(q)[j] = q[j + 1]
  BY HeadTailProperties
<1>4. \A j \in 1..(Len(q) - 1) : j + 1 \in 1..Len(q)
  BY <1>2
<1> QED
  BY <1>1, <1>2, <1>3, <1>4

(* A command that has not started.                                          *)
LEMMA InspectInvInit ==
  ASSUME InspectInit
  PROVE  InspectInv
<1>1. /\ input \in Inputs /\ IsInput(input) /\ handler = "resolving" /\ pump = "idle"
      /\ fetched = 0 /\ hand = 0 /\ queue = <<>> /\ scan = Unstarted /\ report = Absent
  BY InspectionAssumption DEF InspectInit, Broken
<1>2. Len(input.wire) \in Nat /\ Capacity \in Nat /\ MaxCompressed \in Nat
      /\ MaxUnpacked \in Nat /\ MaxEntries \in Nat
  BY <1>1, InspectionAssumption DEF IsInput
<1>3. Len(queue) = 0 /\ queue \in Seq(0..0) /\ DOMAIN queue = {}
  BY <1>1
<1>4. <<>> \in Seq(FileRow) /\ Len(<<>>) = 0
  BY EmptySeq
<1>5. scan \in [result : Results, read : 0..fetched, compressed : Nat, unpacked : Nat,
                entries : Nat, manifest : Nat, files : Seq(FileRow)]
  BY <1>1, <1>4 DEF Unstarted, Results
<1>6. InspectTyped
  BY <1>1, <1>2, <1>3, <1>5 DEF InspectTyped
<1>7. InOrder
  BY <1>1, <1>3 DEF InOrder, Sending, Unstarted
<1>8. Read = {} /\ EntriesRead = {} /\ FilesRead = {}
  BY <1>1 DEF Read, EntriesRead, FilesRead, Unstarted
<1>9. Counted
  <2>1. UnpackedTo(0) = 0
    BY <1>1, UnpackedUnfolds
  <2>2. Cardinality({}) = 0
    BY FS_EmptySet
  <2>3. \A path : Observed(<<>>, path) = Unpacked(path)
    <3>1. DOMAIN (<<>>) = {}
      OBVIOUS
    <3> QED
      BY <1>8, <3>1, Zenon DEF Observed, Unpacked
  <2>4. /\ scan.compressed = 0 /\ scan.unpacked = 0 /\ scan.entries = 0 /\ scan.read = 0
        /\ scan.files = <<>>
    BY <1>1 DEF Unstarted
  <2> QED
    BY <1>4, <1>8, <2>1, <2>2, <2>3, <2>4 DEF Counted
<1>10. Unstopped /\ ScanFaithful
  BY <1>1, <1>2, <1>8 DEF Unstopped, ScanFaithful, Unstarted
<1>11. Reported
  BY <1>1 DEF Reported
<1> QED
  BY <1>6, <1>7, <1>9, <1>10, <1>11 DEF InspectInv

(* The scan takes what is next on the channel, or sees its end.             *)
LEMMA ScanKeeps ==
  ASSUME InspectInv, Scan
  PROVE  InspectInv'
<1> USE DEF InspectInv
<1>1. /\ IsInput(input) /\ fetched \in Nat /\ scan.read \in 0..fetched
      /\ Len(input.wire) \in Nat
  BY InputTyped
<1>2. /\ UNCHANGED <<input, handler, pump, fetched, hand, report>>
      /\ pump # "idle" /\ scan.result = "none" /\ handler # "resolving"
      /\ Inspected' = Inspected /\ report = Absent
  BY DEF Scan, ScanBlock, ScanBroken, ScanEof, Scanning, InOrder, Reported, Inspected
<1>3. Reported'
  BY <1>2 DEF Reported
<1>4. CASE ScanBlock
  <2> DEFINE n == scan.read + 1
             b == Wire(n)
  <2>1. /\ n \in 1..fetched /\ n \in 1..Len(input.wire) /\ scan' = Scanned(scan, n)
        /\ scan.read \in Nat
    BY <1>4, NextBlock
  <2>2. b \in Block /\ b.size \in Nat /\ Header(b) \in Nat /\ n \in Nat
    BY <2>1, NextTyped
  <2>3. Counted' /\ Unstopped' /\ ScanFaithful'
    BY <1>4, BlockScanned
  <2>4. queue # <<>> /\ queue' = Tail(queue)
    BY <1>4 DEF ScanBlock
  <2>5. queue \in Seq(0..fetched) /\ Len(queue) <= Capacity /\ Capacity \in Nat
    BY InspectionAssumption DEF InspectTyped
  <2>6. /\ Tail(queue) \in Seq(0..fetched) /\ Len(queue) \in Nat
        /\ Len(Tail(queue)) = Len(queue) - 1
        /\ \A j \in DOMAIN Tail(queue) : j \in Nat /\ j + 1 \in DOMAIN queue
                                         /\ Tail(queue)[j] = queue[j + 1]
    BY <2>4, <2>5, Taken
  <2>7. queue' \in Seq(0..fetched) /\ Len(queue') <= Capacity
    BY <2>4, <2>5, <2>6
  <2> HIDE DEF n, b
  <2>8. scan' \in [result : Results, read : 0..fetched, compressed : Nat, unpacked : Nat,
                   entries : Nat, manifest : Nat, files : Seq(FileRow)]
    <3>1. Stop(scan, b) \in Results
      BY StopIs
    <3> DEFINE row == [path |-> Relative(b.path), content |-> b.content]
    <3>2. row \in FileRow
      <4>1. b.path \in Path /\ b.content \in Content \cup {Absent}
        BY <2>2 DEF Block
      <4>2. Relative(b.path) \in Path
        BY <4>1, RelativeIs
      <4> QED
        BY <4>1, <4>2 DEF FileRow
    <3> HIDE DEF row
    <3>3. Append(scan.files, row) \in Seq(FileRow) /\ scan.files \in Seq(FileRow)
      BY <3>2 DEF InspectTyped
    <3>4. n \in 0..fetched /\ n \in Nat
      BY <1>1, <2>1, <2>2
    <3>5. /\ scan.compressed + 1 \in Nat /\ scan.unpacked + Header(b) + b.size \in Nat
          /\ scan.entries \in Nat /\ scan.entries + 1 \in Nat /\ scan.manifest \in Nat
      <4>1. /\ scan.compressed \in Nat /\ scan.unpacked \in Nat /\ scan.entries \in Nat
            /\ scan.manifest \in Nat
        BY DEF InspectTyped
      <4> QED
        BY <2>2, <4>1
    <3>6. scan' =
            [scan EXCEPT !.result = Stop(scan, b), !.read = n,
                !.compressed = @ + 1, !.unpacked = @ + Header(b) + b.size,
                !.entries = IF b.kind = "entry" THEN @ + 1 ELSE @,
                !.manifest = IF Parses(scan, b) THEN n ELSE @,
                !.files = IF b.kind = "entry" /\ b.file THEN Append(@, row) ELSE @]
      BY <2>1 DEF Scanned, b, row
    <3> QED
      BY <3>1, <3>3, <3>4, <3>5, <3>6 DEF InspectTyped
  <2>9. InspectTyped'
    BY <1>2, <2>7, <2>8 DEF InspectTyped
  <2>10. scan'.read = scan.read + 1
    BY <2>1 DEF Scanned, InspectTyped, n
  <2>11. InOrder'
    <3>1. ASSUME NEW j \in DOMAIN queue', queue'[j] # Broken
          PROVE  queue'[j] = scan'.read + j
      <4>1. j \in Nat /\ j + 1 \in DOMAIN queue /\ queue'[j] = queue[j + 1]
        BY <2>4, <2>6
      <4>2. queue[j + 1] = scan.read + (j + 1)
        BY <1>2, <3>1, <4>1 DEF InOrder
      <4> QED
        BY <2>1, <2>10, <4>1, <4>2
    <3>2. Sending' = Sending
      BY <1>2 DEF Sending
    <3>3. ASSUME pump # "done"
          PROVE  /\ \A j \in DOMAIN queue' : queue'[j] # Broken
                 /\ fetched = scan'.read + Len(queue') + Sending
                 /\ Sending = 1 => hand = fetched
      <4>1. /\ \A j \in DOMAIN queue : queue[j] # Broken
            /\ fetched = scan.read + Len(queue) + Sending
            /\ Sending = 1 => hand = fetched
        BY <1>2, <3>3 DEF InOrder
      <4>2. \A j \in DOMAIN queue' : queue'[j] # Broken
        BY <2>4, <2>6, <4>1
      <4>3. Sending \in Nat
        BY DEF Sending
      <4>4. fetched = scan'.read + Len(queue') + Sending
        BY <2>1, <2>4, <2>6, <2>10, <4>1, <4>3
      <4> QED
        BY <4>1, <4>2, <4>4
    <3> QED
      BY <1>2, <3>1, <3>2, <3>3 DEF InOrder
  <2> QED
    BY <1>3, <2>3, <2>9, <2>11
<1>5. CASE ScanBroken \/ ScanEof
  <2>1. scan' = [scan EXCEPT !.result = "read"]
    BY <1>5 DEF ScanBroken, ScanEof, AtEof
  <2>2. /\ scan'.result = "read" /\ scan'.read = scan.read
        /\ scan'.compressed = scan.compressed /\ scan'.unpacked = scan.unpacked
        /\ scan'.entries = scan.entries /\ scan'.files = scan.files
    BY <2>1 DEF InspectTyped
  <2>3. queue' \in Seq(0..fetched) /\ Len(queue') <= Capacity
    <3>1. queue \in Seq(0..fetched) /\ Len(queue) <= Capacity /\ Capacity \in Nat
      BY InspectionAssumption DEF InspectTyped
    <3>2. queue' = queue \/ (queue # <<>> /\ queue' = Tail(queue))
      BY <1>5 DEF ScanBroken, ScanEof
    <3>3. CASE queue' = queue
      BY <3>1, <3>3
    <3>4. CASE queue # <<>> /\ queue' = Tail(queue)
      <4>1. /\ Tail(queue) \in Seq(0..fetched) /\ Len(queue) \in Nat
            /\ Len(Tail(queue)) = Len(queue) - 1
        BY <3>1, <3>4, Taken
      <4> QED
        BY <3>1, <3>4, <4>1
    <3> QED
      BY <3>2, <3>3, <3>4
  <2>4. InspectTyped'
    BY <1>2, <2>1, <2>3 DEF InspectTyped, Results
  <2>5. InOrder'
    BY <1>2, <2>2 DEF InOrder
  <2>6. Read' = Read /\ \A i : Wire(i)' = Wire(i)
    BY <1>2, <2>2 DEF Read, Wire
  <2>7. EntriesRead' = EntriesRead
    BY <2>6 DEF EntriesRead
  <2>8. FilesRead' = FilesRead
    BY <2>6, <2>7 DEF FilesRead
  <2>9. UnpackedTo(scan.read)' = UnpackedTo(scan.read)
    BY <1>2, <2>2 DEF UnpackedTo, Wire
  <2>10. \A path : Unpacked(path)' = Unpacked(path)
    BY <2>6, <2>8 DEF Unpacked
  <2>11. Counted'
    BY <2>2, <2>6, <2>7, <2>8, <2>9, <2>10 DEF Counted
  <2>12. Unstopped' /\ ScanFaithful'
    BY <1>2, <2>2, <2>6 DEF Unstopped, ScanFaithful
  <2> QED
    BY <1>3, <2>4, <2>5, <2>11, <2>12
<1> QED
  BY <1>4, <1>5 DEF Scan

(* The pump moves blocks to the channel, one after the other.               *)
LEMMA PumpKeeps ==
  ASSUME InspectInv, Pump
  PROVE  InspectInv'
<1> USE DEF InspectInv
<1>1. /\ IsInput(input) /\ fetched \in Nat /\ fetched <= Len(input.wire)
      /\ scan.read \in 0..fetched /\ Len(input.wire) \in Nat /\ Capacity \in Nat
      /\ queue \in Seq(0..fetched) /\ Len(queue) \in Nat /\ Len(queue) <= Capacity
      /\ DOMAIN queue = 1..Len(queue) /\ hand \in 0..fetched
  <2>1. queue \in Seq(0..fetched) /\ Len(queue) <= Capacity /\ hand \in 0..fetched
    BY DEF InspectTyped
  <2>2. Len(queue) \in Nat /\ DOMAIN queue = 1..Len(queue)
    BY <2>1
  <2> QED
    BY <2>1, <2>2, InputTyped, InspectionAssumption
<1>2. UNCHANGED <<input, handler, scan, report>> /\ pump # "idle" /\ handler # "resolving"
  BY DEF Pump, PumpReads, PumpEof, PumpBreaks, PumpSends, PumpGivesUp, InOrder
<1>3. Counted' /\ Unstopped' /\ ScanFaithful' /\ Reported'
  BY <1>2, ScanStill DEF Reported
<1>4. CASE PumpReads
  <2>1. /\ pump = "reading" /\ pump' = "sending" /\ fetched' = fetched + 1
        /\ hand' = fetched + 1 /\ queue' = queue /\ fetched < Len(input.wire)
    BY <1>4 DEF PumpReads
  <2>2. queue \in Seq(0..(fetched + 1)) /\ scan.read \in 0..(fetched + 1)
    <3>1. \A i \in 0..fetched : i \in 0..(fetched + 1)
      BY <1>1
    <3> QED
      BY <1>1, <3>1
  <2>3. InspectTyped'
    <3>1. fetched' \in 0..Len(input.wire) /\ hand' \in 0..fetched'
      BY <1>1, <2>1
    <3> QED
      BY <1>2, <2>1, <2>2, <3>1 DEF InspectTyped
  <2>4. Sending = 0 /\ Sending' = 1
    BY <1>1, <2>1 DEF Sending, Broken
  <2>5. ASSUME scan.result = "none"
        PROVE  /\ \A j \in DOMAIN queue : queue[j] # Broken /\ queue[j] = scan.read + j
               /\ fetched' = scan.read + Len(queue) + 1
    BY <1>1, <2>1, <2>4, <2>5 DEF InOrder
  <2>6. InOrder'
    BY <1>2, <2>1, <2>4, <2>5 DEF InOrder
  <2> QED
    BY <1>3, <2>3, <2>6
<1>5. CASE PumpEof \/ PumpGivesUp
  <2>1. pump' = "done" /\ UNCHANGED <<fetched, hand, queue>>
    BY <1>5 DEF PumpEof, PumpGivesUp
  <2>2. InspectTyped'
    BY <1>2, <2>1 DEF InspectTyped
  <2>3. InOrder'
    BY <1>2, <2>1 DEF InOrder
  <2> QED
    BY <1>3, <2>2, <2>3
<1>6. CASE PumpBreaks
  <2>1. pump = "reading" /\ pump' = "sending" /\ hand' = Broken /\ UNCHANGED <<fetched, queue>>
    BY <1>6 DEF PumpBreaks
  <2>2. InspectTyped'
    BY <1>1, <1>2, <2>1 DEF InspectTyped, Broken
  <2>3. Sending = 0 /\ Sending' = 0
    BY <2>1 DEF Sending
  <2>4. InOrder'
    BY <1>2, <2>1, <2>3 DEF InOrder
  <2> QED
    BY <1>3, <2>2, <2>4
<1>7. CASE PumpSends
  <2>1. /\ pump = "sending" /\ scan.result = "none" /\ Len(queue) < Capacity
        /\ queue' = Append(queue, hand) /\ UNCHANGED <<fetched, hand>>
        /\ pump' = IF hand = Broken THEN "done" ELSE "reading"
    BY <1>7 DEF PumpSends, ReceiverOpen
  <2>2. /\ queue' \in Seq(0..fetched) /\ Len(queue') = Len(queue) + 1
        /\ DOMAIN queue' = 1..(Len(queue) + 1) /\ queue'[Len(queue) + 1] = hand
        /\ \A j \in DOMAIN queue : queue'[j] = queue[j]
    BY <1>1, <2>1
  <2>3. Len(queue') <= Capacity
    BY <1>1, <2>1, <2>2
  <2>4. InspectTyped'
    BY <1>2, <2>1, <2>2, <2>3 DEF InspectTyped
  <2>5. /\ \A j \in DOMAIN queue : queue[j] # Broken /\ queue[j] = scan.read + j
        /\ hand # Broken => hand = fetched /\ fetched = scan.read + Len(queue) + 1
    BY <2>1 DEF InOrder, Sending
  <2>6. \A j \in DOMAIN queue' : queue'[j] # Broken => queue'[j] = scan.read + j
    <3> SUFFICES ASSUME NEW j \in DOMAIN queue', queue'[j] # Broken
                 PROVE  queue'[j] = scan.read + j
      OBVIOUS
    <3>1. CASE j \in DOMAIN queue
      BY <2>2, <2>5, <3>1
    <3>2. CASE j \notin DOMAIN queue
      <4>1. j = Len(queue) + 1
        BY <1>1, <2>2, <3>2
      <4>2. hand # Broken
        BY <2>2, <4>1
      <4>3. queue'[j] = hand /\ hand = scan.read + Len(queue) + 1
        BY <2>2, <2>5, <4>1, <4>2
      <4> DEFINE r == scan.read
                 l == Len(queue)
      <4>4. r \in Nat /\ l \in Nat /\ hand = r + l + 1 /\ j = l + 1
        BY <1>1, <4>1, <4>3
      <4> HIDE DEF r, l
      <4>5. hand = r + j
        BY <4>4
      <4> QED
        BY <4>3, <4>5 DEF r
    <3> QED
      BY <3>1, <3>2
  <2>7. ASSUME pump' # "done"
        PROVE  /\ \A j \in DOMAIN queue' : queue'[j] # Broken
               /\ fetched = scan.read + Len(queue') + 0
    <3>1. hand # Broken
      BY <2>1, <2>7
    <3>2. \A j \in DOMAIN queue' : j \in DOMAIN queue \/ j = Len(queue) + 1
      BY <1>1, <2>2
    <3>3. \A j \in DOMAIN queue' : queue'[j] # Broken
      BY <2>2, <2>5, <3>1, <3>2
    <3>4. fetched = scan.read + Len(queue') + 0
      BY <1>1, <2>2, <2>5, <3>1
    <3> QED
      BY <3>3, <3>4
  <2>8. Sending' = 0 /\ pump' # "idle"
    BY <2>1 DEF Sending
  <2>9. InOrder'
    BY <1>2, <2>1, <2>6, <2>7, <2>8 DEF InOrder
  <2> QED
    BY <1>3, <2>4, <2>9
<1> QED
  BY <1>4, <1>5, <1>6, <1>7 DEF Pump

(* The command starts and ends.                                             *)
LEMMA CommandKeeps ==
  ASSUME InspectInv, Command \/ Dropped
  PROVE  InspectInv'
<1> USE DEF InspectInv
<1>1. UNCHANGED <<input, fetched, hand, queue, scan>>
  BY DEF Command, Dropped, StartScan, NotInspected, Finish
<1>2. /\ Counted' /\ Unstopped' /\ ScanFaithful' /\ Inspected' = Inspected
      /\ Report(input, Inspected)' = Report(input, Inspected)
  BY <1>1, ScanStill
<1>3. CASE StartScan
  <2>1. /\ handler = "resolving" /\ handler' = "scanning" /\ pump' = "reading"
        /\ Inspected # Absent /\ report' = report
    BY <1>3 DEF StartScan
  <2>2. InspectTyped'
    BY <1>1, <2>1 DEF InspectTyped
  <2>3. pump = "idle" /\ fetched = 0 /\ queue = <<>> /\ scan.read = 0
    BY <2>1 DEF InOrder
  <2>4. Len(queue) = 0 /\ DOMAIN queue = {} /\ Sending' = 0
    BY <2>1, <2>3 DEF Sending
  <2>5. InOrder'
    BY <1>1, <2>1, <2>3, <2>4 DEF InOrder
  <2>6. Reported'
    BY <1>1, <1>2, <2>1 DEF Reported
  <2> QED
    BY <1>2, <2>2, <2>5, <2>6
<1>4. CASE NotInspected \/ Dropped
  <2>1. handler' \in {"failed", "gone"} /\ pump' = pump /\ report' = report
    BY <1>4 DEF NotInspected, Dropped
  <2>2. InspectTyped'
    BY <1>1, <2>1 DEF InspectTyped
  <2>3. Sending' = Sending
    BY <1>1, <2>1 DEF Sending
  <2>4. InOrder'
    BY <1>1, <2>1, <2>3 DEF InOrder
  <2>5. Reported'
    BY <1>1, <1>2, <2>1 DEF Reported
  <2> QED
    BY <1>2, <2>2, <2>4, <2>5
<1>5. CASE Finish
  <2>1. /\ handler = "scanning" /\ handler' \in {"answered", "failed"} /\ pump' = "done"
        /\ scan.result # "none" /\ Inspected # Absent
        /\ report' = report \/ report' = Report(input, Inspected)
    BY <1>5 DEF Finish, Reported
  <2>2. InspectTyped'
    BY <1>1, <2>1 DEF InspectTyped
  <2>3. InOrder'
    BY <1>1, <2>1 DEF InOrder
  <2>4. Reported'
    BY <1>1, <1>2, <2>1 DEF Reported
  <2> QED
    BY <1>2, <2>2, <2>3, <2>4
<1> QED
  BY <1>3, <1>4, <1>5 DEF Command

(* Every step keeps the invariant: one lemma for each of the three actors.  *)
LEMMA InspectInvStep ==
  ASSUME InspectInv, [InspectNext]_inspectVars
  PROVE  InspectInv'
<1>1. CASE Scan
  BY <1>1, ScanKeeps
<1>2. CASE Pump
  BY <1>2, PumpKeeps
<1>3. CASE Command \/ Dropped
  BY <1>3, CommandKeeps
<1>4. CASE UNCHANGED inspectVars
  <2>1. UNCHANGED <<input, handler, pump, fetched, hand, queue, scan, report>>
    BY <1>4 DEF inspectVars
  <2>2. /\ Counted' /\ Unstopped' /\ ScanFaithful' /\ Reported'
    BY <2>1, ScanStill DEF InspectInv, Reported
  <2>3. InspectTyped' /\ InOrder'
    BY <2>1 DEF InspectInv, InspectTyped, InOrder, Sending
  <2> QED
    BY <2>2, <2>3 DEF InspectInv
<1> QED
  BY <1>1, <1>2, <1>3, <1>4 DEF InspectNext

(* The invariant holds of every inspection.                                 *)
LEMMA InspectInvHolds == InspectSpec => []InspectInv
<1>1. InspectInit => InspectInv
  BY InspectInvInit
<1>2. InspectInv /\ [InspectNext]_inspectVars => InspectInv'
  BY InspectInvStep
<1> QED
  BY <1>1, <1>2, PTL DEF InspectSpec

(* The types of an inspection: blocks are numbered within the wire and the  *)
(* channel holds no more than its capacity.                                 *)
THEOREM InspectTypeCorrect == InspectSpec => []InspectTypeOK
<1>1. InspectInv => InspectTypeOK
  <2> SUFFICES ASSUME InspectInv
               PROVE  InspectTypeOK
    OBVIOUS
  <2>1. IsInput(input)
    BY InspectionAssumption DEF InspectInv, InspectTyped
  <2>2. \A i \in DOMAIN queue : queue[i] \in 0..fetched
    BY DEF InspectInv, InspectTyped
  <2> QED
    BY <2>1, <2>2 DEF InspectInv, InspectTyped, InspectTypeOK
<1> QED
  BY <1>1, InspectInvHolds, PTL

(* What a scan says of an archive is true of the archive, whatever stopped  *)
(* it (tarball::scan).                                                      *)
THEOREM ScanIsFaithful == InspectSpec => []ScanFaithful
<1>1. InspectInv => ScanFaithful
  BY DEF InspectInv
<1> QED
  BY <1>1, InspectInvHolds, PTL

(* A pin is reported unchanged exactly when an install gets the bytes that  *)
(* were approved (pin_audit).                                               *)
THEOREM PinsAreAudited == InspectSpec => []PinsAudited
<1>1. InspectInv => PinsAudited
  <2> SUFFICES ASSUME InspectInv, report # Absent, NEW path \in DOMAIN input.pinned
               PROVE  report.pins[path] = "unchanged" <=> Unpacked(path) = input.pinned[path]
    BY Zenon DEF PinsAudited
  <2>1. path \in Path
    BY InspectionAssumption DEF InspectInv, InspectTyped, IsInput
  <2>2. Observed(scan.files, path) = Unpacked(path)
    BY <2>1 DEF InspectInv, Counted
  <2>3. report.pins = PinAudit(input)
    BY DEF InspectInv, Reported, Report
  <2> DEFINE observed == Observed(scan.files, path)
  <2>4. PinAudit(input)[path] =
          IF observed = input.pinned[path] THEN "unchanged"
          ELSE IF observed = Absent THEN "missing" ELSE "changed"
    BY DEF PinAudit
  <2> HIDE DEF observed
  <2>5. observed = Unpacked(path)
    BY <2>2 DEF observed
  <2> QED
    BY <2>3, <2>4, <2>5
<1> QED
  BY <1>1, InspectInvHolds, PTL

-----------------------------------------------------------------------------
(* The version inspected, and the one before it.                            *)

(* A version that is found is one the packument has.                        *)
LEMMA ResolvedIs ==
  ASSUME NEW in, IsInput(in)
  PROVE  Resolved(in) \in Versions(in) \cup {Absent}
<1> DEFINE versions == Versions(in)
           parsed == {v \in versions : in.versions[v].semver # Absent}
           Rank(v) == in.versions[v].semver
           Newest(v) == \A w \in parsed : Rank(w) < Rank(v) \/ (Rank(w) = Rank(v) /\ w <= v)
<1>1. /\ IsFiniteSet(versions) /\ versions \subseteq Nat
      /\ \A v \in parsed : Rank(v) \in Nat
  BY DEF IsInput, Versions, VersionMeta
<1>2. parsed \in SUBSET versions
  OBVIOUS
<1>3. IsFiniteSet(parsed)
  <2> HIDE DEF versions, parsed
  <2> QED
    BY <1>1, <1>2, FS_Subset
<1>4. Resolved(in) =
        IF in.requested # Absent
        THEN IF in.requested \in versions THEN in.requested ELSE Absent
        ELSE IF in.latest \in versions THEN in.latest
        ELSE IF parsed # {} THEN CHOOSE v \in parsed : Newest(v)
        ELSE IF versions # {} THEN Max(versions) ELSE Absent
  BY Zenon DEF Resolved
<1>5. ASSUME parsed # {}
      PROVE  \E v \in parsed : Newest(v)
  <2> DEFINE ranks == {Rank(v) : v \in parsed}
  <2>1. IsFiniteSet(ranks)
    <3> DEFINE rankOf == [v \in parsed |-> Rank(v)]
    <3> HIDE DEF parsed, Rank
    <3>1. rankOf \in Surjection(parsed, ranks)
      BY DEF Surjection
    <3> HIDE DEF rankOf, ranks
    <3> QED
      BY <1>3, <3>1, FS_Surjection
  <2>2. ranks \subseteq Nat /\ ranks # {} /\ \A v \in parsed : Rank(v) \in ranks
    <3> HIDE DEF parsed, Rank
    <3> QED
      BY <1>1, <1>5
  <2> DEFINE top == Max(ranks)
             at == {v \in parsed : Rank(v) = top}
  <2>3. top \in ranks /\ \A r \in ranks : r <= top
    <3> HIDE DEF ranks
    <3> QED
      BY <2>1, <2>2, LargestOf
  <2>4. at # {} /\ at \in SUBSET parsed /\ at \subseteq Nat
    <3> HIDE DEF Rank, top
    <3> QED
      BY <1>1, <2>3
  <2>5. IsFiniteSet(at)
    <3> HIDE DEF at, parsed
    <3> QED
      BY <1>3, <2>4, FS_Subset
  <2> DEFINE v == Max(at)
  <2>6. v \in at /\ \A w \in at : w <= v
    <3> HIDE DEF at
    <3> QED
      BY <2>4, <2>5, LargestOf
  <2> HIDE DEF v, top
  <2>7. v \in parsed /\ Rank(v) = top /\ \A w \in parsed : Rank(w) <= top
    BY <2>2, <2>3, <2>6
  <2>8. Newest(v)
    <3> SUFFICES ASSUME NEW w \in parsed
                 PROVE  Rank(w) < Rank(v) \/ (Rank(w) = Rank(v) /\ w <= v)
      OBVIOUS
    <3>1. Rank(w) \in Nat /\ Rank(w) <= top
      BY <1>1, <2>7
    <3>2. Rank(w) = top => w <= v
      BY <2>6
    <3>3. top \in Nat
      BY <2>2, <2>3
    <3> HIDE DEF Rank
    <3> QED
      BY <2>7, <3>1, <3>2, <3>3
  <2> QED
    BY <2>7, <2>8
<1>6. parsed # {} => (CHOOSE v \in parsed : Newest(v)) \in versions
  <2> HIDE DEF Newest
  <2> QED
    BY <1>5
<1>7. versions # {} => Max(versions) \in versions
  <2> HIDE DEF versions
  <2> QED
    BY <1>1, LargestOf
<1> HIDE DEF Newest
<1>8. Resolved(in) \in versions \cup {Absent}
  <2> DEFINE newest == CHOOSE v \in parsed : Newest(v)
             last == Max(versions)
  <2>1. parsed # {} => newest \in versions
    BY <1>6
  <2>2. versions # {} => last \in versions
    BY <1>7
  <2> HIDE DEF newest, last, parsed, versions
  <2> QED
    BY <1>4, <2>1, <2>2 DEF newest, last
<1> QED
  BY <1>8

(* What previous_version has kept after the versions up to n, where every   *)
(* version has its time: a latest of the earlier ones among them.           *)
LatestUpTo(in, wanted, n, kept) ==
  LET earlier == {v \in Versions(in) :
                    v <= n /\ in.versions[v].time < in.versions[wanted].time}
  IN  IF earlier = {} THEN kept = Absent
      ELSE /\ kept \in earlier
           /\ \A w \in earlier : in.versions[w].time <= in.versions[kept].time

(* One more version is looked at.                                           *)
LEMMA BestIsLatest ==
  ASSUME NEW in, IsInput(in), NEW wanted \in Versions(in),
         \A v \in Versions(in) : in.versions[v].time # Absent,
         NEW n \in Nat, NEW sofar, LatestUpTo(in, wanted, n, sofar)
  PROVE  LatestUpTo(in, wanted, n + 1, BestOf(in, wanted, n + 1, sofar))
<1> DEFINE Time(v) == in.versions[v].time
           upto == {v \in Versions(in) : v <= n /\ Time(v) < Time(wanted)}
           next == {v \in Versions(in) : v <= n + 1 /\ Time(v) < Time(wanted)}
           kept == BestOf(in, wanted, n + 1, sofar)
<1>1. /\ Absent \notin Nat
      /\ \A v \in Versions(in) : v \in Nat /\ Time(v) \in Nat
  BY InspectionAssumption DEF IsInput, Versions, VersionMeta
<1>2. IF upto = {} THEN sofar = Absent
      ELSE sofar \in upto /\ \A w \in upto : Time(w) <= Time(sofar)
  BY Zenon DEF LatestUpTo
<1>3. \A v \in Versions(in) : Earlier(in, v, wanted) <=> Time(v) < Time(wanted)
  <2> SUFFICES ASSUME NEW v \in Versions(in)
               PROVE  Earlier(in, v, wanted) <=> Time(v) < Time(wanted)
    OBVIOUS
  <2>1. Comparable(Time(v), Time(wanted))
    BY DEF Comparable
  <2> QED
    BY <2>1, Zenon DEF Earlier
<1>4. ASSUME NEW v \in Versions(in), NEW best \in Versions(in)
      PROVE  IF Better(in, v, best) THEN Time(best) <= Time(v) ELSE Time(v) <= Time(best)
  <2>1. Comparable(Time(v), Time(best)) /\ Time(v) \in Nat /\ Time(best) \in Nat
    BY <1>1 DEF Comparable
  <2>2. CASE Time(v) = Time(best)
    BY <2>1, <2>2
  <2>3. CASE Time(v) # Time(best)
    <3>1. Better(in, v, best) <=> Time(v) > Time(best)
      BY <2>1, <2>3, Zenon DEF Better
    <3> QED
      BY <2>1, <3>1
  <2> QED
    BY <2>2, <2>3
<1>5. kept = IF /\ n + 1 \in Versions(in) \ {wanted} /\ Earlier(in, n + 1, wanted)
                /\ sofar = Absent \/ Better(in, n + 1, sofar)
             THEN n + 1 ELSE sofar
  BY Zenon DEF BestOf
<1>6. LatestUpTo(in, wanted, n + 1, kept) <=>
        IF next = {} THEN kept = Absent
        ELSE kept \in next /\ \A w \in next : Time(w) <= Time(kept)
  BY Zenon DEF LatestUpTo
<1> HIDE DEF kept
<1>7. \A v \in next : v \in upto \/ v = n + 1
  BY <1>1
<1>8. \A v \in upto : v \in next
  BY <1>1
<1>9. upto \subseteq Versions(in) /\ next \subseteq Versions(in)
  OBVIOUS
<1>10. ASSUME n + 1 \in next
       PROVE  LatestUpTo(in, wanted, n + 1, kept)
  <2>1. n + 1 \in Versions(in) \ {wanted} /\ Earlier(in, n + 1, wanted)
    <3>1. n + 1 \in Versions(in) /\ Time(n + 1) < Time(wanted) /\ Time(wanted) \in Nat
      BY <1>1, <1>10
    <3>2. n + 1 # wanted
      BY <3>1
    <3> QED
      BY <1>3, <3>1, <3>2
  <2>2. CASE upto = {}
    <3>1. kept = n + 1
      BY <1>2, <1>5, <2>1, <2>2
    <3>2. \A w \in next : w = n + 1
      BY <1>7, <2>2
    <3>3. Time(n + 1) <= Time(n + 1)
      BY <1>1, <2>1
    <3> HIDE DEF upto, next, Time
    <3> QED
      BY <1>6, <1>10, <3>1, <3>2, <3>3
  <2>3. CASE upto # {}
    <3>1. sofar \in upto /\ sofar \in Versions(in) /\ \A w \in upto : Time(w) <= Time(sofar)
      BY <1>2, <1>9, <2>3
    <3>2. sofar # Absent
      BY <1>1, <3>1
    <3>3. kept = IF Better(in, n + 1, sofar) THEN n + 1 ELSE sofar
      BY <1>5, <2>1, <3>2
    <3>4. IF Better(in, n + 1, sofar) THEN Time(sofar) <= Time(n + 1)
          ELSE Time(n + 1) <= Time(sofar)
      BY <1>4, <2>1, <3>1
    <3>5. kept \in next
      BY <1>8, <1>10, <3>1, <3>3
    <3>6. ASSUME NEW w \in next
          PROVE  Time(w) <= Time(kept)
      <4>1. Time(w) \in Nat /\ Time(sofar) \in Nat /\ Time(n + 1) \in Nat
        BY <1>1, <1>9, <2>1, <3>1
      <4>2. w = n + 1 \/ Time(w) <= Time(sofar)
        BY <1>7, <3>1
      <4> HIDE DEF Time
      <4> QED
        BY <3>3, <3>4, <4>1, <4>2
    <3> HIDE DEF upto, next, Time
    <3> QED
      BY <1>6, <3>5, <3>6
  <2> QED
    BY <2>2, <2>3
<1>11. ASSUME n + 1 \notin next
       PROVE  LatestUpTo(in, wanted, n + 1, kept)
  <2>1. next = upto
    BY <1>7, <1>8, <1>11
  <2>2. kept = sofar
    <3>1. ~(n + 1 \in Versions(in) /\ Time(n + 1) < Time(wanted))
      BY <1>11
    <3> HIDE DEF Time
    <3> QED
      BY <1>3, <1>5, <3>1
  <2> HIDE DEF upto, next, Time
  <2> QED
    BY <1>2, <1>6, <2>1, <2>2
<1> QED
  BY <1>10, <1>11 DEF kept

(* The version before is the last one published before.                     *)
LEMMA PreviousIs ==
  ASSUME NEW in, IsInput(in), NEW wanted \in Versions(in),
         \A v \in Versions(in) : in.versions[v].time # Absent
  PROVE  LatestUpTo(in, wanted, Max({0} \cup Versions(in)), Previous(in, wanted))
<1> DEFINE last == Max({0} \cup Versions(in))
           Rest(g) == [v \in 0..last |->
                         IF v = 0 THEN Absent ELSE BestOf(in, wanted, v, g[v - 1])]
           best == CHOOSE g : g = Rest(g)
           S == Versions(in) \cup {Absent}
           step == [v \in 1..last |-> [sofar \in S |-> BestOf(in, wanted, v, sofar)]]
<1>1. Previous(in, wanted) = best[last]
  BY DEF Previous
<1>2. last \in Nat
  <2>1. {0} \cup Versions(in) \subseteq Nat /\ IsFiniteSet(Versions(in))
    BY DEF IsInput, Versions
  <2>2. IsFiniteSet({0} \cup Versions(in))
    BY <2>1, FS_Singleton, FS_Union
  <2>3. {0} \cup Versions(in) # {}
    OBVIOUS
  <2>4. last \in {0} \cup Versions(in)
    BY <2>1, <2>2, <2>3, LargestOf
  <2> QED
    BY <2>1, <2>4
<1> HIDE DEF last
<1>3. \A v \in 1..last : \A sofar \in S : BestOf(in, wanted, v, sofar) \in S
  BY DEF BestOf
<1>4. step \in [1..last -> [S -> S]]
  <2> HIDE DEF S
  <2> QED
    BY <1>3
<1>5. PICK g : Computes(g, last, S, Absent, step)
  <2>1. Absent \in S
    OBVIOUS
  <2> HIDE DEF step, S
  <2> QED
    BY <1>2, <1>4, <2>1, Recursion
<1>6. g \in [0..last -> S] /\ g[0] = Absent
  BY <1>5 DEF Computes
<1>7. \A v \in 1..last : g[v] = BestOf(in, wanted, v, g[v - 1])
  <2> SUFFICES ASSUME NEW v \in 1..last
               PROVE  g[v] = BestOf(in, wanted, v, g[v - 1])
    OBVIOUS
  <2> HIDE DEF S, step
  <2>1. g[v] = step[v][g[v - 1]]
    BY <1>5 DEF Computes
  <2>2. v - 1 \in 0..last
    BY <1>2
  <2>3. g[v - 1] \in S
    BY <1>6, <2>2
  <2> USE DEF step
  <2> QED
    BY <2>1, <2>3
<1> HIDE DEF step, S
<1>8. g = Rest(g)
  BY <1>2, <1>6, <1>7
<1>9. best = Rest(best)
  <2> HIDE DEF Rest
  <2> QED
    BY <1>8, Zenon
<1> HIDE DEF best
<1>10. best[0] = Absent /\ \A v \in 1..last : best[v] = BestOf(in, wanted, v, best[v - 1])
  BY <1>2, <1>9
<1> DEFINE T == {v \in 0..last : LatestUpTo(in, wanted, v, best[v])}
<1>11. 0 \in T
  <2>1. 0 \in 0..last
    BY <1>2
  <2>2. \A v \in Versions(in) : ~(v <= 0)
    BY DEF IsInput, Versions
  <2>3. {v \in Versions(in) : v <= 0 /\ in.versions[v].time < in.versions[wanted].time} = {}
    BY <2>2
  <2>4. LatestUpTo(in, wanted, 0, best[0])
    BY <1>10, <2>3, Zenon DEF LatestUpTo
  <2> QED
    BY <2>1, <2>4
<1>12. ASSUME NEW k \in 0..last, k < last, k \in T
       PROVE  k + 1 \in T
  <2>1. k \in Nat /\ k + 1 \in 1..last /\ k + 1 \in 0..last /\ (k + 1) - 1 = k
    BY <1>2, <1>12
  <2>2. best[k + 1] = BestOf(in, wanted, k + 1, best[k])
    BY <1>10, <2>1
  <2>3. LatestUpTo(in, wanted, k, best[k])
    BY <1>12
  <2>4. LatestUpTo(in, wanted, k + 1, best[k + 1])
    BY <2>1, <2>2, <2>3, BestIsLatest
  <2> QED
    BY <2>1, <2>4
<1>13. \A k \in 0..last : k \in T
  <2> HIDE DEF T
  <2> QED
    BY <1>2, <1>11, <1>12, UpTo, Zenon
<1>14. last \in 0..last
  BY <1>2
<1>15. LatestUpTo(in, wanted, last, best[last])
  BY <1>13, <1>14
<1> QED
  BY <1>1, <1>15 DEF last

(* No inspection keeps quiet about what an install would run that the       *)
(* packument or the version before does not show (build_report,             *)
(* previous_version, script_delta).                                         *)
THEOREM ReportsWarn == InspectSpec => []ReportWarns
<1> DEFINE last(wanted) ==
             {v \in Before(wanted) : \A w \in Before(wanted) :
                input.versions[w].time <= input.versions[v].time}
           timed == \A v \in Versions(input) : input.versions[v].time # Absent
<1>1. InspectInv => ReportWarns
  <2> SUFFICES ASSUME InspectInv, report # Absent
               PROVE  LET wanted == report.version
                      IN  /\ scan.manifest = 0 => "no_manifest" \in report.notes
                          /\ TarballHooks # HooksOf(input, wanted) =>
                               report.notes \cap {"differs", "no_manifest"} # {}
                          /\ timed /\ last(wanted) # {} =>
                               /\ report.previous \in last(wanted)
                               /\ (/\ TarballHooks # NoHooks
                                   /\ \A v \in last(wanted) : HooksOf(input, v) = NoHooks) =>
                                    "newly_acquired" \in report.notes
    BY Zenon DEF ReportWarns
  <2> DEFINE wanted == Inspected
             previous == Previous(input, wanted)
  <2>1. /\ report.version = wanted /\ report.previous = previous
        /\ report.notes = Notes(input, wanted)
    BY DEF InspectInv, Reported, Report
  <2>2. IsInput(input) /\ wanted \in Versions(input)
    <3>1. IsInput(input) /\ wanted # Absent
      BY InspectionAssumption DEF InspectInv, InspectTyped, Reported
    <3> QED
      BY <3>1, ResolvedIs DEF Inspected
  <2> HIDE DEF wanted
  <2>3. /\ "no_manifest" \in Notes(input, wanted) <=> scan.manifest = 0
        /\ "differs" \in Notes(input, wanted) <=>
             scan.manifest # 0 /\ TarballHooks # HooksOf(input, wanted)
        /\ "newly_acquired" \in Notes(input, wanted) <=>
             ScriptDelta(input, wanted) = "newly_acquired"
    BY DEF Notes
  <2>4. ASSUME timed, last(wanted) # {}
        PROVE  previous \in last(wanted)
    <3> DEFINE all == Max({0} \cup Versions(input))
               earlier == {v \in Versions(input) :
                             v <= all /\ input.versions[v].time < input.versions[wanted].time}
    <3>1. IF earlier = {} THEN previous = Absent
          ELSE /\ previous \in earlier
               /\ \A w \in earlier : input.versions[w].time <= input.versions[previous].time
      <4>1. LatestUpTo(input, wanted, all, previous)
        BY <2>2, <2>4, PreviousIs
      <4> QED
        BY <4>1, Zenon DEF LatestUpTo
    <3>2. \A v \in Versions(input) : v <= all
      <4> DEFINE versions == {0} \cup Versions(input)
      <4>1. versions \subseteq Nat /\ IsFiniteSet(Versions(input)) /\ versions # {}
        BY <2>2 DEF IsInput, Versions
      <4>2. IsFiniteSet(versions)
        BY <4>1, FS_Singleton, FS_Union
      <4>3. \A v \in Versions(input) : v \in versions
        OBVIOUS
      <4> HIDE DEF versions
      <4>4. \A v \in versions : v <= Max(versions)
        BY <4>1, <4>2, LargestOf
      <4> QED
        BY <4>3, <4>4 DEF versions
    <3> HIDE DEF all
    <3>3. earlier = Before(wanted)
      BY <3>2 DEF Before
    <3> HIDE DEF earlier
    <3> QED
      BY <2>4, <3>1, <3>3
  <2>5. ASSUME timed, last(wanted) # {}, TarballHooks # NoHooks,
               \A v \in last(wanted) : HooksOf(input, v) = NoHooks
        PROVE  ScriptDelta(input, wanted) = "newly_acquired"
    <3>1. previous \in last(wanted)
      BY <2>4, <2>5
    <3>2. previous \in Versions(input) /\ HooksOf(input, previous) = NoHooks
      BY <2>5, <3>1 DEF Before
    <3>3. previous # Absent
      BY <2>2, <3>2, InspectionAssumption DEF IsInput, Versions
    <3>4. ScriptDelta(input, wanted) = Delta(HooksOf(input, previous), TarballHooks)
      BY <3>3, Zenon DEF ScriptDelta, DeltaNow
    <3> QED
      BY <2>5, <3>2, <3>4 DEF Delta
  <2> HIDE DEF last, timed, previous
  <2> QED
    BY <2>1, <2>3, <2>4, <2>5
<1> QED
  BY <1>1, InspectInvHolds, PTL
=============================================================================
