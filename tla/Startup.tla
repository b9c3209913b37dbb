------------------------------ MODULE Startup ------------------------------
(***************************************************************************)
(* Daemons starting, dying and being restarted (src/proxy/mod.rs,           *)
(* serve_blocking; src/control/server.rs, bind and Drop): each opens and    *)
(* migrates the state database, binds the registry's TCP address, then      *)
(* takes the control socket's path, and only then serves.  The path is a    *)
(* file: it outlives a daemon that is killed, and looking at it, probing    *)
(* it, unlinking it and binding it are separate system calls.               *)
(*                                                                          *)
(* The service manager restarts what ended (packaging/systemd).  SIGTERM    *)
(* has no handler in the program, so a stop is a kill like any other; the   *)
(* only ending that runs Drop is one of the two servers failing.            *)
(***************************************************************************)
EXTENDS Migration

CONSTANTS
  Address,   \* the addresses a daemon may be configured to listen on
  None,      \* no daemon
  MaxDeaths  \* bound: how many endings of a daemon are explored

ASSUME StartupAssumption == None \notin Process /\ MaxDeaths \in Nat

VARIABLES
  listen,    \* Process -> the configured address
  stage,     \* Process -> how far serve_blocking has come
  port,      \* Address -> the daemon that has bound it
  node,      \* the daemon whose socket the path names, dead ones included
  listening, \* the daemons whose control socket accepts connections
  deaths

socketVars == <<port, node, listening>>
migrateVars == <<version, columns, seen, pc>>
allVars == <<version, columns, seen, pc, listen, stage, port, node, listening, deaths>>

StartInit ==
  /\ Init
  /\ listen \in [Process -> Address]
  /\ stage = [p \in Process |-> "down"]
  /\ port = [a \in Address |-> None]
  /\ node \in {None} \cup Process  \* left by an earlier life
  /\ listening = {}
  /\ deaths = 0

Moves(p, from, to) == stage[p] = from /\ stage' = [stage EXCEPT ![p] = to]

(* What the kernel takes back when a process ends; the path stays.          *)
Ends(p) ==
  /\ stage' = [stage EXCEPT ![p] = "down"]
  /\ pc' = [pc EXCEPT ![p] = "closed"]
  /\ port' = [a \in Address |-> IF port[a] = p THEN None ELSE port[a]]
  /\ listening' = listening \ {p}
  /\ UNCHANGED <<version, columns, seen, listen, node>>

Start(p) ==
  /\ Moves(p, "down", "opening")
  /\ UNCHANGED <<migrateVars, socketVars, listen, deaths>>

(* config.open_store, before the runtime exists.                            *)
OpenStore(p) ==
  /\ stage[p] = "opening"
  /\ Opens(p)
  /\ UNCHANGED <<socketVars, listen, stage, deaths>>

OpenFails(p) ==
  /\ stage[p] = "opening" /\ pc[p] \in {"refused", "failed"}
  /\ Ends(p)
  /\ UNCHANGED deaths

BindPort(p) ==
  /\ pc[p] = "open" /\ port[listen[p]] = None
  /\ Moves(p, "opening", "path")
  /\ port' = [port EXCEPT ![listen[p]] = p]
  /\ UNCHANGED <<migrateVars, listen, node, listening, deaths>>

PortTaken(p) ==
  /\ stage[p] = "opening" /\ pc[p] = "open" /\ port[listen[p]] # None
  /\ Ends(p)
  /\ UNCHANGED deaths

(* path.exists(), with the directory made if it was not there.              *)
LookAtPath(p) ==
  /\ Moves(p, "path", IF node = None THEN "bind" ELSE "probe")
  /\ UNCHANGED <<migrateVars, socketVars, listen, deaths>>

\* mutant: whatever is at the path is unlinked
AnswersNever(q) == FALSE

\* mutant: a path that is there is taken for a daemon that is running
AnswersIfThere(q) == q # None

(* UnixStream::connect: only a listening socket answers.                    *)
Answers(q) == q \in listening

ProbePath(p) ==
  /\ ~Answers(node)
  /\ Moves(p, "probe", "unlink")
  /\ UNCHANGED <<migrateVars, socketVars, listen, deaths>>

ProbeAnswered(p) ==
  /\ stage[p] = "probe" /\ Answers(node)
  /\ Ends(p)
  /\ UNCHANGED deaths

(* remove_file takes whatever the path names by now.                        *)
UnlinkPath(p) ==
  /\ node # None
  /\ Moves(p, "unlink", "bind")
  /\ node' = None
  /\ UNCHANGED <<migrateVars, port, listening, listen, deaths>>

UnlinkFails(p) ==
  /\ stage[p] = "unlink" /\ node = None
  /\ Ends(p)
  /\ UNCHANGED deaths

(* UnixListener::bind is bind, which makes the node, and then listen.       *)
BindPath(p) ==
  /\ node = None
  /\ Moves(p, "bind", "listen")
  /\ node' = p
  /\ UNCHANGED <<migrateVars, port, listening, listen, deaths>>

BindFails(p) ==
  /\ stage[p] = "bind" /\ node # None
  /\ Ends(p)
  /\ UNCHANGED deaths

ListenOnPath(p) ==
  /\ Moves(p, "listen", "restrict")
  /\ listening' = listening \cup {p}
  /\ UNCHANGED <<migrateVars, port, node, listen, deaths>>

(* restrict: the mode is set through the path, of whatever it names.        *)
RestrictPath(p) ==
  /\ node # None
  /\ Moves(p, "restrict", "serving")
  /\ UNCHANGED <<migrateVars, socketVars, listen, deaths>>

(* There is no ControlListener yet, so nothing unlinks.                     *)
RestrictFails(p) ==
  /\ stage[p] = "restrict" /\ node = None
  /\ Ends(p)
  /\ UNCHANGED deaths

(* One of the servers ends.  The proxy's end gives the port back first and  *)
(* drops the ControlListener after it; the control server's the other way.  *)
ServerFails(p) ==
  /\ deaths < MaxDeaths
  /\ deaths' = deaths + 1
  /\ \/ /\ Moves(p, "serving", "dropping")
        /\ port' = [port EXCEPT ![listen[p]] = None]
     \/ /\ Moves(p, "serving", "dropping")
        /\ UNCHANGED port
  /\ UNCHANGED <<migrateVars, node, listening, listen>>

(* Drop for ControlListener unlinks the path, whoever's it is by then; the  *)
(* listener itself is closed after that.                                    *)
DropListener(p) ==
  /\ Moves(p, "dropping", "ending")
  /\ node' = None
  /\ UNCHANGED <<migrateVars, port, listening, listen, deaths>>

Exit(p) ==
  /\ stage[p] = "ending"
  /\ Ends(p)
  /\ UNCHANGED deaths

Kill(p) ==
  /\ deaths < MaxDeaths
  /\ stage[p] # "down"
  /\ deaths' = deaths + 1
  /\ Ends(p)

RecordInLedger(rel) ==
  /\ \E p \in Process : stage[p] = "serving"
  /\ Record(rel)
  /\ UNCHANGED <<socketVars, listen, stage, deaths>>

Step(p) ==
  \/ Start(p) \/ OpenStore(p) \/ OpenFails(p) \/ BindPort(p) \/ PortTaken(p)
  \/ LookAtPath(p) \/ ProbePath(p) \/ ProbeAnswered(p)
  \/ UnlinkPath(p) \/ UnlinkFails(p) \/ BindPath(p) \/ BindFails(p)
  \/ ListenOnPath(p) \/ RestrictPath(p) \/ RestrictFails(p)
  \/ DropListener(p) \/ Exit(p)

StartNext ==
  \/ \E p \in Process : Step(p) \/ ServerFails(p) \/ Kill(p)
  \/ \E rel \in Release : RecordInLedger(rel)

(* Every process that can run does: the kernel schedules it, no statement   *)
(* waits for another process, and what ended is restarted (Restart=always). *)
StartSpec ==
  /\ StartInit /\ [][StartNext]_allVars
  /\ \A p \in Process : WF_allVars(Step(p))

-----------------------------------------------------------------------------

Serving(p) == stage[p] = "serving"

OneAddress == \A p, q \in Process : listen[p] = listen[q]

StartTypeOK ==
  /\ TypeOK
  /\ listen \in [Process -> Address]
  /\ stage \in [Process -> {"down", "opening", "path", "probe", "unlink", "bind",
                            "listen", "restrict", "serving", "dropping", "ending"}]
  /\ port \in [Address -> {None} \cup Process]
  /\ node \in {None} \cup Process
  /\ listening \subseteq Process
  /\ deaths \in 0..MaxDeaths

(* The approval surface is never split in two: the daemon that answers the  *)
(* registry's port is the one that answers at the control path, and nobody  *)
(* else serves.  It is the port, bound first, that keeps two daemons off    *)
(* the path: with different addresses and one path it does not hold.        *)
SurfaceWhole ==
  OneAddress =>
    \A p \in Process : Serving(p) =>
      /\ node = p /\ p \in listening
      /\ \A q \in Process \ {p} : ~Serving(q)

(* Whatever a death leaves behind, a half-migrated file or a dead socket at *)
(* the path, restarting brings a daemon up that stays, with no operator.    *)
ComesUp ==
  (OneAddress /\ version <= Supported) => <>[](\E p \in Process : Serving(p))
=============================================================================
