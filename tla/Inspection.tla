----------------------------- MODULE Inspection -----------------------------
(***************************************************************************)
(* npmfilter_inspect (src/mcp/inspect.rs, ControlService::inspect): the     *)
(* packument names a tarball, a task pumps the download chunk by chunk      *)
(* through a bounded channel into a scan on the blocking pool, and the scan *)
(* becomes a report.  The scan stops at the first limit, the download when  *)
(* nobody reads it, and the command may be dropped while both run.          *)
(*                                                                          *)
(* Abstractions.  A chunk carries one block of the archive: an entry, its   *)
(* header and its content, more of a content (never of a package.json's),   *)
(* or the end.  A path is the sequence of its components.  A version is a   *)
(* number, and numbers are in the order of the names; the hooks a manifest  *)
(* declares are one value.                                                  *)
(***************************************************************************)
EXTENDS Naturals, Sequences, FiniteSets, FiniteSetsExt

CONSTANTS
  Inputs,         \* what inspections are asked about, see Input
  Content,        \* the contents a file may have
  Hooks,          \* what a manifest may declare, NoHooks included
  NoHooks,
  Manifest,       \* content -> the hooks it declares as a package.json, or Invalid
  Invalid,
  Absent,         \* no such value
  Capacity,       \* chunks the channel holds
  MaxCompressed,  \* the limits, in chunks,
  MaxUnpacked,    \* in units of size,
  MaxEntries,     \* in entries
  MaxManifest     \* and in the size of a package.json

(* A name has at least one component.                                       *)
Path == Seq(STRING) \ {<<>>}

(* `size` is the content a block carries.                                   *)
Block ==
  [kind : {"entry", "more", "end", "corrupt"}, file : BOOLEAN, path : Path,
   content : Content \cup {Absent}, size : Nat]

(* What the packument says of a version.                                    *)
VersionMeta ==
  [semver : Nat \cup {Absent}, time : Nat \cup {Absent}, hooks : Hooks,
   integrity : BOOLEAN, tarball : BOOLEAN]

(* A packument, the version asked for, the wire, and the pins of the latest *)
(* approval of another version that named files.                            *)
IsInput(in) ==
  /\ IsFiniteSet(DOMAIN in.versions)
  /\ \A v \in DOMAIN in.versions : v \in Nat \ {0} /\ in.versions[v] \in VersionMeta
  /\ in.latest \in Nat \cup {Absent} /\ in.requested \in Nat \cup {Absent}
  /\ in.wire \in Seq(Block)
  /\ \A i \in DOMAIN in.wire : in.wire[i].kind = "end" => in.wire[i].size = 0
  /\ \A path \in DOMAIN in.pinned : path \in Path /\ in.pinned[path] \in Content

ASSUME InspectionAssumption ==
  /\ \A in \in Inputs : IsInput(in)
  /\ Manifest \in [Content -> Hooks \cup {Invalid}]
  /\ NoHooks \in Hooks /\ Invalid \notin Hooks
  /\ Absent \notin Nat /\ Absent \notin Content
  /\ Capacity \in Nat \ {0}
  /\ {MaxCompressed, MaxUnpacked, MaxEntries, MaxManifest} \subseteq Nat

VARIABLES
  input,   \* the input of this inspection
  handler, \* where the command is
  pump,    \* the task that downloads: "idle", "reading", "sending" or "done"
  fetched, \* how many blocks it has from upstream
  hand,    \* the message it is about to send, a block's number or Broken
  queue,   \* the channel
  scan,    \* the scan on the blocking pool
  report   \* what the command answers, Absent until it does

inspectVars == <<input, handler, pump, fetched, hand, queue, scan, report>>

Broken == 0

Unstarted ==
  [result |-> "none", read |-> 0, compressed |-> 0, unpacked |-> 0, entries |-> 0,
   manifest |-> 0, files |-> <<>>]

InspectInit ==
  /\ input \in Inputs
  /\ handler = "resolving"
  /\ pump = "idle" /\ fetched = 0 /\ hand = Broken /\ queue = <<>>
  /\ scan = Unstarted
  /\ report = Absent

-----------------------------------------------------------------------------
(* Which version, and which one came before it.                             *)

Versions(in) == DOMAIN in.versions

(* resolve_version: Absent is an error.                                     *)
Resolved(in) ==
  LET versions == Versions(in)
      parsed == {v \in versions : in.versions[v].semver # Absent}
      Rank(v) == in.versions[v].semver
  IN  IF in.requested # Absent
      THEN IF in.requested \in versions THEN in.requested ELSE Absent
      ELSE IF in.latest \in versions THEN in.latest
      ELSE IF parsed # {}
      THEN CHOOSE v \in parsed : \A w \in parsed :
             Rank(w) < Rank(v) \/ (Rank(w) = Rank(v) /\ w <= v)
      ELSE IF versions # {} THEN Max(versions) ELSE Absent

Comparable(x, y) == x # Absent /\ y # Absent

(* Before by publish time if both have one, by semver if both parse, else   *)
(* by name.                                                                 *)
Earlier(in, v, w) ==
  LET a == in.versions[v]
      b == in.versions[w]
  IN  IF Comparable(a.time, b.time) THEN a.time < b.time
      ELSE IF Comparable(a.semver, b.semver) THEN a.semver < b.semver
      ELSE v < w

\* mutant: of two earlier versions the first published is kept
BetterFirst(in, v, best) == Earlier(in, v, best)

(* The same order, where an equal time or semver decides nothing.           *)
Better(in, v, best) ==
  LET a == in.versions[v]
      b == in.versions[best]
  IN  IF Comparable(a.time, b.time) /\ a.time # b.time THEN a.time > b.time
      ELSE IF Comparable(a.semver, b.semver) /\ a.semver # b.semver THEN a.semver > b.semver
      ELSE v > best

(* The better of v and the best of the versions before it.                  *)
BestOf(in, version, v, sofar) ==
  IF /\ v \in Versions(in) \ {version} /\ Earlier(in, v, version)
     /\ sofar = Absent \/ Better(in, v, sofar)
  THEN v ELSE sofar

(* previous_version, over the versions in the order of their names.         *)
Previous(in, version) ==
  LET last == Max({0} \cup Versions(in))
      best[v \in 0..last] == IF v = 0 THEN Absent ELSE BestOf(in, version, v, best[v - 1])
  IN  best[last]

-----------------------------------------------------------------------------
(* The scan: one block of the archive after another.                        *)

Wire(i) == input.wire[i]

IsRootManifest(path) == Len(path) = 2 /\ path[2] = "package.json"

\* mutant: a pin names the file with the archive's root
RelativeToArchive(path) == path

(* package_relative: whatever the root is called.                           *)
Relative(path) == IF Len(path) > 1 THEN Tail(path) ELSE path

(* The first package.json at the root is the one that is parsed.            *)
Parses(s, b) ==
  b.kind = "entry" /\ b.file /\ s.manifest = 0 /\ IsRootManifest(b.path)

Header(b) == IF b.kind = "more" THEN 0 ELSE 1

(* What may stop the scan at a block, in the order it is noticed: the wire, *)
(* the header, the entry, its content.                                      *)
Stops(s, b) ==
  << [if |-> s.compressed + 1 > MaxCompressed, as |-> "compressed_limit"],
     [if |-> b.kind = "corrupt", as |-> "read"],
     [if |-> s.unpacked + Header(b) > MaxUnpacked, as |-> "unpacked_limit"],
     [if |-> b.kind = "end", as |-> "ok"],
     [if |-> b.kind = "entry" /\ s.entries + 1 > MaxEntries, as |-> "entry_limit"],
     [if |-> Parses(s, b) /\ b.size > MaxManifest, as |-> "manifest_limit"],
     [if |-> s.unpacked + Header(b) + b.size > MaxUnpacked, as |-> "unpacked_limit"],
     [if |-> Parses(s, b) /\ Manifest[b.content] = Invalid, as |-> "manifest"] >>

Stop(s, b) ==
  LET stops == Stops(s, b)
      met == {i \in DOMAIN stops : stops[i].if}
  IN  IF met = {} THEN "none" ELSE stops[Min(met)].as

Scanned(s, i) ==
  LET b == Wire(i)
  IN  [s EXCEPT !.result = Stop(s, b), !.read = i,
                !.compressed = @ + 1, !.unpacked = @ + Header(b) + b.size,
                !.entries = IF b.kind = "entry" THEN @ + 1 ELSE @,
                !.manifest = IF Parses(s, b) THEN i ELSE @,
                !.files = IF b.kind = "entry" /\ b.file
                          THEN Append(@, [path |-> Relative(b.path), content |-> b.content])
                          ELSE @]

Scanning == pump # "idle" /\ scan.result = "none"

ScanBlock ==
  /\ Scanning /\ queue # <<>> /\ Head(queue) # Broken
  /\ scan' = Scanned(scan, Head(queue))
  /\ queue' = Tail(queue)
  /\ UNCHANGED <<input, handler, pump, fetched, hand, report>>

(* The download failed: the pump's message, or the archive cut short.       *)
ScanBroken ==
  /\ Scanning /\ queue # <<>> /\ Head(queue) = Broken
  /\ scan' = [scan EXCEPT !.result = "read"]
  /\ queue' = Tail(queue)
  /\ UNCHANGED <<input, handler, pump, fetched, hand, report>>

\* mutant: a download that ends is an archive that ends
AtEofOk == "ok"

(* The channel is closed and empty: gzip misses the rest of the stream.     *)
AtEof == "read"

ScanEof ==
  /\ Scanning /\ queue = <<>> /\ pump = "done"
  /\ scan' = [scan EXCEPT !.result = AtEof]
  /\ UNCHANGED <<input, handler, pump, fetched, hand, queue, report>>

-----------------------------------------------------------------------------
(* The pump.                                                                *)

PumpReads ==
  /\ pump = "reading" /\ fetched < Len(input.wire)
  /\ pump' = "sending" /\ fetched' = fetched + 1 /\ hand' = fetched'
  /\ UNCHANGED <<input, handler, queue, scan, report>>

PumpEof ==
  /\ pump = "reading" /\ fetched = Len(input.wire)
  /\ pump' = "done"
  /\ UNCHANGED <<input, handler, fetched, hand, queue, scan, report>>

(* The connection breaks, or the client's timeout passes.                   *)
PumpBreaks ==
  /\ pump = "reading"
  /\ pump' = "sending" /\ hand' = Broken
  /\ UNCHANGED <<input, handler, fetched, queue, scan, report>>

\* mutant: the end of the scan does not close the channel
ReceiverOpenAlways == TRUE

(* The scan owns the receiver and drops it with its own end.                *)
ReceiverOpen == scan.result = "none"

PumpSends ==
  /\ pump = "sending" /\ ReceiverOpen /\ Len(queue) < Capacity
  /\ queue' = Append(queue, hand)
  /\ pump' = IF hand = Broken THEN "done" ELSE "reading"
  /\ UNCHANGED <<input, handler, fetched, hand, scan, report>>

PumpGivesUp ==
  /\ pump = "sending" /\ ~ReceiverOpen
  /\ pump' = "done"
  /\ UNCHANGED <<input, handler, fetched, hand, queue, scan, report>>

-----------------------------------------------------------------------------
(* The command: inspect, fetch_and_scan and build_report.                   *)

HooksOf(in, version) == in.versions[version].hooks

(* script_delta, over the set of hooks as one.                              *)
Delta(before, after) ==
  IF before = after THEN "same"
  ELSE IF before = NoHooks THEN "newly_acquired"
  ELSE IF after = NoHooks THEN "removed" ELSE "changed"

TarballHooks == IF scan.manifest = 0 THEN NoHooks ELSE Manifest[Wire(scan.manifest).content]

\* mutant: the hooks of the packument are compared with the version before
DeltaNowOfPackument(in, version) == HooksOf(in, version)

DeltaNow(in, version) == TarballHooks

ScriptDelta(in, version) ==
  LET previous == Previous(in, version)
  IN  IF previous = Absent THEN "not_compared"
      ELSE Delta(HooksOf(in, previous), DeltaNow(in, version))

Notes(in, version) ==
  {note \in {"no_manifest", "differs", "no_integrity", "newly_acquired"} :
     CASE note = "no_manifest" -> scan.manifest = 0
       [] note = "differs" -> scan.manifest # 0 /\ TarballHooks # HooksOf(in, version)
       [] note = "no_integrity" -> ~in.versions[version].integrity
       [] note = "newly_acquired" -> ScriptDelta(in, version) = "newly_acquired"}

\* mutant: of two entries of one path the first counts
ObservedFirst(files, path) ==
  LET at == {i \in DOMAIN files : files[i].path = path}
  IN  IF at = {} THEN Absent ELSE files[Min(at)].content

(* The files by path: a later entry of a path replaces an earlier one.      *)
Observed(files, path) ==
  LET at == {i \in DOMAIN files : files[i].path = path}
  IN  IF at = {} THEN Absent ELSE files[Max(at)].content

(* pin_audit.                                                               *)
PinAudit(in) ==
  [path \in DOMAIN in.pinned |->
     LET observed == Observed(scan.files, path)
     IN  IF observed = in.pinned[path] THEN "unchanged"
         ELSE IF observed = Absent THEN "missing" ELSE "changed"]

Report(in, version) ==
  [version |-> version, previous |-> Previous(in, version),
   delta |-> ScriptDelta(in, version), notes |-> Notes(in, version),
   pins |-> PinAudit(in)]

Inspected == Resolved(input)

(* The version and its tarball, then the request for it.                    *)
StartScan ==
  /\ handler = "resolving"
  /\ Inspected # Absent /\ input.versions[Inspected].tarball
  /\ handler' = "scanning" /\ pump' = "reading"
  /\ UNCHANGED <<input, fetched, hand, queue, scan, report>>

(* No such version, no tarball, or upstream does not deliver.               *)
NotInspected ==
  /\ handler = "resolving"
  /\ handler' = "failed"
  /\ UNCHANGED <<input, pump, fetched, hand, queue, scan, report>>

(* The scan ends: the pump is aborted whatever came of it.                  *)
Finish ==
  /\ handler = "scanning" /\ scan.result # "none"
  /\ pump' = "done"
  /\ IF scan.result = "ok"
     THEN handler' = "answered" /\ report' = Report(input, Inspected)
     ELSE handler' = "failed" /\ UNCHANGED report
  /\ UNCHANGED <<input, fetched, hand, queue, scan>>

(* CONNECTION_TIMEOUT drops the command: the pump is detached, not aborted, *)
(* and the scan is on the blocking pool.                                    *)
Dropped ==
  /\ handler \in {"resolving", "scanning"}
  /\ handler' = "gone"
  /\ UNCHANGED <<input, pump, fetched, hand, queue, scan, report>>

-----------------------------------------------------------------------------

Scan == ScanBlock \/ ScanBroken \/ ScanEof

Pump == PumpReads \/ PumpEof \/ PumpBreaks \/ PumpSends \/ PumpGivesUp

Command == StartScan \/ NotInspected \/ Finish

InspectNext == Scan \/ Pump \/ Command \/ Dropped

(* The pool runs the scan, the runtime the pump, whose every chunk comes or *)
(* fails within the HTTP client's timeout.                                  *)
InspectFairness ==
  WF_inspectVars(Scan) /\ WF_inspectVars(Pump) /\ WF_inspectVars(Command)

InspectSpec == InspectInit /\ [][InspectNext]_inspectVars /\ InspectFairness

-----------------------------------------------------------------------------

InspectTypeOK ==
  /\ IsInput(input)
  /\ handler \in {"resolving", "scanning", "answered", "failed", "gone"}
  /\ pump \in {"idle", "reading", "sending", "done"}
  /\ fetched \in 0..Len(input.wire) /\ hand \in 0..fetched
  /\ Len(queue) <= Capacity /\ \A i \in DOMAIN queue : queue[i] \in 0..fetched
  /\ scan.read \in 0..fetched

(* The blocks the scan has read, and what it should have counted in them.   *)
Read == 1..scan.read

EntriesRead == {i \in Read : Wire(i).kind = "entry"}

FilesRead == {i \in EntriesRead : Wire(i).file}

UnpackedTo(n) ==
  LET sum[i \in 0..Len(input.wire)] ==
        IF i = 0 THEN 0 ELSE sum[i - 1] + Header(Wire(i)) + Wire(i).size
  IN  sum[n]

(* What a scan says is true of the archive.  If it succeeds, it has read    *)
(* the archive to its end, within every limit, and lists each of its files; *)
(* a limit it names is one the archive passes; a failed download, or one    *)
(* cut short, is neither a shorter archive nor an offence of the archive's. *)
ScanFaithful ==
  /\ scan.result = "ok" =>
       /\ scan.read > 0
       /\ \A i \in Read : Wire(i).kind \in IF i = scan.read THEN {"end"} ELSE {"entry", "more"}
       /\ scan.read <= MaxCompressed /\ UnpackedTo(scan.read) <= MaxUnpacked
       /\ Cardinality(EntriesRead) <= MaxEntries
       /\ Len(scan.files) = Cardinality(FilesRead)
       /\ \A i \in FilesRead :
            scan.files[Cardinality(FilesRead \cap 1..i)].content = Wire(i).content
  /\ scan.result = "compressed_limit" => scan.read > MaxCompressed
  /\ scan.result = "unpacked_limit" => UnpackedTo(scan.read) > MaxUnpacked
  /\ scan.result = "entry_limit" => Cardinality(EntriesRead) > MaxEntries
  /\ scan.result = "read" => \A i \in Read : Wire(i).kind # "end"

(* Nothing outlives its use: whether the command is answered, fails or is   *)
(* dropped, the scan ends and the download with it.                         *)
ScanEnds ==
  [](pump # "idle" =>
       <>(pump = "done" /\ scan.result # "none" /\ handler # "scanning"))

(* The versions published before this one, by the registry's times.         *)
Before(version) ==
  {v \in Versions(input) : input.versions[v].time < input.versions[version].time}

(* The alarms of a report are raised by what an install would run, not by   *)
(* what the packument says it would: hooks the version before did not have, *)
(* hooks the packument does not show, a manifest that is not there.  And    *)
(* the version before is the last one published before, where every version *)
(* has its time.                                                            *)
ReportWarns ==
  report # Absent =>
    LET version == report.version
        timed == \A v \in Versions(input) : input.versions[v].time # Absent
        last == {v \in Before(version) : \A w \in Before(version) :
                   input.versions[w].time <= input.versions[v].time}
    IN  /\ scan.manifest = 0 => "no_manifest" \in report.notes
        /\ TarballHooks # HooksOf(input, version) =>
             report.notes \cap {"differs", "no_manifest"} # {}
        /\ timed /\ last # {} =>
             /\ report.previous \in last
             /\ (TarballHooks # NoHooks /\ \A v \in last : HooksOf(input, v) = NoHooks) =>
                  "newly_acquired" \in report.notes

(* What unpacking the archive leaves at a path: its last entry, under the   *)
(* root's name, whatever it is, or under none.                              *)
Unpacked(path) ==
  LET at == {i \in FilesRead : \/ Tail(Wire(i).path) = path
                               \/ Len(path) = 1 /\ Wire(i).path = path}
  IN  IF at = {} THEN Absent ELSE Wire(Max(at)).content

(* A pinned file is reported as it was approved only if an install gets     *)
(* these very bytes, and as changed or missing only if it does not.         *)
PinsAudited ==
  report # Absent =>
    \A path \in DOMAIN input.pinned :
      report.pins[path] = "unchanged" <=> Unpacked(path) = input.pinned[path]
=============================================================================
