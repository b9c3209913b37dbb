# npmfilter: verification project

npmfilter is a filtering proxy for the npm registry. A client asks it for a
package's metadata (a packument); it fetches the document from upstream, puts
every version through a list of gates, removes the versions that fail and
answers with the rest. What an operator decided about a version, what a version
looked like when it was first seen and what was withheld are kept in a SQLite
database.

This directory holds TLA+ modules translated from that code, TLC configurations
that check them on small instances, and proofs checked by TLAPS. Paths below
are relative to the repository's root.

## The system

| component | state | operations | talks to |
|---|---|---|---|
| policy engine (`src/policy/mod.rs`) | none | `evaluate`, `evaluate_version`, `repoint_dist_tags` | asks the store for the ledger's answer and for the rule, version by version |
| filtered document and version endpoint (`src/policy/mod.rs`, `src/proxy/shape.rs`, `src/proxy/mod.rs`) | none | `serve_version`, `resolve_spec`, `version_not_found`, `withheld_dist_tags` | the outcome of one evaluation |
| state database (`src/store/mod.rs`) | tables `rules`, `seen`, `audit`; one failure slot in memory | `record_rule`, `append_audit`, `try_observe_batch`, `record_blocks`, `append_audit_once`, `prune_seen`, `prune_audit`, `note_failure`, `take_failure` | one connection behind a mutex, shared by everything below |
| schema migration (`src/store/mod.rs`) | `user_version`, the tables' columns | `migrate` | runs when the database is opened |
| start-up (`src/proxy/mod.rs`, `src/control/server.rs`) | the bound port, the node at the control path | `serve_blocking`, `bind`, `Drop` | database, kernel, service manager |
| packument cache (`src/proxy/cache.rs`) | entries with their time, a running byte total | `get`, `insert`, `clear` | the request path |
| request path (`src/proxy/mod.rs`) | a semaphore of packument slots | `classify`, `handle`, `resolve`, `evaluate`, `note_foreign_tarballs`, `record_mutation`, `proxy_through` | cache, upstream (`src/proxy/upstream.rs`), store |
| control service (`src/control/service.rs`) | none | `allow`, `deny`, `allow_file`, `inspect`, `seed`, the reports | upstream, store |
| control server and client (`src/control/server.rs`, `client.rs`, `protocol.rs`) | permits, the socket file | `bind`, `serve`, `handle`, `refuse_busy`; `send`, `exchange` | control service |
| seed scan (`src/seed/mod.rs`) | lockfile index, candidates | `IntegrityIndex::load`, `walk_node_modules`, `record_candidate`, `lookup` | reads an installed tree, hands its entries to `seed` |
| maintenance (`src/proxy/mod.rs`) | none | `prune_state`, every `MAINTENANCE_INTERVAL` and at startup | store |
| tarball inspection (`src/mcp/inspect.rs`) | a bounded channel, the running scan | `resolve_version`, `previous_version`, `fetch_and_scan`, `scan_tarball`, `build_report`, `pin_audit` | upstream, store |
| MCP server and reports (`src/mcp/mod.rs`, `src/mcp/blocks.rs`) | none | tool calls, `recent_blocks` | control client; the audit log |
| configuration, CLI, errors | none | parsing, rendering | |

What is hard here is not any one of the operations. An evaluation is a dozen
steps on a blocking thread, each with the connection mutex to itself, and
between any two of them another evaluation, an operator, the maintenance task
or a crash can act. A document is cached before it has been evaluated. A rule
and the row that records it are two transactions. A storage failure in the
middle of an evaluation is noted in one slot that all evaluations share. And
the client can go away at any point, which ends the handler but not the thread.

What makes each part correct:

- **policy engine**: exactly the versions that should be served are, whatever
  order the gates are tried in; time only ever admits; an approval does what
  the operator is told it does.
- **document and endpoint**: no tag moves unless the operator opted in, every
  404 is true, every withheld tag is named.
- **store**: a ledger row that is evidence is never lost or rewritten; the audit
  log tells verdicts apart, repeats none, and its latest row is current, whatever
  time the evaluations that wrote it had read.
- **migration**: interrupted anywhere and run again, by any number of processes at
  once, it ends in a usable database and loses only rows it means to drop.
- **start-up**: the daemon on the registry's port is the one at the control path,
  and whatever an earlier one left behind, a restart comes up by itself.
- **cache**: the budget is exact, only what must go is evicted, and a lookup never
  answers with anything but the last document stored under its key.
- **request path and control service together**: nothing is admitted that the gates
  would not admit, a rule recorded before an evaluation is never ignored by it,
  everything noticed is on record, every request is answered, and a failure is
  reported by the request it happened to.
- **routing**: no endpoint or method, and no spelling of a path by encoded characters,
  empty or dot segments or encoded slashes, brings a client a version the gates withhold
  (a raw backslash is under *Divergences*), and no write reaches upstream without the
  opt-in and a row of its own.
- **inspection**: what a scan says is true of the archive, the alarms of a report
  are raised by what an install would run, and nothing outlives the command.
- **seed scan**: an entry that took its hash from a lockfile pins the release it names;
  one that took it from a `package.json` says so; and everything that runs
  install hooks is in the report, unless a stat failed on it.
- **reports**: a version that is withheld is reported with its verdict in force, or with
  none where the report does not know the reason.
- **control server**: what a client is told is what happened to its request, an
  approval pins what the registry serves and never what the client says, and a
  full server has room again.

`PROJECT.json` lists, under `hazards`, the lines where each of these could go
wrong and the property that would show it.

## The modules

```
Policy ─┬─ Review ── ReviewProofs
        └─ Store ─┬─ StoreSpec ── Reports ── StoreProofs
                  │      △
                  ├─ StoreLemmas
                  ├─ Daemon ── DaemonProofs
                  └─ Control ── ControlProofs
Resolution ── Routing ─┬─ RoutingProofs       LossyCache ◁ Cache ── CacheProofs
              SeedScan ┘
Migration ── Startup ─┬─ StartupProofs
          Inspection ─┘
```

(`─` is EXTENDS, `◁` is "is implemented by", and Daemon implements StoreSpec, `△`; StoreLemmas
is extended by the three modules of proofs over the store; each component that is
run has an `MC` module with the constants of its instance.)

**Policy** is `evaluate_version` as a pure function, `Decide`: the gates in the
code's order, with `VersionIdentity`, `RunsInstallScript`, `OlderThan` and the
two pins of an approval. Days are the unit of time, as in both configured
floors. A hash or a hook map is an opaque value.

**Review** follows one version: days pass, upstream replaces it, an operator
allows or denies it (`ControlService::allow`, `deny`), and the verdict is
whatever `Decide` says now. `Effect` is the sentence `allow` returns to the
operator, reduced to the case it tells apart.

**Resolution** is what is answered from an evaluated document: surviving
versions, dist-tags with and without `allow_dist_tag_downgrade`, and
`GET /{package}/{spec}`. Versions are numbers in the order of
`compare_versions`. **Routing** is everything around it on the registry's port:
`classify` on every path and method, the opt-in for writes and their audit rows,
the caps on upstream's answer, the relay of what is no package. A relayed path is
read twice more. `UrlRead` is the HTTP client's URL parser, which `forward` hands base and
path to (`src/proxy/upstream.rs:268`): `Resplit` splits at a raw backslash, `Collapsed`
follows dot segments. `Words` and `ResolvesPackage` are then upstream's own reading, to which
an encoded slash is a slash; its API is taken to be at the root of its host. That these
readings agree with `classify` where it matters is what `NothingWithheldServed` says,
and where they do not, `RelayedAsClassified`.

**Store** has one operator per store operation, each constraining only the table
it writes, so that callers can compose them into steps. **StoreSpec** closes it
with the most general caller: any operation, on any argument, at any time. What
holds there holds of the store however it is used. A caller's `now` is one of `Moments`: it
is read when the evaluation begins (`src/proxy/mod.rs:831`) and written with the rows when
it reports, up to `MaxLag` later, while ids are given at the commit. The order of times
and the order of ids are therefore two. **Reports** is
`recent_blocks`, a query over that log by time and then id: a list that is sorted and cut is the set of
what is left, and as the rows of one transaction share their id in the model, an
answer is any such set. `FromAudit` and `ParseReason` are what becomes of a row, whose reason is
lost where the report does not know it.

**Daemon** is the request path, the control service and maintenance over the
store. A request is a record whose `pc` names the await or the lock it is about
to take:

| `pc` | the code is at |
|---|---|
| `queued` | `packument_slots.acquire` |
| `fetch`, `fetched` | the upstream request, then reading its body |
| `evaluate` | the document is cached and handed to `spawn_blocking` |
| `observe` | `clear_failure` has run; `observe_batch` is next |
| `lookup` | one step per version, each a `lookup` of its own; then `take_failure` and `record_blocks` |
| `foreign` | `note_foreign_tarballs` |
| `answered` | the response has left and the permit is back |

An operator command is `fetch` (for `allow` only), `record` and `audit`, the
last two being separate transactions. The constant `Hazards` switches what the
environment may do: storage reads and commands that fail (`fault`), audit writes that fail
(`audit_fault`), a killed process (`crash`), a client that leaves
(`disconnect`). After a disconnect the handler and its permit are gone, and
what is on the blocking pool goes on.

**Control** is the control socket from the client's `connect` to the answer it
hears, with `allow` and its file pins, `deny` and `seed` over the store. Daemon
sets `allow` and `deny` against the request path; here they run against
timeouts, clients that leave and one another. A connection is a record again:

| `pc` | the code is at |
|---|---|
| `backlog` | connected, `accept` has not returned it |
| `reading` | it has a permit and waits for the frame |
| `packument`, `tarball` | `allow` at one of its two fetches |
| `verify` | `seed` at the next entry, or finished |
| `record`, `row`, `refuse` | on the blocking pool: the rule, its audit row, the row of a refused entry |
| `query` | a report |
| `reply` | `write_frame` |

A connection timeout gives the permit back and drops the handler where it waits;
if that is at the blocking pool, the connection stays in `conn` with `handler`
false until the task has ended. Two fields are history: `since`, the state of
the registry when the client connected, and `did`, what has been committed for
the request.

**Cache** is the packument cache with each `get` and `insert` in two steps,
because both read the clock before they take the lock. `make_room` is modelled
pass by pass; the order of entries of one age is the hash map's, so any.
**LossyCache** is what callers may rely on: a lookup answers with the last document
stored under its key, or with nothing. Daemon's cache forgets whenever it
likes, which is that promise and no more.

**Migration** is `migrate`, one action per statement, because each commits by
itself, with the process ending between any two and the next start running it
again, over a database of any earlier version or a newer one. Any number of
processes do so on one file: a column that is looked up and then added can have
been added meanwhile, and then the opening fails. **Startup** takes a daemon from
there to serving, one system call a step: the port, then the control path, which
is looked at, probed, unlinked and bound. The node at the path outlives a killed
process, the port does not. `Drop` unlinks the path on the one ending that runs
it; SIGTERM has no handler, so a stop is a kill.

**Inspection** is one `npmfilter_inspect`: the command, the task that pumps the
download through a bounded channel, and the scan on the blocking pool. A chunk
is a block of the archive; the four limits, the order in which they are noticed
and the ways a download ends early are the code's. The report's version before,
script delta, notes and pin audit are operators over what was scanned.

**SeedScan** is the client's half of `npmfilter seed`: the index of the lockfiles,
the depth-first walk, which `package.json` is trusted to say what it is, which hash is
found for it and where (`Located`). npm may replace packages between two visits, an `_integrity`
may be any release's, and a stat of a `package.json` or of a `node_modules` may fail
(`Stats`), which the code takes for absence; `missed` is a history of these.

## What is checked

| run | instance | shows |
|---|---|---|
| `resolution` | four versions, two of them prereleases, two tags with any targets, any set withheld, with and without the opt-in; every path of up to three segments out of ten and some of four, one segment with raw backslashes and dots, five methods, seven answers of upstream; a tree of three packages, 16 manifests or absences among them, one with another release's `_integrity`, 90 pairs of lockfiles, npm replacing one package, stats that fail | `NeverRedirected`, `NotFoundIsTrue`, `WithheldTagsExplained`; `NothingWithheldServed`; `WritesAccounted`; `PinsTheRelease` and `NothingSilent` of the seed scan |
| `store` | one version served with two identities, a rule, three reasons, four days, times up to a day old, three audit transactions, audit rows kept for two days; a cache with two handlers, three keys, three sizes, two entries, four units of budget | `EvidenceFrozen`, `VerdictsAlternate`, `LatestRowIsCurrent`, `ForeignOnce`; `ReportIsCurrent`: when exactly `recent_blocks` shows a verdict, and what may stand above it. `BudgetHeld`, `EvictionNeeded`, `LossySpec` of the cache |
| `daemon` | two requests, two slots, an operator with one command; two versions, one of them quarantined at first; upstream replaces one and its mirror, stays as it is, or serves a document the engine rejects | `NoticedIsOnRecord`: replacements (`MismatchReported`) and foreign tarballs (`ForeignReported`) reach the audit log whoever waited for the evaluation. `VerdictsJustified`: no rule in force is ignored and none is remembered, cached document or not |
| `daemon_serial` | three requests on one slot, failing storage, a document the engine rejects and then a good one; two packages under review, one bypassed, every shape of metadata (two hashes, shasum or not, hooks, flag, publish times on day 0, day 1 or unknown), four days | `OwnFailuresOnly`, `DocumentsBounded`, `EveryRequestEnds`. Of the review, `GateOrderSound`: the gates admit exactly the admissible versions. `TimeOnlyAdmits`. `ApprovalTakesEffect`: an approval admits what the reviewable reasons withheld and nothing else. `EffectExact`. `QuarantineClears`: an approved version is admitted by itself when its window ends |
| `daemon_faults` | storage failures, crashes and disconnects, a replaced version, one command, two days and a ledger that keeps a row for none, so that rows are pruned under the daemon | `AllowedIsJustified` (fail closed), `ServedIsOnLedger`, `ImplementsStore` |
| `startup` | two daemons over one file of any earlier version or a newer one, on one address or two, a node of either or none at the path, two endings; 2223 inputs of one inspection, among them every archive of up to two blocks of nine, whole or cut short | `LedgerUsable`, `OnlyNullsDropped`; `SurfaceWhole`: nobody serves but the daemon the control path leads to; `ComesUp`. `ScanFaithful`, `ReportWarns`, `PinsAudited`, `ScanEnds` of the inspection |
| `control` | two clients on one permit, every kind of request, a package with two versions of which one is replaced; failing writes, timeouts, crashes | `AnswersTruthful`, `WritesWhatWasServed`, `SlotComesFree` |

Five more runs refute what the repository says of itself; they are under
*Divergences*.

`MCResolution`, `MCStore`, `MCSerial` and `MCStartup` hold modules that share no state: a
behaviour is one of the resolver, of the router or of a seed scan; one of the store or of the
cache; one of the daemon or of a review; one of start-up or of an
inspection, chosen by `part` in the first state. `startup` does not check for
deadlock, because an inspection that has ended stays so.

**Refinement.** `LossySpec` says that Cache implements LossyCache, which is the
cache Daemon assumes. `ImplementsStore` says that every step of Daemon, failed,
crashed or abandoned, is on the tables a step of StoreSpec or none, so that what
is proved of the store holds inside the daemon. The history variable of StoreSpec
is mapped to what the latest row says, which is right while no audit row is
pruned, and so in the instance of `daemon_faults`; `MaxLag` is 0, as no day passes while an
evaluation runs in Daemon; the bound on transactions is
mapped with slack for the work in flight when it is reached: two rows of each request
(`record_blocks` and `note_foreign_tarballs`) and one of each command.

**Bounds.** Every bound is a constant. `MaxDay` limits the clock. In `store` it is beyond both
retentions by a day, so that rows are pruned and written again; in `daemon` beyond both floors
and the ledger's retention; in `daemon_faults` it is one day with a retention of none, which is
enough for a row to come of age, and keeps the hazards in reach; elsewhere no day passes.
`LastDay` is the same for a review, and beyond both floors. `MaxTxn`
limits audit transactions: three are enough for a verdict, another and the
first again, and with times a day old one of the three is pruned while the others stand.
`MaxLag` is a day, one step of the clock: enough for the order of times
and of ids to differ. `MaxCommands` limits operator
commands: one changes the rule in force between two steps of an evaluation. In `control` the bound is on
connections: none is opened once a transaction is on record, and as two can be
open by then, a seed of two entries and another command still interleave. `MaxTime` lets an entry of the
cache expire. Two requests are enough for each pair of
interleaved evaluations; the third of `daemon_serial` makes a queue. One
version is enough where versions are independent, two where an evaluation looks
up one rule after another. The store is checked with one version because its
tables are keyed by version, and its theorems hold for any number. Requests are
symmetric in `daemon` and `daemon_faults`, handlers and cache keys in `store`; no run with a
liveness property uses symmetry.

`MaxDeaths` limits the endings of a daemon: with two, one leaves a half-migrated
file or a dead node and the next dies while it repairs it. `MaxWrites` limits
relayed writes: two tell a row from its neighbour's. `MaxInstalls` limits what npm
replaces during a walk: one is enough for what was read and what is there to
differ. The limits of a scan are small (four chunks, six units, three entries, a
manifest of one), so that archives of two to five blocks pass each one of them,
and the channel holds two chunks, so that it is full and empty. `ScanFactor` is
two where the code has four, and one block is wanted: enough for rows that are not
blocks to push one out.

**Fairness.** `Review` lets days pass (`WF` on `Day`). The MC modules restate the fairness of
the modules they hold for one `part` at a time. `Daemon` assumes that a
task the runtime has started is run on (`WF` on each step of an evaluation and
on the insertion in the cache), that a fetch ends, because the HTTP client has
a timeout, and that a waiting request for which a slot keeps coming free gets
one (`SF` on admission), because tokio's semaphore is first come, first served.
`Control` assumes the same of a handler and of its
task on the pool; the frame has `REQUEST_TIMEOUT`, upstream the HTTP client's.
Nothing is assumed of a client of the socket, which may connect and be silent.
`Startup` assumes that a process that can step does, and that one that ended is
started again, which is what `Restart=always` in `packaging/systemd` is for.
`Inspection` assumes that the pool runs the scan, the runtime the pump and the
command, and that each chunk comes or fails, again by the HTTP client's timeout.
Nothing makes a client ask, an operator act, upstream change, a process die or
storage fail.

**Abstractions in Daemon.** The cache may forget an entry at any time. A day
does not pass while a request holds a slot or an evaluation runs, and no cached
document outlives a day. The name inside a document is the package it was asked
for under. Counters and timestamps that no decision reads are left out.

**Abstractions in Control.** A package has one file worth pinning. A frame that is
too long, does not parse or fails validation is one kind of frame, and is refused.
A timer may fire at any time, so no property depends on what the limits are. No day passes.

**Abstractions in Routing, Inspection and SeedScan.** A path segment is the sequence
of words its encoded slashes separate. A document is served under the verdicts of
the moment, and requests share nothing but the audit log, so one at a time is
enough. A chunk of a download is one block of the archive; the hooks of a manifest
are one value; in a report only the fields that raise an alarm are kept. A
release stands for the hash the registry serves for it, so that a wrong pin is an
entry whose two halves differ. In SeedScan a stat that fails is an outcome of a visit and not a
state of the file, as permissions may change, too.

Each module states its type invariant, but for SeedScan, whose proof has it in `Walk`. They are
proved, that of Store as a part of Daemon's, and no run checks them again.

## What is proved

The proofs hold for every value of the constants that meets the named
assumptions: any packages, versions, hashes, floors and retentions, and any
number of operations. The assumptions say that the configured numbers are
naturals and that the sentinel `None` is none of the values it stands beside.
A theorem that needs more says so in its statement; where it does, the hypothesis is the
one under which the property holds, and *Divergences* says what happens without it.
The inductive invariants of Startup, Daemon and Control were given to TLC as
invariants of `startup`, of the daemon's runs and of `control` before they were proved.

- **ReviewProofs**: the type invariant, and `GatesSound`, `TimeNeverWithdraws`,
  `ApprovalEffective`, `EffectIsExact`. The gates are a function of the state,
  so the type invariant is the whole of the induction. `GatesSound` is a case
  analysis of `Decide`; the others follow from it and from what each action
  changes.
- **StoreLemmas**: what one operation of the store does to the tables, without a
  caller: an observation to a row (`ObservedKeeps`), an append to the
  log, an approval to the rules, and which of two rows is the newest.
- **StoreProofs**: the type invariant and `EvidenceStaysFrozen`, from the lemmas on
  one observation; pruning is the only other operation that touches the ledger.
  `VerdictsAlternate`, `LatestRowIsCurrent` and `ForeignOnce` are properties of a
  log that is pruned from one end while it is compared at the other, and the
  first two are not inductive by themselves. They need `Ordered`: ids are below
  the next transaction's, a row is older than one before it by no more than `MaxLag`, and one version and event
  has at most one row per transaction. With it the latest row is well defined
  (`NewestIsLatest`). Pruning goes by time, so a later row can go before an earlier one; but what
  came after a row that has `MaxLag` yet to live (`Settled`) is still there, and that is what both
  properties are stated for. With a lag of 0 each row is settled. `ReportStaysCurrent` follows, for
  limits of any size, any lag and finitely many versions: the latest row is in the report unless a
  limit is used up by what may come before it in the order of times, by counting (`KeptIfFewBefore`),
  and what stands above it is younger by no more than `MaxLag`. Rows of one transaction may stand
  in any order, so a row with the same id counts as one that may come before.
- **CacheProofs**: `CacheIsLossy`, that Cache implements LossyCache, from
  `Coherent`: an entry that is held is the document last inserted under its
  key; that proof does not look at which entries are evicted. `BudgetAlwaysHeld` and
  `EvictionAlwaysNeeded` do. The byte total is a sum over a set, which the community
  modules define by recursion, so the module first derives the laws of that sum
  (`SumsExist`, `SumsUnique`, `WeightLaws`) and what the recursive functions of `make_room` return
  (`EvictDownIs`, `EvictionStops`, `MakeRoomIs`). `Budgeted` then adds that the cache holds finitely
  many entries and that an insertion under way found it enabled. With it the type invariant follows.
- **StartupProofs**, of Migration: the type invariant, `LedgerUsable` and
  `OnlyNullsDropped`, for any number of processes that migrate one file.
  `LedgerUsable` needs `Progress`: the statement a process is at says which tables
  and columns are there, whoever made them. No step of another process takes
  that away, because columns are only added (`Grows`), and the version that lets a
  later opening skip the migration is stamped last. The assumption is that the
  current version is at least four, as the versions of *Left* are the repository's.
  Of Startup: `StartupOpensTheStore`, that its specification implements Migration's,
  so that all of the above holds while daemons start, die and start again; and
  `SurfaceStaysWhole`, from `PathInv`: a daemon holds the port from its bind on, the
  node is its own from then until `Drop`, and nobody else gets past the probe
  meanwhile, because a second daemon has failed at the port.
  - Of Inspection, `ScanIsFaithful`, `PinsAreAudited` and `ReportsWarn`, for archives of any length, any
    limits and finitely many versions. `InOrder` says that the channel and the pump's hand hold the blocks
    after the last one read, in their order, and that a failure comes last; `Counted` that what the scan has
    counted and listed is what is in those blocks; `Unstopped` that nothing has yet been there to
    stop it. `Counted` makes a path's last entry in the list the last in the archive
    (`ObservedMore`, with `RelativeIs` for the name), which is all that `PinsAreAudited` needs. `ReportsWarn`
    needs that a version found exists (`ResolvedIs`) and that the loop over the candidates keeps a last one
    published before (`PreviousIs`), where each has its time.
- **DaemonProofs**: the type invariant, and one invariant for each thing a request
  can get wrong, each inductive over the whole of `Next`.
  - `DecisionInv`: no verdict before the lookups, every rule that was in force since
    the evaluation began is in `inforce`, and every verdict is `Decide`'s on one of them, or a
    failed lookup's refusal. It gives `AllowedAlwaysJustified` under all hazards (a
    failed lookup never admits, by `DenyNeverAllows`) and `VerdictsAlwaysJustified` with no storage failures.
  - `SlotInv`: who works on a document holds a slot, unless its client left. It gives
    `DocumentsStayBounded` where nobody leaves, and `AwaitedStayBounded` where anybody may.
  - `Prompt` and `LedgerInv`: between an observation and the answer the row stands, as no day passes
    during an evaluation and a fetch has refreshed it; a cache hit has that only until rows come of
    age. `ServedStaysOnLedger` says both, with no hypothesis.
  - `DocsOrigin`, `ForeignInv` and `TamperInv`: each notice is in the log, or in the
    hands of an evaluation that will write it. `NoticedStaysOnRecord`
    is for storage that works and a process that is not killed, whoever leaves.
  - `RoomInv`: the transactions yet to come fit in the bound of StoreSpec. With it and `ReportedMoves`,
    one lemma per action, `DaemonImplementsStore`: each step of Daemon is on the tables an operation of
    StoreSpec or none, for audit rows kept for good (the history variable is mapped to
    what the latest row says) and finitely many requests (they are counted).
- **ControlProofs**: the type invariant; `PermitsAccountedFor`, that the permits left and
  those of the running handlers are `MAX_CONCURRENT_CONNECTIONS`, through answers, timeouts
  and crashes; `ApprovalsPinWhatWasServed` and `ClientsHearTheTruth`. The invariant,
  `ConnInv`, says four things of a connection on its own: `Placed` (what is at a
  `pc` is there), `Addressed` (what it fetched and is about to write is for what it
  was asked), `Accounted` (its answer, if it has one, fits what has been committed for it) and `Grounded` (what it fetched was served since it
  connected). That it can be said of each by itself is why concurrent clients do not disturb
  one another, and each action has one lemma. For a seed, `SeedSoFar` counts the entries behind it.
  The hypothesis `Distinct` of `ClientsHearTheTruth`, that a seed has one entry
  for a release, is what the client sends, as it collects candidates by release
  (`src/seed/mod.rs`); of two entries for one release the second would undo what the answer says of the first.
- **RoutingProofs**, of Resolution: the type invariant, `NeverRedirected`, `NotFoundIsTrue`
  and `WithheldTagsExplained`, for any set of versions and tags. They need
  `Standing`: an answer stands for as long as the evaluation it was given from.
  - Of Routing, its type invariant, and `WritesAccounted` for any paths: `Owed` adds that a write about to be
    relayed has a row that no relay has used. And `NothingWithheld`, for paths of any
    length and finite documents; the property leaves out the relay of a path with a raw backslash in it. `ReadAlike`
    says that without one, a path that `classify` lets pass is not rewritten by the URL parser, as it
    has no dot segments. `WordsRead` says what upstream makes of a path that
    `classify` has read; from both, `PassedIsNoPackage`: a path that is
    relayed is no package to upstream. `Bound` ties the request in hand to its route.
  - Of SeedScan, `PinsAreReleases`, for any lockfiles, any tree and any `_integrity` in it, changing under the walk or
    not. `Walk` says where each candidate was found, and where its hash. The property is about
    truthful lockfiles; nothing is assumed of a `package.json`.
  - `NothingIsSilent`, for a tree of finitely many directories. `Told`: each package under the root
    has been read, is still to come, is below a warning, or a stat failed on the way to it, and what was read is in the report.
    `UnderOpens` takes what is under a directory apart, one level at a time.
- **Induction over data.** Some of these depend on what a recursion computes: the sum
  and `make_room`, the words of a path, the index of the lockfiles, the depth of a tree,
  what a scan has unpacked, the version before.
  The induction is over a set of naturals (`UpTo`): one that has 0 and the successor
  of each member has all, as a least one that it lacks can not exist
  (`NatLessThanWellFounded` and `WFMin`). `IterationExists` and `Recursion` then give the value
  of a recursive function at each number.

Model-checked only:

- liveness under fairness, which this prover does not do: `QuarantineClears`,
  `EveryRequestEnds`, `SlotComesFree`, `ComesUp`, `ScanEnds`.

## Divergences

The runs `failure_race`, `rules_column`, `dry_run`, `relayed_path` and `audit_trail` each
check one statement of the repository's and end in a counterexample:

- `failure_race`: the failure slot is one per store, so with two slots one
  evaluation clears or takes what another noted (`src/store/mod.rs:649`). What it
  can not do is admit anything: `AllowedIsJustified` holds with the same faults.
- `rules_column`: a database whose `rules` table an earlier binary created opens
  without the column `pins_json`, and no rule can be read (`src/store/mod.rs:1254`).
- `dry_run`: a dry run of `seed` appends an audit row for every entry it refuses,
  where the request is documented to write nothing.
- `relayed_path`: `classify` splits a path at slashes and refuses dot segments, and the URL that
  `forward` builds of it is parsed again, with a raw backslash for a slash
  (`src/proxy/upstream.rs:268`). The path that is sent need not be the one that was classified, where
  `src/proxy/mod.rs:337` says that a path npmfilter cannot agree on with its upstream is one it must not
  forward. `NothingWithheldServed` leaves such relays out.
- `audit_trail`: a rule and its audit row are two transactions (`src/store/mod.rs:730`), where the doc
  above them (`:724`) says one. A process that is killed between them leaves a rule with no row. Two
  operators who decide about the same version can also leave the log ending on the verdict that is
  not in force.

The following were met while modelling. Each can be seen by changing the
constants named, or follows from the lines quoted:

- A cache hit compares with a ledger row without refreshing it, and `prune_seen` can take the row
  before the answer leaves, where `src/store/mod.rs:1061` says a version being resolved keeps its
  baseline. Hence the last disjunct of `ServedIsOnLedger`, without which `daemon_faults` ends in a
  counterexample. Only the hit is exposed, and only once rows are old enough to be pruned.
- `allow` fetches the packument and then the tarball (`ReadPackument`,
  `ScanTarball`), so a rule can pin the integrity of one publication and a file of
  the next. `WritesWhatWasServed` states what holds: each was served.
- After a connection timeout the client hears nothing, and what it asked for may
  still be recorded (`Resumed`); such work is under no permit, so
  `MAX_CONCURRENT_CONNECTIONS` does not bound it.
- `DocumentsBounded` fails with `"disconnect"` in `Hazards`: the permit goes with
  the handler's future while `spawn_blocking` keeps the document
  (`src/proxy/mod.rs:99`, `SECURITY.md:173`).
- `ForeignReported`, half of `NoticedIsOnRecord`, fails with `"fault"`: a document cached by an evaluation that
  then failed is served later as a cache hit, for which
  `note_foreign_tarballs` is not called (`src/proxy/mod.rs:894`).
- With the opt-in, a tag on a stable release is moved to a prerelease when no
  stable one survives (`src/policy/mod.rs:868`), and a tag that no candidate is
  left for answers that the version does not exist (`src/proxy/mod.rs:726`).
  `NotFoundIsTrue` is therefore stated without the opt-in.
- Without it, tags stay on withheld versions, which the module doc denies
  (`src/policy/mod.rs:27`).
- The effect `allow` reports is worked out from the declared hooks and the publish
  time, so for a version that only carries `hasInstallScript`, or has no usable
  publish time, it can say "admitted" while the floor stands
  (`src/control/service.rs:440`). `EffectExact` gives the versions for which it is
  right.
- A version without any hash can not be approved, since `allow` refuses it, where
  `src/policy/mod.rs:614` says it can; and it is recorded in the ledger, where
  `src/store/mod.rs:53` says it is not.
- A comparison that does not bump still writes the mismatch
  (`src/store/mod.rs:887` says it compares without writing).
- `SurfaceWhole` is stated for daemons on one address. With two addresses and one
  control path, two daemons that start together both find the node dead, and one
  unlinks what the other has bound (`src/control/server.rs:57` says a live daemon's path is
  not stolen). Setting the mode, and unlinking when the listener is dropped,
  go by the path as well, whoever's node it names by then.
- With the opt-in for publishing, a method the program does not know counts as a
  write, so a `COPY` of a package path is relayed and its answer is unfiltered;
  `Relayed` takes upstream to answer a write with no document.
- `/-/package/@scope/name/dist-tags` with a plain slash is no dist-tags request to
  `classify` and is relayed; upstream has no document there, but it has the tags.
- `recent_blocks` reads four rows for each it wants, of any event, so that many
  newer rules or refusals hide the blocks below them, and the report then says
  that nothing was withheld (`src/control/service.rs:255`, `:267`). `ReportIsCurrent` has the two limits.
- `parse_reason` knows five reasons, where its caller's doc speaks of four and the
  engine has seven (`src/mcp/blocks.rs:75`, `:88`): rows for `no_integrity` and
  `install_script_quarantine` are reported without a reason, as `ReportIsCurrent` has it.
- The report is ordered by the time an evaluation began and not by when it reported, so what an
  evaluation that began later and reported earlier said of a version can stand above the verdict
  in force. For the same reason a later row of the log can be pruned before an earlier one; of the
  last `MaxLag` of a row's life `VerdictsAlternate` and `LatestRowIsCurrent` say nothing.
- The order by which `previous_version` chooses is not transitive when only some versions have
  a publish time, so its choice can depend on the names (`src/mcp/inspect.rs:471`).
  `ReportWarns` speaks of the choice where every version has one.
- Of two `package.json` at the root of an archive, the first is read for hooks and the
  last is compared with the pins; and a scan that has reached the end of the archive does not
  notice that the download breaks after it.
- The fallback on name and version in `lookup` is for directories the lockfile has no
  entry for (`src/seed/mod.rs:1080`). A bundled dependency has an entry without hash and URL,
  which is not indexed, so the fallback applies to it, too; and `_integrity` is
  taken even for a directory that the lockfile describes without a hash.
- `_integrity` is whatever a `package.json` says (`src/seed/mod.rs:1108`), so an entry can pair a
  release with the hash of another. The daemon verifies it against the registry; with `--offline`
  it is pinned as it is, under a reason that says the hash was read from a lockfile
  (`src/seed/mod.rs:106`, `:307`). `PinsTheRelease` says which entries these are.
- `is_file` and `is_dir` are false on any error (`src/seed/mod.rs:818`, `:836`, `:847`): a `package.json`, or
  all that is below a `node_modules`, that can not be looked at is left out of the report without
  a warning. `NothingSilent` leaves it out with `missed`.
- A directory whose `package.json` claims the directory's name, where the lockfile
  made it an alias of another package, is pinned to the other's hash. `Truthful`
  leaves aliases out.
- A package's own `node_modules` may be a symbolic link and is followed, where links among the
  entries of one are not; `MAX_DEPTH` ends a loop, and a directory reached twice has two keys.

## What is not modelled

- The reports on rules, on the ledger and on the daemon's status, which change
  nothing: in Control they are one step. Of `src/mcp/` the forwarding of tool calls,
  the parsing of hooks out of a detail, and the sentences that tell an operator what to do next.
- The sentences, measured sizes, provenance and maintainers of an inspection's report.
- The character sets the protocol's validators admit, the copies of a release and the tree hash
  that a seed's rule carries in its reason, and pnpm's store as a layout of its own.
- The name inside a document being another than the one asked for (`src/proxy/mod.rs:847`):
  it is for the registry, and nothing in the repository says what is promised of one that does so.
- The connection mutex of the store as a resource that is waited for: each statement is a step,
  and that it is handed on to everyone who waits is taken from its lock.
- Entries of an archive that are no files, as a link over a pinned path: the scan counts but does not list them, and
  so `PinsAudited` says nothing of them.
- Pruning of audit rows, and a day passing, while an evaluation runs in Daemon: StoreSpec has both,
  for callers with a time that is already past.
- Parsing of versions, timestamps and configuration; response formatting;
  rendering; TLS and HTTP. They have no state and their effect on a decision is
  a value here (a rank, a day, `None`).
- `src/policy/memory.rs`, a test double of the store.

## Plan

The model is complete as far as *What is not modelled* says, and every type invariant, every
safety invariant and every action property that a run expects to hold is a theorem. Liveness stays with TLC.
