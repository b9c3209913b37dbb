------------------------------ MODULE Reports ------------------------------
(***************************************************************************)
(* The report on what was withheld, recent_blocks (control/service.rs and   *)
(* mcp/blocks.rs), over the audit log as it is written and pruned.  It is   *)
(* one query, and changes nothing.                                          *)
(*                                                                          *)
(* A list that is sorted and cut is the set of what is left.  Rows of one   *)
(* transaction share their id here and have each their own in the table,    *)
(* where the cut may fall anywhere among them, so an answer is any of a     *)
(* set.                                                                     *)
(***************************************************************************)
EXTENDS StoreSpec

CONSTANTS
  MaxWanted,  \* MAX_RECENT_LIMIT
  ScanFactor  \* how many rows are read for each that is wanted: 4

ASSUME ReportsAssumption == MaxWanted \in Nat /\ ScanFactor \in Nat \ {0}

(* ORDER BY ts DESC, id DESC: not the order the rows were committed in.     *)
Newer(row, other) == row.ts > other.ts \/ (row.ts = other.ts /\ row.id > other.id)

(* What may be left of rows in the order of Newer when n are kept.          *)
FirstOf(n, rows) ==
  {kept \in SUBSET rows :
     /\ Cardinality(kept) = IF n < Cardinality(rows) THEN n ELSE Cardinality(rows)
     /\ \A row \in kept, cut \in rows \ kept : ~Newer(cut, row)}

(* Store::recent_audit: rows of every event, of one package or of any.      *)
RecentAudit(filter, limit) ==
  FirstOf(limit, {row \in audit : filter = None \/ row.pkg = filter})

IsBlock(row) == row.event \in BlockEvents

(* parse_reason: the two youngest reasons are not among those it knows.     *)
ParseReason(reason) ==
  IF reason \in {"integrity_changed", "deny_rule", "too_new", "install_script",
                 "scripts_changed"}
  THEN reason ELSE None

(* from_audit: a reason that is not recognised is left in the detail.       *)
FromAudit(row) == [row EXCEPT !.reason = ParseReason(row.reason)]

BlocksAmong(reads, wanted) ==
  {{FromAudit(row) : row \in kept} :
     kept \in UNION {FirstOf(wanted, {row \in read : IsBlock(row)}) : read \in reads}}

\* mutant: no more rows are read than are wanted
RecentBlocksNarrow(filter, limit) ==
  LET wanted == IF limit < MaxWanted THEN limit ELSE MaxWanted
  IN  BlocksAmong(RecentAudit(filter, wanted), wanted)

(* recent_blocks: more rows than are wanted, and the blocks among them.     *)
RecentBlocks(filter, limit) ==
  LET wanted == IF limit < MaxWanted THEN limit ELSE MaxWanted
  IN  BlocksAmong(RecentAudit(filter, ScanFactor * wanted), wanted)

(* What a report says of a version and an event that rows are kept for.     *)
CurrentFor(filter, limit, report, rel, event) ==
  LET latest == Newest(RowsOf(rel, event))
      entry  == FromAudit(latest)
      about  == {other \in report : <<other.pkg, other.version>> = rel /\ other.event = event}
      before == {row \in audit : /\ filter = None \/ row.pkg = filter
                                 /\ row # latest /\ ~Newer(latest, row)}
  IN  /\ /\ Cardinality({row \in before : IsBlock(row)}) < limit
         /\ Cardinality(before) < ScanFactor * limit
         => entry \in about
      /\ reported[<<rel, event>>] # None /\ Settled(latest) =>
           entry.reason = ParseReason(reported[<<rel, event>>])
      /\ \A other \in about : other.ts <= entry.ts + MaxLag

(* A version that is withheld is in the report with the verdict now in      *)
(* force, for as long as fewer blocks than are asked for, and fewer rows    *)
(* than are read for them, may come before its row: that a block which      *)
(* recurs is not recorded again, and that rows are sorted by when an        *)
(* evaluation began and not by when it reported, leave nothing out but by   *)
(* those two limits.  What an evaluation that reported earlier said of the  *)
(* same version may stand above it, if that began no more than MaxLag       *)
(* later; and a reason the report does not know is given as none, never as  *)
(* another (recent_blocks, recent_audit and from_audit).                    *)
ReportIsCurrent ==
  \A filter \in Package \cup {None}, limit \in 1..MaxWanted :
    \A report \in RecentBlocks(filter, limit), rel \in Release, event \in BlockEvents :
      filter \in {None, rel[1]} /\ RowsOf(rel, event) # {}
        => CurrentFor(filter, limit, report, rel, event)
=============================================================================
