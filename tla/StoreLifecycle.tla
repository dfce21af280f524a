--------------------------- MODULE StoreLifecycle ---------------------------
(***************************************************************************)
(* The database file of beater-memory over its life (store.rs, imports.rs):*)
(* processes that open it and upgrade its schema statement by statement,   *)
(* import files, work on it, maintain it, back it up and restore it, and   *)
(* that are killed anywhere.                                               *)
(*                                                                         *)
(* An image is what a file holds. A row of the ledger is its key and, in   *)
(* from, the outcomes of the file it was imported with. Each projected row *)
(* has a node, which the keys in nodes, spans and cues stand for, and      *)
(* edges to its own node and to the nodes there were. A closed node of an  *)
(* old schema has no closing event: unattributed. torn and shared are      *)
(* history: resets begun and not ended, and whether a process wrote while  *)
(* another one was upgrading.                                              *)
(***************************************************************************)
EXTENDS Imports, FiniteSets

CONSTANTS
  Procs,        \* processes of the service and of the command line
  Scenarios,    \* [live, backup, steps, left]: what the database file, the
                \* backup path and the journal of beater.js hold at first, and
                \* how often each kind of operation may happen
  Lines,        \* a canonical JSONL file
  Remembered,   \* keys of rows that callers append
  Attributable, \* keys of nodes whose closing event can be found
  Clock,        \* readings of the wall clock
  Retentions    \* options of maintenance: [before, keep], either may be NoBound

Supported == 5
NoBound == -1
Absent == [app |-> "absent"]
Operations ==
  {"crash", "append", "project", "rebuild", "import", "journal", "backup",
   "restore", "maintain", "audit", "clock"}

Keys(image) == {row.key : row \in image.ledger}

\* The tables of an image and its history.
Fields ==
  {"app", "version", "tables", "columns", "ledger", "projected", "nodes", "spans",
   "cues", "edges", "unsourced", "unattributed", "audit", "audits", "torn", "shared"}

\* What is imported came of a file with no item that cannot be read, all of it.
Whole(image) ==
  \A row \in image.ledger : \A i \in DOMAIN row.from :
    /\ row.from[i] # Bad
    /\ IsEvent(row.from[i]) => row.from[i][2] \in Keys(image)

\* The audit trail is that of its last rows, in the order of their ids.
Trail(image) ==
  /\ image.audit \subseteq [id : Nat, at : Int] /\ image.audits \in Nat
  /\ \E first \in 1..(image.audits + 1) :
       {row.id : row \in image.audit} = first..image.audits
  /\ \A a, b \in image.audit :
       /\ a.id = b.id => a = b
       /\ a.id < b.id => a.at <= b.at

\* A file as this or an earlier version leaves it when no process is at work:
\* version 3 knows who closed a node, version 5 where an edge comes from.
AtRest(image) ==
  /\ image = [f \in Fields |-> image[f]]
  /\ image.version \in Nat /\ image.torn = {} /\ ~image.shared
  /\ image.projected \subseteq Keys(image) \cap image.nodes \cap image.spans \cap image.cues
  /\ \A key \in image.projected : <<key, key>> \in image.edges
  /\ image.spans \cup image.cues \subseteq image.nodes
  /\ \A edge \in image.edges : {edge[1], edge[2]} \subseteq image.nodes
  /\ image.unsourced \subseteq image.edges /\ image.unattributed \subseteq image.nodes
  /\ image.version >= 3 => image.unattributed = {}
  /\ image.version >= 5 => image.unsourced = {}
  /\ Whole(image)
  /\ Trail(image) /\ \A row \in image.audit, now \in Clock : row.at <= now

ASSUME ConstantsAssumption ==
  /\ Clock \subseteq Int
  /\ Retentions \subseteq [before : Int, keep : Int]
  /\ DOMAIN Lines = 1..Len(Lines) /\ Len(Lines) \in Nat
  /\ \A s \in Scenarios :
       /\ AtRest(s.live) /\ (s.backup = Absent \/ AtRest(s.backup))
       /\ DOMAIN s.steps = 1..Len(s.steps) /\ Len(s.steps) \in Nat
       /\ s.left \in [Operations -> Nat]

\* The journal names its steps apart, and nobody else uses their names: run ids
\* of beater.js are not the trace ids of other callers.
ASSUME JournalAssumption ==
  \A s \in Scenarios :
    /\ \A i \in DOMAIN s.steps :
         /\ s.steps[i] = [f \in StepFields |-> s.steps[i][f]]
         /\ StepKey(s.steps[i]) \notin Remembered
         /\ \A j \in DOMAIN Lines : LineKey(Lines[j]) # StepKey(s.steps[i])
         /\ Final(s.steps[i]) \/
              \A image \in {s.live, s.backup} \ {Absent} : StepKey(s.steps[i]) \notin Keys(image)
    /\ \A i, j \in DOMAIN s.steps : StepKey(s.steps[i]) = StepKey(s.steps[j]) => i = j

VARIABLES
  live,         \* the image of the database file
  backup,       \* the image at the backup path, or Absent
  steps,        \* the journal of beater.js
  proc,         \* where each process is
  clock,        \* the wall clock
  setBack,      \* history: the clock was set back
  left          \* what is left of the budget

vars == <<live, backup, steps, proc, clock, setBack, left>>

Idle == [at |-> "closed"]

\* The statements of migrate, in their order; a process does one at a time.
Upgrading ==
  {"identify", "schema", "alter", "backfill", "check3", "reset3", "check5",
   "reset5", "stamp"}
InReset(p) == proc[p].at \in {"reset3", "reset5"} /\ proc[p].done > 0

Writing == {"schema", "alter", "backfill", "reset3", "reset5", "stamp"}

\* mutant of MayWrite: nothing holds the write lock
NeverWaits(p) == TRUE

\* Write statements wait for the transaction of an import.
MayWrite(p) == \A q \in Procs \ {p} : proc[q].at # "import"

Spend(operation) ==
  /\ left[operation] > 0
  /\ left' = [left EXCEPT ![operation] = @ - 1]

Goto(p, state) == proc' = [proc EXCEPT ![p] = state]
At(p, place) == proc[p].at = place

\* An image p has written to, with the history of who wrote meanwhile.
WrittenBy(p, image) ==
  [image EXCEPT !.shared = @ \/ \E q \in Procs \ {p} : proc[q].at \in Upgrading]

-----------------------------------------------------------------------------
(* Opening: open, migrate.                                                 *)

\* mutant of Refused: the version of the file is not looked at
OthersRefused(image) == image.app = "other"

\* Files of other programs and of newer versions are refused.
Refused(image) ==
  \/ image.app = "other"
  \/ (image.app = "none" /\ (image.version # 0 \/ image.tables))
  \/ image.version > Supported

Open(p) ==
  /\ At(p, "closed")
  /\ Goto(p, [at |-> "identify"])
  /\ UNCHANGED <<live, backup, steps, clock, setBack, left>>

Identify(p) ==
  /\ At(p, "identify")
  /\ IF Refused(live)
     THEN /\ Goto(p, Idle)
          /\ UNCHANGED live
     ELSE /\ live.app = "none" => MayWrite(p)
          /\ live' = [live EXCEPT !.app = "memory"]
          /\ Goto(p, [at |-> "schema", from |-> live.version])
  /\ UNCHANGED <<backup, steps, clock, setBack, left>>

\* CREATE TABLE IF NOT EXISTS, and a look at the columns.
CreateTables(p) ==
  /\ At(p, "schema")
  /\ live.tables \/ MayWrite(p)
  /\ live' = [live EXCEPT !.tables = TRUE,
                          !.columns = @ \/ ~live.tables]
  /\ Goto(p, [proc[p] EXCEPT !.at = IF live'.columns THEN "backfill" ELSE "alter"])
  /\ UNCHANGED <<backup, steps, clock, setBack, left>>

\* ALTER TABLE fails if another process has added the column meanwhile.
AddColumns(p) ==
  /\ At(p, "alter")
  /\ MayWrite(p)
  /\ live' = [live EXCEPT !.columns = TRUE]
  /\ Goto(p, IF live.columns THEN Idle ELSE [proc[p] EXCEPT !.at = "backfill"])
  /\ UNCHANGED <<backup, steps, clock, setBack, left>>

Backfill(p) ==
  /\ At(p, "backfill")
  /\ MayWrite(p)
  /\ live' = [live EXCEPT !.unattributed = @ \ Attributable]
  /\ Goto(p, [proc[p] EXCEPT !.at = "check3"])
  /\ UNCHANGED <<backup, steps, clock, setBack, left>>

ClosuresNeedRebuild(image) == image.unattributed # {}
EdgesNeedRebuild(image) == image.unsourced # {}

Resetting(p, place) == [at |-> place, from |-> proc[p].from, done |-> 0]

CheckClosures(p) ==
  /\ At(p, "check3")
  /\ Goto(p, IF proc[p].from < 3 /\ ClosuresNeedRebuild(live)
             THEN Resetting(p, "reset3") ELSE [proc[p] EXCEPT !.at = "check5"])
  /\ UNCHANGED <<live, backup, steps, clock, setBack, left>>

\* mutant of CheckEdges: databases of version 3 and 4 are taken for current
CheckEdgesOfOldest(p) ==
  /\ At(p, "check5")
  /\ Goto(p, IF proc[p].from < 3 /\ EdgesNeedRebuild(live)
             THEN Resetting(p, "reset5") ELSE [at |-> "stamp"])
  /\ UNCHANGED <<live, backup, steps, clock, setBack, left>>

CheckEdges(p) ==
  /\ At(p, "check5")
  /\ Goto(p, IF proc[p].from < 5 /\ EdgesNeedRebuild(live)
             THEN Resetting(p, "reset5") ELSE [at |-> "stamp"])
  /\ UNCHANGED <<live, backup, steps, clock, setBack, left>>

\* mutant of Cleared: the nodes go before what refers to them
ClearedNodesFirst(image, n) ==
  CASE n = 1 -> [image EXCEPT !.nodes = {}, !.unattributed = {}]
    [] n = 2 -> [image EXCEPT !.spans = {}]
    [] n = 3 -> [image EXCEPT !.cues = {}]
    [] n = 4 -> [image EXCEPT !.edges = {}, !.unsourced = {}]
    [] n = 5 -> [image EXCEPT !.projected = {}]

\* mutant of Cleared: the marks are cleared before the graph is
ClearedMarksFirst(image, n) ==
  CASE n = 1 -> [image EXCEPT !.projected = {}]
    [] n = 2 -> [image EXCEPT !.edges = {}, !.unsourced = {}]
    [] n = 3 -> [image EXCEPT !.spans = {}]
    [] n = 4 -> [image EXCEPT !.cues = {}]
    [] n = 5 -> [image EXCEPT !.nodes = {}, !.unattributed = {}]

\* The n-th statement of reset_projection_in_transaction.
Cleared(image, n) ==
  CASE n = 1 -> [image EXCEPT !.edges = {}, !.unsourced = {}]
    [] n = 2 -> [image EXCEPT !.spans = {}]
    [] n = 3 -> [image EXCEPT !.cues = {}]
    [] n = 4 -> [image EXCEPT !.nodes = {}, !.unattributed = {}]
    [] n = 5 -> [image EXCEPT !.projected = {}]

\* migrate calls it outside of any transaction: each statement is on its own.
ResetStatement(p) ==
  /\ At(p, "reset3") \/ At(p, "reset5")
  /\ MayWrite(p)
  /\ LET n == proc[p].done + 1
         others == {q \in live.torn \ {p} : InReset(q)}
     IN  /\ live' = [Cleared(live, n) EXCEPT !.torn = IF n = 5 THEN others ELSE @ \cup {p}]
         /\ Goto(p, IF n < 5 THEN [proc[p] EXCEPT !.done = n]
                    ELSE IF At(p, "reset3") THEN [at |-> "check5", from |-> proc[p].from]
                    ELSE [at |-> "stamp"])
  /\ UNCHANGED <<backup, steps, clock, setBack, left>>

RecordVersion(p) ==
  /\ At(p, "stamp")
  /\ MayWrite(p)
  /\ live' = [live EXCEPT !.version = Supported]
  /\ Goto(p, [at |-> "open"])
  /\ UNCHANGED <<backup, steps, clock, setBack, left>>

\* A write that waits longer than the busy timeout fails the open.
OpenTimesOut(p) ==
  /\ proc[p].at \in Writing
  /\ ~MayWrite(p)
  /\ Goto(p, Idle)
  /\ UNCHANGED <<live, backup, steps, clock, setBack, left>>

-----------------------------------------------------------------------------
(* Work on an open database.                                               *)

AppendEvent(p, key) ==
  /\ At(p, "open") /\ MayWrite(p)
  /\ key \notin Keys(live)
  /\ Spend("append")
  /\ live' = [live EXCEPT !.ledger = @ \cup {[key |-> key, from |-> <<>>]}]
  /\ UNCHANGED <<backup, steps, proc, clock, setBack>>

\* One row folded in: its node, its citations and cues, its edges, its mark.
Folded(image, key) ==
  [image EXCEPT !.nodes = @ \cup {key}, !.spans = @ \cup {key},
                !.cues = @ \cup {key}, !.projected = @ \cup {key},
                !.edges = @ \cup {<<key, other>> : other \in image.nodes \cup {key}}]

Project(p, key) ==
  /\ At(p, "open") /\ MayWrite(p)
  /\ key \in Keys(live) \ live.projected
  /\ Spend("project")
  /\ live' = WrittenBy(p, Folded(live, key))
  /\ UNCHANGED <<backup, steps, proc, clock, setBack>>

Orders(keys) ==
  {order \in [keys -> 1..Cardinality(keys)] : \A k, l \in keys : order[k] = order[l] => k = l}

\* Rows folded in one after another.
Replayed(image, keys, order) ==
  [image EXCEPT !.nodes = @ \cup keys, !.spans = @ \cup keys,
                !.cues = @ \cup keys, !.projected = @ \cup keys,
                !.edges = @ \cup {e \in keys \X keys : order[e[2]] <= order[e[1]]}]

\* rebuild_projection: the same reset, and the replay of all rows or of as many
\* as max_events allows, at least one, in one transaction; a provider replays
\* the rows it has stored batches for, which may be those that were projected.
Rebuild(p) ==
  /\ At(p, "open") /\ MayWrite(p)
  /\ Spend("rebuild")
  /\ LET cleared == Cleared(Cleared(Cleared(Cleared(Cleared(live, 1), 2), 3), 4), 5)
     IN  \E keys \in SUBSET Keys(live) : \E order \in Orders(keys) :
           /\ keys = {} => live.projected = {}
           /\ live' = WrittenBy(p, [Replayed(cleared, keys, order) EXCEPT
                                      !.torn = {q \in @ : InReset(q)}])
  /\ UNCHANGED <<backup, steps, proc, clock, setBack>>

Close(p) ==
  /\ At(p, "open")
  /\ Goto(p, Idle)
  /\ UNCHANGED <<live, backup, steps, clock, setBack, left>>

\* The process is killed: its open transaction goes, its statements stay.
Crash(p) ==
  /\ proc[p].at \notin {"closed", "open"}
  /\ Spend("crash")
  /\ Goto(p, Idle)
  /\ UNCHANGED <<live, backup, steps, clock, setBack>>

-----------------------------------------------------------------------------
(* Imports: one transaction for a file.                                    *)

StartImport(p) ==
  /\ At(p, "open") /\ MayWrite(p)
  /\ Spend("import")
  /\ \E items \in {JsonlOutcomes(Lines), JournalOutcomes(steps)} :
       Goto(p, [at |-> "import", items |-> items, next |-> 1, ledger |-> live.ledger,
                report |-> NoReport])
  /\ UNCHANGED <<live, backup, steps, clock, setBack>>

\* mutant of ImportItem: what an import adds is visible before it commits
ImportItemAtOnce(p) ==
  /\ At(p, "import") /\ proc[p].next <= Len(proc[p].items)
  /\ LET outcome == proc[p].items[proc[p].next]
         row == [key |-> outcome[2], from |-> proc[p].items]
         isNew == IsEvent(outcome) /\ outcome[2] \notin Keys(live)
     IN  IF outcome = Bad
         THEN Goto(p, [at |-> "open"]) /\ UNCHANGED live
         ELSE /\ live' = IF isNew THEN [live EXCEPT !.ledger = @ \cup {row}] ELSE live
              /\ Goto(p, [proc[p] EXCEPT !.next = @ + 1, !.ledger = live'.ledger,
                                         !.report = Reported(@, outcome, isNew)])
  /\ UNCHANGED <<backup, steps, clock, setBack, left>>

\* ON CONFLICT DO NOTHING; an item that cannot be read rolls everything back.
ImportItem(p) ==
  /\ At(p, "import") /\ proc[p].next <= Len(proc[p].items)
  /\ LET outcome == proc[p].items[proc[p].next]
         isNew == IsEvent(outcome) /\ outcome[2] \notin Keys(proc[p])
         row == [key |-> outcome[2], from |-> proc[p].items]
     IN  Goto(p, IF outcome = Bad THEN [at |-> "open"]
                 ELSE [proc[p] EXCEPT !.next = @ + 1,
                                      !.ledger = IF isNew THEN @ \cup {row} ELSE @,
                                      !.report = Reported(@, outcome, isNew)])
  /\ UNCHANGED <<live, backup, steps, clock, setBack, left>>

CommitImport(p) ==
  /\ At(p, "import") /\ proc[p].next > Len(proc[p].items)
  /\ live' = [live EXCEPT !.ledger = proc[p].ledger]
  /\ Goto(p, [at |-> "open"])
  /\ UNCHANGED <<backup, steps, clock, setBack, left>>

\* beater.js goes on writing its journal: a running step ends.
StepEnds ==
  /\ Spend("journal")
  /\ \E i \in DOMAIN steps, status \in {"completed", "failed"} :
       /\ steps[i].status = "running"
       /\ steps' = [steps EXCEPT ![i].status = status]
  /\ UNCHANGED <<live, backup, proc, clock, setBack>>

-----------------------------------------------------------------------------
(* Backup and restore.                                                     *)

StartBackup(p) ==
  /\ At(p, "open")
  /\ backup = Absent
  /\ Spend("backup")
  /\ Goto(p, [at |-> "backup"])
  /\ UNCHANGED <<live, backup, steps, clock, setBack>>

\* SQLite's backup copies one committed state, whatever is written meanwhile.
CopyToBackup(p) ==
  /\ At(p, "backup")
  /\ backup' = live
  /\ Goto(p, [at |-> "open"])
  /\ UNCHANGED <<live, steps, clock, setBack, left>>

\* The source must be a database of this program and of no newer version.
Restorable(image) ==
  image # Absent /\ image.app = "memory" /\ image.version <= Supported

\* restore_from replaces the whole image and then migrates it.
Restore(p) ==
  /\ At(p, "open") /\ MayWrite(p)
  /\ Restorable(backup)
  /\ Spend("restore")
  /\ live' = WrittenBy(p, [backup EXCEPT
                             !.torn = @ \cup {q \in Procs : InReset(q)}])
  /\ Goto(p, [at |-> "identify"])
  /\ UNCHANGED <<backup, steps, clock, setBack>>

-----------------------------------------------------------------------------
(* The audit trail and maintenance.                                        *)

AppendAudit(p) ==
  /\ At(p, "open") /\ MayWrite(p)
  /\ Spend("audit")
  /\ live' = [live EXCEPT !.audit = @ \cup {[id |-> live.audits + 1, at |-> clock]},
                          !.audits = @ + 1]
  /\ UNCHANGED <<backup, steps, proc, clock, setBack>>

ClockMoves(now) ==
  /\ now # clock
  /\ Spend("clock")
  /\ clock' = now
  /\ setBack' = (setBack \/ now < clock)
  /\ UNCHANGED <<live, backup, steps, proc>>

Orphaned(image) ==
  [edges |-> {edge \in image.edges : ~({edge[1], edge[2]} \subseteq image.nodes)},
   spans |-> image.spans \ image.nodes,
   cues  |-> image.cues \ image.nodes]

Repaired(image) ==
  LET orphans == Orphaned(image)
  IN  [image EXCEPT !.edges = @ \ orphans.edges, !.unsourced = @ \ orphans.edges,
                    !.spans = @ \ orphans.spans, !.cues = @ \ orphans.cues]

\* maintenance_with_options: the orphans go in a transaction of their own,
RepairOrphans(p, options) ==
  /\ At(p, "open") /\ MayWrite(p)
  /\ Spend("maintain")
  /\ live' = Repaired(live)
  /\ Goto(p, [at |-> "prune", options |-> options])
  /\ UNCHANGED <<backup, steps, clock, setBack>>

Newer(a, b) == a.at > b.at \/ (a.at = b.at /\ a.id > b.id)

\* mutant of Retained: the oldest rows are kept
RetainedOldest(audit, keep) ==
  {row \in audit : Cardinality({other \in audit : Newer(row, other)}) < keep}

\* ORDER BY occurred_at DESC, id DESC LIMIT keep
Retained(audit, keep) ==
  {row \in audit : Cardinality({other \in audit : Newer(other, row)}) < keep}

\* and the audit trail in another: first by age, then to the newest rows.
PruneAudit(p) ==
  /\ At(p, "prune") /\ MayWrite(p)
  /\ LET young == {row \in live.audit : row.at >= proc[p].options.before}
         keep == proc[p].options.keep
     IN  live' = [live EXCEPT !.audit = IF keep = NoBound THEN young
                                        ELSE Retained(young, keep)]
  /\ Goto(p, [at |-> "open"])
  /\ UNCHANGED <<backup, steps, clock, setBack, left>>

-----------------------------------------------------------------------------
Init ==
  /\ \E s \in Scenarios :
       live = s.live /\ backup = s.backup /\ steps = s.steps /\ left = s.left
  /\ proc = [p \in Procs |-> Idle]
  /\ clock \in Clock
  /\ setBack = FALSE

Migrate(p) ==
  \/ Open(p) \/ Identify(p) \/ CreateTables(p) \/ AddColumns(p) \/ Backfill(p)
  \/ CheckClosures(p) \/ CheckEdges(p) \/ ResetStatement(p) \/ RecordVersion(p)
  \/ OpenTimesOut(p)

Import(p) == StartImport(p) \/ ImportItem(p) \/ CommitImport(p)

Next ==
  \/ \E p \in Procs :
       \/ Migrate(p) \/ Import(p)
       \/ \E key \in Remembered : AppendEvent(p, key)
       \/ \E key \in Keys(live) : Project(p, key)
       \/ Rebuild(p) \/ Close(p) \/ Crash(p)
       \/ StartBackup(p) \/ CopyToBackup(p) \/ Restore(p)
       \/ AppendAudit(p) \/ PruneAudit(p)
       \/ \E options \in Retentions : RepairOrphans(p, options)
  \/ StepEnds
  \/ \E now \in Clock : ClockMoves(now)

Spec == Init /\ [][Next]_vars

-----------------------------------------------------------------------------
Images == {live} \cup ({backup} \ {Absent})

\* Only keys of the ledger are marked and every history is of a process.
TypeOK ==
  /\ left \in [Operations -> Nat]
  /\ clock \in Clock /\ setBack \in BOOLEAN
  /\ \A p \in Procs :
       proc[p].at \in Upgrading \cup {"closed", "open", "import", "backup", "prune"}
  /\ \A image \in Images :
       /\ image.projected \subseteq Keys(image)
       /\ image.torn \subseteq Procs
       /\ image.unsourced \subseteq image.edges
       /\ image.unattributed \subseteq image.nodes

\* A row that is marked as projected is in the graph, with its citation, its
\* cues and its edges, in the database and in every backup of it, whatever
\* processes open, import, rebuild, restore and die: except where a reset of
\* an upgrade was begun and not ended, which migrate does not repair
\* (reset_projection_in_transaction, called by migrate without one).
ProjectedIsInGraph ==
  \A image \in Images :
    image.torn = {} =>
      \A key \in image.projected :
        /\ key \in image.nodes \cap image.spans \cap image.cues
        /\ <<key, key>> \in image.edges

\* Nothing in the graph refers to a node that is gone, at any statement of an
\* upgrade and wherever it is cut short, unless another process wrote to the
\* database while it was being upgraded (the order of the deletes in
\* reset_projection_in_transaction; graph_integrity counts such rows).
NoOrphans ==
  \A image \in Images :
    ~image.shared => /\ image.spans \cup image.cues \subseteq image.nodes
                     /\ \A edge \in image.edges : {edge[1], edge[2]} \subseteq image.nodes

\* The graph is whole: it has all of what is projected and refers to nothing
\* that it has not (migrate, with_immediate_transaction, backup_to).
GraphIsWhole == TypeOK /\ ProjectedIsInGraph /\ NoOrphans

\* A database that says it has the current version has no edge without a
\* source event and no closed node without a closing event: whatever cut an
\* upgrade short, the version is recorded last (migrate), unless another
\* process restored an old image under an upgrade.
CurrentIsUpgraded ==
  \A image \in Images :
    image.version = Supported /\ ~image.shared =>
      image.unsourced = {} /\ image.unattributed = {}

\* A file is in the ledger whole or not at all, in the database and in the
\* backups taken while it is imported; nothing of a file with an item that
\* cannot be read is there (import_into, import_canonical_jsonl).
ImportIsWhole == \A image \in Images : Whole(image)

\* What the ledger holds of a journal has ended, and is no write to memory
\* that failed, however the journal and its imports interleave
\* (should_skip_beater_js_step).
JournalRowsAreFinal ==
  \A image \in Images : \A i \in DOMAIN steps :
    StepKey(steps[i]) \in Keys(image) => Final(steps[i])

\* What was imported is what its file will ever say (imports.rs).
ImportsAreFinal == ImportIsWhole /\ JournalRowsAreFinal

\* The rows of the audit trail are the last ones appended, without a hole,
\* as long as the clock was not set back (prune_audit_events_in_transaction
\* orders rows by the wall clock, then by id).
AuditHasNoHoles ==
  ~setBack => {row.id : row \in live.audit}
                = (live.audits - Cardinality(live.audit) + 1) .. live.audits

\* A file of another program or of a newer version is never written to, as
\* the database or as a backup (validate_database_identity, migrate,
\* validate_restore_source, backup_to).
ForeignIsUntouched ==
  [][/\ live.app = "other" \/ live.version > Supported => UNCHANGED live
     /\ backup # Absent /\ (backup.app = "other" \/ backup.version > Supported)
          => UNCHANGED backup]_vars
=============================================================================
