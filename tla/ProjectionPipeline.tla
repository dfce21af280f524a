-------------------------- MODULE ProjectionPipeline --------------------------
(***************************************************************************)
(* The write side of beater-memory: ledger rows are appended by clients,   *)
(* projection workers (server requests and CLI processes, each with its    *)
(* own SQLite connection) turn pending rows into graph memories, and a     *)
(* rebuild clears the projection and replays the ledger.                   *)
(*                                                                         *)
(* A worker reads its batch of pending rows, the neighbours of each row    *)
(* and the distiller's answer OUTSIDE any transaction; only the write is a *)
(* BEGIN IMMEDIATE transaction.  After the commit, and outside it, the     *)
(* deterministic distiller replays later events against the memory that    *)
(* has just arrived ("late replay").  A worker may crash at any point.     *)
(*                                                                         *)
(* Data abstraction.  A ledger row is its idempotency key; the key fixes   *)
(* the observed time and the text.  A row contributes at most one claim,   *)
(* which carries the row's id.  A claim's closure is the id of the row     *)
(* that closed it: the code always writes valid_to_unix_ms and             *)
(* valid_to_event_id from one event.  The texts are abstracted to a table  *)
(* of overlap scores.  Updates within a family of versions and equal texts *)
(* are the subject of VersionFamilies, not of this module.                  *)
(***************************************************************************)
EXTENDS Integers, Sequences, FiniteSets

CONSTANTS
  Workers,       \* projection workers and rebuild callers
  Keys,          \* idempotency keys: tenant, project, trace, span, seq
  Observed,      \* the observed_at_unix_ms of each key's event
  Overlap,       \* Overlap[k][j] > 0: the text of k invalidates that of j
  Distiller,     \* "heuristic" or "command"
  Fingerprints,  \* replay fingerprints of the command distiller's settings
  Limits,        \* project/manage limits callers use
  Caps,          \* max_events of rebuilds; MaxEvents stands for no cap
  MaxEvents,     \* bound: rows in the ledger
  MaxRebuilds,   \* bound: rebuilds started
  MaxCrashes     \* bound: worker crashes

ASSUME ConstantsAssumption ==
  /\ Observed \in [Keys -> Nat]
  /\ Overlap \in [Keys -> [Keys -> Nat]]
  /\ Distiller \in {"heuristic", "command"}
  /\ Limits \subseteq Nat \ {0}
  /\ MaxEvents \in Nat
  /\ Caps \subseteq 1..MaxEvents
  /\ MaxRebuilds \in Nat
  /\ MaxCrashes \in Nat

Ids == 1..MaxEvents

NoId == 0

NoFingerprint == "none"

(***************************************************************************)
(* An accepted distillation: whether it states a claim, which neighbour it *)
(* invalidates, and which neighbour it is related to by a typed edge.      *)
(***************************************************************************)
Memories == [claim : BOOLEAN, target : Ids \cup {NoId}, relation : Ids \cup {NoId}]

NoMemory == [claim |-> FALSE, target |-> NoId, relation |-> NoId]

VARIABLES
  ledger,    \* ledger_events in order of id; an id is an index
  batches,   \* distillation_batches: records [id, fp, memory]
  db,        \* the committed projection (tables and projected markers)
  txn,       \* the rebuild transaction that holds the write lock
  worker,    \* local state of each worker
  rebuilds,  \* rebuilds started so far
  crashes    \* crashes so far

vars == <<ledger, batches, db, txn, worker, rebuilds, crashes>>

(***************************************************************************)
(* The projection is one value, so that a rebuild can work on a private    *)
(* copy inside its transaction.  applied counts how often the memories of  *)
(* a row were folded in, which the code shows as observation_count.        *)
(***************************************************************************)
Projections ==
  [projected : SUBSET Ids,
   applied   : [Ids -> Nat],
   claims    : SUBSET Ids,
   closer    : [Ids -> Ids \cup {NoId}],
   edges     : SUBSET (Ids \X Ids)]

EmptyProjection ==
  [projected |-> {},
   applied   |-> [i \in Ids |-> 0],
   claims    |-> {},
   closer    |-> [i \in Ids |-> NoId],
   edges     |-> {}]

Stages == {"idle", "scan", "commit", "lateScan", "lateRead", "lateApply", "rebuild"}

LocalStates ==
  [stage : Stages, queue : SUBSET Ids, event : Ids \cup {NoId},
   memory : Memories, late : SUBSET Ids, until : Ids \cup {NoId},
   fp : Fingerprints \cup {NoFingerprint}]

Idle ==
  [stage |-> "idle", queue |-> {}, event |-> NoId, memory |-> NoMemory,
   late |-> {}, until |-> NoId, fp |-> NoFingerprint]

TypeOK ==
  /\ ledger \in Seq(Keys) /\ Len(ledger) \in 0..MaxEvents
  /\ batches \subseteq [id : Ids, fp : Fingerprints, memory : Memories]
  /\ db \in Projections
  /\ txn \in [open : BOOLEAN, db : Projections, left : 0..MaxEvents, cap : 0..MaxEvents]
  /\ worker \in [Workers -> LocalStates]
  /\ rebuilds \in 0..MaxRebuilds
  /\ crashes \in 0..MaxCrashes

NoTxn == [open |-> FALSE, db |-> EmptyProjection, left |-> 0, cap |-> 0]

-----------------------------------------------------------------------------
(* Order and reads. *)

Rows == 1..Len(ledger)

Obs(i) == Observed[ledger[i]]

\* ORDER BY observed_at_unix_ms, id
Before(i, j) == Obs(i) < Obs(j) \/ (Obs(i) = Obs(j) /\ i < j)

\* mutant of IsFirst: ORDER BY id, the order of arrival
ArrivedFirst(i, S) == i \in S /\ \A j \in S \ {i} : i < j

IsFirst(i, S) == i \in S /\ \A j \in S \ {i} : Before(i, j)

FirstRows(S, n) == {i \in S : Cardinality({j \in S : Before(j, i)}) < n}

Pending(d) == Rows \ d.projected

\* mutant of StillPending: looks the row up without asking for its marker
IsInLedger(i) == i \in Rows

\* event_is_pending
StillPending(i) == i \in Pending(db)

\* claims valid at the observed time of row i
ActiveNeighbors(d, i) ==
  {n \in d.claims :
     /\ Obs(n) <= Obs(i)
     /\ d.closer[n] = NoId \/ Obs(d.closer[n]) > Obs(i)}

\* claims that were valid just before row i itself was applied
ProjectionNeighbors(d, i) ==
  {n \in d.claims :
     /\ Obs(n) <= Obs(i)
     /\ \/ d.closer[n] = NoId
        \/ Obs(d.closer[n]) > Obs(i)
        \/ Obs(d.closer[n]) = Obs(i) /\ d.closer[n] >= i
     /\ ~(Obs(n) = Obs(i) /\ n >= i)}

\* mutant of ProjectedAfter: the comparison the wrong way round
ProjectedBefore(d, i, until) == {j \in d.projected : Before(j, i)}

\* projected rows after row i, before the row that closes its claim
ProjectedAfter(d, i, until) ==
  {j \in d.projected : Before(i, j) /\ (until = NoId \/ Before(j, until))}

Score(i, j) == Overlap[ledger[i]][ledger[j]]

\* mutant of IsBestTarget: no overlap is needed
IsAnyTarget(i, t, S) ==
  IF S # {} THEN t \in S /\ \A n \in S : Score(i, t) >= Score(i, n) ELSE t = NoId

\* the neighbour the heuristic distiller makes row i invalidate
IsBestTarget(i, t, S) ==
  IF \E n \in S : Score(i, n) > 0
    THEN t \in S /\ \A n \in S : Score(i, t) >= Score(i, n)
    ELSE t = NoId

-----------------------------------------------------------------------------
(* Writes, as functions of the projection. *)

\* invalidate_node: the earliest closing event wins
MayClose(d, t, i) ==
  /\ t \in d.claims
  /\ Obs(t) <= Obs(i)
  /\ d.closer[t] = NoId \/ Before(i, d.closer[t])

\* upsert of the claim that carries row i; an existing version is reused
AddClaim(d, i) ==
  IF i \in d.claims THEN d
  ELSE [d EXCEPT !.claims = @ \cup {i}, !.closer[i] = NoId]

AddEdge(d, i, j) ==
  IF i = j THEN d ELSE [d EXCEPT !.edges = @ \cup {<<i, j>>}]

\* mutant of Invalidate: closes a claim and does not say why
InvalidateSilently(d, t, i, hasClaim) ==
  IF ~MayClose(d, t, i) THEN d ELSE [d EXCEPT !.closer[t] = i]

\* supersedes/contradicts edges exist only for a closure that took effect
Invalidate(d, t, i, hasClaim) ==
  IF ~MayClose(d, t, i) THEN d
  ELSE LET closed == [d EXCEPT !.closer[t] = i]
       IN  IF hasClaim THEN AddEdge(closed, i, t) ELSE closed

Apply(d, i, m) ==
  LET stated == IF m.claim THEN AddClaim(d, i) ELSE d
      closed == IF m.target = NoId THEN stated
                ELSE Invalidate(stated, m.target, i, m.claim)
  IN  IF m.relation = NoId THEN closed ELSE AddEdge(closed, i, m.relation)

\* mutant of Project: the row is not marked
ProjectUnmarked(d, i, m) == [Apply(d, i, m) EXCEPT !.applied[i] = @ + 1]

\* project_event_memories_in_transaction after its pending check
Project(d, i, m) ==
  [Apply(d, i, m) EXCEPT !.projected = @ \cup {i}, !.applied[i] = @ + 1]

(***************************************************************************)
(* What a distiller may answer for row i given its neighbours, after       *)
(* validation.  The heuristic always states a claim and picks the best     *)
(* target.  A provider chooses freely, but targets must be neighbours.     *)
(***************************************************************************)
Valid(m, S) ==
  /\ m.target \in S \cup {NoId}
  /\ m.relation \in S \cup {NoId}
  /\ m.relation # NoId => m.claim

HeuristicAnswer(i, m, S) ==
  /\ m.claim
  /\ m.relation = NoId
  /\ IsBestTarget(i, m.target, S)

Accepts(i, m, S) ==
  IF Distiller = "heuristic" THEN HeuristicAnswer(i, m, S) ELSE Valid(m, S)

-----------------------------------------------------------------------------
(* The ledger. *)

\* append_event: INSERT OR IGNORE, so a retried key changes nothing
AppendEvent(k) ==
  /\ ~txn.open
  /\ Len(ledger) < MaxEvents
  /\ \A i \in Rows : ledger[i] # k
  /\ ledger' = Append(ledger, k)
  /\ UNCHANGED <<batches, db, txn, worker, rebuilds, crashes>>

-----------------------------------------------------------------------------
(* project_pending, one worker's pass over a snapshot of pending rows. *)

\* mutant of NextRow: the row stays at the head of the batch
NextRowAgain(s, i) == [Idle EXCEPT !.stage = "scan", !.queue = s.queue, !.fp = s.fp]

\* the pass after a row is done with
NextRow(s, i) ==
  IF s.queue \ {i} = {} THEN Idle
  ELSE [Idle EXCEPT !.stage = "scan", !.queue = s.queue \ {i}, !.fp = s.fp]

\* worker w is about to distil pending row i
AtRow(w, i) ==
  /\ worker[w].stage = "scan"
  /\ IsFirst(i, worker[w].queue)
  /\ StillPending(i)

StartPass(w, n, f) ==
  /\ worker[w].stage = "idle"
  /\ Pending(db) # {}
  /\ worker' = [worker EXCEPT ![w] =
       [@ EXCEPT !.stage = "scan", !.queue = FirstRows(Pending(db), n), !.fp = f]]
  /\ UNCHANGED <<ledger, batches, db, txn, rebuilds, crashes>>

\* event_is_pending says no: another worker was faster
SkipRow(w, i) ==
  /\ worker[w].stage = "scan"
  /\ IsFirst(i, worker[w].queue)
  /\ ~StillPending(i)
  /\ worker' = [worker EXCEPT ![w] = NextRow(@, i)]
  /\ UNCHANGED <<ledger, batches, db, txn, rebuilds, crashes>>

\* reads the neighbours and runs the distiller, both outside a transaction
Distill(w, i, m) ==
  /\ AtRow(w, i)
  /\ Accepts(i, m, ActiveNeighbors(db, i))
  /\ worker' = [worker EXCEPT ![w] =
       [@ EXCEPT !.stage = "commit", !.event = i, !.memory = m]]
  /\ UNCHANGED <<ledger, batches, db, txn, rebuilds, crashes>>

\* a rejected row is skipped and stays pending
RejectRow(w, i) ==
  /\ Distiller = "command"
  /\ AtRow(w, i)
  /\ worker' = [worker EXCEPT ![w] = NextRow(@, i)]
  /\ UNCHANGED <<ledger, batches, db, txn, rebuilds, crashes>>

\* an answer that fails validation is an error and ends the whole pass
FailPass(w, i) ==
  /\ Distiller = "command"
  /\ AtRow(w, i)
  /\ worker' = [worker EXCEPT ![w] = Idle]
  /\ UNCHANGED <<ledger, batches, db, txn, rebuilds, crashes>>

\* mutant of PutBatch: replaces every batch of the fingerprint
PutOnlyBatch(i, f, m) == {b \in batches : b.fp # f} \cup {[id |-> i, fp |-> f, memory |-> m]}

\* INSERT OR REPLACE under the key of row and fingerprint
PutBatch(i, f, m) ==
  {b \in batches : ~(b.id = i /\ b.fp = f)} \cup {[id |-> i, fp |-> f, memory |-> m]}

\* the transaction: recheck, store the batch, apply, mark
CommitRow(w) ==
  LET i == worker[w].event
      m == worker[w].memory
  IN  /\ worker[w].stage = "commit"
      /\ ~txn.open
      /\ StillPending(i)
      /\ db' = Project(db, i, m)
      /\ batches' = IF Distiller = "command" THEN PutBatch(i, worker[w].fp, m)
                    ELSE batches
      /\ worker' = [worker EXCEPT ![w] =
           IF Distiller = "heuristic"
             THEN [@ EXCEPT !.stage = "lateScan",
                            !.until = IF i \in db.claims THEN db.closer[i] ELSE NoId]
             ELSE NextRow(@, i)]
      /\ UNCHANGED <<ledger, txn, rebuilds, crashes>>

\* the recheck fails: the answer is discarded
DiscardRow(w) ==
  /\ worker[w].stage = "commit"
  /\ ~txn.open
  /\ ~StillPending(worker[w].event)
  /\ worker' = [worker EXCEPT ![w] = NextRow(@, worker[w].event)]
  /\ UNCHANGED <<ledger, batches, db, txn, rebuilds, crashes>>

\* BEGIN IMMEDIATE gives up after the busy timeout: the pass ends in an error
BusyTimeout(w) ==
  /\ worker[w].stage \in {"commit", "lateApply"}
  /\ txn.open
  /\ worker' = [worker EXCEPT ![w] = Idle]
  /\ UNCHANGED <<ledger, batches, db, txn, rebuilds, crashes>>

-----------------------------------------------------------------------------
(* Late replay of projected rows against the claim that just arrived. *)

LateScan(w) ==
  LET i == worker[w].event
      after == ProjectedAfter(db, i, worker[w].until)
  IN  /\ worker[w].stage = "lateScan"
      /\ worker' = [worker EXCEPT ![w] =
           IF after = {} THEN NextRow(@, i)
           ELSE [@ EXCEPT !.stage = "lateRead", !.late = after]]
      /\ UNCHANGED <<ledger, batches, db, txn, rebuilds, crashes>>

\* the replay after later row j is done with
NextLate(s, j) ==
  IF s.late \ {j} = {} THEN NextRow(s, s.event)
  ELSE [s EXCEPT !.stage = "lateRead", !.late = @ \ {j}]

\* reads the neighbours of later row j and distils it again
LateRead(w, j) ==
  LET i == worker[w].event
      near == ProjectionNeighbors(db, j)
  IN  /\ worker[w].stage = "lateRead"
      /\ IsFirst(j, worker[w].late)
      /\ worker' = [worker EXCEPT ![w] =
           IF i \in near /\ IsBestTarget(j, i, near)
             THEN [@ EXCEPT !.stage = "lateApply"]
             ELSE NextLate(@, j)]
      /\ UNCHANGED <<ledger, batches, db, txn, rebuilds, crashes>>

\* apply_late_invalidation, a transaction of its own; stops after a success
LateApply(w, j) ==
  LET i == worker[w].event
      stated == AddClaim(db, j)
  IN  /\ worker[w].stage = "lateApply"
      /\ ~txn.open
      /\ IsFirst(j, worker[w].late)
      /\ db' = Invalidate(stated, i, j, TRUE)
      /\ worker' = [worker EXCEPT ![w] =
           IF MayClose(stated, i, j) THEN NextRow(@, i) ELSE NextLate(@, j)]
      /\ UNCHANGED <<ledger, batches, txn, rebuilds, crashes>>

-----------------------------------------------------------------------------
(* rebuild_projection: one transaction around reset and replay. *)

Covered(i, f) == \E b \in batches : b.id = i /\ b.fp = f

\* mutant of CanReplay: some batch of the fingerprint is enough
HasBatch(f) == Distiller = "command" => \E b \in batches : b.fp = f

\* projected_events_missing_distillation_batches finds none
CanReplay(f) == Distiller = "command" => \A i \in db.projected : Covered(i, f)

\* mutant of OpenTxn: one row too many
OpenTxnOneMore(cap) == [open |-> TRUE, db |-> EmptyProjection, left |-> cap + 1, cap |-> cap]

\* BEGIN IMMEDIATE and reset_projection
OpenTxn(cap) == [open |-> TRUE, db |-> EmptyProjection, left |-> cap, cap |-> cap]

RebuildBegin(w, cap, f) ==
  /\ worker[w].stage = "idle"
  /\ ~txn.open
  /\ rebuilds < MaxRebuilds
  /\ CanReplay(f)
  /\ txn' = OpenTxn(cap)
  /\ worker' = [worker EXCEPT ![w] = [@ EXCEPT !.stage = "rebuild", !.fp = f]]
  /\ rebuilds' = rebuilds + 1
  /\ UNCHANGED <<ledger, batches, db, crashes>>

\* rows the rebuild can still replay
Replayable(w) ==
  {i \in Pending(txn.db) : Distiller = "command" => Covered(i, worker[w].fp)}

\* the memory the rebuild applies for row i: distilled anew, or stored
Replays(w, i, m) ==
  IF Distiller = "heuristic"
    THEN Accepts(i, m, ActiveNeighbors(txn.db, i))
    ELSE [id |-> i, fp |-> worker[w].fp, memory |-> m] \in batches

RebuildRow(w, i, m) ==
  /\ worker[w].stage = "rebuild"
  /\ txn.left > 0
  /\ IsFirst(i, Replayable(w))
  /\ Replays(w, i, m)
  /\ Accepts(i, m, ActiveNeighbors(txn.db, i))
  /\ txn' = [txn EXCEPT !.db = Project(@, i, m), !.left = @ - 1]
  /\ UNCHANGED <<ledger, batches, db, worker, rebuilds, crashes>>

\* a stored memory no longer validates: everything is rolled back
RebuildReject(w, i, m) ==
  /\ worker[w].stage = "rebuild"
  /\ txn.left > 0
  /\ IsFirst(i, Replayable(w))
  /\ Replays(w, i, m)
  /\ ~Accepts(i, m, ActiveNeighbors(txn.db, i))
  /\ txn' = NoTxn
  /\ worker' = [worker EXCEPT ![w] = Idle]
  /\ UNCHANGED <<ledger, batches, db, rebuilds, crashes>>

RebuildCommit(w) ==
  /\ worker[w].stage = "rebuild"
  /\ txn.left = 0 \/ Replayable(w) = {}
  /\ db' = txn.db
  /\ txn' = NoTxn
  /\ worker' = [worker EXCEPT ![w] = Idle]
  /\ UNCHANGED <<ledger, batches, rebuilds, crashes>>

-----------------------------------------------------------------------------
(* A process dies: its open transaction is rolled back, its pass is lost. *)

Crash(w) ==
  /\ worker[w].stage # "idle"
  /\ crashes < MaxCrashes
  /\ crashes' = crashes + 1
  /\ txn' = IF worker[w].stage = "rebuild" THEN NoTxn ELSE txn
  /\ worker' = [worker EXCEPT ![w] = Idle]
  /\ UNCHANGED <<ledger, batches, db, rebuilds>>

-----------------------------------------------------------------------------
Init ==
  /\ ledger = <<>>
  /\ batches = {}
  /\ db = EmptyProjection
  /\ txn = NoTxn
  /\ worker = [w \in Workers |-> Idle]
  /\ rebuilds = 0
  /\ crashes = 0

Pass(w) ==
  \/ \E i \in Ids : SkipRow(w, i)
  \/ \E i \in Ids, m \in Memories : Distill(w, i, m)
  \/ \E i \in Ids : RejectRow(w, i)
  \/ \E i \in Ids : FailPass(w, i)
  \/ CommitRow(w)
  \/ DiscardRow(w)
  \/ BusyTimeout(w)
  \/ LateScan(w)
  \/ \E j \in Ids : LateRead(w, j)
  \/ \E j \in Ids : LateApply(w, j)

Rebuild(w) ==
  \/ \E i \in Ids, m \in Memories : RebuildRow(w, i, m)
  \/ \E i \in Ids, m \in Memories : RebuildReject(w, i, m)
  \/ RebuildCommit(w)

Next ==
  \/ \E k \in Keys : AppendEvent(k)
  \/ \E w \in Workers :
       \/ \E n \in Limits, f \in Fingerprints : StartPass(w, n, f)
       \/ Pass(w)
       \/ \E c \in Caps, f \in Fingerprints : RebuildBegin(w, c, f)
       \/ Rebuild(w)
       \/ Crash(w)

Spec == Init /\ [][Next]_vars

(***************************************************************************)
(* A worker that has started keeps running, and someone keeps calling      *)
(* manage while rows are pending (remember does so by default). The stages *)
(* in front repeat what the actions require.                               *)
(***************************************************************************)
Fairness ==
  \A w \in Workers :
    /\ WF_vars(worker[w].stage = "idle"
                 /\ \E n \in Limits, f \in Fingerprints : StartPass(w, n, f))
    /\ WF_vars(worker[w].stage \notin {"idle", "rebuild"} /\ Pass(w))
    /\ WF_vars(worker[w].stage = "rebuild" /\ Rebuild(w))

FairSpec == Spec /\ Fairness

-----------------------------------------------------------------------------
(* Properties. *)

(***************************************************************************)
(* Every row's memories are in the projection exactly once while the row   *)
(* is marked projected, and not at all while it is pending, whatever       *)
(* workers, rebuilds and crashes interleave.  A stale pending row is not   *)
(* double-counted (engine.rs, the recheck inside the transaction).         *)
(***************************************************************************)
ExactlyOnce ==
  \A i \in Ids : db.applied[i] = IF i \in db.projected THEN 1 ELSE 0

(***************************************************************************)
(* The projection holds a claim only of rows marked projected: claim and   *)
(* marker commit together.                                                 *)
(***************************************************************************)
ClaimsAreProjected == db.claims \subseteq db.projected

(***************************************************************************)
(* With the command distiller every projected row has a stored batch, so   *)
(* that a rebuild has something to replay for it.                          *)
(***************************************************************************)
BatchesCoverProjected ==
  Distiller = "command" =>
    \A i \in db.projected : \E f \in Fingerprints : Covered(i, f)

(***************************************************************************)
(* A closure is justified: the closing row is projected, is not observed   *)
(* before the claim it closes, and with the heuristic distiller its text   *)
(* really invalidates that claim.                                          *)
(***************************************************************************)
ClosuresAreJustified ==
  \A i \in Ids : db.closer[i] # NoId =>
    /\ i \in db.claims
    /\ db.closer[i] \in db.projected
    /\ Obs(i) <= Obs(db.closer[i])
    /\ Distiller = "heuristic" => Score(db.closer[i], i) > 0

(***************************************************************************)
(* Edges connect claims that exist, and a closure by a row that states a   *)
(* claim is explained by an edge from that claim.                          *)
(***************************************************************************)
EdgesAreGrounded ==
  /\ db.edges \subseteq db.claims \X db.claims
  /\ \A i \in db.claims :
       db.closer[i] \in db.claims \ {i} => <<db.closer[i], i>> \in db.edges

(***************************************************************************)
(* What the projection says rests on the ledger: its claims, its closures  *)
(* and its edges.                                                          *)
(***************************************************************************)
ProjectionIsGrounded == ClaimsAreProjected /\ ClosuresAreJustified /\ EdgesAreGrounded

(***************************************************************************)
(* A rebuild without a cap loses no projected row: it commits with every   *)
(* row projected that was projected when it began.                         *)
(***************************************************************************)
RebuildKeepsProjected ==
  [][\A w \in Workers :
       RebuildCommit(w) /\ txn.cap = MaxEvents => db.projected \subseteq db'.projected]_vars

Quiet(w) ==
  Pending(db) = {} /\ \A v \in Workers \ {w} : worker[v].stage = "idle"

(***************************************************************************)
(* Late replay makes arrival order irrelevant: once nothing is pending and *)
(* no worker is busy, a full rebuild leaves every claim open or closed by  *)
(* the same row as before (tests late_arrival_*_converges_after_rebuild).  *)
(***************************************************************************)
RebuildConverges ==
  [][\A w \in Workers :
       RebuildCommit(w) /\ txn.cap = MaxEvents /\ Quiet(w)
         => /\ db'.closer = db.closer
            /\ db'.claims = db.claims]_vars

OneAtATime ==
  /\ crashes = 0
  /\ \A v, w \in Workers :
       worker[v].stage # "idle" /\ worker[w].stage # "idle" => v = w

\* a full rebuild has replayed all it will, and nothing was pending before it
RebuiltInFull ==
  \E w \in Workers :
    /\ worker[w].stage = "rebuild" /\ txn.cap = MaxEvents /\ Quiet(w)
    /\ txn.left = 0 \/ Replayable(w) = {}

(***************************************************************************)
(* It is, as long as workers never overlap and never crash: what a full    *)
(* rebuild is about to commit has the claims and closures there were       *)
(* before it, those that late replay made among them.                      *)
(***************************************************************************)
ConvergesUndisturbed ==
  []OneAtATime =>
    [](RebuiltInFull => txn.db.closer = db.closer /\ txn.db.claims = db.claims)

(***************************************************************************)
(* A rebuild that found complete batches never fails on one of them.       *)
(***************************************************************************)
StoredBatchesReplay ==
  [][\A w \in Workers, i \in Ids, m \in Memories : ~RebuildReject(w, i, m)]_vars

(***************************************************************************)
(* The pipeline implements the abstract contract: rows are folded in once, *)
(* a rebuild is one step and leaves no gap in the observed order.          *)
(***************************************************************************)
Contract == INSTANCE ProjectionContract WITH folded <- db.applied

ImplementsContract == Contract!Spec

(***************************************************************************)
(* With fair workers it implements the contract's progress too: a pending  *)
(* row is not left behind while rebuilds and crashes are finitely many.    *)
(***************************************************************************)
ImplementsFairContract == Contract!FairSpec

=============================================================================
