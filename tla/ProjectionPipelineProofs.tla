----------------------- MODULE ProjectionPipelineProofs -----------------------
(***************************************************************************)
(* Proofs about ProjectionPipeline for any number of workers, rows, keys,  *)
(* fingerprints, rebuilds and crashes.                                     *)
(***************************************************************************)
EXTENDS ProjectionPipeline, FiniteSetTheorems, TLAPS

(***************************************************************************)
(* Writes keep the shape of a projection.                                  *)
(***************************************************************************)

\* upsert_node of a claim touches neither markers nor counts
LEMMA AddClaimType ==
  ASSUME NEW d \in Projections, NEW i \in Ids
  PROVE  /\ AddClaim(d, i) \in Projections
         /\ AddClaim(d, i).projected = d.projected
         /\ AddClaim(d, i).applied = d.applied
BY DEF AddClaim, Projections, NoId

\* an edge between rows
LEMMA AddEdgeType ==
  ASSUME NEW d \in Projections, NEW i \in Ids, NEW j \in Ids
  PROVE  /\ AddEdge(d, i, j) \in Projections
         /\ AddEdge(d, i, j).projected = d.projected
         /\ AddEdge(d, i, j).applied = d.applied
BY DEF AddEdge, Projections

\* invalidate_node with its edges
LEMMA InvalidateType ==
  ASSUME NEW d \in Projections, NEW t, NEW i \in Ids, NEW c \in BOOLEAN
  PROVE  /\ Invalidate(d, t, i, c) \in Projections
         /\ Invalidate(d, t, i, c).projected = d.projected
         /\ Invalidate(d, t, i, c).applied = d.applied
<1>1. CASE ~MayClose(d, t, i)
  BY <1>1 DEF Invalidate
<1>2. CASE MayClose(d, t, i)
  <2> DEFINE closed == [d EXCEPT !.closer[t] = i]
  <2>1. t \in Ids
    BY <1>2 DEF MayClose, Projections
  <2>2. /\ closed \in Projections
        /\ closed.projected = d.projected
        /\ closed.applied = d.applied
    BY <2>1 DEF Projections
  <2>3. Invalidate(d, t, i, c) = IF c THEN AddEdge(closed, i, t) ELSE closed
    BY <1>2 DEF Invalidate
  <2> HIDE DEF closed
  <2>4. QED BY <2>1, <2>2, <2>3, AddEdgeType
<1>3. QED BY <1>1, <1>2

\* applying a memory changes neither markers nor counts
LEMMA ApplyType ==
  ASSUME NEW d \in Projections, NEW i \in Ids, NEW m \in Memories
  PROVE  /\ Apply(d, i, m) \in Projections
         /\ Apply(d, i, m).projected = d.projected
         /\ Apply(d, i, m).applied = d.applied
<1> DEFINE stated == IF m.claim THEN AddClaim(d, i) ELSE d
           closed == IF m.target = NoId THEN stated
                     ELSE Invalidate(stated, m.target, i, m.claim)
<1>1. /\ m.claim \in BOOLEAN
      /\ m.relation = NoId \/ m.relation \in Ids
  BY DEF Memories
<1>2. /\ stated \in Projections
      /\ stated.projected = d.projected
      /\ stated.applied = d.applied
  BY AddClaimType
<1>3. /\ closed \in Projections
      /\ closed.projected = d.projected
      /\ closed.applied = d.applied
  <2> HIDE DEF stated
  <2>1. QED BY <1>1, <1>2, InvalidateType
<1>4. Apply(d, i, m) = IF m.relation = NoId THEN closed ELSE AddEdge(closed, i, m.relation)
  BY DEF Apply
<1> HIDE DEF closed
<1>5. QED BY <1>1, <1>3, <1>4, AddEdgeType

\* projecting a row marks it and counts it once more
LEMMA ProjectType ==
  ASSUME NEW d \in Projections, NEW i \in Ids, NEW m \in Memories
  PROVE  /\ Project(d, i, m) \in Projections
         /\ Project(d, i, m).projected = d.projected \cup {i}
         /\ Project(d, i, m).applied = [d.applied EXCEPT ![i] = @ + 1]
<1> DEFINE a == Apply(d, i, m)
<1>1. /\ a \in Projections
      /\ a.projected = d.projected
      /\ a.applied = d.applied
  BY ApplyType
<1>2. Project(d, i, m) = [a EXCEPT !.projected = @ \cup {i}, !.applied[i] = @ + 1]
  BY DEF Project
<1> HIDE DEF a
<1>3. a.applied \in [Ids -> Nat] /\ [a.applied EXCEPT ![i] = @ + 1] \in [Ids -> Nat]
  BY <1>1 DEF Projections
<1>4. Project(d, i, m) =
        [a EXCEPT !.projected = a.projected \cup {i},
                  !.applied = [a.applied EXCEPT ![i] = a.applied[i] + 1]]
  BY <1>1, <1>2, Zenon DEF Projections
<1>5. Project(d, i, m) \in Projections
  <2> DEFINE n == [a.applied EXCEPT ![i] = a.applied[i] + 1]
             q == a.projected \cup {i}
  <2>1. n \in [Ids -> Nat] /\ q \in SUBSET Ids
    BY <1>1, <1>3 DEF Projections
  <2>2. Project(d, i, m) = [a EXCEPT !.projected = q, !.applied = n]
    BY <1>4
  <2> HIDE DEF n, q
  <2>3. QED BY <1>1, <2>1, <2>2 DEF Projections
<1>6. /\ Project(d, i, m).projected = d.projected \cup {i}
      /\ Project(d, i, m).applied = [d.applied EXCEPT ![i] = @ + 1]
  BY <1>1, <1>4 DEF Projections
<1>7. QED BY <1>5, <1>6

(***************************************************************************)
(* The inductive invariant.  ExactlyOnce is not inductive: a rebuild works *)
(* on a copy that becomes the projection when it commits, so the copy      *)
(* satisfies it too, and the promises a rebuild makes about the rows it    *)
(* keeps rest on what it checked when it began and on the write lock.      *)
(***************************************************************************)
Once(d) == \A i \in Ids : d.applied[i] = IF i \in d.projected THEN 1 ELSE 0

\* a busy worker carries a real fingerprint
FpOK == \A w \in Workers : worker[w].stage # "idle" => worker[w].fp \in Fingerprints

\* only ledger rows are marked
OnlyRows == db.projected \subseteq Rows /\ txn.db.projected \subseteq Rows

\* the write lock has one owner, whose fingerprint covers what is projected
OwnerOK ==
  \A w \in Workers : worker[w].stage = "rebuild" =>
    /\ txn.open
    /\ \A v \in Workers : worker[v].stage = "rebuild" => v = w
    /\ Distiller = "command" =>
         /\ \A i \in db.projected : Covered(i, worker[w].fp)
         /\ \A i \in txn.db.projected : Covered(i, worker[w].fp)

\* the rebuild replays in order and misses nothing that was projected
NoGap ==
  txn.open => \A i \in txn.db.projected, j \in db.projected :
                Before(j, i) => j \in txn.db.projected

\* what is left of the cap is what has not been replayed
LeftOK ==
  txn.open => txn.left = txn.cap - Cardinality(txn.db.projected)

Sound ==
  /\ Once(db) /\ Once(txn.db)
  /\ OnlyRows
  /\ OwnerOK
  /\ NoGap
  /\ LeftOK
  /\ BatchesCoverProjected

IInv == TypeOK /\ FpOK /\ Sound

(***************************************************************************)
(* Type correctness.                                                       *)
(***************************************************************************)

\* what a worker's local state must satisfy
LocalOK(s) == s \in LocalStates /\ (s.stage # "idle" => s.fp \in Fingerprints)

LEMMA IdleOK == LocalOK(Idle)
BY DEF LocalOK, Idle, LocalStates, Stages, NoMemory, Memories

\* going on to the next pending row
LEMMA NextRowOK ==
  ASSUME NEW s, LocalOK(s), s.stage # "idle", NEW i
  PROVE  LocalOK(NextRow(s, i)) /\ NextRow(s, i).stage \in {"idle", "scan"}
<1>1. CASE s.queue \ {i} = {}
  BY <1>1, IdleOK DEF NextRow, Idle
<1>2. CASE s.queue \ {i} # {}
  <2>1. /\ NextRow(s, i) = [Idle EXCEPT !.stage = "scan", !.queue = s.queue \ {i}, !.fp = s.fp]
        /\ Idle \in LocalStates
        /\ s.queue \ {i} \in SUBSET Ids
        /\ s.fp \in Fingerprints
    BY <1>2, IdleOK DEF NextRow, LocalOK, LocalStates
  <2>2. QED BY <2>1 DEF LocalOK, LocalStates, Stages
<1>3. QED BY <1>1, <1>2

\* going on to the next later row
LEMMA NextLateOK ==
  ASSUME NEW s, LocalOK(s), s.stage # "idle", NEW j
  PROVE  LocalOK(NextLate(s, j)) /\ NextLate(s, j).stage \in {"idle", "scan", "lateRead"}
<1>1. CASE s.late \ {j} = {}
  BY <1>1, NextRowOK DEF NextLate
<1>2. CASE s.late \ {j} # {}
  <2>1. /\ NextLate(s, j) = [s EXCEPT !.stage = "lateRead", !.late = s.late \ {j}]
        /\ s.late \ {j} \in SUBSET Ids
    BY <1>2 DEF NextLate, LocalOK, LocalStates
  <2>2. QED BY <2>1 DEF LocalOK, LocalStates, Stages
<1>3. QED BY <1>1, <1>2

\* a worker moves to a proper local state
LEMMA MoveOK ==
  ASSUME worker \in [Workers -> LocalStates], FpOK, NEW w \in Workers,
         NEW s, LocalOK(s), worker' = [worker EXCEPT ![w] = s]
  PROVE  worker' \in [Workers -> LocalStates] /\ FpOK'
BY DEF FpOK, LocalOK

LEMMA EmptyProjectionType == EmptyProjection \in Projections
BY DEF EmptyProjection, Projections, NoId

LEMMA InitType == Init => TypeOK /\ FpOK
<1> SUFFICES ASSUME Init PROVE TypeOK /\ FpOK
  OBVIOUS
<1>1. NoTxn \in [open : BOOLEAN, db : Projections, left : 0..MaxEvents, cap : 0..MaxEvents]
  BY EmptyProjectionType, ConstantsAssumption DEF NoTxn
<1>2. /\ worker \in [Workers -> LocalStates]
      /\ FpOK
  BY IdleOK DEF Init, FpOK, LocalOK, Idle
<1>3. ledger \in Seq(Keys) /\ Len(ledger) \in 0..MaxEvents
  BY ConstantsAssumption DEF Init
<1>4. QED
  BY <1>1, <1>2, <1>3, EmptyProjectionType, ConstantsAssumption DEF Init, TypeOK

\* the parts of the type invariant, one by one
LEMMA LocalType ==
  ASSUME TypeOK, FpOK, NEW w \in Workers
  PROVE  /\ LocalOK(worker[w])
         /\ worker[w] = [stage |-> worker[w].stage, queue |-> worker[w].queue,
                         event |-> worker[w].event, memory |-> worker[w].memory,
                         late |-> worker[w].late, until |-> worker[w].until,
                         fp |-> worker[w].fp]
BY DEF TypeOK, FpOK, LocalOK, LocalStates

LEMMA TypeStep == TypeOK /\ FpOK /\ [Next]_vars => TypeOK' /\ FpOK'
<1> SUFFICES ASSUME TypeOK, FpOK, [Next]_vars PROVE TypeOK' /\ FpOK'
  OBVIOUS
<1> USE ConstantsAssumption
<1>a. /\ ledger \in Seq(Keys)
      /\ worker \in [Workers -> LocalStates]
      /\ db \in Projections
      /\ txn.db \in Projections
      /\ Rows \subseteq Ids
  BY DEF TypeOK, Rows, Ids
<1>1. ASSUME NEW k \in Keys, AppendEvent(k) PROVE TypeOK' /\ FpOK'
  BY <1>1 DEF AppendEvent, TypeOK, FpOK
<1>2. ASSUME NEW w \in Workers, NEW n \in Limits, NEW f \in Fingerprints, StartPass(w, n, f)
      PROVE  TypeOK' /\ FpOK'
  <2> DEFINE s == [worker[w] EXCEPT !.stage = "scan", !.queue = FirstRows(Pending(db), n), !.fp = f]
  <2>1. FirstRows(Pending(db), n) \in SUBSET Ids
    BY <1>a DEF FirstRows, Pending
  <2>2. LocalOK(s)
    BY <2>1, LocalType DEF LocalOK, LocalStates, Stages
  <2>3. worker' = [worker EXCEPT ![w] = s]
    BY <1>2 DEF StartPass
  <2> HIDE DEF s
  <2>4. worker' \in [Workers -> LocalStates] /\ FpOK'
    BY <2>2, <2>3, <1>a, MoveOK
  <2>5. QED BY <1>2, <2>4 DEF StartPass, TypeOK
<1>3. ASSUME NEW w \in Workers, NEW i \in Ids, SkipRow(w, i) PROVE TypeOK' /\ FpOK'
  <2>1. worker' \in [Workers -> LocalStates] /\ FpOK'
    <3>1. LocalOK(NextRow(worker[w], i))
      BY <1>3, LocalType, NextRowOK DEF SkipRow
    <3>2. QED BY <1>3, <3>1, <1>a, MoveOK DEF SkipRow
  <2>2. QED BY <1>3, <2>1 DEF SkipRow, TypeOK
<1>4. ASSUME NEW w \in Workers, NEW i \in Ids, NEW m \in Memories, Distill(w, i, m)
      PROVE  TypeOK' /\ FpOK'
  <2> DEFINE s == [worker[w] EXCEPT !.stage = "commit", !.event = i, !.memory = m]
  <2>1. worker[w].stage # "idle"
    BY <1>4 DEF Distill, AtRow
  <2>2. LocalOK(s)
    BY <2>1, LocalType DEF LocalOK, LocalStates, Stages
  <2>3. worker' = [worker EXCEPT ![w] = s]
    BY <1>4 DEF Distill
  <2> HIDE DEF s
  <2>4. worker' \in [Workers -> LocalStates] /\ FpOK'
    BY <2>2, <2>3, <1>a, MoveOK
  <2>5. QED BY <1>4, <2>4 DEF Distill, TypeOK
<1>5. ASSUME NEW w \in Workers, NEW i \in Ids, RejectRow(w, i) PROVE TypeOK' /\ FpOK'
  <2>1. worker' \in [Workers -> LocalStates] /\ FpOK'
    <3>1. LocalOK(NextRow(worker[w], i))
      BY <1>5, LocalType, NextRowOK DEF RejectRow, AtRow
    <3>2. QED BY <1>5, <3>1, <1>a, MoveOK DEF RejectRow
  <2>2. QED BY <1>5, <2>1 DEF RejectRow, TypeOK
<1>6. ASSUME NEW w \in Workers, NEW i \in Ids, FailPass(w, i) PROVE TypeOK' /\ FpOK'
  <2>1. worker' \in [Workers -> LocalStates] /\ FpOK'
    BY <1>6, <1>a, IdleOK, MoveOK DEF FailPass
  <2>2. QED BY <1>6, <2>1 DEF FailPass, TypeOK
<1>7. ASSUME NEW w \in Workers, CommitRow(w) PROVE TypeOK' /\ FpOK'
  <2> DEFINE i == worker[w].event
             m == worker[w].memory
             u == IF i \in db.claims THEN db.closer[i] ELSE NoId
             s == IF Distiller = "heuristic"
                    THEN [worker[w] EXCEPT !.stage = "lateScan", !.until = u]
                    ELSE NextRow(worker[w], i)
  <2>1. /\ worker[w].stage = "commit"
        /\ i \in Ids
        /\ m \in Memories
        /\ worker[w].fp \in Fingerprints
    BY <1>7, <1>a, LocalType DEF CommitRow, StillPending, Pending, LocalOK, LocalStates
  <2>2. u \in Ids \cup {NoId}
    BY <1>a, <2>1 DEF Projections
  <2>3. LocalOK(s)
    <3> HIDE DEF u
    <3>1. LocalOK(NextRow(worker[w], i))
      BY <2>1, LocalType, NextRowOK
    <3>2. LocalOK([worker[w] EXCEPT !.stage = "lateScan", !.until = u])
      BY <2>1, <2>2, LocalType DEF LocalOK, LocalStates, Stages
    <3>3. QED BY <3>1, <3>2
  <2>4. worker' = [worker EXCEPT ![w] = s]
    BY <1>7 DEF CommitRow
  <2>5. worker' \in [Workers -> LocalStates] /\ FpOK'
    <3> HIDE DEF s
    <3>1. QED BY <2>3, <2>4, <1>a, MoveOK
  <2>6. db' \in Projections
    BY <1>7, <2>1, <1>a, ProjectType DEF CommitRow
  <2>7. batches' \subseteq [id : Ids, fp : Fingerprints, memory : Memories]
    BY <1>7, <2>1 DEF CommitRow, PutBatch, TypeOK
  <2>8. QED BY <1>7, <2>5, <2>6, <2>7 DEF CommitRow, TypeOK
<1>8. ASSUME NEW w \in Workers, DiscardRow(w) PROVE TypeOK' /\ FpOK'
  <2>1. worker' \in [Workers -> LocalStates] /\ FpOK'
    <3>1. LocalOK(NextRow(worker[w], worker[w].event))
      BY <1>8, LocalType, NextRowOK DEF DiscardRow
    <3>2. QED BY <1>8, <3>1, <1>a, MoveOK DEF DiscardRow
  <2>2. QED BY <1>8, <2>1 DEF DiscardRow, TypeOK
<1>9. ASSUME NEW w \in Workers, BusyTimeout(w) PROVE TypeOK' /\ FpOK'
  <2>1. worker' \in [Workers -> LocalStates] /\ FpOK'
    BY <1>9, <1>a, IdleOK, MoveOK DEF BusyTimeout
  <2>2. QED BY <1>9, <2>1 DEF BusyTimeout, TypeOK
<1>10. ASSUME NEW w \in Workers, LateScan(w) PROVE TypeOK' /\ FpOK'
  <2> DEFINE i == worker[w].event
             after == ProjectedAfter(db, i, worker[w].until)
             s == IF after = {} THEN NextRow(worker[w], i)
                  ELSE [worker[w] EXCEPT !.stage = "lateRead", !.late = after]
  <2>1. worker[w].stage = "lateScan" /\ LocalOK(worker[w])
    BY <1>10, LocalType DEF LateScan
  <2>2. after \in SUBSET Ids
    BY <1>a DEF ProjectedAfter, Projections
  <2>3. LocalOK(s)
    <3> HIDE DEF after
    <3>1. LocalOK(NextRow(worker[w], i))
      BY <2>1, NextRowOK
    <3>2. LocalOK([worker[w] EXCEPT !.stage = "lateRead", !.late = after])
      BY <2>1, <2>2, LocalType DEF LocalOK, LocalStates, Stages
    <3>3. QED BY <3>1, <3>2
  <2>4. worker' = [worker EXCEPT ![w] = s]
    BY <1>10 DEF LateScan
  <2>5. worker' \in [Workers -> LocalStates] /\ FpOK'
    <3> HIDE DEF s
    <3>1. QED BY <2>3, <2>4, <1>a, MoveOK
  <2>6. QED BY <1>10, <2>5 DEF LateScan, TypeOK
<1>11. ASSUME NEW w \in Workers, NEW j \in Ids, LateRead(w, j) PROVE TypeOK' /\ FpOK'
  <2>1. worker[w].stage = "lateRead" /\ LocalOK(worker[w])
    BY <1>11, LocalType DEF LateRead
  <2>2. LocalOK(NextLate(worker[w], j))
    BY <2>1, NextLateOK
  <2>3. LocalOK([worker[w] EXCEPT !.stage = "lateApply"])
    BY <2>1, LocalType DEF LocalOK, LocalStates, Stages
  <2>4. \/ worker' = [worker EXCEPT ![w] = NextLate(worker[w], j)]
        \/ worker' = [worker EXCEPT ![w] = [worker[w] EXCEPT !.stage = "lateApply"]]
    BY <1>11 DEF LateRead
  <2>5. worker' \in [Workers -> LocalStates] /\ FpOK'
    BY <2>2, <2>3, <2>4, <1>a, MoveOK
  <2>6. QED BY <1>11, <2>5 DEF LateRead, TypeOK
<1>12. ASSUME NEW w \in Workers, NEW j \in Ids, LateApply(w, j) PROVE TypeOK' /\ FpOK'
  <2>1. worker[w].stage = "lateApply" /\ LocalOK(worker[w])
    BY <1>12, LocalType DEF LateApply
  <2>2. /\ LocalOK(NextLate(worker[w], j))
        /\ LocalOK(NextRow(worker[w], worker[w].event))
    BY <2>1, NextLateOK, NextRowOK
  <2>3. \/ worker' = [worker EXCEPT ![w] = NextLate(worker[w], j)]
        \/ worker' = [worker EXCEPT ![w] = NextRow(worker[w], worker[w].event)]
    BY <1>12 DEF LateApply
  <2>4. worker' \in [Workers -> LocalStates] /\ FpOK'
    BY <2>2, <2>3, <1>a, MoveOK
  <2>5. db' \in Projections
    BY <1>12, <1>a, AddClaimType, InvalidateType DEF LateApply
  <2>6. QED BY <1>12, <2>4, <2>5 DEF LateApply, TypeOK
<1>13. ASSUME NEW w \in Workers, NEW c \in Caps, NEW f \in Fingerprints, RebuildBegin(w, c, f)
       PROVE  TypeOK' /\ FpOK'
  <2> DEFINE s == [worker[w] EXCEPT !.stage = "rebuild", !.fp = f]
  <2>1. LocalOK(s)
    BY LocalType DEF LocalOK, LocalStates, Stages
  <2>2. worker' = [worker EXCEPT ![w] = s]
    BY <1>13 DEF RebuildBegin
  <2> HIDE DEF s
  <2>3. worker' \in [Workers -> LocalStates] /\ FpOK'
    BY <2>1, <2>2, <1>a, MoveOK
  <2>4. txn' \in [open : BOOLEAN, db : Projections, left : 0..MaxEvents, cap : 0..MaxEvents]
    BY <1>13, EmptyProjectionType DEF RebuildBegin, OpenTxn
  <2>5. rebuilds' \in 0..MaxRebuilds
    BY <1>13 DEF RebuildBegin, TypeOK
  <2>6. QED BY <1>13, <2>3, <2>4, <2>5 DEF RebuildBegin, TypeOK
<1>b. NoTxn \in [open : BOOLEAN, db : Projections, left : 0..MaxEvents, cap : 0..MaxEvents]
  BY EmptyProjectionType DEF NoTxn
<1>14. ASSUME NEW w \in Workers, NEW i \in Ids, NEW m \in Memories, RebuildRow(w, i, m)
       PROVE  TypeOK' /\ FpOK'
  <2>1. Project(txn.db, i, m) \in Projections
    BY <1>a, ProjectType
  <2>2. txn.left - 1 \in 0..MaxEvents
    BY <1>14 DEF RebuildRow, TypeOK
  <2>3. txn' = [txn EXCEPT !.db = Project(txn.db, i, m), !.left = txn.left - 1]
    BY <1>14 DEF RebuildRow
  <2>4. txn' \in [open : BOOLEAN, db : Projections, left : 0..MaxEvents, cap : 0..MaxEvents]
    BY <2>1, <2>2, <2>3 DEF TypeOK
  <2>5. QED BY <1>14, <2>4 DEF RebuildRow, TypeOK, FpOK
<1>15. ASSUME NEW w \in Workers, NEW i \in Ids, NEW m \in Memories, RebuildReject(w, i, m)
       PROVE  TypeOK' /\ FpOK'
  <2>1. worker' \in [Workers -> LocalStates] /\ FpOK'
    BY <1>15, <1>a, IdleOK, MoveOK DEF RebuildReject
  <2>2. QED BY <1>15, <2>1, <1>b DEF RebuildReject, TypeOK
<1>16. ASSUME NEW w \in Workers, RebuildCommit(w) PROVE TypeOK' /\ FpOK'
  <2>1. worker' \in [Workers -> LocalStates] /\ FpOK'
    BY <1>16, <1>a, IdleOK, MoveOK DEF RebuildCommit
  <2>2. QED BY <1>16, <2>1, <1>a, <1>b DEF RebuildCommit, TypeOK
<1>17. ASSUME NEW w \in Workers, Crash(w) PROVE TypeOK' /\ FpOK'
  <2>1. worker' \in [Workers -> LocalStates] /\ FpOK'
    BY <1>17, <1>a, IdleOK, MoveOK DEF Crash
  <2>2. txn' \in [open : BOOLEAN, db : Projections, left : 0..MaxEvents, cap : 0..MaxEvents]
    BY <1>17, <1>b DEF Crash, TypeOK
  <2>3. crashes' \in 0..MaxCrashes
    BY <1>17 DEF Crash, TypeOK
  <2>4. QED BY <1>17, <2>1, <2>2, <2>3 DEF Crash, TypeOK
<1>18. CASE UNCHANGED vars
  BY <1>18 DEF vars, TypeOK, FpOK
<1>19. QED
  BY <1>1, <1>2, <1>3, <1>4, <1>5, <1>6, <1>7, <1>8, <1>9, <1>10, <1>11, <1>12,
     <1>13, <1>14, <1>15, <1>16, <1>17, <1>18 DEF Next, Pass, Rebuild

(***************************************************************************)
(* Every reachable state has its type.                                     *)
(***************************************************************************)
THEOREM TypeCorrect == Spec => [](TypeOK /\ FpOK)
BY InitType, TypeStep, PTL DEF Spec

(***************************************************************************)
(* The order of the ledger, and the writes under the inductive invariant.  *)
(***************************************************************************)

LEMMA BeforeAsymmetric ==
  ASSUME ledger \in Seq(Keys), NEW i \in Rows, NEW j \in Rows, Before(i, j)
  PROVE  ~Before(j, i)
<1>1. \A r \in Rows : r \in Int /\ ledger[r] \in Keys
  BY DEF Rows
<1>2. Obs(i) \in Nat /\ Obs(j) \in Nat /\ i \in Int /\ j \in Int
  BY <1>1, ConstantsAssumption DEF Obs
<1>3. QED BY <1>2 DEF Before

\* projecting a pending row counts it once
LEMMA ProjectOnce ==
  ASSUME NEW d \in Projections, NEW i \in Ids, NEW m \in Memories,
         Once(d), i \notin d.projected
  PROVE  Once(Project(d, i, m))
<1> DEFINE p == Project(d, i, m)
<1>1. /\ p.projected = d.projected \cup {i}
      /\ p.applied = [d.applied EXCEPT ![i] = d.applied[i] + 1]
      /\ d.applied \in [Ids -> Nat]
  BY ProjectType DEF Projections
<1> HIDE DEF p
<1>2. ASSUME NEW j \in Ids PROVE p.applied[j] = IF j \in p.projected THEN 1 ELSE 0
  <2>1. CASE j = i
    BY <2>1, <1>1 DEF Once
  <2>2. CASE j # i
    BY <2>2, <1>1 DEF Once
  <2>3. QED BY <2>1, <2>2
<1>3. Once(p)
  BY <1>2 DEF Once
<1>4. QED BY <1>3 DEF p

LEMMA EmptyOnce == Once(EmptyProjection)
BY DEF Once, EmptyProjection

LEMMA InitSound == Init => Sound
<1> SUFFICES ASSUME Init PROVE Sound
  OBVIOUS
<1>1. Once(db) /\ Once(txn.db)
  BY EmptyOnce DEF Init, NoTxn
<1>2. QED
  BY <1>1 DEF Init, Sound, NoTxn, OnlyRows, OwnerOK, NoGap, LeftOK,
     BatchesCoverProjected, EmptyProjection, Idle

\* a step of one worker that is no rebuild and writes nothing
LEMMA LocalStep ==
  ASSUME IInv, NEW w \in Workers, NEW s, s.stage # "rebuild",
         worker' = [worker EXCEPT ![w] = s],
         UNCHANGED <<ledger, batches, db, txn>>
  PROVE  Sound'
<1>1. OwnerOK'
  <2> SUFFICES ASSUME NEW v \in Workers, worker'[v].stage = "rebuild"
               PROVE  /\ txn.open
                      /\ \A u \in Workers : worker'[u].stage = "rebuild" => u = v
                      /\ Distiller = "command" =>
                           /\ \A i \in db.projected : Covered(i, worker'[v].fp)
                           /\ \A i \in txn.db.projected : Covered(i, worker'[v].fp)
    BY DEF OwnerOK, Covered
  <2>1. \A u \in Workers : worker'[u] = IF u = w THEN s ELSE worker[u]
    BY DEF IInv, TypeOK
  <2>2. QED BY <2>1 DEF IInv, Sound, OwnerOK
<1>2. QED
  BY <1>1 DEF IInv, Sound, Once, OnlyRows, Rows, NoGap, Before, Obs, LeftOK,
     BatchesCoverProjected, Covered

(***************************************************************************)
(* Every step preserves the inductive invariant.                           *)
(***************************************************************************)
LEMMA SoundStep == IInv /\ [Next]_vars => Sound'
<1> SUFFICES ASSUME IInv, [Next]_vars PROVE Sound'
  OBVIOUS
<1> USE ConstantsAssumption
<1>a. /\ ledger \in Seq(Keys)
      /\ worker \in [Workers -> LocalStates]
      /\ db \in Projections
      /\ txn.db \in Projections
      /\ Rows \subseteq Ids
      /\ \A w \in Workers : LocalOK(worker[w])
  BY LocalType DEF IInv, TypeOK, Rows, Ids
<1>b. ASSUME ~txn.open, NEW w \in Workers PROVE worker[w].stage # "rebuild"
  BY <1>b DEF IInv, Sound, OwnerOK
<1>1. ASSUME NEW k \in Keys, AppendEvent(k) PROVE Sound'
  <2>1. Rows \subseteq Rows'
    BY <1>1, <1>a DEF AppendEvent, Rows
  <2>2. OnlyRows'
    BY <1>1, <2>1 DEF AppendEvent, OnlyRows, IInv, Sound
  <2>3. OwnerOK' /\ NoGap' /\ LeftOK'
    BY <1>1, <1>b DEF AppendEvent, OwnerOK, NoGap, LeftOK
  <2>4. QED
    BY <1>1, <2>2, <2>3 DEF AppendEvent, IInv, Sound, Once, BatchesCoverProjected, Covered
<1>2. ASSUME NEW w \in Workers, NEW n \in Limits, NEW f \in Fingerprints, StartPass(w, n, f)
      PROVE  Sound'
  <2> DEFINE s == [worker[w] EXCEPT !.stage = "scan", !.queue = FirstRows(Pending(db), n), !.fp = f]
  <2>1. s.stage = "scan"
    BY <1>a DEF LocalOK, LocalStates
  <2>2. worker' = [worker EXCEPT ![w] = s] /\ UNCHANGED <<ledger, batches, db, txn>>
    BY <1>2 DEF StartPass
  <2> HIDE DEF s
  <2>3. QED BY <2>1, <2>2, LocalStep
<1>3. ASSUME NEW w \in Workers, NEW i \in Ids, SkipRow(w, i) \/ RejectRow(w, i)
      PROVE  Sound'
  <2>1. /\ worker' = [worker EXCEPT ![w] = NextRow(worker[w], i)]
        /\ worker[w].stage = "scan"
        /\ UNCHANGED <<ledger, batches, db, txn>>
    BY <1>3 DEF SkipRow, RejectRow, AtRow
  <2>2. NextRow(worker[w], i).stage # "rebuild"
    BY <2>1, <1>a, NextRowOK
  <2>3. QED BY <2>1, <2>2, LocalStep
<1>4. ASSUME NEW w \in Workers, NEW i \in Ids, NEW m \in Memories, Distill(w, i, m)
      PROVE  Sound'
  <2> DEFINE s == [worker[w] EXCEPT !.stage = "commit", !.event = i, !.memory = m]
  <2>1. s.stage = "commit"
    BY <1>a DEF LocalOK, LocalStates
  <2>2. worker' = [worker EXCEPT ![w] = s] /\ UNCHANGED <<ledger, batches, db, txn>>
    BY <1>4 DEF Distill
  <2> HIDE DEF s
  <2>3. QED BY <2>1, <2>2, LocalStep
<1>5. ASSUME NEW w \in Workers, BusyTimeout(w) \/ \E i \in Ids : FailPass(w, i)
      PROVE  Sound'
  <2>1. /\ worker' = [worker EXCEPT ![w] = Idle]
        /\ UNCHANGED <<ledger, batches, db, txn>>
    BY <1>5 DEF FailPass, BusyTimeout
  <2>2. Idle.stage # "rebuild"
    BY DEF Idle
  <2>3. QED BY <2>1, <2>2, LocalStep
<1>6. ASSUME NEW w \in Workers, CommitRow(w) PROVE Sound'
  <2> DEFINE i == worker[w].event
             m == worker[w].memory
  <2>1. /\ worker[w].stage = "commit"
        /\ ~txn.open
        /\ i \in Rows /\ i \in Ids /\ i \notin db.projected
        /\ m \in Memories
        /\ worker[w].fp \in Fingerprints
        /\ db' = Project(db, i, m)
        /\ UNCHANGED <<ledger, txn>>
    BY <1>6, <1>a DEF CommitRow, StillPending, Pending, LocalOK, LocalStates
  <2>2. db'.projected = db.projected \cup {i}
    <3> HIDE DEF i, m
    <3>1. Project(db, i, m).projected = db.projected \cup {i}
      BY <2>1, <1>a, ProjectType
    <3>2. QED BY <2>1, <3>1
  <2>3. Once(db)' /\ Once(txn.db)'
    <3>1. Once(Project(db, i, m))
      BY <2>1, <1>a, ProjectOnce DEF IInv, Sound
    <3>2. QED BY <3>1, <2>1 DEF IInv, Sound, Once
  <2>4. OnlyRows'
    BY <2>1, <2>2 DEF OnlyRows, Rows, IInv, Sound
  <2>5. OwnerOK' /\ NoGap' /\ LeftOK'
    <3>1. ASSUME NEW v \in Workers PROVE worker'[v].stage # "rebuild"
      <4>1. NextRow(worker[w], i).stage # "rebuild"
        BY <2>1, <1>a, NextRowOK
      <4>2. worker'[w].stage # "rebuild"
        BY <1>6, <4>1, <1>a DEF CommitRow, LocalOK, LocalStates
      <4>3. v # w => worker'[v] = worker[v]
        BY <1>6, <1>a DEF CommitRow
      <4>4. QED BY <4>2, <4>3, <2>1, <1>b
    <3>2. QED BY <3>1, <2>1 DEF OwnerOK, NoGap, LeftOK
  <2>6. BatchesCoverProjected'
    <3> SUFFICES ASSUME Distiller = "command", NEW j \in db'.projected
                 PROVE  \E f \in Fingerprints : Covered(j, f)'
      BY DEF BatchesCoverProjected
    <3>1. batches' = PutBatch(i, worker[w].fp, m)
      BY <1>6 DEF CommitRow
    <3>2. CASE j = i
      <4>1. [id |-> i, fp |-> worker[w].fp, memory |-> m] \in batches'
        BY <3>1 DEF PutBatch
      <4>2. \E b \in batches' : b.id = j /\ b.fp = worker[w].fp
        <5> HIDE DEF i, m
        <5>1. QED BY <4>1, <3>2
      <4>3. QED BY <4>2, <2>1 DEF Covered
    <3>3. CASE j # i
      <4>1. PICK f \in Fingerprints : Covered(j, f)
        BY <3>3, <2>2 DEF IInv, Sound, BatchesCoverProjected
      <4>2. Covered(j, f)'
        BY <4>1, <3>1, <3>3 DEF PutBatch, Covered
      <4>3. QED BY <4>2
    <3>4. QED BY <3>2, <3>3
  <2>7. QED BY <2>3, <2>4, <2>5, <2>6 DEF Sound
<1>7. ASSUME NEW w \in Workers, DiscardRow(w) PROVE Sound'
  <2>1. /\ worker' = [worker EXCEPT ![w] = NextRow(worker[w], worker[w].event)]
        /\ worker[w].stage = "commit"
        /\ UNCHANGED <<ledger, batches, db, txn>>
    BY <1>7 DEF DiscardRow
  <2>2. NextRow(worker[w], worker[w].event).stage # "rebuild"
    BY <2>1, <1>a, NextRowOK
  <2>3. QED BY <2>1, <2>2, LocalStep
<1>8. ASSUME NEW w \in Workers, LateScan(w) PROVE Sound'
  <2> DEFINE after == ProjectedAfter(db, worker[w].event, worker[w].until)
             s == IF after = {} THEN NextRow(worker[w], worker[w].event)
                  ELSE [worker[w] EXCEPT !.stage = "lateRead", !.late = after]
  <2>1. /\ worker' = [worker EXCEPT ![w] = s]
        /\ worker[w].stage = "lateScan"
        /\ UNCHANGED <<ledger, batches, db, txn>>
    BY <1>8 DEF LateScan
  <2>2. s.stage # "rebuild"
    <3> HIDE DEF after
    <3>1. NextRow(worker[w], worker[w].event).stage # "rebuild"
      BY <2>1, <1>a, NextRowOK
    <3>2. [worker[w] EXCEPT !.stage = "lateRead", !.late = after].stage = "lateRead"
      BY <1>a DEF LocalOK, LocalStates
    <3>3. QED BY <3>1, <3>2
  <2> HIDE DEF s
  <2>3. QED BY <2>1, <2>2, LocalStep
<1>9. ASSUME NEW w \in Workers, NEW j \in Ids, LateRead(w, j) PROVE Sound'
  <2>1. /\ worker[w].stage = "lateRead"
        /\ UNCHANGED <<ledger, batches, db, txn>>
    BY <1>9 DEF LateRead
  <2>2. \/ worker' = [worker EXCEPT ![w] = NextLate(worker[w], j)]
        \/ worker' = [worker EXCEPT ![w] = [worker[w] EXCEPT !.stage = "lateApply"]]
    BY <1>9 DEF LateRead
  <2>3. NextLate(worker[w], j).stage # "rebuild"
    BY <2>1, <1>a, NextLateOK
  <2>4. [worker[w] EXCEPT !.stage = "lateApply"].stage # "rebuild"
    BY <1>a DEF LocalOK, LocalStates
  <2>5. QED BY <2>1, <2>2, <2>3, <2>4, LocalStep
<1>10. ASSUME NEW w \in Workers, NEW j \in Ids, LateApply(w, j) PROVE Sound'
  <2>1. /\ worker[w].stage = "lateApply"
        /\ ~txn.open
        /\ UNCHANGED <<ledger, batches, txn>>
    BY <1>10 DEF LateApply
  <2> DEFINE i == worker[w].event
             stated == AddClaim(db, j)
  <2>2. db'.projected = db.projected /\ db'.applied = db.applied
    <3>1. db' = Invalidate(stated, i, j, TRUE)
      BY <1>10 DEF LateApply
    <3>2. /\ stated \in Projections
          /\ stated.projected = db.projected
          /\ stated.applied = db.applied
      BY <1>a, AddClaimType
    <3> HIDE DEF i, stated
    <3>3. /\ Invalidate(stated, i, j, TRUE).projected = stated.projected
          /\ Invalidate(stated, i, j, TRUE).applied = stated.applied
      BY <3>2, InvalidateType
    <3>4. QED BY <3>1, <3>2, <3>3
  <2>3. OwnerOK' /\ NoGap' /\ LeftOK'
    <3>1. ASSUME NEW v \in Workers PROVE worker'[v].stage # "rebuild"
      <4>1. /\ NextLate(worker[w], j).stage # "rebuild"
            /\ NextRow(worker[w], worker[w].event).stage # "rebuild"
        BY <2>1, <1>a, NextLateOK, NextRowOK
      <4>2. \/ worker' = [worker EXCEPT ![w] = NextLate(worker[w], j)]
            \/ worker' = [worker EXCEPT ![w] = NextRow(worker[w], worker[w].event)]
        BY <1>10 DEF LateApply
      <4>3. QED BY <4>1, <4>2, <2>1, <1>a, <1>b
    <3>2. QED BY <3>1, <2>1 DEF OwnerOK, NoGap, LeftOK
  <2>4. QED
    BY <2>1, <2>2, <2>3
    DEF IInv, Sound, Once, OnlyRows, Rows, BatchesCoverProjected, Covered
<1>11. ASSUME NEW w \in Workers, NEW c \in Caps, NEW f \in Fingerprints, RebuildBegin(w, c, f)
       PROVE  Sound'
  <2>1. /\ ~txn.open
        /\ txn' = [open |-> TRUE, db |-> EmptyProjection, left |-> c, cap |-> c]
        /\ txn'.db.projected = {}
        /\ UNCHANGED <<ledger, batches, db>>
        /\ c \in Int
    BY <1>11 DEF RebuildBegin, OpenTxn, EmptyProjection
  <2>2. Once(db)' /\ Once(txn.db)'
    BY <2>1, EmptyOnce DEF IInv, Sound, Once
  <2>3. OwnerOK'
    <3>1. \A v \in Workers : worker'[v] = IF v = w THEN [worker[w] EXCEPT !.stage = "rebuild", !.fp = f]
                                          ELSE worker[v]
      BY <1>11, <1>a DEF RebuildBegin
    <3>2. worker'[w].fp = f
      BY <3>1, <1>a DEF LocalOK, LocalStates
    <3>3. \A v \in Workers : worker'[v].stage = "rebuild" => v = w
      BY <3>1, <2>1, <1>b
    <3>4. Distiller = "command" => \A i \in db.projected : Covered(i, f)
      BY <1>11 DEF RebuildBegin, CanReplay
    <3>5. txn'.open
      BY <2>1
    <3>6. QED BY <2>1, <3>2, <3>3, <3>4, <3>5 DEF OwnerOK, Covered
  <2>4. NoGap'
    BY <2>1 DEF NoGap
  <2>5. LeftOK'
    <3>1. txn'.left = c /\ txn'.cap = c
      BY <2>1
    <3>2. Cardinality(txn'.db.projected) = 0
      BY <2>1, FS_EmptySet, Zenon
    <3>3. txn'.left = txn'.cap - Cardinality(txn'.db.projected)
      BY <3>1, <3>2, c \in Int
    <3>4. QED BY <3>3 DEF LeftOK
  <2>6. QED
    BY <2>1, <2>2, <2>3, <2>4, <2>5
    DEF IInv, Sound, OnlyRows, Rows, BatchesCoverProjected, Covered
<1>12. ASSUME NEW w \in Workers, NEW i \in Ids, NEW m \in Memories, RebuildRow(w, i, m)
       PROVE  Sound'
  <2>1. /\ worker[w].stage = "rebuild"
        /\ IsFirst(i, Replayable(w))
        /\ txn.open
        /\ i \in Rows /\ i \notin txn.db.projected
        /\ Distiller = "command" => Covered(i, worker[w].fp)
        /\ txn' = [txn EXCEPT !.db = Project(txn.db, i, m), !.left = txn.left - 1]
        /\ UNCHANGED <<ledger, batches, db, worker>>
    BY <1>12 DEF RebuildRow, IsFirst, Replayable, Pending, IInv, Sound, OwnerOK
  <2>2. /\ txn'.open
        /\ txn'.db = Project(txn.db, i, m)
        /\ txn'.left = txn.left - 1
        /\ txn'.cap = txn.cap
    BY <2>1 DEF IInv, TypeOK
  <2>3. txn'.db.projected = txn.db.projected \cup {i}
    <3>1. Project(txn.db, i, m).projected = txn.db.projected \cup {i}
      BY <1>a, ProjectType
    <3>2. QED BY <2>2, <3>1
  <2>4. Once(db)' /\ Once(txn.db)'
    <3>1. Once(Project(txn.db, i, m))
      BY <2>1, <1>a, ProjectOnce DEF IInv, Sound
    <3>2. QED BY <3>1, <2>1, <2>2 DEF IInv, Sound, Once
  <2>5. OnlyRows'
    BY <2>1, <2>3 DEF OnlyRows, Rows, IInv, Sound
  <2>6. OwnerOK'
    <3>1. ASSUME NEW v \in Workers, worker[v].stage = "rebuild"
          PROVE  /\ \A u \in Workers : worker[u].stage = "rebuild" => u = v
                 /\ Distiller = "command" =>
                      /\ \A j \in db.projected : Covered(j, worker[v].fp)
                      /\ \A j \in txn'.db.projected : Covered(j, worker[v].fp)
      <4>1. v = w
        BY <3>1, <2>1 DEF IInv, Sound, OwnerOK
      <4>2. QED BY <4>1, <2>1, <2>3 DEF IInv, Sound, OwnerOK
    <3>2. QED BY <3>1, <2>1, <2>2 DEF OwnerOK, Covered
  <2>7. NoGap'
    <3> SUFFICES ASSUME NEW k \in txn'.db.projected, NEW j \in db.projected, Before(j, k)
                 PROVE  j \in txn'.db.projected
      BY <2>1 DEF NoGap, Before, Obs
    <3>1. CASE k # i
      BY <3>1, <2>1, <2>3 DEF IInv, Sound, NoGap
    <3>2. CASE k = i /\ j \notin txn.db.projected
      <4>1. j \in Replayable(w)
        BY <3>2, <2>1 DEF Replayable, Pending, IInv, Sound, OwnerOK, OnlyRows
      <4>2. j # i => Before(i, j)
        BY <4>1, <2>1 DEF IsFirst
      <4>3. j \in Rows
        BY DEF IInv, Sound, OnlyRows
      <4>4. QED BY <3>2, <4>2, <4>3, <2>1, <2>3, <1>a, BeforeAsymmetric
    <3>3. QED BY <3>1, <3>2, <2>3
  <2>8. LeftOK'
    <3>1. IsFiniteSet(txn.db.projected)
      <4>1. IsFiniteSet(Ids)
        BY FS_Interval DEF Ids
      <4>2. txn.db.projected \in SUBSET Ids
        BY <1>a DEF Projections
      <4>3. QED BY <4>1, <4>2, FS_Subset
    <3>2. Cardinality(txn'.db.projected) = Cardinality(txn.db.projected) + 1
      BY <3>1, <2>1, <2>3, FS_AddElement
    <3>3. txn.left = txn.cap - Cardinality(txn.db.projected)
      BY <2>1 DEF IInv, Sound, LeftOK
    <3>4. Cardinality(txn.db.projected) \in Nat /\ txn.cap \in Nat
      BY <3>1, FS_CardinalityType DEF IInv, TypeOK
    <3>5. QED BY <2>2, <3>2, <3>3, <3>4 DEF LeftOK
  <2>9. BatchesCoverProjected'
    BY <2>1 DEF IInv, Sound, BatchesCoverProjected, Covered
  <2>10. QED BY <2>4, <2>5, <2>6, <2>7, <2>8, <2>9 DEF Sound
<1>c. ASSUME NEW w \in Workers, worker[w].stage = "rebuild",
             worker' = [worker EXCEPT ![w] = Idle], txn' = NoTxn
      PROVE  OwnerOK' /\ NoGap' /\ LeftOK' /\ Once(txn.db)'
  <2>1. ASSUME NEW v \in Workers PROVE worker'[v].stage # "rebuild"
    BY <1>c, <1>a DEF Idle, IInv, Sound, OwnerOK
  <2>2. QED BY <1>c, <2>1, EmptyOnce DEF OwnerOK, NoGap, LeftOK, Once, NoTxn
<1>13. ASSUME NEW w \in Workers, NEW i \in Ids, NEW m \in Memories, RebuildReject(w, i, m)
       PROVE  Sound'
  <2>1. OwnerOK' /\ NoGap' /\ LeftOK' /\ Once(txn.db)'
    BY <1>13, <1>c DEF RebuildReject
  <2>2. OnlyRows'
    BY <1>13 DEF RebuildReject, OnlyRows, Rows, NoTxn, EmptyProjection, IInv, Sound
  <2>3. QED
    BY <1>13, <2>1, <2>2
    DEF RebuildReject, IInv, Sound, Once, BatchesCoverProjected, Covered
<1>14. ASSUME NEW w \in Workers, RebuildCommit(w) PROVE Sound'
  <2>1. OwnerOK' /\ NoGap' /\ LeftOK' /\ Once(txn.db)'
    BY <1>14, <1>c DEF RebuildCommit
  <2>2. db' = txn.db /\ UNCHANGED <<ledger, batches>> /\ worker[w].stage = "rebuild"
    BY <1>14 DEF RebuildCommit
  <2>3. OnlyRows'
    BY <1>14, <2>2 DEF RebuildCommit, OnlyRows, Rows, NoTxn, EmptyProjection, IInv, Sound
  <2>4. Once(db)'
    BY <2>2 DEF IInv, Sound, Once
  <2>5. BatchesCoverProjected'
    <3>1. worker[w].fp \in Fingerprints
      BY <2>2, <1>a DEF LocalOK
    <3>2. Distiller = "command" => \A i \in txn.db.projected : Covered(i, worker[w].fp)
      BY <2>2 DEF IInv, Sound, OwnerOK
    <3>3. QED BY <3>1, <3>2, <2>2 DEF BatchesCoverProjected, Covered
  <2>6. QED BY <2>1, <2>3, <2>4, <2>5 DEF Sound
<1>15. ASSUME NEW w \in Workers, Crash(w) PROVE Sound'
  <2>1. worker' = [worker EXCEPT ![w] = Idle] /\ UNCHANGED <<ledger, batches, db>>
    BY <1>15 DEF Crash
  <2>2. CASE worker[w].stage = "rebuild"
    <3>1. OwnerOK' /\ NoGap' /\ LeftOK' /\ Once(txn.db)'
      BY <1>15, <2>2, <1>c DEF Crash
    <3>2. OnlyRows'
      BY <1>15, <2>2 DEF Crash, OnlyRows, Rows, NoTxn, EmptyProjection, IInv, Sound
    <3>3. QED
      BY <2>1, <3>1, <3>2 DEF IInv, Sound, Once, BatchesCoverProjected, Covered
  <2>3. CASE worker[w].stage # "rebuild"
    <3>1. Idle.stage # "rebuild" /\ UNCHANGED txn
      BY <1>15, <2>3 DEF Crash, Idle
    <3>2. QED BY <2>1, <3>1, LocalStep
  <2>4. QED BY <2>2, <2>3
<1>16. CASE UNCHANGED vars
  BY <1>16 DEF vars, IInv, Sound, Once, OnlyRows, Rows, OwnerOK, NoGap, Before, Obs,
     LeftOK, BatchesCoverProjected, Covered
<1>17. ASSUME NEW w \in Workers, Pass(w) PROVE Sound'
  BY <1>17, <1>3, <1>4, <1>5, <1>6, <1>7, <1>8, <1>9, <1>10 DEF Pass
<1>18. ASSUME NEW w \in Workers, Rebuild(w) PROVE Sound'
  BY <1>18, <1>12, <1>13, <1>14 DEF Rebuild
<1>19. QED
  BY <1>1, <1>2, <1>11, <1>15, <1>16, <1>17, <1>18 DEF Next

\* every reachable state satisfies the inductive invariant
THEOREM Inductive == Spec => []IInv
<1>1. Init => IInv
  BY InitType, InitSound DEF IInv
<1>2. IInv /\ [Next]_vars => IInv'
  BY TypeStep, SoundStep DEF IInv
<1>3. QED BY <1>1, <1>2, PTL DEF Spec

(***************************************************************************)
(* However workers, rebuilds and crashes interleave, a row is folded in    *)
(* exactly once while it is marked and not at all while it is pending      *)
(* (project_event_memories rechecks event_is_pending in its transaction).  *)
(***************************************************************************)
THEOREM ExactlyOnceCorrect == Spec => []ExactlyOnce
<1>1. IInv => ExactlyOnce
  BY DEF IInv, Sound, Once, ExactlyOnce
<1>2. QED BY <1>1, Inductive, PTL

(***************************************************************************)
(* Every projected row of the command distiller has a stored batch: the    *)
(* batch is written in the transaction that marks the row.                 *)
(***************************************************************************)
THEOREM BatchesCorrect == Spec => []BatchesCoverProjected
<1>1. IInv => BatchesCoverProjected
  BY DEF IInv, Sound
<1>2. QED BY <1>1, Inductive, PTL

\* a rebuild that has used up a full cap has replayed as many rows as there can be
LEMMA FullCopy ==
  ASSUME IInv, txn.open, txn.left = 0, txn.cap = MaxEvents
  PROVE  txn.db.projected = Ids
<1>1. IsFiniteSet(Ids) /\ Cardinality(Ids) = MaxEvents
  <2>1. MaxEvents \in Nat /\ MaxEvents \in Int /\ 1 \in Int
    BY ConstantsAssumption
  <2>2. /\ IsFiniteSet(1..MaxEvents)
        /\ Cardinality(1..MaxEvents) = IF 1 > MaxEvents THEN 0 ELSE MaxEvents - 1 + 1
    BY <2>1, FS_Interval
  <2> QED BY <2>1, <2>2 DEF Ids
<1>2. txn.db.projected \in SUBSET Ids
  BY DEF IInv, TypeOK, Projections
<1>3. IsFiniteSet(txn.db.projected)
  BY <1>1, <1>2, FS_Subset
<1>4. Cardinality(txn.db.projected) = MaxEvents
  <2>1. 0 = MaxEvents - Cardinality(txn.db.projected)
    BY DEF IInv, Sound, LeftOK
  <2>2. Cardinality(txn.db.projected) \in Nat /\ MaxEvents \in Nat
    BY <1>3, FS_CardinalityType, ConstantsAssumption
  <2> QED BY <2>1, <2>2
<1> QED BY <1>1, <1>2, <1>4, FS_Subset

(***************************************************************************)
(* A rebuild without a cap commits every row that was projected: it either *)
(* ran out of rows to replay or replayed as many as the ledger can hold.   *)
(***************************************************************************)
LEMMA FullRebuild ==
  ASSUME IInv, NEW w \in Workers, RebuildCommit(w), txn.cap = MaxEvents
  PROVE  db.projected \subseteq db'.projected
<1>1. /\ worker[w].stage = "rebuild"
      /\ txn.open
      /\ db' = txn.db
      /\ txn.left = 0 \/ Replayable(w) = {}
  BY DEF RebuildCommit, IInv, Sound, OwnerOK
<1>2. CASE Replayable(w) = {}
  <2> SUFFICES ASSUME NEW i \in db.projected, i \notin txn.db.projected PROVE FALSE
    BY <1>1
  <2>1. i \in Replayable(w)
    BY <1>1 DEF Replayable, Pending, IInv, Sound, OwnerOK, OnlyRows
  <2>2. QED BY <2>1, <1>2
<1>3. CASE txn.left = 0
  <2>1. txn.db.projected = Ids
    BY <1>1, <1>3, FullCopy
  <2>2. db.projected \subseteq Ids
    BY DEF IInv, TypeOK, Projections
  <2>3. QED BY <1>1, <2>1, <2>2
<1>4. QED BY <1>1, <1>2, <1>3

\* a rebuild without a cap drops no projected row (rebuild_projection)
THEOREM RebuildKeeps == Spec => RebuildKeepsProjected
<1>1. IInv /\ [Next]_vars =>
        [\A w \in Workers :
           RebuildCommit(w) /\ txn.cap = MaxEvents => db.projected \subseteq db'.projected]_vars
  BY FullRebuild
<1>2. QED BY <1>1, Inductive, PTL DEF Spec, RebuildKeepsProjected

(***************************************************************************)
(* The pipeline implements ProjectionContract: the workers' transactions   *)
(* fold one row, a rebuild's commit replaces the projection in one step    *)
(* and drops only rows observed after all those it keeps.                  *)
(***************************************************************************)
LEMMA ContractStep == IInv /\ [Next]_vars => [Contract!Next]_(Contract!vars)
<1> SUFFICES ASSUME IInv, [Next]_vars PROVE [Contract!Next]_(Contract!vars)
  OBVIOUS
<1> DEFINE Stutters == UNCHANGED ledger /\ db'.applied = db.applied
<1>a. ASSUME Stutters PROVE [Contract!Next]_(Contract!vars)
  BY <1>a DEF Contract!vars
<1>b. /\ worker \in [Workers -> LocalStates]
      /\ db \in Projections
      /\ txn.db \in Projections
      /\ \A w \in Workers : LocalOK(worker[w])
      /\ Rows \subseteq Ids
  BY LocalType, ConstantsAssumption DEF IInv, TypeOK, Rows, Ids
<1>1. ASSUME NEW k \in Keys, AppendEvent(k) PROVE Contract!Next
  <2>1. Contract!Ingest(k)
    BY <1>1 DEF AppendEvent, Contract!Ingest, Rows, Contract!Rows
  <2>2. QED BY <2>1 DEF Contract!Next
<1>2. ASSUME NEW w \in Workers, CommitRow(w) PROVE Contract!Next
  <2> DEFINE i == worker[w].event
             m == worker[w].memory
  <2>1. /\ i \in Rows /\ i \in Ids /\ i \notin db.projected
        /\ m \in Memories
        /\ db' = Project(db, i, m)
        /\ UNCHANGED ledger
    BY <1>2, <1>b DEF CommitRow, StillPending, Pending, LocalOK, LocalStates
  <2> HIDE DEF i, m
  <2>2. db.applied[i] = 0
    BY <2>1 DEF IInv, Sound, Once
  <2>3. Project(db, i, m).applied = [db.applied EXCEPT ![i] = db.applied[i] + 1]
    BY <2>1, <1>b, ProjectType
  <2>4. db'.applied = [db.applied EXCEPT ![i] = 1]
    BY <2>1, <2>2, <2>3
  <2>5. Contract!FoldOne(i)
    BY <2>1, <2>2, <2>4 DEF Contract!FoldOne, Rows, Contract!Rows
  <2>6. QED BY <2>1, <2>5 DEF Contract!Next, Ids, Contract!Ids
<1>3. ASSUME NEW w \in Workers, RebuildCommit(w) PROVE Contract!Next
  <2> DEFINE S == txn.db.projected
  <2>1. /\ txn.open
        /\ db' = txn.db
        /\ UNCHANGED ledger
    BY <1>3 DEF RebuildCommit, IInv, Sound, OwnerOK
  <2>2. S \in SUBSET Contract!Rows
    BY DEF IInv, Sound, OnlyRows, Rows, Contract!Rows
  <2>3. Contract!LeavesNoGap(S)
    <3> SUFFICES ASSUME NEW i \in S, NEW j \in Contract!Rows, db.applied[j] = 1,
                        Contract!Before(j, i)
                 PROVE  j \in S
      BY DEF Contract!LeavesNoGap
    <3>1. j \in db.projected
      <4>1. j \in Ids
        BY <1>b DEF Rows, Contract!Rows
      <4>2. QED BY <4>1 DEF IInv, Sound, Once
    <3>2. Before(j, i)
      BY DEF Before, Obs, Contract!Before
    <3>3. QED BY <2>1, <3>1, <3>2 DEF IInv, Sound, NoGap
  <2>4. db'.applied = [i \in Contract!Ids |-> IF i \in S THEN 1 ELSE 0]
    <3>1. txn.db.applied \in [Ids -> Nat]
      BY <1>b DEF Projections
    <3>2. \A i \in Ids : txn.db.applied[i] = IF i \in S THEN 1 ELSE 0
      BY DEF IInv, Sound, Once
    <3>3. txn.db.applied = [i \in Ids |-> IF i \in S THEN 1 ELSE 0]
      BY <3>1, <3>2
    <3>4. QED BY <3>3, <2>1 DEF Ids, Contract!Ids
  <2>5. Contract!Replay(S)
    BY <2>1, <2>3, <2>4 DEF Contract!Replay
  <2>6. QED BY <2>2, <2>5 DEF Contract!Next
<1>4. ASSUME NEW w \in Workers, NEW j \in Ids, LateApply(w, j) PROVE Stutters
  <2> DEFINE i == worker[w].event
             stated == AddClaim(db, j)
  <2>1. db' = Invalidate(stated, i, j, TRUE) /\ UNCHANGED ledger
    BY <1>4 DEF LateApply
  <2>2. stated \in Projections /\ stated.applied = db.applied
    BY <1>b, AddClaimType
  <2> HIDE DEF i, stated
  <2>3. Invalidate(stated, i, j, TRUE).applied = stated.applied
    BY <2>2, InvalidateType
  <2>4. QED BY <2>1, <2>2, <2>3
<1>5. ASSUME NEW w \in Workers, Pass(w) PROVE [Contract!Next]_(Contract!vars)
  <2>1. CASE CommitRow(w)
    BY <2>1, <1>2
  <2>2. CASE \E j \in Ids : LateApply(w, j)
    BY <2>2, <1>4, <1>a
  <2>3. CASE \/ \E i \in Ids : SkipRow(w, i) \/ RejectRow(w, i) \/ FailPass(w, i)
             \/ \E i \in Ids, m \in Memories : Distill(w, i, m)
             \/ DiscardRow(w)
             \/ BusyTimeout(w)
             \/ LateScan(w)
             \/ \E j \in Ids : LateRead(w, j)
    <3>1. Stutters
      BY <2>3 DEF SkipRow, RejectRow, FailPass, Distill, DiscardRow, BusyTimeout,
         LateScan, LateRead
    <3>2. QED BY <3>1, <1>a
  <2>4. QED BY <1>5, <2>1, <2>2, <2>3 DEF Pass
<1>6. ASSUME NEW w \in Workers, Rebuild(w) PROVE [Contract!Next]_(Contract!vars)
  <2>1. CASE \E i \in Ids, m \in Memories : RebuildRow(w, i, m) \/ RebuildReject(w, i, m)
    <3>1. Stutters
      BY <2>1 DEF RebuildRow, RebuildReject
    <3>2. QED BY <3>1, <1>a
  <2>2. QED BY <1>6, <1>3, <2>1 DEF Rebuild
<1>7. ASSUME NEW w \in Workers,
             \/ \E n \in Limits, f \in Fingerprints : StartPass(w, n, f)
             \/ \E c \in Caps, f \in Fingerprints : RebuildBegin(w, c, f)
             \/ Crash(w)
      PROVE  [Contract!Next]_(Contract!vars)
  <2>1. Stutters
    BY <1>7 DEF StartPass, RebuildBegin, Crash
  <2>2. QED BY <2>1, <1>a
<1>8. CASE UNCHANGED vars
  BY <1>8, <1>a DEF vars
<1>9. QED BY <1>1, <1>5, <1>6, <1>7, <1>8 DEF Next

\* workers and rebuilds do what the contract promises, and nothing else
THEOREM Implements == Spec => ImplementsContract
<1>1. Init => Contract!Init
  BY DEF Init, EmptyProjection, Contract!Init, Ids, Contract!Ids
<1>2. QED
  BY <1>1, ContractStep, Inductive, PTL DEF Spec, ImplementsContract, Contract!Spec

(***************************************************************************)
(* The invariant behind ProjectionIsGrounded.  What the projection says    *)
(* rests on the rows P it marks, both in what is committed and in the copy *)
(* of a rebuild; and what a worker has read outside its transaction still  *)
(* justifies the write it is about to make.                                *)
(***************************************************************************)
\* a claim of every row, for the heuristic distiller always states one
Rests(d, P) ==
  /\ d.claims \subseteq P
  /\ \A k \in Ids : d.closer[k] # NoId =>
       /\ k \in d.claims
       /\ d.closer[k] \in P
       /\ Obs(k) <= Obs(d.closer[k])
       /\ Distiller = "heuristic" => Score(d.closer[k], k) > 0
  /\ Distiller = "heuristic" =>
       /\ P \subseteq d.claims
       /\ d.edges \subseteq d.claims \X d.claims
       /\ \A k \in d.claims : d.closer[k] \in d.claims \ {k} => <<d.closer[k], k>> \in d.edges

\* an answer waiting for its transaction invalidates only what overlaps
Prepared(s) ==
  s.stage = "commit" /\ Distiller = "heuristic" =>
    /\ s.event \in Rows
    /\ s.memory.claim
    /\ s.memory.relation = NoId
    /\ s.memory.target # NoId => s.memory.target \in Rows /\ Score(s.event, s.memory.target) > 0

\* a late replay holds rows that are still projected
Replaying(s) ==
  /\ s.stage \in {"lateScan", "lateRead", "lateApply"} => Distiller = "heuristic"
  /\ s.stage \in {"lateRead", "lateApply"} => s.late \subseteq db.projected
  /\ s.stage = "lateApply" =>
       /\ s.event \in Rows
       /\ \A j \in s.late : IsFirst(j, s.late) => Score(j, s.event) > 0

Waiting == \A w \in Workers : Prepared(worker[w]) /\ Replaying(worker[w])

Grounds ==
  /\ Rests(db, db.projected)
  /\ Rests(txn.db, txn.db.projected)
  /\ Waiting
  /\ txn.open => txn.cap \in Caps

\* no rebuild drops rows under a late replay, which only the heuristic has
Unraced == Distiller = "command" \/ Caps \subseteq {MaxEvents}

\* a new claim of a row that is about to be marked
LEMMA AddClaimRests ==
  ASSUME NEW d \in Projections, NEW i \in Ids, NEW c \in BOOLEAN,
         Rests(d, d.projected), i \notin d.projected,
         Distiller = "heuristic" => c
  PROVE  Rests(IF c THEN AddClaim(d, i) ELSE d, d.projected \cup {i})
<1> DEFINE s == IF c THEN AddClaim(d, i) ELSE d
<1>1. i \notin d.claims /\ NoId \notin Ids
  BY DEF Rests, NoId, Ids
<1>2. \A k \in Ids : d.closer[k] # i
  BY DEF Rests, NoId, Ids
<1>3. d.closer[i] = NoId
  BY <1>1 DEF Rests
<1>4. /\ s.claims = IF c THEN d.claims \cup {i} ELSE d.claims
      /\ s.closer = d.closer
      /\ s.edges = d.edges
  BY <1>1, <1>3 DEF AddClaim, Projections
<1>5. \A k \in Ids : s.closer[k] # NoId =>
        /\ k \in s.claims
        /\ s.closer[k] \in d.projected \cup {i}
        /\ Obs(k) <= Obs(s.closer[k])
        /\ Distiller = "heuristic" => Score(s.closer[k], k) > 0
  <2> HIDE DEF s
  <2>1. QED BY <1>4 DEF Rests
<1>6. ASSUME Distiller = "heuristic"
      PROVE  /\ d.projected \cup {i} \subseteq s.claims
             /\ s.edges \subseteq s.claims \X s.claims
             /\ \A k \in s.claims :
                  s.closer[k] \in s.claims \ {k} => <<s.closer[k], k>> \in s.edges
  <2> HIDE DEF s
  <2>1. s.claims = d.claims \cup {i} /\ s.closer = d.closer /\ s.edges = d.edges
    BY <1>4, <1>6
  <2>2. /\ d.projected \subseteq d.claims
        /\ d.edges \subseteq d.claims \X d.claims
        /\ \A k \in d.claims : d.closer[k] \in d.claims \ {k} => <<d.closer[k], k>> \in d.edges
    BY <1>6 DEF Rests
  <2>3. d.claims \subseteq Ids
    BY DEF Projections
  <2>4. ASSUME NEW k \in s.claims, s.closer[k] \in s.claims \ {k}
        PROVE  <<s.closer[k], k>> \in s.edges
    <3>1. k \in Ids /\ d.closer[k] # i
      BY <2>1, <2>3, <1>2
    <3>2. d.closer[k] \in d.claims \ {k}
      BY <3>1, <2>1, <2>4
    <3>3. k # i
      BY <3>2, <2>3, <1>1, <1>3
    <3>4. QED BY <3>2, <3>3, <2>1, <2>2, <2>4
  <2>5. QED BY <2>1, <2>2, <2>4
<1>7. s.claims \subseteq d.projected \cup {i}
  <2> HIDE DEF s
  <2>1. QED BY <1>4 DEF Rests
<1>8. Rests(s, d.projected \cup {i})
  <2> HIDE DEF s
  <2>1. QED BY <1>5, <1>6, <1>7 DEF Rests
<1>9. QED BY <1>8

\* a closure by a marked row, with its edge when that row states a claim
LEMMA InvalidateRests ==
  ASSUME NEW d \in Projections, NEW P, Rests(d, P), NEW t, NEW i \in P, i \in Ids,
         NEW c \in BOOLEAN,
         Distiller = "heuristic" => c /\ Score(i, t) > 0
  PROVE  Rests(Invalidate(d, t, i, c), P)
<1>1. CASE ~MayClose(d, t, i)
  BY <1>1 DEF Invalidate
<1>2. CASE MayClose(d, t, i)
  <2> DEFINE e == Invalidate(d, t, i, c)
  <2>1. t \in d.claims /\ t \in Ids /\ Obs(t) <= Obs(i)
    BY <1>2 DEF MayClose, Projections
  <2>2. /\ e.claims = d.claims
        /\ e.closer = [d.closer EXCEPT ![t] = i]
        /\ e.edges = IF c /\ i # t THEN d.edges \cup {<<i, t>>} ELSE d.edges
    BY <1>2, <2>1 DEF Invalidate, AddEdge, Projections
  <2>3. d.closer \in [Ids -> Ids \cup {NoId}] /\ d.claims \subseteq Ids
    BY DEF Projections
  <2> HIDE DEF e
  <2>4. \A k \in Ids : e.closer[k] = IF k = t THEN i ELSE d.closer[k]
    BY <2>2, <2>3
  <2>5. ASSUME NEW k \in Ids, e.closer[k] # NoId
        PROVE  /\ k \in e.claims
               /\ e.closer[k] \in P
               /\ Obs(k) <= Obs(e.closer[k])
               /\ Distiller = "heuristic" => Score(e.closer[k], k) > 0
    <3>1. CASE k = t
      BY <3>1, <2>1, <2>2, <2>4
    <3>2. CASE k # t
      BY <3>2, <2>2, <2>4, <2>5 DEF Rests
    <3>3. QED BY <3>1, <3>2
  <2>6. ASSUME Distiller = "heuristic"
        PROVE  /\ P \subseteq e.claims
               /\ e.edges \subseteq e.claims \X e.claims
               /\ \A k \in e.claims :
                    e.closer[k] \in e.claims \ {k} => <<e.closer[k], k>> \in e.edges
    <3>1. /\ P \subseteq d.claims
          /\ d.edges \subseteq d.claims \X d.claims
          /\ \A k \in d.claims : d.closer[k] \in d.claims \ {k} => <<d.closer[k], k>> \in d.edges
          /\ c
      BY <2>6 DEF Rests
    <3>2. e.edges \subseteq e.claims \X e.claims
      BY <3>1, <2>1, <2>2
    <3>3. ASSUME NEW k \in e.claims, e.closer[k] \in e.claims \ {k}
          PROVE  <<e.closer[k], k>> \in e.edges
      <4>1. CASE k = t
        BY <4>1, <3>1, <3>3, <2>1, <2>2, <2>4
      <4>2. CASE k # t
        <5>1. e.closer[k] = d.closer[k]
          BY <4>2, <3>3, <2>2, <2>3, <2>4
        <5>2. <<d.closer[k], k>> \in d.edges
          BY <5>1, <3>1, <3>3, <2>2
        <5>3. QED BY <5>1, <5>2, <2>2
      <4>3. QED BY <4>1, <4>2
    <3>4. QED BY <3>1, <3>2, <3>3, <2>2
  <2>7. e.claims \subseteq P
    BY <2>2 DEF Rests
  <2>8. Rests(e, P)
    BY <2>5, <2>6, <2>7 DEF Rests
  <2>9. QED BY <2>8 DEF e
<1>3. QED BY <1>1, <1>2

\* a row is marked with what it states and closes
LEMMA ProjectRests ==
  ASSUME NEW d \in Projections, NEW i \in Ids, NEW m \in Memories,
         Rests(d, d.projected), i \notin d.projected,
         Distiller = "heuristic" =>
           /\ m.claim
           /\ m.relation = NoId
           /\ m.target # NoId => Score(i, m.target) > 0,
         Distiller \in {"heuristic", "command"}
  PROVE  Rests(Project(d, i, m), Project(d, i, m).projected)
<1> DEFINE P == d.projected \cup {i}
           stated == IF m.claim THEN AddClaim(d, i) ELSE d
           closed == IF m.target = NoId THEN stated
                     ELSE Invalidate(stated, m.target, i, m.claim)
           a == Apply(d, i, m)
<1>1. m.claim \in BOOLEAN /\ (m.relation = NoId \/ m.relation \in Ids)
  BY DEF Memories
<1>2. Rests(stated, P) /\ stated \in Projections
  BY <1>1, AddClaimRests, AddClaimType
<1>3. Rests(closed, P)
  <2> HIDE DEF stated
  <2>1. QED BY <1>1, <1>2, InvalidateRests
<1>4. Rests(a, P)
  <2>1. a = IF m.relation = NoId THEN closed ELSE AddEdge(closed, i, m.relation)
    BY DEF Apply
  <2>2. closed \in Projections
    <3> HIDE DEF stated
    <3>1. QED BY <1>1, <1>2, InvalidateType
  <2> HIDE DEF closed, a
  <2>3. CASE m.relation = NoId
    BY <2>1, <2>3, <1>3
  <2>4. CASE m.relation # NoId
    <3>1. Distiller # "heuristic"
      BY <2>4
    <3>2. AddEdge(closed, i, m.relation).claims = closed.claims
      BY <2>2 DEF AddEdge, Projections
    <3>3. AddEdge(closed, i, m.relation).closer = closed.closer
      BY <2>2 DEF AddEdge, Projections
    <3>4. QED BY <3>1, <3>2, <3>3, <2>1, <2>4, <1>3 DEF Rests
  <2>5. QED BY <2>3, <2>4
<1>5. a \in Projections
  BY ApplyType
<1>6. /\ Project(d, i, m).claims = a.claims
      /\ Project(d, i, m).closer = a.closer
      /\ Project(d, i, m).edges = a.edges
  <2>1. Project(d, i, m) = [a EXCEPT !.projected = @ \cup {i}, !.applied[i] = @ + 1]
    BY DEF Project
  <2> HIDE DEF a
  <2>2. QED BY <2>1, <1>5 DEF Projections
<1>7. Project(d, i, m).projected = P
  BY ProjectType
<1> HIDE DEF a, P
<1>8. QED BY <1>4, <1>6, <1>7 DEF Rests

\* a worker moves on while the ledger stays and nothing projected is lost
LEMMA WaitingStep ==
  ASSUME worker \in [Workers -> LocalStates], Waiting, NEW w \in Workers,
         NEW s, Prepared(s), Replaying(s),
         worker' = [worker EXCEPT ![w] = s], UNCHANGED ledger,
         Distiller = "heuristic" => db.projected \subseteq db'.projected
  PROVE  Waiting'
<1> SUFFICES ASSUME NEW v \in Workers PROVE Prepared(worker[v])' /\ Replaying(worker[v])'
  BY DEF Waiting
<1>1. Prepared(worker'[v]) /\ Replaying(worker'[v])
  <2>1. CASE v = w
    BY <2>1
  <2>2. CASE v # w
    BY <2>2 DEF Waiting
  <2>3. QED BY <2>1, <2>2
<1>2. Prepared(worker[v])'
  BY <1>1 DEF Prepared, Rows, Score
<1>3. Replaying(worker[v])'
  BY <1>1 DEF Replaying, Rows, Score, IsFirst, Before, Obs
<1>4. QED BY <1>2, <1>3

\* neither reading the batch nor ending a pass leaves anything to be justified
LEMMA Settled == ASSUME NEW s, s.stage \in {"idle", "scan", "rebuild"}
                 PROVE  Prepared(s) /\ Replaying(s)
BY DEF Prepared, Replaying

\* a best target overlaps
LEMMA BestScores ==
  ASSUME ledger \in Seq(Keys), NEW i \in Rows, NEW S \in SUBSET Rows,
         NEW t, t # NoId, IsBestTarget(i, t, S)
  PROVE  t \in S /\ Score(i, t) > 0
<1>1. \A r \in Rows : ledger[r] \in Keys
  BY DEF Rows
<1>2. \A n \in S : Score(i, n) \in Nat
  BY <1>1, ConstantsAssumption DEF Score
<1>3. PICK n \in S : Score(i, n) > 0
  BY DEF IsBestTarget
<1>4. t \in S /\ Score(i, t) >= Score(i, n)
  BY <1>3 DEF IsBestTarget
<1>5. QED BY <1>2, <1>3, <1>4

\* there is one first row
LEMMA OneFirst ==
  ASSUME ledger \in Seq(Keys), NEW S \in SUBSET Rows, NEW i, NEW j,
         IsFirst(i, S), IsFirst(j, S)
  PROVE  i = j
<1> SUFFICES ASSUME i # j PROVE FALSE
  OBVIOUS
<1>1. i \in Rows /\ j \in Rows /\ Before(i, j) /\ Before(j, i)
  BY DEF IsFirst
<1>2. QED BY <1>1, BeforeAsymmetric

LEMMA EmptyRests == Distiller \in {"heuristic", "command"} => Rests(EmptyProjection, {})
BY DEF Rests, EmptyProjection

\* an accepted heuristic answer invalidates only what overlaps
LEMMA AcceptedOverlaps ==
  ASSUME ledger \in Seq(Keys), NEW i \in Rows, NEW m, NEW S \in SUBSET Rows,
         Distiller = "heuristic", Accepts(i, m, S)
  PROVE  /\ m.claim
         /\ m.relation = NoId
         /\ m.target # NoId => m.target \in Rows /\ Score(i, m.target) > 0
<1>1. m.claim /\ m.relation = NoId /\ IsBestTarget(i, m.target, S)
  BY DEF Accepts, HeuristicAnswer
<1>2. QED BY <1>1, BestScores

LEMMA GroundsInit == Init => Grounds
<1> SUFFICES ASSUME Init PROVE Grounds
  OBVIOUS
<1>1. Rests(db, db.projected) /\ Rests(txn.db, txn.db.projected)
  BY EmptyRests, ConstantsAssumption DEF Init, NoTxn, EmptyProjection
<1>2. Waiting
  BY Settled DEF Init, Waiting, Idle
<1>3. QED BY <1>1, <1>2 DEF Init, Grounds, NoTxn

LEMMA GroundsStep ==
  ASSUME Unraced, IInv, Grounds, [Next]_vars
  PROVE  Grounds'
<1> USE ConstantsAssumption
<1>a. /\ ledger \in Seq(Keys)
      /\ worker \in [Workers -> LocalStates]
      /\ db \in Projections
      /\ txn.db \in Projections
      /\ \A w \in Workers : LocalOK(worker[w])
      /\ Rows \subseteq Ids
      /\ db.projected \subseteq Rows
      /\ txn.db.projected \subseteq Rows
  <2>1. Rows \subseteq Ids
    BY DEF IInv, TypeOK, Rows, Ids
  <2>2. \A w \in Workers : LocalOK(worker[w])
    BY LocalType DEF IInv
  <2>3. QED BY <2>1, <2>2 DEF IInv, Sound, OnlyRows, TypeOK
<1>b. /\ db.claims \subseteq db.projected
      /\ txn.db.claims \subseteq txn.db.projected
      /\ Waiting
  BY DEF Grounds, Rests
<1>c. Prepared(Idle) /\ Replaying(Idle)
  BY Settled DEF Idle
<1>d. ASSUME UNCHANGED <<ledger, db, txn>>, Waiting' PROVE Grounds'
  BY <1>d DEF Grounds, Rests, Obs, Score
<1>e. ASSUME NEW w \in Workers, NEW s, Prepared(s), Replaying(s),
             worker' = [worker EXCEPT ![w] = s], UNCHANGED <<ledger, db, txn>>
      PROVE  Grounds'
  BY <1>e, <1>a, <1>b, <1>d, WaitingStep
<1>f. ASSUME NEW w \in Workers, NEW i, worker[w].stage # "idle"
      PROVE  Prepared(NextRow(worker[w], i)) /\ Replaying(NextRow(worker[w], i))
  BY <1>f, <1>a, NextRowOK, Settled
<1>1. ASSUME NEW k \in Keys, AppendEvent(k) PROVE Grounds'
  <2>1. UNCHANGED <<db, txn, worker>> /\ ledger' = Append(ledger, k)
    BY <1>1 DEF AppendEvent
  <2>2. \A r \in Rows : ledger'[r] = ledger[r]
    BY <2>1, <1>a DEF Rows
  <2>3. \A r \in Rows : Observed[ledger'[r]] = Obs(r)
    BY <2>2 DEF Obs
  <2>4. \A r, q \in Rows : Overlap[ledger'[r]][ledger'[q]] = Score(r, q)
    BY <2>2 DEF Score
  <2>5. ASSUME NEW d, d.projected \subseteq Rows, Rests(d, d.projected)
        PROVE  \A k2 \in Ids : d.closer[k2] # NoId =>
                 /\ k2 \in d.claims
                 /\ d.closer[k2] \in d.projected
                 /\ Observed[ledger'[k2]] <= Observed[ledger'[d.closer[k2]]]
                 /\ Distiller = "heuristic" =>
                      Overlap[ledger'[d.closer[k2]]][ledger'[k2]] > 0
    <3> SUFFICES ASSUME NEW k2 \in Ids, d.closer[k2] # NoId
                 PROVE  /\ k2 \in d.claims
                        /\ d.closer[k2] \in d.projected
                        /\ Observed[ledger'[k2]] <= Observed[ledger'[d.closer[k2]]]
                        /\ Distiller = "heuristic" =>
                             Overlap[ledger'[d.closer[k2]]][ledger'[k2]] > 0
      OBVIOUS
    <3>1. /\ k2 \in d.claims
          /\ d.closer[k2] \in d.projected
          /\ Obs(k2) <= Obs(d.closer[k2])
          /\ Distiller = "heuristic" => Score(d.closer[k2], k2) > 0
      BY <2>5 DEF Rests
    <3>2. k2 \in Rows /\ d.closer[k2] \in Rows
      BY <3>1, <2>5 DEF Rests
    <3>3. QED BY <3>1, <3>2, <2>3, <2>4
  <2>6. Rests(db, db.projected)'
    BY <2>1, <2>5, <1>a DEF Grounds, Rests, Obs, Score
  <2>7. Rests(txn.db, txn.db.projected)'
    BY <2>1, <2>5, <1>a DEF Grounds, Rests, Obs, Score
  <2>8. Waiting'
    <3> SUFFICES ASSUME NEW v \in Workers PROVE Prepared(worker[v])' /\ Replaying(worker[v])'
      BY DEF Waiting
    <3>1. Rows \subseteq Rows'
      BY <2>1, <1>a DEF Rows
    <3>2. Prepared(worker[v]) /\ Replaying(worker[v])
      BY <1>b DEF Waiting
    <3>3. Prepared(worker[v])'
      BY <3>1, <3>2, <2>1, <2>4 DEF Prepared, Score
    <3>4. ASSUME worker[v].stage = "lateApply", NEW j \in worker[v].late, IsFirst(j, worker[v].late)'
          PROVE  IsFirst(j, worker[v].late)
      <4>1. worker[v].late \subseteq Rows
        BY <3>2, <3>4, <1>a DEF Replaying
      <4>2. \A r \in worker[v].late : Obs(r)' = Obs(r)
        BY <4>1, <2>3 DEF Obs
      <4>3. QED BY <3>4, <4>1, <4>2, <2>1 DEF IsFirst, Before
    <3>5. Replaying(worker[v])'
      <4>1. CASE worker[v].stage = "lateApply"
        <5>1. worker[v].late \subseteq Rows /\ worker[v].event \in Rows
          BY <3>2, <4>1, <1>a DEF Replaying
        <5>2. \A j \in worker[v].late : IsFirst(j, worker[v].late)' =>
                Score(j, worker[v].event)' > 0
          <6> SUFFICES ASSUME NEW j \in worker[v].late, IsFirst(j, worker[v].late)'
                       PROVE  Score(j, worker[v].event)' > 0
            BY <2>1
          <6>1. Score(j, worker[v].event) > 0
            BY <3>2, <3>4, <4>1 DEF Replaying
          <6>2. j \in Rows
            BY <5>1
          <6>3. QED BY <6>1, <6>2, <5>1, <2>1, <2>4 DEF Score
        <5>3. QED BY <5>1, <5>2, <4>1, <3>1, <3>2, <2>1 DEF Replaying
      <4>2. CASE worker[v].stage # "lateApply"
        BY <3>2, <4>2, <2>1 DEF Replaying
      <4>3. QED BY <4>1, <4>2
    <3>6. QED BY <3>3, <3>5
  <2>9. QED BY <2>1, <2>6, <2>7, <2>8 DEF Grounds
<1>2. ASSUME NEW w \in Workers, NEW n \in Limits, NEW f \in Fingerprints, StartPass(w, n, f)
      PROVE  Grounds'
  <2> DEFINE s == [worker[w] EXCEPT !.stage = "scan", !.queue = FirstRows(Pending(db), n), !.fp = f]
  <2>1. s.stage = "scan"
    BY <1>a DEF LocalStates
  <2>2. worker' = [worker EXCEPT ![w] = s] /\ UNCHANGED <<ledger, db, txn>>
    BY <1>2 DEF StartPass
  <2> HIDE DEF s
  <2>3. Prepared(s) /\ Replaying(s)
    BY <2>1, Settled
  <2>4. QED BY <2>2, <2>3, <1>e
<1>3. ASSUME NEW w \in Workers, NEW i \in Ids, SkipRow(w, i) \/ RejectRow(w, i) \/ FailPass(w, i)
      PROVE  Grounds'
  <2>1. worker[w].stage # "idle" /\ UNCHANGED <<ledger, db, txn>>
    BY <1>3 DEF SkipRow, RejectRow, FailPass, AtRow
  <2>2. \/ worker' = [worker EXCEPT ![w] = NextRow(worker[w], i)]
        \/ worker' = [worker EXCEPT ![w] = Idle]
    BY <1>3 DEF SkipRow, RejectRow, FailPass
  <2>3. CASE worker' = [worker EXCEPT ![w] = Idle]
    BY <2>1, <2>3, <1>c, <1>e
  <2>4. CASE worker' = [worker EXCEPT ![w] = NextRow(worker[w], i)]
    <3>1. Prepared(NextRow(worker[w], i)) /\ Replaying(NextRow(worker[w], i))
      BY <2>1, <1>f
    <3>2. QED BY <2>1, <2>4, <3>1, <1>e
  <2>5. QED BY <2>2, <2>3, <2>4
<1>4. ASSUME NEW w \in Workers, NEW i \in Ids, NEW m \in Memories, Distill(w, i, m)
      PROVE  Grounds'
  <2> DEFINE s == [worker[w] EXCEPT !.stage = "commit", !.event = i, !.memory = m]
  <2>1. s.stage = "commit" /\ s.event = i /\ s.memory = m
    BY <1>a DEF LocalStates
  <2>2. worker' = [worker EXCEPT ![w] = s] /\ UNCHANGED <<ledger, db, txn>>
    BY <1>4 DEF Distill
  <2>3. i \in Rows /\ Accepts(i, m, ActiveNeighbors(db, i))
    BY <1>4 DEF Distill, AtRow, StillPending, Pending
  <2>4. ActiveNeighbors(db, i) \subseteq Rows
    BY <1>a, <1>b DEF ActiveNeighbors
  <2> HIDE DEF s
  <2>5. Prepared(s)
    BY <2>1, <2>3, <2>4, <1>a, AcceptedOverlaps DEF Prepared
  <2>6. Replaying(s)
    BY <2>1 DEF Replaying
  <2>7. QED BY <2>2, <2>5, <2>6, <1>e
<1>5. ASSUME NEW w \in Workers, CommitRow(w) PROVE Grounds'
  <2> DEFINE i == worker[w].event
             m == worker[w].memory
             u == IF i \in db.claims THEN db.closer[i] ELSE NoId
             s == IF Distiller = "heuristic"
                    THEN [worker[w] EXCEPT !.stage = "lateScan", !.until = u]
                    ELSE NextRow(worker[w], i)
  <2>1. /\ worker[w].stage = "commit"
        /\ i \in Rows /\ i \in Ids /\ i \notin db.projected
        /\ m \in Memories
        /\ db' = Project(db, i, m)
        /\ worker' = [worker EXCEPT ![w] = s]
        /\ UNCHANGED <<ledger, txn>>
    BY <1>5, <1>a DEF CommitRow, StillPending, Pending, LocalOK, LocalStates
  <2>2. Prepared(s) /\ Replaying(s)
    <3>1. Prepared(NextRow(worker[w], i)) /\ Replaying(NextRow(worker[w], i))
      BY <2>1, <1>f
    <3>2. [worker[w] EXCEPT !.stage = "lateScan", !.until = u].stage = "lateScan"
      BY <1>a DEF LocalStates
    <3>3. QED BY <3>1, <3>2 DEF Prepared, Replaying
  <2>3. Rests(Project(db, i, m), Project(db, i, m).projected)
    <3>1. Distiller = "heuristic" =>
            /\ m.claim
            /\ m.relation = NoId
            /\ m.target # NoId => Score(i, m.target) > 0
      BY <2>1, <1>b DEF Waiting, Prepared
    <3> HIDE DEF i, m
    <3>2. QED BY <3>1, <2>1, <1>a, ProjectRests DEF Grounds
  <2>4. Project(db, i, m).projected = db.projected \cup {i}
    <3> HIDE DEF i, m
    <3>1. QED BY <2>1, <1>a, ProjectType
  <2> HIDE DEF i, m, s
  <2>5. Waiting'
    BY <2>1, <2>2, <2>4, <1>a, <1>b, WaitingStep
  <2>6. Rests(db, db.projected)'
    BY <2>1, <2>3 DEF Rests, Obs, Score
  <2>7. Rests(txn.db, txn.db.projected)'
    BY <2>1 DEF Grounds, Rests, Obs, Score
  <2>8. QED BY <2>1, <2>5, <2>6, <2>7 DEF Grounds
<1>6. ASSUME NEW w \in Workers, DiscardRow(w) \/ BusyTimeout(w) PROVE Grounds'
  <2>1. worker[w].stage # "idle" /\ UNCHANGED <<ledger, db, txn>>
    BY <1>6 DEF DiscardRow, BusyTimeout
  <2>2. \/ worker' = [worker EXCEPT ![w] = NextRow(worker[w], worker[w].event)]
        \/ worker' = [worker EXCEPT ![w] = Idle]
    BY <1>6 DEF DiscardRow, BusyTimeout
  <2>3. CASE worker' = [worker EXCEPT ![w] = Idle]
    BY <2>1, <2>3, <1>c, <1>e
  <2>4. CASE worker' = [worker EXCEPT ![w] = NextRow(worker[w], worker[w].event)]
    <3>1. Prepared(NextRow(worker[w], worker[w].event)) /\ Replaying(NextRow(worker[w], worker[w].event))
      BY <2>1, <1>f
    <3>2. QED BY <2>1, <2>4, <3>1, <1>e
  <2>5. QED BY <2>2, <2>3, <2>4
<1>7. ASSUME NEW w \in Workers, LateScan(w) PROVE Grounds'
  <2> DEFINE after == ProjectedAfter(db, worker[w].event, worker[w].until)
             s == [worker[w] EXCEPT !.stage = "lateRead", !.late = after]
  <2>1. worker[w].stage = "lateScan" /\ UNCHANGED <<ledger, db, txn>>
    BY <1>7 DEF LateScan
  <2>2. \/ worker' = [worker EXCEPT ![w] = NextRow(worker[w], worker[w].event)]
        \/ worker' = [worker EXCEPT ![w] = s]
    BY <1>7 DEF LateScan
  <2>3. Prepared(s) /\ Replaying(s)
    <3>1. s.stage = "lateRead" /\ s.late = after
      BY <1>a DEF LocalStates
    <3>2. after \subseteq db.projected /\ Distiller = "heuristic"
      BY <2>1, <1>b DEF ProjectedAfter, Waiting, Replaying
    <3> HIDE DEF s, after
    <3>3. QED BY <3>1, <3>2 DEF Prepared, Replaying
  <2> HIDE DEF s
  <2>4. QED BY <2>1, <2>2, <2>3, <1>e, <1>f
<1>g. ASSUME NEW w \in Workers, NEW j, worker[w].stage \in {"lateRead", "lateApply"}
      PROVE  Prepared(NextLate(worker[w], j)) /\ Replaying(NextLate(worker[w], j))
  <2>1. CASE worker[w].late \ {j} = {}
    BY <2>1, <1>f, <1>g DEF NextLate
  <2>2. CASE worker[w].late \ {j} # {}
    <3> DEFINE s == [worker[w] EXCEPT !.stage = "lateRead", !.late = worker[w].late \ {j}]
    <3>1. NextLate(worker[w], j) = s
      BY <2>2 DEF NextLate
    <3>2. s.stage = "lateRead" /\ s.late = worker[w].late \ {j}
      BY <1>a DEF LocalStates
    <3>3. worker[w].late \subseteq db.projected /\ Distiller = "heuristic"
      BY <1>b, <1>g DEF Waiting, Replaying
    <3> HIDE DEF s
    <3>4. QED BY <3>1, <3>2, <3>3 DEF Prepared, Replaying
  <2>3. QED BY <2>1, <2>2
<1>8. ASSUME NEW w \in Workers, NEW j \in Ids, LateRead(w, j) PROVE Grounds'
  <2> DEFINE i == worker[w].event
             near == ProjectionNeighbors(db, j)
             s == [worker[w] EXCEPT !.stage = "lateApply"]
  <2>1. /\ worker[w].stage = "lateRead"
        /\ IsFirst(j, worker[w].late)
        /\ UNCHANGED <<ledger, db, txn>>
    BY <1>8 DEF LateRead
  <2>2. CASE i \in near /\ IsBestTarget(j, i, near)
    <3>1. worker' = [worker EXCEPT ![w] = s]
      BY <1>8, <2>2 DEF LateRead
    <3>2. s.stage = "lateApply" /\ s.late = worker[w].late /\ s.event = i
      BY <1>a DEF LocalStates
    <3>3. worker[w].late \subseteq db.projected /\ Distiller = "heuristic"
      BY <2>1, <1>b DEF Waiting, Replaying
    <3>4. near \subseteq Rows /\ i \in Rows /\ j \in Rows /\ i # NoId
      BY <2>1, <2>2, <3>3, <1>a, <1>b DEF ProjectionNeighbors, IsFirst, NoId, Rows
    <3> HIDE DEF s, i, near
    <3>5. Score(j, i) > 0
      BY <2>2, <3>4, <1>a, BestScores
    <3>6. \A k \in s.late : IsFirst(k, s.late) => Score(k, i) > 0
      <4> SUFFICES ASSUME NEW k \in s.late, IsFirst(k, s.late) PROVE k = j
        BY <3>5
      <4>1. s.late \in SUBSET Rows
        BY <3>2, <3>3, <1>a
      <4>2. QED BY <4>1, <3>2, <2>1, <1>a, OneFirst
    <3>7. Prepared(s) /\ Replaying(s)
      BY <3>2, <3>3, <3>4, <3>6 DEF Prepared, Replaying
    <3>8. QED BY <3>1, <3>7, <2>1, <1>e
  <2>3. CASE ~(i \in near /\ IsBestTarget(j, i, near))
    <3>1. worker' = [worker EXCEPT ![w] = NextLate(worker[w], j)]
      BY <1>8, <2>3 DEF LateRead
    <3>2. Prepared(NextLate(worker[w], j)) /\ Replaying(NextLate(worker[w], j))
      BY <2>1, <1>g
    <3>3. QED BY <3>1, <3>2, <2>1, <1>e
  <2>4. QED BY <2>2, <2>3
<1>9. ASSUME NEW w \in Workers, NEW j \in Ids, LateApply(w, j) PROVE Grounds'
  <2> DEFINE i == worker[w].event
  <2>1. /\ worker[w].stage = "lateApply"
        /\ IsFirst(j, worker[w].late)
        /\ db' = Invalidate(AddClaim(db, j), i, j, TRUE)
        /\ UNCHANGED <<ledger, txn>>
    BY <1>9 DEF LateApply
  <2>2. \/ worker' = [worker EXCEPT ![w] = NextRow(worker[w], i)]
        \/ worker' = [worker EXCEPT ![w] = NextLate(worker[w], j)]
    BY <1>9 DEF LateApply
  <2>3. /\ worker[w].late \subseteq db.projected
        /\ Distiller = "heuristic"
        /\ Score(j, i) > 0
        /\ j \in db.projected
    BY <2>1, <1>b DEF Waiting, Replaying, IsFirst
  <2>4. AddClaim(db, j) = db
    BY <2>3 DEF Grounds, Rests, AddClaim
  <2>5. Rests(Invalidate(db, i, j, TRUE), db.projected)
    <3> HIDE DEF i
    <3>1. QED BY <2>3, <1>a, InvalidateRests DEF Grounds
  <2>6. db' = Invalidate(db, i, j, TRUE) /\ db'.projected = db.projected
    <3> HIDE DEF i
    <3>1. Invalidate(db, i, j, TRUE).projected = db.projected
      BY <1>a, InvalidateType
    <3>2. QED BY <3>1, <2>1, <2>4
  <2>7. Waiting'
    <3>1. /\ Prepared(NextRow(worker[w], i)) /\ Replaying(NextRow(worker[w], i))
          /\ Prepared(NextLate(worker[w], j)) /\ Replaying(NextLate(worker[w], j))
      <4>1. Prepared(NextRow(worker[w], i)) /\ Replaying(NextRow(worker[w], i))
        BY <2>1, <1>f
      <4>2. Prepared(NextLate(worker[w], j)) /\ Replaying(NextLate(worker[w], j))
        BY <2>1, <1>g
      <4>3. QED BY <4>1, <4>2
    <3> HIDE DEF i
    <3>2. QED BY <3>1, <2>1, <2>2, <2>6, <1>a, <1>b, WaitingStep
  <2>8. Rests(db, db.projected)'
    BY <2>1, <2>5, <2>6 DEF Rests, Obs, Score
  <2>9. Rests(txn.db, txn.db.projected)'
    BY <2>1 DEF Grounds, Rests, Obs, Score
  <2>10. QED BY <2>1, <2>7, <2>8, <2>9 DEF Grounds
<1>10. ASSUME NEW w \in Workers, NEW c \in Caps, NEW f \in Fingerprints, RebuildBegin(w, c, f)
       PROVE  Grounds'
  <2> DEFINE s == [worker[w] EXCEPT !.stage = "rebuild", !.fp = f]
  <2>1. s.stage = "rebuild"
    BY <1>a DEF LocalStates
  <2>2. /\ worker' = [worker EXCEPT ![w] = s] /\ UNCHANGED <<ledger, db>>
        /\ txn' = OpenTxn(c)
    BY <1>10 DEF RebuildBegin
  <2> HIDE DEF s
  <2>3. Waiting'
    <3>1. Prepared(s) /\ Replaying(s)
      BY <2>1, Settled
    <3>2. QED BY <2>2, <3>1, <1>a, <1>b, WaitingStep
  <2>4. Rests(db, db.projected)'
    BY <2>2 DEF Grounds, Rests, Obs, Score
  <2>5. Rests(txn.db, txn.db.projected)' /\ txn'.cap = c
    BY <2>2, EmptyRests DEF OpenTxn, EmptyProjection, Rests, Obs, Score
  <2>6. QED BY <2>3, <2>4, <2>5 DEF Grounds
<1>11. ASSUME NEW w \in Workers, NEW i \in Ids, NEW m \in Memories, RebuildRow(w, i, m)
       PROVE  Grounds'
  <2>1. /\ i \in Rows /\ i \notin txn.db.projected
        /\ Accepts(i, m, ActiveNeighbors(txn.db, i))
        /\ txn' = [txn EXCEPT !.db = Project(txn.db, i, m), !.left = txn.left - 1]
        /\ UNCHANGED <<ledger, db, worker>>
    BY <1>11 DEF RebuildRow, IsFirst, Replayable, Pending
  <2>2. /\ txn'.open = txn.open
        /\ txn'.cap = txn.cap
        /\ txn'.db = Project(txn.db, i, m)
    BY <2>1 DEF IInv, TypeOK
  <2>3. ActiveNeighbors(txn.db, i) \subseteq Rows
    BY <1>a, <1>b DEF ActiveNeighbors
  <2>4. Rests(Project(txn.db, i, m), Project(txn.db, i, m).projected)
    BY <2>1, <2>3, <1>a, AcceptedOverlaps, ProjectRests DEF Grounds
  <2>5. Rests(txn.db, txn.db.projected)'
    BY <2>1, <2>2, <2>4 DEF Rests, Obs, Score
  <2>6. Rests(db, db.projected)'
    BY <2>1 DEF Grounds, Rests, Obs, Score
  <2>7. Waiting'
    BY <2>1, <1>b DEF Waiting, Prepared, Replaying, Rows, Score, IsFirst, Before, Obs
  <2>8. QED BY <2>2, <2>5, <2>6, <2>7 DEF Grounds
<1>h. ASSUME txn' = NoTxn PROVE Rests(txn.db, txn.db.projected)' /\ ~txn'.open
  BY <1>h, EmptyRests DEF NoTxn, EmptyProjection, Rests, Obs, Score
<1>12. ASSUME NEW w \in Workers, NEW i \in Ids, NEW m \in Memories, RebuildReject(w, i, m)
       PROVE  Grounds'
  <2>1. /\ txn' = NoTxn
        /\ worker' = [worker EXCEPT ![w] = Idle]
        /\ UNCHANGED <<ledger, db>>
    BY <1>12 DEF RebuildReject
  <2>2. Waiting'
    BY <2>1, <1>a, <1>b, <1>c, WaitingStep
  <2>3. QED BY <2>1, <2>2, <1>h DEF Grounds, Rests, Obs, Score
<1>13. ASSUME NEW w \in Workers, RebuildCommit(w) PROVE Grounds'
  <2>1. /\ worker[w].stage = "rebuild"
        /\ db' = txn.db
        /\ txn' = NoTxn
        /\ worker' = [worker EXCEPT ![w] = Idle]
        /\ UNCHANGED ledger
    BY <1>13 DEF RebuildCommit
  <2>2. Distiller = "heuristic" => db.projected \subseteq db'.projected
    <3> SUFFICES ASSUME Distiller = "heuristic" PROVE db.projected \subseteq db'.projected
      OBVIOUS
    <3>1. txn.cap = MaxEvents
      BY <2>1 DEF Unraced, Grounds, IInv, Sound, OwnerOK
    <3>2. QED BY <3>1, <1>13, FullRebuild
  <2>3. Waiting'
    BY <2>1, <2>2, <1>a, <1>b, <1>c, WaitingStep
  <2>4. Rests(db, db.projected)'
    BY <2>1 DEF Grounds, Rests, Obs, Score
  <2>5. QED BY <2>1, <2>3, <2>4, <1>h DEF Grounds
<1>14. ASSUME NEW w \in Workers, Crash(w) PROVE Grounds'
  <2>1. /\ txn' = NoTxn \/ UNCHANGED txn
        /\ worker' = [worker EXCEPT ![w] = Idle]
        /\ UNCHANGED <<ledger, db>>
    BY <1>14 DEF Crash
  <2>2. Waiting'
    BY <2>1, <1>a, <1>b, <1>c, WaitingStep
  <2>3. CASE txn' = NoTxn
    BY <2>1, <2>2, <2>3, <1>h DEF Grounds, Rests, Obs, Score
  <2>4. CASE UNCHANGED txn
    BY <2>1, <2>2, <2>4, <1>d
  <2>5. QED BY <2>1, <2>3, <2>4
<1>15. CASE UNCHANGED vars
  <2>1. UNCHANGED <<ledger, db, txn, worker>>
    BY <1>15 DEF vars
  <2>2. Waiting'
    BY <2>1, <1>b DEF Waiting, Prepared, Replaying, Rows, Score, IsFirst, Before, Obs
  <2>3. QED BY <2>1, <2>2, <1>d
<1>16. ASSUME NEW w \in Workers, Pass(w) PROVE Grounds'
  BY <1>16, <1>3, <1>4, <1>5, <1>6, <1>7, <1>8, <1>9 DEF Pass
<1>17. ASSUME NEW w \in Workers, Rebuild(w) PROVE Grounds'
  BY <1>17, <1>11, <1>12, <1>13 DEF Rebuild
<1>18. QED
  BY <1>1, <1>2, <1>10, <1>14, <1>15, <1>16, <1>17 DEF Next

(***************************************************************************)
(* While rebuilds replay the whole ledger, everything the projection of    *)
(* the heuristic distiller says rests on the ledger: late replay writes on *)
(* what it read outside its transaction, and still only of projected rows. *)
(* With a capped rebuild in between this does not hold (README.md).        *)
(***************************************************************************)
THEOREM GroundedCorrect ==
  ASSUME Distiller = "heuristic", Caps \subseteq {MaxEvents}
  PROVE  Spec => []ProjectionIsGrounded
<1>1. Init => IInv /\ Grounds
  BY InitType, InitSound, GroundsInit DEF IInv
<1>2. IInv /\ Grounds /\ [Next]_vars => IInv' /\ Grounds'
  <2>1. Unraced
    BY DEF Unraced
  <2>2. QED BY <2>1, TypeStep, SoundStep, GroundsStep DEF IInv
<1>3. IInv /\ Grounds => ProjectionIsGrounded
  BY DEF Grounds, Rests, ProjectionIsGrounded, ClaimsAreProjected, ClosuresAreJustified,
     EdgesAreGrounded
<1>4. QED BY <1>1, <1>2, <1>3, PTL DEF Spec

(***************************************************************************)
(* With a provider, which is not asked again after the commit, claims and  *)
(* closures rest on the ledger however rebuilds are capped.                *)
(***************************************************************************)
THEOREM ProviderGroundedCorrect ==
  ASSUME Distiller = "command"
  PROVE  Spec => [](ClaimsAreProjected /\ ClosuresAreJustified)
<1>1. Init => IInv /\ Grounds
  BY InitType, InitSound, GroundsInit DEF IInv
<1>2. IInv /\ Grounds /\ [Next]_vars => IInv' /\ Grounds'
  <2>1. Unraced
    BY DEF Unraced
  <2>2. QED BY <2>1, TypeStep, SoundStep, GroundsStep DEF IInv
<1>3. IInv /\ Grounds => ClaimsAreProjected /\ ClosuresAreJustified
  BY DEF Grounds, Rests, ClaimsAreProjected, ClosuresAreJustified
<1>4. QED BY <1>1, <1>2, <1>3, PTL DEF Spec

-----------------------------------------------------------------------------
(***************************************************************************)
(* Undisturbed workers.  ConvergesUndisturbed compares two projections     *)
(* that came about in different orders.  Both are shown to be the same     *)
(* function of the ledger: every claim is closed by the first of all the   *)
(* rows that would close it, but for the claim under late replay, whose    *)
(* closing row is still to be found among those collected.                 *)
(***************************************************************************)
\* a text invalidates that of at most one other row
OneTarget ==
  \A k, j1, j2 \in Keys :
    j1 # k /\ j2 # k /\ Overlap[k][j1] > 0 /\ Overlap[k][j2] > 0 => j1 = j2

Distinct == \A i, j \in Rows : ledger[i] = ledger[j] => i = j

\* the rows of P that would close the claim of row n
Closers(P, n) == {j \in P : Before(n, j) /\ Score(j, n) > 0}

ClosedFirst(d, n) ==
  /\ d.closer[n] = NoId => Closers(d.projected, n) = {}
  /\ d.closer[n] # NoId => IsFirst(d.closer[n], Closers(d.projected, n))

\* every claim outside S is closed by the first row that would close it
Resolved(d, S) ==
  /\ d.claims = d.projected
  /\ \A n \in Ids : d.closer[n] \in d.projected \cup {NoId}
  /\ \A n \in Ids : n \notin d.projected => d.closer[n] = NoId
  /\ \A n \in d.projected : n \notin S => ClosedFirst(d, n)

\* no row of d or Q was taken before one that arrived and was observed earlier
InTurn(d, Q) ==
  \A n \in d.projected \cup Q, j \in Rows :
    j < n /\ Before(j, n) => j \in d.projected \cup Q

LateStages == {"lateScan", "lateRead", "lateApply"}

LateOf(s) == IF s.stage \in LateStages THEN {s.event} ELSE {}

\* the claims under late replay
Late == UNION {LateOf(worker[w]) : w \in Workers}

\* what a pass has done so far, and what it has read
OnCourse(d, s) ==
  /\ s.stage \notin {"idle", "rebuild"} => s.queue \subseteq Rows /\ InTurn(d, s.queue)
  /\ s.stage = "commit" =>
       /\ IsFirst(s.event, s.queue)
       /\ s.event \notin d.projected
       /\ HeuristicAnswer(s.event, s.memory, ActiveNeighbors(d, s.event))
  /\ s.stage \in LateStages =>
       /\ s.event \in d.projected
       /\ d.closer[s.event] = NoId
       /\ s.until = NoId
  /\ s.stage \in {"lateRead", "lateApply"} =>
       /\ s.late \subseteq d.projected
       /\ \A j \in s.late : Before(s.event, j)
       /\ Closers(d.projected, s.event) \subseteq s.late
  /\ s.stage = "lateApply" => \A j \in s.late : IsFirst(j, s.late) => Score(j, s.event) > 0

\* the rebuild's copy holds the first rows of the ledger
TxnInOrder ==
  /\ Resolved(txn.db, {})
  /\ \A n \in txn.db.projected, j \in Rows \ txn.db.projected : Before(n, j)
  /\ txn.open => \E w \in Workers : worker[w].stage = "rebuild"
  /\ ~txn.open => txn.db.projected = {}

DbInOrder ==
  /\ Resolved(db, Late)
  /\ InTurn(db, {})
  /\ \A w \in Workers : OnCourse(db, worker[w])

Converging == Distinct /\ TxnInOrder /\ DbInOrder

-----------------------------------------------------------------------------
\* the rows of the ledger, and what is projected of them
LEMMA RowFacts ==
  ASSUME IInv
  PROVE  /\ ledger \in Seq(Keys)
         /\ Rows \subseteq Ids
         /\ \A r \in Rows : r \in Int /\ r # NoId /\ ledger[r] \in Keys
         /\ db \in Projections /\ txn.db \in Projections
         /\ db.projected \subseteq Rows /\ txn.db.projected \subseteq Rows
         /\ worker \in [Workers -> LocalStates]
<1>1. /\ ledger \in Seq(Keys) /\ Len(ledger) \in 0..MaxEvents /\ MaxEvents \in Nat
      /\ worker \in [Workers -> LocalStates]
      /\ db \in Projections /\ txn.db \in Projections
      /\ db.projected \subseteq Rows /\ txn.db.projected \subseteq Rows
  BY ConstantsAssumption DEF IInv, TypeOK, Sound, OnlyRows
<1>2. Rows \subseteq Ids /\ \A r \in Rows : r \in Int /\ r # NoId /\ ledger[r] \in Keys
  BY <1>1 DEF Rows, Ids, NoId
<1> QED BY <1>1, <1>2

\* Before orders the rows
LEMMA BeforeOrdersRows ==
  ASSUME ledger \in Seq(Keys)
  PROVE  /\ \A i \in Rows : ~Before(i, i)
         /\ \A i, j \in Rows : Before(i, j) => ~Before(j, i)
         /\ \A i, j \in Rows : i # j => Before(i, j) \/ Before(j, i)
         /\ \A i, j, k \in Rows : Before(i, j) /\ Before(j, k) => Before(i, k)
<1>1. \A r \in Rows : r \in Int /\ Obs(r) \in Int
  BY ConstantsAssumption DEF Rows, Obs
<1>2. QED BY <1>1 DEF Before

\* a row overlaps with one other row at most
LEMMA OneOverlap ==
  ASSUME OneTarget, Distinct, ledger \in Seq(Keys), NEW i \in Rows, NEW s \in Rows, NEW t \in Rows,
         s # i, t # i, Score(i, s) > 0, Score(i, t) > 0
  PROVE  s = t
<1>1. ledger[i] \in Keys /\ ledger[s] \in Keys /\ ledger[t] \in Keys
  BY DEF Rows
<1>2. ledger[s] # ledger[i] /\ ledger[t] # ledger[i]
  BY DEF Distinct
<1>3. ledger[s] = ledger[t]
  BY <1>1, <1>2 DEF OneTarget, Score
<1>4. QED BY <1>3 DEF Distinct

\* the heuristic's answer closes its target, and nothing else changes
LEMMA ProjectCloses ==
  ASSUME IInv, NEW d \in Projections, d.projected \subseteq Rows, Resolved(d, {}),
         NEW i \in Rows, i \notin d.projected, NEW m \in Memories,
         HeuristicAnswer(i, m, ActiveNeighbors(d, i))
  PROVE  /\ Project(d, i, m).claims = d.projected \cup {i}
         /\ m.target = NoId => Project(d, i, m).closer = d.closer
         /\ m.target # NoId =>
              /\ m.target \in ActiveNeighbors(d, i)
              /\ Score(i, m.target) > 0
              /\ Project(d, i, m).closer = [d.closer EXCEPT ![m.target] = i]
<1> DEFINE t == m.target
           stated == [d EXCEPT !.claims = d.claims \cup {i}, !.closer[i] = NoId]
           a == Apply(d, i, m)
<1>1. /\ i \in Ids /\ i \notin d.claims /\ d.closer[i] = NoId
      /\ d.closer \in [Ids -> Ids \cup {NoId}] /\ d.claims \subseteq Ids
      /\ m.claim /\ m.relation = NoId /\ IsBestTarget(i, t, ActiveNeighbors(d, i))
  BY RowFacts DEF Resolved, HeuristicAnswer, Projections
<1>2. stated \in Projections /\ stated.claims = d.projected \cup {i} /\ stated.closer = d.closer
  BY <1>1 DEF Resolved, Projections
<1>3. a = IF t = NoId THEN stated ELSE Invalidate(stated, t, i, TRUE)
  BY <1>1 DEF Apply, AddClaim
<1>4. a \in Projections
  BY <1>1, ApplyType
<1>5. Project(d, i, m).claims = a.claims /\ Project(d, i, m).closer = a.closer
  <2> HIDE DEF a
  <2> QED BY <1>4 DEF Project, Projections, a
<1>6. ASSUME t # NoId
      PROVE  /\ t \in ActiveNeighbors(d, i) /\ Score(i, t) > 0
             /\ a.claims = stated.claims
             /\ a.closer = [stated.closer EXCEPT ![t] = i]
  <2>1. ActiveNeighbors(d, i) \in SUBSET Rows
    BY DEF ActiveNeighbors, Resolved
  <2>2. t \in ActiveNeighbors(d, i) /\ Score(i, t) > 0
    BY <1>1, <1>6, <2>1, RowFacts, BestScores
  <2>3. /\ t \in d.claims /\ Obs(t) <= Obs(i)
        /\ d.closer[t] = NoId \/ Before(i, d.closer[t])
    <3>1. d.closer[t] # NoId => Obs(d.closer[t]) > Obs(i)
      BY <2>2 DEF ActiveNeighbors
    <3>2. d.closer[t] # NoId => d.closer[t] \in Rows
      BY <2>2, <1>1 DEF Resolved, ActiveNeighbors
    <3>3. \A r \in Rows : Obs(r) \in Int
      BY RowFacts, ConstantsAssumption DEF Obs
    <3>4. d.closer[t] # NoId => Before(i, d.closer[t])
      BY <3>1, <3>2, <3>3 DEF Before
    <3> QED BY <3>4, <2>2 DEF ActiveNeighbors
  <2> HIDE DEF stated
  <2>4. MayClose(stated, t, i)
    BY <2>3, <1>1, <1>2 DEF MayClose, Resolved
  <2>5. i # t /\ t \in Ids
    BY <2>3, <1>1
  <2>6. Invalidate(stated, t, i, TRUE) = AddEdge([stated EXCEPT !.closer[t] = i], i, t)
    BY <2>4 DEF Invalidate
  <2>7. a = AddEdge([stated EXCEPT !.closer[t] = i], i, t)
    BY <1>3, <1>6, <2>6
  <2>8. /\ AddEdge([stated EXCEPT !.closer[t] = i], i, t).claims = stated.claims
        /\ AddEdge([stated EXCEPT !.closer[t] = i], i, t).closer = [stated.closer EXCEPT ![t] = i]
    BY <2>5, <1>2 DEF AddEdge, Projections
  <2> HIDE DEF a
  <2> QED BY <2>2, <2>7, <2>8
<1> HIDE DEF a, stated
<1>7. CASE t = NoId
  BY <1>7, <1>2, <1>3, <1>5
<1>8. CASE t # NoId
  BY <1>8, <1>2, <1>5, <1>6
<1> QED BY <1>7, <1>8

\* a row taken in turn leaves every claim but its own closed by the first row
LEMMA ProjectResolves ==
  ASSUME OneTarget, IInv, Distinct, NEW d \in Projections, d.projected \subseteq Rows, Resolved(d, {}),
         NEW i \in Rows, i \notin d.projected, NEW m \in Memories,
         \A n \in d.projected : Obs(n) = Obs(i) => n < i,
         HeuristicAnswer(i, m, ActiveNeighbors(d, i))
  PROVE  /\ Project(d, i, m).projected = d.projected \cup {i}
         /\ Project(d, i, m).closer[i] = NoId
         /\ Resolved(Project(d, i, m), {i})
<1> DEFINE P == d.projected
           e == Project(d, i, m)
           t == m.target
<1>1. /\ e \in Projections /\ e.projected = P \cup {i} /\ i \in Ids /\ NoId \notin Ids
      /\ d.closer \in [Ids -> Ids \cup {NoId}] /\ d.claims = P /\ P \subseteq Ids
      /\ \A n \in Ids : d.closer[n] \in P \cup {NoId}
      /\ \A n \in Ids : n \notin P => d.closer[n] = NoId
      /\ \A n \in P : ClosedFirst(d, n)
  <2>1. e \in Projections /\ e.projected = P \cup {i} /\ i \in Ids
    BY ProjectType, RowFacts
  <2>2. NoId \notin Ids
    BY DEF Ids, NoId
  <2>3. d.closer \in [Ids -> Ids \cup {NoId}] /\ P \subseteq Ids
    BY DEF Projections
  <2> HIDE DEF e
  <2> QED BY <2>1, <2>2, <2>3 DEF Resolved
<1>2. /\ e.claims = P \cup {i}
      /\ t = NoId => e.closer = d.closer
      /\ t # NoId => /\ t \in ActiveNeighbors(d, i)
                     /\ Score(i, t) > 0
                     /\ e.closer = [d.closer EXCEPT ![t] = i]
  BY ProjectCloses
<1>3. t # NoId => t \in P /\ t # i /\ Obs(t) <= Obs(i)
                  /\ (d.closer[t] = NoId \/ Obs(d.closer[t]) > Obs(i))
  BY <1>1, <1>2 DEF ActiveNeighbors
<1>4. \A r \in Rows : Obs(r) \in Int /\ r \in Int
  BY RowFacts, ConstantsAssumption DEF Obs
<1>5. \A n \in P : Obs(n) <= Obs(i) => Before(n, i)
  BY <1>4 DEF Before
<1> HIDE DEF e, t
<1>6. \A n \in Ids : e.closer[n] = IF n = t THEN i ELSE d.closer[n]
  BY <1>1, <1>2, <1>3
<1>7. ASSUME NEW n \in P PROVE ClosedFirst(e, n)
  <2> DEFINE C == Closers(P, n)
             D == Closers(P \cup {i}, n)
  <2>1. /\ C \subseteq P /\ C \subseteq D /\ D \subseteq C \cup {i}
        /\ i \in D <=> Before(n, i) /\ Score(i, n) > 0
        /\ C \subseteq Rows /\ n \in Rows
    BY <1>1 DEF Closers
  <2>2. /\ d.closer[n] = NoId => C = {}
        /\ d.closer[n] # NoId => IsFirst(d.closer[n], C)
    BY <1>1 DEF ClosedFirst
  <2>3. CASE n = t
    <3>1. i \in D /\ e.closer[n] = i /\ i # NoId
      BY <2>1, <2>3, <1>1, <1>2, <1>3, <1>5, <1>6
    <3>2. ASSUME NEW j \in D \ {i} PROVE Before(i, j)
      <4>1. j \in C /\ d.closer[n] # NoId /\ IsFirst(d.closer[n], C)
        BY <2>1, <2>2
      <4>2. d.closer[n] \in Rows /\ j \in Rows
        BY <4>1, <2>1 DEF IsFirst
      <4>3. Obs(d.closer[n]) > Obs(i)
        BY <4>1, <2>3, <1>1, <1>3
      <4>4. Before(i, d.closer[n])
        BY <4>2, <4>3, <1>4 DEF Before
      <4>5. d.closer[n] = j \/ Before(d.closer[n], j)
        BY <4>1 DEF IsFirst
      <4> HIDE DEF C, D
      <4>6. QED BY <4>2, <4>4, <4>5, BeforeOrdersRows, RowFacts
    <3>3. IsFirst(i, D)
      BY <3>1, <3>2 DEF IsFirst
    <3> QED BY <3>1, <3>3, <1>1 DEF ClosedFirst
  <2>4. CASE n # t
    <3>1. e.closer[n] = d.closer[n]
      BY <2>4, <1>1, <1>6
    <3>2. CASE i \notin D
      <4>1. D = C
        BY <3>2, <2>1
      <4> QED BY <4>1, <3>1, <2>2, <1>1 DEF ClosedFirst
    <3>3. CASE i \in D
      <4>1. Before(n, i) /\ Score(i, n) > 0 /\ n # i
        BY <3>3, <2>1
      <4>2. n \notin ActiveNeighbors(d, i)
        <5> SUFFICES ASSUME n \in ActiveNeighbors(d, i) PROVE FALSE
          OBVIOUS
        <5>1. t \in ActiveNeighbors(d, i)
          BY <4>1 DEF HeuristicAnswer, IsBestTarget, t
        <5>2. t \in P /\ Score(i, t) > 0 /\ t # i
          BY <5>1, <1>1, <1>2 DEF ActiveNeighbors
        <5> QED BY <5>2, <4>1, <2>1, <2>4, OneOverlap, RowFacts
      <4>3. Obs(n) <= Obs(i)
        BY <4>1, <2>1, <1>4 DEF Before
      <4>4. d.closer[n] # NoId /\ ~(Obs(d.closer[n]) > Obs(i)) /\ d.closer[n] \in P
        BY <4>2, <4>3, <1>1 DEF ActiveNeighbors
      <4>5. Before(d.closer[n], i)
        BY <4>4, <1>4, <1>5
      <4>6. IsFirst(d.closer[n], D)
        BY <4>4, <4>5, <2>1, <2>2 DEF IsFirst
      <4> QED BY <4>4, <4>6, <3>1, <1>1 DEF ClosedFirst
    <3> QED BY <3>2, <3>3
  <2> QED BY <2>3, <2>4
<1>8. e.closer[i] = NoId
  BY <1>1, <1>3, <1>6
<1>9. Resolved(e, {i})
  <2>1. \A n \in Ids : e.closer[n] \in P \cup {i} \cup {NoId}
    BY <1>1, <1>6
  <2>2. \A n \in Ids : n \notin P \cup {i} => e.closer[n] = NoId
    BY <1>1, <1>3, <1>6
  <2>3. \A n \in P \cup {i} : n \notin {i} => ClosedFirst(e, n)
    BY <1>7
  <2> QED BY <2>1, <2>2, <2>3, <1>1, <1>2 DEF Resolved
<1> QED BY <1>1, <1>8, <1>9 DEF e

\* others rest while worker w moves
LEMMA Alone ==
  ASSUME worker \in [Workers -> LocalStates], OneAtATime, OneAtATime', NEW w \in Workers, NEW s,
         worker' = [worker EXCEPT ![w] = s],
         worker[w].stage # "idle" \/ s.stage # "idle"
  PROVE  /\ worker'[w] = s
         /\ \A v \in Workers : v # w => worker[v].stage = "idle" /\ worker'[v] = worker[v]
         /\ Late = LateOf(worker[w])
         /\ Late' = LateOf(s)
<1>1. /\ worker'[w] = s
      /\ \A v \in Workers : v # w => worker'[v] = worker[v]
  OBVIOUS
<1>2. \A v \in Workers : v # w => worker[v].stage = "idle"
  <2> SUFFICES ASSUME NEW v \in Workers, v # w, worker[v].stage # "idle" PROVE FALSE
    OBVIOUS
  <2>1. worker'[v].stage # "idle"
    BY <1>1
  <2> QED BY <1>1, <2>1 DEF OneAtATime
<1>3. \A v \in Workers : v # w => LateOf(worker[v]) = {} /\ LateOf(worker'[v]) = {}
  BY <1>1, <1>2 DEF LateOf, LateStages
<1>4. Late = LateOf(worker[w])
  BY <1>3 DEF Late
<1>5. Late' = LateOf(s)
  <2>1. Late' = UNION {LateOf(worker'[v]) : v \in Workers}
    BY DEF Late, LateOf, LateStages
  <2> QED BY <1>1, <1>3, <2>1
<1> QED BY <1>1, <1>2, <1>4, <1>5

\* what a worker has read stays true while the ledger stays
LEMMA KeptOnCourse ==
  ASSUME UNCHANGED ledger, NEW v \in Workers, OnCourse(db', worker'[v])
  PROVE  OnCourse(db, worker[v])'
<1> DEFINE t == worker'[v]
<1>2. t.stage \notin {"idle", "rebuild"} => t.queue \subseteq Rows' /\ InTurn(db, worker[v].queue)'
  <2> SUFFICES ASSUME t.stage \notin {"idle", "rebuild"}
               PROVE  t.queue \subseteq Rows' /\ InTurn(db, worker[v].queue)'
    OBVIOUS
  <2>1. t.queue \subseteq Rows /\ InTurn(db', t.queue)
    BY DEF OnCourse
  <2>2. t.queue \subseteq Rows'
    BY <2>1 DEF Rows
  <2>3. InTurn(db, worker[v].queue)'
    BY <2>1 DEF InTurn, Rows, Before, Obs
  <2> QED BY <2>2, <2>3
<1>3. t.stage = "commit" =>
        /\ IsFirst(worker[v].event, worker[v].queue)'
        /\ t.event \notin db'.projected
        /\ HeuristicAnswer(worker[v].event, worker[v].memory, ActiveNeighbors(db, worker[v].event))'
  <2> SUFFICES ASSUME t.stage = "commit"
               PROVE  /\ IsFirst(worker[v].event, worker[v].queue)'
                      /\ t.event \notin db'.projected
                      /\ HeuristicAnswer(worker[v].event, worker[v].memory, ActiveNeighbors(db, worker[v].event))'
    OBVIOUS
  <2>1. /\ IsFirst(t.event, t.queue)
        /\ t.event \notin db'.projected
        /\ HeuristicAnswer(t.event, t.memory, ActiveNeighbors(db', t.event))
    BY DEF OnCourse
  <2>2. IsFirst(worker[v].event, worker[v].queue)'
    BY <2>1 DEF IsFirst, Before, Obs
  <2>3. ActiveNeighbors(db, worker[v].event)' = ActiveNeighbors(db', t.event)
    BY DEF ActiveNeighbors, Obs
  <2>4. HeuristicAnswer(worker[v].event, worker[v].memory, ActiveNeighbors(db, worker[v].event))'
    BY <2>1, <2>3 DEF HeuristicAnswer, IsBestTarget, Score
  <2> QED BY <2>1, <2>2, <2>4
<1>4. t.stage \in LateStages =>
        t.event \in db'.projected /\ db'.closer[t.event] = NoId /\ t.until = NoId
  BY DEF OnCourse
<1>5. t.stage \in {"lateRead", "lateApply"} =>
        (/\ worker[v].late \subseteq db.projected
         /\ \A j \in worker[v].late : Before(worker[v].event, j)
         /\ Closers(db.projected, worker[v].event) \subseteq worker[v].late)'
  BY DEF OnCourse, Before, Obs, Closers, Score
<1>6. t.stage = "lateApply" =>
        (\A j \in worker[v].late : IsFirst(j, worker[v].late) => Score(j, worker[v].event) > 0)'
  BY DEF OnCourse, Before, Obs, IsFirst, Score
<1> HIDE DEF t
<1> QED BY <1>2, <1>3, <1>4, <1>5, <1>6 DEF OnCourse, LateStages, t

\* a worker moves on while the ledger stays
LEMMA MovesOn ==
  ASSUME worker \in [Workers -> LocalStates], OneAtATime, OneAtATime', NEW w \in Workers, NEW s,
         worker' = [worker EXCEPT ![w] = s], UNCHANGED ledger,
         worker[w].stage # "idle" \/ s.stage # "idle",
         Resolved(db', LateOf(s)), InTurn(db', {}), OnCourse(db', s)
  PROVE  DbInOrder'
<1>1. /\ worker'[w] = s
      /\ \A v \in Workers : v # w => worker'[v].stage = "idle"
      /\ Late' = LateOf(s)
  BY Alone
<1>2. Resolved(db, Late)'
  <2>1. Resolved(db', Late')
    BY <1>1
  <2> QED BY <2>1 DEF Resolved, ClosedFirst, Closers, IsFirst, Before, Obs, Score
<1>3. InTurn(db, {})'
  BY DEF InTurn, Rows, Before, Obs
<1>4. ASSUME NEW v \in Workers PROVE OnCourse(db, worker[v])'
  <2>1. OnCourse(db', worker'[v])
    <3>1. CASE v = w
      BY <3>1, <1>1
    <3>2. CASE v # w
      BY <3>2, <1>1 DEF OnCourse, LateStages
    <3> QED BY <3>1, <3>2
  <2> QED BY <2>1, KeptOnCourse
<1> QED BY <1>2, <1>3, <1>4 DEF DbInOrder

\* outside a rebuild the lock is free, and stays so
LEMMA TxnStays ==
  ASSUME worker \in [Workers -> LocalStates], OneAtATime, OneAtATime', TxnInOrder,
         NEW w \in Workers, worker[w].stage # "rebuild", NEW s, s.stage # "rebuild",
         worker' = [worker EXCEPT ![w] = s], UNCHANGED <<ledger, txn>>,
         worker[w].stage # "idle" \/ s.stage # "idle"
  PROVE  ~txn.open /\ TxnInOrder'
<1>1. ~txn.open
  BY Alone DEF TxnInOrder
<1>2. Resolved(txn.db, {})'
  BY DEF TxnInOrder, Resolved, ClosedFirst, Closers, IsFirst, Before, Obs, Score
<1>3. txn.db.projected = {}
  BY <1>1 DEF TxnInOrder
<1> QED BY <1>1, <1>2, <1>3 DEF TxnInOrder

\* going on to the next pending row after one that has been projected
LEMMA NextInTurn ==
  ASSUME NEW d, NEW s, s.queue \subseteq Rows, InTurn(d, s.queue), NEW i \in d.projected
  PROVE  /\ OnCourse(d, NextRow(s, i))
         /\ LateOf(NextRow(s, i)) = {}
         /\ NextRow(s, i).stage # "rebuild"
<1>1. CASE s.queue \ {i} = {}
  <2>1. NextRow(s, i).stage = "idle"
    BY <1>1 DEF NextRow, Idle
  <2> QED BY <2>1 DEF OnCourse, LateOf, LateStages
<1>2. CASE s.queue \ {i} # {}
  <2>1. NextRow(s, i).stage = "scan" /\ NextRow(s, i).queue = s.queue \ {i}
    BY <1>2 DEF NextRow, Idle
  <2>2. InTurn(d, s.queue \ {i})
    BY DEF InTurn
  <2> QED BY <2>1, <2>2 DEF OnCourse, LateOf, LateStages
<1> QED BY <1>1, <1>2

\* a step of a pass
LEMMA PassStep ==
  ASSUME IInv, Converging, OneAtATime, OneAtATime', NEW w \in Workers, NEW s,
         worker' = [worker EXCEPT ![w] = s], UNCHANGED <<ledger, txn>>,
         worker[w].stage # "rebuild", s.stage # "rebuild",
         worker[w].stage # "idle" \/ s.stage # "idle",
         Resolved(db', LateOf(s)), InTurn(db', {}), OnCourse(db', s)
  PROVE  Converging'
<1>1. Distinct'
  BY DEF Converging, Distinct, Rows
<1>2. TxnInOrder'
  BY TxnStays, RowFacts DEF Converging
<1>3. DbInOrder'
  BY MovesOn, RowFacts
<1> QED BY <1>1, <1>2, <1>3 DEF Converging

\* what holds where worker w alone is about to move
LEMMA BeforeMove ==
  ASSUME IInv, Converging, OneAtATime, OneAtATime', NEW w \in Workers, NEW s,
         worker' = [worker EXCEPT ![w] = s],
         worker[w].stage # "idle" \/ s.stage # "idle"
  PROVE  /\ Resolved(db, LateOf(worker[w]))
         /\ InTurn(db, {})
         /\ OnCourse(db, worker[w])
         /\ worker[w].stage # "rebuild" /\ s.stage # "rebuild" => ~txn.open
<1>1. Late = LateOf(worker[w])
  BY Alone, RowFacts
<1>2. worker[w].stage # "rebuild" /\ s.stage # "rebuild" => ~txn.open
  BY Alone, RowFacts DEF Converging, TxnInOrder
<1> QED BY <1>1, <1>2 DEF Converging, DbInOrder

\* the rows of a batch are the first of those pending
LEMMA BatchInTurn ==
  ASSUME IInv, InTurn(db, {}), NEW k \in Nat
  PROVE  FirstRows(Pending(db), k) \subseteq Rows /\ InTurn(db, FirstRows(Pending(db), k))
<1> DEFINE S == Pending(db)
           Q == FirstRows(S, k)
           Earlier(i) == {j \in S : Before(j, i)}
<1>1. S \subseteq Rows /\ Q \subseteq S
  BY DEF Pending, FirstRows
<1>2. IsFiniteSet(S)
  <2>1. Len(ledger) \in Int /\ 1 \in Int
    BY RowFacts
  <2>2. IsFiniteSet(Rows)
    BY <2>1, FS_Interval DEF Rows
  <2> QED BY <1>1, <2>2, FS_Subset
<1>3. ASSUME NEW n \in db.projected \cup Q, NEW j \in Rows, j < n, Before(j, n)
      PROVE  j \in db.projected \cup Q
  <2>1. CASE n \in db.projected
    BY <2>1, <1>3 DEF InTurn
  <2>2. CASE n \in Q /\ j \notin db.projected
    <3>1. n \in S /\ Cardinality(Earlier(n)) < k /\ j \in S
      BY <2>2, <1>1 DEF FirstRows, Pending
    <3>2. Earlier(j) \subseteq Earlier(n)
      <4>1. \A r \in Rows : Before(r, j) => Before(r, n)
        BY <1>1, <1>3, <3>1, BeforeOrdersRows, RowFacts
      <4> QED BY <4>1, <1>1
    <3>3. IsFiniteSet(Earlier(n)) /\ Earlier(n) \subseteq S
      <4>1. Earlier(n) \subseteq S
        OBVIOUS
      <4> HIDE DEF Earlier, S
      <4> QED BY <4>1, <1>2, FS_Subset
    <3>4. Cardinality(Earlier(j)) <= Cardinality(Earlier(n))
      <4> HIDE DEF Earlier, S
      <4> QED BY <3>2, <3>3, FS_Subset
    <3>5. Cardinality(Earlier(j)) \in Nat /\ Cardinality(Earlier(n)) \in Nat
      <4> HIDE DEF Earlier, S
      <4> QED BY <3>2, <3>3, FS_Subset, FS_CardinalityType
    <3>6. Cardinality(Earlier(j)) < k
      <4> HIDE DEF Earlier, S
      <4> QED BY <3>1, <3>4, <3>5
    <3> QED BY <3>1, <3>6 DEF FirstRows
  <2> QED BY <2>1, <2>2
<1> HIDE DEF Q
<1>4. Q \subseteq Rows /\ InTurn(db, Q)
  BY <1>1, <1>3 DEF InTurn
<1> QED BY <1>4 DEF Q

\* the closing rows of n among P, once the ones that remain are known to be none
LEMMA NoneCloses ==
  ASSUME NEW d, NEW n, Resolved(d, {n}), d.closer[n] = NoId, Closers(d.projected, n) = {}
  PROVE  Resolved(d, {})
BY DEF Resolved, ClosedFirst

\* a new row changes nothing between the others
LEMMA AppendConverges ==
  ASSUME IInv, Converging, OneAtATime, NEW k \in Keys, AppendEvent(k)
  PROVE  Converging'
<1> USE ConstantsAssumption
<1>1. /\ ledger \in Seq(Keys) /\ ledger' = Append(ledger, k)
      /\ db' = db /\ txn' = txn /\ worker' = worker /\ ~txn.open
      /\ \A i \in Rows : ledger[i] # k
  BY RowFacts DEF AppendEvent
<1> DEFINE r == Len(ledger) + 1
<1>2. /\ Rows' = Rows \cup {r} /\ r \notin Rows /\ ledger'[r] = k
      /\ \A i \in Rows : ledger'[i] = ledger[i] /\ i \in Int /\ i < r
        /\ r \in Int
  BY <1>1 DEF Rows
<1> HIDE DEF r
<1>3. /\ \A i \in Rows : Obs(i)' = Obs(i)
      /\ \A i, j \in Rows : Before(i, j)' <=> Before(i, j)
      /\ \A i, j \in Rows : Score(i, j)' = Score(i, j)
  BY <1>2 DEF Obs, Before, Score
<1>4. Distinct'
  <2>1. \A i, j \in Rows : ledger[i] = ledger[j] => i = j
    BY DEF Converging, Distinct
  <2>2. ASSUME NEW i \in Rows', NEW j \in Rows', ledger'[i] = ledger'[j]
        PROVE  i = j
    <3>1. CASE i = r \/ j = r
      BY <3>1, <2>2, <1>1, <1>2
    <3>2. CASE i \in Rows /\ j \in Rows
      BY <3>2, <2>1, <2>2, <1>2
    <3> QED BY <3>1, <3>2, <1>2
  <2> QED BY <2>2 DEF Distinct
<1>5. TxnInOrder'
  <2>1. txn.db.projected = {} /\ Resolved(txn.db, {})
    BY <1>1 DEF Converging, TxnInOrder
  <2>2. Resolved(txn.db, {})'
    BY <2>1, <1>1 DEF Resolved
  <2> QED BY <1>1, <2>1, <2>2 DEF TxnInOrder
<1>6. db.projected \subseteq Rows /\ Rows \subseteq Ids
  BY RowFacts
<1>7. \A n \in db.projected : (Closers(db.projected, n))' = Closers(db.projected, n)
  BY <1>1, <1>3, <1>6 DEF Closers
<1>8. Resolved(db, Late)'
  <2>1. Late' = Late
    BY <1>1 DEF Late, LateOf, LateStages
  <2>2. ASSUME NEW n \in db.projected, ClosedFirst(db, n)
        PROVE  ClosedFirst(db, n)'
    <3>1. db.closer[n] = NoId => (Closers(db.projected, n))' = {}
      BY <1>7, <2>2 DEF ClosedFirst
    <3>2. ASSUME db.closer[n] # NoId
          PROVE  IsFirst(db.closer[n], Closers(db.projected, n))'
      <4>1. IsFirst(db.closer[n], Closers(db.projected, n)) /\ Closers(db.projected, n) \subseteq Rows
        BY <2>2, <3>2, <1>6 DEF ClosedFirst, Closers
      <4>2. db'.closer[n] = db.closer[n]
        BY <1>1
      <4>3. \A j \in Closers(db.projected, n) \ {db.closer[n]} : Before(db.closer[n], j)'
        BY <4>1, <1>1, <1>3 DEF IsFirst
      <4> QED BY <4>1, <4>2, <4>3, <1>7 DEF IsFirst
    <3> QED BY <3>1, <3>2, <1>1 DEF ClosedFirst
  <2>3. Resolved(db, Late)
    BY DEF Converging, DbInOrder
  <2> QED BY <1>1, <2>1, <2>2, <2>3 DEF Resolved
<1>9. ASSUME NEW Q \in SUBSET Rows, InTurn(db, Q)
      PROVE  \A n \in db.projected \cup Q, j \in Rows' :
               j < n /\ Before(j, n)' => j \in db.projected \cup Q
  <2> SUFFICES ASSUME NEW n \in db.projected \cup Q, NEW j \in Rows', j < n, Before(j, n)'
               PROVE  j \in db.projected \cup Q
    OBVIOUS
  <2>1. n \in Rows /\ n < r /\ r \in Int /\ n \in Int
    BY <1>2, <1>6
  <2>2. j # r
    BY <2>1
  <2>3. j \in Rows /\ Before(j, n)
    BY <2>1, <2>2, <1>2, <1>3
  <2> QED BY <2>3, <1>9 DEF InTurn
<1>10. InTurn(db, {})'
  <2>1. InTurn(db, {})
    BY DEF Converging, DbInOrder
  <2> QED BY <2>1, <1>1, <1>9 DEF InTurn
<1>11. ASSUME NEW w \in Workers PROVE OnCourse(db, worker[w])'
  <2> DEFINE t == worker[w]
  <2>1. OnCourse(db, t)
    BY DEF Converging, DbInOrder
  <2>2. t.stage \notin {"idle", "rebuild"} => t.queue \subseteq Rows' /\ InTurn(db, worker[w].queue)'
    <3> SUFFICES ASSUME t.stage \notin {"idle", "rebuild"}
                 PROVE  t.queue \subseteq Rows' /\ InTurn(db, worker[w].queue)'
      OBVIOUS
    <3>1. t.queue \subseteq Rows /\ InTurn(db, t.queue)
      BY <2>1 DEF OnCourse
    <3> QED BY <3>1, <1>1, <1>2, <1>9 DEF InTurn
  <2>3. t.stage = "commit" =>
          /\ IsFirst(worker[w].event, worker[w].queue)'
          /\ t.event \notin db.projected
          /\ HeuristicAnswer(worker[w].event, worker[w].memory, ActiveNeighbors(db, worker[w].event))'
    <3> SUFFICES ASSUME t.stage = "commit"
                 PROVE  /\ IsFirst(worker[w].event, worker[w].queue)'
                        /\ t.event \notin db.projected
                        /\ HeuristicAnswer(worker[w].event, worker[w].memory, ActiveNeighbors(db, worker[w].event))'
      OBVIOUS
    <3>1. /\ IsFirst(t.event, t.queue) /\ t.queue \subseteq Rows
          /\ t.event \notin db.projected
          /\ HeuristicAnswer(t.event, t.memory, ActiveNeighbors(db, t.event))
      BY <2>1 DEF OnCourse
    <3>2. t.event \in Rows
      BY <3>1 DEF IsFirst
    <3>3. IsFirst(worker[w].event, worker[w].queue)'
      BY <3>1, <3>2, <1>1, <1>3 DEF IsFirst
    <3>4. /\ db.claims \subseteq Rows
          /\ \A n \in db.claims : db.closer[n] = NoId \/ db.closer[n] \in Rows
      BY <1>6 DEF Converging, DbInOrder, Resolved
    <3>5. ActiveNeighbors(db, worker[w].event)' = ActiveNeighbors(db, t.event)
      BY <3>2, <3>4, <1>1, <1>3 DEF ActiveNeighbors
    <3>6. ActiveNeighbors(db, t.event) \subseteq Rows
      BY <3>4 DEF ActiveNeighbors
    <3> DEFINE N == ActiveNeighbors(db, t.event)
    <3>7. HeuristicAnswer(t.event, t.memory, N) /\ N \subseteq Rows
      BY <3>1, <3>6
    <3>8. \A n \in N : (Score(worker[w].event, n))' = Score(t.event, n)
      BY <3>2, <3>7, <1>1, <1>3 DEF Score
    <3> HIDE DEF N
    <3>9. HeuristicAnswer(worker[w].event, worker[w].memory, ActiveNeighbors(db, worker[w].event))'
      BY <3>5, <3>7, <3>8, <1>1 DEF HeuristicAnswer, IsBestTarget, N
    <3> QED BY <3>1, <3>3, <3>9
  <2>4. t.stage \in LateStages =>
          t.event \in db'.projected /\ db'.closer[t.event] = NoId /\ t.until = NoId
    BY <2>1, <1>1 DEF OnCourse
  <2>5. t.stage \in {"lateRead", "lateApply"} =>
          /\ t.late \subseteq db.projected
          /\ \A j \in t.late : Before(worker[w].event, j)'
          /\ (Closers(db.projected, worker[w].event))' \subseteq t.late
    <3> SUFFICES ASSUME t.stage \in {"lateRead", "lateApply"}
                 PROVE  /\ t.late \subseteq db.projected
                        /\ \A j \in t.late : Before(worker[w].event, j)'
                        /\ (Closers(db.projected, worker[w].event))' \subseteq t.late
      OBVIOUS
    <3>1. /\ t.event \in db.projected
          /\ t.late \subseteq db.projected
          /\ \A j \in t.late : Before(t.event, j)
          /\ Closers(db.projected, t.event) \subseteq t.late
      BY <2>1 DEF OnCourse, LateStages
    <3>2. \A j \in t.late : Before(worker[w].event, j)'
      BY <3>1, <1>1, <1>3, <1>6
    <3>3. (Closers(db.projected, worker[w].event))' = Closers(db.projected, t.event)
      BY <3>1, <1>1, <1>3, <1>6 DEF Closers
    <3> QED BY <3>1, <3>2, <3>3
  <2>6. t.stage = "lateApply" =>
          \A j \in t.late : IsFirst(j, worker[w].late)' => Score(j, worker[w].event)' > 0
    <3> SUFFICES ASSUME t.stage = "lateApply", NEW j \in t.late, IsFirst(j, worker[w].late)'
                 PROVE  Score(j, worker[w].event)' > 0
      OBVIOUS
    <3>1. /\ t.event \in db.projected
          /\ t.late \subseteq db.projected
          /\ IsFirst(j, t.late) => Score(j, t.event) > 0
      BY <2>1 DEF OnCourse, LateStages
    <3>2. IsFirst(j, t.late)
      BY <3>1, <1>1, <1>3, <1>6 DEF IsFirst
    <3>3. Score(j, worker[w].event)' = Score(j, t.event)
      BY <3>1, <1>1, <1>3, <1>6
    <3> QED BY <3>1, <3>2, <3>3
  <2>7. t' = t /\ db' = db
    BY <1>1
  <2> HIDE DEF t
  <2> QED BY <2>2, <2>3, <2>4, <2>5, <2>6, <2>7 DEF OnCourse, LateStages, t
<1> QED BY <1>4, <1>5, <1>8, <1>10, <1>11 DEF Converging, DbInOrder

-----------------------------------------------------------------------------
\* a batch is read
LEMMA StartConverges ==
  ASSUME IInv, Converging, OneAtATime, OneAtATime', NEW w \in Workers, NEW n \in Limits,
         NEW f \in Fingerprints, StartPass(w, n, f)
  PROVE  Converging'
<1> DEFINE s == [worker[w] EXCEPT !.stage = "scan", !.queue = FirstRows(Pending(db), n), !.fp = f]
<1>1. /\ worker[w].stage = "idle" /\ worker' = [worker EXCEPT ![w] = s]
      /\ UNCHANGED <<ledger, txn, db>>
  BY DEF StartPass
<1>2. s.stage = "scan" /\ s.queue = FirstRows(Pending(db), n)
  BY RowFacts DEF LocalStates
<1> HIDE DEF s
<1>3. Resolved(db, {}) /\ InTurn(db, {})
  BY <1>1, <1>2, BeforeMove DEF LateOf, LateStages
<1>4. s.queue \subseteq Rows /\ InTurn(db, s.queue)
  BY <1>2, <1>3, BatchInTurn, ConstantsAssumption
<1>5. OnCourse(db, s) /\ LateOf(s) = {}
  BY <1>2, <1>4 DEF OnCourse, LateOf, LateStages
<1> QED BY <1>1, <1>2, <1>3, <1>5, PassStep

\* a row that is no longer pending is left out
LEMMA SkipConverges ==
  ASSUME IInv, Converging, OneAtATime, OneAtATime', NEW w \in Workers, NEW i \in Ids, SkipRow(w, i)
  PROVE  Converging'
<1> DEFINE s == NextRow(worker[w], i)
<1>1. /\ worker[w].stage = "scan" /\ worker' = [worker EXCEPT ![w] = s]
      /\ IsFirst(i, worker[w].queue) /\ i \notin Pending(db)
      /\ UNCHANGED <<ledger, txn, db>>
  BY DEF SkipRow, StillPending
<1> HIDE DEF s
<1>2. Resolved(db, {}) /\ InTurn(db, {}) /\ OnCourse(db, worker[w])
  BY <1>1, BeforeMove DEF LateOf, LateStages
<1>3. worker[w].queue \subseteq Rows /\ InTurn(db, worker[w].queue)
  BY <1>1, <1>2 DEF OnCourse
<1>4. i \in db.projected
  BY <1>1, <1>3 DEF IsFirst, Pending
<1>5. OnCourse(db, s) /\ LateOf(s) = {} /\ s.stage # "rebuild"
  BY <1>3, <1>4, NextInTurn DEF s
<1> QED BY <1>1, <1>2, <1>5, PassStep

\* the neighbours are read and the row is distilled
LEMMA DistillConverges ==
  ASSUME Distiller = "heuristic", IInv, Converging, OneAtATime, OneAtATime',
         NEW w \in Workers, NEW i \in Ids, NEW m \in Memories, Distill(w, i, m)
  PROVE  Converging'
<1> DEFINE s == [worker[w] EXCEPT !.stage = "commit", !.event = i, !.memory = m]
<1>1. /\ worker[w].stage = "scan" /\ worker' = [worker EXCEPT ![w] = s]
      /\ IsFirst(i, worker[w].queue) /\ i \notin db.projected
      /\ HeuristicAnswer(i, m, ActiveNeighbors(db, i))
      /\ UNCHANGED <<ledger, txn, db>>
  BY DEF Distill, AtRow, StillPending, Pending, Accepts
<1>2. s.stage = "commit" /\ s.queue = worker[w].queue /\ s.event = i /\ s.memory = m
  BY RowFacts DEF LocalStates
<1> HIDE DEF s
<1>3. Resolved(db, {}) /\ InTurn(db, {}) /\ OnCourse(db, worker[w])
  BY <1>1, BeforeMove DEF LateOf, LateStages
<1>4. s.queue \subseteq Rows /\ InTurn(db, s.queue)
  BY <1>1, <1>2, <1>3 DEF OnCourse
<1>5. OnCourse(db, s) /\ LateOf(s) = {}
  BY <1>1, <1>2, <1>4 DEF OnCourse, LateOf, LateStages
<1> QED BY <1>1, <1>2, <1>3, <1>5, PassStep

\* the first row of the batch is written
LEMMA CommitConverges ==
  ASSUME Distiller = "heuristic", OneTarget, IInv, Converging, OneAtATime, OneAtATime',
         NEW w \in Workers, CommitRow(w)
  PROVE  Converging'
<1> DEFINE i == worker[w].event
           m == worker[w].memory
           Q == worker[w].queue
           u == IF i \in db.claims THEN db.closer[i] ELSE NoId
           s == [worker[w] EXCEPT !.stage = "lateScan", !.until = u]
           e == Project(db, i, m)
<1>1. /\ worker[w].stage = "commit" /\ worker' = [worker EXCEPT ![w] = s]
      /\ db' = e /\ UNCHANGED <<ledger, txn>>
  BY DEF CommitRow
<1>2. s.stage = "lateScan" /\ s.queue = Q /\ s.event = i /\ s.until = u /\ m \in Memories
  BY RowFacts DEF LocalStates
<1> HIDE DEF s
<1>3. Resolved(db, {}) /\ InTurn(db, {}) /\ OnCourse(db, worker[w])
  BY <1>1, BeforeMove DEF LateOf, LateStages
<1>4. /\ Q \subseteq Rows /\ InTurn(db, Q) /\ IsFirst(i, Q) /\ i \notin db.projected
      /\ HeuristicAnswer(i, m, ActiveNeighbors(db, i))
      /\ i \in Q /\ i \in Rows
  BY <1>1, <1>3 DEF OnCourse, IsFirst
<1>5. \A r \in Rows : r \in Int /\ Obs(r) \in Int
  BY RowFacts, ConstantsAssumption DEF Obs
<1>6. ASSUME NEW n \in db.projected, Obs(n) = Obs(i) PROVE n < i
  <2>1. n \in Rows /\ n # i
    BY <1>4, RowFacts
  <2>2. ~(i < n)
    <3> SUFFICES ASSUME i < n PROVE FALSE
      OBVIOUS
    <3>1. Before(i, n)
      BY <1>6 DEF Before
    <3> QED BY <3>1, <1>3, <1>4 DEF InTurn
  <2> QED BY <2>1, <2>2, <1>4, <1>5
<1>7. Distinct /\ db \in Projections /\ db.projected \subseteq Rows
  BY RowFacts DEF Converging
<1>8. /\ e.projected = db.projected \cup {i}
      /\ e.closer[i] = NoId
      /\ Resolved(e, {i})
  <2>1. \A n \in db.projected : Obs(n) = Obs(i) => n < i
    BY <1>6
  <2>2. m \in Memories /\ HeuristicAnswer(i, m, ActiveNeighbors(db, i))
    BY <1>2, <1>4
  <2>3. i \in Rows /\ i \notin db.projected /\ Resolved(db, {})
    BY <1>3, <1>4
  <2> HIDE DEF i, m
  <2> QED BY <2>1, <2>2, <2>3, <1>7, ProjectResolves
<1>9. u = NoId
  BY <1>3, <1>4 DEF Resolved
<1> HIDE DEF e, u, i, Q, m
<1>10. InTurn(e, {})
  <2>1. ASSUME NEW n \in e.projected, NEW j \in Rows, j < n, Before(j, n) PROVE j \in e.projected
    <3>1. CASE n \in db.projected
      BY <3>1, <2>1, <1>3, <1>8 DEF InTurn
    <3>2. CASE n = i
      <4>1. j \in db.projected \cup Q
        BY <3>2, <2>1, <1>4 DEF InTurn
      <4>2. ~Before(n, j)
        BY <2>1, <3>2, <1>4, BeforeOrdersRows, RowFacts
      <4>3. j \in Q => j = i
        BY <3>2, <4>2, <1>4 DEF IsFirst
      <4> QED BY <4>1, <4>3, <1>8
    <3> QED BY <3>1, <3>2, <1>8
  <2> QED BY <2>1 DEF InTurn
<1>11. InTurn(e, Q)
  <2>1. e.projected \cup Q = db.projected \cup Q
    BY <1>4, <1>8
  <2> QED BY <2>1, <1>4 DEF InTurn
<1>12. OnCourse(e, s) /\ LateOf(s) = {i}
  BY <1>2, <1>4, <1>8, <1>9, <1>11 DEF OnCourse, LateOf, LateStages
<1> QED BY <1>1, <1>2, <1>8, <1>10, <1>12, PassStep

\* the rows after the new one are collected, or there are none
LEMMA ScanConverges ==
  ASSUME IInv, Converging, OneAtATime, OneAtATime', NEW w \in Workers, LateScan(w)
  PROVE  Converging'
<1> DEFINE i == worker[w].event
           Q == worker[w].queue
           after == ProjectedAfter(db, i, worker[w].until)
           s == IF after = {} THEN NextRow(worker[w], i)
                ELSE [worker[w] EXCEPT !.stage = "lateRead", !.late = after]
<1>1. /\ worker[w].stage = "lateScan" /\ worker' = [worker EXCEPT ![w] = s]
      /\ UNCHANGED <<ledger, txn, db>>
  BY DEF LateScan
<1>2. after # {} => s.stage = "lateRead" /\ s.queue = Q /\ s.event = i
                    /\ s.until = worker[w].until /\ s.late = after
  <2> HIDE DEF after
  <2> QED BY RowFacts DEF LocalStates
<1>3. after = {} => s = NextRow(worker[w], i)
  OBVIOUS
<1> HIDE DEF s
<1>4. Resolved(db, {i}) /\ InTurn(db, {}) /\ OnCourse(db, worker[w])
  <2>1. s.stage # "rebuild" \/ worker[w].stage # "idle"
    BY <1>1
  <2> QED BY <1>1, <2>1, BeforeMove DEF LateOf, LateStages
<1>5. /\ Q \subseteq Rows /\ InTurn(db, Q)
      /\ i \in db.projected /\ db.closer[i] = NoId /\ worker[w].until = NoId
  BY <1>1, <1>4 DEF OnCourse, LateStages
<1>6. after = {j \in db.projected : Before(i, j)} /\ Closers(db.projected, i) \subseteq after
  BY <1>5 DEF ProjectedAfter, Closers
<1> HIDE DEF after
<1>7. CASE after = {}
  <2>1. Resolved(db, {})
    BY <1>4, <1>5, <1>6, <1>7, NoneCloses
  <2>2. OnCourse(db, s) /\ LateOf(s) = {} /\ s.stage # "rebuild"
    BY <1>3, <1>5, <1>7, NextInTurn
  <2> QED BY <1>1, <1>4, <2>1, <2>2, PassStep
<1>8. CASE after # {}
  <2>1. LateOf(s) = {i} /\ s.stage # "rebuild"
    BY <1>2, <1>8 DEF LateOf, LateStages
  <2>2. OnCourse(db, s)
    BY <1>2, <1>5, <1>6, <1>8 DEF OnCourse, LateStages
  <2> QED BY <1>1, <1>4, <2>1, <2>2, PassStep
<1> QED BY <1>7, <1>8

\* the new claim is the best target of a later row that overlaps with it at all
LEMMA LateTarget ==
  ASSUME OneTarget, IInv, Distinct, db.claims = db.projected,
         NEW i \in db.projected, db.closer[i] = NoId, NEW j \in Rows, Before(i, j)
  PROVE  LET near == ProjectionNeighbors(db, j)
         IN  i \in near /\ (IsBestTarget(j, i, near) <=> Score(j, i) > 0)
<1> DEFINE near == ProjectionNeighbors(db, j)
<1>1. db.claims = db.projected /\ db.projected \subseteq Rows /\ i \in Rows /\ i # NoId
  BY RowFacts
<1>2. \A r \in Rows : r \in Int /\ Obs(r) \in Int
  BY RowFacts, ConstantsAssumption DEF Obs
<1>3. i \in near
  <2>1. Obs(i) <= Obs(j) /\ ~(Obs(i) = Obs(j) /\ i >= j)
    BY <1>1, <1>2 DEF Before
  <2> QED BY <2>1, <1>1 DEF ProjectionNeighbors
<1>4. near \subseteq Rows /\ j \notin near
  <2>1. near \subseteq Rows
    BY <1>1 DEF ProjectionNeighbors
  <2>2. ~(Obs(j) = Obs(j) /\ ~(j >= j))
    BY <1>2
  <2> QED BY <2>1, <2>2 DEF ProjectionNeighbors
<1> HIDE DEF near
<1>5. ASSUME Score(j, i) > 0 PROVE IsBestTarget(j, i, near)
  <2>1. \A r \in Rows : Score(j, r) \in Nat
    BY RowFacts, ConstantsAssumption DEF Score
  <2>2. ASSUME NEW n \in near PROVE Score(j, i) >= Score(j, n)
    <3>1. CASE Score(j, n) > 0
      <4>1. n = i
        BY <3>1, <1>1, <1>3, <1>4, <1>5, OneOverlap, RowFacts
      <4> QED BY <4>1, <2>1, <1>1
    <3>2. CASE ~(Score(j, n) > 0)
      BY <3>2, <2>1, <1>1, <1>4, <1>5
    <3> QED BY <3>1, <3>2
  <2> QED BY <2>2, <1>3, <1>5 DEF IsBestTarget
<1>6. ASSUME IsBestTarget(j, i, near) PROVE Score(j, i) > 0
  BY <1>1, <1>4, <1>6, BestScores, RowFacts
<1> QED BY <1>3, <1>5, <1>6 DEF near

\* a later row is read and distilled again
LEMMA ReadConverges ==
  ASSUME OneTarget, IInv, Converging, OneAtATime, OneAtATime',
         NEW w \in Workers, NEW j \in Ids, LateRead(w, j)
  PROVE  Converging'
<1> DEFINE i == worker[w].event
           Q == worker[w].queue
           L == worker[w].late
           near == ProjectionNeighbors(db, j)
           goes == i \in near /\ IsBestTarget(j, i, near)
           stays == [worker[w] EXCEPT !.stage = "lateApply"]
           on == [worker[w] EXCEPT !.stage = "lateRead", !.late = L \ {j}]
           s == IF goes THEN stays ELSE NextLate(worker[w], j)
<1>1. /\ worker[w].stage = "lateRead" /\ worker' = [worker EXCEPT ![w] = s]
      /\ IsFirst(j, L) /\ UNCHANGED <<ledger, txn, db>>
  BY DEF LateRead
<1>2. /\ stays.stage = "lateApply" /\ stays.queue = Q /\ stays.event = i
      /\ stays.until = worker[w].until /\ stays.late = L
      /\ on.stage = "lateRead" /\ on.queue = Q /\ on.event = i
      /\ on.until = worker[w].until /\ on.late = L \ {j}
  BY RowFacts DEF LocalStates
<1>3. /\ goes => s = stays
      /\ ~goes /\ L \ {j} # {} => s = on
      /\ ~goes /\ L \ {j} = {} => s = NextRow(worker[w], i)
  BY DEF NextLate
<1> HIDE DEF s, stays, on
<1>4. Resolved(db, {i}) /\ InTurn(db, {}) /\ OnCourse(db, worker[w])
  BY <1>1, BeforeMove DEF LateOf, LateStages
<1>5. /\ Q \subseteq Rows /\ InTurn(db, Q)
      /\ i \in db.projected /\ db.closer[i] = NoId /\ worker[w].until = NoId
      /\ L \subseteq db.projected
      /\ \A k \in L : Before(i, k)
      /\ Closers(db.projected, i) \subseteq L
  BY <1>1, <1>4 DEF OnCourse, LateStages
<1>6. goes <=> Score(j, i) > 0
  <2>1. j \in Rows /\ Before(i, j) /\ Distinct /\ db.claims = db.projected
    BY <1>1, <1>4, <1>5, RowFacts DEF IsFirst, Converging, Resolved
  <2> HIDE DEF i
  <2> QED BY <2>1, <1>5, LateTarget
<1> HIDE DEF goes
<1>7. CASE goes
  <2>1. LateOf(s) = {i} /\ s.stage # "rebuild"
    BY <1>2, <1>3, <1>7 DEF LateOf, LateStages
  <2>2. \A k \in L : IsFirst(k, L) => Score(k, i) > 0
    <3>1. L \subseteq Rows
      BY <1>5, RowFacts
    <3>2. \A k \in L : IsFirst(k, L) => k = j
      BY <3>1, <1>1, OneFirst, RowFacts
    <3> QED BY <3>2, <1>6, <1>7
  <2>3. OnCourse(db, s)
    BY <1>2, <1>3, <1>5, <1>7, <2>2 DEF OnCourse, LateStages
  <2> QED BY <1>1, <1>4, <2>1, <2>3, PassStep
<1>8. CASE ~goes
  <2>1. Closers(db.projected, i) \subseteq L \ {j}
    BY <1>5, <1>6, <1>8 DEF Closers
  <2>2. CASE L \ {j} = {}
    <3>1. Resolved(db, {})
      BY <1>4, <1>5, <2>1, <2>2, NoneCloses
    <3>2. OnCourse(db, s) /\ LateOf(s) = {} /\ s.stage # "rebuild"
      BY <1>3, <1>5, <1>8, <2>2, NextInTurn
    <3> QED BY <1>1, <1>4, <3>1, <3>2, PassStep
  <2>3. CASE L \ {j} # {}
    <3>1. LateOf(s) = {i} /\ s.stage # "rebuild"
      BY <1>2, <1>3, <1>8, <2>3 DEF LateOf, LateStages
    <3>2. OnCourse(db, s)
      BY <1>2, <1>3, <1>5, <1>8, <2>1, <2>3 DEF OnCourse, LateStages
    <3> QED BY <1>1, <1>4, <3>1, <3>2, PassStep
  <2> QED BY <2>2, <2>3
<1> QED BY <1>7, <1>8

\* the first later row that overlaps closes the claim
LEMMA LateConverges ==
  ASSUME IInv, Converging, OneAtATime, OneAtATime',
         NEW w \in Workers, NEW j \in Ids, LateApply(w, j)
  PROVE  Converging'
<1> DEFINE i == worker[w].event
           L == worker[w].late
           P == db.projected
           on == NextRow(worker[w], i)
           e == Invalidate(AddClaim(db, j), i, j, TRUE)
<1>1. /\ worker[w].stage = "lateApply" /\ IsFirst(j, L) /\ db' = e
      /\ UNCHANGED <<ledger, txn>>
      /\ MayClose(AddClaim(db, j), i, j) => worker' = [worker EXCEPT ![w] = on]
      /\ \E s \in {on, NextLate(worker[w], j)} : worker' = [worker EXCEPT ![w] = s]
  BY DEF LateApply
<1>2. Resolved(db, {i}) /\ InTurn(db, {}) /\ OnCourse(db, worker[w])
  <2>1. PICK s : worker' = [worker EXCEPT ![w] = s]
    BY <1>1
  <2> QED BY <1>1, <2>1, BeforeMove DEF LateOf, LateStages
<1>3. /\ worker[w].queue \subseteq Rows /\ InTurn(db, worker[w].queue)
      /\ i \in P /\ db.closer[i] = NoId
      /\ L \subseteq P
      /\ \A k \in L : Before(i, k)
      /\ Closers(P, i) \subseteq L
      /\ Score(j, i) > 0
  BY <1>1, <1>2 DEF OnCourse, LateStages, IsFirst
<1>4. j \in P /\ db.claims = P /\ P \subseteq Rows /\ i \in Ids /\ P \subseteq Ids
  BY <1>1, <1>2, <1>3, RowFacts DEF IsFirst, Resolved
<1>5. AddClaim(db, j) = db /\ Before(i, j) /\ i # j
  <2>1. AddClaim(db, j) = db /\ Before(i, j)
    BY <1>1, <1>3, <1>4 DEF AddClaim, IsFirst
  <2>2. i # j
    BY <2>1, <1>3, <1>4, BeforeOrdersRows, RowFacts
  <2> QED BY <2>1, <2>2
<1>6. MayClose(db, i, j)
  <2>1. Obs(i) <= Obs(j)
    <3>1. Obs(i) \in Int /\ Obs(j) \in Int
      BY <1>3, <1>4, RowFacts, ConstantsAssumption DEF Obs
    <3> QED BY <1>5, <3>1 DEF Before
  <2> QED BY <2>1, <1>3, <1>4 DEF MayClose
<1>7. e = AddEdge([db EXCEPT !.closer[i] = j], j, i)
  BY <1>5, <1>6 DEF Invalidate
<1>8. /\ e.projected = P /\ e.claims = P
      /\ e.closer = [db.closer EXCEPT ![i] = j]
      /\ db.closer \in [Ids -> Ids \cup {NoId}]
  <2>1. db \in Projections
    BY RowFacts
  <2> HIDE DEF e
  <2> QED BY <1>4, <1>5, <1>7, <2>1 DEF AddEdge, Projections
<1> HIDE DEF e, i, on, P
<1>9. \A n \in Ids : e.closer[n] = IF n = i THEN j ELSE db.closer[n]
  BY <1>8
<1>10. ClosedFirst(e, i)
  <2>1. e.closer[i] = j /\ j # NoId
    BY <1>4, <1>9 DEF Ids, NoId
  <2>2. j \in Closers(P, i)
    BY <1>3, <1>4, <1>5 DEF Closers
  <2>3. IsFirst(j, Closers(P, i))
    BY <2>2, <1>1, <1>3 DEF IsFirst
  <2> QED BY <2>1, <2>3, <1>8 DEF ClosedFirst
<1>11. Resolved(e, {})
  <2>1. ASSUME NEW n \in P PROVE ClosedFirst(e, n)
    <3>1. CASE n = i
      BY <3>1, <1>10
    <3>2. CASE n # i
      <4>1. ClosedFirst(db, n) /\ e.closer[n] = db.closer[n]
        BY <3>2, <1>2, <1>4, <1>9 DEF Resolved, P
      <4> QED BY <4>1, <1>8 DEF ClosedFirst, P
    <3> QED BY <3>1, <3>2
  <2>2. \A n \in Ids : e.closer[n] \in P \cup {NoId}
    BY <1>2, <1>4, <1>9 DEF Resolved, P
  <2>3. \A n \in Ids : n \notin P => e.closer[n] = NoId
    BY <1>2, <1>3, <1>9 DEF Resolved, P
  <2> QED BY <2>1, <2>2, <2>3, <1>8 DEF Resolved
<1>12. InTurn(e, {}) /\ InTurn(e, worker[w].queue)
  BY <1>2, <1>3, <1>8 DEF InTurn, P
<1>13. OnCourse(e, on) /\ LateOf(on) = {} /\ on.stage # "rebuild"
  BY <1>3, <1>8, <1>12, NextInTurn DEF on
<1>14. worker' = [worker EXCEPT ![w] = on]
  BY <1>1, <1>5, <1>6 DEF i
<1> QED BY <1>1, <1>11, <1>12, <1>13, <1>14, PassStep

-----------------------------------------------------------------------------
\* the lock is taken and the copy is empty
LEMMA BeginConverges ==
  ASSUME IInv, Converging, OneAtATime, OneAtATime', NEW w \in Workers, NEW c \in Caps,
         NEW f \in Fingerprints, RebuildBegin(w, c, f)
  PROVE  Converging'
<1> DEFINE s == [worker[w] EXCEPT !.stage = "rebuild", !.fp = f]
<1>1. /\ worker[w].stage = "idle" /\ worker' = [worker EXCEPT ![w] = s]
      /\ txn' = OpenTxn(c) /\ UNCHANGED <<ledger, db>>
  BY DEF RebuildBegin
<1>2. s.stage = "rebuild" /\ worker'[w] = s
  BY <1>1, RowFacts DEF LocalStates
<1> HIDE DEF s
<1>3. Resolved(db, {}) /\ InTurn(db, {})
  BY <1>1, <1>2, BeforeMove DEF LateOf, LateStages
<1>4. DbInOrder'
  <2>1. OnCourse(db, s) /\ LateOf(s) = {}
    BY <1>2 DEF OnCourse, LateOf, LateStages
  <2> QED BY <1>1, <1>2, <1>3, <2>1, MovesOn, RowFacts
<1>5. TxnInOrder'
  <2>1. txn'.open /\ txn'.db = EmptyProjection
    BY <1>1 DEF OpenTxn
  <2>2. Resolved(txn.db, {})'
    BY <2>1 DEF Resolved, EmptyProjection
  <2> QED BY <1>2, <2>1, <2>2 DEF TxnInOrder, EmptyProjection
<1>6. Distinct'
  BY <1>1 DEF Converging, Distinct, Rows
<1> QED BY <1>4, <1>5, <1>6 DEF Converging

\* the rebuild replays a row after all those it has replayed
LEMMA RowConverges ==
  ASSUME Distiller = "heuristic", OneTarget, IInv, Converging, OneAtATime, OneAtATime',
         NEW w \in Workers, NEW i \in Ids, NEW m \in Memories, RebuildRow(w, i, m)
  PROVE  Converging'
<1> DEFINE P == txn.db.projected
           e == Project(txn.db, i, m)
<1>1. /\ worker[w].stage = "rebuild" /\ UNCHANGED <<ledger, db, worker>>
      /\ IsFirst(i, Pending(txn.db))
      /\ HeuristicAnswer(i, m, ActiveNeighbors(txn.db, i))
      /\ txn' = [txn EXCEPT !.db = e, !.left = @ - 1]
  BY DEF RebuildRow, Replayable, Replays, Accepts
<1>2. txn'.db = e /\ txn'.open = txn.open
  BY <1>1 DEF IInv, TypeOK
<1>3. /\ i \in Rows /\ i \notin P
      /\ P \subseteq Rows
      /\ \A n \in P, j \in Rows \ P : Before(n, j)
      /\ \A j \in Rows \ P : j # i => Before(i, j)
      /\ Resolved(txn.db, {}) /\ Distinct /\ txn.db \in Projections
  BY <1>1, RowFacts DEF IsFirst, Pending, Converging, TxnInOrder
<1>4. \A n \in P : Obs(n) = Obs(i) => n < i
  <2>1. \A r \in Rows : Obs(r) \in Int
    BY RowFacts, ConstantsAssumption DEF Obs
  <2>2. \A n \in P : Before(n, i)
    BY <1>3
  <2> QED BY <2>1, <2>2, <1>3 DEF Before
<1>5. e.projected = P \cup {i} /\ e.closer[i] = NoId /\ Resolved(e, {i})
  <2>1. HeuristicAnswer(i, m, ActiveNeighbors(txn.db, i))
    BY <1>1
  <2> QED BY <1>3, <1>4, <2>1, ProjectResolves
<1> HIDE DEF e
<1>6. Resolved(e, {})
  <2>1. \A n \in P \cup {i} : ~Before(i, n)
    BY <1>3, BeforeOrdersRows, RowFacts
  <2>2. Closers(e.projected, i) = {}
    BY <2>1, <1>5 DEF Closers
  <2> QED BY <2>2, <1>5, NoneCloses
<1>7. TxnInOrder'
  <2>1. Resolved(txn.db, {})'
    BY <1>1, <1>2, <1>6 DEF Resolved, ClosedFirst, Closers, IsFirst, Before, Obs, Score
  <2>2. (\A n \in txn.db.projected, j \in Rows \ txn.db.projected : Before(n, j))'
    <3>1. \A n \in P \cup {i}, j \in Rows \ (P \cup {i}) : Before(n, j)
      BY <1>3
    <3> QED BY <3>1, <1>1, <1>2, <1>5 DEF Rows, Before, Obs
  <2>3. txn.open
    BY <1>1 DEF IInv, Sound, OwnerOK
  <2> QED BY <2>1, <2>2, <2>3, <1>1, <1>2 DEF TxnInOrder
<1>8. DbInOrder'
  <2>1. worker' = [worker EXCEPT ![w] = worker[w]]
    BY <1>1, RowFacts
  <2>2. Resolved(db, LateOf(worker[w])) /\ InTurn(db, {}) /\ OnCourse(db, worker[w])
    BY <1>1, <2>1, BeforeMove
  <2> QED BY <1>1, <2>1, <2>2, MovesOn, RowFacts
<1>9. Distinct'
  BY <1>1 DEF Converging, Distinct, Rows
<1> QED BY <1>7, <1>8, <1>9 DEF Converging

\* the copy becomes the projection
LEMMA RebuiltConverges ==
  ASSUME IInv, Converging, OneAtATime, OneAtATime', NEW w \in Workers, RebuildCommit(w)
  PROVE  Converging'
<1>1. /\ worker[w].stage = "rebuild" /\ worker' = [worker EXCEPT ![w] = Idle]
      /\ db' = txn.db /\ txn' = NoTxn /\ UNCHANGED ledger
  BY DEF RebuildCommit
<1>2. InTurn(txn.db, {})
  <2>1. \A n \in txn.db.projected, j \in Rows \ txn.db.projected : ~Before(j, n)
    BY BeforeOrdersRows, RowFacts DEF Converging, TxnInOrder
  <2> QED BY <2>1 DEF InTurn
<1>3. OnCourse(txn.db, Idle) /\ LateOf(Idle) = {}
  BY DEF OnCourse, LateOf, LateStages, Idle
<1>4. DbInOrder'
  <2>1. Resolved(txn.db, {})
    BY DEF Converging, TxnInOrder
  <2> QED BY <1>1, <1>2, <1>3, <2>1, MovesOn, RowFacts
<1>5. TxnInOrder'
  <2>1. ~txn'.open /\ txn'.db = EmptyProjection
    BY <1>1 DEF NoTxn
  <2>2. Resolved(txn.db, {})'
    BY <2>1 DEF Resolved, EmptyProjection
  <2> QED BY <2>1, <2>2 DEF TxnInOrder, EmptyProjection
<1>6. Distinct'
  BY <1>1 DEF Converging, Distinct, Rows
<1> QED BY <1>4, <1>5, <1>6 DEF Converging

-----------------------------------------------------------------------------
\* at the start nothing is projected
LEMMA ConvergingInit == Init => Converging
<1> SUFFICES ASSUME Init PROVE Converging
  OBVIOUS
<1>1. Rows = {} /\ Late = {}
  BY DEF Init, Rows, Late, LateOf, LateStages, Idle
<1>2. Resolved(EmptyProjection, {})
  BY DEF Resolved, EmptyProjection
<1>3. TxnInOrder
  BY <1>2 DEF Init, TxnInOrder, NoTxn, EmptyProjection
<1>4. \A w \in Workers : OnCourse(db, worker[w])
  BY DEF Init, OnCourse, Idle, LateStages
<1>5. DbInOrder
  BY <1>1, <1>2, <1>4 DEF Init, DbInOrder, InTurn, EmptyProjection
<1> QED BY <1>1, <1>3, <1>5 DEF Converging, Distinct

\* every step of one worker at a time keeps the projection in order
LEMMA ConvergingStep ==
  ASSUME Distiller = "heuristic", OneTarget, IInv, Converging, OneAtATime, OneAtATime', [Next]_vars
  PROVE  Converging'
<1>1. ASSUME NEW k \in Keys, AppendEvent(k) PROVE Converging'
  BY <1>1, AppendConverges
<1>2. ASSUME NEW w \in Workers, Pass(w) PROVE Converging'
  <2>1. ASSUME NEW i \in Ids, RejectRow(w, i) \/ FailPass(w, i) PROVE FALSE
    BY <2>1 DEF RejectRow, FailPass
  <2>2. ASSUME DiscardRow(w) PROVE FALSE
    <3> DEFINE s == NextRow(worker[w], worker[w].event)
    <3>1. /\ worker[w].stage = "commit" /\ worker' = [worker EXCEPT ![w] = s]
          /\ ~StillPending(worker[w].event)
      BY <2>2 DEF DiscardRow
    <3> HIDE DEF s
    <3>2. OnCourse(db, worker[w])
      BY <3>1, BeforeMove
    <3> QED BY <3>1, <3>2 DEF OnCourse, IsFirst, StillPending, Pending
  <2>3. ASSUME BusyTimeout(w) PROVE FALSE
    <3>1. /\ worker[w].stage \in {"commit", "lateApply"} /\ txn.open
          /\ worker' = [worker EXCEPT ![w] = Idle]
      BY <2>3 DEF BusyTimeout
    <3>2. Idle.stage # "rebuild"
      BY DEF Idle
    <3> QED BY <3>1, <3>2, BeforeMove
  <2> QED BY <1>2, <2>1, <2>2, <2>3, SkipConverges, DistillConverges, CommitConverges,
             ScanConverges, ReadConverges, LateConverges DEF Pass
<1>3. ASSUME NEW w \in Workers, Rebuild(w) PROVE Converging'
  <2>1. ASSUME NEW i \in Ids, NEW m \in Memories, RebuildReject(w, i, m) PROVE FALSE
    BY <2>1 DEF RebuildReject, Replays
  <2> QED BY <1>3, <2>1, RowConverges, RebuiltConverges DEF Rebuild
<1>4. ASSUME NEW w \in Workers, Crash(w) PROVE FALSE
  <2>1. crashes = 0 /\ crashes' = 0 /\ crashes' = crashes + 1
    BY <1>4 DEF OneAtATime, Crash
  <2> QED BY <2>1
<1>5. ASSUME UNCHANGED vars PROVE Converging'
  <2>1. /\ ledger' = ledger /\ db' = db /\ txn' = txn /\ worker' = worker
    BY <1>5 DEF vars
  <2>2. Distinct' /\ Late' = Late
    BY <2>1 DEF Converging, Distinct, Rows, Late, LateOf, LateStages
  <2>3. TxnInOrder'
    BY <2>1 DEF Converging, TxnInOrder, Resolved, ClosedFirst, Closers, IsFirst, Before, Obs,
                Score, Rows
  <2>4. Resolved(db, Late)'
    BY <2>1, <2>2 DEF Converging, DbInOrder, Resolved, ClosedFirst, Closers, IsFirst, Before, Obs, Score
  <2>5. InTurn(db, {})'
    BY <2>1 DEF Converging, DbInOrder, InTurn, Rows, Before, Obs
  <2>6. ASSUME NEW v \in Workers PROVE OnCourse(db, worker[v])'
    <3>1. OnCourse(db', worker'[v])
      BY <2>1 DEF Converging, DbInOrder
    <3> QED BY <3>1, <2>1, KeptOnCourse
  <2> QED BY <2>2, <2>3, <2>4, <2>5, <2>6 DEF Converging, DbInOrder
<1> QED
  BY <1>1, <1>2, <1>3, <1>4, <1>5, StartConverges, BeginConverges DEF Next

\* two projections in which every claim is closed by the first row that would are equal
LEMMA OneResolution ==
  ASSUME IInv, NEW d \in Projections, NEW e \in Projections,
         Resolved(d, {}), Resolved(e, {}), d.projected = Rows, e.projected = Rows
  PROVE  d.closer = e.closer /\ d.claims = e.claims
<1>1. d.closer \in [Ids -> Ids \cup {NoId}] /\ e.closer \in [Ids -> Ids \cup {NoId}]
  BY DEF Projections
<1>2. ASSUME NEW n \in Ids PROVE d.closer[n] = e.closer[n]
  <2>1. CASE n \notin Rows
    BY <2>1 DEF Resolved
  <2>2. CASE n \in Rows
    <3>1. ClosedFirst(d, n) /\ ClosedFirst(e, n)
      BY <2>2 DEF Resolved
    <3>2. Closers(Rows, n) \in SUBSET Rows /\ ledger \in Seq(Keys)
      BY RowFacts DEF Closers
    <3>3. CASE d.closer[n] = NoId \/ e.closer[n] = NoId
      <4>1. Closers(Rows, n) = {}
        BY <3>1, <3>3 DEF ClosedFirst
      <4> QED BY <3>1, <4>1 DEF ClosedFirst, IsFirst
    <3>4. CASE d.closer[n] # NoId /\ e.closer[n] # NoId
      BY <3>1, <3>2, <3>4, OneFirst DEF ClosedFirst
    <3> QED BY <3>3, <3>4
  <2> QED BY <2>1, <2>2
<1> QED BY <1>1, <1>2 DEF Resolved

\* a full rebuild, done before anything else happens, has replayed the ledger
LEMMA ConvergesAtCommit ==
  ASSUME Distiller = "heuristic", IInv, Converging, RebuiltInFull
  PROVE  txn.db.closer = db.closer /\ txn.db.claims = db.claims
<1>1. PICK w \in Workers :
        /\ worker[w].stage = "rebuild" /\ txn.cap = MaxEvents /\ Quiet(w)
        /\ txn.left = 0 \/ Replayable(w) = {}
  BY DEF RebuiltInFull
<1>2. Late = {}
  <2>1. \A v \in Workers : worker[v].stage \notin LateStages
    BY <1>1 DEF Quiet, LateStages
  <2> QED BY <2>1 DEF Late, LateOf
<1>3. db.projected = Rows
  BY <1>1, RowFacts DEF Quiet, Pending
<1>4. txn.db.projected = Rows
  <2>1. CASE Replayable(w) = {}
    BY <2>1, RowFacts DEF Replayable, Pending
  <2>2. CASE txn.left = 0
    <3>1. txn.open
      BY <1>1 DEF IInv, Sound, OwnerOK
    <3>2. txn.db.projected \in SUBSET Ids /\ txn.db.projected \subseteq Rows /\ Rows \subseteq Ids
      BY RowFacts
    <3>3. txn.db.projected = Ids
      BY <1>1, <2>2, <3>1, FullCopy
    <3> QED BY <3>2, <3>3
  <2> QED BY <1>1, <2>1, <2>2
<1> QED BY <1>2, <1>3, <1>4, OneResolution, RowFacts DEF Converging, TxnInOrder, DbInOrder

(***************************************************************************)
(* Arrival order is irrelevant for undisturbed workers.  While no two      *)
(* workers overlap and none crashes, a full rebuild of the heuristic       *)
(* distiller commits exactly the claims and closures there were before it, *)
(* late replay's among them, in whatever order rows arrived and however    *)
(* passes and earlier rebuilds were cut off; provided a text invalidates   *)
(* that of at most one other row (for two it does not hold, README.md).    *)
(***************************************************************************)
THEOREM ConvergesCorrect ==
  ASSUME Distiller = "heuristic", OneTarget
  PROVE  Spec => ConvergesUndisturbed
<1>1. Init => Converging
  BY ConvergingInit
<1>2. IInv /\ Converging /\ OneAtATime /\ OneAtATime' /\ [Next]_vars => Converging'
  BY ConvergingStep
<1>3. IInv /\ Converging => (RebuiltInFull => txn.db.closer = db.closer /\ txn.db.claims = db.claims)
  BY ConvergesAtCommit
<1>4. QED BY <1>1, <1>2, <1>3, Inductive, PTL DEF Spec, ConvergesUndisturbed
===============================================================================
