--------------------------- MODULE QueryReadsProofs ---------------------------
(***************************************************************************)
(* Proofs about QueryReads for any rows, closures, links, questions and    *)
(* number of rebuilds.                                                     *)
(***************************************************************************)
EXTENDS QueryReads, FiniteSetTheorems, WellFoundedInduction, TLAPS

Routed    == {"seeds", "nodes", "snapshots", "visible", "edges", "edge visibility"}
Gathering == {"evidence", "select"}
Reporting == {"report", "stale", "answered"}

\* the stages before active, and after it and the edges are complete
BeforeActive == {"idle", "seeds", "nodes", "snapshots"}
AfterActive  == {"edges", "edge visibility", "evidence", "select", "reconstruct"} \cup Reporting
AfterEdges   == {"evidence", "select", "reconstruct"} \cup Reporting

-----------------------------------------------------------------------------
(* The inductive invariant. *)

Projections ==
  [nodes : SUBSET Rows, closer : [Rows -> Rows \cup {NoRow}], edges : SUBSET (Rows \X Rows)]

\* What a loop has still to do is among what it runs over.
TodoOK ==
  /\ stage \in {"snapshots", "visible", "stale"} => todo \subseteq nodes
  /\ stage = "evidence" => todo \subseteq active

AskOK ==
  /\ ask \in Questions \cup {NoQuestion}
  /\ stage # "idle" => ask \in Questions

\* What is filled in at which stage.
StagesOK ==
  /\ stage = "idle" => nodes = {} /\ edges = {} /\ cited = {} /\ reason = "none"
  /\ stage \in BeforeActive => active = {}
  /\ stage \notin {"stale", "answered"} => stale = {}
  /\ stage \in Gathering => reason = "none"
  /\ stage = "reconstruct" => reason # "none"
  /\ stage \in {"idle"} \cup Routed \cup Gathering /\ reason = "none" => evidence = {}
  /\ \A n \in evidence : \E c \in cited : c[1] = n

\* The modes are those of the route until a reconstruction widens them.
RouteOK ==
  /\ route.allowed \subseteq Modes /\ route.routed \subseteq Modes
  /\ stage # "idle" => route.allowed = Normalized(ask.allowed)
  /\ stage # "idle" /\ reason = "none" => modes = route.routed
  /\ stage \in Reporting /\ reason = "none" /\ evidence = {} => route.routed = route.allowed

\* What held all along holds now.
SeenOK ==
  stage # "idle" =>
    /\ seen.present \subseteq View(db, ask).present
    /\ seen.open \subseteq View(db, ask).open
    /\ seen.closed \subseteq View(db, ask).closed
    /\ seen.settled => View(db, ask).settled

SourceKnown(n) == Observed[n] <= ask.asOf /\ (ask.known # NoTime => EventKnown(n, ask.known))

(***************************************************************************)
(* The copy of a row was made after the query began, so it cannot disagree *)
(* with what held all along.                                               *)
(***************************************************************************)
CopiesOK ==
  stage # "idle" =>
    \A n \in nodes : /\ SourceKnown(n)
                     /\ n \in seen.open => ~ClosedAsOf(n)
                     /\ n \in seen.closed => ClosedAsOf(n)

ActiveOK == stage # "idle" /\ ask.known = NoTime => active \cap seen.closed = {}

CitedOK ==
  stage # "idle" =>
    \A c \in cited : /\ ask.known = NoTime => c[1] \notin seen.closed
                     /\ c[1] \in seen.present => <<c[1], TRUE>> \in cited

\* A closure that stays among the edges was seen to have closed its target.
HasClosed(e) ==
  IsClosure(e) => {e[1], e[2]} \subseteq nodes /\ ClosedAsOf(e[2]) /\ ClosureKnown(e[2])

EdgesOK ==
  /\ stage = "edge visibility" => \A e \in edges \ todo : HasClosed(e)
  /\ stage \in AfterEdges => \A e \in edges : HasClosed(e)

StaleOK ==
  /\ \A n \in stale : ClosedAsOf(n)
  /\ stage \in {"stale", "answered"} =>
       \A e \in Contradictions :
         e[2] \in seen.present => e[2] \in stale \/ (stage = "stale" /\ e[2] \in todo)

\* What an answer about the past should draw on.
Known == KnownRows(ask.known)
Wanted == {n \in Known : Kind[n] \in SupportKinds(modes) /\ Observed[n] <= ask.asOf}
OpenThen(n) == \A i \in ClosersOf(n, Known) : Observed[i] > ask.asOf

SettledCopy(n) ==
  LET c == Earliest(ClosersOf(n, Known))
  IN  IF c = NoRow THEN copy[n] \notin Known ELSE copy[n] = c

TravelOK ==
  stage # "idle" /\ ask.known # NoTime /\ seen.settled =>
    /\ \A n \in nodes : SettledCopy(n)
    /\ stage = "nodes" => nodes \subseteq Wanted
    /\ stage \in {"snapshots", "visible"} \cup AfterActive => nodes = Wanted
    /\ stage = "visible" => active = {n \in Wanted \ todo : OpenThen(n)}
    /\ stage \in AfterActive => active = {n \in Wanted : OpenThen(n)}

IInv ==
  /\ db \in Projections
  /\ TypeOK /\ TodoOK /\ AskOK /\ StagesOK /\ RouteOK /\ SeenOK /\ CopiesOK /\ ActiveOK
  /\ CitedOK /\ EdgesOK /\ StaleOK /\ TravelOK

-----------------------------------------------------------------------------
(* The order of the rows. *)

LEMMA LeastNat ==
  ASSUME NEW S \in SUBSET Nat, S # {}
  PROVE  \E n \in S : \A m \in S : n <= m
<1> DEFINE T == {0..m : m \in S}
<1>1. T \subseteq FiniteSubsetsOf(Nat) /\ T # {}
  <2>1. ASSUME NEW m \in S PROVE 0..m \in FiniteSubsetsOf(Nat)
    <3>1. 0 \in Int /\ m \in Int /\ 0..m \in SUBSET Nat
      OBVIOUS
    <3>2. IsFiniteSet(0..m)
      BY <3>1, FS_Interval
    <3> QED BY <3>1, <3>2 DEF FiniteSubsetsOf
  <2> QED BY <2>1
<1>2. PICK X \in T : \A Y \in T : <<Y, X>> \notin StrictSubsetOrdering(Nat)
  <2> HIDE DEF T
  <2> QED  BY <1>1, FS_StrictSubsetOrderingWellFounded, WFMin
<1>3. PICK n \in S : X = 0..n
  OBVIOUS
<1>4. SUFFICES ASSUME NEW m \in S, m < n PROVE FALSE
  BY <1>3
<1>5. 0..m \subseteq 0..n /\ 0..m # 0..n
  <2>1. n \in 0..n /\ n \notin 0..m
    BY <1>4
  <2> QED BY <2>1, <1>4
<1>6. <<0..m, X>> \in StrictSubsetOrdering(Nat)
  BY <1>3, <1>5 DEF StrictSubsetOrdering
<1> QED BY <1>2, <1>6

LEMMA RowTypes ==
  /\ Rows \subseteq Nat /\ NoRow \notin Rows
  /\ \A i \in Rows : Observed[i] \in Nat /\ Ingested[i] \in Nat
  /\ \A i \in Rows : Kind[i] \in Kinds /\ Closes[i] \in Rows \cup {NoRow}
BY ConstantsAssumption DEF NoRow

LEMMA EarliestRow ==
  ASSUME NEW S \in SUBSET Rows, S # {}
  PROVE  Earliest(S) \in S /\ \A j \in S : Observed[Earliest(S)] <= Observed[j]
<1>1. PICK t \in {Observed[i] : i \in S} : \A u \in {Observed[i] : i \in S} : t <= u
  <2>1. {Observed[i] : i \in S} \in SUBSET Nat /\ {Observed[i] : i \in S} # {}
    BY RowTypes
  <2> QED BY <2>1, LeastNat
<1> DEFINE E == {i \in S : Observed[i] = t}
<1>2. PICK i \in E : \A j \in E : i <= j
  <2>1. E \in SUBSET Nat /\ E # {}
    BY <1>1, RowTypes
  <2> QED BY <2>1, LeastNat
<1>3. ASSUME NEW j \in S \ {i} PROVE Before(i, j)
  <2>1. Observed[i] = t /\ t <= Observed[j] /\ t \in Nat /\ Observed[j] \in Nat
        /\ i \in Nat /\ j \in Nat
    BY <1>1, <1>2, RowTypes
  <2>2. CASE Observed[j] = t
    BY <2>1, <2>2, <1>2 DEF Before
  <2>3. CASE Observed[j] # t
    BY <2>1, <2>3 DEF Before
  <2> QED BY <2>2, <2>3
<1>4. Earliest(S) \in S /\ \A j \in S \ {Earliest(S)} : Before(Earliest(S), j)
  <2>1. \E k \in S : \A j \in S \ {k} : Before(k, j)
    BY <1>2, <1>3
  <2> QED BY <2>1 DEF Earliest
<1>5. ASSUME NEW j \in S PROVE Observed[Earliest(S)] <= Observed[j]
  <2> DEFINE k == Earliest(S)
  <2>1. k \in S /\ (j # k => Before(k, j))
    BY <1>4
  <2>2. Observed[k] \in Nat /\ Observed[j] \in Nat
    BY <2>1, RowTypes
  <2> HIDE DEF k
  <2>3. Observed[k] <= Observed[j]
    BY <2>1, <2>2 DEF Before
  <2> QED BY <2>3 DEF k
<1> QED BY <1>4, <1>5

LEMMA EarliestIn ==
  ASSUME NEW S \in SUBSET Rows
  PROVE  Earliest(S) \in S \cup {NoRow} /\ (Earliest(S) = NoRow <=> S = {})
<1>1. CASE S = {}
  BY <1>1 DEF Earliest
<1>2. CASE S # {}
  BY <1>2, EarliestRow, RowTypes
<1> QED BY <1>1, <1>2

LEMMA FirstIsOne ==
  ASSUME NEW S \in SUBSET Rows, S # {}
  PROVE  \E n \in S : First(S) = {n}
<1>1. PICK n \in S : \A m \in S : n <= m
  BY RowTypes, LeastNat
<1>2. ASSUME NEW m \in First(S) PROVE m = n
  BY <1>1, <1>2, RowTypes DEF First
<1>3. n \in First(S)
  BY <1>1 DEF First
<1> QED BY <1>2, <1>3

-----------------------------------------------------------------------------
(* The writer. *)

LEMMA ClosersAreRows == \A j, S : ClosersOf(j, S) \subseteq S
BY DEF ClosersOf

LEMMA FoldedIsProjection ==
  ASSUME NEW S \in SUBSET Rows
  PROVE  Folded(S) \in Projections
<1>1. ASSUME NEW j \in Rows PROVE Earliest(ClosersOf(j, S)) \in Rows \cup {NoRow}
  <2>1. ClosersOf(j, S) \in SUBSET Rows
    BY ClosersAreRows
  <2> QED BY <2>1, EarliestIn
<1>2. EdgesAmong(S) \subseteq Rows \X Rows
  BY DEF EdgesAmong
<1>3. [j \in Rows |-> IF j \in S THEN Earliest(ClosersOf(j, S)) ELSE NoRow]
        \in [Rows -> Rows \cup {NoRow}]
  BY <1>1
<1> QED BY <1>2, <1>3 DEF Folded, Projections

LEMMA ClosedIsProjection ==
  ASSUME NEW d \in Projections, NEW i \in Rows, NEW j \in Rows
  PROVE  Close(d, i, j) \in Projections
<1> DEFINE closer == IF d.closer[j] # NoRow /\ Before(d.closer[j], i) THEN d.closer[j] ELSE i
<1>1. closer \in Rows \cup {NoRow}
  BY DEF Projections
<1>2. Close(d, i, j) = [d EXCEPT !.closer = [d.closer EXCEPT ![j] = closer],
                                 !.edges = d.edges \cup {<<i, j>>}]
  BY DEF Close, Projections
<1>3. [d.closer EXCEPT ![j] = closer] \in [Rows -> Rows \cup {NoRow}]
  <2> HIDE DEF closer
  <2> QED BY <1>1 DEF Projections
<1>4. d.edges \cup {<<i, j>>} \in SUBSET (Rows \X Rows)
  BY DEF Projections
<1> HIDE DEF closer
<1> QED BY <1>2, <1>3, <1>4 DEF Projections

LEMMA WriteCommits ==
  ASSUME db \in Projections, Write
  PROVE  \E d \in Projections : Commit(d)
<1>1. ASSUME NEW i \in Rows, ProjectRow(i) PROVE \E d \in Projections : Commit(d)
  <2> DEFINE added == [db EXCEPT !.nodes = @ \cup {i},
                                 !.edges = @ \cup {e \in Links : e[1] = i /\ e[2] \in db.nodes}]
             j == Closes[i]
  <2>1. added \in Projections
    <3>1. Links \subseteq Rows \X Rows
      BY ConstantsAssumption
    <3> QED BY <3>1 DEF Projections
  <2>2. j \in db.nodes => j \in Rows
    BY DEF Projections
  <2>3. Commit(IF j \in db.nodes /\ Before(j, i) THEN Close(added, i, j) ELSE added)
    BY <1>1 DEF ProjectRow
  <2> HIDE DEF added, j
  <2> QED BY <2>1, <2>2, <2>3, ClosedIsProjection
<1>2. ASSUME NEW i \in Rows, NEW j \in Rows, ReplayLate(i, j)
      PROVE  \E d \in Projections : Commit(d)
  BY <1>2, ClosedIsProjection DEF ReplayLate
<1>3. ASSUME NEW cap \in Caps, Rebuild(cap) PROVE \E d \in Projections : Commit(d)
  BY <1>3, FoldedIsProjection DEF Rebuild
<1> QED BY <1>1, <1>2, <1>3 DEF Write

\* What was seen only shrinks, to what the new projection shows as well.
LEMMA SeenShrinks ==
  ASSUME NEW d, Commit(d), stage # "idle"
  PROVE  /\ seen'.present = seen.present \cap View(d, ask).present
         /\ seen'.open = seen.open \cap View(d, ask).open
         /\ seen'.closed = seen.closed \cap View(d, ask).closed
         /\ seen'.settled => seen.settled /\ View(d, ask).settled
BY DEF Commit, Still

LEMMA WriteKeeps ==
  ASSUME IInv, Write
  PROVE  IInv'
<1>1. PICK d \in Projections : Commit(d)
  BY WriteCommits DEF IInv
<1>r. UNCHANGED <<stage, ask, route, modes, todo, copy, nodes, active, edges, cited, evidence,
                  reason, stale>> /\ db' = d
  BY <1>1 DEF Commit, reader
<1>2. db' \in Projections /\ TypeOK'
  BY <1>1, <1>r DEF IInv, TypeOK, Projections
<1>3. TodoOK' /\ AskOK' /\ StagesOK' /\ RouteOK'
  BY <1>r DEF IInv, TodoOK, AskOK, StagesOK, RouteOK
<1>4. SeenOK'
  BY <1>1, <1>r, SeenShrinks DEF IInv, SeenOK
<1>5. CopiesOK' /\ ActiveOK'
  BY <1>1, <1>r, SeenShrinks DEF IInv, CopiesOK, ActiveOK, SourceKnown, ClosedAsOf
<1>6. CitedOK'
  BY <1>1, <1>r, SeenShrinks DEF IInv, CitedOK
<1>7. EdgesOK'
  BY <1>r DEF IInv, EdgesOK, HasClosed, ClosedAsOf, ClosureKnown
<1>8. StaleOK'
  BY <1>1, <1>r, SeenShrinks DEF IInv, StaleOK, Contradictions, ClosedAsOf, StagesOK
<1>9. TravelOK'
  BY <1>1, <1>r, SeenShrinks DEF IInv, TravelOK, SettledCopy, Wanted, OpenThen, Known
<1> QED BY <1>2, <1>3, <1>4, <1>5, <1>6, <1>7, <1>8, <1>9 DEF IInv

-----------------------------------------------------------------------------
(* The query. *)

LEMMA Chunks == Chunk \subseteq todo /\ EdgeChunk \subseteq todo
BY DEF Chunk, EdgeChunk, First, FirstEdge

LEMMA EvidenceStep ==
  ASSUME IInv, ReadEvidence
  PROVE  /\ todo' \subseteq todo
         /\ \/ cited' = cited
            \/ \E n \in active : cited' = cited \cup {<<n, SpansOf(n)>>}
<1>i. TypeOK /\ TodoOK
  BY DEF IInv
<1>1. CASE todo = {}
  BY <1>1 DEF ReadEvidence
<1>2. CASE todo # {}
  <2>1. todo \in SUBSET Rows /\ todo \subseteq active
    BY <1>i DEF TypeOK, TodoOK, ReadEvidence
  <2>2. PICK n \in todo : First(todo) = {n}
    BY <2>1, <1>2, FirstIsOne
  <2> QED BY <2>1, <2>2 DEF ReadEvidence
<1> QED BY <1>1, <1>2

LEMMA ActiveIsKnown ==
  ASSUME IInv, stage # "idle", NEW n \in active
  PROVE  SourceKnown(n)
BY DEF IInv, TypeOK, CopiesOK

LEMMA AroundIsActive == \A S : Around(S) \subseteq active
BY DEF Around

LEMMA SelectedIsCited ==
  ASSUME NEW S \in Selections, NEW n \in S
  PROVE  \E c \in cited : c[1] = n
BY DEF Selections

LEMMA SpansAreBoolean == \A n : SpansOf(n) \in BOOLEAN
BY DEF SpansOf

LEMMA AskTypes ==
  ASSUME AskOK, stage # "idle"
  PROVE  /\ ask.asOf \in Nat /\ ask.known \in Nat \cup {NoTime}
         /\ ask.allowed \subseteq Modes /\ ask.reconstruct \in {"off", "auto", "force"}
BY ConstantsAssumption DEF AskOK

\* What is read of a row agrees with what held all along.
LEMMA MatchingAgrees ==
  ASSUME IInv, stage # "idle", NEW n \in Matching
  PROVE  /\ SourceKnown(n)
         /\ n \in seen.open => ~(db.closer[n] # NoRow /\ Observed[db.closer[n]] <= ask.asOf)
         /\ n \in seen.closed => db.closer[n] # NoRow /\ Observed[db.closer[n]] <= ask.asOf
<1>i. db \in Projections /\ SeenOK /\ ask.asOf \in Nat
  BY AskTypes DEF IInv
<1>1. n \in db.nodes /\ SourceKnown(n)
  BY DEF Matching, SourceKnown, HasSource
<1>2. db.closer[n] # NoRow => Observed[db.closer[n]] \in Nat
  BY <1>i, <1>1, RowTypes DEF Projections
<1>3. n \in seen.open => db.closer[n] = NoRow \/ Observed[db.closer[n]] > ask.asOf
  BY <1>i DEF SeenOK, View
<1>4. n \in seen.closed => db.closer[n] # NoRow /\ Observed[db.closer[n]] <= ask.asOf
  BY <1>i DEF SeenOK, View
<1>5. n \in seen.open => ~(db.closer[n] # NoRow /\ Observed[db.closer[n]] <= ask.asOf)
  BY <1>i, <1>2, <1>3
<1> QED BY <1>1, <1>4, <1>5

LEMMA KnownAreRows == Known \subseteq Rows /\ \A n \in Known : EventKnown(n, ask.known)
BY DEF Known, KnownRows

\* A settled store shows to a reader of the past what was known then.
LEMMA SettledStore ==
  ASSUME IInv, stage # "idle", ask.known # NoTime, seen.settled
  PROVE  /\ Known \subseteq db.nodes
         /\ Matching = Wanted
         /\ \A n \in Known : Earliest(ClosersOf(n, Known)) = NoRow => db.closer[n] \notin Known
         /\ \A n \in Known : Earliest(ClosersOf(n, Known)) # NoRow =>
               db.closer[n] = Earliest(ClosersOf(n, Known))
<1>1. Settled(db, ask.known)
  BY DEF IInv, SeenOK, View
<1>2. Known \subseteq db.nodes
  BY <1>1 DEF Settled, Known
<1>3. Matching = Wanted
  BY <1>2, KnownAreRows DEF Matching, Wanted, Known, KnownRows, HasSource, IInv, TypeOK
<1>4. \A n \in Known : IF Earliest(ClosersOf(n, Known)) = NoRow THEN db.closer[n] \notin Known
                       ELSE db.closer[n] = Earliest(ClosersOf(n, Known))
  BY <1>1 DEF Settled, Known
<1> QED BY <1>2, <1>3, <1>4

\* Who is visible by a settled copy was open at the time.
LEMMA SettledVisible ==
  ASSUME IInv, stage # "idle", ask.known # NoTime, NEW n \in Wanted, n \in db.nodes, SettledCopy(n)
  PROVE  VisibleAt(n) <=> OpenThen(n)
<1>i. TypeOK /\ ask.asOf \in Nat /\ n \in Rows
  BY AskTypes, KnownAreRows DEF IInv, Wanted
<1>1. VisibleAt(n) <=> ~(ClosedAsOf(n) /\ ClosureKnown(n))
  BY KnownAreRows DEF VisibleAt, HasSource, Wanted
<1> DEFINE C == ClosersOf(n, Known)
           c == Earliest(C)
<1>2. C \in SUBSET Rows /\ C \subseteq Known
  BY ClosersAreRows, KnownAreRows
<1>3. CASE c = NoRow
  <2>1. copy[n] \notin Known /\ copy[n] \in Rows \cup {NoRow}
    BY <1>i, <1>3 DEF SettledCopy, TypeOK
  <2>2. ~(ClosedAsOf(n) /\ ClosureKnown(n))
    BY <2>1 DEF ClosedAsOf, ClosureKnown, Known, KnownRows
  <2>3. OpenThen(n)
    BY <1>2, <1>3, EarliestIn DEF OpenThen
  <2> QED BY <1>1, <2>2, <2>3
<1>4. CASE c # NoRow
  <2>1. copy[n] = c
    BY <1>4 DEF SettledCopy
  <2>2. C # {}
    BY <1>2, <1>4, EarliestIn
  <2>3. c \in C /\ \A j \in C : Observed[c] <= Observed[j]
    BY <1>2, <2>2, EarliestRow
  <2>4. ClosureKnown(n) /\ (ClosedAsOf(n) <=> Observed[c] <= ask.asOf)
    BY <1>2, <1>4, <2>1, <2>3, KnownAreRows DEF ClosureKnown, ClosedAsOf
  <2>5. OpenThen(n) <=> \A j \in C : Observed[j] > ask.asOf
    BY DEF OpenThen
  <2>6. \A j \in C : Observed[j] \in Nat
    BY <1>2, RowTypes
  <2> HIDE DEF C, c
  <2>7. OpenThen(n) <=> ~(Observed[c] <= ask.asOf)
    BY <1>i, <2>3, <2>5, <2>6
  <2> QED BY <1>1, <2>4, <2>7
<1> QED BY <1>3, <1>4

LEMMA ReadKeeps == Read => UNCHANGED <<db, seen, ask>>
BY DEF Read, ReadSeeds, ReadNodes, ReadSnapshot, ReadVisible, ReadEdges, ReadEdge, ReadEvidence,
       Fallback, Select, Reconstruct, EndReconstruction, StartReport, ReadStale

LEMMA TypeOKRead ==
  ASSUME IInv, Read
  PROVE  TypeOK'
<1>i. db \in Projections /\ TypeOK /\ TodoOK /\ StagesOK /\ RouteOK
  BY DEF IInv
<1>1. ASSUME ReadSeeds PROVE TypeOK'
  BY <1>i, <1>1 DEF TypeOK, ReadSeeds, StagesOK, Matching, BeforeActive
<1>2. ASSUME ReadNodes PROVE TypeOK'
  BY <1>i, <1>2 DEF TypeOK, ReadNodes, Matching, Merged
<1>3. ASSUME ReadSnapshot PROVE TypeOK'
  BY <1>i, <1>3 DEF TypeOK, ReadSnapshot, StagesOK, BeforeActive
<1>4. ASSUME ReadVisible \/ ReadStale PROVE TypeOK'
  BY <1>i, Chunks, <1>4 DEF TypeOK, ReadVisible, ReadStale, TodoOK
<1>5. ASSUME ReadEdges \/ ReadEdge \/ StartReport PROVE TypeOK'
  BY <1>i, <1>5 DEF TypeOK, ReadEdges, ReadEdge, StartReport
<1>6. ASSUME ReadEvidence PROVE TypeOK'
  <2>1. cited' \subseteq Rows \X BOOLEAN
    <3>1. CASE cited' = cited
      BY <1>i, <3>1 DEF TypeOK
    <3>2. ASSUME NEW n \in active, cited' = cited \cup {<<n, SpansOf(n)>>}
          PROVE  cited' \subseteq Rows \X BOOLEAN
      <4>1. n \in Rows
        BY <1>i DEF TypeOK
      <4>2. <<n, SpansOf(n)>> \in Rows \X BOOLEAN
        BY <4>1, SpansAreBoolean
      <4> QED BY <1>i, <3>2, <4>2 DEF TypeOK
    <3> QED BY <1>6, <3>1, <3>2, EvidenceStep
  <2> QED BY <1>i, <1>6, <2>1 DEF TypeOK, ReadEvidence
<1>7. ASSUME NEW S \in Selections, Fallback(S) PROVE TypeOK'
  <2>1. NoCopy \in [Rows -> Rows \cup {NoRow}]
    BY DEF NoCopy
  <2>2. modes' \subseteq Modes
    BY <1>i, <1>7 DEF Fallback, FallbackRoute, Report, Retrieve, RouteOK
  <2> QED BY <1>i, <1>7, <2>1, <2>2 DEF TypeOK, StagesOK, Fallback, Retrieve
<1>8. ASSUME NEW S \in Selections, Select(S) PROVE TypeOK'
  <2>1. NoCopy \in [Rows -> Rows \cup {NoRow}]
    BY DEF NoCopy
  <2>2. S \subseteq Rows
    <3> SUFFICES ASSUME NEW n \in S PROVE n \in Rows
      OBVIOUS
    <3>1. PICK c \in cited : c[1] = n
      BY SelectedIsCited
    <3> QED BY <1>i, <3>1 DEF TypeOK
  <2>3. CASE stage' = "seeds"
    BY <1>i, <1>8, <2>1, <2>2, <2>3 DEF TypeOK, StagesOK, RouteOK, Select, Retrieve
  <2>4. CASE stage' # "seeds"
    BY <1>i, <1>8, <2>2, <2>4 DEF TypeOK, StagesOK, RouteOK, Select, Retrieve
  <2> QED BY <2>3, <2>4
<1>9. ASSUME NEW n \in Rows, Reconstruct(n) PROVE TypeOK'
  <2>1. cited' \subseteq Rows \X BOOLEAN
    BY <1>i, <1>9, SpansAreBoolean DEF TypeOK, Reconstruct
  <2> QED BY <1>i, <1>9, <2>1 DEF TypeOK, Reconstruct
<1>10. ASSUME NEW S \in SUBSET evidence, EndReconstruction(S) PROVE TypeOK'
  BY <1>i, <1>10 DEF TypeOK, EndReconstruction
<1> QED BY <1>1, <1>2, <1>3, <1>4, <1>5, <1>6, <1>7, <1>8, <1>9, <1>10 DEF Read

LEMMA TodoOKRead ==
  ASSUME IInv, Read
  PROVE  TodoOK'
<1>i. TypeOK /\ TodoOK /\ StagesOK
  BY DEF IInv
<1>1. ASSUME ReadSeeds \/ ReadNodes \/ ReadSnapshot \/ ReadVisible
             \/ ReadEdges \/ ReadEdge \/ ReadEvidence \/ ReadStale
      PROVE  TodoOK'
  BY <1>i, <1>1 DEF TodoOK, ReadSeeds, ReadNodes, ReadSnapshot, ReadVisible, ReadEdges,
     ReadEdge, ReadEvidence, ReadStale
<1>2. ASSUME NEW S \in Selections, Fallback(S) PROVE TodoOK'
  BY <1>i, <1>2 DEF TodoOK, Fallback, Retrieve
<1>3. ASSUME NEW S \in Selections, Select(S) PROVE TodoOK'
  BY <1>i, <1>3 DEF TodoOK, Select, Retrieve
<1>4. ASSUME NEW n \in Rows, Reconstruct(n) PROVE TodoOK'
  BY <1>i, <1>4 DEF TodoOK, Reconstruct
<1>5. ASSUME NEW S \in SUBSET evidence, EndReconstruction(S) PROVE TodoOK'
  BY <1>i, <1>5 DEF TodoOK, EndReconstruction
<1>6. ASSUME StartReport PROVE TodoOK'
  BY <1>i, <1>6 DEF TodoOK, StartReport, StaleCandidates, Premises
<1> QED BY <1>1, <1>2, <1>3, <1>4, <1>5, <1>6 DEF Read

LEMMA StagesOKRead ==
  ASSUME IInv, Read
  PROVE  StagesOK'
<1>i. TypeOK /\ StagesOK
  BY DEF IInv
<1>1. ASSUME ReadSeeds \/ ReadNodes \/ ReadSnapshot \/ ReadVisible
             \/ ReadEdges \/ ReadEdge \/ StartReport \/ ReadStale
      PROVE  StagesOK'
  BY <1>i, <1>1 DEF StagesOK, ReadSeeds, ReadNodes, ReadSnapshot, ReadVisible, ReadEdges,
     ReadEdge, StartReport, ReadStale, Routed, Gathering, BeforeActive
<1>2. ASSUME ReadEvidence PROVE StagesOK'
  BY <1>i, <1>2 DEF StagesOK, ReadEvidence, Gathering, BeforeActive
<1>3. ASSUME NEW S \in Selections, Fallback(S) PROVE StagesOK'
  BY <1>i, <1>3 DEF StagesOK, Fallback, Retrieve, Gathering
<1>4. ASSUME NEW S \in Selections, Select(S) PROVE StagesOK'
  <2>1. \A n \in evidence' : \E c \in cited' : c[1] = n
    BY <1>4, SelectedIsCited DEF Select
  <2> QED BY <1>i, <1>4, <2>1 DEF StagesOK, Select, Retrieve, Routed, Gathering, BeforeActive
<1>5. ASSUME NEW n \in Rows, Reconstruct(n) PROVE StagesOK'
  <2>1. \A m \in evidence' : \E c \in cited' : c[1] = m
    <3>1. <<n, SpansOf(n)>>[1] = n /\ <<n, SpansOf(n)>> \in cited'
      BY <1>5 DEF Reconstruct
    <3> QED BY <1>i, <1>5, <3>1 DEF StagesOK, Reconstruct
  <2> QED BY <1>i, <1>5, <2>1 DEF StagesOK, Reconstruct, Routed, Gathering, BeforeActive
<1>6. ASSUME NEW S \in SUBSET evidence, EndReconstruction(S) PROVE StagesOK'
  BY <1>i, <1>6 DEF StagesOK, EndReconstruction, Gathering, BeforeActive
<1> QED BY <1>1, <1>2, <1>3, <1>4, <1>5, <1>6 DEF Read

LEMMA RouteOKRead ==
  ASSUME IInv, Read
  PROVE  RouteOK'
<1>i. RouteOK /\ StagesOK
  BY DEF IInv
<1>1. ASSUME ReadSeeds \/ ReadNodes \/ ReadSnapshot \/ ReadVisible \/ ReadEdges
             \/ ReadEdge \/ ReadEvidence \/ StartReport \/ ReadStale
      PROVE  RouteOK'
  BY <1>i, <1>1 DEF RouteOK, ReadSeeds, ReadNodes, ReadSnapshot, ReadVisible, ReadEdges,
     ReadEdge, ReadEvidence, StartReport, ReadStale, Reporting
<1>2. ASSUME NEW S \in Selections, Fallback(S) PROVE RouteOK'
  BY <1>i, <1>2 DEF RouteOK, Fallback, Retrieve, FallbackRoute, Report
<1>3. ASSUME NEW S \in Selections, Select(S) PROVE RouteOK'
  BY <1>i, <1>3 DEF RouteOK, StagesOK, Select, Gathering, FallsBack, Differs
<1>4. ASSUME NEW n \in Rows, Reconstruct(n) PROVE RouteOK'
  BY <1>i, <1>4 DEF RouteOK, Reconstruct
<1>5. ASSUME NEW S \in SUBSET evidence, EndReconstruction(S) PROVE RouteOK'
  BY <1>i, <1>5 DEF RouteOK, StagesOK, EndReconstruction
<1> QED BY <1>1, <1>2, <1>3, <1>4, <1>5 DEF Read

LEMMA CopiesOKRead ==
  ASSUME IInv, Read
  PROVE  CopiesOK'
<1>i. CopiesOK /\ StagesOK
  BY DEF IInv
<1>1. ASSUME ReadSeeds PROVE CopiesOK'
  <2>1. /\ nodes' \subseteq Matching /\ nodes' \subseteq Rows /\ stage # "idle"
        /\ \A n \in nodes' : copy'[n] = db.closer[n]
    BY <1>1 DEF ReadSeeds, Matching, IInv, Projections
  <2> QED BY <1>1, <2>1, MatchingAgrees, ReadKeeps DEF CopiesOK, SourceKnown, ClosedAsOf, Read
<1>2. ASSUME ReadNodes PROVE CopiesOK'
  <2>1. /\ nodes' = nodes \cup Matching /\ stage # "idle"
        /\ \A n \in nodes' : copy'[n] = IF n \in Matching THEN db.closer[n] ELSE copy[n]
    BY <1>2 DEF ReadNodes, Matching, Merged, IInv, TypeOK, Projections
  <2> QED BY <1>i, <1>2, <2>1, MatchingAgrees, ReadKeeps DEF CopiesOK, SourceKnown, ClosedAsOf,
     Read
<1>3. ASSUME ReadSnapshot \/ ReadVisible \/ ReadEdges \/ ReadEdge
             \/ ReadEvidence \/ StartReport \/ ReadStale
      PROVE  CopiesOK'
  BY <1>i, <1>3 DEF CopiesOK, ReadSnapshot, ReadVisible, ReadEdges, ReadEdge, ReadEvidence,
     StartReport, ReadStale, SourceKnown, ClosedAsOf
<1>4. ASSUME NEW S \in Selections, Fallback(S) PROVE CopiesOK'
  BY <1>i, <1>4 DEF CopiesOK, Fallback, Retrieve
<1>5. ASSUME NEW S \in Selections, Select(S) PROVE CopiesOK'
  BY <1>i, <1>5 DEF CopiesOK, Select, Retrieve, SourceKnown, ClosedAsOf
<1>6. ASSUME NEW n \in Rows, Reconstruct(n) PROVE CopiesOK'
  BY <1>i, <1>6 DEF CopiesOK, Reconstruct, SourceKnown, ClosedAsOf
<1>7. ASSUME NEW S \in SUBSET evidence, EndReconstruction(S) PROVE CopiesOK'
  BY <1>i, <1>7 DEF CopiesOK, EndReconstruction, SourceKnown, ClosedAsOf
<1> QED BY <1>1, <1>2, <1>3, <1>4, <1>5, <1>6, <1>7 DEF Read

LEMMA ActiveOKRead ==
  ASSUME IInv, Read
  PROVE  ActiveOK'
<1>i. ActiveOK /\ CopiesOK /\ TypeOK /\ TodoOK
  BY DEF IInv
<1>1. ASSUME ReadSeeds \/ ReadNodes \/ ReadSnapshot \/ ReadEdges
             \/ ReadEdge \/ ReadEvidence \/ StartReport \/ ReadStale
      PROVE  ActiveOK'
  BY <1>i, <1>1 DEF ActiveOK, ReadSeeds, ReadNodes, ReadSnapshot, ReadEdges, ReadEdge,
     ReadEvidence, StartReport, ReadStale
<1>2. ASSUME ReadVisible PROVE ActiveOK'
  BY <1>i, Chunks, <1>2 DEF ActiveOK, ReadVisible, CopiesOK, TodoOK, VisibleAt, ClosureKnown
<1>3. ASSUME NEW S \in Selections, Fallback(S) PROVE ActiveOK'
  BY <1>i, <1>3 DEF ActiveOK, Fallback, Retrieve
<1>4. ASSUME NEW S \in Selections, Select(S) PROVE ActiveOK'
  BY <1>i, <1>4 DEF ActiveOK, Select, Retrieve
<1>5. ASSUME NEW n \in Rows, Reconstruct(n) PROVE ActiveOK'
  BY <1>i, <1>5 DEF ActiveOK, Reconstruct
<1>6. ASSUME NEW S \in SUBSET evidence, EndReconstruction(S) PROVE ActiveOK'
  BY <1>i, <1>6 DEF ActiveOK, EndReconstruction
<1> QED BY <1>1, <1>2, <1>3, <1>4, <1>5, <1>6 DEF Read

\* The spans of a memory that is active are found as long as it is projected.
LEMMA CitedGrows ==
  ASSUME IInv, stage # "idle", NEW n \in active, cited' = cited \cup {<<n, SpansOf(n)>>},
         UNCHANGED <<db, seen, ask>>, stage' # "idle"
  PROVE  CitedOK'
<1>1. SourceKnown(n)
  BY ActiveIsKnown
<1>2. n \in seen.present => SpansOf(n) = TRUE
  <2>1. n \in seen.present => n \in db.nodes
    BY DEF IInv, SeenOK, View
  <2> QED BY <1>1, <2>1 DEF SpansOf, SourceKnown
<1>3. ask.known = NoTime => n \notin seen.closed
  BY DEF IInv, ActiveOK
<1>4. CitedOK
  BY DEF IInv
<1>5. ASSUME NEW c \in cited'
      PROVE  /\ ask.known = NoTime => c[1] \notin seen.closed
             /\ c[1] \in seen.present => <<c[1], TRUE>> \in cited'
  <2>1. CASE c \in cited
    BY <1>4, <2>1 DEF CitedOK
  <2>2. CASE c = <<n, SpansOf(n)>>
    BY <1>2, <1>3, <2>2
  <2> QED BY <2>1, <2>2
<1> QED BY <1>5 DEF CitedOK

LEMMA CitedOKRead ==
  ASSUME IInv, Read
  PROVE  CitedOK'
<1>i. CitedOK
  BY DEF IInv
<1>1. ASSUME ReadSeeds \/ ReadNodes \/ ReadSnapshot \/ ReadVisible
             \/ ReadEdges \/ ReadEdge \/ StartReport \/ ReadStale
      PROVE  CitedOK'
  BY <1>i, <1>1 DEF CitedOK, ReadSeeds, ReadNodes, ReadSnapshot, ReadVisible, ReadEdges,
     ReadEdge, StartReport, ReadStale
<1>2. ASSUME ReadEvidence PROVE CitedOK'
  <2>1. CASE cited' = cited
    BY <1>i, <1>2, <2>1 DEF CitedOK, ReadEvidence
  <2>2. ASSUME NEW n \in active, cited' = cited \cup {<<n, SpansOf(n)>>} PROVE CitedOK'
    BY <1>2, <2>2, CitedGrows DEF ReadEvidence
  <2> QED BY <1>2, <2>1, <2>2, EvidenceStep
<1>3. ASSUME NEW S \in Selections, Fallback(S) PROVE CitedOK'
  BY <1>i, <1>3 DEF CitedOK, Fallback
<1>4. ASSUME NEW S \in Selections, Select(S) PROVE CitedOK'
  BY <1>i, <1>4 DEF CitedOK, Select
<1>5. ASSUME NEW n \in Rows, Reconstruct(n) PROVE CitedOK'
  BY <1>5, CitedGrows, AroundIsActive DEF Reconstruct
<1>6. ASSUME NEW S \in SUBSET evidence, EndReconstruction(S) PROVE CitedOK'
  BY <1>i, <1>6 DEF CitedOK, EndReconstruction
<1> QED BY <1>1, <1>2, <1>3, <1>4, <1>5, <1>6 DEF Read

LEMMA EdgesOKRead ==
  ASSUME IInv, Read
  PROVE  EdgesOK'
<1>i. EdgesOK /\ StagesOK
  BY DEF IInv
<1>1. ASSUME ReadSeeds \/ ReadNodes \/ ReadSnapshot
             \/ ReadVisible \/ ReadEdges PROVE EdgesOK'
  BY <1>i, <1>1 DEF EdgesOK, ReadSeeds, ReadNodes, ReadSnapshot, ReadVisible, ReadEdges,
     AfterEdges, Reporting
<1>2. ASSUME ReadEdge PROVE EdgesOK'
  BY <1>i, <1>2 DEF EdgesOK, ReadEdge, HasClosed, EdgeVisible, ContradictionVisible, StaleAt,
     ClosedAsOf, ClosureKnown
<1>3. ASSUME ReadEvidence PROVE EdgesOK'
  BY <1>i, <1>3 DEF EdgesOK, ReadEvidence, HasClosed, ClosedAsOf, ClosureKnown, AfterEdges
<1>4. ASSUME NEW S \in Selections, Fallback(S) PROVE EdgesOK'
  BY <1>i, <1>4 DEF EdgesOK, Fallback, Retrieve
<1>5. ASSUME NEW S \in Selections, Select(S) PROVE EdgesOK'
  BY <1>i, <1>5 DEF EdgesOK, Select, Retrieve, HasClosed, ClosedAsOf, ClosureKnown, AfterEdges
<1>6. ASSUME NEW n \in Rows, Reconstruct(n) PROVE EdgesOK'
  BY <1>i, <1>6 DEF EdgesOK, Reconstruct, HasClosed, ClosedAsOf, ClosureKnown
<1>7. ASSUME NEW S \in SUBSET evidence, EndReconstruction(S) PROVE EdgesOK'
  BY <1>i, <1>7 DEF EdgesOK, EndReconstruction, HasClosed, ClosedAsOf, ClosureKnown, AfterEdges
<1>8. ASSUME StartReport \/ ReadStale PROVE EdgesOK'
  BY <1>i, <1>8 DEF EdgesOK, StartReport, ReadStale, HasClosed, ClosedAsOf, ClosureKnown,
     AfterEdges, Reporting
<1> QED BY <1>1, <1>2, <1>3, <1>4, <1>5, <1>6, <1>7, <1>8 DEF Read

LEMMA StaleOKRead ==
  ASSUME IInv, Read
  PROVE  StaleOK'
<1>i. StaleOK /\ StagesOK /\ EdgesOK /\ CopiesOK /\ SeenOK
  BY DEF IInv
<1>1. ASSUME ReadSeeds \/ ReadNodes \/ ReadSnapshot \/ ReadVisible
             \/ ReadEdges \/ ReadEdge \/ ReadEvidence
      PROVE  StaleOK'
  BY <1>i, <1>1 DEF StaleOK, ReadSeeds, ReadNodes, ReadSnapshot, ReadVisible, ReadEdges,
     ReadEdge, ReadEvidence, StagesOK
<1>2. ASSUME NEW S \in Selections, Fallback(S) PROVE StaleOK'
  BY <1>i, <1>2 DEF StaleOK, StagesOK, Fallback, Retrieve
<1>3. ASSUME NEW S \in Selections, Select(S) PROVE StaleOK'
  BY <1>i, <1>3 DEF StaleOK, StagesOK, Select, Retrieve
<1>4. ASSUME NEW n \in Rows, Reconstruct(n) PROVE StaleOK'
  BY <1>i, <1>4 DEF StaleOK, StagesOK, Reconstruct
<1>5. ASSUME NEW S \in SUBSET evidence, EndReconstruction(S) PROVE StaleOK'
  BY <1>i, <1>5 DEF StaleOK, StagesOK, EndReconstruction
<1>6. ASSUME StartReport PROVE StaleOK'
  BY <1>i, <1>6 DEF StaleOK, StartReport, StagesOK, EdgesOK, AfterEdges, Reporting,
     Contradictions, HasClosed, StaleCandidates, Premises
<1>7. ASSUME ReadStale PROVE StaleOK'
  BY <1>i, <1>7 DEF StaleOK, ReadStale, EdgesOK, CopiesOK, SeenOK, AfterEdges, Reporting,
     Contradictions, HasClosed, StaleAt, ClosedAsOf, HasSource, Premises, SourceKnown, View
<1> QED BY <1>1, <1>2, <1>3, <1>4, <1>5, <1>6, <1>7 DEF Read

LEMMA TravelOKRead ==
  ASSUME IInv, Read
  PROVE  TravelOK'
<1>i. TravelOK /\ TypeOK /\ StagesOK
  BY DEF IInv
<1>1. ASSUME ReadSeeds PROVE TravelOK'
  <2>1. /\ nodes' \subseteq Matching /\ nodes' \subseteq Rows /\ stage # "idle" /\ stage' = "nodes"
        /\ \A n \in nodes' : copy'[n] = db.closer[n]
    BY <1>1 DEF ReadSeeds, Matching, IInv, Projections
  <2>2. Wanted' = Wanted /\ Known' = Known /\ UNCHANGED <<ask, seen>>
    BY <1>1 DEF ReadSeeds, Wanted, Known
  <2>3. ASSUME ask.known # NoTime, seen.settled
        PROVE  nodes' \subseteq Wanted /\ \A n \in nodes' : SettledCopy(n)'
    BY <2>1, <2>2, <2>3, SettledStore DEF SettledCopy, Wanted
  <2> QED BY <2>1, <2>2, <2>3 DEF TravelOK, AfterActive, Reporting
<1>2. ASSUME ReadNodes PROVE TravelOK'
  <2>1. /\ nodes' = nodes \cup Matching /\ stage = "nodes" /\ stage' = "snapshots"
        /\ \A n \in nodes' : copy'[n] = IF n \in Matching THEN db.closer[n] ELSE copy[n]
    BY <1>2 DEF ReadNodes, Matching, Merged, IInv, TypeOK, Projections
  <2>2. Wanted' = Wanted /\ Known' = Known /\ UNCHANGED <<ask, seen>>
    BY <1>2 DEF ReadNodes, Wanted, Known
  <2>3. ASSUME ask.known # NoTime, seen.settled
        PROVE  nodes' = Wanted /\ \A n \in nodes' : SettledCopy(n)'
    <3>1. nodes \subseteq Wanted /\ Matching = Wanted
      BY <1>i, <2>1, <2>3, SettledStore DEF TravelOK
    <3>2. \A n \in nodes' : copy'[n] = db.closer[n]
      BY <2>1, <3>1
    <3> QED BY <2>1, <2>2, <2>3, <3>1, <3>2, SettledStore DEF SettledCopy, Wanted
  <2> QED BY <2>1, <2>2, <2>3 DEF TravelOK, AfterActive, Reporting
<1>3. ASSUME ReadSnapshot PROVE TravelOK'
  <2>1. stage = "snapshots" /\ stage' \in {"snapshots", "visible"} /\ active' = {}
    BY <1>i, <1>3 DEF ReadSnapshot, StagesOK, BeforeActive
  <2>2. Wanted' = Wanted /\ Known' = Known /\ UNCHANGED <<ask, seen, copy>>
    BY <1>3 DEF ReadSnapshot, Wanted, Known
  <2>3. ASSUME ask.known # NoTime, seen.settled
        PROVE  nodes' = Wanted /\ \A n \in nodes' : SettledCopy(n)'
    <3>1. nodes = Wanted /\ \A n \in nodes : SettledCopy(n)
      BY <1>i, <2>1, <2>3 DEF TravelOK
    <3>2. \A n \in Wanted : Observed[n] <= ask.asOf /\ HasSource(n)
      BY <2>1, <2>3, SettledStore, KnownAreRows DEF HasSource, Wanted
    <3>3. nodes' = nodes
      BY <1>3, <3>1, <3>2, Chunks DEF ReadSnapshot, IInv, TodoOK
    <3> QED BY <2>2, <3>1, <3>3 DEF SettledCopy
  <2>4. stage' = "visible" => todo' = nodes'
    BY <1>3, <2>1 DEF ReadSnapshot
  <2> QED BY <2>1, <2>2, <2>3, <2>4 DEF TravelOK, AfterActive, Reporting
<1>4. ASSUME ReadVisible PROVE TravelOK'
  <2>1. /\ stage = "visible" /\ stage' \in {"visible", "edges"} /\ todo' = todo \ Chunk
        /\ stage' = "edges" => todo = Chunk
        /\ active' = active \cup {n \in Chunk : VisibleAt(n)}
        /\ todo \subseteq nodes
    BY <1>4 DEF ReadVisible, IInv, TodoOK
  <2>2. Wanted' = Wanted /\ Known' = Known /\ UNCHANGED <<ask, seen, copy, nodes>>
    BY <1>4 DEF ReadVisible, Wanted, Known
  <2>3. ASSUME ask.known # NoTime, seen.settled
        PROVE  /\ nodes = Wanted /\ \A n \in nodes : SettledCopy(n)
               /\ active' = {n \in Wanted \ todo' : OpenThen(n)}
    <3>1. /\ nodes = Wanted /\ \A n \in nodes : SettledCopy(n)
          /\ active = {n \in Wanted \ todo : OpenThen(n)}
      BY <1>i, <2>1, <2>3 DEF TravelOK
    <3>2. \A n \in Wanted : VisibleAt(n) <=> OpenThen(n)
      <4> SUFFICES ASSUME NEW n \in Wanted PROVE VisibleAt(n) <=> OpenThen(n)
        OBVIOUS
      <4>1. n \in db.nodes
        BY <2>1, <2>3, SettledStore DEF Wanted
      <4> QED BY <2>1, <2>3, <3>1, <4>1, SettledVisible
    <3> QED BY <2>1, <3>1, <3>2, Chunks
  <2>4. \A n : OpenThen(n)' <=> OpenThen(n)
    BY <2>2 DEF OpenThen
  <2>5. \A n : SettledCopy(n)' <=> SettledCopy(n)
    BY <2>2 DEF SettledCopy
  <2>6. stage' = "edges" => todo' = {}
    BY <2>1
  <2> QED BY <2>1, <2>2, <2>3, <2>4, <2>5, <2>6 DEF TravelOK, AfterActive, Reporting
<1>5. ASSUME ReadEdges \/ ReadEdge \/ ReadEvidence PROVE TravelOK'
  BY <1>i, <1>5 DEF TravelOK, ReadEdges, ReadEdge, ReadEvidence, AfterActive, SettledCopy,
     Wanted, OpenThen, Known
<1>6. ASSUME NEW S \in Selections, Fallback(S) PROVE TravelOK'
  BY <1>i, <1>6 DEF TravelOK, Fallback, Retrieve, AfterActive, Reporting
<1>7. ASSUME NEW S \in Selections, Select(S) PROVE TravelOK'
  BY <1>i, <1>7 DEF TravelOK, Select, Retrieve, AfterActive, Reporting, SettledCopy, Wanted,
     OpenThen, Known
<1>8. ASSUME NEW n \in Rows, Reconstruct(n) PROVE TravelOK'
  BY <1>i, <1>8 DEF TravelOK, Reconstruct, SettledCopy, Wanted, OpenThen, Known
<1>9. ASSUME NEW S \in SUBSET evidence, EndReconstruction(S) PROVE TravelOK'
  BY <1>i, <1>9 DEF TravelOK, EndReconstruction, AfterActive, SettledCopy, Wanted, OpenThen, Known
<1>10. ASSUME StartReport \/ ReadStale PROVE TravelOK'
  BY <1>i, <1>10 DEF TravelOK, StartReport, ReadStale, AfterActive, Reporting, SettledCopy,
     Wanted, OpenThen, Known
<1> QED BY <1>1, <1>2, <1>3, <1>4, <1>5, <1>6, <1>7, <1>8, <1>9, <1>10 DEF Read

LEMMA ReadersAreBusy == Read => stage # "idle"
BY DEF Read, ReadSeeds, ReadNodes, ReadSnapshot, ReadVisible, ReadEdges, ReadEdge, ReadEvidence,
       Fallback, Select, Reconstruct, EndReconstruction, StartReport, ReadStale

\* A route stays among the modes that are allowed.
LEMMA RouteIsAllowed ==
  ASSUME NEW intents, NEW allowed \in SUBSET Modes, NEW explicit
  PROVE  /\ Route(intents, allowed, explicit).allowed = Normalized(allowed)
         /\ Route(intents, allowed, explicit).routed \subseteq Modes
         /\ Normalized(allowed) \subseteq Modes
<1>1. Normalized(allowed) \subseteq Modes
  BY DEF Normalized
<1>2. \A P : Constrain(P, Normalized(allowed)) \subseteq Normalized(allowed)
  BY DEF Constrain
<1> QED BY <1>1, <1>2 DEF Route, Report

LEMMA ReadInv ==
  ASSUME IInv, Read
  PROVE  IInv'
<1>1. AskOK' /\ SeenOK' /\ db' \in Projections
  <2>1. UNCHANGED <<db, seen, ask>> /\ stage # "idle"
    BY ReadKeeps, ReadersAreBusy
  <2> QED BY <2>1 DEF IInv, AskOK, SeenOK, Projections
<1> QED
  BY <1>1, TypeOKRead, TodoOKRead, StagesOKRead, RouteOKRead, CopiesOKRead, ActiveOKRead,
     CitedOKRead, EdgesOKRead, StaleOKRead, TravelOKRead DEF IInv

\* A question starts afresh, with what holds at that moment.
LEMMA AskInv ==
  ASSUME IInv, NEW q \in Questions, Ask(q)
  PROVE  IInv'
<1>i. TypeOK /\ StagesOK /\ stage = "idle" /\ ask' = q /\ db' = db /\ stage' = "seeds"
  BY DEF IInv, Ask, Retrieve
<1>1. /\ nodes' = {} /\ active' = {} /\ edges' = {} /\ cited' = {} /\ evidence' = {} /\ stale' = {}
      /\ reason' = "none" /\ copy' = NoCopy /\ modes' = route'.routed
  BY <1>i DEF Ask, Retrieve, StagesOK, Routed
<1>2. route' = Route(q.intents, q.allowed, q.explicit)
  BY DEF Ask
<1>3. q.allowed \in SUBSET Modes
  BY ConstantsAssumption
<1>4. RouteOK'
  BY <1>i, <1>1, <1>2, <1>3, RouteIsAllowed DEF RouteOK, Reporting
<1>5. TypeOK'
  <2>1. NoCopy \in [Rows -> Rows \cup {NoRow}]
    BY DEF NoCopy
  <2>2. modes' \subseteq Modes
    BY <1>1, <1>4 DEF RouteOK
  <2> QED BY <1>i, <1>1, <2>1, <2>2 DEF TypeOK
<1>6. TodoOK' /\ AskOK' /\ StagesOK' /\ EdgesOK' /\ StaleOK'
  BY <1>i, <1>1 DEF TodoOK, AskOK, StagesOK, EdgesOK, StaleOK, AfterEdges, Reporting, Gathering,
                   BeforeActive
<1>7. SeenOK'
  BY <1>i DEF Ask, SeenOK, View
<1>8. CopiesOK' /\ ActiveOK' /\ CitedOK' /\ TravelOK'
  BY <1>i, <1>1 DEF CopiesOK, ActiveOK, CitedOK, TravelOK, AfterActive, Reporting
<1> QED BY <1>i, <1>4, <1>5, <1>6, <1>7, <1>8 DEF IInv

LEMMA InitInv == Init => IInv
<1> SUFFICES ASSUME Init PROVE IInv
  OBVIOUS
<1>1. db \in Projections
  BY FoldedIsProjection DEF Init
<1>2. route.allowed \subseteq Modes /\ route.routed \subseteq Modes
  BY RouteIsAllowed DEF Init
<1>3. NoCopy \in [Rows -> Rows \cup {NoRow}]
  BY DEF NoCopy
<1>4. TypeOK
  BY <1>1, <1>3 DEF Init, TypeOK, Projections
<1>5. TodoOK /\ AskOK /\ StagesOK /\ RouteOK
  BY <1>2 DEF Init, TodoOK, AskOK, StagesOK, RouteOK, Routed, Gathering, Reporting, BeforeActive
<1>6. SeenOK /\ CopiesOK /\ ActiveOK /\ CitedOK /\ EdgesOK /\ StaleOK /\ TravelOK
  BY DEF Init, SeenOK, CopiesOK, ActiveOK, CitedOK, EdgesOK, StaleOK, TravelOK, AfterEdges, Reporting
<1> QED BY <1>1, <1>4, <1>5, <1>6 DEF IInv

(***************************************************************************)
(* The inductive invariant: each copy and each check of answer_query       *)
(* agrees with what held all along since the query began.                  *)
(***************************************************************************)
THEOREM Inductive == Spec => []IInv
<1>1. IInv /\ [Next]_vars => IInv'
  <2> SUFFICES ASSUME IInv, [Next]_vars PROVE IInv'
    OBVIOUS
  <2>1. CASE UNCHANGED vars
    <3>1. UNCHANGED <<db, seen, stage, ask, route, modes, todo, copy, nodes, active, edges, cited,
                      evidence, reason, stale>>
      BY <2>1 DEF vars, reader
    <3>2. db' \in Projections /\ TypeOK' /\ TodoOK' /\ AskOK' /\ StagesOK' /\ RouteOK'
      BY <3>1 DEF IInv, TypeOK, TodoOK, AskOK, StagesOK, RouteOK
    <3>3. SeenOK' /\ CopiesOK' /\ ActiveOK' /\ CitedOK'
      BY <3>1 DEF IInv, SeenOK, CopiesOK, ActiveOK, CitedOK, SourceKnown, ClosedAsOf
    <3>4. EdgesOK' /\ StaleOK'
      BY <3>1 DEF IInv, EdgesOK, StaleOK, HasClosed, ClosedAsOf, ClosureKnown, Contradictions
    <3>5. TravelOK'
      BY <3>1 DEF IInv, TravelOK, SettledCopy, Wanted, OpenThen, Known
    <3> QED BY <3>2, <3>3, <3>4, <3>5 DEF IInv
  <2> QED BY <2>1, WriteKeeps, ReadInv, AskInv DEF Next
<1> QED BY <1>1, InitInv, PTL DEF Spec

(***************************************************************************)
(* Whatever is projected, closed late or rebuilt between two statements of *)
(* a query, its answer is sound (answer_query).                            *)
(***************************************************************************)
THEOREM AnswerIsSoundCorrect == Spec => []AnswerIsSound
<1>1. ASSUME IInv PROVE AnswerIsSound
  <2>i. TypeOK /\ StagesOK /\ CitedOK /\ CopiesOK /\ EdgesOK /\ StaleOK
    BY <1>1 DEF IInv
  <2>1. ClosedIsNotCurrent
    <3> SUFFICES ASSUME Answered, ask.known = NoTime, NEW n \in evidence PROVE n \notin seen.closed
      BY DEF ClosedIsNotCurrent
    <3>1. PICK c \in cited : c[1] = n
      BY <2>i DEF StagesOK
    <3> QED BY <2>i, <3>1 DEF CitedOK, Answered
  <2>2. OpenIsNotStale
    <3> SUFFICES ASSUME Answered
                 PROVE  (stale \cup {e[2] : e \in Contradictions}) \cap seen.open = {}
      BY DEF OpenIsNotStale
    <3>1. ASSUME NEW n \in stale PROVE n \notin seen.open
      BY <2>i DEF Answered, StaleOK, CopiesOK, TypeOK
    <3>2. ASSUME NEW e \in Contradictions PROVE e[2] \notin seen.open
      BY <2>i DEF Answered, EdgesOK, CopiesOK, Contradictions, HasClosed, AfterEdges, Reporting
    <3> QED BY <3>1, <3>2
  <2>3. EvidenceIsReconciled
    BY <2>i DEF EvidenceIsReconciled, Answered, StaleOK
  <2>4. EvidenceIsCited
    <3> SUFFICES ASSUME Answered, NEW n \in evidence, n \in seen.present PROVE <<n, TRUE>> \in cited
      BY DEF EvidenceIsCited
    <3>1. PICK c \in cited : c[1] = n
      BY <2>i DEF StagesOK
    <3> QED BY <2>i, <3>1 DEF CitedOK, Answered
  <2> QED BY <2>i, <2>1, <2>2, <2>3, <2>4 DEF AnswerIsSound
<1> QED BY <1>1, Inductive, PTL

(***************************************************************************)
(* A reader of a past that is settled gets what the ledger said then,      *)
(* whatever happens meanwhile (answer_query with known_at).                *)
(***************************************************************************)
THEOREM TimeTravelCorrect == Spec => []TimeTravelIsImmune
<1>1. ASSUME IInv PROVE TimeTravelIsImmune
  <2> SUFFICES ASSUME Answered, ask.known # NoTime, seen.settled
               PROVE  active = {n \in Known : /\ Kind[n] \in SupportKinds(modes)
                                              /\ Observed[n] <= ask.asOf
                                              /\ OpenThen(n)}
    BY DEF TimeTravelIsImmune, Known, OpenThen
  <2>1. active = {n \in Wanted : OpenThen(n)}
    BY <1>1 DEF IInv, TravelOK, Answered, AfterActive, Reporting
  <2> QED BY <2>1 DEF Wanted
<1> QED BY <1>1, Inductive, PTL

(***************************************************************************)
(* An answer that has no evidence looked at every mode that was allowed,   *)
(* whatever the router guessed (route_query, the fallback route).          *)
(***************************************************************************)
THEOREM NothingWithheldCorrect == Spec => []NothingWithheld
<1>1. IInv => NothingWithheld
  BY DEF IInv, RouteOK, NothingWithheld, Answered, Reporting
<1> QED BY <1>1, Inductive, PTL

===============================================================================
