------------------------ MODULE VersionFamiliesProofs ------------------------
(***************************************************************************)
(* Proofs about VersionFamilies for any texts, times, operations and       *)
(* number of rows, with late replay or without.  That what is revised is   *)
(* closed, and only ever earlier, takes a clock that tells writes apart;   *)
(* the rest holds under any clock.                                         *)
(***************************************************************************)
EXTENDS VersionFamilies, FiniteSetTheorems, WellFoundedInduction, TLAPS

Memory == [text : Texts, at : Times]

LedgerOK == ledger \in Seq(Memory) /\ Len(ledger) <= MaxEvents

\* The rows a graph speaks of are those in P, and its edges join nodes.
Placed(g, P) ==
  /\ g \in Graphs
  /\ \A v \in Versions : g.cites[v] \subseteq P
  /\ \A v \in Versions : g.closer[v] # NoId => v \in Nodes(g) /\ g.closer[v] \in P
  /\ g.edges \subseteq Nodes(g) \X Nodes(g)

\* A version begins when the rows that state it were observed.
Timed(g) == \A v \in Versions : \A i \in g.cites[v] : Obs(i) = v.from

\* By time t version v has been closed.
ClosedBy(g, v, t) == g.closer[v] # NoId /\ Obs(g.closer[v]) <= t

\* FamilyWindowsDisjoint, of any graph
Ordered(g) ==
  \A u, v \in Nodes(g) : u.family = v.family /\ u.from < v.from => ClosedBy(g, u, v.from)

Sound(g, P) == Placed(g, P) /\ Timed(g) /\ Ordered(g)

\* What a write makes of a graph: another sound one that has lost no version.
Grows(g, h, P) == Sound(h, P) /\ Nodes(g) \subseteq Nodes(h)

LateOK ==
  /\ late \in [version : Versions \cup {NoVersion}, queue : SUBSET projected]
  /\ late.queue # {} => late.version \in Nodes(graph)

IInv ==
  /\ LedgerOK
  /\ projected \subseteq Rows
  /\ Sound(graph, projected)
  /\ LateOK

-----------------------------------------------------------------------------
(* Least elements. *)

\* A nonempty set of natural numbers has a least one.
LEMMA LeastNat ==
  ASSUME NEW S \in SUBSET Nat, S # {}
  PROVE  \E n \in S : \A m \in S : n <= m
<1> DEFINE T == {0..m : m \in S}
<1>1. T \subseteq FiniteSubsetsOf(Nat) /\ T # {}
  <2>1. ASSUME NEW m \in S PROVE 0..m \in FiniteSubsetsOf(Nat)
    <3>1. 0 \in Int /\ m \in Int /\ 0..m \in SUBSET Nat
      OBVIOUS
    <3>2. IsFiniteSet(0..m)
      BY <3>1, FS_Interval
    <3> QED BY <3>1, <3>2 DEF FiniteSubsetsOf
  <2> QED BY <2>1
<1>2. PICK X \in T : \A Y \in T : <<Y, X>> \notin StrictSubsetOrdering(Nat)
  <2> HIDE DEF T
  <2> QED  BY <1>1, FS_StrictSubsetOrderingWellFounded, WFMin
<1>3. PICK n \in S : X = 0..n
  OBVIOUS
<1>4. SUFFICES ASSUME NEW m \in S, m < n PROVE FALSE
  BY <1>3
<1>5. 0..m \subseteq 0..n /\ 0..m # 0..n
  <2>1. n \in 0..n /\ n \notin 0..m
    BY <1>4
  <2> QED BY <2>1, <1>4
<1>6. <<0..m, 0..n>> \in StrictSubsetOrdering(Nat)
  <2>1. 0..m \in SUBSET Nat /\ 0..n \in SUBSET Nat
    OBVIOUS
  <2> QED BY <2>1, <1>5 DEF StrictSubsetOrdering
<1>7. 0..m \in T
  OBVIOUS
<1> HIDE DEF T
<1> QED
  BY <1>2, <1>3, <1>6, <1>7

\* Observed times are natural numbers, and row ids numbers of rows.
LEMMA RowTypes ==
  ASSUME LedgerOK
  PROVE  /\ Rows \subseteq Ids /\ Rows \subseteq Nat /\ NoId \notin Rows
         /\ \A i \in Rows : Obs(i) \in Times /\ Obs(i) \in Nat /\ ledger[i].text \in Texts
<1>1. Len(ledger) \in Nat /\ \A i \in 1..Len(ledger) : ledger[i] \in Memory
  BY DEF LedgerOK
<1>2. Rows \subseteq Ids /\ Rows \subseteq Nat /\ NoId \notin Rows
  BY <1>1, ConstantsAssumption DEF LedgerOK, Rows, Ids, NoId
<1>3. ASSUME NEW i \in Rows
      PROVE  Obs(i) \in Times /\ Obs(i) \in Nat /\ ledger[i].text \in Texts
  <2>1. ledger[i] \in Memory
    BY <1>1 DEF Rows
  <2> QED BY <2>1, ConstantsAssumption DEF Memory, Obs
<1> QED
  BY <1>2, <1>3

\* A nonempty set of rows has one that comes first.
LEMMA FirstExists ==
  ASSUME LedgerOK, NEW S \in SUBSET Rows, S # {}
  PROVE  \E i \in S : IsFirst(i, S)
<1>1. PICK t \in {Obs(i) : i \in S} : \A u \in {Obs(i) : i \in S} : t <= u
  <2>1. {Obs(i) : i \in S} \in SUBSET Nat /\ {Obs(i) : i \in S} # {}
    BY RowTypes
  <2> QED BY <2>1, LeastNat
<1> DEFINE E == {i \in S : Obs(i) = t}
<1>2. PICK i \in E : \A j \in E : i <= j
  <2>1. E \in SUBSET Nat /\ E # {}
    BY <1>1, RowTypes
  <2> QED BY <2>1, LeastNat
<1>3. ASSUME NEW j \in S \ {i} PROVE Before(i, j)
  <2>1. Obs(i) = t /\ t <= Obs(j) /\ t \in Nat /\ Obs(j) \in Nat /\ i \in Nat /\ j \in Nat
    BY <1>1, <1>2, RowTypes
  <2>2. CASE Obs(j) = t
    BY <2>1, <2>2, <1>2 DEF Before
  <2>3. CASE Obs(j) # t
    BY <2>1, <2>3 DEF Before
  <2> QED BY <2>2, <2>3
<1> QED
  BY <1>2, <1>3 DEF IsFirst

LEMMA FirstEventOK ==
  ASSUME LedgerOK, NEW P \in SUBSET Rows, NEW g, Sound(g, P), NEW v \in Nodes(g)
  PROVE  FirstEvent(g, v) \in g.cites[v] /\ Obs(FirstEvent(g, v)) = v.from
<1>1. g.cites[v] \in SUBSET Rows /\ g.cites[v] # {} /\ v \in Versions
  BY DEF Sound, Placed, Nodes
<1>2. \E i \in g.cites[v] : IsFirst(i, g.cites[v])
  BY <1>1, FirstExists
<1>3. FirstEvent(g, v) \in g.cites[v]
  BY <1>2 DEF FirstEvent
<1> QED
  BY <1>1, <1>3 DEF Sound, Timed

\* The version that is listed first is one of the listed.
LEMMA FirstListedOK ==
  ASSUME NEW S \in SUBSET Versions, S # {}
  PROVE  FirstListed(S) \in S
<1>1. \A v \in S : v.rev \in Nat /\ v.rev <= MaxEvents
  BY ConstantsAssumption DEF Versions, Ids, NoId
<1>2. \E v \in S : \A u \in S : v.rev >= u.rev
  <2>1. {MaxEvents - v.rev : v \in S} \in SUBSET Nat /\ {MaxEvents - v.rev : v \in S} # {}
    BY <1>1, ConstantsAssumption
  <2>2. PICK n \in {MaxEvents - v.rev : v \in S} : \A m \in {MaxEvents - v.rev : v \in S} : n <= m
    BY <2>1, LeastNat
  <2>3. PICK v \in S : n = MaxEvents - v.rev
    OBVIOUS
  <2>4. \A u \in S : MaxEvents - v.rev <= MaxEvents - u.rev
    BY <2>2, <2>3
  <2> QED BY <2>4, <1>1, ConstantsAssumption
<1>3. \E v \in S : \A u \in S : v.rev <= u.rev
  <2>1. {v.rev : v \in S} \in SUBSET Nat /\ {v.rev : v \in S} # {}
    BY <1>1
  <2>2. PICK n \in {v.rev : v \in S} : \A m \in {v.rev : v \in S} : n <= m
    BY <2>1, LeastNat
  <2> QED BY <2>2
<1>4. \E v \in S : \A u \in S : IF Clock = "fine" THEN v.rev >= u.rev ELSE v.rev <= u.rev
  BY <1>2, <1>3
<1> QED
  BY <1>4 DEF FirstListed

-----------------------------------------------------------------------------
(* Writes. *)

\* What a closure changes of a graph.
LEMMA SetCloserFields ==
  ASSUME NEW g \in Graphs, NEW S, NEW c \in Ids \cup {NoId}
  PROVE  LET h == SetCloser(g, S, c)
         IN  /\ h \in Graphs /\ h.cites = g.cites /\ h.edges = g.edges
             /\ \A v \in Versions : h.closer[v] = IF v \in S THEN c ELSE g.closer[v]
             /\ Nodes(h) = Nodes(g)
BY DEF SetCloser, Graphs, Nodes

\* What citing a row changes of a graph.
LEMMA CiteFields ==
  ASSUME NEW g \in Graphs, NEW v \in Versions, NEW i \in Ids
  PROVE  LET h == Cite(g, v, i)
         IN  /\ h \in Graphs /\ h.closer = g.closer /\ h.edges = g.edges
             /\ \A w \in Versions : h.cites[w] = IF w = v THEN g.cites[w] \cup {i} ELSE g.cites[w]
             /\ Nodes(h) = Nodes(g) \cup {v}
<1> DEFINE h == Cite(g, v, i)
<1>1. /\ h.closer = g.closer /\ h.edges = g.edges
      /\ h.cites = [g.cites EXCEPT ![v] = @ \cup {i}] /\ h \in Graphs
  BY DEF Cite, Graphs
<1>2. \A w \in Versions : h.cites[w] = IF w = v THEN g.cites[w] \cup {i} ELSE g.cites[w]
  BY <1>1 DEF Graphs
<1>3. Nodes(h) = Nodes(g) \cup {v}
  BY <1>2 DEF Nodes
<1> QED
  BY <1>1, <1>2, <1>3 DEF Graphs

\* A closure that comes earlier than the one there was, or is the first, leaves
\* the windows of a family apart.
LEMMA CloseOK ==
  ASSUME LedgerOK, NEW P \in SUBSET Rows, NEW g, Sound(g, P), NEW v \in Versions, NEW i \in P,
         v \in Nodes(g)
  PROVE  Grows(g, Close(g, v, i), P) /\ Close(g, v, i).cites = g.cites
<1>1. CASE ~CanClose(g, v, i)
  BY <1>1 DEF Close, Grows
<1>2. CASE CanClose(g, v, i)
  <2> DEFINE h == Close(g, v, i)
  <2>1. h = SetCloser(g, {v}, i) /\ g \in Graphs /\ i \in Ids /\ i # NoId
    BY <1>2, RowTypes DEF Close, Sound, Placed
  <2>2. /\ h \in Graphs /\ h.cites = g.cites /\ h.edges = g.edges /\ Nodes(h) = Nodes(g)
        /\ \A w \in Versions : h.closer[w] = IF w = v THEN i ELSE g.closer[w]
    BY <2>1, SetCloserFields
  <2> HIDE DEF h
  <2>3. Placed(h, P)
    BY <2>1, <2>2 DEF Sound, Placed
  <2>4. Timed(h)
    BY <2>2 DEF Sound, Timed
  <2>5. ASSUME NEW u \in Nodes(h), NEW w \in Nodes(h), u.family = w.family, u.from < w.from
        PROVE  ClosedBy(h, u, w.from)
    <3>1. ClosedBy(g, u, w.from) /\ u \in Versions
      BY <2>2, <2>5 DEF Sound, Ordered, Nodes
    <3>2. CASE u # v
      BY <2>2, <3>1, <3>2 DEF ClosedBy
    <3>3. CASE u = v
      <4>1. g.closer[v] # NoId /\ Obs(g.closer[v]) <= w.from /\ g.closer[v] \in Rows
        BY <3>1, <3>3 DEF ClosedBy, Sound, Placed
      <4>2. Obs(i) <= Obs(g.closer[v])
        <5>1. Before(i, g.closer[v])
          BY <1>2, <4>1 DEF CanClose
        <5> QED BY <5>1, <4>1, RowTypes DEF Before
      <4>3. w.from \in Nat
        BY <2>2, ConstantsAssumption DEF Nodes, Versions
      <4>4. Obs(i) <= w.from
        BY <4>1, <4>2, <4>3, RowTypes
      <4> QED BY <2>1, <2>2, <3>1, <3>3, <4>4 DEF ClosedBy
    <3> QED BY <3>2, <3>3
  <2>6. Ordered(h)
    BY <2>5 DEF Ordered
  <2> QED BY <2>2, <2>3, <2>4, <2>6 DEF Sound, Grows, h
<1> QED
  BY <1>1, <1>2

\* An edge between nodes changes neither versions nor windows.
LEMMA SupersedeOK ==
  ASSUME NEW P, NEW g, Sound(g, P), NEW new \in Nodes(g), NEW old \in Nodes(g)
  PROVE  Grows(g, Supersede(g, new, old), P)
<1>1. CASE new = old
  BY <1>1 DEF Supersede, Grows
<1>2. CASE new # old
  <2> DEFINE h == Supersede(g, new, old)
  <2>1. g \in Graphs /\ new \in Versions /\ old \in Versions
    BY DEF Sound, Placed, Nodes
  <2>2. /\ h \in Graphs /\ h.cites = g.cites /\ h.closer = g.closer
        /\ h.edges = g.edges \cup {<<new, old>>}
    BY <1>2, <2>1 DEF Supersede, Graphs
  <2> HIDE DEF h
  <2>3. Nodes(h) = Nodes(g)
    BY <2>2 DEF Nodes
  <2>4. Placed(h, P)
    BY <2>2, <2>3 DEF Sound, Placed
  <2>5. Timed(h) /\ Ordered(h)
    BY <2>2, <2>3 DEF Sound, Timed, Ordered, ClosedBy
  <2> QED BY <2>3, <2>4, <2>5 DEF Sound, Grows, h
<1> QED
  BY <1>1, <1>2

\* A row is added to a version that began when it was observed.
LEMMA CiteOK ==
  ASSUME LedgerOK, NEW P \in SUBSET Rows, NEW g, Sound(g, P), NEW i \in P,
         NEW v \in Nodes(g), Obs(i) = v.from
  PROVE  Grows(g, Cite(g, v, i), P)
<1> DEFINE h == Cite(g, v, i)
<1>1. g \in Graphs /\ v \in Versions /\ i \in Ids
  BY RowTypes DEF Sound, Placed, Nodes
<1>2. Nodes(h) = Nodes(g) \cup {v}
  BY <1>1, CiteFields
<1>3. /\ h \in Graphs /\ h.closer = g.closer /\ h.edges = g.edges /\ Nodes(h) = Nodes(g)
      /\ \A w \in Versions : h.cites[w] = IF w = v THEN g.cites[w] \cup {i} ELSE g.cites[w]
  <2>1. /\ h \in Graphs /\ h.closer = g.closer /\ h.edges = g.edges
        /\ \A w \in Versions : h.cites[w] = IF w = v THEN g.cites[w] \cup {i} ELSE g.cites[w]
    BY <1>1, CiteFields
  <2> QED BY <2>1, <1>2
<1> HIDE DEF h
<1>4. Placed(h, P)
  BY <1>3 DEF Sound, Placed
<1>5. Timed(h)
  BY <1>3 DEF Sound, Timed
<1>6. Ordered(h)
  BY <1>3 DEF Sound, Ordered, ClosedBy
<1> QED
  BY <1>3, <1>4, <1>5, <1>6 DEF Sound, Grows, h

\* A version v closed by c would be between its neighbours in the family.
FitsIn(g, v, c) ==
  /\ \A u \in Family(g, v.family) : u.from < v.from => ClosedBy(g, u, v.from)
  /\ \A u \in Family(g, v.family) : u.from > v.from => c # NoId /\ Obs(c) <= u.from

\* A version is put between those before it, which are closed by then, and
\* those after it, by the first of which it is closed.
LEMMA CreateOK ==
  ASSUME LedgerOK, NEW P \in SUBSET Rows, NEW g, Sound(g, P), NEW i \in P,
         NEW v \in Versions, Obs(i) = v.from, NEW c \in P \cup {NoId},
         FitsIn(g, v, c)
  PROVE  Grows(g, Create(g, v, i, c), P) /\ v \in Nodes(Create(g, v, i, c))
<1> DEFINE m == Cite(g, v, i)
           h == Create(g, v, i, c)
<1>1. g \in Graphs /\ i \in Ids /\ c \in Ids \cup {NoId}
  BY RowTypes DEF Sound, Placed
<1>2. /\ m \in Graphs /\ m.closer = g.closer /\ m.edges = g.edges /\ Nodes(m) = Nodes(g) \cup {v}
      /\ \A w \in Versions : m.cites[w] = IF w = v THEN g.cites[w] \cup {i} ELSE g.cites[w]
  <2> HIDE DEF h
  <2>1. m \in Graphs /\ m.closer = g.closer /\ m.edges = g.edges
    BY <1>1, CiteFields
  <2>2. Nodes(m) = Nodes(g) \cup {v}
    BY <1>1, CiteFields
  <2>3. \A w \in Versions : m.cites[w] = IF w = v THEN g.cites[w] \cup {i} ELSE g.cites[w]
    BY <1>1, CiteFields
  <2> QED BY <2>1, <2>2, <2>3
<1>3. h = SetCloser(m, {v}, c)
  BY DEF Create
<1> HIDE DEF m, h
<1>4. /\ h \in Graphs /\ h.cites = m.cites /\ h.edges = m.edges /\ Nodes(h) = Nodes(m)
      /\ \A w \in Versions : h.closer[w] = IF w = v THEN c ELSE m.closer[w]
  BY <1>1, <1>2, <1>3, SetCloserFields
<1>5. Placed(h, P)
  <2>1. \A w \in Versions : h.cites[w] \subseteq P
    BY <1>2, <1>4 DEF Sound, Placed
  <2>2. \A w \in Versions : h.closer[w] # NoId => w \in Nodes(h) /\ h.closer[w] \in P
    BY <1>2, <1>4 DEF Sound, Placed
  <2>3. h.edges \subseteq Nodes(h) \X Nodes(h)
    BY <1>2, <1>4 DEF Sound, Placed
  <2> QED BY <1>4, <2>1, <2>2, <2>3 DEF Placed
<1>6. Timed(h)
  BY <1>2, <1>4 DEF Sound, Timed
<1>7. ASSUME NEW u \in Nodes(h), NEW w \in Nodes(h), u.family = w.family, u.from < w.from
      PROVE  ClosedBy(h, u, w.from)
  <2>1. u \in Versions /\ w \in Versions /\ u.from \in Nat /\ w.from \in Nat
    BY ConstantsAssumption DEF Nodes, Versions
  <2>2. CASE u = v
    <3>1. w \in Family(g, v.family) /\ w.from > v.from
      BY <1>2, <1>4, <1>7, <2>1, <2>2 DEF Family
    <3> QED BY <1>4, <2>1, <2>2, <3>1 DEF ClosedBy, FitsIn
  <2>3. CASE u # v /\ w = v
    <3>1. u \in Family(g, v.family) /\ u.from < v.from
      BY <1>2, <1>4, <1>7, <2>3 DEF Family
    <3> QED BY <1>2, <1>4, <2>1, <2>3, <3>1 DEF ClosedBy, FitsIn
  <2>4. CASE u # v /\ w # v
    <3>1. ClosedBy(g, u, w.from)
      BY <1>2, <1>4, <1>7, <2>4 DEF Sound, Ordered
    <3> QED BY <1>2, <1>4, <2>1, <2>4, <3>1 DEF ClosedBy
  <2> QED BY <2>2, <2>3, <2>4
<1>8. Ordered(h)
  BY <1>7 DEF Ordered
<1> QED
  BY <1>2, <1>4, <1>5, <1>6, <1>8 DEF Sound, Grows, h

-----------------------------------------------------------------------------
(* The operations of belief revision. *)

\* All earlier versions of the family end when row i was observed, at the latest.
LEMMA ClosePreviousOK ==
  ASSUME LedgerOK, NEW P \in SUBSET Rows, NEW g, Sound(g, P), NEW f, NEW i \in P
  PROVE  LET h == ClosePrevious(g, f, i)
         IN  /\ Grows(g, h, P) /\ h.cites = g.cites
             /\ \A u \in Family(h, f) : u.from < Obs(i) => ClosedBy(h, u, Obs(i))
<1> DEFINE S == {v \in Family(g, f) :
                   /\ v.from < Obs(i)
                   /\ g.closer[v] = NoId \/ Obs(g.closer[v]) > Obs(i)}
           h == ClosePrevious(g, f, i)
<1>1. h = SetCloser(g, S, i)
  BY DEF ClosePrevious
<1>2. g \in Graphs /\ i \in Ids /\ i # NoId /\ Obs(i) \in Nat
  BY RowTypes DEF Sound, Placed
<1>3. /\ S \subseteq Nodes(g)
      /\ \A u \in S : /\ u.family = f /\ u.from < Obs(i)
                      /\ g.closer[u] = NoId \/ Obs(g.closer[u]) > Obs(i)
      /\ \A u \in Family(g, f) : u.from < Obs(i) /\ u \notin S => ClosedBy(g, u, Obs(i))
  <2>1. \A u \in Family(g, f) : u.from < Obs(i) /\ u \notin S => ClosedBy(g, u, Obs(i))
    <3> SUFFICES ASSUME NEW u \in Family(g, f), u.from < Obs(i), u \notin S
                 PROVE  ClosedBy(g, u, Obs(i))
      OBVIOUS
    <3>1. g.closer[u] # NoId /\ ~(Obs(g.closer[u]) > Obs(i))
      OBVIOUS
    <3>2. g.closer[u] \in Rows
      BY <3>1 DEF Sound, Placed, Family, Nodes
    <3> QED BY <1>2, <3>1, <3>2, RowTypes DEF ClosedBy
  <2> QED BY <2>1 DEF Family
<1>4. /\ h \in Graphs /\ h.cites = g.cites /\ h.edges = g.edges /\ Nodes(h) = Nodes(g)
      /\ \A w \in Versions : h.closer[w] = IF w \in S THEN i ELSE g.closer[w]
  BY <1>1, <1>2, SetCloserFields
<1> HIDE DEF h, S
<1>5. Placed(h, P)
  BY <1>2, <1>3, <1>4 DEF Sound, Placed
<1>6. Timed(h)
  BY <1>4 DEF Sound, Timed
<1>7. ASSUME NEW u \in Nodes(h), NEW w \in Nodes(h), u.family = w.family, u.from < w.from
      PROVE  ClosedBy(h, u, w.from)
  <2>1. ClosedBy(g, u, w.from) /\ u \in Versions /\ w.from \in Nat
    BY <1>4, <1>7, ConstantsAssumption DEF Sound, Ordered, Nodes, Versions
  <2>2. CASE u \notin S
    BY <1>4, <2>1, <2>2 DEF ClosedBy
  <2>3. CASE u \in S
    <3>1. g.closer[u] \in Rows /\ Obs(g.closer[u]) > Obs(i) /\ Obs(g.closer[u]) <= w.from
      BY <1>3, <2>1, <2>3 DEF ClosedBy, Sound, Placed
    <3>2. Obs(i) <= w.from
      BY <1>2, <2>1, <3>1, RowTypes
    <3> QED BY <1>2, <1>4, <2>1, <2>3, <3>2 DEF ClosedBy
  <2> QED BY <2>2, <2>3
<1>8. Ordered(h)
  BY <1>7 DEF Ordered
<1>9. ASSUME NEW u \in Family(h, f), u.from < Obs(i) PROVE ClosedBy(h, u, Obs(i))
  <2>1. u \in Family(g, f) /\ u \in Versions
    BY <1>4 DEF Family, Nodes
  <2>2. CASE u \in S
    BY <1>2, <1>4, <2>1, <2>2 DEF ClosedBy
  <2>3. CASE u \notin S
    BY <1>3, <1>4, <1>9, <2>1, <2>3 DEF ClosedBy
  <2> QED BY <2>2, <2>3
<1> QED
  BY <1>4, <1>5, <1>6, <1>8, <1>9 DEF Sound, Grows, h

\* A new version is closed by a projected row that founded a later version,
\* observed no later than any later version begins; and it is open only if
\* there is no later version.
LEMMA FutureCloserOK ==
  ASSUME LedgerOK, NEW P \in SUBSET Rows, NEW g, Sound(g, P), NEW f, NEW t \in Nat
  PROVE  LET c == FutureCloser(g, f, t)
         IN  /\ c \in P \cup {NoId}
             /\ \A u \in Family(g, f) : u.from > t => c # NoId /\ Obs(c) <= u.from
<1> DEFINE later == {v \in Family(g, f) : v.from > t}
           first == {u \in later : \A w \in later : u.from <= w.from}
           c == FutureCloser(g, f, t)
<1>1. CASE later = {}
  BY <1>1 DEF FutureCloser
<1>2. CASE later # {}
  <2>1. \A u \in later : u \in Nodes(g) /\ u \in Versions /\ u.from \in Nat
    BY ConstantsAssumption DEF Family, Nodes, Versions
  <2>2. first # {}
    <3>1. {u.from : u \in later} \in SUBSET Nat /\ {u.from : u \in later} # {}
      BY <1>2, <2>1
    <3>2. PICK n \in {u.from : u \in later} : \A m \in {u.from : u \in later} : n <= m
      BY <3>1, LeastNat
    <3> QED BY <3>2
  <2>3. c = FirstEvent(g, FirstListed(first))
    BY <1>2 DEF FutureCloser
  <2>4. FirstListed(first) \in first
    <3>1. first \in SUBSET Versions
      BY <2>1
    <3> HIDE DEF first
    <3> QED BY <2>2, <3>1, FirstListedOK
  <2> DEFINE v == FirstListed(first)
  <2>5. v \in Nodes(g) /\ v \in Versions /\ \A w \in later : v.from <= w.from
    BY <2>1, <2>4
  <2> HIDE DEF v
  <2>6. c \in g.cites[v] /\ Obs(c) = v.from
    BY <2>3, <2>5, FirstEventOK DEF v
  <2>7. c \in P /\ c # NoId
    BY <2>5, <2>6, RowTypes DEF Sound, Placed
  <2>8. \A u \in Family(g, f) : u.from > t => Obs(c) <= u.from
    BY <2>5, <2>6
  <2> QED BY <2>7, <2>8
<1> QED
  BY <1>1, <1>2

\* Whatever a row states ends in a version of its family that begins when it
\* was observed, and the windows of the family stay apart.
LEMMA UpsertOK ==
  ASSUME LedgerOK, NEW P \in SUBSET Rows, NEW g, Sound(g, P), NEW f \in Texts, NEW i \in P,
         NEW allowed
  PROVE  LET o == Upsert(g, f, i, allowed)
         IN  /\ Grows(g, o.graph, P) /\ o.version \in Nodes(o.graph)
             /\ o.version.family = f /\ o.version.from = Obs(i)
<1> DEFINE same == SameTime(g, f, i)
           old == FirstListed(same)
           new == Version(f, Obs(i), NoId)
           successor == Version(f, Obs(i), i)
           closer == FutureCloser(g, f, Obs(i))
           o == Upsert(g, f, i, allowed)
<1>1. i \in Rows /\ i \in Ids /\ Obs(i) \in Times /\ Obs(i) \in Nat
  BY RowTypes
<1>2. /\ new \in Versions /\ new.family = f /\ new.from = Obs(i)
      /\ successor \in Versions /\ successor.family = f /\ successor.from = Obs(i)
  BY <1>1 DEF Version, Versions
<1>3. /\ closer \in P \cup {NoId}
      /\ \A u \in Family(g, f) : u.from > Obs(i) => closer # NoId /\ Obs(closer) <= u.from
  BY <1>1, FutureCloserOK
<1>4. same # {} => old \in same
  <2>1. same \in SUBSET Versions
    BY DEF SameTime, Family, Nodes
  <2> HIDE DEF same
  <2> QED BY <2>1, FirstListedOK
<1>5. same # {} => old \in Nodes(g) /\ old \in Versions /\ old.family = f /\ old.from = Obs(i)
  BY <1>4 DEF SameTime, Family, Nodes
<1>6. /\ same = {} => o = [graph |-> Create(ClosePrevious(g, f, i), new, i, closer), version |-> new]
      /\ same # {} /\ allowed /\ i > FirstEvent(g, old) =>
           o = [graph |-> Create(Close(g, old, i), successor, i, closer), version |-> successor]
      /\ same # {} /\ ~(allowed /\ i > FirstEvent(g, old)) =>
           o = [graph |-> Cite(g, old, i), version |-> old]
  BY DEF Upsert
<1> HIDE DEF same, old, new, successor, closer, o
<1>7. CASE same = {}
  <2> DEFINE h == ClosePrevious(g, f, i)
             k == Create(h, new, i, closer)
  <2>1. /\ Grows(g, h, P) /\ h.cites = g.cites
        /\ \A u \in Family(h, f) : u.from < Obs(i) => ClosedBy(h, u, Obs(i))
    BY ClosePreviousOK
  <2>2. o.graph = k /\ o.version = new
    BY <1>6, <1>7
  <2> HIDE DEF h
  <2>3. Family(h, f) = Family(g, f)
    BY <2>1 DEF Family, Nodes
  <2>4. FitsIn(h, new, closer)
    BY <1>2, <1>3, <2>1, <2>3 DEF FitsIn
  <2>5. Sound(h, P)
    BY <2>1 DEF Grows
  <2>6. Grows(h, k, P) /\ new \in Nodes(k)
    BY <1>2, <1>3, <2>4, <2>5, CreateOK
  <2> HIDE DEF k
  <2> QED BY <1>2, <2>1, <2>2, <2>6 DEF Grows, o
<1>8. CASE same # {} /\ allowed /\ i > FirstEvent(g, old)
  <2> DEFINE h == Close(g, old, i)
             k == Create(h, successor, i, closer)
  <2>1. Grows(g, h, P) /\ h.cites = g.cites
    BY <1>5, <1>8, CloseOK
  <2>2. o.graph = k /\ o.version = successor
    BY <1>6, <1>8
  <2> HIDE DEF h
  <2>3. Sound(h, P)
    BY <2>1 DEF Grows
  <2>4. Family(h, f) = Family(g, f) /\ old \in Family(h, f)
    BY <1>5, <1>8, <2>1 DEF Family, Nodes
  <2>5. \A u \in Family(h, f) : u.from < Obs(i) => ClosedBy(h, u, Obs(i))
    BY <1>5, <1>8, <2>3, <2>4 DEF Sound, Ordered, Family
  <2>6. FitsIn(h, successor, closer)
    BY <1>2, <1>3, <2>4, <2>5 DEF FitsIn
  <2>7. Grows(h, k, P) /\ successor \in Nodes(k)
    BY <1>2, <1>3, <2>3, <2>6, CreateOK
  <2> HIDE DEF k
  <2> QED BY <1>2, <2>1, <2>2, <2>7 DEF Grows, o
<1>9. CASE same # {} /\ ~(allowed /\ i > FirstEvent(g, old))
  <2> DEFINE k == Cite(g, old, i)
  <2>1. Grows(g, k, P)
    BY <1>5, <1>9, CiteOK
  <2>2. o.graph = k /\ o.version = old
    BY <1>6, <1>9
  <2> HIDE DEF k
  <2> QED BY <1>5, <1>9, <2>1, <2>2 DEF Grows, o
<1> QED
  BY <1>7, <1>8, <1>9

\* The version that takes the place of what a row invalidates.
LEMMA ReplacementOK ==
  ASSUME LedgerOK, NEW P \in SUBSET Rows, NEW g, Sound(g, P), NEW i \in P
  PROVE  LET o == Replacement(g, i)
         IN  /\ Grows(g, o.graph, P) /\ o.version \in Nodes(o.graph)
             /\ o.version.from = Obs(i)
<1> DEFINE same == SameTime(g, ledger[i].text, i)
           o == Replacement(g, i)
<1>1. ledger[i].text \in Texts
  BY RowTypes
<1>2. CASE same = {}
  <2> DEFINE allowed == FALSE
  <2>1. o = Upsert(g, ledger[i].text, i, allowed)
    BY <1>2 DEF Replacement
  <2> HIDE DEF o, allowed
  <2>2. /\ Grows(g, o.graph, P) /\ o.version \in Nodes(o.graph)
        /\ o.version.from = Obs(i)
    BY <1>1, <2>1, UpsertOK
  <2> QED BY <2>2 DEF o
<1>3. CASE same # {}
  <2>1. FirstListed(same) \in same
    <3>1. same \in SUBSET Versions
      BY DEF SameTime, Family, Nodes
    <3> HIDE DEF same
    <3> QED BY <1>3, <3>1, FirstListedOK
  <2>2. o.graph = g /\ o.version = FirstListed(same)
    BY <1>3 DEF Replacement
  <2>3. FirstListed(same) \in Nodes(g) /\ FirstListed(same).from = Obs(i)
    BY <2>1 DEF SameTime, Family
  <2> HIDE DEF o
  <2> QED BY <2>2, <2>3 DEF o, Grows
<1> QED
  BY <1>2, <1>3

\* The version an update puts into the family of its target.
LEMMA UpdateOK ==
  ASSUME LedgerOK, NEW P \in SUBSET Rows, NEW g, Sound(g, P), NEW i \in P, NEW v \in Nodes(g)
  PROVE  LET o == Update(g, i, v)
         IN  /\ Grows(g, o.graph, P) /\ o.version \in Nodes(o.graph)
             /\ o.version.from = Obs(i)
<1> DEFINE allowed == TRUE
           m == Upsert(g, v.family, i, allowed)
           o == Update(g, i, v)
<1>1. v.family \in Texts
  BY DEF Nodes, Versions
<1>2. Grows(g, m.graph, P) /\ m.version \in Nodes(m.graph) /\ m.version.from = Obs(i)
  <2> HIDE DEF allowed
  <2> QED BY <1>1, UpsertOK
<1>3. o.graph = Supersede(m.graph, m.version, v) /\ o.version = m.version
  BY DEF Update, Upsert
<1> HIDE DEF m, o
<1>4. Grows(m.graph, o.graph, P)
  BY <1>2, <1>3, SupersedeOK DEF Grows
<1> QED
  BY <1>2, <1>3, <1>4 DEF Grows, o

\* What closes the target of an invalidation.
LEMMA CloseAndSupersedeOK ==
  ASSUME LedgerOK, NEW P \in SUBSET Rows, NEW o, Sound(o.graph, P), NEW i \in P,
         NEW v \in Nodes(o.graph), o.version \in Nodes(o.graph)
  PROVE  Grows(o.graph, CloseAndSupersede(o, v, i), P)
<1> DEFINE h == Close(o.graph, v, i)
<1>1. v \in Versions
  BY DEF Nodes
<1>2. Grows(o.graph, h, P)
  BY <1>1, CloseOK
<1> HIDE DEF h
<1>3. Grows(h, Supersede(h, o.version, v), P)
  BY <1>2, SupersedeOK DEF Grows
<1> QED
  BY <1>2, <1>3 DEF CloseAndSupersede, Grows, h

\* The successor of a version that arrived late.
LEMMA LateSuccessorOK ==
  ASSUME LedgerOK, NEW P \in SUBSET Rows, NEW g, Sound(g, P), NEW j \in P, NEW f \in Texts
  PROVE  LET o == LateSuccessor(g, j, f)
         IN  /\ Grows(g, o.graph, P) /\ o.version \in Nodes(o.graph)
<1>1. CASE ledger[j].text = f
  BY <1>1, ReplacementOK DEF LateSuccessor
<1>2. CASE ledger[j].text # f
  BY <1>2, UpsertOK DEF LateSuccessor
<1> QED
  BY <1>1, <1>2

\* What a late update had stated in a family of its own is closed.
LEMMA CloseDuplicateOK ==
  ASSUME LedgerOK, NEW P \in SUBSET Rows, NEW g, Sound(g, P), NEW j \in P, NEW f
  PROVE  Grows(g, CloseDuplicate(g, j, f), P)
<1> DEFINE stated == SameTime(g, ledger[j].text, j)
<1>1. CASE ledger[j].text = f \/ stated = {}
  BY <1>1 DEF CloseDuplicate, Grows
<1>2. CASE ~(ledger[j].text = f \/ stated = {})
  <2>1. CloseDuplicate(g, j, f) = Close(g, FirstListed(stated), j)
    BY <1>2 DEF CloseDuplicate
  <2>2. FirstListed(stated) \in stated
    <3>1. stated \in SUBSET Versions /\ stated # {}
      BY <1>2 DEF SameTime, Family, Nodes
    <3> HIDE DEF stated
    <3> QED BY <3>1, FirstListedOK
  <2>3. FirstListed(stated) \in Nodes(g) /\ FirstListed(stated) \in Versions
    BY <2>2 DEF SameTime, Family, Nodes
  <2> QED BY <2>1, <2>3, CloseOK
<1> QED
  BY <1>1, <1>2

-----------------------------------------------------------------------------
(* The invariant. *)

\* A row that nothing is known of yet changes nothing.
LEMMA SoundMore ==
  ASSUME NEW g, NEW P, NEW i, Sound(g, P)
  PROVE  Sound(g, P \cup {i})
BY DEF Sound, Placed

\* The ledger is the same, so what is sound stays sound.
LEMMA SameLedger ==
  ASSUME LedgerOK, ledger' = ledger, projected' \subseteq Rows,
         Sound(graph', projected'), LateOK'
  PROVE  IInv'
<1>1. LedgerOK' /\ projected' \subseteq Rows'
  BY DEF LedgerOK, Rows
<1>2. Placed(graph', projected') <=> Placed(graph, projected)'
  BY DEF Placed, Graphs, Nodes
<1>3. Timed(graph') <=> Timed(graph)'
  BY DEF Timed, Obs
<1>4. Ordered(graph') <=> Ordered(graph)'
  BY DEF Ordered, ClosedBy, Obs, Nodes
<1> QED
  BY <1>1, <1>2, <1>3, <1>4 DEF IInv, Sound

\* Rows are only ever appended, so what the projection says of the old ones
\* stays true.
LEMMA AppendPreserves ==
  ASSUME IInv, NEW row \in Memory, AppendEvent(row)
  PROVE  IInv'
<1>1. /\ LedgerOK' /\ Rows \subseteq Rows'
      /\ \A i \in Rows : ledger'[i] = ledger[i]
  <2>1. ledger \in Seq(Memory) /\ Len(ledger) < MaxEvents /\ ledger' = Append(ledger, row)
    BY DEF IInv, LedgerOK, AppendEvent
  <2>2. /\ ledger' \in Seq(Memory) /\ Len(ledger') = Len(ledger) + 1
        /\ \A i \in 1..Len(ledger) : ledger'[i] = ledger[i]
    BY <2>1
  <2>3. Len(ledger) \in Nat
    BY <2>1
  <2> QED BY <2>1, <2>2, <2>3, ConstantsAssumption DEF LedgerOK, Rows
<1>2. graph' = graph /\ projected' = projected /\ late' = late
  BY DEF AppendEvent
<1>3. Placed(graph, projected)'
  BY <1>2 DEF IInv, Sound, Placed, Graphs, Nodes
<1>4. Timed(graph)'
  <2> SUFFICES ASSUME NEW v \in Versions, NEW i \in graph.cites[v] PROVE Obs(i)' = v.from
    BY <1>2 DEF Timed
  <2>1. i \in Rows /\ Obs(i) = v.from
    BY DEF IInv, Sound, Placed, Timed
  <2>2. ledger'[i] = ledger[i]
    BY <1>1, <2>1
  <2> QED BY <2>1, <2>2 DEF Obs
<1>5. Ordered(graph)'
  <2> SUFFICES ASSUME NEW u \in Nodes(graph), NEW v \in Nodes(graph),
                      u.family = v.family, u.from < v.from
               PROVE  graph.closer[u] # NoId /\ Obs(graph.closer[u])' <= v.from
    BY <1>2 DEF Ordered, ClosedBy, Nodes
  <2>1. graph.closer[u] # NoId /\ Obs(graph.closer[u]) <= v.from
    BY DEF IInv, Sound, Ordered, ClosedBy
  <2>2. graph.closer[u] \in Rows
    BY <2>1 DEF IInv, Sound, Placed, Nodes
  <2>3. ledger'[graph.closer[u]] = ledger[graph.closer[u]]
    BY <1>1, <2>2
  <2> QED BY <1>2, <2>1, <2>3 DEF Obs
<1>6. LateOK'
  BY <1>2 DEF IInv, LateOK, Nodes
<1> QED
  BY <1>1, <1>2, <1>3, <1>4, <1>5, <1>6 DEF IInv, Sound

\* The commit of a row whose graph is sound.
LEMMA CommitPreserves ==
  ASSUME IInv, NEW i \in Rows, NEW o, NEW g, Commit(i, o, g),
         Sound(g, projected \cup {i}), o.version \in Nodes(g)
  PROVE  IInv'
<1>1. LedgerOK /\ ledger' = ledger /\ projected' = projected \cup {i} /\ graph' = g
      /\ projected' \subseteq Rows
  BY DEF IInv, Commit
<1>2. LateOK'
  <2> DEFINE after == ProjectedAfter(i, o.graph.closer[o.version])
  <2>1. after \in SUBSET projected'
    BY <1>1 DEF ProjectedAfter
  <2>2. late' = [version |-> o.version, queue |-> after] \/ late' = Idle
    BY DEF Commit
  <2>3. o.version \in Versions
    BY DEF Nodes
  <2> HIDE DEF after
  <2>4. CASE late' = [version |-> o.version, queue |-> after]
    BY <1>1, <2>1, <2>3, <2>4 DEF LateOK, Nodes
  <2>5. CASE late' = Idle
    BY <2>5 DEF LateOK, Idle
  <2> QED BY <2>2, <2>4, <2>5
<1> QED
  BY <1>1, <1>2, SameLedger

\* A step of late replay that makes the graph grow.
LEMMA LatePreserves ==
  ASSUME IInv, NEW j \in late.queue, Grows(graph, graph', projected),
         UNCHANGED <<ledger, projected>>, late' \in {Idle, NextLate(j)}
  PROVE  IInv'
<1>1. /\ late \in [version : Versions \cup {NoVersion}, queue : SUBSET projected]
      /\ late.version \in Nodes(graph)
  BY DEF IInv, LateOK
<1>2. late'.queue # {} => late'.version = late.version
  BY <1>1 DEF Idle, NextLate
<1>3. late' \in [version : Versions \cup {NoVersion}, queue : SUBSET projected]
  BY <1>1 DEF Idle, NextLate
<1>4. LateOK'
  BY <1>1, <1>2, <1>3 DEF LateOK, Grows, Nodes
<1> QED
  BY <1>4, SameLedger DEF IInv, Grows

LEMMA ProjectPreserves ==
  ASSUME IInv, NEW i \in Rows, Project(i)
  PROVE  IInv'
<1> DEFINE P == projected \cup {i}
<1>1. LedgerOK /\ P \in SUBSET Rows /\ i \in P /\ Sound(graph, P) /\ ledger[i].text \in Texts
  BY SoundMore, RowTypes DEF IInv
<1> HIDE DEF P
<1>2. CASE ProjectAdd(i)
  <2> DEFINE allowed == FALSE
             o == Upsert(graph, ledger[i].text, i, allowed)
  <2>1. Commit(i, o, o.graph)
    BY <1>2 DEF ProjectAdd
  <2> HIDE DEF allowed
  <2>2. Grows(graph, o.graph, P) /\ o.version \in Nodes(o.graph)
    BY <1>1, UpsertOK
  <2> HIDE DEF o
  <2> QED BY <2>1, <2>2, CommitPreserves DEF Grows, P
<1>3. ASSUME NEW v \in Nodes(graph), ProjectUpdate(i, v) PROVE IInv'
  <2> DEFINE o == Update(graph, i, v)
  <2>1. Commit(i, o, o.graph)
    BY <1>3 DEF ProjectUpdate
  <2>2. Grows(graph, o.graph, P) /\ o.version \in Nodes(o.graph)
    BY <1>1, UpdateOK
  <2> HIDE DEF o
  <2> QED BY <2>1, <2>2, CommitPreserves DEF Grows, P
<1>4. ASSUME NEW v \in Nodes(graph), ProjectInvalidate(i, v) PROVE IInv'
  <2> DEFINE o == Replacement(graph, i)
             h == CloseAndSupersede(o, v, i)
  <2>1. Commit(i, o, h)
    BY <1>4 DEF ProjectInvalidate
  <2>2. Grows(graph, o.graph, P) /\ o.version \in Nodes(o.graph)
    BY <1>1, ReplacementOK
  <2> HIDE DEF o
  <2>3. Grows(o.graph, h, P)
    BY <1>1, <2>2, CloseAndSupersedeOK DEF Grows
  <2> HIDE DEF h
  <2> QED BY <2>1, <2>2, <2>3, CommitPreserves DEF Grows, P
<1>5. CASE ProjectUntargeted(i)
  <2> DEFINE o == Replacement(graph, i)
  <2>1. Commit(i, o, o.graph)
    BY <1>5 DEF ProjectUntargeted
  <2>2. Grows(graph, o.graph, P) /\ o.version \in Nodes(o.graph)
    BY <1>1, ReplacementOK
  <2> HIDE DEF o
  <2> QED BY <2>1, <2>2, CommitPreserves DEF Grows, P
<1>6. CASE ProjectNoop(i)
  <2>1. LateOK'
    BY <1>6 DEF ProjectNoop, IInv, LateOK, Nodes
  <2> QED BY <1>1, <1>6, <2>1, SameLedger DEF ProjectNoop, P
<1> QED
  BY <1>2, <1>3, <1>4, <1>5, <1>6 DEF Project

LEMMA LateReplayPreserves ==
  ASSUME IInv, NEW j \in late.queue, LateSkip(j) \/ LateInvalidate(j) \/ LateUpdate(j)
  PROVE  IInv'
<1> DEFINE v == late.version
<1>1. /\ LedgerOK /\ projected \in SUBSET Rows /\ j \in projected
      /\ Sound(graph, projected) /\ v \in Nodes(graph) /\ v \in Versions /\ v.family \in Texts
  BY DEF IInv, LateOK, Nodes, Versions
<1> HIDE DEF v
<1>2. CASE LateSkip(j)
  BY <1>1, <1>2, LatePreserves DEF LateSkip, Grows
<1>3. CASE LateInvalidate(j)
  <2> DEFINE o == Replacement(graph, j)
             h == CloseAndSupersede(o, v, j)
  <2>1. graph' = h /\ late' \in {Idle, NextLate(j)} /\ UNCHANGED <<ledger, projected>>
    BY <1>3 DEF LateInvalidate, v
  <2>2. Grows(graph, o.graph, projected) /\ o.version \in Nodes(o.graph)
    BY <1>1, ReplacementOK
  <2> HIDE DEF o
  <2>3. Grows(o.graph, h, projected)
    BY <1>1, <2>2, CloseAndSupersedeOK DEF Grows
  <2> HIDE DEF h
  <2>4. Grows(graph, graph', projected)
    BY <2>1, <2>2, <2>3 DEF Grows
  <2> QED BY <2>1, <2>4, LatePreserves
<1>4. CASE LateUpdate(j)
  <2> DEFINE c == Close(graph, v, j)
             o == LateSuccessor(c, j, v.family)
             d == CloseDuplicate(o.graph, j, v.family)
             s == Supersede(d, o.version, v)
  <2>1. graph' \in {s, o.graph} /\ late' \in {Idle, NextLate(j)} /\ UNCHANGED <<ledger, projected>>
    BY <1>4 DEF LateUpdate, v
  <2>2. Grows(graph, c, projected)
    BY <1>1, CloseOK
  <2> HIDE DEF c
  <2>3. Grows(c, o.graph, projected) /\ o.version \in Nodes(o.graph)
    BY <1>1, <2>2, LateSuccessorOK DEF Grows
  <2> HIDE DEF o
  <2>4. Grows(o.graph, d, projected)
    BY <1>1, <2>3, CloseDuplicateOK DEF Grows
  <2> HIDE DEF d
  <2>5. Grows(d, s, projected)
    BY <1>1, <2>2, <2>3, <2>4, SupersedeOK DEF Grows
  <2> HIDE DEF s
  <2>6. Grows(graph, graph', projected)
    BY <2>1, <2>2, <2>3, <2>4, <2>5 DEF Grows
  <2> QED BY <2>1, <2>6, LatePreserves
<1> QED
  BY <1>2, <1>3, <1>4

LEMMA InitOK == Init => IInv
<1> SUFFICES ASSUME Init PROVE IInv
  OBVIOUS
<1>1. LedgerOK /\ projected \subseteq Rows
  BY ConstantsAssumption DEF Init, LedgerOK, Memory
<1>2. /\ graph \in Graphs /\ Nodes(graph) = {} /\ graph.edges = {}
      /\ \A v \in Versions : graph.cites[v] = {} /\ graph.closer[v] = NoId
  BY DEF Init, Graphs, Nodes
<1>3. Sound(graph, projected)
  BY <1>2 DEF Sound, Placed, Timed, Ordered
<1>4. LateOK
  BY DEF Init, LateOK, Idle
<1> QED
  BY <1>1, <1>3, <1>4 DEF IInv

LEMMA NextOK == IInv /\ [Next]_vars => IInv'
<1> SUFFICES ASSUME IInv, [Next]_vars PROVE IInv'
  OBVIOUS
<1>1. ASSUME NEW t \in Texts, NEW at \in Times, AppendEvent([text |-> t, at |-> at])
      PROVE  IInv'
  BY <1>1, AppendPreserves DEF Memory
<1>2. ASSUME NEW i \in Rows \ projected, Project(i) PROVE IInv'
  BY <1>2, ProjectPreserves
<1>3. ASSUME NEW j \in late.queue, LateSkip(j) \/ LateInvalidate(j) \/ LateUpdate(j)
      PROVE  IInv'
  BY <1>3, LateReplayPreserves
<1>4. CASE UNCHANGED vars
  BY <1>4, SameLedger DEF vars, IInv, LateOK, Nodes
<1> QED
  BY <1>1, <1>2, <1>3, <1>4 DEF Next

-----------------------------------------------------------------------------
(* Theorems. *)

\* The invariant above holds in every behaviour of belief revision (store.rs,
\* engine.rs), however many rows arrive and in whatever order.
THEOREM Inductive == Spec => []IInv
BY InitOK, NextOK, PTL DEF Spec

\* What a version cites and what closed it are projected rows, and no edge leads
\* to a version that does not exist; the windows of a family never overlap
\* (upsert_node_with_base_key, invalidate_node, late replay).
THEOREM FamiliesCorrect == Spec => []FamiliesAreHistories
<1>1. IInv => FamiliesAreHistories
  <2> SUFFICES ASSUME IInv PROVE FamiliesAreHistories
    OBVIOUS
  <2>1. TypeOK
    BY DEF IInv, LedgerOK, Memory, Sound, Placed, LateOK, TypeOK
  <2>2. FamilyWindowsDisjoint
    BY DEF IInv, Sound, Ordered, ClosedBy, FamilyWindowsDisjoint
  <2> QED BY <2>1, <2>2 DEF FamiliesAreHistories
<1> QED
  BY <1>1, Inductive, PTL

-----------------------------------------------------------------------------
(* What a write on behalf of row i may change. *)

\* Row i closes version v, which was open or closed by a later row.
ClosesEarlier(g, h, v, i) ==
  h.closer[v] = i /\ (g.closer[v] = NoId \/ Before(i, g.closer[v]))

\* Row i is cited, closes what was open when it was observed, and decides on
\* who closes the versions that begin with it.
Writes(g, h, i) ==
  \A v \in Versions :
    /\ h.cites[v] = g.cites[v] \/ h.cites[v] = g.cites[v] \cup {i}
    /\ h.closer[v] = g.closer[v] \/ ClosesEarlier(g, h, v, i) \/ v.from = Obs(i)

LEMMA WritesSelf == ASSUME NEW g, NEW i PROVE Writes(g, g, i)
BY DEF Writes

LEMMA WritesTrans ==
  ASSUME LedgerOK, NEW i \in Rows, NEW g, NEW h, NEW k, Writes(g, h, i), Writes(h, k, i)
  PROVE  Writes(g, k, i)
<1> SUFFICES ASSUME NEW v \in Versions
             PROVE  /\ k.cites[v] = g.cites[v] \/ k.cites[v] = g.cites[v] \cup {i}
                    /\ k.closer[v] = g.closer[v] \/ ClosesEarlier(g, k, v, i) \/ v.from = Obs(i)
  BY DEF Writes
<1>1. ~Before(i, i) /\ i # NoId
  BY RowTypes DEF Before
<1>2. /\ h.cites[v] = g.cites[v] \/ h.cites[v] = g.cites[v] \cup {i}
      /\ k.cites[v] = h.cites[v] \/ k.cites[v] = h.cites[v] \cup {i}
      /\ h.closer[v] = g.closer[v] \/ ClosesEarlier(g, h, v, i) \/ v.from = Obs(i)
      /\ k.closer[v] = h.closer[v] \/ ClosesEarlier(h, k, v, i) \/ v.from = Obs(i)
  BY DEF Writes
<1>3. k.cites[v] = g.cites[v] \/ k.cites[v] = g.cites[v] \cup {i}
  BY <1>2
<1>4. k.closer[v] = g.closer[v] \/ ClosesEarlier(g, k, v, i) \/ v.from = Obs(i)
  BY <1>1, <1>2 DEF ClosesEarlier
<1> QED BY <1>3, <1>4

LEMMA CloseWrites ==
  ASSUME NEW g \in Graphs, NEW v, NEW i \in Ids
  PROVE  Writes(g, Close(g, v, i), i)
<1>1. CASE ~CanClose(g, v, i)
  BY <1>1, WritesSelf DEF Close
<1>2. CASE CanClose(g, v, i)
  <2> DEFINE h == SetCloser(g, {v}, i)
  <2>1. h.cites = g.cites /\ \A w \in Versions : h.closer[w] = IF w \in {v} THEN i ELSE g.closer[w]
    BY SetCloserFields
  <2>2. Close(g, v, i) = h
    BY <1>2 DEF Close
  <2> HIDE DEF h
  <2>3. \A w \in Versions : h.closer[w] = g.closer[w] \/ ClosesEarlier(g, h, w, i)
    BY <1>2, <2>1 DEF CanClose, ClosesEarlier
  <2> QED BY <2>1, <2>2, <2>3 DEF Writes
<1> QED BY <1>1, <1>2

LEMMA ClosePreviousWrites ==
  ASSUME LedgerOK, NEW P \in SUBSET Rows, NEW g, Sound(g, P), NEW f, NEW i \in P
  PROVE  Writes(g, ClosePrevious(g, f, i), i)
<1> DEFINE S == {v \in Family(g, f) :
                   /\ v.from < Obs(i)
                   /\ g.closer[v] = NoId \/ Obs(g.closer[v]) > Obs(i)}
           h == SetCloser(g, S, i)
<1>1. g \in Graphs /\ i \in Ids
  BY RowTypes DEF Sound, Placed
<1>2. h.cites = g.cites /\ \A w \in Versions : h.closer[w] = IF w \in S THEN i ELSE g.closer[w]
  BY <1>1, SetCloserFields
<1>3. ASSUME NEW w \in Versions, w \in S, g.closer[w] # NoId PROVE Before(i, g.closer[w])
  <2>1. g.closer[w] \in Rows /\ Obs(g.closer[w]) > Obs(i)
    BY <1>3 DEF Sound, Placed
  <2> QED BY <2>1, RowTypes DEF Before
<1>4. ClosePrevious(g, f, i) = h
  BY DEF ClosePrevious
<1> HIDE DEF h, S
<1>5. \A w \in Versions : h.closer[w] = g.closer[w] \/ ClosesEarlier(g, h, w, i)
  BY <1>2, <1>3 DEF ClosesEarlier
<1> QED BY <1>2, <1>4, <1>5 DEF Writes

LEMMA CiteWrites ==
  ASSUME NEW g \in Graphs, NEW v \in Versions, NEW i \in Ids
  PROVE  Writes(g, Cite(g, v, i), i)
<1> DEFINE h == Cite(g, v, i)
<1>1. /\ h.closer = g.closer
      /\ \A w \in Versions : h.cites[w] = IF w = v THEN g.cites[w] \cup {i} ELSE g.cites[w]
  BY CiteFields
<1> HIDE DEF h
<1>2. Writes(g, h, i)
  BY <1>1 DEF Writes
<1> QED BY <1>2 DEF h

\* What founding a version changes of a graph.
LEMMA CreateFields ==
  ASSUME NEW g \in Graphs, NEW v \in Versions, NEW i \in Ids, NEW c \in Ids \cup {NoId}
  PROVE  LET h == Create(g, v, i, c)
         IN  /\ \A w \in Versions : h.cites[w] = IF w = v THEN g.cites[w] \cup {i} ELSE g.cites[w]
             /\ \A w \in Versions : h.closer[w] = IF w = v THEN c ELSE g.closer[w]
             /\ h.edges = g.edges
             /\ Nodes(h) = Nodes(g) \cup {v}
<1> DEFINE m == Cite(g, v, i)
           h == Create(g, v, i, c)
<1>1. /\ m \in Graphs /\ m.closer = g.closer /\ m.edges = g.edges /\ Nodes(m) = Nodes(g) \cup {v}
      /\ \A w \in Versions : m.cites[w] = IF w = v THEN g.cites[w] \cup {i} ELSE g.cites[w]
  <2>1. Nodes(m) = Nodes(g) \cup {v}
    BY CiteFields
  <2> HIDE DEF h
  <2>2. m \in Graphs /\ m.closer = g.closer /\ m.edges = g.edges
    BY CiteFields
  <2>3. \A w \in Versions : m.cites[w] = IF w = v THEN g.cites[w] \cup {i} ELSE g.cites[w]
    BY CiteFields
  <2> QED BY <2>1, <2>2, <2>3
<1>2. h = SetCloser(m, {v}, c)
  BY DEF Create
<1> HIDE DEF m, h
<1>3. /\ h.cites = m.cites /\ h.edges = m.edges /\ Nodes(h) = Nodes(m)
      /\ \A w \in Versions : h.closer[w] = IF w \in {v} THEN c ELSE m.closer[w]
  BY <1>1, <1>2, SetCloserFields
<1> QED BY <1>1, <1>3 DEF h

LEMMA SupersedeWrites ==
  ASSUME NEW g \in Graphs, NEW new, NEW old, NEW i
  PROVE  Writes(g, Supersede(g, new, old), i)
BY DEF Supersede, Writes, Graphs

LEMMA UpsertWrites ==
  ASSUME LedgerOK, NEW P \in SUBSET Rows, NEW g, Sound(g, P), NEW f \in Texts, NEW i \in P,
         NEW allowed
  PROVE  Writes(g, Upsert(g, f, i, allowed).graph, i)
<1> DEFINE same == SameTime(g, f, i)
           old == FirstListed(same)
           new == Version(f, Obs(i), NoId)
           successor == Version(f, Obs(i), i)
           closer == FutureCloser(g, f, Obs(i))
           previous == ClosePrevious(g, f, i)
           closed == Close(g, old, i)
           h == Upsert(g, f, i, allowed).graph
<1>1. g \in Graphs /\ i \in Rows /\ i \in Ids /\ Obs(i) \in Times /\ Obs(i) \in Nat
  BY RowTypes DEF Sound, Placed
<1>2. new \in Versions /\ new.from = Obs(i) /\ successor \in Versions /\ successor.from = Obs(i)
  BY <1>1 DEF Version, Versions
<1>3. closer \in Ids \cup {NoId}
  BY <1>1, FutureCloserOK, RowTypes
<1>4. same # {} => old \in Nodes(g) /\ old \in Versions
  <2>1. same \in SUBSET Versions
    BY DEF SameTime, Family, Nodes
  <2>2. same # {} => old \in same
    <3> HIDE DEF same
    <3> QED BY <2>1, FirstListedOK
  <2> QED BY <2>2 DEF SameTime, Family, Nodes
<1>5. ASSUME NEW m \in Graphs, NEW v \in Versions, v.from = Obs(i)
      PROVE  Writes(m, Create(m, v, i, closer), i)
  <2> HIDE DEF closer
  <2> DEFINE k == Create(m, v, i, closer)
  <2>1. m \in Graphs /\ v \in Versions /\ i \in Ids /\ closer \in Ids \cup {NoId}
    BY <1>1, <1>3
  <2>3. \A w \in Versions : k.cites[w] = IF w = v THEN m.cites[w] \cup {i} ELSE m.cites[w]
    <3> DEFINE n == Cite(m, v, i)
    <3>1. n.cites = k.cites
      BY <2>1 DEF Create, SetCloser, Cite, Graphs
    <3>2. i \in Ids
      BY <1>1
    <3> HIDE DEF k
    <3>3. \A w \in Versions : n.cites[w] = IF w = v THEN m.cites[w] \cup {i} ELSE m.cites[w]
      BY <3>2, CiteFields
    <3> QED BY <3>1, <3>3
  <2>4. \A w \in Versions : k.closer[w] = IF w = v THEN closer ELSE m.closer[w]
    BY <2>1, CreateFields
  <2> HIDE DEF k
  <2>2. Writes(m, k, i)
    BY <1>5, <2>3, <2>4 DEF Writes
  <2> QED BY <2>2 DEF k
<1>6. Writes(g, previous, i) /\ previous \in Graphs
  BY ClosePreviousWrites, ClosePreviousOK DEF Grows, Sound, Placed
<1>7. same # {} => Writes(g, closed, i) /\ closed \in Graphs
  <2> SUFFICES ASSUME same # {} PROVE Writes(g, closed, i) /\ closed \in Graphs
    OBVIOUS
  <2>1. old \in Versions /\ old \in Nodes(g)
    BY <1>4
  <2> HIDE DEF old
  <2> QED BY <1>1, <2>1, CloseWrites, CloseOK DEF Grows, Sound, Placed
<1>8. \/ h = Create(previous, new, i, closer)
      \/ same # {} /\ h = Create(closed, successor, i, closer)
      \/ same # {} /\ h = Cite(g, old, i)
  BY DEF Upsert
<1> HIDE DEF same, old, new, successor, closer, previous, closed, h
<1>9. Writes(g, h, i)
  BY <1>1, <1>2, <1>4, <1>5, <1>6, <1>7, <1>8, CiteWrites, WritesTrans
<1> QED BY <1>9 DEF h

LEMMA ReplacementWrites ==
  ASSUME LedgerOK, NEW P \in SUBSET Rows, NEW g, Sound(g, P), NEW i \in P
  PROVE  Writes(g, Replacement(g, i).graph, i)
<1>1. CASE SameTime(g, ledger[i].text, i) = {}
  <2> DEFINE allowed == FALSE
  <2>1. Replacement(g, i) = Upsert(g, ledger[i].text, i, allowed)
    BY <1>1 DEF Replacement
  <2> HIDE DEF allowed
  <2> QED BY <2>1, UpsertWrites, RowTypes
<1>2. CASE SameTime(g, ledger[i].text, i) # {}
  BY <1>2, WritesSelf DEF Replacement
<1> QED BY <1>1, <1>2

\* A graph looks the same to every reader as of a time before row i.
LEMMA WritesHistory ==
  ASSUME LedgerOK, NEW P \in SUBSET Rows, NEW g, NEW h, Sound(g, P), Sound(h, P),
         NEW i \in P, Writes(g, h, i), NEW t \in Times, t < Obs(i)
  PROVE  Visible(g, t, MaxEvents) = Visible(h, t, MaxEvents)
<1> SUFFICES ASSUME NEW v \in Versions
             PROVE  IsVisible(g, v, t, MaxEvents) <=> IsVisible(h, v, t, MaxEvents)
  BY DEF Visible
<1>1. t \in Nat /\ Obs(i) \in Nat /\ v.from \in Nat
  BY RowTypes, ConstantsAssumption DEF Versions
<1>2. CASE v.from = Obs(i)
  BY <1>1, <1>2 DEF IsVisible
<1>3. CASE v.from # Obs(i)
  <2>1. \A k \in Rows : k <= MaxEvents
    BY RowTypes, ConstantsAssumption DEF Ids
  <2>2. /\ h.cites[v] = g.cites[v] \/ h.cites[v] = g.cites[v] \cup {i}
        /\ h.closer[v] = g.closer[v] \/ ClosesEarlier(g, h, v, i)
    BY <1>3 DEF Writes
  <2>3. (\E k \in g.cites[v] : Obs(k) <= t /\ k <= MaxEvents) <=>
        (\E k \in h.cites[v] : Obs(k) <= t /\ k <= MaxEvents)
    BY <1>1, <2>2
  <2>4. (g.closer[v] # NoId /\ Obs(g.closer[v]) <= t) <=> (h.closer[v] # NoId /\ Obs(h.closer[v]) <= t)
    <3>1. CASE h.closer[v] = g.closer[v]
      BY <3>1
    <3>2. CASE ClosesEarlier(g, h, v, i)
      <4>1. h.closer[v] = i /\ ~(Obs(i) <= t)
        BY <1>1, <3>2 DEF ClosesEarlier
      <4>2. g.closer[v] # NoId => Obs(g.closer[v]) \in Nat /\ Obs(i) <= Obs(g.closer[v])
        <5> SUFFICES ASSUME g.closer[v] # NoId
                     PROVE  Obs(g.closer[v]) \in Nat /\ Obs(i) <= Obs(g.closer[v])
          OBVIOUS
        <5>1. g.closer[v] \in Rows /\ Before(i, g.closer[v])
          BY <3>2 DEF Sound, Placed, ClosesEarlier
        <5> QED BY <5>1, RowTypes DEF Before
      <4> QED BY <1>1, <4>1, <4>2
    <3> QED BY <2>2, <3>1, <3>2
  <2>5. /\ g.closer[v] # NoId => g.closer[v] <= MaxEvents
        /\ h.closer[v] # NoId => h.closer[v] <= MaxEvents
    BY <2>1 DEF Sound, Placed
  <2> QED BY <2>3, <2>4, <2>5 DEF IsVisible
<1> QED BY <1>2, <1>3

LEMMA UpdateWrites ==
  ASSUME LedgerOK, NEW P \in SUBSET Rows, NEW g, Sound(g, P), NEW i \in P, NEW v \in Nodes(g)
  PROVE  Writes(g, Update(g, i, v).graph, i)
<1> DEFINE allowed == TRUE
           m == Upsert(g, v.family, i, allowed)
           h == Update(g, i, v).graph
<1>1. v.family \in Texts
  BY DEF Nodes, Versions
<1>2. Writes(g, m.graph, i) /\ m.graph \in Graphs
  <2> HIDE DEF allowed
  <2> QED BY <1>1, UpsertWrites, UpsertOK DEF Grows, Sound, Placed
<1>3. h = Supersede(m.graph, m.version, v)
  BY DEF Update, Upsert
<1> HIDE DEF m, h
<1>4. Writes(m.graph, h, i)
  BY <1>2, <1>3, SupersedeWrites
<1>5. Writes(g, h, i)
  BY <1>2, <1>4, WritesTrans
<1> QED BY <1>5 DEF h

LEMMA CloseAndSupersedeWrites ==
  ASSUME LedgerOK, NEW P \in SUBSET Rows, NEW o, Sound(o.graph, P), NEW i \in P,
         NEW v \in Nodes(o.graph)
  PROVE  Writes(o.graph, CloseAndSupersede(o, v, i), i)
<1> DEFINE c == Close(o.graph, v, i)
           s == Supersede(c, o.version, v)
<1>1. i \in Rows /\ i \in Ids /\ o.graph \in Graphs /\ v \in Versions
  BY RowTypes DEF Sound, Placed, Nodes
<1>2. Writes(o.graph, c, i) /\ c \in Graphs
  BY <1>1, CloseWrites, CloseOK DEF Grows, Sound, Placed
<1>3. CloseAndSupersede(o, v, i) \in {s, o.graph}
  BY DEF CloseAndSupersede
<1> HIDE DEF c
<1>4. Writes(c, s, i)
  BY <1>2, SupersedeWrites
<1> HIDE DEF s
<1>5. Writes(o.graph, s, i)
  BY <1>1, <1>2, <1>4, WritesTrans
<1> QED BY <1>3, <1>5, WritesSelf

LEMMA LateSuccessorWrites ==
  ASSUME LedgerOK, NEW P \in SUBSET Rows, NEW g, Sound(g, P), NEW j \in P, NEW f \in Texts
  PROVE  Writes(g, LateSuccessor(g, j, f).graph, j)
<1>1. CASE ledger[j].text = f
  BY <1>1, ReplacementWrites DEF LateSuccessor
<1>2. CASE ledger[j].text # f
  BY <1>2, UpsertWrites DEF LateSuccessor
<1> QED
  BY <1>1, <1>2

LEMMA CloseDuplicateWrites ==
  ASSUME LedgerOK, NEW P \in SUBSET Rows, NEW g, Sound(g, P), NEW j \in P, NEW f
  PROVE  Writes(g, CloseDuplicate(g, j, f), j)
<1>1. g \in Graphs /\ j \in Ids
  BY RowTypes DEF Sound, Placed
<1>2. \E v : CloseDuplicate(g, j, f) \in {g, Close(g, v, j)}
  BY DEF CloseDuplicate
<1> QED
  BY <1>1, <1>2, CloseWrites, WritesSelf

\* Only one row comes first.
LEMMA FirstIsUnique ==
  ASSUME LedgerOK, NEW S \in SUBSET Rows, NEW i, NEW j, IsFirst(i, S), IsFirst(j, S)
  PROVE  i = j
<1> SUFFICES ASSUME i # j PROVE FALSE
  OBVIOUS
<1>1. Before(i, j) /\ Before(j, i) /\ i \in Rows /\ j \in Rows
  BY DEF IsFirst
<1>2. Obs(i) \in Nat /\ Obs(j) \in Nat /\ i \in Nat /\ j \in Nat
  BY <1>1, RowTypes
<1> QED BY <1>1, <1>2 DEF Before

\* A projected row writes on its own behalf.
LEMMA ProjectWrites ==
  ASSUME IInv, NEW i \in Rows, Project(i)
  PROVE  Writes(graph, graph', i) /\ AtRow(i)
<1> DEFINE P == projected \cup {i}
<1>1. LedgerOK /\ P \in SUBSET Rows /\ i \in P /\ Sound(graph, P) /\ ledger[i].text \in Texts
  BY SoundMore, RowTypes DEF IInv
<1> HIDE DEF P
<1>2. CASE ProjectAdd(i)
  <2> DEFINE allowed == FALSE
             o == Upsert(graph, ledger[i].text, i, allowed)
  <2>1. graph' = o.graph /\ AtRow(i)
    BY <1>2 DEF ProjectAdd, Commit
  <2> HIDE DEF allowed
  <2>2. Writes(graph, o.graph, i)
    BY <1>1, UpsertWrites
  <2> HIDE DEF o
  <2> QED BY <2>1, <2>2
<1>3. ASSUME NEW v \in Nodes(graph), ProjectUpdate(i, v)
      PROVE  Writes(graph, graph', i) /\ AtRow(i)
  <2> DEFINE o == Update(graph, i, v)
  <2>1. graph' = o.graph /\ AtRow(i)
    BY <1>3 DEF ProjectUpdate, Commit
  <2>2. Writes(graph, o.graph, i)
    BY <1>1, UpdateWrites
  <2> HIDE DEF o
  <2> QED BY <2>1, <2>2
<1>4. ASSUME NEW v \in Nodes(graph), ProjectInvalidate(i, v)
      PROVE  Writes(graph, graph', i) /\ AtRow(i)
  <2> DEFINE o == Replacement(graph, i)
             h == CloseAndSupersede(o, v, i)
  <2>1. graph' = h /\ AtRow(i)
    BY <1>4 DEF ProjectInvalidate, Commit
  <2>2. Grows(graph, o.graph, P) /\ Writes(graph, o.graph, i)
    BY <1>1, ReplacementOK, ReplacementWrites
  <2> HIDE DEF o
  <2>3. Writes(o.graph, h, i)
    BY <1>1, <2>2, CloseAndSupersedeWrites DEF Grows
  <2> HIDE DEF h
  <2> QED BY <1>1, <2>1, <2>2, <2>3, WritesTrans
<1>5. CASE ProjectUntargeted(i)
  <2> DEFINE o == Replacement(graph, i)
  <2>1. graph' = o.graph /\ AtRow(i)
    BY <1>5 DEF ProjectUntargeted, Commit
  <2>2. Writes(graph, o.graph, i)
    BY <1>1, ReplacementWrites
  <2> HIDE DEF o
  <2> QED BY <2>1, <2>2
<1>6. CASE ProjectNoop(i)
  BY <1>6, WritesSelf DEF ProjectNoop
<1> QED
  BY <1>2, <1>3, <1>4, <1>5, <1>6 DEF Project

\* A row that is distilled again writes on its own behalf.
LEMMA LateReplayWrites ==
  ASSUME IInv, NEW j \in late.queue, LateSkip(j) \/ LateInvalidate(j) \/ LateUpdate(j)
  PROVE  Writes(graph, graph', j) /\ IsFirst(j, late.queue)
<1> DEFINE v == late.version
<1>1. /\ LedgerOK /\ projected \in SUBSET Rows /\ j \in projected /\ j \in Rows /\ j \in Ids
      /\ Sound(graph, projected) /\ v \in Nodes(graph) /\ v \in Versions /\ v.family \in Texts
      /\ graph \in Graphs
  BY RowTypes DEF IInv, LateOK, Nodes, Versions, Sound, Placed
<1> HIDE DEF v
<1>2. CASE LateSkip(j)
  BY <1>2, WritesSelf DEF LateSkip
<1>3. CASE LateInvalidate(j)
  <2> DEFINE o == Replacement(graph, j)
             h == CloseAndSupersede(o, v, j)
  <2>1. graph' = h /\ IsFirst(j, late.queue)
    BY <1>3 DEF LateInvalidate, v
  <2>2. Grows(graph, o.graph, projected) /\ Writes(graph, o.graph, j)
    BY <1>1, ReplacementOK, ReplacementWrites
  <2> HIDE DEF o
  <2>3. Writes(o.graph, h, j)
    BY <1>1, <2>2, CloseAndSupersedeWrites DEF Grows
  <2> HIDE DEF h
  <2> QED BY <1>1, <2>1, <2>2, <2>3, WritesTrans
<1>4. CASE LateUpdate(j)
  <2> DEFINE c == Close(graph, v, j)
             o == LateSuccessor(c, j, v.family)
             d == CloseDuplicate(o.graph, j, v.family)
             s == Supersede(d, o.version, v)
  <2>1. graph' \in {s, o.graph} /\ IsFirst(j, late.queue)
    BY <1>4 DEF LateUpdate, v
  <2>2. Sound(c, projected) /\ Writes(graph, c, j)
    BY <1>1, CloseOK, CloseWrites DEF Grows
  <2> HIDE DEF c
  <2>3. Sound(o.graph, projected) /\ Writes(c, o.graph, j)
    BY <1>1, <2>2, LateSuccessorOK, LateSuccessorWrites DEF Grows
  <2> HIDE DEF o
  <2>4. Sound(d, projected) /\ Writes(o.graph, d, j)
    BY <1>1, <2>3, CloseDuplicateOK, CloseDuplicateWrites DEF Grows
  <2> HIDE DEF d
  <2>5. d \in Graphs
    BY <2>4 DEF Sound, Placed
  <2>6. Writes(d, s, j)
    BY <2>5, SupersedeWrites
  <2> HIDE DEF s
  <2>7. Writes(graph, o.graph, j)
    BY <1>1, <2>2, <2>3, WritesTrans
  <2>8. Writes(graph, d, j)
    BY <1>1, <2>4, <2>7, WritesTrans
  <2>9. Writes(graph, s, j)
    BY <1>1, <2>6, <2>8, WritesTrans
  <2> QED BY <2>1, <2>7, <2>9
<1> QED
  BY <1>2, <1>3, <1>4

\* A write changes nothing of what was valid before the row it is made for was
\* observed (ClosePrevious, Upsert, invalidate_node, late replay): what becomes
\* valid, what ends and who says so are all of that row's time or later.
THEOREM HistoryCorrect == Spec => HistoryIsStable
<1> DEFINE Stable == \A i \in Rows : IsWriting(i) =>
             \A t \in Times : t < Obs(i) =>
               Visible(graph', t, MaxEvents) = Visible(graph, t, MaxEvents)
<1>1. ASSUME IInv, IInv', [Next]_vars PROVE Stable
  <2>1. CASE graph' = graph
    BY <2>1
  <2>2. ASSUME NEW i \in Rows, NEW P \in SUBSET Rows, i \in P, Sound(graph, P), Sound(graph', P),
               Writes(graph, graph', i), \A k \in Rows : IsWriting(k) => k = i
        PROVE  Stable
    BY <1>1, <2>2, WritesHistory DEF IInv
  <2>3. ASSUME NEW i \in Rows \ projected, Project(i) PROVE Stable
    <3> DEFINE P == projected \cup {i}
    <3>1. /\ LedgerOK /\ P \in SUBSET Rows /\ i \in P /\ Sound(graph, P)
          /\ ledger' = ledger /\ projected' \subseteq P
      BY <1>1, <2>3, SoundMore
        DEF IInv, Project, ProjectAdd, ProjectUpdate, ProjectInvalidate, ProjectUntargeted,
            ProjectNoop, Commit
    <3>2. Sound(graph', P)
      <4>1. Placed(graph', P) /\ Timed(graph') /\ Ordered(graph')
        BY <1>1, <3>1 DEF IInv, Sound, Placed, Graphs, Nodes, Timed, Ordered, ClosedBy, Obs
      <4> QED BY <4>1 DEF Sound
    <3>3. Writes(graph, graph', i) /\ late.queue = {} /\ IsFirst(i, Rows \ projected)
      BY <1>1, <2>3, ProjectWrites DEF AtRow
    <3>4. \A k \in Rows : IsWriting(k) => k = i
      BY <3>1, <3>3, FirstIsUnique DEF IsWriting
    <3> HIDE DEF P
    <3> QED BY <2>2, <3>1, <3>2, <3>3, <3>4
  <2>4. ASSUME NEW j \in late.queue, LateSkip(j) \/ LateInvalidate(j) \/ LateUpdate(j)
        PROVE  Stable
    <3>1. /\ LedgerOK /\ projected \in SUBSET Rows /\ j \in projected /\ Sound(graph, projected)
          /\ late.queue \in SUBSET Rows /\ ledger' = ledger /\ projected' = projected
      BY <1>1, <2>4 DEF IInv, LateOK, LateSkip, LateInvalidate, LateUpdate
    <3>2. Sound(graph', projected)
      <4>1. Placed(graph', projected) /\ Timed(graph') /\ Ordered(graph')
        BY <1>1, <3>1 DEF IInv, Sound, Placed, Graphs, Nodes, Timed, Ordered, ClosedBy, Obs
      <4> QED BY <4>1 DEF Sound
    <3>3. Writes(graph, graph', j) /\ IsFirst(j, late.queue)
      BY <1>1, <2>4, LateReplayWrites
    <3>4. \A k \in Rows : IsWriting(k) => k = j
      BY <2>4, <3>1, <3>3, FirstIsUnique DEF IsWriting
    <3> QED BY <2>2, <3>1, <3>2, <3>3, <3>4
  <2>5. CASE \E t \in Texts, at \in Times : AppendEvent([text |-> t, at |-> at])
    BY <2>1, <2>5 DEF AppendEvent
  <2>6. CASE UNCHANGED vars
    BY <2>1, <2>6 DEF vars
  <2> QED BY <1>1, <2>3, <2>4, <2>5, <2>6 DEF Next
<1>2. IInv /\ IInv' /\ [Next]_vars => [Stable]_vars
  BY <1>1
<1> QED
  BY <1>2, Inductive, PTL DEF Spec, HistoryIsStable
-----------------------------------------------------------------------------
(* The order of rows. *)

LEMMA VersionTypes == \A v \in Versions : v.from \in Nat /\ v.rev \in Nat
<1> SUFFICES ASSUME NEW v \in Versions PROVE v.from \in Nat /\ v.rev \in Nat
  OBVIOUS
<1>1. v.from \in Times /\ v.rev \in Ids \cup {NoId}
  BY DEF Versions
<1>2. v.from \in Nat
  BY <1>1, ConstantsAssumption
<1>3. v.rev \in Nat
  BY <1>1, ConstantsAssumption DEF Ids, NoId
<1> QED
  BY <1>2, <1>3

LEMMA BeforeOrders ==
  ASSUME LedgerOK, NEW i \in Rows, NEW j \in Rows
  PROVE  /\ ~Before(i, i)
         /\ Before(i, j) => ~Before(j, i) /\ Obs(i) <= Obs(j)
         /\ ~Before(i, j) => Obs(j) <= Obs(i)
         /\ i # j => Before(i, j) \/ Before(j, i)
         /\ \A k \in Rows : Before(i, j) /\ Before(j, k) => Before(i, k)
<1>1. i \in Nat /\ j \in Nat /\ Obs(i) \in Nat /\ Obs(j) \in Nat
  BY RowTypes
<1>2. ASSUME NEW k \in Rows, Before(i, j), Before(j, k) PROVE Before(i, k)
  <2>1. k \in Nat /\ Obs(k) \in Nat
    BY RowTypes
  <2> QED BY <1>1, <1>2, <2>1 DEF Before
<1>3. /\ ~Before(i, i)
      /\ Before(i, j) => ~Before(j, i) /\ Obs(i) <= Obs(j)
      /\ ~Before(i, j) => Obs(j) <= Obs(i)
      /\ i # j => Before(i, j) \/ Before(j, i)
  BY <1>1 DEF Before
<1> QED BY <1>2, <1>3

\* The first row that a version cites.
LEMMA FirstEventFirst ==
  ASSUME LedgerOK, NEW P \in SUBSET Rows, NEW g, Sound(g, P), NEW v \in Nodes(g)
  PROVE  IsFirst(FirstEvent(g, v), g.cites[v])
<1>1. g.cites[v] \in SUBSET Rows /\ g.cites[v] # {}
  BY DEF Sound, Placed, Nodes
<1>2. \E i \in g.cites[v] : IsFirst(i, g.cites[v])
  BY <1>1, FirstExists
<1> QED
  BY <1>2 DEF FirstEvent

\* A clock that tells updates apart lists the last of several versions first.
LEMMA FirstListedLast ==
  ASSUME Clock = "fine", NEW S \in SUBSET Versions, S # {}
  PROVE  FirstListed(S) \in S /\ \A u \in S : FirstListed(S).rev >= u.rev
<1>1. \A v \in S : v.rev \in Nat /\ v.rev <= MaxEvents
  BY ConstantsAssumption DEF Versions, Ids, NoId
<1>2. \E v \in S : \A u \in S : v.rev >= u.rev
  <2>1. {MaxEvents - v.rev : v \in S} \in SUBSET Nat /\ {MaxEvents - v.rev : v \in S} # {}
    BY <1>1, ConstantsAssumption
  <2>2. PICK n \in {MaxEvents - v.rev : v \in S} : \A m \in {MaxEvents - v.rev : v \in S} : n <= m
    BY <2>1, LeastNat
  <2>3. PICK v \in S : n = MaxEvents - v.rev
    OBVIOUS
  <2>4. \A u \in S : MaxEvents - v.rev <= MaxEvents - u.rev
    BY <2>2, <2>3
  <2> QED BY <2>4, <1>1, ConstantsAssumption
<1>3. \E v \in S : \A u \in S : IF Clock = "fine" THEN v.rev >= u.rev ELSE v.rev <= u.rev
  BY <1>2
<1>4. LET v == FirstListed(S)
      IN  v \in S /\ \A u \in S : IF Clock = "fine" THEN v.rev >= u.rev ELSE v.rev <= u.rev
  BY <1>3 DEF FirstListed
<1> QED
  BY <1>4

-----------------------------------------------------------------------------
(* Versions that revise one another. *)

\* A successor cites the row it is named after.
Named(g) == \A v \in Nodes(g) : v.rev # NoId => v.rev \in g.cites[v]

\* Of the versions that begin at one time all but the last are closed by then.
OldClosed(g) ==
  \A u, v \in Nodes(g) :
    u.family = v.family /\ u.from = v.from /\ u.rev < v.rev => ClosedBy(g, u, v.from)

\* Version w is the last of its family that begins at its time.
IsLast(g, w) ==
  w \in Nodes(g) /\ \A u \in Nodes(g) : u.family = w.family /\ u.from = w.from => u.rev <= w.rev

\* What is closed when w begins was not closed after the first row w cites.
HandsOver(g) ==
  \A u, w \in Nodes(g) : u.family = w.family /\ u.from < w.from /\ IsLast(g, w) =>
    /\ g.closer[u] # NoId
    /\ \A i \in g.cites[w] : ~Before(i, g.closer[u])

\* A supersedes edge to an older version, of any graph
Explained(g) == \A e \in g.edges : e[2].from < e[1].from => ClosedBy(g, e[2], e[1].from)

Chained(g) == Named(g) /\ OldClosed(g) /\ HandsOver(g) /\ Explained(g)

\* Every version of g is closed in h as in g, or by row i and earlier.
Keeps(g, h, i) ==
  \A v \in Nodes(g) : h.closer[v] = g.closer[v] \/ ClosesEarlier(g, h, v, i)

\* A closure only ever moves to an earlier row.
LEMMA ClosedKept ==
  ASSUME LedgerOK, NEW P \in SUBSET Rows, NEW g, NEW h, Sound(g, P), Sound(h, P), NEW i \in P,
         Keeps(g, h, i), NEW v \in Nodes(g), g.closer[v] # NoId
  PROVE  /\ g.closer[v] \in Rows /\ h.closer[v] \in Rows /\ h.closer[v] # NoId
         /\ ~Before(g.closer[v], h.closer[v])
         /\ \A k \in Rows : ~Before(k, g.closer[v]) => ~Before(k, h.closer[v])
         /\ \A t \in Nat : ClosedBy(g, v, t) => ClosedBy(h, v, t)
<1>1. g.closer[v] \in Rows
  BY DEF Sound, Placed, Nodes
<1>2. \/ h.closer[v] = g.closer[v]
      \/ h.closer[v] = i /\ Before(i, g.closer[v])
  BY DEF Keeps, ClosesEarlier
<1>3. h.closer[v] \in Rows /\ h.closer[v] # NoId
  BY <1>1, <1>2, RowTypes
<1>4. ~Before(g.closer[v], h.closer[v])
  BY <1>1, <1>2, BeforeOrders
<1>5. ASSUME NEW k \in Rows, ~Before(k, g.closer[v]) PROVE ~Before(k, h.closer[v])
  BY <1>1, <1>2, <1>5, BeforeOrders
<1>6. ASSUME NEW t \in Nat, ClosedBy(g, v, t) PROVE ClosedBy(h, v, t)
  <2>1. Obs(g.closer[v]) \in Nat /\ Obs(h.closer[v]) \in Nat /\ Obs(h.closer[v]) <= Obs(g.closer[v])
    BY <1>1, <1>2, <1>3, BeforeOrders, RowTypes
  <2> QED BY <1>3, <1>6, <2>1 DEF ClosedBy
<1> QED
  BY <1>1, <1>3, <1>4, <1>5, <1>6

LEMMA KeepsSelf == ASSUME NEW g, NEW i PROVE Keeps(g, g, i)
BY DEF Keeps

LEMMA KeepsTrans ==
  ASSUME LedgerOK, NEW i \in Rows, NEW g, NEW h, NEW k, Nodes(g) \subseteq Nodes(h),
         Keeps(g, h, i), Keeps(h, k, i)
  PROVE  Keeps(g, k, i)
<1>1. ~Before(i, i) /\ i # NoId
  BY BeforeOrders, RowTypes
<1> QED
  BY <1>1 DEF Keeps, ClosesEarlier

\* Closing versions earlier leaves the order of revisions as it is.
LEMMA SoonerChained ==
  ASSUME LedgerOK, NEW P \in SUBSET Rows, NEW g, NEW h, Sound(g, P), Sound(h, P), NEW i \in P,
         Keeps(g, h, i), Chained(g), h.cites = g.cites, h.edges = g.edges
  PROVE  Chained(h) /\ \A w : IsLast(g, w) <=> IsLast(h, w)
<1>1. Nodes(h) = Nodes(g) /\ \A w : IsLast(g, w) <=> IsLast(h, w)
  BY DEF Nodes, IsLast
<1>2. \A v \in Nodes(g) : v \in Versions /\ v.from \in Nat
  BY ConstantsAssumption DEF Nodes, Versions
<1>3. \A v \in Nodes(g) : \A t \in Nat : ClosedBy(g, v, t) => ClosedBy(h, v, t)
  <2> SUFFICES ASSUME NEW v \in Nodes(g), NEW t \in Nat, ClosedBy(g, v, t) PROVE ClosedBy(h, v, t)
    OBVIOUS
  <2>1. g.closer[v] # NoId
    BY DEF ClosedBy
  <2> QED BY <2>1, ClosedKept
<1>4. Named(h)
  BY <1>1 DEF Chained, Named
<1>5. OldClosed(h)
  BY <1>1, <1>2, <1>3 DEF Chained, OldClosed
<1>6. HandsOver(h)
  <2> SUFFICES ASSUME NEW u \in Nodes(g), NEW w \in Nodes(g), u.family = w.family,
                      u.from < w.from, IsLast(g, w)
               PROVE  h.closer[u] # NoId /\ \A k \in g.cites[w] : ~Before(k, h.closer[u])
    BY <1>1 DEF HandsOver
  <2>1. g.closer[u] # NoId /\ \A k \in g.cites[w] : ~Before(k, g.closer[u])
    BY DEF Chained, HandsOver
  <2>2. g.cites[w] \subseteq Rows
    BY <1>2 DEF Sound, Placed
  <2> QED BY <2>1, <2>2, ClosedKept
<1>7. Explained(h)
  <2> SUFFICES ASSUME NEW e \in g.edges, e[2].from < e[1].from PROVE ClosedBy(h, e[2], e[1].from)
    BY DEF Explained
  <2>1. e[2] \in Nodes(g) /\ e[1] \in Nodes(g)
    BY DEF Sound, Placed
  <2>2. ClosedBy(g, e[2], e[1].from)
    BY DEF Chained, Explained
  <2> QED BY <1>2, <1>3, <2>1, <2>2
<1> QED
  BY <1>1, <1>4, <1>5, <1>6, <1>7 DEF Chained

\* A row is added to a version, no later than which the earlier ones are closed.
LEMMA CiteChained ==
  ASSUME LedgerOK, NEW P \in SUBSET Rows, NEW g, Sound(g, P), NEW i \in P, Chained(g),
         NEW v \in Nodes(g),
         \A u \in Nodes(g) : u.family = v.family /\ u.from < v.from => ~Before(i, g.closer[u])
  PROVE  LET h == Cite(g, v, i)
         IN  Chained(h) /\ Keeps(g, h, i) /\ \A w : IsLast(g, w) <=> IsLast(h, w)
<1> DEFINE h == Cite(g, v, i)
<1>1. g \in Graphs /\ v \in Versions /\ i \in Ids
  BY RowTypes DEF Sound, Placed, Nodes
<1>2. Nodes(h) = Nodes(g) \cup {v}
  BY <1>1, CiteFields
<1>3. /\ h.closer = g.closer /\ h.edges = g.edges
      /\ \A w \in Versions : h.cites[w] = IF w = v THEN g.cites[w] \cup {i} ELSE g.cites[w]
  <2>1. h.closer = g.closer /\ h.edges = g.edges
    BY <1>1, CiteFields
  <2>2. \A w \in Versions : h.cites[w] = IF w = v THEN g.cites[w] \cup {i} ELSE g.cites[w]
    BY <1>1, CiteFields
  <2> QED BY <2>1, <2>2
<1> HIDE DEF h
<1>4. Nodes(h) = Nodes(g) /\ Nodes(g) \subseteq Versions
  BY <1>2 DEF Nodes
<1>5. \A w : IsLast(g, w) <=> IsLast(h, w)
  BY <1>4 DEF IsLast
<1>6. Named(h)
  BY <1>3, <1>4 DEF Chained, Named
<1>7. OldClosed(h) /\ Explained(h)
  BY <1>3, <1>4 DEF Chained, OldClosed, Explained, ClosedBy
<1>8. HandsOver(h)
  <2> SUFFICES ASSUME NEW u \in Nodes(g), NEW w \in Nodes(g), u.family = w.family,
                      u.from < w.from, IsLast(g, w)
               PROVE  g.closer[u] # NoId /\ \A k \in h.cites[w] : ~Before(k, g.closer[u])
    BY <1>3, <1>4, <1>5 DEF HandsOver
  <2>1. g.closer[u] # NoId /\ \A k \in g.cites[w] : ~Before(k, g.closer[u])
    BY DEF Chained, HandsOver
  <2>2. w \in Versions
    BY <1>4
  <2> QED BY <1>3, <2>1, <2>2
<1>9. Keeps(g, h, i)
  BY <1>3 DEF Keeps
<1> QED
  BY <1>5, <1>6, <1>7, <1>8, <1>9 DEF Chained, h

\* A version is founded between those before it, which are closed, and those
\* after it, before whose rows it is closed.
LEMMA CreateChained ==
  ASSUME LedgerOK, NEW P \in SUBSET Rows, NEW g, Sound(g, P), NEW i \in P, Chained(g),
         NEW v \in Versions \ Nodes(g), NEW c \in P \cup {NoId}, v.rev # NoId => v.rev = i,
         \A u \in Family(g, v.family) : u.from = v.from => u.rev < v.rev /\ ClosedBy(g, u, v.from),
         \A u \in Family(g, v.family) : u.from < v.from =>
           g.closer[u] # NoId /\ ~Before(i, g.closer[u]),
         \A w \in Family(g, v.family) : v.from < w.from /\ IsLast(g, w) =>
           c # NoId /\ \A k \in g.cites[w] : ~Before(k, c)
  PROVE  LET h == Create(g, v, i, c)
         IN  Chained(h) /\ Keeps(g, h, i) /\ IsLast(h, v)
<1> DEFINE m == Cite(g, v, i)
           h == Create(g, v, i, c)
<1>1. g \in Graphs /\ i \in Ids /\ c \in Ids \cup {NoId} /\ Nodes(g) \subseteq Versions
  BY RowTypes DEF Sound, Placed, Nodes
<1>2. /\ m \in Graphs /\ m.closer = g.closer /\ m.edges = g.edges /\ Nodes(m) = Nodes(g) \cup {v}
      /\ \A w \in Versions : m.cites[w] = IF w = v THEN g.cites[w] \cup {i} ELSE g.cites[w]
  <2> HIDE DEF h
  <2>1. m \in Graphs /\ m.closer = g.closer /\ m.edges = g.edges
    BY <1>1, CiteFields
  <2>2. Nodes(m) = Nodes(g) \cup {v}
    BY <1>1, CiteFields
  <2>3. \A w \in Versions : m.cites[w] = IF w = v THEN g.cites[w] \cup {i} ELSE g.cites[w]
    BY <1>1, CiteFields
  <2> QED BY <2>1, <2>2, <2>3
<1>3. h = SetCloser(m, {v}, c)
  BY DEF Create
<1> HIDE DEF m, h
<1>4. /\ h.cites = m.cites /\ h.edges = m.edges /\ Nodes(h) = Nodes(m)
      /\ \A w \in Versions : h.closer[w] = IF w \in {v} THEN c ELSE m.closer[w]
  BY <1>1, <1>2, <1>3, SetCloserFields
<1>5. /\ Nodes(h) = Nodes(g) \cup {v} /\ h.edges = g.edges
      /\ h.cites[v] = {i} /\ \A w \in Nodes(g) : h.cites[w] = g.cites[w]
      /\ h.closer[v] = c /\ \A w \in Nodes(g) : h.closer[w] = g.closer[w]
  <2>1. g.cites[v] = {}
    BY DEF Nodes
  <2> QED BY <1>1, <1>2, <1>4, <2>1
<1>6. \A u \in Nodes(h) : u.family = v.family /\ u.from = v.from => u = v \/ (u \in Nodes(g) /\ u.rev < v.rev)
  BY <1>5 DEF Family
<1>7. \A w \in Versions : w.rev \in Nat /\ w.from \in Nat
  BY VersionTypes
<1>8. IsLast(h, v)
  BY <1>1, <1>5, <1>6, <1>7 DEF IsLast
<1>9. \A w \in Nodes(g) : IsLast(h, w) => IsLast(g, w)
  BY <1>5 DEF IsLast
<1>10. Named(h)
  BY <1>5 DEF Chained, Named
<1>11. OldClosed(h)
  <2> SUFFICES ASSUME NEW u \in Nodes(h), NEW w \in Nodes(h), u.family = w.family, u.from = w.from,
                      u.rev < w.rev
               PROVE  ClosedBy(h, u, w.from)
    BY DEF OldClosed
  <2>1. u \in Versions /\ w \in Versions
    BY <1>1, <1>5
  <2>2. CASE w = v
    <3>1. u \in Family(g, v.family) /\ u.from = v.from
      BY <1>5, <1>7, <2>1, <2>2 DEF Family
    <3> QED BY <1>5, <2>2, <3>1 DEF ClosedBy, Family
  <2>3. CASE w # v /\ u = v
    <3>1. w.rev < v.rev
      BY <1>6, <2>3
    <3> QED BY <1>7, <2>1, <2>3, <3>1
  <2>4. CASE w # v /\ u # v
    <3>1. ClosedBy(g, u, w.from) /\ u \in Nodes(g)
      BY <1>5, <2>4 DEF Chained, OldClosed
    <3> QED BY <1>5, <3>1 DEF ClosedBy
  <2> QED BY <2>2, <2>3, <2>4
<1>12. HandsOver(h)
  <2> SUFFICES ASSUME NEW u \in Nodes(h), NEW w \in Nodes(h), u.family = w.family, u.from < w.from,
                      IsLast(h, w)
               PROVE  h.closer[u] # NoId /\ \A k \in h.cites[w] : ~Before(k, h.closer[u])
    BY DEF HandsOver
  <2>1. u \in Versions /\ w \in Versions
    BY <1>1, <1>5
  <2>2. CASE w = v
    <3>1. u \in Family(g, v.family) /\ u.from < v.from
      BY <1>5, <1>7, <2>1, <2>2 DEF Family
    <3> QED BY <1>5, <2>2, <3>1 DEF Family
  <2>3. CASE w # v /\ u = v
    <3>1. w \in Family(g, v.family) /\ IsLast(g, w)
      BY <1>5, <1>9, <2>3 DEF Family
    <3> QED BY <1>5, <2>3, <3>1 DEF Family
  <2>4. CASE w # v /\ u # v
    <3>1. u \in Nodes(g) /\ w \in Nodes(g) /\ IsLast(g, w)
      BY <1>5, <1>9, <2>4
    <3> QED BY <1>5, <3>1 DEF Chained, HandsOver
  <2> QED BY <2>2, <2>3, <2>4
<1>13. Explained(h)
  <2> SUFFICES ASSUME NEW e \in g.edges, e[2].from < e[1].from PROVE ClosedBy(h, e[2], e[1].from)
    BY <1>5 DEF Explained
  <2>1. e[2] \in Nodes(g) /\ ClosedBy(g, e[2], e[1].from)
    BY DEF Sound, Placed, Chained, Explained
  <2> QED BY <1>5, <2>1 DEF ClosedBy
<1>14. Keeps(g, h, i)
  BY <1>5 DEF Keeps
<1> QED
  BY <1>8, <1>10, <1>11, <1>12, <1>13, <1>14 DEF Chained, h

\* A supersedes edge that explains a closure.
LEMMA SupersedeChained ==
  ASSUME NEW g \in Graphs, Chained(g), NEW new \in Versions, NEW old \in Versions, NEW i,
         old.from < new.from => ClosedBy(g, old, new.from)
  PROVE  LET h == Supersede(g, new, old)
         IN  Chained(h) /\ Keeps(g, h, i) /\ \A w : IsLast(g, w) <=> IsLast(h, w)
<1> DEFINE h == Supersede(g, new, old)
<1>1. h.cites = g.cites /\ h.closer = g.closer /\ h.edges \subseteq g.edges \cup {<<new, old>>}
  BY DEF Supersede, Graphs
<1> HIDE DEF h
<1>2. Nodes(h) = Nodes(g) /\ \A w : IsLast(g, w) <=> IsLast(h, w)
  BY <1>1 DEF Nodes, IsLast
<1>3. Named(h) /\ OldClosed(h) /\ HandsOver(h)
  BY <1>1, <1>2 DEF Chained, Named, OldClosed, HandsOver, ClosedBy
<1>4. Explained(h)
  <2> SUFFICES ASSUME NEW e \in h.edges, e[2].from < e[1].from PROVE ClosedBy(g, e[2], e[1].from)
    BY <1>1 DEF Explained, ClosedBy
  <2> QED BY <1>1 DEF Chained, Explained
<1>5. Keeps(g, h, i)
  BY <1>1 DEF Keeps
<1> QED
  BY <1>2, <1>3, <1>4, <1>5 DEF Chained, h

\* The last of the next versions closes a new one before any of its rows.
LEMMA FutureCloserFirst ==
  ASSUME Clock = "fine", LedgerOK, NEW P \in SUBSET Rows, NEW g, Sound(g, P), NEW f, NEW t \in Nat,
         NEW w \in Family(g, f), t < w.from, IsLast(g, w)
  PROVE  LET c == FutureCloser(g, f, t)
         IN  c # NoId /\ \A k \in g.cites[w] : ~Before(k, c)
<1> DEFINE later == {v \in Family(g, f) : v.from > t}
           first == {u \in later : \A x \in later : u.from <= x.from}
           v == FirstListed(first)
           c == FutureCloser(g, f, t)
<1>1. /\ w \in later
      /\ \A u \in later : u \in Family(g, f) /\ u \in Nodes(g) /\ u \in Versions
      /\ \A u \in Versions : u.from \in Nat /\ u.rev \in Nat
  BY VersionTypes DEF Family, Nodes
<1>2. first # {}
  <2>1. {u.from : u \in later} \in SUBSET Nat /\ {u.from : u \in later} # {}
    BY <1>1
  <2>2. PICK n \in {u.from : u \in later} : \A m \in {u.from : u \in later} : n <= m
    BY <2>1, LeastNat
  <2> QED BY <2>2
<1>3. c = FirstEvent(g, v)
  BY <1>1 DEF FutureCloser
<1>4. v \in first /\ \A u \in first : v.rev >= u.rev
  <2>1. first \in SUBSET Versions
    BY <1>1
  <2> HIDE DEF first
  <2> QED BY <1>2, <2>1, FirstListedLast
<1>5. v \in later /\ v.from <= w.from /\ (w.from = v.from => w \in first)
  BY <1>1, <1>4
<1> HIDE DEF first, c, v
<1>6. v \in Family(g, f) /\ v \in Nodes(g) /\ v \in Versions /\ v.from \in Nat /\ v.rev \in Nat
  BY <1>1, <1>5
<1>7. /\ c \in g.cites[v] /\ Obs(c) = v.from /\ IsFirst(c, g.cites[v])
      /\ c \in Rows /\ c # NoId
  <2>1. c \in g.cites[v] /\ Obs(c) = v.from /\ IsFirst(c, g.cites[v])
    BY <1>3, <1>6, FirstEventOK, FirstEventFirst
  <2> QED BY <1>6, <2>1, RowTypes DEF Sound, Placed
<1>8. ASSUME NEW k \in g.cites[w], Before(k, c) PROVE FALSE
  <2>1. k \in Rows /\ Obs(k) = w.from /\ w \in Versions /\ w.from \in Nat
    BY <1>1 DEF Sound, Placed, Timed
  <2>2. w.from <= v.from
    BY <1>6, <1>7, <1>8, <2>1, BeforeOrders
  <2>3. w.from = v.from
    BY <1>5, <1>6, <2>1, <2>2
  <2>4. w.rev <= v.rev /\ v.rev <= w.rev
    <3>1. v.rev >= w.rev
      BY <1>4, <1>5, <2>3
    <3>2. v.family = w.family
      BY <1>6 DEF Family
    <3>3. v.rev <= w.rev
      BY <1>6, <2>3, <3>2 DEF IsLast
    <3> QED BY <3>1, <3>3
  <2>5. v = w
    <3>1. v.rev = w.rev
      BY <1>1, <1>6, <2>4
    <3>2. v.family = w.family
      BY <1>6 DEF Family
    <3> QED BY <1>6, <2>1, <2>3, <3>1, <3>2 DEF Versions
  <2>6. k = c \/ Before(c, k)
    BY <1>7, <2>5 DEF IsFirst
  <2> QED BY <1>7, <1>8, <2>1, <2>6, BeforeOrders
<1> QED
  BY <1>7, <1>8 DEF c

\* Closing one version.
LEMMA CloseChained ==
  ASSUME LedgerOK, NEW P \in SUBSET Rows, NEW g, Sound(g, P), NEW v \in Nodes(g), NEW i \in P,
         Chained(g)
  PROVE  LET h == Close(g, v, i)
         IN  /\ Chained(h) /\ Keeps(g, h, i) /\ \A w : IsLast(g, w) <=> IsLast(h, w)
             /\ Sound(h, P) /\ Nodes(h) = Nodes(g)
             /\ CanClose(g, v, i) => h.closer[v] = i
<1> DEFINE h == Close(g, v, i)
<1>1. v \in Versions /\ g \in Graphs /\ i \in Ids
  BY RowTypes DEF Nodes, Sound, Placed
<1>2. Sound(h, P) /\ h.cites = g.cites
  BY <1>1, CloseOK DEF Grows
<1>3. CASE ~CanClose(g, v, i)
  <2>1. h = g
    BY <1>3 DEF Close
  <2> HIDE DEF h
  <2> QED BY <1>3, <2>1, KeepsSelf DEF h
<1>4. CASE CanClose(g, v, i)
  <2>1. h = SetCloser(g, {v}, i)
    BY <1>4 DEF Close
  <2> HIDE DEF h
  <2>2. /\ h.edges = g.edges
        /\ \A w \in Versions : h.closer[w] = IF w \in {v} THEN i ELSE g.closer[w]
    BY <1>1, <2>1, SetCloserFields
  <2>3. h.closer[v] = i
    BY <1>1, <2>2
  <2>4. Keeps(g, h, i)
    <3> SUFFICES ASSUME NEW w \in Nodes(g) PROVE h.closer[w] = g.closer[w] \/ ClosesEarlier(g, h, w, i)
      BY DEF Keeps
    <3>1. w \in Versions
      BY DEF Nodes
    <3>2. CASE w = v
      BY <1>4, <2>3, <3>2 DEF CanClose, ClosesEarlier
    <3>3. CASE w # v
      BY <2>2, <3>1, <3>3
    <3> QED BY <3>2, <3>3
  <2>5. Chained(h) /\ \A w : IsLast(g, w) <=> IsLast(h, w)
    BY <1>2, <2>2, <2>4, SoonerChained
  <2>6. Nodes(h) = Nodes(g)
    BY <1>2 DEF Nodes
  <2> QED BY <1>2, <2>3, <2>4, <2>5, <2>6 DEF h
<1> QED
  BY <1>3, <1>4

\* Closing what came before in a family.
LEMMA ClosePreviousChained ==
  ASSUME LedgerOK, NEW P \in SUBSET Rows, NEW g, Sound(g, P), NEW f, NEW i \in P, Chained(g)
  PROVE  LET h == ClosePrevious(g, f, i)
         IN  /\ Chained(h) /\ Keeps(g, h, i) /\ \A w : IsLast(g, w) <=> IsLast(h, w)
             /\ Sound(h, P) /\ h.cites = g.cites
             /\ \A u \in Family(h, f) : u.from < Obs(i) => ClosedBy(h, u, Obs(i))
<1> DEFINE S == {v \in Family(g, f) :
                   /\ v.from < Obs(i)
                   /\ g.closer[v] = NoId \/ Obs(g.closer[v]) > Obs(i)}
           h == ClosePrevious(g, f, i)
<1>1. g \in Graphs /\ i \in Ids
  BY RowTypes DEF Sound, Placed
<1>2. h = SetCloser(g, S, i)
  BY DEF ClosePrevious
<1>3. /\ Sound(h, P) /\ h.cites = g.cites
      /\ \A u \in Family(h, f) : u.from < Obs(i) => ClosedBy(h, u, Obs(i))
  <2> HIDE DEF S, h
  <2>1. /\ Grows(g, h, P) /\ h.cites = g.cites
        /\ \A u \in Family(h, f) : u.from < Obs(i) => ClosedBy(h, u, Obs(i))
    BY ClosePreviousOK DEF h
  <2> QED BY <2>1 DEF Grows
<1>4. ASSUME NEW w \in Versions, w \in S, g.closer[w] # NoId PROVE Before(i, g.closer[w])
  <2>1. g.closer[w] \in Rows /\ Obs(g.closer[w]) > Obs(i)
    BY <1>4 DEF Sound, Placed
  <2> QED BY <2>1, RowTypes DEF Before
<1> HIDE DEF S, h
<1>5. h.edges = g.edges /\ \A w \in Versions : h.closer[w] = IF w \in S THEN i ELSE g.closer[w]
  BY <1>1, <1>2, SetCloserFields
<1>6. Keeps(g, h, i)
  <2>1. \A w \in Nodes(g) : w \in Versions
    BY DEF Nodes
  <2> QED BY <1>4, <1>5, <2>1 DEF Keeps, ClosesEarlier
<1>7. Chained(h) /\ \A w : IsLast(g, w) <=> IsLast(h, w)
  BY <1>3, <1>5, <1>6, SoonerChained
<1> QED
  BY <1>3, <1>6, <1>7 DEF h

\* A row extends the history of a family if no row after it has closed a version
\* before, and no successor of its time is named after a later row.
LEMMA UpsertChained ==
  ASSUME Clock = "fine", LedgerOK, NEW P \in SUBSET Rows, NEW g, Sound(g, P), NEW f \in Texts,
         NEW i \in P, NEW allowed, Chained(g),
         \A u \in Family(g, f) :
           u.from < Obs(i) /\ g.closer[u] # NoId /\ Obs(g.closer[u]) = Obs(i) => g.closer[u] <= i,
         LET same == SameTime(g, f, i)
         IN  same # {} /\ allowed /\ i > FirstEvent(g, FirstListed(same)) =>
               \A u \in same : u.rev < i
  PROVE  LET o == Upsert(g, f, i, allowed)
         IN  Chained(o.graph) /\ Keeps(g, o.graph, i) /\ IsLast(o.graph, o.version)
<1> DEFINE same == SameTime(g, f, i)
           old == FirstListed(same)
           new == Version(f, Obs(i), NoId)
           successor == Version(f, Obs(i), i)
           closer == FutureCloser(g, f, Obs(i))
           o == Upsert(g, f, i, allowed)
<1>1. i \in Rows /\ i \in Ids /\ i \in Nat /\ i # NoId /\ Obs(i) \in Times /\ Obs(i) \in Nat
  BY RowTypes
<1>2. /\ new \in Versions /\ new.family = f /\ new.from = Obs(i) /\ new.rev = NoId
      /\ successor \in Versions /\ successor.family = f /\ successor.from = Obs(i) /\ successor.rev = i
  BY <1>1 DEF Version, Versions
<1>3. closer \in P \cup {NoId}
  BY <1>1, FutureCloserOK
<1>4. \A w \in Family(g, f) : Obs(i) < w.from /\ IsLast(g, w) =>
        closer # NoId /\ \A k \in g.cites[w] : ~Before(k, closer)
  BY <1>1, FutureCloserFirst
<1>5. same # {} => old \in same /\ \A u \in same : u.rev <= old.rev
  <2>1. same \in SUBSET Versions
    BY DEF SameTime, Family, Nodes
  <2> HIDE DEF same
  <2>2. \A u \in same : u.rev \in Nat /\ old.rev >= u.rev => u.rev <= old.rev
    OBVIOUS
  <2> QED BY <2>1, <2>2, FirstListedLast, VersionTypes
<1>6. /\ \A u \in Family(g, f) : u \in Nodes(g) /\ u \in Versions /\ u.family = f
      /\ \A u : u \in same <=> u \in Family(g, f) /\ u.from = Obs(i)
      /\ \A u \in Nodes(g) : u.family = f => u \in Family(g, f)
  BY DEF SameTime, Family, Nodes
<1>7. same # {} => old \in Nodes(g) /\ old \in Versions /\ old.family = f /\ old.from = Obs(i)
  BY <1>5, <1>6
<1>8. /\ same = {} => o = [graph |-> Create(ClosePrevious(g, f, i), new, i, closer), version |-> new]
      /\ same # {} /\ allowed /\ i > FirstEvent(g, old) =>
           o = [graph |-> Create(Close(g, old, i), successor, i, closer), version |-> successor]
      /\ same # {} /\ ~(allowed /\ i > FirstEvent(g, old)) =>
           o = [graph |-> Cite(g, old, i), version |-> old]
  BY DEF Upsert
<1>9. same # {} /\ allowed /\ i > FirstEvent(g, old) => \A u \in same : u.rev < i
  OBVIOUS
<1> HIDE DEF same, old, new, successor, closer, o
\* a version closed by the time of row i is not closed after row i
<1>10. ASSUME NEW u \in Family(g, f), u.from < Obs(i), ClosedBy(g, u, Obs(i))
       PROVE  g.closer[u] \in Rows /\ g.closer[u] # NoId /\ ~Before(i, g.closer[u])
  <2>1. g.closer[u] # NoId /\ g.closer[u] \in Rows /\ Obs(g.closer[u]) <= Obs(i)
    BY <1>6, <1>10 DEF ClosedBy, Sound, Placed
  <2>2. Obs(g.closer[u]) \in Nat /\ g.closer[u] \in Nat
    BY <2>1, RowTypes
  <2>3. Obs(g.closer[u]) = Obs(i) => g.closer[u] <= i
    BY <1>10, <2>1
  <2> QED BY <1>1, <2>1, <2>2, <2>3 DEF Before
<1>11. CASE same = {}
  <2> DEFINE h == ClosePrevious(g, f, i)
             k == Create(h, new, i, closer)
  <2>1. /\ Chained(h) /\ Keeps(g, h, i) /\ Sound(h, P) /\ h.cites = g.cites
        /\ \A w : IsLast(g, w) <=> IsLast(h, w)
        /\ \A u \in Family(h, f) : u.from < Obs(i) => ClosedBy(h, u, Obs(i))
    BY ClosePreviousChained
  <2>2. o.graph = k /\ o.version = new
    BY <1>8, <1>11
  <2> HIDE DEF h
  <2>3. Nodes(h) = Nodes(g) /\ Family(h, f) = Family(g, f)
    BY <2>1 DEF Family, Nodes
  <2>4. new \in Versions \ Nodes(h)
    BY <1>2, <1>6, <1>11, <2>3
  <2>5. \A u \in Family(h, f) : u.from # Obs(i)
    BY <1>6, <1>11, <2>3
  <2>6. ASSUME NEW u \in Family(h, f), u.from < Obs(i)
        PROVE  h.closer[u] # NoId /\ ~Before(i, h.closer[u])
    <3>1. h.closer[u] # NoId /\ Obs(h.closer[u]) <= Obs(i)
      BY <2>1, <2>6 DEF ClosedBy
    <3>2. h.closer[u] = g.closer[u] \/ h.closer[u] = i
      BY <1>6, <2>1, <2>3 DEF Keeps, ClosesEarlier
    <3>3. CASE h.closer[u] = i
      BY <1>1, <3>3, BeforeOrders
    <3>4. CASE h.closer[u] = g.closer[u]
      <4>1. ClosedBy(g, u, Obs(i)) /\ u \in Family(g, f)
        BY <2>3, <3>1, <3>4 DEF ClosedBy
      <4> QED BY <1>10, <2>6, <3>4, <4>1
    <3> QED BY <3>2, <3>3, <3>4
  <2>7. \A w \in Family(h, f) : Obs(i) < w.from /\ IsLast(h, w) =>
          closer # NoId /\ \A l \in h.cites[w] : ~Before(l, closer)
    BY <1>4, <2>1, <2>3
  <2>8. Chained(k) /\ Keeps(h, k, i) /\ IsLast(k, new)
    BY <1>2, <1>3, <2>1, <2>4, <2>5, <2>6, <2>7, CreateChained
  <2> HIDE DEF k
  <2>9. Keeps(g, k, i)
    BY <1>1, <2>1, <2>3, <2>8, KeepsTrans
  <2> QED BY <2>2, <2>8, <2>9 DEF o
<1>12. CASE same # {} /\ allowed /\ i > FirstEvent(g, old)
  <2> DEFINE h == Close(g, old, i)
             k == Create(h, successor, i, closer)
  <2>1. /\ Chained(h) /\ Keeps(g, h, i) /\ Sound(h, P) /\ Nodes(h) = Nodes(g)
        /\ \A w : IsLast(g, w) <=> IsLast(h, w)
        /\ CanClose(g, old, i) => h.closer[old] = i
    BY <1>7, <1>12, CloseChained
  <2>2. o.graph = k /\ o.version = successor
    BY <1>8, <1>12
  <2>3. h.cites = g.cites
    BY <1>7, <1>12, CloseOK
  <2> HIDE DEF h
  <2>4. Family(h, f) = Family(g, f)
    BY <2>1 DEF Family
  <2>5. successor \in Versions \ Nodes(h)
    <3> SUFFICES ASSUME successor \in Nodes(g) PROVE FALSE
      BY <1>2, <2>1
    <3>1. successor \in same
      BY <1>2, <1>6
    <3> QED BY <1>1, <1>2, <1>9, <1>12, <3>1
  <2>6. ASSUME NEW u \in Family(h, f), u.from = Obs(i)
        PROVE  u.rev < i /\ ClosedBy(h, u, Obs(i))
    <3>1. u \in same /\ u \in Nodes(g) /\ u \in Versions /\ u.family = f
      BY <1>6, <2>4, <2>6
    <3>2. u.rev < i
      BY <1>9, <1>12, <3>1
    <3>3. CASE u = old
      <4>1. CASE CanClose(g, old, i)
        BY <1>1, <2>1, <3>2, <3>3, <4>1 DEF ClosedBy
      <4>2. CASE ~CanClose(g, old, i)
        <5>1. g.closer[old] # NoId /\ ~Before(i, g.closer[old])
          BY <1>1, <1>7, <1>12, <4>2 DEF CanClose
        <5>2. g.closer[old] \in Rows
          BY <1>7, <1>12, <5>1 DEF Sound, Placed
        <5>3. ClosedBy(g, old, Obs(i))
          BY <1>1, <5>1, <5>2, BeforeOrders DEF ClosedBy
        <5>4. ClosedBy(h, old, Obs(i))
          BY <1>1, <1>7, <1>12, <2>1, <5>1, <5>3, ClosedKept
        <5> QED BY <3>2, <3>3, <5>4
      <4> QED BY <4>1, <4>2
    <3>4. CASE u # old
      <4>1. u.rev < old.rev
        <5>1. u.rev <= old.rev /\ u.rev \in Nat /\ old.rev \in Nat
          BY <1>5, <1>7, <1>12, <3>1, VersionTypes
        <5>2. u.rev # old.rev
          BY <1>7, <1>12, <2>6, <3>1, <3>4 DEF Versions
        <5> QED BY <5>1, <5>2
      <4>2. ClosedBy(g, u, Obs(i))
        BY <1>7, <1>12, <2>6, <3>1, <4>1 DEF Chained, OldClosed
      <4>3. g.closer[u] # NoId
        BY <4>2 DEF ClosedBy
      <4> QED BY <1>1, <2>1, <3>1, <3>2, <4>2, <4>3, ClosedKept
    <3> QED BY <3>2, <3>3, <3>4
  <2>7. ASSUME NEW u \in Family(h, f), u.from < Obs(i)
        PROVE  h.closer[u] # NoId /\ ~Before(i, h.closer[u])
    <3>1. u \in Family(g, f) /\ u \in Nodes(g) /\ u.family = f
      BY <1>6, <2>4
    <3>2. ClosedBy(g, u, Obs(i))
      BY <1>7, <1>12, <2>7, <3>1 DEF Sound, Ordered
    <3>3. g.closer[u] # NoId /\ ~Before(i, g.closer[u])
      BY <1>10, <2>7, <3>1, <3>2
    <3>4. h.closer[u] # NoId
      BY <1>1, <2>1, <3>1, <3>3, ClosedKept
    <3>5. \A l \in Rows : ~Before(l, g.closer[u]) => ~Before(l, h.closer[u])
      BY <1>1, <2>1, <3>1, <3>3, ClosedKept
    <3> QED BY <1>1, <3>3, <3>4, <3>5
  <2>8. \A w \in Family(h, f) : Obs(i) < w.from /\ IsLast(h, w) =>
          closer # NoId /\ \A l \in h.cites[w] : ~Before(l, closer)
    BY <1>4, <2>1, <2>3, <2>4
  <2>9. Chained(k) /\ Keeps(h, k, i) /\ IsLast(k, successor)
    BY <1>2, <1>3, <2>1, <2>5, <2>6, <2>7, <2>8, CreateChained
  <2> HIDE DEF k
  <2>10. Keeps(g, k, i)
    BY <1>1, <2>1, <2>9, KeepsTrans
  <2> QED BY <2>2, <2>9, <2>10 DEF o
<1>13. CASE same # {} /\ ~(allowed /\ i > FirstEvent(g, old))
  <2> DEFINE k == Cite(g, old, i)
  <2>1. IsLast(g, old)
    BY <1>5, <1>6, <1>7, <1>13 DEF IsLast
  <2>2. ASSUME NEW u \in Nodes(g), u.family = old.family, u.from < old.from
        PROVE  ~Before(i, g.closer[u])
    <3>1. u \in Family(g, f) /\ u.from < Obs(i)
      BY <1>6, <1>7, <1>13, <2>2
    <3>2. ClosedBy(g, u, Obs(i))
      BY <1>7, <1>13, <2>2 DEF Sound, Ordered
    <3> QED BY <1>10, <3>1, <3>2
  <2>3. Chained(k) /\ Keeps(g, k, i) /\ \A w : IsLast(g, w) <=> IsLast(k, w)
    BY <1>7, <1>13, <2>2, CiteChained
  <2>4. o.graph = k /\ o.version = old
    BY <1>8, <1>13
  <2> HIDE DEF k
  <2> QED BY <2>1, <2>3, <2>4 DEF o
<1> QED
  BY <1>11, <1>12, <1>13

\* No row observed at the time of row i and projected after it has closed an
\* earlier version of family f.
Undisturbed(g, f, i) ==
  \A u \in Family(g, f) :
    u.from < Obs(i) /\ g.closer[u] # NoId /\ Obs(g.closer[u]) = Obs(i) => g.closer[u] <= i

\* The replacement of what row i invalidates is the last version of its time.
LEMMA ReplacementChained ==
  ASSUME Clock = "fine", LedgerOK, NEW P \in SUBSET Rows, NEW g, Sound(g, P), NEW i \in P,
         Chained(g),
         SameTime(g, ledger[i].text, i) = {} => Undisturbed(g, ledger[i].text, i)
  PROVE  LET o == Replacement(g, i)
         IN  /\ Chained(o.graph) /\ Keeps(g, o.graph, i) /\ IsLast(o.graph, o.version)
             /\ SameTime(o.graph, ledger[i].text, i) # {}
<1> DEFINE f == ledger[i].text
           same == SameTime(g, f, i)
           o == Replacement(g, i)
<1>1. f \in Texts
  BY RowTypes
<1>2. CASE same = {}
  <2> DEFINE allowed == FALSE
             p == Upsert(g, f, i, allowed)
  <2>1. o = p
    BY <1>2 DEF Replacement
  <2>2. ~allowed
    OBVIOUS
  <2> HIDE DEF allowed
  <2>3. Chained(p.graph) /\ Keeps(g, p.graph, i) /\ IsLast(p.graph, p.version)
    BY <1>1, <1>2, <2>2, UpsertChained DEF Undisturbed
  <2>4. p.version \in Nodes(p.graph) /\ p.version.family = f /\ p.version.from = Obs(i)
    BY <1>1, UpsertOK
  <2> HIDE DEF o, p, f
  <2>5. p.version \in SameTime(p.graph, f, i)
    BY <2>4 DEF SameTime, Family
  <2> QED BY <2>1, <2>3, <2>5 DEF o, f
<1>3. CASE same # {}
  <2>1. o.graph = g /\ o.version = FirstListed(same)
    BY <1>3 DEF Replacement
  <2>2. same \in SUBSET Versions
    BY DEF SameTime, Family, Nodes
  <2>3. \A u : u \in same <=> u \in Nodes(g) /\ u.family = f /\ u.from = Obs(i)
    BY DEF SameTime, Family
  <2> HIDE DEF same, o, f
  <2>4. FirstListed(same) \in same /\ \A u \in same : FirstListed(same).rev >= u.rev
    BY <1>3, <2>2, FirstListedLast
  <2>5. IsLast(g, FirstListed(same))
    BY <2>2, <2>3, <2>4, VersionTypes DEF IsLast
  <2>6. Chained(o.graph) /\ Keeps(g, o.graph, i) /\ IsLast(o.graph, o.version)
    BY <2>1, <2>5, KeepsSelf
  <2> QED BY <1>3, <2>1, <2>6 DEF o, same, f
<1> QED
  BY <1>2, <1>3

\* A version of a family, and the closure of another that it supersedes.
LEMMA CloseAndSupersedeChained ==
  ASSUME LedgerOK, NEW P \in SUBSET Rows, NEW o, Sound(o.graph, P), Chained(o.graph),
         NEW i \in P, NEW v \in Nodes(o.graph), o.version \in Nodes(o.graph),
         o.version.from = Obs(i)
  PROVE  LET h == CloseAndSupersede(o, v, i)
         IN  /\ Chained(h) /\ Keeps(o.graph, h, i)
             /\ \A w : IsLast(o.graph, w) <=> IsLast(h, w)
<1> DEFINE g == o.graph
           c == Close(g, v, i)
           s == Supersede(c, o.version, v)
           h == CloseAndSupersede(o, v, i)
<1>1. /\ Chained(c) /\ Keeps(g, c, i) /\ \A w : IsLast(g, w) <=> IsLast(c, w)
      /\ Sound(c, P) /\ Nodes(c) = Nodes(g)
      /\ CanClose(g, v, i) => c.closer[v] = i
  BY CloseChained
<1>2. h = IF CanClose(g, v, i) THEN s ELSE g
  BY DEF CloseAndSupersede
<1>3. i # NoId /\ Obs(i) \in Nat /\ i \in Rows
  BY RowTypes
<1>4. c \in Graphs /\ v \in Versions /\ o.version \in Versions
  BY <1>1 DEF Sound, Placed, Nodes
<1> HIDE DEF c, h
<1>5. CASE CanClose(g, v, i)
  <2>1. ClosedBy(c, v, o.version.from)
    BY <1>1, <1>3, <1>5 DEF ClosedBy
  <2>2. Chained(s) /\ Keeps(c, s, i) /\ \A w : IsLast(c, w) <=> IsLast(s, w)
    BY <1>1, <1>4, <2>1, SupersedeChained
  <2> HIDE DEF s
  <2>3. Keeps(g, s, i)
    BY <1>1, <1>3, <2>2, KeepsTrans
  <2> QED BY <1>1, <1>2, <1>5, <2>2, <2>3 DEF h
<1>6. CASE ~CanClose(g, v, i)
  <2>1. h = g
    BY <1>2, <1>6
  <2> QED BY <2>1, KeepsSelf DEF h
<1> QED
  BY <1>5, <1>6

\* An update of a target whose family no later row has disturbed.
LEMMA UpdateChained ==
  ASSUME Clock = "fine", LedgerOK, NEW P \in SUBSET Rows, NEW g, Sound(g, P), NEW i \in P,
         Chained(g), NEW v \in Nodes(g), Undisturbed(g, v.family, i),
         \A u \in SameTime(g, v.family, i) : u.rev < i
  PROVE  LET o == Update(g, i, v)
         IN  Chained(o.graph) /\ Keeps(g, o.graph, i) /\ IsLast(o.graph, o.version)
<1> DEFINE allowed == TRUE
           m == Upsert(g, v.family, i, allowed)
           o == Update(g, i, v)
<1>1. v.family \in Texts /\ v \in Versions
  BY DEF Nodes, Versions
<1>2. o.graph = Supersede(m.graph, m.version, v) /\ o.version = m.version
  BY DEF Update, Upsert
<1> HIDE DEF allowed, o
<1>3. Chained(m.graph) /\ Keeps(g, m.graph, i) /\ IsLast(m.graph, m.version)
  BY <1>1, UpsertChained DEF Undisturbed
<1>4. /\ Grows(g, m.graph, P) /\ m.version \in Nodes(m.graph)
      /\ m.version.family = v.family /\ m.version.from = Obs(i)
  BY <1>1, UpsertOK
<1> HIDE DEF m
<1>5. /\ Sound(m.graph, P) /\ m.graph \in Graphs /\ Nodes(g) \subseteq Nodes(m.graph)
      /\ v \in Nodes(m.graph) /\ m.version \in Versions
  BY <1>4 DEF Grows, Sound, Placed, Nodes
<1>6. v.from < m.version.from => ClosedBy(m.graph, v, m.version.from)
  BY <1>4, <1>5 DEF Sound, Ordered
<1>7. /\ Chained(o.graph) /\ Keeps(m.graph, o.graph, i)
      /\ \A w : IsLast(m.graph, w) <=> IsLast(o.graph, w)
  BY <1>1, <1>2, <1>3, <1>5, <1>6, SupersedeChained
<1>8. i \in Rows
  OBVIOUS
<1>9. Keeps(g, o.graph, i)
  BY <1>3, <1>5, <1>7, <1>8, KeepsTrans
<1> QED
  BY <1>2, <1>3, <1>7, <1>9 DEF o

\* What a late update had stated in a family of its own ends.
LEMMA CloseDuplicateChained ==
  ASSUME LedgerOK, NEW P \in SUBSET Rows, NEW g, Sound(g, P), Chained(g), NEW j \in P, NEW f
  PROVE  LET h == CloseDuplicate(g, j, f)
         IN  Chained(h) /\ Keeps(g, h, j) /\ Sound(h, P) /\ Nodes(h) = Nodes(g)
<1> DEFINE stated == SameTime(g, ledger[j].text, j)
           x == FirstListed(stated)
           h == CloseDuplicate(g, j, f)
<1>1. CASE ledger[j].text = f \/ stated = {}
  <2>1. h = g
    BY <1>1 DEF CloseDuplicate
  <2> HIDE DEF h
  <2> QED BY <2>1, KeepsSelf DEF h
<1>2. CASE ~(ledger[j].text = f \/ stated = {})
  <2>1. h = Close(g, x, j)
    BY <1>2 DEF CloseDuplicate
  <2>2. stated \in SUBSET Nodes(g) /\ stated \in SUBSET Versions
    BY DEF SameTime, Family, Nodes
  <2> HIDE DEF stated
  <2>3. x \in Nodes(g)
    BY <1>2, <2>2, FirstListedOK
  <2> HIDE DEF h, x
  <2> QED BY <2>1, <2>3, CloseChained DEF h
<1> QED
  BY <1>1, <1>2

\* A late update of the last version of its time, which row j closes: the
\* family has nothing of row j's time or later that was there in its place.
LEMMA LateUpdateChained ==
  ASSUME Clock = "fine", LedgerOK, NEW P \in SUBSET Rows, NEW g, Sound(g, P), Chained(g),
         NEW v \in Nodes(g), IsLast(g, v), NEW j \in P, v.from < Obs(j), CanClose(g, v, j)
  PROVE  LET o == LateSuccessor(Close(g, v, j), j, v.family)
             h == Supersede(CloseDuplicate(o.graph, j, v.family), o.version, v)
         IN  Chained(h) /\ Keeps(g, h, j)
<1> DEFINE f == v.family
           c == Close(g, v, j)
           o == LateSuccessor(c, j, f)
           d == CloseDuplicate(o.graph, j, f)
           s == Supersede(d, o.version, v)
<1>1. j \in Rows /\ j \in Nat /\ j # NoId /\ Obs(j) \in Nat
  BY RowTypes
<1>2. v \in Versions /\ f \in Texts /\ v.from \in Nat
  BY VersionTypes DEF Nodes, Versions
<1>3. /\ Chained(c) /\ Keeps(g, c, j) /\ Sound(c, P) /\ Nodes(c) = Nodes(g)
      /\ \A w : IsLast(g, w) <=> IsLast(c, w)
      /\ c.closer[v] = j
  BY CloseChained
<1> HIDE DEF c
<1>4. Undisturbed(c, f, j)
  <2> SUFFICES ASSUME NEW u \in Family(c, f), u.from < Obs(j), c.closer[u] # NoId,
                      Obs(c.closer[u]) = Obs(j)
               PROVE  c.closer[u] <= j
    BY DEF Undisturbed
  <2>1. u \in Nodes(c) /\ u \in Nodes(g) /\ u \in Versions /\ u.family = f /\ u.from \in Nat
    BY <1>3, VersionTypes DEF Family, Nodes
  <2>2. CASE u = v
    BY <1>1, <1>3, <2>2
  <2>3. CASE u # v /\ u.from = v.from
    <3>1. u.rev < v.rev
      <4>1. u.rev <= v.rev /\ u.rev \in Nat /\ v.rev \in Nat
        BY <1>2, <2>1, <2>3, VersionTypes DEF IsLast
      <4>2. u.rev # v.rev
        BY <1>2, <2>1, <2>3 DEF Versions
      <4> QED BY <4>1, <4>2
    <3>2. ClosedBy(c, u, v.from)
      BY <1>3, <2>1, <2>3, <3>1 DEF Chained, OldClosed
    <3> QED BY <1>1, <1>2, <3>2 DEF ClosedBy
  <2>4. CASE u.from < v.from
    <3>1. ClosedBy(c, u, v.from)
      BY <1>3, <2>1, <2>4 DEF Sound, Ordered
    <3> QED BY <1>1, <1>2, <3>1 DEF ClosedBy
  <2>5. CASE v.from < u.from
    <3>1. g.closer[v] # NoId /\ Obs(g.closer[v]) <= u.from
      BY <2>1, <2>5 DEF Sound, Ordered, ClosedBy
    <3>2. g.closer[v] \in Rows /\ Before(j, g.closer[v])
      BY <1>2, <3>1 DEF Sound, Placed, CanClose
    <3>3. Obs(j) <= Obs(g.closer[v]) /\ Obs(g.closer[v]) \in Nat
      BY <1>1, <3>2, BeforeOrders, RowTypes
    <3> QED BY <1>1, <2>1, <3>1, <3>3
  <2> QED BY <1>2, <2>1, <2>2, <2>3, <2>4, <2>5
<1>5. /\ Chained(o.graph) /\ Keeps(c, o.graph, j)
      /\ Sound(o.graph, P) /\ Nodes(c) \subseteq Nodes(o.graph)
      /\ o.version \in Nodes(o.graph) /\ o.version.from = Obs(j)
  <2>1. CASE ledger[j].text = f
    <3> DEFINE r == Replacement(c, j)
    <3>1. o = r
      BY <2>1 DEF LateSuccessor
    <3> HIDE DEF o, f
    <3>2. Chained(r.graph) /\ Keeps(c, r.graph, j)
      BY <1>3, <1>4, <2>1, ReplacementChained
    <3>3. Grows(c, r.graph, P) /\ r.version \in Nodes(r.graph) /\ r.version.from = Obs(j)
      BY <1>3, ReplacementOK
    <3> HIDE DEF r
    <3> QED BY <3>1, <3>2, <3>3 DEF Grows
  <2>2. CASE ledger[j].text # f
    <3> DEFINE allowed == TRUE
               same == SameTime(c, f, j)
               old == FirstListed(same)
               r == Upsert(c, f, j, allowed)
    <3>1. o = r
      BY <2>2 DEF LateSuccessor
    <3>2. \A u : u \in same <=> u \in Nodes(c) /\ u.family = f /\ u.from = Obs(j)
      BY DEF SameTime, Family
    <3>3. same \in SUBSET Versions
      BY DEF SameTime, Family, Nodes
    <3> HIDE DEF o, f, allowed
    <3>4. same # {} => ~(j > FirstEvent(c, old))
      <4> SUFFICES ASSUME same # {} PROVE ~(j > FirstEvent(c, old))
        OBVIOUS
      <4> HIDE DEF same
      <4>1. old \in same /\ \A u \in same : old.rev >= u.rev
        BY <3>3, FirstListedLast
      <4> HIDE DEF old
      <4>2. old \in Nodes(c) /\ old.family = f /\ old.from = Obs(j)
        BY <3>2, <4>1
      <4>3. IsLast(c, old)
        BY <3>2, <3>3, <4>1, <4>2, VersionTypes DEF IsLast
      <4>4. FirstEvent(c, old) \in c.cites[old] /\ Obs(FirstEvent(c, old)) = Obs(j)
        BY <1>3, <4>2, FirstEventOK
      <4>5. v \in Nodes(c) /\ v.family = old.family /\ v.from < old.from
        BY <1>3, <4>2 DEF f
      <4>6. ~Before(FirstEvent(c, old), j)
        BY <1>3, <4>3, <4>4, <4>5 DEF Chained, HandsOver, IsLast
      <4>7. FirstEvent(c, old) \in Nat
        <5>1. FirstEvent(c, old) \in Rows
          BY <1>3, <4>2, <4>4 DEF Sound, Placed, Nodes
        <5> QED BY <5>1, RowTypes
      <4> QED BY <1>1, <4>4, <4>6, <4>7 DEF Before
    <3>5. Chained(r.graph) /\ Keeps(c, r.graph, j)
      BY <1>2, <1>3, <1>4, <3>4, UpsertChained DEF Undisturbed
    <3>6. Grows(c, r.graph, P) /\ r.version \in Nodes(r.graph) /\ r.version.from = Obs(j)
      BY <1>2, <1>3, UpsertOK
    <3> HIDE DEF r
    <3> QED BY <3>1, <3>5, <3>6 DEF Grows
  <2> QED BY <2>1, <2>2
<1> HIDE DEF o
<1>6. Chained(d) /\ Keeps(o.graph, d, j) /\ Sound(d, P) /\ Nodes(d) = Nodes(o.graph)
  BY <1>5, CloseDuplicateChained
<1> HIDE DEF d
<1>7. Keeps(c, d, j)
  BY <1>1, <1>5, <1>6, KeepsTrans
<1>8. ClosedBy(d, v, Obs(j))
  <2>1. ClosedBy(c, v, Obs(j)) /\ v \in Nodes(c) /\ c.closer[v] # NoId
    BY <1>1, <1>3 DEF ClosedBy
  <2> QED BY <1>1, <1>3, <1>6, <1>7, <2>1, ClosedKept
<1>9. d \in Graphs /\ o.version \in Versions
  BY <1>5, <1>6 DEF Sound, Placed, Nodes
<1>10. Chained(s) /\ Keeps(d, s, j)
  BY <1>2, <1>5, <1>6, <1>8, <1>9, SupersedeChained
<1> HIDE DEF s
<1>11. Keeps(c, s, j)
  BY <1>1, <1>5, <1>6, <1>7, <1>10, KeepsTrans
<1>12. Keeps(g, s, j)
  BY <1>1, <1>3, <1>11, KeepsTrans
<1> QED
  BY <1>10, <1>12 DEF s, d, o, c
-----------------------------------------------------------------------------
(* The invariant of revision. *)

\* Rows observed at one time are projected in the order of their ids.
TiesInOrder == \A p \in projected, q \in Rows \ projected : Obs(p) = Obs(q) => p < q

\* A row whose text invalidates has left a version of its own.
Stated(g, P) ==
  \A j \in P : Op[ledger[j].text] = "invalidate" => SameTime(g, ledger[j].text, j) # {}

\* What is left to replay was observed after the late version began and did
\* not close it.
QueueOK ==
  late.queue # {} =>
    /\ IsLast(graph, late.version)
    /\ \A j \in late.queue : late.version.from < Obs(j) /\ graph.closer[late.version] # j

RInv == TiesInOrder /\ Stated(graph, projected) /\ Chained(graph) /\ QueueOK

\* Rows that are only appended leave the order of the old ones.
LEMMA RevisionAppend ==
  ASSUME IInv, RInv, NEW row \in Memory, AppendEvent(row)
  PROVE  RInv'
<1>1. /\ Len(ledger) \in Nat /\ Rows' = Rows \cup {Len(ledger) + 1}
      /\ \A i \in Rows : ledger'[i] = ledger[i]
  <2>1. ledger \in Seq(Memory) /\ ledger' = Append(ledger, row)
    BY DEF IInv, LedgerOK, AppendEvent
  <2>2. /\ Len(ledger') = Len(ledger) + 1 /\ Len(ledger) \in Nat
        /\ \A i \in 1..Len(ledger) : ledger'[i] = ledger[i]
    BY <2>1
  <2> QED BY <2>2 DEF Rows
<1>2. graph' = graph /\ projected' = projected /\ late' = late /\ LedgerOK
  BY DEF AppendEvent, IInv
<1>3. /\ projected \subseteq Rows /\ Sound(graph, projected) /\ Nodes(graph)' = Nodes(graph)
      /\ late.queue \subseteq projected
  BY <1>2 DEF IInv, LateOK, Nodes
<1>4. \A i \in Rows : Obs(i)' = Obs(i)
  BY <1>1 DEF Obs
<1>5. \A v \in Nodes(graph) : graph.closer[v] # NoId => graph.closer[v] \in Rows
  BY <1>3 DEF Sound, Placed, Nodes
<1>6. \A v \in Nodes(graph) : graph.cites[v] \subseteq Rows
  BY <1>3 DEF Sound, Placed, Nodes
<1>7. \A v \in Nodes(graph), t \in Nat : ClosedBy(graph, v, t)' <=> ClosedBy(graph, v, t)
  BY <1>2, <1>4, <1>5 DEF ClosedBy
<1>8. \A v \in Nodes(graph) : v \in Versions /\ v.from \in Nat
  BY VersionTypes DEF Nodes
<1>9. \A w : IsLast(graph, w)' <=> IsLast(graph, w)
  BY <1>2, <1>3 DEF IsLast
<1>10. TiesInOrder'
  <2> SUFFICES ASSUME NEW p \in projected, NEW q \in Rows' \ projected, Obs(p)' = Obs(q)'
               PROVE  p < q
    BY <1>2 DEF TiesInOrder
  <2>1. CASE q \in Rows
    BY <1>3, <1>4, <2>1 DEF RInv, TiesInOrder
  <2>2. CASE q = Len(ledger) + 1
    BY <1>1, <1>3, <2>2 DEF Rows
  <2> QED BY <1>1, <2>1, <2>2
<1>11. Stated(graph, projected)'
  <2> SUFFICES ASSUME NEW j \in projected, Op[ledger'[j].text] = "invalidate"
               PROVE  SameTime(graph, ledger[j].text, j)' # {}
    BY <1>1, <1>2, <1>3 DEF Stated
  <2>1. ledger'[j] = ledger[j] /\ j \in Rows
    BY <1>1, <1>3
  <2>2. PICK v \in SameTime(graph, ledger[j].text, j) : TRUE
    BY <2>1 DEF RInv, Stated
  <2>3. v \in SameTime(graph, ledger[j].text, j)'
    BY <1>2, <1>3, <1>4, <2>1, <2>2 DEF SameTime, Family
  <2> QED BY <2>3
<1>12. Named(graph)' /\ OldClosed(graph)'
  BY <1>2, <1>3, <1>7, <1>8 DEF RInv, Chained, Named, OldClosed
<1>13. HandsOver(graph)'
  <2> SUFFICES ASSUME NEW u \in Nodes(graph), NEW w \in Nodes(graph), u.family = w.family,
                      u.from < w.from, IsLast(graph, w)
               PROVE  graph.closer[u] # NoId /\ \A i \in graph.cites[w] : ~Before(i, graph.closer[u])'
    BY <1>2, <1>3, <1>9 DEF HandsOver
  <2>1. graph.closer[u] # NoId /\ \A i \in graph.cites[w] : ~Before(i, graph.closer[u])
    BY DEF RInv, Chained, HandsOver
  <2>2. graph.closer[u] \in Rows /\ graph.cites[w] \subseteq Rows
    BY <1>5, <1>6, <2>1
  <2> QED BY <1>2, <1>4, <2>1, <2>2 DEF Before
<1>14. Explained(graph)'
  <2> SUFFICES ASSUME NEW e \in graph.edges, e[2].from < e[1].from
               PROVE  ClosedBy(graph, e[2], e[1].from)'
    BY <1>2 DEF Explained
  <2>1. e[1] \in Nodes(graph) /\ e[2] \in Nodes(graph)
    BY <1>3 DEF Sound, Placed
  <2>2. ClosedBy(graph, e[2], e[1].from)
    BY DEF RInv, Chained, Explained
  <2> QED BY <1>7, <1>8, <2>1, <2>2
<1>15. QueueOK'
  BY <1>2, <1>3, <1>4, <1>9 DEF RInv, QueueOK
<1> QED
  BY <1>10, <1>11, <1>12, <1>13, <1>14, <1>15 DEF RInv, Chained

\* The ledger is the same, so the order of its rows is.
LEMMA RevisionSameLedger ==
  ASSUME ledger' = ledger, Chained(graph'), Stated(graph', projected'),
         \A p \in projected', q \in Rows \ projected' : Obs(p) = Obs(q) => p < q,
         late'.queue # {} =>
           /\ IsLast(graph', late'.version)
           /\ \A j \in late'.queue :
                late'.version.from < Obs(j) /\ graph'.closer[late'.version] # j
  PROVE  RInv'
<1>1. Chained(graph') <=> Chained(graph)'
  BY DEF Chained, Named, OldClosed, HandsOver, Explained, IsLast, ClosedBy, Before, Obs, Nodes
<1>2. Stated(graph', projected') <=> Stated(graph, projected)'
  BY DEF Stated, SameTime, Family, Nodes, Obs
<1>3. TiesInOrder'
  BY DEF TiesInOrder, Rows, Obs
<1>4. QueueOK'
  BY DEF QueueOK, IsLast, Nodes, Obs
<1> QED
  BY <1>1, <1>2, <1>3, <1>4 DEF RInv

\* What a row has stated stays in the graph.
LEMMA StatedMore ==
  ASSUME NEW g, NEW h, NEW P, Stated(g, P), Nodes(g) \subseteq Nodes(h), NEW i,
         Op[ledger[i].text] = "invalidate" => SameTime(h, ledger[i].text, i) # {}
  PROVE  Stated(h, P \cup {i})
<1> SUFFICES ASSUME NEW j \in P, Op[ledger[j].text] = "invalidate"
             PROVE  SameTime(h, ledger[j].text, j) # {}
  BY DEF Stated
<1>1. PICK v \in SameTime(g, ledger[j].text, j) : TRUE
  BY DEF Stated
<1>2. v \in SameTime(h, ledger[j].text, j)
  BY DEF SameTime, Family
<1> QED
  BY <1>2

\* The next row to project has no rows of its own time after it.
LEMMA NextRow ==
  ASSUME IInv, RInv, NEW i \in Rows \ projected, AtRow(i)
  PROVE  /\ \A f : Undisturbed(graph, f, i)
         /\ \A f : \A u \in SameTime(graph, f, i) : u.rev < i
         /\ \A p \in projected \cup {i}, q \in Rows \ (projected \cup {i}) : Obs(p) = Obs(q) => p < q
         /\ \A j \in projected : Before(i, j) => Obs(i) < Obs(j)
<1>1. LedgerOK /\ projected \subseteq Rows /\ Sound(graph, projected)
  BY DEF IInv
<1>2. \A p \in projected : Obs(p) = Obs(i) => p < i
  BY DEF RInv, TiesInOrder
<1>3. ASSUME NEW f, NEW u \in Family(graph, f), u.from < Obs(i), graph.closer[u] # NoId,
             Obs(graph.closer[u]) = Obs(i)
      PROVE  graph.closer[u] <= i
  <2>1. graph.closer[u] \in projected
    BY <1>1, <1>3 DEF Sound, Placed, Family, Nodes
  <2>2. graph.closer[u] < i /\ graph.closer[u] \in Nat /\ i \in Nat
    BY <1>1, <1>2, <1>3, <2>1, RowTypes
  <2> QED BY <2>2
<1>4. ASSUME NEW f, NEW u \in SameTime(graph, f, i) PROVE u.rev < i
  <2>1. u \in Nodes(graph) /\ u \in Versions /\ u.from = Obs(i)
    BY DEF SameTime, Family, Nodes
  <2>2. CASE u.rev = NoId
    <3>1. i \in Ids
      BY <1>1, RowTypes
    <3> QED BY <2>2, <3>1, ConstantsAssumption DEF Ids, NoId
  <2>3. CASE u.rev # NoId
    <3>1. u.rev \in graph.cites[u]
      BY <2>1, <2>3 DEF RInv, Chained, Named
    <3>2. u.rev \in projected /\ Obs(u.rev) = Obs(i)
      BY <1>1, <2>1, <3>1 DEF Sound, Placed, Timed
    <3> QED BY <1>2, <3>2
  <2> QED BY <2>2, <2>3
<1>5. ASSUME NEW p \in projected \cup {i}, NEW q \in Rows \ (projected \cup {i}), Obs(p) = Obs(q)
      PROVE  p < q
  <2>1. CASE p \in projected
    BY <1>5, <2>1 DEF RInv, TiesInOrder
  <2>2. CASE p = i
    <3>1. Before(i, q)
      BY <1>5 DEF AtRow, IsFirst
    <3>2. Obs(i) \in Nat
      BY <1>1, RowTypes
    <3> QED BY <1>5, <2>2, <3>1, <3>2 DEF Before
  <2> QED BY <2>1, <2>2
<1>6. ASSUME NEW j \in projected, Before(i, j) PROVE Obs(i) < Obs(j)
  <2>1. i \in Nat /\ j \in Nat /\ Obs(i) \in Nat /\ Obs(j) \in Nat
    BY <1>1, RowTypes
  <2>2. Obs(j) = Obs(i) => j < i
    BY <1>2
  <2> QED BY <1>6, <2>1, <2>2 DEF Before
<1> QED
  BY <1>3, <1>4, <1>5, <1>6 DEF Undisturbed

\* The commit of a row whose graph is in order.
LEMMA RevisionCommit ==
  ASSUME IInv, RInv, NEW i \in Rows \ projected, AtRow(i), NEW o, NEW h, Commit(i, o, h),
         Sound(o.graph, projected \cup {i}), Nodes(graph) \subseteq Nodes(h),
         Chained(h), Keeps(o.graph, h, i), IsLast(o.graph, o.version), IsLast(h, o.version),
         o.version.from = Obs(i),
         Op[ledger[i].text] = "invalidate" => SameTime(h, ledger[i].text, i) # {}
  PROVE  RInv'
<1> DEFINE until == o.graph.closer[o.version]
           after == ProjectedAfter(i, until)
<1>1. /\ ledger' = ledger /\ projected' = projected \cup {i} /\ graph' = h
      /\ late' = Idle \/ late' = [version |-> o.version, queue |-> after]
  BY DEF Commit
<1>2. LedgerOK /\ projected \subseteq Rows /\ i \in Rows
  BY DEF IInv
<1>3. Stated(graph', projected')
  BY <1>1, StatedMore DEF RInv
<1>4. \A p \in projected', q \in Rows \ projected' : Obs(p) = Obs(q) => p < q
  BY <1>1, NextRow
<1>5. ASSUME NEW j \in after PROVE Obs(i) < Obs(j) /\ h.closer[o.version] # j
  <2>1. j \in projected /\ Before(i, j) /\ (until = NoId \/ Before(j, until)) /\ j \in Rows
    BY <1>2 DEF ProjectedAfter
  <2>2. Obs(i) < Obs(j)
    BY <2>1, NextRow
  <2>3. j # until
    BY <1>2, <2>1, BeforeOrders, RowTypes
  <2>4. h.closer[o.version] = until \/ h.closer[o.version] = i
    BY DEF Keeps, ClosesEarlier, IsLast
  <2> QED BY <2>1, <2>2, <2>3, <2>4
<1> HIDE DEF after
<1>6. late'.queue # {} =>
        /\ IsLast(graph', late'.version)
        /\ \A j \in late'.queue : late'.version.from < Obs(j) /\ graph'.closer[late'.version] # j
  <2>1. CASE late' = Idle
    BY <2>1 DEF Idle
  <2>2. CASE late' = [version |-> o.version, queue |-> after]
    BY <1>1, <1>5, <2>2
  <2> QED BY <1>1, <2>1, <2>2
<1> QED
  BY <1>1, <1>3, <1>4, <1>6, RevisionSameLedger

LEMMA RevisionProject ==
  ASSUME Clock = "fine", IInv, RInv, NEW i \in Rows \ projected, Project(i)
  PROVE  RInv' /\ Keeps(graph, graph', i)
<1> DEFINE P == projected \cup {i}
           f == ledger[i].text
<1>1. /\ LedgerOK /\ P \in SUBSET Rows /\ i \in P /\ i \in Rows /\ Sound(graph, P)
      /\ f \in Texts /\ Chained(graph)
  BY SoundMore, RowTypes DEF IInv, RInv
<1>2. AtRow(i)
  BY DEF Project, ProjectAdd, ProjectUpdate, ProjectInvalidate, ProjectUntargeted, ProjectNoop
<1>3. /\ \A g : Undisturbed(graph, g, i)
      /\ \A g : \A u \in SameTime(graph, g, i) : u.rev < i
  BY <1>2, NextRow
<1> HIDE DEF P
<1>4. CASE ProjectAdd(i)
  <2> DEFINE allowed == FALSE
             o == Upsert(graph, f, i, allowed)
  <2>1. Commit(i, o, o.graph) /\ Op[f] # "invalidate"
    BY <1>4 DEF ProjectAdd
  <2> HIDE DEF allowed
  <2>2. Grows(graph, o.graph, P) /\ o.version.from = Obs(i)
    BY <1>1, UpsertOK
  <2> HIDE DEF f
  <2>3. Chained(o.graph) /\ Keeps(graph, o.graph, i) /\ IsLast(o.graph, o.version)
    BY <1>1, <1>3, UpsertChained DEF Undisturbed
  <2> HIDE DEF o
  <2>4. Keeps(o.graph, o.graph, i)
    BY KeepsSelf
  <2>5. Sound(o.graph, projected \cup {i}) /\ Nodes(graph) \subseteq Nodes(o.graph)
    BY <2>2 DEF Grows, P
  <2>6. Op[ledger[i].text] # "invalidate"
    BY <2>1 DEF f
  <2>7. RInv'
    BY <1>2, <2>1, <2>2, <2>3, <2>4, <2>5, <2>6, RevisionCommit
  <2> QED BY <2>1, <2>3, <2>7 DEF Commit
<1>5. ASSUME NEW v \in Nodes(graph), ProjectUpdate(i, v)
      PROVE  RInv' /\ Keeps(graph, graph', i)
  <2> DEFINE o == Update(graph, i, v)
  <2>1. Commit(i, o, o.graph) /\ Op[ledger[i].text] # "invalidate"
    BY <1>5 DEF ProjectUpdate
  <2>2. Grows(graph, o.graph, P) /\ o.version.from = Obs(i)
    BY <1>1, UpdateOK
  <2>3. Chained(o.graph) /\ Keeps(graph, o.graph, i) /\ IsLast(o.graph, o.version)
    BY <1>1, <1>3, UpdateChained
  <2> HIDE DEF o
  <2>4. Keeps(o.graph, o.graph, i)
    BY KeepsSelf
  <2>5. Sound(o.graph, projected \cup {i}) /\ Nodes(graph) \subseteq Nodes(o.graph)
    BY <2>2 DEF Grows, P
  <2>6. RInv'
    BY <1>2, <2>1, <2>2, <2>3, <2>4, <2>5, RevisionCommit
  <2> QED BY <2>1, <2>3, <2>6 DEF Commit
<1>6. /\ Grows(graph, Replacement(graph, i).graph, P)
      /\ Replacement(graph, i).version \in Nodes(Replacement(graph, i).graph)
      /\ Replacement(graph, i).version.from = Obs(i)
      /\ Chained(Replacement(graph, i).graph) /\ Keeps(graph, Replacement(graph, i).graph, i)
      /\ IsLast(Replacement(graph, i).graph, Replacement(graph, i).version)
      /\ SameTime(Replacement(graph, i).graph, ledger[i].text, i) # {}
  <2> DEFINE o == Replacement(graph, i)
  <2>1. Grows(graph, o.graph, P) /\ o.version \in Nodes(o.graph) /\ o.version.from = Obs(i)
    BY <1>1, ReplacementOK
  <2>2. /\ Chained(o.graph) /\ Keeps(graph, o.graph, i) /\ IsLast(o.graph, o.version)
        /\ SameTime(o.graph, ledger[i].text, i) # {}
    BY <1>1, <1>3, ReplacementChained
  <2> QED BY <2>1, <2>2
<1>7. ASSUME NEW v \in Nodes(graph), ProjectInvalidate(i, v)
      PROVE  RInv' /\ Keeps(graph, graph', i)
  <2> DEFINE o == Replacement(graph, i)
             h == CloseAndSupersede(o, v, i)
  <2>1. Commit(i, o, h)
    BY <1>7 DEF ProjectInvalidate
  <2>2. /\ Sound(o.graph, P) /\ Nodes(graph) \subseteq Nodes(o.graph) /\ o.version \in Nodes(o.graph)
        /\ o.version.from = Obs(i) /\ Chained(o.graph) /\ Keeps(graph, o.graph, i)
        /\ IsLast(o.graph, o.version) /\ SameTime(o.graph, ledger[i].text, i) # {}
    BY <1>6 DEF Grows
  <2> HIDE DEF o
  <2>3. v \in Nodes(o.graph)
    BY <2>2
  <2>4. Chained(h) /\ Keeps(o.graph, h, i) /\ \A w : IsLast(o.graph, w) <=> IsLast(h, w)
    BY <1>1, <2>2, <2>3, CloseAndSupersedeChained
  <2>5. Grows(o.graph, h, P)
    BY <1>1, <2>2, <2>3, CloseAndSupersedeOK
  <2> HIDE DEF h
  <2>6. Nodes(graph) \subseteq Nodes(h) /\ IsLast(h, o.version) /\ Sound(o.graph, projected \cup {i})
    BY <2>2, <2>4, <2>5 DEF Grows, P
  <2>7. SameTime(h, ledger[i].text, i) # {}
    BY <2>2, <2>5 DEF Grows, SameTime, Family
  <2>8. RInv'
    BY <1>2, <2>1, <2>2, <2>4, <2>6, <2>7, RevisionCommit
  <2>9. Keeps(graph, h, i)
    BY <1>1, <2>2, <2>4, KeepsTrans
  <2> QED BY <2>1, <2>8, <2>9 DEF Commit
<1>8. CASE ProjectUntargeted(i)
  <2> DEFINE o == Replacement(graph, i)
  <2>1. Commit(i, o, o.graph)
    BY <1>8 DEF ProjectUntargeted
  <2>2. /\ Sound(o.graph, projected \cup {i}) /\ Nodes(graph) \subseteq Nodes(o.graph)
        /\ o.version.from = Obs(i) /\ Chained(o.graph) /\ Keeps(graph, o.graph, i)
        /\ IsLast(o.graph, o.version) /\ SameTime(o.graph, ledger[i].text, i) # {}
    BY <1>6 DEF Grows, P
  <2> HIDE DEF o
  <2>3. Keeps(o.graph, o.graph, i)
    BY KeepsSelf
  <2>4. RInv'
    BY <1>2, <2>1, <2>2, <2>3, RevisionCommit
  <2> QED BY <2>1, <2>2, <2>4 DEF Commit
<1>9. CASE ProjectNoop(i)
  <2>1. /\ ledger' = ledger /\ graph' = graph /\ late' = late /\ projected' = projected \cup {i}
        /\ Op[ledger[i].text] # "invalidate" /\ late.queue = {}
    BY <1>9 DEF ProjectNoop, AtRow
  <2>2. Stated(graph', projected')
    BY <2>1, StatedMore DEF RInv
  <2>3. \A p \in projected', q \in Rows \ projected' : Obs(p) = Obs(q) => p < q
    BY <1>2, <2>1, NextRow
  <2>4. RInv'
    BY <1>1, <2>1, <2>2, <2>3, RevisionSameLedger
  <2> QED BY <2>1, <2>4, KeepsSelf
<1> QED
  BY <1>4, <1>5, <1>7, <1>8, <1>9 DEF Project

LEMMA RevisionLate ==
  ASSUME Clock = "fine", IInv, RInv, NEW j \in late.queue,
         LateSkip(j) \/ LateInvalidate(j) \/ LateUpdate(j)
  PROVE  RInv' /\ Keeps(graph, graph', j)
<1> DEFINE v == late.version
<1>1. /\ LedgerOK /\ projected \in SUBSET Rows /\ j \in projected /\ j \in Rows
      /\ Sound(graph, projected) /\ v \in Nodes(graph) /\ v \in Versions /\ late.queue \subseteq projected
      /\ IsLast(graph, v) /\ v.from < Obs(j) /\ graph.closer[v] # j
      /\ Chained(graph) /\ Stated(graph, projected)
      /\ \A p \in projected, q \in Rows \ projected : Obs(p) = Obs(q) => p < q
  BY DEF IInv, LateOK, Nodes, RInv, QueueOK, TiesInOrder
<1>2. \A k \in late.queue : v.from < Obs(k) /\ graph.closer[v] # k
  BY DEF RInv, QueueOK
<1>3. ASSUME ledger' = ledger, projected' = projected, Chained(graph'),
             Nodes(graph) \subseteq Nodes(graph'),
             late' = Idle \/ (late' = NextLate(j) /\ graph' = graph)
      PROVE  RInv'
  <2>1. Stated(graph', projected \cup {j})
    <3>1. Op[ledger[j].text] = "invalidate" => SameTime(graph, ledger[j].text, j) # {}
      BY <1>1 DEF Stated
    <3>2. Op[ledger[j].text] = "invalidate" => SameTime(graph', ledger[j].text, j) # {}
      BY <1>3, <3>1 DEF SameTime, Family
    <3> QED BY <1>1, <1>3, <3>2, StatedMore
  <2>2. projected \cup {j} = projected'
    BY <1>1, <1>3
  <2>3. late'.queue # {} =>
          /\ IsLast(graph', late'.version)
          /\ \A k \in late'.queue : late'.version.from < Obs(k) /\ graph'.closer[late'.version] # k
    <3>1. CASE late' = Idle
      BY <3>1 DEF Idle
    <3>2. CASE late' = NextLate(j) /\ graph' = graph
      <4>1. late \in [version : Versions \cup {NoVersion}, queue : SUBSET projected]
        BY DEF IInv, LateOK
      <4>2. late'.queue # {} => late'.version = v /\ late'.queue \subseteq late.queue
        BY <3>2, <4>1 DEF NextLate, Idle
      <4> QED BY <1>1, <1>2, <3>2, <4>2
    <3> QED BY <1>3, <3>1, <3>2
  <2> QED BY <1>1, <1>3, <2>1, <2>2, <2>3, RevisionSameLedger
<1> HIDE DEF v
<1>4. CASE LateSkip(j)
  BY <1>1, <1>3, <1>4, KeepsSelf DEF LateSkip
<1>5. CASE LateInvalidate(j)
  <2> DEFINE o == Replacement(graph, j)
             h == CloseAndSupersede(o, v, j)
  <2>1. /\ graph' = h /\ UNCHANGED <<ledger, projected>> /\ Op[ledger[j].text] = "invalidate"
        /\ late' = IF CanClose(o.graph, v, j) THEN Idle ELSE NextLate(j)
    BY <1>5 DEF LateInvalidate, v
  <2>2. o.graph = graph
    BY <1>1, <2>1 DEF Replacement, Stated
  <2>3. o.version \in Nodes(o.graph) /\ o.version.from = Obs(j)
    BY <1>1, ReplacementOK
  <2>4. ~CanClose(o.graph, v, j) => h = o.graph
    BY DEF CloseAndSupersede
  <2> HIDE DEF o
  <2>5. Chained(h) /\ Keeps(o.graph, h, j)
    BY <1>1, <2>2, <2>3, CloseAndSupersedeChained
  <2>6. Grows(o.graph, h, projected)
    BY <1>1, <2>2, <2>3, CloseAndSupersedeOK
  <2> HIDE DEF h
  <2> QED BY <1>3, <2>1, <2>2, <2>4, <2>5, <2>6 DEF Grows
<1>6. CASE LateUpdate(j)
  <2> DEFINE c == Close(graph, v, j)
             o == LateSuccessor(c, j, v.family)
             h == Supersede(CloseDuplicate(o.graph, j, v.family), o.version, v)
  <2>1. CanClose(graph, v, j)
    <3>1. v \in ProjectionNeighbors(graph, j)
      BY <1>6 DEF LateUpdate, v
    <3>2. graph.closer[v] # NoId => graph.closer[v] \in Rows
      BY <1>1 DEF Sound, Placed
    <3>3. j \in Nat /\ Obs(j) \in Nat /\ (graph.closer[v] # NoId => graph.closer[v] \in Nat /\ Obs(graph.closer[v]) \in Nat)
      BY <1>1, <3>2, RowTypes
    <3>4. \/ graph.closer[v] = NoId
          \/ Obs(graph.closer[v]) > Obs(j)
          \/ Obs(graph.closer[v]) = Obs(j) /\ graph.closer[v] >= j
      BY <3>1 DEF ProjectionNeighbors
    <3>5. v.from <= Obs(j)
      BY <3>1 DEF ProjectionNeighbors
    <3>6. graph.closer[v] # NoId => Before(j, graph.closer[v])
      BY <1>1, <3>3, <3>4 DEF Before
    <3> QED BY <3>5, <3>6 DEF CanClose
  <2>2. graph' = h /\ late' = Idle /\ UNCHANGED <<ledger, projected>>
    BY <1>6, <2>1 DEF LateUpdate, v
  <2>3. Chained(h) /\ Keeps(graph, h, j)
    BY <1>1, <2>1, LateUpdateChained
  <2>4. Nodes(graph) \subseteq Nodes(graph')
    <3>1. IInv'
      BY <1>6, LateReplayPreserves
    <3>2. v.family \in Texts
      BY <1>1 DEF Versions
    <3>3. Grows(graph, c, projected)
      BY <1>1, CloseOK
    <3> HIDE DEF c
    <3>4. Grows(c, o.graph, projected)
      BY <1>1, <3>2, <3>3, LateSuccessorOK DEF Grows
    <3>5. Grows(o.graph, CloseDuplicate(o.graph, j, v.family), projected)
      BY <1>1, <3>4, CloseDuplicateOK DEF Grows
    <3> HIDE DEF o
    <3>6. Nodes(h) = Nodes(CloseDuplicate(o.graph, j, v.family))
      BY DEF Supersede, Nodes
    <3> QED BY <2>2, <3>3, <3>4, <3>5, <3>6 DEF Grows
  <2> HIDE DEF h
  <2> QED BY <1>3, <2>2, <2>3, <2>4
<1> QED
  BY <1>4, <1>5, <1>6

LEMMA RevisionInit == Init => RInv
<1> SUFFICES ASSUME Init PROVE RInv
  OBVIOUS
<1>1. Nodes(graph) = {} /\ graph.edges = {} /\ projected = {} /\ late.queue = {}
  BY DEF Init, Nodes, Idle
<1> QED
  BY <1>1 DEF RInv, TiesInOrder, Stated, Chained, Named, OldClosed, HandsOver, Explained, QueueOK

\* One step keeps the order of revisions, and closures only move to earlier rows.
LEMMA RevisionStep ==
  ASSUME Clock = "fine", IInv, RInv, [Next]_vars
  PROVE  RInv' /\ (graph' = graph \/ \E i \in Rows : Keeps(graph, graph', i))
<1>1. ASSUME NEW t \in Texts, NEW at \in Times, AppendEvent([text |-> t, at |-> at])
      PROVE  RInv' /\ graph' = graph
  <2>1. [text |-> t, at |-> at] \in Memory
    BY DEF Memory
  <2> QED BY <1>1, <2>1, RevisionAppend DEF AppendEvent
<1>2. ASSUME NEW i \in Rows \ projected, Project(i) PROVE RInv' /\ Keeps(graph, graph', i)
  BY <1>2, RevisionProject
<1>3. ASSUME NEW j \in late.queue, LateSkip(j) \/ LateInvalidate(j) \/ LateUpdate(j)
      PROVE  j \in Rows /\ RInv' /\ Keeps(graph, graph', j)
  <2>1. j \in Rows
    BY DEF IInv, LateOK
  <2> QED BY <1>3, <2>1, RevisionLate
<1>4. CASE UNCHANGED vars
  <2>1. RInv'
    BY <1>4, RevisionSameLedger DEF vars, RInv, TiesInOrder, QueueOK
  <2> QED BY <1>4, <2>1 DEF vars
<1> QED
  BY <1>1, <1>2, <1>3, <1>4 DEF Next

\* every reachable state satisfies the invariant of revisions
THEOREM RevisionInductive == ASSUME Clock = "fine" PROVE Spec => []RInv
<1>1. Init => IInv /\ RInv
  BY InitOK, RevisionInit
<1>2. IInv /\ RInv /\ [Next]_vars => RInv'
  BY RevisionStep
<1> QED
  BY <1>1, <1>2, Inductive, PTL DEF Spec

\* A family never has two current versions, and what a version supersedes in
\* any family is closed when it begins (upsert_node_with_base_key,
\* close_previous_family_versions, apply_late_update), for every set of texts
\* and times and every number of rows, when the wall clock tells writes apart.
THEOREM RevisedCorrect == ASSUME Clock = "fine" PROVE Spec => []RevisedIsClosed
<1>1. IInv /\ RInv => RevisedIsClosed
  <2> SUFFICES ASSUME IInv, RInv PROVE RevisedIsClosed
    OBVIOUS
  <2>1. OneCurrentVersion
    <3> SUFFICES ASSUME NEW u \in Nodes(graph), NEW v \in Nodes(graph), u.family = v.family,
                        graph.closer[u] = NoId, graph.closer[v] = NoId
                 PROVE  u = v
      BY DEF OneCurrentVersion
    <3>1. u \in Versions /\ v \in Versions
      BY DEF Nodes
    <3>2. ~(u.from < v.from) /\ ~(v.from < u.from)
      BY DEF IInv, Sound, Ordered, ClosedBy
    <3>3. u.from = v.from
      BY <3>1, <3>2, VersionTypes
    <3>4. ~(u.rev < v.rev) /\ ~(v.rev < u.rev)
      BY <3>3 DEF RInv, Chained, OldClosed, ClosedBy
    <3>5. u.rev = v.rev
      BY <3>1, <3>4, VersionTypes
    <3> QED BY <3>1, <3>3, <3>5 DEF Versions
  <2>2. SupersededIsClosed
    BY DEF RInv, Chained, Explained, ClosedBy, SupersededIsClosed
  <2> QED BY <2>1, <2>2 DEF RevisedIsClosed
<1> QED
  BY <1>1, Inductive, RevisionInductive, PTL

\* A closure is never undone and only ever moves to an earlier row
\* (invalidate_node, close_previous_family_versions), also when later rows are
\* distilled again.
THEOREM EarliestClosureCorrect == ASSUME Clock = "fine" PROVE Spec => EarliestClosureWins
<1> DEFINE Earlier == \A v \in Nodes(graph) :
             graph.closer[v] # NoId =>
               /\ graph'.closer[v] # NoId
               /\ ~Before(graph.closer[v], graph'.closer[v])
<1>1. ASSUME IInv, IInv', RInv, [Next]_vars PROVE Earlier
  <2> SUFFICES ASSUME NEW v \in Nodes(graph), graph.closer[v] # NoId
               PROVE  graph'.closer[v] # NoId /\ ~Before(graph.closer[v], graph'.closer[v])
    OBVIOUS
  <2>1. LedgerOK /\ graph.closer[v] \in Rows
    BY <1>1 DEF IInv, Sound, Placed, Nodes
  <2>2. CASE graph' = graph
    BY <2>1, <2>2, BeforeOrders
  <2>3. ASSUME NEW i \in Rows, Keeps(graph, graph', i)
        PROVE  graph'.closer[v] # NoId /\ ~Before(graph.closer[v], graph'.closer[v])
    <3>1. \/ graph'.closer[v] = graph.closer[v]
          \/ graph'.closer[v] = i /\ Before(i, graph.closer[v])
      BY <2>3 DEF Keeps, ClosesEarlier
    <3> QED BY <2>1, <3>1, BeforeOrders, RowTypes
  <2> QED BY <1>1, <2>2, <2>3, RevisionStep
<1>2. IInv /\ IInv' /\ RInv /\ [Next]_vars => [Earlier]_vars
  BY <1>1
<1> QED
  BY <1>2, Inductive, RevisionInductive, PTL DEF Spec, EarliestClosureWins
===============================================================================
