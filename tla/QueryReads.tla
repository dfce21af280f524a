------------------------------ MODULE QueryReads ------------------------------
(***************************************************************************)
(* answer_query against a store that changes under it.  A query reads the  *)
(* projection with many SELECTs on one connection and no transaction:      *)
(* seeds, nodes, what was known of each node, edges, cited spans.  Between *)
(* any two of them a worker may commit a row, a late closure or a whole    *)
(* rebuild.  A query may retrieve up to three times: on its route, on the  *)
(* fallback route, and again over all allowed modes before it reconstructs.*)
(*                                                                         *)
(* Each ledger row states one memory, which keeps the row's name: memory   *)
(* ids are stable under rebuilds.  Rows are in the ledger from the start;  *)
(* what changes is which of them are projected.  Scores are abstracted to  *)
(* who can have a score at all: the evidence is any subset of those.       *)
(***************************************************************************)
EXTENDS Routing

CONSTANTS
  Rows,        \* ledger rows, by id
  Observed,    \* observed_at_unix_ms of each row
  Ingested,    \* ingested_at_unix_ms of each row
  Kind,        \* kind of the memory each row states
  Closes,      \* the memory each row contradicts or supersedes, NoRow for none
  Family,      \* the version family of each row's memory
  Links,       \* ordinary edges a row adds: pairs of its memory and an older one
  Relevant,    \* memories that share a word with the question
  Caps,        \* limits of a rebuild
  MaxRebuilds, \* bound on rebuilds
  Questions    \* the queries to try

NoRow == 0
NoTime == -1

ASSUME ConstantsAssumption ==
  /\ Rows \subseteq Nat \ {NoRow} /\ IsFiniteSet(Rows)
  /\ Observed \in [Rows -> Nat] /\ Ingested \in [Rows -> Nat]
  /\ Kind \in [Rows -> Kinds]
  /\ Closes \in [Rows -> Rows \cup {NoRow}]
  /\ DOMAIN Family = Rows
  /\ Links \subseteq Rows \X Rows
  /\ Relevant \subseteq Rows
  /\ Caps \subseteq Nat /\ MaxRebuilds \in Nat
  /\ Questions \subseteq [intents : SUBSET Intents, allowed : SUBSET Modes, explicit : BOOLEAN,
                          reconstruct : {"off", "auto", "force"}, fresh : BOOLEAN,
                          asOf : Nat, known : Nat \cup {NoTime}]

VARIABLES
  db,         \* the committed projection
  rebuilds,   \* rebuilds so far
  stage,      \* the next statement of the query
  ask,        \* the query
  route,      \* its routing report
  modes,      \* the modes that are being retrieved
  todo,       \* what the current loop has still to look at
  copy,       \* the rows of memory_nodes read: valid_to and by whom
  nodes,      \* ids of raw_history_nodes, then of history_nodes (node_by_id)
  active,     \* ids of nodes visible to the query
  edges,      \* edges read, then those that are visible
  cited,      \* evidence whose cited spans were read, and whether there were any
  evidence,   \* the evidence selected
  reason,     \* why the query escalates, "none" if it does not
  stale,      \* stale assumptions reported
  seen        \* history: what held all along since the query began

reader == <<stage, ask, route, modes, todo, copy, nodes, active, edges, cited, evidence,
            reason, stale>>
vars == <<db, rebuilds, seen, reader>>

Before(i, j) ==
  \/ Observed[i] < Observed[j]
  \/ Observed[i] = Observed[j] /\ i < j

Earliest(S) == IF S = {} THEN NoRow ELSE CHOOSE i \in S : \A j \in S \ {i} : Before(i, j)

ClosersOf(j, S) == {i \in S : Closes[i] = j /\ Before(j, i)}

EdgesAmong(S) ==
  {e \in S \X S : e[1] \in ClosersOf(e[2], S) \/ e \in Links}

\* the projection of a set of rows, as a rebuild makes it
Folded(S) ==
  [nodes  |-> S,
   closer |-> [j \in Rows |-> IF j \in S THEN Earliest(ClosersOf(j, S)) ELSE NoRow],
   edges  |-> EdgesAmong(S)]

-----------------------------------------------------------------------------
(* The writer. *)

\* event_known_at
EventKnown(i, known) == Ingested[i] <= known

(***************************************************************************)
(* What the checks below compare the answer with: the memories that were   *)
(* projected, open, or closed as of the query's time, at every moment      *)
(* since the query began; and whether all that was ingested by known_at    *)
(* was settled at every moment.                                            *)
(***************************************************************************)
KnownRows(known) == {i \in Rows : EventKnown(i, known)}

Settled(d, known) ==
  LET K == KnownRows(known)
  IN  /\ K \subseteq d.nodes
      /\ \A j \in K :
           LET c == Earliest(ClosersOf(j, K))
           IN  IF c = NoRow THEN d.closer[j] \notin K ELSE d.closer[j] = c

View(d, q) ==
  [present |-> d.nodes,
   open    |-> {i \in d.nodes : d.closer[i] = NoRow \/ Observed[d.closer[i]] > q.asOf},
   closed  |-> {i \in d.nodes : d.closer[i] # NoRow /\ Observed[d.closer[i]] <= q.asOf},
   settled |-> Settled(d, q.known)]

Still(old, new) ==
  [present |-> old.present \cap new.present,
   open    |-> old.open \cap new.open,
   closed  |-> old.closed \cap new.closed,
   settled |-> old.settled /\ new.settled]

\* bound: nothing is committed after the answer
Commit(d) ==
  /\ d # db /\ stage # "answered"
  /\ db' = d
  /\ seen' = IF stage = "idle" THEN seen ELSE Still(seen, View(d, ask))
  /\ UNCHANGED reader

\* closes j by i, unless a closure observed before it stands
Close(d, i, j) ==
  [d EXCEPT !.closer[j] = IF @ # NoRow /\ Before(@, i) THEN @ ELSE i,
            !.edges = @ \cup {<<i, j>>}]

\* one row's transaction: its memory, its edges, and what it closes
ProjectRow(i) ==
  /\ i \in Rows \ db.nodes
  /\ LET added == [db EXCEPT !.nodes = @ \cup {i},
                             !.edges = @ \cup {e \in Links : e[1] = i /\ e[2] \in db.nodes}]
         j     == Closes[i]
     IN  Commit(IF j \in db.nodes /\ Before(j, i) THEN Close(added, i, j) ELSE added)
  /\ UNCHANGED rebuilds

\* a late arrival j is closed by a row projected before it
ReplayLate(i, j) ==
  /\ {i, j} \subseteq db.nodes
  /\ i \in ClosersOf(j, Rows)
  /\ Commit(Close(db, i, j))
  /\ UNCHANGED rebuilds

\* the first rows in observed order, all at once
Rebuild(cap) ==
  /\ rebuilds < MaxRebuilds
  /\ rebuilds' = rebuilds + 1
  /\ Commit(Folded({i \in Rows : Cardinality({j \in Rows : Before(j, i)}) < cap}))

-----------------------------------------------------------------------------
(* What the store answers about one memory.  Only the spans are asked of   *)
(* the database; the validity window comes from the copy.                  *)

\* node_has_source_known_by: joins node_spans with the ledger
HasSource(n) ==
  ask.known # NoTime =>
    n \in db.nodes /\ Observed[n] <= ask.asOf /\ EventKnown(n, ask.known)

\* mutant of ClosureKnown: any closure counts as known
AnyClosure(n) == TRUE

\* node_closure_known_by
ClosureKnown(n) == ask.known = NoTime \/ EventKnown(copy[n], ask.known)

ClosedAsOf(n) == copy[n] # NoRow /\ Observed[copy[n]] <= ask.asOf

\* mutant of VisibleAt: validity windows are ignored
ExistsAt(n) == Observed[n] <= ask.asOf /\ HasSource(n)

VisibleAt(n) == Observed[n] <= ask.asOf /\ HasSource(n) /\ ~(ClosedAsOf(n) /\ ClosureKnown(n))

\* mutant of StaleAt: a closure counts before its time
ClosedAtAll(n) == Observed[n] <= ask.asOf /\ HasSource(n) /\ copy[n] # NoRow

StaleAt(n) == Observed[n] <= ask.asOf /\ HasSource(n) /\ ClosedAsOf(n) /\ ClosureKnown(n)

(***************************************************************************)
(* A loop asks the store about one memory after the other; without         *)
(* known_at it asks nothing, and is a single step.                         *)
(***************************************************************************)
First(S) == {i \in S : \A j \in S : i <= j}

\* mutant of Chunk: the loop runs over what the table holds now
TableNow == IF ask.known = NoTime THEN db.nodes ELSE First(todo)

Chunk == IF ask.known = NoTime THEN todo ELSE First(todo)

-----------------------------------------------------------------------------
(* The query. *)

NoCopy == [i \in Rows |-> NoRow]

\* retrieve_with_modes, from the beginning
Retrieve(wanted) ==
  /\ modes' = wanted
  /\ stage' = "seeds"
  /\ todo' = {} /\ nodes' = {} /\ active' = {} /\ edges' = {}
  /\ copy' = NoCopy

Ask(q) ==
  /\ stage = "idle"
  /\ ask' = q
  /\ route' = Route(q.intents, q.allowed, q.explicit)
  /\ Retrieve(route'.routed)
  /\ seen' = View(db, q)
  /\ UNCHANGED <<db, rebuilds, cited, evidence, reason, stale>>

\* rows of memory_nodes that match the scope, the kinds and the time bounds
Matching ==
  {i \in db.nodes : Kind[i] \in SupportKinds(modes) /\ Observed[i] <= ask.asOf /\ HasSource(i)}

\* the cue index, by the words of the question
ReadSeeds ==
  /\ stage = "seeds"
  /\ stage' = "nodes"
  /\ nodes' = Matching \cap Relevant
  /\ copy' = [i \in Rows |-> IF i \in nodes' THEN db.closer[i] ELSE NoRow]
  /\ UNCHANGED <<db, rebuilds, seen, ask, route, modes, todo, active, edges, cited,
                 evidence, reason, stale>>

\* merge_seed_nodes: a seed is added only if the second read has not got it
Merged(i) == IF i \in Matching THEN db.closer[i] ELSE copy[i]

ReadNodes ==
  /\ stage = "nodes"
  /\ stage' = "snapshots"
  /\ nodes' = nodes \cup Matching
  /\ copy' = [i \in Rows |-> IF i \in nodes' THEN Merged(i) ELSE NoRow]
  /\ todo' = nodes'
  /\ UNCHANGED <<db, rebuilds, seen, ask, route, modes, active, edges, cited, evidence,
                 reason, stale>>

\* node_snapshot_known_at, node by node; a node without a known source goes
ReadSnapshot ==
  /\ stage = "snapshots"
  /\ nodes' = nodes \ {n \in Chunk : ~(Observed[n] <= ask.asOf /\ HasSource(n))}
  /\ IF todo = Chunk
     THEN stage' = "visible" /\ todo' = nodes'
     ELSE stage' = stage /\ todo' = todo \ Chunk
  /\ UNCHANGED <<db, rebuilds, seen, ask, route, modes, copy, active, edges, cited, evidence,
                 reason, stale>>

ReadVisible ==
  /\ stage = "visible"
  /\ active' = active \cup {n \in Chunk : VisibleAt(n)}
  /\ todo' = todo \ Chunk
  /\ stage' = IF todo = Chunk THEN "edges" ELSE stage
  /\ UNCHANGED <<db, rebuilds, seen, ask, route, modes, copy, nodes, edges, cited, evidence,
                 reason, stale>>

\* edges_for_scope
ReadEdges ==
  /\ stage = "edges"
  /\ edges' = db.edges
  /\ todo' = db.edges
  /\ stage' = "edge visibility"
  /\ UNCHANGED <<db, rebuilds, seen, ask, route, modes, copy, nodes, active, cited, evidence,
                 reason, stale>>

\* an edge of a closure, in either kind
IsClosure(e) == Closes[e[1]] = e[2]

\* mutant of ContradictionVisible: one side is enough
NewerIsVisible(e) == {e[1], e[2]} \subseteq nodes /\ VisibleAt(e[1])

ContradictionVisible(e) == {e[1], e[2]} \subseteq nodes /\ VisibleAt(e[1]) /\ StaleAt(e[2])

LinkVisible(e) ==
  /\ Observed[e[1]] <= ask.asOf
  /\ ask.known # NoTime =>
       /\ EventKnown(e[1], ask.known)
       /\ {e[1], e[2]} \subseteq nodes
       /\ VisibleAt(e[1]) /\ VisibleAt(e[2])

EdgeVisible(e) == IF IsClosure(e) THEN ContradictionVisible(e) ELSE LinkVisible(e)

FirstEdge == {e \in todo : \A f \in todo : e[1] < f[1] \/ (e[1] = f[1] /\ e[2] <= f[2])}

EdgeChunk == IF ask.known = NoTime THEN todo ELSE FirstEdge

(***************************************************************************)
(* After the last edge the evidence is gathered from the active nodes; the *)
(* retrieval that only prepares a reconstruction keeps the evidence of the *)
(* one before.                                                             *)
(***************************************************************************)
ReadEdge ==
  /\ stage = "edge visibility"
  /\ edges' = edges \ {e \in EdgeChunk : ~EdgeVisible(e)}
  /\ IF todo # EdgeChunk THEN stage' = stage /\ todo' = todo \ EdgeChunk
     ELSE IF reason = "none" THEN stage' = "evidence" /\ todo' = active
     ELSE stage' = "reconstruct" /\ todo' = {}
  /\ UNCHANGED <<db, rebuilds, seen, ask, route, modes, copy, nodes, active, cited, evidence,
                 reason, stale>>

Ranking == {e \in edges : {e[1], e[2]} \subseteq active}

Around(S) == {n \in active : \E m \in S : <<n, m>> \in Ranking \/ <<m, n>> \in Ranking}

(***************************************************************************)
(* What personalized PageRank can give a rank: the active nodes that share *)
(* a word with the question, or all if none does, and what they lead to.   *)
(***************************************************************************)
Ranked ==
  LET start == IF active \cap Relevant = {} THEN active ELSE active \cap Relevant
      spread[k \in 0..Cardinality(Rows)] ==
        IF k = 0 THEN start ELSE spread[k - 1] \cup Around(spread[k - 1])
  IN  spread[Cardinality(Rows)]

\* mutant of SpansOf: the two bounds are swapped
SpansSwapped(n) ==
  n \in db.nodes /\ Ingested[n] <= ask.asOf /\ (ask.known # NoTime => Observed[n] <= ask.known)

\* cited_spans_for_node_read_at finds something
SpansOf(n) ==
  n \in db.nodes /\ Observed[n] <= ask.asOf /\ (ask.known # NoTime => EventKnown(n, ask.known))

Fresh(n) == ask.fresh => VisibleAt(n)

Answers(n, accepted) == Kind[n] \in Accepts(accepted) \ {"entity_cue"}

\* one node of the evidence loop; the spans are read also without known_at
ReadEvidence ==
  /\ stage = "evidence"
  /\ \A n \in First(todo) :
       cited' = IF Answers(n, modes) /\ Fresh(n) /\ n \in Ranked
                THEN cited \cup {<<n, SpansOf(n)>>} ELSE cited
  /\ todo = {} => cited' = cited
  /\ todo' = todo \ First(todo)
  /\ stage' = IF todo = {} THEN "select" ELSE stage
  /\ UNCHANGED <<db, rebuilds, seen, ask, route, modes, copy, nodes, active, edges, evidence,
                 reason, stale>>

\* the low score stands for ambiguous scores and compositional questions too
Reasons(S) ==
  CASE ask.reconstruct = "off" -> {"none"}
    [] ask.reconstruct = "force" -> {"forced"}
    [] ask.reconstruct = "auto" -> IF S = {} THEN {"empty_evidence"} ELSE {"none", "low_confidence"}

\* mutant of FallsBack: an empty route is taken for an answer
NeverFallsBack(S) == FALSE

FallsBack(S) == S = {} /\ Differs(route)

\* scores and budget_evidence keep any part of what was gathered
Selections == SUBSET {c[1] : c \in cited}

Fallback(S) ==
  /\ stage = "select"
  /\ FallsBack(S)
  /\ route' = FallbackRoute(route)
  /\ Retrieve(route'.routed)
  /\ cited' = {}
  /\ UNCHANGED <<db, rebuilds, seen, ask, evidence, reason, stale>>

\* the evidence of a reconstruction is read over all allowed modes
Select(S) ==
  /\ stage = "select"
  /\ ~FallsBack(S)
  /\ evidence' = S
  /\ cited' = {c \in cited : c[1] \in S}
  /\ reason' \in Reasons(S)
  /\ IF reason' # "none" /\ Differs(route)
     THEN Retrieve(route.allowed)
     ELSE /\ stage' = IF reason' = "none" THEN "report" ELSE "reconstruct"
          /\ UNCHANGED <<modes, todo, copy, nodes, active, edges>>
  /\ UNCHANGED <<db, rebuilds, seen, ask, route, stale>>

\* where the walk of reconstruct_active starts
Starts ==
  IF evidence # {} THEN evidence
  ELSE {n \in active \cap Relevant : Answers(n, route.allowed)}

(***************************************************************************)
(* Accepts a neighbour; budgets and policies, that may refuse it, are in   *)
(* Reconstruction.                                                         *)
(***************************************************************************)
Reconstruct(n) ==
  /\ stage = "reconstruct"
  /\ n \in Around(Starts) \ evidence
  /\ Answers(n, route.allowed)
  /\ Fresh(n)
  /\ evidence' = evidence \cup {n}
  /\ cited' = cited \cup {<<n, SpansOf(n)>>}
  /\ UNCHANGED <<db, rebuilds, seen, stage, ask, route, modes, todo, copy, nodes, active, edges,
                 reason, stale>>

\* the walk ends and budget_evidence keeps a part of what there is
EndReconstruction(S) ==
  /\ stage = "reconstruct"
  /\ S \subseteq evidence
  /\ evidence' = S
  /\ cited' = {c \in cited : c[1] \in S}
  /\ stage' = "report"
  /\ UNCHANGED <<db, rebuilds, seen, ask, route, modes, todo, copy, nodes, active, edges, reason,
                 stale>>

\* contradictions_for
Contradictions == {e \in edges : IsClosure(e) /\ (e[1] \in evidence \/ e[2] \in evidence)}

\* reconstruction_modes if there was a reconstruction
StaleModes == IF reason = "none" THEN route.routed ELSE route.allowed

\* the evidence and what it contradicts
Premises == (evidence \cup {e[2] : e \in Contradictions}) \cap nodes

\* and what else shares a word with the question
StaleCandidates == Premises \cup {n \in nodes \cap Relevant : Answers(n, StaleModes)}

StartReport ==
  /\ stage = "report"
  /\ todo' = StaleCandidates
  /\ stage' = "stale"
  /\ UNCHANGED <<db, rebuilds, seen, ask, route, modes, copy, nodes, active, edges, cited,
                 evidence, reason, stale>>

\* has_visible_family_successor
HasVisibleSuccessor(n) ==
  \E m \in nodes \ {n} :
    /\ Kind[m] = Kind[n] /\ Family[m] = Family[n]
    /\ copy[n] # NoRow /\ Observed[m] >= Observed[copy[n]]
    /\ VisibleAt(m)

\* stale_assumptions_for, node by node
ReadStale ==
  /\ stage = "stale"
  /\ stale' = stale \cup {n \in Chunk : StaleAt(n) /\ (n \in Premises \/ ~HasVisibleSuccessor(n))}
  /\ todo' = todo \ Chunk
  /\ stage' = IF todo = Chunk THEN "answered" ELSE stage
  /\ UNCHANGED <<db, rebuilds, seen, ask, route, modes, copy, nodes, active, edges, cited,
                 evidence, reason>>

-----------------------------------------------------------------------------
NoQuestion == [intents |-> {}, allowed |-> {}, explicit |-> FALSE, reconstruct |-> "off",
               fresh |-> FALSE, asOf |-> 0, known |-> NoTime]

Init ==
  /\ db = Folded({})
  /\ rebuilds = 0
  /\ stage = "idle"
  /\ ask = NoQuestion
  /\ route = Route({}, {}, FALSE)
  /\ modes = {}
  /\ todo = {} /\ nodes = {} /\ active = {} /\ edges = {} /\ cited = {}
  /\ copy = NoCopy
  /\ evidence = {}
  /\ reason = "none"
  /\ stale = {}
  /\ seen = View(db, ask)

Write ==
  \/ \E i \in Rows : ProjectRow(i)
  \/ \E i, j \in Rows : ReplayLate(i, j)
  \/ \E cap \in Caps : Rebuild(cap)

Read ==
  \/ ReadSeeds \/ ReadNodes \/ ReadSnapshot \/ ReadVisible \/ ReadEdges \/ ReadEdge
  \/ ReadEvidence
  \/ \E S \in Selections : Fallback(S) \/ Select(S)
  \/ \E n \in Rows : Reconstruct(n)
  \/ \E S \in SUBSET evidence : EndReconstruction(S)
  \/ StartReport
  \/ ReadStale

Next == Write \/ Read \/ \E q \in Questions : Ask(q)

Spec == Init /\ [][Next]_vars

-----------------------------------------------------------------------------
(* Properties. *)

Answered == stage = "answered"

TypeOK ==
  /\ db.nodes \subseteq Rows /\ db.closer \in [Rows -> Rows \cup {NoRow}]
  /\ db.edges \subseteq Rows \X Rows
  /\ stage \in {"idle", "seeds", "nodes", "snapshots", "visible", "edges", "edge visibility",
                "evidence", "select", "reconstruct", "report", "stale", "answered"}
  /\ modes \subseteq Modes
  /\ copy \in [Rows -> Rows \cup {NoRow}]
  /\ active \subseteq nodes /\ nodes \subseteq Rows
  /\ edges \subseteq Rows \X Rows
  /\ cited \subseteq Rows \X BOOLEAN
  /\ evidence \subseteq Rows /\ stale \subseteq nodes

(***************************************************************************)
(* A memory that was closed from the moment the query began is never       *)
(* evidence for what holds now, whichever retrieval it came through.       *)
(***************************************************************************)
ClosedIsNotCurrent ==
  Answered /\ ask.known = NoTime => evidence \cap seen.closed = {}

(***************************************************************************)
(* A memory that was open all along is reported neither stale nor as the   *)
(* older side of a contradiction.                                          *)
(***************************************************************************)
OpenIsNotStale ==
  Answered => (stale \cup {e[2] : e \in Contradictions}) \cap seen.open = {}

(***************************************************************************)
(* Evidence from one retrieval and contradictions from another are         *)
(* reconciled: a premise that the answer says is contradicted is reported  *)
(* stale in the same answer, unless its source is gone.                    *)
(***************************************************************************)
EvidenceIsReconciled ==
  Answered => \A e \in Contradictions : e[2] \in seen.present => e[2] \in stale

(***************************************************************************)
(* Evidence that stayed in the projection is cited, although its spans are *)
(* read long after the memory itself.                                      *)
(***************************************************************************)
EvidenceIsCited ==
  Answered => \A n \in evidence \cap seen.present : <<n, TRUE>> \in cited

(***************************************************************************)
(* An answer is sound although it is read from several states: in what it  *)
(* presents as current, reports as stale or contradicted, and cites.       *)
(***************************************************************************)
AnswerIsSound ==
  TypeOK /\ ClosedIsNotCurrent /\ OpenIsNotStale /\ EvidenceIsReconciled /\ EvidenceIsCited

(***************************************************************************)
(* Time travel is immune to concurrent work: if everything ingested by     *)
(* known_at was projected and settled all along, the memories an answer    *)
(* draws on are those of the ledger as known then, whatever was projected, *)
(* closed or rebuilt meanwhile.                                            *)
(***************************************************************************)
TimeTravelIsImmune ==
  Answered /\ ask.known # NoTime /\ seen.settled =>
    active = {n \in KnownRows(ask.known) :
                /\ Kind[n] \in SupportKinds(modes)
                /\ Observed[n] <= ask.asOf
                /\ \A i \in ClosersOf(n, KnownRows(ask.known)) : Observed[i] > ask.asOf}

(***************************************************************************)
(* A guess of the router withholds nothing: an answer without evidence was *)
(* retrieved over all allowed modes.                                       *)
(***************************************************************************)
NothingWithheld ==
  Answered /\ evidence = {} /\ reason = "none" => modes = Normalized(ask.allowed)
==============================================================================
