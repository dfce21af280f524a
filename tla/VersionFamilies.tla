---------------------------- MODULE VersionFamilies ----------------------------
(***************************************************************************)
(* Belief revision in beater-memory.  A memory is a family of versions,    *)
(* named by the text that founded it; each version has a validity window   *)
(* [from, observed time of its closer), and the spans of the ledger rows   *)
(* that stated it.  This module models what ProjectionPipeline leaves out: *)
(* equal texts, several rows at one observed time, updates inside a        *)
(* family, and the bitemporal reads (valid at `as of`, known at `known`).  *)
(*                                                                         *)
(* One worker, no crashes: those are the subject of ProjectionPipeline.    *)
(* The distiller is any implementation of the Distiller trait whose        *)
(* operation depends on the text; its target is any neighbour.             *)
(*                                                                         *)
(* Data abstraction.  One kind of typed memory (episodes are never revised *)
(* and cues only help retrieval).  A closure is the id of the closing row: *)
(* valid_to_unix_ms is always that row's observed time.  The ledger id     *)
(* stands for the ingestion time.  The scope is one project.               *)
(***************************************************************************)
EXTENDS Integers, Sequences, FiniteSets

CONSTANTS
  Texts,       \* memory texts, which name the families they found
  Times,       \* observed_at_unix_ms of events
  Op,          \* Op[text]: "add", "update" or "invalidate"
  Clock,       \* "fine" or "coarse": the wall clock behind updated_at_unix_ms
  LateReplay,  \* supports_late_replay of the distiller
  MaxEvents    \* bound: rows in the ledger

ASSUME ConstantsAssumption ==
  /\ Times \subseteq Nat
  /\ Op \in [Texts -> {"add", "update", "invalidate"}]
  /\ Clock \in {"fine", "coarse"}
  /\ LateReplay \in BOOLEAN
  /\ MaxEvents \in Nat

Ids == 1..MaxEvents

NoId == 0

(***************************************************************************)
(* The id of a version is a hash of its revision key: the family, the      *)
(* observed time and, for a successor at the time of an older version, the *)
(* row that stated it.                                                     *)
(***************************************************************************)
Versions == [family : Texts, from : Times, rev : Ids \cup {NoId}]

NoVersion == [family |-> "none", from |-> 0, rev |-> NoId]

VARIABLES
  ledger,     \* ledger_events in order of id
  projected,  \* rows with a projected marker
  graph,      \* the projection: spans, closers and supersedes edges
  late        \* the late replay in progress

vars == <<ledger, projected, graph, late>>

Graphs ==
  [cites  : [Versions -> SUBSET Ids],         \* node_spans; {}: no such node
   closer : [Versions -> Ids \cup {NoId}],    \* valid_to_event_id
   edges  : SUBSET (Versions \X Versions)]

\* late.version: the node that arrived; queue: later rows to distil again
Idle == [version |-> NoVersion, queue |-> {}]

-----------------------------------------------------------------------------
(* Order and reads. *)

Rows == 1..Len(ledger)

Obs(i) == ledger[i].at

\* ORDER BY observed_at_unix_ms, id
Before(i, j) == Obs(i) < Obs(j) \/ (Obs(i) = Obs(j) /\ i < j)

IsFirst(i, S) == i \in S /\ \A j \in S \ {i} : Before(i, j)

Nodes(g) == {v \in Versions : g.cites[v] # {}}

Family(g, f) == {v \in Nodes(g) : v.family = f}

\* first_event_id_for_node
FirstEvent(g, v) == CHOOSE i \in g.cites[v] : IsFirst(i, g.cites[v])

\* what the distiller may target when row i is distilled at first
ActiveNeighbors(g, i) ==
  {v \in Nodes(g) :
     /\ v.from <= Obs(i)
     /\ g.closer[v] = NoId \/ Obs(g.closer[v]) > Obs(i)}

\* and when it is distilled again: the neighbours it would have had in order
ProjectionNeighbors(g, i) ==
  {v \in Nodes(g) :
     /\ v.from <= Obs(i)
     /\ \/ g.closer[v] = NoId
        \/ Obs(g.closer[v]) > Obs(i)
        \/ Obs(g.closer[v]) = Obs(i) /\ g.closer[v] >= i
     /\ ~(Obs(FirstEvent(g, v)) = Obs(i) /\ FirstEvent(g, v) >= i)}

\* projected rows after row i, before the row that closes its version
ProjectedAfter(i, until) ==
  {j \in projected : Before(i, j) /\ (until = NoId \/ Before(j, until))}

\* mutant of IsVisible: a closed version was never valid
IsOpenAt(g, v, t, known) ==
  /\ v.from <= t
  /\ \E i \in g.cites[v] : Obs(i) <= t /\ i <= known
  /\ ~(g.closer[v] # NoId /\ g.closer[v] <= known)

(***************************************************************************)
(* node_is_visible_at: valid at time t, as far as the first `known` rows   *)
(* of the ledger tell.                                                     *)
(***************************************************************************)
IsVisible(g, v, t, known) ==
  /\ v.from <= t
  /\ \E i \in g.cites[v] : Obs(i) <= t /\ i <= known
  /\ ~(g.closer[v] # NoId /\ Obs(g.closer[v]) <= t /\ g.closer[v] <= known)

Visible(g, t, known) == {v \in Versions : IsVisible(g, v, t, known)}

TypeOK ==
  /\ ledger \in Seq([text : Texts, at : Times]) /\ Len(ledger) <= MaxEvents
  /\ projected \subseteq Rows
  /\ graph \in Graphs
  /\ \A v \in Versions : graph.cites[v] \subseteq projected
  /\ \A v \in Versions : graph.closer[v] # NoId =>
       v \in Nodes(graph) /\ graph.closer[v] \in projected
  /\ graph.edges \subseteq Nodes(graph) \X Nodes(graph)
  /\ late.queue \subseteq projected
  /\ late.queue # {} => late.version \in Nodes(graph)

-----------------------------------------------------------------------------
(* Writes, as functions of the graph. *)

SetCloser(g, S, i) ==
  [g EXCEPT !.closer = [v \in Versions |-> IF v \in S THEN i ELSE g.closer[v]]]

\* invalidate_node: the earliest closing event wins
CanClose(g, v, i) ==
  /\ v.from <= Obs(i)
  /\ g.closer[v] = NoId \/ Before(i, g.closer[v])

Close(g, v, i) == IF CanClose(g, v, i) THEN SetCloser(g, {v}, i) ELSE g

Cite(g, v, i) == [g EXCEPT !.cites[v] = @ \cup {i}]

Supersede(g, new, old) ==
  IF new = old THEN g ELSE [g EXCEPT !.edges = @ \cup {<<new, old>>}]

\* mutant of ClosePrevious: only versions that are still open are closed
CloseOpenPrevious(g, f, i) ==
  SetCloser(g, {v \in Family(g, f) : v.from < Obs(i) /\ g.closer[v] = NoId}, i)

\* mutant of ClosePrevious: versions closed before are closed again
RecloseAllPrevious(g, f, i) == SetCloser(g, {v \in Family(g, f) : v.from < Obs(i)}, i)

\* close_previous_family_versions
ClosePrevious(g, f, i) ==
  SetCloser(g, {v \in Family(g, f) :
                  /\ v.from < Obs(i)
                  /\ g.closer[v] = NoId \/ Obs(g.closer[v]) > Obs(i)}, i)

(***************************************************************************)
(* Which of several versions at one observed time is listed first: the     *)
(* one updated last, or the oldest when the wall clock's milliseconds do   *)
(* not tell them apart.                                                    *)
(***************************************************************************)
FirstListed(S) ==
  CHOOSE v \in S :
    \A u \in S : IF Clock = "fine" THEN v.rev >= u.rev ELSE v.rev <= u.rev

\* mutant of FutureCloser: a new version is always open
NoCloser(g, f, t) == NoId

\* who closes a new version of family f at time t: the earliest later version
FutureCloser(g, f, t) ==
  LET later == {v \in Family(g, f) : v.from > t}
  IN  IF later = {} THEN NoId
      ELSE FirstEvent(g, FirstListed({u \in later : \A w \in later : u.from <= w.from}))

Create(g, v, i, closer) == SetCloser(Cite(g, v, i), {v}, closer)

Version(f, t, rev) == [family |-> f, from |-> t, rev |-> rev]

\* versions the family already has at the observed time of row i
SameTime(g, f, i) == {v \in Family(g, f) : v.from = Obs(i)}

(***************************************************************************)
(* upsert_node_with_base_key: the graph, and the version that now carries  *)
(* row i.                                                                  *)
(***************************************************************************)
Upsert(g, f, i, successorAllowed) ==
  LET same == SameTime(g, f, i)
      old == FirstListed(same)
      new == Version(f, Obs(i), NoId)
      successor == Version(f, Obs(i), i)
      closer == FutureCloser(g, f, Obs(i))
  IN  IF same = {}
        THEN [graph |-> Create(ClosePrevious(g, f, i), new, i, closer), version |-> new]
      ELSE IF successorAllowed /\ i > FirstEvent(g, old)
        THEN [graph |-> Create(Close(g, old, i), successor, i, closer), version |-> successor]
      ELSE [graph |-> Cite(g, old, i), version |-> old]

\* replacement_for_invalidation: a version found by its text is not cited
Replacement(g, i) ==
  LET same == SameTime(g, ledger[i].text, i)
  IN  IF same = {} THEN Upsert(g, ledger[i].text, i, FALSE)
      ELSE [graph |-> g, version |-> FirstListed(same)]

\* mutant of Update: the text founds a family of its own
UpdateOnItsOwn(g, i, target) ==
  LET o == Upsert(g, ledger[i].text, i, TRUE)
  IN  [o EXCEPT !.graph = Supersede(@, o.version, target)]

\* an update puts its text into the family of its target
Update(g, i, target) ==
  LET o == Upsert(g, target.family, i, TRUE)
  IN  [o EXCEPT !.graph = Supersede(@, o.version, target)]

CloseAndSupersede(o, target, i) ==
  IF CanClose(o.graph, target, i)
    THEN Supersede(Close(o.graph, target, i), o.version, target)
    ELSE o.graph

\* apply_late_update: the successor of a late version of family f
LateSuccessor(g, j, f) ==
  IF ledger[j].text = f THEN Replacement(g, j) ELSE Upsert(g, f, j, TRUE)

\* ... and what row j stated in a family of its own before, which it closes
CloseDuplicate(g, j, f) ==
  LET stated == SameTime(g, ledger[j].text, j)
  IN  IF ledger[j].text = f \/ stated = {} THEN g ELSE Close(g, FirstListed(stated), j)

-----------------------------------------------------------------------------
AppendEvent(row) ==
  /\ Len(ledger) < MaxEvents
  /\ ledger' = Append(ledger, row)
  /\ UNCHANGED <<projected, graph, late>>

AtRow(i) == late.queue = {} /\ IsFirst(i, Rows \ projected)

\* o: row i's memory and its version; g: with the target closed too.  Later
\* rows are distilled again because of the version.
Commit(i, o, g) ==
  /\ graph' = g
  /\ projected' = projected \cup {i}
  /\ late' = LET after == ProjectedAfter(i, o.graph.closer[o.version])
             IN  IF LateReplay /\ after # {} THEN [version |-> o.version, queue |-> after]
                 ELSE Idle
  /\ UNCHANGED ledger

\* an update that finds no target may be stated on its own
ProjectAdd(i) ==
  LET o == Upsert(graph, ledger[i].text, i, FALSE)
  IN  /\ AtRow(i)
      /\ Op[ledger[i].text] \in {"add", "update"}
      /\ Commit(i, o, o.graph)

ProjectUpdate(i, target) ==
  LET o == Update(graph, i, target)
  IN  /\ AtRow(i)
      /\ Op[ledger[i].text] = "update"
      /\ target \in ActiveNeighbors(graph, i)
      /\ Commit(i, o, o.graph)

ProjectInvalidate(i, target) ==
  LET o == Replacement(graph, i)
  IN  /\ AtRow(i)
      /\ Op[ledger[i].text] = "invalidate"
      /\ target \in ActiveNeighbors(graph, i)
      /\ Commit(i, o, CloseAndSupersede(o, target, i))

\* an invalidation without a target is stated all the same
ProjectUntargeted(i) ==
  LET o == Replacement(graph, i)
  IN  /\ AtRow(i)
      /\ Op[ledger[i].text] = "invalidate"
      /\ Commit(i, o, o.graph)

\* an update without a target may leave no memory
ProjectNoop(i) ==
  /\ AtRow(i)
  /\ Op[ledger[i].text] = "update"
  /\ projected' = projected \cup {i}
  /\ UNCHANGED <<ledger, graph, late>>

\* mutant of NextLate: the version is forgotten after the first row
NextLateForgets(j) == [Idle EXCEPT !.queue = late.queue \ {j}]

NextLate(j) == IF late.queue = {j} THEN Idle ELSE [late EXCEPT !.queue = @ \ {j}]

\* the version that arrived late is no neighbour of row j, or not its target
LateSkip(j) ==
  /\ IsFirst(j, late.queue)
  /\ late' = NextLate(j)
  /\ UNCHANGED <<ledger, projected, graph>>

LateInvalidate(j) ==
  LET o == Replacement(graph, j)
  IN  /\ IsFirst(j, late.queue)
      /\ Op[ledger[j].text] = "invalidate"
      /\ late.version \in ProjectionNeighbors(graph, j)
      /\ graph' = CloseAndSupersede(o, late.version, j)
      /\ late' = IF CanClose(o.graph, late.version, j) THEN Idle ELSE NextLate(j)
      /\ UNCHANGED <<ledger, projected>>

LateUpdate(j) ==
  LET v == late.version
      closes == CanClose(graph, v, j)
      o == LateSuccessor(Close(graph, v, j), j, v.family)
  IN  /\ IsFirst(j, late.queue)
      /\ Op[ledger[j].text] = "update"
      /\ v \in ProjectionNeighbors(graph, j)
      /\ graph' = IF closes THEN Supersede(CloseDuplicate(o.graph, j, v.family), o.version, v)
                  ELSE o.graph
      /\ late' = IF closes THEN Idle ELSE NextLate(j)
      /\ UNCHANGED <<ledger, projected>>

Init ==
  /\ ledger = <<>>
  /\ projected = {}
  /\ graph = [cites |-> [v \in Versions |-> {}], closer |-> [v \in Versions |-> NoId],
              edges |-> {}]
  /\ late = Idle

Project(i) ==
  \/ ProjectAdd(i)
  \/ \E v \in Nodes(graph) : ProjectUpdate(i, v)
  \/ \E v \in Nodes(graph) : ProjectInvalidate(i, v)
  \/ ProjectUntargeted(i)
  \/ ProjectNoop(i)

Next ==
  \/ \E t \in Texts, at \in Times : AppendEvent([text |-> t, at |-> at])
  \/ \E i \in Rows \ projected : Project(i)
  \/ \E j \in late.queue : LateSkip(j) \/ LateInvalidate(j) \/ LateUpdate(j)

Spec == Init /\ [][Next]_vars

-----------------------------------------------------------------------------
(* Properties. *)

(***************************************************************************)
(* The versions of a family that begin at different times never overlap:   *)
(* the earlier one is closed by the time the later one begins, in whatever *)
(* order their rows arrived (upsert_node_with_base_key, late replay).      *)
(***************************************************************************)
FamilyWindowsDisjoint ==
  \A u, v \in Nodes(graph) :
    u.family = v.family /\ u.from < v.from =>
      graph.closer[u] # NoId /\ Obs(graph.closer[u]) <= v.from

(***************************************************************************)
(* The versions of a family form one history: what a version cites and     *)
(* what closed it are projected rows, edges join versions that exist, and  *)
(* no two windows overlap.                                                 *)
(***************************************************************************)
FamiliesAreHistories == TypeOK /\ FamilyWindowsDisjoint

\* the row on whose behalf the next step writes
IsWriting(i) == IF late.queue = {} THEN IsFirst(i, Rows \ projected) ELSE IsFirst(i, late.queue)

(***************************************************************************)
(* History is stable: a write on behalf of a row changes nothing of what   *)
(* was valid before the row was observed, whoever it closes or founds and  *)
(* however late it arrives.                                                *)
(***************************************************************************)
HistoryIsStable ==
  [][\A i \in Rows : IsWriting(i) =>
       \A t \in Times : t < Obs(i) =>
         Visible(graph', t, MaxEvents) = Visible(graph, t, MaxEvents)]_vars

(***************************************************************************)
(* A closure is never undone and only ever moves to an earlier event, so   *)
(* the order in which the closing rows are projected does not matter.      *)
(***************************************************************************)
EarliestClosureWins ==
  [][\A v \in Nodes(graph) :
       graph.closer[v] # NoId =>
         /\ graph'.closer[v] # NoId
         /\ ~Before(graph.closer[v], graph'.closer[v])]_vars

(***************************************************************************)
(* What was known stays known: projecting a row does not change what is    *)
(* visible to a reader who knows only rows ingested before it.             *)
(***************************************************************************)
KnowledgeIsStable ==
  [][\A i \in projected' \ projected, t \in Times, known \in Ids :
       known < i => Visible(graph', t, known) = Visible(graph, t, known)]_vars

(***************************************************************************)
(* A family has one current version, also when several of its rows carry   *)
(* the same observed time.                                                 *)
(***************************************************************************)
OneCurrentVersion ==
  \A u, v \in Nodes(graph) :
    /\ u.family = v.family
    /\ graph.closer[u] = NoId
    /\ graph.closer[v] = NoId
    => u = v

(***************************************************************************)
(* A supersedes edge to an older version explains a closure: the older one *)
(* is closed no later than the newer one begins.                           *)
(***************************************************************************)
SupersededIsClosed ==
  \A e \in graph.edges :
    e[2].from < e[1].from =>
      graph.closer[e[2]] # NoId /\ Obs(graph.closer[e[2]]) <= e[1].from

(***************************************************************************)
(* What is revised ends: a family keeps one current version, and what a    *)
(* version supersedes, in its family or another, is closed when it begins. *)
(***************************************************************************)
RevisedIsClosed == OneCurrentVersion /\ SupersededIsClosed

(***************************************************************************)
(* What one row states is valid once at any time: a late update does not   *)
(* leave it current in two families.                                       *)
(***************************************************************************)
StatedOnce ==
  late.queue = {} =>
    \A u, v \in Nodes(graph) :
      /\ graph.cites[u] \cap graph.cites[v] # {}
      /\ graph.closer[u] = NoId
      /\ graph.closer[v] = NoId
      => u = v
================================================================================
