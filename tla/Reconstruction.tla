---------------------------- MODULE Reconstruction ----------------------------
(***************************************************************************)
(* Tier 2 of a query: starting from the evidence that retrieval selected,  *)
(* walk the ranking edges one node at a time; at each node a policy (the   *)
(* deterministic one, a provider command or an embedder's own) accepts one *)
(* neighbour, prunes one, or stops.  Steps and tokens are bounded.         *)
(*                                                                         *)
(* Data abstraction.  Scores only decide in which order candidates compete *)
(* for the budget; here any order may decide, so what a greedy pass keeps  *)
(* is any maximal set that fits.  Kinds, modes, freshness and scores of    *)
(* zero decide who is a candidate at all: the set Answerable.  Ids sort    *)
(* like hashes, so the evidence enters the frontier in any order.          *)
(***************************************************************************)
EXTENDS Integers, Sequences, FiniteSets, Functions

CONSTANTS
  Nodes,         \* visible memories
  Answerable,    \* those that may become evidence for this query
  Tokens,        \* token_estimate of each node
  Graphs,        \* sets of ranking edges to try
  Selections,    \* evidence sets that retrieval may select
  MaxSteps,      \* reconstruction.max_steps
  MaxTokens,     \* reconstruction.max_tokens
  AnswerTokens   \* the query's max_tokens

ASSUME ConstantsAssumption ==
  /\ IsFiniteSet(Nodes)
  /\ Answerable \subseteq Nodes
  /\ Tokens \in [Nodes -> Nat \ {0}]
  /\ Graphs \subseteq SUBSET (Nodes \X Nodes)
  /\ Selections \subseteq SUBSET Answerable
  /\ MaxSteps \in Nat \ {0} /\ MaxTokens \in Nat \ {0} /\ AnswerTokens \in Nat \ {0}

VARIABLES
  edges,       \* the ranking edges
  initial,     \* where the walk starts: evidence, or the fallback node
  frontier,    \* nodes to expand
  expanded,    \* expanded_node_ids, in order
  accepted,    \* accepted_node_ids, in order
  pruned,      \* pruned_ids
  candidates,  \* what the policy is asked to decide on
  selected,    \* selected_ids; at the end, the evidence of the answer
  spent,       \* tokens_spent
  phase        \* "expand", "decide", "budget", "answered"

vars == <<edges, initial, frontier, expanded, accepted, pruned, candidates, selected,
          spent, phase>>

\* no node occurs twice
NoRepeats(s) == IsInjective(s)

TypeOK ==
  /\ edges \in SUBSET (Nodes \X Nodes)
  /\ initial \subseteq Answerable
  /\ frontier \in Seq(Answerable)
  /\ expanded \in Seq(Answerable) /\ Len(expanded) <= MaxSteps
  /\ accepted \in Seq(Answerable)
  /\ pruned \subseteq Answerable
  /\ candidates \subseteq Answerable
  /\ selected \subseteq Answerable
  /\ spent \in 0..MaxTokens
  /\ phase \in {"expand", "decide", "budget", "answered"}

-----------------------------------------------------------------------------
\* the sum of their token estimates, as the number of their tokens
TokensOf(S) == Cardinality(UNION {{n} \X (1..Tokens[n]) : n \in S})

\* mutant of Remaining: what was spent before is forgotten
Unspent == MaxTokens

Remaining == MaxTokens - spent

(***************************************************************************)
(* What a greedy pass over S keeps: taken in the order of the kept set     *)
(* itself, nothing that is left out would have fitted.                     *)
(***************************************************************************)
Fitting(S, budget) ==
  {K \in SUBSET S :
     /\ TokensOf(K) <= budget
     /\ \A n \in S \ K : TokensOf(K) + Tokens[n] > budget}

Neighbors(n) == {m \in Nodes : <<n, m>> \in edges \/ <<m, n>> \in edges}

\* mutant of CandidatesAt: the graph is not asked
AnyCandidates(n) ==
  {m \in Answerable : m \notin selected \cup Range(expanded) \cup pruned \cup {n}}

\* mutant of CandidatesAt: pruned nodes come back
PrunedCandidates(n) ==
  {m \in Neighbors(n) \cap Answerable : m \notin selected \cup Range(expanded) \cup {n}}

\* reconstruction_candidates at node n
CandidatesAt(n) ==
  {m \in Neighbors(n) \cap Answerable :
     m \notin selected \cup Range(expanded) \cup pruned \cup {n}}

\* the positions of the frontier that pop_next_frontier does not skip
Live == {p \in DOMAIN frontier : frontier[p] \notin Range(expanded) \cup pruned}

-----------------------------------------------------------------------------
Expand ==
  /\ phase = "expand"
  /\ Len(expanded) < MaxSteps
  /\ \E p \in Live :
       LET n == frontier[p]
           around == CandidatesAt(n)
       IN  /\ \A q \in Live : p <= q
           /\ frontier' = SubSeq(frontier, p + 1, Len(frontier))
           /\ expanded' = Append(expanded, n)
           /\ candidates' \in Fitting(around, Remaining)
           /\ pruned' = pruned \cup (around \ candidates')
           /\ phase' = IF Remaining = 0 THEN "budget" ELSE "decide"
  /\ UNCHANGED <<edges, initial, accepted, selected, spent>>

\* all steps are used, or nothing is left to expand
Exhausted ==
  /\ phase = "expand"
  /\ Len(expanded) = MaxSteps \/ Live = {}
  /\ phase' = "budget"
  /\ UNCHANGED <<edges, initial, frontier, expanded, accepted, pruned, candidates, selected,
                 spent>>

\* mutant of Enqueue: an accepted node is not explored further
DoNotEnqueue(n) == frontier

\* the walk goes depth first
Enqueue(n) == <<n>> \o frontier

Accept(n) ==
  /\ phase = "decide"
  /\ n \in candidates
  /\ Tokens[n] <= Remaining
  /\ spent' = spent + Tokens[n]
  /\ selected' = selected \cup {n}
  /\ accepted' = Append(accepted, n)
  /\ frontier' = Enqueue(n)
  /\ phase' = "expand"
  /\ UNCHANGED <<edges, initial, expanded, pruned, candidates>>

\* prunes a candidate, or accepts one that does not fit
Prune(n) ==
  /\ phase = "decide"
  /\ n \in candidates
  /\ pruned' = pruned \cup {n}
  /\ phase' = "expand"
  /\ UNCHANGED <<edges, initial, frontier, expanded, accepted, candidates, selected, spent>>

\* a decision on a node that is no candidate is ignored
DecideNothing ==
  /\ phase = "decide"
  /\ phase' = "expand"
  /\ UNCHANGED <<edges, initial, frontier, expanded, accepted, pruned, candidates, selected,
                 spent>>

\* the policy stops; so does a provider that fails or answers off schema
Stop ==
  /\ phase = "decide"
  /\ phase' = "budget"
  /\ UNCHANGED <<edges, initial, frontier, expanded, accepted, pruned, candidates, selected,
                 spent>>

\* budget_evidence over what was retrieved and what was accepted
Answer ==
  /\ phase = "budget"
  /\ selected' \in Fitting(selected, AnswerTokens)
  /\ phase' = "answered"
  /\ UNCHANGED <<edges, initial, frontier, expanded, accepted, pruned, candidates, spent>>

\* without evidence the walk starts at some answerable node, if any
Start(evidence) ==
  IF evidence # {} THEN {evidence} ELSE {{}} \cup {{n} : n \in Answerable}

Init ==
  /\ edges \in Graphs
  /\ selected \in Selections
  /\ initial \in Start(selected)
  /\ frontier \in {s \in [1..Cardinality(initial) -> initial] : NoRepeats(s)}
  /\ expanded = <<>>
  /\ accepted = <<>>
  /\ pruned = {}
  /\ candidates = {}
  /\ spent = 0
  /\ phase = "expand"

Next ==
  \/ Expand
  \/ Exhausted
  \/ \E n \in Nodes : Accept(n)
  \/ \E n \in Nodes : Prune(n)
  \/ DecideNothing
  \/ Stop
  \/ Answer

Spec == Init /\ [][Next]_vars

-----------------------------------------------------------------------------
(* Properties. *)

(***************************************************************************)
(* The token budget is shared by all steps: what is reported as spent is   *)
(* the sum over the accepted nodes, whatever the policy decides.           *)
(***************************************************************************)
SpendsWithinBudget ==
  /\ spent = TokensOf(Range(accepted))
  /\ spent <= MaxTokens

(***************************************************************************)
(* A node is judged once: it is never both pruned and accepted or expanded *)
(* and no node is accepted or expanded twice, although the frontier, the   *)
(* candidates and the evidence overlap.                                    *)
(***************************************************************************)
JudgedOnce ==
  /\ pruned \cap (Range(expanded) \cup Range(accepted) \cup initial) = {}
  /\ NoRepeats(expanded) /\ NoRepeats(accepted)
  /\ Range(accepted) \cap initial = {}

(***************************************************************************)
(* Accepted evidence is connected: each accepted node is a neighbour of    *)
(* the start or of a node accepted before it.                              *)
(***************************************************************************)
AcceptedIsConnected ==
  \A p \in DOMAIN accepted :
    Neighbors(accepted[p]) \cap (initial \cup {accepted[q] : q \in 1..(p - 1)}) # {}

(***************************************************************************)
(* When the walk gives up by itself it has either used its steps or        *)
(* explored everything it started from and accepted.                       *)
(***************************************************************************)
ExploresWhatItAccepts ==
  phase = "expand" /\ Live = {} => initial \cup Range(accepted) \subseteq Range(expanded)

(***************************************************************************)
(* The walk is bounded whatever the policy answers: in its tokens, and in  *)
(* that no node comes up for judgement again.                              *)
(***************************************************************************)
WalkIsBounded == TypeOK /\ SpendsWithinBudget /\ JudgedOnce

(***************************************************************************)
(* The walk leads from the evidence to all that it accepted, and on.       *)
(***************************************************************************)
WalkIsConnected == AcceptedIsConnected /\ ExploresWhatItAccepts
================================================================================
