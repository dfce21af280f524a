------------------------- MODULE ReconstructionProofs -------------------------
(***************************************************************************)
(* Proofs about Reconstruction for any graph, evidence, policy, number of  *)
(* steps and number of tokens.                                             *)
(***************************************************************************)
EXTENDS Reconstruction, FiniteSetTheorems, SequenceTheorems, TLAPS

\* What is accepted is selected, until the answer is cut to its budget.
Selected == phase # "answered" => Range(accepted) \subseteq selected

\* A node the walk starts from can no longer become a candidate; a start that
\* is no evidence is alone and is the first to be expanded.
Begun ==
  phase # "answered" =>
    \/ initial \subseteq selected \cup Range(expanded)
    \/ /\ phase # "decide"
       /\ Range(frontier) \subseteq initial
       /\ \A m, n \in initial : m = n

\* What the policy is asked about is new and next to something known.
Offered ==
  phase = "decide" =>
    /\ candidates \cap (selected \cup Range(expanded) \cup pruned \cup initial) = {}
    /\ \E n \in initial \cup Range(accepted) : candidates \subseteq Neighbors(n)

\* The frontier holds what was started from or accepted, and loses nothing of
\* it that was not expanded.
Queued ==
  /\ Range(frontier) \subseteq initial \cup Range(accepted)
  /\ initial \cup Range(accepted) \subseteq Range(frontier) \cup Range(expanded)

IInv ==
  /\ TypeOK
  /\ JudgedOnce
  /\ Selected
  /\ Begun
  /\ Offered
  /\ Queued
  /\ AcceptedIsConnected

-----------------------------------------------------------------------------
(* Sequences. *)

\* A sequence at whose end a new element is put has it in its range, and no
\* element twice if it had none twice.
LEMMA AppendNew ==
  ASSUME NEW S, NEW s \in Seq(S), NEW x \in S
  PROVE  /\ Append(s, x) \in Seq(S)
         /\ Range(Append(s, x)) = Range(s) \cup {x}
         /\ NoRepeats(s) /\ x \notin Range(s) => NoRepeats(Append(s, x))
  <1>1. /\ Append(s, x) \in Seq(S) /\ Len(Append(s, x)) = Len(s) + 1
        /\ \A i \in 1..Len(s) : Append(s, x)[i] = s[i]
        /\ Append(s, x)[Len(s) + 1] = x
    BY AppendProperties
  <1>2. /\ DOMAIN s = 1..Len(s) /\ DOMAIN Append(s, x) = 1..(Len(s) + 1)
        /\ Len(s) \in Nat
    BY <1>1, LenProperties
  <1>3. Range(Append(s, x)) = Range(s) \cup {x}
    BY <1>1, <1>2 DEF Range
  <1>4. ASSUME NoRepeats(s), x \notin Range(s) PROVE NoRepeats(Append(s, x))
    BY <1>1, <1>2, <1>4 DEF NoRepeats, IsInjective, Range
  <1> QED
    BY <1>1, <1>3, <1>4

\* The elements from a position on, and those up to it.
LEMMA DropFirst ==
  ASSUME NEW S, NEW s \in Seq(S), NEW p \in DOMAIN s
  PROVE  LET t == SubSeq(s, p + 1, Len(s))
         IN  /\ t \in Seq(S)
             /\ Range(t) \subseteq Range(s)
             /\ \A q \in DOMAIN s : q <= p \/ s[q] \in Range(t)
  <1> DEFINE t == SubSeq(s, p + 1, Len(s))
  <1>1. Len(s) \in Nat /\ DOMAIN s = 1..Len(s) /\ p \in 1..Len(s)
    BY LenProperties
  <1>2. \A i \in (p + 1)..Len(s) : s[i] \in S
    BY <1>1, ElementOfSeq
  <1>3. /\ t \in Seq(S)
        /\ Len(t) = IF p + 1 <= Len(s) THEN Len(s) - p ELSE 0
        /\ \A i \in 1..(Len(s) - p) : t[i] = s[p + i]
    <2> HIDE DEF t
    <2>1. /\ t \in Seq(S)
          /\ Len(t) = IF p + 1 <= Len(s) THEN Len(s) - (p + 1) + 1 ELSE 0
          /\ \A i \in 1..(Len(s) - (p + 1) + 1) : t[i] = s[p + 1 + i - 1]
      BY <1>1, <1>2, SubSeqProperties DEF t
    <2>2. ASSUME NEW i \in 1..(Len(s) - p) PROVE t[i] = s[p + i]
      <3>1. i \in 1..(Len(s) - (p + 1) + 1) /\ p + 1 + i - 1 = p + i
        BY <1>1
      <3> QED
        BY <2>1, <3>1
    <2>3. Len(t) = IF p + 1 <= Len(s) THEN Len(s) - p ELSE 0
      BY <1>1, <2>1
    <2> QED
      BY <2>1, <2>2, <2>3
  <1> HIDE DEF t
  <1>4. DOMAIN t = 1..(Len(s) - p)
    BY <1>1, <1>3, LenProperties
  <1>5. Range(t) \subseteq Range(s)
    BY <1>1, <1>3, <1>4 DEF Range
  <1>6. \A q \in DOMAIN s : q <= p \/ s[q] \in Range(t)
    <2> SUFFICES ASSUME NEW q \in DOMAIN s, ~(q <= p) PROVE s[q] \in Range(t)
      OBVIOUS
    <2>1. q - p \in 1..(Len(s) - p) /\ p + (q - p) = q
      BY <1>1
    <2>2. q - p \in DOMAIN t /\ t[q - p] = s[q]
      BY <1>3, <1>4, <2>1
    <2> QED
      BY <2>2 DEF Range
  <1> QED
    BY <1>3, <1>5, <1>6 DEF t

\* An enumeration without repetition of as many elements as there are leaves
\* none out.
LEMMA EnumeratesAll ==
  ASSUME NEW S, IsFiniteSet(S), NEW s \in [1..Cardinality(S) -> S], NoRepeats(s)
  PROVE  s \in Seq(S) /\ Range(s) = S
  <1>1. Cardinality(S) \in Nat
    BY FS_CardinalityType
  <1>2. s \in Seq(S)
    BY <1>1, IsASeq
  <1>3. s \in Injection(1..Cardinality(S), S)
    BY DEF Injection, NoRepeats
  <1>4. Cardinality(1..Cardinality(S)) = Cardinality(S)
    BY <1>1, FS_Interval
  <1>5. s \in Surjection(1..Cardinality(S), S)
    BY <1>3, <1>4, FS_Injection
  <1> QED
    BY <1>2, <1>5 DEF Surjection, Range

-----------------------------------------------------------------------------
\* Retrieval's evidence, or the one node without it, begins the walk.
LEMMA InitInv == Init => IInv
  <1> SUFFICES ASSUME Init PROVE IInv
    OBVIOUS
  <1>1. initial \subseteq Answerable /\ IsFiniteSet(initial) /\ selected \subseteq Answerable
    <2>1. initial \subseteq Answerable /\ selected \subseteq Answerable
      BY ConstantsAssumption DEF Init, Start
    <2> QED
      BY <2>1, ConstantsAssumption, FS_Subset
  <1>2. frontier \in Seq(initial) /\ Range(frontier) = initial
    BY <1>1, EnumeratesAll DEF Init
  <1>3. Range(expanded) = {} /\ Range(accepted) = {}
    BY DEF Init, Range
  <1>4. frontier \in Seq(Answerable)
    BY <1>1, <1>2, SeqMonotonic
  <1>5. TypeOK
    BY <1>1, <1>4, ConstantsAssumption DEF Init, TypeOK
  <1>6. JudgedOnce
    BY <1>3 DEF Init, JudgedOnce, NoRepeats, IsInjective
  <1>7. Begun
    BY <1>2, <1>3 DEF Init, Begun, Start
  <1>8. AcceptedIsConnected
    BY DEF Init, AcceptedIsConnected
  <1> QED
    BY <1>2, <1>3, <1>5, <1>6, <1>7, <1>8 DEF Init, IInv, Selected, Offered, Queued

\* Expanding takes the first live node of the frontier and offers what is
\* new next to it.
LEMMA ExpandKeeps ==
  ASSUME IInv, Expand PROVE IInv'
  <1>1. PICK p \in Live, n \in Answerable :
          /\ n = frontier[p]
          /\ \A q \in Live : p <= q
          /\ frontier' = SubSeq(frontier, p + 1, Len(frontier))
          /\ expanded' = Append(expanded, n)
          /\ candidates' \in Fitting(CandidatesAt(n), Remaining)
          /\ pruned' = pruned \cup (CandidatesAt(n) \ candidates')
    <2>1. \A p \in Live : frontier[p] \in Answerable
      BY ElementOfSeq, LenProperties DEF Live, IInv, TypeOK
    <2> QED
      BY <2>1 DEF Expand
  <1> DEFINE around == CandidatesAt(n)
  <1>2. /\ p \in DOMAIN frontier
        /\ n \in Range(frontier) /\ n \notin Range(expanded) \cup pruned
    BY <1>1 DEF Live, Range
  <1>3. /\ frontier' \in Seq(Answerable)
        /\ Range(frontier') \subseteq Range(frontier)
        /\ \A q \in DOMAIN frontier : q <= p \/ frontier[q] \in Range(frontier')
    BY <1>1, <1>2, DropFirst DEF IInv, TypeOK
  <1>4. /\ expanded' \in Seq(Answerable)
        /\ Range(expanded') = Range(expanded) \cup {n}
        /\ NoRepeats(expanded')
    BY <1>1, <1>2, AppendNew DEF IInv, TypeOK, JudgedOnce
  <1>5. candidates' \subseteq around
    BY <1>1 DEF Fitting
  <1>6. /\ around \subseteq Answerable /\ around \subseteq Neighbors(n)
        /\ around \cap (selected \cup Range(expanded') \cup pruned) = {}
    BY <1>4 DEF CandidatesAt
  <1>7. initial \subseteq selected \cup Range(expanded')
    BY <1>2, <1>4 DEF Expand, IInv, Begun
  <1>8. /\ phase = "expand" /\ phase' \in {"decide", "budget"}
        /\ UNCHANGED <<edges, initial, accepted, selected, spent>>
        /\ pruned' = pruned \cup (around \ candidates')
        /\ Len(expanded) < MaxSteps
    BY <1>1 DEF Expand
  <1> HIDE DEF around
  <1>9. TypeOK'
    <2>1. Len(expanded') <= MaxSteps
      BY <1>1, <1>2, <1>8, AppendProperties, LenProperties, ConstantsAssumption
      DEF IInv, TypeOK
    <2> QED
      BY <1>3, <1>4, <1>5, <1>6, <1>8, <2>1 DEF IInv, TypeOK
  <1>10. JudgedOnce'
    BY <1>2, <1>4, <1>6, <1>7, <1>8 DEF IInv, JudgedOnce, Selected
  <1>11. Begun' /\ Selected'
    BY <1>7, <1>8 DEF IInv, Begun, Selected
  <1>12. n \in initial \cup Range(accepted)
    BY <1>2 DEF IInv, Queued
  <1>13. Offered'
    <2>1. candidates' \subseteq Neighbors(n)'
      BY <1>5, <1>6, <1>8 DEF Neighbors
    <2>2. n \in initial' \cup Range(accepted')
      BY <1>8, <1>12
    <2> QED
      BY <1>5, <1>6, <1>7, <1>8, <2>1, <2>2 DEF Offered
  <1>14. Queued'
    <2> SUFFICES ASSUME NEW m \in initial \cup Range(accepted),
                        m \notin Range(frontier'), m \notin Range(expanded)
                 PROVE  m = n
      BY <1>3, <1>4, <1>8 DEF IInv, Queued
    <2>1. PICK q \in DOMAIN frontier : frontier[q] = m
      BY DEF IInv, Queued, Range
    <2>2. q <= p
      BY <1>3, <2>1
    <2>3. m \notin pruned
      BY DEF IInv, JudgedOnce
    <2>4. q \in Live
      BY <2>1, <2>3 DEF Live
    <2>5. p = q
      BY <1>1, <1>2, <2>2, <2>4, LenProperties DEF IInv, TypeOK
    <2> QED
      BY <1>1, <2>1, <2>5
  <1>15. AcceptedIsConnected'
    BY <1>8 DEF IInv, AcceptedIsConnected, Neighbors
  <1> QED
    BY <1>9, <1>10, <1>11, <1>13, <1>14, <1>15 DEF IInv

\* An accepted candidate is next to something known and is put in front.
LEMMA AcceptKeeps ==
  ASSUME IInv, NEW n \in Nodes, Accept(n) PROVE IInv'
  <1>1. /\ n \in Answerable /\ n \in candidates
        /\ n \notin selected \cup Range(expanded) \cup pruned \cup initial
        /\ n \notin Range(accepted)
    BY DEF Accept, IInv, TypeOK, Offered, Selected
  <1>2. /\ accepted' \in Seq(Answerable)
        /\ Range(accepted') = Range(accepted) \cup {n}
        /\ NoRepeats(accepted')
    BY <1>1, AppendNew DEF Accept, IInv, TypeOK, JudgedOnce
  <1>3. /\ frontier' \in Seq(Answerable)
        /\ Range(frontier') = {n} \cup Range(frontier)
    <2> DEFINE head == <<n>>
    <2>1. head \in Seq(Answerable) /\ Range(head) = {n}
      BY <1>1 DEF Range
    <2>2. frontier' = head \o frontier /\ frontier \in Seq(Answerable)
      BY DEF Accept, Enqueue, IInv, TypeOK
    <2> HIDE DEF head
    <2>3. /\ head \o frontier \in Seq(Answerable)
          /\ Range(head \o frontier) = Range(head) \cup Range(frontier)
      BY <2>1, <2>2, ConcatProperties, RangeConcatenation
    <2> QED
      BY <2>1, <2>2, <2>3
  <1>4. TypeOK'
    BY <1>1, <1>2, <1>3, ConstantsAssumption DEF Accept, Remaining, IInv, TypeOK
  <1>5. JudgedOnce'
    BY <1>1, <1>2 DEF Accept, IInv, JudgedOnce
  <1>6. Selected' /\ Begun' /\ Offered'
    BY <1>2 DEF Accept, IInv, Selected, Begun, Offered
  <1>7. Queued'
    BY <1>2, <1>3 DEF Accept, IInv, Queued
  <1>8. AcceptedIsConnected'
    <2>1. PICK m \in initial \cup Range(accepted) : n \in Neighbors(m)
      BY <1>1 DEF Accept, IInv, Offered
    <2>2. m \in Nodes /\ m \in Neighbors(n)
      BY <2>1, ConstantsAssumption, RangeOfSeq DEF IInv, TypeOK, Neighbors
    <2>3. /\ Len(accepted) \in Nat /\ DOMAIN accepted = 1..Len(accepted)
          /\ Len(accepted') = Len(accepted) + 1
          /\ DOMAIN accepted' = 1..(Len(accepted) + 1)
          /\ \A q \in 1..Len(accepted) : accepted'[q] = accepted[q]
          /\ accepted'[Len(accepted) + 1] = n
      BY <1>1, <1>2, AppendProperties, LenProperties DEF Accept, IInv, TypeOK
    <2> SUFFICES ASSUME NEW p \in 1..(Len(accepted) + 1)
                 PROVE  Neighbors(accepted'[p])
                          \cap (initial \cup {accepted'[q] : q \in 1..(p - 1)}) # {}
      BY <2>3 DEF Accept, AcceptedIsConnected, Neighbors
    <2>4. CASE p = Len(accepted) + 1
      <3>1. m \in initial \cup {accepted'[q] : q \in 1..(p - 1)}
        BY <2>3, <2>4 DEF Range
      <3> QED
        BY <2>2, <2>3, <2>4, <3>1
    <2>5. CASE p <= Len(accepted)
      <3>1. {accepted'[q] : q \in 1..(p - 1)} = {accepted[q] : q \in 1..(p - 1)}
        BY <2>3, <2>5
      <3> QED
        BY <2>3, <2>5, <3>1 DEF IInv, AcceptedIsConnected
    <2> QED
      BY <2>3, <2>4, <2>5
  <1> QED
    BY <1>4, <1>5, <1>6, <1>7, <1>8 DEF IInv

\* A pruned candidate was neither expanded nor accepted before.
LEMMA PruneKeeps ==
  ASSUME IInv, NEW n \in Nodes, Prune(n) PROVE IInv'
  <1>1. /\ n \in Answerable
        /\ n \notin selected \cup Range(expanded) \cup pruned \cup initial
        /\ n \notin Range(accepted)
    BY DEF Prune, IInv, TypeOK, Offered, Selected
  <1>2. TypeOK'
    BY <1>1 DEF Prune, IInv, TypeOK
  <1>3. JudgedOnce'
    BY <1>1 DEF Prune, IInv, JudgedOnce
  <1> QED
    BY <1>2, <1>3
    DEF Prune, IInv, Selected, Begun, Offered, Queued, AcceptedIsConnected, Neighbors

\* The answer keeps a part of what was selected.
LEMMA AnswerKeeps ==
  ASSUME IInv, Answer PROVE IInv'
  <1>1. selected' \subseteq selected
    BY DEF Answer, Fitting
  <1>2. TypeOK'
    BY <1>1 DEF Answer, IInv, TypeOK
  <1>3. AcceptedIsConnected'
    BY DEF Answer, IInv, AcceptedIsConnected, Neighbors
  <1>4. JudgedOnce' /\ Queued'
    BY DEF Answer, IInv, JudgedOnce, Queued
  <1> QED
    BY <1>2, <1>3, <1>4 DEF Answer, IInv, Selected, Begun, Offered

\* The remaining steps change the phase alone.
LEMMA OthersKeep ==
  ASSUME IInv, Exhausted \/ DecideNothing \/ Stop \/ UNCHANGED vars PROVE IInv'
  <1>1. /\ UNCHANGED <<edges, initial, frontier, expanded, accepted, pruned, candidates,
                       selected, spent>>
        /\ \/ phase' = phase
           \/ phase = "expand" /\ phase' = "budget"
           \/ phase = "decide" /\ phase' \in {"expand", "budget"}
    BY DEF Exhausted, DecideNothing, Stop, vars
  <1>2. TypeOK'
    BY <1>1 DEF IInv, TypeOK
  <1>3. AcceptedIsConnected'
    BY <1>1 DEF IInv, AcceptedIsConnected, Neighbors
  <1>4. JudgedOnce' /\ Queued' /\ Selected'
    BY <1>1 DEF IInv, JudgedOnce, Queued, Selected
  <1>5. Begun'
    BY <1>1 DEF IInv, Begun
  <1>6. Offered'
    BY <1>1 DEF IInv, Offered, Neighbors
  <1> QED
    BY <1>2, <1>3, <1>4, <1>5, <1>6 DEF IInv

-----------------------------------------------------------------------------
(***************************************************************************)
(* The invariant holds in every state of a walk.                           *)
(***************************************************************************)
THEOREM Inductive == Spec => []IInv
  <1>1. IInv /\ [Next]_vars => IInv'
    BY ExpandKeeps, AcceptKeeps, PruneKeeps, AnswerKeeps, OthersKeep DEF Next
  <1> QED
    BY <1>1, InitInv, PTL DEF Spec

(***************************************************************************)
(* Only answerable nodes are visited, in at most MaxSteps expansions and   *)
(* MaxTokens tokens, whatever the policy decides.                          *)
(***************************************************************************)
THEOREM TypeCorrect == Spec => []TypeOK
  BY Inductive, PTL DEF IInv

(***************************************************************************)
(* No node is accepted or expanded twice, or pruned and one of them, and   *)
(* nothing is accepted that the walk started from.                         *)
(***************************************************************************)
THEOREM JudgedOnceCorrect == Spec => []JudgedOnce
  BY Inductive, PTL DEF IInv

(***************************************************************************)
(* Each accepted node is next to the start or to one accepted before it,   *)
(* and a walk that ends by itself has explored all of them.                *)
(***************************************************************************)
THEOREM WalkIsConnectedCorrect == Spec => []WalkIsConnected
  <1>1. IInv => ExploresWhatItAccepts
    <2> SUFFICES ASSUME IInv, Live = {}, NEW m \in initial \cup Range(accepted)
                 PROVE  m \in Range(expanded)
      BY DEF ExploresWhatItAccepts
    <2> SUFFICES ASSUME NEW p \in DOMAIN frontier, frontier[p] = m
                 PROVE  m \in Range(expanded)
      BY DEF IInv, Queued, Range
    <2>1. m \notin pruned
      BY DEF IInv, JudgedOnce
    <2> QED
      BY <2>1 DEF Live
  <1>2. IInv => WalkIsConnected
    BY <1>1 DEF IInv, WalkIsConnected
  <1> QED
    BY <1>2, Inductive, PTL

-----------------------------------------------------------------------------
(* Tokens. *)

\* A node more costs what it is estimated at.
LEMMA TokensOfOneMore ==
  ASSUME NEW S \in SUBSET Nodes, NEW n \in Nodes, n \notin S
  PROVE  /\ TokensOf(S) \in Nat
         /\ TokensOf(S \cup {n}) = TokensOf(S) + Tokens[n]
  <1> DEFINE tokens == [m \in Nodes |-> {m} \X (1..Tokens[m])]
             parts == {tokens[m] : m \in S}
  <1>1. \A m \in Nodes : /\ IsFiniteSet(tokens[m])
                         /\ Cardinality(tokens[m]) = Tokens[m]
    <2> SUFFICES ASSUME NEW m \in Nodes
                 PROVE  /\ IsFiniteSet({m} \X (1..Tokens[m]))
                        /\ Cardinality({m} \X (1..Tokens[m])) = Tokens[m]
      OBVIOUS
    <2>1. Tokens[m] \in Nat \ {0}
      BY ConstantsAssumption
    <2>2. IsFiniteSet(1..Tokens[m]) /\ Cardinality(1..Tokens[m]) = Tokens[m]
      BY <2>1, FS_Interval
    <2>3. IsFiniteSet({m}) /\ Cardinality({m}) = 1
      BY FS_Singleton
    <2>4. /\ IsFiniteSet({m} \X (1..Tokens[m]))
          /\ Cardinality({m} \X (1..Tokens[m])) = Cardinality({m}) * Cardinality(1..Tokens[m])
      BY <2>2, <2>3, FS_Product
    <2>5. 1 * Tokens[m] = Tokens[m]
      BY <2>1
    <2> QED
      BY <2>2, <2>3, <2>4, <2>5
  <1>2. IsFiniteSet(S)
    BY ConstantsAssumption, FS_Subset
  <1>3. IsFiniteSet(parts)
    <2>1. [m \in S |-> tokens[m]] \in Surjection(S, parts)
      BY DEF Surjection
    <2> QED
      BY <1>2, <2>1, FS_Surjection
  <1>4. IsFiniteSet(UNION parts)
    BY <1>1, <1>3, FS_UNION
  <1>5. UNION {tokens[m] : m \in S \cup {n}} = (UNION parts) \cup tokens[n]
    <2>1. {tokens[m] : m \in S \cup {n}} = parts \cup {tokens[n]}
      <3> HIDE DEF tokens
      <3> QED
        OBVIOUS
    <2> HIDE DEF tokens, parts
    <2> QED
      BY <2>1
  <1>6. (UNION parts) \cap tokens[n] = {}
    <2> SUFFICES ASSUME NEW m \in S, NEW t \in tokens[m], t \in tokens[n] PROVE FALSE
      OBVIOUS
    <2>1. t[1] = m
      OBVIOUS
    <2>2. t[1] = n
      OBVIOUS
    <2> QED
      BY <2>1, <2>2
  <1>7. /\ TokensOf(S) = Cardinality(UNION parts)
        /\ TokensOf(S \cup {n}) = Cardinality(UNION {tokens[m] : m \in S \cup {n}})
    <2>1. UNION parts = UNION {{m} \X (1..Tokens[m]) : m \in S}
      OBVIOUS
    <2>2. UNION {tokens[m] : m \in S \cup {n}}
            = UNION {{m} \X (1..Tokens[m]) : m \in S \cup {n}}
      OBVIOUS
    <2> QED
      BY <2>1, <2>2 DEF TokensOf
  <1> HIDE DEF tokens, parts
  <1>8. Cardinality((UNION parts) \cup tokens[n])
          = Cardinality(UNION parts) + Tokens[n]
    <2>1. Cardinality((UNION parts) \cup tokens[n])
            = Cardinality(UNION parts) + Cardinality(tokens[n]) - Cardinality({})
      BY <1>1, <1>4, <1>6, FS_Union
    <2>2. Cardinality({}) = 0 /\ Cardinality(tokens[n]) = Tokens[n] /\ Tokens[n] \in Nat
      BY <1>1, FS_EmptySet, ConstantsAssumption
    <2>3. Cardinality(UNION parts) \in Nat
      BY <1>4, FS_CardinalityType
    <2> QED
      BY <2>1, <2>2, <2>3
  <1>9. Cardinality(UNION parts) \in Nat
    BY <1>4, FS_CardinalityType
  <1> QED
    BY <1>5, <1>7, <1>8, <1>9

LEMMA TokensOfNone == TokensOf({}) = 0
  <1>1. UNION {{n} \X (1..Tokens[n]) : n \in {}} = {}
    OBVIOUS
  <1> QED
    BY <1>1, FS_EmptySet DEF TokensOf

(***************************************************************************)
(* A walk spends what the accepted nodes cost, no more than its budget,    *)
(* and judges no node twice, for every estimate of the tokens.             *)
(***************************************************************************)
THEOREM WalkIsBoundedCorrect == Spec => []WalkIsBounded
  <1> DEFINE Paid == spent = TokensOf(Range(accepted))
  <1>1. Init => Paid
    <2>1. Init => Range(accepted) = {} /\ spent = 0
      BY DEF Init, Range
    <2> QED
      BY <2>1, TokensOfNone
  <1>2. IInv /\ Paid /\ [Next]_vars => Paid'
    <2> SUFFICES ASSUME IInv, Paid, [Next]_vars PROVE Paid'
      OBVIOUS
    <2>1. CASE \E n \in Nodes : Accept(n)
      <3>1. PICK n \in Nodes : Accept(n)
        BY <2>1
      <3>2. n \in Answerable /\ n \notin Range(accepted)
        BY <3>1 DEF Accept, IInv, TypeOK, Offered, Selected
      <3>3. Range(accepted') = Range(accepted) \cup {n}
        BY <3>1, <3>2, AppendNew DEF Accept, IInv, TypeOK
      <3>4. Range(accepted) \in SUBSET Nodes
        BY ConstantsAssumption, RangeOfSeq DEF IInv, TypeOK
      <3>5. TokensOf(Range(accepted) \cup {n}) = TokensOf(Range(accepted)) + Tokens[n]
        BY <3>2, <3>4, TokensOfOneMore
      <3>6. spent' = spent + Tokens[n]
        BY <3>1 DEF Accept
      <3> QED
        BY <3>3, <3>5, <3>6
    <2>2. CASE UNCHANGED <<accepted, spent>>
      BY <2>2
    <2> QED
      BY <2>1, <2>2 DEF Next, vars, Expand, Exhausted, Prune, DecideNothing, Stop, Answer
  <1>3. IInv /\ Paid => WalkIsBounded
    BY ConstantsAssumption DEF IInv, TypeOK, WalkIsBounded, SpendsWithinBudget
  <1> QED
    BY <1>1, <1>2, <1>3, Inductive, PTL DEF Spec
=============================================================================
