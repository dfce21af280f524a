-------------------------- MODULE ProjectionContract --------------------------
(***************************************************************************)
(* What the write side promises, without workers, transactions, batches or *)
(* late replay: a ledger that only grows, and for each row whether its     *)
(* memories are in the projection.  A row is folded in once; a rebuild     *)
(* replaces the whole projection at once and leaves no gap, that is, a row *)
(* it drops was observed after every row it keeps.                         *)
(***************************************************************************)
EXTENDS Integers, Sequences

CONSTANTS Keys, Observed, MaxEvents

VARIABLES
  ledger,   \* the idempotency key of each row
  folded    \* how often each row is folded into the projection

vars == <<ledger, folded>>

Ids == 1..MaxEvents

Rows == 1..Len(ledger)

Before(i, j) ==
  LET oi == Observed[ledger[i]]
      oj == Observed[ledger[j]]
  IN  oi < oj \/ (oi = oj /\ i < j)

Init ==
  /\ ledger = <<>>
  /\ folded = [i \in Ids |-> 0]

Ingest(k) ==
  /\ Len(ledger) < MaxEvents
  /\ \A i \in Rows : ledger[i] # k
  /\ ledger' = Append(ledger, k)
  /\ UNCHANGED folded

FoldOne(i) ==
  /\ i \in Rows
  /\ folded[i] = 0
  /\ folded' = [folded EXCEPT ![i] = 1]
  /\ UNCHANGED ledger

LeavesNoGap(S) ==
  \A i \in S, j \in Rows : folded[j] = 1 /\ Before(j, i) => j \in S

Replay(S) ==
  /\ LeavesNoGap(S)
  /\ folded' = [i \in Ids |-> IF i \in S THEN 1 ELSE 0]
  /\ UNCHANGED ledger

Next ==
  \/ \E k \in Keys : Ingest(k)
  \/ \E i \in Ids : FoldOne(i)
  \/ \E S \in SUBSET Rows : Replay(S)

Spec == Init /\ [][Next]_vars

\* someone keeps folding what is pending
FairSpec == Spec /\ \A i \in Ids : WF_vars(FoldOne(i))
===============================================================================
