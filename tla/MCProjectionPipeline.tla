------------------------ MODULE MCProjectionPipeline ------------------------
(***************************************************************************)
(* Instances of ProjectionPipeline.  Keys: "a" and "b" state plain claims, *)
(* "x" and "y" contradict "a".  The numbers are observed times, so every   *)
(* order of arrival but one makes some row a late arrival.                 *)
(***************************************************************************)
EXTENDS ProjectionPipeline

MCObserved == [k \in Keys |-> CASE k = "a" -> 1 [] k = "b" -> 3 [] k = "x" -> 2 [] k = "y" -> 3]

\* a row that contradicts overlaps most with its own text
Scores(pairs) ==
  [k \in Keys |-> [j \in Keys |->
     IF \E p \in pairs : p[1] = k /\ p[2] = j THEN 2
     ELSE IF k = j /\ \E p \in pairs : p[1] = k THEN 3
     ELSE 0]]

\* x and y each contradict a
MCOverlap == Scores({<<"x", "a">>, <<"y", "a">>})

\* x contradicts a, y contradicts x: a chain of revisions
MCChainOverlap == Scores({<<"x", "a">>, <<"y", "x">>})

\* y contradicts both a and x, and overlaps more with a
MCTwoTargets ==
  [k \in Keys |-> [j \in Keys |->
     CASE k = "y" /\ j = "y" -> 3
       [] k = "y" /\ j = "a" -> 2
       [] k = "y" /\ j = "x" -> 1
       [] OTHER -> 0]]
=============================================================================
