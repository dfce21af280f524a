----------------------------- MODULE MCQueryReads -----------------------------
(***************************************************************************)
(* Row 1 states a fact, rows 2 and 4 both close it, row 3 is a gotcha      *)
(* linked to the fact.  They are projected in any order.  Row 4 is         *)
(* ingested after the known_at of the questions that have one.             *)
(***************************************************************************)
EXTENDS QueryReads

MCObserved == [i \in Rows |-> 10 * i]
MCIngested == [i \in Rows |-> IF i = 4 THEN 60 ELSE 10 * i + 15]
MCKind == [i \in Rows |-> IF i = 3 THEN "gotcha" ELSE "fact"]
MCCloses == [i \in Rows |-> IF i \in {2, 4} THEN 1 ELSE NoRow]
MCFamily == [i \in Rows |-> IF i = 3 THEN "gotcha" ELSE "fact"]
MCLinks == {<<3, 1>>}

Question(intents, allowed, explicit, reconstruct, asOf, known) ==
  [intents |-> intents, allowed |-> allowed, explicit |-> explicit, reconstruct |-> reconstruct,
   fresh |-> known # NoTime, asOf |-> asOf, known |-> known]

(***************************************************************************)
(* A guess that fits and may have to be widened; a guess that misses; an   *)
(* explicit choice; and two views of the past, one of them forced to       *)
(* reconstruct.                                                            *)
(***************************************************************************)
MCQuestions ==
  {Question({"semantic"}, Modes, FALSE, "auto", 50, NoTime),
   Question({"state"}, Modes, FALSE, "off", 30, NoTime),
   Question({"semantic"}, Modes, FALSE, "off", 50, 30),
   Question({}, {"semantic", "gotcha"}, TRUE, "force", 30, 50)}
===============================================================================
