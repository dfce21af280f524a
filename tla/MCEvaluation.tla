---------------------------- MODULE MCEvaluation ----------------------------
(***************************************************************************)
(* Suites for TLC: isolated ones whose later cases have events observed    *)
(* before those of earlier cases, a shared one, cases in a project they    *)
(* name, be it another case's own, and suites that are refused.            *)
(***************************************************************************)
EXTENDS Evaluation

Event(text, at) == [text |-> text, at |-> at]

Plain(id, events, expected) ==
  [id |-> id, project |-> "", events |-> events, expected |-> expected,
   asOf |-> None, baseline |-> None, tier |-> "any", ability |-> "recall"]

Two == Plain("a", <<Event("x", None), Event("y", None)>>, <<"x", "y">>)
Early == [Plain("b", <<Event("x", 0)>>, <<"x">>) EXCEPT !.baseline = 2, !.ability = "update"]
Gated == [Plain("c", <<Event("y", None), Event("x", 12)>>, <<"x", "y">>)
            EXCEPT !.tier = "activation", !.baseline = 1, !.asOf = 12]
Named == [Plain("d", <<Event("x", None)>>, <<"y">>) EXCEPT !.project = "suite"]
Intruder == [Plain("e", <<Event("y", 1)>>, <<"x">>) EXCEPT !.project = "suite-a"]

MCCaseProject ==
  [id \in {"a", "b", "c", "d", "e"} |->
     CASE id = "a" -> "suite-a" [] id = "b" -> "suite-b" [] id = "c" -> "suite-c"
       [] id = "d" -> "suite-d" [] id = "e" -> "suite-e"]

Suite(shared, cases) == [version |-> ContractVersion, shared |-> shared, cases |-> cases]

MCSuites ==
  {Suite(shared, cases) : shared \in BOOLEAN,
                          cases \in {<<Two, Early, Gated>>, <<Gated, Two>>, <<Two, Named>>,
                                    <<Intruder, Two>>}}
  \cup {Suite(FALSE, <<Two, Two>>), Suite(FALSE, <<>>),
        Suite(FALSE, <<Plain("a", <<Event("x", None)>>, <<>>)>>),
        [Suite(FALSE, <<Two>>) EXCEPT !.version = 2]}
=============================================================================
