-------------------------- MODULE MCStoreLifecycle --------------------------
(* Constants of the runs of StoreLifecycle. *)
EXTENDS StoreLifecycle, TLC

NewFile ==
  [app |-> "none", version |-> 0, tables |-> FALSE, columns |-> FALSE,
   ledger |-> {}, projected |-> {}, nodes |-> {}, spans |-> {}, cues |-> {},
   edges |-> {}, unsourced |-> {}, unattributed |-> {},
   audit |-> {}, audits |-> 0, torn |-> {}, shared |-> FALSE]

a == <<"t1", "s1", 1>>
b == <<"t1", "s2", 1>>
c == <<"t2", "s1", 1>>

\* A database of an old version in which two rows were projected; the first
\* was closed by the second.
Old(version) ==
  [NewFile EXCEPT !.app = "memory", !.version = version, !.tables = TRUE,
     !.ledger = {[key |-> k, from |-> <<>>] : k \in {a, b}},
     !.projected = {a, b}, !.nodes = {a, b}, !.spans = {a, b}, !.cues = {a, b},
     !.edges = {<<a, a>>, <<b, b>>, <<b, a>>},
     !.unsourced = {<<a, a>>, <<b, b>>, <<b, a>>},
     !.unattributed = IF version < 3 THEN {a} ELSE {}]

Other == [NewFile EXCEPT !.app = "other", !.version = 1, !.tables = TRUE]
Newest == [Old(Supported + 1) EXCEPT !.columns = TRUE, !.unsourced = {}]

Blank == [blank |-> TRUE, valid |-> FALSE, ids |-> NoIds, content |-> "x"]
Line(ids, content) == [blank |-> FALSE, valid |-> TRUE, ids |-> ids, content |-> content]
MCLines == <<Line(a, "x"), Blank, Line(NoIds, "y"), Line(NoIds, "y")>>

Step(seq, tool, status, valid) ==
  [run |-> "r1", seq |-> seq, use |-> NoUse, kind |-> "tool_call", tool |-> tool,
   status |-> status, valid |-> valid]
MCSteps == <<Step(1, "memory.write", "running", TRUE),
             Step(2, "search", "running", TRUE)>>
BrokenSteps == <<Step(1, "search", "completed", TRUE),
                 [Step(2, "search", "running", FALSE) EXCEPT !.kind = "llm_call"]>>

MCRemembered == {c}
MCRetentions == {[before |-> 1, keep |-> NoBound], [before |-> NoBound, keep |-> 1],
                 [before |-> 1, keep |-> 0]}

Scenario(first, second, limits) ==
  [live |-> first, backup |-> second, steps |-> MCSteps,
   left |-> [o \in Operations |-> IF o \in DOMAIN limits THEN limits[o] ELSE 0]]

\* Upgrades cut short; imports of a growing journal; backups and restores of
\* every kind of file; the audit trail.
MCScenarios ==
  {Scenario(Old(2), Absent, [crash |-> 1, project |-> 1, rebuild |-> 1]),
   Scenario(Old(4), Absent, [crash |-> 1, project |-> 1, maintain |-> 1]),
   Scenario(NewFile, Absent, [crash |-> 1, import |-> 2, journal |-> 2]),
   [Scenario(NewFile, Absent, [crash |-> 1, import |-> 2, journal |-> 1])
      EXCEPT !.steps = BrokenSteps],
   Scenario(NewFile, Absent, [import |-> 1, journal |-> 1, backup |-> 1]),
   Scenario(NewFile, Absent, [import |-> 1, append |-> 1, project |-> 1]),
   Scenario(Old(4), Absent, [backup |-> 1, restore |-> 1, project |-> 1]),
   Scenario(NewFile, Old(4), [restore |-> 1, crash |-> 1, project |-> 1]),
   Scenario(NewFile, Other, [restore |-> 1]),
   Scenario(NewFile, Newest, [restore |-> 1]),
   Scenario(Other, Absent, [append |-> 1]),
   Scenario(Newest, Absent, [append |-> 1]),
   Scenario(NewFile, Absent, [audit |-> 3, clock |-> 2, maintain |-> 1])}

Either == Permutations(Procs)
=============================================================================
