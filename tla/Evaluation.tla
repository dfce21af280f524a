----------------------------- MODULE Evaluation -----------------------------
(***************************************************************************)
(* The evaluation harness (eval.rs): it runs the cases of a suite one after*)
(* another against one in-memory engine: it ingests the events of a case,  *)
(* projects as many pending rows as it ingested, asks the question and     *)
(* judges the answer.                                                      *)
(*                                                                         *)
(* What a distiller makes of a row and what a query finds are left open: a *)
(* row is folded in or rejected and stays pending, an answer cites any rows*)
(* of its scope. Expectations name texts. Scores are in Units of one, so   *)
(* that an average is a sum over cases that count alike.                   *)
(***************************************************************************)
EXTENDS Integers, SequencesExt

CONSTANTS
  Suites,        \* suites to run: [version, shared, cases]
  SuiteProject,  \* the project of a suite
  CaseProject,   \* CaseProject[id]: the project of a case's own, named after a
                 \* hash of 64 bits, which is taken not to collide
  Distillers,    \* "heuristic", which rejects nothing, "command"
  Units          \* a multiple of every number of expectations

ContractVersion == 1
None == -1
Abilities == {"recall", "update"}
Tiers == {"cue_seed", "activation", "active_reconstruction"}

\* What serde accepts as a case; a text or a name may still be empty.
Cases ==
  [id : STRING, project : STRING, events : Seq([text : STRING, at : Int]),
   expected : Seq(STRING), asOf : Int, baseline : Int, tier : Tiers \cup {"any"},
   ability : Abilities]

ASSUME SuitesAssumption ==
  /\ Suites \subseteq [version : Nat, shared : BOOLEAN, cases : Seq(Cases)]
  /\ \A s \in Suites : \A c \in {s.cases[i] : i \in DOMAIN s.cases} :
       /\ c.id \in DOMAIN CaseProject
       /\ c.expected # <<>> => Units % Len(c.expected) = 0
  /\ IsInjective(CaseProject)
  /\ Distillers \subseteq {"heuristic", "command"}
  /\ Units \in Nat \ {0}

VARIABLES
  suite, distiller,
  stage,        \* "start", "refused", "ingest", "project", "query", "reported"
  index,        \* of the case
  ledger,       \* rows: [case, event, project, at, text], by id
  projected,    \* ids of the rows that are folded in
  todo,         \* the pending rows that this project_pending has yet to see
  offered,      \* history: the ids it was given
  seen, counted,\* events_seen and events_projected of the case
  reports,      \* of the cases so far
  report        \* of the suite

vars == <<suite, distiller, stage, index, ledger, projected, todo, offered, seen,
          counted, reports, report>>

case == suite.cases[index]
NoReport == [cases |-> 0]

-----------------------------------------------------------------------------
(* The suite.                                                              *)

\* A case has events and expectations; a baseline is a share.
CaseIsValid(c) ==
  /\ c.events # <<>>
  /\ \A i \in DOMAIN c.events : c.events[i].text # ""
  /\ c.expected # <<>>
  /\ c.asOf >= None
  /\ c.baseline \in {None} \cup 0..Units

SuiteIsValid(s) ==
  /\ s.version = ContractVersion
  /\ s.cases # <<>>
  /\ \A i, j \in DOMAIN s.cases : s.cases[i].id = s.cases[j].id => i = j
  /\ \A i \in DOMAIN s.cases : CaseIsValid(s.cases[i])

\* mutant of Project: cases share a project
SharedProject(s, c) == IF c.project = "" THEN SuiteProject ELSE c.project

\* A case has a project of its own, unless it names one or the suite shares.
Project(s, c) ==
  IF c.project # "" THEN c.project
  ELSE IF s.shared THEN SuiteProject ELSE CaseProject[c.id]

\* The time of an event that has none; seconds, ten of them for a case.
DefaultTime(i, e) == 1 + (i - 1) * 10 + (e - 1)

EventRow(s, i, e) ==
  LET event == s.cases[i].events[e]
  IN  [case |-> i, event |-> e, project |-> Project(s, s.cases[i]),
       at |-> IF event.at = None THEN DefaultTime(i, e) ELSE event.at,
       text |-> event.text]

-----------------------------------------------------------------------------
(* What a query may see and how its answer is judged.                      *)

\* The rows a case can be answered from: its scope's, up to its time.
Visible(s, c) ==
  {id \in projected : /\ ledger[id].project = Project(s, c)
                      /\ c.asOf # None => ledger[id].at <= c.asOf}

Matched(c, found) ==
  {i \in DOMAIN c.expected : \E id \in found : ledger[id].text = c.expected[i]}

\* mutant of Judge: a failed gate does not count against the score
JudgeWithoutGate(c, found, tier) ==
  LET total == Len(c.expected)
      matched == Cardinality(Matched(c, found))
  IN  [total |-> total, matched |-> matched, gateFailed |-> FALSE,
       passed |-> matched = total /\ c.tier \in {"any", tier},
       score |-> IF total = 0 THEN 0 ELSE (matched * Units) \div total]

\* judge_case: every expectation found and, if the case asks for one, the
\* tier; without the tier the score is nothing.
Judge(c, found, tier) ==
  LET total == Len(c.expected)
      matched == Cardinality(Matched(c, found))
      gateFailed == c.tier \notin {"any", tier}
  IN  [total |-> total, matched |-> matched,
       gateFailed |-> gateFailed /\ total > 0,
       passed |-> total > 0 /\ matched = total /\ ~gateFailed,
       score |-> IF gateFailed \/ total = 0 THEN 0 ELSE (matched * Units) \div total]

-----------------------------------------------------------------------------
Start ==
  /\ stage = "start"
  /\ stage' = IF SuiteIsValid(suite) THEN "ingest" ELSE "refused"
  /\ UNCHANGED <<suite, distiller, index, ledger, projected, todo, offered, seen,
                 counted, reports, report>>

Before(rows, a, b) ==
  \/ rows[a].at < rows[b].at
  \/ rows[a].at = rows[b].at /\ a < b

\* mutant of FirstPending: the limit is exclusive
FirstPendingButOne(rows, limit) ==
  LET pending == DOMAIN rows \ projected
      rank(id) == Cardinality({other \in pending : Before(rows, other, id)})
  IN  {id \in pending : rank(id) < limit - 1}

\* pending_events(limit), over the rows of every case.
FirstPending(rows, limit) ==
  LET pending == DOMAIN rows \ projected
      rank(id) == Cardinality({other \in pending : Before(rows, other, id)})
  IN  {id \in pending : rank(id) < limit}

\* ingest_event for each, and project_pending(ingested_events.max(1)).
Ingest ==
  /\ stage = "ingest"
  /\ LET rows == ledger \o [e \in DOMAIN case.events |-> EventRow(suite, index, e)]
         first == FirstPending(rows, Len(case.events))
     IN  /\ ledger' = rows
         /\ offered' = first
         /\ todo' = first
  /\ stage' = "project"
  /\ UNCHANGED <<suite, distiller, index, projected, seen, counted, reports, report>>

ProjectRow(id) ==
  /\ stage = "project"
  /\ id \in todo /\ \A other \in todo \ {id} : Before(ledger, id, other)
  /\ \/ /\ projected' = projected \cup {id}
        /\ counted' = counted + 1
     \/ /\ distiller = "command"
        /\ UNCHANGED <<projected, counted>>
  /\ todo' = todo \ {id}
  /\ seen' = seen + 1
  /\ UNCHANGED <<suite, distiller, stage, index, ledger, offered, reports, report>>

\* mutant of Reported: the counts of a case include those of the cases before
ReportedSoFar(judged, found, tier) ==
  [judged |-> judged, found |-> found, tier |-> tier,
   ability |-> case.ability, baseline |-> case.baseline,
   seen |-> seen, offered |-> offered,
   projected |-> counted + (IF reports = <<>> THEN 0 ELSE Last(reports).projected)]

\* EvalCaseReport; the counts are those of this project_pending.
Reported(judged, found, tier) ==
  [judged |-> judged, found |-> found, tier |-> tier,
   ability |-> case.ability, baseline |-> case.baseline,
   seen |-> seen, offered |-> offered, projected |-> counted]

Ask ==
  /\ stage = "project" /\ todo = {}
  /\ \E found \in SUBSET Visible(suite, case), tier \in Tiers :
       reports' = Append(reports, Reported(Judge(case, found, tier), found, tier))
  /\ seen' = 0 /\ counted' = 0
  /\ offered' = {}
  /\ stage' = IF index < Len(suite.cases) THEN "ingest" ELSE "query"
  /\ index' = IF index < Len(suite.cases) THEN index + 1 ELSE index
  /\ UNCHANGED <<suite, distiller, ledger, projected, todo, report>>

-----------------------------------------------------------------------------
(* The report of the suite.                                                *)

Passed(rs) == Cardinality({i \in rs : reports[i].judged.passed})

AbilitySummary(ability) ==
  LET those == {i \in DOMAIN reports : reports[i].ability = ability}
  IN  [cases |-> Cardinality(those), passed |-> Passed(those)]

TierSummary(tier) ==
  [requests |-> Cardinality({i \in DOMAIN reports : reports[i].tier = tier})]

\* mutant of Compared: every case counts, with a baseline or without
ComparedAll == DOMAIN reports

\* The cases that have a baseline to be compared with.
Compared == {i \in DOMAIN reports : reports[i].baseline # None}

\* context_saturation_gap, times the number of cases compared.
Gap ==
  LET lost(i) == (IF reports[i].baseline = None THEN Units ELSE reports[i].baseline)
                   - reports[i].judged.score
      sum == SumFunction([i \in Compared |-> lost(i)])
  IN  IF sum > 0 THEN sum ELSE 0

Summarise ==
  /\ stage = "query"
  /\ LET passed == Passed(DOMAIN reports)
         cases == DOMAIN reports
         judged == [i \in cases |-> reports[i].judged]
     IN  report' =
           [cases |-> Len(reports), passed |-> passed, failed |-> Len(reports) - passed,
            score |-> SumFunction([i \in cases |-> judged[i].score]),
            total |-> SumFunction([i \in cases |-> judged[i].total]),
            matched |-> SumFunction([i \in cases |-> judged[i].matched]),
            gap |-> IF Compared = {} THEN None ELSE Gap,
            seen |-> SumFunction([i \in cases |-> reports[i].seen]),
            projected |-> SumFunction([i \in cases |-> reports[i].projected]),
            abilities |-> [a \in Abilities |-> AbilitySummary(a)],
            tiers |-> [t \in Tiers |-> TierSummary(t)]]
  /\ stage' = "reported"
  /\ UNCHANGED <<suite, distiller, index, ledger, projected, todo, offered, seen,
                 counted, reports>>

Init ==
  /\ suite \in Suites
  /\ distiller \in Distillers
  /\ stage = "start" /\ index = 1
  /\ ledger = <<>> /\ projected = {} /\ todo = {} /\ offered = {}
  /\ seen = 0 /\ counted = 0 /\ reports = <<>>
  /\ report = NoReport

Next == Start \/ Ingest \/ (\E id \in todo : ProjectRow(id)) \/ Ask \/ Summarise

Spec == Init /\ [][Next]_vars

-----------------------------------------------------------------------------
TypeOK ==
  /\ stage \in {"start", "refused", "ingest", "project", "query", "reported"}
  /\ index \in 1..Len(suite.cases) + 1
  /\ projected \subseteq DOMAIN ledger
  /\ offered \subseteq DOMAIN ledger
  /\ seen \in Nat /\ counted \in 0..seen
  /\ \A i \in DOMAIN reports : /\ reports[i].judged.score \in 0..Units
                              /\ reports[i].projected \in 0..reports[i].seen

OwnRows(i) == {id \in DOMAIN ledger : ledger[id].case = i}

\* A case is asked after all of its own events were shown to the distiller. The
\* exception: rows that were rejected stay pending and, observed earlier, take
\* up the limit, which counts the case's new events only; so one rejected row
\* keeps one row of every later case out of the graph
\* (run_eval_suite_with_source_and_runtime, project_pending).
OwnRowsAreOffered ==
  \A i \in DOMAIN reports :
    LET missed == OwnRows(i) \ reports[i].offered
        others == reports[i].offered \ OwnRows(i)
    IN  /\ Cardinality(missed) = Cardinality(others)
        /\ \A id \in others : /\ ledger[id].case < i
                              /\ \A own \in missed : Before(ledger, id, own)
        /\ distiller = "heuristic" => missed = {}

\* A case without a shared project is answered from its own events alone,
\* whatever earlier cases left in the engine, unless some case names that very
\* project (case_scope).
CasesAreIsolated ==
  \A i \in DOMAIN reports :
    /\ ~suite.shared /\ suite.cases[i].project = ""
    /\ \A j \in DOMAIN suite.cases : suite.cases[j].project # Project(suite, suite.cases[i])
    => reports[i].found \subseteq OwnRows(i)

\* A case passes exactly if it has the full score: no failed gate leaves a
\* share of the score, and none is passed that expected nothing (judge_case
\* with validate_suite).
PassIsFullScore ==
  \A i \in DOMAIN reports :
    LET judged == reports[i].judged
    IN  /\ judged.total > 0
        /\ judged.passed <=> judged.score = Units
        /\ judged.gateFailed => judged.score = 0

\* The summary counts every case once, by outcome, by ability and by tier, and
\* every row that is in the graph once, however often rows were offered
\* (ability_summaries, tier_summaries, absorb_project_report).
ReportAddsUp ==
  stage = "reported" =>
    LET abilities == report.abilities
    IN  /\ report.cases = Len(suite.cases)
        /\ report.cases = SumFunction([a \in Abilities |-> abilities[a].cases])
        /\ report.cases = SumFunction([t \in Tiers |-> report.tiers[t].requests])
        /\ report.passed = SumFunction([a \in Abilities |-> abilities[a].passed])
        /\ report.passed + report.failed = report.cases
        /\ report.projected = Cardinality(projected)
        /\ report.seen >= report.projected
        /\ report.failed = 0 <=> report.score = Units * report.cases
        /\ report.failed = 0 => report.matched = report.total /\ report.gap \in {None, 0}

\* A suite that is no worse than its baselines in any case has no gap, and one
\* that has a gap is worse in some case that has a baseline.
GapNeedsALoss ==
  stage = "reported" =>
    /\ report.gap = None <=> \A i \in DOMAIN suite.cases : suite.cases[i].baseline = None
    /\ report.gap > 0 => \E i \in DOMAIN reports :
         suite.cases[i].baseline > reports[i].judged.score

\* The report says what the cases did (run_eval_suite_with_source_and_runtime).
ReportIsTrue == TypeOK /\ PassIsFullScore /\ ReportAddsUp /\ GapNeedsALoss
=============================================================================
