------------------------------ MODULE Imports ------------------------------
(***************************************************************************)
(* What the two importers of imports.rs make of one item of their file: a  *)
(* line of a canonical JSONL file, or a step of a beater.js journal.       *)
(* Both put the items of a file through one transaction (StoreLifecycle).  *)
(*                                                                         *)
(* A line is [blank, valid, ids, content]: valid stands for JSON that      *)
(* parses and an event that validates, ids for the trace, span and         *)
(* sequence number it names, NoIds if it leaves the trace out.             *)
(* A step has the StepFields.                                              *)
(***************************************************************************)
EXTENDS Integers, Sequences

StepFields == {"run", "seq", "use", "kind", "tool", "status", "valid"}

NoIds == <<>>
NoUse == "none"

\* What becomes of an item: it is not counted, it is counted and skipped,
\* it fails the import, or it is the event with this key.
Ignored == <<"ignored">>
Skip    == <<"skip">>
Bad     == <<"bad">>
Event(key) == <<"event", key>>

IsEvent(outcome) == outcome[1] = "event"

\* The idempotency key of a line: a line without ids is known by a hash of
\* its content, with the sequence number 1.
LineKey(line) ==
  IF line.ids = NoIds THEN <<"hash of", line.content, 1>> ELSE line.ids

LineOutcome(line) ==
  CASE line.blank  -> Ignored
    [] ~line.blank /\ ~line.valid -> Bad
    [] OTHER -> Event(LineKey(line))

Succeeded == {"completed", "success"}
Failed    == {"failed", "cancelled"}
Terminal  == Succeeded \cup Failed

SpanKind(step) ==
  CASE step.kind = "llm_call" -> "llm.call"
    [] step.kind = "tool_call" /\ step.tool \in {"memory.read", "memory.write"}
         -> step.tool
    [] step.kind = "tool_call" /\ step.tool \notin {"memory.read", "memory.write"}
         -> "tool.call"
    [] OTHER -> step.kind

\* mutant of Skipped: a step is imported while it is still running
SkipsFailedWritesOnly(step) ==
  SpanKind(step) = "memory.write" /\ step.status \in Failed

\* A step is left for a later import until it has ended, and a write to
\* memory that did not succeed is left for good.
Skipped(step) ==
  \/ step.status \notin Terminal
  \/ SpanKind(step) = "memory.write" /\ step.status \notin Succeeded

\* A step has ended, and if it wrote to memory it did so.
Final(step) ==
  /\ step.status # "running"
  /\ SpanKind(step) = "memory.write" => step.status \in Succeeded

\* A step without a tool use has a span of its own, known by its number.
StepKey(step) ==
  <<step.run, IF step.use = NoUse THEN "step" ELSE step.use, step.seq>>

StepOutcome(step) ==
  CASE Skipped(step) -> Skip
    [] ~Skipped(step) /\ ~step.valid -> Bad
    [] OTHER -> Event(StepKey(step))

JsonlOutcomes(lines) == [i \in DOMAIN lines |-> LineOutcome(lines[i])]
JournalOutcomes(steps) == [i \in DOMAIN steps |-> StepOutcome(steps[i])]

NoReport == [seen |-> 0, skipped |-> 0, inserted |-> 0, duplicate |-> 0]

\* Both reports: a blank line is not seen, everything else that is seen is
\* skipped, inserted or a duplicate.
Reported(report, outcome, isNew) ==
  LET one(b) == IF b THEN 1 ELSE 0
  IN  [seen      |-> report.seen + one(outcome # Ignored),
       skipped   |-> report.skipped + one(outcome = Skip),
       inserted  |-> report.inserted + one(IsEvent(outcome) /\ isNew),
       duplicate |-> report.duplicate + one(IsEvent(outcome) /\ ~isNew)]
=============================================================================
