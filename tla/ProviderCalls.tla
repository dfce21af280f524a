--------------------------- MODULE ProviderCalls ---------------------------
(***************************************************************************)
(* One decision that a command provider makes, with the processes, threads *)
(* and pipes behind each call. style is "pipes" for a distillation, whose  *)
(* output comes through a pipe that is read after the exit and whose       *)
(* malformed answers are sent back for repair (distill.rs), and "files"    *)
(* for a reconstruction step, whose output goes to a file and which is     *)
(* asked once (reconstruct.rs).                                            *)
(*                                                                         *)
(* The command may do what it likes: not read, write much, exit early or   *)
(* never, leave a helper behind, in its process group or out of it, that   *)
(* holds its pipes. Bytes are counted in units of a pipe's capacity.       *)
(***************************************************************************)
EXTENDS Integers

CONSTANTS
  Input,        \* how much the caller sends
  Output,       \* how much the command writes at most
  Capacity,     \* what a pipe holds
  MaxRepairs    \* max_repairs of the distiller

ASSUME SizesAssumption ==
  Input \in Nat /\ Output \in Nat /\ Capacity \in Nat \ {0} /\ MaxRepairs \in Nat

VARIABLES
  style,        \* "pipes" or "files"
  caller,       \* where the caller is
  child,        \* the command: "none", "running", or how it ended
  helper,       \* what the command left behind: [state, inGroup, holds]
  writer,       \* the stdin thread: "none", "writing", "done", "broken"
  sent, stdin,  \* what the writer sent, what of it is in the pipe
  wrote, stdout,\* what the command wrote, what of it is in the pipe
  collected,    \* what the caller has read of it
  reaped,       \* the caller has seen the exit
  overdue,      \* the deadline has passed
  answer,       \* of the call: "none", "output" or "error"
  metrics,      \* DistillMetrics, ReconstructionMetrics
  outcome       \* of the decision: "none", "accepted" or "rejected"

call == <<child, helper, writer, sent, stdin, wrote, stdout, collected, reaped,
          overdue, answer>>
vars == <<style, caller, call, metrics, outcome>>

NoHelper == [state |-> "none", inGroup |-> FALSE, holds |-> {}]
NoMetrics == [calls |-> 0, repairs |-> 0, repaired |-> 0, providerErrors |-> 0,
              schemaErrors |-> 0, rejectedOutputs |-> 0]

Exited == child \in {"ok", "failed", "killed"}
HelperHolds(pipe) == helper.state = "running" /\ pipe \in helper.holds
StdinIsRead == child = "running" \/ HelperHolds("stdin")
StdoutIsOpen == child = "running" \/ HelperHolds("stdout")
WriterIsFinished == writer \in {"done", "broken"}

\* terminate_child: SIGKILL to the process group.
TerminateGroup ==
  /\ child' = IF child = "running" THEN "killed" ELSE child
  /\ helper' = IF helper.state = "running" /\ helper.inGroup
               THEN [helper EXCEPT !.state = "gone"] ELSE helper

-----------------------------------------------------------------------------
(* The caller: run of distill.rs, decide of reconstruct.rs.                *)

\* The command cannot be started, or it is, with the thread that feeds it.
Spawn ==
  /\ caller = "start"
  /\ \/ /\ caller' = "answered" /\ answer' = "error"
        /\ UNCHANGED <<child, writer>>
     \/ /\ caller' = "polling" /\ child' = "running" /\ writer' = "writing"
        /\ UNCHANGED answer
  /\ UNCHANGED <<style, helper, sent, stdin, wrote, stdout, collected, reaped,
                 overdue, metrics, outcome>>

\* mutant of TryWait: what the command left behind is not killed at its exit
TryWaitLeavesGroup ==
  /\ caller = "polling"
  /\ reaped' = Exited
  /\ caller' = IF style = "pipes" /\ Exited THEN "collecting" ELSE "checking"
  /\ UNCHANGED <<style, child, helper, writer, sent, stdin, wrote, stdout, collected,
                 overdue, answer, metrics, outcome>>

\* try_wait. After an exit, a distillation reads the pipe; a reconstruction
\* kills what is left of the group.
TryWait ==
  /\ caller = "polling"
  /\ reaped' = Exited
  /\ caller' = IF style = "pipes" /\ Exited THEN "collecting" ELSE "checking"
  /\ IF style = "files" /\ Exited /\ ~reaped THEN TerminateGroup
     ELSE UNCHANGED <<child, helper>>
  /\ UNCHANGED <<style, writer, sent, stdin, wrote, stdout, collected, overdue,
                 answer, metrics, outcome>>

Succeeds == child = "ok" /\ writer = "done"

\* mutant of Judge: the exit status is not looked at
JudgeByWriter == answer' = IF writer = "done" THEN "output" ELSE "error"

\* Output counts if all the input was taken and the status is a success.
Judge == answer' = IF Succeeds THEN "output" ELSE "error"

\* A reconstruction is done when the exit was seen and the writer is finished.
FinishFiles ==
  /\ caller = "checking" /\ style = "files" /\ reaped /\ WriterIsFinished
  /\ caller' = "answered"
  /\ collected' = wrote
  /\ Judge
  /\ UNCHANGED <<style, child, helper, writer, sent, stdin, wrote, stdout, reaped,
                 overdue, metrics, outcome>>

MayFinish == style = "files" /\ reaped /\ WriterIsFinished

\* mutant of PollAgain: the pipe is read while the caller waits
PollAgainReading ==
  /\ caller = "checking" /\ ~overdue /\ ~MayFinish
  /\ caller' = "polling"
  /\ collected' = collected + stdout /\ stdout' = 0
  /\ UNCHANGED <<style, child, helper, writer, sent, stdin, wrote, reaped, overdue,
                 answer, metrics, outcome>>

PollAgain ==
  /\ caller = "checking" /\ ~overdue /\ ~MayFinish
  /\ caller' = "polling"
  /\ UNCHANGED <<style, call, metrics, outcome>>

\* mutant of GiveUp: both join their writer
GiveUpJoining ==
  /\ caller = "checking" /\ overdue /\ ~MayFinish
  /\ TerminateGroup
  /\ answer' = "error"
  /\ caller' = "joining"
  /\ UNCHANGED <<style, writer, sent, stdin, wrote, stdout, collected, reaped,
                 overdue, metrics, outcome>>

\* Past the deadline the group is killed; a distillation then joins its
\* writer, a reconstruction does not.
GiveUp ==
  /\ caller = "checking" /\ overdue /\ ~MayFinish
  /\ TerminateGroup
  /\ answer' = "error"
  /\ caller' = IF style = "pipes" THEN "joining" ELSE "answered"
  /\ UNCHANGED <<style, writer, sent, stdin, wrote, stdout, collected, reaped,
                 overdue, metrics, outcome>>

\* mutant of Collect: what was read is read again
CollectTwice ==
  /\ caller = "collecting"
  /\ stdout > 0 \/ ~StdoutIsOpen
  /\ collected' = collected + stdout
  /\ caller' \in {"collecting", "joining"}
  /\ UNCHANGED <<style, child, helper, writer, sent, stdin, wrote, stdout, reaped,
                 overdue, answer, metrics, outcome>>

\* wait_with_output reads until no one holds the pipe any more.
Collect ==
  /\ caller = "collecting"
  /\ stdout > 0 \/ ~StdoutIsOpen
  /\ collected' = collected + stdout
  /\ stdout' = 0
  /\ caller' = IF stdout > 0 THEN "collecting" ELSE "joining"
  /\ UNCHANGED <<style, child, helper, writer, sent, stdin, wrote, reaped, overdue,
                 answer, metrics, outcome>>

Join ==
  /\ caller = "joining" /\ WriterIsFinished
  /\ caller' = "answered"
  /\ IF answer = "error" THEN UNCHANGED answer ELSE Judge
  /\ UNCHANGED <<style, child, helper, writer, sent, stdin, wrote, stdout, collected,
                 reaped, overdue, metrics, outcome>>

-----------------------------------------------------------------------------
(* The thread that writes stdin, the command, its helper, the clock.       *)

WriterStep ==
  /\ writer = "writing"
  /\ \/ /\ sent = Input
        /\ writer' = "done" /\ UNCHANGED <<sent, stdin>>
     \/ /\ sent < Input /\ ~StdinIsRead
        /\ writer' = "broken" /\ UNCHANGED <<sent, stdin>>
     \/ /\ sent < Input /\ StdinIsRead /\ stdin < Capacity
        /\ sent' = sent + 1 /\ stdin' = stdin + 1 /\ UNCHANGED writer
  /\ UNCHANGED <<style, caller, child, helper, wrote, stdout, collected, reaped,
                 overdue, answer, metrics, outcome>>

ChildReads ==
  /\ child = "running" /\ stdin > 0
  /\ stdin' = stdin - 1
  /\ UNCHANGED <<style, caller, child, helper, writer, sent, wrote, stdout, collected,
                 reaped, overdue, answer, metrics, outcome>>

\* A pipe that is full blocks the command; a file takes all it writes.
ChildWrites ==
  /\ child = "running" /\ wrote < Output
  /\ style = "pipes" => stdout < Capacity
  /\ wrote' = wrote + 1
  /\ stdout' = IF style = "pipes" THEN stdout + 1 ELSE stdout
  /\ UNCHANGED <<style, caller, child, helper, writer, sent, stdin, collected, reaped,
                 overdue, answer, metrics, outcome>>

ChildForks ==
  /\ child = "running" /\ helper = NoHelper
  /\ \E inGroup \in BOOLEAN, holds \in SUBSET {"stdin", "stdout"} :
       helper' = [state |-> "running", inGroup |-> inGroup, holds |-> holds]
  /\ UNCHANGED <<style, caller, child, writer, sent, stdin, wrote, stdout, collected,
                 reaped, overdue, answer, metrics, outcome>>

ChildExits ==
  /\ child = "running"
  /\ child' \in {"ok", "failed"}
  /\ UNCHANGED <<style, caller, helper, writer, sent, stdin, wrote, stdout, collected,
                 reaped, overdue, answer, metrics, outcome>>

HelperExits ==
  /\ helper.state = "running"
  /\ helper' = [helper EXCEPT !.state = "gone"]
  /\ UNCHANGED <<style, caller, child, writer, sent, stdin, wrote, stdout, collected,
                 reaped, overdue, answer, metrics, outcome>>

DeadlinePasses ==
  /\ ~overdue /\ caller \notin {"start", "decided"}
  /\ overdue' = TRUE
  /\ UNCHANGED <<style, caller, child, helper, writer, sent, stdin, wrote, stdout,
                 collected, reaped, answer, metrics, outcome>>

-----------------------------------------------------------------------------
(* The decision: ProviderDistiller::distill, ProviderReconstructor::decide.*)

FreshCall ==
  /\ child' = "none" /\ helper' = NoHelper /\ writer' = "none"
  /\ sent' = 0 /\ stdin' = 0 /\ wrote' = 0 /\ stdout' = 0 /\ collected' = 0
  /\ reaped' = FALSE /\ overdue' = FALSE /\ answer' = "none"

Decide(result, counted) ==
  /\ caller' = "decided" /\ outcome' = result /\ metrics' = counted
  /\ UNCHANGED <<style, call>>

\* Only a distillation counts what it rejects.
Rejecting(counted) ==
  IF style = "pipes" THEN [counted EXCEPT !.rejectedOutputs = @ + 1] ELSE counted

CallFailed ==
  /\ caller = "answered" /\ answer = "error"
  /\ Decide("rejected", Rejecting([metrics EXCEPT !.providerErrors = @ + 1]))

AnswerAccepted ==
  /\ caller = "answered" /\ answer = "output"
  /\ Decide("accepted", [metrics EXCEPT !.repaired = IF metrics.repairs > 0 THEN 1 ELSE @])

MayRepair == style = "pipes" /\ metrics.repairs < MaxRepairs

\* mutant of AnswerMalformed: the bound of the repairs is off by one
RepairOnceMore ==
  /\ caller = "answered" /\ answer = "output"
  /\ LET counted == [metrics EXCEPT !.schemaErrors = @ + 1]
     IN  IF style = "pipes" /\ metrics.repairs <= MaxRepairs
         THEN /\ metrics' = [counted EXCEPT !.repairs = @ + 1, !.calls = @ + 1]
              /\ caller' = "start"
              /\ FreshCall
              /\ UNCHANGED <<style, outcome>>
         ELSE Decide("rejected", Rejecting(counted))

\* An answer that does not parse or validate is sent back while repairs last.
AnswerMalformed ==
  /\ caller = "answered" /\ answer = "output"
  /\ LET counted == [metrics EXCEPT !.schemaErrors = @ + 1]
     IN  IF MayRepair
         THEN /\ metrics' = [counted EXCEPT !.repairs = @ + 1, !.calls = @ + 1]
              /\ caller' = "start"
              /\ FreshCall
              /\ UNCHANGED <<style, outcome>>
         ELSE Decide("rejected", Rejecting(counted))

-----------------------------------------------------------------------------
Init ==
  /\ style \in {"pipes", "files"}
  /\ caller = "start"
  /\ child = "none" /\ helper = NoHelper /\ writer = "none"
  /\ sent = 0 /\ stdin = 0 /\ wrote = 0 /\ stdout = 0 /\ collected = 0
  /\ reaped = FALSE /\ overdue = FALSE /\ answer = "none"
  /\ metrics = [NoMetrics EXCEPT !.calls = 1]
  /\ outcome = "none"

CallerStep ==
  \/ Spawn \/ TryWait \/ FinishFiles \/ PollAgain \/ GiveUp \/ Collect \/ Join
  \/ CallFailed \/ AnswerAccepted \/ AnswerMalformed

CommandStep == ChildReads \/ ChildWrites \/ ChildForks \/ ChildExits \/ HelperExits

Next == CallerStep \/ WriterStep \/ CommandStep \/ DeadlinePasses

Spec == Init /\ [][Next]_vars

\* The caller and its thread are scheduled and time passes; nothing is
\* promised of the command.
Fairness == WF_vars(CallerStep) /\ WF_vars(WriterStep) /\ WF_vars(DeadlinePasses)

FairSpec == Spec /\ Fairness

-----------------------------------------------------------------------------
TypeOK ==
  /\ style \in {"pipes", "files"}
  /\ caller \in {"start", "polling", "checking", "collecting", "joining", "answered",
                 "decided"}
  /\ child \in {"none", "running", "ok", "failed", "killed"}
  /\ writer \in {"none", "writing", "done", "broken"}
  /\ sent \in 0..Input /\ stdin \in 0..Capacity
  /\ wrote \in 0..Output /\ stdout \in 0..Capacity /\ collected \in 0..Output
  /\ answer \in {"none", "output", "error"}
  /\ outcome \in {"none", "accepted", "rejected"}
  /\ metrics \in [DOMAIN NoMetrics -> Nat]

\* What is taken for an answer is all that a command wrote that took all of
\* its input and exited with success, never the beginning of it, and never
\* what was left of one that was killed or failed (run, decide). A distillation
\* that is answered has written no more than its pipe holds: a command that
\* writes more is blocked until its deadline, for the caller reads nothing
\* before the exit (the loop of run; decide uses a file for this).
OutputIsWhole ==
  answer = "output" =>
    /\ child = "ok" /\ sent = Input /\ collected = wrote
    /\ style = "pipes" => wrote <= Capacity

\* When a call has returned the command is gone; what it left in its group is
\* gone too, unless it was a distillation that exited by itself
\* (terminate_child).
NothingKeepsRunning ==
  caller \in {"answered", "decided"} =>
    /\ child # "running"
    /\ helper.state = "running" /\ helper.inGroup => style = "pipes" /\ reaped

\* The metrics of a decision add up: one call and one for each repair, of
\* which there are at most max_repairs; each call failed, was malformed or was
\* accepted, the last one alone (ProviderDistiller::distill).
MetricsAddUp ==
  /\ metrics.calls = 1 + metrics.repairs /\ metrics.repairs <= MaxRepairs
  /\ outcome # "none" =>
       LET accepted == IF outcome = "accepted" THEN 1 ELSE 0
       IN  /\ metrics.calls = metrics.providerErrors + metrics.schemaErrors + accepted
           /\ metrics.providerErrors <= 1 /\ metrics.repaired <= accepted
           /\ style = "pipes" => metrics.rejectedOutputs = 1 - accepted

\* Every decision is made, whatever the command does, save that a distillation
\* waits for a helper that lives on with a pipe of the call in its hands: its
\* deadline is watched until the command exits and no longer (wait_with_output
\* and writer.join of run).
EveryDecisionEnds ==
  <>(outcome # "none") \/ <>[](style = "pipes" /\ helper.state = "running"
                                /\ helper.holds # {})
=============================================================================
