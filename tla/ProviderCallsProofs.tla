------------------------- MODULE ProviderCallsProofs -------------------------
(***************************************************************************)
(* Proofs about ProviderCalls, for every size of input, output and pipe    *)
(* and every number of repairs.                                            *)
(***************************************************************************)
EXTENDS ProviderCalls, TLAPS

Helpers ==
  [state : {"none", "running", "gone"}, inGroup : BOOLEAN, holds : SUBSET {"stdin", "stdout"}]

Types == TypeOK /\ helper \in Helpers /\ reaped \in BOOLEAN /\ overdue \in BOOLEAN

\* a call starts from nothing
StartsAfresh ==
  caller = "start" =>
    /\ child = "none" /\ helper = NoHelper /\ writer = "none"
    /\ collected = 0 /\ ~reaped

\* what was written is in the pipe or was read, and nothing is read while the
\* command runs; a file is read at once
BytesAreConserved ==
  /\ style = "pipes" => collected + stdout = wrote /\ wrote <= Capacity
  /\ style = "pipes" /\ child = "running" => collected = 0
  /\ style = "files" => stdout = 0
  /\ writer = "done" => sent = Input

ReapedHasExited == reaped => Exited

GroupIsGone == helper.state = "running" => ~helper.inGroup

\* where the caller is when it no longer watches the deadline
PastTheLoop ==
  /\ caller = "collecting" => style = "pipes" /\ reaped
  /\ caller = "joining" =>
       /\ style = "pipes"
       /\ answer = "none" => reaped /\ stdout = 0
       /\ answer = "error" => child # "running" /\ GroupIsGone
  /\ style = "files" /\ reaped => GroupIsGone

Answered ==
  /\ answer = "none" <=> caller \in {"start", "polling", "checking", "collecting"}
                         \/ (caller = "joining" /\ answer # "error")
  /\ answer = "output" => child = "ok" /\ writer = "done" /\ collected = wrote

Counted ==
  /\ metrics.calls = 1 + metrics.repairs /\ metrics.repairs <= MaxRepairs
  /\ outcome = "none" <=> caller # "decided"
  /\ outcome = "none" => /\ metrics.schemaErrors = metrics.repairs
                         /\ metrics.providerErrors = 0 /\ metrics.repaired = 0
                         /\ metrics.rejectedOutputs = 0

IInv ==
  /\ Types
  /\ StartsAfresh
  /\ BytesAreConserved
  /\ ReapedHasExited
  /\ PastTheLoop
  /\ Answered
  /\ NothingKeepsRunning
  /\ Counted
  /\ MetricsAddUp

-----------------------------------------------------------------------------
\* The counters there are.
LEMMA MetricsFields ==
  DOMAIN NoMetrics = {"calls", "repairs", "repaired", "providerErrors",
                      "schemaErrors", "rejectedOutputs"}
  BY DEF NoMetrics

\* Killing the group leaves neither the command nor a helper in it
\* (terminate_child).
LEMMA TerminateKills ==
  ASSUME Types, TerminateGroup
  PROVE  /\ helper' \in Helpers
         /\ GroupIsGone'
         /\ child' # "running"
         /\ child' \in {"none", "running", "ok", "failed", "killed"}
         /\ Exited => Exited' /\ child' = child
  BY DEF Types, TypeOK, TerminateGroup, Helpers, GroupIsGone, Exited

\* A decision begins with its first call, which starts from nothing.
LEMMA InitInv == Init => IInv
  <1> SUFFICES ASSUME Init PROVE IInv
    OBVIOUS
  <1>1. Types
    <2>1. NoMetrics \in [DOMAIN NoMetrics -> Nat] /\ "calls" \in DOMAIN NoMetrics
      BY DEF NoMetrics
    <2>2. metrics \in [DOMAIN NoMetrics -> Nat]
      BY <2>1 DEF Init
    <2>3. helper \in Helpers
      BY DEF Init, Helpers, NoHelper
    <2>4. 0 \in 0..Input /\ 0 \in 0..Output /\ 0 \in 0..Capacity
      BY SizesAssumption
    <2> QED
      BY <2>2, <2>3, <2>4 DEF Init, Types, TypeOK
  <1>2. Counted /\ MetricsAddUp
    BY SizesAssumption DEF Init, Counted, MetricsAddUp, NoMetrics
  <1> QED
    BY <1>1, <1>2, SizesAssumption
    DEF Init, IInv, StartsAfresh, BytesAreConserved, ReapedHasExited, PastTheLoop,
        Answered, NothingKeepsRunning

\* A command that is started, or not, has written nothing yet.
LEMMA SpawnKeeps ==
  ASSUME IInv, Spawn PROVE IInv'
  <1>1. Types'
    BY DEF IInv, Types, TypeOK, Spawn
  <1>2. StartsAfresh'
    BY DEF StartsAfresh, Spawn
  <1>3. BytesAreConserved'
    BY DEF IInv, BytesAreConserved, StartsAfresh, Spawn
  <1>4. ReapedHasExited'
    BY DEF IInv, ReapedHasExited, StartsAfresh, Spawn
  <1>5. PastTheLoop'
    BY DEF IInv, PastTheLoop, StartsAfresh, Spawn
  <1>6. Answered'
    BY DEF IInv, Answered, Spawn
  <1>7. NothingKeepsRunning'
    BY DEF IInv, NothingKeepsRunning, StartsAfresh, NoHelper, Spawn
  <1>8. Counted'
    BY DEF IInv, Counted, Spawn
  <1> QED
    BY <1>1, <1>2, <1>3, <1>4, <1>5, <1>6, <1>7, <1>8 DEF IInv, Spawn, MetricsAddUp

\* The exit is seen once the command has ended, and a reconstruction then
\* kills the rest of its group.
LEMMA TryWaitKeeps ==
  ASSUME IInv, TryWait PROVE IInv'
  <1>1. Types'
    <2>1. helper' \in Helpers /\ child' \in {"none", "running", "ok", "failed", "killed"}
      BY TerminateKills DEF IInv, Types, TypeOK, TryWait
    <2> QED
      BY <2>1 DEF IInv, Types, TypeOK, TryWait, Exited
  <1>2. StartsAfresh'
    BY DEF StartsAfresh, TryWait
  <1>3. BytesAreConserved'
    BY DEF IInv, BytesAreConserved, TryWait
  <1>4. ReapedHasExited'
    BY TerminateKills DEF IInv, ReapedHasExited, Exited, TryWait
  <1>5. PastTheLoop'
    BY TerminateKills DEF IInv, PastTheLoop, GroupIsGone, TryWait
  <1>6. Answered'
    BY DEF IInv, Answered, TryWait
  <1>7. NothingKeepsRunning'
    BY DEF NothingKeepsRunning, TryWait
  <1>8. Counted'
    BY DEF IInv, Counted, TryWait
  <1> QED
    BY <1>1, <1>2, <1>3, <1>4, <1>5, <1>6, <1>7, <1>8 DEF IInv, TryWait, MetricsAddUp

\* A reconstruction reads its file when nothing of the group is left.
LEMMA FinishFilesKeeps ==
  ASSUME IInv, FinishFiles PROVE IInv'
  <1>1. Types'
    BY DEF IInv, Types, TypeOK, FinishFiles, Judge
  <1>2. StartsAfresh'
    BY DEF StartsAfresh, FinishFiles
  <1>3. BytesAreConserved'
    BY DEF IInv, BytesAreConserved, FinishFiles
  <1>4. PastTheLoop'
    BY DEF IInv, PastTheLoop, GroupIsGone, FinishFiles
  <1>5. Answered'
    BY DEF Answered, FinishFiles, Judge, Succeeds
  <1>6. NothingKeepsRunning'
    BY DEF IInv, NothingKeepsRunning, PastTheLoop, GroupIsGone, ReapedHasExited,
        Exited, FinishFiles
  <1>7. Counted'
    BY DEF IInv, Counted, FinishFiles
  <1> QED
    BY <1>1, <1>2, <1>3, <1>4, <1>5, <1>6, <1>7
    DEF IInv, FinishFiles, ReapedHasExited, MetricsAddUp, Exited

\* Waiting on changes nothing but the place in the loop.
LEMMA PollAgainKeeps ==
  ASSUME IInv, PollAgain PROVE IInv'
  <1>1. Types'
    BY DEF IInv, Types, TypeOK, PollAgain, call
  <1>2. StartsAfresh'
    BY DEF StartsAfresh, PollAgain
  <1>3. PastTheLoop'
    BY DEF IInv, PastTheLoop, GroupIsGone, PollAgain, call
  <1>4. Answered'
    BY DEF IInv, Answered, PollAgain, call
  <1>5. NothingKeepsRunning'
    BY DEF NothingKeepsRunning, PollAgain
  <1>6. Counted'
    BY DEF IInv, Counted, PollAgain
  <1> QED
    BY <1>1, <1>2, <1>3, <1>4, <1>5, <1>6
    DEF IInv, PollAgain, call, BytesAreConserved, ReapedHasExited, MetricsAddUp,
        Exited

\* After the deadline nothing of the group runs, and the answer is an error.
LEMMA GiveUpKeeps ==
  ASSUME IInv, GiveUp PROVE IInv'
  <1>1. Types'
    BY TerminateKills DEF IInv, Types, TypeOK, GiveUp
  <1>2. StartsAfresh'
    BY DEF StartsAfresh, GiveUp
  <1>3. BytesAreConserved'
    BY TerminateKills DEF IInv, BytesAreConserved, GiveUp
  <1>4. ReapedHasExited'
    BY TerminateKills DEF IInv, ReapedHasExited, GiveUp
  <1>5. PastTheLoop'
    BY TerminateKills DEF IInv, PastTheLoop, GiveUp
  <1>6. Answered'
    BY DEF Answered, GiveUp
  <1>7. NothingKeepsRunning'
    BY TerminateKills DEF IInv, NothingKeepsRunning, GroupIsGone, GiveUp
  <1>8. Counted'
    BY DEF IInv, Counted, GiveUp
  <1> QED
    BY <1>1, <1>2, <1>3, <1>4, <1>5, <1>6, <1>7, <1>8 DEF IInv, GiveUp, MetricsAddUp

\* Reading moves bytes from the pipe to the caller.
LEMMA CollectKeeps ==
  ASSUME IInv, Collect PROVE IInv'
  <1>1. Types'
    BY SizesAssumption DEF IInv, Types, TypeOK, BytesAreConserved, Collect
  <1>2. StartsAfresh'
    BY DEF StartsAfresh, Collect
  <1>3. BytesAreConserved'
    BY DEF IInv, BytesAreConserved, PastTheLoop, ReapedHasExited, Exited, Collect
  <1>4. PastTheLoop'
    BY DEF IInv, PastTheLoop, Answered, Collect
  <1>5. Answered'
    BY DEF IInv, Answered, Collect
  <1>6. NothingKeepsRunning'
    BY DEF NothingKeepsRunning, Collect
  <1>7. Counted'
    BY DEF IInv, Counted, Collect
  <1> QED
    BY <1>1, <1>2, <1>3, <1>4, <1>5, <1>6, <1>7
    DEF IInv, Collect, ReapedHasExited, MetricsAddUp, Exited

\* A distillation has read all there was before it joins its writer.
LEMMA JoinKeeps ==
  ASSUME IInv, Join PROVE IInv'
  <1>1. Types'
    BY DEF IInv, Types, TypeOK, Join, Judge
  <1>2. StartsAfresh'
    BY DEF StartsAfresh, Join
  <1>3. PastTheLoop'
    BY DEF IInv, PastTheLoop, Join
  <1>4. Answered'
    BY DEF IInv, Types, TypeOK, Answered, BytesAreConserved, PastTheLoop, Join, Judge,
        Succeeds
  <1>5. NothingKeepsRunning'
    BY DEF IInv, NothingKeepsRunning, PastTheLoop, Answered, GroupIsGone,
        ReapedHasExited, Exited, Join
  <1>6. Counted'
    BY DEF IInv, Counted, Join
  <1> QED
    BY <1>1, <1>2, <1>3, <1>4, <1>5, <1>6
    DEF IInv, Join, BytesAreConserved, ReapedHasExited, MetricsAddUp, Exited

\* The writer is done when all of the input was sent.
LEMMA WriterStepKeeps ==
  ASSUME IInv, WriterStep PROVE IInv'
  <1>1. Types'
    BY SizesAssumption DEF IInv, Types, TypeOK, WriterStep
  <1>2. StartsAfresh'
    BY DEF IInv, StartsAfresh, WriterStep
  <1>3. BytesAreConserved'
    BY DEF IInv, BytesAreConserved, WriterStep
  <1>4. Answered'
    BY DEF IInv, Answered, WriterStep
  <1> QED
    BY <1>1, <1>2, <1>3, <1>4
    DEF IInv, WriterStep, ReapedHasExited, PastTheLoop, NothingKeepsRunning, Counted,
        MetricsAddUp, Exited, GroupIsGone

\* What the command reads matters to the writer alone.
LEMMA ChildReadsKeeps ==
  ASSUME IInv, ChildReads PROVE IInv'
  <1>1. Types'
    BY SizesAssumption DEF IInv, Types, TypeOK, ChildReads
  <1> QED
    BY <1>1
    DEF IInv, ChildReads, StartsAfresh, BytesAreConserved, ReapedHasExited,
        PastTheLoop, Answered, NothingKeepsRunning, Counted, MetricsAddUp, Exited,
        GroupIsGone

\* Only a command that runs writes, and nothing has been read of it yet.
LEMMA ChildWritesKeeps ==
  ASSUME IInv, ChildWrites PROVE IInv'
  <1>1. Types'
    BY SizesAssumption DEF IInv, Types, TypeOK, ChildWrites
  <1>2. BytesAreConserved'
    BY SizesAssumption DEF IInv, Types, TypeOK, BytesAreConserved, ChildWrites
  <1>3. PastTheLoop'
    BY DEF IInv, PastTheLoop, ReapedHasExited, Exited, ChildWrites
  <1>4. Answered'
    BY DEF IInv, Answered, ChildWrites
  <1> QED
    BY <1>1, <1>2, <1>3, <1>4
    DEF IInv, ChildWrites, StartsAfresh, ReapedHasExited, NothingKeepsRunning,
        Counted, MetricsAddUp, Exited

\* Only a command that runs leaves a helper behind.
LEMMA ChildForksKeeps ==
  ASSUME IInv, ChildForks PROVE IInv'
  <1>1. Types'
    BY DEF IInv, Types, TypeOK, Helpers, ChildForks
  <1>2. StartsAfresh'
    BY DEF IInv, StartsAfresh, ChildForks
  <1>3. PastTheLoop'
    BY DEF IInv, PastTheLoop, ReapedHasExited, Exited, ChildForks
  <1>4. NothingKeepsRunning'
    BY DEF IInv, NothingKeepsRunning, ChildForks
  <1> QED
    BY <1>1, <1>2, <1>3, <1>4
    DEF IInv, ChildForks, BytesAreConserved, ReapedHasExited, Answered, Counted,
        MetricsAddUp, Exited

\* An exit is not seen before the next try_wait.
LEMMA ChildExitsKeeps ==
  ASSUME IInv, ChildExits PROVE IInv'
  <1>1. Types'
    BY DEF IInv, Types, TypeOK, ChildExits
  <1>2. StartsAfresh'
    BY DEF IInv, StartsAfresh, ChildExits
  <1>3. BytesAreConserved'
    BY DEF IInv, BytesAreConserved, ChildExits
  <1>4. ReapedHasExited'
    BY DEF ReapedHasExited, Exited, ChildExits
  <1>5. PastTheLoop'
    BY DEF IInv, PastTheLoop, ReapedHasExited, Exited, ChildExits
  <1>6. Answered'
    BY DEF IInv, Answered, ChildExits
  <1>7. NothingKeepsRunning'
    BY DEF IInv, NothingKeepsRunning, ChildExits
  <1> QED
    BY <1>1, <1>2, <1>3, <1>4, <1>5, <1>6, <1>7
    DEF IInv, ChildExits, Counted, MetricsAddUp

\* A helper that ends leaves less running.
LEMMA HelperExitsKeeps ==
  ASSUME IInv, HelperExits PROVE IInv'
  <1>1. Types'
    BY DEF IInv, Types, TypeOK, Helpers, HelperExits
  <1>2. StartsAfresh'
    BY DEF IInv, StartsAfresh, NoHelper, HelperExits
  <1>3. PastTheLoop'
    BY DEF IInv, PastTheLoop, GroupIsGone, HelperExits
  <1>4. NothingKeepsRunning'
    BY DEF IInv, NothingKeepsRunning, HelperExits
  <1> QED
    BY <1>1, <1>2, <1>3, <1>4
    DEF IInv, HelperExits, BytesAreConserved, ReapedHasExited, Answered, Counted,
        MetricsAddUp, Exited

\* Time alone changes nothing.
LEMMA DeadlinePassesKeeps ==
  ASSUME IInv, DeadlinePasses PROVE IInv'
  <1>1. Types'
    BY DEF IInv, Types, TypeOK, DeadlinePasses
  <1> QED
    BY <1>1
    DEF IInv, DeadlinePasses, StartsAfresh, BytesAreConserved, ReapedHasExited,
        PastTheLoop, Answered, NothingKeepsRunning, Counted, MetricsAddUp, Exited,
        GroupIsGone

\* A failed call ends the decision and is the only one that failed.
LEMMA CallFailedKeeps ==
  ASSUME IInv, CallFailed PROVE IInv'
  <1>1. Types'
    <2> DEFINE counted == [metrics EXCEPT !.providerErrors = @ + 1]
    <2>1. counted \in [DOMAIN NoMetrics -> Nat]
      BY MetricsFields DEF IInv, Types, TypeOK
    <2>2. metrics' = Rejecting(counted)
      BY DEF CallFailed, Decide
    <2> HIDE DEF counted
    <2>3. metrics' \in [DOMAIN NoMetrics -> Nat]
      BY <2>1, <2>2, MetricsFields DEF Rejecting
    <2> QED
      BY <2>3 DEF IInv, Types, TypeOK, CallFailed, Decide, call
  <1>2. StartsAfresh'
    BY DEF StartsAfresh, CallFailed, Decide
  <1>3. PastTheLoop'
    BY DEF IInv, PastTheLoop, GroupIsGone, CallFailed, call, Decide
  <1>4. Answered'
    BY DEF Answered, CallFailed, call, Decide
  <1>5. NothingKeepsRunning'
    BY DEF IInv, NothingKeepsRunning, CallFailed, call, Decide
  <1>6. Counted'
    BY DEF IInv, Counted, CallFailed, Decide, Rejecting
  <1>7. MetricsAddUp'
    BY MetricsFields
    DEF IInv, Types, TypeOK, Counted, MetricsAddUp, CallFailed, Decide, Rejecting
  <1> QED
    BY <1>1, <1>2, <1>3, <1>4, <1>5, <1>6, <1>7
    DEF IInv, CallFailed, Decide, call, BytesAreConserved, ReapedHasExited, Exited

\* An accepted answer ends the decision after as many malformed ones as
\* there were repairs.
LEMMA AnswerAcceptedKeeps ==
  ASSUME IInv, AnswerAccepted PROVE IInv'
  <1>1. Types'
    BY DEF IInv, Types, TypeOK, AnswerAccepted, call, Decide
  <1>2. StartsAfresh'
    BY DEF StartsAfresh, AnswerAccepted, Decide
  <1>3. PastTheLoop'
    BY DEF IInv, PastTheLoop, GroupIsGone, AnswerAccepted, call, Decide
  <1>4. Answered'
    BY DEF IInv, Answered, AnswerAccepted, call, Decide
  <1>5. NothingKeepsRunning'
    BY DEF IInv, NothingKeepsRunning, AnswerAccepted, call, Decide
  <1>6. Counted'
    BY DEF IInv, Counted, AnswerAccepted, Decide
  <1>7. MetricsAddUp'
    BY MetricsFields
    DEF IInv, Types, TypeOK, Counted, MetricsAddUp, AnswerAccepted, Decide
  <1> QED
    BY <1>1, <1>2, <1>3, <1>4, <1>5, <1>6, <1>7
    DEF IInv, AnswerAccepted, Decide, call, BytesAreConserved, ReapedHasExited, Exited

\* A malformed answer is repaired, which begins a new call, or rejected.
LEMMA AnswerMalformedKeeps ==
  ASSUME IInv, AnswerMalformed PROVE IInv'
  <1> DEFINE counted == [metrics EXCEPT !.schemaErrors = @ + 1]
  <1>1. /\ counted \in [DOMAIN NoMetrics -> Nat]
        /\ counted.schemaErrors = metrics.schemaErrors + 1
        /\ counted.calls = metrics.calls /\ counted.repairs = metrics.repairs
        /\ counted.providerErrors = metrics.providerErrors
        /\ counted.repaired = metrics.repaired
        /\ counted.rejectedOutputs = metrics.rejectedOutputs
    BY MetricsFields DEF IInv, Types, TypeOK
  <1> HIDE DEF counted
  <1>2. CASE MayRepair
    <2>1. /\ metrics' = [counted EXCEPT !.repairs = @ + 1, !.calls = @ + 1]
          /\ caller' = "start" /\ FreshCall /\ style' = style /\ outcome' = outcome
          /\ caller = "answered"
      BY <1>2 DEF AnswerMalformed, counted
    <2>2. /\ metrics' \in [DOMAIN NoMetrics -> Nat]
          /\ metrics'.calls = metrics.calls + 1 /\ metrics'.repairs = metrics.repairs + 1
          /\ metrics'.schemaErrors = metrics.schemaErrors + 1
          /\ metrics'.providerErrors = metrics.providerErrors
          /\ metrics'.repaired = metrics.repaired
          /\ metrics'.rejectedOutputs = metrics.rejectedOutputs
      <3> DEFINE again == [counted EXCEPT !.repairs = @ + 1]
      <3>1. /\ again \in [DOMAIN NoMetrics -> Nat]
            /\ again.repairs = metrics.repairs + 1
            /\ again.calls = counted.calls
            /\ again.schemaErrors = counted.schemaErrors
            /\ again.providerErrors = counted.providerErrors
            /\ again.repaired = counted.repaired
            /\ again.rejectedOutputs = counted.rejectedOutputs
        BY <1>1, MetricsFields
      <3>2. metrics' = [again EXCEPT !.calls = @ + 1]
        BY <2>1
      <3> HIDE DEF again
      <3> QED
        BY <1>1, <3>1, <3>2, MetricsFields
    <2>3. Types'
      <3>1. helper' \in Helpers
        BY <2>1 DEF FreshCall, Helpers, NoHelper
      <3>2. 0 \in 0..Input /\ 0 \in 0..Output /\ 0 \in 0..Capacity
        BY SizesAssumption
      <3> QED
        BY <2>1, <2>2, <3>1, <3>2 DEF IInv, Types, TypeOK, FreshCall
    <2>4. Counted' /\ MetricsAddUp'
      BY <1>2, <2>1, <2>2, SizesAssumption, MetricsFields
      DEF IInv, Types, TypeOK, Counted, MetricsAddUp, MayRepair
    <2> QED
      BY <2>1, <2>3, <2>4, SizesAssumption
      DEF IInv, FreshCall, StartsAfresh, BytesAreConserved, ReapedHasExited, PastTheLoop,
          Answered, NothingKeepsRunning, GroupIsGone, NoHelper
  <1>3. CASE ~MayRepair
    <2>1. Decide("rejected", Rejecting(counted)) /\ caller = "answered" /\ answer = "output"
      BY <1>3 DEF AnswerMalformed, counted
    <2>2. /\ metrics' \in [DOMAIN NoMetrics -> Nat]
          /\ metrics'.calls = metrics.calls /\ metrics'.repairs = metrics.repairs
          /\ metrics'.schemaErrors = metrics.schemaErrors + 1
          /\ metrics'.providerErrors = metrics.providerErrors
          /\ metrics'.repaired = metrics.repaired
          /\ metrics'.rejectedOutputs = metrics.rejectedOutputs + (IF style = "pipes" THEN 1 ELSE 0)
      BY <1>1, <2>1, MetricsFields DEF IInv, Types, TypeOK, Decide, Rejecting
    <2>3. Types'
      BY <2>1, <2>2 DEF IInv, Types, TypeOK, Decide, call
    <2>4. Counted' /\ MetricsAddUp'
      BY <2>1, <2>2, SizesAssumption, MetricsFields
      DEF IInv, Types, TypeOK, Counted, MetricsAddUp, Decide, call
    <2> QED
      BY <2>1, <2>3, <2>4
      DEF IInv, Decide, call, StartsAfresh, BytesAreConserved, ReapedHasExited, Exited,
          PastTheLoop, Answered, NothingKeepsRunning, GroupIsGone
  <1> QED
    BY <1>2, <1>3

\* The invariant is about the variables alone.
LEMMA StutterKeeps ==
  ASSUME IInv, UNCHANGED vars PROVE IInv'
  BY DEF IInv, vars, call, Types, TypeOK, StartsAfresh, BytesAreConserved,
         ReapedHasExited, PastTheLoop, Answered, NothingKeepsRunning, Counted,
         MetricsAddUp, GroupIsGone, Exited

-----------------------------------------------------------------------------
(***************************************************************************)
(* The invariant holds in every state of a decision.                       *)
(***************************************************************************)
THEOREM Inductive == Spec => []IInv
  <1>1. Init => IInv
    BY InitInv
  <1>2. IInv /\ [Next]_vars => IInv'
    BY SpawnKeeps, TryWaitKeeps, FinishFilesKeeps, PollAgainKeeps, GiveUpKeeps,
       CollectKeeps, JoinKeeps, CallFailedKeeps, AnswerAcceptedKeeps,
       AnswerMalformedKeeps, WriterStepKeeps, ChildReadsKeeps, ChildWritesKeeps,
       ChildForksKeeps, ChildExitsKeeps, HelperExitsKeeps, DeadlinePassesKeeps,
       StutterKeeps
    DEF Next, CallerStep, CommandStep
  <1> QED
    BY <1>1, <1>2, PTL DEF Spec

(***************************************************************************)
(* Byte counts stay within the input, the output and the pipe, and the     *)
(* counters are numbers, for every command.                                *)
(***************************************************************************)
THEOREM TypeCorrect == Spec => []TypeOK
  BY Inductive, PTL DEF IInv, Types

(***************************************************************************)
(* What is taken for an answer is all that a command wrote that took its   *)
(* input and succeeded; through a pipe, no more than the pipe holds.       *)
(***************************************************************************)
THEOREM OutputIsWholeCorrect == Spec => []OutputIsWhole
  <1>1. IInv => OutputIsWhole
    BY DEF IInv, Answered, BytesAreConserved, OutputIsWhole
  <1> QED
    BY <1>1, Inductive, PTL

(***************************************************************************)
(* A call that has returned left no command running, and of its group only *)
(* what a distillation's command had started before it exited by itself.   *)
(***************************************************************************)
THEOREM NothingKeepsRunningCorrect == Spec => []NothingKeepsRunning
  <1>1. IInv => NothingKeepsRunning
    BY DEF IInv
  <1> QED
    BY <1>1, Inductive, PTL

(***************************************************************************)
(* One call and one per repair, at most MaxRepairs of them, and every call *)
(* is accounted for once.                                                  *)
(***************************************************************************)
THEOREM MetricsCorrect == Spec => []MetricsAddUp
  <1>1. IInv => MetricsAddUp
    BY DEF IInv
  <1> QED
    BY <1>1, Inductive, PTL
=============================================================================
