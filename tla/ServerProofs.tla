----------------------------- MODULE ServerProofs -----------------------------
(***************************************************************************)
(* Proofs about the HTTP service: ServerRequests, for every set of         *)
(* requests and every number of permits, and the limiter in front of it,   *)
(* RateLimiter, for every set of actors, every limit, every window length  *)
(* and every clock, one that is set back included.                         *)
(***************************************************************************)
EXTENDS ServerRequests, RateLimiter, FiniteSetTheorems, WellFoundedInduction, TLAPS

(***************************************************************************)
(* TypeOK without the counters, whose bound needs CountersAddUp.           *)
(***************************************************************************)
Types ==
  /\ stage \in [Requests -> Stages]
  /\ status \in [Requests -> Outcomes \cup {"none"}]
  /\ result \in [Requests -> {"none", "ok", "invalid", "failed"}]
  /\ tasks \subseteq [req : Requests, job : Jobs]
  /\ permits \in 0..Permits
  /\ ledger \in [Keys -> Requests \cup {NoRequest}]
  /\ audit \subseteq [req : Requests, status : Outcomes]

FiniteTasks == IsFiniteSet(tasks)

\* a request has at most one database task and at most one audit task: a task
\* that starts is a new one, and the permits count the tasks
OneDbTask ==
  \A t, u \in tasks : t.req = u.req /\ t.job # "audit" /\ u.job # "audit" => t = u

AuditTasksAreWaitedFor ==
  \A t \in tasks : t.job = "audit" => stage[t.req] \in {"auditing", "gone"}

OutcomesAreKnown ==
  /\ \A r \in Requests : stage[r] \in {"closing", "auditing", "answered"} => status[r] # "none"
  /\ \A t \in tasks : t.job = "audit" => status[t.req] # "none"

\* a request that is not past its checks has no task and no row
NotStarted ==
  \A r \in Requests : stage[r] \in {"new", "admitted"} =>
    /\ ledger[Key[r]] # r
    /\ \A t \in tasks : t.req # r

\* the insert comes before the projection, and before the result
Stored(r) == ledger[Key[r]] # NoRequest

InsertedFirst ==
  /\ \A t \in tasks : t.job = "project" => Stored(t.req)
  /\ \A t \in tasks : t.job \in {"read", "manage", "query", "maintain"} => Route[t.req] # "remember"
  /\ \A r \in Requests : result[r] = "ok" /\ Route[r] = "remember" => Stored(r)

IInv ==
  /\ Types
  /\ FiniteTasks
  /\ PermitsAreConserved
  /\ OneDbTask
  /\ AuditTasksAreWaitedFor
  /\ OutcomesAreKnown
  /\ NotStarted
  /\ InsertedFirst
  /\ RefusedDidNothing
  /\ AcknowledgedIsStored

-----------------------------------------------------------------------------
LEMMA InitIInv == Init => IInv
  <1> SUFFICES ASSUME Init PROVE IInv
    OBVIOUS
  <1>1. Types
    BY ConstantsAssumption DEF Init, Types, Stages, Outcomes, Keys, NoRequest
  <1>2. FiniteTasks /\ PermitsAreConserved
    BY FS_EmptySet, ConstantsAssumption DEF Init, FiniteTasks, PermitsAreConserved
  <1>3. \A r \in Requests : ledger[Key[r]] = NoRequest /\ NoRequest # r
    BY ConstantsAssumption DEF Init, Keys, NoRequest
  <1> QED
    BY <1>1, <1>2, <1>3 DEF Init, IInv, OneDbTask, AuditTasksAreWaitedFor, OutcomesAreKnown, NotStarted, InsertedFirst,
      RefusedDidNothing, Refused, AcknowledgedIsStored, Acknowledged

(***************************************************************************)
(* A request moves on and nothing else happens: it stays past its checks,  *)
(* it is refused only while it has done nothing, it is acknowledged only   *)
(* with a result, it closes with an outcome, and it leaves its audit task  *)
(* only by going away.                                                     *)
(***************************************************************************)
LEMMA MoveIInv ==
  ASSUME IInv, NEW r \in Requests, NEW s \in Stages, NEW o \in Outcomes \cup {"none"},
         Move(r, s, o), UNCHANGED <<result, tasks, permits, ledger, audit>>,
         s \in {"new", "admitted"} => stage[r] \in {"new", "admitted"},
         stage[r] \in {"auditing", "gone"} => s = "gone" /\ o = status[r],
         s \in {"closing", "auditing", "answered"} => o # "none",
         \/ stage[r] \in {"new", "admitted"}
         \/ o = status[r]
         \/ o \notin {"unauthorized", "rateLimited", "busy"} /\ (o = "invalid" => result[r] # "none"),
         o = "ok" /\ Route[r] = "remember" => status[r] = "ok" \/ result[r] = "ok"
  PROVE  IInv'
  <1>1. /\ stage' \in [Requests -> Stages] /\ stage'[r] = s
        /\ \A q \in Requests : q # r => stage'[q] = stage[q]
    BY DEF IInv, Types, Move
  <1>2. /\ status' \in [Requests -> Outcomes \cup {"none"}] /\ status'[r] = o
        /\ \A q \in Requests : q # r => status'[q] = status[q]
    BY DEF IInv, Types, Move
  <1>3. \A t \in tasks : t.req \in Requests
    BY DEF IInv, Types
  <1>4. Types' /\ FiniteTasks' /\ PermitsAreConserved' /\ OneDbTask' /\ InsertedFirst'
    BY <1>1, <1>2 DEF IInv, Types, FiniteTasks, PermitsAreConserved, OneDbTask, InsertedFirst, Stored
  <1>5. AuditTasksAreWaitedFor'
    BY <1>1, <1>3 DEF IInv, AuditTasksAreWaitedFor
  <1>6. NotStarted' /\ OutcomesAreKnown'
    BY <1>1, <1>2, <1>3 DEF IInv, NotStarted, OutcomesAreKnown, AuditTasksAreWaitedFor
  <1>7. RefusedDidNothing'
    BY <1>1, <1>2 DEF IInv, RefusedDidNothing, Refused, NotStarted
  <1>8. AcknowledgedIsStored'
    BY <1>1, <1>2 DEF IInv, AcknowledgedIsStored, Acknowledged, InsertedFirst, Stored
  <1> QED
    BY <1>4, <1>5, <1>6, <1>7, <1>8 DEF IInv

LEMMA BeginIInv ==
  ASSUME IInv, NEW r \in Requests, Begin(r)
  PROVE  IInv'
  <1>1. stage[r] = "new"
    BY DEF Begin, Live, Ready, Admit, Throttle, ThrottleDenied, Deny
  <1>2. \E s \in {"answered", "admitted", "closing"}, o \in {"ok", "none", "rateLimited", "unauthorized"} :
           /\ Move(r, s, o)
           /\ o = "ok" => Route[r] = "live"
           /\ o = "none" => s = "admitted"
    BY DEF Begin, Live, Ready, Admit, Throttle, ThrottleDenied, Deny
  <1>3. UNCHANGED <<result, tasks, permits, ledger, audit>>
    BY DEF Begin, Live, Ready, Admit, Throttle, ThrottleDenied, Deny
  <1> QED
    BY <1>1, <1>2, <1>3, MoveIInv DEF Stages, Outcomes, Failures

LEMMA StayIInv ==
  ASSUME IInv, NEW r \in Requests,
         Reject(r) \/ Metrics(r) \/ Busy(r) \/ Timeout(r) \/ Return(r) \/ SkipAudit(r) \/ Disconnect(r)
  PROVE  IInv'
  <1> USE DEF Stages, Outcomes, Failures
  <1>1. /\ Closing(r) \in {"answered", "closing"}
        /\ status[r] \in Outcomes \cup {"none"}
        /\ result[r] \in {"none", "ok", "invalid", "failed"}
        /\ stage[r] = "closing" => status[r] # "none"
    BY DEF Closing, OutcomesAreKnown, IInv, Types
  <1>2. CASE Reject(r)
    BY <1>2, MoveIInv DEF Reject
  <1>3. CASE Metrics(r)
    BY <1>3, MoveIInv DEF Metrics
  <1>4. CASE Busy(r)
    BY <1>1, <1>4, MoveIInv DEF Busy
  <1>5. CASE Timeout(r)
    BY <1>1, <1>5, MoveIInv DEF Timeout
  <1>6. CASE Return(r)
    <2>1. stage[r] = "waiting" /\ result[r] # "none" /\ Move(r, Closing(r), result[r])
          /\ UNCHANGED <<result, tasks, permits, ledger, audit>>
      BY <1>6 DEF Return
    <2> QED
      BY <1>1, <2>1, MoveIInv
  <1>7. CASE SkipAudit(r)
    <2>1. stage[r] = "closing" /\ Move(r, "answered", status[r])
          /\ UNCHANGED <<result, tasks, permits, ledger, audit>>
      BY <1>7 DEF SkipAudit
    <2> QED
      BY <1>1, <2>1, MoveIInv
  <1>8. CASE Disconnect(r)
    <2>1. stage[r] \in {"waiting", "auditing"} /\ UNCHANGED <<result, tasks, permits, ledger, audit>>
      BY <1>8 DEF Disconnect
    <2>2. Move(r, "gone", status[r])
      BY <1>8 DEF Disconnect, Move, IInv, Types
    <2> QED
      BY <1>1, <2>1, <2>2, MoveIInv
  <1> QED
    BY <1>2, <1>3, <1>4, <1>5, <1>6, <1>7, <1>8

\* A task that starts is a new one and takes one permit.
LEMMA StartCounts ==
  ASSUME IInv, NEW r \in Requests, NEW job \in Jobs, Start(r, job),
         [req |-> r, job |-> job] \notin tasks
  PROVE  /\ tasks' \subseteq [req : Requests, job : Jobs]
         /\ permits' \in 0..Permits
         /\ FiniteTasks'
         /\ PermitsAreConserved'
  <1>1. Cardinality(tasks) \in Nat /\ Permits \in Nat
    BY FS_CardinalityType, ConstantsAssumption DEF IInv, FiniteTasks
  <1>2. IsFiniteSet(tasks') /\ Cardinality(tasks') = Cardinality(tasks) + 1
    BY FS_AddElement DEF Start, IInv, FiniteTasks
  <1> QED
    BY <1>1, <1>2 DEF Start, IInv, Types, FiniteTasks, PermitsAreConserved

\* A task that ends gives its permit back.
LEMMA EndCounts ==
  ASSUME IInv, NEW t, End(t)
  PROVE  /\ tasks' \subseteq [req : Requests, job : Jobs]
         /\ permits' \in 0..Permits
         /\ FiniteTasks'
         /\ PermitsAreConserved'
  <1>1. Cardinality(tasks) \in Nat /\ Permits \in Nat
    BY FS_CardinalityType, ConstantsAssumption DEF IInv, FiniteTasks
  <1>2. IsFiniteSet(tasks') /\ Cardinality(tasks') = Cardinality(tasks) - 1
    BY FS_RemoveElement DEF End, IInv, FiniteTasks
  <1>3. Cardinality(tasks') \in Nat
    BY <1>2, FS_CardinalityType
  <1> QED
    BY <1>1, <1>2, <1>3 DEF End, IInv, Types, FiniteTasks, PermitsAreConserved

LEMMA SpawnIInv ==
  ASSUME IInv, NEW r \in Requests, Spawn(r)
  PROVE  IInv'
  <1> DEFINE job == JobOf(Route[r])
             t == [req |-> r, job |-> job]
  <1>1. \A u \in tasks : u.req \in Requests /\ u.req # r
    BY DEF Spawn, IInv, Types, NotStarted
  <1>2. job \in Jobs /\ job # "audit" /\ job # "project" /\ (Route[r] = "remember" => job = "ingest")
    BY DEF Jobs, JobOf
  <1>3. Start(r, job) /\ tasks' = tasks \cup {t} /\ t.req = r /\ t.job = job
    BY DEF Spawn, Start
  <1>4. UNCHANGED <<result, ledger, audit>>
    BY DEF Spawn
  <1> HIDE DEF job
  <1>5. t \notin tasks
    BY <1>1, <1>3
  <1>6. /\ stage' \in [Requests -> Stages] /\ stage'[r] = "waiting"
        /\ \A q \in Requests : q # r => stage'[q] = stage[q]
    BY DEF Spawn, Move, IInv, Types, Stages
  <1>7. /\ status' \in [Requests -> Outcomes \cup {"none"}] /\ status'[r] = "none"
        /\ \A q \in Requests : q # r => status'[q] = status[q]
    BY DEF Spawn, Move, IInv, Types
  <1>8. Types' /\ FiniteTasks' /\ PermitsAreConserved'
    BY <1>2, <1>3, <1>4, <1>5, <1>6, <1>7, StartCounts DEF IInv, Types
  <1> HIDE DEF t
  <1>9. OneDbTask'
    BY <1>1, <1>3 DEF IInv, OneDbTask
  <1>10. AuditTasksAreWaitedFor' /\ OutcomesAreKnown'
    BY <1>1, <1>2, <1>3, <1>6, <1>7 DEF IInv, AuditTasksAreWaitedFor, OutcomesAreKnown
  <1>11. NotStarted'
    BY <1>3, <1>4, <1>6 DEF IInv, NotStarted
  <1>12. InsertedFirst'
    BY <1>2, <1>3, <1>4 DEF IInv, InsertedFirst, Stored
  <1>13. RefusedDidNothing'
    BY <1>3, <1>4, <1>7 DEF IInv, RefusedDidNothing, Refused
  <1>14. AcknowledgedIsStored'
    BY <1>4, <1>7 DEF IInv, AcknowledgedIsStored, Acknowledged
  <1> QED
    BY <1>8, <1>9, <1>10, <1>11, <1>12, <1>13, <1>14 DEF IInv

LEMMA StartAuditIInv ==
  ASSUME IInv, NEW r \in Requests, StartAudit(r)
  PROVE  IInv'
  <1> DEFINE t == [req |-> r, job |-> "audit"]
  <1>1. \A u \in tasks : u.req \in Requests
    BY DEF IInv, Types
  <1>2. Start(r, "audit") /\ tasks' = tasks \cup {t} /\ t.req = r /\ t.job = "audit"
    BY DEF StartAudit, Start
  <1>3. UNCHANGED <<result, ledger, audit>>
    BY DEF StartAudit
  <1>4. t \notin tasks
    BY DEF StartAudit, IInv, AuditTasksAreWaitedFor
  <1>5. /\ stage' \in [Requests -> Stages] /\ stage'[r] = "auditing"
        /\ \A q \in Requests : q # r => stage'[q] = stage[q]
    BY DEF StartAudit, Move, IInv, Types, Stages
  <1>6. status' = status
    BY DEF StartAudit, Move, IInv, Types
  <1>7. Types' /\ FiniteTasks' /\ PermitsAreConserved'
    BY <1>2, <1>3, <1>4, <1>5, <1>6, StartCounts DEF IInv, Types, Jobs
  <1> HIDE DEF t
  <1>8. OneDbTask'
    BY <1>2 DEF IInv, OneDbTask
  <1>9. AuditTasksAreWaitedFor' /\ OutcomesAreKnown'
    <2>1. stage[r] = "closing"
      BY DEF StartAudit
    <2> QED
      BY <1>1, <1>2, <1>5, <1>6, <2>1 DEF IInv, AuditTasksAreWaitedFor, OutcomesAreKnown
  <1>10. NotStarted'
    BY <1>2, <1>3, <1>5 DEF IInv, NotStarted
  <1>11. InsertedFirst'
    BY <1>2, <1>3 DEF IInv, InsertedFirst, Stored
  <1>12. RefusedDidNothing' /\ AcknowledgedIsStored'
    BY <1>2, <1>3, <1>6 DEF IInv, RefusedDidNothing, Refused, AcknowledgedIsStored, Acknowledged
  <1> QED
    BY <1>7, <1>8, <1>9, <1>10, <1>11, <1>12 DEF IInv

LEMMA IngestIInv ==
  ASSUME IInv, NEW r \in Requests, Ingest(r)
  PROVE  IInv'
  <1> DEFINE t == [req |-> r, job |-> "ingest"]
             p == [req |-> r, job |-> "project"]
  <1>1. /\ t \in tasks /\ t.req = r /\ t.job = "ingest"
        /\ p.req = r /\ p.job = "project"
        /\ p \in [req : Requests, job : Jobs]
    BY DEF Ingest, Jobs
  <1>2. tasks' = (tasks \ {t}) \cup {p}
    BY DEF Ingest
  <1>3. UNCHANGED <<stage, status, result, permits, audit>>
    BY DEF Ingest
  <1>4. p \notin tasks
    BY <1>1 DEF IInv, OneDbTask
  <1>5. stage[r] \notin {"new", "admitted"} /\ ~Refused(r)
    BY <1>1 DEF IInv, NotStarted, RefusedDidNothing
  <1> HIDE DEF t, p
  <1>6. /\ ledger' \in [Keys -> Requests \cup {NoRequest}]
        /\ ledger'[Key[r]] # NoRequest
        /\ \A k \in Keys : ledger'[k] = ledger[k] \/ (ledger[k] = NoRequest /\ ledger'[k] = r)
    BY ConstantsAssumption DEF Ingest, Insert, IInv, Types, Keys, NoRequest
  <1>7. \A q \in Requests :
          /\ Key[q] \in Keys
          /\ Stored(q) => Stored(q)'
          /\ ledger'[Key[q]] = q => ledger[Key[q]] = q \/ q = r
    BY <1>6 DEF Keys, Stored
  <1>8. FiniteTasks' /\ Cardinality(tasks') = Cardinality(tasks)
    <2>1. IsFiniteSet(tasks) /\ Cardinality(tasks) \in Nat
      BY FS_CardinalityType DEF IInv, FiniteTasks
    <2>2. IsFiniteSet(tasks \ {t}) /\ Cardinality(tasks \ {t}) = Cardinality(tasks) - 1
      BY <1>1, <2>1, FS_RemoveElement
    <2>3. /\ IsFiniteSet((tasks \ {t}) \cup {p})
          /\ Cardinality((tasks \ {t}) \cup {p}) = Cardinality(tasks \ {t}) + 1
      BY <1>4, <2>2, FS_AddElement
    <2> QED
      BY <1>2, <2>1, <2>2, <2>3 DEF FiniteTasks
  <1>9. Types' /\ PermitsAreConserved'
    BY <1>1, <1>2, <1>3, <1>6, <1>8 DEF IInv, Types, PermitsAreConserved
  <1>10. OneDbTask'
    BY <1>1, <1>2 DEF IInv, OneDbTask
  <1>11. AuditTasksAreWaitedFor' /\ OutcomesAreKnown'
    BY <1>1, <1>2, <1>3 DEF IInv, AuditTasksAreWaitedFor, OutcomesAreKnown
  <1>12. NotStarted'
    BY <1>1, <1>2, <1>3, <1>5, <1>7 DEF IInv, NotStarted
  <1>13. InsertedFirst'
    <2>1. Stored(r)'
      BY <1>6 DEF Stored
    <2>2. \A u \in tasks : u.req \in Requests
      BY DEF IInv, Types
    <2> QED
      BY <1>1, <1>2, <1>3, <1>7, <2>1, <2>2 DEF IInv, InsertedFirst
  <1>14. RefusedDidNothing'
    BY <1>1, <1>2, <1>3, <1>5, <1>7 DEF IInv, RefusedDidNothing, Refused
  <1>15. AcknowledgedIsStored'
    BY <1>3, <1>7 DEF IInv, AcknowledgedIsStored, Acknowledged, Stored
  <1> QED
    BY <1>8, <1>9, <1>10, <1>11, <1>12, <1>13, <1>14, <1>15 DEF IInv

\* A database task ends; with "ok" only once the row is there.
LEMMA ResultIInv ==
  ASSUME IInv, NEW r \in Requests, NEW job \in Jobs \ {"audit"},
         End([req |-> r, job |-> job]),
         NEW e \in {"ok", "invalid", "failed"},
         e = "ok" => job # "ingest",
         result' = [result EXCEPT ![r] = e],
         UNCHANGED <<stage, status, ledger>>, audit' \in SUBSET audit
  PROVE  IInv'
  <1> DEFINE t == [req |-> r, job |-> job]
  <1>1. t \in tasks /\ t.req = r /\ t.job = job /\ tasks' = tasks \ {t}
    BY DEF End
  <1>2. e = "ok" /\ Route[r] = "remember" => Stored(r)
    BY <1>1 DEF IInv, InsertedFirst, Jobs
  <1> HIDE DEF t
  <1>3. /\ result' \in [Requests -> {"none", "ok", "invalid", "failed"}] /\ result'[r] = e
        /\ \A q \in Requests : q # r => result'[q] = result[q]
    BY DEF IInv, Types
  <1>4. Types' /\ FiniteTasks' /\ PermitsAreConserved'
    BY <1>3, EndCounts DEF IInv, Types
  <1>5. OneDbTask' /\ AuditTasksAreWaitedFor' /\ OutcomesAreKnown' /\ NotStarted'
    BY <1>1 DEF IInv, OneDbTask, AuditTasksAreWaitedFor, OutcomesAreKnown, NotStarted
  <1>6. InsertedFirst'
    BY <1>1, <1>2, <1>3 DEF IInv, InsertedFirst, Stored
  <1>7. RefusedDidNothing' /\ AcknowledgedIsStored'
    BY <1>1, <1>3 DEF IInv, RefusedDidNothing, Refused, AcknowledgedIsStored, Acknowledged
  <1> QED
    BY <1>4, <1>5, <1>6, <1>7 DEF IInv

LEMMA WorkIInv ==
  ASSUME IInv, NEW r \in Requests, Work(r)
  PROVE  IInv'
  <1>1. CASE Ingest(r)
    BY <1>1, IngestIInv
  <1>2. CASE Complete(r)
    BY <1>2, ResultIInv DEF Complete, Jobs
  <1>3. CASE Fail(r)
    BY <1>3, ResultIInv DEF Fail
  <1>4. CASE Maintain(r)
    <2>1. "maintain" \in Jobs \ {"audit"}
      BY DEF Jobs
    <2>2. /\ End([req |-> r, job |-> "maintain"])
          /\ result' = [result EXCEPT ![r] = "ok"]
          /\ UNCHANGED <<stage, status, ledger>> /\ audit' \in SUBSET audit
      BY <1>4 DEF Maintain
    <2> QED
      BY <2>1, <2>2, ResultIInv
  <1> QED
    BY <1>1, <1>2, <1>3, <1>4 DEF Work

\* The audit task ends, with its row or without, and its request is answered.
LEMMA AuditIInv ==
  ASSUME IInv, NEW r \in Requests, Audit(r)
  PROVE  IInv'
  <1> DEFINE t == [req |-> r, job |-> "audit"]
  <1>1. t \in tasks /\ t.req = r /\ t.job = "audit" /\ tasks' = tasks \ {t}
    BY DEF Audit, WriteAudit, FailAudit, End
  <1>2. UNCHANGED <<status, result, ledger>> /\ stage' = Answered(r)
    BY DEF Audit, WriteAudit, FailAudit
  <1>3. \/ audit' = audit
        \/ audit' = audit \cup {[req |-> r, status |-> status[r]]}
    BY DEF Audit, WriteAudit, FailAudit
  <1>4. stage[r] \in {"auditing", "gone"}
    BY <1>1 DEF IInv, AuditTasksAreWaitedFor
  <1>5. /\ stage' \in [Requests -> Stages] /\ stage'[r] \in {"answered", "gone"}
        /\ \A q \in Requests : q # r => stage'[q] = stage[q]
    BY <1>2, <1>4 DEF Answered, IInv, Types, Stages
  <1>6. End(t)
    BY DEF Audit, WriteAudit, FailAudit
  <1>13. status[r] \in Outcomes /\ status[r] # "none"
    BY <1>1 DEF IInv, Types, OutcomesAreKnown
  <1> HIDE DEF t
  <1>7. \A u \in tasks' : u \in tasks /\ u.req \in Requests /\ (u.job = "audit" => u.req # r)
    <2>1. \A u \in tasks : u.req \in Requests /\ u = [req |-> u.req, job |-> u.job]
      BY DEF IInv, Types
    <2> QED
      BY <1>1, <2>1 DEF t
  <1>8. Types'
    <2>1. audit' \subseteq [req : Requests, status : Outcomes]
      BY <1>3, <1>13 DEF IInv, Types
    <2> QED
      BY <1>2, <1>5, <1>6, <2>1, EndCounts DEF IInv, Types
  <1>9. FiniteTasks' /\ PermitsAreConserved' /\ OneDbTask' /\ InsertedFirst'
    BY <1>2, <1>6, <1>7, EndCounts DEF IInv, OneDbTask, InsertedFirst, Stored
  <1>10. AuditTasksAreWaitedFor' /\ OutcomesAreKnown'
    BY <1>2, <1>4, <1>5, <1>7, <1>13 DEF IInv, AuditTasksAreWaitedFor, OutcomesAreKnown
  <1>11. NotStarted'
    BY <1>2, <1>5, <1>7 DEF IInv, NotStarted
  <1>12. RefusedDidNothing'
    BY <1>2, <1>7 DEF IInv, RefusedDidNothing, Refused
  <1>14. AcknowledgedIsStored'
    BY <1>2, <1>3 DEF IInv, AcknowledgedIsStored, Acknowledged
  <1> QED
    BY <1>8, <1>9, <1>10, <1>11, <1>12, <1>14 DEF IInv

-----------------------------------------------------------------------------
LEMMA NextIInv == IInv /\ [Next]_vars => IInv'
  <1> SUFFICES ASSUME IInv, [Next]_vars PROVE IInv'
    OBVIOUS
  <1>1. CASE UNCHANGED vars
    BY <1>1 DEF vars, IInv, Types, FiniteTasks, PermitsAreConserved, OneDbTask, AuditTasksAreWaitedFor,
      OutcomesAreKnown, NotStarted, InsertedFirst, Stored, RefusedDidNothing, Refused,
      AcknowledgedIsStored, Acknowledged
  <1>2. ASSUME NEW r \in Requests, Begin(r) \/ Handle(r) \/ Work(r) \/ Audit(r) \/ Disconnect(r)
        PROVE  IInv'
    BY <1>2, BeginIInv, StayIInv, SpawnIInv, StartAuditIInv, WorkIInv, AuditIInv DEF Handle
  <1> QED
    BY <1>1, <1>2 DEF Next

(***************************************************************************)
(* The inductive invariant holds in every behaviour of the service.        *)
(***************************************************************************)
THEOREM Inductive == Spec => []IInv
  BY InitIInv, NextIInv, PTL DEF Spec

(***************************************************************************)
(* However many requests time out or lose their clients, run_db_task and   *)
(* append_audit_event together never run more blocking tasks than          *)
(* max_concurrent_db_tasks, and no permit is lost.                         *)
(***************************************************************************)
THEOREM PermitsCorrect == Spec => []PermitsAreConserved
  <1>1. IInv => PermitsAreConserved
    BY DEF IInv
  <1> QED
    BY <1>1, Inductive, PTL

(***************************************************************************)
(* A request that begin_request, the handler's checks or run_db_task       *)
(* refused writes nothing to the ledger, then or later.                    *)
(***************************************************************************)
THEOREM RefusalsCorrect == Spec => []RefusedDidNothing
  <1>1. IInv => RefusedDidNothing
    BY DEF IInv
  <1> QED
    BY <1>1, Inductive, PTL

(***************************************************************************)
(* What remember acknowledges, in its answer or in the audit log, is in    *)
(* the ledger.                                                             *)
(***************************************************************************)
THEOREM AcknowledgementsCorrect == Spec => []AcknowledgedIsStored
  <1>1. IInv => AcknowledgedIsStored
    BY DEF IInv
  <1> QED
    BY <1>1, Inductive, PTL

(***************************************************************************)
(* However often a write is retried, at once or after its first try timed  *)
(* out, the row that was inserted first stands (INSERT OR IGNORE).         *)
(***************************************************************************)
THEOREM FirstInsertCorrect == Spec => FirstInsertStands
  <1>1. IInv /\ [Next]_vars =>
          [\A k \in Keys : ledger[k] # NoRequest => ledger'[k] = ledger[k]]_vars
    <2> SUFFICES ASSUME IInv, Next
                 PROVE  \A k \in Keys : ledger[k] # NoRequest => ledger'[k] = ledger[k]
      OBVIOUS
    <2>1. PICK r \in Requests : Begin(r) \/ Handle(r) \/ Work(r) \/ Audit(r) \/ Disconnect(r)
      BY DEF Next
    <2>2. ledger' = ledger \/ Insert(r)
      BY <2>1 DEF Begin, Live, Ready, Admit, Throttle, ThrottleDenied, Deny, Handle, Reject, Metrics,
        Spawn, Busy, Timeout, Return, StartAudit, SkipAudit, Work, Ingest, Complete, Maintain, Fail, Audit,
        WriteAudit, FailAudit, Disconnect
    <2> QED
      BY <2>2 DEF Insert, IInv, Types
  <1> QED
    BY <1>1, Inductive, PTL DEF Spec, FirstInsertStands

-----------------------------------------------------------------------------
(***************************************************************************)
(* Why the counters add up.  A counter that is locked on its own is the    *)
(* number of the requests in some set: those that were begun on a route,   *)
(* those with an outcome.  A step of a handler moves one request into such *)
(* a set exactly when it counts.                                           *)
(***************************************************************************)

\* a request has no outcome before its handler has finished
NoOutcomeYet ==
  \A r \in Requests : stage[r] \in {"new", "admitted", "waiting"} => status[r] = "none"

Served(routes) == Begun(routes) \cap Succeeded

CountedBegin ==
  /\ metrics["total"] = Cardinality(Begun(Routes))
  /\ \A route \in Routes : metrics[route] = Cardinality(Begun({route}))
  /\ metrics["authorized"] + metrics["unauthorized"]
       = Cardinality(Begun(Routes \ {"live", "ready"}))

CountedEnd ==
  /\ metrics["successful"] = With({"ok"})
  /\ metrics["failed"] = With(Failures)
  /\ metrics["busy"] = With({"busy"})
  /\ metrics["timeout"] = With({"timeout"})
  /\ metrics["rateLimited"] = With({"rateLimited"})

CountedAnswers ==
  /\ metrics["cueSeed"] + metrics["activation"] + metrics["activeReconstruction"]
       = Cardinality(Served({"query"}))
  /\ metrics["reports"] \in Cardinality(Served({"manage"}))
                             ..Cardinality(Served({"manage", "remember"}))

Counted ==
  /\ metrics \in [Counters -> Nat]
  /\ NoOutcomeYet
  /\ CountedBegin
  /\ CountedEnd
  /\ CountedAnswers

\* Sets of requests and one request more.
LEMMA RequestSets ==
  ASSUME NEW S \in SUBSET Requests
  PROVE  /\ Cardinality(S) \in 0..Cardinality(Requests) /\ Cardinality(Requests) \in Nat
         /\ \A r \in Requests \ S : Cardinality(S \cup {r}) = Cardinality(S) + 1
  <1>1. IsFiniteSet(Requests) /\ IsFiniteSet(S) /\ Cardinality(S) <= Cardinality(Requests)
    BY ConstantsAssumption, FS_Subset
  <1>2. Cardinality(S) \in Nat /\ Cardinality(Requests) \in Nat
    BY <1>1, FS_CardinalityType
  <1>3. \A r \in Requests \ S : Cardinality(S \cup {r}) = Cardinality(S) + 1
    BY <1>1, FS_AddElement
  <1> QED
    BY <1>1, <1>2, <1>3

LEMMA Sizes ==
  /\ \A S : With(S) \in 0..Cardinality(Requests)
  /\ \A R : Cardinality(Begun(R)) \in 0..Cardinality(Requests)
  /\ \A R : Cardinality(Served(R)) \in 0..Cardinality(Requests)
  /\ Cardinality(Requests) \in Nat
  <1>1. \A S : {r \in Requests : status[r] \in S} \in SUBSET Requests
    OBVIOUS
  <1>2. \A R : Begun(R) \in SUBSET Requests /\ Served(R) \in SUBSET Requests
    BY DEF Begun, Served
  <1> QED
    BY <1>1, <1>2, RequestSets DEF With

One(b) == IF b THEN 1 ELSE 0

\* A request without an outcome moves on, and perhaps gets one.
LEMMA MoveCounts ==
  ASSUME Types, NEW r \in Requests, NEW s \in Stages \ {"new"}, NEW o \in Outcomes \cup {"none"},
         Move(r, s, o), status[r] = "none"
  PROVE  /\ \A S \in SUBSET Outcomes : With(S)' = With(S) + One(o \in S)
         /\ \A R \in SUBSET Routes :
              /\ Cardinality(Begun(R))'
                   = Cardinality(Begun(R)) + One(stage[r] = "new" /\ Route[r] \in R)
              /\ Cardinality(Served(R))' = Cardinality(Served(R)) + One(o = "ok" /\ Route[r] \in R)
  <1>1. /\ stage'[r] = s /\ status'[r] = o
        /\ \A q \in Requests \ {r} : stage'[q] = stage[q] /\ status'[q] = status[q]
    BY DEF Types, Move
  <1>2. "none" \notin Outcomes /\ "ok" \in Outcomes
    BY DEF Outcomes, Failures
  <1>3. ASSUME NEW S \in SUBSET Outcomes PROVE With(S)' = With(S) + One(o \in S)
    <2> DEFINE W == {q \in Requests : status[q] \in S}
    <2>1. W \in SUBSET Requests /\ r \notin W
      BY <1>2
    <2>2. {q \in Requests : status'[q] \in S} = IF o \in S THEN W \cup {r} ELSE W
      BY <1>1, <1>2
    <2> HIDE DEF W
    <2>3. Cardinality(W) \in Nat /\ Cardinality(W \cup {r}) = Cardinality(W) + 1
      BY <2>1, RequestSets
    <2>4. With(S) = Cardinality(W)
      BY DEF With, W
    <2>5. With(S)' = Cardinality(IF o \in S THEN W \cup {r} ELSE W)
      BY <2>2 DEF With
    <2> QED
      BY <2>3, <2>4, <2>5 DEF One
  <1>4. ASSUME NEW R \in SUBSET Routes
        PROVE  Cardinality(Begun(R))'
                 = Cardinality(Begun(R)) + One(stage[r] = "new" /\ Route[r] \in R)
    <2>1. Begun(R) \in SUBSET Requests
      BY DEF Begun
    <2>2. CASE stage[r] = "new" /\ Route[r] \in R
      <3>1. r \notin Begun(R) /\ Begun(R)' = Begun(R) \cup {r}
        BY <1>1, <2>2 DEF Begun
      <3> QED
        BY <2>1, <2>2, <3>1, RequestSets DEF One
    <2>3. CASE ~(stage[r] = "new" /\ Route[r] \in R)
      <3>1. Begun(R)' = Begun(R)
        BY <1>1, <2>3 DEF Begun
      <3>2. Cardinality(Begun(R)) \in Nat
        BY <2>1, RequestSets
      <3> QED
        BY <2>3, <3>1, <3>2 DEF One
    <2> QED
      BY <2>2, <2>3
  <1>5. ASSUME NEW R \in SUBSET Routes
        PROVE  Cardinality(Served(R))' = Cardinality(Served(R)) + One(o = "ok" /\ Route[r] \in R)
    <2>1. /\ Served(R) \in SUBSET Requests
          /\ \A q : q \in Served(R) <=>
                 q \in Requests /\ stage[q] # "new" /\ Route[q] \in R /\ status[q] = "ok"
          /\ \A q : q \in Served(R)' <=>
                 q \in Requests /\ stage'[q] # "new" /\ Route[q] \in R /\ status'[q] = "ok"
      BY DEF Served, Begun, Succeeded
    <2>2. CASE o = "ok" /\ Route[r] \in R
      <3>1. r \notin Served(R) /\ Served(R)' = Served(R) \cup {r}
        BY <1>1, <2>1, <2>2
      <3> QED
        BY <2>1, <2>2, <3>1, RequestSets DEF One
    <2>3. CASE ~(o = "ok" /\ Route[r] \in R)
      <3>1. Served(R)' = Served(R)
        BY <1>1, <2>1, <2>3
      <3>2. Cardinality(Served(R)) \in Nat
        BY <2>1, RequestSets
      <3> QED
        BY <2>3, <3>1, <3>2 DEF One
    <2> QED
      BY <2>2, <2>3
  <1> QED
    BY <1>3, <1>4, <1>5

(***************************************************************************)
(* What a handler has to count when it moves a request on.                 *)
(***************************************************************************)
CountsBegin(r, C) ==
  /\ "total" \in C <=> stage[r] = "new"
  /\ \A route \in Routes : route \in C <=> stage[r] = "new" /\ route = Route[r]
  /\ ("authorized" \in C \/ "unauthorized" \in C) <=> stage[r] = "new" /\ ~IsOpen(r)
  /\ ~("authorized" \in C /\ "unauthorized" \in C)

CountsEnd(o, C) ==
  /\ "successful" \in C <=> o = "ok"
  /\ "failed" \in C <=> o \in Failures
  /\ \A reason \in {"busy", "timeout", "rateLimited"} : reason \in C <=> o = reason

CountsAnswer(r, o, C) ==
  /\ IF o = "ok" /\ Route[r] = "query"
       THEN \E tier \in Tiers : C \cap Tiers = {tier}
       ELSE C \cap Tiers = {}
  /\ o = "ok" /\ Route[r] = "manage" => "reports" \in C
  /\ "reports" \in C => o = "ok" /\ Route[r] \in {"manage", "remember"}

LEMMA CountedMoves ==
  ASSUME Types, Counted,
         NEW r \in Requests, NEW s \in Stages \ {"new"}, NEW o \in Outcomes \cup {"none"},
         NEW C \in SUBSET Counters,
         Move(r, s, o), status[r] = "none",
         s \in {"new", "admitted", "waiting"} => o = "none",
         Count(C), CountsBegin(r, C), CountsEnd(o, C), CountsAnswer(r, o, C)
  PROVE  Counted'
  <1>1. /\ metrics \in [Counters -> Nat]
        /\ \A c \in Counters : metrics'[c] = metrics[c] + One(c \in C)
    BY DEF Count, Counted, One
  <1>2. metrics' \in [Counters -> Nat]
    BY DEF Count, Counted
  <1>3. /\ \A S \in SUBSET Outcomes : With(S)' = With(S) + One(o \in S)
        /\ \A R \in SUBSET Routes :
             /\ Cardinality(Begun(R))'
                  = Cardinality(Begun(R)) + One(stage[r] = "new" /\ Route[r] \in R)
             /\ Cardinality(Served(R))' = Cardinality(Served(R)) + One(o = "ok" /\ Route[r] \in R)
    BY MoveCounts
  <1>4. Route[r] \in Routes
    BY ConstantsAssumption
  <1>5. NoOutcomeYet'
    BY DEF Counted, NoOutcomeYet, Types, Move
  <1>6. CountedBegin'
    <2>1. metrics'["total"] = Cardinality(Begun(Routes))'
      <3>1. "total" \in Counters
        BY DEF Counters
      <3> QED
        BY <1>1, <1>3, <1>4, <3>1 DEF Counted, CountedBegin, CountsBegin, One
    <2>2. ASSUME NEW route \in Routes
          PROVE  metrics'[route] = Cardinality(Begun({route}))'
      <3>1. route \in Counters /\ {route} \in SUBSET Routes
        BY DEF Counters
      <3>2. metrics'[route] = metrics[route] + One(route \in C)
        BY <1>1, <3>1
      <3>3. Cardinality(Begun({route}))'
              = Cardinality(Begun({route})) + One(stage[r] = "new" /\ Route[r] \in {route})
        BY <1>3, <3>1
      <3>4. route \in C <=> stage[r] = "new" /\ Route[r] \in {route}
        BY DEF CountsBegin
      <3> QED
        BY <3>2, <3>3, <3>4 DEF Counted, CountedBegin, One
    <2>3. metrics'["authorized"] + metrics'["unauthorized"]
            = Cardinality(Begun(Routes \ {"live", "ready"}))'
      <3> DEFINE R == Routes \ {"live", "ready"}
      <3>1. "authorized" \in Counters /\ "unauthorized" \in Counters
        BY DEF Counters
      <3>2. /\ metrics'["authorized"] = metrics["authorized"] + One("authorized" \in C)
            /\ metrics'["unauthorized"] = metrics["unauthorized"] + One("unauthorized" \in C)
            /\ metrics["authorized"] \in Nat /\ metrics["unauthorized"] \in Nat
        BY <1>1, <3>1
      <3>3. Cardinality(Begun(R))'
              = Cardinality(Begun(R)) + One(stage[r] = "new" /\ Route[r] \in R)
        BY <1>3
      <3>4. One("authorized" \in C) + One("unauthorized" \in C)
              = One(stage[r] = "new" /\ Route[r] \in R)
        BY <1>4 DEF CountsBegin, IsOpen, One
      <3>5. metrics["authorized"] + metrics["unauthorized"] = Cardinality(Begun(R))
        BY DEF Counted, CountedBegin
      <3> HIDE DEF R
      <3>6. \A b : One(b) \in Nat
        BY DEF One
      <3> QED
        BY <3>2, <3>3, <3>4, <3>5, <3>6 DEF R
    <2> QED
      BY <2>1, <2>2, <2>3 DEF CountedBegin
  <1>7. CountedEnd'
    <2>1. /\ {"successful", "failed", "busy", "timeout", "rateLimited"} \subseteq Counters
          /\ Failures \in SUBSET Outcomes /\ {"ok"} \in SUBSET Outcomes
          /\ \A reason \in {"busy", "timeout", "rateLimited"} : {reason} \in SUBSET Outcomes
      BY DEF Counters, Outcomes, Failures
    <2>2. metrics'["successful"] = With({"ok"})'
      <3>1. metrics'["successful"] = metrics["successful"] + One("successful" \in C)
        BY <1>1, <2>1
      <3>2. With({"ok"})' = With({"ok"}) + One(o \in {"ok"})
        BY <1>3, <2>1
      <3> QED
        BY <3>1, <3>2 DEF Counted, CountedEnd, CountsEnd, One
    <2>3. metrics'["failed"] = With(Failures)'
      <3>1. metrics'["failed"] = metrics["failed"] + One("failed" \in C)
        BY <1>1, <2>1
      <3>2. With(Failures)' = With(Failures) + One(o \in Failures)
        BY <1>3, <2>1
      <3> QED
        BY <3>1, <3>2 DEF Counted, CountedEnd, CountsEnd, One
    <2>4. ASSUME NEW reason \in {"busy", "timeout", "rateLimited"}
          PROVE  metrics'[reason] = With({reason})'
      <3>1. metrics'[reason] = metrics[reason] + One(reason \in C)
        BY <1>1, <2>1
      <3>2. With({reason})' = With({reason}) + One(o \in {reason})
        BY <1>3, <2>1
      <3>3. metrics[reason] = With({reason})
        BY DEF Counted, CountedEnd
      <3>4. reason \in C <=> o \in {reason}
        BY DEF CountsEnd
      <3> QED
        BY <3>1, <3>2, <3>3, <3>4 DEF One
    <2> QED
      BY <2>2, <2>3, <2>4 DEF CountedEnd
  <1>8. CountedAnswers'
    <2>1. Tiers \subseteq Counters /\ "reports" \in Counters
      BY DEF Counters
    <2>2. metrics'["cueSeed"] + metrics'["activation"] + metrics'["activeReconstruction"]
            = Cardinality(Served({"query"}))'
      <3>1. /\ metrics'["cueSeed"] = metrics["cueSeed"] + One("cueSeed" \in C)
            /\ metrics'["activation"] = metrics["activation"] + One("activation" \in C)
            /\ metrics'["activeReconstruction"]
                 = metrics["activeReconstruction"] + One("activeReconstruction" \in C)
            /\ metrics["cueSeed"] \in Nat /\ metrics["activation"] \in Nat
            /\ metrics["activeReconstruction"] \in Nat
        BY <1>1, <2>1 DEF Tiers
      <3>2. One("cueSeed" \in C) + One("activation" \in C) + One("activeReconstruction" \in C)
              = One(o = "ok" /\ Route[r] \in {"query"})
        <4>1. CASE o = "ok" /\ Route[r] = "query"
          <5>1. PICK tier \in Tiers : C \cap Tiers = {tier}
            BY <4>1 DEF CountsAnswer
          <5>2. \A t \in Tiers : t \in C <=> t = tier
            BY <5>1
          <5> QED
            BY <4>1, <5>2 DEF Tiers, One
        <4>2. CASE ~(o = "ok" /\ Route[r] = "query")
          <5>1. \A t \in Tiers : t \notin C
            BY <4>2 DEF CountsAnswer
          <5> QED
            BY <4>2, <5>1 DEF Tiers, One
        <4> QED
          BY <4>1, <4>2
      <3>3. Cardinality(Served({"query"}))'
              = Cardinality(Served({"query"})) + One(o = "ok" /\ Route[r] \in {"query"})
        BY <1>3 DEF Routes
      <3>4. metrics["cueSeed"] + metrics["activation"] + metrics["activeReconstruction"]
              = Cardinality(Served({"query"}))
        BY DEF Counted, CountedAnswers
      <3>5. \A b : One(b) \in Nat
        BY DEF One
      <3>6. metrics'["cueSeed"] + metrics'["activation"] + metrics'["activeReconstruction"]
              = (metrics["cueSeed"] + metrics["activation"] + metrics["activeReconstruction"])
                  + (One("cueSeed" \in C) + One("activation" \in C)
                       + One("activeReconstruction" \in C))
        BY <3>1, <3>5
      <3> QED
        BY <3>2, <3>3, <3>4, <3>6
    <2>3. metrics'["reports"] \in Cardinality(Served({"manage"}))'
                                  ..Cardinality(Served({"manage", "remember"}))'
      <3>1. metrics'["reports"] = metrics["reports"] + One("reports" \in C)
            /\ metrics["reports"] \in Nat
        BY <1>1, <2>1
      <3>2. /\ Cardinality(Served({"manage"}))'
                 = Cardinality(Served({"manage"})) + One(o = "ok" /\ Route[r] \in {"manage"})
            /\ Cardinality(Served({"manage", "remember"}))'
                 = Cardinality(Served({"manage", "remember"}))
                     + One(o = "ok" /\ Route[r] \in {"manage", "remember"})
        BY <1>3 DEF Routes
      <3>3. /\ One(o = "ok" /\ Route[r] \in {"manage"}) <= One("reports" \in C)
            /\ One("reports" \in C) <= One(o = "ok" /\ Route[r] \in {"manage", "remember"})
        BY DEF CountsAnswer, One
      <3>4. metrics["reports"] \in Cardinality(Served({"manage"}))
                                   ..Cardinality(Served({"manage", "remember"}))
        BY DEF Counted, CountedAnswers
      <3>5. \A b : One(b) \in Nat
        BY DEF One
      <3>6. Cardinality(Served({"manage"})) \in Nat
            /\ Cardinality(Served({"manage", "remember"})) \in Nat
        BY Sizes
      <3> QED
        BY <3>1, <3>2, <3>3, <3>4, <3>5, <3>6
    <2> QED
      BY <2>2, <2>3 DEF CountedAnswers
  <1> QED
    BY <1>2, <1>5, <1>6, <1>7, <1>8 DEF Counted

\* A step that gives no request an outcome and begins none counts nothing.
LEMMA CountedStays ==
  ASSUME Types, Counted, UNCHANGED <<status, metrics>>,
         \A q \in Requests : stage'[q] = "new" <=> stage[q] = "new",
         \A q \in Requests : stage'[q] \in {"new", "admitted", "waiting"} => stage'[q] = stage[q]
  PROVE  Counted'
  <1>1. \A S : With(S)' = With(S)
    BY DEF With
  <1>2. \A R : Begun(R)' = Begun(R)
    BY DEF Begun
  <1>3. \A R : Served(R)' = Served(R)
    BY <1>2 DEF Served, Succeeded
  <1>4. CountedBegin' /\ CountedEnd' /\ CountedAnswers'
    BY <1>1, <1>2, <1>3 DEF Counted, CountedBegin, CountedEnd, CountedAnswers
  <1>5. NoOutcomeYet'
    BY DEF Counted, NoOutcomeYet
  <1> QED
    BY <1>4, <1>5 DEF Counted

LEMMA CountedBegins ==
  ASSUME Types, Counted, NEW r \in Requests, Begin(r)
  PROVE  Counted'
  <1> USE DEF CountsBegin, CountsEnd, CountsAnswer, IsOpen, Failures, Tiers
  <1>1. Route[r] \in Routes /\ stage[r] = "new" /\ status[r] = "none"
    BY ConstantsAssumption
    DEF Begin, Live, Ready, Admit, Throttle, ThrottleDenied, Deny, Counted, NoOutcomeYet
  <1>2. CASE Live(r)
    <2> DEFINE C == {"total", Route[r], "successful"}
    <2>1. C \in SUBSET Counters
      BY <1>1 DEF Counters
    <2>2. CountsBegin(r, C) /\ CountsEnd("ok", C) /\ CountsAnswer(r, "ok", C)
      BY <1>1, <1>2 DEF Live, Routes
    <2> HIDE DEF C
    <2> QED
      BY <1>1, <1>2, <2>1, <2>2, CountedMoves DEF Live, Stages, Outcomes, C
  <1>3. CASE Ready(r)
    <2> DEFINE C == {"total", Route[r]}
    <2>1. C \in SUBSET Counters
      BY <1>1 DEF Counters
    <2>2. CountsBegin(r, C) /\ CountsEnd("none", C) /\ CountsAnswer(r, "none", C)
      BY <1>1, <1>3 DEF Ready, Routes
    <2> HIDE DEF C
    <2> QED
      BY <1>1, <1>3, <2>1, <2>2, CountedMoves DEF Ready, Stages, Outcomes, C
  <1>4. CASE Admit(r)
    <2> DEFINE C == {"total", Route[r], "authorized"}
    <2>1. C \in SUBSET Counters
      BY <1>1 DEF Counters
    <2>2. CountsBegin(r, C) /\ CountsEnd("none", C) /\ CountsAnswer(r, "none", C)
      BY <1>1, <1>4 DEF Admit, Routes
    <2> HIDE DEF C
    <2> QED
      BY <1>1, <1>4, <2>1, <2>2, CountedMoves DEF Admit, Stages, Outcomes, C
  <1>5. CASE Throttle(r)
    <2> DEFINE C == {"total", Route[r], "authorized", "rateLimited", "failed"}
    <2>1. C \in SUBSET Counters
      BY <1>1 DEF Counters
    <2>2. CountsBegin(r, C) /\ CountsEnd("rateLimited", C) /\ CountsAnswer(r, "rateLimited", C)
      BY <1>1, <1>5 DEF Throttle, Routes
    <2> HIDE DEF C
    <2> QED
      BY <1>1, <1>5, <2>1, <2>2, CountedMoves DEF Throttle, Stages, Outcomes, C
  <1>6. CASE ThrottleDenied(r)
    <2> DEFINE C == {"total", Route[r], "unauthorized", "rateLimited", "failed"}
    <2>1. C \in SUBSET Counters
      BY <1>1 DEF Counters
    <2>2. CountsBegin(r, C) /\ CountsEnd("rateLimited", C) /\ CountsAnswer(r, "rateLimited", C)
      BY <1>1, <1>6 DEF ThrottleDenied, Routes
    <2> HIDE DEF C
    <2> QED
      BY <1>1, <1>6, <2>1, <2>2, CountedMoves DEF ThrottleDenied, Stages, Outcomes, C
  <1>7. CASE Deny(r)
    <2> DEFINE C == {"total", Route[r], "unauthorized", "failed"}
    <2>1. C \in SUBSET Counters
      BY <1>1 DEF Counters
    <2>2. CountsBegin(r, C) /\ CountsEnd("unauthorized", C) /\ CountsAnswer(r, "unauthorized", C)
      BY <1>1, <1>7 DEF Deny, Routes
    <2> HIDE DEF C
    <2> QED
      BY <1>1, <1>7, <2>1, <2>2, CountedMoves DEF Deny, Stages, Outcomes, C
  <1> QED
    BY <1>2, <1>3, <1>4, <1>5, <1>6, <1>7 DEF Begin

LEMMA CountedHandles ==
  ASSUME Types, Counted, NEW r \in Requests, Handle(r)
  PROVE  Counted'
  <1> USE DEF CountsBegin, CountsEnd, CountsAnswer, Failures, Tiers
  <1>1. Route[r] \in Routes
    BY ConstantsAssumption
  <1>2. \A o : Closing(r) \in Stages \ {"new"} /\ Closing(r) \notin {"new", "admitted", "waiting"}
    BY DEF Closing, Stages
  <1>3. stage[r] \in {"admitted", "waiting"} => status[r] = "none"
    BY DEF Counted, NoOutcomeYet
  <1>4. CASE Reject(r)
    <2>1. CountsBegin(r, {"failed"}) /\ CountsEnd("invalid", {"failed"})
          /\ CountsAnswer(r, "invalid", {"failed"})
      BY <1>4 DEF Reject, Routes
    <2>2. {"failed"} \in SUBSET Counters /\ "closing" \in Stages \ {"new"} /\ "invalid" \in Outcomes
      BY DEF Counters, Stages, Outcomes
    <2> QED
      BY <1>3, <1>4, <2>1, <2>2, CountedMoves DEF Reject
  <1>5. CASE Metrics(r)
    <2>1. CountsBegin(r, {"successful"}) /\ CountsEnd("ok", {"successful"})
          /\ CountsAnswer(r, "ok", {"successful"})
      BY <1>5 DEF Metrics, Routes
    <2>2. {"successful"} \in SUBSET Counters /\ "closing" \in Stages \ {"new"} /\ "ok" \in Outcomes
      BY DEF Counters, Stages, Outcomes
    <2> QED
      BY <1>3, <1>5, <2>1, <2>2, CountedMoves DEF Metrics
  <1>6. CASE Spawn(r)
    <2>1. CountsBegin(r, {}) /\ CountsEnd("none", {}) /\ CountsAnswer(r, "none", {})
      BY <1>6 DEF Spawn, Routes
    <2>2. Count({})
      BY <1>6 DEF Spawn, Count, Counted
    <2>3. "waiting" \in Stages \ {"new"}
      BY DEF Stages
    <2> QED
      BY <1>3, <1>6, <2>1, <2>2, <2>3, CountedMoves DEF Spawn
  <1>7. CASE Busy(r)
    <2> DEFINE C == {"busy", "failed"}
    <2>1. CountsBegin(r, C) /\ CountsEnd("busy", C) /\ CountsAnswer(r, "busy", C)
      BY <1>7 DEF Busy, Routes
    <2>2. C \in SUBSET Counters /\ "busy" \in Outcomes
      BY DEF Counters, Outcomes
    <2> HIDE DEF C
    <2> QED
      BY <1>2, <1>3, <1>7, <2>1, <2>2, CountedMoves DEF Busy, C
  <1>8. CASE Timeout(r)
    <2> DEFINE C == {"timeout", "failed"}
    <2>1. CountsBegin(r, C) /\ CountsEnd("timeout", C) /\ CountsAnswer(r, "timeout", C)
      BY <1>8 DEF Timeout, Routes
    <2>2. C \in SUBSET Counters /\ "timeout" \in Outcomes
      BY DEF Counters, Outcomes
    <2> HIDE DEF C
    <2> QED
      BY <1>2, <1>3, <1>8, <2>1, <2>2, CountedMoves DEF Timeout, C
  <1>9. CASE Return(r)
    <2>1. CASE result[r] = "ok"
      <3>1. PICK records \in RecordsOf(Route[r]) : Count({"successful"} \cup records)
        BY <1>9, <2>1 DEF Return
      <3> DEFINE C == {"successful"} \cup records
      <3>2. C \in SUBSET Counters
        BY <3>1 DEF RecordsOf, Counters
      <3>3. /\ stage[r] # "new"
            /\ Route[r] = "query" => \E tier \in Tiers : records = {tier}
            /\ Route[r] = "manage" => records = {"reports"}
            /\ Route[r] = "remember" => records \in {{"reports"}, {}}
            /\ Route[r] \notin {"query", "manage", "remember"} => records = {}
        BY <1>9, <3>1 DEF RecordsOf, Return
      <3>4. CountsBegin(r, C) /\ CountsEnd("ok", C) /\ CountsAnswer(r, "ok", C)
        BY <3>3 DEF Routes
      <3> HIDE DEF C
      <3> QED
        BY <1>2, <1>3, <1>9, <2>1, <3>1, <3>2, <3>4, CountedMoves DEF Return, Outcomes, C
    <2>2. CASE result[r] # "ok"
      <3>1. result[r] \in {"invalid", "failed"}
        BY <1>9, <2>2 DEF Return, Types
      <3>2. CountsBegin(r, {"failed"}) /\ CountsEnd(result[r], {"failed"})
            /\ CountsAnswer(r, result[r], {"failed"})
        BY <1>9, <3>1 DEF Return, Routes
      <3>3. {"failed"} \in SUBSET Counters /\ result[r] \in Outcomes
        BY <3>1 DEF Counters, Outcomes
      <3> QED
        BY <1>2, <1>3, <1>9, <2>2, <3>2, <3>3, CountedMoves DEF Return
    <2> QED
      BY <2>1, <2>2
  <1>10. CASE StartAudit(r) \/ SkipAudit(r)
    <2>1. /\ stage[r] = "closing" /\ UNCHANGED <<status, metrics>>
          /\ \E s \in {"auditing", "answered"} : stage' = [stage EXCEPT ![r] = s]
      BY <1>10 DEF StartAudit, SkipAudit, Move, Types
    <2> QED
      BY <2>1, CountedStays DEF Types
  <1> QED
    BY <1>4, <1>5, <1>6, <1>7, <1>8, <1>9, <1>10 DEF Handle

LEMMA CountedNext == Types /\ Counted /\ [Next]_vars => Counted'
  <1> SUFFICES ASSUME Types, Counted, [Next]_vars PROVE Counted'
    OBVIOUS
  <1>1. CASE UNCHANGED vars
    BY <1>1, CountedStays DEF vars
  <1>2. ASSUME NEW r \in Requests, Begin(r) PROVE Counted'
    BY <1>2, CountedBegins
  <1>3. ASSUME NEW r \in Requests, Handle(r) PROVE Counted'
    BY <1>3, CountedHandles
  <1>4. ASSUME NEW r \in Requests, Work(r) PROVE Counted'
    <2>1. UNCHANGED <<stage, status, metrics>>
      BY <1>4 DEF Work, Ingest, Complete, Maintain, Fail
    <2> QED
      BY <2>1, CountedStays
  <1>5. ASSUME NEW r \in Requests, Audit(r) PROVE Counted'
    <2>1. UNCHANGED <<status, metrics>> /\ stage' = Answered(r)
      BY <1>5 DEF Audit, WriteAudit, FailAudit
    <2> QED
      BY <2>1, CountedStays DEF Answered, Types
  <1>6. ASSUME NEW r \in Requests, Disconnect(r) PROVE Counted'
    BY <1>6, CountedStays DEF Disconnect, Types
  <1> QED
    BY <1>1, <1>2, <1>3, <1>4, <1>5, <1>6 DEF Next

LEMMA CountedInit == Init => Counted
  <1> SUFFICES ASSUME Init PROVE Counted
    OBVIOUS
  <1>1. /\ \A S \in SUBSET Outcomes : {r \in Requests : status[r] \in S} = {}
        /\ \A R : Begun(R) = {} /\ Served(R) = {}
    BY DEF Init, Begun, Served, Outcomes, Failures
  <1>2. /\ \A S \in SUBSET Outcomes : With(S) = 0
        /\ \A R : Cardinality(Begun(R)) = 0 /\ Cardinality(Served(R)) = 0
    BY <1>1, FS_EmptySet DEF With
  <1>3. \A c \in Counters : metrics[c] = 0
    BY DEF Init
  <1>4. CountedBegin
    <2>1. \A route \in Routes : metrics[route] = Cardinality(Begun({route}))
      BY <1>2, <1>3 DEF Counters
    <2>2. metrics["total"] = 0 /\ metrics["authorized"] = 0 /\ metrics["unauthorized"] = 0
      BY <1>3 DEF Counters
    <2> QED
      BY <1>2, <2>1, <2>2 DEF CountedBegin
  <1>5. CountedEnd
    <2>1. /\ Failures \in SUBSET Outcomes
          /\ \A o \in {"ok", "busy", "timeout", "rateLimited"} : {o} \in SUBSET Outcomes
      BY DEF Outcomes, Failures
    <2> QED
      BY <1>2, <1>3, <2>1 DEF CountedEnd, Counters
  <1>6. CountedAnswers
    BY <1>2, <1>3 DEF CountedAnswers, Counters, Tiers
  <1> QED
    BY <1>4, <1>5, <1>6 DEF Init, Counted, NoOutcomeYet

(***************************************************************************)
(* The counters of /v1/metrics add up in every state, for every number of  *)
(* requests in flight and whatever times out, fails or goes away.          *)
(***************************************************************************)
THEOREM CountersCorrect == Spec => []CountersAddUp
  <1>1. Types /\ Counted => CountersAddUp
    <2> SUFFICES ASSUME Types, Counted PROVE CountersAddUp
      OBVIOUS
    <2> DEFINE W == {r \in Requests : status[r] \in Outcomes}
               P == {r \in Requests : stage[r] # "new" /\ status[r] = "none"}
    <2>1. W \cup P = Begun(Routes) /\ W \cap P = {}
      <3>0. \A r \in Requests : Route[r] \in Routes
        BY ConstantsAssumption
      <3>1. \A r \in Requests : status[r] \in Outcomes \/ status[r] = "none"
        BY DEF Types
      <3>3. \A r \in Requests : stage[r] = "new" => status[r] = "none"
        BY DEF Counted, NoOutcomeYet
      <3>2. "none" \notin Outcomes
        BY DEF Outcomes, Failures
      <3> QED
        <4>1. Begun(Routes) = {r \in Requests : stage[r] # "new"}
          BY <3>0 DEF Begun
        <4>2. \A r \in Requests : r \in W \/ r \in P <=> stage[r] # "new"
          BY <3>1, <3>2, <3>3
        <4> QED
          BY <3>2, <4>1, <4>2
    <2>2. IsFiniteSet(W) /\ IsFiniteSet(P)
      BY ConstantsAssumption, FS_Subset
    <2> HIDE DEF W, P
    <2>3. Cardinality(Begun(Routes)) = Cardinality(W) + Cardinality(P)
      <3>1. Cardinality(W \cup P) = Cardinality(W) + Cardinality(P) - Cardinality({})
        BY <2>1, <2>2, FS_Union
      <3>2. Cardinality(W) \in Nat /\ Cardinality(P) \in Nat /\ Cardinality({}) = 0
        BY <2>2, FS_CardinalityType, FS_EmptySet
      <3> QED
        BY <2>1, <3>1, <3>2
    <2>4. metrics["total"] = With(Outcomes)
            + Cardinality({r \in Requests : stage[r] # "new" /\ status[r] = "none"})
      BY <2>3 DEF Counted, CountedBegin, With, W, P
    <2> QED
      BY <2>4 DEF Counted, CountedBegin, CountedEnd, CountedAnswers, Served, CountersAddUp
  <1>2. IInv => Types
    BY DEF IInv
  <1> QED
    BY <1>1, <1>2, CountedInit, CountedNext, Inductive, PTL DEF Spec

(***************************************************************************)
(* The state is well typed; no counter exceeds the number of requests.     *)
(***************************************************************************)
THEOREM TypeCorrect == Spec => []TypeOK
  <1>1. Types /\ Counted => TypeOK
    <2> SUFFICES ASSUME Types, Counted, NEW c \in Counters
                 PROVE  metrics[c] \in 0..Cardinality(Requests)
      BY DEF Types, TypeOK, Counted
    <2>1. metrics \in [Counters -> Nat] /\ metrics[c] \in Nat
      BY DEF Counted
    <2>2. CASE c \in {"total"} \cup Routes
      BY <2>2, Sizes DEF Counted, CountedBegin
    <2>3. CASE c \in {"authorized", "unauthorized"}
      <3>1. metrics["authorized"] \in Nat /\ metrics["unauthorized"] \in Nat
        BY <2>1 DEF Counters
      <3>2. metrics["authorized"] + metrics["unauthorized"] <= Cardinality(Requests)
        BY Sizes DEF Counted, CountedBegin
      <3> QED
        BY <2>3, <3>1, <3>2, Sizes
    <2>4. CASE c \in {"successful", "failed", "busy", "timeout", "rateLimited"}
      BY <2>4, Sizes DEF Counted, CountedEnd
    <2>5. CASE c \in Tiers
      <3>1. \A tier \in Tiers : metrics[tier] \in Nat
        BY <2>1 DEF Counters
      <3>2. metrics["cueSeed"] + metrics["activation"] + metrics["activeReconstruction"]
              <= Cardinality(Requests)
        BY Sizes DEF Counted, CountedAnswers
      <3> QED
        BY <2>5, <3>1, <3>2, Sizes DEF Tiers
    <2>6. CASE c = "reports"
      <3>1. metrics["reports"] <= Cardinality(Served({"manage", "remember"}))
        BY Sizes DEF Counted, CountedAnswers
      <3> QED
        BY <2>1, <2>6, <3>1, Sizes
    <2> QED
      BY <2>2, <2>3, <2>4, <2>5, <2>6 DEF Counters
  <1>2. IInv => Types
    BY DEF IInv
  <1> QED
    BY <1>1, <1>2, CountedInit, CountedNext, Inductive, PTL DEF Spec

-----------------------------------------------------------------------------
(***************************************************************************)
(* The limiter.                                                            *)
(***************************************************************************)

(***************************************************************************)
(* What a denied actor was promised lies at or after the end of the window *)
(* it has now.  RetryAfterIsHonest is not inductive without it: nothing    *)
(* else relates promise and windows.                                       *)
(***************************************************************************)
PromiseCoversWindow ==
  \A a \in DOMAIN windows : promise[a] # 0 => promise[a] >= windows[a].start + Window

\* a limiter that is disabled denies nobody
NoPromiseWhenDisabled == max = 0 => \A a \in Actors : promise[a] = 0

LimiterIInv ==
  /\ LimiterTypeOK
  /\ PromiseCoversWindow
  /\ NoPromiseWhenDisabled

-----------------------------------------------------------------------------
(* Lemmas about the operators of the limiter. *)

\* Waiting for as many seconds as Retry-After says outlasts the window.
LEMMA RetryAfterOutlasts ==
  ASSUME NEW w \in Windows, LimiterTypeOK
  PROVE  /\ RetryAfter(w) \in Nat
         /\ now + Second * RetryAfter(w) >= w.start + Window
  <1> DEFINE remaining == Window - (now - w.start)
             wait == IF remaining > 1 THEN remaining ELSE 1
  <1>1. now \in Nat /\ w.start \in Nat /\ Window \in Nat
    BY LimiterAssumption DEF LimiterTypeOK, Windows
  <1>2. wait \in Nat /\ wait >= remaining /\ remaining \in Int
    BY <1>1
  <1>3. RetryAfter(w) = (wait + 1000 - 1) \div 1000
    BY DEF RetryAfter, Second
  <1> HIDE DEF wait
  <1>4. (wait + 1000 - 1) \div 1000 \in Nat /\ 1000 * ((wait + 1000 - 1) \div 1000) >= wait
    BY <1>2
  <1> QED
    BY <1>1, <1>2, <1>3, <1>4 DEF Second

\* Sweeping drops windows and changes none.
LEMMA SweptIsPart ==
  ASSUME LimiterTypeOK
  PROVE  /\ DOMAIN Swept \subseteq DOMAIN windows
         /\ \A a \in DOMAIN Swept : Swept[a] = windows[a]
  BY DEF Swept, Restrict

\* The window a request is judged by is the actor's own or an empty one.
LEMMA CurrentIsWindow ==
  ASSUME LimiterTypeOK, NEW a \in Actors
  PROVE  /\ Current(a) \in Windows
         /\ Current(a) = Fresh \/ (a \in DOMAIN windows /\ Current(a) = windows[a])
         /\ Current(a).count \in 0..max
  <1>1. Fresh \in Windows /\ Fresh.count = 0
    BY DEF LimiterTypeOK, Fresh, Windows
  <1> QED
    BY <1>1, SweptIsPart, LimiterAssumption DEF Current, LimiterTypeOK

\* Writing a window back keeps the map well typed.
LEMMA PutIsTyped ==
  ASSUME LimiterTypeOK, NEW a \in Actors, NEW w \in Windows, w.count \in 1..max
  PROVE  /\ DOMAIN Put(a, w) = DOMAIN Swept \cup {a}
         /\ DOMAIN Put(a, w) \subseteq Actors
         /\ Put(a, w)[a] = w
         /\ \A b \in DOMAIN Swept : b # a => Put(a, w)[b] = windows[b]
         /\ \A b \in DOMAIN Put(a, w) : Put(a, w)[b] \in Windows /\ Put(a, w)[b].count \in 1..max
  BY SweptIsPart DEF Put, LimiterTypeOK

-----------------------------------------------------------------------------
LEMMA LimiterInitIInv == LimiterInit => LimiterIInv
  <1> SUFFICES ASSUME LimiterInit PROVE LimiterIInv
    OBVIOUS
  <1>1. DOMAIN windows = {}
    BY DEF LimiterInit
  <1>2. promise \in [Actors -> Nat] /\ setBack \in BOOLEAN
    BY DEF LimiterInit
  <1>3. admitted \in [Actors -> Seq(Times)]
    <2>1. << >> \in Seq(Times)
      OBVIOUS
    <2> QED
      BY <2>1 DEF LimiterInit
  <1> QED
    BY <1>1, <1>2, <1>3 DEF LimiterInit, LimiterIInv, LimiterTypeOK, PromiseCoversWindow, NoPromiseWhenDisabled

LEMMA IgnoreIInv ==
  ASSUME LimiterIInv, NEW a \in Actors, Ignore(a)
  PROVE  LimiterIInv'
  <1>1. admitted' \in [Actors -> Seq(Times)]
    BY DEF LimiterIInv, LimiterTypeOK, Ignore
  <1> QED
    BY <1>1 DEF LimiterIInv, LimiterTypeOK, PromiseCoversWindow, NoPromiseWhenDisabled, Ignore

LEMMA AdmitIInv ==
  ASSUME LimiterIInv, NEW a \in Actors, Allow(a)
  PROVE  LimiterIInv'
  <1> DEFINE w == [Current(a) EXCEPT !.count = @ + 1]
  <1>1. LimiterTypeOK /\ max \in Nat
    BY LimiterAssumption DEF LimiterIInv, LimiterTypeOK
  <1>2. w \in Windows /\ w.count \in 1..max
    BY <1>1, CurrentIsWindow DEF Allow, Spent, Windows
  <1>3. windows' = Put(a, w) /\ max' = max /\ now' = now /\ setBack' = setBack
    BY DEF Allow
  <1> HIDE DEF w
  <1>4. admitted' \in [Actors -> Seq(Times)]
    BY <1>1 DEF Allow, LimiterTypeOK
  <1>5. promise' \in [Actors -> Nat] /\ promise'[a] = 0
        /\ \A b \in Actors : b # a => promise'[b] = promise[b]
    BY <1>1 DEF Allow, LimiterTypeOK
  <1>6. LimiterTypeOK'
    BY <1>1, <1>2, <1>3, <1>4, <1>5, PutIsTyped DEF LimiterTypeOK
  <1>7. PromiseCoversWindow'
    <2> SUFFICES ASSUME NEW b \in DOMAIN windows', promise'[b] # 0
                 PROVE  promise'[b] >= windows'[b].start + Window
      BY DEF PromiseCoversWindow
    <2>0. DOMAIN Put(a, w) = DOMAIN Swept \cup {a}
      BY <1>1, <1>2, PutIsTyped
    <2>1. b \in DOMAIN Swept /\ b # a
      BY <1>3, <1>5, <2>0
    <2>2. b \in DOMAIN windows /\ b \in Actors /\ windows'[b] = windows[b]
      BY <1>1, <1>2, <1>3, <2>1, PutIsTyped, SweptIsPart DEF LimiterTypeOK
    <2>3. promise'[b] = promise[b]
      BY <1>5, <2>1, <2>2
    <2> QED
      BY <2>2, <2>3 DEF LimiterIInv, PromiseCoversWindow
  <1>8. NoPromiseWhenDisabled'
    BY <1>3, <1>5 DEF Allow, NoPromiseWhenDisabled
  <1> QED
    BY <1>6, <1>7, <1>8 DEF LimiterIInv

LEMMA DenyIInv ==
  ASSUME LimiterIInv, NEW a \in Actors, TurnAway(a)
  PROVE  LimiterIInv'
  <1> DEFINE w == Current(a)
             back == now + Second * RetryAfter(w)
  <1>1. LimiterTypeOK /\ max \in Nat /\ now \in Nat
    BY LimiterAssumption DEF LimiterIInv, LimiterTypeOK
  <1>2. w \in Windows /\ w.count \in 1..max
    BY <1>1, CurrentIsWindow DEF TurnAway, Spent, Windows
  <1>3. back \in Nat /\ back >= w.start + Window
    BY <1>1, <1>2, RetryAfterOutlasts DEF Second
  <1>4. windows' = Put(a, w) /\ max' = max /\ now' = now /\ admitted' = admitted /\ setBack' = setBack
    BY DEF TurnAway
  <1>5. promise' = [promise EXCEPT ![a] = back]
    BY DEF TurnAway
  <1> HIDE DEF w, back
  <1>6. promise' \in [Actors -> Nat] /\ promise'[a] = back
        /\ \A b \in Actors : b # a => promise'[b] = promise[b]
    BY <1>1, <1>3, <1>5 DEF LimiterTypeOK
  <1>7. LimiterTypeOK'
    BY <1>1, <1>2, <1>4, <1>6, PutIsTyped DEF LimiterTypeOK
  <1>8. PromiseCoversWindow'
    <2> SUFFICES ASSUME NEW b \in DOMAIN windows', promise'[b] # 0
                 PROVE  promise'[b] >= windows'[b].start + Window
      BY DEF PromiseCoversWindow
    <2>1. CASE b = a
      <3>1. windows'[a] = w
        BY <1>1, <1>2, <1>4, PutIsTyped
      <3> QED
        BY <1>3, <1>6, <2>1, <3>1
    <2>2. CASE b # a
      <3>0. DOMAIN Put(a, w) = DOMAIN Swept \cup {a}
        BY <1>1, <1>2, PutIsTyped
      <3>1. b \in DOMAIN Swept
        BY <1>4, <2>2, <3>0
      <3>2. b \in DOMAIN windows /\ b \in Actors /\ windows'[b] = windows[b]
        BY <1>1, <1>2, <1>4, <2>2, <3>1, PutIsTyped, SweptIsPart DEF LimiterTypeOK
      <3>3. promise'[b] = promise[b]
        BY <1>6, <2>2, <3>2
      <3> QED
        BY <3>2, <3>3 DEF LimiterIInv, PromiseCoversWindow
    <2> QED
      BY <2>1, <2>2
  <1>9. NoPromiseWhenDisabled'
    BY <1>1, <1>4 DEF TurnAway, NoPromiseWhenDisabled
  <1> QED
    BY <1>7, <1>8, <1>9 DEF LimiterIInv

LEMMA TickIInv ==
  ASSUME LimiterIInv, Tick \/ SetClockBack
  PROVE  LimiterIInv'
  BY DEF LimiterIInv, LimiterTypeOK, PromiseCoversWindow, NoPromiseWhenDisabled, Tick, SetClockBack

(***************************************************************************)
(* The inductive invariant holds in every behaviour of the limiter.        *)
(***************************************************************************)
THEOREM LimiterInductive == LimiterSpec => []LimiterIInv
  <1>1. LimiterIInv /\ [LimiterNext]_limiterVars => LimiterIInv'
    <2> SUFFICES ASSUME LimiterIInv, [LimiterNext]_limiterVars PROVE LimiterIInv'
      OBVIOUS
    <2>1. CASE UNCHANGED limiterVars
      BY <2>1 DEF limiterVars, LimiterIInv, LimiterTypeOK, PromiseCoversWindow, NoPromiseWhenDisabled
    <2>2. CASE \E a \in Actors : Ignore(a)
      BY <2>2, IgnoreIInv
    <2>3. CASE \E a \in Actors : Allow(a)
      BY <2>3, AdmitIInv
    <2>4. CASE \E a \in Actors : TurnAway(a)
      BY <2>4, DenyIInv
    <2>5. CASE Tick \/ SetClockBack
      BY <2>5, TickIInv
    <2> QED
      BY <2>1, <2>2, <2>3, <2>4, <2>5 DEF LimiterNext
  <1> QED
    BY <1>1, LimiterInitIInv, PTL DEF LimiterSpec

(***************************************************************************)
(* RateLimiter.check keeps its map well typed: no window is kept without a *)
(* request in it, and none counts more requests than the limit.            *)
(***************************************************************************)
THEOREM LimiterTypeCorrect == LimiterSpec => []LimiterTypeOK
  <1>1. LimiterIInv => LimiterTypeOK
    BY DEF LimiterIInv
  <1> QED
    BY <1>1, LimiterInductive, PTL

(***************************************************************************)
(* The Retry-After header of RateLimiter.check is honest for every limit,  *)
(* window and clock: who waits that long and was not admitted meanwhile is *)
(* not refused, whatever was swept and even if the clock was set back.     *)
(***************************************************************************)
THEOREM RetryAfterCorrect == LimiterSpec => []RetryAfterIsHonest
  <1>1. LimiterIInv => RetryAfterIsHonest
    <2> SUFFICES ASSUME LimiterIInv, NEW a \in Actors, promise[a] # 0, now >= promise[a]
                 PROVE  ~Spent(a)
      BY DEF RetryAfterIsHonest
    <2>0. LimiterTypeOK
      BY DEF LimiterIInv
    <2>1. max \in Nat /\ max # 0 /\ now \in Nat /\ promise[a] \in Nat /\ Window \in Nat
      BY LimiterAssumption DEF LimiterIInv, LimiterTypeOK, NoPromiseWhenDisabled
    <2>2. Current(a) = Fresh
      <3>1. CASE a \in DOMAIN Swept
        <4>1. Swept[a] = windows[a] /\ a \in DOMAIN windows /\ windows[a].start \in Nat
          BY <3>1, <2>0, SweptIsPart, LimiterAssumption DEF LimiterTypeOK, Windows
        <4>2. now - Swept[a].start >= Window
          BY <2>1, <4>1 DEF LimiterIInv, PromiseCoversWindow
        <4> QED
          BY <2>1, <4>1, <4>2 DEF Current
      <3>2. CASE a \notin DOMAIN Swept
        BY <3>2 DEF Current
      <3> QED
        BY <3>1, <3>2
    <2> QED
      BY <2>1, <2>2 DEF Spent, Fresh
  <1> QED
    BY <1>1, LimiterInductive, PTL

-----------------------------------------------------------------------------
(***************************************************************************)
(* Why SlidingLimit holds.  Requests are admitted in groups, one for each  *)
(* window, of at most max requests; the first of a group is admitted when  *)
(* its window starts, and the next window starts when that one is over.    *)
(***************************************************************************)
Admitted(a) == Len(admitted[a])

\* the first request of the actor's window
GroupStart(a) == Admitted(a) - windows[a].count + 1

\* admissions are recorded in the order of the clock
InOrder(a) ==
  /\ \A m, n \in DOMAIN admitted[a] : m <= n => admitted[a][m] <= admitted[a][n]
  /\ \A n \in DOMAIN admitted[a] : admitted[a][n] <= now

\* the window the actor has began with a request of its own, and the one max
\* requests earlier was admitted before
WindowIsGroup(a) ==
  a \in DOMAIN windows =>
    /\ GroupStart(a) \in DOMAIN admitted[a]
    /\ admitted[a][GroupStart(a)] = windows[a].start
    /\ GroupStart(a) - max >= 1 =>
         admitted[a][GroupStart(a) - max] + Window <= windows[a].start

\* an actor without a window has none because the last one is long over
NoWindowIsOver(a) ==
  a \notin DOMAIN windows /\ Admitted(a) + 1 - max >= 1 =>
    admitted[a][Admitted(a) + 1 - max] + Window <= now

\* two requests that are 2 * max - 1 requests apart are a window apart
SpreadOut(a) ==
  \A m, n \in DOMAIN admitted[a] :
    n = m + 2 * max - 1 => admitted[a][m] + Window <= admitted[a][n]

Grouped ==
  max > 0 /\ ~setBack =>
    \A a \in Actors : InOrder(a) /\ WindowIsGroup(a) /\ NoWindowIsOver(a) /\ SpreadOut(a)

LEMMA LogIsSequence ==
  ASSUME LimiterTypeOK, NEW a \in Actors
  PROVE  /\ Admitted(a) \in Nat
         /\ DOMAIN admitted[a] = 1..Admitted(a)
         /\ \A n \in DOMAIN admitted[a] : admitted[a][n] \in Nat
  <1>1. admitted[a] \in Seq(Times)
    BY DEF LimiterTypeOK
  <1>2. Len(admitted[a]) \in Nat /\ DOMAIN admitted[a] = 1..Len(admitted[a])
    BY <1>1
  <1>3. \A n \in 1..Len(admitted[a]) : admitted[a][n] \in Times
    BY <1>1
  <1> QED
    BY <1>2, <1>3, LimiterAssumption DEF Admitted

\* The log with one more request.
LEMMA LogGrows ==
  ASSUME LimiterTypeOK, NEW a \in Actors, admitted' = [admitted EXCEPT ![a] = Append(@, now)]
  PROVE  /\ Admitted(a)' = Admitted(a) + 1
         /\ DOMAIN admitted'[a] = 1..(Admitted(a) + 1)
         /\ \A n \in 1..Admitted(a) : admitted'[a][n] = admitted[a][n]
         /\ admitted'[a][Admitted(a) + 1] = now
         /\ \A b \in Actors : b # a => admitted'[b] = admitted[b]
  <1>1. admitted[a] \in Seq(Times) /\ now \in Times /\ admitted'[a] = Append(admitted[a], now)
    BY DEF LimiterTypeOK
  <1>2. \A b \in Actors : b # a => admitted'[b] = admitted[b]
    BY DEF LimiterTypeOK
  <1> QED
    BY <1>1, <1>2 DEF Admitted

\* Whatever window the actor is judged by, one that is begun anew begins when
\* the request max requests earlier is a window ago.
LEMMA NewWindowIsOver ==
  ASSUME LimiterTypeOK, Grouped, max > 0, ~setBack, NEW a \in Actors,
         ~(a \in DOMAIN Swept /\ now - Swept[a].start < Window),
         Admitted(a) + 1 - max >= 1
  PROVE  admitted[a][Admitted(a) + 1 - max] + Window <= now
  <1>1. /\ Admitted(a) \in Nat /\ DOMAIN admitted[a] = 1..Admitted(a)
        /\ \A n \in DOMAIN admitted[a] : admitted[a][n] \in Nat
        /\ max \in Nat /\ Window \in Nat \ {0} /\ now \in Nat
    BY LogIsSequence, LimiterAssumption DEF LimiterTypeOK
  <1>2. CASE a \notin DOMAIN windows
    BY <1>2 DEF Grouped, NoWindowIsOver
  <1>3. CASE a \in DOMAIN windows
    <2>1. windows[a].start \in Nat /\ windows[a].count \in 1..max
      BY <1>3, LimiterAssumption DEF LimiterTypeOK, Windows
    <2>2. /\ GroupStart(a) \in 1..Admitted(a)
          /\ admitted[a][GroupStart(a)] = windows[a].start
      BY <1>1, <1>3 DEF Grouped, WindowIsGroup
    <2>3. /\ Admitted(a) + 1 - max \in DOMAIN admitted[a]
          /\ Admitted(a) + 1 - max <= GroupStart(a)
      BY <1>1, <2>1 DEF GroupStart
    <2>4. admitted[a][Admitted(a) + 1 - max] <= windows[a].start
      BY <1>1, <2>2, <2>3 DEF Grouped, InOrder
    <2>5. windows[a].start + Window <= now
      <3>1. CASE a \in DOMAIN Swept
        BY <1>1, <2>1, <3>1, SweptIsPart
      <3>2. CASE a \notin DOMAIN Swept
        <4>1. ~(windows[a].start >= now - 2 * Window)
          BY <1>3, <3>2 DEF Swept, Restrict
        <4> QED
          BY <1>1, <2>1, <4>1
      <3> QED
        BY <3>1, <3>2
    <2> QED
      BY <1>1, <2>1, <2>3, <2>4, <2>5
  <1> QED
    BY <1>2, <1>3

\* Sweeping and writing another actor's window back disturb no group.
LEMMA OthersStayGrouped ==
  ASSUME LimiterTypeOK, Grouped, max > 0, ~setBack, NEW a \in Actors, NEW w \in Windows,
         w.count \in 1..max, windows' = Put(a, w), now' = now, max' = max,
         NEW b \in Actors, b # a, admitted'[b] = admitted[b]
  PROVE  (InOrder(b) /\ WindowIsGroup(b) /\ NoWindowIsOver(b) /\ SpreadOut(b))'
  <1>1. InOrder(b) /\ WindowIsGroup(b) /\ NoWindowIsOver(b) /\ SpreadOut(b)
    BY DEF Grouped
  <1>2. Admitted(b)' = Admitted(b)
    BY DEF Admitted
  <1>3. InOrder(b)' /\ SpreadOut(b)'
    BY <1>1 DEF InOrder, SpreadOut
  <1>4. b \in DOMAIN windows' => /\ b \in DOMAIN Swept /\ b \in DOMAIN windows
                                 /\ windows'[b] = windows[b]
    <2>1. DOMAIN Put(a, w) = DOMAIN Swept \cup {a}
      BY PutIsTyped
    <2> QED
      BY <2>1, PutIsTyped, SweptIsPart
  <1>5. WindowIsGroup(b)'
    BY <1>1, <1>2, <1>4 DEF WindowIsGroup, GroupStart
  <1>6. NoWindowIsOver(b)'
    <2> SUFFICES ASSUME b \notin DOMAIN windows', Admitted(b) + 1 - max >= 1
                 PROVE  admitted[b][Admitted(b) + 1 - max] + Window <= now
      BY <1>2 DEF NoWindowIsOver
    <2>1. b \notin DOMAIN Swept
      BY PutIsTyped
    <2> QED
      BY <2>1, NewWindowIsOver
  <1> QED
    BY <1>3, <1>5, <1>6

\* A request that is admitted joins the group of its window or begins one.
LEMMA AdmitGrouped ==
  ASSUME LimiterTypeOK, Grouped, NEW a \in Actors, Allow(a)
  PROVE  Grouped'
  <1> SUFFICES ASSUME ~setBack
               PROVE  \A b \in Actors : (InOrder(b) /\ WindowIsGroup(b) /\ NoWindowIsOver(b)
                                          /\ SpreadOut(b))'
    BY DEF Allow, Grouped
  <1> DEFINE w == [Current(a) EXCEPT !.count = @ + 1]
             L == Admitted(a)
             A == admitted[a]
             B == admitted'[a]
  <1>1. max > 0 /\ max' = max /\ now' = now /\ windows' = Put(a, w)
        /\ admitted' = [admitted EXCEPT ![a] = Append(@, now)] /\ Current(a).count < max
    <2>1. max \in Nat /\ Current(a).count \in 0..max
      BY CurrentIsWindow, LimiterAssumption DEF LimiterTypeOK
    <2> QED
      BY <2>1 DEF Allow, Spent
  <1>2. w \in Windows /\ w.count = Current(a).count + 1 /\ w.start = Current(a).start
        /\ w.count \in 1..max
    <2>1. Current(a) \in Windows /\ Current(a).count \in 0..max /\ max \in Nat
      BY CurrentIsWindow, LimiterAssumption DEF LimiterTypeOK
    <2>2. w \in Windows /\ w.count = Current(a).count + 1 /\ w.start = Current(a).start
      BY <2>1 DEF Windows
    <2> QED
      BY <1>1, <2>1, <2>2
  <1> HIDE DEF w
  <1>3. /\ L \in Nat /\ max \in Nat /\ Window \in Nat /\ now \in Nat
        /\ DOMAIN A = 1..L /\ (\A n \in 1..L : A[n] \in Nat)
        /\ DOMAIN B = 1..(L + 1) /\ (\A n \in 1..L : B[n] = A[n]) /\ B[L + 1] = now
        /\ Admitted(a)' = L + 1
        /\ \A b \in Actors : b # a => admitted'[b] = admitted[b]
    BY <1>1, LogIsSequence, LogGrows, LimiterAssumption DEF LimiterTypeOK
  <1>4. InOrder(a) /\ WindowIsGroup(a) /\ SpreadOut(a)
    BY <1>1 DEF Grouped
  <1>5. a \in DOMAIN windows' /\ windows'[a] = w
    BY <1>1, <1>2, PutIsTyped
  <1>6. PICK g \in Int : g = L + 2 - w.count /\ GroupStart(a)' = g
    <2>1. GroupStart(a)' = L + 2 - w.count
      BY <1>2, <1>3, <1>5 DEF GroupStart
    <2> QED
      BY <1>2, <1>3, <2>1
  <1> HIDE DEF L, A, B
  <1>7. InOrder(a)'
    BY <1>1, <1>3, <1>4 DEF InOrder, A, B
  <1>8. /\ g \in 1..(L + 1)
        /\ B[g] = w.start
        /\ g - max >= 1 => A[g - max] + Window <= w.start
        /\ w.start \in Nat /\ w.start <= now
    <2>1. CASE a \in DOMAIN Swept /\ now - Swept[a].start < Window
      <3>1. Current(a) = windows[a] /\ a \in DOMAIN windows
        BY <2>1, SweptIsPart DEF Current
      <3>2. GroupStart(a) = L + 1 - windows[a].count /\ windows[a].count \in 1..max
            /\ windows[a].start \in Nat
        <4>1. windows[a].count \in 1..max /\ windows[a] \in Windows
          BY <3>1 DEF LimiterTypeOK
        <4>2. windows[a].start \in Nat
          BY <4>1, LimiterAssumption DEF Windows
        <4>3. GroupStart(a) = L - windows[a].count + 1
          BY DEF GroupStart, L
        <4> QED
          BY <1>3, <4>1, <4>2, <4>3
      <3>3. g = GroupStart(a) /\ w.start = windows[a].start
        BY <1>2, <1>3, <1>6, <3>1, <3>2
      <3>4. /\ GroupStart(a) \in 1..L /\ A[GroupStart(a)] = windows[a].start
            /\ GroupStart(a) - max >= 1 => A[GroupStart(a) - max] + Window <= windows[a].start
        BY <1>3, <1>4, <3>1 DEF WindowIsGroup, A
      <3>5. A[GroupStart(a)] <= now
        BY <1>3, <1>4, <3>4 DEF InOrder, A
      <3> QED
        <4>1. g \in 1..L /\ B[g] = A[g] /\ A[g] = w.start
          BY <1>3, <3>3, <3>4
        <4>2. w.start \in Nat /\ w.start <= now
          BY <3>2, <3>3, <3>4, <3>5
        <4>3. g - max >= 1 => A[g - max] + Window <= w.start
          BY <3>3, <3>4
        <4> QED
          BY <1>3, <4>1, <4>2, <4>3
    <2>2. CASE ~(a \in DOMAIN Swept /\ now - Swept[a].start < Window)
      <3>1. Current(a) = Fresh
        BY <2>2 DEF Current
      <3>2. w.count = 1 /\ w.start = now
        BY <1>2, <3>1 DEF Fresh
      <3>3. L + 1 - max >= 1 => A[L + 1 - max] + Window <= now
        BY <1>1, <2>2, NewWindowIsOver DEF A, L
      <3>4. g = L + 1
        BY <1>3, <1>6, <3>2
      <3> QED
        BY <1>3, <3>2, <3>3, <3>4
    <2> QED
      BY <2>1, <2>2
  <1>9. WindowIsGroup(a)'
    <2>1. g - max >= 1 => B[g - max] = A[g - max]
      <3>1. g - max >= 1 => g - max \in 1..L
        BY <1>1, <1>3, <1>8
      <3> QED
        BY <1>3, <3>1
    <2> QED
      <3>1. GroupStart(a)' \in DOMAIN B /\ B[GroupStart(a)'] = windows'[a].start
        BY <1>3, <1>5, <1>6, <1>8
      <3>2. GroupStart(a)' - max' >= 1 =>
              B[GroupStart(a)' - max'] + Window <= windows'[a].start
        <4>1. g - max >= 1 => B[g - max] + Window <= w.start
          BY <1>8, <2>1
        <4> QED
          BY <1>1, <1>5, <1>6, <4>1
      <3> QED
        BY <3>1, <3>2 DEF WindowIsGroup, B
  <1>10. SpreadOut(a)'
    <2> SUFFICES ASSUME NEW m \in 1..(L + 1), NEW n \in 1..(L + 1), n = m + 2 * max - 1
                 PROVE  B[m] + Window <= B[n]
      BY <1>1, <1>3 DEF SpreadOut, B
    <2>1. CASE n <= L
      <3>1. m \in 1..L /\ n \in 1..L
        BY <1>1, <1>3, <2>1
      <3> QED
        BY <1>3, <1>4, <3>1 DEF SpreadOut, A
    <2>2. CASE n = L + 1
      <3>0. PICK e \in Int : e = g - max
        BY <1>3
      <3>1. m \in 1..L /\ e \in 1..L /\ m <= e
        <4>1. m = L + 2 - 2 * max /\ max >= 1 /\ m >= 1
          BY <1>1, <1>3, <2>2
        <4>2. e = L + 2 - w.count - max /\ w.count <= max /\ w.count >= 1
          BY <1>2, <1>3, <1>6, <3>0
        <4>3. w.count \in Int
          BY <1>2
        <4> QED
          BY <1>3, <3>0, <4>1, <4>2, <4>3
      <3>2. A[m] <= A[e]
        BY <1>3, <1>4, <3>1 DEF InOrder, A
      <3>3. A[e] + Window <= w.start
        BY <1>8, <3>0, <3>1
      <3>4. A[m] \in Nat /\ A[e] \in Nat /\ B[m] = A[m] /\ B[n] = now
        BY <1>3, <2>2, <3>1
      <3>5. w.start \in Nat /\ w.start <= now /\ now \in Nat /\ Window \in Nat
        BY <1>3, <1>8
      <3>6. A[m] + Window <= now
        BY <3>2, <3>3, <3>4, <3>5
      <3> QED
        BY <3>4, <3>6
    <2> QED
      BY <1>3, <2>1, <2>2
  <1>11. NoWindowIsOver(a)'
    BY <1>5 DEF NoWindowIsOver
  <1>12. ASSUME NEW b \in Actors, b # a
         PROVE  (InOrder(b) /\ WindowIsGroup(b) /\ NoWindowIsOver(b) /\ SpreadOut(b))'
    BY <1>1, <1>2, <1>3, <1>12, OthersStayGrouped
  <1> QED
    BY <1>7, <1>9, <1>10, <1>11, <1>12

\* A request that is denied finds its window used up, and leaves it.
LEMMA DenyGrouped ==
  ASSUME LimiterTypeOK, Grouped, NEW a \in Actors, TurnAway(a)
  PROVE  Grouped'
  <1> SUFFICES ASSUME ~setBack
               PROVE  \A b \in Actors : (InOrder(b) /\ WindowIsGroup(b) /\ NoWindowIsOver(b)
                                          /\ SpreadOut(b))'
    BY DEF TurnAway, Grouped
  <1>1. /\ max > 0 /\ max' = max /\ now' = now /\ admitted' = admitted
        /\ windows' = Put(a, Current(a)) /\ Current(a).count >= max
        /\ Current(a) \in Windows /\ Current(a).count \in 1..max
    BY CurrentIsWindow, LimiterAssumption DEF TurnAway, Spent, LimiterTypeOK, Windows
  <1>2. Current(a) = windows[a] /\ a \in DOMAIN windows
    BY <1>1, SweptIsPart, CurrentIsWindow, LimiterAssumption DEF Fresh, LimiterTypeOK
  <1>3. a \in DOMAIN windows' /\ windows'[a] = windows[a]
    BY <1>1, <1>2, PutIsTyped
  <1>4. (InOrder(a) /\ WindowIsGroup(a) /\ NoWindowIsOver(a) /\ SpreadOut(a))'
    BY <1>1, <1>2, <1>3
    DEF Grouped, InOrder, WindowIsGroup, NoWindowIsOver, SpreadOut, GroupStart, Admitted
  <1>5. ASSUME NEW b \in Actors, b # a
        PROVE  (InOrder(b) /\ WindowIsGroup(b) /\ NoWindowIsOver(b) /\ SpreadOut(b))'
    BY <1>1, <1>5, OthersStayGrouped
  <1> QED
    BY <1>4, <1>5

\* The clock moves on, or is set back and nothing is claimed any more.
LEMMA ClockGrouped ==
  ASSUME LimiterTypeOK, Grouped, Tick \/ SetClockBack
  PROVE  Grouped'
  <1>1. CASE SetClockBack
    BY <1>1 DEF SetClockBack, Grouped
  <1>2. CASE Tick
    <2> SUFFICES ASSUME max > 0, ~setBack, NEW a \in Actors
                 PROVE  (InOrder(a) /\ WindowIsGroup(a) /\ NoWindowIsOver(a) /\ SpreadOut(a))'
      BY <1>2 DEF Tick, Grouped
    <2>1. /\ now' > now /\ now' \in Nat /\ now \in Nat /\ Window \in Nat /\ max \in Nat
          /\ UNCHANGED <<max, windows, admitted>>
      BY <1>2, LimiterAssumption DEF Tick, LimiterTypeOK
    <2>2. /\ Admitted(a) \in Nat /\ DOMAIN admitted[a] = 1..Admitted(a)
          /\ \A n \in DOMAIN admitted[a] : admitted[a][n] \in Nat
      BY LogIsSequence
    <2>3. InOrder(a) /\ WindowIsGroup(a) /\ NoWindowIsOver(a) /\ SpreadOut(a)
      BY DEF Grouped
    <2>4. InOrder(a)'
      BY <2>1, <2>2, <2>3 DEF InOrder
    <2>5. WindowIsGroup(a)' /\ SpreadOut(a)'
      BY <2>1, <2>3 DEF WindowIsGroup, SpreadOut, GroupStart, Admitted
    <2>6. NoWindowIsOver(a)'
      <3> SUFFICES ASSUME a \notin DOMAIN windows, Admitted(a) + 1 - max >= 1
                   PROVE  admitted[a][Admitted(a) + 1 - max] + Window <= now'
        BY <2>1 DEF NoWindowIsOver, Admitted
      <3>1. admitted[a][Admitted(a) + 1 - max] + Window <= now
        BY <2>3 DEF NoWindowIsOver
      <3>2. Admitted(a) + 1 - max \in DOMAIN admitted[a]
        BY <2>1, <2>2, <1>2 DEF Grouped
      <3> QED
        BY <2>1, <2>2, <3>1, <3>2
    <2> QED
      BY <2>4, <2>5, <2>6
  <1> QED
    BY <1>1, <1>2

\* A set of natural numbers that is not empty has a least one.
LEMMA LeastElement ==
  ASSUME NEW T \in SUBSET Nat, T # {}
  PROVE  \E x \in T : \A y \in T : x <= y
  <1> DEFINE R == {ss \in Nat \X Nat : ss[1] < ss[2]}
  <1>1. R = OpToRel(<, Nat)
    BY DEF OpToRel
  <1>2. IsWellFoundedOn(R, Nat)
    BY <1>1, NatLessThanWellFounded
  <1> HIDE DEF R
  <1>0. \A x, y \in Nat : <<y, x>> \in R <=> y < x
    BY DEF R
  <1>3. \E x \in T : \A y \in T : ~(<<y, x>> \in R)
    BY <1>2, WFMin
  <1> QED
    <2> SUFFICES ASSUME NEW x \in T, \A y \in T : ~(<<y, x>> \in R) PROVE \A y \in T : x <= y
      BY <1>3
    <2> TAKE y \in T
    <2>1. ~(y < x) /\ x \in Nat /\ y \in Nat
      BY <1>0
    <2> QED
      BY <2>1

\* A set of positions that are less than k apart has at most k of them.
LEMMA NarrowSetIsSmall ==
  ASSUME NEW k \in Nat \ {0}, NEW L \in Nat, NEW S \in SUBSET (1..L),
         \A m, n \in S : n < m + k
  PROVE  IsFiniteSet(S) /\ Cardinality(S) <= k
  <1>1. CASE S = {}
    BY <1>1, FS_EmptySet
  <1>2. CASE S # {}
    <2>1. PICK lo \in S : \A n \in S : lo <= n
      <3>1. S \in SUBSET Nat
        OBVIOUS
      <3> QED
        BY <1>2, <3>1, LeastElement
    <2>2. S \in SUBSET (lo..(lo + k - 1))
      BY <2>1
    <2>3. IsFiniteSet(lo..(lo + k - 1)) /\ Cardinality(lo..(lo + k - 1)) = k
      BY FS_Interval
    <2> QED
      BY <2>2, <2>3, FS_Subset
  <1> QED
    BY <1>1, <1>2

(***************************************************************************)
(* Any span as long as a window admits fewer than twice the limit, however *)
(* requests straddle windows and whatever is swept, for every limit and    *)
(* window, while the clock is not set back (RateLimiter.check).            *)
(***************************************************************************)
THEOREM SlidingLimitCorrect == LimiterSpec => []SlidingLimit
  <1>1. LimiterInit => Grouped
    <2> SUFFICES ASSUME LimiterInit, max > 0, NEW a \in Actors
                 PROVE  InOrder(a) /\ WindowIsGroup(a) /\ NoWindowIsOver(a) /\ SpreadOut(a)
      BY DEF Grouped
    <2>1. DOMAIN windows = {} /\ admitted[a] = << >>
      BY DEF LimiterInit
    <2>2. Admitted(a) = 0 /\ DOMAIN admitted[a] = {}
      BY <2>1 DEF Admitted
    <2>3. max \in Nat
      BY LimiterAssumption DEF LimiterInit
    <2>4. InOrder(a) /\ SpreadOut(a)
      BY <2>2 DEF InOrder, SpreadOut
    <2>5. WindowIsGroup(a)
      BY <2>1 DEF WindowIsGroup
    <2>6. NoWindowIsOver(a)
      <3>1. max > 0 => ~(Admitted(a) + 1 - max >= 1)
        BY <2>2, <2>3
      <3> QED
        BY <3>1 DEF NoWindowIsOver
    <2> QED
      BY <2>4, <2>5, <2>6
  <1>2. LimiterTypeOK /\ Grouped /\ [LimiterNext]_limiterVars => Grouped'
    <2> SUFFICES ASSUME LimiterTypeOK, Grouped, [LimiterNext]_limiterVars PROVE Grouped'
      OBVIOUS
    <2>1. CASE UNCHANGED limiterVars
      BY <2>1 DEF limiterVars, Grouped, InOrder, WindowIsGroup, NoWindowIsOver, SpreadOut, GroupStart,
                  Admitted
    <2>2. CASE \E a \in Actors : Ignore(a)
      BY <2>2 DEF Ignore, Grouped
    <2>3. CASE \E a \in Actors : Allow(a)
      BY <2>3, AdmitGrouped
    <2>4. CASE \E a \in Actors : TurnAway(a)
      BY <2>4, DenyGrouped
    <2>5. CASE Tick \/ SetClockBack
      BY <2>5, ClockGrouped
    <2> QED
      BY <2>1, <2>2, <2>3, <2>4, <2>5 DEF LimiterNext
  <1>3. LimiterTypeOK /\ Grouped => SlidingLimit
    <2> SUFFICES ASSUME LimiterTypeOK, Grouped, max > 0, ~setBack, NEW a \in Actors, NEW t \in Times
                 PROVE  Cardinality(AdmittedWithin(a, t)) < 2 * max
      BY DEF SlidingLimit
    <2> DEFINE S == AdmittedWithin(a, t)
    <2>1. /\ Admitted(a) \in Nat /\ DOMAIN admitted[a] = 1..Admitted(a)
          /\ \A n \in DOMAIN admitted[a] : admitted[a][n] \in Nat
          /\ max \in Nat /\ Window \in Nat /\ t \in Nat
      BY LogIsSequence, LimiterAssumption DEF LimiterTypeOK
    <2>2. InOrder(a) /\ SpreadOut(a)
      BY DEF Grouped
    <2>3. ASSUME NEW m \in S, NEW n \in S PROVE n < m + (2 * max - 1)
      <3> SUFFICES ASSUME ~(n < m + (2 * max - 1)) PROVE FALSE
        OBVIOUS
      <3>1. /\ m \in 1..Admitted(a) /\ n \in 1..Admitted(a)
            /\ admitted[a][m] >= t /\ admitted[a][n] < t + Window
        BY <2>1 DEF AdmittedWithin
      <3>2. m + 2 * max - 1 \in 1..Admitted(a) /\ m + 2 * max - 1 <= n
        BY <2>1, <3>1
      <3>3. admitted[a][m] + Window <= admitted[a][m + 2 * max - 1]
        BY <2>1, <2>2, <3>1, <3>2 DEF SpreadOut
      <3>4. admitted[a][m + 2 * max - 1] <= admitted[a][n]
        BY <2>1, <2>2, <3>1, <3>2 DEF InOrder
      <3>5. /\ admitted[a][m] \in Nat /\ admitted[a][n] \in Nat
            /\ admitted[a][m + 2 * max - 1] \in Nat
        BY <2>1, <3>1, <3>2
      <3> QED
        BY <2>1, <3>1, <3>3, <3>4, <3>5
    <2>4. S \in SUBSET (1..Admitted(a)) /\ 2 * max - 1 \in Nat \ {0}
      BY <2>1 DEF AdmittedWithin
    <2> HIDE DEF S
    <2>5. IsFiniteSet(S) /\ Cardinality(S) <= 2 * max - 1
      BY <2>1, <2>3, <2>4, NarrowSetIsSmall
    <2>6. Cardinality(S) \in Nat
      BY <2>5, FS_CardinalityType
    <2> QED
      BY <2>1, <2>5, <2>6 DEF S
  <1> QED
    BY <1>1, <1>2, <1>3, LimiterTypeCorrect, PTL DEF LimiterSpec
===============================================================================
