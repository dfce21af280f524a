---------------------------- MODULE ServerRequests ----------------------------
(***************************************************************************)
(* The life of HTTP requests in the service: authorization and rate limit, *)
(* validation, a blocking database task under a permit and a wall-time     *)
(* budget, the counters, and the audit row, itself a blocking task under a *)
(* permit.  Requests run concurrently on a multi-threaded runtime, and a   *)
(* task that was started runs to its end even when its request has been    *)
(* answered 504 or its client has gone.                                    *)
(*                                                                         *)
(* Data abstraction.  A route has a handler; "manage" stands for "project" *)
(* too, which differs in its name only.  What queries and projections do   *)
(* to the store is the subject of other modules.  What a handler does      *)
(* between two awaits is one step, though it locks the counters once per   *)
(* counter.  Whether the token is right, the limiter refuses or the store  *)
(* fails is a choice; a request may have any body of Bodies.  A remembered *)
(* event is its idempotency key; a request without one has a key of its    *)
(* own.                                                                    *)
(***************************************************************************)
EXTENDS Integers, FiniteSets

CONSTANTS
  Requests,   \* HTTP requests
  Route,      \* Route[r]: the route it calls
  Key,        \* Key[r]: the ledger identity of what r remembers
  Bodies,     \* what clients may send, to any route: [limit, tokens, steps,
              \* reconstructs, given]; given: no text is blank, no time negative
  Config,     \* MemoryServerConfig: its limits and timeouts
  Permits     \* max_concurrent_db_tasks

Routes ==
  {"live", "ready", "health", "stats", "metrics", "audit", "remember", "manage",
   "query", "maintenance"}

\* No provider is configured.
NoProvider == 0

ASSUME ConstantsAssumption ==
  /\ IsFiniteSet(Requests) /\ "none" \notin Requests
  /\ Route \in [Requests -> Routes]
  /\ DOMAIN Key = Requests
  /\ Permits \in Nat

\* MemoryServerConfig::validate; a timeout of zero is for tests.
ConfigIsValid ==
  /\ Config.dbTaskTimeout > 0 =>
       /\ Config.distillerTimeout < Config.dbTaskTimeout
       /\ Config.reconstructorTimeout < Config.dbTaskTimeout
  /\ Config.maxProjectLimit > 0
  /\ Config.maxQueryTokens > 0
  /\ Config.maxAuditLimit > 0

ASSUME ConfigAssumption == ConfigIsValid

VARIABLES
  stage,    \* where the handler of each request is
  status,   \* how the request was answered, or will be
  result,   \* what its database task returned
  tasks,    \* blocking tasks that hold a permit
  permits,  \* db_permits.available_permits()
  ledger,   \* ledger_events: the request that inserted each key
  audit,    \* audit_events: the requests that have a row, with its status
  metrics   \* ServiceMetricsSnapshot

vars == <<stage, status, result, tasks, permits, ledger, audit, metrics>>

Keys == {Key[r] : r \in Requests}

NoRequest == "none"

Stages == {"new", "admitted", "waiting", "closing", "auditing", "answered", "gone"}

\* those of 401, 429, 400, 503, 504 and 500
Failures == {"unauthorized", "rateLimited", "invalid", "busy", "timeout", "failed"}

Outcomes == {"ok"} \cup Failures

Jobs == {"ingest", "project", "read", "manage", "query", "maintain", "audit"}

Tiers == {"cueSeed", "activation", "activeReconstruction"}

\* counters by outcome, by route, by tier of the answers, and of the reports of
\* projections
Counters ==
  {"total", "authorized", "unauthorized", "rateLimited", "busy", "timeout",
   "successful", "failed", "reports"} \cup Routes \cup Tiers

TypeOK ==
  /\ stage \in [Requests -> Stages]
  /\ status \in [Requests -> Outcomes \cup {"none"}]
  /\ result \in [Requests -> {"none", "ok", "invalid", "failed"}]
  /\ tasks \subseteq [req : Requests, job : Jobs]
  /\ permits \in 0..Permits
  /\ ledger \in [Keys -> Requests \cup {NoRequest}]
  /\ audit \subseteq [req : Requests, status : Outcomes]
  /\ metrics \in [Counters -> 0..Cardinality(Requests)]

-----------------------------------------------------------------------------
Count(C) == metrics' = [c \in Counters |-> IF c \in C THEN metrics[c] + 1 ELSE metrics[c]]

Move(r, s, o) ==
  /\ stage' = [stage EXCEPT ![r] = s]
  /\ status' = [status EXCEPT ![r] = o]

IsDb(r) == Route[r] \notin {"live", "metrics"}

\* livez and readyz neither authorize nor audit
IsOpen(r) == Route[r] \in {"live", "ready"}

\* where a handler goes once its outcome is known
Closing(r) == IF IsOpen(r) THEN "answered" ELSE "closing"

\* mutant of Start: a permit is taken that is not there
StartRegardless(r, job) ==
  /\ permits' = permits - 1
  /\ tasks' = tasks \cup {[req |-> r, job |-> job]}

\* try_acquire_owned and spawn_blocking
Start(r, job) ==
  /\ permits > 0
  /\ permits' = permits - 1
  /\ tasks' = tasks \cup {[req |-> r, job |-> job]}

\* mutant of End: the permit belongs to the request, which is gone
EndWithItsRequest(t) ==
  /\ t \in tasks
  /\ tasks' = tasks \ {t}
  /\ permits' = IF stage[t.req] \in {"waiting", "auditing"} THEN permits + 1 ELSE permits

\* a blocking task ends and drops its permit
End(t) ==
  /\ t \in tasks
  /\ tasks' = tasks \ {t}
  /\ permits' = permits + 1

-----------------------------------------------------------------------------
(* begin_request *)

Live(r) ==
  /\ stage[r] = "new" /\ Route[r] = "live"
  /\ Move(r, "answered", "ok")
  /\ Count({"total", Route[r], "successful"})
  /\ UNCHANGED <<result, tasks, permits, ledger, audit>>

Ready(r) ==
  /\ stage[r] = "new" /\ Route[r] = "ready"
  /\ Move(r, "admitted", "none")
  /\ Count({"total", Route[r]})
  /\ UNCHANGED <<result, tasks, permits, ledger, audit>>

Admit(r) ==
  /\ stage[r] = "new" /\ ~IsOpen(r)
  /\ Move(r, "admitted", "none")
  /\ Count({"total", Route[r], "authorized"})
  /\ UNCHANGED <<result, tasks, permits, ledger, audit>>

\* the token is right, the actor's window is used up
Throttle(r) ==
  /\ stage[r] = "new" /\ ~IsOpen(r)
  /\ Move(r, "closing", "rateLimited")
  /\ Count({"total", Route[r], "authorized", "rateLimited", "failed"})
  /\ UNCHANGED <<result, tasks, permits, ledger, audit>>

\* the token is wrong, and so many were that they are throttled
ThrottleDenied(r) ==
  /\ stage[r] = "new" /\ ~IsOpen(r)
  /\ Move(r, "closing", "rateLimited")
  /\ Count({"total", Route[r], "unauthorized", "rateLimited", "failed"})
  /\ UNCHANGED <<result, tasks, permits, ledger, audit>>

Deny(r) ==
  /\ stage[r] = "new" /\ ~IsOpen(r)
  /\ Move(r, "closing", "unauthorized")
  /\ Count({"total", Route[r], "unauthorized", "failed"})
  /\ UNCHANGED <<result, tasks, permits, ledger, audit>>

-----------------------------------------------------------------------------
(* What the handlers ask of a body. *)

AcceptsAudit(b) == b.limit <= Config.maxAuditLimit

AcceptsRemember(b) == b.given

AcceptsManage(b) == b.limit \in 1..Config.maxProjectLimit

\* validate_reconstruction_provider_budget: the provider calls of a walk fit
\* into the database task.
FitsProviderBudget(b) ==
  b.reconstructs /\ Config.dbTaskTimeout > 0 /\ Config.reconstructorTimeout # NoProvider =>
    Config.reconstructorTimeout * b.steps < Config.dbTaskTimeout

AcceptsQuery(b) ==
  /\ b.tokens \in 1..Config.maxQueryTokens
  /\ FitsProviderBudget(b)
  /\ b.given

AcceptsMaintenance(b) == b.given

Accepts(route, b) ==
  CASE route = "audit" -> AcceptsAudit(b)
    [] route = "remember" -> AcceptsRemember(b)
    [] route = "manage" -> AcceptsManage(b)
    [] route = "query" -> AcceptsQuery(b)
    [] route = "maintenance" -> AcceptsMaintenance(b)
    [] OTHER -> TRUE

-----------------------------------------------------------------------------
(* The handler and run_db_task. *)

Reject(r) ==
  /\ stage[r] = "admitted"
  /\ \E b \in Bodies : ~Accepts(Route[r], b)
  /\ Move(r, "closing", "invalid")
  /\ Count({"failed"})
  /\ UNCHANGED <<result, tasks, permits, ledger, audit>>

Metrics(r) ==
  /\ stage[r] = "admitted" /\ Route[r] = "metrics"
  /\ Move(r, "closing", "ok")
  /\ Count({"successful"})
  /\ UNCHANGED <<result, tasks, permits, ledger, audit>>

\* what the handler of a route has run_db_task do first
JobOf(route) ==
  CASE route = "remember" -> "ingest"
    [] route = "manage" -> "manage"
    [] route = "query" -> "query"
    [] route = "maintenance" -> "maintain"
    [] OTHER -> "read"

Spawn(r) ==
  /\ stage[r] = "admitted" /\ IsDb(r)
  /\ \E b \in Bodies : Accepts(Route[r], b)
  /\ Start(r, JobOf(Route[r]))
  /\ Move(r, "waiting", "none")
  /\ UNCHANGED <<result, ledger, audit, metrics>>

\* mutant of Busy: the request waits for a permit
WaitForPermit(r) == FALSE /\ UNCHANGED vars

\* mutant of Busy: counted as busy only
BusyUncounted(r) ==
  /\ stage[r] = "admitted" /\ IsDb(r)
  /\ permits = 0
  /\ Move(r, Closing(r), "busy")
  /\ Count({"busy"})
  /\ UNCHANGED <<result, tasks, permits, ledger, audit>>

\* mutant of Busy: the task is queued all the same
BusyQueued(r) ==
  /\ stage[r] = "admitted" /\ IsDb(r)
  /\ permits = 0
  /\ tasks' = tasks \cup {[req |-> r, job |-> "ingest"]}
  /\ Move(r, Closing(r), "busy")
  /\ Count({"busy", "failed"})
  /\ UNCHANGED <<result, permits, ledger, audit>>

Busy(r) ==
  /\ stage[r] = "admitted" /\ IsDb(r)
  /\ permits = 0
  /\ Move(r, Closing(r), "busy")
  /\ Count({"busy", "failed"})
  /\ UNCHANGED <<result, tasks, permits, ledger, audit>>

\* mutant of Timeout: the work goes on, so it is acknowledged
TimeoutAsAccepted(r) ==
  /\ stage[r] = "waiting" /\ result[r] = "none"
  /\ Move(r, Closing(r), "ok")
  /\ Count({"successful"})
  /\ UNCHANGED <<result, tasks, permits, ledger, audit>>

\* a result that is there wins over the deadline
Timeout(r) ==
  /\ stage[r] = "waiting" /\ result[r] = "none"
  /\ Move(r, Closing(r), "timeout")
  /\ Count({"timeout", "failed"})
  /\ UNCHANGED <<result, tasks, permits, ledger, audit>>

\* record_query_answer and record_project_report: the counters a result adds
\* to; a remember may have asked for no projection
RecordsOf(route) ==
  CASE route = "query" -> {{tier} : tier \in Tiers}
    [] route = "manage" -> {{"reports"}}
    [] route = "remember" -> {{"reports"}, {}}
    [] OTHER -> {{}}

\* mutant of Return: a failed result is recorded too
ReturnUncounted(r) ==
  /\ stage[r] = "waiting" /\ result[r] # "none"
  /\ Move(r, Closing(r), result[r])
  /\ \E records \in RecordsOf(Route[r]) :
       Count(records \cup {IF result[r] = "ok" THEN "successful" ELSE "failed"})
  /\ UNCHANGED <<result, tasks, permits, ledger, audit>>

Return(r) ==
  /\ stage[r] = "waiting" /\ result[r] # "none"
  /\ Move(r, Closing(r), result[r])
  /\ IF result[r] = "ok"
       THEN \E records \in RecordsOf(Route[r]) : Count({"successful"} \cup records)
       ELSE Count({"failed"})
  /\ UNCHANGED <<result, tasks, permits, ledger, audit>>

-----------------------------------------------------------------------------
(* Blocking tasks. *)

\* mutant of Insert: INSERT OR REPLACE
InsertOrReplace(r) == ledger' = [ledger EXCEPT ![Key[r]] = r]

\* INSERT OR IGNORE INTO ledger_events
Insert(r) ==
  ledger' = IF ledger[Key[r]] = NoRequest THEN [ledger EXCEPT ![Key[r]] = r] ELSE ledger

\* remember: ingest_event commits by itself; then project_pending, by default
Ingest(r) ==
  /\ [req |-> r, job |-> "ingest"] \in tasks
  /\ Insert(r)
  /\ tasks' = (tasks \ {[req |-> r, job |-> "ingest"]}) \cup {[req |-> r, job |-> "project"]}
  /\ UNCHANGED <<stage, status, result, permits, audit, metrics>>

\* "project": false, or the projection done, or the query or another read
Complete(r) ==
  /\ \E job \in {"project", "manage", "query", "read"} : End([req |-> r, job |-> job])
  /\ result' = [result EXCEPT ![r] = "ok"]
  /\ UNCHANGED <<stage, status, ledger, audit, metrics>>

\* maintenance, which may prune any audit rows
Maintain(r) ==
  /\ End([req |-> r, job |-> "maintain"])
  /\ result' = [result EXCEPT ![r] = "ok"]
  /\ audit' \in SUBSET audit
  /\ UNCHANGED <<stage, status, ledger, metrics>>

\* the store cannot be opened or written, or validation in it fails
Fail(r) ==
  /\ \E job \in Jobs \ {"audit"} : End([req |-> r, job |-> job])
  /\ \E e \in {"invalid", "failed"} : result' = [result EXCEPT ![r] = e]
  /\ UNCHANGED <<stage, status, ledger, audit, metrics>>

-----------------------------------------------------------------------------
(* append_audit_event *)

StartAudit(r) ==
  /\ stage[r] = "closing"
  /\ Start(r, "audit")
  /\ Move(r, "auditing", status[r])
  /\ UNCHANGED <<result, ledger, audit, metrics>>

\* "skipping audit event because database work queue is full"
SkipAudit(r) ==
  /\ stage[r] = "closing"
  /\ permits = 0
  /\ Move(r, "answered", status[r])
  /\ UNCHANGED <<result, tasks, permits, ledger, audit, metrics>>

Answered(r) == [stage EXCEPT ![r] = IF @ = "auditing" THEN "answered" ELSE @]

WriteAudit(r) ==
  /\ End([req |-> r, job |-> "audit"])
  /\ audit' = audit \cup {[req |-> r, status |-> status[r]]}
  /\ stage' = Answered(r)
  /\ UNCHANGED <<status, result, ledger, metrics>>

\* "failed to write audit event"
FailAudit(r) ==
  /\ End([req |-> r, job |-> "audit"])
  /\ stage' = Answered(r)
  /\ UNCHANGED <<status, result, ledger, audit, metrics>>

\* the client goes away and the handler is dropped at an await
Disconnect(r) ==
  /\ stage[r] \in {"waiting", "auditing"}
  /\ stage' = [stage EXCEPT ![r] = "gone"]
  /\ UNCHANGED <<status, result, tasks, permits, ledger, audit, metrics>>

-----------------------------------------------------------------------------
Init ==
  /\ stage = [r \in Requests |-> "new"]
  /\ status = [r \in Requests |-> "none"]
  /\ result = [r \in Requests |-> "none"]
  /\ tasks = {}
  /\ permits = Permits
  /\ ledger = [k \in Keys |-> NoRequest]
  /\ audit = {}
  /\ metrics = [c \in Counters |-> 0]

Begin(r) == Live(r) \/ Ready(r) \/ Admit(r) \/ Throttle(r) \/ ThrottleDenied(r) \/ Deny(r)

Handle(r) ==
  \/ Reject(r)
  \/ Metrics(r)
  \/ Spawn(r)
  \/ Busy(r)
  \/ Timeout(r)
  \/ Return(r)
  \/ StartAudit(r)
  \/ SkipAudit(r)

Work(r) == Ingest(r) \/ Complete(r) \/ Maintain(r) \/ Fail(r)

Audit(r) == WriteAudit(r) \/ FailAudit(r)

Next ==
  \E r \in Requests : Begin(r) \/ Handle(r) \/ Work(r) \/ Audit(r) \/ Disconnect(r)

Spec == Init /\ [][Next]_vars

(***************************************************************************)
(* Handlers run and timers fire; an insert into the audit table ends, at   *)
(* the latest when the busy timeout of the connection does.  Nothing is    *)
(* assumed of the other tasks: a provider may take for ever.               *)
(***************************************************************************)
Fairness == \A r \in Requests : WF_vars(Handle(r)) /\ WF_vars(Audit(r))

FairSpec == Spec /\ Fairness

-----------------------------------------------------------------------------
(* Properties. *)

(***************************************************************************)
(* The number of blocking tasks never exceeds the configured one, also     *)
(* when requests time out or clients go away while their tasks run, and no *)
(* permit is lost (run_db_task, the permit moves into the task).           *)
(***************************************************************************)
PermitsAreConserved == permits + Cardinality(tasks) = Permits

(***************************************************************************)
(* The counters add up: a request counts once as successful or failed, at  *)
(* the moment its outcome is known, and every reason of failure counts     *)
(* with it; only clients that leave while waiting are missing. Routes,     *)
(* tokens, tiers and reports are counted with the requests they belong to: *)
(* an answer that came after a 504 is not.                                 *)
(***************************************************************************)
With(S) == Cardinality({r \in Requests : status[r] \in S})

Begun(routes) == {r \in Requests : stage[r] # "new" /\ Route[r] \in routes}

Succeeded == {r \in Requests : status[r] = "ok"}

CountersAddUp ==
  /\ metrics["successful"] = With({"ok"})
  /\ metrics["failed"] = With(Failures)
  /\ metrics["busy"] = With({"busy"})
  /\ metrics["timeout"] = With({"timeout"})
  /\ metrics["total"] = With(Outcomes)
       + Cardinality({r \in Requests : stage[r] # "new" /\ status[r] = "none"})
  /\ \A route \in Routes : metrics[route] = Cardinality(Begun({route}))
  /\ metrics["authorized"] + metrics["unauthorized"] = Cardinality(Begun(Routes \ {"live", "ready"}))
  /\ metrics["cueSeed"] + metrics["activation"] + metrics["activeReconstruction"]
       = Cardinality(Begun({"query"}) \cap Succeeded)
  /\ metrics["reports"] \in Cardinality(Begun({"manage"}) \cap Succeeded)
                             ..Cardinality(Begun({"manage", "remember"}) \cap Succeeded)

(***************************************************************************)
(* A request that was refused (401, 429, 400 by the handler, 503) has not  *)
(* written to the ledger and never will.                                   *)
(***************************************************************************)
Refused(r) ==
  \/ status[r] \in {"unauthorized", "rateLimited", "busy"}
  \/ status[r] = "invalid" /\ result[r] = "none"

RefusedDidNothing ==
  \A r \in Requests : Refused(r) =>
    /\ ledger[Key[r]] # r
    /\ \A t \in tasks : t.req = r => t.job = "audit"

(***************************************************************************)
(* A remember that was acknowledged, to its client or in the audit log, is *)
(* in the ledger, by this request or by an earlier try with its key.       *)
(***************************************************************************)
Acknowledged(r) == Route[r] = "remember" /\ (status[r] = "ok" \/ [req |-> r, status |-> "ok"] \in audit)

AcknowledgedIsStored ==
  \A r \in Requests : Acknowledged(r) => ledger[Key[r]] # NoRequest

(***************************************************************************)
(* A retry of a write whose outcome is unknown (504, 500, a lost answer)   *)
(* never replaces what was written: the first insert of a key stands.      *)
(***************************************************************************)
FirstInsertStands ==
  [][\A k \in Keys : ledger[k] # NoRequest => ledger'[k] = ledger[k]]_vars

(***************************************************************************)
(* Every request that was begun is answered or dropped by its client, even *)
(* when database tasks never end and hold all permits.                     *)
(***************************************************************************)
EveryRequestEnds ==
  \A r \in Requests : stage[r] # "new" ~> stage[r] \in {"answered", "gone"}

(***************************************************************************)
(* Every answered call to a /v1 route, authenticated, denied, failed or    *)
(* throttled, has its audit row, as long as the audit table can be written *)
(* to.                                                                     *)
(***************************************************************************)
AnsweredIsAudited ==
  [][\A r \in Requests :
       stage[r] # "answered" /\ stage'[r] = "answered" /\ ~IsOpen(r) /\ ~FailAudit(r) =>
         [req |-> r, status |-> status[r]] \in audit']_vars
================================================================================
