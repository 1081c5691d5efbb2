------------------------------ MODULE TaskJobs ------------------------------
(***************************************************************************)
(* RunTask and CancelTask (internal/core/task.go, local_task.go).  In dev  *)
(* a job lives in the process: a registry under one mutex and a goroutine  *)
(* per job.  Deployed, the same calls go to the platform (external) with   *)
(* up to three requests under one idempotency key; a request or its answer *)
(* may be lost, or arrive when the client has given up on it.              *)
(*                                                                         *)
(* A job is known by its key: an app and a UUID.  A request is a task's    *)
(* name with its canonical payload.                                        *)
(***************************************************************************)
EXTENDS Naturals, FiniteSets

CONSTANTS
    Callers,    \* goroutines that call RunTask and CancelTask
    Remote,     \* those of them that the model lets call the platform
    Keys,       \* idempotency keys, each with its app
    Requests,   \* tasks with their payloads
    None,
    MaxLate     \* bound: requests under way that nobody waits for

ASSUME NoneAssumption == None \notin Keys \cup Requests
ASSUME RemoteAssumption == Remote \subseteq Callers
ASSUME LateAssumption == MaxLate \in Nat

VARIABLES
    plane,      \* "dev" or "deployed"
    job,        \* job[k]: the registry's or the platform's record, or NoJob
    canceller,  \* canceller[k]: job.cancel is set
    worker,     \* worker[k]: where the job's goroutine is
    ctx,        \* ctx[k]: "live", "cancelled" or "expired", as ctx.Err() has it
    ret,        \* ret[k]: what the handler returned
    verdict,    \* verdict[k]: the status executeLocalTask reports
    pc,         \* pc[c]: where caller c is
    op,         \* op[c]: "run" or "cancel"
    key, req,   \* key[c], req[c]: what it asked for
    tries,      \* tries[c]: requests sent for this call
    reply,      \* reply[c]: the platform's answer to the request under way
    ok,         \* ok[c]: c's last RunTask returned a job ID
    net,        \* requests the client gave up on that may still arrive
    made,       \* history: made[c]: the keys of jobs that c's running call created
    asked       \* history: keys for which CancelTask took effect

localVars == <<canceller, worker, ctx, ret, verdict>>
callVars == <<op, key, req>>
wireVars == <<tries, reply, net>>
history == <<made, asked>>
vars == <<plane, job, localVars, pc, callVars, wireVars, ok, history>>

Job(r, s) == [req |-> r, status |-> s]
NoJob == Job(None, "none")

Final == {"succeeded", "failed", "cancelled"}
Open == {"queued", "running"}

\* doManagedTaskRequest's loop.
MaxTries == 3

Message(o, k, r) == [op |-> o, key |-> k, req |-> r]

Init ==
    /\ plane \in {"dev", "deployed"}
    /\ job = [k \in Keys |-> NoJob]
    /\ canceller = [k \in Keys |-> FALSE]
    /\ worker = [k \in Keys |-> "none"]
    /\ ctx = [k \in Keys |-> "live"]
    /\ ret = [k \in Keys |-> "none"]
    /\ verdict = [k \in Keys |-> "none"]
    /\ pc = [c \in Callers |-> "idle"]
    /\ op = [c \in Callers |-> "run"]
    /\ key = [c \in Callers |-> None] /\ req = [c \in Callers |-> None]
    /\ tries = [c \in Callers |-> 0]
    /\ reply = [c \in Callers |-> "none"]
    /\ ok = [c \in Callers |-> FALSE]
    /\ net = {} /\ made = [c \in Callers |-> {}] /\ asked = {}

Go(c, where) == pc' = [pc EXCEPT ![c] = where]

\* A call returns.  What it asked for is kept while its answer is a job ID.
Returns(c, success) ==
    /\ Go(c, "idle")
    /\ ok' = [ok EXCEPT ![c] = success]
    /\ op' = [op EXCEPT ![c] = "run"]
    /\ key' = [key EXCEPT ![c] = IF success THEN @ ELSE None]
    /\ req' = [req EXCEPT ![c] = IF success THEN @ ELSE None]
    /\ tries' = [tries EXCEPT ![c] = 0]
    /\ reply' = [reply EXCEPT ![c] = "none"]

\* A call waits for something at where.
Calls(c, o, k, r, where) ==
    /\ Go(c, where)
    /\ ok' = [ok EXCEPT ![c] = FALSE]
    /\ op' = [op EXCEPT ![c] = o]
    /\ key' = [key EXCEPT ![c] = k]
    /\ req' = [req EXCEPT ![c] = r]

Stays(k, s) == job' = [job EXCEPT ![k] = Job(@.req, s)]

---------------------------------------------------------------------------
\* Dev: localTaskRegistry and executeLocalTask.

\* Mutant of Conflicts: a key finds its job whatever is asked of it.
ConflictsNever(k, r) == FALSE

\* The key stands for another task or another payload.
Conflicts(k, r) == job[k].req # r

\* enqueue, under the mutex: a new job, whose goroutine is not there yet.
Enqueue(c, k, r) ==
    /\ plane = "dev" /\ pc[c] = "idle" /\ job[k] = NoJob
    /\ job' = [job EXCEPT ![k] = Job(r, "queued")]
    /\ made' = [made EXCEPT ![c] = {k}]
    /\ Calls(c, "run", k, r, "spawn")
    /\ UNCHANGED <<plane, localVars, wireVars, asked>>

\* enqueue finds the key: the original job, or a conflict.
EnqueueAgain(c, k, r) ==
    /\ plane = "dev" /\ pc[c] = "idle" /\ job[k] # NoJob
    /\ ok' = [ok EXCEPT ![c] = ~Conflicts(k, r)]
    /\ key' = [key EXCEPT ![c] = IF Conflicts(k, r) THEN None ELSE k]
    /\ req' = [req EXCEPT ![c] = IF Conflicts(k, r) THEN None ELSE r]
    /\ UNCHANGED <<plane, job, localVars, pc, op, wireVars, history>>

\* go executeLocalTask; RunTask returns the job's ID.
Spawn(c) ==
    /\ pc[c] = "spawn"
    /\ worker' = [worker EXCEPT ![key[c]] = "spawned"]
    /\ Returns(c, TRUE)
    /\ made' = [made EXCEPT ![c] = {}]
    /\ UNCHANGED <<plane, job, canceller, ctx, ret, verdict, net, asked>>

\* Mutant of Start: the cancel function is not stored.
StartUncancellable(k) ==
    /\ worker[k] = "spawned" /\ job[k].status = "queued"
    /\ Stays(k, "running")
    /\ worker' = [worker EXCEPT ![k] = "handler"]
    /\ UNCHANGED <<plane, canceller, ctx, ret, verdict, pc, callVars, wireVars, ok, history>>

\* start: a job that is still queued runs its handler.
Start(k) ==
    /\ worker[k] = "spawned" /\ job[k].status = "queued"
    /\ Stays(k, "running")
    /\ canceller' = [canceller EXCEPT ![k] = TRUE]
    /\ worker' = [worker EXCEPT ![k] = "handler"]
    /\ UNCHANGED <<plane, ctx, ret, verdict, pc, callVars, wireVars, ok, history>>

\* A job that was cancelled before its goroutine came to run.
StartRefused(k) ==
    /\ worker[k] = "spawned" /\ job[k].status # "queued"
    /\ worker' = [worker EXCEPT ![k] = "gone"]
    /\ UNCHANGED <<plane, job, canceller, ctx, ret, verdict, pc, callVars, wireVars,
                   ok, history>>

\* entry.timeout passes.
Expires(k) ==
    /\ worker[k] \in {"spawned", "handler", "checked"} /\ ctx[k] = "live"
    /\ ctx' = [ctx EXCEPT ![k] = "expired"]
    /\ UNCHANGED <<plane, job, canceller, worker, ret, verdict, pc, callVars, wireVars,
                   ok, history>>

Judged(k, s) ==
    /\ verdict' = [verdict EXCEPT ![k] = s]
    /\ worker' = [worker EXCEPT ![k] = "finishing"]

\* Mutant of HandlerFails: the recovered goroutine ends without finish.
HandlerFailsUnnoticed(k) ==
    /\ worker[k] = "handler"
    /\ worker' = [worker EXCEPT ![k] = "gone"]
    /\ UNCHANGED <<plane, job, canceller, ctx, ret, verdict, pc, callVars, wireVars,
                   ok, history>>

\* The handler panics, or returns after its deadline.
HandlerFails(k) ==
    /\ worker[k] = "handler"
    /\ Judged(k, "failed")
    /\ UNCHANGED <<plane, job, canceller, ctx, ret, pc, callVars, wireVars, ok, history>>

\* The handler returns, and the first case of the switch does not apply.
HandlerReturns(k, r) ==
    /\ worker[k] = "handler" /\ ctx[k] # "expired"
    /\ ret' = [ret EXCEPT ![k] = r]
    /\ worker' = [worker EXCEPT ![k] = "checked"]
    /\ UNCHANGED <<plane, job, canceller, ctx, verdict, pc, callVars, wireVars, ok, history>>

\* The other cases: ctx.Err() is read again.
Verdict(k) ==
    IF ctx[k] # "live" THEN "cancelled"
    ELSE IF ret[k] = "error" THEN "failed" ELSE "succeeded"

ChecksContext(k) ==
    /\ worker[k] = "checked"
    /\ Judged(k, Verdict(k))
    /\ UNCHANGED <<plane, job, canceller, ctx, ret, pc, callVars, wireVars, ok, history>>

\* Mutant of Finished: the last word is the worker's.
FinishedAnyway(k) == TRUE

\* finish changes a running job only.
Finished(k) == job[k].status = "running"

Finish(k) ==
    /\ worker[k] = "finishing"
    /\ IF Finished(k)
       THEN Stays(k, verdict[k]) /\ canceller' = [canceller EXCEPT ![k] = FALSE]
       ELSE UNCHANGED <<job, canceller>>
    /\ worker' = [worker EXCEPT ![k] = "gone"]
    /\ ret' = [ret EXCEPT ![k] = "none"] /\ verdict' = [verdict EXCEPT ![k] = "none"]
    /\ UNCHANGED <<plane, ctx, pc, callVars, wireVars, ok, history>>

\* cancelJob, under the mutex; the handler is told after the unlock.  Unknown
\* and finished jobs are left as they are.
CancelJob(c, k) ==
    /\ plane = "dev" /\ pc[c] = "idle" /\ job[k].status \in Open
    /\ Stays(k, "cancelled") /\ asked' = asked \cup {k}
    /\ canceller' = [canceller EXCEPT ![k] = FALSE]
    /\ IF canceller[k] THEN Calls(c, "cancel", k, None, "cancelling") /\ UNCHANGED <<tries, reply>>
                       ELSE Returns(c, FALSE)
    /\ UNCHANGED <<plane, worker, ctx, ret, verdict, net, made>>

CallsCancel(c) ==
    /\ pc[c] = "cancelling"
    /\ ctx' = [ctx EXCEPT ![key[c]] = IF @ = "live" THEN "cancelled" ELSE @]
    /\ Returns(c, FALSE)
    /\ UNCHANGED <<plane, job, canceller, worker, ret, verdict, net, history>>

---------------------------------------------------------------------------
\* Deployed: doManagedTaskRequest.  One caller's call has one key.

CallsPlatform(c, o, k, r) ==
    /\ plane = "deployed" /\ c \in Remote /\ pc[c] = "idle"
    /\ Calls(c, o, k, r, "sent")
    /\ tries' = [tries EXCEPT ![c] = 1]
    /\ UNCHANGED <<plane, job, localVars, reply, net, history>>

\* The platform creates a job once per key, and cancels what has not ended.
Creates(m) == m.op = "run" /\ job[m.key] = NoJob
Stops(m) == m.op = "cancel" /\ job[m.key].status \in Open

Serves(m) ==
    /\ job' = IF Creates(m) THEN [job EXCEPT ![m.key] = Job(m.req, "queued")]
              ELSE IF Stops(m) THEN [job EXCEPT ![m.key] = Job(@.req, "cancelled")]
              ELSE job
    /\ asked' = IF Stops(m) THEN asked \cup {m.key} ELSE asked

Sent(c) == Message(op[c], key[c], req[c])

Answer(m) ==
    IF m.op = "run" /\ job[m.key].req \notin {None, m.req} THEN "conflict"
    ELSE IF m.op = "cancel" /\ job[m.key] = NoJob THEN "notFound" ELSE "done"

PlatformServes(c) ==
    /\ pc[c] = "sent" /\ reply[c] = "none"
    /\ Serves(Sent(c))
    /\ made' = IF Creates(Sent(c)) THEN [made EXCEPT ![c] = @ \cup {key[c]}] ELSE made
    /\ reply' = [reply EXCEPT ![c] = Answer(Sent(c))]
    /\ UNCHANGED <<plane, localVars, pc, callVars, tries, net, ok>>

\* A request that the client gave up on reaches the platform after all.
PlatformServesLate(m) ==
    /\ m \in net
    /\ Serves(m)
    /\ made' = [c \in Callers |->
                  IF Creates(m) /\ pc[c] # "idle" /\ Sent(c) = m
                  THEN made[c] \cup {m.key} ELSE made[c]]
    /\ net' = net \ {m}
    /\ UNCHANGED <<plane, localVars, pc, callVars, tries, reply, ok>>

\* The call is over.
Over(c, success) ==
    /\ Returns(c, success)
    /\ made' = [made EXCEPT ![c] = {}]
    /\ UNCHANGED <<plane, job, localVars, asked>>

\* 2xx with a well-formed body, or an error that is not repeated.
AnswerArrives(c) ==
    /\ pc[c] = "sent" /\ reply[c] # "none"
    /\ Over(c, op[c] = "run" /\ reply[c] = "done")
    /\ UNCHANGED net

\* Mutant of TriesAgain: every request draws a key of its own.
TriesAgainAfresh(c) ==
    /\ \E k \in Keys : job[k] = NoJob /\ key' = [key EXCEPT ![c] = k]
    /\ tries' = [tries EXCEPT ![c] = @ + 1]
    /\ reply' = [reply EXCEPT ![c] = "none"]
    /\ UNCHANGED <<plane, job, localVars, pc, op, req, ok, history>>

TriesAgain(c) ==
    /\ tries' = [tries EXCEPT ![c] = @ + 1]
    /\ reply' = [reply EXCEPT ![c] = "none"]
    /\ UNCHANGED <<plane, job, localVars, pc, callVars, ok, history>>

\* A request that the platform has not served may be lost or still under way.
Abandons(c) ==
    net' \in {net} \cup (IF reply[c] = "none" /\ Cardinality(net) < MaxLate
                         THEN {net \cup {Sent(c)}} ELSE {})

\* Transport error, timeout, 429 or 5xx.  The third failure is the caller's.
AttemptFails(c) ==
    /\ pc[c] = "sent"
    /\ Abandons(c)
    /\ IF tries[c] < MaxTries THEN TriesAgain(c) ELSE Over(c, FALSE)

\* The caller's context ends while it waits, or the answer is malformed, too
\* long or not JSON.
CallerLeaves(c) ==
    /\ pc[c] = "sent"
    /\ Abandons(c)
    /\ Over(c, FALSE)

\* The platform's runner.
PlatformRuns(k) ==
    /\ plane = "deployed"
    /\ \/ job[k].status = "queued" /\ Stays(k, "running")
       \/ job[k].status = "running" /\ \E s \in {"succeeded", "failed"} : Stays(k, s)
    /\ UNCHANGED <<plane, localVars, pc, callVars, wireVars, ok, history>>

---------------------------------------------------------------------------
Results == {"nil", "error"}

Worker(k) ==
    \/ Start(k) \/ StartRefused(k)
    \/ HandlerFails(k) \/ \E r \in Results : HandlerReturns(k, r)
    \/ ChecksContext(k) \/ Finish(k)

Client(c) == PlatformServes(c) \/ AnswerArrives(c) \/ AttemptFails(c)

Next ==
    \/ \E c \in Callers, k \in Keys : CancelJob(c, k) \/ CallsPlatform(c, "cancel", k, None)
    \/ \E c \in Callers, k \in Keys, r \in Requests :
          Enqueue(c, k, r) \/ EnqueueAgain(c, k, r) \/ CallsPlatform(c, "run", k, r)
    \/ \E c \in Callers : Spawn(c) \/ CallsCancel(c) \/ Client(c) \/ CallerLeaves(c)
    \/ \E k \in Keys : Worker(k) \/ Expires(k) \/ PlatformRuns(k)
    \/ \E m \in net : PlatformServesLate(m)

Spec == Init /\ [][Next]_vars

\* Goroutines that can run do run and handlers return.  A request ends, within
\* the client's 15 seconds.  Nothing is assumed of the platform.
Fairness ==
    /\ \A c \in Callers :
          WF_vars(Spawn(c)) /\ WF_vars(CallsCancel(c)) /\ WF_vars(AttemptFails(c))
    /\ \A k \in Keys : WF_vars(Worker(k))

FairSpec == Spec /\ Fairness

---------------------------------------------------------------------------
Statuses == {"none"} \cup Open \cup Final

\* The type of every variable.
TypeOK ==
    /\ plane \in {"dev", "deployed"}
    /\ job \in [Keys -> [req : Requests \cup {None}, status : Statuses]]
    /\ canceller \in [Keys -> BOOLEAN]
    /\ worker \in [Keys -> {"none", "spawned", "handler", "checked",
                            "finishing", "gone"}]
    /\ ctx \in [Keys -> {"live", "cancelled", "expired"}]
    /\ ret \in [Keys -> Results \cup {"none"}]
    /\ verdict \in [Keys -> Final \cup {"none"}]
    /\ pc \in [Callers -> {"idle", "spawn", "cancelling", "sent"}]
    /\ op \in [Callers -> {"run", "cancel"}]
    /\ key \in [Callers -> Keys \cup {None}] /\ req \in [Callers -> Requests \cup {None}]
    /\ tries \in [Callers -> 0..MaxTries]
    /\ reply \in [Callers -> {"none", "done", "conflict", "notFound"}]
    /\ ok \in [Callers -> BOOLEAN]
    /\ net \subseteq [op : {"run", "cancel"}, key : Keys, req : Requests \cup {None}]
    /\ made \in [Callers -> SUBSET Keys] /\ asked \subseteq Keys

\* RunTaskWithIdempotencyKey: a job ID is returned only for a job that does
\* what this caller asked for; key reuse for other work is refused.
AnsweredJobIsMine ==
    \A c \in Callers : ok[c] => job[key[c]].req = req[c]

\* doManagedTaskRequest: however many of its requests are lost, answered or
\* delayed, one RunTask call creates one job.
OneJobPerCall ==
    \A c \in Callers : Cardinality(made[c]) <= 1

\* cancelJob: the handler of a job that shows as cancelled has been told so, or
\* the goroutine that cancelled it is about to tell it.
CancelledIsTold ==
    \A k \in Keys :
        job[k].status = "cancelled" /\ worker[k] = "handler" =>
            \/ ctx[k] # "live"
            \/ \E c \in Callers : pc[c] = "cancelling" /\ key[c] = k

\* executeLocalTask: a job ends as cancelled only if somebody cancelled it, or
\* if its time ran out between the two readings of ctx.Err().
CancelledForAReason ==
    \A k \in Keys : job[k].status = "cancelled" => k \in asked \/ ctx[k] = "expired"

P == INSTANCE JobPromise WITH
        NoRequest <- None,
        request <- [k \in Keys |-> job[k].req],
        status <- [k \in Keys |-> job[k].status]

\* Both planes keep the promise: one request per key, one start, and a final
\* status that neither a late finish nor a late cancellation changes.
ImplementsJobPromise == P!Spec

\* executeLocalTask: a job that was enqueued comes to an end.
JobsSettle ==
    \A k \in Keys :
        plane = "dev" /\ job[k].status = "queued" ~> job[k].status \in Final

=============================================================================
