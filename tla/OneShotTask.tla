---------------------------- MODULE OneShotTask ----------------------------
(***************************************************************************)
(* internal/runtime, task_worker.go and task_broker.go: one task attempt   *)
(* from its validated claim to RunOneShot's return.  Three kinds of        *)
(* goroutine share a taskResourceManager: RunOneShot itself ("main"), the  *)
(* heartbeat loop ("hb"), and the goroutines of the task handler (Users),  *)
(* which ask for credentials and may outlive the handler that started      *)
(* them.  The broker is external: it answers a request, refuses it, or the *)
(* answer is lost after the broker acted on it.                            *)
(***************************************************************************)
EXTENDS Integers, FiniteSets

CONSTANTS
    Users,      \* goroutines of the handler that use task resources
    Kinds,      \* resource kinds: database, cache, storage, moduleCalls
    MaxLease,   \* bound: lease tokens 1..MaxLease the broker may issue
    None        \* no goroutine

ASSUME UsersAssumption ==
    /\ Users \cap {"main", "hb"} = {}
    /\ None \notin Users \cup {"main", "hb"}
ASSUME LeaseAssumption == MaxLease \in Nat \ {0}

VARIABLES
    main,       \* where RunOneShot is
    hb,         \* where the heartbeat goroutine is
    user,       \* user[u]: where u is in refresh and the credential getter
    want,       \* want[u]: the kind u asked for
    got,        \* got[u]: the last credential getter returned a credential to u
    flight,     \* flight[k]: the singleflight leader that refreshes kind k
    brokerMu,   \* holder of taskResourceManager.brokerMu
    terminal,   \* taskResourceManager.terminal
    cap,        \* the adopted lease token, 0 once cleared
    res,        \* res[k]: "none", "stale" (not usable for 30s more) or "fresh"
    cause,      \* context.Cause(baseCtx), by what errors.Is says of it
    expired,    \* the deadline of handlerCtx has passed
    stopped,    \* stopHeartbeat was called
    ret,        \* what safeRun returned
    decision,   \* the outcome RunOneShot reports
    tries,      \* terminal requests sent
    req,        \* req[p]: the broker request p waits for
    lease,      \* broker: the lease token in force
    outcome,    \* broker: the recorded outcome of the attempt
    cancelReq,  \* broker: cancellation was requested
    latest,     \* history: the newest token an answer delivered
    cancelled,  \* history: an answer reported cancellation before the decision
    trouble     \* history: something went wrong outside this process

procVars == <<main, hb, user, want, got, flight, brokerMu, terminal>>
ctxVars == <<cause, expired, stopped, ret, decision, tries>>
brokerVars == <<lease, outcome, cancelReq>>
history == <<latest, cancelled, trouble>>
vars == <<procVars, cap, res, ctxVars, req, brokerVars, history>>

Posters == Users \cup {"main", "hb"}

\* Errors, told apart as classifyTaskFailure does.  "TaskCancelled" is
\* errTaskCancelled; an HTTP client timeout is a "DeadlineExceeded" too.
Errors == {"DeadlineExceeded", "TaskCancelled", "Canceled", "Permanent", "Other"}
Returns == {"nil", "panic"} \cup (Errors \ {"TaskCancelled"})

\* A request under token and what its answer carries.
Request(stage, token, new, isCancelled, late, vended) ==
    [stage |-> stage, token |-> token, cap |-> new, cancelled |-> isCancelled,
     late |-> late, vended |-> vended]
NoReq == Request("none", 0, 0, FALSE, FALSE, "none")
Sent(t) == Request("sent", t, 0, FALSE, FALSE, "none")
At(r, stage) == Request(stage, r.token, r.cap, r.cancelled, r.late, r.vended)

NoDecision == [kind |-> "none", code |-> "none", retryable |-> FALSE]
Completion == [kind |-> "complete", code |-> "none", retryable |-> FALSE]

\* Mutant of Failure: errTaskCancelled is taken for an ordinary error.
FailureRetriesCancelled(e) ==
    [kind |-> "fail", code |-> "handler_error",
     retryable |-> e \notin {"DeadlineExceeded", "Permanent"}]

\* classifyTaskFailure, with the panic case first.
Failure(e) ==
    [kind |-> "fail",
     code |-> CASE e = "panic"            -> "handler_panic"
                [] e = "DeadlineExceeded" -> "deadline_exceeded"
                [] e = "TaskCancelled"    -> "cancelled"
                [] e = "Canceled"         -> "interrupted"
                [] e = "Permanent"        -> "permanent_error"
                [] OTHER                  -> "handler_error",
     retryable |-> e \in {"panic", "Canceled", "Other"}]

Init ==
    /\ main = "run" /\ hb = "sleep"
    /\ user = [u \in Users |-> "idle"]
    /\ want \in [Users -> Kinds]
    /\ got = [u \in Users |-> FALSE]
    /\ flight = [k \in Kinds |-> None]
    /\ brokerMu = None /\ terminal = FALSE
    /\ cap = 1
    /\ res \in [Kinds -> {"none", "fresh"}]
    /\ cause = "none" /\ expired = FALSE /\ stopped = FALSE
    /\ ret = "running" /\ decision = NoDecision /\ tries = 0
    /\ req = [p \in Posters |-> NoReq]
    /\ lease = 1 /\ outcome = "open" /\ cancelReq = FALSE
    /\ latest = 1 /\ cancelled = FALSE /\ trouble = FALSE

\* cancelCause(e): only the first cause is kept.
CancelWith(e) == cause' = IF cause = "none" THEN e ELSE cause

Undecided == main \in {"run", "drain"}

BaseDone == cause # "none"          \* baseCtx is cancelled
HbDone == BaseDone \/ stopped       \* hbCtx is cancelled
HandlerDone == BaseDone \/ expired  \* handlerCtx is done

---------------------------------------------------------------------------
\* What happens around the process.

\* The parent context ends: SIGTERM, or the Lambda invocation's deadline.
ParentDone(e) ==
    /\ main # "exit"
    /\ cause = "none"
    /\ CancelWith(e)
    /\ trouble' = TRUE
    /\ UNCHANGED <<procVars, cap, res, expired, stopped, ret, decision, tries,
                   req, brokerVars, latest, cancelled>>

\* The task's deadline passes.
DeadlinePasses ==
    /\ ~expired
    /\ Undecided
    /\ expired' = TRUE
    /\ trouble' = TRUE
    /\ UNCHANGED <<procVars, cap, res, cause, stopped, ret, decision, tries,
                   req, brokerVars, latest, cancelled>>

\* Credentials come within 30 seconds of their expiry.
CredentialAges(k) ==
    /\ res[k] = "fresh"
    /\ res' = [res EXCEPT ![k] = "stale"]
    /\ UNCHANGED <<procVars, cap, ctxVars, req, brokerVars, history>>

RequestCancel ==
    /\ ~cancelReq
    /\ cancelReq' = TRUE
    /\ trouble' = TRUE
    /\ UNCHANGED <<procVars, cap, res, ctxVars, req, lease, outcome, latest, cancelled>>

---------------------------------------------------------------------------
\* The broker.

Authorised(p) == req[p].token = lease /\ outcome = "open"

\* A heartbeat or a refresh: the answer may carry a new lease, report a
\* cancellation or a deadline in the past, and vend a resource (or not).
BrokerAnswers(p) ==
    /\ p # "main"
    /\ req[p].stage = "sent"
    /\ Authorised(p)
    /\ \E new \in {0, lease + 1} \cap 0..MaxLease, late \in BOOLEAN,
          vended \in IF p = "hb" THEN {"none"} ELSE {"none", "stale", "fresh"} :
          /\ lease' = IF new = 0 THEN lease ELSE new
          /\ trouble' = (trouble \/ (late /\ p = "hb"))
          /\ req' = [req EXCEPT ![p] = Request("answered", @.token, new, cancelReq,
                                               late /\ p = "hb", vended)]
    /\ UNCHANGED <<procVars, cap, res, ctxVars, outcome, cancelReq, latest, cancelled>>

\* A terminal request is recorded once and repeats of it are idempotent.
BrokerRecords ==
    /\ req["main"].stage = "sent"
    /\ req["main"].token = lease
    /\ outcome \in {"open", decision.kind}
    /\ outcome' = decision.kind
    /\ req' = [req EXCEPT !["main"] = At(@, "answered")]
    /\ UNCHANGED <<procVars, cap, res, ctxVars, lease, cancelReq, history>>

\* A stale token or a closed attempt is refused with a client error.
BrokerRefuses(p) ==
    /\ req[p].stage = "sent"
    /\ IF p = "main"
       THEN req[p].token # lease \/ outcome \notin {"open", decision.kind}
       ELSE ~Authorised(p)
    /\ req' = [req EXCEPT ![p] = At(@, "refused")]
    /\ trouble' = TRUE
    /\ UNCHANGED <<procVars, cap, res, ctxVars, brokerVars, latest, cancelled>>

\* Transport failure, 429 or 5xx, or an unusable answer; the broker may
\* already have acted on the request.
AnswerLost(p) ==
    /\ req[p].stage \in {"sent", "answered"}
    /\ req' = [req EXCEPT ![p] = At(@, "lost")]
    /\ trouble' = TRUE
    /\ UNCHANGED <<procVars, cap, res, ctxVars, brokerVars, latest, cancelled>>

---------------------------------------------------------------------------
\* Mutant of Adopt: rotate after the check for cancellation.
AdoptUnlessCancelled(p) ==
    /\ cap' = IF req[p].cap = 0 \/ req[p].cancelled THEN cap ELSE req[p].cap
    /\ latest' = IF req[p].cap = 0 THEN latest ELSE req[p].cap

\* taskResourceManager.rotate: adopt the lease an answer carries.
Adopt(p) ==
    /\ cap' = IF req[p].cap = 0 THEN cap ELSE req[p].cap
    /\ latest' = IF req[p].cap = 0 THEN latest ELSE req[p].cap

\* The answer said the attempt is cancelled.
NoteCancelled(p) ==
    cancelled' = (cancelled \/ (req[p].cancelled /\ Undecided))

Unlock(p) == brokerMu' = None /\ req' = [req EXCEPT ![p] = NoReq]

\* What a failed request means to errors.Is: a lost one may be a timeout.
RequestErrors(p) ==
    IF req[p].stage = "refused" THEN {"Other"} ELSE {"Other", "DeadlineExceeded"}

---------------------------------------------------------------------------
\* The heartbeat loop.

HeartbeatStops ==
    /\ hb = "sleep"
    /\ HbDone
    /\ hb' = "done"
    /\ UNCHANGED <<main, user, want, got, flight, brokerMu, terminal, cap, res,
                   ctxVars, req, brokerVars, history>>

\* The timer fires; select may prefer it to a cancelled hbCtx.
HeartbeatFires ==
    /\ hb = "sleep"
    /\ hb' = "want"
    /\ UNCHANGED <<main, user, want, got, flight, brokerMu, terminal, cap, res,
                   ctxVars, req, brokerVars, history>>

\* Under brokerMu: the request is sent, unless hbCtx has ended by then.
HeartbeatSends ==
    /\ hb = "want"
    /\ brokerMu = None
    /\ ~HbDone
    /\ brokerMu' = "hb"
    /\ hb' = "posting"
    /\ req' = [req EXCEPT !["hb"] = Sent(cap)]
    /\ UNCHANGED <<main, user, want, got, flight, terminal, cap, res, ctxVars,
                   brokerVars, history>>

\* hbCtx ends before or during the request: the error becomes the cause.
HeartbeatInterrupted ==
    /\ HbDone
    /\ \/ hb = "want" /\ brokerMu = None
       \/ hb = "posting"
    /\ CancelWith("Canceled")
    /\ hb' = "done"
    /\ Unlock("hb")
    /\ UNCHANGED <<main, user, want, got, flight, terminal, cap, res, expired,
                   stopped, ret, decision, tries, brokerVars, history>>

HeartbeatFails ==
    /\ hb = "posting"
    /\ req["hb"].stage \in {"refused", "lost"}
    /\ \E e \in RequestErrors("hb") : CancelWith(e)
    /\ hb' = "done"
    /\ Unlock("hb")
    /\ UNCHANGED <<main, user, want, got, flight, terminal, cap, res, expired,
                   stopped, ret, decision, tries, brokerVars, history>>

\* A good answer: rotate first, then look at cancellation and deadline.
HeartbeatReturns ==
    /\ hb = "posting"
    /\ req["hb"].stage = "answered"
    /\ Adopt("hb")
    /\ NoteCancelled("hb")
    /\ CASE req["hb"].cancelled -> CancelWith("TaskCancelled") /\ hb' = "done"
         [] ~req["hb"].cancelled /\ req["hb"].late ->
                CancelWith("DeadlineExceeded") /\ hb' = "done"
         [] OTHER -> hb' = "sleep" /\ UNCHANGED cause
    /\ Unlock("hb")
    /\ UNCHANGED <<main, user, want, got, flight, terminal, res, expired,
                   stopped, ret, decision, tries, brokerVars, trouble>>

---------------------------------------------------------------------------
\* Credential getters of the handler's goroutines: refresh, then read.

\* The caller's fast path: a usable resource needs no refresh.
UserAsks(u, k) ==
    /\ user[u] = "idle"
    /\ want' = [want EXCEPT ![u] = k]
    /\ user' = [user EXCEPT ![u] = IF res[k] = "fresh" THEN "read" ELSE "join"]
    /\ UNCHANGED <<main, hb, got, flight, brokerMu, terminal, cap, res, ctxVars,
                   req, brokerVars, history>>

\* singleflight.Do, some time later: lead a flight of its own, or wait for the
\* one under way.
UserJoins(u) ==
    /\ user[u] = "join"
    /\ \/ /\ flight[want[u]] = None
          /\ flight' = [flight EXCEPT ![want[u]] = u]
          /\ user' = [user EXCEPT ![u] = "lead"]
       \/ /\ flight[want[u]] # None
          /\ user' = [user EXCEPT ![u] = "wait"]
          /\ UNCHANGED flight
    /\ UNCHANGED <<main, hb, want, got, brokerMu, terminal, cap, res, ctxVars,
                   req, brokerVars, history>>

\* The flight of u ends: u and the goroutines that waited for it go to next.
Lands(u, next) ==
    /\ flight' = [flight EXCEPT ![want[u]] = None]
    /\ LET all == {u} \cup {w \in Users : user[w] = "wait" /\ want[w] = want[u]}
       IN /\ user' = [w \in Users |-> IF w \in all THEN next ELSE user[w]]
          /\ got' = [w \in Users |->
                        IF w \in all /\ next = "idle" THEN FALSE ELSE got[w]]

\* The closure finds the resource usable, before or after it locks.
RefreshNotNeeded(u) ==
    /\ user[u] = "lead"
    /\ res[want[u]] = "fresh"
    /\ Lands(u, "read")
    /\ UNCHANGED <<main, hb, want, brokerMu, terminal, cap, res, ctxVars, req,
                   brokerVars, history>>

\* With brokerMu in hand: too late, the terminal request was sent.
RefreshTooLate(u) ==
    /\ user[u] = "lead"
    /\ brokerMu = None
    /\ terminal
    /\ Lands(u, "idle")
    /\ UNCHANGED <<main, hb, want, brokerMu, terminal, cap, res, ctxVars, req,
                   brokerVars, history>>

\* Mutant of RefreshSends: terminal is not looked at again under brokerMu.
RefreshSendsLate(u) ==
    /\ user[u] = "lead"
    /\ brokerMu = None
    /\ res[want[u]] # "fresh"
    /\ brokerMu' = u
    /\ user' = [user EXCEPT ![u] = "posting"]
    /\ req' = [req EXCEPT ![u] = Sent(cap)]
    /\ UNCHANGED <<main, hb, want, got, flight, terminal, cap, res, ctxVars,
                   brokerVars, history>>

RefreshSends(u) ==
    /\ user[u] = "lead"
    /\ brokerMu = None
    /\ ~terminal
    /\ res[want[u]] # "fresh"
    /\ brokerMu' = u
    /\ user' = [user EXCEPT ![u] = "posting"]
    /\ req' = [req EXCEPT ![u] = Sent(cap)]
    /\ UNCHANGED <<main, hb, want, got, flight, terminal, cap, res, ctxVars,
                   brokerVars, history>>

\* The leader's own context ends the request (the task's, or a shorter one
\* the handler put around this call); the error cancels the whole task.
RefreshInterrupted(u) ==
    /\ user[u] = "posting"
    /\ \E e \in {"Canceled", "DeadlineExceeded"} : CancelWith(e)
    /\ trouble' = (trouble \/ ~HandlerDone)
    /\ Lands(u, "idle")
    /\ Unlock(u)
    /\ UNCHANGED <<main, hb, want, terminal, cap, res, expired, stopped, ret,
                   decision, tries, brokerVars, latest, cancelled>>

\* Mutant of RefreshFails: the error path keeps brokerMu.
RefreshFailsLocked(u) ==
    /\ user[u] = "posting"
    /\ req[u].stage \in {"refused", "lost"}
    /\ \E e \in RequestErrors(u) : CancelWith(e)
    /\ Lands(u, "idle")
    /\ req' = [req EXCEPT ![u] = NoReq]
    /\ UNCHANGED <<main, hb, want, brokerMu, terminal, cap, res, expired, stopped,
                   ret, decision, tries, brokerVars, history>>

RefreshFails(u) ==
    /\ user[u] = "posting"
    /\ req[u].stage \in {"refused", "lost"}
    /\ \E e \in RequestErrors(u) : CancelWith(e)
    /\ Lands(u, "idle")
    /\ Unlock(u)
    /\ UNCHANGED <<main, hb, want, terminal, cap, res, expired, stopped, ret,
                   decision, tries, brokerVars, history>>

\* A good answer: rotate, then cancellation, then applyRefresh.  An omitted,
\* expired or rescoped resource cancels the task.
RefreshReturns(u) ==
    /\ user[u] = "posting"
    /\ req[u].stage = "answered"
    /\ Adopt(u)
    /\ NoteCancelled(u)
    /\ \/ /\ req[u].cancelled
          /\ CancelWith("TaskCancelled")
          /\ Lands(u, "idle")
          /\ UNCHANGED <<res, trouble>>
       \/ /\ ~req[u].cancelled
          /\ req[u].vended = "none"
          /\ CancelWith("Other")
          /\ trouble' = TRUE
          /\ Lands(u, "idle")
          /\ UNCHANGED res
       \/ /\ ~req[u].cancelled
          /\ req[u].vended # "none"
          /\ res' = [res EXCEPT ![want[u]] = req[u].vended]
          /\ Lands(u, "read")
          /\ UNCHANGED <<cause, trouble>>
    /\ Unlock(u)
    /\ UNCHANGED <<main, hb, want, terminal, expired, stopped, ret, decision,
                   tries, brokerVars>>

\* The getter copies the credential that is there now, if any.
UserReads(u) ==
    /\ user[u] = "read"
    /\ user' = [user EXCEPT ![u] = "idle"]
    /\ got' = [got EXCEPT ![u] = res[want[u]] # "none"]
    /\ UNCHANGED <<main, hb, want, flight, brokerMu, terminal, cap, res,
                   ctxVars, req, brokerVars, history>>

---------------------------------------------------------------------------
\* RunOneShot after the handler.

\* safeRun returns; the heartbeat is told to stop.
HandlerReturns(r) ==
    /\ main = "run"
    /\ ret' = r
    /\ stopped' = TRUE
    /\ main' = "drain"
    /\ UNCHANGED <<hb, user, want, got, flight, brokerMu, terminal, cap, res,
                   cause, expired, decision, tries, req, brokerVars, history>>

\* Mutant of Verdict: the cause of baseCtx is not consulted.
VerdictOfHandler == IF expired THEN "DeadlineExceeded" ELSE ret

\* The error that counts: the cause, then the deadline, then the handler's.
Verdict ==
    IF cause # "none" THEN cause
    ELSE IF expired THEN "DeadlineExceeded" ELSE ret

Decided == IF Verdict = "nil" THEN Completion ELSE Failure(Verdict)

\* heartbeatWG.Wait returns.
Decide ==
    /\ main = "drain"
    /\ hb = "done"
    /\ main' = "report"
    /\ decision' = Decided
    /\ UNCHANGED <<hb, user, want, got, flight, brokerMu, terminal, cap, res,
                   cause, expired, stopped, ret, tries, req, brokerVars, history>>

\* complete or fail: take brokerMu, refuse all later use, send.
TerminalSends ==
    /\ main = "report"
    /\ brokerMu = None
    /\ brokerMu' = "main"
    /\ terminal' = TRUE
    /\ main' = "posting"
    /\ tries' = 1
    /\ req' = [req EXCEPT !["main"] = Sent(cap)]
    /\ UNCHANGED <<hb, user, want, got, flight, cap, res, cause, expired,
                   stopped, ret, decision, brokerVars, history>>

\* terminalPost: only transport failures, 429 and 5xx are tried again.
MaxTries == 3

TerminalRetries ==
    /\ main = "posting"
    /\ req["main"].stage = "lost"
    /\ tries < MaxTries
    /\ tries' = tries + 1
    /\ req' = [req EXCEPT !["main"] = Sent(@.token)]
    /\ UNCHANGED <<procVars, cap, res, cause, expired, stopped, ret, decision,
                   brokerVars, history>>

\* Mutant of TerminalReturns: brokerMu stays locked.
TerminalReturnsLocked ==
    /\ main = "posting"
    /\ req["main"].stage \in {"answered", "refused", "lost"}
    /\ main' = "clear"
    /\ req' = [req EXCEPT !["main"] = NoReq]
    /\ UNCHANGED <<hb, user, want, got, flight, brokerMu, terminal, cap, res,
                   ctxVars, brokerVars, history>>

\* Acknowledged, refused, out of tries, or the 15 second context ends.
TerminalReturns ==
    /\ main = "posting"
    /\ req["main"].stage \in {"answered", "refused", "lost"}
    /\ main' = "clear"
    /\ Unlock("main")
    /\ UNCHANGED <<hb, user, want, got, flight, terminal, cap, res, ctxVars,
                   brokerVars, history>>

\* The deferred calls: manager.clear under brokerMu, cancelCause(nil).
Clear ==
    /\ main = "clear"
    /\ brokerMu = None
    /\ terminal' = TRUE
    /\ cap' = 0
    /\ res' = [k \in Kinds |-> "none"]
    /\ CancelWith("Canceled")
    /\ main' = "exit"
    /\ UNCHANGED <<hb, user, want, got, flight, brokerMu, expired, stopped, ret,
                   decision, tries, req, brokerVars, history>>

---------------------------------------------------------------------------
Heartbeat ==
    \/ HeartbeatStops \/ HeartbeatSends \/ HeartbeatInterrupted
    \/ HeartbeatFails \/ HeartbeatReturns

Refresh(u) ==
    \/ UserJoins(u) \/ RefreshNotNeeded(u) \/ RefreshTooLate(u) \/ RefreshSends(u)
    \/ RefreshFails(u) \/ RefreshReturns(u) \/ UserReads(u)

Main == Decide \/ TerminalSends \/ TerminalRetries \/ TerminalReturns \/ Clear

Answer(p) == BrokerAnswers(p) \/ BrokerRefuses(p) \/ AnswerLost(p)

Next ==
    \/ Main
    \/ \E r \in Returns : HandlerReturns(r)
    \/ Heartbeat \/ HeartbeatFires
    \/ \E u \in Users, k \in Kinds : UserAsks(u, k)
    \/ \E u \in Users : Refresh(u) \/ RefreshInterrupted(u)
    \/ \E p \in Posters : Answer(p)
    \/ BrokerRecords
    \/ \E e \in {"Canceled", "DeadlineExceeded"} : ParentDone(e)
    \/ DeadlinePasses \/ RequestCancel
    \/ \E k \in Kinds : CredentialAges(k)

Spec == Init /\ [][Next]_vars

\* Goroutines that can run do run; brokerMu is handed to a goroutine that
\* keeps asking for it (sync.Mutex's starvation mode); every request ends,
\* because the broker client has a 15 second timeout.  Nothing forces the
\* handler to return, and nothing forces it to ask for credentials.
Fairness ==
    /\ SF_vars(TerminalSends) /\ SF_vars(Clear)
    /\ WF_vars(Decide) /\ WF_vars(TerminalRetries \/ TerminalReturns)
    /\ WF_vars(HeartbeatStops) /\ WF_vars(HeartbeatFails) /\ WF_vars(HeartbeatReturns)
    /\ SF_vars(HeartbeatSends) /\ SF_vars(HeartbeatInterrupted)
    /\ \A u \in Users :
          /\ WF_vars(UserJoins(u) \/ RefreshNotNeeded(u) \/ UserReads(u))
          /\ WF_vars(RefreshFails(u) \/ RefreshReturns(u))
          /\ SF_vars(RefreshSends(u) \/ RefreshTooLate(u))
    /\ \A p \in Posters : WF_vars(AnswerLost(p))

FairSpec == Spec /\ Fairness

---------------------------------------------------------------------------
Requests ==
    [stage : {"none", "sent", "answered", "refused", "lost"},
     token : 0..MaxLease, cap : 0..MaxLease, cancelled : BOOLEAN,
     late : BOOLEAN, vended : {"none", "stale", "fresh"}]

Decisions ==
    {NoDecision, Completion} \cup {Failure(e) : e \in Errors \cup {"panic"}}

\* The type of every variable.
TypeOK ==
    /\ main \in {"run", "drain", "report", "posting", "clear", "exit"}
    /\ hb \in {"sleep", "want", "posting", "done"}
    /\ user \in [Users -> {"idle", "join", "wait", "lead", "posting", "read"}]
    /\ want \in [Users -> Kinds]
    /\ got \in [Users -> BOOLEAN]
    /\ flight \in [Kinds -> Users \cup {None}]
    /\ brokerMu \in Posters \cup {None}
    /\ terminal \in BOOLEAN
    /\ cap \in 0..MaxLease
    /\ res \in [Kinds -> {"none", "stale", "fresh"}]
    /\ cause \in Errors \cup {"none"}
    /\ expired \in BOOLEAN /\ stopped \in BOOLEAN
    /\ ret \in Returns \cup {"running"}
    /\ decision \in Decisions
    /\ tries \in 0..MaxTries
    /\ req \in [Posters -> Requests]
    /\ lease \in 1..MaxLease
    /\ outcome \in {"open", "complete", "fail"}
    /\ cancelReq \in BOOLEAN
    /\ latest \in 1..MaxLease
    /\ cancelled \in BOOLEAN
    /\ trouble \in BOOLEAN

\* The terminal callback is the attempt's last word: once it is sent, no
\* heartbeat and no refresh is under way, and none starts, whatever the
\* handler's leaked goroutines do (task_worker.go: "requested after terminal
\* callback").
NothingAfterTerminal ==
    terminal => \A p \in Posters \ {"main"} : req[p].stage = "none"

\* A lease rotates with every answer, so two requests under way at once would
\* let the older one present a token the broker has replaced.
OneRequestAtATime ==
    \A p, q \in Posters :
        req[p].stage # "none" /\ req[q].stage # "none" => p = q

\* "the one terminal callback uses the broker's latest capability"
\* (task_worker.go): no answer that arrived, not even one that reports a
\* cancellation or lacks the resource, has its lease ignored.
TerminalUsesLatestLease ==
    req["main"].stage # "none" => req["main"].token = latest

\* Singleflight strands nobody: a goroutine that waits for a refresh waits for
\* a leader that is still at it.
FollowersHaveLeader ==
    \A w \in Users : user[w] = "wait" =>
        \E u \in Users : flight[want[w]] = u /\ want[u] = want[w]
                            /\ user[u] \in {"lead", "posting"}

\* The broker records a completion only for a handler that returned nil, that
\* was not told of a cancellation before RunOneShot decided, and never
\* together with a failure.
CompletionIsHonest ==
    outcome = "complete" => ret = "nil" /\ ~cancelled /\ decision = Completion

\* A cancellation that reached the process before it decided is reported as
\* a failure, and unless another error came first as one that is not retried.
CancellationIsReported ==
    cancelled /\ decision # NoDecision =>
        /\ decision.kind = "fail"
        /\ cause = "TaskCancelled" => ~decision.retryable

\* After RunOneShot has returned (a warm Lambda lives on), no goroutine
\* obtains a credential of the attempt.
NoCredentialAfterExit ==
    [][\A u \in Users : main = "exit" /\ got'[u] => got[u]]_vars

\* RunOneShot returns after its handler did: the heartbeat drains and
\* brokerMu becomes free, whatever leaked goroutines and the broker do.
EventuallyExits == main = "drain" ~> main = "exit"

\* Every credential getter returns, whoever holds brokerMu meanwhile.
GettersReturn == \A u \in Users : user[u] # "idle" ~> user[u] = "idle"

\* TestRunOneShotExactHandlerAndComplete: a handler that returns nil, with
\* nothing wrong outside the process, is reported with "complete".
SuccessIsReported ==
    ret = "nil" /\ ~trouble /\ decision # NoDecision => decision = Completion

=============================================================================
