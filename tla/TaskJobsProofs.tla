--------------------------- MODULE TaskJobsProofs ---------------------------
(***************************************************************************)
(* Proofs about TaskJobs, for any callers, keys and requests and any       *)
(* number of requests under way that nobody waits for.                     *)
(***************************************************************************)
EXTENDS TaskJobs, FiniteSetTheorems, TLAPS

\* Dev sends no requests; deployed, no job runs in the process.
Planes ==
    /\ plane = "dev" => net = {} /\ \A c \in Callers : pc[c] # "sent"
    /\ plane = "deployed" =>
          /\ \A k \in Keys : worker[k] = "none"
          /\ \A c \in Callers : pc[c] \notin {"spawn", "cancelling"}

\* A call asks for something, and a late request did.
Asking ==
    /\ \A c \in Callers : pc[c] # "idle" =>
          key[c] \in Keys /\ (op[c] = "run" => req[c] \in Requests)
    /\ \A c \in Callers : pc[c] = "spawn" => op[c] = "run"
    /\ \A c \in Callers : ok[c] => pc[c] = "idle" /\ key[c] \in Keys /\ req[c] \in Requests
    /\ \A c \in Callers : pc[c] # "sent" => reply[c] = "none"
    /\ \A m \in net : m.op = "run" => m.req \in Requests

\* A key that stands for something has a job.
Keyed == \A k \in Keys : job[k].req = None <=> job[k].status = "none"

\* A caller that has been promised a job has it, and will keep it.
Promised ==
    \A c \in Callers :
        ok[c] \/ pc[c] = "spawn" \/ (pc[c] = "sent" /\ op[c] = "run" /\ reply[c] = "done")
        => job[key[c]].req = req[c]

\* What a call created it created under its own key.
MadeUnderKey ==
    \A c \in Callers :
        made[c] \subseteq (IF pc[c] \in {"spawn", "sent"} THEN {key[c]} ELSE {})

\* A handler that runs can be told, unless it has been told already.
Tellable ==
    /\ \A k \in Keys : worker[k] = "handler" => job[k].status \notin {"none", "queued"}
    /\ \A k \in Keys : worker[k] = "handler" /\ job[k].status = "running" => canceller[k]
    /\ CancelledIsTold

\* Where a verdict of cancellation can come from.
Reasons ==
    /\ \A c \in Callers : pc[c] = "cancelling" => key[c] \in asked
    /\ \A k \in Keys : ctx[k] = "cancelled" => k \in asked
    /\ \A k \in Keys : worker[k] = "finishing" => verdict[k] \in Final
    /\ \A k \in Keys : verdict[k] = "cancelled" => k \in asked \/ ctx[k] = "expired"
    /\ CancelledForAReason

IInv ==
    /\ TypeOK /\ Planes /\ Asking /\ Keyed /\ Promised
    /\ MadeUnderKey /\ Tellable /\ Reasons


---------------------------------------------------------------------------
\* What Stays does, said of each key.
StaysAs(k, s) ==
    /\ job' \in [Keys -> [req : Requests \cup {None}, status : Statuses]]
    /\ \A j \in Keys : job'[j].req = job[j].req
    /\ \A j \in Keys : job'[j].status = IF j = k THEN s ELSE job[j].status

\* A change of status changes one job's status and nobody's request.
LEMMA StaysLemma ==
    ASSUME TypeOK, NEW k \in Keys, NEW s \in Statuses, Stays(k, s)
    PROVE  StaysAs(k, s)
  BY DEF TypeOK, Stays, StaysAs, Job

\* The initial states satisfy the inductive invariant.
LEMMA Initially == Init => IInv
  <1> SUFFICES ASSUME Init PROVE IInv
    OBVIOUS
  <1>1. TypeOK
    BY DEF Init, TypeOK, NoJob, Job, Statuses, MaxTries
  <1>2. Planes /\ Asking /\ Keyed /\ Promised /\ MadeUnderKey
    BY DEF Init, Planes, Asking, Keyed, Promised, MadeUnderKey, NoJob, Job
  <1>3. Tellable /\ Reasons
    BY DEF Init, Tellable, Reasons, CancelledIsTold, CancelledForAReason, NoJob, Job
  <1> QED
    BY <1>1, <1>2, <1>3 DEF IInv

\* Every step preserves it.
LEMMA Preserved == IInv /\ [Next]_vars => IInv'
  <1> SUFFICES ASSUME IInv, [Next]_vars PROVE IInv'
    OBVIOUS
  <1> USE NoneAssumption, RemoteAssumption
      DEF localVars, callVars, wireVars, history, Open, Final, Results, Statuses, MaxTries
  <1>0. CASE UNCHANGED vars
    BY <1>0 DEF vars, IInv, TypeOK, Planes, Asking, Keyed, Promised, MadeUnderKey, Tellable,
                Reasons, CancelledIsTold, CancelledForAReason
  <1>1. ASSUME NEW c \in Callers, NEW k \in Keys, CancelJob(c, k)
        PROVE  IInv'
    <2>0. StaysAs(k, "cancelled")
      BY <1>1, StaysLemma DEF IInv, CancelJob
    <2>1. CASE canceller[k]
      <3>0. Calls(c, "cancel", k, None, "cancelling") /\ UNCHANGED <<tries, reply>>
        BY <1>1, <2>1, Zenon DEF CancelJob
      <3>a. pc[c] = "idle" /\ job[k].status \in Open /\ asked' = asked \cup {k}
              /\ plane = "dev" /\ canceller' = [canceller EXCEPT ![k] = FALSE]
              /\ UNCHANGED <<plane, worker, ctx, ret, verdict, net, made>>
        BY <1>1, Zenon DEF CancelJob
      <3>1. TypeOK'
        BY <2>0, <2>1, <3>0, <3>a DEF IInv, Calls, Go, StaysAs, TypeOK, Asking,
           Planes
      <3>2. Planes'
        BY <2>0, <2>1, <3>0, <3>a DEF IInv, Calls, Go, StaysAs, TypeOK, Planes
      <3>3. Asking'
        BY <2>0, <2>1, <3>0, <3>a DEF IInv, Calls, Go, StaysAs, TypeOK, Asking,
           Planes
      <3>4. Keyed'
        BY <2>0, <2>1, <3>0, <3>a DEF IInv, Calls, Go, StaysAs, TypeOK, Keyed,
           Asking
      <3>5. Promised'
        BY <2>0, <2>1, <3>0, <3>a DEF IInv, Calls, Go, StaysAs, TypeOK, Planes,
           Asking, Keyed, Promised
      <3>6. MadeUnderKey'
        BY <2>0, <2>1, <3>0, <3>a DEF IInv, Calls, Go, StaysAs, TypeOK, Planes,
           MadeUnderKey
      <3>7. Tellable'
        BY <2>0, <2>1, <3>0, <3>a, SMTT(30) DEF IInv, Calls, Go, StaysAs, TypeOK, Planes,
           Tellable, CancelledIsTold
      <3>8. Reasons'
        BY <2>0, <2>1, <3>0, <3>a DEF IInv, Calls, Go, StaysAs, TypeOK, Planes,
           Asking, Reasons, CancelledForAReason
      <3> QED
        BY <3>1, <3>2, <3>3, <3>4, <3>5, <3>6, <3>7, <3>8 DEF IInv
    <2>2. CASE ~canceller[k]
      <3>0. Returns(c, FALSE)
        BY <1>1, <2>2, Zenon DEF CancelJob
      <3>a. pc[c] = "idle" /\ job[k].status \in Open /\ asked' = asked \cup {k}
              /\ plane = "dev" /\ canceller' = [canceller EXCEPT ![k] = FALSE]
              /\ UNCHANGED <<plane, worker, ctx, ret, verdict, net, made>>
        BY <1>1, Zenon DEF CancelJob
      <3>1. TypeOK'
        BY <2>0, <2>2, <3>0, <3>a DEF IInv, Returns, Go, StaysAs, TypeOK, Asking,
           Planes
      <3>2. Planes'
        BY <2>0, <2>2, <3>0, <3>a DEF IInv, Returns, Go, StaysAs, TypeOK, Planes
      <3>3. Asking'
        BY <2>0, <2>2, <3>0, <3>a DEF IInv, Returns, Go, StaysAs, TypeOK, Asking,
           Planes
      <3>4. Keyed'
        BY <2>0, <2>2, <3>0, <3>a DEF IInv, Returns, Go, StaysAs, TypeOK, Keyed,
           Asking
      <3>5. Promised'
        BY <2>0, <2>2, <3>0, <3>a DEF IInv, Returns, Go, StaysAs, TypeOK, Planes,
           Asking, Keyed, Promised
      <3>6. MadeUnderKey'
        BY <2>0, <2>2, <3>0, <3>a DEF IInv, Returns, Go, StaysAs, TypeOK, Planes,
           MadeUnderKey
      <3>7. Tellable'
        <4>1. worker[k] # "handler"
          <5>1. worker[k] = "handler" => job[k].status = "running"
            BY <3>a DEF IInv, Tellable
          <5>2. worker[k] = "handler" /\ job[k].status = "running" => canceller[k]
            BY DEF IInv, Tellable
          <5> QED
            BY <5>1, <5>2, <2>2
        <4>2. ASSUME NEW j \in Keys, worker'[j] = "handler"
              PROVE  j # k /\ worker[j] = "handler" /\ job'[j].status = job[j].status
                     /\ canceller'[j] = canceller[j]
          BY <2>0, <3>a, <4>1, <4>2, ZenonT(60) DEF IInv, TypeOK, StaysAs
        <4>3. CancelledIsTold'
          <5> SUFFICES ASSUME NEW j \in Keys, job'[j].status = "cancelled",
                              worker'[j] = "handler", ctx'[j] = "live"
                       PROVE  \E d \in Callers : pc'[d] = "cancelling" /\ key'[d] = j
            BY DEF CancelledIsTold
          <5>0. worker[j] = "handler" /\ job[j].status = "cancelled" /\ ctx[j] = "live"
            BY <4>2, <3>a
          <5>1. PICK d \in Callers : pc[d] = "cancelling" /\ key[d] = j
            BY <5>0 DEF IInv, Tellable, CancelledIsTold
          <5>2. pc'[d] = "cancelling" /\ key'[d] = j
            BY <5>1, <3>0, <3>a DEF IInv, TypeOK, Returns, Go
          <5> QED
            BY <5>2
        <4> QED
          BY <4>2, <4>3 DEF IInv, Tellable
      <3>8. Reasons'
        BY <2>0, <2>2, <3>0, <3>a DEF IInv, Returns, Go, StaysAs, TypeOK, Planes,
           Asking, Reasons, CancelledForAReason
      <3> QED
        BY <3>1, <3>2, <3>3, <3>4, <3>5, <3>6, <3>7, <3>8 DEF IInv
    <2> QED
      BY <2>1, <2>2
  <1>2. ASSUME NEW c \in Callers, NEW k \in Keys, NEW r \in Requests \cup {None},
                  NEW o \in {"run", "cancel"},
                  o = "run" => r \in Requests, CallsPlatform(c, o, k, r)
        PROVE  IInv'
    <2>1. TypeOK'
      BY <1>2 DEF IInv, CallsPlatform, Calls, Go, TypeOK, Asking, Planes
    <2>2. Planes'
      BY <1>2 DEF IInv, CallsPlatform, Calls, Go, TypeOK, Planes
    <2>3. Asking'
      BY <1>2 DEF IInv, CallsPlatform, Calls, Go, TypeOK, Asking, Planes
    <2>4. Keyed'
      BY <1>2 DEF IInv, CallsPlatform, Calls, Go, TypeOK, Keyed, Asking
    <2>5. Promised'
      BY <1>2 DEF IInv, CallsPlatform, Calls, Go, TypeOK, Planes, Asking, Keyed,
         Promised
    <2>6. MadeUnderKey'
      BY <1>2 DEF IInv, CallsPlatform, Calls, Go, TypeOK, Planes, MadeUnderKey
    <2>7. Tellable'
      BY <1>2 DEF IInv, CallsPlatform, Calls, Go, TypeOK, Planes, Tellable,
         CancelledIsTold
    <2>8. Reasons'
      BY <1>2 DEF IInv, CallsPlatform, Calls, Go, TypeOK, Planes, Asking, Reasons,
         CancelledForAReason
    <2> QED
      BY <2>1, <2>2, <2>3, <2>4, <2>5, <2>6, <2>7, <2>8 DEF IInv
  <1>3. ASSUME NEW c \in Callers, NEW k \in Keys, NEW r \in Requests, Enqueue(c, k, r)
        PROVE  IInv'
    <2>1. TypeOK'
      BY <1>3 DEF IInv, Enqueue, Calls, Go, Job, NoJob, TypeOK, Asking, Planes
    <2>2. Planes'
      BY <1>3 DEF IInv, Enqueue, Calls, Go, Job, NoJob, TypeOK, Planes
    <2>3. Asking'
      BY <1>3 DEF IInv, Enqueue, Calls, Go, Job, NoJob, TypeOK, Asking, Planes
    <2>4. Keyed'
      BY <1>3 DEF IInv, Enqueue, Calls, Go, Job, NoJob, TypeOK, Keyed, Asking
    <2>5. Promised'
      BY <1>3 DEF IInv, Enqueue, Calls, Go, Job, NoJob, TypeOK, Planes, Asking,
         Keyed, Promised
    <2>6. MadeUnderKey'
      BY <1>3 DEF IInv, Enqueue, Calls, Go, Job, NoJob, TypeOK, Planes, MadeUnderKey
    <2>7. Tellable'
      BY <1>3 DEF IInv, Enqueue, Calls, Go, Job, NoJob, TypeOK, Planes, Tellable,
         CancelledIsTold
    <2>8. Reasons'
      BY <1>3 DEF IInv, Enqueue, Calls, Go, Job, NoJob, TypeOK, Planes, Asking,
         Reasons, CancelledForAReason
    <2> QED
      BY <2>1, <2>2, <2>3, <2>4, <2>5, <2>6, <2>7, <2>8 DEF IInv
  <1>4. ASSUME NEW c \in Callers, NEW k \in Keys, NEW r \in Requests, EnqueueAgain(c, k, r)
        PROVE  IInv'
    <2>1. CASE Conflicts(k, r)
      <3>0. ok' = [ok EXCEPT ![c] = FALSE] /\ key' = [key EXCEPT ![c] = None]
              /\ req' = [req EXCEPT ![c] = None]
        BY <1>4, <2>1, Zenon DEF EnqueueAgain
      <3>a. pc[c] = "idle" /\ plane = "dev"
              /\ UNCHANGED <<plane, job, localVars, pc, op, wireVars, history>>
        BY <1>4 DEF EnqueueAgain
      <3>1. TypeOK'
        BY <3>0, <3>a DEF IInv, TypeOK, Asking, Planes
      <3>2. Planes'
        BY <3>0, <3>a DEF IInv, TypeOK, Planes
      <3>3. Asking'
        BY <3>0, <3>a DEF IInv, TypeOK, Asking, Planes
      <3>4. Keyed'
        BY <3>0, <3>a DEF IInv, TypeOK, Keyed, Asking
      <3>5. Promised'
        BY <3>0, <3>a DEF IInv, TypeOK, Planes, Asking, Keyed, Promised
      <3>6. MadeUnderKey'
        BY <3>0, <3>a DEF IInv, TypeOK, Planes, MadeUnderKey
      <3>7. Tellable'
        BY <3>0, <3>a DEF IInv, TypeOK, Planes, Tellable, CancelledIsTold
      <3>8. Reasons'
        BY <3>0, <3>a DEF IInv, TypeOK, Planes, Asking, Reasons, CancelledForAReason
      <3> QED
        BY <3>1, <3>2, <3>3, <3>4, <3>5, <3>6, <3>7, <3>8 DEF IInv
    <2>2. CASE ~Conflicts(k, r)
      <3>0. ok' = [ok EXCEPT ![c] = TRUE] /\ key' = [key EXCEPT ![c] = k]
              /\ req' = [req EXCEPT ![c] = r] /\ job[k].req = r
        BY <1>4, <2>2, Zenon DEF EnqueueAgain, Conflicts
      <3>a. pc[c] = "idle" /\ plane = "dev"
              /\ UNCHANGED <<plane, job, localVars, pc, op, wireVars, history>>
        BY <1>4 DEF EnqueueAgain
      <3>1. TypeOK'
        BY <3>0, <3>a DEF IInv, TypeOK, Asking, Planes
      <3>2. Planes'
        BY <3>0, <3>a DEF IInv, TypeOK, Planes
      <3>3. Asking'
        BY <3>0, <3>a DEF IInv, TypeOK, Asking, Planes
      <3>4. Keyed'
        BY <3>0, <3>a DEF IInv, TypeOK, Keyed, Asking
      <3>5. Promised'
        BY <3>0, <3>a DEF IInv, TypeOK, Planes, Asking, Keyed, Promised
      <3>6. MadeUnderKey'
        BY <3>0, <3>a DEF IInv, TypeOK, Planes, MadeUnderKey
      <3>7. Tellable'
        BY <3>0, <3>a DEF IInv, TypeOK, Planes, Tellable, CancelledIsTold
      <3>8. Reasons'
        BY <3>0, <3>a DEF IInv, TypeOK, Planes, Asking, Reasons, CancelledForAReason
      <3> QED
        BY <3>1, <3>2, <3>3, <3>4, <3>5, <3>6, <3>7, <3>8 DEF IInv
    <2> QED
      BY <2>1, <2>2
  <1>5. ASSUME NEW c \in Callers, Spawn(c)
        PROVE  IInv'
    <2>1. TypeOK'
      BY <1>5 DEF IInv, Spawn, Returns, Go, TypeOK, Asking, Planes
    <2>2. Planes'
      BY <1>5 DEF IInv, Spawn, Returns, Go, TypeOK, Planes
    <2>3. Asking'
      BY <1>5 DEF IInv, Spawn, Returns, Go, TypeOK, Asking, Planes
    <2>4. Keyed'
      BY <1>5 DEF IInv, Spawn, Returns, Go, TypeOK, Keyed, Asking
    <2>5. Promised'
      BY <1>5 DEF IInv, Spawn, Returns, Go, TypeOK, Planes, Asking, Keyed, Promised
    <2>6. MadeUnderKey'
      BY <1>5 DEF IInv, Spawn, Returns, Go, TypeOK, Planes, MadeUnderKey
    <2>7. Tellable'
      BY <1>5 DEF IInv, Spawn, Returns, Go, TypeOK, Planes, Tellable,
         CancelledIsTold
    <2>8. Reasons'
      BY <1>5 DEF IInv, Spawn, Returns, Go, TypeOK, Planes, Asking, Reasons,
         CancelledForAReason
    <2> QED
      BY <2>1, <2>2, <2>3, <2>4, <2>5, <2>6, <2>7, <2>8 DEF IInv
  <1>6. ASSUME NEW c \in Callers, CallsCancel(c)
        PROVE  IInv'
    <2>1. TypeOK'
      BY <1>6 DEF IInv, CallsCancel, Returns, Go, TypeOK, Asking, Planes
    <2>2. Planes'
      BY <1>6 DEF IInv, CallsCancel, Returns, Go, TypeOK, Planes
    <2>3. Asking'
      BY <1>6 DEF IInv, CallsCancel, Returns, Go, TypeOK, Asking, Planes
    <2>4. Keyed'
      BY <1>6 DEF IInv, CallsCancel, Returns, Go, TypeOK, Keyed, Asking
    <2>5. Promised'
      BY <1>6 DEF IInv, CallsCancel, Returns, Go, TypeOK, Planes, Asking, Keyed,
         Promised
    <2>6. MadeUnderKey'
      BY <1>6 DEF IInv, CallsCancel, Returns, Go, TypeOK, Planes, MadeUnderKey
    <2>7. Tellable'
      BY <1>6 DEF IInv, CallsCancel, Returns, Go, TypeOK, Planes, Tellable,
         CancelledIsTold
    <2>8. Reasons'
      BY <1>6 DEF IInv, CallsCancel, Returns, Go, TypeOK, Planes, Asking, Reasons,
         CancelledForAReason
    <2> QED
      BY <2>1, <2>2, <2>3, <2>4, <2>5, <2>6, <2>7, <2>8 DEF IInv
  <1>7. ASSUME NEW c \in Callers, PlatformServes(c)
        PROVE  IInv'
    <2>1. TypeOK'
      BY <1>7 DEF IInv, PlatformServes, Sent, Message, Serves, Creates, Stops,
         Answer, Job, NoJob, TypeOK, Asking, Planes
    <2>2. Planes'
      BY <1>7 DEF IInv, PlatformServes, Sent, Message, Serves, Creates, Stops,
         Answer, Job, NoJob, TypeOK, Planes
    <2>3. Asking'
      BY <1>7 DEF IInv, PlatformServes, Sent, Message, Serves, Creates, Stops,
         Answer, Job, NoJob, TypeOK, Asking, Planes
    <2>4. Keyed'
      BY <1>7 DEF IInv, PlatformServes, Sent, Message, Serves, Creates, Stops,
         Answer, Job, NoJob, TypeOK, Keyed, Asking
    <2>5. Promised'
      BY <1>7 DEF IInv, PlatformServes, Sent, Message, Serves, Creates, Stops,
         Answer, Job, NoJob, TypeOK, Planes, Asking, Keyed, Promised
    <2>6. MadeUnderKey'
      BY <1>7 DEF IInv, PlatformServes, Sent, Message, Serves, Creates, Stops,
         Answer, Job, NoJob, TypeOK, Planes, MadeUnderKey
    <2>7. Tellable'
      BY <1>7 DEF IInv, PlatformServes, Sent, Message, Serves, Creates, Stops,
         Answer, Job, NoJob, TypeOK, Planes, Tellable, CancelledIsTold
    <2>8. Reasons'
      BY <1>7 DEF IInv, PlatformServes, Sent, Message, Serves, Creates, Stops,
         Answer, Job, NoJob, TypeOK, Planes, Asking, Reasons, CancelledForAReason
    <2> QED
      BY <2>1, <2>2, <2>3, <2>4, <2>5, <2>6, <2>7, <2>8 DEF IInv
  <1>8. ASSUME NEW c \in Callers, AnswerArrives(c)
        PROVE  IInv'
    <2>1. TypeOK'
      BY <1>8 DEF IInv, AnswerArrives, Over, Returns, Go, TypeOK, Asking, Planes
    <2>2. Planes'
      BY <1>8 DEF IInv, AnswerArrives, Over, Returns, Go, TypeOK, Planes
    <2>3. Asking'
      BY <1>8 DEF IInv, AnswerArrives, Over, Returns, Go, TypeOK, Asking, Planes
    <2>4. Keyed'
      BY <1>8 DEF IInv, AnswerArrives, Over, Returns, Go, TypeOK, Keyed, Asking
    <2>5. Promised'
      BY <1>8 DEF IInv, AnswerArrives, Over, Returns, Go, TypeOK, Planes, Asking,
         Keyed, Promised
    <2>6. MadeUnderKey'
      BY <1>8 DEF IInv, AnswerArrives, Over, Returns, Go, TypeOK, Planes,
         MadeUnderKey
    <2>7. Tellable'
      BY <1>8 DEF IInv, AnswerArrives, Over, Returns, Go, TypeOK, Planes, Tellable,
         CancelledIsTold
    <2>8. Reasons'
      BY <1>8 DEF IInv, AnswerArrives, Over, Returns, Go, TypeOK, Planes, Asking,
         Reasons, CancelledForAReason
    <2> QED
      BY <2>1, <2>2, <2>3, <2>4, <2>5, <2>6, <2>7, <2>8 DEF IInv
  <1>9. ASSUME NEW c \in Callers, AttemptFails(c)
        PROVE  IInv'
    <2>0. net' \subseteq net \cup {Sent(c)}
          /\ Sent(c) = [op |-> op[c], key |-> key[c], req |-> req[c]]
      BY <1>9 DEF AttemptFails, Abandons, Sent, Message
    <2>1. CASE tries[c] < MaxTries
      <3>0. pc[c] = "sent" /\ TriesAgain(c)
        BY <1>9, <2>1, Zenon DEF AttemptFails
      <3>1. TypeOK'
        BY <2>0, <2>1, <3>0 DEF IInv, TriesAgain, TypeOK, Asking, Planes
      <3>2. Planes'
        BY <2>0, <2>1, <3>0 DEF IInv, TriesAgain, TypeOK, Planes
      <3>3. Asking'
        BY <2>0, <2>1, <3>0 DEF IInv, TriesAgain, TypeOK, Asking, Planes
      <3>4. Keyed'
        BY <2>0, <2>1, <3>0 DEF IInv, TriesAgain, TypeOK, Keyed, Asking
      <3>5. Promised'
        BY <2>0, <2>1, <3>0 DEF IInv, TriesAgain, TypeOK, Planes, Asking, Keyed,
           Promised
      <3>6. MadeUnderKey'
        BY <2>0, <2>1, <3>0 DEF IInv, TriesAgain, TypeOK, Planes, MadeUnderKey
      <3>7. Tellable'
        BY <2>0, <2>1, <3>0 DEF IInv, TriesAgain, TypeOK, Planes, Tellable,
           CancelledIsTold
      <3>8. Reasons'
        BY <2>0, <2>1, <3>0 DEF IInv, TriesAgain, TypeOK, Planes, Asking, Reasons,
           CancelledForAReason
      <3> QED
        BY <3>1, <3>2, <3>3, <3>4, <3>5, <3>6, <3>7, <3>8 DEF IInv
    <2>2. CASE ~(tries[c] < MaxTries)
      <3>0. pc[c] = "sent" /\ Over(c, FALSE)
        BY <1>9, <2>2, Zenon DEF AttemptFails
      <3>1. TypeOK'
        BY <2>0, <2>2, <3>0 DEF IInv, Over, Returns, Go, TypeOK, Asking, Planes
      <3>2. Planes'
        BY <2>0, <2>2, <3>0 DEF IInv, Over, Returns, Go, TypeOK, Planes
      <3>3. Asking'
        BY <2>0, <2>2, <3>0 DEF IInv, Over, Returns, Go, TypeOK, Asking, Planes
      <3>4. Keyed'
        BY <2>0, <2>2, <3>0 DEF IInv, Over, Returns, Go, TypeOK, Keyed, Asking
      <3>5. Promised'
        BY <2>0, <2>2, <3>0 DEF IInv, Over, Returns, Go, TypeOK, Planes, Asking,
           Keyed, Promised
      <3>6. MadeUnderKey'
        BY <2>0, <2>2, <3>0 DEF IInv, Over, Returns, Go, TypeOK, Planes,
           MadeUnderKey
      <3>7. Tellable'
        BY <2>0, <2>2, <3>0 DEF IInv, Over, Returns, Go, TypeOK, Planes, Tellable,
           CancelledIsTold
      <3>8. Reasons'
        BY <2>0, <2>2, <3>0 DEF IInv, Over, Returns, Go, TypeOK, Planes, Asking,
           Reasons, CancelledForAReason
      <3> QED
        BY <3>1, <3>2, <3>3, <3>4, <3>5, <3>6, <3>7, <3>8 DEF IInv
    <2> QED
      BY <2>1, <2>2
  <1>10. ASSUME NEW c \in Callers, CallerLeaves(c)
        PROVE  IInv'
    <2>0. net' \subseteq net \cup {Sent(c)}
          /\ Sent(c) = [op |-> op[c], key |-> key[c], req |-> req[c]]
      BY <1>10 DEF CallerLeaves, Abandons, Sent, Message
    <2>1. TypeOK'
      BY <1>10, <2>0 DEF IInv, CallerLeaves, Over, Returns, Go, TypeOK, Asking,
         Planes
    <2>2. Planes'
      BY <1>10, <2>0 DEF IInv, CallerLeaves, Over, Returns, Go, TypeOK, Planes
    <2>3. Asking'
      BY <1>10, <2>0 DEF IInv, CallerLeaves, Over, Returns, Go, TypeOK, Asking,
         Planes
    <2>4. Keyed'
      BY <1>10, <2>0 DEF IInv, CallerLeaves, Over, Returns, Go, TypeOK, Keyed,
         Asking
    <2>5. Promised'
      BY <1>10, <2>0 DEF IInv, CallerLeaves, Over, Returns, Go, TypeOK, Planes,
         Asking, Keyed, Promised
    <2>6. MadeUnderKey'
      BY <1>10, <2>0 DEF IInv, CallerLeaves, Over, Returns, Go, TypeOK, Planes,
         MadeUnderKey
    <2>7. Tellable'
      BY <1>10, <2>0 DEF IInv, CallerLeaves, Over, Returns, Go, TypeOK, Planes,
         Tellable, CancelledIsTold
    <2>8. Reasons'
      BY <1>10, <2>0 DEF IInv, CallerLeaves, Over, Returns, Go, TypeOK, Planes,
         Asking, Reasons, CancelledForAReason
    <2> QED
      BY <2>1, <2>2, <2>3, <2>4, <2>5, <2>6, <2>7, <2>8 DEF IInv
  <1>11. ASSUME NEW k \in Keys, Start(k)
        PROVE  IInv'
    <2>0. StaysAs(k, "running")
      BY <1>11, StaysLemma DEF IInv, Start
    <2>a. job[k].status = "queued" /\ UNCHANGED <<asked, ctx, verdict, pc, key>>
            /\ worker' = [worker EXCEPT ![k] = "handler"]
      BY <1>11 DEF Start
    <2>1. TypeOK'
      BY <1>11, <2>0 DEF IInv, Start, TypeOK, Asking, Planes, StaysAs
    <2>2. Planes'
      BY <1>11, <2>0 DEF IInv, Start, TypeOK, Planes, StaysAs
    <2>3. Asking'
      BY <1>11, <2>0 DEF IInv, Start, TypeOK, Asking, Planes, StaysAs
    <2>4. Keyed'
      BY <2>0, <2>a DEF IInv, Keyed, StaysAs
    <2>5. Promised'
      BY <1>11, <2>0 DEF IInv, Start, TypeOK, Planes, Asking, Keyed, Promised,
         StaysAs
    <2>6. MadeUnderKey'
      BY <1>11, <2>0 DEF IInv, Start, TypeOK, Planes, MadeUnderKey, StaysAs
    <2>7. Tellable'
      BY <1>11, <2>0 DEF IInv, Start, TypeOK, Planes, Tellable, CancelledIsTold,
         StaysAs
    <2>8. Reasons'
      BY <2>0, <2>a DEF IInv, TypeOK, Reasons, CancelledForAReason, StaysAs
    <2> QED
      BY <2>1, <2>2, <2>3, <2>4, <2>5, <2>6, <2>7, <2>8 DEF IInv
  <1>12. ASSUME NEW k \in Keys, StartRefused(k)
        PROVE  IInv'
    <2>1. TypeOK'
      BY <1>12 DEF IInv, StartRefused, TypeOK, Asking, Planes
    <2>2. Planes'
      BY <1>12 DEF IInv, StartRefused, TypeOK, Planes
    <2>3. Asking'
      BY <1>12 DEF IInv, StartRefused, TypeOK, Asking, Planes
    <2>4. Keyed'
      BY <1>12 DEF IInv, StartRefused, TypeOK, Keyed, Asking
    <2>5. Promised'
      BY <1>12 DEF IInv, StartRefused, TypeOK, Planes, Asking, Keyed, Promised
    <2>6. MadeUnderKey'
      BY <1>12 DEF IInv, StartRefused, TypeOK, Planes, MadeUnderKey
    <2>7. Tellable'
      BY <1>12 DEF IInv, StartRefused, TypeOK, Planes, Tellable, CancelledIsTold
    <2>8. Reasons'
      BY <1>12 DEF IInv, StartRefused, TypeOK, Planes, Asking, Reasons,
         CancelledForAReason
    <2> QED
      BY <2>1, <2>2, <2>3, <2>4, <2>5, <2>6, <2>7, <2>8 DEF IInv
  <1>13. ASSUME NEW k \in Keys, HandlerFails(k)
        PROVE  IInv'
    <2>1. TypeOK'
      BY <1>13 DEF IInv, HandlerFails, Judged, TypeOK, Asking, Planes
    <2>2. Planes'
      BY <1>13 DEF IInv, HandlerFails, Judged, TypeOK, Planes
    <2>3. Asking'
      BY <1>13 DEF IInv, HandlerFails, Judged, TypeOK, Asking, Planes
    <2>4. Keyed'
      BY <1>13 DEF IInv, HandlerFails, Judged, TypeOK, Keyed, Asking
    <2>5. Promised'
      BY <1>13 DEF IInv, HandlerFails, Judged, TypeOK, Planes, Asking, Keyed,
         Promised
    <2>6. MadeUnderKey'
      BY <1>13 DEF IInv, HandlerFails, Judged, TypeOK, Planes, MadeUnderKey
    <2>7. Tellable'
      BY <1>13 DEF IInv, HandlerFails, Judged, TypeOK, Planes, Tellable,
         CancelledIsTold
    <2>8. Reasons'
      BY <1>13 DEF IInv, HandlerFails, Judged, TypeOK, Planes, Asking, Reasons,
         CancelledForAReason
    <2> QED
      BY <2>1, <2>2, <2>3, <2>4, <2>5, <2>6, <2>7, <2>8 DEF IInv
  <1>14. ASSUME NEW k \in Keys, NEW r \in Results, HandlerReturns(k, r)
        PROVE  IInv'
    <2>1. TypeOK'
      BY <1>14 DEF IInv, HandlerReturns, TypeOK, Asking, Planes
    <2>2. Planes'
      BY <1>14 DEF IInv, HandlerReturns, TypeOK, Planes
    <2>3. Asking'
      BY <1>14 DEF IInv, HandlerReturns, TypeOK, Asking, Planes
    <2>4. Keyed'
      BY <1>14 DEF IInv, HandlerReturns, TypeOK, Keyed, Asking
    <2>5. Promised'
      BY <1>14 DEF IInv, HandlerReturns, TypeOK, Planes, Asking, Keyed, Promised
    <2>6. MadeUnderKey'
      BY <1>14 DEF IInv, HandlerReturns, TypeOK, Planes, MadeUnderKey
    <2>7. Tellable'
      BY <1>14 DEF IInv, HandlerReturns, TypeOK, Planes, Tellable, CancelledIsTold
    <2>8. Reasons'
      BY <1>14 DEF IInv, HandlerReturns, TypeOK, Planes, Asking, Reasons,
         CancelledForAReason
    <2> QED
      BY <2>1, <2>2, <2>3, <2>4, <2>5, <2>6, <2>7, <2>8 DEF IInv
  <1>15. ASSUME NEW k \in Keys, ChecksContext(k)
        PROVE  IInv'
    <2>1. TypeOK'
      BY <1>15 DEF IInv, ChecksContext, Judged, Verdict, TypeOK, Asking, Planes
    <2>2. Planes'
      BY <1>15 DEF IInv, ChecksContext, Judged, Verdict, TypeOK, Planes
    <2>3. Asking'
      BY <1>15 DEF IInv, ChecksContext, Judged, Verdict, TypeOK, Asking, Planes
    <2>4. Keyed'
      BY <1>15 DEF IInv, ChecksContext, Judged, Verdict, TypeOK, Keyed, Asking
    <2>5. Promised'
      BY <1>15 DEF IInv, ChecksContext, Judged, Verdict, TypeOK, Planes, Asking,
         Keyed, Promised
    <2>6. MadeUnderKey'
      BY <1>15 DEF IInv, ChecksContext, Judged, Verdict, TypeOK, Planes,
         MadeUnderKey
    <2>7. Tellable'
      BY <1>15 DEF IInv, ChecksContext, Judged, Verdict, TypeOK, Planes, Tellable,
         CancelledIsTold
    <2>8. Reasons'
      BY <1>15 DEF IInv, ChecksContext, Judged, Verdict, TypeOK, Planes, Asking,
         Reasons, CancelledForAReason
    <2> QED
      BY <2>1, <2>2, <2>3, <2>4, <2>5, <2>6, <2>7, <2>8 DEF IInv
  <1>16. ASSUME NEW k \in Keys, Finish(k)
        PROVE  IInv'
    <2>1. CASE Finished(k)
      <3>0. StaysAs(k, verdict[k]) /\ verdict[k] \in Final
        BY <1>16, <2>1, StaysLemma DEF IInv, TypeOK, Reasons, Finish
      <3>1. TypeOK'
        BY <1>16, <2>1, <3>0, ZenonT(60) DEF IInv, Finish, TypeOK, Asking, Planes, StaysAs,
           Finished
      <3>2. Planes'
        BY <1>16, <2>1, <3>0 DEF IInv, Finish, TypeOK, Planes, StaysAs, Finished
      <3>3. Asking'
        BY <1>16, <2>1, <3>0 DEF IInv, Finish, TypeOK, Asking, Planes, StaysAs,
           Finished
      <3>4. Keyed'
        BY <2>1, <3>0 DEF IInv, Keyed, StaysAs, Finished
      <3>5. Promised'
        BY <1>16, <2>1, <3>0 DEF IInv, Finish, TypeOK, Planes, Asking, Keyed,
           Promised, StaysAs, Finished
      <3>6. MadeUnderKey'
        BY <1>16, <2>1, <3>0 DEF IInv, Finish, TypeOK, Planes, MadeUnderKey,
           StaysAs, Finished
      <3>7. Tellable'
        BY <1>16, <2>1, <3>0 DEF IInv, Finish, TypeOK, Planes, Tellable,
           CancelledIsTold, StaysAs, Finished
      <3>8. Reasons'
        BY <1>16, <2>1, <3>0, SMTT(30) DEF IInv, Finish, TypeOK, Planes, Asking, Reasons,
           CancelledForAReason, StaysAs, Finished
      <3> QED
        BY <3>1, <3>2, <3>3, <3>4, <3>5, <3>6, <3>7, <3>8 DEF IInv
    <2>2. CASE ~Finished(k)
      <3>1. TypeOK'
        BY <1>16, <2>2 DEF IInv, Finish, TypeOK, Asking, Planes
      <3>2. Planes'
        BY <1>16, <2>2 DEF IInv, Finish, TypeOK, Planes
      <3>3. Asking'
        BY <1>16, <2>2 DEF IInv, Finish, TypeOK, Asking, Planes
      <3>4. Keyed'
        BY <1>16, <2>2 DEF IInv, Finish, TypeOK, Keyed, Asking
      <3>5. Promised'
        BY <1>16, <2>2 DEF IInv, Finish, TypeOK, Planes, Asking, Keyed, Promised
      <3>6. MadeUnderKey'
        BY <1>16, <2>2 DEF IInv, Finish, TypeOK, Planes, MadeUnderKey
      <3>7. Tellable'
        BY <1>16, <2>2 DEF IInv, Finish, TypeOK, Planes, Tellable, CancelledIsTold
      <3>8. Reasons'
        BY <1>16, <2>2 DEF IInv, Finish, TypeOK, Planes, Asking, Reasons,
           CancelledForAReason
      <3> QED
        BY <3>1, <3>2, <3>3, <3>4, <3>5, <3>6, <3>7, <3>8 DEF IInv
    <2> QED
      BY <2>1, <2>2
  <1>17. ASSUME NEW k \in Keys, Expires(k)
        PROVE  IInv'
    <2>1. TypeOK'
      BY <1>17 DEF IInv, Expires, TypeOK, Asking, Planes
    <2>2. Planes'
      BY <1>17 DEF IInv, Expires, TypeOK, Planes
    <2>3. Asking'
      BY <1>17 DEF IInv, Expires, TypeOK, Asking, Planes
    <2>4. Keyed'
      BY <1>17 DEF IInv, Expires, TypeOK, Keyed, Asking
    <2>5. Promised'
      BY <1>17 DEF IInv, Expires, TypeOK, Planes, Asking, Keyed, Promised
    <2>6. MadeUnderKey'
      BY <1>17 DEF IInv, Expires, TypeOK, Planes, MadeUnderKey
    <2>7. Tellable'
      BY <1>17 DEF IInv, Expires, TypeOK, Planes, Tellable, CancelledIsTold
    <2>8. Reasons'
      BY <1>17 DEF IInv, Expires, TypeOK, Planes, Asking, Reasons,
         CancelledForAReason
    <2> QED
      BY <2>1, <2>2, <2>3, <2>4, <2>5, <2>6, <2>7, <2>8 DEF IInv
  <1>18. ASSUME NEW k \in Keys, PlatformRuns(k)
        PROVE  IInv'
    <2>0. PICK s \in Statuses :
              StaysAs(k, s) /\ job[k].status \in Open /\ s \notin {"none", "queued", "cancelled"}
      BY <1>18, StaysLemma DEF IInv, PlatformRuns
    <2>1. TypeOK'
      BY <1>18, <2>0 DEF IInv, PlatformRuns, TypeOK, Asking, Planes, StaysAs
    <2>2. Planes'
      BY <1>18, <2>0 DEF IInv, PlatformRuns, TypeOK, Planes, StaysAs
    <2>3. Asking'
      BY <1>18, <2>0 DEF IInv, PlatformRuns, TypeOK, Asking, Planes, StaysAs
    <2>4. Keyed'
      BY <1>18, <2>0, SMTT(30) DEF IInv, PlatformRuns, TypeOK, Keyed, Asking, StaysAs
    <2>5. Promised'
      BY <1>18, <2>0 DEF IInv, PlatformRuns, TypeOK, Planes, Asking, Keyed,
         Promised, StaysAs
    <2>6. MadeUnderKey'
      BY <1>18, <2>0 DEF IInv, PlatformRuns, TypeOK, Planes, MadeUnderKey, StaysAs
    <2>7. Tellable'
      BY <1>18, <2>0 DEF IInv, PlatformRuns, TypeOK, Planes, Tellable,
         CancelledIsTold, StaysAs
    <2>8. Reasons'
      BY <1>18, <2>0 DEF IInv, PlatformRuns, TypeOK, Planes, Asking, Reasons,
         CancelledForAReason, StaysAs
    <2> QED
      BY <2>1, <2>2, <2>3, <2>4, <2>5, <2>6, <2>7, <2>8 DEF IInv
  <1>19. ASSUME NEW m \in net, PlatformServesLate(m)
        PROVE  IInv'
    <2>1. TypeOK'
      BY <1>19 DEF IInv, PlatformServesLate, Sent, Message, Serves, Creates, Stops,
         Job, NoJob, TypeOK, Asking, Planes
    <2>2. Planes'
      BY <1>19 DEF IInv, PlatformServesLate, Sent, Message, Serves, Creates, Stops,
         Job, NoJob, TypeOK, Planes
    <2>3. Asking'
      BY <1>19 DEF IInv, PlatformServesLate, Sent, Message, Serves, Creates, Stops,
         Job, NoJob, TypeOK, Asking, Planes
    <2>4. Keyed'
      BY <1>19 DEF IInv, PlatformServesLate, Sent, Message, Serves, Creates, Stops,
         Job, NoJob, TypeOK, Keyed, Asking
    <2>5. Promised'
      BY <1>19 DEF IInv, PlatformServesLate, Sent, Message, Serves, Creates, Stops,
         Job, NoJob, TypeOK, Planes, Asking, Keyed, Promised
    <2>6. MadeUnderKey'
      BY <1>19 DEF IInv, PlatformServesLate, Sent, Message, Serves, Creates, Stops,
         Job, NoJob, TypeOK, Planes, MadeUnderKey
    <2>7. Tellable'
      BY <1>19 DEF IInv, PlatformServesLate, Sent, Message, Serves, Creates, Stops,
         Job, NoJob, TypeOK, Planes, Tellable, CancelledIsTold
    <2>8. Reasons'
      BY <1>19 DEF IInv, PlatformServesLate, Sent, Message, Serves, Creates, Stops,
         Job, NoJob, TypeOK, Planes, Asking, Reasons, CancelledForAReason
    <2> QED
      BY <2>1, <2>2, <2>3, <2>4, <2>5, <2>6, <2>7, <2>8 DEF IInv
  <1> QED
    <2>1. ASSUME NEW c \in Callers, NEW k \in Keys, CallsPlatform(c, "cancel", k, None)
          PROVE  IInv'
      BY <1>2, <2>1
    <2>2. ASSUME NEW c \in Callers, NEW k \in Keys, NEW r \in Requests,
                 CallsPlatform(c, "run", k, r)
          PROVE  IInv'
      BY <1>2, <2>2
    <2> QED
      BY <1>0, <1>1, <2>1, <2>2, <1>3, <1>4, <1>5, <1>6, <1>7, <1>8, <1>9, <1>10,
         <1>11, <1>12, <1>13, <1>14, <1>15, <1>16, <1>17, <1>18, <1>19 DEF Next,
         Worker, Client

\* The inductive invariant holds throughout.
LEMMA Invariance == Spec => []IInv
  BY Initially, Preserved, PTL DEF Spec

\* Every variable keeps its type, in both planes.
THEOREM TypeCorrect == Spec => []TypeOK
  <1>1. IInv => TypeOK
    BY DEF IInv
  <1> QED
    BY <1>1, Invariance, PTL

\* RunTaskWithIdempotencyKey returns a job ID only for the work it was asked
\* for, whoever else uses the key and whichever answer is lost.
THEOREM AnsweredJobIsMineHolds == Spec => []AnsweredJobIsMine
  <1>1. IInv => AnsweredJobIsMine
    BY DEF IInv, Promised, AnsweredJobIsMine
  <1> QED
    BY <1>1, Invariance, PTL

\* doManagedTaskRequest: one RunTask call creates one job, however often its
\* request is sent.
THEOREM OneJobPerCallHolds == Spec => []OneJobPerCall
  <1>1. IInv => OneJobPerCall
    <2> SUFFICES ASSUME IInv, NEW c \in Callers PROVE Cardinality(made[c]) <= 1
      BY DEF OneJobPerCall
    <2>1. made[c] = {} \/ made[c] = {key[c]}
      BY DEF IInv, MadeUnderKey
    <2>2. Cardinality({}) = 0 /\ Cardinality({key[c]}) = 1
      BY FS_EmptySet, FS_Singleton
    <2> QED
      BY <2>1, <2>2
  <1> QED
    BY <1>1, Invariance, PTL

\* cancelJob: the handler of a job that shows as cancelled has been told, or is
\* about to be, although the context's cancel is called outside the mutex.
THEOREM CancelledIsToldHolds == Spec => []CancelledIsTold
  <1>1. IInv => CancelledIsTold
    BY DEF IInv, Tellable
  <1> QED
    BY <1>1, Invariance, PTL

\* executeLocalTask: nobody's job ends as cancelled without a CancelTask or a
\* deadline.
THEOREM CancelledForAReasonHolds == Spec => []CancelledForAReason
  <1>1. IInv => CancelledForAReason
    BY DEF IInv, Reasons
  <1> QED
    BY <1>1, Invariance, PTL

---------------------------------------------------------------------------
\* A change of status alone, from an open one, is a step of the promise.
LEMMA StaysPromised ==
    ASSUME TypeOK, NEW k \in Keys, NEW s \in Statuses, StaysAs(k, s),
           \/ job[k].status = "queued" /\ s = "running"
           \/ job[k].status = "running" /\ s \in Final
           \/ job[k].status \in Open /\ s = "cancelled"
    PROVE  P!Next
  <1>1. P!Becomes(k, s)
    BY ZenonT(60) DEF StaysAs, TypeOK, P!Becomes
  <1> QED
    BY <1>1 DEF P!Next, P!Start, P!Settle, P!Cancel, P!Final, Open, Final

\* So is the creation of a job.
LEMMA CreatePromised ==
    ASSUME TypeOK, NEW k \in Keys, NEW r \in Requests, job[k] = NoJob,
           job' = [job EXCEPT ![k] = Job(r, "queued")]
    PROVE  P!Next
  <1>1. job[k].status = "none"
    BY DEF NoJob, Job
  <1>2. \A j \in Keys : job'[j].req = IF j = k THEN r ELSE job[j].req
    BY DEF TypeOK, Job
  <1>3. \A j \in Keys : job'[j].status = IF j = k THEN "queued" ELSE job[j].status
    BY DEF TypeOK, Job
  <1>4. [j \in Keys |-> job'[j].req] = [[j \in Keys |-> job[j].req] EXCEPT ![k] = r]
    BY <1>2
  <1>5. [j \in Keys |-> job'[j].status]
        = [[j \in Keys |-> job[j].status] EXCEPT ![k] = "queued"]
    BY <1>3
  <1>6. P!Create(k, r)
    BY <1>1, <1>4, <1>5 DEF P!Create
  <1> QED
    BY <1>6 DEF P!Next

\* What the platform does with a request, if anything, is a step of the promise.
LEMMA ServePromised ==
    ASSUME TypeOK, NEW m, m.key \in Keys, m.op = "run" => m.req \in Requests, Serves(m)
    PROVE  P!Next \/ job' = job
  <1>1. CASE Creates(m)
    <2>1. job' = [job EXCEPT ![m.key] = Job(m.req, "queued")]
      BY <1>1 DEF Serves
    <2> QED
      BY <1>1, <2>1, CreatePromised DEF Creates
  <1>2. CASE ~Creates(m) /\ Stops(m)
    <2>1. Stays(m.key, "cancelled")
      BY <1>2 DEF Serves, Stays
    <2>2. StaysAs(m.key, "cancelled")
      BY <2>1, StaysLemma DEF Statuses, Final
    <2> QED
      BY <1>2, <2>2, StaysPromised DEF Stops, Statuses, Final
  <1>3. CASE ~Creates(m) /\ ~Stops(m)
    BY <1>3 DEF Serves
  <1> QED
    BY <1>1, <1>2, <1>3

\* Both planes keep the promise: a key stands for one request, a job is started
\* once, and its final status is final.
THEOREM JobsImplementPromise == Spec => ImplementsJobPromise
  <1>1. Init => P!Init
    BY DEF Init, P!Init, NoJob, Job
  <1>2. IInv /\ [Next]_vars => [P!Next]_(P!promiseVars)
    <2> SUFFICES ASSUME IInv, [Next]_vars PROVE P!Next \/ job' = job
      BY DEF P!promiseVars
    <2> TypeOK
      BY DEF IInv
    <2>1. ASSUME NEW c \in Callers, NEW k \in Keys, CancelJob(c, k) PROVE P!Next
      <3>1. Stays(k, "cancelled") /\ job[k].status \in Open
        BY <2>1 DEF CancelJob
      <3>2. StaysAs(k, "cancelled")
        BY <3>1, StaysLemma DEF Statuses, Final
      <3> QED
        BY <3>1, <3>2, StaysPromised DEF Statuses, Final
    <2>2. ASSUME NEW c \in Callers, NEW k \in Keys, NEW r \in Requests, Enqueue(c, k, r)
          PROVE  P!Next
      BY <2>2, CreatePromised DEF Enqueue
    <2>3. ASSUME NEW c \in Callers, PlatformServes(c) PROVE P!Next \/ job' = job
      <3>1. /\ Sent(c).key \in Keys /\ (Sent(c).op = "run" => Sent(c).req \in Requests)
            /\ Serves(Sent(c))
        BY <2>3 DEF PlatformServes, IInv, Asking, Sent, Message
      <3> QED
        BY <3>1, ServePromised
    <2>4. ASSUME NEW m \in net, PlatformServesLate(m) PROVE P!Next \/ job' = job
      <3>1. m.key \in Keys /\ (m.op = "run" => m.req \in Requests) /\ Serves(m)
        BY <2>4 DEF PlatformServesLate, IInv, TypeOK, Asking
      <3> QED
        BY <3>1, ServePromised
    <2>5. ASSUME NEW k \in Keys, Start(k) PROVE P!Next
      <3>1. Stays(k, "running") /\ job[k].status = "queued"
        BY <2>5 DEF Start
      <3>2. StaysAs(k, "running")
        BY <3>1, StaysLemma DEF Statuses, Open
      <3> QED
        BY <3>1, <3>2, StaysPromised DEF Statuses, Open
    <2>6. ASSUME NEW k \in Keys, Finish(k) PROVE P!Next \/ job' = job
      <3>1. CASE Finished(k)
        <4>1. Stays(k, verdict[k]) /\ job[k].status = "running" /\ verdict[k] \in Final
          BY <2>6, <3>1 DEF Finish, Finished, IInv, Reasons
        <4>2. StaysAs(k, verdict[k])
          BY <4>1, StaysLemma DEF Statuses
        <4> QED
          BY <4>1, <4>2, StaysPromised DEF Statuses
      <3>2. CASE ~Finished(k)
        BY <2>6, <3>2 DEF Finish
      <3> QED
        BY <3>1, <3>2
    <2>7. ASSUME NEW k \in Keys, PlatformRuns(k) PROVE P!Next
      <3>1. PICK s \in Statuses :
              /\ Stays(k, s)
              /\ \/ job[k].status = "queued" /\ s = "running"
                 \/ job[k].status = "running" /\ s \in Final
        BY <2>7 DEF PlatformRuns, Statuses, Open, Final
      <3>2. StaysAs(k, s)
        BY <3>1, StaysLemma
      <3> QED
        BY <3>1, <3>2, StaysPromised
    <2>8. ASSUME NEW c \in Callers, NEW k \in Keys, NEW r, NEW o,
                 \/ CallsPlatform(c, o, k, r) \/ EnqueueAgain(c, k, r) \/ Spawn(c)
                 \/ CallsCancel(c) \/ AnswerArrives(c) \/ AttemptFails(c) \/ CallerLeaves(c)
          PROVE  job' = job
      BY <2>8 DEF CallsPlatform, EnqueueAgain, Spawn, CallsCancel, AnswerArrives,
                  AttemptFails, CallerLeaves, TriesAgain, Over
    <2>9. ASSUME NEW k \in Keys, NEW r,
                 \/ StartRefused(k) \/ HandlerFails(k) \/ HandlerReturns(k, r)
                 \/ ChecksContext(k) \/ Expires(k)
          PROVE  job' = job
      BY <2>9 DEF StartRefused, HandlerFails, HandlerReturns, ChecksContext, Expires
    <2>10. CASE UNCHANGED vars
      BY <2>10 DEF vars
    <2>11. ASSUME NEW c \in Callers,
                  Spawn(c) \/ CallsCancel(c) \/ Client(c) \/ CallerLeaves(c)
           PROVE  P!Next \/ job' = job
      BY <2>11, <2>3 DEF Client, Spawn, CallsCancel, AnswerArrives, AttemptFails,
                         CallerLeaves, TriesAgain, Over
    <2> QED
      BY <2>1, <2>2, <2>4, <2>5, <2>6, <2>7, <2>8, <2>9, <2>10, <2>11 DEF Next, Worker
  <1> QED
    BY <1>1, <1>2, Invariance, PTL DEF Spec, ImplementsJobPromise, P!Spec

=============================================================================
