---------------------------- MODULE DevDirectory ----------------------------
(***************************************************************************)
(* The dev dependency directory (internal/core/dev_directory.go): every    *)
(* co-located module leases a row of one shared table, kept alive by a     *)
(* heartbeat, withdrawn by a clean shutdown and ignored once it is older   *)
(* than its TTL; a consumer process memoizes what it looked up.            *)
(*                                                                         *)
(* Time is discrete.  Tick passes one unit of it, and only when nothing    *)
(* that the code or its timeouts bound is overdue.                         *)
(***************************************************************************)
EXTENDS Naturals, FiniteSets

CONSTANTS
    Producers,      \* modules with a Config.Slug: only they publish a row
    Refs,           \* how a consumer may name a producer
    Slug,           \* [Producers -> Refs]
    Readers,        \* goroutines of one consumer process
    HB,             \* devDirectoryHeartbeat
    TTL,            \* devDirectoryTTL
    CacheTTL,       \* devDirectoryCacheTTL
    MaxPublish,     \* longest a boot or heartbeat publish takes
    MaxLookup,      \* longest a lookup takes
    Nobody

ASSUME TimesAssumption ==
    /\ HB \in Nat /\ TTL \in Nat /\ CacheTTL \in Nat
    /\ MaxPublish \in Nat /\ MaxLookup \in Nat
    /\ MaxPublish < HB /\ 0 < CacheTTL

\* Two beats and the slowest publications fit into a lease.  The code's TTL is
\* three beats, its boot publish is bounded by five seconds; a beat that took
\* its whole timeout of HB would break this.
ASSUME LeaseAssumption == 2 * HB + 2 * MaxPublish < TTL

ASSUME NamesAssumption ==
    /\ Slug \in [Producers -> Refs]
    /\ Nobody \notin Producers \cup Refs

VARIABLES
    created,        \* the table exists
    row,            \* [Producers -> BOOLEAN]: the table's rows
    since,          \* ticks since the producer's last stamp (at most TTL)
    phase,          \* ticks since the row began or ceased to be live (at most Window)
    proc,           \* the producer's process
    pub,            \* its publications under way, by publisher
    doomed,         \* the rows a batch's DELETE found
    published,      \* devDirectoryState.published
    healed,         \* devDirectoryState.republish, the sync.Once
    timer,          \* ticks since the heartbeat's last tick, or since boot
    missed,         \* beats that failed since the last stamp
    withdrawn,      \* a clean shutdown deleted the row
    memoWho,        \* the consumer's memo: [Refs -> producer or Nobody]
    memoAge,        \* its age, CacheTTL when there is none
    lookRef, lookWho, lookAge    \* lookups that have read and not returned

tableVars == <<created, row, since>>
procVars == <<proc, published, healed, timer, missed, withdrawn>>
pubVars == <<pub, doomed>>
memoVars == <<memoWho, memoAge>>
lookVars == <<lookRef, lookWho, lookAge>>
vars == <<tableVars, phase, procVars, pubVars, memoVars, lookVars>>

Publishers == {"boot", "beat", "lazy"}
Window == MaxLookup + CacheTTL
Many == 3

\* What readDevDirectory's freshness predicate accepts.
Live(p) == row[p] /\ since[p] < TTL

\* directoryLookupKeys and the WHERE clause: by slug or by module id.
Matches(p, r) == r = Slug[p] \/ r = p

\* Mutant of Found: no freshness predicate, as when a row was written once.
FoundEver(r) == {p \in Producers : Matches(p, r) /\ row[p]}

Found(r) == {p \in Producers : Matches(p, r) /\ Live(p)}

\* Bookkeeping of phase, after d ticks.
LivenessPhase(d) ==
    phase' = [p \in Producers |->
                 IF ~(Live(p)' <=> Live(p)) THEN 0
                 ELSE IF phase[p] + d <= Window THEN phase[p] + d ELSE Window]

Idle(p) == \A w \in Publishers : pub[p][w] = "idle"

Move(p, w, stage) == pub' = [pub EXCEPT ![p][w] = stage]

Init ==
    /\ created = FALSE
    /\ row = [p \in Producers |-> FALSE]
    /\ since = [p \in Producers |-> TTL]
    /\ phase = [p \in Producers |-> Window]
    /\ proc = [p \in Producers |-> "off"]
    /\ pub = [p \in Producers |-> [w \in Publishers |-> "idle"]]
    /\ doomed = [p \in Producers |-> [w \in Publishers |-> {}]]
    /\ published = [p \in Producers |-> FALSE]
    /\ healed = [p \in Producers |-> FALSE]
    /\ timer = [p \in Producers |-> 0]
    /\ missed = [p \in Producers |-> Many]
    /\ withdrawn = [p \in Producers |-> FALSE]
    /\ memoWho = [r \in Refs |-> Nobody]
    /\ memoAge = [r \in Refs |-> CacheTTL]
    /\ lookRef = [c \in Readers |-> Nobody]
    /\ lookWho = [c \in Readers |-> Nobody]
    /\ lookAge = [c \in Readers |-> 0]

---------------------------------------------------------------------------
\* publishDevDirectory: ensure, then publish whatever ensure said.

\* ensure has run, and created the table or failed to; the batch goes out.
EnsureThenSend(p, w) ==
    /\ created' \in {created, TRUE}
    /\ Move(p, w, "sent")

\* A new process: startDevDirectoryLease publishes before it serves.
Boot(p) ==
    /\ proc[p] = "off" /\ Idle(p)
    /\ proc' = [proc EXCEPT ![p] = "boot"]
    /\ published' = [published EXCEPT ![p] = FALSE]
    /\ healed' = [healed EXCEPT ![p] = FALSE]
    /\ timer' = [timer EXCEPT ![p] = 0]
    /\ missed' = [missed EXCEPT ![p] = Many]
    /\ withdrawn' = [withdrawn EXCEPT ![p] = FALSE]
    /\ EnsureThenSend(p, "boot")
    /\ UNCHANGED <<row, since, phase, doomed, memoVars, lookVars>>

\* Mutant of Beat: the heartbeat only renews a lease that the boot obtained.
BeatRenewsOnly(p) ==
    /\ proc[p] \in {"serving", "stopping"}
    /\ published[p]
    /\ timer[p] = HB
    /\ pub[p]["beat"] = "idle"
    /\ timer' = [timer EXCEPT ![p] = 0]
    /\ EnsureThenSend(p, "beat")
    /\ UNCHANGED <<row, since, phase, proc, published, healed, missed,
                   withdrawn, doomed, memoVars, lookVars>>

\* The ticker fires.  select may still choose it once stop is closed.
Beat(p) ==
    /\ proc[p] \in {"serving", "stopping"}
    /\ timer[p] = HB
    /\ pub[p]["beat"] = "idle"
    /\ timer' = [timer EXCEPT ![p] = 0]
    /\ EnsureThenSend(p, "beat")
    /\ UNCHANGED <<row, since, phase, proc, published, healed, missed,
                   withdrawn, doomed, memoVars, lookVars>>

\* ensureDevDirectoryPublished, on the path of a dependency read.
LazyRepublish(p) ==
    /\ proc[p] \in {"serving", "stopping"}
    /\ ~published[p] /\ ~healed[p]
    /\ healed' = [healed EXCEPT ![p] = TRUE]
    /\ EnsureThenSend(p, "lazy")
    /\ UNCHANGED <<row, since, phase, proc, published, timer, missed,
                   withdrawn, doomed, memoVars, lookVars>>

\* A transaction that has upserted p's row holds its lock until it ends.
Locked(p) == \E w \in Publishers : pub[p][w] = "ran"

\* The batch's statements run: the upsert, and the DELETE of the other rows
\* with this slug that are committed by now.
BatchRuns(p, w) ==
    /\ pub[p][w] = "sent"
    /\ created /\ ~Locked(p)
    /\ doomed' = [doomed EXCEPT ![p][w] =
                     {q \in Producers \ {p} : row[q] /\ Slug[q] = Slug[p]}]
    /\ Move(p, w, "ran")
    /\ UNCHANGED <<tableVars, phase, procVars, memoVars, lookVars>>

\* Mutant of BatchCommits: an existing row keeps its old updated_at.
BatchCommitsNoTouch(p, w) ==
    /\ pub[p][w] = "ran"
    /\ \A q \in doomed[p][w] : ~Locked(q)
    /\ row' = [q \in Producers |-> q = p \/ (row[q] /\ q \notin doomed[p][w])]
    /\ since' = IF row[p] THEN since ELSE [since EXCEPT ![p] = 0]
    /\ missed' = [missed EXCEPT ![p] = 0]
    /\ doomed' = [doomed EXCEPT ![p][w] = {}]
    /\ Move(p, w, "landed")
    /\ UNCHANGED <<created, proc, published, healed, timer, withdrawn,
                   memoVars, lookVars>>
    /\ LivenessPhase(0)

\* The implicit transaction commits.  Its DELETE waits for the transactions
\* that hold the rows it found (two that wait for each other end in
\* PublishFails).
BatchCommits(p, w) ==
    /\ pub[p][w] = "ran"
    /\ \A q \in doomed[p][w] : ~Locked(q)
    /\ row' = [q \in Producers |-> q = p \/ (row[q] /\ q \notin doomed[p][w])]
    /\ since' = [since EXCEPT ![p] = 0]
    /\ missed' = [missed EXCEPT ![p] = 0]
    /\ doomed' = [doomed EXCEPT ![p][w] = {}]
    /\ Move(p, w, "landed")
    /\ UNCHANGED <<created, proc, published, healed, timer, withdrawn,
                   memoVars, lookVars>>
    /\ LivenessPhase(0)

\* The publication of p by w is over; a boot publish is followed by serving,
\* and the ticker starts then.
Ends(p, w) ==
    /\ Move(p, w, "idle")
    /\ doomed' = [doomed EXCEPT ![p][w] = {}]
    /\ proc' = [proc EXCEPT ![p] = IF w = "boot" THEN "serving" ELSE @]
    /\ timer' = [timer EXCEPT ![p] = IF w = "boot" THEN 0 ELSE @]

PublishReturns(p, w) ==
    /\ pub[p][w] = "landed"
    /\ Ends(p, w)
    /\ published' = [published EXCEPT ![p] = TRUE]
    /\ UNCHANGED <<tableVars, phase, healed, missed, withdrawn, memoVars, lookVars>>

\* An error, before the batch has committed or after (the answer is lost).
\* It is logged; the next beat tries again.
PublishFails(p, w) ==
    /\ pub[p][w] # "idle"
    /\ Ends(p, w)
    /\ missed' = [missed EXCEPT ![p] =
                     IF w = "beat" /\ pub[p][w] # "landed" /\ @ < Many
                     THEN @ + 1 ELSE @]
    /\ UNCHANGED <<tableVars, phase, published, healed, withdrawn, memoVars,
                   lookVars>>

---------------------------------------------------------------------------
\* stopDevDirectoryLease.

Close(p) ==
    /\ proc[p] = "serving"
    /\ proc' = [proc EXCEPT ![p] = "stopping"]
    /\ UNCHANGED <<tableVars, phase, published, healed, timer, missed,
                   withdrawn, pubVars, memoVars, lookVars>>

\* Mutant of BeatStopped: the shutdown does not wait for a beat under way.
BeatStoppedAtOnce(p) ==
    /\ proc[p] = "stopping"
    /\ proc' = [proc EXCEPT ![p] = IF published[p] THEN "deleting" ELSE "closed"]
    /\ UNCHANGED <<tableVars, phase, published, healed, timer, missed,
                   withdrawn, pubVars, memoVars, lookVars>>

\* The heartbeat goroutine is gone: go on to the DELETE if this process
\* published, otherwise be done.
BeatStopped(p) ==
    /\ proc[p] = "stopping"
    /\ pub[p]["beat"] = "idle"
    /\ proc' = [proc EXCEPT ![p] = IF published[p] THEN "deleting" ELSE "closed"]
    /\ UNCHANGED <<tableVars, phase, published, healed, timer, missed,
                   withdrawn, pubVars, memoVars, lookVars>>

\* It did not stop within two seconds: leave the row to expire.
GivesUp(p) ==
    /\ proc[p] = "stopping"
    /\ pub[p]["beat"] # "idle"
    /\ proc' = [proc EXCEPT ![p] = "closed"]
    /\ UNCHANGED <<tableVars, phase, published, healed, timer, missed,
                   withdrawn, pubVars, memoVars, lookVars>>

\* DELETE by module id; it waits for a transaction that updates the row.
Withdraw(p) ==
    /\ proc[p] = "deleting"
    /\ row[p] => ~Locked(p)
    /\ row' = [row EXCEPT ![p] = FALSE]
    /\ withdrawn' = [withdrawn EXCEPT ![p] = TRUE]
    /\ proc' = [proc EXCEPT ![p] = "closed"]
    /\ UNCHANGED <<created, since, published, healed, timer, missed, pubVars,
                   memoVars, lookVars>>
    /\ LivenessPhase(0)

WithdrawFails(p) ==
    /\ proc[p] = "deleting"
    /\ proc' = [proc EXCEPT ![p] = "closed"]
    /\ UNCHANGED <<tableVars, phase, published, healed, timer, missed,
                   withdrawn, pubVars, memoVars, lookVars>>

\* Close has returned and what was under way has ended: the process exits.
Exit(p) ==
    /\ proc[p] = "closed" /\ Idle(p)
    /\ proc' = [proc EXCEPT ![p] = "off"]
    /\ UNCHANGED <<tableVars, phase, published, healed, timer, missed,
                   withdrawn, pubVars, memoVars, lookVars>>

\* SIGKILL, at any moment.
Crash(p) ==
    /\ proc[p] # "off"
    /\ proc' = [proc EXCEPT ![p] = "off"]
    /\ pub' = [pub EXCEPT ![p] = [w \in Publishers |-> "idle"]]
    /\ doomed' = [doomed EXCEPT ![p] = [w \in Publishers |-> {}]]
    /\ UNCHANGED <<tableVars, phase, published, healed, timer, missed,
                   withdrawn, memoVars, lookVars>>

---------------------------------------------------------------------------
\* The consumer: colocatedProducer and readDevDirectory.

MemoUsable(r) == memoAge[r] < CacheTTL

\* No usable memo: the query sees the live rows that answer to r.  Two of
\* them, or no table, are an error, which is not memoized.
LookupReads(c, r) ==
    /\ lookRef[c] = Nobody
    /\ ~MemoUsable(r)
    /\ created
    /\ Cardinality(Found(r)) <= 1
    /\ lookRef' = [lookRef EXCEPT ![c] = r]
    /\ \E w \in (IF Found(r) = {} THEN {Nobody} ELSE Found(r)) :
          lookWho' = [lookWho EXCEPT ![c] = w]
    /\ lookAge' = [lookAge EXCEPT ![c] = 0]
    /\ UNCHANGED <<tableVars, phase, procVars, pubVars, memoVars>>

LookupReturns(c) ==
    /\ lookRef[c] # Nobody
    /\ memoWho' = [memoWho EXCEPT ![lookRef[c]] = lookWho[c]]
    /\ memoAge' = [memoAge EXCEPT ![lookRef[c]] = 0]
    /\ lookRef' = [lookRef EXCEPT ![c] = Nobody]
    /\ lookWho' = [lookWho EXCEPT ![c] = Nobody]
    /\ lookAge' = [lookAge EXCEPT ![c] = 0]
    /\ UNCHANGED <<tableVars, phase, procVars, pubVars>>

LookupFails(c) ==
    /\ lookRef[c] # Nobody
    /\ lookRef' = [lookRef EXCEPT ![c] = Nobody]
    /\ lookWho' = [lookWho EXCEPT ![c] = Nobody]
    /\ lookAge' = [lookAge EXCEPT ![c] = 0]
    /\ UNCHANGED <<tableVars, phase, procVars, pubVars, memoVars>>

---------------------------------------------------------------------------
\* Nothing is overdue: due beats have started, publications and lookups are
\* within their bounds, and a shutdown, whose two waits are of two seconds,
\* is shorter than a tick.
Timely ==
    /\ \A p \in Producers :
          /\ proc[p] \notin {"stopping", "deleting"}
          /\ proc[p] = "serving" /\ pub[p]["beat"] = "idle" => timer[p] < HB
          /\ pub[p]["boot"] # "idle" => timer[p] < MaxPublish
          /\ pub[p]["beat"] # "idle" => timer[p] < MaxPublish
    /\ \A c \in Readers : lookRef[c] # Nobody => lookAge[c] < MaxLookup

Tick ==
    /\ Timely
    /\ since' = [p \in Producers |-> IF since[p] < TTL THEN since[p] + 1 ELSE TTL]
    /\ timer' = [p \in Producers |-> IF timer[p] < HB THEN timer[p] + 1 ELSE HB]
    /\ memoAge' = [r \in Refs |-> IF memoAge[r] < CacheTTL THEN memoAge[r] + 1
                                  ELSE CacheTTL]
    /\ lookAge' = [c \in Readers |->
                      IF lookRef[c] # Nobody THEN lookAge[c] + 1 ELSE lookAge[c]]
    /\ UNCHANGED <<created, row, proc, published, healed, missed, withdrawn,
                   pubVars, memoWho, lookRef, lookWho>>
    /\ LivenessPhase(1)

Publish(p, w) ==
    BatchRuns(p, w) \/ BatchCommits(p, w) \/ PublishReturns(p, w) \/ PublishFails(p, w)

Stop(p) ==
    BeatStopped(p) \/ GivesUp(p) \/ Withdraw(p) \/ WithdrawFails(p) \/ Exit(p)

Next ==
    \/ \E p \in Producers : Boot(p) \/ Beat(p) \/ LazyRepublish(p)
    \/ \E p \in Producers, w \in Publishers : Publish(p, w)
    \/ \E p \in Producers : Close(p) \/ Stop(p) \/ Crash(p)
    \/ \E c \in Readers, r \in Refs : LookupReads(c, r)
    \/ \E c \in Readers : LookupReturns(c) \/ LookupFails(c)
    \/ Tick

Spec == Init /\ [][Next]_vars

\* Time passes and goroutines run; a database that refuses a publication
\* accepts one again some day.
Fairness ==
    /\ WF_vars(Tick)
    /\ \A c \in Readers : WF_vars(LookupReturns(c) \/ LookupFails(c))
    /\ \A p \in Producers :
          /\ WF_vars(Beat(p)) /\ SF_vars(Beat(p) /\ created')
          /\ \A w \in Publishers :
                /\ SF_vars(BatchRuns(p, w)) /\ SF_vars(BatchCommits(p, w))
                /\ WF_vars(PublishReturns(p, w) \/ PublishFails(p, w))

FairSpec == Spec /\ Fairness

---------------------------------------------------------------------------
Stages == {"idle", "sent", "ran", "landed"}

\* The type of every variable.
TypeOK ==
    /\ created \in BOOLEAN
    /\ row \in [Producers -> BOOLEAN]
    /\ since \in [Producers -> 0..TTL]
    /\ phase \in [Producers -> 0..Window]
    /\ proc \in [Producers -> {"off", "boot", "serving", "stopping",
                               "deleting", "closed"}]
    /\ pub \in [Producers -> [Publishers -> Stages]]
    /\ doomed \in [Producers -> [Publishers -> SUBSET Producers]]
    /\ published \in [Producers -> BOOLEAN]
    /\ healed \in [Producers -> BOOLEAN]
    /\ timer \in [Producers -> 0..HB]
    /\ missed \in [Producers -> 0..Many]
    /\ withdrawn \in [Producers -> BOOLEAN]
    /\ memoWho \in [Refs -> Producers \cup {Nobody}]
    /\ memoAge \in [Refs -> 0..CacheTTL]
    /\ lookRef \in [Readers -> Refs \cup {Nobody}]
    /\ lookWho \in [Readers -> Producers \cup {Nobody}]
    /\ lookAge \in [Readers -> 0..MaxLookup]

\* Answer w to ref r is wrong about p as things stand: a hit on a row that is
\* not live, or a miss although a live row answers to r.
Disagrees(w, r, p) ==
    \/ w = p /\ ~Live(p)
    \/ w = Nobody /\ Matches(p, r) /\ Live(p)

\* colocatedProducer's memo is wrong about a producer only for as long as the
\* lookup that filled it and devDirectoryCacheTTL last: counted from the
\* moment the row expired, was withdrawn or appeared, less than Window.
MemoWrongOnlyBriefly ==
    \A r \in Refs, p \in Producers :
        MemoUsable(r) /\ Disagrees(memoWho[r], r, p) => phase[p] < Window

Unshared(p) == \A q \in Producers \ {p} : Slug[q] # Slug[p]

\* A serving module that has stamped its row and missed at most one beat
\* since is visible to every consumer, at every moment.
VisibleWhileBeating ==
    \A p \in Producers :
        proc[p] = "serving" /\ Unshared(p) /\ missed[p] <= 1 => Live(p)

\* stopDevDirectoryLease waits for the heartbeat before its DELETE, so that no
\* beat under way writes the row back: a withdrawn module stays withdrawn until
\* it boots again.  The one thing the shutdown does not wait for is the lazy
\* republish of a request, of which a process starts at most one (healed).
WithdrawnForGood == \A p \in Producers : withdrawn[p] /\ row[p] => healed[p]

\* Whatever happened at boot and however many publications failed: a module
\* that serves for good is found again and again.
FoundWhileServing ==
    \A p \in Producers : (<>[](proc[p] = "serving")) => ([]<>Live(p))

=============================================================================
