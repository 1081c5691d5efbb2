----------------------------- MODULE Migrations -----------------------------
(***************************************************************************)
(* The migrations of one module in one app schema: the lifecycle handlers  *)
(* (system/lifecycle.go), the stateless runner (internal/migration), and   *)
(* the dev plane, which keeps a tracking table of its own and applies what *)
(* is missing on the first request of an app (internal/core/dev_migrate).  *)
(*                                                                         *)
(* A module runs on one of two planes, chosen at the start.  Deployed, the *)
(* platform (external) keeps a watermark, asks for one lifecycle call at a *)
(* time and moves the watermark by what the answer says.  In dev, a        *)
(* process provisions the schema once and keeps the outcome.  Both run the *)
(* same Apply, one transaction per migration.                              *)
(*                                                                         *)
(* A migration is its version number.  db is the set of migrations whose   *)
(* effect is in the schema.  A migration that runs again (or a down file   *)
(* that runs twice) fails unless the module wrote it with IF [NOT] EXISTS: *)
(* rerunnable.                                                             *)
(***************************************************************************)
EXTENDS Naturals

CONSTANTS
    N,              \* versions are 1..N
    Tabled,         \* the versions that create a table of the module
    Irreversible,   \* the versions without a down file
    MaxFaults       \* failures, crashes, lost answers: bound for TLC

ASSUME VersionsAssumption ==
    /\ N \in Nat \ {0} /\ MaxFaults \in Nat
    /\ Tabled \subseteq 1..N /\ Irreversible \subseteq 1..N

VARIABLES
    plane,          \* "deployed" or "dev"
    rerunnable,     \* the module's SQL may run again
    build,          \* the migrations on disk are 1..build
    db,             \* the migrations in effect in the schema
    store,          \* the SDK's own tables (contributions, audit outbox) exist
    op,             \* what runs: "none", "install", "upgrade", "downgrade", "dev"
    stage,          \* how far it is
    target,         \* req.To
    todo, done,     \* Apply: what is left, and what it reports
    err,            \* Apply failed
    goal, mark,     \* the platform: the version it wants, the one it believes in
    unsure,         \* an answer that mattered was lost, or a commit was in doubt
    once,           \* devProvisionEntry: "unused", "running", "ok", "error"
    up,             \* the dev process runs
    loaded,         \* applied, as applyDevScope read it
    recorded,       \* this module's rows in schema_migrations
    lost,           \* migrations that took effect and could not be recorded
    before,         \* db when the call began
    faults

schemaVars == <<db, store>>
runVars == <<op, stage, target, todo, done, err, before>>
platformVars == <<goal, mark, unsure>>
devVars == <<once, up, loaded, recorded, lost>>
fixedVars == <<plane, rerunnable>>
vars == <<fixedVars, build, schemaVars, runVars, platformVars, devVars, faults>>

Versions == 1..N

\* migration.List: the up files of this build, ascending.
Files == 1..build

\* A deployed schema is fresh, or installed by an SDK that kept no stores.  A
\* dev schema may have tracking rows without tables, from the search_path leak.
Init ==
    /\ plane \in {"deployed", "dev"} /\ rerunnable \in BOOLEAN
    /\ build \in Versions
    /\ mark \in (IF plane = "deployed" THEN {0, build} ELSE {0})
    /\ db = 1..mark
    /\ recorded \in (IF plane = "dev" THEN {{}, 1..build} ELSE {{}})
    /\ store = FALSE /\ goal = mark /\ unsure = FALSE
    /\ op = "none" /\ stage = "idle" /\ target = 0 /\ todo = {} /\ done = {}
    /\ err = FALSE /\ before = db
    /\ once = "unused" /\ up = FALSE /\ loaded = {} /\ lost = {}
    /\ faults = 0

Fault == faults < MaxFaults /\ faults' = faults + 1

CallOver == op' = "none" /\ stage' = "idle"

---------------------------------------------------------------------------
\* migration.Apply and ApplyDown: one transaction per migration, in order,
\* until the first failure.  done is the list they return.

\* Mutant of Slice: the window stops before its end.
SliceOpen(from, to) == {v \in Files : from < v /\ v < to}

Slice(from, to) == {v \in Files : from < v /\ v <= to}

SliceDown(from, to) == {v \in Files : to < v /\ v <= from}

\* The first migration of what is left: oldest first up, newest first down.
First(v) ==
    /\ v \in todo
    /\ \A w \in todo : IF op = "downgrade" THEN w <= v ELSE v <= w

\* What the database says to running v now.
Accepts(v) == rerunnable \/ (v \in db <=> op = "downgrade")

Effect(v) == IF op = "downgrade" THEN db \ {v} ELSE db \cup {v}

\* Where control goes when Apply returns.
Returned == IF op = "dev" THEN "record" ELSE "answer"

RunOne(v) ==
    /\ stage = "apply" /\ First(v) /\ Accepts(v)
    /\ db' = Effect(v)
    /\ todo' = todo \ {v} /\ done' = done \cup {v}
    /\ UNCHANGED <<fixedVars, build, store, op, stage, target, err, before,
                   platformVars, devVars, faults>>

\* Mutant of RunOneFails: the version is noted before its SQL has run.
RunOneFailsNoted(v) ==
    /\ stage = "apply" /\ First(v)
    /\ IF Accepts(v) THEN Fault ELSE UNCHANGED faults
    /\ stage' = Returned /\ err' = TRUE
    /\ done' = done \cup {v}
    /\ UNCHANGED <<fixedVars, build, schemaVars, op, target, todo, before,
                   platformVars, devVars>>

\* The SQL, or the connection, fails and the transaction is rolled back.
RunOneFails(v) ==
    /\ stage = "apply" /\ First(v)
    /\ IF Accepts(v) THEN Fault ELSE UNCHANGED faults
    /\ stage' = Returned /\ err' = TRUE
    /\ UNCHANGED <<fixedVars, build, schemaVars, op, target, todo, done, before,
                   platformVars, devVars>>

\* The commit takes effect and its answer is lost: Apply reports a failure.
RunOneInDoubt(v) ==
    /\ stage = "apply" /\ First(v) /\ Accepts(v) /\ Fault
    /\ db' = Effect(v)
    /\ stage' = Returned /\ err' = TRUE
    /\ unsure' = (unsure \/ op # "dev")
    /\ lost' = IF op = "dev" THEN lost \cup {v} ELSE lost
    /\ UNCHANGED <<fixedVars, build, store, op, target, todo, done, before,
                   goal, mark, once, up, loaded, recorded>>

ApplyReturns ==
    /\ stage = "apply" /\ todo = {}
    /\ stage' = Returned
    /\ UNCHANGED <<fixedVars, build, schemaVars, op, target, todo, done, err,
                   before, platformVars, devVars, faults>>

---------------------------------------------------------------------------
\* The platform, as the handlers' comments describe it: it picks a version,
\* calls until it gets there, and gives up on a call that is refused.

WantsVersion(g) ==
    /\ plane = "deployed" /\ stage = "idle" /\ goal = mark /\ ~unsure
    /\ g # mark /\ goal' = g
    /\ UNCHANGED <<fixedVars, build, schemaVars, runVars, mark, unsure, devVars,
                   faults>>

\* A newer build is deployed.
Deploy ==
    /\ plane = "deployed" /\ stage = "idle" /\ build < N
    /\ build' = build + 1
    /\ UNCHANGED <<fixedVars, schemaVars, runVars, platformVars, devVars, faults>>

Begin(o, s, to) ==
    /\ op' = o /\ stage' = s /\ target' = to
    /\ done' = {} /\ err' = FALSE /\ before' = db

\* POST install, until something is installed: all that the build has.
AsksInstall ==
    /\ plane = "deployed" /\ stage = "idle" /\ mark = 0 /\ goal # 0
    /\ goal' = build
    /\ Begin("install", "provision", build) /\ todo' = {}
    /\ UNCHANGED <<fixedVars, build, schemaVars, mark, unsure, devVars, faults>>

\* POST upgrade, from the watermark; also without a window, as a refresh.
AsksUpgrade ==
    /\ plane = "deployed" /\ stage = "idle" /\ mark # 0 /\ goal >= mark
    /\ Begin("upgrade", "provision", goal) /\ todo' = {}
    /\ UNCHANGED <<fixedVars, build, schemaVars, platformVars, devVars, faults>>

\* POST downgrade.  A version without a down file fails it before any SQL.
AsksDowngrade ==
    /\ plane = "deployed" /\ stage = "idle" /\ goal < mark
    /\ LET window == SliceDown(mark, goal) IN
          IF mark \in Files /\ window \cap Irreversible = {}
          THEN Begin("downgrade", "apply", goal) /\ todo' = window
          ELSE Begin("downgrade", "refused", goal) /\ todo' = {}
    /\ UNCHANGED <<fixedVars, build, schemaVars, platformVars, devVars, faults>>

\* A body without a schema, on Lambda: refused before anything runs.
AsksWithoutSchema ==
    /\ plane = "deployed" /\ stage = "idle" /\ mark # goal /\ Fault
    /\ Begin(IF mark < goal THEN "upgrade" ELSE "downgrade", "refused", goal)
    /\ todo' = {}
    /\ UNCHANGED <<fixedVars, build, schemaVars, platformVars, devVars>>

\* The SDK's own stores come first; then the window is resolved.
Provision ==
    LET window == IF op = "install" THEN Files ELSE Slice(mark, target)
        known == op = "install" \/ target \in Files
    IN  /\ stage = "provision"
        /\ store' = TRUE
        /\ todo' = IF known THEN window ELSE {}
        /\ stage' = IF known THEN "apply" ELSE "refused"
        /\ UNCHANGED <<fixedVars, build, db, op, target, done, err, before,
                       platformVars, devVars, faults>>

\* Its transaction fails, or only the answer to its commit is lost.
ProvisionFails ==
    /\ stage = "provision" /\ Fault
    /\ stage' = "answer" /\ err' = TRUE
    /\ store' \in {store, TRUE}
    /\ UNCHANGED <<fixedVars, build, db, op, target, todo, done, before,
                   platformVars, devVars>>

\* 200: the watermark is the version asked for.
HearsSuccess ==
    /\ stage = "answer" /\ ~err
    /\ mark' = target /\ unsure' = FALSE
    /\ CallOver
    /\ UNCHANGED <<fixedVars, build, schemaVars, target, todo, done, err, before,
                   goal, devVars, faults>>

\* The version that the list in an answer leads to.
Reached(m) ==
    IF done = {} THEN m = mark
    ELSE IF op = "downgrade" THEN m + 1 \in done /\ \A v \in done : m < v
    ELSE m \in done /\ \A v \in done : v <= m

\* 500 with the versions that ran: the watermark moves past those.
HearsFailure ==
    /\ stage = "answer" /\ err
    /\ \E m \in 0..N + 1 : Reached(m) /\ mark' = m
    /\ CallOver
    /\ UNCHANGED <<fixedVars, build, schemaVars, target, todo, done, err, before,
                   goal, unsure, devVars, faults>>

\* 400, or a missing down file: the platform gives up, unless it does not know
\* what became of an earlier call.
HearsRefusal ==
    /\ stage = "refused"
    /\ goal' = IF unsure THEN goal ELSE mark
    /\ CallOver
    /\ UNCHANGED <<fixedVars, build, schemaVars, target, todo, done, err, before,
                   mark, unsure, devVars, faults>>

\* The function dies in the middle of a call, or its answer is lost.
CallLost ==
    /\ plane = "deployed" /\ stage \in {"provision", "apply", "answer"} /\ Fault
    /\ unsure' = (unsure \/ db # 1..mark)
    /\ CallOver
    /\ UNCHANGED <<fixedVars, build, schemaVars, target, todo, done, err, before,
                   goal, mark, devVars>>

---------------------------------------------------------------------------
\* The dev plane.

\* The developer starts the module, perhaps with new migrations.
Boot ==
    /\ plane = "dev" /\ ~up
    /\ up' = TRUE /\ once' = "unused"
    /\ build' \in build..N
    /\ UNCHANGED <<fixedVars, schemaVars, runVars, platformVars, loaded, recorded,
                   lost, faults>>

\* ensureDevAppSchema: the first request of the app provisions, the others
\* wait for it and get the same answer for as long as the process lives.
FirstTouch ==
    /\ up /\ once = "unused"
    /\ once' = "running"
    /\ Begin("dev", "load", 0) /\ todo' = {}
    /\ UNCHANGED <<fixedVars, build, schemaVars, platformVars, up, loaded,
                   recorded, lost, faults>>

\* The schema could not be provisioned, and the process keeps that answer.
DevFails == once' = "error" /\ CallOver

\* loadAppliedVersions; without recordings there is no drift to look for.
LoadApplied ==
    /\ stage = "load"
    /\ loaded' = recorded
    /\ stage' = IF recorded = {} THEN "apply" ELSE "drift"
    /\ todo' = IF recorded = {} THEN Files ELSE {}
    /\ UNCHANGED <<fixedVars, build, schemaVars, op, target, done, err, before,
                   platformVars, once, up, recorded, lost, faults>>

\* Mutant of ModuleHasTables: the SDK's own stores count as evidence.
ModuleHasAnyTables == db \cap Tabled # {} \/ store

ModuleHasTables == db \cap Tabled # {}

\* Mutant of DriftCheck: drift is reported, not healed.
DriftCheckRefuses ==
    /\ stage = "drift"
    /\ IF ModuleHasTables
       THEN stage' = "apply" /\ todo' = Files \ loaded /\ UNCHANGED <<once, op>>
       ELSE DevFails /\ todo' = {}
    /\ UNCHANGED <<fixedVars, build, schemaVars, target, done, err, before,
                   platformVars, up, loaded, recorded, lost, faults>>

\* Recordings but no tables: the recorded DDL never landed in this schema.
DriftCheck ==
    /\ stage = "drift"
    /\ IF ModuleHasTables
       THEN stage' = "apply" /\ todo' = Files \ loaded
       ELSE stage' = "clear" /\ todo' = {}
    /\ UNCHANGED <<fixedVars, build, schemaVars, op, target, done, err, before,
                   platformVars, devVars, faults>>

\* clearAppliedVersions.  A schema whose migrations create no table of the
\* module looks the same: what is in effect there is forgotten.
ClearApplied ==
    /\ stage = "clear"
    /\ recorded' = {} /\ loaded' = {}
    /\ lost' = lost \cup db
    /\ todo' = Files
    /\ stage' = "apply"
    /\ UNCHANGED <<fixedVars, build, schemaVars, op, target, done, err, before,
                   platformVars, once, up, faults>>

\* recordAppliedVersions, one row after the other, after a failure as well.
RecordApplied(v) ==
    /\ stage = "record" /\ v \in done /\ \A w \in done : v <= w
    /\ recorded' = recorded \cup {v}
    /\ done' = done \ {v}
    /\ UNCHANGED <<fixedVars, build, schemaVars, op, stage, target, todo, err,
                   before, platformVars, once, up, loaded, lost, faults>>

RecordReturns ==
    /\ stage = "record" /\ done = {}
    /\ IF err THEN DevFails ELSE stage' = "stores" /\ UNCHANGED <<once, op>>
    /\ UNCHANGED <<fixedVars, build, schemaVars, target, todo, done, err, before,
                   platformVars, up, loaded, recorded, lost, faults>>

RecordFails ==
    /\ stage = "record" /\ done # {} /\ Fault
    /\ lost' = lost \cup done /\ done' = {}
    /\ DevFails
    /\ UNCHANGED <<fixedVars, build, schemaVars, target, todo, err, before,
                   platformVars, up, loaded, recorded>>

\* provisionDevAppSchema's second half: the stores, after the migrations.
EnsureStores ==
    /\ stage = "stores"
    /\ store' = TRUE
    /\ once' = "ok" /\ CallOver
    /\ UNCHANGED <<fixedVars, build, db, target, todo, done, err, before,
                   platformVars, up, loaded, recorded, lost, faults>>

\* A statement outside Apply fails.
DevStepFails ==
    /\ stage \in {"load", "drift", "clear", "stores"} /\ Fault
    /\ DevFails
    /\ store' \in (IF stage = "stores" THEN {store, TRUE} ELSE {store})
    /\ UNCHANGED <<fixedVars, build, db, target, todo, done, err, before,
                   platformVars, up, loaded, recorded, lost>>

\* The process is stopped, or killed while it provisions.
Exit ==
    /\ up
    /\ IF stage = "idle" THEN UNCHANGED faults ELSE Fault
    /\ up' = FALSE /\ once' = "unused"
    /\ lost' = lost \cup done /\ done' = {}
    /\ CallOver
    /\ UNCHANGED <<fixedVars, build, schemaVars, target, todo, err, before,
                   platformVars, loaded, recorded>>

\* The developer drops the module's tables, with what depended on them, and
\* leaves the rest of the schema.
DropTables ==
    /\ plane = "dev" /\ ~up /\ Fault
    /\ db' \in SUBSET (db \ Tabled)
    /\ lost' = lost \cap db'
    /\ UNCHANGED <<fixedVars, build, store, runVars, platformVars, once, up,
                   loaded, recorded>>

---------------------------------------------------------------------------
Apply ==
    \/ \E v \in Versions : RunOne(v) \/ RunOneFails(v) \/ RunOneInDoubt(v)
    \/ ApplyReturns

Asks == AsksInstall \/ AsksUpgrade \/ AsksDowngrade

Hears == HearsSuccess \/ HearsFailure \/ HearsRefusal

Handler == Provision \/ ProvisionFails

DevSteps ==
    \/ LoadApplied \/ DriftCheck \/ ClearApplied \/ DevStepFails
    \/ \E v \in Versions : RecordApplied(v)
    \/ RecordReturns \/ RecordFails \/ EnsureStores

Next ==
    \/ Apply \/ Asks \/ AsksWithoutSchema \/ Hears \/ Handler \/ CallLost
    \/ \E g \in 0..N + 1 : WantsVersion(g)
    \/ Deploy
    \/ Boot \/ FirstTouch \/ DevSteps \/ Exit \/ DropTables

Spec == Init /\ [][Next]_vars

\* What runs goes on running, the platform goes on asking until it has what it
\* wants, and the developer goes on working: the module is started again, and
\* now and then a request reaches it before it is stopped.
Fairness ==
    /\ WF_vars(Apply) /\ WF_vars(Handler) /\ WF_vars(Hears) /\ WF_vars(DevSteps)
    /\ WF_vars(goal # mark /\ Asks)
    /\ WF_vars(Boot) /\ SF_vars(FirstTouch) /\ WF_vars(once = "error" /\ Exit)

FairSpec == Spec /\ Fairness

---------------------------------------------------------------------------
\* The type of every variable.
TypeOK ==
    /\ plane \in {"deployed", "dev"} /\ rerunnable \in BOOLEAN
    /\ build \in Versions
    /\ db \in SUBSET Versions /\ store \in BOOLEAN
    /\ op \in {"none", "install", "upgrade", "downgrade", "dev"}
    /\ stage \in {"idle", "provision", "apply", "answer", "refused", "load",
                  "drift", "clear", "record", "stores"}
    /\ target \in 0..N + 1
    /\ todo \in SUBSET Versions /\ done \in SUBSET Versions /\ err \in BOOLEAN
    /\ goal \in 0..N + 1 /\ mark \in 0..N + 1 /\ unsure \in BOOLEAN
    /\ once \in {"unused", "running", "ok", "error"} /\ up \in BOOLEAN
    /\ loaded \in SUBSET Versions /\ recorded \in SUBSET Versions
    /\ lost \in SUBSET Versions /\ before \in SUBSET Versions
    /\ faults \in 0..MaxFaults

\* LifecycleError: "whatever the runner managed to apply/revert before the
\* failure".  Every answer names only versions that are in the schema (or no
\* longer are), and the schema changed by no other version but one whose
\* commit was in doubt.  A success is never reported without the SDK's stores.
AnswerIsTruthful ==
    stage = "answer" =>
        LET down == op = "downgrade"
            changed == IF down THEN before \ db ELSE db \ before
        IN  /\ IF down THEN done \cap db = {} ELSE done \subseteq db
            /\ IF unsure THEN \E v \in Versions : changed \subseteq done \cup {v}
                         ELSE changed \subseteq done
            /\ ~err /\ ~down => store

\* While the platform has heard every answer, the schema is exactly at the
\* watermark, whatever failed half-way: nothing is missing below it and
\* nothing is there above it.
WatermarkIsReal ==
    plane = "deployed" /\ stage = "idle" /\ ~unsure => db = 1..mark

\* ensureDevAppSchema returns nil only when every migration of the build is in
\* effect and the SDK's stores exist, also over a schema with stale recordings.
ReadyMeansMigrated ==
    once = "ok" => Files \subseteq db /\ store

\* applyDevScope: "Record whatever ran before the failure (if any) so retries
\* skip them."  A migration in effect is recorded, about to be, or was lost to
\* a crash, a failed recording, a commit in doubt or the self-heal.
AppliedIsRecorded ==
    plane = "dev" => db \subseteq recorded \cup done \cup lost

\* With SQL that may run again and finitely many faults, the platform gets the
\* schema to where it wants it, and a dev process gets its schema provisioned.
Converges ==
    rerunnable =>
        []<>(IF plane = "deployed"
             THEN stage = "idle" /\ mark = goal /\ db = 1..mark
             ELSE once = "ok")

=============================================================================
