-------------------------- MODULE MigrationsProofs --------------------------
(***************************************************************************)
(* Proofs about Migrations, for any number of versions, any of them with   *)
(* or without tables and down files, and any number of faults.             *)
(***************************************************************************)
EXTENDS Migrations, TLAPS

\* The numbers the platform deals in.
LEMMA Numbers == N \in Nat /\ 0 \in 0..N + 1 /\ 1..N \subseteq 0..N + 1
  BY VersionsAssumption

\* Every step keeps the types.
LEMMA TypeStep ==
    ASSUME TypeOK, [Next]_vars PROVE TypeOK'
  <1> USE VersionsAssumption DEF vars, fixedVars, schemaVars, runVars, platformVars, devVars
  <1>1. ASSUME NEW v \in Versions, RunOne(v) PROVE TypeOK'
    BY <1>1 DEF RunOne, First, Effect, TypeOK, Versions
  <1>2. ASSUME NEW v \in Versions, RunOneFails(v) PROVE TypeOK'
    BY <1>2 DEF RunOneFails, First, Fault, Returned, TypeOK, Versions
  <1>3. ASSUME NEW v \in Versions, RunOneInDoubt(v) PROVE TypeOK'
    BY <1>3 DEF RunOneInDoubt, First, Effect, Fault, Returned, TypeOK, Versions
  <1>4. ASSUME NEW v \in Versions, RecordApplied(v) PROVE TypeOK'
    BY <1>4 DEF RecordApplied, TypeOK, Versions
  <1>5. ASSUME NEW g \in 0..N + 1, WantsVersion(g) PROVE TypeOK'
    BY <1>5 DEF WantsVersion, TypeOK, Versions
  <1>6. CASE ApplyReturns
    BY <1>6 DEF ApplyReturns, Returned, TypeOK, Versions
  <1>7. CASE AsksInstall
    <2>1. build \in 0..N + 1
      BY Numbers DEF TypeOK, Versions
    <2> QED
      BY <1>7, <2>1 DEF AsksInstall, Begin, TypeOK
  <1>8. CASE AsksUpgrade
    BY <1>8 DEF AsksUpgrade, Begin, TypeOK, Versions
  <1>9. CASE AsksDowngrade
    <2>1. SliceDown(mark, goal) \in SUBSET Versions
      BY Numbers DEF SliceDown, Files, TypeOK, Versions
    <2>2. PICK s \in {"apply", "refused"}, T \in SUBSET Versions :
             Begin("downgrade", s, goal) /\ todo' = T
      BY <1>9, <2>1 DEF AsksDowngrade
    <2> QED
      BY <1>9, <2>2 DEF AsksDowngrade, Begin, TypeOK
  <1>10. CASE AsksWithoutSchema
    <2>1. PICK o \in {"upgrade", "downgrade"} : Begin(o, "refused", goal)
      BY <1>10 DEF AsksWithoutSchema
    <2>2. /\ faults' \in 0..MaxFaults /\ todo' = {}
          /\ UNCHANGED <<fixedVars, build, schemaVars, platformVars, devVars>>
      BY <1>10 DEF AsksWithoutSchema, Fault, TypeOK
    <2> QED
      BY <2>1, <2>2 DEF Begin, TypeOK
  <1>11. CASE HearsSuccess
    BY <1>11 DEF HearsSuccess, CallOver, TypeOK, Versions
  <1>12. CASE HearsFailure
    BY <1>12 DEF HearsFailure, CallOver, TypeOK, Versions
  <1>13. CASE HearsRefusal
    BY <1>13 DEF HearsRefusal, CallOver, TypeOK, Versions
  <1>14. CASE Provision
    BY <1>14 DEF Provision, Slice, Files, TypeOK, Versions
  <1>15. CASE ProvisionFails
    <2>1. store' \in BOOLEAN
      BY <1>15 DEF ProvisionFails, TypeOK
    <2> QED
      BY <1>15, <2>1 DEF ProvisionFails, Fault, TypeOK
  <1>16. CASE CallLost
    BY <1>16 DEF CallLost, Fault, CallOver, TypeOK, Versions
  <1>17. CASE Deploy
    BY <1>17 DEF Deploy, TypeOK, Versions
  <1>18. CASE Boot
    BY <1>18 DEF Boot, TypeOK, Versions
  <1>19. CASE FirstTouch
    BY <1>19, Numbers DEF FirstTouch, Begin, TypeOK
  <1>20. CASE LoadApplied
    BY <1>20 DEF LoadApplied, Files, TypeOK, Versions
  <1>21. CASE DriftCheck
    BY <1>21 DEF DriftCheck, Files, TypeOK, Versions
  <1>22. CASE ClearApplied
    BY <1>22 DEF ClearApplied, Files, TypeOK, Versions
  <1>23. CASE DevStepFails
    <2>1. store' \in BOOLEAN
      BY <1>23 DEF DevStepFails, TypeOK
    <2>2. faults' \in 0..MaxFaults
      BY <1>23 DEF DevStepFails, Fault, TypeOK
    <2> QED
      BY <1>23, <2>1, <2>2 DEF DevStepFails, DevFails, CallOver, TypeOK
  <1>24. CASE RecordReturns
    BY <1>24 DEF RecordReturns, DevFails, CallOver, TypeOK, Versions
  <1>25. CASE RecordFails
    BY <1>25 DEF RecordFails, Fault, DevFails, CallOver, TypeOK, Versions
  <1>26. CASE EnsureStores
    BY <1>26 DEF EnsureStores, CallOver, TypeOK, Versions
  <1>27. CASE Exit
    <2>1. faults' \in 0..MaxFaults
      BY <1>27 DEF Exit, Fault, TypeOK
    <2> QED
      BY <1>27, <2>1 DEF Exit, CallOver, TypeOK
  <1>28. CASE DropTables
    BY <1>28 DEF DropTables, Fault, TypeOK, Versions
  <1>29. CASE UNCHANGED vars
    BY <1>29 DEF TypeOK, Versions
  <1> QED
    BY <1>1, <1>2, <1>3, <1>4, <1>5, <1>6, <1>7, <1>8, <1>9, <1>10, <1>11,
       <1>12, <1>13, <1>14, <1>15, <1>16, <1>17, <1>18, <1>19, <1>20, <1>21,
       <1>22, <1>23, <1>24, <1>25, <1>26, <1>27, <1>28, <1>29
       DEF Next, Apply, Asks, Hears, Handler, DevSteps

\* Every variable of the migration model keeps its type.
THEOREM TypeCorrect == Spec => []TypeOK
  <1>1. Init => TypeOK
    <2> SUFFICES ASSUME Init PROVE TypeOK
      OBVIOUS
    <2>1. build \in Versions /\ mark \in {0, build}
      BY DEF Init
    <2>2. mark \in 0..N + 1 /\ 1..mark \in SUBSET Versions /\ 1..build \in SUBSET Versions
      BY <2>1, Numbers DEF Versions
    <2>3. recorded \in SUBSET Versions /\ db \in SUBSET Versions
      BY <2>1, <2>2 DEF Init
    <2>4. faults \in 0..MaxFaults
      BY VersionsAssumption DEF Init
    <2> QED
      BY <2>1, <2>2, <2>3, <2>4, Numbers DEF Init, TypeOK
  <1> QED
    BY <1>1, TypeStep, PTL DEF Spec

---------------------------------------------------------------------------
\* Which stages belong to which plane.
Planes ==
    /\ plane = "deployed" =>
          /\ op # "dev" /\ ~up /\ once = "unused"
          /\ stage \in {"idle", "provision", "apply", "answer", "refused"}
    /\ plane = "dev" =>
          /\ op \in {"none", "dev"}
          /\ stage \in {"idle", "load", "drift", "clear", "apply", "record", "stores"}
    /\ op = "none" <=> stage = "idle"
    /\ op = "dev" <=> once = "running"
    /\ once # "unused" => up

\* A call goes from the watermark to the goal.
Asked ==
    plane = "deployed" =>
        /\ mark <= build
        /\ stage # "idle" => target = goal
        /\ op = "install" => mark = 0 /\ goal = build /\ stage # "refused"
        /\ op = "upgrade" => mark <= goal \/ stage = "refused"
        /\ op = "downgrade" => goal < mark \/ stage = "refused"
        /\ stage = "provision" => op # "downgrade"
        /\ mark < goal /\ (\/ unsure \/ stage = "apply"
                           \/ stage = "answer" /\ (done = {} => ~err)) => goal <= build

\* Below both the watermark and the goal all is in effect, above both nothing.
Bracketed ==
    plane = "deployed" =>
        \A v \in Versions :
            /\ v <= mark /\ v <= goal => v \in db
            /\ v \in db => v <= mark \/ v <= goal

\* A call that has changed nothing yet.
Untouched ==
    /\ stage \in {"provision", "refused"} => done = {} /\ before = db /\ ~err
    /\ plane = "deployed" /\ stage \in {"idle", "provision", "refused"} /\ ~unsure
          => \A v \in Versions : v \in db <=> v <= mark

\* What is done and what is left split the window, the watermark side first.
Split ==
    plane = "deployed" /\ stage \in {"apply", "answer"} =>
        /\ \A v \in Versions :
              IF op = "downgrade"
              THEN /\ v \in done \cup todo <=> goal < v /\ v <= mark
                   /\ v \in done => v \notin db
                   /\ v \in done => \A w \in todo : w < v
                   /\ ~unsure => (v \in db <=> v <= mark /\ v \notin done)
              ELSE /\ v \in done => mark < v /\ v <= goal /\ v \in db
                   /\ v \in done => \A w \in todo : v < w
                   /\ ~unsure => (v \in db <=> v <= mark \/ v \in done)
        /\ op # "downgrade" /\ (stage = "apply" \/ ~err \/ done # {}) =>
              \A v \in Versions : v \in done \cup todo <=> mark < v /\ v <= goal
        /\ ~err => stage = "apply" \/ todo = {}
        /\ stage = "apply" => ~err

\* What the schema changed by, and the stores.
Changes ==
    plane = "deployed" =>
        /\ stage = "apply" => \A v \in Versions :
              IF op = "downgrade" THEN v \in before /\ v \notin db => v \in done
                                  ELSE v \in db /\ v \notin before => v \in done
        /\ stage \in {"apply", "answer"} /\ op # "downgrade" /\ ~err => store

\* By an answer the schema changed by what it lists, and by one version more
\* at most, whose commit was in doubt.
Answered ==
    stage = "answer" =>
        \E w \in Versions : \A v \in Versions :
            (IF op = "downgrade" THEN v \in before /\ v \notin db
                                 ELSE v \in db /\ v \notin before)
                => v \in done \/ (unsure /\ v = w)

\* The dev plane: no table at all, or an effect for every recording.
DevInv ==
    plane = "dev" =>
        /\ recorded \subseteq db \/ db \cap Tabled = {}
        /\ stage \in {"idle", "load", "drift", "clear"} => done = {}
        /\ stage \in {"load", "drift", "clear"} => ~err
        /\ stage = "drift" => loaded = recorded
        /\ stage \in {"apply", "record", "stores"} => recorded \subseteq db /\ done \subseteq db
        /\ stage = "apply" => Files \subseteq db \cup todo /\ ~err
        /\ stage = "record" /\ ~err => Files \subseteq db
        /\ stage = "stores" => Files \subseteq db /\ done = {}
        /\ once = "ok" => Files \subseteq db /\ store

\* A plane's stages are its own.
LEMMA PlanesStep ==
    ASSUME TypeOK, Planes, [Next]_vars PROVE Planes'
  <1> USE VersionsAssumption DEF vars, fixedVars, schemaVars, runVars, platformVars, devVars
  <1>1. ASSUME NEW v \in Versions, RunOne(v) PROVE Planes'
    BY <1>1 DEF RunOne, First, Effect, Planes, TypeOK
  <1>2. ASSUME NEW v \in Versions, RunOneFails(v) PROVE Planes'
    BY <1>2 DEF RunOneFails, First, Fault, Returned, Planes, TypeOK
  <1>3. ASSUME NEW v \in Versions, RunOneInDoubt(v) PROVE Planes'
    BY <1>3 DEF RunOneInDoubt, First, Effect, Fault, Returned, Planes, TypeOK
  <1>4. ASSUME NEW v \in Versions, RecordApplied(v) PROVE Planes'
    BY <1>4 DEF RecordApplied, Planes, TypeOK
  <1>5. ASSUME NEW g \in 0..N + 1, WantsVersion(g) PROVE Planes'
    BY <1>5 DEF WantsVersion, Planes, TypeOK
  <1>6. CASE ApplyReturns
    BY <1>6 DEF ApplyReturns, Returned, Planes, TypeOK
  <1>7. CASE AsksInstall
    BY <1>7 DEF AsksInstall, Begin, Planes, TypeOK
  <1>8. CASE AsksUpgrade
    BY <1>8 DEF AsksUpgrade, Begin, Planes, TypeOK
  <1>9. CASE AsksDowngrade
    BY <1>9 DEF AsksDowngrade, Begin, SliceDown, Files, Planes, TypeOK
  <1>10. CASE AsksWithoutSchema
    BY <1>10 DEF AsksWithoutSchema, Begin, Fault, Planes, TypeOK
  <1>11. CASE HearsSuccess
    BY <1>11 DEF HearsSuccess, CallOver, Planes, TypeOK
  <1>12. CASE HearsFailure
    BY <1>12 DEF HearsFailure, CallOver, Planes, TypeOK
  <1>13. CASE HearsRefusal
    BY <1>13 DEF HearsRefusal, CallOver, Planes, TypeOK
  <1>14. CASE Provision
    BY <1>14 DEF Provision, Slice, Files, Planes, TypeOK
  <1>15. CASE ProvisionFails
    BY <1>15 DEF ProvisionFails, Fault, Planes, TypeOK
  <1>16. CASE CallLost
    BY <1>16 DEF CallLost, Fault, CallOver, Planes, TypeOK
  <1>17. CASE Deploy
    BY <1>17 DEF Deploy, Planes, TypeOK
  <1>18. CASE Boot
    BY <1>18 DEF Boot, Planes, TypeOK
  <1>19. CASE FirstTouch
    BY <1>19 DEF FirstTouch, Begin, Planes, TypeOK
  <1>20. CASE LoadApplied
    BY <1>20 DEF LoadApplied, Files, Planes, TypeOK
  <1>21. CASE DriftCheck
    BY <1>21 DEF DriftCheck, Files, Planes, TypeOK
  <1>22. CASE ClearApplied
    BY <1>22 DEF ClearApplied, Files, Planes, TypeOK
  <1>23. CASE DevStepFails
    BY <1>23 DEF DevStepFails, Fault, DevFails, CallOver, Planes, TypeOK
  <1>24. CASE RecordReturns
    BY <1>24 DEF RecordReturns, DevFails, CallOver, Planes, TypeOK
  <1>25. CASE RecordFails
    BY <1>25 DEF RecordFails, Fault, DevFails, CallOver, Planes, TypeOK
  <1>26. CASE EnsureStores
    BY <1>26 DEF EnsureStores, CallOver, Planes, TypeOK
  <1>27. CASE Exit
    BY <1>27 DEF Exit, Fault, CallOver, Planes, TypeOK
  <1>28. CASE DropTables
    BY <1>28 DEF DropTables, Fault, Planes, TypeOK
  <1>29. CASE UNCHANGED vars
    BY <1>29 DEF Planes, TypeOK
  <1> QED
    BY <1>1, <1>2, <1>3, <1>4, <1>5, <1>6, <1>7, <1>8, <1>9, <1>10, <1>11,
       <1>12, <1>13, <1>14, <1>15, <1>16, <1>17, <1>18, <1>19, <1>20, <1>21,
       <1>22, <1>23, <1>24, <1>25, <1>26, <1>27, <1>28, <1>29
       DEF Next, Apply, Asks, Hears, Handler, DevSteps

\* The steps of the dev plane leave the deployed one alone.
LEMMA DevOnly ==
    ASSUME TypeOK, Planes, Boot \/ FirstTouch \/ DevSteps \/ Exit \/ DropTables
    PROVE  plane = "dev" /\ plane' = "dev"
  BY DEF TypeOK, Planes, Boot, FirstTouch, DevSteps, Exit, DropTables, LoadApplied,
         DriftCheck, ClearApplied, DevStepFails, RecordApplied, RecordReturns,
         RecordFails, EnsureStores, fixedVars

\* A module does not change its plane.
LEMMA PlaneFixed == ASSUME [Next]_vars PROVE plane' = plane
  BY DEF Next, Apply, Asks, Hears, Handler, DevSteps, RunOne, RunOneFails,
         RunOneInDoubt, ApplyReturns, AsksInstall, AsksUpgrade, AsksDowngrade,
         AsksWithoutSchema, HearsSuccess, HearsFailure, HearsRefusal, Provision,
         ProvisionFails, CallLost, WantsVersion, Deploy, Boot, FirstTouch, LoadApplied,
         DriftCheck, ClearApplied, DevStepFails, RecordApplied, RecordReturns,
         RecordFails, EnsureStores, Exit, DropTables, vars, fixedVars

DeployedInv == Asked /\ Bracketed /\ Untouched /\ Split /\ Changes

\* The versions up to the watermark, as a set.
LEMMA AtMark ==
    ASSUME TypeOK, mark <= build, \A v \in Versions : v \in db <=> v <= mark
    PROVE  db = 1..mark
  <1> USE Numbers
  <1>1. mark \in Nat /\ build \in Nat /\ build <= N
    BY DEF TypeOK, Versions
  <1>2. ASSUME NEW v \in db PROVE v \in 1..mark
    BY <1>1, <1>2 DEF TypeOK, Versions
  <1>3. ASSUME NEW v \in 1..mark PROVE v \in db
    BY <1>1, <1>3 DEF Versions
  <1> QED
    BY <1>2, <1>3

\* Calls keep to the watermark and the goal.
LEMMA AskedStep ==
    ASSUME TypeOK, Planes, Planes', DeployedInv, [Next]_vars PROVE Asked'
  <1> USE Numbers DEF vars, fixedVars, schemaVars, runVars, platformVars, devVars
  <1>0. TypeOK /\ Planes /\ Asked /\ Split /\ Untouched
    BY DEF DeployedInv
  <1>1. ASSUME NEW v \in Versions, plane = "deployed", RunOne(v) PROVE Asked'
    BY <1>0, <1>1 DEF RunOne, First, Effect, TypeOK, Versions, Asked, Split, Planes
  <1>2. ASSUME NEW v \in Versions, plane = "deployed", RunOneFails(v) PROVE Asked'
    BY <1>0, <1>2 DEF RunOneFails, First, Returned, TypeOK, Versions, Asked, Split, Planes
  <1>3. ASSUME NEW v \in Versions, plane = "deployed", RunOneInDoubt(v) PROVE Asked'
    BY <1>0, <1>3 DEF RunOneInDoubt, First, Effect, Returned, TypeOK, Versions, Asked, Split, Planes
  <1>4. ASSUME plane = "deployed", ApplyReturns PROVE Asked'
    BY <1>0, <1>4 DEF ApplyReturns, Returned, TypeOK, Versions, Asked, Split, Planes
  <1>5. ASSUME plane = "deployed", AsksInstall PROVE Asked'
    BY <1>0, <1>5 DEF AsksInstall, Begin, TypeOK, Versions, Asked, Split, Planes
  <1>6. ASSUME plane = "deployed", AsksUpgrade PROVE Asked'
    BY <1>0, <1>6 DEF AsksUpgrade, Begin, TypeOK, Versions, Asked, Split, Planes
  <1>7. ASSUME plane = "deployed", AsksDowngrade PROVE Asked'
    BY <1>0, <1>7 DEF AsksDowngrade, Begin, SliceDown, Files, TypeOK, Versions, Asked, Split, Planes
  <1>8. ASSUME plane = "deployed", AsksWithoutSchema PROVE Asked'
    BY <1>0, <1>8 DEF AsksWithoutSchema, Begin, TypeOK, Versions, Asked, Split, Planes
  <1>9. ASSUME plane = "deployed", HearsSuccess PROVE Asked'
    BY <1>0, <1>9 DEF HearsSuccess, CallOver, TypeOK, Versions, Asked, Split, Planes
  <1>10. ASSUME plane = "deployed", HearsFailure PROVE Asked'
    BY <1>0, <1>10 DEF HearsFailure, CallOver, Reached, TypeOK, Versions, Asked, Split, Planes
  <1>11. ASSUME plane = "deployed", HearsRefusal PROVE Asked'
    BY <1>0, <1>11 DEF HearsRefusal, CallOver, TypeOK, Versions, Asked, Split, Planes
  <1>12. ASSUME plane = "deployed", Provision PROVE Asked'
    <2>1. CASE op = "install"
      BY <1>0, <1>12, <2>1 DEF Provision, Files, TypeOK, Versions, Asked, Planes
    <2>2. CASE op = "upgrade"
      BY <1>0, <1>12, <2>2 DEF Provision, Files, TypeOK, Versions, Asked, Planes
    <2> QED
      BY <1>0, <1>12, <2>1, <2>2 DEF Provision, Planes, TypeOK, Asked
  <1>13. ASSUME plane = "deployed", ProvisionFails PROVE Asked'
    BY <1>0, <1>13 DEF ProvisionFails, Untouched, TypeOK, Versions, Asked, Planes
  <1>14. ASSUME plane = "deployed", CallLost PROVE Asked'
    <2>1. (stage = "provision" \/ (stage = "answer" /\ err /\ done = {})) /\ ~unsure
             => \A v \in Versions : v \in db <=> v <= mark
      BY <1>0, <1>14 DEF Untouched, Split, Versions
    <2>2. mark <= build
      BY <1>0, <1>14 DEF Asked
    <2>3. (stage = "provision" \/ (stage = "answer" /\ err /\ done = {})) /\ ~unsure
             => db = 1..mark
      BY <1>0, <2>1, <2>2, AtMark
    <2> QED
      BY <1>0, <1>14, <2>3 DEF CallLost, CallOver, TypeOK, Asked, Planes
  <1>15. ASSUME NEW g \in 0..N + 1, plane = "deployed", WantsVersion(g) PROVE Asked'
    BY <1>0, <1>15 DEF WantsVersion, TypeOK, Versions, Asked, Split, Planes
  <1>16. ASSUME plane = "deployed", Deploy PROVE Asked'
    BY <1>0, <1>16 DEF Deploy, TypeOK, Versions, Asked, Split, Planes
  <1>17. ASSUME plane = "deployed", UNCHANGED vars PROVE Asked'
    BY <1>0, <1>17 DEF Asked
  <1>18. ASSUME plane = "dev" PROVE Asked'
    BY <1>18, PlaneFixed DEF Asked
  <1> QED
    BY <1>0, <1>1, <1>2, <1>3, <1>4, <1>5, <1>6, <1>7, <1>8, <1>9, <1>10, <1>11,
       <1>12, <1>13, <1>14, <1>15, <1>16, <1>17, <1>18, DevOnly
       DEF Next, Apply, Asks, Hears, Handler, TypeOK

\* The schema stays between the watermark and the goal.
LEMMA BracketedStep ==
    ASSUME TypeOK, Planes, Planes', DeployedInv, [Next]_vars PROVE Bracketed'
  <1> USE Numbers DEF vars, fixedVars, schemaVars, runVars, platformVars, devVars
  <1>0. TypeOK /\ Planes /\ Asked /\ Bracketed /\ Untouched /\ Split
    BY DEF DeployedInv
  <1>1. ASSUME NEW v \in Versions, plane = "deployed", RunOne(v) PROVE Bracketed'
    BY <1>0, <1>1 DEF RunOne, First, Effect, TypeOK, Versions, Asked, Bracketed, Split, Untouched
  <1>2. ASSUME NEW v \in Versions, plane = "deployed", RunOneFails(v) PROVE Bracketed'
    BY <1>0, <1>2 DEF RunOneFails, First, Returned, TypeOK, Versions, Asked, Bracketed, Split, Untouched
  <1>3. ASSUME NEW v \in Versions, plane = "deployed", RunOneInDoubt(v) PROVE Bracketed'
    BY <1>0, <1>3 DEF RunOneInDoubt, First, Effect, Returned, TypeOK, Versions, Asked, Bracketed, Split, Untouched
  <1>4. ASSUME plane = "deployed", ApplyReturns PROVE Bracketed'
    BY <1>0, <1>4 DEF ApplyReturns, Returned, TypeOK, Versions, Asked, Bracketed, Split, Untouched
  <1>5. ASSUME plane = "deployed", AsksInstall PROVE Bracketed'
    BY <1>0, <1>5 DEF AsksInstall, Begin, TypeOK, Versions, Asked, Bracketed, Split, Untouched
  <1>6. ASSUME plane = "deployed", AsksUpgrade PROVE Bracketed'
    BY <1>0, <1>6 DEF AsksUpgrade, Begin, TypeOK, Versions, Asked, Bracketed, Split, Untouched
  <1>7. ASSUME plane = "deployed", AsksDowngrade PROVE Bracketed'
    BY <1>0, <1>7 DEF AsksDowngrade, Begin, SliceDown, Files, TypeOK, Versions, Asked, Bracketed, Split, Untouched
  <1>8. ASSUME plane = "deployed", AsksWithoutSchema PROVE Bracketed'
    BY <1>0, <1>8 DEF AsksWithoutSchema, Begin, TypeOK, Versions, Asked, Bracketed, Split, Untouched
  <1>9. ASSUME plane = "deployed", HearsSuccess PROVE Bracketed'
    <2>1. CASE op = "downgrade"
      BY <1>0, <1>9, <2>1 DEF HearsSuccess, CallOver, TypeOK, Versions, Asked, Bracketed, Split, Untouched
    <2>2. CASE op = "install"
      BY <1>0, <1>9, <2>2 DEF HearsSuccess, CallOver, TypeOK, Versions, Asked, Bracketed, Split, Untouched
    <2>3. CASE op = "upgrade"
      BY <1>0, <1>9, <2>3 DEF HearsSuccess, CallOver, TypeOK, Versions, Asked, Bracketed, Split, Untouched
    <2> QED
      BY <1>0, <1>9, <2>1, <2>2, <2>3 DEF HearsSuccess, Planes, TypeOK
  <1>10. ASSUME plane = "deployed", HearsFailure PROVE Bracketed'
    BY <1>0, <1>10 DEF HearsFailure, CallOver, Reached, TypeOK, Versions, Asked, Bracketed, Split, Untouched
  <1>11. ASSUME plane = "deployed", HearsRefusal PROVE Bracketed'
    BY <1>0, <1>11 DEF HearsRefusal, CallOver, TypeOK, Versions, Asked, Bracketed, Split, Untouched
  <1>12. ASSUME plane = "deployed", Provision PROVE Bracketed'
    BY <1>0, <1>12 DEF Provision, Slice, Files, TypeOK, Versions, Asked, Bracketed, Split, Untouched
  <1>13. ASSUME plane = "deployed", ProvisionFails PROVE Bracketed'
    BY <1>0, <1>13 DEF ProvisionFails, TypeOK, Versions, Asked, Bracketed, Split, Untouched
  <1>14. ASSUME plane = "deployed", CallLost PROVE Bracketed'
    BY <1>0, <1>14 DEF CallLost, CallOver, TypeOK, Versions, Asked, Bracketed, Split, Untouched
  <1>15. ASSUME NEW g \in 0..N + 1, plane = "deployed", WantsVersion(g) PROVE Bracketed'
    BY <1>0, <1>15 DEF WantsVersion, TypeOK, Versions, Asked, Bracketed, Split, Untouched
  <1>16. ASSUME plane = "deployed", Deploy PROVE Bracketed'
    BY <1>0, <1>16 DEF Deploy, TypeOK, Versions, Asked, Bracketed, Split, Untouched
  <1>17. ASSUME plane = "deployed", UNCHANGED vars PROVE Bracketed'
    BY <1>0, <1>17 DEF Bracketed
  <1>18. ASSUME plane = "dev" PROVE Bracketed'
    BY <1>18, PlaneFixed DEF Bracketed
  <1> QED
    BY <1>0, <1>1, <1>2, <1>3, <1>4, <1>5, <1>6, <1>7, <1>8, <1>9, <1>10, <1>11,
       <1>12, <1>13, <1>14, <1>15, <1>16, <1>17, <1>18, DevOnly
       DEF Next, Apply, Asks, Hears, Handler, TypeOK

\* Before a call has an effect, and after the platform heard of it.
LEMMA UntouchedStep ==
    ASSUME TypeOK, Planes, Planes', DeployedInv, [Next]_vars PROVE Untouched'
  <1> USE Numbers DEF vars, fixedVars, schemaVars, runVars, platformVars, devVars
  <1>0. TypeOK /\ Planes /\ Asked /\ Bracketed /\ Untouched /\ Split
    BY DEF DeployedInv
  <1>1. ASSUME NEW v \in Versions, plane = "deployed", RunOne(v) PROVE Untouched'
    BY <1>0, <1>1 DEF RunOne, First, Effect, TypeOK, Versions, Asked, Bracketed, Split, Untouched
  <1>2. ASSUME NEW v \in Versions, plane = "deployed", RunOneFails(v) PROVE Untouched'
    BY <1>0, <1>2 DEF RunOneFails, First, Returned, TypeOK, Versions, Asked, Bracketed, Split, Untouched
  <1>3. ASSUME NEW v \in Versions, plane = "deployed", RunOneInDoubt(v) PROVE Untouched'
    BY <1>0, <1>3 DEF RunOneInDoubt, First, Effect, Returned, TypeOK, Versions, Asked, Bracketed, Split, Untouched
  <1>4. ASSUME plane = "deployed", ApplyReturns PROVE Untouched'
    BY <1>0, <1>4 DEF ApplyReturns, Returned, TypeOK, Versions, Asked, Bracketed, Split, Untouched
  <1>5. ASSUME plane = "deployed", AsksInstall PROVE Untouched'
    BY <1>0, <1>5 DEF AsksInstall, Begin, TypeOK, Versions, Asked, Bracketed, Split, Untouched
  <1>6. ASSUME plane = "deployed", AsksUpgrade PROVE Untouched'
    BY <1>0, <1>6 DEF AsksUpgrade, Begin, TypeOK, Versions, Asked, Bracketed, Split, Untouched
  <1>7. ASSUME plane = "deployed", AsksDowngrade PROVE Untouched'
    BY <1>0, <1>7 DEF AsksDowngrade, Begin, SliceDown, Files, TypeOK, Versions, Asked, Bracketed, Split, Untouched
  <1>8. ASSUME plane = "deployed", AsksWithoutSchema PROVE Untouched'
    BY <1>0, <1>8 DEF AsksWithoutSchema, Begin, TypeOK, Versions, Asked, Bracketed, Split, Untouched
  <1>9. ASSUME plane = "deployed", HearsSuccess PROVE Untouched'
    <2>1. CASE op = "downgrade"
      BY <1>0, <1>9, <2>1 DEF HearsSuccess, CallOver, TypeOK, Versions, Asked, Bracketed, Split, Untouched
    <2>2. CASE op = "install"
      BY <1>0, <1>9, <2>2 DEF HearsSuccess, CallOver, TypeOK, Versions, Asked, Bracketed, Split, Untouched
    <2>3. CASE op = "upgrade"
      BY <1>0, <1>9, <2>3 DEF HearsSuccess, CallOver, TypeOK, Versions, Asked, Bracketed, Split, Untouched
    <2> QED
      BY <1>0, <1>9, <2>1, <2>2, <2>3 DEF HearsSuccess, Planes, TypeOK
  <1>10. ASSUME plane = "deployed", HearsFailure PROVE Untouched'
    BY <1>0, <1>10 DEF HearsFailure, CallOver, Reached, TypeOK, Versions, Asked, Bracketed, Split, Untouched
  <1>11. ASSUME plane = "deployed", HearsRefusal PROVE Untouched'
    BY <1>0, <1>11 DEF HearsRefusal, CallOver, TypeOK, Versions, Asked, Bracketed, Split, Untouched
  <1>12. ASSUME plane = "deployed", Provision PROVE Untouched'
    BY <1>0, <1>12 DEF Provision, Slice, Files, TypeOK, Versions, Asked, Bracketed, Split, Untouched
  <1>13. ASSUME plane = "deployed", ProvisionFails PROVE Untouched'
    BY <1>0, <1>13 DEF ProvisionFails, TypeOK, Versions, Asked, Bracketed, Split, Untouched
  <1>14. ASSUME plane = "deployed", CallLost PROVE Untouched'
    <2>1. ~unsure' => db = 1..mark
      BY <1>14 DEF CallLost
    <2>2. ~unsure' => \A v \in Versions : v \in db <=> v <= mark
      BY <1>0, <2>1 DEF TypeOK, Versions
    <2> QED
      BY <1>14, <2>2 DEF CallLost, CallOver, Untouched
  <1>15. ASSUME NEW g \in 0..N + 1, plane = "deployed", WantsVersion(g) PROVE Untouched'
    BY <1>0, <1>15 DEF WantsVersion, TypeOK, Versions, Asked, Bracketed, Split, Untouched
  <1>16. ASSUME plane = "deployed", Deploy PROVE Untouched'
    BY <1>0, <1>16 DEF Deploy, TypeOK, Versions, Asked, Bracketed, Split, Untouched
  <1>17. ASSUME plane = "deployed", UNCHANGED vars PROVE Untouched'
    BY <1>0, <1>17 DEF Untouched
  <1>18. ASSUME plane = "dev" PROVE Untouched'
    BY <1>18, PlaneFixed DEF Untouched, Planes
  <1> QED
    BY <1>0, <1>1, <1>2, <1>3, <1>4, <1>5, <1>6, <1>7, <1>8, <1>9, <1>10, <1>11,
       <1>12, <1>13, <1>14, <1>15, <1>16, <1>17, <1>18, DevOnly
       DEF Next, Apply, Asks, Hears, Handler, TypeOK

\* Apply works through its window from the watermark on.
LEMMA SplitStep ==
    ASSUME TypeOK, Planes, Planes', DeployedInv, [Next]_vars PROVE Split'
  <1> USE Numbers DEF vars, fixedVars, schemaVars, runVars, platformVars, devVars
  <1>0. TypeOK /\ Planes /\ Asked /\ Bracketed /\ Untouched /\ Split
    BY DEF DeployedInv
  <1>1. ASSUME NEW v \in Versions, plane = "deployed", RunOne(v) PROVE Split'
    BY <1>0, <1>1 DEF RunOne, First, Effect, TypeOK, Versions, Asked, Bracketed, Split, Untouched
  <1>2. ASSUME NEW v \in Versions, plane = "deployed", RunOneFails(v) PROVE Split'
    BY <1>0, <1>2 DEF RunOneFails, First, Returned, TypeOK, Versions, Asked, Bracketed, Split, Untouched
  <1>3. ASSUME NEW v \in Versions, plane = "deployed", RunOneInDoubt(v) PROVE Split'
    BY <1>0, <1>3 DEF RunOneInDoubt, First, Effect, Returned, TypeOK, Versions, Asked, Bracketed, Split, Untouched
  <1>4. ASSUME plane = "deployed", ApplyReturns PROVE Split'
    BY <1>0, <1>4 DEF ApplyReturns, Returned, TypeOK, Versions, Asked, Bracketed, Split, Untouched
  <1>5. ASSUME plane = "deployed", AsksInstall PROVE Split'
    BY <1>0, <1>5 DEF AsksInstall, Begin, TypeOK, Versions, Asked, Bracketed, Split, Untouched
  <1>6. ASSUME plane = "deployed", AsksUpgrade PROVE Split'
    BY <1>0, <1>6 DEF AsksUpgrade, Begin, TypeOK, Versions, Asked, Bracketed, Split, Untouched
  <1>7. ASSUME plane = "deployed", AsksDowngrade PROVE Split'
    BY <1>0, <1>7 DEF AsksDowngrade, Begin, SliceDown, Files, TypeOK, Versions, Asked, Bracketed, Split, Untouched
  <1>8. ASSUME plane = "deployed", AsksWithoutSchema PROVE Split'
    BY <1>0, <1>8 DEF AsksWithoutSchema, Begin, TypeOK, Versions, Asked, Bracketed, Split, Untouched
  <1>9. ASSUME plane = "deployed", HearsSuccess PROVE Split'
    BY <1>0, <1>9 DEF HearsSuccess, CallOver, TypeOK, Versions, Asked, Bracketed, Split, Untouched
  <1>10. ASSUME plane = "deployed", HearsFailure PROVE Split'
    BY <1>0, <1>10 DEF HearsFailure, CallOver, Reached, TypeOK, Versions, Asked, Bracketed, Split, Untouched
  <1>11. ASSUME plane = "deployed", HearsRefusal PROVE Split'
    BY <1>0, <1>11 DEF HearsRefusal, CallOver, TypeOK, Versions, Asked, Bracketed, Split, Untouched
  <1>12. ASSUME plane = "deployed", Provision PROVE Split'
    <2>1. CASE op = "install"
      BY <1>0, <1>12, <2>1 DEF Provision, Slice, Files, TypeOK, Versions, Asked, Bracketed, Split, Untouched
    <2>2. CASE op = "upgrade"
      BY <1>0, <1>12, <2>2 DEF Provision, Slice, Files, TypeOK, Versions, Asked, Bracketed, Split, Untouched
    <2> QED
      BY <1>0, <1>12, <2>1, <2>2 DEF Provision, Planes, TypeOK, Asked
  <1>13. ASSUME plane = "deployed", ProvisionFails PROVE Split'
    BY <1>0, <1>13 DEF ProvisionFails, TypeOK, Versions, Asked, Bracketed, Split, Untouched
  <1>14. ASSUME plane = "deployed", CallLost PROVE Split'
    BY <1>0, <1>14 DEF CallLost, CallOver, TypeOK, Versions, Asked, Bracketed, Split, Untouched
  <1>15. ASSUME NEW g \in 0..N + 1, plane = "deployed", WantsVersion(g) PROVE Split'
    BY <1>0, <1>15 DEF WantsVersion, TypeOK, Versions, Asked, Bracketed, Split, Untouched
  <1>16. ASSUME plane = "deployed", Deploy PROVE Split'
    BY <1>0, <1>16 DEF Deploy, TypeOK, Versions, Asked, Bracketed, Split, Untouched
  <1>17. ASSUME plane = "deployed", UNCHANGED vars PROVE Split'
    BY <1>0, <1>17 DEF Split
  <1>18. ASSUME plane = "dev" PROVE Split'
    BY <1>18, PlaneFixed DEF Split
  <1> QED
    BY <1>0, <1>1, <1>2, <1>3, <1>4, <1>5, <1>6, <1>7, <1>8, <1>9, <1>10, <1>11,
       <1>12, <1>13, <1>14, <1>15, <1>16, <1>17, <1>18, DevOnly
       DEF Next, Apply, Asks, Hears, Handler, TypeOK

\* The schema changes by what Apply reports.
LEMMA ChangesStep ==
    ASSUME TypeOK, Planes, Planes', DeployedInv, [Next]_vars PROVE Changes'
  <1> USE Numbers DEF vars, fixedVars, schemaVars, runVars, platformVars, devVars
  <1>0. TypeOK /\ Planes /\ Asked /\ Untouched /\ Split /\ Changes
    BY DEF DeployedInv
  <1>1. ASSUME NEW v \in Versions, plane = "deployed", RunOne(v) PROVE Changes'
    BY <1>0, <1>1 DEF RunOne, First, Effect, TypeOK, Versions, Asked, Changes, Split, Untouched
  <1>2. ASSUME NEW v \in Versions, plane = "deployed", RunOneFails(v) PROVE Changes'
    BY <1>0, <1>2 DEF RunOneFails, First, Returned, TypeOK, Versions, Asked, Changes, Split, Untouched
  <1>3. ASSUME NEW v \in Versions, plane = "deployed", RunOneInDoubt(v) PROVE Changes'
    BY <1>0, <1>3 DEF RunOneInDoubt, First, Effect, Returned, TypeOK, Versions, Asked, Changes, Split, Untouched
  <1>4. ASSUME plane = "deployed", ApplyReturns PROVE Changes'
    BY <1>0, <1>4 DEF ApplyReturns, Returned, TypeOK, Versions, Asked, Changes, Split, Untouched
  <1>5. ASSUME plane = "deployed", AsksInstall PROVE Changes'
    BY <1>0, <1>5 DEF AsksInstall, Begin, TypeOK, Versions, Asked, Changes, Split, Untouched
  <1>6. ASSUME plane = "deployed", AsksUpgrade PROVE Changes'
    BY <1>0, <1>6 DEF AsksUpgrade, Begin, TypeOK, Versions, Asked, Changes, Split, Untouched
  <1>7. ASSUME plane = "deployed", AsksDowngrade PROVE Changes'
    BY <1>0, <1>7 DEF AsksDowngrade, Begin, SliceDown, Files, TypeOK, Versions, Asked, Changes, Split, Untouched
  <1>8. ASSUME plane = "deployed", AsksWithoutSchema PROVE Changes'
    BY <1>0, <1>8 DEF AsksWithoutSchema, Begin, TypeOK, Versions, Asked, Changes, Split, Untouched
  <1>9. ASSUME plane = "deployed", HearsSuccess PROVE Changes'
    BY <1>0, <1>9 DEF HearsSuccess, CallOver, TypeOK, Versions, Asked, Changes, Split, Untouched
  <1>10. ASSUME plane = "deployed", HearsFailure PROVE Changes'
    BY <1>0, <1>10 DEF HearsFailure, CallOver, Reached, TypeOK, Versions, Asked, Changes, Split, Untouched
  <1>11. ASSUME plane = "deployed", HearsRefusal PROVE Changes'
    BY <1>0, <1>11 DEF HearsRefusal, CallOver, TypeOK, Versions, Asked, Changes, Split, Untouched
  <1>12. ASSUME plane = "deployed", Provision PROVE Changes'
    BY <1>0, <1>12 DEF Provision, Slice, Files, TypeOK, Versions, Asked, Changes, Split, Untouched
  <1>13. ASSUME plane = "deployed", ProvisionFails PROVE Changes'
    BY <1>0, <1>13 DEF ProvisionFails, TypeOK, Versions, Asked, Changes, Split, Untouched
  <1>14. ASSUME plane = "deployed", CallLost PROVE Changes'
    BY <1>0, <1>14 DEF CallLost, CallOver, TypeOK, Versions, Asked, Changes, Split, Untouched
  <1>15. ASSUME NEW g \in 0..N + 1, plane = "deployed", WantsVersion(g) PROVE Changes'
    BY <1>0, <1>15 DEF WantsVersion, TypeOK, Versions, Asked, Changes, Split, Untouched
  <1>16. ASSUME plane = "deployed", Deploy PROVE Changes'
    BY <1>0, <1>16 DEF Deploy, TypeOK, Versions, Asked, Changes, Split, Untouched
  <1>17. ASSUME plane = "deployed", UNCHANGED vars PROVE Changes'
    BY <1>0, <1>17 DEF Changes
  <1>18. ASSUME plane = "dev" PROVE Changes'
    BY <1>18, PlaneFixed DEF Changes
  <1> QED
    BY <1>0, <1>1, <1>2, <1>3, <1>4, <1>5, <1>6, <1>7, <1>8, <1>9, <1>10, <1>11,
       <1>12, <1>13, <1>14, <1>15, <1>16, <1>17, <1>18, DevOnly
       DEF Next, Apply, Asks, Hears, Handler, TypeOK

\* Where a call answers, its list accounts for the schema.
LEMMA AnsweredStep ==
    ASSUME TypeOK, Planes, Planes', DeployedInv, Answered, [Next]_vars PROVE Answered'
  <1> USE VersionsAssumption DEF vars, fixedVars, schemaVars, runVars, platformVars, devVars
  <1>0. TypeOK /\ Planes /\ Planes' /\ Untouched /\ Changes
    BY DEF DeployedInv
  <1> SUFFICES ASSUME stage' = "answer" PROVE Answered'
    BY DEF Answered
  <1>1. plane = "deployed"
    BY <1>0, PlaneFixed DEF Planes, TypeOK
  <1>2. 1 \in Versions
    BY DEF Versions
  <1>3. ASSUME NEW v \in Versions, RunOneFails(v) PROVE Answered'
    BY <1>0, <1>1, <1>2, <1>3 DEF RunOneFails, Changes, Answered
  <1>4. ASSUME NEW v \in Versions, RunOneInDoubt(v) PROVE Answered'
    <2>1. unsure'
      BY <1>0, <1>1, <1>4 DEF RunOneInDoubt, Planes
    <2>2. \A w \in Versions :
             (IF op = "downgrade" THEN w \in before /\ w \notin db'
                                  ELSE w \in db' /\ w \notin before) => w \in done \/ w = v
      BY <1>0, <1>1, <1>4 DEF RunOneInDoubt, Effect, Changes, TypeOK
    <2> QED
      BY <1>4, <2>1, <2>2 DEF RunOneInDoubt, Answered
  <1>5. CASE ApplyReturns
    BY <1>0, <1>1, <1>2, <1>5 DEF ApplyReturns, Changes, Answered
  <1>6. CASE ProvisionFails
    BY <1>0, <1>2, <1>6 DEF ProvisionFails, Untouched, Answered
  <1>7. CASE UNCHANGED vars
    BY <1>7 DEF Answered
  <1>8. ASSUME NEW v \in Versions PROVE ~RunOne(v)
    BY <1>0, <1>1 DEF RunOne
  <1>9. ASSUME NEW g \in 0..N + 1 PROVE ~WantsVersion(g)
    BY DEF WantsVersion
  <1>10. ~AsksInstall /\ ~AsksUpgrade /\ ~AsksDowngrade /\ ~AsksWithoutSchema /\ ~Deploy
    BY DEF AsksInstall, AsksUpgrade, AsksDowngrade, AsksWithoutSchema, Deploy, Begin
  <1>11. ~HearsSuccess /\ ~HearsFailure /\ ~HearsRefusal /\ ~Provision /\ ~CallLost
    BY DEF HearsSuccess, HearsFailure, HearsRefusal, Provision, CallLost, CallOver
  <1> QED
    BY <1>0, <1>1, <1>3, <1>4, <1>5, <1>6, <1>7, <1>8, <1>9, <1>10, <1>11, DevOnly
       DEF Next, Apply, Asks, Hears, Handler

\* Everything known of a deployed module holds at first and is kept.
THEOREM DeployedCorrect == Spec => [](TypeOK /\ Planes /\ DeployedInv /\ Answered)
  <1>1. Init => Planes /\ DeployedInv /\ Answered
    <2> SUFFICES ASSUME Init PROVE Planes /\ DeployedInv /\ Answered
      OBVIOUS
    <2>1. build \in 1..N /\ mark \in {0, build} /\ (plane = "dev" => mark = 0)
      BY DEF Init, Versions
    <2>2. \A v \in Versions : v \in db <=> v <= mark
      BY <2>1, VersionsAssumption DEF Init, Versions
    <2>3. Planes /\ Answered /\ Changes /\ Split
      BY DEF Init, Planes, Answered, Changes, Split
    <2>4. Asked /\ Bracketed /\ Untouched
      BY <2>1, <2>2, VersionsAssumption DEF Init, Asked, Bracketed, Untouched, Versions
    <2> QED
      BY <2>3, <2>4 DEF DeployedInv
  <1>2. TypeOK /\ Planes /\ DeployedInv /\ Answered /\ [Next]_vars
           => (Planes /\ DeployedInv /\ Answered)'
    BY PlanesStep, AskedStep, BracketedStep, UntouchedStep, SplitStep, ChangesStep,
       AnsweredStep DEF DeployedInv
  <1> QED
    BY <1>1, <1>2, TypeCorrect, PTL DEF Spec

\* LifecycleError's list: every answer of a lifecycle handler names versions
\* that took effect, leaves out at most the one whose commit was in doubt, and
\* a success comes with the SDK's stores; whatever fails, however often.
THEOREM TruthfulAnswers == Spec => []AnswerIsTruthful
  <1>1. TypeOK /\ Planes /\ DeployedInv /\ Answered => AnswerIsTruthful
    <2> SUFFICES ASSUME TypeOK, Planes, DeployedInv, Answered, stage = "answer"
                 PROVE  AnswerIsTruthful
      BY DEF AnswerIsTruthful
    <2>1. plane = "deployed" /\ Split /\ Changes
      BY DEF TypeOK, Planes, DeployedInv
    <2>2. PICK w \in Versions : \A v \in Versions :
             (IF op = "downgrade" THEN v \in before /\ v \notin db
                                  ELSE v \in db /\ v \notin before)
                => v \in done \/ (unsure /\ v = w)
      BY DEF Answered
    <2>3. CASE op = "downgrade"
      <3>1. done \cap db = {}
        BY <2>1, <2>3 DEF Split, TypeOK
      <3>2. before \ db \subseteq done \cup {w} /\ (~unsure => before \ db \subseteq done)
        BY <2>2, <2>3 DEF TypeOK
      <3> QED
        BY <2>3, <3>1, <3>2 DEF AnswerIsTruthful
    <2>4. CASE op # "downgrade"
      <3>1. done \subseteq db
        BY <2>1, <2>4 DEF Split, TypeOK
      <3>2. db \ before \subseteq done \cup {w} /\ (~unsure => db \ before \subseteq done)
        BY <2>2, <2>4 DEF TypeOK
      <3>3. ~err => store
        BY <2>1, <2>4 DEF Changes
      <3> QED
        BY <2>4, <3>1, <3>2, <3>3 DEF AnswerIsTruthful
    <2> QED
      BY <2>3, <2>4
  <1> QED
    BY <1>1, DeployedCorrect, PTL

\* The watermark the platform derives from the answers is the schema's version
\* while no answer that mattered is missing, through any sequence of installs,
\* upgrades, downgrades, half-failed calls and deployments.
THEOREM RealWatermark == Spec => []WatermarkIsReal
  <1>1. TypeOK /\ Planes /\ DeployedInv /\ Answered => WatermarkIsReal
    BY AtMark DEF DeployedInv, Asked, Untouched, WatermarkIsReal
  <1> QED
    BY <1>1, DeployedCorrect, PTL

---------------------------------------------------------------------------
\* The dev plane's steps keep its invariant and account for every effect.
LEMMA DevStep ==
    ASSUME TypeOK, Planes, Planes', DevInv, AppliedIsRecorded, [Next]_vars
    PROVE  DevInv' /\ AppliedIsRecorded'
  <1> USE VersionsAssumption DEF vars, fixedVars, schemaVars, runVars, platformVars, devVars,
         DevInv, AppliedIsRecorded, Files, TypeOK, Planes
  <1> SUFFICES ASSUME plane = "dev", plane' = "dev" PROVE DevInv' /\ AppliedIsRecorded'
    BY PlaneFixed
  <1>1. ASSUME NEW v \in Versions, RunOne(v) PROVE DevInv' /\ AppliedIsRecorded'
    BY <1>1 DEF RunOne, First, Effect
  <1>2. ASSUME NEW v \in Versions, RunOneFails(v) PROVE DevInv' /\ AppliedIsRecorded'
    BY <1>2 DEF RunOneFails, First, Returned
  <1>3. ASSUME NEW v \in Versions, RunOneInDoubt(v) PROVE DevInv' /\ AppliedIsRecorded'
    BY <1>3 DEF RunOneInDoubt, First, Effect, Returned
  <1>4. ASSUME NEW v \in Versions, RecordApplied(v) PROVE DevInv' /\ AppliedIsRecorded'
    BY <1>4 DEF RecordApplied
  <1>5. CASE ApplyReturns
    BY <1>5 DEF ApplyReturns, Returned
  <1>6. CASE Boot
    BY <1>6 DEF Boot
  <1>7. CASE FirstTouch
    BY <1>7 DEF FirstTouch, Begin
  <1>8. CASE LoadApplied
    BY <1>8 DEF LoadApplied
  <1>9. CASE DriftCheck
    BY <1>9 DEF DriftCheck, ModuleHasTables
  <1>10. CASE ClearApplied
    BY <1>10 DEF ClearApplied
  <1>11. CASE DevStepFails
    BY <1>11 DEF DevStepFails, DevFails, CallOver
  <1>12. CASE RecordReturns
    BY <1>12 DEF RecordReturns, DevFails, CallOver
  <1>13. CASE RecordFails
    BY <1>13 DEF RecordFails, DevFails, CallOver
  <1>14. CASE EnsureStores
    BY <1>14 DEF EnsureStores, CallOver
  <1>15. CASE Exit
    BY <1>15 DEF Exit, CallOver
  <1>16. CASE DropTables
    BY <1>16 DEF DropTables
  <1>17. CASE UNCHANGED vars
    BY <1>17
  <1>18. ~Asks /\ ~AsksWithoutSchema /\ ~Hears /\ ~Handler /\ ~CallLost /\ ~Deploy
    BY DEF Asks, AsksInstall, AsksUpgrade, AsksDowngrade, AsksWithoutSchema, Hears,
           HearsSuccess, HearsFailure, HearsRefusal, Handler, Provision, ProvisionFails,
           CallLost, Deploy
  <1>19. \A g \in 0..N + 1 : ~WantsVersion(g)
    BY DEF WantsVersion
  <1> QED
    BY <1>1, <1>2, <1>3, <1>4, <1>5, <1>6, <1>7, <1>8, <1>9, <1>10, <1>11, <1>12,
       <1>13, <1>14, <1>15, <1>16, <1>17, <1>18, <1>19 DEF Next, Apply, DevSteps

\* The dev plane: a request is let through only over a fully migrated schema
\* with the SDK's stores, also when the tracking rows it started from were
\* stale.
THEOREM ReadyIsMigrated == Spec => []ReadyMeansMigrated
  <1>1. Init => Planes /\ DevInv /\ AppliedIsRecorded
    BY VersionsAssumption DEF Init, Planes, DevInv, AppliedIsRecorded
  <1>2. TypeOK /\ Planes /\ DevInv => ReadyMeansMigrated
    BY DEF TypeOK, Planes, DevInv, ReadyMeansMigrated
  <1> QED
    BY <1>1, <1>2, PlanesStep, DevStep, TypeCorrect, PTL DEF Spec

\* The dev plane: no migration in effect goes unrecorded but by a crash, a
\* failed recording, a commit in doubt, or the self-heal.
THEOREM EffectsRecorded == Spec => []AppliedIsRecorded
  <1>1. Init => Planes /\ DevInv /\ AppliedIsRecorded
    BY VersionsAssumption DEF Init, Planes, DevInv, AppliedIsRecorded
  <1> QED
    BY <1>1, PlanesStep, DevStep, TypeCorrect, PTL DEF Spec

=============================================================================
