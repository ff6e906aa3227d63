----------------------- MODULE ClusterDataset_proofs ------------------------
(***************************************************************************)
(* Theorems about ClusterDataset, for every list of steps and every number *)
(* of launches: what a COMPLETED row and a message stand for.              *)
(***************************************************************************)
EXTENDS ClusterDataset, AdgCluster_proofs

\* Every step of the composition is one of the cluster, or leaves it alone.
LEMMA StepOfCluster == DeliveryNext => [Next]_vars
<1> SUFFICES ASSUME DeliveryNext PROVE [Next]_vars OBVIOUS
<1>1. CASE WorkOnDataset BY <1>1 DEF WorkOnDataset
<1>2. CASE FinishDataset BY <1>2 DEF FinishDataset, Next, Steps
<1>3. CASE send_sns_message
  BY <1>3, DeliveryAssumption DEF send_sns_message, Next, Steps, StepProgram
<1>4. CASE Elsewhere
  BY <1>4 DEF Elsewhere, StepGoesOn, OperatorStops, LoseMaster, Next, Steps,
              StepProgram, External
<1> QED BY <1>1, <1>2, <1>3, <1>4 DEF DeliveryNext

\* What is proved of the cluster by itself holds of the composition.
THEOREM DeliveryIsACluster == DeliverySpec => Spec
<1>1. DeliveryInit => Init BY DEF DeliveryInit
<1>2. [DeliveryNext]_deliveryVars => [Next]_vars
  BY StepOfCluster DEF deliveryVars
<1> QED BY <1>1, <1>2, PTL DEF DeliverySpec, Spec

\* The composition is a resumable pipeline too.
THEOREM DeliveryIsAPipeline ==
  ASSUME ResumeSafe PROVE DeliverySpec => ImplementsPipeline
BY DeliveryIsACluster, SafeDeploymentImplementsPipeline

-----------------------------------------------------------------------------
(***************************************************************************)
(* spark-submit uses the dataset as RetriedDataset has it, in every        *)
(* deployment and whatever fails.                                          *)
(***************************************************************************)

\* A prefix is the number of a launch, and spark-submit has one when it works.
PrefixesAreLaunches ==
  /\ outputFile \in 0 .. run /\ \A d \in Products : table[d].prefix \in 0 .. run
  /\ stepState[SubmitJob] = "RUNNING" /\ pc = "work" => outputFile # 0

LEMMA PrefixesAreLaunchesKept ==
  ASSUME TypeOK, StepsInOrder, PrefixesAreLaunches, [Next]_vars
  PROVE  PrefixesAreLaunches'
<1>0. /\ run \in Nat \ {0} /\ SubmitJob \in Positions /\ SubmitJob \notin ShellSteps
  BY BoundsAssumption, KindsAssumption DEF TypeOK
<1>1. ASSUME UNCHANGED <<run, table, outputFile>>,
             (stepState'[SubmitJob] = "RUNNING" /\ pc' = "work") =>
               (stepState[SubmitJob] = "RUNNING" /\ pc = "work")
      PROVE  PrefixesAreLaunches'
  BY <1>1 DEF PrefixesAreLaunches
<1>2. ASSUME NEW p \in Positions, StartStep(p) PROVE PrefixesAreLaunches'
  <2>1. UNCHANGED <<run, table, outputFile>> /\ pc' # "work"
    BY <1>2 DEF StartStep, diskVars
  <2>. QED BY <1>1, <2>1
<1>3. ASSUME NEW p \in Positions, CheckResume(p) PROVE PrefixesAreLaunches'
  <2>1. /\ UNCHANGED <<run, table, outputFile, stepState>>
        /\ stepState[p] = "RUNNING"
        /\ pc' = "work" => p # SubmitJob
    BY <1>3 DEF CheckResume, Running, emrVars
  <2>2. stepState[SubmitJob] = "RUNNING" => p = SubmitJob
    BY <1>0, <2>1, OneRunning
  <2>. QED BY <1>1, <2>1, <2>2
<1>4. ASSUME NEW p \in Positions, ShellWork(p) \/ SendNotification(p)
      PROVE  PrefixesAreLaunches'
  BY <1>1, <1>4 DEF ShellWork, SendNotification, emrVars, diskVars
<1>5. ASSUME NEW p \in Positions, StepEnd(p) PROVE PrefixesAreLaunches'
  BY <1>1, <1>5 DEF StepEnd, StepCompletes, StepFails, CancelStep, diskVars
<1>6. CASE WriteIdFile \/ PublishDataset
  BY <1>1, <1>6 DEF WriteIdFile, PublishDataset, emrVars, diskVars
<1>7. CASE LocateOutput
  <2>1. /\ UNCHANGED <<run, table, stepState>>
        /\ outputFile' \in {run, table[Product].prefix} /\ outputFile' # 0
    BY <1>0, <1>7 DEF LocateOutput, get_output_prefix, NoRow, emrVars
  <2>. QED BY <1>0, <2>1 DEF PrefixesAreLaunches, Products
<1>8. CASE ClusterEnd \/ UNCHANGED vars
  BY <1>1, <1>8 DEF ClusterEnd, TerminateEarly, TerminateNormally, KillCluster,
                    diskVars, vars, emrVars
<1>9. CASE Relaunch
  <2>1. run' = run + 1 /\ outputFile' = 0 /\ pc' = "idle" /\ UNCHANGED table
    BY <1>9 DEF Relaunch
  <2>. QED BY <1>0, <2>1 DEF PrefixesAreLaunches
<1>10. CASE DeleteRow
  BY <1>10 DEF DeleteRow, NoRow, PrefixesAreLaunches, TypeOK, emrVars, diskVars
<1>11. CASE StartRun \/ PutItem
  <2>1. /\ UNCHANGED <<run, outputFile, stepState, pc>>
        /\ \A d \in Products : table'[d].prefix \in {table[d].prefix, outputFile}
    BY <1>11 DEF StartRun, PutItem, Update, dynamo_update_item, TypeOK, emrVars,
                 diskVars
  <2>. QED BY <1>0, <2>1 DEF PrefixesAreLaunches
<1>12. CASE GetItem
  BY <1>1, <1>12 DEF GetItem, emrVars
<1>13. CASE \/ WaitForIdFiles \/ ReadIdFiles \/ ReadStepFile \/ UnparsableStepFile
            \/ \E p \in Positions : OpenStepFile(p)
  BY <1>1, <1>13 DEF WaitForIdFiles, ReadIdFiles, ReadStepFile, UnparsableStepFile,
                     OpenStepFile, emrVars, diskVars
<1>. QED
  BY <1>2, <1>3, <1>4, <1>5, <1>6, <1>7, <1>8, <1>9, <1>10, <1>11, <1>12, <1>13
  DEF Next, Steps, StepProgram, Emr, Monitor, External, StepEnd, ClusterEnd

LEMMA PrefixesAreLaunchesHolds == Spec => []PrefixesAreLaunches
<1>1. Init => PrefixesAreLaunches
  BY DEF Init, PrefixesAreLaunches, NoRow
<1>2. TypeOK /\ StepsInOrder /\ PrefixesAreLaunches /\ [Next]_vars
        => PrefixesAreLaunches'
  BY PrefixesAreLaunchesKept
<1>. QED BY <1>1, <1>2, TypeCorrect, OrderHolds, PTL DEF Spec

\* What the cluster does to dataset and file is what RetriedDataset allows and
\* DatasetRun does: nothing but spark-submit touches them, and it always has a
\* prefix of its own chain of launches.
THEOREM DeliveryImplementsDataset == DeliverySpec => Dataset!Spec
<1>1. DeliveryInit => Dataset!Init
  BY DEF DeliveryInit
<1>2. TypeOK /\ PrefixesAreLaunches /\ [DeliveryNext]_deliveryVars
        => [Dataset!Next]_<<whole, announced>>
  <2>. SUFFICES ASSUME TypeOK, PrefixesAreLaunches, [DeliveryNext]_deliveryVars
                PROVE  [Dataset!Next]_<<whole, announced>>
    OBVIOUS
  <2>1. stepState[SubmitJob] = "RUNNING" /\ pc = "work" => outputFile \in Prefixes
    BY BoundsAssumption DEF PrefixesAreLaunches, TypeOK, Prefixes
  <2>2. CASE WorkOnDataset
    BY <2>1, <2>2 DEF WorkOnDataset, Running, Dataset!Next
  <2>3. CASE FinishDataset
    BY <2>1, <2>3 DEF FinishDataset, PublishDataset, Running, Dataset!Next
  <2>4. CASE send_sns_message \/ Elsewhere \/ UNCHANGED deliveryVars
    BY <2>4 DEF send_sns_message, Elsewhere, deliveryVars, datasetVars
  <2>. QED BY <2>2, <2>3, <2>4 DEF DeliveryNext
<1>. QED
  BY <1>1, <1>2, DeliveryIsACluster, TypeCorrect, PrefixesAreLaunchesHolds, PTL
  DEF DeliverySpec, Dataset!Spec

\* What RetriedDataset is worth to its readers: the prefix they go by is whole, at
\* every moment from its announcement to the next one.
THEOREM AnnouncedStaysWhole ==
  Dataset!Spec => [](announced # 0 => announced \in Prefixes /\ whole[announced] = Wanted)
<1> DEFINE Promise ==
      /\ whole \in [Prefixes -> SUBSET Wanted]
      /\ announced # 0 => announced \in Prefixes /\ whole[announced] = Wanted
<1>1. Dataset!Init => Promise
  BY DEF Dataset!Init
<1>2. Promise /\ [Dataset!Next]_<<whole, announced>> => Promise'
  <2>. SUFFICES ASSUME Promise, [Dataset!Next]_<<whole, announced>> PROVE Promise'
    OBVIOUS
  <2>1. ASSUME NEW p \in Prefixes, Dataset!Work(p) PROVE Promise'
    BY <2>1 DEF Dataset!Work
  <2>2. ASSUME NEW p \in Prefixes, Dataset!Announce(p) PROVE Promise'
    BY <2>2 DEF Dataset!Announce
  <2>. QED BY <2>1, <2>2 DEF Dataset!Next
<1>3. Promise => (announced # 0 => announced \in Prefixes /\ whole[announced] = Wanted)
  OBVIOUS
<1>. QED BY <1>1, <1>2, <1>3, PTL DEF Dataset!Spec

-----------------------------------------------------------------------------
(***************************************************************************)
(* The steps of the composition, by what they change.                      *)
(***************************************************************************)

\* The part of the invariant that is about prefixes.
PrefixInvariant ==
  /\ DeliveryTypeOK
  /\ PrefixesInOrder /\ Announced /\ MessagesAreKept /\ RowsAreDelivered

\* Nothing that has to do with prefixes changes.
Quiet == UNCHANGED <<table, run, outputFile, whole, announced, messages>>

LEMMA QuietKeeps ==
  ASSUME Quiet, PrefixInvariant PROVE PrefixInvariant'
BY DEF Quiet, PrefixInvariant, DeliveryTypeOK, PrefixesInOrder, Announced,
       MessagesAreKept, RowsAreDelivered, Delivered, HasDataset, HasMessage,
       IsWhole, Untouched

\* The script's steps that send nothing.
ScriptReads ==
  \/ WaitForIdFiles \/ ReadIdFiles \/ ReadStepFile
  \/ \E p \in Positions : OpenStepFile(p)

LEMMA DeliverySteps ==
  ASSUME DeliverySafe, [DeliveryNext]_deliveryVars
  PROVE  \/ WorkOnDataset
         \/ FinishDataset
         \/ send_sns_message
         \/ /\ \/ \E p \in Positions : StartStep(p)
               \/ \E p \in Positions : CheckResume(p)
               \/ \E p \in Positions : ShellWork(p)
               \/ \E p \in Positions : StepEnd(p)
               \/ WriteIdFile \/ LocateOutput \/ ClusterEnd \/ Relaunch
               \/ GetItem \/ StartRun \/ PutItem \/ ScriptReads
            /\ UNCHANGED <<whole, announced, messages>>
         \/ UNCHANGED <<vars, whole, announced, messages>>
BY DEF DeliveryNext, Elsewhere, StepGoesOn, OperatorStops, LoseMaster, Emr,
       Monitor, ScriptReads, StepEnd, ClusterEnd, deliveryVars, datasetVars

\* A step starts when none runs.
LEMMA NoneRunsAtStart ==
  ASSUME TypeOK, StepsInOrder, NEW p \in Positions, StartStep(p), NEW q \in Positions
  PROVE  stepState[q] # "RUNNING"
<1> SUFFICES ASSUME stepState[q] = "RUNNING" PROVE FALSE OBVIOUS
<1>1. stepState[p] = "ABSENT" /\ \A r \in 1 .. (p - 1) : Ended(r)
  BY DEF StartStep
<1>2. CASE q < p BY <1>1, <1>2 DEF Ended, Positions
<1>3. CASE p < q BY <1>1, <1>3 DEF StepsInOrder, Ended, Positions
<1> QED BY <1>1, <1>2, <1>3 DEF Positions

\* The positions of the two steps the module is about.
LEMMA PositionsFacts ==
  /\ SubmitJob \in Positions /\ Notify \in Positions
  /\ SubmitJob \in 1 .. (Notify - 1) /\ SubmitJob # Notify
  /\ SubmitJob \notin SwitchedOff /\ Notify \notin SwitchedOff
  /\ SubmitJob \notin ShellSteps /\ Notify \notin ShellSteps
  /\ Positions \subseteq Nat /\ NSteps \in Nat
BY DeliveryAssumption, KindsAssumption, StepsAssumption DEF Positions

\* In a safe deployment the steps before one that has started are complete.
LEMMA CompleteBefore ==
  ASSUME DeliverySafe, StepsInOrder, StepResults,
         NEW p \in Positions, stepState[p] # "ABSENT",
         NEW q \in Positions, q < p
  PROVE  stepState[q] = "COMPLETED"
<1>1. Ended(q) BY DEF StepsInOrder, Positions
<1>2. stepState[q] = "FAILED" => q \notin OnFailContinue
  BY DEF StepResults, DeliverySafe, ResumeSafe
<1> QED BY <1>1, <1>2 DEF Ended

\* A step that is looked for by the name in step_to_start_from.txt is ahead of one
\* that skips itself.
LEMMA SkippedIsBefore ==
  ASSUME TypeOK, DeliverySafe, StepsInOrder, ResumeFileInTime,
         NEW q \in Positions, Running(q), pc = "check",
         should_skip_step(ResumeName[q])
  PROVE  /\ mPc \notin {"wait", "ids", "get"}
         /\ \E p \in Positions : resumeFile = StepName[p] /\ q < p
<1>1. resumeFile # NoFile /\ resumeFile # ResumeName[q]
  BY DEF should_skip_step
<1>2. PICK p \in Stoppable : /\ resumeFile = StepName[p]
                             /\ \/ stepState[p] = "ABSENT"
                                \/ stepState[p] = "RUNNING" /\ pc = "check"
  BY <1>1 DEF ResumeFileInTime
<1>3. p \in Positions /\ ResumeName[p] = StepName[p]
  BY KindsAssumption DEF Stoppable, DeliverySafe, ResumeSafe
<1>4. p # q BY <1>1, <1>2, <1>3
<1>5. stepState[p] = "ABSENT"
  BY <1>2, <1>3, <1>4, OneRunning DEF Running
<1>6. ~(p < q)
  BY <1>3, <1>5 DEF StepsInOrder, Ended, Running, Positions
<1>7. mPc \notin {"wait", "ids", "get"} BY <1>1 DEF ResumeFileInTime
<1> QED BY <1>2, <1>3, <1>4, <1>6, <1>7 DEF Positions

-----------------------------------------------------------------------------
(***************************************************************************)
(* The invariant, action by action.                                        *)
(***************************************************************************)

\* The part of the invariant that is about the cluster.
ProgressInvariant == SubmitIsInOrder /\ SkippedIsDelivered /\ PutIsSeen

\* What follows from the rest when neither prefixes nor the script's row change.
LEMMA SkippedFrame ==
  ASSUME Quiet, UNCHANGED <<mProduct, resumeFile, skipped>>,
         mPc' = mPc \/ mPc' \notin {"wait", "ids", "get"} \/ mPc \in {"wait", "ids"},
         mPc \in {"wait", "ids", "get"} \/ mPc' \notin {"wait", "ids", "get"},
         SkippedIsDelivered
  PROVE  SkippedIsDelivered'
BY DEF Quiet, SkippedIsDelivered, Delivered, HasDataset, HasMessage, IsWhole,
       Untouched

LEMMA StartKept ==
  ASSUME TypeOK, StepsInOrder, ProgressInvariant, NEW p \in Positions, StartStep(p),
         UNCHANGED <<whole, announced, messages>>
  PROVE  Quiet /\ ProgressInvariant'
<1>1. Quiet /\ UNCHANGED <<mProduct, resumeFile, skipped, mPc, mPut>>
  BY DEF StartStep, Quiet, diskVars, historyVars, monitorVars
<1>2. /\ stepState \in [Positions -> StepFileState]
      /\ stepState[p] = "ABSENT" /\ stepState' = [stepState EXCEPT ![p] = "RUNNING"]
      /\ pc' = "leave" => p \in SwitchedOff
      /\ pc' # "work"
  BY DEF StartStep, TypeOK
<1>3. \A q \in Positions : stepState[q] # "RUNNING"
  BY NoneRunsAtStart
<1>4. SubmitIsInOrder'
  BY <1>1, <1>2, <1>3, PositionsFacts
     DEF ProgressInvariant, SubmitIsInOrder, Past, Quiet
<1>5. SkippedIsDelivered'
  BY <1>1, SkippedFrame DEF ProgressInvariant
<1>6. PutIsSeen'
  BY <1>1, <1>2, PositionsFacts DEF ProgressInvariant, PutIsSeen
<1> QED BY <1>1, <1>4, <1>5, <1>6 DEF ProgressInvariant

LEMMA WriteIdKept ==
  ASSUME ProgressInvariant, WriteIdFile, UNCHANGED <<whole, announced, messages>>
  PROVE  Quiet /\ ProgressInvariant'
<1>1. Quiet /\ UNCHANGED <<mProduct, resumeFile, skipped, mPc, mPut, stepState>>
      /\ pc = "ids" /\ pc' \in {"ids", "check"}
  BY DEF WriteIdFile, Quiet, emrVars, historyVars, monitorVars
<1>2. SubmitIsInOrder'
  BY <1>1 DEF ProgressInvariant, SubmitIsInOrder, Past, Quiet
<1>3. SkippedIsDelivered'
  BY <1>1, SkippedFrame DEF ProgressInvariant
<1>4. PutIsSeen'
  BY <1>1 DEF ProgressInvariant, PutIsSeen
<1> QED BY <1>1, <1>2, <1>3, <1>4 DEF ProgressInvariant

LEMMA ShellKept ==
  ASSUME StepsInOrder, ProgressInvariant, NEW p \in Positions, ShellWork(p),
         UNCHANGED <<whole, announced, messages>>
  PROVE  Quiet /\ ProgressInvariant'
<1>1. /\ Quiet /\ UNCHANGED <<mProduct, resumeFile, skipped, mPc, mPut, stepState>>
      /\ pc = "work" /\ pc' = "leave" /\ p \in ShellSteps /\ stepState[p] = "RUNNING"
  BY DEF ShellWork, Running, Quiet, emrVars, diskVars, monitorVars
<1>2. stepState[SubmitJob] # "RUNNING" /\ stepState[Notify] # "RUNNING"
  <2>1. p # SubmitJob /\ p # Notify
    BY <1>1, PositionsFacts
  <2> QED BY <1>1, <2>1, PositionsFacts, OneRunning
<1>3. SubmitIsInOrder'
  BY <1>1, <1>2 DEF ProgressInvariant, SubmitIsInOrder, Past, Quiet
<1>4. SkippedIsDelivered'
  BY <1>1, SkippedFrame DEF ProgressInvariant
<1>5. PutIsSeen'
  BY <1>1 DEF ProgressInvariant, PutIsSeen
<1> QED BY <1>1, <1>3, <1>4, <1>5 DEF ProgressInvariant

\* A step that ends is not one whose verdict is about to be written.
LEMMA EndKept ==
  ASSUME TypeOK, StepsInOrder, ProgressInvariant, NEW p \in Positions, StepEnd(p),
         UNCHANGED <<whole, announced, messages>>
  PROVE  Quiet /\ ProgressInvariant'
<1>1. Quiet /\ UNCHANGED <<mProduct, resumeFile, skipped, mPc, mPut>>
  BY DEF StepEnd, StepCompletes, StepFails, CancelStep, Quiet, diskVars,
         historyVars, monitorVars
<1>2. /\ stepState \in [Positions -> StepFileState]
      /\ stepState[p] = "RUNNING" /\ pc' = "idle"
      /\ \/ pc = "leave" /\ stepState' = [stepState EXCEPT ![p] = "COMPLETED"]
         \/ /\ pc \in {"locate", "work"}
            /\ \E s \in {"FAILED", "CANCELLED"} :
                 stepState' = [stepState EXCEPT ![p] = s]
  BY DEF StepEnd, StepCompletes, StepFails, CancelStep, Running, TypeOK
<1>7. \A q \in Positions : q # p => stepState[q] # "RUNNING"
  BY <1>2, OneRunning
<1>3. SubmitIsInOrder'
  BY <1>1, <1>2, <1>7, PositionsFacts
     DEF ProgressInvariant, SubmitIsInOrder, Past, Quiet
<1>4. SkippedIsDelivered'
  BY <1>1, SkippedFrame DEF ProgressInvariant
<1>5. PutIsSeen'
  BY <1>1, <1>2, PositionsFacts DEF ProgressInvariant, PutIsSeen
<1> QED BY <1>1, <1>3, <1>4, <1>5 DEF ProgressInvariant

LEMMA ClusterEndKept ==
  ASSUME ProgressInvariant, ClusterEnd, UNCHANGED <<whole, announced, messages>>
  PROVE  Quiet /\ ProgressInvariant'
<1>1. Quiet /\ UNCHANGED <<mProduct, resumeFile, skipped, mPc, mPut, stepState, pc>>
  BY DEF ClusterEnd, TerminateEarly, TerminateNormally, KillCluster, Quiet,
         diskVars, historyVars, monitorVars
<1>2. SubmitIsInOrder'
  BY <1>1 DEF ProgressInvariant, SubmitIsInOrder, Past, Quiet
<1>3. SkippedIsDelivered'
  BY <1>1, SkippedFrame DEF ProgressInvariant
<1>4. PutIsSeen'
  BY <1>1 DEF ProgressInvariant, PutIsSeen
<1> QED BY <1>1, <1>2, <1>3, <1>4 DEF ProgressInvariant

\* A step is skipped because a row stands for its work.
LEMMA CheckKept ==
  ASSUME TypeOK, DeliverySafe, StepsInOrder, ResumeFileInTime, ProgressInvariant,
         NEW p \in Positions, CheckResume(p),
         UNCHANGED <<whole, announced, messages>>
  PROVE  Quiet /\ ProgressInvariant'
<1>1. Quiet /\ UNCHANGED <<mProduct, mPc, mPut, stepState>>
      /\ pc = "check" /\ stepState[p] = "RUNNING" /\ Running(p)
  BY DEF CheckResume, Running, Quiet, emrVars, monitorVars
<1>2. \A q \in Positions : stepState[q] = "RUNNING" => q = p
  BY <1>1, OneRunning
<1>3. PutIsSeen'
  BY <1>1 DEF ProgressInvariant, PutIsSeen
<1>4. SubmitJob = p => outputFile = 0
  BY <1>1 DEF ProgressInvariant, SubmitIsInOrder
<1>5. CASE should_skip_step(ResumeName[p])
  <2>1. skipped' = skipped \cup {p} /\ pc' = "leave" /\ UNCHANGED resumeFile
    BY <1>5 DEF CheckResume
  <2>2. PICK q \in Positions : resumeFile = StepName[q] /\ p < q
    BY <1>1, <1>5, SkippedIsBefore
  <2>3. mPc \notin {"wait", "ids", "get"}
    BY <1>1, <1>5, SkippedIsBefore
  <2>4. mProduct = Product \/ outputFile = 0 =>
          Delivered(mProduct, table[mProduct].prefix, q)
    BY <2>2 DEF ProgressInvariant, SkippedIsDelivered
  <2>5. p = SubmitJob => HasDataset(mProduct, table[mProduct].prefix)
    BY <1>4, <2>2, <2>4 DEF Delivered
  <2>6. p = Notify => HasMessage(mProduct, table[mProduct].prefix)
    BY <2>2, <2>4 DEF Delivered, HasMessage
  <2>7. SubmitIsInOrder'
    BY <1>1, <1>2, <1>4, <2>1, PositionsFacts
       DEF ProgressInvariant, SubmitIsInOrder, Past, Quiet
  <2>8. SkippedIsDelivered'
    BY <1>1, <2>1, <2>3, <2>5, <2>6
       DEF ProgressInvariant, SkippedIsDelivered, Delivered, HasDataset,
           HasMessage, IsWhole, Untouched, Quiet
  <2> QED BY <1>1, <1>3, <2>7, <2>8 DEF ProgressInvariant
<1>6. CASE ~should_skip_step(ResumeName[p])
  <2>1. /\ resumeFile' = NoFile /\ UNCHANGED skipped
        /\ pc' = IF p = SubmitJob THEN "locate" ELSE "work"
    BY <1>6 DEF CheckResume
  <2>2. \A q \in Positions : resumeFile' # StepName[q]
    BY <2>1, StepsAssumption DEF Names
  <2>3. SubmitIsInOrder'
    BY <1>1, <1>2, <1>4, <2>1, PositionsFacts
       DEF ProgressInvariant, SubmitIsInOrder, Past, Quiet
  <2>4. SkippedIsDelivered'
    BY <1>1, <2>1, <2>2
       DEF ProgressInvariant, SkippedIsDelivered, HasDataset,
           HasMessage, IsWhole, Untouched, Quiet
  <2> QED BY <1>1, <1>3, <2>3, <2>4 DEF ProgressInvariant
<1> QED BY <1>5, <1>6

\* The script reads the row, and writes step_to_start_from.txt.
LEMMA GetItemKept ==
  ASSUME TypeOK, DeliverySafe, ResumeFileInTime, RowsAreDelivered, ProgressInvariant,
         GetItem, UNCHANGED <<whole, announced, messages>>
  PROVE  Quiet /\ ProgressInvariant'
<1>1. Quiet /\ UNCHANGED <<mProduct, skipped, mPut, stepState, pc>>
      /\ mPc = "get" /\ mPc' = "start"
  BY DEF GetItem, MonitorAt, Quiet, emrVars, historyVars
<1>2. SubmitIsInOrder'
  BY <1>1 DEF ProgressInvariant, SubmitIsInOrder, Past, Quiet
<1>3. PutIsSeen'
  BY <1>1 DEF ProgressInvariant, PutIsSeen
<1>4. resumeFile = NoFile /\ mProduct \in Products
  BY <1>1 DEF ResumeFileInTime, TypeOK
<1>5. ASSUME NEW p \in Positions, resumeFile' = StepName[p]
      PROVE  Delivered(mProduct, table[mProduct].prefix, p)
  <2>1. resumeFile' # resumeFile
    BY <1>4, <1>5, StepsAssumption DEF Names
  <2>2. table[mProduct].status = "FAILED" /\ resumeFile' = table[mProduct].step
    BY <2>1 DEF GetItem
  <2> QED BY <1>4, <1>5, <2>2 DEF RowsAreDelivered
<1>6. skipped = {}
  BY <1>1 DEF ProgressInvariant, SkippedIsDelivered
<1>7. SkippedIsDelivered'
  BY <1>1, <1>5, <1>6
     DEF SkippedIsDelivered, Delivered, HasDataset, HasMessage, IsWhole,
         Untouched, Quiet
<1> QED BY <1>1, <1>2, <1>3, <1>7 DEF ProgressInvariant

\* The other steps of the script: a verdict it is about to write is in the file it
\* has just read.
LEMMA ScriptReadsKept ==
  ASSUME TypeOK, ResumeFileInTime, ProgressInvariant, ScriptReads,
         UNCHANGED <<whole, announced, messages>>
  PROVE  Quiet /\ ProgressInvariant'
<1>1. Quiet /\ UNCHANGED <<resumeFile, skipped, stepState, pc>>
  BY DEF ScriptReads, WaitForIdFiles, ReadIdFiles, ReadStepFile, OpenStepFile,
         Quiet, emrVars, diskVars, historyVars
<1>2. SubmitIsInOrder'
  BY <1>1 DEF ProgressInvariant, SubmitIsInOrder, Past, Quiet
<1>3. CASE ReadIdFiles
  <2>1. /\ mPc = "ids" /\ mPc' = "get" /\ resumeFile = NoFile
    BY <1>3 DEF ReadIdFiles, MonitorAt, ResumeFileInTime
  <2>2. skipped = {} /\ \A p \in Positions : resumeFile # StepName[p]
    BY <2>1, StepsAssumption DEF ProgressInvariant, SkippedIsDelivered, Names
  <2>3. SkippedIsDelivered'
    BY <1>1, <2>1, <2>2 DEF SkippedIsDelivered
  <2>4. PutIsSeen'
    BY <2>1 DEF PutIsSeen
  <2> QED BY <1>1, <1>2, <2>3, <2>4 DEF ProgressInvariant
<1>4. CASE WaitForIdFiles \/ \E p \in Positions : OpenStepFile(p)
  <2>1. /\ mPc' # "put" /\ UNCHANGED mProduct
        /\ \/ mPc = "wait" /\ mPc' = "ids"
           \/ mPc = "poll" /\ mPc' = "body"
    BY <1>4 DEF WaitForIdFiles, OpenStepFile, MonitorAt
  <2>2. SkippedIsDelivered'
    BY <1>1, <2>1, SkippedFrame DEF ProgressInvariant
  <2> QED BY <1>1, <1>2, <2>1, <2>2 DEF ProgressInvariant, PutIsSeen
<1>5. CASE ReadStepFile
  <2>1. /\ mPc = "body" /\ mPc' \in {"put", "poll", "body"} /\ UNCHANGED mProduct
        /\ mAt \in Positions
    BY <1>5 DEF ReadStepFile, MonitorAt, TypeOK
  <2>2. SkippedIsDelivered'
    BY <1>1, <2>1, SkippedFrame DEF ProgressInvariant
  <2>3. mPc' = "put" =>
          \/ IsFailure(stepState[mAt])
             /\ mPut'.status = "FAILED" /\ mPut'.step = StepName[mAt]
          \/ stepState[mAt] = "COMPLETED" /\ StepName[mAt] = StepName[Notify]
             /\ mPut'.status = "COMPLETED"
          \/ mPut'.status = NotSet
    BY <1>5, <2>1, DeliveryAssumption DEF ReadStepFile, IsFinalStep
  <2>4. StepName[mAt] = StepName[Notify] => mAt = Notify
    BY <2>1, PositionsFacts, StepsAssumption
  <2>5. PutIsSeen'
    BY <1>1, <2>1, <2>3, <2>4 DEF PutIsSeen, IsFailure, NotSet
  <2> QED BY <1>1, <1>2, <2>2, <2>5 DEF ProgressInvariant
<1> QED BY <1>3, <1>4, <1>5 DEF ScriptReads

-----------------------------------------------------------------------------
(***************************************************************************)
(* The actions that change a prefix, or what lies under one.               *)
(***************************************************************************)

\* Prefix 0 stands for none.
LEMMA WholeIsNotZero ==
  ASSUME BoundsAssumption, NEW prefix, IsWhole(prefix) PROVE prefix # 0
BY DEF IsWhole, Prefixes

\* The prefix spark-submit is given is new, or the one in the row.
LEMMA LocateKept ==
  ASSUME TypeOK, DeliverySafe, PrefixInvariant, ProgressInvariant, LocateOutput,
         UNCHANGED <<whole, announced, messages>>
  PROVE  PrefixInvariant' /\ ProgressInvariant'
<1>1. /\ UNCHANGED <<table, run, stepState, skipped, resumeFile, mProduct, mPc, mPut>>
      /\ pc = "locate" /\ pc' = "work" /\ stepState[SubmitJob] = "RUNNING"
  BY DEF LocateOutput, Running, emrVars, historyVars, monitorVars
<1>2. outputFile' = IF table[Product].prefix = 0 THEN run ELSE table[Product].prefix
  BY DEF LocateOutput, DeliverySafe, get_output_prefix
<1>3. outputFile = 0 /\ SubmitJob \notin skipped
  BY <1>1 DEF ProgressInvariant, SubmitIsInOrder, Past
<1>4. /\ run \in Nat \ {0} /\ table[Product].prefix \in Nat
      /\ \A d \in Products : table[d].prefix \in Nat
  BY BoundsAssumption DEF TypeOK, Products, Row
<1>5. outputFile' \in 1 .. run
  BY <1>2, <1>4 DEF PrefixInvariant, PrefixesInOrder, Products
<1>6. \A prefix \in messages \cup {announced} \cup {table[d].prefix : d \in Products} :
        prefix # run
  BY <1>3 DEF PrefixInvariant, PrefixesInOrder
<1>7. \A prefix \in messages \cup {announced} \cup {table[d].prefix : d \in Products} :
        Untouched(prefix) => Untouched(prefix)'
  BY <1>1, <1>2, <1>6 DEF Untouched
<1>8. PrefixesInOrder'
  BY <1>1, <1>2, <1>5 DEF PrefixInvariant, PrefixesInOrder
<1>9. \A d \in Products :
        HasDataset(d, table[d].prefix) => HasDataset(d, table[d].prefix)'
  BY <1>1, <1>7 DEF HasDataset, IsWhole
<1>10. RowsAreDelivered'
  BY <1>1, <1>9
     DEF PrefixInvariant, RowsAreDelivered, Delivered, HasMessage
<1>11. MessagesAreKept'
  BY <1>1, <1>7 DEF PrefixInvariant, MessagesAreKept, IsWhole
<1>12. SubmitIsInOrder'
  BY <1>1, <1>3, <1>5 DEF ProgressInvariant, SubmitIsInOrder, Past
<1>13. mProduct \in Products
  BY DEF TypeOK
<1>14. SkippedIsDelivered'
  BY <1>1, <1>3, <1>5, <1>9, <1>13
     DEF ProgressInvariant, SkippedIsDelivered, Delivered, HasMessage
<1>15. PutIsSeen'
  BY <1>1 DEF ProgressInvariant, PutIsSeen
<1> QED
  BY <1>8, <1>10, <1>11, <1>12, <1>14, <1>15
     DEF PrefixInvariant, ProgressInvariant, DeliveryTypeOK, Announced, IsWhole

\* Work on the dataset takes nothing from a prefix that is not to be touched.
LEMMA WorkKept ==
  ASSUME TypeOK, PrefixInvariant, ProgressInvariant, WorkOnDataset
  PROVE  PrefixInvariant' /\ ProgressInvariant'
<1>1. UNCHANGED <<table, run, stepState, pc, skipped, resumeFile, outputFile, mProduct,
                  mPc, mPut, announced, messages>>
  BY DEF WorkOnDataset, Dataset!Work, vars, emrVars, diskVars, historyVars, monitorVars
<1>2. /\ whole \in [Prefixes -> SUBSET Wanted]
      /\ \E there \in SUBSET Wanted : whole' = [whole EXCEPT ![outputFile] = there]
      /\ outputFile = announced => whole[outputFile] \subseteq whole'[outputFile]
  BY DEF PrefixInvariant, DeliveryTypeOK, WorkOnDataset, Dataset!Work
<1>3. whole' \in [Prefixes -> SUBSET Wanted]
  BY <1>2
<1>4. \A prefix : IsWhole(prefix) /\ (prefix # outputFile \/ prefix = announced)
                    => IsWhole(prefix)'
  <2> SUFFICES ASSUME NEW prefix, IsWhole(prefix),
                      prefix # outputFile \/ prefix = announced
               PROVE  IsWhole(prefix)'
    OBVIOUS
  <2>1. CASE prefix # outputFile BY <1>2, <2>1 DEF IsWhole, Prefixes
  <2>2. CASE prefix = outputFile /\ prefix = announced
    BY <1>2, <1>3, <2>2 DEF IsWhole, Prefixes
  <2> QED BY <2>1, <2>2
<1>5. \A prefix : Untouched(prefix)' <=> Untouched(prefix)
  BY <1>1 DEF Untouched
<1>6. \A d, prefix : HasDataset(d, prefix) => HasDataset(d, prefix)'
  BY <1>1, <1>4, <1>5 DEF HasDataset, Untouched
<1>7. DeliveryTypeOK' /\ PrefixesInOrder' /\ Announced' /\ MessagesAreKept'
  BY <1>1, <1>3, <1>4, <1>5
     DEF PrefixInvariant, DeliveryTypeOK, PrefixesInOrder, Announced,
         MessagesAreKept, Untouched
<1>8. RowsAreDelivered'
  BY <1>1, <1>6 DEF PrefixInvariant, RowsAreDelivered, Delivered, HasMessage
<1>9. SkippedIsDelivered'
  BY <1>1, <1>6
     DEF ProgressInvariant, SkippedIsDelivered, Delivered, HasMessage
<1>10. SubmitIsInOrder' /\ PutIsSeen'
  BY <1>1 DEF ProgressInvariant, SubmitIsInOrder, PutIsSeen, Past
<1> QED BY <1>7, <1>8, <1>9, <1>10 DEF PrefixInvariant, ProgressInvariant

\* The prefix that is announced at the end is the one the row keeps.
LEMMA FinishKept ==
  ASSUME TypeOK, StepsInOrder, PrefixInvariant, ProgressInvariant, FinishDataset
  PROVE  PrefixInvariant' /\ ProgressInvariant'
<1>1. /\ UNCHANGED <<table, run, stepState, skipped, resumeFile, outputFile, mProduct,
                     mPc, mPut, whole, messages>>
      /\ pc = "work" /\ pc' = "leave" /\ stepState[SubmitJob] = "RUNNING"
      /\ announced' = outputFile /\ whole[outputFile] = Wanted
  BY DEF FinishDataset, PublishDataset, Dataset!Announce, Running, emrVars, diskVars,
         monitorVars
<1>2. outputFile # 0 /\ SubmitJob \notin skipped
  BY <1>1 DEF ProgressInvariant, SubmitIsInOrder
<1>3. outputFile \in Prefixes /\ outputFile <= run
  BY <1>2, BoundsAssumption
     DEF PrefixInvariant, PrefixesInOrder, TypeOK, Prefixes
<1>4. DeliveryTypeOK' /\ PrefixesInOrder' /\ Announced'
  BY <1>1, <1>2, <1>3
     DEF PrefixInvariant, DeliveryTypeOK, PrefixesInOrder, Announced, IsWhole, Prefixes
<1>5. \A prefix : IsWhole(prefix) /\ Untouched(prefix) => Untouched(prefix)'
  BY <1>1, <1>2, WholeIsNotZero, BoundsAssumption
     DEF PrefixInvariant, PrefixesInOrder, Untouched
<1>6. MessagesAreKept'
  BY <1>1, <1>5 DEF PrefixInvariant, MessagesAreKept, IsWhole
<1>7. \A d \in Products :
        HasDataset(d, table[d].prefix) => HasDataset(d, table[d].prefix)'
  <2> SUFFICES ASSUME NEW d \in Products, HasDataset(d, table[d].prefix)
               PROVE  HasDataset(d, table[d].prefix)'
    OBVIOUS
  <2>1. IsWhole(table[d].prefix)' /\ Untouched(table[d].prefix)'
    BY <1>1, <1>5 DEF HasDataset, IsWhole
  <2>2. d = Product => table[d].prefix = outputFile
    BY <1>2, WholeIsNotZero, BoundsAssumption
       DEF HasDataset, PrefixInvariant, PrefixesInOrder
  <2> QED BY <1>1, <1>2, <2>1, <2>2 DEF HasDataset
<1>8. RowsAreDelivered'
  BY <1>1, <1>7 DEF PrefixInvariant, RowsAreDelivered, Delivered, HasMessage
<1>9. mProduct \in Products
  BY DEF TypeOK
<1>10. SkippedIsDelivered'
  BY <1>1, <1>7, <1>9
     DEF ProgressInvariant, SkippedIsDelivered, Delivered, HasMessage
<1>11. stepState[Notify] = "ABSENT"
  BY <1>1, PositionsFacts DEF StepsInOrder, Ended
<1>12. SubmitIsInOrder' /\ PutIsSeen'
  BY <1>1, <1>2, <1>11 DEF ProgressInvariant, SubmitIsInOrder, PutIsSeen, Past
<1> QED BY <1>4, <1>6, <1>8, <1>10, <1>12 DEF PrefixInvariant, ProgressInvariant

\* A message is sent of the prefix that was announced.
LEMMA SendKept ==
  ASSUME TypeOK, StepsInOrder, PrefixInvariant, ProgressInvariant, send_sns_message
  PROVE  PrefixInvariant' /\ ProgressInvariant'
<1>1. /\ UNCHANGED <<table, run, stepState, skipped, resumeFile, outputFile, mProduct,
                     mPc, mPut, whole, announced>>
      /\ pc = "work" /\ pc' = "leave" /\ stepState[Notify] = "RUNNING"
      /\ announced # 0 /\ messages' = messages \cup {announced}
  BY DEF send_sns_message, SendNotification, prefix_to_send, Running, emrVars,
         diskVars, monitorVars, datasetVars
<1>2. stepState[SubmitJob] # "RUNNING"
  BY <1>1, PositionsFacts, OneRunning
<1>3. IsWhole(announced) /\ Untouched(announced) /\ announced \in Prefixes
  BY <1>1 DEF PrefixInvariant, Announced, Untouched, IsWhole
<1>4. \A prefix : (IsWhole(prefix)' <=> IsWhole(prefix))
                  /\ (Untouched(prefix)' <=> Untouched(prefix))
  BY <1>1 DEF IsWhole, Untouched
<1>5. DeliveryTypeOK' /\ PrefixesInOrder' /\ Announced'
  BY <1>1, <1>3, <1>4
     DEF PrefixInvariant, DeliveryTypeOK, PrefixesInOrder, Announced
<1>6. MessagesAreKept'
  BY <1>1, <1>3, <1>4 DEF PrefixInvariant, MessagesAreKept
<1>7. \A d, prefix : /\ HasDataset(d, prefix) => HasDataset(d, prefix)'
                     /\ HasMessage(d, prefix) => HasMessage(d, prefix)'
  BY <1>1, <1>4 DEF HasDataset, HasMessage
<1>8. RowsAreDelivered' /\ SkippedIsDelivered'
  BY <1>1, <1>7
     DEF PrefixInvariant, ProgressInvariant, RowsAreDelivered, SkippedIsDelivered,
         Delivered
<1>9. SubmitIsInOrder' /\ PutIsSeen'
  BY <1>1, <1>2 DEF ProgressInvariant, SubmitIsInOrder, PutIsSeen, Past
<1> QED BY <1>5, <1>6, <1>8, <1>9 DEF PrefixInvariant, ProgressInvariant

\* A new cluster begins with no prefix of its own.
LEMMA RelaunchKept ==
  ASSUME TypeOK, PrefixInvariant, Relaunch, UNCHANGED <<whole, announced, messages>>
  PROVE  PrefixInvariant' /\ ProgressInvariant'
<1>1. /\ UNCHANGED table /\ run' = run + 1 /\ outputFile' = 0 /\ skipped' = {}
      /\ stepState' = [p \in Positions |-> "ABSENT"] /\ pc' = "idle"
      /\ resumeFile' = NoFile /\ mPc' = "wait" /\ run \in Nat \ {0}
  BY DEF Relaunch, TypeOK
<1>2. \A prefix : (IsWhole(prefix)' <=> IsWhole(prefix))
                  /\ (IsWhole(prefix) /\ Untouched(prefix) => Untouched(prefix)')
  BY <1>1, WholeIsNotZero, BoundsAssumption DEF IsWhole, Untouched
<1>3. \A d, prefix : /\ HasDataset(d, prefix) => HasDataset(d, prefix)'
                     /\ HasMessage(d, prefix) => HasMessage(d, prefix)'
  BY <1>1, <1>2 DEF HasDataset, HasMessage
<1>4. \A prefix \in messages \cup {announced} \cup {table[d].prefix : d \in Products} :
        prefix \in Nat
  BY DEF PrefixInvariant, DeliveryTypeOK, Prefixes, TypeOK, Row
<1>5. PrefixesInOrder'
  <2>1. \A prefix \in messages \cup {announced} \cup {table[d].prefix : d \in Products} :
          prefix <= run + 1 /\ prefix # run + 1
    BY <1>1, <1>4 DEF PrefixInvariant, PrefixesInOrder
  <2> QED BY <1>1, <2>1 DEF PrefixesInOrder
<1>6. DeliveryTypeOK' /\ Announced' /\ MessagesAreKept'
  BY <1>1, <1>2 DEF PrefixInvariant, DeliveryTypeOK, Announced, MessagesAreKept
<1>7. RowsAreDelivered'
  BY <1>1, <1>3 DEF PrefixInvariant, RowsAreDelivered, Delivered
<1>8. \A p \in Positions : resumeFile' # StepName[p] /\ stepState'[p] = "ABSENT"
  BY <1>1, StepsAssumption DEF Names
<1>9. ProgressInvariant'
  BY <1>1, <1>8, PositionsFacts
     DEF ProgressInvariant, SubmitIsInOrder, SkippedIsDelivered, PutIsSeen, Past
<1> QED BY <1>5, <1>6, <1>7, <1>9 DEF PrefixInvariant

-----------------------------------------------------------------------------
(***************************************************************************)
(* The writes of the script.                                               *)
(***************************************************************************)

\* An update of the row, with everything else that it depends on as before.
RowUpdate(step, status, runId) ==
  /\ Update(step, status, runId)
  /\ UNCHANGED <<run, stepState, pc, outputFile, resumeFile, skipped, mProduct,
                 whole, announced, messages>>

\* The row gets the prefix in output_location.txt, if there is one.
LEMMA RowAfter ==
  ASSUME TypeOK, DeliverySafe, NEW step, NEW status, NEW runId,
         RowUpdate(step, status, runId)
  PROVE  /\ table' = [table EXCEPT ![mProduct] =
                        dynamo_update_item(@, step, status, runId)]
         /\ \A d \in Products \ {mProduct} : table'[d] = table[d]
         /\ table'[mProduct].prefix =
              IF outputFile = 0 THEN table[mProduct].prefix ELSE outputFile
         /\ table'[mProduct].status =
              IF status = NotSet THEN table[mProduct].status ELSE status
         /\ table'[mProduct].step =
              IF step = NotSet THEN table[mProduct].step ELSE step
         /\ mProduct \in Products /\ Product \in Products
BY DEF RowUpdate, Update, DeliverySafe, ResumeSafe, TypeOK, dynamo_update_item,
       Products

\* What stands for a prefix before the update does so after it.
LEMMA PrefixesAfter ==
  ASSUME TypeOK, DeliverySafe, PrefixesInOrder, DeliveryTypeOK,
         NEW step, NEW status, NEW runId, RowUpdate(step, status, runId)
  PROVE  /\ PrefixesInOrder'
         /\ \A prefix : (IsWhole(prefix)' <=> IsWhole(prefix))
                        /\ (Untouched(prefix) => Untouched(prefix)')
         /\ \A d, prefix : /\ HasDataset(d, prefix) => HasDataset(d, prefix)'
                           /\ HasMessage(d, prefix) => HasMessage(d, prefix)'
         /\ mProduct = Product /\ HasDataset(Product, table[Product].prefix) =>
              table'[Product].prefix = table[Product].prefix
         /\ mProduct = Product /\ HasMessage(Product, table[Product].prefix) =>
              table'[Product].prefix = table[Product].prefix
<1>1. UNCHANGED <<run, outputFile, whole, announced, messages>>
  BY DEF RowUpdate
<1>2. table'[Product].prefix \in {table[Product].prefix, outputFile}
  BY RowAfter
<1>3. \A d \in Products : table'[d].prefix \in {table[d].prefix, outputFile}
  BY RowAfter
<1>4. outputFile \in 0 .. run /\ run \in Nat \ {0}
  BY DEF PrefixesInOrder, TypeOK
<1>5. outputFile # 0 /\ table'[Product].prefix # 0 => outputFile = table'[Product].prefix
  BY <1>2, RowAfter DEF PrefixesInOrder
<1>6. PrefixesInOrder'
  BY <1>1, <1>3, <1>4, <1>5 DEF PrefixesInOrder
<1>7. \A prefix : (IsWhole(prefix)' <=> IsWhole(prefix))
                  /\ (Untouched(prefix) => Untouched(prefix)')
  BY <1>1, <1>2 DEF IsWhole, Untouched
<1>8. \A d, prefix : /\ HasDataset(d, prefix) => HasDataset(d, prefix)'
                     /\ HasMessage(d, prefix) => HasMessage(d, prefix)'
  BY <1>1, <1>7 DEF HasDataset, HasMessage
<1>9. mProduct = Product /\ table[Product].prefix # 0 =>
        table'[Product].prefix = table[Product].prefix
  BY RowAfter DEF PrefixesInOrder
<1>10. HasDataset(Product, table[Product].prefix) => table[Product].prefix # 0
  BY WholeIsNotZero, BoundsAssumption DEF HasDataset
<1>11. HasMessage(Product, table[Product].prefix) => table[Product].prefix # 0
  BY DEF HasMessage, DeliveryTypeOK, Prefixes
<1> QED BY <1>6, <1>7, <1>8, <1>9, <1>10, <1>11

\* What the skipped steps stand for is not lost by an update.
LEMMA SkippedAfter ==
  ASSUME TypeOK, DeliverySafe, PrefixInvariant, ProgressInvariant,
         mPc \notin {"wait", "ids", "get"}, mPc' \notin {"wait", "ids", "get"},
         NEW step, NEW status, NEW runId, RowUpdate(step, status, runId)
  PROVE  SkippedIsDelivered'
<1>1. UNCHANGED <<outputFile, resumeFile, skipped, mProduct>>
  BY DEF RowUpdate
<1>2. /\ \A d, prefix : /\ HasDataset(d, prefix) => HasDataset(d, prefix)'
                        /\ HasMessage(d, prefix) => HasMessage(d, prefix)'
      /\ mProduct = Product /\ HasDataset(Product, table[Product].prefix) =>
           table'[Product].prefix = table[Product].prefix
      /\ mProduct = Product /\ HasMessage(Product, table[Product].prefix) =>
           table'[Product].prefix = table[Product].prefix
  BY PrefixesAfter DEF PrefixInvariant
<1>3. outputFile = 0 => table'[mProduct].prefix = table[mProduct].prefix
  BY RowAfter
<1>4. mProduct = Product \/ outputFile = 0 =>
        /\ HasDataset(mProduct, table[mProduct].prefix) =>
             HasDataset(mProduct, table[mProduct].prefix)'
        /\ HasMessage(mProduct, table[mProduct].prefix) =>
             HasMessage(mProduct, table[mProduct].prefix)'
  BY <1>1, <1>2, <1>3
<1>5. SubmitJob \in skipped => outputFile = 0
  BY DEF ProgressInvariant, SubmitIsInOrder
<1>6. mProduct # Product => HasMessage(mProduct, table[mProduct].prefix)'
  BY <1>1 DEF HasMessage
<1> QED
  BY <1>1, <1>4, <1>5, <1>6 DEF ProgressInvariant, SkippedIsDelivered, Delivered

\* What is written in the row has what the steps before the one it names did.
LEMMA VerdictIsDelivered ==
  ASSUME TypeOK, DeliverySafe, StepsInOrder, StepResults, PrefixInvariant,
         ProgressInvariant, NEW step, NEW status, NEW runId,
         RowUpdate(step, status, runId), NEW q \in Nat,
         \A p \in Positions : p < q => stepState[p] = "COMPLETED"
  PROVE  Delivered(mProduct, table[mProduct].prefix, q)'
<1>1. UNCHANGED <<outputFile, announced, messages, whole, mProduct>>
  BY DEF RowUpdate
<1>2. /\ \A d, prefix : /\ HasDataset(d, prefix) => HasDataset(d, prefix)'
                        /\ HasMessage(d, prefix) => HasMessage(d, prefix)'
      /\ mProduct = Product /\ HasMessage(Product, table[Product].prefix) =>
           table'[Product].prefix = table[Product].prefix
  BY PrefixesAfter DEF PrefixInvariant
<1>3. /\ outputFile = 0 => table'[mProduct].prefix = table[mProduct].prefix
      /\ outputFile # 0 => table'[mProduct].prefix = outputFile
  BY RowAfter
<1>4. ASSUME SubmitJob < q PROVE HasDataset(mProduct, table[mProduct].prefix)'
  <2>1. Past(SubmitJob)
    BY <1>4, PositionsFacts DEF Past
  <2>2. CASE SubmitJob \in skipped
    <3>1. outputFile = 0 /\ HasDataset(mProduct, table[mProduct].prefix)
      BY <2>2 DEF ProgressInvariant, SubmitIsInOrder, SkippedIsDelivered
    <3> QED BY <1>1, <1>2, <1>3, <3>1
  <2>3. CASE SubmitJob \notin skipped
    <3>1. outputFile # 0 /\ announced = outputFile
      BY <2>1, <2>3 DEF ProgressInvariant, SubmitIsInOrder
    <3>2. HasDataset(mProduct, announced)
      BY <3>1 DEF PrefixInvariant, Announced, HasDataset, Untouched
    <3> QED BY <1>1, <1>2, <1>3, <3>1, <3>2
  <2> QED BY <2>2, <2>3
<1>5. ASSUME Notify < q, mProduct = Product
      PROVE  HasMessage(Product, table[Product].prefix)'
  <2>1. Past(Notify) /\ SubmitJob < q
    BY <1>5, PositionsFacts DEF Past
  <2>2. CASE Notify \in skipped
    <3>1. HasMessage(Product, table[Product].prefix)
      BY <1>5, <2>2 DEF ProgressInvariant, SkippedIsDelivered
    <3> QED BY <1>2, <1>5, <3>1
  <2>3. CASE Notify \notin skipped
    <3>1. announced \in messages
      BY <2>1, <2>3 DEF ProgressInvariant, SubmitIsInOrder
    <3>2. announced' = table'[Product].prefix
      BY <1>1, <1>4, <1>5, <2>1 DEF HasDataset
    <3> QED BY <1>1, <3>1, <3>2 DEF HasMessage
  <2> QED BY <2>2, <2>3
<1>6. mProduct # Product => HasMessage(mProduct, table[mProduct].prefix)'
  BY <1>1 DEF HasMessage
<1>7. Notify < q => HasMessage(mProduct, table[mProduct].prefix)'
  BY <1>1, <1>5, <1>6
<1> QED BY <1>1, <1>4, <1>7 DEF Delivered

\* So the rows stay right, whatever the verdict.
LEMMA RowsAfter ==
  ASSUME TypeOK, DeliverySafe, StepsInOrder, StepResults, PrefixInvariant,
         ProgressInvariant, NEW step, NEW status, NEW runId,
         RowUpdate(step, status, runId),
         status \notin {"FAILED", "COMPLETED"} =>
           table'[mProduct].status \notin {"FAILED", "COMPLETED"},
         status = "FAILED" =>
           \E p \in Positions : step = StepName[p]
                                /\ stepState[p] \in {"FAILED", "CANCELLED"},
         status = "COMPLETED" => stepState[Notify] = "COMPLETED"
  PROVE  PrefixInvariant'
<1>1. UNCHANGED <<whole, announced, messages, mProduct>>
  BY DEF RowUpdate
<1>2. /\ PrefixesInOrder'
      /\ \A prefix : (IsWhole(prefix)' <=> IsWhole(prefix))
                     /\ (Untouched(prefix) => Untouched(prefix)')
      /\ \A d, prefix : /\ HasDataset(d, prefix) => HasDataset(d, prefix)'
                        /\ HasMessage(d, prefix) => HasMessage(d, prefix)'
  BY PrefixesAfter DEF PrefixInvariant
<1>3. DeliveryTypeOK' /\ Announced' /\ MessagesAreKept'
  BY <1>1, <1>2 DEF PrefixInvariant, DeliveryTypeOK, Announced, MessagesAreKept
<1>4. ASSUME NEW d \in Products, d # mProduct
      PROVE  /\ table'[d].status = "FAILED" =>
                  \A p \in Positions : table'[d].step = StepName[p] =>
                    Delivered(d, table[d].prefix, p)'
             /\ table'[d].status = "COMPLETED" =>
                  Delivered(d, table[d].prefix, NSteps + 1)'
  <2>1. table'[d] = table[d]
    BY <1>4, RowAfter
  <2> QED BY <1>2, <2>1 DEF PrefixInvariant, RowsAreDelivered, Delivered
<1>5. ASSUME table'[mProduct].status = "FAILED",
             NEW p \in Positions, table'[mProduct].step = StepName[p]
      PROVE  Delivered(mProduct, table[mProduct].prefix, p)'
  <2>1. status = "FAILED"
    BY <1>5, RowAfter DEF NotSet
  <2>2. PICK r \in Positions : step = StepName[r]
                               /\ stepState[r] \in {"FAILED", "CANCELLED"}
    BY <2>1
  <2>3. step # NotSet
    BY <2>2, StepsAssumption DEF Names
  <2>4. r = p
    BY <1>5, <2>2, <2>3, RowAfter, StepsAssumption
  <2>5. \A q \in Positions : q < p => stepState[q] = "COMPLETED"
    BY <2>2, <2>4, CompleteBefore
  <2> QED BY <2>5, PositionsFacts, VerdictIsDelivered
<1>6. ASSUME table'[mProduct].status = "COMPLETED"
      PROVE  Delivered(mProduct, table[mProduct].prefix, NSteps + 1)'
  <2>1. stepState[Notify] = "COMPLETED"
    BY <1>6, RowAfter DEF NotSet
  <2>2. \A q \in Positions : q < Notify + 1 => stepState[q] = "COMPLETED"
    BY <2>1, PositionsFacts, CompleteBefore DEF Positions
  <2>3. Delivered(mProduct, table[mProduct].prefix, Notify + 1)'
    BY <2>2, PositionsFacts, VerdictIsDelivered
  <2> QED BY <2>3, PositionsFacts DEF Delivered, Positions
<1>7. RowsAreDelivered'
  BY <1>1, <1>4, <1>5, <1>6 DEF RowsAreDelivered
<1> QED BY <1>2, <1>3, <1>7 DEF PrefixInvariant

\* The two writes of the script.
LEMMA StartRunKept ==
  ASSUME TypeOK, ResumeInvariant, DeliverySafe, PrefixInvariant, ProgressInvariant,
         StartRun, UNCHANGED <<whole, announced, messages>>
  PROVE  PrefixInvariant' /\ ProgressInvariant'
<1>1. /\ RowUpdate(NotSet, "IN_PROGRESS", mRunId)
      /\ mPc = "start" /\ mPc' = "poll"
  BY DEF StartRun, MonitorAt, RowUpdate, emrVars, diskVars, historyVars
<1>2. table'[mProduct].status = "IN_PROGRESS"
  BY <1>1, RowAfter DEF NotSet
<1>3. PrefixInvariant'
  BY <1>1, <1>2, RowsAfter DEF ResumeInvariant
<1>4. SkippedIsDelivered'
  BY <1>1, SkippedAfter
<1>5. SubmitIsInOrder'
  BY <1>1 DEF RowUpdate, ProgressInvariant, SubmitIsInOrder, Past
<1> QED BY <1>1, <1>3, <1>4, <1>5 DEF ProgressInvariant, PutIsSeen

LEMMA PutItemKept ==
  ASSUME TypeOK, ResumeInvariant, DeliverySafe, PrefixInvariant, ProgressInvariant,
         PutItem, UNCHANGED <<whole, announced, messages>>
  PROVE  PrefixInvariant' /\ ProgressInvariant'
<1>1. /\ RowUpdate(mPut.step, mPut.status, 0)
      /\ cluster = "RUNNING" /\ mPc = "put" /\ mPc' \in {"poll", "body", "exit"}
      /\ mPut.status \in {NotSet, "FAILED", "COMPLETED"}
  BY DEF PutItem, MonitorAt, RowUpdate, emrVars, diskVars, historyVars, TypeOK, Put
<1>2. mPut.status = NotSet => table'[mProduct].status = "IN_PROGRESS"
  BY <1>1, RowAfter DEF ResumeInvariant, ScriptIsRight
<1>3. PrefixInvariant'
  BY <1>1, <1>2, RowsAfter DEF ResumeInvariant, ProgressInvariant, PutIsSeen
<1>4. SkippedIsDelivered'
  BY <1>1, SkippedAfter
<1>5. SubmitIsInOrder'
  BY <1>1 DEF RowUpdate, ProgressInvariant, SubmitIsInOrder, Past
<1> QED BY <1>1, <1>3, <1>4, <1>5 DEF ProgressInvariant, PutIsSeen

-----------------------------------------------------------------------------
(***************************************************************************)
(* The theorems.                                                           *)
(***************************************************************************)
LEMMA DeliveryStart == DeliveryInit => DeliveryInvariant
<1> SUFFICES ASSUME DeliveryInit PROVE DeliveryInvariant OBVIOUS
<1>1. /\ whole = [p \in Prefixes |-> {}] /\ announced = 0 /\ messages = {}
      /\ table = [d \in Products |-> NoRow] /\ run = 1 /\ outputFile = 0
      /\ skipped = {} /\ resumeFile = NoFile /\ mPc = "wait"
      /\ stepState = [p \in Positions |-> "ABSENT"]
  BY DEF DeliveryInit, Init, Dataset!Init
<1>2. /\ \A d \in Products : /\ table[d].prefix = 0
                             /\ table[d].status \notin {"FAILED", "COMPLETED"}
      /\ Product \in Products
  BY <1>1 DEF NoRow, Products, Null
<1>3. DeliveryTypeOK /\ PrefixesInOrder /\ Announced /\ MessagesAreKept
      /\ RowsAreDelivered
  BY <1>1, <1>2, BoundsAssumption
     DEF DeliveryTypeOK, PrefixesInOrder, Announced, MessagesAreKept, RowsAreDelivered
<1>4. SubmitIsInOrder /\ SkippedIsDelivered /\ PutIsSeen
  BY <1>1, PositionsFacts, StepsAssumption
     DEF SubmitIsInOrder, SkippedIsDelivered, PutIsSeen, Past, Names
<1> QED BY <1>3, <1>4 DEF DeliveryInvariant

LEMMA DeliveryStep ==
  ASSUME TypeOK, ResumeInvariant, DeliverySafe, DeliveryInvariant,
         [DeliveryNext]_deliveryVars
  PROVE  DeliveryInvariant'
<1>1. PrefixInvariant /\ ProgressInvariant
  BY DEF DeliveryInvariant, PrefixInvariant, ProgressInvariant
<1>2. StepsInOrder /\ StepResults /\ ResumeFileInTime /\ RowsAreDelivered
  BY DEF ResumeInvariant, DeliveryInvariant
<1>3. PrefixInvariant' /\ ProgressInvariant'
  <2>1. CASE WorkOnDataset BY <1>1, <2>1, WorkKept
  <2>2. CASE FinishDataset BY <1>1, <1>2, <2>2, FinishKept
  <2>3. CASE send_sns_message BY <1>1, <1>2, <2>3, SendKept
  <2>4. CASE LocateOutput /\ UNCHANGED <<whole, announced, messages>>
    BY <1>1, <2>4, LocateKept
  <2>5. CASE Relaunch /\ UNCHANGED <<whole, announced, messages>>
    BY <1>1, <2>5, RelaunchKept
  <2>6. CASE StartRun /\ UNCHANGED <<whole, announced, messages>>
    BY <1>1, <2>6, StartRunKept
  <2>7. CASE PutItem /\ UNCHANGED <<whole, announced, messages>>
    BY <1>1, <2>7, PutItemKept
  <2>8. CASE UNCHANGED <<vars, whole, announced, messages>>
    <3>1. Quiet /\ UNCHANGED <<mProduct, resumeFile, skipped, mPc, mPut, stepState, pc>>
      BY <2>8 DEF vars, emrVars, diskVars, historyVars, monitorVars, Quiet
    <3>2. SkippedIsDelivered'
      BY <1>1, <3>1, SkippedFrame DEF ProgressInvariant
    <3>3. SubmitIsInOrder' /\ PutIsSeen'
      BY <1>1, <3>1 DEF ProgressInvariant, SubmitIsInOrder, PutIsSeen, Past, Quiet
    <3> QED BY <1>1, <3>1, <3>2, <3>3, QuietKeeps DEF ProgressInvariant
  <2>9. CASE /\ \/ \E p \in Positions : StartStep(p)
                \/ \E p \in Positions : CheckResume(p)
                \/ \E p \in Positions : ShellWork(p)
                \/ \E p \in Positions : StepEnd(p)
                \/ WriteIdFile \/ ClusterEnd \/ GetItem \/ ScriptReads
             /\ UNCHANGED <<whole, announced, messages>>
    <3>1. Quiet /\ ProgressInvariant'
      BY <1>1, <1>2, <2>9, StartKept, CheckKept, ShellKept, EndKept, WriteIdKept,
         ClusterEndKept, GetItemKept, ScriptReadsKept
    <3> QED BY <1>1, <3>1, QuietKeeps
  <2> QED
    BY <2>1, <2>2, <2>3, <2>4, <2>5, <2>6, <2>7, <2>8, <2>9, DeliverySteps
<1> QED BY <1>3 DEF DeliveryInvariant, PrefixInvariant, ProgressInvariant

\* When delivery is safe, whatever row a launch resumes from, the prefix it names has
\* what the steps that will be skipped did.
THEOREM DeliveryInvariantHolds ==
  ASSUME DeliverySafe PROVE DeliverySpec => []DeliveryInvariant
<1>1. DeliverySpec => []TypeOK
  BY DeliveryIsACluster, TypeCorrect, PTL
<1>2. ResumeSafe
  BY DEF DeliverySafe
<1>3. Spec => []ResumeInvariant
  BY <1>2, ResumeInvariantHolds
<1>4. DeliverySpec => []ResumeInvariant
  BY <1>3, DeliveryIsACluster, PTL
<1>5. TypeOK /\ ResumeInvariant /\ DeliveryInvariant /\ [DeliveryNext]_deliveryVars
        => DeliveryInvariant'
  BY DeliveryStep
<1> QED BY <1>1, <1>4, <1>5, DeliveryStart, PTL DEF DeliverySpec

\* A COMPLETED row names a prefix with the whole dataset.
THEOREM CompletedNamesDataset ==
  ASSUME DeliverySafe PROVE DeliverySpec => []CompletedRowNamesDataset
<1>1. DeliveryInvariant => CompletedRowNamesDataset
  BY PositionsFacts
     DEF DeliveryInvariant, RowsAreDelivered, Delivered, HasDataset, Positions,
         CompletedRowNamesDataset
<1> QED BY <1>1, DeliveryInvariantHolds, PTL

\* That prefix is the one in adg_params.csv, and was sent.
THEOREM CompletedIsDelivered ==
  ASSUME DeliverySafe PROVE DeliverySpec => []CompletedRowIsDelivered
<1>1. DeliveryInvariant => CompletedRowIsDelivered
  BY PositionsFacts
     DEF DeliveryInvariant, RowsAreDelivered, Delivered, HasDataset, HasMessage,
         Positions, Products, CompletedRowIsDelivered
<1> QED BY <1>1, DeliveryInvariantHolds, PTL

\* What was sent stays whole.
THEOREM MessagesStayTrue ==
  ASSUME DeliverySafe PROVE DeliverySpec => []MessagesNameWholeDatasets
<1>1. DeliveryInvariant => MessagesNameWholeDatasets
  BY DEF DeliveryInvariant, MessagesAreKept, MessagesNameWholeDatasets
<1> QED BY <1>1, DeliveryInvariantHolds, PTL

\* send_notification finds the file, though a resumed cluster did not write it.
THEOREM NotificationFindsCsv ==
  ASSUME DeliverySafe PROVE DeliverySpec => []CsvIsThere
<1>1. ResumeInvariant /\ DeliveryInvariant => CsvIsThere
  <2> SUFFICES ASSUME ResumeInvariant, DeliveryInvariant, stepState[Notify] = "RUNNING"
               PROVE  announced # 0
    BY DEF CsvIsThere, Running
  <2>1. stepState[SubmitJob] = "COMPLETED"
    BY PositionsFacts, CompleteBefore DEF ResumeInvariant, Positions
  <2> QED
    BY <2>1
       DEF DeliveryInvariant, SubmitIsInOrder, SkippedIsDelivered, HasDataset, Past
<1>2. ResumeSafe
  BY DEF DeliverySafe
<1>3. Spec => []ResumeInvariant
  BY <1>2, ResumeInvariantHolds
<1> QED BY <1>1, <1>3, DeliveryIsACluster, DeliveryInvariantHolds, PTL
=============================================================================
