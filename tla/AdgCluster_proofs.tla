------------------------- MODULE AdgCluster_proofs --------------------------
(***************************************************************************)
(* Proofs about AdgCluster for every list of steps, every bound and every  *)
(* combination of faults the assumptions allow.                            *)
(***************************************************************************)
EXTENDS AdgCluster, TLAPS

(***************************************************************************)
(* Type correctness.                                                       *)
(***************************************************************************)

\* Every variable keeps a value of its kind: the update of a row, however the
\* script calls it, leaves a row.
LEMMA UpdateIsRow ==
  ASSUME NEW row \in Row, outputFile \in Nat,
         NEW step \in Names \cup {NotSet},
         NEW status \in {NotSet, "IN_PROGRESS", "FAILED", "COMPLETED"},
         NEW runId \in Nat
  PROVE  dynamo_update_item(row, step, status, runId) \in Row
<1>1. row.status \in RowStatus /\ row.step \in Names \cup {Null}
      /\ row.runId \in Nat /\ row.prefix \in Nat
  BY DEF Row
<1>2. (IF status = NotSet THEN row.status ELSE status) \in RowStatus
  BY <1>1 DEF RowStatus, NotSet
<1>3. (IF step = NotSet THEN row.step ELSE step) \in Names \cup {Null}
  BY <1>1
<1>4. (IF runId = 0 THEN row.runId ELSE runId) \in Nat
  BY <1>1
<1>5. (IF outputFile = 0 THEN row.prefix ELSE outputFile) \in Nat
  BY <1>1
<1>6. QED
  BY <1>2, <1>3, <1>4, <1>5 DEF dynamo_update_item, Row

\* An update sent by the script leaves a table of rows.
LEMMA UpdateIsTable ==
  ASSUME table \in [Products -> Row], mProduct \in Products, outputFile \in Nat,
         NEW step \in Names \cup {NotSet},
         NEW status \in {NotSet, "IN_PROGRESS", "FAILED", "COMPLETED"},
         NEW runId \in Nat,
         Update(step, status, runId)
  PROVE  table' \in [Products -> Row]
<1>1. dynamo_update_item(table[mProduct], step, status, runId) \in Row
  BY UpdateIsRow
<1>2. QED
  BY <1>1 DEF Update

\* The values the script starts with.
LEMMA StartValues ==
  /\ NoRow \in Row
  /\ NothingPut \in Put
  /\ NoPrevious \in Previous
<1>1. NoRow \in Row
  BY DEF NoRow, Row, RowStatus, Null
<1>2. NothingPut \in Put
  BY DEF NothingPut, Put, NotSet
<1>3. NoPrevious \in Previous
  BY DEF NoPrevious, Previous
<1>4. QED
  BY <1>1, <1>2, <1>3

THEOREM TypeCorrect == Spec => []TypeOK
<1>1. Init => TypeOK
  <2> SUFFICES ASSUME Init PROVE TypeOK
    OBVIOUS
  <2>1. /\ table \in [Products -> Row]
        /\ mProduct \in Products /\ mPut \in Put /\ mPrev \in Previous
    BY StartValues DEF Init, Products
  <2>2. /\ run \in 1 .. MaxRuns /\ cluster \in ClusterStates
        /\ stepState \in [Positions -> StepFileState]
        /\ pc \in StepPlaces /\ mPc \in MonitorPlaces
    BY BoundsAssumption DEF Init, ClusterStates, StepFileState, StepPlaces, MonitorPlaces
  <2>3. /\ mAt \in 0 .. NSteps /\ (mPc \in {"body", "put"} => mAt \in Positions)
        /\ mProcessed \subseteq Positions
    BY StepsAssumption DEF Init
  <2>4. QED
    BY <2>1, <2>2, <2>3 DEF Init, TypeOK
<1>2. TypeOK /\ [Next]_vars => TypeOK'
  <2> SUFFICES ASSUME TypeOK, [Next]_vars PROVE TypeOK'
    OBVIOUS
  <2>. USE DEF TypeOK
  <2>1. ASSUME NEW p \in Positions, StartStep(p) PROVE TypeOK'
    BY <2>1 DEF StartStep, diskVars, historyVars, monitorVars, StepFileState, StepPlaces
  <2>2. CASE WriteIdFile
    BY <2>2 DEF WriteIdFile, emrVars, historyVars, monitorVars, Running, StepPlaces
  <2>3. ASSUME NEW p \in Positions, CheckResume(p) PROVE TypeOK'
    BY <2>3 DEF CheckResume, emrVars, monitorVars, StepPlaces
  <2>4. CASE LocateOutput
    BY <2>4 DEF LocateOutput, get_output_prefix, emrVars, historyVars,
                monitorVars, Row, NoRow, Products, StepPlaces
  <2>5. CASE PublishDataset
    BY <2>5, KindsAssumption DEF PublishDataset, emrVars, diskVars, monitorVars, StepPlaces
  <2>6. ASSUME NEW p \in Positions, ShellWork(p) PROVE TypeOK'
    BY <2>6 DEF ShellWork, emrVars, diskVars, monitorVars, StepPlaces
  <2>7. ASSUME NEW p \in Positions, SendNotification(p) PROVE TypeOK'
    BY <2>7 DEF SendNotification, emrVars, diskVars, monitorVars, StepPlaces
  <2>8. ASSUME NEW p \in Positions,
               StepCompletes(p) \/ StepFails(p) \/ CancelStep(p)
        PROVE TypeOK'
    BY <2>8 DEF StepCompletes, StepFails, CancelStep, diskVars, historyVars,
                monitorVars, StepFileState, StepPlaces
  <2>9. CASE TerminateEarly \/ TerminateNormally \/ KillCluster
    BY <2>9 DEF TerminateEarly, TerminateNormally, KillCluster, diskVars,
                historyVars, monitorVars, ClusterStates
  <2>10. CASE Relaunch
    <3>1. mPut' \in Put /\ mPrev' \in Previous /\ mProduct' \in Products
      BY <2>10, StartValues DEF Relaunch, Products
    <3>2. /\ run' \in 1 .. MaxRuns /\ cluster' \in ClusterStates
          /\ stepState' \in [Positions -> StepFileState]
          /\ pc' \in StepPlaces /\ mPc' \in MonitorPlaces
      BY <2>10, BoundsAssumption
         DEF Relaunch, ClusterStates, StepFileState, StepPlaces, MonitorPlaces
    <3>3. mAt' \in 0 .. NSteps /\ (mPc' \in {"body", "put"} => mAt' \in Positions)
      BY <2>10, StepsAssumption DEF Relaunch
    <3>4. QED
      BY <2>10, <3>1, <3>2, <3>3 DEF Relaunch
  <2>11. CASE DeleteRow
    BY <2>11 DEF DeleteRow, emrVars, diskVars, historyVars, monitorVars, NoRow,
                 Row, RowStatus, Null
  <2>12. CASE WaitForIdFiles
    BY <2>12 DEF WaitForIdFiles, MonitorAt, emrVars, diskVars, historyVars, MonitorPlaces
  <2>13. CASE ReadIdFiles
    BY <2>13 DEF ReadIdFiles, MonitorAt, emrVars, diskVars, historyVars, Products, MonitorPlaces
  <2>14. CASE GetItem
    <3>1. table[mProduct].step \in Names \cup {Null} /\ table[mProduct].runId \in Nat
      BY DEF Row
    <3>2. resumeFile' \in Names \cup {Null, NoFile} /\ mRunId' \in Nat
      BY <2>14, <3>1 DEF GetItem
    <3>3. QED
      BY <2>14, <3>2 DEF GetItem, MonitorAt, emrVars, historyVars, MonitorPlaces
  <2>15. CASE StartRun
    <3>1. table' \in [Products -> Row]
      BY <2>15, UpdateIsTable DEF StartRun
    <3>2. QED
      BY <2>15, <3>1 DEF StartRun, MonitorAt, emrVars, diskVars, historyVars, MonitorPlaces
  <2>16. ASSUME NEW p \in Positions, OpenStepFile(p) PROVE TypeOK'
    BY <2>16 DEF OpenStepFile, MonitorAt, emrVars, diskVars, historyVars,
                 Positions, MonitorPlaces
  <2>17. CASE ReadStepFile
    <3>1. mAt \in Positions /\ StepName[mAt] \in Names /\ stepState[mAt] \in StepFileState
      BY <2>17 DEF ReadStepFile, MonitorAt, Names
    <3>2. mPut' \in Put
      <4>1. \A st \in {NotSet, "FAILED", "COMPLETED"}, next \in {"poll", "body", "exit"} :
              [step |-> StepName[mAt], status |-> st, next |-> next] \in Put
        BY <3>1 DEF Put
      <4>2. QED
        BY <2>17, <4>1 DEF ReadStepFile, AfterVerdict
    <3>3. mPrev' \in Previous
      <4>1. [state |-> stepState[mAt], step |-> StepName[mAt]] \in Previous
        BY <3>1 DEF Previous
      <4>2. QED
        BY <2>17, <4>1 DEF ReadStepFile
    <3>4. mPc' \in {"put", "poll", "body"} /\ mProcessed' \subseteq Positions
      BY <2>17, <3>1 DEF ReadStepFile
    <3>5. QED
      BY <2>17, <3>1, <3>2, <3>3, <3>4
         DEF ReadStepFile, emrVars, diskVars, historyVars, MonitorPlaces
  <2>18. CASE UnparsableStepFile
    <3>1. mAt \in Positions
      BY <2>18 DEF UnparsableStepFile, MonitorAt
    <3>2. PICK kind \in MisreadKinds :
            \/ /\ mPut' = [step   |-> IF Misread(kind, mAt).step = Unread THEN NotSet
                                        ELSE Misread(kind, mAt).step,
                           status |-> "FAILED", next |-> "exit"]
               /\ mPc' = "put" /\ UNCHANGED <<mRetry, mPrev>>
            \/ /\ mRetry' = mRetry + 1 /\ mPrev' = Misread(kind, mAt)
               /\ mPc' \in {"poll", "body"} /\ UNCHANGED mPut
      BY <2>18 DEF UnparsableStepFile, AfterVerdict
    <3>3. /\ Misread(kind, mAt) \in Previous
          /\ Misread(kind, mAt).step # Unread => Misread(kind, mAt).step \in Names
      BY <3>1 DEF Misread, Previous, Names
    <3>4. \A step \in Names \cup {NotSet} :
            [step |-> step, status |-> "FAILED", next |-> "exit"] \in Put
      BY DEF Put
    <3>5. /\ mPut' \in Put /\ mPrev' \in Previous
          /\ mPc' \in {"put", "poll", "body"} /\ mRetry' \in Nat
      BY <3>2, <3>3, <3>4
    <3>6. QED
      BY <2>18, <3>1, <3>5
         DEF UnparsableStepFile, emrVars, diskVars, historyVars, MonitorPlaces
  <2>19. CASE PutItem
    <3>1. table' \in [Products -> Row]
      <4>1. mPut.step \in Names \cup {NotSet}
            /\ mPut.status \in {NotSet, "IN_PROGRESS", "FAILED", "COMPLETED"}
        BY DEF Put
      <4>2. QED
        BY <2>19, <4>1, UpdateIsTable DEF PutItem
    <3>2. QED
      BY <2>19, <3>1 DEF PutItem, MonitorAt, NothingPut, emrVars, diskVars,
                         historyVars, MonitorPlaces, Put
  <2>20. CASE UNCHANGED vars
    BY <2>20 DEF vars, emrVars, diskVars, historyVars, monitorVars
  <2>21. QED
    BY <2>1, <2>2, <2>3, <2>4, <2>5, <2>6, <2>7, <2>8, <2>9, <2>10, <2>11,
       <2>12, <2>13, <2>14, <2>15, <2>16, <2>17, <2>18, <2>19, <2>20
       DEF Next, Steps, StepProgram, Emr, Monitor, External
<1>3. QED
  BY <1>1, <1>2, PTL DEF Spec
-----------------------------------------------------------------------------
(***************************************************************************)
(* Safe resumption. ResumeSafe is a condition on the deployment, not an    *)
(* assumption of the module: the theorems below have it as a hypothesis.   *)
(***************************************************************************)

\* The actions that move nothing but the script and its row.
ScriptStep ==
  \/ WaitForIdFiles \/ ReadIdFiles \/ StartRun \/ ReadStepFile \/ PutItem
  \/ \E p \in Positions : OpenStepFile(p)

\* The actions in which a step's program does its work.
WorkStep ==
  \/ PublishDataset
  \/ \E p \in Positions : ShellWork(p) \/ SendNotification(p)

StepEnd(p) == StepCompletes(p) \/ StepFails(p) \/ CancelStep(p)

ClusterEnd == TerminateEarly \/ TerminateNormally \/ KillCluster

\* A step of a safe deployment is one of these.
LEMMA SafeSteps ==
  ASSUME ResumeSafe, [Next]_vars
  PROVE  \/ \E p \in Positions : StartStep(p)
         \/ WriteIdFile
         \/ \E p \in Positions : CheckResume(p)
         \/ LocateOutput
         \/ WorkStep
         \/ \E p \in Positions : StepEnd(p)
         \/ ClusterEnd
         \/ Relaunch
         \/ DeleteRow
         \/ GetItem
         \/ ScriptStep
         \/ UNCHANGED vars
<1>1. ~UnparsableStepFile
  BY DEF ResumeSafe, UnparsableStepFile
<1>2. QED
  BY <1>1 DEF Next, Steps, StepProgram, Emr, Monitor, External, ScriptStep,
              WorkStep, StepEnd, ClusterEnd

\* Script steps leave the steps, the files and the history alone, and a script
\* that has started stays started.
LEMMA ScriptFrame ==
  ASSUME TypeOK, ScriptStep
  PROVE  /\ UNCHANGED <<run, cluster, stepState, pc, resumeFile, outputFile,
                        done, skipped>>
         /\ MonitorStarted => MonitorStarted'
<1>1. mPut.next \in {"poll", "body", "exit"}
  BY DEF TypeOK, Put
<1>2. QED
  BY <1>1 DEF ScriptStep, WaitForIdFiles, ReadIdFiles, StartRun, ReadStepFile,
              PutItem, OpenStepFile, MonitorAt, MonitorStarted, emrVars,
              diskVars, historyVars

\* A position that works, and what becomes of the rest.
LEMMA WorkFrame ==
  ASSUME ResumeSafe, WorkStep
  PROVE  /\ UNCHANGED <<table, run, cluster, stepState, resumeFile, outputFile,
                        skipped, monitorVars>>
         /\ pc = "work" /\ pc' = "leave"
         /\ \E p \in Positions : Running(p) /\ done' = done \cup {p}
BY KindsAssumption
   DEF ResumeSafe, WorkStep, PublishDataset, ShellWork, SendNotification,
       emrVars, diskVars

\* What is settled stays settled.
LEMMA SettledGrows ==
  ASSUME TypeOK, ResumeSafe, [Next]_vars
  PROVE  Settled \subseteq Settled'
<1>1. done \subseteq done'
  <2>1. CASE WorkStep
    BY <2>1, WorkFrame
  <2>2. CASE ScriptStep
    BY <2>2, ScriptFrame
  <2>3. CASE ~WorkStep /\ ~ScriptStep
    BY <2>3, SafeSteps
       DEF StartStep, WriteIdFile, CheckResume, LocateOutput, StepEnd,
           StepCompletes, StepFails, CancelStep, ClusterEnd, TerminateEarly,
           TerminateNormally, KillCluster, Relaunch, DeleteRow, GetItem, vars,
           historyVars
  <2>4. QED
    BY <2>1, <2>2, <2>3
<1>2. QED
  BY <1>1 DEF Settled

\* At most one step is running.
LEMMA OneRunning ==
  ASSUME StepsInOrder, NEW p \in Positions, NEW q \in Positions,
         stepState[p] = "RUNNING", stepState[q] = "RUNNING"
  PROVE  p = q
<1>1. CASE p < q
  BY <1>1 DEF StepsInOrder, Ended, Positions
<1>2. CASE q < p
  BY <1>2 DEF StepsInOrder, Ended, Positions
<1>3. QED
  BY <1>1, <1>2 DEF Positions

\* The steps before one that has started are settled: in a safe deployment a
\* failed step ends the cluster, so those before it completed.
LEMMA StartedMeansSettledBefore ==
  ASSUME ResumeSafe, StepsInOrder, StepResults,
         NEW p \in Positions, stepState[p] # "ABSENT"
  PROVE  1 .. (p - 1) \subseteq Settled
<1>1. ASSUME NEW q \in 1 .. (p - 1) PROVE q \in Settled
  <2>1. q \in Positions
    BY StepsAssumption DEF Positions
  <2>2. Ended(q)
    BY DEF StepsInOrder
  <2>3. stepState[q] = "COMPLETED"
    BY <2>1, <2>2 DEF Ended, StepResults, ResumeSafe
  <2>4. QED
    BY <2>1, <2>3 DEF StepResults
<1>2. QED
  BY <1>1
-----------------------------------------------------------------------------
\* Steps start in order, and late enough for the script.
LEMMA OrderKept ==
  ASSUME TypeOK, StepsInOrder, [Next]_vars
  PROVE  StepsInOrder'
<1>1. ASSUME NEW p \in Positions, StartStep(p) PROVE StepsInOrder'
  <2> SUFFICES ASSUME NEW r \in Positions, stepState'[r] # "ABSENT"
               PROVE  /\ \A q \in 1 .. (r - 1) : Ended(q)'
                      /\ Awaits(r) => MonitorStarted'
    BY DEF StepsInOrder, Awaits
  <2>1. stepState' = [stepState EXCEPT ![p] = "RUNNING"] /\ mPc' = mPc
        /\ stepState[p] = "ABSENT" /\ stepState \in [Positions -> StepFileState]
    BY <1>1 DEF StartStep, monitorVars, TypeOK
  <2>2. ASSUME NEW q \in 1 .. (r - 1), Ended(q) PROVE Ended(q)'
    BY <2>1, <2>2 DEF Ended, Positions
  <2>3. CASE r = p
    BY <1>1, <2>1, <2>2, <2>3 DEF StartStep, MonitorStarted
  <2>4. CASE r # p
    BY <2>1, <2>2, <2>4 DEF StepsInOrder, MonitorStarted
  <2>5. QED
    BY <2>3, <2>4
<1>2. ASSUME NEW p \in Positions, StepEnd(p) PROVE StepsInOrder'
  <2> SUFFICES ASSUME NEW r \in Positions, stepState'[r] # "ABSENT"
               PROVE  /\ \A q \in 1 .. (r - 1) : Ended(q)'
                      /\ Awaits(r) => MonitorStarted'
    BY DEF StepsInOrder, Awaits
  <2>1. /\ stepState[p] = "RUNNING" /\ mPc' = mPc
        /\ \E s \in StepFileState : stepState' = [stepState EXCEPT ![p] = s]
        /\ stepState \in [Positions -> StepFileState]
    BY <1>2 DEF StepEnd, StepCompletes, StepFails, CancelStep, Running,
                monitorVars, StepFileState, TypeOK
  <2>2. stepState[r] # "ABSENT"
    BY <2>1
  <2>3. ASSUME NEW q \in 1 .. (r - 1) PROVE Ended(q)'
    <3>1. Ended(q) /\ q # p
      BY <2>1, <2>2 DEF StepsInOrder, Ended
    <3>2. QED
      BY <2>1, <3>1 DEF Ended, Positions
  <2>4. QED
    BY <2>1, <2>2, <2>3 DEF StepsInOrder, MonitorStarted
<1>3. CASE Relaunch
  BY <1>3 DEF Relaunch, StepsInOrder
<1>4. CASE ScriptStep
  BY <1>4, ScriptFrame DEF StepsInOrder, Ended, Awaits
<1>5. CASE WorkStep
  BY <1>5 DEF WorkStep, PublishDataset, ShellWork, SendNotification, StepsInOrder,
              Ended, Awaits, MonitorStarted, emrVars, monitorVars
<1>6. CASE \/ WriteIdFile \/ LocateOutput \/ ClusterEnd \/ DeleteRow \/ GetItem
           \/ UnparsableStepFile \/ UNCHANGED vars
           \/ \E p \in Positions : CheckResume(p)
  <2>1. UNCHANGED stepState /\ (MonitorStarted => MonitorStarted')
    BY <1>6
       DEF UnparsableStepFile, WriteIdFile, LocateOutput, ClusterEnd, TerminateEarly,
           TerminateNormally, KillCluster, DeleteRow, GetItem, CheckResume,
           MonitorAt, MonitorStarted, vars, emrVars, monitorVars
  <2>2. QED
    BY <2>1 DEF StepsInOrder, Ended, Awaits
<1>7. QED
  BY <1>1, <1>2, <1>3, <1>4, <1>5, <1>6
     DEF Next, Steps, StepProgram, Emr, Monitor, External, ScriptStep, WorkStep,
         StepEnd, ClusterEnd

\* So it is in every cluster, safe or not.
LEMMA OrderHolds == Spec => []StepsInOrder
<1>1. Init => StepsInOrder
  BY DEF Init, StepsInOrder
<1>2. TypeOK /\ StepsInOrder /\ [Next]_vars => StepsInOrder'
  BY OrderKept
<1>3. QED
  BY <1>1, <1>2, TypeCorrect, PTL DEF Spec

\* A step that is over is settled, or a stoppable one.
LEMMA ResultsKept ==
  ASSUME TypeOK, ResumeSafe, StepsInOrder, StepResults, ResumeFileInTime,
         SkippedStepsWereDone, [Next]_vars
  PROVE  StepResults'
<1>. stepState \in [Positions -> StepFileState]
  BY DEF TypeOK
<1>0. Settled \subseteq Settled' /\ Stoppable \subseteq Positions
  BY SettledGrows, KindsAssumption DEF Stoppable
<1>1. ASSUME NEW p \in Positions, StartStep(p) PROVE StepResults'
  <2>1. \A r \in Positions : stepState[r] = "RUNNING" => FALSE
    BY <1>1 DEF StartStep, StepsInOrder, Ended, Positions
  <2>2. p \in SwitchedOff => pc' = "leave"
    BY <1>1, KindsAssumption DEF StartStep
  <2>3. pc' = "leave" => p \in Settled
    BY <1>1 DEF StartStep, Settled
  <2>4. QED
    BY <1>0, <1>1, <2>1, <2>2, <2>3 DEF StartStep, StepResults, Stoppable
<1>2. ASSUME NEW p \in Positions, StepEnd(p) PROVE StepResults'
  <2>1. stepState[p] = "RUNNING"
    BY <1>2 DEF StepEnd, StepCompletes, StepFails, CancelStep, Running
  <2>2. \A r \in Positions : stepState[r] = "RUNNING" => r = p
    BY <2>1, OneRunning
  <2>3. CASE StepCompletes(p)
    BY <1>0, <2>1, <2>2, <2>3 DEF StepCompletes, StepResults, Stoppable
  <2>4. CASE StepFails(p)
    BY <1>0, <2>1, <2>2, <2>4 DEF StepFails, StepResults, Stoppable
  <2>5. CASE CancelStep(p)
    BY <1>0, <2>1, <2>2, <2>5 DEF CancelStep, StepResults, Stoppable
  <2>6. QED
    BY <1>2, <2>3, <2>4, <2>5 DEF StepEnd
<1>3. CASE Relaunch
  BY <1>3 DEF Relaunch, StepResults
<1>4. CASE ScriptStep
  BY <1>0, <1>4, ScriptFrame DEF StepResults, Stoppable
<1>5. CASE WorkStep
  <2>1. PICK p \in Positions : Running(p) /\ done' = done \cup {p}
    BY <1>5, WorkFrame
  <2>2. \A r \in Positions : stepState[r] = "RUNNING" => r = p
    BY <2>1, OneRunning DEF Running
  <2>3. p \in Settled'
    BY <2>1 DEF Settled
  <2>4. QED
    BY <1>0, <1>5, <2>1, <2>2, <2>3, WorkFrame DEF StepResults, Stoppable
<1>6. ASSUME NEW p \in Positions, CheckResume(p) PROVE StepResults'
  <2>1. stepState[p] = "RUNNING" /\ pc = "check" /\ UNCHANGED stepState
    BY <1>6 DEF CheckResume, Running, emrVars
  <2>2. \A r \in Positions : stepState[r] = "RUNNING" => r = p
    BY <2>1, OneRunning
  <2>3. p \notin SwitchedOff
    BY <2>1 DEF StepResults
  <2>4. pc' = "leave" => p \in Settled
    <3> SUFFICES ASSUME pc' = "leave" PROVE p \in Settled
      OBVIOUS
    <3>1. should_skip_step(ResumeName[p])
      BY <1>6 DEF CheckResume
    <3>2. PICK r \in Stoppable :
            /\ resumeFile = StepName[r] /\ 1 .. (r - 1) \subseteq Settled
            /\ stepState[r] = "ABSENT" \/ stepState[r] = "RUNNING"
      BY <3>1 DEF should_skip_step, ResumeFileInTime
    <3>3. r # p
      BY <3>1, <3>2 DEF should_skip_step, ResumeSafe
    <3>4. stepState[r] = "ABSENT"
      BY <1>0, <2>2, <3>2, <3>3
    <3>5. ~(r < p)
      BY <1>0, <2>1, <3>4 DEF StepsInOrder, Ended, Positions
    <3>6. p \in 1 .. (r - 1)
      BY <1>0, <3>3, <3>5 DEF Positions
    <3>7. QED
      BY <3>2, <3>6
  <2>5. QED
    BY <1>0, <2>1, <2>2, <2>3, <2>4 DEF StepResults, Stoppable
<1>7. CASE WriteIdFile \/ LocateOutput
  <2>1. PICK p \in Positions : /\ stepState[p] = "RUNNING" /\ pc # "leave"
                               /\ pc' # "leave"
                               /\ UNCHANGED stepState
    BY <1>7, KindsAssumption, StepsAssumption
       DEF WriteIdFile, LocateOutput, Running, emrVars, Positions
  <2>2. \A r \in Positions : stepState[r] = "RUNNING" => r = p
    BY <2>1, OneRunning
  <2>3. QED
    BY <1>0, <2>1, <2>2 DEF StepResults, Stoppable
<1>8. CASE ClusterEnd \/ DeleteRow \/ GetItem \/ UNCHANGED vars
  <2>1. UNCHANGED <<stepState, pc>>
    BY <1>8 DEF ClusterEnd, TerminateEarly, TerminateNormally, KillCluster,
                DeleteRow, GetItem, vars, emrVars
  <2>2. QED
    BY <1>0, <2>1 DEF StepResults, Stoppable
<1>9. QED
  BY <1>1, <1>2, <1>3, <1>4, <1>5, <1>6, <1>7, <1>8, SafeSteps
-----------------------------------------------------------------------------
\* The step to resume from is still ahead, or about to look for its name.
LEMMA ResumeFileKept ==
  ASSUME TypeOK, ResumeSafe, StepsInOrder, StepResults, ResumeFileInTime,
         RowsAreRight, [Next]_vars
  PROVE  ResumeFileInTime'
<1>. DEFINE Ahead(p) == /\ resumeFile = StepName[p]
                        /\ 1 .. (p - 1) \subseteq Settled
                        /\ \/ stepState[p] = "ABSENT"
                           \/ stepState[p] = "RUNNING" /\ pc = "check"
            Early == mPc \in {"wait", "ids", "get"}
<1>. stepState \in [Positions -> StepFileState] /\ mPc \in MonitorPlaces
  BY DEF TypeOK
<1>0. Settled \subseteq Settled' /\ Stoppable \subseteq Positions
  BY SettledGrows, KindsAssumption DEF Stoppable
<1>. SUFFICES ASSUME resumeFile' # NoFile
              PROVE  ~Early' /\ \E p \in Stoppable : Ahead(p)'
  BY DEF ResumeFileInTime
<1>1. CASE GetItem /\ resumeFile' # resumeFile
  <2>1. resumeFile' = table[mProduct].step /\ table[mProduct].status = "FAILED"
        /\ mPc = "get" /\ mPc' = "start" /\ UNCHANGED stepState /\ mProduct \in Products
    BY <1>1 DEF GetItem, MonitorAt, emrVars, TypeOK
  <2>2. PICK p \in Stoppable : /\ resumeFile' = StepName[p]
                               /\ 1 .. (p - 1) \subseteq Settled
    BY <2>1 DEF RowsAreRight, ResumePoint
  <2>3. stepState[p] = "ABSENT"
    BY <1>0, <2>1 DEF StepsInOrder, MonitorStarted, ResumeSafe
  <2>4. QED
    BY <1>0, <2>1, <2>2, <2>3
<1>2. CASE resumeFile' = resumeFile
  <2>1. ~Early
    BY <1>2 DEF ResumeFileInTime
  <2>2. PICK p \in Stoppable : Ahead(p)
    BY <1>2 DEF ResumeFileInTime
  <2>3. p \in Positions /\ p # 1 /\ p \notin SwitchedOff
    BY <1>0 DEF ResumeSafe, Awaits, Stoppable
  <2>4. ASSUME NEW q \in Positions, StartStep(q) PROVE ~Early' /\ Ahead(p)'
    <3>1. stepState[p] = "ABSENT"
      <4>1. SUFFICES ASSUME stepState[p] = "RUNNING" PROVE FALSE
        BY <2>2
      <4>2. q # p /\ stepState[q] = "ABSENT"
        BY <2>4, <4>1 DEF StartStep
      <4>3. CASE p < q
        BY <2>3, <2>4, <4>1, <4>3 DEF StartStep, Ended, Positions
      <4>4. CASE q < p
        BY <2>3, <4>1, <4>2, <4>4 DEF StepsInOrder, Ended, Positions
      <4>5. QED
        BY <2>3, <4>2, <4>3, <4>4 DEF Positions
    <3>2. QED
      BY <1>0, <1>2, <2>1, <2>2, <2>3, <2>4, <3>1 DEF StartStep, monitorVars
  <2>5. ASSUME NEW q \in Positions, StepEnd(q) PROVE ~Early' /\ Ahead(p)'
    <3>1. stepState[q] = "RUNNING" /\ pc # "check" /\ UNCHANGED mPc
          /\ \E s \in StepFileState : stepState' = [stepState EXCEPT ![q] = s]
      BY <2>5 DEF StepEnd, StepCompletes, StepFails, CancelStep, Running,
                  monitorVars, StepFileState
    <3>2. QED
      BY <1>0, <1>2, <2>1, <2>2, <2>3, <3>1
  <2>6. CASE WriteIdFile \/ LocateOutput \/ WorkStep
    <3>1. pc # "check" /\ UNCHANGED <<stepState, mPc>>
      BY <2>6, WorkFrame DEF WriteIdFile, LocateOutput, emrVars, monitorVars
    <3>2. QED
      BY <1>0, <1>2, <2>1, <2>2, <3>1
  <2>7. ASSUME NEW q \in Positions, CheckResume(q) PROVE ~Early' /\ Ahead(p)'
    <3>1. UNCHANGED <<stepState, mPc>> /\ stepState[q] = "RUNNING" /\ pc = "check"
      BY <2>7 DEF CheckResume, Running, emrVars, monitorVars
    <3>2. should_skip_step(ResumeName[q])
      BY <1>2, <2>7 DEF CheckResume
    <3>3. q # p
      BY <2>2, <3>2 DEF should_skip_step, ResumeSafe
    <3>4. stepState[p] = "ABSENT"
      BY <2>2, <2>3, <3>1, <3>3, OneRunning
    <3>5. QED
      BY <1>0, <1>2, <2>1, <2>2, <3>1, <3>4
  <2>8. CASE ScriptStep
    <3>1. ~Early'
      BY <2>1, <2>8
         DEF ScriptStep, WaitForIdFiles, ReadIdFiles, StartRun, ReadStepFile,
             PutItem, OpenStepFile, MonitorAt, MonitorPlaces, TypeOK, Put
    <3>2. QED
      BY <1>0, <1>2, <2>2, <2>8, <3>1, ScriptFrame
  <2>9. CASE ClusterEnd \/ DeleteRow \/ GetItem \/ UNCHANGED vars
    <3>1. UNCHANGED <<stepState, pc>> /\ ~Early'
      BY <2>1, <2>9
         DEF ClusterEnd, TerminateEarly, TerminateNormally, KillCluster,
             DeleteRow, GetItem, MonitorAt, vars, emrVars, monitorVars
    <3>2. QED
      BY <1>0, <1>2, <2>2, <3>1
  <2>10. CASE Relaunch
    BY <2>10 DEF Relaunch
  <2>11. QED
    BY <2>4, <2>5, <2>6, <2>7, <2>8, <2>9, <2>10, SafeSteps
<1>3. CASE resumeFile' # resumeFile /\ ~GetItem
  <2>1. ~ScriptStep /\ ~WorkStep
    BY <1>3, ScriptFrame, WorkFrame
  <2>2. QED
    BY <1>3, <2>1, SafeSteps
       DEF StartStep, WriteIdFile, CheckResume, LocateOutput, StepEnd,
           StepCompletes, StepFails, CancelStep, ClusterEnd, TerminateEarly,
           TerminateNormally, KillCluster, Relaunch, DeleteRow, vars, diskVars
<1>4. QED
  BY <1>1, <1>2, <1>3

\* Steps that skip themselves were done.
LEMMA SkippedKept ==
  ASSUME TypeOK, ResumeSafe, StepsInOrder, StepResults, StepResults',
         ResumeFileInTime, SkippedStepsWereDone, [Next]_vars
  PROVE  SkippedStepsWereDone'
<1>0. Settled \subseteq Settled' /\ done \subseteq done'
  <2>1. CASE ScriptStep
    BY <2>1, ScriptFrame, SettledGrows
  <2>2. CASE WorkStep
    BY <2>2, WorkFrame, SettledGrows
  <2>3. CASE ~ScriptStep /\ ~WorkStep
    BY <2>3, SafeSteps, SettledGrows
       DEF StartStep, WriteIdFile, CheckResume, LocateOutput, StepEnd,
           StepCompletes, StepFails, CancelStep, ClusterEnd, TerminateEarly,
           TerminateNormally, KillCluster, Relaunch, DeleteRow, GetItem, vars,
           historyVars
  <2>4. QED
    BY <2>1, <2>2, <2>3
<1>1. ASSUME NEW p \in Positions, CheckResume(p) PROVE SkippedStepsWereDone'
  <2>1. stepState[p] = "RUNNING" /\ pc = "check" /\ UNCHANGED <<stepState, done>>
    BY <1>1 DEF CheckResume, Running, emrVars
  <2>2. p \notin SwitchedOff
    BY <2>1 DEF StepResults
  <2>3. CASE pc' = "leave"
    <3>1. p \in Settled'
      BY <2>1, <2>3 DEF StepResults
    <3>2. QED
      BY <1>1, <2>1, <2>2, <3>1 DEF CheckResume, SkippedStepsWereDone, Settled
  <2>4. CASE pc' # "leave"
    BY <1>1, <2>1, <2>4 DEF CheckResume, SkippedStepsWereDone
  <2>5. QED
    BY <2>3, <2>4
<1>2. CASE skipped' \subseteq skipped
  BY <1>0, <1>2 DEF SkippedStepsWereDone
<1>3. CASE ~(skipped' \subseteq skipped) /\ ~\E p \in Positions : CheckResume(p)
  <2>1. ~ScriptStep /\ ~WorkStep
    BY <1>3, ScriptFrame, WorkFrame
  <2>2. QED
    BY <1>3, <2>1, SafeSteps
       DEF StartStep, WriteIdFile, LocateOutput, StepEnd, StepCompletes,
           StepFails, CancelStep, ClusterEnd, TerminateEarly,
           TerminateNormally, KillCluster, Relaunch, DeleteRow, GetItem, vars,
           historyVars
<1>4. QED
  BY <1>1, <1>2, <1>3
-----------------------------------------------------------------------------
\* Resume points and completion are never lost.
LEMMA VerdictsLast ==
  ASSUME TypeOK, ResumeSafe, [Next]_vars
  PROVE  /\ \A name : ResumePoint(name) => ResumePoint(name)'
         /\ AllDone => AllDone'
BY SettledGrows DEF ResumePoint, AllDone

\* The rows, as they are and as they are about to be written.
LEMMA RowsKept ==
  ASSUME TypeOK, ResumeSafe, StepsInOrder, StepResults, RowsAreRight,
         ScriptIsRight, [Next]_vars
  PROVE  RowsAreRight' /\ ScriptIsRight'
<1>. table \in [Products -> Row] /\ mProduct \in Products /\ mPut \in Put
  BY DEF TypeOK
<1>0. /\ \A name : ResumePoint(name) => ResumePoint(name)'
      /\ AllDone => AllDone'
  BY VerdictsLast
<1>1. CASE StartRun
  <2>1. table' = [table EXCEPT ![mProduct] =
                    dynamo_update_item(@, NotSet, "IN_PROGRESS", mRunId)]
    BY <1>1 DEF StartRun, Update, ResumeSafe
  <2>2. table'[mProduct].status = "IN_PROGRESS"
    BY <2>1 DEF dynamo_update_item, NotSet
  <2>3. RowsAreRight'
    BY <1>0, <2>1, <2>2 DEF RowsAreRight
  <2>4. ScriptIsRight'
    BY <1>1, <2>2 DEF StartRun, ScriptIsRight
  <2>5. QED
    BY <2>3, <2>4
<1>2. CASE PutItem
  <2>1. table' = [table EXCEPT ![mProduct] =
                    dynamo_update_item(@, mPut.step, mPut.status, 0)]
    BY <1>2 DEF PutItem, Update, ResumeSafe
  <2>2. cluster = "RUNNING" /\ mPc = "put" /\ mPc' = mPut.next /\ mProduct' = mProduct
        /\ mPut.next \in {"poll", "body", "exit"}
    BY <1>2 DEF PutItem, MonitorAt, Put
  <2>3. \A d \in Products \ {mProduct} : table'[d] = table[d]
    BY <2>1
  <2>4. table[mProduct].status = "IN_PROGRESS"
    BY <2>2 DEF ScriptIsRight
  <2>5. CASE mPut.status = NotSet /\ mPut.next # "exit"
    <3>1. table'[mProduct].status = "IN_PROGRESS"
      BY <2>1, <2>4, <2>5 DEF dynamo_update_item
    <3>2. QED
      BY <1>0, <2>2, <2>3, <2>5, <3>1 DEF RowsAreRight, ScriptIsRight
  <2>6. CASE /\ mPut.status = "FAILED" /\ mPut.next = "exit"
             /\ mPut.step # NotSet /\ ResumePoint(mPut.step)
    <3>1. table'[mProduct].status = "FAILED" /\ table'[mProduct].step = mPut.step
      BY <2>1, <2>6 DEF dynamo_update_item, NotSet
    <3>2. QED
      BY <1>0, <2>2, <2>3, <2>6, <3>1 DEF RowsAreRight, ScriptIsRight
  <2>7. CASE mPut.status = "COMPLETED" /\ mPut.next = "exit" /\ AllDone
    <3>1. table'[mProduct].status = "COMPLETED"
      BY <2>1, <2>7 DEF dynamo_update_item, NotSet
    <3>2. QED
      BY <1>0, <2>2, <2>3, <2>7, <3>1 DEF RowsAreRight, ScriptIsRight
  <2>8. QED
    BY <2>2, <2>5, <2>6, <2>7 DEF ScriptIsRight
<1>3. CASE ReadStepFile
  <2>1. /\ cluster = "RUNNING" /\ mPc = "body" /\ mAt \in Positions
        /\ UNCHANGED <<table, mProduct, cluster>>
    BY <1>3 DEF ReadStepFile, MonitorAt, emrVars, TypeOK
  <2>2. mPc' \in {"put", "poll", "body"}
    BY <1>3 DEF ReadStepFile
  <2>3. ASSUME mPc' = "put"
        PROVE  \/ mPut'.status = NotSet /\ mPut'.next # "exit"
               \/ /\ mPut'.status = "FAILED" /\ mPut'.next = "exit"
                  /\ mPut'.step # NotSet /\ ResumePoint(mPut'.step)
               \/ mPut'.status = "COMPLETED" /\ mPut'.next = "exit" /\ AllDone
    <3>1. CASE IsFailure(stepState[mAt])
      <4>1. mPut' = [step |-> StepName[mAt], status |-> "FAILED", next |-> "exit"]
        BY <1>3, <2>3, <3>1
           DEF ReadStepFile, AfterVerdict, IsFailure
      <4>2. mAt \in Stoppable /\ 1 .. (mAt - 1) \subseteq Settled
        BY <2>1, <3>1, StartedMeansSettledBefore DEF IsFailure, StepResults
      <4>3. StepName[mAt] # NotSet
        BY <2>1, StepsAssumption DEF Names
      <4>4. QED
        BY <4>1, <4>2, <4>3 DEF ResumePoint
    <3>2. CASE stepState[mAt] = "COMPLETED" /\ IsFinalStep(StepName[mAt])
      <4>1. mPut' = [step |-> StepName[mAt], status |-> "COMPLETED", next |-> "exit"]
        BY <1>3, <3>2 DEF ReadStepFile, AfterVerdict, IsFailure
      <4>2. 1 .. (mAt - 1) \subseteq Settled /\ mAt \in Settled
        BY <2>1, <3>2, StartedMeansSettledBefore DEF StepResults
      <4>3. 1 .. mAt \subseteq Settled
        BY <2>1, <4>2 DEF Positions
      <4>4. QED
        BY <2>1, <3>2, <4>1, <4>3 DEF AllDone, IsFinalStep
    <3>3. CASE /\ ~IsFailure(stepState[mAt])
               /\ ~(stepState[mAt] = "COMPLETED" /\ IsFinalStep(StepName[mAt]))
      <4>1. \E place \in {"poll", "body"} :
              mPut' = [step |-> StepName[mAt], status |-> NotSet, next |-> place]
        BY <1>3, <2>1, <2>3, <3>3 DEF ReadStepFile
      <4>2. QED
        BY <4>1
    <3>4. QED
      BY <3>1, <3>2, <3>3
  <2>4. QED
    BY <1>0, <2>1, <2>2, <2>3 DEF RowsAreRight, ScriptIsRight
<1>4. CASE \/ WaitForIdFiles \/ ReadIdFiles \/ GetItem
           \/ \E p \in Positions : OpenStepFile(p)
  <2>1. UNCHANGED <<table, cluster>>
    BY <1>4 DEF WaitForIdFiles, ReadIdFiles, GetItem, OpenStepFile, emrVars
  <2>2. \/ mPc' \in {"ids", "get", "start"}
        \/ mPc = "poll" /\ mPc' = "body" /\ mProduct' = mProduct
    BY <1>4 DEF WaitForIdFiles, ReadIdFiles, GetItem, OpenStepFile, MonitorAt
  <2>3. QED
    BY <1>0, <2>1, <2>2 DEF RowsAreRight, ScriptIsRight
<1>5. CASE DeleteRow
  <2>1. \A d \in Products : table'[d] = table[d] \/ table'[d].status = Null
    BY <1>5 DEF DeleteRow, NoRow
  <2>2. cluster' # "RUNNING"
    BY <1>5 DEF DeleteRow, emrVars
  <2>3. QED
    BY <1>0, <2>1, <2>2 DEF RowsAreRight, ScriptIsRight, Null
<1>6. CASE Relaunch
  BY <1>0, <1>6 DEF Relaunch, RowsAreRight, ScriptIsRight
<1>7. CASE ClusterEnd
  BY <1>0, <1>7
     DEF ClusterEnd, TerminateEarly, TerminateNormally, KillCluster,
         RowsAreRight, ScriptIsRight
<1>8. CASE \/ WriteIdFile \/ LocateOutput \/ WorkStep \/ UNCHANGED vars
           \/ \E p \in Positions : StartStep(p) \/ CheckResume(p) \/ StepEnd(p)
  <2>1. UNCHANGED <<table, cluster, mPc, mProduct, mPut>>
    BY <1>8, WorkFrame
       DEF WriteIdFile, LocateOutput, StartStep, CheckResume, StepEnd,
           StepCompletes, StepFails, CancelStep, vars, emrVars, monitorVars
  <2>2. QED
    BY <1>0, <2>1 DEF RowsAreRight, ScriptIsRight
<1>9. QED
  BY <1>1, <1>2, <1>3, <1>4, <1>5, <1>6, <1>7, <1>8, SafeSteps DEF ScriptStep

-----------------------------------------------------------------------------
\* The invariant behind safe resumption holds in every safe deployment.
THEOREM ResumeInvariantHolds ==
  ASSUME ResumeSafe PROVE Spec => []ResumeInvariant
<1>1. Init => ResumeInvariant
  BY DEF Init, ResumeInvariant, StepsInOrder, StepResults, ResumeFileInTime,
         RowsAreRight, ScriptIsRight, SkippedStepsWereDone, NoRow, Null
<1>2. TypeOK /\ ResumeInvariant /\ [Next]_vars => ResumeInvariant'
  <2> SUFFICES ASSUME TypeOK, ResumeInvariant, [Next]_vars
               PROVE  ResumeInvariant'
    OBVIOUS
  <2>. USE DEF ResumeInvariant
  <2>1. StepsInOrder'
    BY OrderKept
  <2>2. StepResults'
    BY ResultsKept
  <2>3. ResumeFileInTime'
    BY ResumeFileKept
  <2>4. RowsAreRight' /\ ScriptIsRight'
    BY RowsKept
  <2>5. SkippedStepsWereDone'
    BY <2>2, SkippedKept
  <2>6. QED
    BY <2>1, <2>2, <2>3, <2>4, <2>5
<1>3. QED
  BY <1>1, <1>2, TypeCorrect, PTL DEF Spec

\* No step is skipped whose work was never done, however often clusters fail, are
\* stopped or are lost, for every list of steps of a safe deployment.
THEOREM SkippingIsSafe ==
  ASSUME ResumeSafe PROVE Spec => []SkippedStepsWereDone
<1>1. ResumeInvariant => SkippedStepsWereDone
  BY DEF ResumeInvariant
<1>2. QED
  BY <1>1, ResumeInvariantHolds, PTL

\* A row that says COMPLETED tells the truth in every safe deployment.
THEOREM CompletedIsTrue ==
  ASSUME ResumeSafe PROVE Spec => []CompletedIsComplete
<1>1. ResumeInvariant => CompletedIsComplete
  BY StepsAssumption
     DEF ResumeInvariant, RowsAreRight, CompletedIsComplete, AllDone, Settled
<1>2. QED
  BY <1>1, ResumeInvariantHolds, PTL
-----------------------------------------------------------------------------
(***************************************************************************)
(* Refinement: a safe deployment implements the resumable pipeline.        *)
(***************************************************************************)

Complete == {d \in Products : table[d].status = "COMPLETED"}

\* FirstOf is the least element.
LEMMA FirstOfIs ==
  ASSUME NEW S \in SUBSET Positions, NEW p \in S, \A q \in S : p <= q
  PROVE  FirstOf(S) = p
<1>1. PICK r \in S : r = FirstOf(S) /\ \A q \in S : r <= q
  BY DEF FirstOf
<1>2. QED
  BY <1>1 DEF Positions

\* The open step is the one that runs.
LEMMA RunningIsFirstOpen ==
  ASSUME StepsInOrder, NEW p \in Positions, stepState[p] = "RUNNING"
  PROVE  FirstOf(Open) = p
<1>1. p \in Open
  BY DEF Open, Ended
<1>2. \A q \in Open : p <= q
  BY DEF Open, StepsInOrder, Positions
<1>3. QED
  BY <1>1, <1>2, FirstOfIs DEF Open

\* Every step of a safe deployment is a step of the pipeline or leaves it alone.
LEMMA PipelineStep ==
  ASSUME TypeOK, ResumeSafe, ResumeInvariant, [Next]_vars
  PROVE  [Pipeline!Next]_<<done, FirstOf(Open), Complete>>
<1>. stepState \in [Positions -> StepFileState] /\ table \in [Products -> Row]
     /\ mProduct \in Products /\ mPut \in Put
  BY DEF TypeOK
<1>. StepsInOrder /\ StepResults /\ ScriptIsRight
  BY DEF ResumeInvariant
<1>. USE DEF Complete
<1>1. CASE WorkStep
  <2>1. PICK p \in Positions : Running(p) /\ done' = done \cup {p}
    BY <1>1, WorkFrame
  <2>2. FirstOf(Open) = p /\ FirstOf(Open)' = FirstOf(Open) /\ Complete' = Complete
    BY <1>1, <2>1, WorkFrame, RunningIsFirstOpen DEF Running, Open, Ended
  <2>3. Pipeline!Perform
    BY <2>1, <2>2 DEF Pipeline!Perform, Positions
  <2>4. QED
    BY <2>3 DEF Pipeline!Next
<1>2. ASSUME NEW p \in Positions, StepCompletes(p)
      PROVE  [Pipeline!Next]_<<done, FirstOf(Open), Complete>>
  <2>1. stepState[p] = "RUNNING" /\ pc = "leave"
        /\ stepState' = [stepState EXCEPT ![p] = "COMPLETED"]
        /\ UNCHANGED <<table, done>>
    BY <1>2 DEF StepCompletes, Running, historyVars
  <2>2. FirstOf(Open) = p /\ p \in Settled
    BY <2>1, RunningIsFirstOpen DEF StepResults
  <2>3. Open' = Open \ {p}
    BY <2>1 DEF Open, Ended
  <2>4. \A q \in Open' : p + 1 <= q
    BY <2>1, <2>3 DEF Open, StepsInOrder, Positions
  <2>5. FirstOf(Open)' = p + 1
    <3>1. CASE p = NSteps
      BY <2>4, <3>1 DEF FirstOf, Open, Positions
    <3>2. CASE p < NSteps
      <4>. p + 1 \in Positions /\ p \in 1 .. p /\ p + 1 # p
        BY <3>2, StepsAssumption DEF Positions
      <4>1. p + 1 \in Open'
        <5>1. stepState[p + 1] = "ABSENT"
          BY <2>1 DEF StepsInOrder, Ended, Positions
        <5>2. stepState'[p + 1] = "ABSENT"
          BY <2>1, <5>1
        <5>3. QED
          BY <5>2 DEF Open, Ended, Positions
      <4>2. QED
        BY <2>4, <4>1, FirstOfIs DEF FirstOf, Open
    <3>3. QED
      BY <3>1, <3>2, StepsAssumption DEF Positions
  <2>6. Pipeline!Advance
    BY <2>1, <2>2, <2>5 DEF Pipeline!Advance, Positions, Settled
  <2>7. QED
    BY <2>6 DEF Pipeline!Next
<1>3. ASSUME NEW p \in Positions,
             StartStep(p) \/ StepFails(p) \/ CancelStep(p)
      PROVE  UNCHANGED <<done, FirstOf(Open), Complete>>
  <2>1. UNCHANGED <<done, table>>
    BY <1>3 DEF StartStep, StepFails, CancelStep, historyVars
  <2>2. Open' = Open
    BY <1>3 DEF StartStep, StepFails, CancelStep, Running, ResumeSafe, Open, Ended
  <2>3. QED
    BY <2>1, <2>2 DEF FirstOf
<1>4. CASE Relaunch
  <2>1. UNCHANGED <<done, table>> /\ Open' = Positions
    BY <1>4 DEF Relaunch, Open, Ended
  <2>2. FirstOf(Open)' = 1
    <3>1. 1 \in Positions /\ \A q \in Positions : 1 <= q
      BY StepsAssumption DEF Positions
    <3>2. FirstOf(Positions) = 1
      BY <3>1, FirstOfIs
    <3>3. QED
      BY <2>1, <3>2 DEF FirstOf
  <2>3. QED
    BY <2>1, <2>2 DEF Pipeline!Next, Pipeline!Restart
<1>5. CASE StartRun
  <2>1. UNCHANGED <<done, stepState>>
        /\ table' = [table EXCEPT ![mProduct] =
                       dynamo_update_item(@, NotSet, "IN_PROGRESS", mRunId)]
    BY <1>5 DEF StartRun, Update, ResumeSafe, emrVars, historyVars
  <2>2. Complete' = Complete \ {mProduct}
    BY <2>1 DEF dynamo_update_item, NotSet
  <2>3. FirstOf(Open)' = FirstOf(Open)
    BY <2>1 DEF FirstOf, Open, Ended
  <2>4. PICK d \in Products : d = mProduct
    OBVIOUS
  <2>5. Pipeline!Withdraw(d)
    BY <2>1, <2>2, <2>3, <2>4 DEF Pipeline!Withdraw
  <2>6. QED
    BY <2>5 DEF Pipeline!Next
<1>6. CASE PutItem
  <2>1. /\ UNCHANGED <<done, stepState>> /\ cluster = "RUNNING" /\ mPc = "put"
        /\ table' = [table EXCEPT ![mProduct] =
                       dynamo_update_item(@, mPut.step, mPut.status, 0)]
    BY <1>6 DEF PutItem, Update, MonitorAt, ResumeSafe, emrVars, historyVars
  <2>2. FirstOf(Open)' = FirstOf(Open)
    BY <2>1 DEF FirstOf, Open, Ended
  <2>3. CASE mPut.status = "COMPLETED"
    <3>1. AllDone
      BY <2>1, <2>3 DEF ScriptIsRight, NotSet
    <3>2. 1 .. FinalPosition \subseteq Settled
      <4>1. PICK f \in Positions : StepName[f] = FinalStep /\ 1 .. f \subseteq Settled
        BY <3>1 DEF AllDone
      <4>2. FinalPosition = f
        BY <4>1, StepsAssumption DEF FinalPosition
      <4>3. QED
        BY <4>1, <4>2
    <3>3. Complete' = Complete \cup {mProduct}
      BY <2>1, <2>3 DEF dynamo_update_item, NotSet
    <3>4. PICK d \in Products : d = mProduct
      OBVIOUS
    <3>5. Pipeline!Report(d)
      BY <2>1, <2>2, <3>2, <3>3, <3>4 DEF Pipeline!Report, Settled
    <3>6. QED
      BY <3>5 DEF Pipeline!Next
  <2>4. CASE mPut.status # "COMPLETED"
    <3>1. table[mProduct].status = "IN_PROGRESS"
      BY <2>1 DEF ScriptIsRight
    <3>2. Complete' = Complete
      BY <2>1, <2>4, <3>1 DEF dynamo_update_item
    <3>3. QED
      BY <2>1, <2>2, <3>2
  <2>5. QED
    BY <2>3, <2>4
<1>7. CASE DeleteRow
  <2>1. /\ UNCHANGED <<done, stepState>> /\ Product \in Products
        /\ table' = [table EXCEPT ![Product] = NoRow]
    BY <1>7 DEF DeleteRow, emrVars, historyVars, Products
  <2>2. Complete' = Complete \ {Product}
    BY <2>1 DEF NoRow, Null
  <2>3. FirstOf(Open)' = FirstOf(Open)
    BY <2>1 DEF FirstOf, Open, Ended
  <2>4. Pipeline!Withdraw(Product)
    BY <2>1, <2>2, <2>3 DEF Pipeline!Withdraw
  <2>5. QED
    BY <2>1, <2>4 DEF Pipeline!Next
<1>8. CASE \/ WriteIdFile \/ LocateOutput \/ ClusterEnd \/ GetItem
           \/ WaitForIdFiles \/ ReadIdFiles \/ ReadStepFile
           \/ UNCHANGED vars
           \/ \E p \in Positions : CheckResume(p) \/ OpenStepFile(p)
  <2>1. UNCHANGED <<done, stepState, table>>
    BY <1>8
       DEF WriteIdFile, LocateOutput, ClusterEnd, TerminateEarly,
           TerminateNormally, KillCluster, GetItem, WaitForIdFiles, ReadIdFiles,
           ReadStepFile, CheckResume, OpenStepFile, vars, emrVars, historyVars
  <2>2. QED
    BY <2>1 DEF FirstOf, Open, Ended
<1>9. QED
  BY <1>1, <1>2, <1>3, <1>4, <1>5, <1>6, <1>7, <1>8, SafeSteps
     DEF ScriptStep, StepEnd

\* A safe deployment implements the resumable pipeline.
THEOREM SafeDeploymentImplementsPipeline ==
  ASSUME ResumeSafe PROVE Spec => ImplementsPipeline
<1>1. Init => Pipeline!Init
  <2> SUFFICES ASSUME Init PROVE Pipeline!Init
    OBVIOUS
  <2>1. Open = Positions /\ Complete = {}
    BY DEF Init, Open, Ended, Complete, NoRow, Null
  <2>2. FirstOf(Open) = 1
    BY <2>1, FirstOfIs, StepsAssumption DEF Positions
  <2>3. QED
    BY <2>1, <2>2 DEF Init, Pipeline!Init, Complete
<1>2. TypeOK /\ ResumeInvariant /\ [Next]_vars => [Pipeline!Next]_Pipeline!vars
  BY PipelineStep DEF Pipeline!vars, Complete
<1>3. QED
  BY <1>1, <1>2, TypeCorrect, ResumeInvariantHolds, PTL
     DEF Spec, Pipeline!Spec, ImplementsPipeline

\* What implementing the pipeline is worth: at each moment of a resumable pipeline
\* every step before the one at hand was done, and so was every step up to the final
\* one once completion has been reported, whatever was restarted or withdrawn since.
THEOREM PipelineKeepsItsPromise ==
  Pipeline!Spec =>
    [](/\ 1 .. (FirstOf(Open) - 1) \subseteq Settled
       /\ Complete # {} => 1 .. FinalPosition \subseteq Settled)
<1> DEFINE at == FirstOf(Open)
           Promise == /\ at \in 1 .. (NSteps + 1)
                      /\ 1 .. (at - 1) \subseteq Settled
                      /\ Complete # {} => 1 .. FinalPosition \subseteq Settled
<1>. USE StepsAssumption
<1>1. Pipeline!Init => Promise
  BY DEF Pipeline!Init, Complete, Settled
<1>2. Promise /\ [Pipeline!Next]_Pipeline!vars => Promise'
  <2>. SUFFICES ASSUME Promise, [Pipeline!Next]_Pipeline!vars PROVE Promise'
    OBVIOUS
  <2>1. CASE Pipeline!Perform
    BY <2>1 DEF Pipeline!Perform, Complete, Settled
  <2>2. CASE Pipeline!Advance
    BY <2>2 DEF Pipeline!Advance, Complete, Settled
  <2>3. CASE Pipeline!Restart
    BY <2>3 DEF Pipeline!Restart, Complete, Settled
  <2>4. ASSUME NEW d \in Products, Pipeline!Report(d) \/ Pipeline!Withdraw(d)
        PROVE  Promise'
    BY <2>4 DEF Pipeline!Report, Pipeline!Withdraw, Complete, Settled
  <2>5. CASE UNCHANGED Pipeline!vars
    BY <2>5 DEF Pipeline!vars, Complete, Settled
  <2>. QED BY <2>1, <2>2, <2>3, <2>4, <2>5 DEF Pipeline!Next
<1>3. Promise => /\ 1 .. (FirstOf(Open) - 1) \subseteq Settled
                 /\ Complete # {} => 1 .. FinalPosition \subseteq Settled
  OBVIOUS
<1>. QED BY <1>1, <1>2, <1>3, PTL DEF Pipeline!Spec

-----------------------------------------------------------------------------
(***************************************************************************)
(* A retry does not repeat what it resumes after.                          *)
(***************************************************************************)

\* While step_to_start_from.txt is there, no step that comes after the start of the
\* script has got past its look for the file, other than to skip itself.
NothingIsRepeated ==
  resumeFile # NoFile =>
    \A p \in Positions : Awaits(p) /\ p \notin skipped \cup SwitchedOff =>
      stepState[p] = "ABSENT" \/ (stepState[p] = "RUNNING" /\ pc = "check")

\* So the first of these steps that works in a retry is the one that finds its name in
\* the file: in every deployment, since the file is made while all of them wait and
\* nobody else deletes it.
THEOREM RetriesDoNotRepeat == Spec => []NothingIsRepeated
<1>1. Init => NothingIsRepeated
  BY DEF Init, NothingIsRepeated
<1>2. TypeOK /\ StepsInOrder /\ NothingIsRepeated /\ [Next]_vars => NothingIsRepeated'
  <2>. SUFFICES ASSUME TypeOK, StepsInOrder, NothingIsRepeated, [Next]_vars,
                       resumeFile' # NoFile,
                       NEW p \in Positions, Awaits(p), p \notin skipped' \cup SwitchedOff
                PROVE  \/ stepState'[p] = "ABSENT"
                       \/ stepState'[p] = "RUNNING" /\ pc' = "check"
    BY DEF NothingIsRepeated, Awaits
  <2>. p # 1 BY DEF Awaits
  <2>1. ASSUME NEW q \in Positions, StartStep(q)
        PROVE  \/ stepState'[p] = "ABSENT"
               \/ stepState'[p] = "RUNNING" /\ pc' = "check"
    <3>1. \A r \in Positions : stepState[r] # "RUNNING"
      <4>. SUFFICES ASSUME NEW r \in Positions, stepState[r] = "RUNNING" PROVE FALSE
        OBVIOUS
      <4>1. stepState[q] = "ABSENT" /\ \A o \in 1 .. (q - 1) : Ended(o)
        BY <2>1 DEF StartStep
      <4>2. CASE r < q BY <4>1, <4>2 DEF Ended, Positions
      <4>3. CASE q < r BY <4>1, <4>3 DEF StepsInOrder, Ended, Positions
      <4>. QED BY <4>1, <4>2, <4>3 DEF Positions
    <3>2. UNCHANGED <<skipped, resumeFile>>
      BY <2>1 DEF StartStep, historyVars, diskVars
    <3>3. stepState[p] = "ABSENT"
      BY <3>1, <3>2 DEF NothingIsRepeated
    <3>4. CASE p = q
      BY <2>1, <3>4 DEF StartStep, TypeOK
    <3>5. CASE p # q
      BY <2>1, <3>3, <3>5 DEF StartStep, TypeOK
    <3>. QED BY <3>4, <3>5
  <2>2. ASSUME NEW q \in Positions, CheckResume(q)
        PROVE  \/ stepState'[p] = "ABSENT"
               \/ stepState'[p] = "RUNNING" /\ pc' = "check"
    <3>1. /\ should_skip_step(ResumeName[q]) /\ skipped' = skipped \cup {q}
          /\ UNCHANGED <<resumeFile, stepState>> /\ stepState[q] = "RUNNING"
      BY <2>2 DEF CheckResume, Running, emrVars
    <3>2. p # q BY <3>1
    <3>3. stepState[p] # "RUNNING" BY <3>1, <3>2, OneRunning
    <3>. QED BY <3>1, <3>3 DEF NothingIsRepeated
  <2>3. ASSUME NEW q \in Positions,
               ShellWork(q) \/ SendNotification(q) \/ StepEnd(q)
                 \/ (q = SubmitJob /\ (LocateOutput \/ PublishDataset))
                 \/ (q = 1 /\ WriteIdFile)
        PROVE  \/ stepState'[p] = "ABSENT"
               \/ stepState'[p] = "RUNNING" /\ pc' = "check"
    <3>1. /\ UNCHANGED <<resumeFile, skipped>> /\ stepState[q] = "RUNNING"
          /\ pc # "check"
          /\ \A r \in Positions : r # q => stepState'[r] = stepState[r]
      BY <2>3 DEF ShellWork, SendNotification, StepEnd, StepCompletes, StepFails,
         CancelStep, LocateOutput, PublishDataset, WriteIdFile, Running, emrVars,
         historyVars, diskVars, TypeOK
    <3>2. stepState[p] = "ABSENT" BY <3>1 DEF NothingIsRepeated
    <3>. QED BY <3>1, <3>2
  <2>4. CASE GetItem
    <3>1. mPc = "get" /\ UNCHANGED stepState
      BY <2>4 DEF GetItem, MonitorAt, emrVars
    <3>. QED BY <3>1 DEF StepsInOrder, MonitorStarted
  <2>5. CASE Relaunch BY <2>5 DEF Relaunch
  <2>6. CASE UNCHANGED <<resumeFile, skipped, stepState, pc>>
    BY <2>6 DEF NothingIsRepeated
  <2>7. CASE \/ Emr \/ KillCluster \/ DeleteRow \/ UnparsableStepFile
             \/ WaitForIdFiles \/ ReadIdFiles \/ StartRun \/ ReadStepFile \/ PutItem
             \/ UNCHANGED vars \/ \E q \in Positions : OpenStepFile(q)
    <3>1. UNCHANGED <<resumeFile, skipped, stepState, pc>>
      BY <2>7 DEF Emr, TerminateEarly, TerminateNormally, KillCluster, DeleteRow,
         UnparsableStepFile, WaitForIdFiles, ReadIdFiles, StartRun, ReadStepFile,
         PutItem, OpenStepFile, emrVars, diskVars, historyVars, vars
    <3>. QED BY <2>6, <3>1
  <2>. QED
    BY <2>1, <2>2, <2>3, <2>4, <2>5, <2>7, StepsAssumption, KindsAssumption
    DEF Next, Steps, StepProgram, External, Monitor, StepEnd, Positions
<1>. QED BY <1>1, <1>2, TypeCorrect, OrderHolds, PTL DEF Spec

-----------------------------------------------------------------------------
(***************************************************************************)
(* What the script does to its row, at whatever speed and with whatever    *)
(* writes are lost.                                                        *)
(***************************************************************************)
Verdicts == {"FAILED", "COMPLETED"}

\* The steps that touch neither the rows nor what is written to them.
LEMMA RowFrame ==
  ASSUME TypeOK, [Next]_vars, ~GetItem, ~StartRun, ~PutItem, ~ReadStepFile,
         ~UnparsableStepFile, ~Relaunch, ~DeleteRow, ~LocateOutput
  PROVE  /\ UNCHANGED <<table, run, outputFile, mRunId, mPut>>
         /\ \/ UNCHANGED <<mPc, mProduct, mRetry, mAt>>
            \/ mPc = "wait" /\ mPc' = "ids"
            \/ mPc = "ids" /\ mPc' = "get"
            \/ /\ mPc = "poll" /\ mPc' = "body" /\ UNCHANGED mProduct
               /\ mAt' \in Positions /\ stepState[mAt'] # "ABSENT"
         /\ cluster' = "RUNNING" => cluster = "RUNNING"
         /\ \A p \in Positions : stepState[p] \in {"FAILED", "CANCELLED"} =>
              stepState'[p] = stepState[p]
         /\ \A p \in Positions : stepState[p] # "ABSENT" => stepState'[p] # "ABSENT"
<1>1. CASE \/ UNCHANGED vars \/ WriteIdFile \/ PublishDataset
           \/ \E p \in Positions : CheckResume(p) \/ ShellWork(p) \/ SendNotification(p)
  BY <1>1 DEF vars, emrVars, diskVars, historyVars, monitorVars, WriteIdFile,
              PublishDataset, CheckResume, ShellWork, SendNotification
<1>2. CASE \E p \in Positions : StartStep(p) \/ StepEnd(p)
  <2>1. PICK p \in Positions : StartStep(p) \/ StepEnd(p)
    BY <1>2
  <2>2. /\ stepState[p] \in {"ABSENT", "RUNNING"}
        /\ \E s \in StepFileState \ {"ABSENT"} :
             stepState' = [stepState EXCEPT ![p] = s]
    BY <2>1 DEF StartStep, StepEnd, StepCompletes, StepFails, CancelStep, Running,
                StepFileState
  <2>3. \A q \in Positions : q # p => stepState'[q] = stepState[q]
    BY <2>2 DEF TypeOK
  <2> QED
    BY <2>1, <2>2, <2>3 DEF StartStep, StepEnd, StepCompletes, StepFails, CancelStep,
         emrVars, diskVars, historyVars, monitorVars
<1>3. CASE ClusterEnd
  BY <1>3 DEF ClusterEnd, TerminateEarly, TerminateNormally, KillCluster, diskVars,
              historyVars, monitorVars
<1>4. CASE WaitForIdFiles \/ ReadIdFiles \/ \E p \in Positions : OpenStepFile(p)
  BY <1>4 DEF WaitForIdFiles, ReadIdFiles, OpenStepFile, MonitorAt, emrVars, diskVars,
              historyVars
<1> QED
  BY <1>1, <1>2, <1>3, <1>4
     DEF Next, Steps, StepProgram, Emr, Monitor, External, StepEnd, ClusterEnd

\* What an update does to the rows.
LEMMA UpdatedRow ==
  ASSUME TypeOK, NEW step, NEW status, NEW runId, Update(step, status, runId)
  PROVE  /\ \A d \in Products \ {mProduct} : table'[d] = table[d]
         /\ \/ UNCHANGED table
            \/ /\ table'[mProduct].status =
                    IF status = NotSet THEN table[mProduct].status ELSE status
               /\ table'[mProduct].step =
                    IF step = NotSet THEN table[mProduct].step ELSE step
               /\ table'[mProduct].runId =
                    IF runId = 0 THEN table[mProduct].runId ELSE runId
               /\ table'[mProduct].prefix =
                    IF outputFile = 0 THEN table[mProduct].prefix ELSE outputFile
BY DEF Update, TypeOK, dynamo_update_item

\* An update with FAILED is that of a step whose file says so, or of the script that
\* gives up on the file of a step that has started.
PutIsAttributed ==
  /\ mPc \in {"body", "put"} => stepState[mAt] # "ABSENT"
  /\ mPc = "put" /\ mPut.status = "FAILED" =>
       \/ \E p \in Positions : /\ stepState[p] \in {"FAILED", "CANCELLED"}
                               /\ mPut.step = StepName[p]
       \/ /\ Environment \cap MisreadKinds # {} /\ mRetry >= MaxParse
          /\ mPut.step \in {NotSet, StepName[mAt]}

LEMMA AttributionHolds == Spec => []PutIsAttributed
<1>1. Init => PutIsAttributed
  BY DEF Init, PutIsAttributed
<1>2. TypeOK /\ PutIsAttributed /\ [Next]_vars => PutIsAttributed'
  <2> SUFFICES ASSUME TypeOK, PutIsAttributed, [Next]_vars PROVE PutIsAttributed'
    OBVIOUS
  <2>1. CASE GetItem \/ StartRun \/ PutItem \/ Relaunch
    BY <2>1 DEF GetItem, StartRun, PutItem, Relaunch, PutIsAttributed, TypeOK, Put,
                MonitorAt, emrVars
  <2>2. CASE DeleteRow \/ LocateOutput
    BY <2>2 DEF DeleteRow, LocateOutput, PutIsAttributed, monitorVars, emrVars
  <2>3. CASE ReadStepFile
    <3>1. mAt \in Positions /\ mPc = "body" /\ mPc' \in {"put", "poll", "body"}
          /\ UNCHANGED <<stepState, mAt>>
      BY <2>3 DEF ReadStepFile, MonitorAt, TypeOK, emrVars
    <3>2. mPc' = "put" /\ mPut'.status = "FAILED" =>
            IsFailure(stepState[mAt]) /\ mPut'.step = StepName[mAt]
      BY <2>3 DEF ReadStepFile, NotSet
    <3> QED BY <3>1, <3>2 DEF PutIsAttributed, IsFailure
  <2>4. CASE UnparsableStepFile
    <3>1. /\ mPc = "body" /\ mPc' \in {"put", "poll", "body"}
          /\ Environment \cap MisreadKinds # {} /\ UNCHANGED <<stepState, mAt>>
      BY <2>4 DEF UnparsableStepFile, MonitorAt, emrVars
    <3>2. mPc' = "put" =>
            /\ mRetry' >= MaxParse /\ mRetry' = mRetry
            /\ mPut'.step \in {NotSet, StepName[mAt]}
      BY <2>4 DEF UnparsableStepFile, Misread
    <3> QED BY <3>1, <3>2 DEF PutIsAttributed
  <2>5. CASE ~(GetItem \/ StartRun \/ PutItem \/ ReadStepFile
               \/ UnparsableStepFile \/ Relaunch \/ DeleteRow \/ LocateOutput)
    <3>1. CASE UNCHANGED <<mPc, mRetry, mAt>>
      <4>1. mPc \in {"body", "put"} => mAt \in Positions BY DEF TypeOK
      <4>2. UNCHANGED mPut /\ \A p \in Positions :
              /\ stepState[p] \in {"FAILED", "CANCELLED"} =>
                   stepState'[p] = stepState[p]
              /\ stepState[p] # "ABSENT" => stepState'[p] # "ABSENT"
        BY <2>5, RowFrame
      <4> QED BY <3>1, <4>1, <4>2 DEF PutIsAttributed
    <3>2. CASE mPc' = "body" /\ mAt' \in Positions /\ stepState[mAt'] # "ABSENT"
      <4>1. stepState'[mAt'] # "ABSENT" BY <2>5, <3>2, RowFrame
      <4> QED BY <3>2, <4>1 DEF PutIsAttributed
    <3>3. CASE mPc' \in {"ids", "get"}
      BY <3>3 DEF PutIsAttributed
    <3> QED BY <2>5, <3>1, <3>2, <3>3, RowFrame
  <2> QED BY <2>1, <2>2, <2>3, <2>4, <2>5
<1> QED BY <1>1, <1>2, TypeCorrect, PTL DEF Spec

\* A row turns FAILED only for a step that failed, whose name it then has; or when the
\* script gives up on a file, with that file's name or the one the row had: whatever
\* is lost or misread and however late the script is.
THEOREM FailuresAreAttributed == Spec => FailureIsAttributed
<1>1. TypeOK /\ PutIsAttributed /\ [Next]_vars =>
        [\A d \in Products :
           table[d].status # "FAILED" /\ table'[d].status = "FAILED" =>
             \/ \E p \in Positions : /\ stepState[p] \in {"FAILED", "CANCELLED"}
                                     /\ table'[d].step = StepName[p]
             \/ /\ Environment \cap MisreadKinds # {}
                /\ mRetry >= MaxParse /\ stepState[mAt] # "ABSENT"
                /\ table'[d].step \in {StepName[mAt], table[d].step}]_vars
  <2> SUFFICES ASSUME TypeOK, PutIsAttributed, [Next]_vars, NEW d \in Products,
                      table[d].status # "FAILED", table'[d].status = "FAILED"
               PROVE  \/ \E p \in Positions : /\ stepState[p] \in {"FAILED", "CANCELLED"}
                                              /\ table'[d].step = StepName[p]
                      \/ /\ Environment \cap MisreadKinds # {}
                         /\ mRetry >= MaxParse /\ stepState[mAt] # "ABSENT"
                         /\ table'[d].step \in {StepName[mAt], table[d].step}
    OBVIOUS
  <2>1. CASE StartRun
    BY <2>1, UpdatedRow DEF StartRun, NotSet
  <2>2. CASE PutItem
    <3>1. Update(mPut.step, mPut.status, 0) /\ mPc = "put"
      BY <2>2 DEF PutItem, MonitorAt
    <3>2. /\ d = mProduct /\ mPut.status = "FAILED"
          /\ table'[d].step = IF mPut.step = NotSet THEN table[d].step ELSE mPut.step
      BY <3>1, UpdatedRow DEF NotSet
    <3>3. \A p \in Positions : StepName[p] # NotSet
      BY StepsAssumption DEF Names
    <3> QED BY <3>1, <3>2, <3>3 DEF PutIsAttributed
  <2>3. CASE DeleteRow
    BY <2>3 DEF DeleteRow, NoRow, Null, TypeOK
  <2>4. CASE GetItem \/ ReadStepFile \/ UnparsableStepFile \/ Relaunch \/ LocateOutput
    BY <2>4 DEF GetItem, ReadStepFile, UnparsableStepFile, Relaunch, LocateOutput
  <2> QED BY <2>1, <2>2, <2>3, <2>4, RowFrame
<1> QED BY <1>1, TypeCorrect, AttributionHolds, PTL DEF Spec, FailureIsAttributed

-----------------------------------------------------------------------------
(***************************************************************************)
(* And what holds when reads do not fail: a get-item that fails counts as  *)
(* a missing row.                                                          *)
(***************************************************************************)
ReadsSucceed == "get" \notin Environment

\* The row of the script is of an earlier run, or has no verdict, until the script is
\* through with it; and it has the prefix of spark-submit, or none.
RowInvariant ==
  /\ \A d \in Products :
       /\ table[d].runId <= run
       /\ mPc \in {"wait", "ids", "get", "start"} => table[d].runId < run
  /\ mRunId <= run
  /\ mPc = "start" => table[mProduct].runId < mRunId
  /\ cluster = "RUNNING" /\ mPc \in {"poll", "body", "put"} =>
       /\ table[mProduct].runId <= mRunId
       /\ table[mProduct].runId = mRunId => table[mProduct].status \notin Verdicts
  /\ mPc = "put" /\ mPut.status \in Verdicts => mPut.next = "exit"
  /\ outputFile # 0 /\ table[Product].prefix # 0 => outputFile = table[Product].prefix

LEMMA RowInvariantKept ==
  ASSUME TypeOK, ReadsSucceed, RowInvariant, [Next]_vars PROVE RowInvariant'
<1>. /\ table \in [Products -> Row] /\ mProduct \in Products /\ Product \in Products
     /\ run \in Nat \ {0} /\ mRunId \in Nat /\ mPut \in Put /\ outputFile \in Nat
  BY DEF TypeOK, Products
<1>. \A d \in Products : table[d].runId \in Nat /\ table[d].prefix \in Nat
  BY DEF Row
<1>1. CASE GetItem
  <2>1. /\ mPc = "get" /\ mPc' = "start"
        /\ mRunId' = table[mProduct].runId + 1
    BY <1>1 DEF GetItem, MonitorAt, ReadsSucceed, NoRow
  <2>2. UNCHANGED <<table, run, cluster, outputFile, mProduct>>
    BY <1>1 DEF GetItem, emrVars
  <2> QED BY <2>1, <2>2 DEF RowInvariant
<1>2. CASE StartRun
  <2>1. /\ Update(NotSet, "IN_PROGRESS", mRunId) /\ mPc = "start" /\ mPc' = "poll"
        /\ UNCHANGED <<run, cluster, outputFile, mProduct, mRunId, mPut>>
    BY <1>2 DEF StartRun, MonitorAt, emrVars, diskVars
  <2>2. /\ \A d \in Products \ {mProduct} : table'[d] = table[d]
        /\ \/ UNCHANGED table
           \/ /\ table'[mProduct].status = "IN_PROGRESS"
              /\ table'[mProduct].runId = mRunId
              /\ table'[mProduct].prefix =
                   IF outputFile = 0 THEN table[mProduct].prefix ELSE outputFile
    BY <2>1, UpdatedRow DEF NotSet, RowInvariant
  <2> QED BY <2>1, <2>2 DEF RowInvariant, Verdicts
<1>3. CASE PutItem
  <2>1. /\ Update(mPut.step, mPut.status, 0) /\ cluster = "RUNNING" /\ mPc = "put"
        /\ mPc' = mPut.next /\ mPut.next \in {"poll", "body", "exit"}
        /\ UNCHANGED <<run, cluster, outputFile, mProduct, mRunId>>
    BY <1>3 DEF PutItem, MonitorAt, Put, emrVars, diskVars
  <2>2. /\ \A d \in Products \ {mProduct} : table'[d] = table[d]
        /\ table'[mProduct].runId = table[mProduct].runId
        /\ table'[mProduct].prefix \in {table[mProduct].prefix, outputFile}
        /\ table'[mProduct].prefix # table[mProduct].prefix =>
             table'[mProduct].prefix = outputFile
        /\ table'[mProduct].status \in Verdicts /\ table[mProduct].status \notin Verdicts =>
             mPut.status \in Verdicts
    BY <2>1, UpdatedRow
  <2> QED BY <2>1, <2>2 DEF RowInvariant
<1>4. CASE ReadStepFile
  <2>1. /\ mPc = "body" /\ mPc' \in {"put", "poll", "body"}
        /\ UNCHANGED <<table, run, cluster, outputFile, mProduct, mRunId>>
    BY <1>4 DEF ReadStepFile, MonitorAt, emrVars, diskVars
  <2>2. mPc' = "put" /\ mPut'.status \in Verdicts => mPut'.next = "exit"
    BY <1>4 DEF ReadStepFile, AfterVerdict, NotSet, Verdicts
  <2> QED BY <2>1, <2>2 DEF RowInvariant
<1>5. CASE UnparsableStepFile
  <2>1. /\ mPc = "body" /\ mPc' \in {"put", "poll", "body"}
        /\ UNCHANGED <<table, run, cluster, outputFile, mProduct, mRunId>>
        /\ mPc' = "put" => mPut'.next = "exit"
    BY <1>5 DEF UnparsableStepFile, MonitorAt, AfterVerdict, emrVars, diskVars
  <2> QED BY <2>1 DEF RowInvariant
<1>6. CASE Relaunch
  <2>1. /\ UNCHANGED table /\ run' = run + 1 /\ mPc' = "wait" /\ mRunId' = 0
        /\ outputFile' = 0
    BY <1>6 DEF Relaunch
  <2>2. \A d \in Products : table[d].runId <= run
    BY DEF RowInvariant
  <2> QED BY <2>1, <2>2 DEF RowInvariant
<1>7. CASE DeleteRow
  <2>1. /\ table' = [table EXCEPT ![Product] = NoRow] /\ cluster # "RUNNING"
        /\ UNCHANGED <<run, cluster, outputFile, mPc, mProduct, mRunId, mPut>>
    BY <1>7 DEF DeleteRow, emrVars, diskVars, monitorVars
  <2>2. /\ \A d \in Products \ {Product} : table'[d] = table[d]
        /\ table'[Product].runId = 0 /\ table'[Product].prefix = 0
    BY <2>1 DEF NoRow
  <2> QED BY <2>1, <2>2 DEF RowInvariant
<1>8. CASE LocateOutput
  <2>1. /\ outputFile' = IF table[Product].prefix = 0 THEN run ELSE table[Product].prefix
        /\ UNCHANGED <<table, run, cluster, mPc, mProduct, mRunId, mPut>>
    BY <1>8 DEF LocateOutput, ReadsSucceed, get_output_prefix, emrVars, monitorVars
  <2> QED BY <2>1 DEF RowInvariant
<1>9. CASE ~(GetItem \/ StartRun \/ PutItem \/ ReadStepFile
             \/ UnparsableStepFile \/ Relaunch \/ DeleteRow \/ LocateOutput)
  BY <1>9, RowFrame DEF RowInvariant
<1> QED BY <1>1, <1>2, <1>3, <1>4, <1>5, <1>6, <1>7, <1>8, <1>9

LEMMA RowInvariantHolds == ASSUME ReadsSucceed PROVE Spec => []RowInvariant
<1>1. Init => RowInvariant
  BY DEF Init, RowInvariant, NoRow, Products
<1>2. TypeOK /\ RowInvariant /\ [Next]_vars => RowInvariant'
  BY RowInvariantKept
<1> QED BY <1>1, <1>2, TypeCorrect, PTL DEF Spec

\* Of a cluster that is running only the script writes, to its own row.
LEMMA RowSteps ==
  ASSUME TypeOK, [Next]_vars, cluster = "RUNNING", NEW d \in Products
  PROVE  \/ table'[d] = table[d]
         \/ StartRun /\ d = mProduct
         \/ PutItem /\ d = mProduct
<1>1. CASE StartRun \/ PutItem
  BY <1>1, UpdatedRow DEF StartRun, PutItem
<1>2. CASE GetItem \/ ReadStepFile \/ UnparsableStepFile \/ LocateOutput
  BY <1>2 DEF GetItem, ReadStepFile, UnparsableStepFile, LocateOutput
<1> QED BY <1>1, <1>2, RowFrame DEF Relaunch, DeleteRow

\* The verdict of a run is never overwritten by that run.
THEOREM VerdictsStand == ASSUME ReadsSucceed PROVE Spec => VerdictStands
<1>1. TypeOK /\ RowInvariant /\ [Next]_vars =>
        [\A d \in Products :
           cluster = "RUNNING" /\ table[d].runId = mRunId
             /\ table[d].status \in {"FAILED", "COMPLETED"} =>
               table'[d] = table[d]]_vars
  <2> SUFFICES ASSUME TypeOK, RowInvariant, [Next]_vars, NEW d \in Products,
                      cluster = "RUNNING", table[d].runId = mRunId,
                      table[d].status \in Verdicts
               PROVE  table'[d] = table[d]
    BY DEF Verdicts
  <2>1. CASE StartRun /\ d = mProduct
    BY <2>1 DEF StartRun, MonitorAt, RowInvariant, TypeOK, Row
  <2>2. CASE PutItem /\ d = mProduct
    BY <2>2 DEF PutItem, MonitorAt, RowInvariant
  <2> QED BY <2>1, <2>2, RowSteps
<1> QED BY <1>1, TypeCorrect, RowInvariantHolds, PTL DEF Spec, VerdictStands

\* Run_Id counts launches.
THEOREM RunIdsCount == ASSUME ReadsSucceed PROVE Spec => RunIdCountsLaunches
<1>1. TypeOK /\ RowInvariant /\ RowInvariant' /\ [Next]_vars =>
        [\A d \in Products :
           /\ table'[d].runId <= run'
           /\ cluster = "RUNNING" => table'[d].runId >= table[d].runId]_vars
  <2> SUFFICES ASSUME TypeOK, RowInvariant, RowInvariant', [Next]_vars,
                      NEW d \in Products
               PROVE  /\ table'[d].runId <= run'
                      /\ cluster = "RUNNING" => table'[d].runId >= table[d].runId
    OBVIOUS
  <2>1. table'[d].runId <= run'
    BY DEF RowInvariant
  <2>2. table[d].runId \in Nat /\ mRunId \in Nat
    BY DEF TypeOK, Row
  <2>3. CASE StartRun /\ d = mProduct
    <3>1. Update(NotSet, "IN_PROGRESS", mRunId) /\ table[d].runId < mRunId
      BY <2>3 DEF StartRun, MonitorAt, RowInvariant
    <3> QED BY <2>1, <2>2, <2>3, <3>1, UpdatedRow
  <2>4. CASE PutItem /\ d = mProduct
    BY <2>1, <2>2, <2>4, UpdatedRow DEF PutItem
  <2> QED BY <2>1, <2>2, <2>3, <2>4, RowSteps
<1> QED BY <1>1, TypeCorrect, RowInvariantHolds, PTL DEF Spec, RunIdCountsLaunches

\* The row of the snapshot type keeps its output prefix.
THEOREM OutputPrefixStays == ASSUME ReadsSucceed PROVE Spec => OneOutputLocation
<1>1. TypeOK /\ RowInvariant /\ [Next]_vars =>
        [cluster = "RUNNING" /\ table[Product].prefix # 0 =>
           table'[Product].prefix = table[Product].prefix]_vars
  <2> SUFFICES ASSUME TypeOK, RowInvariant, [Next]_vars, cluster = "RUNNING",
                      table[Product].prefix # 0
               PROVE  table'[Product].prefix = table[Product].prefix
    OBVIOUS
  <2>1. CASE (StartRun \/ PutItem) /\ Product = mProduct
    BY <2>1, UpdatedRow DEF StartRun, PutItem, RowInvariant
  <2>2. Product \in Products BY DEF Products
  <2> QED BY <2>1, <2>2, RowSteps
<1> QED BY <1>1, TypeCorrect, RowInvariantHolds, PTL DEF Spec, OneOutputLocation
=============================================================================
