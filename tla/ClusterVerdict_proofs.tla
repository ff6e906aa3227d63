----------------------- MODULE ClusterVerdict_proofs ------------------------
(***************************************************************************)
(* Theorems about the verdict update_dynamo.sh leaves in its row, for      *)
(* every list of steps: it is the verdict of a step that ended, and a      *)
(* cluster whose script keeps up with EMR does not end without it.         *)
(***************************************************************************)
EXTENDS AdgCluster_proofs

\* The script keeps up with EMR, its updates arrive, and it does not miss the name
\* alone: a turn that reads COMPLETED without a name leaves the final step for good.
Followed ==
  /\ Attentive
  /\ Environment \cap {"put", "deleterow", "name"} = {}

Misreading == Environment \cap MisreadKinds # {}

\* And the run is over at a step that the script cannot miss.
VerdictSafe ==
  /\ Followed
  /\ "kill" \notin Environment
  /\ \E f \in Positions : StepName[f] = FinalStep /\ Awaits(f)

Stopped(p) == stepState[p] \in {"FAILED", "CANCELLED"}

\* Nothing the script reads after p can take the verdict from p: it is in the loop
\* on p's file, or has a verdict already.
Judges(p) ==
  \/ mPc = "body" /\ mAt = p
  \/ mPc = "put" /\ mPut.next = "exit"
  \/ mPc = "exit"

\* A step that stopped, or the final one.
CallsForVerdict(p) ==
  Stopped(p) \/ (stepState[p] = "COMPLETED" /\ StepName[p] = FinalStep)

\* A verdict is COMPLETED when the final step completed and no step before it, that
\* the script was there for, stopped; FAILED when the step it names stopped, or when
\* the script gave up on a file.
RightVerdict(status, step) ==
  \/ /\ status = "COMPLETED"
     /\ \E f \in Positions : /\ StepName[f] = FinalStep
                             /\ stepState[f] = "COMPLETED"
                             /\ \A p \in 1 .. (f - 1) : Awaits(p) => ~Stopped(p)
  \/ /\ status = "FAILED"
     /\ \/ Misreading
        \/ \E p \in Positions : Stopped(p) /\ step = StepName[p]

\* The inductive invariant: what ends is judged, and the script's verdict, sent or
\* about to be sent, is right.
VerdictInvariant ==
  /\ \A p \in Positions : Awaits(p) /\ CallsForVerdict(p) => Judges(p)
  /\ mPc = "put" /\ mPut.next = "exit" => RightVerdict(mPut.status, mPut.step)
  /\ mPc = "exit" => RightVerdict(table[mProduct].status, table[mProduct].step)

-----------------------------------------------------------------------------
(***************************************************************************)
(* The invariant, by what a step changes.                                  *)
(***************************************************************************)

\* The end of a step leaves what has ended before as it is.
LEMMA VerdictsStayRight ==
  ASSUME TypeOK, StepsInOrder,
         \A p \in Positions :
           stepState[p] \in {"COMPLETED", "FAILED", "CANCELLED"} =>
             stepState'[p] = stepState[p],
         NEW status, NEW step, RightVerdict(status, step)
  PROVE  RightVerdict(status, step)'
<1>1. CASE status = "FAILED"
  BY <1>1 DEF RightVerdict, Stopped
<1>2. CASE status = "COMPLETED"
  <2>1. PICK f \in Positions :
          /\ StepName[f] = FinalStep /\ stepState[f] = "COMPLETED"
          /\ \A p \in 1 .. (f - 1) : Awaits(p) => ~Stopped(p)
    BY <1>2 DEF RightVerdict
  <2>2. \A p \in 1 .. (f - 1) :
          /\ p \in Positions
          /\ stepState[p] \in {"COMPLETED", "FAILED", "CANCELLED"}
    BY <2>1, StepsAssumption DEF StepsInOrder, Ended, Positions
  <2>3. /\ stepState'[f] = "COMPLETED"
        /\ \A p \in 1 .. (f - 1) : (Awaits(p) => ~Stopped(p))'
    BY <2>1, <2>2 DEF Stopped, Awaits
  <2>. QED BY <1>2, <2>1, <2>3 DEF RightVerdict
<1>. QED BY <1>1, <1>2 DEF RightVerdict

\* Steps of the programs, and of EMR, that end no step.
LEMMA VerdictProgramsKept ==
  ASSUME TypeOK, StepsInOrder, VerdictInvariant,
         UNCHANGED <<table, monitorVars>>,
         \/ UNCHANGED stepState
         \/ \E p \in Positions : StartStep(p)
  PROVE  VerdictInvariant'
<1>. UNCHANGED <<mPc, mAt, mPut, mProduct>>
  BY DEF monitorVars
<1>1. \A p \in Positions :
        \/ stepState'[p] = stepState[p]
        \/ stepState[p] = "ABSENT" /\ stepState'[p] = "RUNNING"
  BY DEF StartStep, TypeOK
<1>2. \A status, step : RightVerdict(status, step) => RightVerdict(status, step)'
  BY <1>1, VerdictsStayRight
<1>3. \A p \in Positions : CallsForVerdict(p)' => CallsForVerdict(p)
  BY <1>1 DEF CallsForVerdict, Stopped
<1>. QED BY <1>2, <1>3 DEF VerdictInvariant, Judges, Awaits

\* A step ends while the script is in the loop on its file, or after it has left.
LEMMA VerdictStepEndKept ==
  ASSUME TypeOK, Attentive, StepsInOrder, VerdictInvariant,
         NEW p \in Positions, StepEnd(p)
  PROVE  VerdictInvariant'
<1>1. /\ stepState[p] = "RUNNING" /\ SeenByMonitor(p)
      /\ UNCHANGED <<table, mPc, mAt, mPut, mProduct>>
      /\ \E s \in StepFileState : stepState' = [stepState EXCEPT ![p] = s]
  BY DEF StepEnd, StepCompletes, StepFails, CancelStep, Running, monitorVars,
         StepFileState
<1>2. \A q \in Positions : q # p => stepState'[q] = stepState[q]
  BY <1>1 DEF TypeOK
<1>3. \A status, step : RightVerdict(status, step) => RightVerdict(status, step)'
  BY <1>1, <1>2, VerdictsStayRight
<1>4. Awaits(p) => Judges(p)
  BY <1>1 DEF StepsInOrder, SeenByMonitor, Judges
<1>5. \A q \in Positions : q # p => (CallsForVerdict(q)' => CallsForVerdict(q))
  BY <1>2 DEF CallsForVerdict, Stopped
<1>. QED BY <1>1, <1>3, <1>4, <1>5 DEF VerdictInvariant, Judges, Awaits

\* Before the script polls, and while it does, nothing has ended that it was to
\* judge.
LEMMA VerdictPollKept ==
  ASSUME TypeOK, VerdictInvariant, UNCHANGED stepState,
         mPc \in {"wait", "ids", "get", "start", "poll"},
         mPc' \notin {"put", "exit"}
  PROVE  VerdictInvariant'
<1>1. \A p \in Positions : Awaits(p) => ~CallsForVerdict(p)
  BY DEF VerdictInvariant, Judges
<1>2. \A p \in Positions : CallsForVerdict(p)' <=> CallsForVerdict(p)
  BY DEF CallsForVerdict, Stopped
<1>. QED BY <1>1, <1>2 DEF VerdictInvariant, Awaits

\* What the script decides from a file is right.
LEMMA VerdictReadKept ==
  ASSUME TypeOK, VerdictInvariant, ReadStepFile
  PROVE  VerdictInvariant'
<1>1. /\ mPc = "body" /\ mAt \in Positions /\ UNCHANGED <<stepState, mAt>>
  BY DEF ReadStepFile, MonitorAt, TypeOK, emrVars
<1>2. \A p \in Positions : Awaits(p) /\ CallsForVerdict(p) => p = mAt
  BY <1>1 DEF VerdictInvariant, Judges
<1>3. \A p \in Positions : CallsForVerdict(p)' <=> CallsForVerdict(p)
  BY <1>1 DEF CallsForVerdict, Stopped
<1>4. CASE Stopped(mAt)
  <2>1. /\ mPut' = [step |-> StepName[mAt], status |-> "FAILED", next |-> "exit"]
        /\ mPc' = "put"
    BY <1>4 DEF ReadStepFile, Stopped, IsFailure, AfterVerdict
  <2>2. RightVerdict(mPut.status, mPut.step)'
    BY <1>1, <1>4, <2>1 DEF RightVerdict, Stopped
  <2>. QED BY <2>1, <2>2 DEF VerdictInvariant, Judges
<1>5. CASE stepState[mAt] = "COMPLETED" /\ StepName[mAt] = FinalStep
  <2>1. /\ mPut' = [step |-> StepName[mAt], status |-> "COMPLETED", next |-> "exit"]
        /\ mPc' = "put"
    BY <1>5 DEF ReadStepFile, IsFailure, IsFinalStep, AfterVerdict
  <2>2. \A p \in 1 .. (mAt - 1) : p \in Positions /\ p # mAt
    BY <1>1, StepsAssumption DEF Positions
  <2>3. \A p \in 1 .. (mAt - 1) : (Awaits(p) => ~Stopped(p))'
    BY <1>1, <1>2, <2>2 DEF CallsForVerdict, Stopped, Awaits
  <2>4. RightVerdict(mPut.status, mPut.step)'
    BY <1>1, <1>5, <2>1, <2>3 DEF RightVerdict
  <2>. QED BY <2>1, <2>4 DEF VerdictInvariant, Judges
<1>6. CASE ~CallsForVerdict(mAt)
  <2>1. \/ mPc' \in {"poll", "body"}
        \/ mPc' = "put" /\ mPut'.next \in {"poll", "body"}
    BY <1>6 DEF ReadStepFile, CallsForVerdict, Stopped, IsFailure, IsFinalStep
  <2>2. \A p \in Positions : (Awaits(p) => ~CallsForVerdict(p))'
    BY <1>2, <1>3, <1>6 DEF Awaits
  <2>. QED BY <2>1, <2>2 DEF VerdictInvariant
<1>. QED BY <1>4, <1>5, <1>6 DEF CallsForVerdict

\* A script that gives up on a file does so with a verdict.
LEMMA VerdictUnparsableKept ==
  ASSUME TypeOK, Followed, VerdictInvariant, UnparsableStepFile
  PROVE  VerdictInvariant'
<1>1. /\ Misreading /\ mPc = "body" /\ UNCHANGED <<stepState, mAt>>
  BY DEF UnparsableStepFile, MonitorAt, emrVars, Misreading
<1>2. CASE mPc' = "put" /\ mPut'.status = "FAILED" /\ mPut'.next = "exit"
  <2>1. RightVerdict(mPut.status, mPut.step)'
    BY <1>1, <1>2 DEF RightVerdict, Misreading
  <2>. QED BY <1>2, <2>1 DEF VerdictInvariant, Judges
<1>3. CASE mPc' = "body"
  <2>1. \A p \in Positions : (Judges(p) <=> Judges(p)')
    BY <1>1, <1>3 DEF Judges
  <2>2. \A p \in Positions : CallsForVerdict(p)' <=> CallsForVerdict(p)
    BY <1>1 DEF CallsForVerdict, Stopped
  <2>. QED BY <1>3, <2>1, <2>2 DEF VerdictInvariant, Awaits
<1>4. \A kind \in Environment \cap MisreadKinds : Misread(kind, mAt).state # "COMPLETED"
  BY DEF Followed, MisreadKinds, Misread, Unread
<1>. QED BY <1>1, <1>2, <1>3, <1>4 DEF UnparsableStepFile, AfterVerdict

\* The verdict gets into the row as it was decided.
LEMMA VerdictPutKept ==
  ASSUME TypeOK, Followed, VerdictInvariant, PutItem
  PROVE  VerdictInvariant'
<1>1. /\ mPc = "put" /\ mPc' = mPut.next /\ mPut \in Put
      /\ UNCHANGED <<stepState, mAt, mProduct>>
      /\ table' = [table EXCEPT ![mProduct] =
                     dynamo_update_item(@, mPut.step, mPut.status, 0)]
  BY DEF PutItem, Update, MonitorAt, TypeOK, emrVars, Followed
<1>2. \A p \in Positions : CallsForVerdict(p)' <=> CallsForVerdict(p)
  BY <1>1 DEF CallsForVerdict, Stopped
<1>3. CASE mPut.next = "exit"
  <2>1. RightVerdict(mPut.status, mPut.step)
    BY <1>1, <1>3 DEF VerdictInvariant
  <2>2. /\ table'[mProduct].status = mPut.status
        /\ mPut.step # NotSet => table'[mProduct].step = mPut.step
    BY <1>1, <2>1 DEF dynamo_update_item, RightVerdict, NotSet, TypeOK
  <2>3. RightVerdict(table[mProduct].status, table[mProduct].step)'
    <3>1. CASE mPut.status = "COMPLETED"
      BY <1>1, <2>1, <2>2, <3>1 DEF RightVerdict, Stopped, Awaits
    <3>2. CASE mPut.status = "FAILED" /\ Misreading
      BY <1>1, <2>2, <3>2 DEF RightVerdict
    <3>3. CASE mPut.status = "FAILED" /\ ~Misreading
      <4>1. PICK p \in Positions : Stopped(p) /\ mPut.step = StepName[p]
        BY <2>1, <3>3 DEF RightVerdict
      <4>2. mPut.step # NotSet
        BY <4>1, StepsAssumption DEF Names
      <4>. QED BY <1>1, <2>2, <3>3, <4>1, <4>2 DEF RightVerdict, Stopped
    <3>. QED BY <2>1, <3>1, <3>2, <3>3 DEF RightVerdict
  <2>. QED BY <1>1, <1>3, <2>3 DEF VerdictInvariant, Judges
<1>4. CASE mPut.next \in {"poll", "body"}
  <2>1. \A p \in Positions : (Awaits(p) => ~CallsForVerdict(p))'
    BY <1>1, <1>2, <1>4 DEF VerdictInvariant, Judges, Awaits
  <2>. QED BY <1>1, <1>4, <2>1 DEF VerdictInvariant
<1>. QED BY <1>1, <1>3, <1>4 DEF Put

LEMMA VerdictInvariantHolds == ASSUME Followed PROVE Spec => []VerdictInvariant
<1>1. Init => VerdictInvariant
  BY DEF Init, VerdictInvariant, CallsForVerdict, Stopped
<1>2. TypeOK /\ StepsInOrder /\ VerdictInvariant /\ [Next]_vars => VerdictInvariant'
  <2>. SUFFICES ASSUME TypeOK, StepsInOrder, VerdictInvariant, [Next]_vars
                PROVE  VerdictInvariant'
    OBVIOUS
  <2>1. CASE \/ WriteIdFile \/ LocateOutput \/ PublishDataset \/ ClusterEnd
             \/ UNCHANGED vars
             \/ \E p \in Positions : \/ StartStep(p) \/ CheckResume(p)
                                     \/ ShellWork(p) \/ SendNotification(p)
    <3>1. UNCHANGED <<table, monitorVars>>
      BY <2>1 DEF WriteIdFile, LocateOutput, PublishDataset, ClusterEnd,
         TerminateEarly, TerminateNormally, KillCluster, StartStep, CheckResume,
         ShellWork, SendNotification, vars
    <3>2. UNCHANGED stepState \/ \E p \in Positions : StartStep(p)
      BY <2>1 DEF WriteIdFile, LocateOutput, PublishDataset, ClusterEnd,
         TerminateEarly, TerminateNormally, KillCluster, CheckResume, ShellWork,
         SendNotification, vars, emrVars
    <3>. QED BY <3>1, <3>2, VerdictProgramsKept
  <2>2. ASSUME NEW p \in Positions, StepEnd(p) PROVE VerdictInvariant'
    BY <2>2, VerdictStepEndKept DEF Followed
  <2>3. CASE Relaunch
    BY <2>3 DEF Relaunch, VerdictInvariant, CallsForVerdict, Stopped
  <2>4. CASE DeleteRow
    BY <2>4 DEF DeleteRow, Followed
  <2>5. CASE \/ WaitForIdFiles \/ ReadIdFiles \/ GetItem \/ StartRun
             \/ \E p \in Positions : OpenStepFile(p)
    <3>1. /\ UNCHANGED stepState
          /\ mPc \in {"wait", "ids", "get", "start", "poll"}
          /\ mPc' \notin {"put", "exit"}
      BY <2>5 DEF WaitForIdFiles, ReadIdFiles, GetItem, StartRun, OpenStepFile,
                  MonitorAt, emrVars
    <3>. QED BY <3>1, VerdictPollKept
  <2>6. CASE ReadStepFile BY <2>6, VerdictReadKept
  <2>7. CASE UnparsableStepFile BY <2>7, VerdictUnparsableKept
  <2>8. CASE PutItem BY <2>8, VerdictPutKept
  <2>. QED
    BY <2>1, <2>2, <2>3, <2>4, <2>5, <2>6, <2>7, <2>8
    DEF Next, Steps, StepProgram, Emr, Monitor, External, StepEnd, ClusterEnd
<1>. QED BY <1>1, <1>2, TypeCorrect, OrderHolds, PTL DEF Spec

-----------------------------------------------------------------------------
(***************************************************************************)
(* The end of a cluster.                                                   *)
(***************************************************************************)

\* EMR ends a cluster when the script is through with it.
EndedClusterIsLeft == cluster # "RUNNING" => mPc = "exit"

LEMMA EndedClusterIsLeftHolds ==
  ASSUME VerdictSafe PROVE Spec => []EndedClusterIsLeft
<1>1. Init => EndedClusterIsLeft
  BY DEF Init, EndedClusterIsLeft
<1>2. TypeOK /\ VerdictInvariant /\ EndedClusterIsLeft /\ [Next]_vars
        => EndedClusterIsLeft'
  <2>. SUFFICES ASSUME TypeOK, VerdictInvariant, EndedClusterIsLeft, [Next]_vars,
                       cluster' # "RUNNING"
                PROVE  mPc' = "exit"
    BY DEF EndedClusterIsLeft
  <2>1. CASE TerminateEarly
    BY <2>1 DEF TerminateEarly, CaughtUp, VerdictSafe, Followed, monitorVars
  <2>2. CASE TerminateNormally
    <3>1. PICK f \in Positions : StepName[f] = FinalStep /\ Awaits(f)
      BY DEF VerdictSafe
    <3>2. Ended(f) /\ CaughtUp /\ UNCHANGED monitorVars
      BY <2>2 DEF TerminateNormally
    <3>3. ASSUME mPc = "poll" PROVE FALSE
      <4>1. CallsForVerdict(f)
        BY <3>1, <3>2, <3>3
        DEF CaughtUp, VerdictSafe, Followed, Ended, CallsForVerdict
      <4>. QED BY <3>1, <3>3, <4>1 DEF VerdictInvariant, Judges
    <3>. QED BY <3>2, <3>3 DEF CaughtUp, VerdictSafe, Followed, monitorVars
  <2>3. CASE cluster # "RUNNING"
    <3>1. mPc = "exit" /\ ~DeleteRow
      BY <2>3 DEF EndedClusterIsLeft, DeleteRow, VerdictSafe, Followed
    <3>2. UNCHANGED vars
      BY <2>3, <3>1 DEF Next, Steps, StepProgram, Emr, Monitor, External, StartStep,
         CheckResume, ShellWork, SendNotification, StepCompletes, StepFails,
         CancelStep, WriteIdFile, LocateOutput, PublishDataset, TerminateEarly,
         TerminateNormally, WaitForIdFiles, ReadIdFiles, GetItem, StartRun,
         OpenStepFile, ReadStepFile, PutItem, KillCluster, Relaunch,
         UnparsableStepFile, Running, MonitorAt
    <3>. QED BY <3>1, <3>2 DEF vars, monitorVars
  <2>4. CASE cluster = "RUNNING" /\ ~TerminateEarly /\ ~TerminateNormally
    BY <2>4 DEF Next, Steps, StepProgram, Emr, Monitor, External, StartStep,
         CheckResume, ShellWork, SendNotification, StepCompletes, StepFails,
         CancelStep, WriteIdFile, LocateOutput, PublishDataset, WaitForIdFiles,
         ReadIdFiles, GetItem, StartRun, OpenStepFile, ReadStepFile, PutItem,
         KillCluster, Relaunch, DeleteRow, UnparsableStepFile, vars, emrVars,
         VerdictSafe, Followed
  <2>. QED BY <2>1, <2>2, <2>3, <2>4
<1>. QED BY <1>1, <1>2, TypeCorrect, VerdictInvariantHolds, PTL DEF Spec, VerdictSafe

\* When a cluster is over its row has a verdict, in every deployment whose final step
\* comes after the start of the script, which keeps up with EMR: also when the ids
\* are read early, when reads of the table fail and when the state of a step, alone
\* or with its name, cannot be read.
THEOREM EndedClustersHaveVerdicts ==
  ASSUME VerdictSafe PROVE Spec => []EndedClusterHasVerdict
<1>1. VerdictInvariant /\ EndedClusterIsLeft => EndedClusterHasVerdict
  BY DEF VerdictInvariant, EndedClusterIsLeft, EndedClusterHasVerdict, RightVerdict
<1>. QED
  BY <1>1, VerdictInvariantHolds, EndedClusterIsLeftHolds, PTL DEF VerdictSafe
=============================================================================
