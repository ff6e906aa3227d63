------------------------ MODULE StatusMetrics_proofs ------------------------
(***************************************************************************)
(* Theorems about StatusMetrics, for every list of steps: the second       *)
(* script leaves the cluster as it is in AdgCluster, and its metric of     *)
(* success means what it says.                                             *)
(***************************************************************************)
EXTENDS StatusMetrics, ClusterVerdict_proofs

\* Every step of the composition is one of the cluster, or leaves it alone.
LEMMA StepOfCluster == StatusNext => [Next]_vars
<1> SUFFICES ASSUME StatusNext PROVE [Next]_vars OBVIOUS
<1>1. CASE OtherSteps
  BY <1>1 DEF OtherSteps, Next, Steps, StepProgram
<1>2. ASSUME NEW p \in Positions, FlushStep(p) PROVE Next
  BY <1>2 DEF FlushStep, Next, Steps, StepProgram
<1>3. ASSUME NEW p \in Positions, StepOver(p) PROVE Next
  BY <1>3 DEF StepOver, Next, Steps, StepProgram, External
<1>4. CASE ClusterOver BY <1>4 DEF ClusterOver, Next
<1>5. CASE RelaunchAll BY <1>5 DEF RelaunchAll, Next, External
<1>6. CASE UpdateDynamo BY <1>6 DEF UpdateDynamo, Next
<1>7. CASE StatusScript \/ MisreadStatusFile
  BY <1>7 DEF StatusScript, PushRunning, OpenStatusFile, ReadStatusFile,
              MisreadStatusFile, ActOn
<1> QED BY <1>1, <1>2, <1>3, <1>4, <1>5, <1>6, <1>7 DEF StatusNext, ClusterSteps

\* The cluster and its table behave with status_metrics.sh as without it: what is
\* proved of AdgCluster holds here.
THEOREM ScriptDoesNotInterfere == StatusSpec => Spec
<1>1. StatusInit => Init BY DEF StatusInit
<1>2. [StatusNext]_allVars => [Next]_vars
  BY StepOfCluster DEF allVars
<1> QED BY <1>1, <1>2, PTL DEF StatusSpec, Spec

-----------------------------------------------------------------------------
\* The script's own variables and the gateway.
ScriptTypeOK ==
  /\ sPc \in {"wait", "poll", "body", "exit"}
  /\ sAt \in 0 .. NSteps /\ (sPc = "body" => sAt \in Positions)
  /\ sPrev \in Previous /\ sProcessed \subseteq Positions
  /\ pushed \in 0 .. 4
  /\ gateway \in [cluster : 0 .. MaxRuns, value : 0 .. 4]

\* A verdict is a value of the metric.
LEMMA VerdictType ==
  \A name, state : Verdict(name, state) \in 0 .. 4
BY DEF Verdict, Completed, Failed, Cancelled

\* What a turn reads of p's file: its state and name, or less.
ReadsOf(read, p) ==
  \/ read = [state |-> stepState[p], step |-> StepName[p]]
  \/ \E kind \in Misreads : read = Misread(kind, p)

LEMMA TurnReads ==
  ASSUME ReadStatusFile \/ MisreadStatusFile
  PROVE  \E read : ActOn(read) /\ ReadsOf(read, sAt)
BY DEF ReadStatusFile, MisreadStatusFile, ReadsOf

LEMMA ScriptFacts ==
  /\ 0 \in 0 .. NSteps /\ 0 \in 0 .. MaxRuns
  /\ NoPrevious \in Previous
<1>1. NSteps \in Nat /\ MaxRuns \in Nat BY StepsAssumption, BoundsAssumption
<1>2. NoPrevious \in Previous BY DEF NoPrevious, Previous
<1> QED BY <1>1, <1>2

THEOREM StatusTypeCorrect == StatusSpec => []StatusTypeOK
<1>1. StatusInit => ScriptTypeOK
  BY ScriptFacts DEF StatusInit, ScriptTypeOK, Wiped
<1>2. TypeOK /\ ScriptTypeOK /\ [StatusNext]_allVars => ScriptTypeOK'
  <2> SUFFICES ASSUME TypeOK, ScriptTypeOK, [StatusNext]_allVars PROVE ScriptTypeOK'
    OBVIOUS
  <2> USE BoundsAssumption, StepsAssumption
  <2>1. ASSUME UNCHANGED statusVars PROVE ScriptTypeOK'
    BY <2>1 DEF statusVars, scriptVars, ScriptTypeOK
  <2>2. CASE OtherSteps \/ ClusterOver \/ UpdateDynamo
             \/ \E p \in Positions : StepOver(p)
    BY <2>1, <2>2 DEF OtherSteps, ClusterOver, UpdateDynamo, StepOver
  <2>3. ASSUME NEW p \in Positions, FlushStep(p) PROVE ScriptTypeOK'
    BY <2>3 DEF FlushStep, scriptVars, ScriptTypeOK, Wiped
  <2>4. CASE RelaunchAll
    BY <2>4, ScriptFacts DEF RelaunchAll, ScriptTypeOK
  <2>5. CASE PushRunning
    BY <2>5 DEF PushRunning, push_metric, ScriptTypeOK, Started, TypeOK
  <2>6. ASSUME NEW p \in Positions, OpenStatusFile(p) PROVE ScriptTypeOK'
    BY <2>6 DEF OpenStatusFile, ScriptTypeOK, Positions
  <2>7. CASE ReadStatusFile \/ MisreadStatusFile
    <3>1. PICK read : ActOn(read) /\ ReadsOf(read, sAt)
      BY <2>7, TurnReads
    <3>2. sAt \in Positions BY <3>1 DEF ActOn, StatusAt, ScriptTypeOK
    <3>3. read \in Previous
      BY <3>1, <3>2 DEF ReadsOf, Previous, TypeOK, Names, Misread
    <3>4. run \in 0 .. MaxRuns BY DEF TypeOK
    <3> DEFINE v == Verdict(read.step, read.state)
    <3>5. CASE push_metric(v) /\ sPc' = "exit" /\ UNCHANGED <<sPrev, sProcessed, sAt>>
      <4>1. v \in 0 .. 4 BY VerdictType
      <4> QED BY <3>4, <3>5, <4>1 DEF push_metric, ScriptTypeOK
    <3>6. CASE /\ sPrev' = read
               /\ sPc' \in {"poll", "body"} /\ UNCHANGED <<pushed, gateway, sAt>>
               /\ sProcessed' \in {sProcessed, sProcessed \cup {sAt}}
      BY <3>2, <3>3, <3>6 DEF ScriptTypeOK
    <3> QED BY <3>1, <3>5, <3>6 DEF ActOn
  <2>9. CASE UNCHANGED allVars BY <2>1, <2>9 DEF allVars
  <2> QED
    BY <2>2, <2>3, <2>4, <2>5, <2>6, <2>7, <2>9
    DEF StatusNext, ClusterSteps, StatusScript
<1>3. TypeOK /\ ScriptTypeOK => StatusTypeOK BY DEF StatusTypeOK, ScriptTypeOK
<1> QED BY <1>1, <1>2, <1>3, TypeCorrect, ScriptDoesNotInterfere, PTL DEF StatusSpec

-----------------------------------------------------------------------------
\* No work is undone.
LEMMA DoneStays ==
  ASSUME [Next]_vars PROVE done \subseteq done'
BY DEF Next, Steps, StepProgram, StartStep, CheckResume, ShellWork, SendNotification,
       StepCompletes, StepFails, WriteIdFile, LocateOutput, PublishDataset, Emr,
       TerminateEarly, TerminateNormally, Monitor, WaitForIdFiles, ReadIdFiles,
       GetItem, StartRun, OpenStepFile, ReadStepFile, PutItem, External, CancelStep,
       KillCluster, Relaunch, DeleteRow, UnparsableStepFile, vars, historyVars

\* In every safe deployment that marks success at spark-submit, a metric that says
\* completed means that spark-submit got to its end.
THEOREM SuccessMetricIsTrue ==
  ASSUME ResumeSafe, MetricStep = StepName[SubmitJob]
  PROVE  StatusSpec => []SuccessMetricMeansData
<1>1. StatusInit => SuccessMetricMeansData
  BY DEF StatusInit, SuccessMetricMeansData, Wiped, Completed
<1>2. StatusTypeOK /\ ResumeInvariant /\ SuccessMetricMeansData /\ [StatusNext]_allVars
        => SuccessMetricMeansData'
  <2> SUFFICES ASSUME StatusTypeOK, ResumeInvariant, SuccessMetricMeansData,
                      [StatusNext]_allVars
               PROVE  SuccessMetricMeansData'
    OBVIOUS
  <2>1. done \subseteq done' BY StepOfCluster, DoneStays DEF allVars
  <2>2. ASSUME gateway'.value # Completed \/ UNCHANGED gateway
        PROVE  SuccessMetricMeansData'
    BY <2>1, <2>2 DEF SuccessMetricMeansData
  <2>3. CASE OtherSteps \/ ClusterOver \/ UpdateDynamo \/ RelaunchAll
             \/ \E p \in Positions : StepOver(p) \/ OpenStatusFile(p)
    BY <2>2, <2>3 DEF OtherSteps, ClusterOver, UpdateDynamo, RelaunchAll, StepOver,
                      OpenStatusFile, statusVars
  <2>4. ASSUME NEW p \in Positions, FlushStep(p) PROVE SuccessMetricMeansData'
    BY <2>2, <2>4 DEF FlushStep, Wiped, Completed
  <2>5. CASE PushRunning
    BY <2>2, <2>5 DEF PushRunning, push_metric, Started, Completed
  <2>6. CASE ReadStatusFile \/ MisreadStatusFile
    <3>1. PICK read : ActOn(read) /\ ReadsOf(read, sAt)
      BY <2>6, TurnReads
    <3>2. sAt \in Positions BY <3>1 DEF ActOn, StatusAt, StatusTypeOK
    <3>3. CASE /\ gateway'.value = Completed
               /\ Verdict(read.step, read.state) = Completed
      <4>1. read.state = "COMPLETED" /\ read.step = MetricStep
        BY <3>3 DEF Verdict, Completed, Failed, Cancelled, MarksSuccess
      <4>2. stepState[sAt] = "COMPLETED" /\ StepName[sAt] = MetricStep
        <5>1. Unread # "COMPLETED" /\ MetricStep # Unread
          BY StatusAssumption DEF Unread
        <5>. QED BY <3>1, <4>1, <5>1 DEF ReadsOf, Misread
      <4>3. sAt = SubmitJob
        BY <3>2, <4>2, StepsAssumption, KindsAssumption
      <4>4. SubmitJob \in done
        BY <3>2, <4>2, <4>3, KindsAssumption
        DEF ResumeInvariant, StepResults, Settled
      <4> QED BY <2>1, <4>4 DEF SuccessMetricMeansData
    <3>4. \/ UNCHANGED gateway
          \/ gateway'.value = Verdict(read.step, read.state)
      BY <3>1 DEF ActOn, push_metric
    <3> QED BY <2>2, <3>3, <3>4
  <2>7. CASE UNCHANGED allVars BY <2>2, <2>7 DEF allVars, statusVars
  <2> QED
    BY <2>3, <2>4, <2>5, <2>6, <2>7 DEF StatusNext, ClusterSteps, StatusScript
<1> QED
  BY <1>1, <1>2, StatusTypeCorrect, ResumeInvariantHolds, ScriptDoesNotInterfere, PTL
  DEF StatusSpec

-----------------------------------------------------------------------------
(***************************************************************************)
(* The verdict of status_metrics.sh, when it keeps up with EMR.            *)
(***************************************************************************)

\* Whether step p, as it is, calls for a verdict of this script.
Called(p) == Verdict(StepName[p], stepState[p]) # 0

\* The script is in the loop on p's file, or through.
Attends(p) == sPc = "exit" \/ (sPc = "body" /\ sAt = p)

\* The inductive invariant: what calls for a verdict is attended to; the last push
\* is the running value, or the verdict on the first step that called for one; and
\* nobody else's value is at the gateway after it.
MetricInvariant ==
  /\ \A p \in Positions : Called(p) => Attends(p)
  /\ sPc = "wait" => pushed = 0
  /\ sPc \in {"poll", "body"} => pushed = Started
  /\ sPc = "exit" => \E p \in Positions :
       /\ Called(p) /\ pushed = Verdict(StepName[p], stepState[p])
       /\ \A q \in 1 .. (p - 1) : ~Called(q)
  /\ pushed # 0 => gateway \in {Wiped, [cluster |-> run, value |-> pushed]}

LEMMA WhenCalled ==
  ASSUME NEW p \in Positions
  PROVE  /\ Called(p) <=> \/ stepState[p] \in {"FAILED", "CANCELLED"}
                          \/ stepState[p] = "COMPLETED" /\ StepName[p] = MetricStep
         /\ Called(p) => Verdict(StepName[p], stepState[p]) \in {Completed, Failed, Cancelled}
         /\ Verdict(StepName[p], stepState[p]) = Completed <=>
              stepState[p] = "COMPLETED" /\ StepName[p] = MetricStep
BY DEF Called, Verdict, MarksSuccess, Completed, Failed, Cancelled

\* A step that has ended stays as it is for as long as the cluster does.
LEMMA EndedStays ==
  ASSUME TypeOK, [StatusNext]_allVars, ~RelaunchAll, NEW p \in Positions,
         stepState[p] \in {"COMPLETED", "FAILED", "CANCELLED"}
  PROVE  stepState'[p] = stepState[p]
<1>1. CASE OtherSteps
  BY <1>1 DEF OtherSteps, StartStep, CheckResume, SendNotification, WriteIdFile,
              LocateOutput, PublishDataset, emrVars, TypeOK
<1>2. ASSUME NEW q \in Positions, FlushStep(q) PROVE stepState'[p] = stepState[p]
  BY <1>2 DEF FlushStep, ShellWork, emrVars
<1>3. ASSUME NEW q \in Positions, StepOver(q) PROVE stepState'[p] = stepState[p]
  BY <1>3 DEF StepOver, StepCompletes, StepFails, CancelStep, Running, TypeOK
<1>4. CASE ClusterOver \/ UpdateDynamo
  BY <1>4 DEF ClusterOver, Emr, TerminateEarly, TerminateNormally, UpdateDynamo,
              Monitor, WaitForIdFiles, ReadIdFiles, GetItem, StartRun, OpenStepFile,
              ReadStepFile, PutItem, emrVars
<1>5. CASE StatusScript \/ MisreadStatusFile \/ UNCHANGED allVars
  BY <1>5 DEF StatusScript, PushRunning, OpenStatusFile, ReadStatusFile,
              MisreadStatusFile, ActOn, allVars, vars, emrVars
<1>. QED
  BY <1>1, <1>2, <1>3, <1>4, <1>5 DEF StatusNext, ClusterSteps

\* So the first step that called for a verdict stays the first.
LEMMA FirstCallStays ==
  ASSUME TypeOK, StepsInOrder, [StatusNext]_allVars, ~RelaunchAll,
         NEW p \in Positions, Called(p), \A q \in 1 .. (p - 1) : ~Called(q)
  PROVE  /\ Called(p)' /\ stepState'[p] = stepState[p]
         /\ \A q \in 1 .. (p - 1) : ~Called(q)'
<1>1. stepState[p] \in {"COMPLETED", "FAILED", "CANCELLED"}
  BY WhenCalled
<1>2. \A q \in 1 .. (p - 1) :
        /\ q \in Positions
        /\ stepState[q] \in {"COMPLETED", "FAILED", "CANCELLED"}
  BY <1>1, StepsAssumption DEF StepsInOrder, Ended, Positions
<1>. QED BY <1>1, <1>2, EndedStays DEF Called

\* Steps in which the script does not move, and no step ends.
LEMMA MetricQuietKept ==
  ASSUME TypeOK, StepsInOrder, MetricInvariant, [StatusNext]_allVars, ~RelaunchAll,
         UNCHANGED <<sPc, sAt, pushed, run>>,
         gateway' = gateway \/ gateway' = Wiped,
         \A p \in Positions : Called(p)' => Called(p) \/ Attends(p)
  PROVE  MetricInvariant'
<1>1. \A p \in Positions : (Called(p) => Attends(p))'
  BY DEF MetricInvariant, Attends
<1>2. ASSUME sPc = "exit"
      PROVE  \E p \in Positions :
               /\ Called(p)' /\ pushed' = Verdict(StepName[p], stepState'[p])
               /\ \A q \in 1 .. (p - 1) : ~Called(q)'
  <2>1. PICK p \in Positions :
          /\ Called(p) /\ pushed = Verdict(StepName[p], stepState[p])
          /\ \A q \in 1 .. (p - 1) : ~Called(q)
    BY <1>2 DEF MetricInvariant
  <2>. QED BY <2>1, FirstCallStays
<1>. QED BY <1>1, <1>2 DEF MetricInvariant, Wiped

LEMMA MetricReadKept ==
  ASSUME TypeOK, ScriptTypeOK, MetricInvariant, ReadStatusFile
  PROVE  MetricInvariant'
<1>1. /\ sPc = "body" /\ sAt \in Positions
      /\ UNCHANGED <<stepState, run, sAt>>
  BY DEF ReadStatusFile, ActOn, StatusAt, ScriptTypeOK, vars, emrVars
<1>2. \A p \in Positions : Called(p) => p = sAt
  BY <1>1 DEF MetricInvariant, Attends
<1>3. \A p \in Positions : Called(p)' <=> Called(p)
  BY <1>1 DEF Called
<1>4. CASE Called(sAt)
  <2>1. /\ pushed' = Verdict(StepName[sAt], stepState[sAt]) /\ sPc' = "exit"
        /\ gateway' = [cluster |-> run, value |-> pushed']
    BY <1>4 DEF ReadStatusFile, ActOn, push_metric, Called
  <2>2. \A q \in 1 .. (sAt - 1) : q \in Positions /\ q # sAt
    BY <1>1, StepsAssumption DEF Positions
  <2>3. \A q \in 1 .. (sAt - 1) : ~Called(q)'
    BY <1>2, <1>3, <2>2
  <2>4. pushed' = Verdict(StepName[sAt], stepState'[sAt]) /\ Called(sAt)'
    BY <1>1, <1>3, <1>4, <2>1
  <2>. QED BY <1>1, <2>1, <2>3, <2>4 DEF MetricInvariant, Attends
<1>5. CASE ~Called(sAt)
  <2>1. sPc' \in {"poll", "body"} /\ UNCHANGED <<pushed, gateway>>
    BY <1>5 DEF ReadStatusFile, ActOn, Called
  <2>2. \A p \in Positions : ~Called(p)'
    BY <1>2, <1>3, <1>5
  <2>. QED BY <1>1, <2>1, <2>2 DEF MetricInvariant
<1>. QED BY <1>4, <1>5

\* The script does not miss the name of a step alone: with the state COMPLETED it
\* would leave the file, and with it the success.
NamesAreRead == "name" \notin Misreads

\* Without the state it stays where it is.
LEMMA MisreadStays ==
  ASSUME NamesAreRead, MisreadStatusFile
  PROVE  /\ sPc = "body" /\ cluster = "RUNNING"
         /\ UNCHANGED <<vars, sPc, sAt, pushed, gateway>>
<1>1. PICK kind \in Misreads : ActOn(Misread(kind, sAt))
  BY DEF MisreadStatusFile
<1>2. Misread(kind, sAt).state = Unread
  BY StatusAssumption DEF NamesAreRead, MisreadKinds, Misread
<1>3. Verdict(Misread(kind, sAt).step, Misread(kind, sAt).state) = 0
  BY <1>2 DEF Verdict, Unread
<1>4. Misread(kind, sAt).state # "COMPLETED"
  BY <1>2 DEF Unread
<1>. QED BY <1>1, <1>3, <1>4 DEF ActOn, StatusAt

LEMMA MetricInvariantHolds ==
  ASSUME Attentive, NamesAreRead PROVE StatusSpec => []MetricInvariant
<1>1. StatusInit => MetricInvariant
  <2>. SUFFICES ASSUME StatusInit PROVE MetricInvariant OBVIOUS
  <2>1. \A p \in Positions : ~Called(p)
    BY WhenCalled DEF StatusInit, Init
  <2>. QED BY <2>1 DEF StatusInit, MetricInvariant
<1>2. StatusTypeOK /\ StepsInOrder /\ MetricInvariant /\ [StatusNext]_allVars
        => MetricInvariant'
  <2>. SUFFICES ASSUME TypeOK, ScriptTypeOK, StepsInOrder, MetricInvariant,
                       [StatusNext]_allVars
                PROVE  MetricInvariant'
    BY DEF StatusTypeOK, ScriptTypeOK
  <2>0. ASSUME UNCHANGED <<stepState, run, sPc, sAt, pushed>>, ~RelaunchAll,
               gateway' = gateway \/ gateway' = Wiped
        PROVE  MetricInvariant'
    <3>1. \A p \in Positions : Called(p)' => Called(p)
      BY <2>0 DEF Called
    <3>. QED BY <2>0, <3>1, MetricQuietKept
  <2>1. CASE OtherSteps /\ ~RelaunchAll
    <3>1. UNCHANGED <<run, sPc, sAt, pushed, gateway>>
      BY <2>1 DEF OtherSteps, StartStep, CheckResume, SendNotification, WriteIdFile,
                  LocateOutput, PublishDataset, statusVars, scriptVars, emrVars
    <3>2. \A p \in Positions : stepState'[p] = stepState[p] \/ stepState'[p] = "RUNNING"
      BY <2>1 DEF OtherSteps, StartStep, CheckResume, SendNotification, WriteIdFile,
                  LocateOutput, PublishDataset, emrVars, TypeOK
    <3>3. \A p \in Positions : Called(p)' => Called(p)
      BY <3>2 DEF Called, Verdict
    <3>. QED BY <2>1, <3>1, <3>3, MetricQuietKept
  <2>2. ASSUME NEW p \in Positions, FlushStep(p) PROVE MetricInvariant'
    <3>1. /\ UNCHANGED <<stepState, run, cluster, sPc, sAt, pushed>>
          /\ cluster = "RUNNING" /\ (gateway' = gateway \/ gateway' = Wiped)
      BY <2>2 DEF FlushStep, ShellWork, Running, scriptVars, emrVars
    <3>. QED BY <2>0, <3>1 DEF RelaunchAll, Relaunch
  <2>3. ASSUME NEW p \in Positions, StepOver(p) PROVE MetricInvariant'
    <3>1. /\ cluster = "RUNNING" /\ SeenByStatus(p)
          /\ UNCHANGED <<run, sPc, sAt, pushed, gateway>>
          /\ \A q \in Positions : q # p => stepState'[q] = stepState[q]
      BY <2>3 DEF StepOver, StepCompletes, StepFails, CancelStep, Running,
                  statusVars, scriptVars, TypeOK
    <3>2. Attends(p)
      BY <3>1 DEF SeenByStatus, Attends
    <3>3. \A q \in Positions : Called(q)' => Called(q) \/ Attends(q)
      BY <3>1, <3>2 DEF Called
    <3>. QED BY <3>1, <3>3, MetricQuietKept DEF RelaunchAll, Relaunch
  <2>4. CASE ClusterOver \/ UpdateDynamo
    <3>1. /\ UNCHANGED <<stepState, run, sPc, sAt, pushed, gateway>>
          /\ cluster = "RUNNING"
      BY <2>4 DEF ClusterOver, Emr, TerminateEarly, TerminateNormally, UpdateDynamo,
                  Monitor, WaitForIdFiles, ReadIdFiles, GetItem, StartRun,
                  OpenStepFile, ReadStepFile, PutItem, MonitorAt, emrVars,
                  statusVars, scriptVars
    <3>. QED BY <2>0, <3>1 DEF RelaunchAll, Relaunch
  <2>5. CASE RelaunchAll
    <3>1. \A p \in Positions : ~Called(p)'
      BY <2>5 DEF RelaunchAll, Relaunch, Called, Verdict
    <3>. QED BY <2>5, <3>1 DEF RelaunchAll, MetricInvariant
  <2>6. CASE PushRunning \/ \E p \in Positions : OpenStatusFile(p)
    <3>1. /\ UNCHANGED <<stepState, run>>
          /\ \/ /\ sPc = "wait" /\ sPc' = "poll" /\ pushed' = Started
                /\ gateway' = [cluster |-> run, value |-> pushed']
             \/ sPc = "poll" /\ sPc' = "body" /\ UNCHANGED <<pushed, gateway>>
      BY <2>6 DEF PushRunning, push_metric, OpenStatusFile, StatusAt, vars, emrVars
    <3>2. \A p \in Positions : ~Called(p)'
      BY <3>1 DEF MetricInvariant, Attends, Called
    <3>. QED BY <3>1, <3>2 DEF MetricInvariant
  <2>7. CASE ReadStatusFile BY <2>7, MetricReadKept
  <2>8. CASE MisreadStatusFile
    <3>1. /\ UNCHANGED <<stepState, run, sPc, sAt, pushed, gateway>>
          /\ cluster = "RUNNING"
      BY <2>8, MisreadStays DEF vars, emrVars
    <3>. QED BY <2>0, <3>1 DEF RelaunchAll, Relaunch
  <2>9. CASE UNCHANGED allVars /\ ~RelaunchAll
    BY <2>0, <2>9 DEF allVars, vars, emrVars, statusVars, scriptVars
  <2>. QED
    BY <2>1, <2>2, <2>3, <2>4, <2>5, <2>6, <2>7, <2>8, <2>9
    DEF StatusNext, ClusterSteps, StatusScript
<1>. QED
  BY <1>1, <1>2, StatusTypeCorrect, ScriptDoesNotInterfere, OrderHolds, PTL
  DEF StatusSpec

\* EMR ends a cluster when this script is through with it too, if it knows a step of
\* the cluster that marks success.
EndedClusterIsPushed == cluster # "RUNNING" => sPc = "exit"

LEMMA EndedClusterIsPushedHolds ==
  ASSUME Attentive, NamesAreRead, MetricStep \in Names
  PROVE  StatusSpec => []EndedClusterIsPushed
<1>1. StatusInit => EndedClusterIsPushed
  BY DEF StatusInit, Init, EndedClusterIsPushed
<1>2. StatusTypeOK /\ MetricInvariant /\ EndedClusterIsPushed /\ [StatusNext]_allVars
        => EndedClusterIsPushed'
  <2>. SUFFICES ASSUME StatusTypeOK, MetricInvariant, EndedClusterIsPushed,
                       [StatusNext]_allVars, cluster' # "RUNNING"
                PROVE  sPc' = "exit"
    BY DEF EndedClusterIsPushed
  <2>1. CASE ClusterOver
    <3>1. UNCHANGED sPc /\ StatusCaughtUp /\ (TerminateEarly \/ TerminateNormally)
      BY <2>1 DEF ClusterOver, Emr, statusVars, scriptVars
    <3>2. ASSUME sPc = "poll" PROVE FALSE
      <4>1. \A p \in Positions : stepState[p] \in {"ABSENT", "COMPLETED"}
        BY <3>1, <3>2 DEF StatusCaughtUp
      <4>2. TerminateNormally
        BY <3>1, <4>1 DEF TerminateEarly
      <4>3. PICK m \in Positions : StepName[m] = MetricStep
        BY DEF Names
      <4>4. stepState[m] = "COMPLETED"
        BY <4>1, <4>2 DEF TerminateNormally, Ended
      <4>5. Called(m)
        BY <4>3, <4>4, WhenCalled
      <4>. QED BY <3>2, <4>5 DEF MetricInvariant, Attends
    <3>. QED BY <3>1, <3>2 DEF StatusCaughtUp
  <2>2. CASE UNCHANGED <<cluster, sPc>>
    BY <2>2 DEF EndedClusterIsPushed
  <2>3. CASE \/ OtherSteps \/ UpdateDynamo \/ StatusScript \/ MisreadStatusFile
             \/ \E p \in Positions : FlushStep(p) \/ StepOver(p)
    <3>1. cluster' = "RUNNING"
      BY <2>3 DEF OtherSteps, UpdateDynamo, FlushStep, StepOver, StatusScript,
         MisreadStatusFile, PushRunning, OpenStatusFile, ReadStatusFile, ActOn,
         StatusAt, StartStep, CheckResume, ShellWork, SendNotification, StepCompletes,
         StepFails, CancelStep, WriteIdFile, LocateOutput, PublishDataset, Monitor,
         WaitForIdFiles, ReadIdFiles, GetItem, StartRun, OpenStepFile, ReadStepFile,
         PutItem, Running, MonitorAt, vars, emrVars
    <3>. QED BY <3>1
  <2>4. CASE RelaunchAll BY <2>4 DEF RelaunchAll, Relaunch
  <2>. QED
    BY <2>1, <2>2, <2>3, <2>4
    DEF StatusNext, ClusterSteps, allVars, vars, emrVars, statusVars, scriptVars
<1>. QED
  BY <1>1, <1>2, StatusTypeCorrect, MetricInvariantHolds, PTL DEF StatusSpec

\* A cluster that is over has pushed a verdict, which is at the gateway or has been
\* wiped since: no value of an earlier cluster takes its place.
THEOREM EndedClustersAreReported ==
  ASSUME Attentive, NamesAreRead, MetricStep \in Names
  PROVE  StatusSpec => []EndedClusterIsReported
<1>1. MetricInvariant /\ EndedClusterIsPushed => EndedClusterIsReported
  <2>. SUFFICES ASSUME MetricInvariant, EndedClusterIsPushed, cluster # "RUNNING"
                PROVE  /\ pushed \in {Completed, Failed, Cancelled}
                       /\ gateway \in {Wiped, [cluster |-> run, value |-> pushed]}
    BY DEF EndedClusterIsReported
  <2>1. pushed \in {Completed, Failed, Cancelled}
    BY WhenCalled DEF MetricInvariant, EndedClusterIsPushed
  <2>. QED BY <2>1 DEF MetricInvariant, Completed, Failed, Cancelled
<1>. QED BY <1>1, MetricInvariantHolds, EndedClusterIsPushedHolds, PTL

-----------------------------------------------------------------------------
(***************************************************************************)
(* The two scripts agree.                                                  *)
(***************************************************************************)

\* Success is marked at spark-submit, which is not after the final step, and the
\* script of the row is there for every step that may stop.
AgreeSafe ==
  /\ Followed /\ NamesAreRead
  /\ MetricStep = StepName[SubmitJob]
  /\ \A f \in Positions : StepName[f] = FinalStep => SubmitJob <= f
  /\ \A p \in MayFail \cup MayCancel : Awaits(p)

StoppedMay == \A p \in Positions : Stopped(p) => p \in MayFail \cup MayCancel

LEMMA StoppedMayHolds == StatusSpec => []StoppedMay
<1>1. StatusInit => StoppedMay
  BY DEF StatusInit, Init, StoppedMay, Stopped
<1>2. StatusTypeOK /\ StoppedMay /\ [StatusNext]_allVars => StoppedMay'
  <2>. SUFFICES ASSUME StatusTypeOK, TypeOK, StoppedMay, [StatusNext]_allVars,
                       NEW p \in Positions, Stopped(p)'
                PROVE  p \in MayFail \cup MayCancel
    BY DEF StoppedMay, StatusTypeOK
  <2>1. ASSUME NEW q \in Positions, StepOver(q) PROVE p \in MayFail \cup MayCancel
    BY <2>1 DEF StepOver, StepCompletes, StepFails, CancelStep, StoppedMay, Stopped,
                TypeOK
  <2>2. CASE RelaunchAll
    BY <2>2 DEF RelaunchAll, Relaunch, Stopped
  <2>3. CASE OtherSteps
    BY <2>3 DEF OtherSteps, StartStep, CheckResume, SendNotification, WriteIdFile,
                LocateOutput, PublishDataset, emrVars, StoppedMay, Stopped, TypeOK
  <2>4. CASE UNCHANGED stepState
    BY <2>4 DEF StoppedMay, Stopped
  <2>5. CASE \/ ClusterOver \/ UpdateDynamo \/ StatusScript \/ MisreadStatusFile
             \/ UNCHANGED allVars \/ \E q \in Positions : FlushStep(q)
    <3>1. UNCHANGED stepState
      BY <2>5 DEF ClusterOver, Emr, TerminateEarly, TerminateNormally, UpdateDynamo,
         Monitor, WaitForIdFiles, ReadIdFiles, GetItem, StartRun, OpenStepFile,
         ReadStepFile, PutItem, StatusScript, PushRunning, OpenStatusFile,
         ReadStatusFile, MisreadStatusFile, ActOn, FlushStep, ShellWork, allVars,
         vars, emrVars
    <3>. QED BY <2>4, <3>1
  <2>. QED BY <2>1, <2>2, <2>3, <2>5 DEF StatusNext, ClusterSteps
<1>. QED BY <1>1, <1>2, StatusTypeCorrect, PTL DEF StatusSpec

\* The verdict in the row and that in the metric are of the same run of steps: they
\* differ only where a step after spark-submit stopped, which is in the row.
THEOREM ScriptsAgree == ASSUME AgreeSafe PROVE StatusSpec => []VerdictsAgree
<1>1. StepsInOrder /\ StoppedMay /\ VerdictInvariant /\ MetricInvariant => VerdictsAgree
  <2>. SUFFICES ASSUME StepsInOrder, StoppedMay, VerdictInvariant, MetricInvariant,
                       mPc = "exit", sPc = "exit"
                PROVE  /\ table[mProduct].status = "COMPLETED" => pushed = Completed
                       /\ table[mProduct].status = "FAILED" /\ pushed = Completed =>
                            \E p \in Positions :
                              /\ p > SubmitJob
                              /\ stepState[p] \in {"FAILED", "CANCELLED"}
                              /\ table[mProduct].step = StepName[p]
    BY DEF VerdictsAgree
  <2>1. RightVerdict(table[mProduct].status, table[mProduct].step)
    BY DEF VerdictInvariant
  <2>2. PICK c \in Positions :
          /\ Called(c) /\ pushed = Verdict(StepName[c], stepState[c])
          /\ \A q \in 1 .. (c - 1) : ~Called(q)
    BY DEF MetricInvariant
  <2>3. SubmitJob \in Positions /\ StepName[SubmitJob] = MetricStep
    BY KindsAssumption DEF AgreeSafe
  <2>4. Positions \subseteq Nat /\ \A p, q \in Positions : p < q => p \in 1 .. (q - 1)
    BY StepsAssumption DEF Positions
  <2>5. \A p \in Positions : Stopped(p) => Awaits(p) /\ Called(p)
    BY WhenCalled DEF StoppedMay, AgreeSafe, Stopped
  <2>6. ASSUME table[mProduct].status = "COMPLETED" PROVE pushed = Completed
    <3>1. PICK f \in Positions :
            /\ StepName[f] = FinalStep /\ stepState[f] = "COMPLETED"
            /\ \A p \in 1 .. (f - 1) : Awaits(p) => ~Stopped(p)
      BY <2>1, <2>6 DEF RightVerdict
    <3>2. \A p \in Positions : p <= f => stepState[p] = "COMPLETED"
      <4>. SUFFICES ASSUME NEW p \in Positions, p < f PROVE stepState[p] = "COMPLETED"
        BY <2>4, <3>1
      <4>1. p \in 1 .. (f - 1) BY <2>4
      <4>2. Ended(p) BY <3>1, <4>1 DEF StepsInOrder
      <4>3. ~Stopped(p) BY <2>5, <3>1, <4>1
      <4>. QED BY <4>2, <4>3 DEF Ended, Stopped
    <3>3. SubmitJob <= f BY <3>1 DEF AgreeSafe
    <3>4. Called(SubmitJob) BY <2>3, <3>2, <3>3, WhenCalled
    <3>5. c <= SubmitJob BY <2>2, <2>3, <2>4, <3>4
    <3>6. stepState[c] = "COMPLETED" BY <2>3, <2>4, <3>2, <3>3, <3>5
    <3>7. StepName[c] = MetricStep BY <2>2, <3>6, WhenCalled
    <3>. QED BY <2>2, <3>6, <3>7, WhenCalled
  <2>7. ASSUME table[mProduct].status = "FAILED", pushed = Completed
        PROVE  \E p \in Positions : /\ p > SubmitJob
                                    /\ stepState[p] \in {"FAILED", "CANCELLED"}
                                    /\ table[mProduct].step = StepName[p]
    <3>1. PICK p \in Positions : Stopped(p) /\ table[mProduct].step = StepName[p]
      BY <2>1, <2>7, StatusAssumption DEF RightVerdict, Misreading, MisreadKinds
    <3>2. stepState[c] = "COMPLETED" /\ StepName[c] = MetricStep
      BY <2>2, <2>7, WhenCalled
    <3>3. c = SubmitJob BY <2>3, <3>2, StepsAssumption
    <3>4. p # c /\ ~(p < c) BY <2>2, <2>4, <2>5, <3>1, <3>2 DEF Stopped
    <3>5. p > SubmitJob BY <2>3, <2>4, <3>3, <3>4
    <3>. QED BY <3>1, <3>5 DEF Stopped
  <2>. QED BY <2>6, <2>7
<1>2. Followed /\ Attentive /\ NamesAreRead BY DEF AgreeSafe, Followed
<1>. QED
  BY <1>1, <1>2, StoppedMayHolds, OrderHolds, VerdictInvariantHolds,
     MetricInvariantHolds, ScriptDoesNotInterfere, PTL

-----------------------------------------------------------------------------
(***************************************************************************)
(* The gateway after the last step.                                        *)
(***************************************************************************)

\* The last step wipes the gateway, and nothing that ends with the step before it
\* can call for a push while it does: that step does not mark success, and when it
\* fails it ends the cluster, or finds that the script has had its success already.
CleanSafe ==
  /\ Attentive /\ NamesAreRead
  /\ NSteps > 1
  /\ NSteps \in Flushes \ SwitchedOff
  /\ \/ NSteps - 1 \notin OnFailContinue
     \/ \E m \in 1 .. (NSteps - 2) : StepName[m] = MetricStep
  /\ MetricStep \notin {StepName[NSteps - 1], StepName[NSteps]}

\* The last step is through with its work, or has not found it to be its turn.
LastWorked ==
  /\ stepState[NSteps] = "COMPLETED" \/ (stepState[NSteps] = "RUNNING" /\ pc = "leave")
  /\ NSteps \notin skipped

\* The inductive invariant: no step ends before the first push; once the last step
\* but one has completed, nothing read but its file and that of the last can still
\* call for a push; and the last wipe is the last thing that happens at the gateway.
GatewayInvariant ==
  /\ \A p \in Positions : stepState[p] \in {"COMPLETED", "FAILED", "CANCELLED"} =>
       sPc # "wait"
  /\ stepState[NSteps - 1] = "COMPLETED" =>
       /\ sPc # "wait"
       /\ sPc = "body" => sAt \in {NSteps - 1, NSteps} \/ ~Called(sAt)
  /\ LastWorked => gateway = Wiped

LEMMA LastPositions ==
  ASSUME CleanSafe
  PROVE  /\ NSteps \in Positions /\ NSteps - 1 \in Positions /\ 1 \in Positions
         /\ NSteps # 1 /\ NSteps # SubmitJob
         /\ NSteps \in ShellSteps /\ NSteps \notin SwitchedOff
         /\ \A p \in Positions : p # NSteps => p \in 1 .. (NSteps - 1)
         /\ NSteps - 1 \in 1 .. (NSteps - 1)
BY StepsAssumption, KindsAssumption, StatusAssumption DEF CleanSafe, Positions

\* While another step is to run, the last one is not there.
LEMMA LastIsLast ==
  ASSUME CleanSafe, StepsInOrder, NEW p \in Positions, p # NSteps,
         stepState[p] \in {"ABSENT", "RUNNING"}
  PROVE  stepState[NSteps] = "ABSENT"
BY LastPositions DEF StepsInOrder, Ended

\* When the last step has started, the one before it has completed, or the script
\* has pushed its verdict.
LEMMA LastFollows ==
  ASSUME CleanSafe, StepsInOrder, MetricInvariant, stepState[NSteps] # "ABSENT"
  PROVE  stepState[NSteps - 1] = "COMPLETED" \/ sPc = "exit"
<1> DEFINE before == NSteps - 1
<1>. SUFFICES ASSUME stepState[before] # "COMPLETED" PROVE sPc = "exit"
  OBVIOUS
<1>1. Ended(before)
  BY LastPositions DEF StepsInOrder
<1>2. before \in OnFailContinue /\ stepState[before] \in {"FAILED", "CANCELLED"}
  BY <1>1 DEF Ended
<1>3. PICK m \in 1 .. (NSteps - 2) : StepName[m] = MetricStep
  BY <1>2 DEF CleanSafe
<1>4. m \in Positions /\ m # before /\ m \in 1 .. (NSteps - 1)
  BY StepsAssumption DEF Positions
<1>5. Ended(m)
  BY <1>4, LastPositions DEF StepsInOrder
<1>6. Called(m) /\ Called(before)
  BY <1>2, <1>3, <1>4, <1>5, LastPositions, WhenCalled DEF Ended
<1>. QED BY <1>4, <1>6, LastPositions DEF MetricInvariant, Attends

LEMMA GatewayOtherKept ==
  ASSUME CleanSafe, StatusTypeOK, TypeOK, StepsInOrder, GatewayInvariant, OtherSteps
  PROVE  GatewayInvariant'
<1>1. UNCHANGED <<sPc, sAt, gateway>>
  BY DEF OtherSteps, statusVars, scriptVars
<1>2. PICK p \in Positions :
        \/ StartStep(p) \/ CheckResume(p) \/ SendNotification(p)
        \/ p = 1 /\ WriteIdFile
        \/ p = SubmitJob /\ (LocateOutput \/ PublishDataset)
  BY LastPositions, KindsAssumption DEF OtherSteps
<1>3. /\ stepState[p] \in {"ABSENT", "RUNNING"}
      /\ \A q \in Positions :
           \/ stepState'[q] = stepState[q]
           \/ q = p /\ stepState'[q] = "RUNNING"
  <2>1. CASE StartStep(p)
    BY <2>1 DEF StartStep, TypeOK
  <2>2. CASE ~StartStep(p)
    BY <1>2, <2>2 DEF CheckResume, SendNotification, WriteIdFile, LocateOutput,
                      PublishDataset, Running, emrVars
  <2>. QED BY <2>1, <2>2
<1>4. ASSUME LastWorked' PROVE gateway = Wiped
  <2>1. CASE p # NSteps
    <3>1. stepState[NSteps] = "ABSENT" BY <1>3, <2>1, LastIsLast
    <3>. QED BY <1>3, <1>4, <2>1, <3>1, LastPositions DEF LastWorked
  <2>2. CASE p = NSteps
    <3>1. StartStep(NSteps) \/ CheckResume(NSteps)
      BY <1>2, <2>2, LastPositions DEF SendNotification
    <3>2. pc' \in {"check", "work"} \/ NSteps \in skipped'
      BY <3>1, LastPositions DEF StartStep, CheckResume
    <3>3. stepState'[NSteps] = "RUNNING"
      BY <3>1, LastPositions DEF StartStep, CheckResume, Running, emrVars, TypeOK
    <3>. QED BY <1>4, <3>2, <3>3 DEF LastWorked
  <2>. QED BY <2>1, <2>2
<1>5. ASSUME sPc = "body", ~Called(sAt) PROVE ~Called(sAt)'
  <2>1. sAt \in Positions BY <1>5 DEF StatusTypeOK
  <2>2. stepState'[sAt] = stepState[sAt] \/ stepState'[sAt] = "RUNNING"
    BY <1>3, <2>1
  <2>. QED BY <1>1, <1>5, <2>2 DEF Called, Verdict
<1>. QED BY <1>1, <1>3, <1>4, <1>5, LastPositions DEF GatewayInvariant

LEMMA GatewayFlushKept ==
  ASSUME CleanSafe, TypeOK, StepsInOrder, GatewayInvariant,
         NEW p \in Positions, FlushStep(p)
  PROVE  GatewayInvariant'
<1>1. /\ UNCHANGED <<sPc, sAt, stepState, skipped>> /\ stepState[p] = "RUNNING"
      /\ gateway' = IF wipes(p) THEN Wiped ELSE gateway
  BY DEF FlushStep, ShellWork, Running, scriptVars, emrVars
<1>2. LastWorked' => gateway' = Wiped
  <2>1. CASE p = NSteps
    BY <1>1, <2>1 DEF CleanSafe, wipes
  <2>2. CASE p # NSteps
    BY <1>1, <2>2, LastIsLast DEF LastWorked
  <2>. QED BY <2>1, <2>2
<1>3. Called(sAt)' <=> Called(sAt) BY <1>1 DEF Called
<1>. QED BY <1>1, <1>2, <1>3 DEF GatewayInvariant

LEMMA GatewayOverKept ==
  ASSUME CleanSafe, TypeOK, StepsInOrder, GatewayInvariant,
         NEW p \in Positions, StepOver(p)
  PROVE  GatewayInvariant'
<1>1. /\ UNCHANGED <<sPc, sAt, gateway, skipped>> /\ stepState[p] = "RUNNING"
      /\ sPc = "exit" \/ (sPc = "body" /\ sAt = p)
      /\ \A q \in Positions : q # p => stepState'[q] = stepState[q]
      /\ stepState'[p] \in {"COMPLETED", "FAILED", "CANCELLED"}
      /\ stepState'[p] = "COMPLETED" => pc = "leave"
  BY DEF StepOver, StepCompletes, StepFails, CancelStep, SeenByStatus, CleanSafe,
         Running, statusVars, scriptVars, historyVars, TypeOK
<1>2. LastWorked' => LastWorked
  <2>1. CASE p = NSteps
    BY <1>1, <2>1 DEF LastWorked
  <2>2. CASE p # NSteps
    BY <1>1, <2>2, LastIsLast, LastPositions DEF LastWorked
  <2>. QED BY <2>1, <2>2
<1>3. stepState'[NSteps - 1] = "COMPLETED" =>
        /\ sPc # "wait"
        /\ sPc = "body" => sAt \in {NSteps - 1, NSteps}
  <2>1. p < NSteps - 1 => stepState[NSteps - 1] = "ABSENT"
    BY <1>1, LastPositions, StepsAssumption DEF StepsInOrder, Ended, Positions
  <2>2. p \in {NSteps - 1, NSteps} \/ p < NSteps - 1
    BY StepsAssumption DEF Positions
  <2>3. stepState'[NSteps - 1] = "COMPLETED" => p \in {NSteps - 1, NSteps}
    BY <1>1, <2>1, <2>2, LastPositions
  <2>. QED BY <1>1, <2>3
<1>. QED BY <1>1, <1>2, <1>3 DEF GatewayInvariant

\* The script's own moves.
LEMMA GatewayScriptKept ==
  ASSUME CleanSafe, StatusTypeOK, StepsInOrder, MetricInvariant, GatewayInvariant,
         StatusScript \/ MisreadStatusFile
  PROVE  GatewayInvariant'
<1>1. UNCHANGED <<stepState, pc, skipped>>
  BY DEF StatusScript, PushRunning, OpenStatusFile, ReadStatusFile,
         MisreadStatusFile, ActOn, vars, emrVars, historyVars
<1>2. LastWorked' <=> LastWorked BY <1>1 DEF LastWorked
<1>3. LastWorked /\ sPc # "exit" => stepState[NSteps - 1] = "COMPLETED"
  BY LastFollows DEF LastWorked
<1>4. CASE PushRunning
  <2>1. sPc = "wait" /\ sPc' = "poll" BY <1>4 DEF PushRunning, StatusAt
  <2>2. stepState[NSteps - 1] # "COMPLETED" BY <2>1 DEF GatewayInvariant
  <2>. QED BY <1>1, <1>2, <1>3, <2>1, <2>2 DEF GatewayInvariant
<1>5. ASSUME NEW p \in Positions, OpenStatusFile(p) PROVE GatewayInvariant'
  <2>1. /\ sPc = "poll" /\ sPc' = "body" /\ sAt' = p /\ UNCHANGED gateway
    BY <1>5 DEF OpenStatusFile, StatusAt
  <2>2. ~Called(p) BY <2>1 DEF MetricInvariant, Attends
  <2>3. ~Called(sAt)' BY <1>1, <2>1, <2>2 DEF Called
  <2>. QED BY <1>1, <1>2, <2>1, <2>3 DEF GatewayInvariant
<1>6. CASE ReadStatusFile
  <2>1. /\ sPc = "body" /\ sPc' \in {"poll", "body", "exit"} /\ UNCHANGED sAt
        /\ UNCHANGED gateway \/ Called(sAt)
    BY <1>6 DEF ReadStatusFile, ActOn, StatusAt, Called
  <2>2. LastWorked => ~Called(sAt)
    <3>. SUFFICES ASSUME LastWorked PROVE ~Called(sAt) OBVIOUS
    <3>. SUFFICES ASSUME sAt \in {NSteps - 1, NSteps} PROVE ~Called(sAt)
      BY <1>3, <2>1 DEF GatewayInvariant
    <3>1. sAt \in {NSteps - 1, NSteps} OBVIOUS
    <3>2. stepState[sAt] \in {"RUNNING", "COMPLETED"}
      BY <1>3, <2>1, <3>1 DEF LastWorked
    <3>3. StepName[sAt] # MetricStep BY <3>1 DEF CleanSafe
    <3>. QED BY <3>1, <3>2, <3>3, WhenCalled, LastPositions
  <2>3. Called(sAt)' <=> Called(sAt) BY <1>1, <2>1 DEF Called
  <2>. QED BY <1>1, <1>2, <2>1, <2>2, <2>3 DEF GatewayInvariant
<1>7. CASE MisreadStatusFile
  BY <1>1, <1>2, <1>7, MisreadStays DEF GatewayInvariant, Called, CleanSafe
<1>. QED BY <1>4, <1>5, <1>6, <1>7 DEF StatusScript

\* A cluster that gets to the end of its last step leaves nothing at the gateway for
\* the next scrape.
THEOREM GatewayStaysClean == ASSUME CleanSafe PROVE StatusSpec => []GatewayIsLeftClean
<1>1. StatusInit => GatewayInvariant
  BY LastPositions DEF StatusInit, Init, GatewayInvariant, LastWorked
<1>2. StatusTypeOK /\ StepsInOrder /\ MetricInvariant /\ GatewayInvariant
        /\ [StatusNext]_allVars => GatewayInvariant'
  <2>. SUFFICES ASSUME StatusTypeOK, TypeOK, StepsInOrder, MetricInvariant,
                       GatewayInvariant, [StatusNext]_allVars
                PROVE  GatewayInvariant'
    BY DEF StatusTypeOK
  <2>1. CASE OtherSteps BY <2>1, GatewayOtherKept
  <2>2. ASSUME NEW p \in Positions, FlushStep(p) PROVE GatewayInvariant'
    BY <2>2, GatewayFlushKept
  <2>3. ASSUME NEW p \in Positions, StepOver(p) PROVE GatewayInvariant'
    BY <2>3, GatewayOverKept
  <2>4. CASE ClusterOver \/ UpdateDynamo \/ UNCHANGED allVars
    <3>1. UNCHANGED <<stepState, pc, skipped, sPc, sAt, gateway>>
      BY <2>4 DEF ClusterOver, Emr, TerminateEarly, TerminateNormally, UpdateDynamo,
         Monitor, WaitForIdFiles, ReadIdFiles, GetItem, StartRun, OpenStepFile,
         ReadStepFile, PutItem, emrVars, historyVars, statusVars, scriptVars,
         allVars, vars
    <3>2. Called(sAt)' <=> Called(sAt) BY <3>1 DEF Called
    <3>. QED BY <3>1, <3>2 DEF GatewayInvariant, LastWorked
  <2>5. CASE RelaunchAll
    BY <2>5, LastPositions DEF RelaunchAll, Relaunch, GatewayInvariant, LastWorked
  <2>6. CASE StatusScript \/ MisreadStatusFile BY <2>6, GatewayScriptKept
  <2>. QED
    BY <2>1, <2>2, <2>3, <2>4, <2>5, <2>6 DEF StatusNext, ClusterSteps
<1>3. GatewayInvariant => GatewayIsLeftClean
  BY DEF GatewayInvariant, GatewayIsLeftClean, LastWorked
<1>4. Attentive /\ NamesAreRead BY DEF CleanSafe
<1>. QED
  BY <1>1, <1>2, <1>3, <1>4, StatusTypeCorrect, OrderHolds, MetricInvariantHolds,
     ScriptDoesNotInterfere, PTL DEF StatusSpec
=============================================================================
