----------------------------- MODULE AdgCluster -----------------------------
(***************************************************************************)
(* One correlation id on its way through EMR: a cluster runs its steps one *)
(* after the other, the background script update_dynamo.sh mirrors their   *)
(* progress into a row of the data_pipeline_metadata table, and a cluster  *)
(* launched again for the same correlation id reads that row to skip the   *)
(* steps that are assumed to be done.                                      *)
(*                                                                         *)
(* Three things run side by side and share files in /opt/emr:              *)
(*   - the steps (courtesy-flush, equalities-managed, spark-submit, ...),  *)
(*     started by EMR, each of which first looks for the file              *)
(*     step_to_start_from.txt (resume_step.sh, resume_step.py);            *)
(*   - update_dynamo.sh, which waits for the id files, creates             *)
(*     step_to_start_from.txt when the row says FAILED, and then polls the *)
(*     step files EMR writes;                                              *)
(*   - EMR itself, the relauncher and the operator (external).             *)
(***************************************************************************)
EXTENDS Integers

CONSTANTS
  NSteps,       \* number of steps of the cluster
  StepName,     \* position -> name update_dynamo.sh derives from the step file
  ResumeName,   \* position -> name the step compares step_to_start_from.txt to
  ShellSteps,   \* positions of the *.sh steps: they end in a logging command
  SubmitJob,    \* position of the spark-submit step
  SwitchedOff,  \* positions that exit at once (SNS messages are skipped)
  OnFailContinue, \* positions with ActionOnFailure CONTINUE
  FinalStep,    \* dynamodb_final_step, the name that ends the run
  MayFail,      \* positions whose program may exit with an error
  MayCancel,    \* positions at which an operator may stop the cluster
  Environment,  \* which external faults may happen, a subset of Faults
  Lead,         \* timing: update_dynamo.sh is polling before step Lead starts
  Attentive,    \* timing: no step ends unseen between two polls
  MaxRuns,      \* bound: launches for the correlation id
  MaxParse      \* MAX_RETRY of check_step_dir (10 in the script)

Positions == 1 .. NSteps
Names     == {StepName[p] : p \in Positions}

\* What a turn of the polling loop can miss of a step file, whose name and state
\* it reads by separate calls of jq: both, or one of them.
MisreadKinds == {"file", "state", "name"}
Faults == {"kill", "get", "put", "swallow", "deleterow"} \cup MisreadKinds

NotSet == "NOT_SET"   \* the script's marker for "leave this attribute alone"
Null   == "null"      \* what jq prints for an attribute the row lacks
NoFile == "no file"
Unread == ""          \* what jq prints for a file it cannot parse

ASSUME StepsAssumption ==
  /\ NSteps \in Nat \ {0}
  /\ StepName \in [Positions -> STRING]
  /\ ResumeName \in [Positions -> STRING]
  /\ \A p, q \in Positions : StepName[p] = StepName[q] => p = q
  /\ Names \cap {NotSet, Null, NoFile, Unread} = {}
  /\ FinalStep \in STRING

ASSUME KindsAssumption ==
  /\ SubmitJob \in Positions \ ShellSteps
  /\ ShellSteps \subseteq Positions
  /\ SwitchedOff \subseteq Positions \ {1, SubmitJob}
  /\ OnFailContinue \subseteq Positions
  /\ MayFail \subseteq Positions \ ShellSteps
  /\ MayCancel \subseteq Positions

ASSUME BoundsAssumption ==
  /\ Environment \subseteq Faults
  /\ Lead \in Nat
  /\ Attentive \in BOOLEAN
  /\ MaxRuns \in Nat \ {0}
  /\ MaxParse \in Nat

VARIABLES
  \* The data_pipeline_metadata table: DataProduct -> row.
  table,
  \* EMR: launches so far, the cluster, its step files.
  run, cluster, stepState,
  \* Where the program of the running step is.
  pc,
  \* Files of the master node: the four id files written so far,
  \* step_to_start_from.txt and output_location.txt.
  idFiles, resumeFile, outputFile,
  \* History: steps that did their work in some run, and those that skipped
  \* themselves in this one.
  done, skipped,
  \* update_dynamo.sh: its position, DATA_PRODUCT, the run id it will write,
  \* the step file it is inside, RETRY_COUNT, PREVIOUS_STATE/STEP,
  \* processed_files and the update it is about to send.
  mPc, mProduct, mRunId, mAt, mRetry, mPrev, mProcessed, mPut

emrVars     == <<run, cluster, stepState>>
diskVars    == <<idFiles, resumeFile, outputFile>>
historyVars == <<done, skipped>>
monitorVars == <<mPc, mProduct, mRunId, mAt, mRetry, mPrev, mProcessed, mPut>>
vars == <<table, emrVars, pc, diskVars, historyVars, monitorVars>>

(***************************************************************************)
(* The table.                                                              *)
(***************************************************************************)

\* "ADG-$SNAPSHOT_TYPE": with the snapshot type, and when it was read empty.
Product      == "ADG-full"
ShortProduct == "ADG-"
Products     == {Product, ShortProduct}

RowStatus == {Null, "IN_PROGRESS", "FAILED", "COMPLETED"}
Row == [status : RowStatus, step : Names \cup {Null}, runId : Nat, prefix : Nat]

\* No row: every attribute missing. Every update leaves some attribute set.
NoRow == [status |-> Null, step |-> Null, runId |-> 0, prefix |-> 0]

\* Mutants of dynamo_update_item: a guard on NOT_SET dropped for the run id, and
\* CurrentStep left out.
update_writes_run(row, step, status, runId) ==
  [status |-> IF status = NotSet THEN row.status ELSE status,
   step   |-> IF step = NotSet THEN row.step ELSE step,
   runId  |-> runId,
   prefix |-> IF outputFile = 0 THEN row.prefix ELSE outputFile]
update_omits_step(row, step, status, runId) ==
  [status |-> IF status = NotSet THEN row.status ELSE status,
   step   |-> row.step,
   runId  |-> IF runId = 0 THEN row.runId ELSE runId,
   prefix |-> IF outputFile = 0 THEN row.prefix ELSE outputFile]

\* The row after an update-item. S3_Prefix_Analytical_DataSet comes from
\* output_location.txt, 0 while that file does not exist.
dynamo_update_item(row, step, status, runId) ==
  [status |-> IF status = NotSet THEN row.status ELSE status,
   step   |-> IF step = NotSet THEN row.step ELSE step,
   runId  |-> IF runId = 0 THEN row.runId ELSE runId,
   prefix |-> IF outputFile = 0 THEN row.prefix ELSE outputFile]

(***************************************************************************)
(* Initial state: the first launch, no row.                                *)
(***************************************************************************)
StepFileState == {"ABSENT", "RUNNING", "COMPLETED", "FAILED", "CANCELLED"}
NothingPut  == [step |-> NotSet, status |-> NotSet, next |-> "poll"]
NoPrevious  == [state |-> Unread, step |-> Unread]

Init ==
  /\ table = [d \in Products |-> NoRow]
  /\ run = 1 /\ cluster = "RUNNING"
  /\ stepState = [p \in Positions |-> "ABSENT"]
  /\ pc = "idle"
  /\ idFiles = 0 /\ resumeFile = NoFile /\ outputFile = 0
  /\ done = {} /\ skipped = {}
  /\ mPc = "wait" /\ mProduct = ShortProduct /\ mRunId = 0
  /\ mAt = 0 /\ mRetry = 0 /\ mPrev = NoPrevious
  /\ mProcessed = {} /\ mPut = NothingPut

(***************************************************************************)
(* The steps.                                                              *)
(***************************************************************************)
Running(p) == cluster = "RUNNING" /\ stepState[p] = "RUNNING"

Ended(p) == \/ stepState[p] = "COMPLETED"
            \/ stepState[p] = "FAILED" /\ p \in OnFailContinue

MonitorStarted == mPc \notin {"wait", "ids", "get", "start"}

\* Timing assumption Lead (0: none): the steps from Lead on come too late to
\* overtake the script's start-up. The first step is what the script waits for.
Awaits(p) == Lead # 0 /\ p >= Lead /\ p > 1

\* EMR starts step p once the steps before it are over.
StartStep(p) ==
  /\ cluster = "RUNNING"
  /\ stepState[p] = "ABSENT"
  /\ \A q \in 1 .. (p - 1) : Ended(q)
  /\ Awaits(p) => MonitorStarted
  /\ stepState' = [stepState EXCEPT ![p] = "RUNNING"]
  /\ pc' = IF p = 1 THEN "ids" ELSE IF p \in SwitchedOff THEN "leave" ELSE "check"
  /\ UNCHANGED <<table, run, cluster, diskVars, historyVars, monitorVars>>

\* courtesy-flush saves the ids the cluster was launched with, a file each.
WriteIdFile ==
  /\ Running(1) /\ pc = "ids"
  /\ idFiles' = idFiles + 1
  /\ pc' = IF idFiles' = 4 THEN "check" ELSE "ids"
  /\ UNCHANGED <<table, emrVars, resumeFile, outputFile, historyVars, monitorVars>>

\* Mutants: the names are not compared; or the wrong way round.
skip_whatever_name(name) == resumeFile # NoFile
skip_same_name(name) == resumeFile # NoFile /\ resumeFile = name

\* What a step decides from the name in step_to_start_from.txt.
should_skip_step(name) == resumeFile # NoFile /\ resumeFile # name

\* The check at the top of every step: no file, run; another step's name,
\* exit 0; this step's name, delete the file and run.
CheckResume(p) ==
  /\ Running(p) /\ pc = "check"
  /\ IF should_skip_step(ResumeName[p])
       THEN /\ skipped' = skipped \cup {p}
            /\ pc' = "leave"
            /\ UNCHANGED resumeFile
       ELSE /\ resumeFile' = NoFile
            /\ pc' = IF p = SubmitJob THEN "locate" ELSE "work"
            /\ UNCHANGED skipped
  /\ UNCHANGED <<table, emrVars, idFiles, outputFile, done, monitorVars>>

\* Mutant: the prefix of the previous run is ignored.
always_new_prefix(row) == run

\* The output prefix of the row, or a new one (a time stamp; here the launch).
get_output_prefix(row) == IF row.prefix = 0 THEN run ELSE row.prefix

\* spark-submit saves its output prefix to output_location.txt. A read that
\* fails counts as a row without a prefix.
LocateOutput ==
  /\ Running(SubmitJob) /\ pc = "locate"
  /\ \/ outputFile' = get_output_prefix(table[Product])
     \/ "get" \in Environment /\ outputFile' = get_output_prefix(NoRow)
  /\ pc' = "work"
  /\ UNCHANGED <<table, emrVars, idFiles, resumeFile, historyVars, monitorVars>>

\* spark-submit gets to its end. (What is then in the dataset is the subject of
\* DatasetRun and ClusterDataset.)
PublishDataset ==
  /\ Running(SubmitJob) /\ pc = "work"
  /\ done' = done \cup {SubmitJob}
  /\ pc' = "leave"
  /\ UNCHANGED <<table, emrVars, diskVars, skipped, monitorVars>>

\* A shell step runs curl or hive; a failure of theirs does not reach the exit
\* status, because the script goes on to its last logging command.
ShellWork(p) ==
  /\ p \in ShellSteps
  /\ Running(p) /\ pc = "work"
  /\ \/ done' = done \cup {p}
     \/ "swallow" \in Environment /\ UNCHANGED done
  /\ pc' = "leave"
  /\ UNCHANGED <<table, emrVars, diskVars, skipped, monitorVars>>

\* send_notification publishes its message.
SendNotification(p) ==
  /\ p \in Positions \ (ShellSteps \cup {SubmitJob})
  /\ Running(p) /\ pc = "work"
  /\ done' = done \cup {p}
  /\ pc' = "leave"
  /\ UNCHANGED <<table, emrVars, diskVars, skipped, monitorVars>>

\* Timing assumption Attentive: the monitor sits in the loop on p's file.
SeenByMonitor(p) ==
  Attentive => \/ ~MonitorStarted
               \/ mPc = "exit"
               \/ mPc = "body" /\ mAt = p

\* The program of step p exits with 0; EMR records it.
StepCompletes(p) ==
  /\ Running(p) /\ pc = "leave"
  /\ SeenByMonitor(p)
  /\ stepState' = [stepState EXCEPT ![p] = "COMPLETED"]
  /\ pc' = "idle"
  /\ UNCHANGED <<table, run, cluster, diskVars, historyVars, monitorVars>>

\* The program of step p exits with an error before its work is complete.
StepFails(p) ==
  /\ p \in MayFail
  /\ Running(p) /\ pc \in {"locate", "work"}
  /\ SeenByMonitor(p)
  /\ stepState' = [stepState EXCEPT ![p] = "FAILED"]
  /\ pc' = "idle"
  /\ UNCHANGED <<table, run, cluster, diskVars, historyVars, monitorVars>>

\* An operator stops the cluster while step p runs.
CancelStep(p) ==
  /\ p \in MayCancel
  /\ Running(p) /\ pc \in {"locate", "work"}
  /\ SeenByMonitor(p)
  /\ stepState' = [stepState EXCEPT ![p] = "CANCELLED"]
  /\ pc' = "idle"
  /\ UNCHANGED <<table, run, cluster, diskVars, historyVars, monitorVars>>

(***************************************************************************)
(* The cluster: how it ends, and how it is launched again.                 *)
(***************************************************************************)

\* Timing assumption Attentive: the monitor has nothing left to read.
CaughtUp ==
  Attentive => \/ mPc = "exit"
               \/ mPc = "poll" /\ \A p \in Positions :
                                     stepState[p] \in {"ABSENT", "COMPLETED"}

\* A failed step with TERMINATE_CLUSTER, or a stopped cluster.
TerminateEarly ==
  /\ cluster = "RUNNING"
  /\ CaughtUp
  /\ \E p \in Positions :
       \/ /\ stepState[p] = "FAILED" /\ p \notin OnFailContinue
          /\ cluster' = "TERMINATED_WITH_ERRORS"
       \/ /\ stepState[p] = "CANCELLED"
          /\ cluster' = "TERMINATED"
  /\ UNCHANGED <<table, run, stepState, pc, diskVars, historyVars, monitorVars>>

\* No step is left: the cluster is not kept alive.
TerminateNormally ==
  /\ cluster = "RUNNING"
  /\ CaughtUp
  /\ \A p \in Positions : Ended(p)
  /\ cluster' = "TERMINATED"
  /\ UNCHANGED <<table, run, stepState, pc, diskVars, historyVars, monitorVars>>

\* The master node is lost, with the script on it.
KillCluster ==
  /\ "kill" \in Environment
  /\ cluster = "RUNNING"
  /\ cluster' = "TERMINATED_WITH_ERRORS"
  /\ UNCHANGED <<table, run, stepState, pc, diskVars, historyVars, monitorVars>>

\* A new cluster for the same correlation id, by the relauncher after errors
\* or by an operator: a new master node, so no file and no script state is left.
Relaunch ==
  /\ cluster # "RUNNING"
  /\ run < MaxRuns
  /\ run' = run + 1
  /\ cluster' = "RUNNING"
  /\ stepState' = [p \in Positions |-> "ABSENT"]
  /\ pc' = "idle"
  /\ idFiles' = 0 /\ resumeFile' = NoFile /\ outputFile' = 0
  /\ skipped' = {}
  /\ mPc' = "wait" /\ mProduct' = ShortProduct /\ mRunId' = 0
  /\ mAt' = 0 /\ mRetry' = 0 /\ mPrev' = NoPrevious
  /\ mProcessed' = {} /\ mPut' = NothingPut
  /\ UNCHANGED <<table, done>>

\* The clear-dynamodb-row job, for a restart from the beginning.
DeleteRow ==
  /\ "deleterow" \in Environment
  /\ cluster # "RUNNING"
  /\ table[Product] # NoRow
  /\ table' = [table EXCEPT ![Product] = NoRow]
  /\ UNCHANGED <<emrVars, pc, diskVars, historyVars, monitorVars>>

(***************************************************************************)
(* update_dynamo.sh.                                                       *)
(***************************************************************************)
MonitorAt(place) == cluster = "RUNNING" /\ mPc = place

\* The loop ends as soon as ONE of the id files exists.
WaitForIdFiles ==
  /\ MonitorAt("wait")
  /\ idFiles > 0
  /\ mPc' = "ids"
  /\ UNCHANGED <<table, emrVars, pc, diskVars, historyVars,
                 mProduct, mRunId, mAt, mRetry, mPrev, mProcessed, mPut>>

\* The third id file holds the snapshot type, which is part of the row's key.
ReadIdFiles ==
  /\ MonitorAt("ids")
  /\ mProduct' = IF idFiles >= 3 THEN Product ELSE ShortProduct
  /\ mPc' = "get"
  /\ UNCHANGED <<table, emrVars, pc, diskVars, historyVars,
                 mRunId, mAt, mRetry, mPrev, mProcessed, mPut>>

\* get-item, and step_to_start_from.txt when the last run FAILED. A call that
\* fails prints nothing, which the script takes for "no row".
GetItem ==
  /\ MonitorAt("get")
  /\ LET row == table[mProduct] IN
     \/ /\ row # NoRow
        /\ mRunId' = row.runId + 1
        /\ resumeFile' = IF row.status = "FAILED" THEN row.step ELSE resumeFile
     \/ /\ row = NoRow \/ "get" \in Environment
        /\ mRunId' = 1
        /\ UNCHANGED resumeFile
  /\ mPc' = "start"
  /\ UNCHANGED <<table, emrVars, pc, idFiles, outputFile, historyVars,
                 mProduct, mAt, mRetry, mPrev, mProcessed, mPut>>

\* An update-item that reaches the table, or is lost: its exit status is ignored.
Update(step, status, runId) ==
  \/ table' = [table EXCEPT
       ![mProduct] = dynamo_update_item(@, step, status, runId)]
  \/ "put" \in Environment /\ UNCHANGED table

StartRun ==
  /\ MonitorAt("start")
  /\ Update(NotSet, "IN_PROGRESS", mRunId)
  /\ mPc' = "poll"
  /\ UNCHANGED <<emrVars, pc, diskVars, historyVars,
                 mProduct, mRunId, mAt, mRetry, mPrev, mProcessed, mPut>>

\* What is read of a file when a read of the given kind fails.
Misread(kind, p) ==
  [state |-> IF kind \in {"file", "state"} THEN Unread ELSE stepState[p],
   step  |-> IF kind \in {"file", "name"} THEN Unread ELSE StepName[p]]

\* check_step_dir reaches a file it has not processed, and enters the loop unless
\* it reads that the step is over.
OpenStepFile(p) ==
  /\ MonitorAt("poll")
  /\ p \notin mProcessed
  /\ stepState[p] # "ABSENT"
  /\ \/ stepState[p] # "COMPLETED"
     \/ \E kind \in Environment \cap MisreadKinds : Misread(kind, p).state = Unread
  /\ mAt' = p
  /\ mRetry' = 0
  /\ mPc' = "body"
  /\ UNCHANGED <<table, emrVars, pc, diskVars, historyVars,
                 mProduct, mRunId, mPrev, mProcessed, mPut>>

\* Mutants: any step ends the run; the step is looked up by its EMR name; a
\* cancelled step is not a failure; the script goes on after its verdict.
any_step_is_final(name) == TRUE
final_by_emr_name(name) == name = "submit-job"
only_failed_is_failure(state) == state = "FAILED"
goes_on == "poll"

IsFinalStep(name) == name = FinalStep
IsFailure(state)  == state \in {"FAILED", "CANCELLED"}
AfterVerdict      == "exit"

\* One turn of the inner loop: what it reads decides what it will write and
\* where it goes on. It stays on the file until the state is COMPLETED.
ReadStepFile ==
  /\ MonitorAt("body")
  /\ LET state == stepState[mAt]
         name  == StepName[mAt]
         place == IF state = "COMPLETED" THEN "poll" ELSE "body"
         over  == state = "COMPLETED" /\ IsFinalStep(name)
     IN
     \/ /\ IsFailure(state)
        /\ mPut' = [step |-> name, status |-> "FAILED", next |-> AfterVerdict]
        /\ mPc' = "put"
        /\ UNCHANGED <<mPrev, mProcessed>>
     \/ /\ over
        /\ mPut' = [step |-> name, status |-> "COMPLETED", next |-> AfterVerdict]
        /\ mPc' = "put"
        /\ UNCHANGED <<mPrev, mProcessed>>
     \/ /\ ~IsFailure(state) /\ ~over
        /\ mPrev' = [state |-> state, step |-> name]
        /\ IF mPrev.state # state /\ mPrev.step # name
             THEN /\ mPut' = [step |-> name, status |-> NotSet, next |-> place]
                  /\ mProcessed' = mProcessed \cup {mAt}
                  /\ mPc' = "put"
             ELSE /\ mPc' = place
                  /\ UNCHANGED <<mPut, mProcessed>>
  /\ UNCHANGED <<table, emrVars, pc, diskVars, historyVars,
                 mProduct, mRunId, mAt, mRetry>>

\* A turn that misses the state, the name or both. After MaxParse of them it gives
\* up, with FAILED and the name as it is read this time. A turn that reads
\* COMPLETED leaves the loop, also without the name.
UnparsableStepFile ==
  /\ MonitorAt("body")
  /\ \E kind \in Environment \cap MisreadKinds :
       LET read == Misread(kind, mAt) IN
       \/ /\ mRetry >= MaxParse
          /\ mPut' = [step   |-> IF read.step = Unread THEN NotSet ELSE read.step,
                      status |-> "FAILED", next |-> AfterVerdict]
          /\ mPc' = "put"
          /\ UNCHANGED <<mRetry, mPrev>>
       \/ /\ mRetry < MaxParse
          /\ mRetry' = mRetry + 1
          /\ mPrev' = read
          /\ mPc' = IF read.state = "COMPLETED" THEN "poll" ELSE "body"
          /\ UNCHANGED mPut
  /\ UNCHANGED <<table, emrVars, pc, diskVars, historyVars,
                 mProduct, mRunId, mAt, mProcessed>>

PutItem ==
  /\ MonitorAt("put")
  /\ Update(mPut.step, mPut.status, 0)
  /\ mPc' = mPut.next
  /\ mPut' = NothingPut
  /\ UNCHANGED <<emrVars, pc, diskVars, historyVars,
                 mProduct, mRunId, mAt, mRetry, mPrev, mProcessed>>

(***************************************************************************)
(* The specification.                                                      *)
(***************************************************************************)
StepProgram(p) ==
  \/ CheckResume(p) \/ ShellWork(p) \/ SendNotification(p)
  \/ StepCompletes(p) \/ StepFails(p)

Steps ==
  \/ \E p \in Positions : StartStep(p) \/ StepProgram(p)
  \/ WriteIdFile \/ LocateOutput \/ PublishDataset

Emr == TerminateEarly \/ TerminateNormally

Monitor ==
  \/ WaitForIdFiles \/ ReadIdFiles \/ GetItem \/ StartRun
  \/ \E p \in Positions : OpenStepFile(p)
  \/ ReadStepFile \/ PutItem

External ==
  \/ \E p \in Positions : CancelStep(p)
  \/ KillCluster \/ Relaunch \/ DeleteRow \/ UnparsableStepFile

Next == Steps \/ Emr \/ Monitor \/ External

Spec == Init /\ [][Next]_vars

-----------------------------------------------------------------------------
(***************************************************************************)
(* Properties.                                                             *)
(***************************************************************************)

ClusterStates == {"RUNNING", "TERMINATED", "TERMINATED_WITH_ERRORS"}
StepPlaces    == {"idle", "ids", "check", "locate", "work", "leave"}
MonitorPlaces == {"wait", "ids", "get", "start", "poll", "body", "put", "exit"}
Previous      == [state : StepFileState \cup {Unread}, step : Names \cup {Unread}]
Put           == [step : Names \cup {NotSet},
                  status : {NotSet, "FAILED", "COMPLETED"},
                  next : {"poll", "body", "exit"}]

\* Every variable holds a value of its kind.
TypeOK ==
  /\ table \in [Products -> Row]
  /\ run \in 1 .. MaxRuns
  /\ cluster \in ClusterStates
  /\ stepState \in [Positions -> StepFileState]
  /\ pc \in StepPlaces
  /\ idFiles \in Nat
  /\ resumeFile \in Names \cup {Null, NoFile}
  /\ outputFile \in Nat
  /\ done \subseteq Positions /\ skipped \subseteq Positions
  /\ mPc \in MonitorPlaces
  /\ mProduct \in Products
  /\ mRunId \in Nat
  /\ mAt \in 0 .. NSteps /\ (mPc \in {"body", "put"} => mAt \in Positions)
  /\ mRetry \in Nat
  /\ mPrev \in Previous
  /\ mProcessed \subseteq Positions
  /\ mPut \in Put

\* A step that skips itself because of step_to_start_from.txt did its work in
\* an earlier cluster: what the resume check assumes of every step it skips.
SkippedStepsWereDone == skipped \subseteq done

\* A row that says COMPLETED stands for a run chain in which every step up to
\* the final one did its work (or is switched off in this environment).
CompletedIsComplete ==
  \A d \in Products : table[d].status = "COMPLETED" =>
    \A f \in Positions : StepName[f] = FinalStep =>
      1 .. f \subseteq done \cup SwitchedOff

\* update_dynamo.sh turns a row to FAILED either for a step whose file says FAILED
\* or CANCELLED at that moment, which it records for the next cluster; or when it
\* has misread one file too often, and then the row names that file's step or
\* keeps the step it had: never a third one.
FailureIsAttributed ==
  [][\A d \in Products :
       table[d].status # "FAILED" /\ table'[d].status = "FAILED" =>
         \/ \E p \in Positions : /\ stepState[p] \in {"FAILED", "CANCELLED"}
                                 /\ table'[d].step = StepName[p]
         \/ /\ Environment \cap MisreadKinds # {}
            /\ mRetry >= MaxParse /\ stepState[mAt] # "ABSENT"
            /\ table'[d].step \in {StepName[mAt], table[d].step}]_vars

\* Once the row of this cluster's own run has a verdict, the script leaves it
\* alone, whatever the steps after it do.
VerdictStands ==
  [][\A d \in Products :
       cluster = "RUNNING" /\ table[d].runId = mRunId
         /\ table[d].status \in {"FAILED", "COMPLETED"} =>
           table'[d] = table[d]]_vars

\* Run_Id never falls and never exceeds the number of launches: every cluster
\* that gets to write counts itself once.
RunIdCountsLaunches ==
  [][\A d \in Products :
       /\ table'[d].runId <= run'
       /\ cluster = "RUNNING" => table'[d].runId >= table[d].runId]_vars

\* Across retries the row keeps the output prefix it first recorded, so that
\* one correlation id has one dataset, unless the operator clears the row. (Not
\* so for a row under the short key, which spark-submit never reads.)
OneOutputLocation ==
  [][cluster = "RUNNING" /\ table[Product].prefix # 0 =>
       table'[Product].prefix = table[Product].prefix]_vars

\* When a cluster is over, the row its script writes has a verdict.
EndedClusterHasVerdict ==
  cluster # "RUNNING" => table[mProduct].status \in {"FAILED", "COMPLETED"}

\* Retries come to an end: at some point the last cluster is over and the row
\* of its script keeps a verdict for good.
EventuallySettled ==
  <>[](cluster # "RUNNING" /\ table[mProduct].status \in {"FAILED", "COMPLETED"})

-----------------------------------------------------------------------------
(***************************************************************************)
(* When resuming is safe, and the invariant that makes it so.              *)
(***************************************************************************)
Stoppable == (MayFail \cup MayCancel) \ SwitchedOff
Settled   == done \cup SwitchedOff

\* Every step that may leave a FAILED row behind starts after the script has
\* written step_to_start_from.txt and looks for the name the script records;
\* failed steps end the cluster, and no write is lost, misread or hushed up.
ResumeSafe ==
  /\ \A p \in Stoppable : Awaits(p) /\ ResumeName[p] = StepName[p]
  /\ MayFail \cap OnFailContinue = {}
  /\ Environment \cap ({"put", "swallow"} \cup MisreadKinds) = {}

\* name is the name of a stoppable step with nothing left to do before it.
ResumePoint(name) ==
  \E p \in Stoppable : name = StepName[p] /\ 1 .. (p - 1) \subseteq Settled

AllDone ==
  \E f \in Positions : StepName[f] = FinalStep /\ 1 .. f \subseteq Settled

StepsInOrder ==
  \A p \in Positions : stepState[p] # "ABSENT" =>
    /\ \A q \in 1 .. (p - 1) : Ended(q)
    /\ Awaits(p) => MonitorStarted

StepResults ==
  \A p \in Positions :
    /\ stepState[p] = "COMPLETED" => p \in Settled
    /\ stepState[p] \in {"FAILED", "CANCELLED"} => p \in Stoppable
    /\ stepState[p] = "FAILED" => p \in MayFail
    /\ stepState[p] = "RUNNING" =>
         /\ pc = "leave" => p \in Settled
         /\ p \in SwitchedOff => pc = "leave"

\* The step to resume from has not yet looked for its name.
ResumeFileInTime ==
  resumeFile # NoFile =>
    /\ mPc \notin {"wait", "ids", "get"}
    /\ \E p \in Stoppable :
         /\ resumeFile = StepName[p]
         /\ 1 .. (p - 1) \subseteq Settled
         /\ \/ stepState[p] = "ABSENT"
            \/ stepState[p] = "RUNNING" /\ pc = "check"

RowsAreRight ==
  \A d \in Products :
    /\ table[d].status = "FAILED" => ResumePoint(table[d].step)
    /\ table[d].status = "COMPLETED" => AllDone

\* What the script is about to write is right too, and ends its work exactly
\* when it is a verdict.
ScriptIsRight ==
  cluster = "RUNNING" =>
    /\ mPc \in {"poll", "body", "put"} => table[mProduct].status = "IN_PROGRESS"
    /\ mPc = "put" =>
         \/ mPut.status = NotSet /\ mPut.next # "exit"
         \/ /\ mPut.status = "FAILED" /\ mPut.next = "exit"
            /\ mPut.step # NotSet /\ ResumePoint(mPut.step)
         \/ /\ mPut.status = "COMPLETED" /\ mPut.next = "exit"
            /\ AllDone

\* The inductive invariant behind SkippedStepsWereDone and CompletedIsComplete:
\* whatever row, file or pending update a cluster leaves, the step it names has
\* nothing undone before it.
ResumeInvariant ==
  /\ StepsInOrder /\ StepResults /\ ResumeFileInTime
  /\ RowsAreRight /\ ScriptIsRight
  /\ SkippedStepsWereDone

-----------------------------------------------------------------------------
(***************************************************************************)
(* The cluster and its script implement a resumable pipeline: "at" is the  *)
(* first step of this cluster that is not over.                            *)
(***************************************************************************)
FinalPosition ==
  IF \E f \in Positions : StepName[f] = FinalStep
    THEN CHOOSE f \in Positions : StepName[f] = FinalStep
    ELSE NSteps + 1

Open == {p \in Positions : ~Ended(p)}

FirstOf(S) ==
  IF S = {} THEN NSteps + 1 ELSE CHOOSE p \in S : \A q \in S : p <= q

Pipeline == INSTANCE ResumablePipeline WITH
  Optional  <- SwitchedOff,
  Final     <- FinalPosition,
  Reporters <- Products,
  at        <- FirstOf(Open),
  complete  <- {d \in Products : table[d].status = "COMPLETED"}

\* Through failures, lost clusters and retries, no cluster goes past a step whose
\* work was never done, and no row says COMPLETED before every step is done.
ImplementsPipeline == Pipeline!Spec
=============================================================================
