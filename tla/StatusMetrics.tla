---------------------------- MODULE StatusMetrics ----------------------------
(***************************************************************************)
(* The cluster of AdgCluster with its second background script,            *)
(* status_metrics.sh, and the pushgateway (external) both clusters and     *)
(* retries share. The script polls the step files as update_dynamo.sh      *)
(* does, reads no table, and pushes the metric adg_status: 1 when the      *)
(* snapshot type is known, and one verdict. courtesy-flush and             *)
(* flush-pushgateway wipe the gateway.                                     *)
(*                                                                         *)
(* The gateway keeps one adg_status for the job "adg": a push replaces the *)
(* one of an earlier cluster.                                              *)
(***************************************************************************)
EXTENDS AdgCluster

CONSTANTS
  MetricStep,     \* final_step of status_metrics.sh
  Flushes,        \* positions of the steps that wipe the gateway
  Misreads        \* what this script may miss of a file, a subset of MisreadKinds

\* The faults are those of steps and reads: the gateway is always reached, and
\* lost masters, cleared rows and misread files of the other script are left to
\* AdgCluster.
ASSUME StatusAssumption ==
  /\ MetricStep \in STRING \ {Unread}
  /\ Flushes \subseteq ShellSteps
  /\ Misreads \subseteq MisreadKinds
  /\ Environment \subseteq {"get", "put", "swallow"}

VARIABLES
  sPc,         \* where the script is
  sAt,         \* the step file it is inside
  sPrev,       \* PREVIOUS_STATE and PREVIOUS_STEP
  sProcessed,  \* processed_files
  pushed,      \* the last value the script pushed, 0 before the first
  gateway      \* adg_status at the gateway, and the cluster it is of

scriptVars == <<sPc, sAt, sPrev, sProcessed, pushed>>
statusVars == <<scriptVars, gateway>>
allVars    == <<vars, statusVars>>

Started   == 1
Completed == 2
Failed    == 3
Cancelled == 4
Wiped     == [cluster |-> 0, value |-> 0]

StatusInit ==
  /\ Init
  /\ sPc = "wait" /\ sAt = 0 /\ sPrev = NoPrevious /\ sProcessed = {}
  /\ pushed = 0 /\ gateway = Wiped

(***************************************************************************)
(* status_metrics.sh.                                                      *)
(***************************************************************************)
StatusAt(place) == cluster = "RUNNING" /\ sPc = place

\* Mutant: a counter in place of a gauge.
count_metric(value) ==
  /\ pushed' = pushed + value
  /\ gateway' = [cluster |-> run, value |-> value]

push_metric(value) ==
  /\ pushed' = value
  /\ gateway' = [cluster |-> run, value |-> value]

\* The loop ends when the snapshot type or the export date is there, the third
\* and the fourth id file; courtesy-flush, which writes them, wipes the gateway
\* before or after this push.
PushRunning ==
  /\ StatusAt("wait")
  /\ idFiles >= 3
  /\ push_metric(Started)
  /\ sPc' = "poll"
  /\ UNCHANGED <<vars, sAt, sPrev, sProcessed>>

\* A file it has not processed, unless it reads that the step is over.
OpenStatusFile(p) ==
  /\ StatusAt("poll")
  /\ p \notin sProcessed
  /\ stepState[p] # "ABSENT"
  /\ \/ stepState[p] # "COMPLETED"
     \/ \E kind \in Misreads : Misread(kind, p).state = Unread
  /\ sAt' = p
  /\ sPc' = "body"
  /\ UNCHANGED <<vars, sPrev, sProcessed, pushed, gateway>>

\* Mutants: success at the end of any step; at a step named as in EMR.
success_at_any_step(name) == TRUE
success_by_emr_name(name) == name = "submit-job"

MarksSuccess(name) == name = MetricStep

\* The verdict a state calls for, 0 for none.
Verdict(name, state) ==
  CASE state = "FAILED" -> Failed
    [] state = "CANCELLED" -> Cancelled
    [] state = "COMPLETED" /\ MarksSuccess(name) -> Completed
    [] OTHER -> 0

\* One turn of the inner loop on what it has read, which is left at COMPLETED. With
\* a verdict the script exits.
ActOn(read) ==
  /\ StatusAt("body")
  /\ \/ /\ Verdict(read.step, read.state) # 0
        /\ push_metric(Verdict(read.step, read.state))
        /\ sPc' = "exit"
        /\ UNCHANGED <<sPrev, sProcessed>>
     \/ /\ Verdict(read.step, read.state) = 0
        /\ sProcessed' = IF sPrev.state # read.state /\ sPrev.step # read.step
                           THEN sProcessed \cup {sAt} ELSE sProcessed
        /\ sPrev' = read
        /\ sPc' = IF read.state = "COMPLETED" THEN "poll" ELSE "body"
        /\ UNCHANGED <<pushed, gateway>>
  /\ UNCHANGED <<vars, sAt>>

ReadStatusFile == ActOn([state |-> stepState[sAt], step |-> StepName[sAt]])

\* What it misses it takes as it is, empty; without a state the script stays on the
\* file, however often this happens.
MisreadStatusFile ==
  \E kind \in Misreads : sPc = "body" /\ ActOn(Misread(kind, sAt))

(***************************************************************************)
(* What the cluster does to the gateway and to the script.                 *)
(***************************************************************************)

\* Mutant: only courtesy-flush wipes.
wiped_at_start(p) == p = 1

\* Steps whose curl wipes the gateway.
wipes(p) == p \in Flushes

FlushStep(p) ==
  /\ ShellWork(p)
  /\ wipes(p) => p \in done'  \* the gateway is reached
  /\ gateway' = IF wipes(p) THEN Wiped ELSE gateway
  /\ UNCHANGED scriptVars

\* Timing assumption Attentive, as for update_dynamo.sh.
SeenByStatus(p) ==
  Attentive => \/ sPc = "exit"
               \/ sPc = "body" /\ sAt = p

StatusCaughtUp ==
  Attentive => \/ sPc = "exit"
               \/ sPc = "poll" /\ \A p \in Positions :
                                     stepState[p] \in {"ABSENT", "COMPLETED"}

StepOver(p) ==
  /\ StepCompletes(p) \/ StepFails(p) \/ CancelStep(p)
  /\ SeenByStatus(p)
  /\ UNCHANGED statusVars

ClusterOver ==
  /\ Emr
  /\ StatusCaughtUp
  /\ UNCHANGED statusVars

\* A new master node starts the script anew; the gateway is not on it.
RelaunchAll ==
  /\ Relaunch
  /\ sPc' = "wait" /\ sAt' = 0 /\ sPrev' = NoPrevious /\ sProcessed' = {}
  /\ pushed' = 0 /\ UNCHANGED gateway

OtherSteps ==
  /\ \/ \E p \in Positions : StartStep(p) \/ CheckResume(p) \/ SendNotification(p)
     \/ WriteIdFile \/ LocateOutput \/ PublishDataset
  /\ UNCHANGED statusVars

UpdateDynamo == Monitor /\ UNCHANGED statusVars

ClusterSteps ==
  \/ OtherSteps
  \/ \E p \in Positions : FlushStep(p) \/ StepOver(p)

StatusScript ==
  \/ PushRunning \/ ReadStatusFile
  \/ \E p \in Positions : OpenStatusFile(p)

OpenOngoing ==
  \E p \in Positions : stepState[p] # "COMPLETED" /\ OpenStatusFile(p)

StatusNext ==
  \/ ClusterSteps \/ ClusterOver \/ RelaunchAll \/ UpdateDynamo
  \/ StatusScript \/ MisreadStatusFile

StatusSpec == StatusInit /\ [][StatusNext]_allVars

\* Steps, EMR and both scripts keep running; the relauncher answers every failure
\* while retries are left. Nothing forces a step to fail or a file to be misread. A
\* script that misreads old files goes back and forth: the strong fairness says that
\* its loop, which visits every file, does not pass over one whose step is not over
\* for ever, and that EMR, which does not wait for it, ends the cluster.
StatusFairSpec ==
  /\ StatusSpec
  /\ WF_allVars(ClusterSteps) /\ SF_allVars(ClusterOver) /\ WF_allVars(RelaunchAll)
  /\ WF_allVars(UpdateDynamo) /\ WF_allVars(StatusScript) /\ SF_allVars(OpenOngoing)

-----------------------------------------------------------------------------
(***************************************************************************)
(* Properties.                                                             *)
(***************************************************************************)
\* Every variable of the second script and of the gateway holds a value of its
\* kind.
StatusTypeOK ==
  /\ TypeOK
  /\ sPc \in {"wait", "poll", "body", "exit"}
  /\ sAt \in 0 .. NSteps /\ (sPc = "body" => sAt \in Positions)
  /\ sPrev \in Previous /\ sProcessed \subseteq Positions
  /\ pushed \in 0 .. 4
  /\ gateway \in [cluster : 0 .. MaxRuns, value : 0 .. 4]

\* A metric that says completed means that spark-submit got to its end, in this
\* cluster or one it resumes, whatever was skipped on the way.
SuccessMetricMeansData == gateway.value = Completed => SubmitJob \in done

\* The two scripts, which do not know of each other and go by different final
\* steps, come to the same verdict, except where a step after spark-submit ended
\* the cluster: that failure is in the row and not in the metric.
VerdictsAgree ==
  mPc = "exit" /\ sPc = "exit" =>
    /\ table[mProduct].status = "COMPLETED" => pushed = Completed
    /\ table[mProduct].status = "FAILED" /\ pushed = Completed =>
         \E p \in Positions : /\ p > SubmitJob
                              /\ stepState[p] \in {"FAILED", "CANCELLED"}
                              /\ table[mProduct].step = StepName[p]

\* A cluster that got to the end of its last step leaves nothing behind at the
\* gateway: no push comes after the last wipe.
GatewayIsLeftClean ==
  cluster # "RUNNING" /\ stepState[NSteps] = "COMPLETED" /\ NSteps \notin skipped =>
    gateway = Wiped

\* When a cluster is over its last push was a verdict, and it is at the gateway or
\* the gateway has been wiped since.
EndedClusterIsReported ==
  cluster # "RUNNING" =>
    /\ pushed \in {Completed, Failed, Cancelled}
    /\ gateway = Wiped \/ gateway = [cluster |-> run, value |-> pushed]
=============================================================================
