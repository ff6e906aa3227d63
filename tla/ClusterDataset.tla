--------------------------- MODULE ClusterDataset ---------------------------
(***************************************************************************)
(* The cluster of AdgCluster with the dataset its spark-submit step works  *)
(* on and the message its send_notification step sends. Of the dataset it  *)
(* has what RetriedDataset promises and DatasetRun is shown to keep:       *)
(* spark-submit publishes and withdraws collections under the prefix it    *)
(* saved to output_location.txt, and ends well only with the whole dataset *)
(* there and the prefix in adg_params.csv. send_notification reads that    *)
(* file, which it finds under a fixed key, and the row names a prefix too: *)
(* the two get there by different ways.                                    *)
(***************************************************************************)
EXTENDS AdgCluster

CONSTANTS
  Wanted,   \* collections the readers expect
  Notify    \* position of send_notification

Prefixes == 1 .. MaxRuns

ASSUME DeliveryAssumption ==
  /\ Notify \in Positions \ (ShellSteps \cup SwitchedOff)
  /\ SubmitJob < Notify
  /\ Positions = ShellSteps \cup {SubmitJob, Notify}
  /\ FinalStep = StepName[Notify]
  /\ Wanted # {}

VARIABLES
  whole,      \* prefix -> wanted collections that lie there in full
  announced,  \* the prefix in adg_params.csv, 0 before the first upload
  messages    \* the prefixes send_notification has sent

datasetVars  == <<whole, announced>>
deliveryVars == <<vars, datasetVars, messages>>

Dataset == INSTANCE RetriedDataset

DeliveryInit == Init /\ Dataset!Init /\ messages = {}

(***************************************************************************)
(* spark-submit and send_notification.                                     *)
(***************************************************************************)

\* Collections are published, or deleted to be written again.
WorkOnDataset ==
  /\ Running(SubmitJob) /\ pc = "work"
  /\ Dataset!Work(outputFile)
  /\ UNCHANGED <<vars, messages>>

\* The end of spark-submit: adg_params.csv names the prefix.
FinishDataset ==
  /\ PublishDataset
  /\ Dataset!Announce(outputFile)
  /\ UNCHANGED messages

\* Mutants: the prefix in the row; a new one, from the time stamp of the run.
prefix_in_row == table[Product].prefix
prefix_of_run == run

\* The prefix send_notification puts into its message.
prefix_to_send == announced

\* The download of a file that is not there would raise; CsvIsThere says that it
\* never comes to that.
send_sns_message ==
  /\ SendNotification(Notify)
  /\ announced # 0
  /\ messages' = messages \cup {prefix_to_send}
  /\ UNCHANGED datasetVars

(***************************************************************************)
(* The rest of the cluster. That it is lost or stopped while collections   *)
(* are being processed is left to DatasetRun, which does not keep its      *)
(* promise then; misread step files and cleared rows are left to           *)
(* AdgCluster.                                                             *)
(***************************************************************************)
LoseMaster ==
  /\ KillCluster
  /\ ~(Running(SubmitJob) /\ pc = "work")

StepGoesOn(p) ==
  \/ StartStep(p) \/ CheckResume(p) \/ ShellWork(p)
  \/ StepCompletes(p) \/ StepFails(p)

OperatorStops(p) == p # SubmitJob /\ CancelStep(p)

Elsewhere ==
  /\ \/ \E p \in Positions : StepGoesOn(p) \/ OperatorStops(p)
     \/ WriteIdFile \/ LocateOutput \/ Emr \/ LoseMaster \/ Relaunch \/ Monitor
  /\ UNCHANGED <<datasetVars, messages>>

DeliveryNext == WorkOnDataset \/ FinishDataset \/ send_sns_message \/ Elsewhere

DeliverySpec == DeliveryInit /\ [][DeliveryNext]_deliveryVars

-----------------------------------------------------------------------------
(***************************************************************************)
(* Properties.                                                             *)
(***************************************************************************)
\* The dataset, the file and the messages are of their kind.
DeliveryTypeOK ==
  /\ whole \in [Prefixes -> SUBSET Wanted]
  /\ announced \in 0 .. MaxRuns
  /\ messages \subseteq Prefixes

IsWhole(prefix) == prefix \in Prefixes /\ whole[prefix] = Wanted

\* A COMPLETED row names a prefix under which the whole dataset lies, in this
\* cluster or in an earlier one, by whatever way the row came by the prefix.
CompletedRowNamesDataset ==
  \A d \in Products : table[d].status = "COMPLETED" => IsWhole(table[d].prefix)

\* And for the row of the snapshot type that is the prefix adg_params.csv names
\* and send_notification has sent, though it never looks at the row.
CompletedRowIsDelivered ==
  table[Product].status = "COMPLETED" =>
    /\ announced = table[Product].prefix
    /\ table[Product].prefix \in messages

\* Whoever got a message finds the whole dataset, then and ever after: no retry
\* deletes from a prefix that was sent.
MessagesNameWholeDatasets == \A prefix \in messages : IsWhole(prefix)

\* send_notification finds the file it reads.
CsvIsThere == Running(Notify) /\ pc = "work" => announced # 0

-----------------------------------------------------------------------------
(***************************************************************************)
(* When delivery is safe, and the invariant that makes it so.              *)
(***************************************************************************)

\* Resuming is safe, and spark-submit always finds the prefix of the row.
DeliverySafe == ResumeSafe /\ "get" \notin Environment

\* Step p is over, or has only to exit.
Past(p) == \/ stepState[p] = "COMPLETED"
           \/ stepState[p] = "RUNNING" /\ pc = "leave"

\* Nothing is going to be deleted there: spark-submit works under the prefix in
\* output_location.txt, and a retry under that of the row.
Untouched(prefix) ==
  prefix = announced \/ prefix \notin {outputFile, table[Product].prefix}

\* What a row that names this prefix stands for, once it is past spark-submit.
HasDataset(d, prefix) ==
  /\ announced # 0
  /\ IsWhole(prefix) /\ Untouched(prefix)
  /\ d = Product => prefix = announced

HasMessage(d, prefix) == d = Product => prefix \in messages

\* The steps before position q are behind the prefix.
Delivered(d, prefix, q) ==
  /\ SubmitJob < q => HasDataset(d, prefix)
  /\ Notify < q => HasMessage(d, prefix)

\* A prefix is new until it is saved, and the row of the snapshot type keeps it.
PrefixesInOrder ==
  /\ outputFile \in 0 .. run
  /\ outputFile # 0 /\ table[Product].prefix # 0 => outputFile = table[Product].prefix
  /\ \A prefix \in messages \cup {announced} \cup {table[d].prefix : d \in Products} :
       prefix <= run /\ (prefix = run => outputFile # 0)

Announced == announced # 0 => IsWhole(announced)

MessagesAreKept ==
  \A prefix \in messages : IsWhole(prefix) /\ Untouched(prefix)

RowsAreDelivered ==
  \A d \in Products :
    /\ table[d].status = "FAILED" =>
         \A p \in Positions : table[d].step = StepName[p] =>
           Delivered(d, table[d].prefix, p)
    /\ table[d].status = "COMPLETED" => Delivered(d, table[d].prefix, NSteps + 1)

\* The prefix is saved by the spark-submit that works under it, and the one that
\* got to its end announced it.
SubmitIsInOrder ==
  /\ outputFile # 0 =>
       /\ SubmitJob \notin skipped
       /\ stepState[SubmitJob] # "ABSENT"
       /\ stepState[SubmitJob] = "RUNNING" => pc \in {"work", "leave"}
  /\ stepState[SubmitJob] = "RUNNING" /\ pc = "work" => outputFile # 0
  /\ SubmitJob \in skipped => Past(SubmitJob)
  /\ Past(SubmitJob) /\ SubmitJob \notin skipped =>
       outputFile # 0 /\ announced = outputFile
  /\ Past(Notify) /\ Notify \notin skipped => announced \in messages

\* A step is skipped, or will be, because of a row that stands for its work.
SkippedIsDelivered ==
  /\ SubmitJob \in skipped => HasDataset(mProduct, table[mProduct].prefix)
  /\ Notify \in skipped => HasMessage(mProduct, table[mProduct].prefix)
  /\ mProduct = Product \/ outputFile = 0 =>
       \A p \in Positions : resumeFile = StepName[p] =>
         Delivered(mProduct, table[mProduct].prefix, p)
  /\ skipped # {} => mPc \notin {"wait", "ids", "get"}

\* The verdict about to be written is that of a step file.
PutIsSeen ==
  mPc = "put" =>
    /\ mPut.status = "FAILED" =>
         \E p \in Positions : mPut.step = StepName[p]
                              /\ stepState[p] \in {"FAILED", "CANCELLED"}
    /\ mPut.status = "COMPLETED" => stepState[Notify] = "COMPLETED"

\* The invariant behind the properties above: whatever row a launch resumes from,
\* the prefix it names has what the steps that will be skipped did.
DeliveryInvariant ==
  /\ DeliveryTypeOK
  /\ PrefixesInOrder /\ Announced /\ MessagesAreKept /\ RowsAreDelivered
  /\ SubmitIsInOrder /\ SkippedIsDelivered /\ PutIsSeen
=============================================================================
