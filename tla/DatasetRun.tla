----------------------------- MODULE DatasetRun -----------------------------
(***************************************************************************)
(* The spark-submit step, generate_dataset_from_htme.py, run as often as   *)
(* the retries of one correlation id need it. A run locates its output     *)
(* prefix, selects collections, processes each on a thread of a pool, and  *)
(* when all of them succeeded uploads adg_params.csv. What the next run    *)
(* sees of this one is the output prefix in the data_pipeline_metadata     *)
(* row, the ADGStatus of each collection, the objects in S3 and the Hive   *)
(* tables: a run that finds a prefix processes only the collections whose  *)
(* status begins with "Failed".                                            *)
(*                                                                         *)
(* The collections are the ordinary ones, each with a directory under the  *)
(* output prefix and an external table.                                    *)
(***************************************************************************)
EXTENDS Integers, FiniteSets

CONSTANTS
  Secrets,      \* the collections of the secret, collections_all
  Exported,     \* the collections HTME exported files of
  Incremental,  \* whether the snapshot type is incremental
  Workers,      \* threads of the ThreadPoolExecutor
  Environment,  \* which faults may happen, a subset of Faults
  MaxRuns       \* bound: runs of the step for the correlation id

Collections == Secrets \cup Exported

\* process, publish: a call of process_collection raises an Exception;
\* dks: call_dks gives up and calls sys.exit; status: update_item raises;
\* prepare: a call before the pool raises; csv: the upload raises; stop: the
\* cluster is stopped or lost; get: get_item raises; norecord: the cluster is
\* over before update_dynamo.sh stored the prefix; clear: the operator deletes
\* the row; sns: the topic refuses a message.
Faults == {"process", "publish", "dks", "status", "prepare", "csv", "stop",
           "get", "norecord", "clear", "sns"}

ASSUME DatasetAssumption ==
  /\ IsFiniteSet(Collections)
  /\ Incremental \in BOOLEAN
  /\ Workers \in Nat \ {0}
  /\ Environment \subseteq Faults
  /\ MaxRuns \in Nat \ {0}

VARIABLES
  run,        \* number of the run, which also stands for its time stamp
  step,       \* EMR's view of the step
  mainPc,     \* where the main thread is
  rowPrefix,  \* S3_Prefix_Analytical_DataSet of the row, 0 when it has none
  output,     \* output_prefix of this run, 0 before it is known
  existing,   \* EXISTING_OUTPUT_PREFIX
  selected,   \* secrets_collections, as get_collections returned them
  task,       \* collection -> where the thread processing it is
  status,     \* collection -> ADGStatus
  objects,    \* prefix -> collection -> the objects of its directory in S3
  hive,       \* collection -> prefix its table reads, 0 when there is no table
  notified,   \* collection -> this run's message about its failure
  csv         \* prefix in adg_params.csv, 0 before the first upload

mainVars  == <<run, step, mainPc, rowPrefix, output, existing, selected>>
storeVars == <<status, objects, hive>>
vars == <<mainVars, task, storeVars, notified, csv>>

Prefixes == 1 .. MaxRuns

NoStatus == "none"
Failing  == {"Failed_Processing", "Failed_Publishing"}
Between  == {"Processing", "Publishing"}
Statuses == {NoStatus, "Completed"} \cup Failing \cup Between

\* What a thread has to do next; "idle": the collection is not in the pool.
Places == {"idle", "queued", "read", "persist", "tag", "publishing", "drop",
           "create", "complete", "Failed_Processing", "Failed_Publishing",
           "notify", "ok", "raised"}

AtRest == {"idle", "ok", "raised"}

Init ==
  /\ run = 1 /\ step = "RUNNING" /\ mainPc = "locate"
  /\ rowPrefix = 0 /\ output = 0 /\ existing = FALSE /\ selected = {}
  /\ task = [c \in Collections |-> "idle"]
  /\ status = [c \in Collections |-> NoStatus]
  /\ objects = [p \in Prefixes |-> [c \in Collections |-> "none"]]
  /\ hive = [c \in Collections |-> 0]
  /\ notified = [c \in Collections |-> "none"] /\ csv = 0

(***************************************************************************)
(* The main thread.                                                        *)
(***************************************************************************)
MainAt(place) == step = "RUNNING" /\ mainPc = place

\* Mutant: the prefix of the row, whatever it is.
prefix_of_row == output' = rowPrefix /\ existing' = TRUE

\* The prefix of the row, or a new one when there is none or the call fails.
get_output_prefix ==
  \/ /\ rowPrefix # 0
     /\ output' = rowPrefix /\ existing' = TRUE
  \/ /\ rowPrefix = 0 \/ "get" \in Environment
     /\ output' = run /\ existing' = FALSE

LocateOutput ==
  /\ MainAt("locate")
  /\ get_output_prefix
  /\ mainPc' = "prepare"
  /\ UNCHANGED <<run, step, rowPrefix, selected, task, storeVars, notified, csv>>

get_failed_collection_names == {c \in Collections : status[c] \in Failing}

\* Mutants: every collection again; none of those that failed to be published.
all_collections_again == Secrets
only_unprocessed ==
  IF existing THEN {c \in Secrets : status[c] = "Failed_Processing"} ELSE Secrets

get_collections ==
  IF existing THEN Secrets \cap get_failed_collection_names ELSE Secrets

\* Mutant: no directory for a collection without data.
populate_nothing(names) == objects

\* An incremental run gives every selected collection without data a directory
\* with an empty file.
populate_empty_prefixes(names) ==
  [objects EXCEPT ![output] =
     [c \in Collections |-> IF Incremental /\ c \in names \ Exported
                              THEN "empty" ELSE @[c]]]

\* Everything before the pool: secrets, keys, empty directories, the database.
\* The pool is given the collections that were exported and are selected.
Prepare ==
  /\ MainAt("prepare")
  /\ selected' = get_collections
  /\ objects' = populate_empty_prefixes(selected')
  /\ task' = [c \in Collections |->
                IF c \in selected' \cap Exported THEN "queued" ELSE "idle"]
  /\ mainPc' = "pool"
  /\ UNCHANGED <<run, step, rowPrefix, output, existing, status, hive, notified, csv>>

EndStep(result) == step' = result /\ mainPc' = "over"

\* A call before the pool raises, or calls sys.exit; some directories may exist.
PrepareFails ==
  /\ "prepare" \in Environment
  /\ MainAt("prepare")
  /\ \E names \in SUBSET get_collections :
       objects' = populate_empty_prefixes(names)
  /\ EndStep("FAILED")
  /\ UNCHANGED <<run, rowPrefix, output, existing, selected, task, status, hive,
                 notified, csv>>

\* Mutants: the first exception ends the step; only success does.
pool_ends_at_first_error ==
  \/ \E c \in Collections : task[c] = "raised"
  \/ \A c \in Collections : task[c] \in AtRest
pool_ends_when_all_succeed == \A c \in Collections : task[c] \in {"idle", "ok"}

\* Leaving the "with" block waits for every thread.
PoolIsOver == \A c \in Collections : task[c] \in AtRest

\* Only then are the results read, and an exception among them raised again.
CollectResults ==
  /\ MainAt("pool")
  /\ PoolIsOver
  /\ IF \E c \in Collections : task[c] = "raised"
       THEN EndStep("FAILED")
       ELSE mainPc' = "csv" /\ UNCHANGED step
  /\ UNCHANGED <<run, rowPrefix, output, existing, selected, task, storeVars,
                 notified, csv>>

create_adg_status_csv ==
  /\ MainAt("csv")
  /\ csv' = output
  /\ EndStep("COMPLETED")
  /\ UNCHANGED <<run, rowPrefix, output, existing, selected, task, storeVars, notified>>

UploadFails ==
  /\ "csv" \in Environment
  /\ MainAt("csv")
  /\ EndStep("FAILED")
  /\ UNCHANGED <<run, rowPrefix, output, existing, selected, task, storeVars,
                 notified, csv>>

(***************************************************************************)
(* process_collection, on a thread of the pool.                            *)
(***************************************************************************)
ThreadAt(c, place) == MainAt("pool") /\ task[c] = place

GoTo(c, place) == task' = [task EXCEPT ![c] = place]

\* update_item: the status is written, or the exception leaves the thread.
update_adg_status(c, value, place) ==
  \/ status' = [status EXCEPT ![c] = value] /\ GoTo(c, place)
  \/ "status" \in Environment /\ UNCHANGED status /\ GoTo(c, "raised")

Busy == {c \in Collections : task[c] \notin AtRest \cup {"queued"}}

TakeCollection(c) ==
  /\ ThreadAt(c, "queued")
  /\ Cardinality(Busy) < Workers
  /\ update_adg_status(c, "Processing", "read")
  /\ UNCHANGED <<mainVars, objects, hive, notified, csv>>

SetObjects(c, what) == objects' = [objects EXCEPT ![output][c] = what]

\* Mutant: the whole output prefix is emptied.
delete_all_s3_files(c) ==
  IF existing
    THEN objects' = [objects EXCEPT ![output] = [d \in Collections |-> "none"]]
    ELSE UNCHANGED objects

\* A re-run of a failed run first empties the directory.
delete_existing_s3_files(c) ==
  IF existing THEN SetObjects(c, "none") ELSE UNCHANGED objects

\* The inputs and their keys are read and the directory is made ready.
ReadCollection(c) ==
  /\ ThreadAt(c, "read")
  /\ \/ delete_existing_s3_files(c) /\ GoTo(c, "persist")
     \/ /\ "process" \in Environment
        /\ GoTo(c, "Failed_Processing")
        /\ \/ UNCHANGED objects
           \/ existing /\ objects[output][c] # "none" /\ SetObjects(c, "partial")
     \/ "dks" \in Environment /\ GoTo(c, "raised") /\ UNCHANGED objects
  /\ UNCHANGED <<mainVars, status, hive, notified, csv>>

\* saveAsTextFile refuses a directory that exists; a failed job leaves files.
persist_json(c) ==
  /\ ThreadAt(c, "persist")
  /\ \/ /\ objects[output][c] = "none"
        /\ SetObjects(c, "full") /\ GoTo(c, "tag")
     \/ /\ objects[output][c] # "none"
        /\ UNCHANGED objects /\ GoTo(c, "Failed_Processing")
     \/ /\ "process" \in Environment
        /\ objects[output][c] = "none"
        /\ \E what \in {"none", "partial"} : SetObjects(c, what)
        /\ GoTo(c, "Failed_Processing")
  /\ UNCHANGED <<mainVars, status, hive, notified, csv>>

\* tag_objects and the sizes for the metrics.
TagObjects(c) ==
  /\ ThreadAt(c, "tag")
  /\ \/ GoTo(c, "publishing")
     \/ "process" \in Environment /\ GoTo(c, "Failed_Processing")
  /\ UNCHANGED <<mainVars, storeVars, notified, csv>>

StartPublishing(c) ==
  /\ ThreadAt(c, "publishing")
  /\ update_adg_status(c, "Publishing", "drop")
  /\ UNCHANGED <<mainVars, objects, hive, notified, csv>>

DropTable(c) ==
  /\ ThreadAt(c, "drop")
  /\ \/ hive' = [hive EXCEPT ![c] = 0] /\ GoTo(c, "create")
     \/ "publish" \in Environment /\ UNCHANGED hive /\ GoTo(c, "Failed_Publishing")
  /\ UNCHANGED <<mainVars, status, objects, notified, csv>>

\* A statement that raises is taken to have had no effect: Hive makes and drops an
\* external table in its metastore as a whole.
CreateTable(c) ==
  /\ ThreadAt(c, "create")
  /\ \/ /\ hive' = [hive EXCEPT ![c] = IF hive[c] = 0 THEN output ELSE @]
        /\ GoTo(c, "complete")
     \/ "publish" \in Environment /\ UNCHANGED hive /\ GoTo(c, "Failed_Publishing")
  /\ UNCHANGED <<mainVars, status, objects, notified, csv>>

CompleteCollection(c) ==
  /\ ThreadAt(c, "complete")
  /\ update_adg_status(c, "Completed", "ok")
  /\ UNCHANGED <<mainVars, objects, hive, notified, csv>>

\* Mutant: the failure is raised before it is sent.
fail_silently(c) ==
  /\ \E failure \in Failing :
       ThreadAt(c, failure) /\ update_adg_status(c, failure, "raised")
  /\ UNCHANGED <<mainVars, objects, hive, notified, csv>>

\* The two except blocks.
MarkFailed(c) ==
  /\ \E failure \in Failing :
       ThreadAt(c, failure) /\ update_adg_status(c, failure, "notify")
  /\ UNCHANGED <<mainVars, objects, hive, notified, csv>>

\* An exception of sns_client.publish is caught and only logged; the one that made
\* the collection fail is raised again, whatever became of the message.
notify_of_collection_failure(c) ==
  /\ ThreadAt(c, "notify")
  /\ \/ notified' = [notified EXCEPT ![c] = "sent"]
     \/ "sns" \in Environment /\ notified' = [notified EXCEPT ![c] = "refused"]
  /\ GoTo(c, "raised")
  /\ UNCHANGED <<mainVars, storeVars, csv>>

(***************************************************************************)
(* Around the step.                                                        *)
(***************************************************************************)

\* The cluster is stopped by an operator, or lost, in the middle of the step.
Stop ==
  /\ "stop" \in Environment
  /\ step = "RUNNING"
  /\ EndStep("STOPPED")
  /\ UNCHANGED <<run, rowPrefix, output, existing, selected, task, storeVars,
                 notified, csv>>

\* The prefix in the row when the next run reads it: update_dynamo.sh has
\* stored the one in output_location.txt, or not; or the row was deleted.
RowAfterRun ==
  {IF output = 0 THEN rowPrefix ELSE output}
    \cup (IF "norecord" \in Environment THEN {rowPrefix} ELSE {})
    \cup (IF "clear" \in Environment THEN {0} ELSE {})

\* The step runs again, on a new cluster.
Relaunch ==
  /\ step # "RUNNING"
  /\ run < MaxRuns
  /\ run' = run + 1 /\ step' = "RUNNING" /\ mainPc' = "locate"
  /\ rowPrefix' \in RowAfterRun
  /\ output' = 0 /\ existing' = FALSE /\ selected' = {}
  /\ task' = [c \in Collections |-> "idle"]
  /\ notified' = [c \in Collections |-> "none"]
  /\ UNCHANGED <<storeVars, csv>>

Main == LocateOutput \/ Prepare \/ CollectResults \/ create_adg_status_csv

Thread(c) ==
  \/ TakeCollection(c) \/ ReadCollection(c) \/ persist_json(c) \/ TagObjects(c)
  \/ StartPublishing(c) \/ DropTable(c) \/ CreateTable(c) \/ CompleteCollection(c)
  \/ MarkFailed(c) \/ notify_of_collection_failure(c)

Next ==
  \/ Main \/ PrepareFails \/ UploadFails \/ Stop \/ Relaunch
  \/ \E c \in Collections : Thread(c)

Spec == Init /\ [][Next]_vars

\* Each thread and the main thread keep running, and failures are retried.
FairSpec ==
  /\ Spec /\ WF_vars(Main) /\ WF_vars(Relaunch)
  /\ \A c \in Collections : WF_vars(Thread(c))

-----------------------------------------------------------------------------
(***************************************************************************)
(* Properties.                                                             *)
(***************************************************************************)
TypeOK ==
  /\ run \in 1 .. MaxRuns
  /\ step \in {"RUNNING", "COMPLETED", "FAILED", "STOPPED"}
  /\ mainPc \in {"locate", "prepare", "pool", "csv", "over"}
  /\ rowPrefix \in 0 .. MaxRuns /\ output \in 0 .. MaxRuns /\ csv \in 0 .. MaxRuns
  /\ mainPc \in {"prepare", "pool", "csv"} => output \in Prefixes
  /\ existing \in BOOLEAN
  /\ selected \subseteq Secrets
  /\ notified \in [Collections -> {"none", "sent", "refused"}]
  /\ task \in [Collections -> Places]
  /\ status \in [Collections -> Statuses]
  /\ objects \in [Prefixes -> [Collections -> {"none", "partial", "empty", "full"}]]
  /\ hive \in [Collections -> 0 .. MaxRuns]

Wanted == Secrets \cap Exported

\* Every wanted collection is there in full and, after an incremental run, the
\* others have their empty directory.
Whole(p) ==
  /\ \A c \in Wanted : objects[p][c] = "full"
  /\ Incremental => \A c \in Secrets \ Exported : objects[p][c] = "empty"

\* adg_params.csv, which send_notification and the readers go by, names a prefix
\* that holds the whole dataset, however many runs it took.
CsvNamesWholeDataset == csv # 0 => Whole(csv)

\* When a run succeeds every wanted collection is Completed and its table reads
\* what lies under the run's prefix.
SuccessIsPublished ==
  step = "COMPLETED" =>
    \A c \in Wanted : status[c] = "Completed" /\ hive[c] = output

\* No table reads a directory that is missing, half written or being deleted.
TablesReadWholeData ==
  \A c \in Collections : hive[c] # 0 => objects[hive[c]][c] = "full"

\* A step that failed leaves no collection in the middle: the next run, which
\* looks for "Failed", would pass it over.
FailureLeavesNoneBetween ==
  step = "FAILED" => \A c \in Collections : status[c] \notin Between

\* Under every fault, a step that leaves one of its collections failed has failed
\* itself, and has announced the collection to the topic; unless the topic refused
\* the message, or the failure is that of an earlier run, whose status this one
\* could not replace before it gave the collection up.
FailuresAreNotified ==
  step \in {"FAILED", "COMPLETED"} =>
    \A c \in selected : status[c] \in Failing =>
      /\ step = "FAILED"
      /\ \/ notified[c] = "sent"
         \/ "sns" \in Environment /\ notified[c] = "refused"
         \/ "status" \in Environment /\ run > 1 /\ task[c] = "raised"

\* A re-run under an existing prefix touches no collection that succeeded.
CompletedIsNotRepeated ==
  [][existing => \A c \in Collections : status[c] = "Completed" =>
       /\ status'[c] = "Completed" /\ hive'[c] = hive[c]
       /\ objects'[output][c] = objects[output][c]]_vars

\* Every run comes to an end, so that the retries do.
RunsEnd == <>[](step # "RUNNING")

-----------------------------------------------------------------------------
(***************************************************************************)
(* When the retries are safe, and the invariant that makes them so.        *)
(***************************************************************************)

\* A run ends with every selected collection tried; and either the prefix of
\* each run is stored, or the stored one is always found.
RetrySafe ==
  /\ Environment \cap {"dks", "status", "prepare", "stop"} = {}
  /\ ~({"get", "norecord"} \subseteq Environment)

Published(c, p) ==
  status[c] = "Completed" /\ objects[p][c] = "full" /\ hive[c] = p

AllPublished(p) == \A c \in Wanted : Published(c, p)

EmptyOnes(p) ==
  Incremental => \A c \in Secrets \ Exported : objects[p][c] = "empty"

\* What a re-run under prefix p relies on: what has not failed is published.
Resumable(p) ==
  /\ \A c \in Wanted : \/ Published(c, p)
                       \/ status[c] \in Failing /\ hive[c] # p
  /\ EmptyOnes(p)

\* Prefixes in use are those of runs that have started.
PrefixesInTime ==
  /\ rowPrefix <= run /\ output <= run /\ csv <= run
  /\ \A c \in Collections : hive[c] <= run
  /\ \A p \in Prefixes : p > run => objects[p] = [c \in Collections |-> "none"]
  /\ step = "RUNNING" /\ mainPc = "locate" =>
       /\ output = 0 /\ csv < run
       /\ \A c \in Collections : hive[c] < run
       /\ objects[run] = [c \in Collections |-> "none"]

\* A run that will find a prefix finds one to resume from, and no run comes back
\* to a prefix that an earlier one left.
RowIsResumable ==
  /\ step = "RUNNING" /\ mainPc = "locate" /\ rowPrefix # 0 =>
       /\ Resumable(rowPrefix)
       /\ csv = rowPrefix => AllPublished(rowPrefix)
  /\ "get" \notin Environment /\ output # 0 /\ rowPrefix # 0 => output = rowPrefix

RunIsResumable ==
  /\ step # "RUNNING" => step \in {"COMPLETED", "FAILED"} /\ mainPc = "over"
  /\ step # "RUNNING" => output # 0 /\ Resumable(output)
  /\ step = "RUNNING" => mainPc # "over"
  /\ step = "COMPLETED" => AllPublished(output)
  /\ step = "RUNNING" /\ mainPc = "prepare" =>
       IF existing
         THEN Resumable(output)
         ELSE /\ output = run /\ csv # output
              /\ \A c \in Collections : hive[c] # output /\ objects[output][c] = "none"
  /\ step = "RUNNING" /\ mainPc \in {"pool", "csv"} => EmptyOnes(output)
  /\ step = "RUNNING" /\ mainPc = "csv" => AllPublished(output)

\* How far a collection of the pool has come.
PlaceIsRight(c) ==
  /\ task[c] \in {"idle", "ok"} => Published(c, output)
  /\ task[c] \in {"notify", "raised"} => status[c] \in Failing
  /\ task[c] \in {"tag", "publishing", "drop", "create", "complete"} =>
       objects[output][c] = "full"
  /\ task[c] = "create" => hive[c] = 0
  /\ task[c] = "complete" => hive[c] = output
  /\ task[c] \notin {"idle", "ok", "complete"} => hive[c] # output

PoolIsRight ==
  /\ \A c \in Collections \ Wanted : task[c] = "idle" /\ hive[c] = 0
  /\ step = "RUNNING" /\ mainPc = "pool" => \A c \in Wanted : PlaceIsRight(c)

CsvIsSafe ==
  /\ CsvNamesWholeDataset
  /\ csv # 0 /\ csv = output => AllPublished(output)
  /\ step = "RUNNING" /\ mainPc = "pool" /\ csv # 0 /\ csv = output =>
       \A c \in Collections : task[c] = "idle"

\* The inductive invariant behind CsvNamesWholeDataset and SuccessIsPublished.
RetryInvariant ==
  /\ PrefixesInTime /\ RowIsResumable /\ RunIsResumable /\ PoolIsRight
  /\ CsvIsSafe /\ TablesReadWholeData

-----------------------------------------------------------------------------
\* The wanted collections that lie in full under each prefix.
WholeUnder == [p \in Prefixes |-> {c \in Wanted : objects[p][c] = "full"}]

Announced == INSTANCE RetriedDataset WITH
  whole     <- WholeUnder,
  announced <- csv

\* Through failed runs and their retries, readers of adg_params.csv see whole
\* datasets only, and nothing is deleted from the one they see.
ImplementsDataset == Announced!Spec
=============================================================================
