# Verification of the analytical dataset generation (ADG)

TLA+ models of the programs in this repository, the TLC runs that check them
and the TLAPS proofs about them.

## The system and its parts

An EMR cluster is launched for a *correlation id*. It runs the steps of
`cluster_config/steps.yaml.tpl` in order; two background scripts, started by
`bootstrap_actions/emr-setup.sh`, watch the steps. When a cluster fails it is
launched again for the same correlation id.

| Part | State it keeps | Operations | What makes it correct |
| --- | --- | --- | --- |
| `update_dynamo.sh` | a row of `data_pipeline_metadata` (status, current step, run id, output prefix); the files in `/opt/emr`; its place in the step files | wait for the id files, read the old row, write `step_to_start_from.txt`, poll step files, update the row | the row tells the truth about the run, ends with a verdict, and names a step from which resuming is safe |
| resume check (`resume_step.sh`, `resume_step.py`) | `step_to_start_from.txt` | skip, or delete the file and run | only steps whose work was done are skipped |
| EMR steps (`courtesy-flush`, `equalities-managed`, `spark-submit`, `send_notification`, `flush-pushgateway`) | id files, the pushgateway, a Hive table, the dataset, the SNS message | one program each | each does its work once per chain of retries |
| `generate_dataset_from_htme.py` (the `spark-submit` step) | ADGStatus per collection, objects in S3, Hive tables, `output_location.txt`, `adg_params.csv`, the in-memory key map, metrics files | locate the prefix, select collections, process each on a thread, upload the CSV | a run that succeeds leaves a whole and published dataset, however many runs it took |
| data keys (`call_dks`, `keys_map`, `decrypt`) | key map shared by the threads | look up, call DKS with retries | the right key, and a failure that the run reports |
| audit and equality publishing | managed, raw and external tables, partitions | sequences of Hive statements | repeatable after a failure in the middle |
| historical audit and equality jobs | as above, for a list of dates | one pool per date | as above |
| `status_metrics.sh` | its place in the step files, the pushgateway | push 1..4 | the last value pushed is the outcome |
| launcher, relauncher (external), slack alerts | none here | launch again after a failure | — |
| bootstrap scripts, logging, Terraform, Concourse | configuration | — | — |

The parts interact through the row (read by the next cluster's script and by
`get_output_prefix`), through files of the master node (id files,
`step_to_start_from.txt`, `output_location.txt`), through EMR's step files, and
through the status table, S3 and Hive, which outlive the cluster.

What is hard here: the script and the steps run side by side and share files
without any lock; a cluster can end, or be lost, between any two steps of
either; table reads and writes can fail and mostly nobody looks at the result;
the next cluster acts on whatever was left. `PROJECT.json` lists each hazard at
its line.

## Modules

| Module | What it is |
| --- | --- |
| `AdgCluster` | cluster, steps, resume check and `update_dynamo.sh`, over a chain of launches |
| `ResumablePipeline` | what resuming promises, without clusters, files or timing |
| `AdgCluster_proofs` | theorems about `AdgCluster`, with the refinement |
| `ClusterVerdict_proofs` | theorems about the verdict `update_dynamo.sh` leaves in its row |
| `StatusMetrics` | `AdgCluster` with `status_metrics.sh` and the pushgateway |
| `StatusMetrics_proofs` | theorems about `StatusMetrics` |
| `RetriedDataset` | what the `spark-submit` step promises to the readers of `adg_params.csv`, over all its runs |
| `DatasetRun` | `generate_dataset_from_htme.py` over a chain of runs |
| `DatasetRun_proofs` | theorems about `DatasetRun`, with the refinement of `RetriedDataset` |
| `CollectionFiles` | inside one run: grouping of files, data keys, decryption, the shared metrics file |
| `CollectionFiles_proofs` | theorems about `CollectionFiles` |
| `ClusterDataset` | `AdgCluster` composed with `RetriedDataset` and with the message of `send_notification` |
| `ClusterDataset_proofs` | theorems about `ClusterDataset` |
| `AuditPublish` | audit and equality, published day by day by the daily and the two historical programs |
| `AuditPublish_proofs` | theorems about `AuditPublish` |
| `MC*`, `*.cfg` | instances for TLC: the step lists of the template, the settings of the environments, small sets of collections, files and days |

How they fit together: `DatasetRun` implements `RetriedDataset`, and
`ClusterDataset` puts `RetriedDataset` in the place of the `spark-submit` step of
`AdgCluster`, which itself implements `ResumablePipeline`. `StatusMetrics` adds
the second script to `AdgCluster`. `CollectionFiles` is what `DatasetRun` takes
for the two actions `ReadCollection` and `persist_json`. `AuditPublish` is the part
of the same step, and the two historical jobs, that deals with days.

Operators preceded by a comment starting with "Mutant" change a definition the
way a bug in the code would. No specification uses them; each was substituted for its
original to see that the property named in `PROJECT.json` then fails.

### AdgCluster

`table` is the metadata table, `stepState` what the step files say, `pc` where
the program of the running step is, `idFiles`, `resumeFile` and `outputFile`
the files in `/opt/emr`, and the variables with `m` the script: `mPc` is its
place (`wait`, `ids`, `get`, `start`, `poll`, `body` of the inner loop, `put`,
`exit`), `mAt` the step file it is in, `mPrev` PREVIOUS_STATE and
PREVIOUS_STEP. `done` and `skipped` record history for the properties. One action stands for one command with an effect others can see:
each id file, each look for `step_to_start_from.txt`, each read of a step file,
each call of DynamoDB. Reading a step file and sending the update that follows
from it are two actions (`ReadStepFile`, `PutItem`), because EMR moves on in
between.

`output prefix` is a time stamp in the code, and the number of the launch here.
The row is keyed by `ADG-full`, or by `ADG-` when the snapshot type was read
before it was written. Date, cluster id, TTL and the texts of messages are left
out. Launches follow one another; two clusters for one correlation id at the
same time are not modelled.

Constants give the environment: which positions are shell steps (their exit
status is that of a last logging command), which are switched off, which may
fail, which have `ActionOnFailure` CONTINUE, the name of the final step, and
`Environment`, the faults that may happen: `kill` (the master is lost), `get`
and `put` (a DynamoDB call fails), `swallow` (a command in a shell step fails
unnoticed), `deleterow` (the operator clears the row), and the three ways a step file
may be misread (`MisreadKinds`). The script reads the state and the name with separate
calls of `jq`, so that it may miss the state, the name, or both (`file`); `Misread` says what
it then has. The branch for errors is taken when either is empty, and gives up, in the end,
with FAILED and whatever name it read last, which may be that of a step that goes on well. A
turn that reads COMPLETED leaves the loop, also when it missed the name.

Two timing assumptions are explicit, and off by default. With `Lead = n` the
script has got through its start-up before step `n` starts: the first step
saves the ids and then runs for seconds, and the script sleeps at most 5
seconds. With `Attentive` no step ends between two polls. They are used only
where stated below.

### DatasetRun

The main thread goes through `locate`, `prepare`, `pool`, `csv`; `task` says
where the thread of each collection is. `status`, `objects` and `hive` outlive
a run, as does the row's prefix. `objects[p][c]` is the directory of collection
`c` under prefix `p`: none, partial, full, or empty (the placeholder an
incremental run makes for a collection without data). `persist_json` refuses a
directory that exists, as Hadoop's output format does. Prepare is one action,
because nothing else reads or writes what it touches before the pool starts.

The faults: `process` and `publish` (an Exception in either half of
`process_collection`), `dks` (`sys.exit` on a pool thread), `status` (a failing
`update_item`), `prepare`, `csv`, `stop` (the cluster ends in the middle), `get`
(`get_item` fails), `norecord` (the cluster ended before the script stored the
prefix), `clear` (the operator clears the row), `sns` (the topic refuses the message about a
failed collection, which the code only logs). When a task raises, whichever
exception it is, the process ends with an error; the model takes EMR to see the
step FAILED. `notified` records what became of this run's message about each collection.
A CREATE or DROP that raises is taken to have had no effect: Hive makes and drops
an external table in its metastore as a whole. A CREATE that took effect and then raised would leave a
collection with its table and the status `Failed_Publishing`, and its re-run drops the table first.

Collections outside the secret are filtered by `get_collections_in_secrets`, as
in the code. Business audit and equality, which have their own location and
tables, are not among the collections.

`ImplementsDataset` maps a run's output directories to `RetriedDataset`: the wanted
collections that lie in full under each prefix, and the prefix in
`adg_params.csv`.

### CollectionFiles

A file is its place in the listing, which is one of `Listings`. A group is the
neighbours of one collection that `groupby` puts together, named by its first
file; `task` says where the thread of each group is, `at` which file it reads. For each file the
thread looks `keys_map` up, calls DKS if the key is not there, stores the answer,
and binds the key to the file's closure (`bound`); only when all files of the group
have a closure does it delete and write, and only then are the files decrypted.
Reading the map, calling DKS, and storing the answer are three actions, because
other threads come in between. `content` is, per collection, which files were written and with which
key. A call of DKS is sent again at most `Retries` times; then, or when the
connection breaks, the thread ends by `sys.exit`; an answer without a key is a
`KeyError`.

`add_metric` reads the file of times, opens it anew (which empties it) and writes it:
three actions again. Of what another thread wrote since the file was opened
any part may remain. The main thread adds the total after the pool.

The two historical jobs read and decrypt the files of a day with the same
functions; the map cites those of the daily program.

### StatusMetrics

`sPc`, `sAt`, `sPrev` and `sProcessed` are to `status_metrics.sh` what the variables with
`m` are to `update_dynamo.sh`; `pushed` is its last value, `gateway` the metric and the
cluster it came from. The script waits for the third id file, pushes 1, and
polls; it leaves the inner loop only at COMPLETED, has no retry count for a file
it misreads (it goes on with an empty state or name, `ActOn`), and exits with its verdict (2, 3 or 4). `courtesy-flush` and
`flush-pushgateway` wipe the gateway, at any moment between two pushes.

Lost masters, cleared rows and what `update_dynamo.sh` misreads are left to
`AdgCluster`, and pushes that do not reach the gateway are left out.

### ClusterDataset

The state of `AdgCluster` with `whole` and `announced` of `RetriedDataset` and
`messages`, the prefixes `send_notification` has sent. While `spark-submit` runs, collections
come and go under the prefix it saved to `output_location.txt`
(`WorkOnDataset`); its end announces that prefix (`FinishDataset`).
`send_notification` puts the prefix of `adg_params.csv` into its message, and
never looks at the row, which gets its prefix from `output_location.txt` by way of the
script. That the two agree after retries that skip some of the steps is what the
module is about.

A cluster that is lost or stopped while `spark-submit` processes collections is left
out here, because `DatasetRun` does not keep the promise of `RetriedDataset` then
(see below), and so are misread step files and cleared rows.

### AuditPublish

One program (`job`) is run for a range of days, and run again when it failed or
was stopped. `task` says where the thread of each day is and `at` which
statement it executes next. `objects` is what lies at the day's location,
`external` the tables named after a day (none; created, but without the
partition of the day; located), `tables` the managed tables that exist and
`rows` what each holds of each day: none, a part, all of it, or all of it twice.

A program is a sequence of statements, `Script(job)`, and `execute_queries` runs
the next one: it raises when a table is there that it creates, or is not there
that it needs. The two audit programs differ in one statement, the first DROP of
the day's raw table, and in the two views. The daily programs are the parts of
`DatasetRun`'s step that deal with `data/businessAudit` and `data/equality`; the
statuses of those two collections are not modelled again.

The SQL that production uses is downloaded from another repository to `/var/ci`;
the model has the files beside the tests, and the statements written in the
Python programs. `INSERT OVERWRITE` is taken to replace only partitions it has
rows for, as Hive does with the dynamic partitions the cluster's configuration
allows; if it replaced the whole table, every day would erase the others.

The faults: `process` (reading, a data key, decryption, writing or tagging of a
day raises), `sql` (a statement raises, and one that was overwriting a partition
may have lost it), `stop`. A day without files always raises in the historical
jobs: Spark refuses the union of no inputs.

## Runs

Runs that pass:

- `cluster_retry` — `ClusterDataset` with production's settings: `courtesy-flush`,
  `spark-submit`, `send_notification` and `flush-pushgateway`, three launches, a
  `spark-submit` that may fail, a last step that may be stopped, lost masters, a
  script that may be late or cut off, `Lead = 2`. No step is skipped that was not
  done, and the cluster implements `ResumablePipeline`. A COMPLETED row names
  the prefix of a whole dataset, the same that `adg_params.csv` names and that was
  sent; what was sent once stays whole whatever later launches do; and
  `send_notification` always finds the file it reads.
- `cluster_script` — nothing is assumed about timing (`Lead = 0`), failed steps do
  not end the cluster (development's `ActionOnFailure`), masters and updates are
  lost, the state or the name of a step is misread and rows are cleared: the
  verdict of a run is never overwritten by that run, a row turns FAILED
  for a step that failed or stopped, or, when the script gives up on a file, with
  that file's step or the one the row had and never a third, the run
  id counts launches, and the output prefix stays.
- `cluster_live` — all five steps and both scripts, reads of the table fail, shell
  commands other than those at the gateway fail unnoticed, files are misread by
  `status_metrics.sh`, `Attentive`. Every ended cluster has its verdict in the row and
  has pushed one; the two agree, except that a failure after `spark-submit` is in the
  row only; a cluster whose last step got to its end leaves nothing at the gateway;
  the metric says completed only when `spark-submit` did; and the retries come to an
  end.
- `dataset_retry` — an incremental run with two exported collections and one
  without data, two threads, four runs: failing collections and uploads, messages
  the topic refuses, prefixes that go unrecorded or are cleared. A run that succeeds has published everything,
  one that fails leaves no collection in the middle,
  what had succeeded is not touched again, and the runs implement `RetriedDataset`.
- `files_keys` — five files on two threads, four of which share a data key and all
  a key encryption key, in two listings: neighbours of two collections, and a
  collection in two places with one outside the secret in between; two retries; every
  fault. Each file is decrypted with its own key, no file is left out of a run that
  succeeds, a key is asked of DKS at most once per thread, the total time is not
  overwritten, and the run ends whatever DKS answers.
- `dataset_faults` — a full run of two collections under every fault but an
  unrecorded prefix: tables read whole data, and all runs end. A run that leaves a
  collection failed has failed and has sent its message, unless the topic refused it; or the
  status is that of an earlier run, and this one ended when it could not write its own.
- `publish_retry` — all four programs over every range of three days, one of them
  without files, on two threads, three runs and all faults. No managed table ever
  holds a part of a day; a run that succeeds has published every day and left no
  table of a day behind; one that fails has come to an end with every day; audit
  rows are never doubled; an equality run is not made to fail by what an earlier
  one left.

Runs in which a statement of the README is violated by what the code does (the
quotation and the code line are in `PROJECT.json`, "findings"):

- `cluster_notify_retry` — `send_notification` looks for the name `submit-job`, so
  its own retry skips it and the row becomes COMPLETED.
- `cluster_qa_verdict` — where notifications are off, the final step is looked
  for under a name the script never derives.
- `dataset_dks` — a re-run that finds a prefix processes only collections whose
  status begins with `Failed`; DKS giving up ends a pool thread by `sys.exit`, which
  leaves `Processing`, and the re-run succeeds without the collection.
- `publish_twice` — `equality_managed` is filled by `INSERT INTO`; one day of a
  range fails, the range is run again, and the other days are there twice.
- `publish_leftover` — the historical audit job does not drop the raw table of the
  day before it creates it, so after one failed statement every later run fails.

The models contain more departures of this kind, which the instances reach
when one constant changes. A script that misses only the name in the read that finds
COMPLETED has left the file for good: after the final step its row stays IN_PROGRESS
(`name` in the `Environment` of an instance with `Attentive` and `MaxParse = 1` violates `EndedClusterHasVerdict`), and
likewise `status_metrics.sh` never pushes (`name` in the `Misreads` of `cluster_live` violates
`EndedClusterIsReported`). A script that gives up on a file it has misread turns the row to FAILED
with the name of a step that has not failed, or with an older one. `step_to_start_from.txt`, when it is made after its
step has looked for it, makes later steps skip themselves (`Lead = 0` in
`cluster_retry` violates `SkippedStepsWereDone`). The script starts when one id file exists, not all
four, and then works on the row `ADG-` (every `cluster_*` run reaches this). A
shell step whose command failed counts as done (`swallow` in the `Environment` of
`cluster_retry` violates `CompletedIsComplete`). A re-run after the cluster was
stopped, or after a failure between the save of the prefix and the pool, succeeds
without the collections that have not failed (`stop` or `prepare` in the
`Environment` of `dataset_retry` violate `CsvNamesWholeDataset`). The metric
stays at completed when `send_notification` fails afterwards, as `VerdictsAgree` allows: the README's
"loops for the lifecycle of the cluster" is true of the row's script only, since
`status_metrics.sh` exits with `spark-submit`. And a collection whose files are not
neighbours in the listing makes two groups: in a first run the second writer
finds the directory and fails the run, in a re-run it may delete what the first
wrote, which `NothingLeftOut` therefore excludes.

### Bounds

Three launches are the least that show a retry of a retry: the second cluster
resumes from what the first left, the third from a row two clusters wrote. In
`cluster_script` the properties are about what one script does to a row some
other left, for which two launches are enough; one step that may fail or be stopped
is enough, since a script that gives up on a file makes verdicts in the middle, too; and a file misread as a
whole, which is both reads missed at once, is left to the proofs. In `cluster_live` a second script
multiplies the states, and its properties are about one cluster and the gateway an
earlier one left; one step that may be stopped, before `spark-submit`, and two that may fail are
enough for verdicts of both kinds, before and after the success metric, and its files are misread as a
whole. The step lists are the template's,
in smaller instances without steps that behave like one that is kept. In
`cluster_retry` there is one wanted collection: a prefix is whole or it is not. `MaxParse`
is 10 in the script and 0 or 1 here: the counter only delays the same outcome.
In `publish_retry` three days are enough for one to fail or be empty, one to be in
the middle and one to wait for a thread; a third run starts from what two left.
In `dataset_retry` two collections on two threads let one fail while the other is in the middle, and
four runs let a retry of a retry fail again; a third collection that waits for a
thread is in `dataset_dks`, and the proofs are about any number. The two are interchangeable, and
`dataset_retry`, which has no liveness property, uses that symmetry. Five files
are the least with two groups, a file that is neither first nor last of its group,
a key two threads ask for at the same time, and a collection in two groups. `Retries`
is 10 in the code and 2 here: a count with a first, a middle and a last value. Deadlock
checking is off because a chain of launches really ends, at `MaxRuns`.

### Fairness

`FairSpec` of `AdgCluster` has weak fairness of the steps, of EMR, of the script
and of the relauncher while launches are left: each is a process that the
operating system or AWS keeps running while it can act. No fault is ever
forced. `StatusFairSpec` has the same and `status_metrics.sh`, a process of its own;
a file it misreads is not misread for ever. Two actions have strong fairness there. A script that
misreads the files of steps that are over goes back and forth over them, so that being inside such a file
comes and goes: its loop visits every file in turn, so it does not for ever pass over one whose
step goes on (`OpenOngoing`), and EMR, which does not wait for the script, ends the cluster (`ClusterOver`; that it may only
do so at certain moments is the timing assumption's doing). `FairSpec` of `DatasetRun` has weak fairness
of the main thread, of each pool thread and of the next launch. `FairSpec` of
`CollectionFiles` has that of each thread, which includes that a request to DKS is answered
or refused some time: the code sets no timeout on it, so that a DKS that never
answers holds the run for ever.

## Proofs

`AdgCluster_proofs` proves for every list of steps, environment and bound:

- `TypeCorrect`: the type invariant.
- `ResumeInvariantHolds`, with `SkippingIsSafe` and `CompletedIsTrue` as
  consequences. `SkippedStepsWereDone` is not inductive: a step skips because of
  a file, which came from a row, which came from an update an earlier script had
  decided on. `ResumeInvariant` follows the name along that way: the row, the file and the pending
  update only ever name a step with nothing undone before it, the file exists
  only while that step has not looked for it, and the steps are in order.
- `SafeDeploymentImplementsPipeline`: each step of the cluster is a step of
  `ResumablePipeline` or leaves it alone. The mapping takes the first step that
  is not over for the place of the pass.

These three assume `ResumeSafe`, a condition on the constants: every step
that may fail or be stopped comes after the script's start-up (`Lead`) and looks
for the name the script records, failed steps end the cluster, and no write is
lost, misread or hushed up. The violation runs show what happens without some of
these parts.

- `FailuresAreAttributed`, in every environment: a row turns FAILED for a step that did, and
  names it; or the script has given up on a file, and the row names that file's step or
  keeps the name it had. What makes it so is `PutIsAttributed`: from the moment the script has
  read FAILED or CANCELLED, the step stays so until the update is sent, and an update decided without such
  a read has a file read `MaxParse` times in vain behind it.
- `VerdictsStand`, `RunIdsCount`, `OutputPrefixStays`, whenever the table can be
  read (`ReadsSucceed`): updates may be lost and files misread. They rest on
  `RowInvariant`, which relates the run id and prefix the script has in memory to those of
  the row from the moment it read it. A read that fails looks like a missing row, and
  the script then starts counting again.

- `RetriesDoNotRepeat`, in every deployment: while `step_to_start_from.txt` is there, no step after the
  start of the script has got past its look for the file, except to skip itself. The file
  is made while all of them wait and only the step it names deletes it.
- `PipelineKeepsItsPromise` is about `ResumablePipeline` itself, and says what implementing it is worth:
  all steps before the one at hand are settled, and all up to the final one once completion has been
  reported.

`ClusterVerdict_proofs` proves `EndedClustersHaveVerdicts` under `VerdictSafe`: the script keeps up
with EMR (`Attentive`), its updates arrive and no row is cleared (`Followed`), no master is lost,
and the final step comes after the script's start-up (`Awaits`). Nothing is assumed of which steps
fail, of reads of the table or of files of which the state, or state and name, are misread; a misread name
alone (`name`) is excluded, since TLC finds the verdict lost with it. `VerdictInvariant` says that a
step that has stopped, and the final step when it has completed, has the script in the loop
on its file or already decided (`Judges`), and that the verdict decided or written is
right: COMPLETED for a final step with no stopped step before it that the script was there for,
FAILED for a step that stopped, or a file it gave up on. Each part of `VerdictSafe` is needed:
`cluster_qa_verdict` violates the property where no step has the name of the final one,
and without `Attentive` a step may end between two polls.

`StatusMetrics_proofs` proves for every list of steps and every environment that
the cluster with the second script behaves as one of `AdgCluster`
(`ScriptDoesNotInterfere`), so that all of the above holds of it, and the type invariant; and, under
`ResumeSafe`, that the metric of success is true (`SuccessMetricIsTrue`). Further, where a name is never all
that is misread (`NamesAreRead`; the violation with `name` is above):

- `EndedClustersAreReported`, when the script keeps up and its final step is one of the cluster.
  `MetricInvariant` says that a state that calls for a verdict is attended to, that the value pushed is
  the verdict on the first step that called for one, and that after a push the gateway
  holds that value of this cluster or nothing.
- `ScriptsAgree`, under `AgreeSafe`: both scripts keep up, success is marked at `spark-submit`, which
  is not after the final step, and `update_dynamo.sh` is there (`Awaits`) for each step that
  may stop. It relates the two inductive invariants: the first step that called for a push and the
  step the row judges are the same, or the second comes after `spark-submit`.
- `GatewayStaysClean`, under `CleanSafe`: the last step wipes the gateway, and neither it nor the step before
  it marks success, and the step before it ends the cluster when it fails or comes after the one that does.
  Without the last condition a push may follow the wipe (TLC finds it when
  `MetricStep` is the name of the step before `flush-pushgateway`). `GatewayInvariant` bounds where the
  script can be once the last step but one is over.

`ClusterDataset_proofs` proves that the composition behaves as a cluster of
`AdgCluster` (`DeliveryIsACluster`), and under `DeliverySafe`, which is `ResumeSafe` and that reads of
the table succeed, the four properties of `cluster_retry` that relate row, file,
message and dataset. None of them is inductive. `DeliveryInvariant` follows a prefix along
all the ways it takes (`output_location.txt`, the row, `adg_params.csv`, the
message) and says of a row, for every step a launch may resume from because of it,
that the steps before have left what they should under the prefix it names. The
hard part is that nothing is deleted there afterwards (`Untouched`): the only prefixes a
`spark-submit` works under are that of its own file and that of the row it
resumes from, and when the row has got past `spark-submit` a retry skips it.

Three more theorems close the composition. `DeliveryIsAPipeline`: it is a resumable pipeline,
under `ResumeSafe`. `DeliveryImplementsDataset`: whatever the deployment and
whatever fails, what it does to the datasets is what `RetriedDataset` allows, since only `spark-submit` touches
them, under the prefix of a launch. `AnnouncedStaysWhole`: in `RetriedDataset` the prefix
announced is whole, then and until the next is announced. `SafeRunsImplementDataset` below says that the
job itself implements the same specification, so what the cluster assumes of its job is what the job does.

`DatasetRun_proofs` proves for every set of collections, number of threads and
number of runs:

- `TypeCorrect`.
- `RetryInvariantHolds`, with `CsvIsTrue`, `SuccessIsTrue` and `TablesAreWhole`.
  `RetryInvariant` says what a run may rely on: under the prefix of the row each
  wanted collection is published, or has failed and is not what its table reads;
  and it says for every place of a thread how far its collection has come. Under
  `RetrySafe` a run always leaves such a state.
- `SafeRunsImplementDataset`: under `RetrySafe` the runs implement `RetriedDataset`.
  A retry deletes only directories of collections that had failed, and none had
  when the prefix was announced.
- `FailuresAreSent`, in every environment: a step that leaves one of its collections failed has failed
  too and has sent the message, unless the topic refused it, or a status of an earlier run
  could not be replaced (`status` among the faults). A refused message never hides the failure. The
  invariant, `FailuresInHand`, says that a thread at work has replaced the status it found, and that one that
  has written a failure goes by the topic before it is over.
- `NoneIsLeftBetween`, under `RetrySafe`: no collection is left in the middle.
- `RunsAreBounded` and `RunsAreNotStuck`, in every environment: the safety half of `RunsEnd`. A run
  has a bounded number of steps ahead (`StepsLeft` counts those of the main thread and,
  as the pairs of a finite set, those of the threads), each step leaves it fewer, and as long as the run
  goes on the main thread or a thread it waits for can go on. Added to that,
  `RunsEnd` needs only that someone who can go on does.
- `SuccessIsLeftAlone`, in every environment: a re-run does not touch what had
  succeeded (`CompletedIsNotRepeated`). Its invariant is that the threads of a
  re-run are at work only on collections that had failed.

`RetrySafe` excludes `dks`, `stop` and `prepare`, whose effect is described above,
a failing `update_item`, and the combination of a failed read with an unrecorded prefix. All but the last are in
`dataset_faults`, whose three properties hold under them.

`CollectionFiles_proofs` proves for every listing, number of threads and retries, and
all faults, `TypeCorrect`, `FilesInvariantHolds` and from it `KeysAreNotMixed`, `NoFileIsLeftOut`,
`DksIsNotFlooded` and `TotalTimeIsKept`. The invariant follows a key
from the answer through the map to the closure, says that a group that is
written has its collection for itself, and counts the calls: as long as a key
is not in the map, every file it was asked for is in the hands of a thread that is
at work, of which there are at most `Workers`. `RunsAreBounded` and
`RunsAreNotStuck` are the safety half of `RunEnds`: the measure counts the files of a group that
are to be bound and the retries left of the call at hand, so it is the limit of
retries that keeps a busy DKS from holding a run.

`AuditPublish_proofs` proves for every number of days and threads, every choice of
programs and all faults:

- `TypeCorrect`.
- `RowsInvariantHolds`, with `DaysAreWhole` and `AuditRepeatsAreHarmless`. That no
  table holds a part of a day rests on the order of a thread's work: its script
  starts when the day's objects are written and tagged, so what a statement copies
  is whole (or nothing); and the objects of a day change only before the script
  starts. `RowsInvariant` adds that to what the tables hold. That rows are not
  doubled rests on the scripts: no audit script has an `INSERT INTO`
  (`AuditScripts`).
- `ProgressHolds`, with `SuccessIsTrue` and `FailuresAreContained`.
  `ProgressInvariant` says what is still there of each statement a thread has
  executed (`Stands`). That a table is filled with data, and that none of the day's
  tables is left, follows from the order of statements, which is stated of any script
  (`FilledInOrder`, `EndsClean`) and shown of each of the four.
- `EqualityRepeats`, where `equality_managed` exists or the daily program is not
  run (`TableIsThere`): no statement of an equality script finds a table it must not
  find or misses one (`NeverRefused`). Of the audit scripts this is not true, which
  is what `publish_leftover` shows.
- `RunsAreBounded` and `RunsAreNotStuck`: as in `DatasetRun_proofs`, with the statements of a script
  for the steps of a thread. Days that share managed tables do not wait for each other.

Only model-checked: liveness (`EventuallySettled`, `RunsEnd`, `RunEnds`), which is out
of the prover's reach; of the last two what is left is the step from fairness to
the end. Every other property of the passing runs is proved.

## Not modelled

- Two clusters of one correlation id, or two correlation ids, at the same time. What is
  shared then is the row, the status table and the fixed key of `adg_params.csv`. Whether it can happen
  is decided by the launcher Lambda, in another repository.
- In `ClusterDataset`, a row under the short key `ADG-` and the message of the same
  cluster may name different prefixes; only that the row's dataset is whole is
  claimed of it.
- `tag_objects` sees the first thousand objects of a directory only (`list_objects`
  returns a page); tags are not read by any program here. Files of one name in two
  directories of the export are not told apart by the code; an export in one
  directory has none.
- The two metrics files of sizes, which are written the same way as that of times
  and have no total; the time to live of the row (`get_ttl`).
- Node set-up, Terraform and the Concourse jobs, which are straight-line
  installation or declarations: those that set the behaviour of the programs are
  constants of the runs. The wording of logs and messages.
- Spark, Hadoop, Hive, EMR, DynamoDB and DKS beyond what the programs see of them; the
  launcher, relauncher and alert Lambdas.
