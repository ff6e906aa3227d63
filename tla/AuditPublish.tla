---------------------------- MODULE AuditPublish ----------------------------
(***************************************************************************)
(* How business audit and equality get into Hive, one day at a time.       *)
(*                                                                         *)
(* Four programs do it: the spark-submit step for the day of the export    *)
(* (process_audit and process_equality in generate_dataset_from_htme.py),  *)
(* and the two historical jobs for a range of days, each day on a thread   *)
(* of a pool. A day's objects are written to a location of their own, and  *)
(* then a script of Hive statements copies them, by way of external tables *)
(* named after the day, into managed tables all days share. What a run     *)
(* that failed leaves in S3 and Hive is what the next run for the same     *)
(* days starts from. The statements are those of the .sql files beside     *)
(* the tests.                                                              *)
(***************************************************************************)
EXTENDS Integers, Sequences, FiniteSets

CONSTANTS
  NDays,        \* the days are numbered 1 .. NDays
  NoFiles,      \* days without exported files
  Jobs,         \* which of the four programs may be the one that runs
  Existing,     \* managed tables there before the first run
  Workers,      \* threads of the ThreadPoolExecutor
  Environment,  \* which faults may happen, a subset of Faults
  MaxRuns       \* bound: runs for the same days

Days == 1 .. NDays

DailyJobs    == {"daily_audit", "daily_equality"}
AuditJobs    == {"daily_audit", "historical_audit"}
EqualityJobs == {"daily_equality", "historical_equality"}

External == {"auditlog_raw_external", "auditlog", "equality"}
Managed  == {"auditlog_raw", "auditlog_managed", "auditlog_sec_v",
             "auditlog_red_v", "equality_managed"}

\* process: reading, decrypting, writing or tagging a day's objects raises;
\* sql: a statement raises; stop: the cluster is stopped or lost.
Faults == {"process", "sql", "stop"}

ASSUME AuditAssumption ==
  /\ NDays \in Nat \ {0}
  /\ NoFiles \subseteq Days
  /\ Jobs \subseteq AuditJobs \cup EqualityJobs
  /\ Existing \subseteq Managed
  /\ Workers \in Nat \ {0}
  /\ Environment \subseteq Faults
  /\ MaxRuns \in Nat \ {0}

VARIABLES
  job,       \* the program
  days,      \* the days it is run for
  run,       \* number of the run
  step,      \* how the run stands
  task,      \* day -> where the thread processing it is
  at,        \* day -> the statement the thread executes next
  objects,   \* day -> the objects at its location in S3
  external,  \* external table -> day -> the table of that day
  tables,    \* the managed tables that exist
  rows,      \* managed table -> day -> the rows it has of that day
  faulted    \* history: whether a fault happened in this run

hiveVars == <<external, tables, rows>>
vars == <<job, days, run, step, task, at, objects, hiveVars, faulted>>

(***************************************************************************)
(* The scripts.                                                            *)
(***************************************************************************)
Create(t)       == [op |-> "create", table |-> t, from |-> t]
CreateAt(t)     == [op |-> "create_at", table |-> t, from |-> t]
AddPartition(t) == [op |-> "add_partition", table |-> t, from |-> t]
Drop(t)         == [op |-> "drop", table |-> t, from |-> t]
CreateIf(t)     == [op |-> "create_if", table |-> t, from |-> t]
InsertOverwrite(t, s) == [op |-> "overwrite", table |-> t, from |-> s]
InsertInto(t, s)      == [op |-> "append", table |-> t, from |-> s]

\* create_audit_log_raw_managed_table of both audit programs, after the managed
\* table: a day's table, its one partition, the copy, and the table is gone.
raw_statements ==
  <<Create("auditlog_raw_external"), AddPartition("auditlog_raw_external"),
    InsertOverwrite("auditlog_raw", "auditlog_raw_external"),
    Drop("auditlog_raw_external")>>

\* Mutant: the rows are added to those that are there.
managed_appended ==
  <<CreateIf("auditlog_managed"),
    Create("auditlog"), AddPartition("auditlog"),
    InsertInto("auditlog_managed", "auditlog"), Drop("auditlog")>>

\* auditlog_managed_table.sql and auditlog_external_table.sql.
managed_statements ==
  <<CreateIf("auditlog_managed"),
    Create("auditlog"), AddPartition("auditlog"),
    InsertOverwrite("auditlog_managed", "auditlog"), Drop("auditlog")>>

\* process_auditlog_sec_and_red_v: the partition of the day of each view is
\* filled from the managed table. (Adding it changes nothing tracked here.)
view_statements ==
  <<CreateIf("auditlog_sec_v"),
    InsertOverwrite("auditlog_sec_v", "auditlog_managed"),
    CreateIf("auditlog_red_v"),
    InsertOverwrite("auditlog_red_v", "auditlog_managed")>>

\* Mutant: the table of the day is not dropped first.
equality_not_dropped ==
  <<CreateAt("equality"),
    InsertInto("equality_managed", "equality"), Drop("equality")>>

\* equality_external_table.sql: the table of the day is read as it is created,
\* having no partitions, and so is the managed one, to which rows are added.
equality_statements ==
  <<Drop("equality"), CreateAt("equality"),
    InsertInto("equality_managed", "equality"), Drop("equality")>>

\* Only the daily audit drops the table of the day first and fills the views;
\* only the historical equality job creates the managed table.
Script(j) ==
  CASE j = "daily_audit" ->
         <<CreateIf("auditlog_raw"), Drop("auditlog_raw_external")>>
           \o raw_statements \o managed_statements \o view_statements
    [] j = "historical_audit" ->
         <<CreateIf("auditlog_raw")>> \o raw_statements \o managed_statements
    [] j = "daily_equality" -> equality_statements
    [] j = "historical_equality" ->
         <<CreateIf("equality_managed")>> \o equality_statements

\* The managed tables a program fills.
Targets(j) ==
  CASE j = "daily_audit"      -> Managed \ {"equality_managed"}
    [] j = "historical_audit" -> {"auditlog_raw", "auditlog_managed"}
    [] j \in EqualityJobs     -> {"equality_managed"}

(***************************************************************************)
(* The run.                                                                *)
(***************************************************************************)
AtRest == {"idle", "ok", "raised"}

\* The days from start_date to end_date; a range that ends before it starts is
\* empty. The daily programs have one day, and only run if it has files.
selected_dates(j) ==
  IF j \in DailyJobs THEN {{d} : d \in Days \ NoFiles}
                     ELSE {first .. last : first, last \in Days}

\* Mutant: only the days of the range have a place.
queue_of_range(ds) == [d \in ds |-> "queued"]

Queue(ds) == [d \in Days |-> IF d \in ds THEN "queued" ELSE "idle"]

Init ==
  /\ job \in Jobs
  /\ days \in selected_dates(job)
  /\ run = 1 /\ step = "RUNNING"
  /\ task = Queue(days)
  /\ at = [d \in Days |-> 1]
  /\ objects = [d \in Days |-> "none"]
  /\ external = [t \in External |-> [d \in Days |-> "none"]]
  /\ tables = Existing
  /\ rows = [t \in Managed |-> [d \in Days |-> "none"]]
  /\ faulted = FALSE

ThreadAt(d, place) == step = "RUNNING" /\ task[d] = place
GoTo(d, place)     == task' = [task EXCEPT ![d] = place]
SetObjects(d, what) == objects' = [objects EXCEPT ![d] = what]

\* An exception leaves the thread because of a fault of this kind.
Raises(d, fault) ==
  /\ fault \in Environment
  /\ GoTo(d, "raised")
  /\ faulted' = TRUE

Busy == {d \in Days : task[d] \notin AtRest \cup {"queued"}}

TakeDay(d) ==
  /\ ThreadAt(d, "queued")
  /\ Cardinality(Busy) < Workers
  /\ GoTo(d, "read")
  /\ UNCHANGED <<job, days, run, step, at, objects, hiveVars, faulted>>

\* The inputs are read, and what is at the day's location is deleted. The union
\* of no inputs raises.
ReadDay(d) ==
  /\ ThreadAt(d, "read")
  /\ \/ /\ d \notin NoFiles
        /\ SetObjects(d, "none") /\ GoTo(d, "persist")
        /\ UNCHANGED faulted
     \/ /\ d \in NoFiles
        /\ GoTo(d, "raised")
        /\ UNCHANGED <<objects, faulted>>
     \/ /\ Raises(d, "process")
        /\ \/ UNCHANGED objects
           \/ /\ objects[d] # "none"
              /\ \E what \in {"none", "partial"} : SetObjects(d, what)
  /\ UNCHANGED <<job, days, run, step, at, hiveVars>>

\* Mutant: a failed write is not noticed.
persist_quietly(d) ==
  /\ ThreadAt(d, "persist")
  /\ \E what \in {"partial", "full"} : SetObjects(d, what)
  /\ GoTo(d, "tag")
  /\ UNCHANGED <<job, days, run, step, at, hiveVars, faulted>>

persist_json(d) ==
  /\ ThreadAt(d, "persist")
  /\ \/ SetObjects(d, "full") /\ GoTo(d, "tag") /\ UNCHANGED faulted
     \/ /\ Raises(d, "process")
        /\ \E what \in {"none", "partial"} : SetObjects(d, what)
  /\ UNCHANGED <<job, days, run, step, at, hiveVars>>

tag_objects(d) ==
  /\ ThreadAt(d, "tag")
  /\ \/ GoTo(d, "sql") /\ at' = [at EXCEPT ![d] = 1] /\ UNCHANGED faulted
     \/ Raises(d, "process") /\ UNCHANGED at
  /\ UNCHANGED <<job, days, run, step, objects, hiveVars>>

(***************************************************************************)
(* Statements.                                                             *)
(***************************************************************************)
Statement(d) == Script(job)[at[d]]

\* What a table shows of a day: the objects at the location of an external
\* table, nothing before its partition is added, the rows of a managed one.
Shown(t, d) ==
  IF t \in Managed THEN rows[t][d]
  ELSE IF external[t][d] = "located" THEN objects[d] ELSE "none"

Exists(t, d) == IF t \in Managed THEN t \in tables ELSE external[t][d] # "none"

\* CREATE refuses a table that is there; the others, except DROP and CREATE IF
\* NOT EXISTS, need the tables they name.
Executable(q, d) ==
  CASE q.op \in {"create", "create_at"} -> ~Exists(q.table, d)
    [] q.op \in {"drop", "create_if"}   -> TRUE
    [] OTHER                            -> Exists(q.table, d) /\ Exists(q.from, d)

SetExternal(q, d, what) ==
  external' = [external EXCEPT ![q.table][d] = what] /\ UNCHANGED <<tables, rows>>

SetRows(q, d, what) ==
  rows' = [rows EXCEPT ![q.table][d] = what] /\ UNCHANGED <<external, tables>>

\* With dynamic partitions (configurations.yaml.tpl) an INSERT OVERWRITE replaces
\* the partitions it has rows for; the views name their partition.
Effect(q, d) ==
  LET shown == Shown(q.from, d)
      old   == rows[q.table][d] IN
  \/ q.op = "create" /\ SetExternal(q, d, "created")
  \/ q.op \in {"create_at", "add_partition"} /\ SetExternal(q, d, "located")
  \/ q.op = "drop" /\ SetExternal(q, d, "none")
  \/ /\ q.op = "create_if"
     /\ tables' = tables \cup {q.table} /\ UNCHANGED <<external, rows>>
  \/ q.op = "overwrite" /\ SetRows(q, d, IF shown = "none" THEN old ELSE shown)
  \/ q.op = "append" /\ SetRows(q, d, IF old = "none" THEN shown ELSE "twice")

\* What a statement that fails may have done: a table it was replacing the
\* partition of has lost it, nothing otherwise.
Undone(q, d) ==
  \/ UNCHANGED hiveVars
  \/ q.op = "overwrite" /\ Exists(q.table, d) /\ SetRows(q, d, "none")

\* spark.sql of the next statement; one that cannot be executed raises.
execute_queries(d) ==
  /\ ThreadAt(d, "sql")
  /\ at[d] <= Len(Script(job))
  /\ LET q == Statement(d) IN
     \/ /\ Executable(q, d) /\ Effect(q, d)
        /\ at' = [at EXCEPT ![d] = @ + 1]
        /\ UNCHANGED <<task, faulted>>
     \/ /\ ~Executable(q, d)
        /\ GoTo(d, "raised")
        /\ UNCHANGED <<at, hiveVars, faulted>>
     \/ /\ Raises(d, "sql") /\ Undone(q, d)
        /\ UNCHANGED at
  /\ UNCHANGED <<job, days, run, step, objects>>

FinishDay(d) ==
  /\ ThreadAt(d, "sql")
  /\ at[d] > Len(Script(job))
  /\ GoTo(d, "ok")
  /\ UNCHANGED <<job, days, run, step, at, objects, hiveVars, faulted>>

(***************************************************************************)
(* The end of a run, and the next.                                         *)
(***************************************************************************)

\* Mutants: the first exception ends the run; exceptions are not looked for.
pool_ends_at_first_error ==
  \/ \E d \in Days : task[d] = "raised"
  \/ \A d \in Days : task[d] \in AtRest
nothing_raised == TRUE

\* Leaving the "with" block waits for every thread.
PoolIsOver == \A d \in Days : task[d] \in AtRest

\* Reading the results raises the exception of a thread.
NoneRaised == \A d \in Days : task[d] # "raised"

CollectResults ==
  /\ step = "RUNNING"
  /\ PoolIsOver
  /\ step' = IF NoneRaised THEN "COMPLETED" ELSE "FAILED"
  /\ UNCHANGED <<job, days, run, task, at, objects, hiveVars, faulted>>

\* The cluster is stopped by an operator, or lost.
Stop ==
  /\ "stop" \in Environment
  /\ step = "RUNNING"
  /\ step' = "STOPPED" /\ faulted' = TRUE
  /\ UNCHANGED <<job, days, run, task, at, objects, hiveVars>>

\* The same program once more for the same days: the retry of a failed run, or
\* one an operator starts after a stop.
Relaunch ==
  /\ step \in {"FAILED", "STOPPED"}
  /\ run < MaxRuns
  /\ run' = run + 1 /\ step' = "RUNNING"
  /\ task' = Queue(days)
  /\ at' = [d \in Days |-> 1]
  /\ faulted' = FALSE
  /\ UNCHANGED <<job, days, objects, hiveVars>>

Thread(d) ==
  \/ TakeDay(d) \/ ReadDay(d) \/ persist_json(d) \/ tag_objects(d)
  \/ execute_queries(d) \/ FinishDay(d)

Next ==
  \/ CollectResults \/ Stop \/ Relaunch
  \/ \E d \in Days : Thread(d)

Spec == Init /\ [][Next]_vars

-----------------------------------------------------------------------------
(***************************************************************************)
(* Properties.                                                             *)
(***************************************************************************)
Contents == {"none", "partial", "full", "twice"}

TypeOK ==
  /\ job \in Jobs /\ days \subseteq Days
  /\ run \in 1 .. MaxRuns
  /\ step \in {"RUNNING", "COMPLETED", "FAILED", "STOPPED"}
  /\ task \in [Days -> AtRest \cup {"queued", "read", "persist", "tag", "sql"}]
  /\ at \in [Days -> Nat \ {0}]
  /\ objects \in [Days -> {"none", "partial", "full"}]
  /\ external \in [External -> [Days -> {"none", "created", "located"}]]
  /\ tables \subseteq Managed
  /\ rows \in [Managed -> [Days -> Contents]]
  /\ faulted \in BOOLEAN

\* Whatever fails and however often a day is repeated, no managed table ever
\* holds a part of a day.
NoPartOfADay == \A t \in Managed, d \in Days : rows[t][d] # "partial"

\* A run that succeeds has every day of its range in every table it fills, and
\* has left no table of a day behind, its own or an earlier run's.
SuccessIsPublished ==
  step = "COMPLETED" =>
    /\ \A t \in Targets(job), d \in days : rows[t][d] # "none"
    /\ \A t \in External, d \in Days : external[t][d] = "none"

\* A run that fails has come to an end with every day: each is published, or
\* its thread raised. One bad day costs no other day.
FailureIsContained ==
  step = "FAILED" =>
    \A d \in days : \/ task[d] = "raised"
                    \/ \A t \in Targets(job) : rows[t][d] # "none"

RowsOnceFor(jobs) ==
  job \in jobs => \A t \in Managed, d \in Days : rows[t][d] # "twice"

\* Repeating a day does not repeat its rows: the audit programs overwrite the
\* partition of the day.
AuditRowsOnce == RowsOnceFor(AuditJobs)

\* The same of the equality programs.
EqualityRowsOnce == RowsOnceFor(EqualityJobs)

RepeatableFor(jobs) ==
  job \in jobs /\ step = "FAILED" => faulted \/ days \cap NoFiles # {}

\* A run in which nothing goes wrong, and whose days have files, succeeds,
\* whatever the runs before it left in S3 and Hive: the equality programs drop
\* the table of the day before they create it.
EqualityIsRepeatable == RepeatableFor(EqualityJobs)

\* The same of the audit programs.
AuditIsRepeatable == RepeatableFor(AuditJobs)
=============================================================================
