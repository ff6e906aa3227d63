------------------------- MODULE DatasetRun_proofs --------------------------
(***************************************************************************)
(* Proofs about DatasetRun: the type invariant, and that in safe           *)
(* environments the retries of the spark-submit step, however many and     *)
(* wherever they fail, end in a whole and published dataset.               *)
(***************************************************************************)
EXTENDS DatasetRun, FiniteSetTheorems, TLAPS

\* The type invariant for every set of collections and every environment.
THEOREM TypeCorrect == Spec => []TypeOK
<1>1. Init => TypeOK
  <2> SUFFICES ASSUME Init PROVE TypeOK
    OBVIOUS
  <2>. USE DatasetAssumption DEF Init
  <2>1. task \in [Collections -> Places] /\ status \in [Collections -> Statuses]
    BY DEF Places, Statuses, NoStatus
  <2>2. hive \in [Collections -> 0 .. MaxRuns]
    OBVIOUS
  <2>3. objects \in [Prefixes -> [Collections -> {"none", "partial", "empty", "full"}]]
    OBVIOUS
  <2>4. existing \in BOOLEAN
    BY Zenon
  <2>5. QED
    BY <2>1, <2>2, <2>3, <2>4 DEF TypeOK
<1>2. TypeOK /\ [Next]_vars => TypeOK'
  <2> SUFFICES ASSUME TypeOK, [Next]_vars PROVE TypeOK'
    OBVIOUS
  <2>. USE DatasetAssumption DEF TypeOK, MainAt, EndStep, Prefixes
  <2>1. CASE LocateOutput
    <3>1. output' \in Prefixes
      BY <2>1 DEF LocateOutput, get_output_prefix
    <3>2. existing' \in BOOLEAN
      BY <2>1, Zenon DEF LocateOutput, get_output_prefix
    <3>3. QED
      BY <2>1, <3>1, <3>2 DEF LocateOutput, storeVars
  <2>2. ASSUME NEW names \in SUBSET Secrets, mainPc = "prepare"
        PROVE  populate_empty_prefixes(names) \in
                 [Prefixes -> [Collections -> {"none", "partial", "empty", "full"}]]
    BY <2>2 DEF populate_empty_prefixes
  <2>3. get_collections \subseteq Secrets
    BY DEF get_collections
  <2>4. CASE Prepare
    BY <2>2, <2>3, <2>4 DEF Prepare, Places
  <2>5. CASE PrepareFails
    BY <2>2, <2>3, <2>5 DEF PrepareFails
  <2>6. CASE CollectResults
    BY <2>6 DEF CollectResults, storeVars
  <2>7. CASE create_adg_status_csv
    BY <2>7 DEF create_adg_status_csv, storeVars
  <2>8. CASE UploadFails \/ Stop
    BY <2>8 DEF UploadFails, Stop, storeVars
  <2>9. CASE Relaunch
    <3>1. RowAfterRun \subseteq 0 .. MaxRuns
      BY DEF RowAfterRun
    <3>2. rowPrefix' \in 0 .. MaxRuns /\ run' \in 1 .. MaxRuns
      BY <2>9, <3>1 DEF Relaunch
    <3>3. existing' \in BOOLEAN
      BY <2>9, Zenon DEF Relaunch
    <3>4. QED
      BY <2>9, <3>2, <3>3 DEF Relaunch, storeVars, Places
  <2>10. ASSUME NEW c \in Collections, Thread(c) PROVE TypeOK'
    <3>. USE DEF mainVars, storeVars, ThreadAt, GoTo, Places
    <3>1. CASE TakeCollection(c) \/ StartPublishing(c) \/ CompleteCollection(c)
      BY <3>1 DEF TakeCollection, StartPublishing, CompleteCollection,
                  update_adg_status, Statuses, Between
    <3>2. CASE MarkFailed(c)
      BY <3>2 DEF MarkFailed, update_adg_status, Statuses, Failing
    <3>3. ASSUME NEW what \in {"none", "partial", "empty", "full"},
                 output \in Prefixes, SetObjects(c, what)
          PROVE  objects' \in
                   [Prefixes -> [Collections -> {"none", "partial", "empty", "full"}]]
      BY <3>3 DEF SetObjects
    <3>4. CASE ReadCollection(c)
      BY <3>3, <3>4 DEF ReadCollection, delete_existing_s3_files
    <3>5. CASE persist_json(c)
      BY <3>3, <3>5 DEF persist_json
    <3>6. CASE TagObjects(c)
      BY <3>6 DEF TagObjects
    <3>7. CASE DropTable(c) \/ CreateTable(c)
      <4>1. hive' \in [Collections -> 0 .. MaxRuns]
        BY <3>7 DEF DropTable, CreateTable
      <4>2. task' \in [Collections -> Places] /\ UNCHANGED <<mainVars, status, objects>>
            /\ UNCHANGED <<notified, csv>>
        BY <3>7 DEF DropTable, CreateTable
      <4>3. QED
        BY <4>1, <4>2
    <3>8. CASE notify_of_collection_failure(c)
      BY <3>8 DEF notify_of_collection_failure
    <3>9. QED
      BY <2>10, <3>1, <3>2, <3>4, <3>5, <3>6, <3>7, <3>8 DEF Thread
  <2>11. CASE UNCHANGED vars
    BY <2>11 DEF vars, mainVars, storeVars
  <2>12. QED
    BY <2>1, <2>4, <2>5, <2>6, <2>7, <2>8, <2>9, <2>10, <2>11 DEF Next, Main
<1>3. QED
  BY <1>1, <1>2, PTL DEF Spec
-----------------------------------------------------------------------------
(***************************************************************************)
(* The steps of the threads. Each touches its own collection, under the    *)
(* output prefix of the run, and leaves it in the place it claims.         *)
(***************************************************************************)

Kinds == {"none", "partial", "empty", "full"}

\* What no step of the thread of c touches.
OthersKept(c) ==
  /\ \A d \in Collections \ {c} :
       /\ task'[d] = task[d] /\ status'[d] = status[d] /\ hive'[d] = hive[d]
       /\ \A p \in Prefixes : objects'[p][d] = objects[p][d]
  /\ \A p \in Prefixes \ {output} : objects'[p] = objects[p]
  /\ hive'[c] \in {hive[c], 0, output}
  /\ UNCHANGED <<mainVars, csv>>

LEMMA ThreadFrame ==
  ASSUME TypeOK, NEW c \in Collections, Thread(c)
  PROVE  OthersKept(c)
<1>1. /\ hive \in [Collections -> 0 .. MaxRuns] /\ task \in [Collections -> Places]
      /\ status \in [Collections -> Statuses]
      /\ objects \in [Prefixes -> [Collections -> Kinds]]
  BY DEF TypeOK, Kinds
<1>2. /\ task' = [task EXCEPT ![c] = task'[c]]
      /\ status' = [status EXCEPT ![c] = status'[c]]
      /\ UNCHANGED <<mainVars, csv>>
  BY <1>1
     DEF Thread, TakeCollection, ReadCollection, persist_json, TagObjects,
         StartPublishing, DropTable, CreateTable, CompleteCollection, MarkFailed,
         notify_of_collection_failure, update_adg_status, GoTo, storeVars
<1>3. hive' = [hive EXCEPT ![c] = hive'[c]] /\ hive'[c] \in {hive[c], 0, output}
  BY <1>1
     DEF Thread, TakeCollection, ReadCollection, persist_json, TagObjects,
         StartPublishing, DropTable, CreateTable, CompleteCollection, MarkFailed,
         notify_of_collection_failure, storeVars
<1>4. \/ UNCHANGED objects
      \/ \E what \in Kinds : objects' = [objects EXCEPT ![output][c] = what]
  BY DEF Thread, TakeCollection, ReadCollection, persist_json, TagObjects,
         StartPublishing, DropTable, CreateTable, CompleteCollection, MarkFailed,
         notify_of_collection_failure, storeVars, SetObjects,
         delete_existing_s3_files, Kinds
<1>5. /\ \A p \in Prefixes \ {output} : objects'[p] = objects[p]
      /\ \A d \in Collections \ {c}, p \in Prefixes : objects'[p][d] = objects[p][d]
  BY <1>1, <1>4
<1>6. QED
  BY <1>1, <1>2, <1>3, <1>5 DEF OthersKept

LEMMA ThreadWorksOnWanted ==
  ASSUME PoolIsRight, NEW c \in Collections, Thread(c)
  PROVE  c \in Wanted /\ step = "RUNNING" /\ mainPc = "pool" /\ task[c] \notin AtRest
BY DEF PoolIsRight, Thread, TakeCollection, ReadCollection, persist_json, TagObjects,
       StartPublishing, DropTable, CreateTable, CompleteCollection, MarkFailed,
       notify_of_collection_failure, ThreadAt, MainAt, AtRest, Failing

\* In a safe environment the thread leaves its collection where it says.
LEMMA ThreadPlace ==
  ASSUME TypeOK, RetrySafe, NEW c \in Wanted, PlaceIsRight(c), Thread(c)
  PROVE  PlaceIsRight(c)'
<1>. /\ hive \in [Collections -> 0 .. MaxRuns] /\ task \in [Collections -> Places]
     /\ status \in [Collections -> Statuses]
     /\ objects \in [Prefixes -> [Collections -> Kinds]] /\ c \in Collections
  BY DEF TypeOK, Kinds, Wanted, Collections
<1>. mainPc = "pool" /\ output \in Prefixes /\ output # 0 /\ UNCHANGED output
  BY DEF Thread, TakeCollection, ReadCollection, persist_json, TagObjects,
         StartPublishing, DropTable, CreateTable, CompleteCollection, MarkFailed,
         notify_of_collection_failure, ThreadAt, MainAt, TypeOK, Prefixes, mainVars
<1>. USE DEF ThreadAt, GoTo, storeVars, PlaceIsRight, Failing
<1>1. "status" \notin Environment /\ "dks" \notin Environment
  BY DEF RetrySafe
<1>2. CASE TakeCollection(c)
  BY <1>1, <1>2 DEF TakeCollection, update_adg_status
<1>3. CASE ReadCollection(c)
  BY <1>1, <1>3 DEF ReadCollection
<1>4. CASE persist_json(c)
  BY <1>4 DEF persist_json, SetObjects
<1>5. CASE TagObjects(c)
  BY <1>5 DEF TagObjects
<1>6. CASE StartPublishing(c)
  BY <1>1, <1>6 DEF StartPublishing, update_adg_status
<1>7. CASE DropTable(c)
  BY <1>7 DEF DropTable
<1>8. CASE CreateTable(c)
  BY <1>8 DEF CreateTable
<1>9. CASE CompleteCollection(c)
  BY <1>1, <1>9 DEF CompleteCollection, update_adg_status, Published
<1>10. CASE MarkFailed(c)
  BY <1>1, <1>10 DEF MarkFailed, update_adg_status
<1>11. CASE notify_of_collection_failure(c)
  BY <1>11 DEF notify_of_collection_failure
<1>12. QED
  BY <1>2, <1>3, <1>4, <1>5, <1>6, <1>7, <1>8, <1>9, <1>10, <1>11 DEF Thread

LEMMA ThreadKeepsInvariant ==
  ASSUME TypeOK, RetrySafe, RetryInvariant, NEW c \in Collections, Thread(c)
  PROVE  RetryInvariant'
<1>. /\ PrefixesInTime /\ RowIsResumable /\ RunIsResumable /\ PoolIsRight
     /\ CsvIsSafe /\ TablesReadWholeData
  BY DEF RetryInvariant
<1>. /\ hive \in [Collections -> 0 .. MaxRuns] /\ task \in [Collections -> Places]
     /\ objects \in [Prefixes -> [Collections -> Kinds]]
     /\ run \in Prefixes /\ csv \in 0 .. MaxRuns /\ MaxRuns \in Nat
  BY DatasetAssumption DEF TypeOK, Kinds, Prefixes
<1>1. /\ c \in Wanted /\ step = "RUNNING" /\ mainPc = "pool"
      /\ task[c] \notin AtRest
  BY ThreadWorksOnWanted
<1>2. OthersKept(c)
  BY ThreadFrame
<1>3. UNCHANGED <<run, step, mainPc, rowPrefix, output, existing, selected, csv>>
  BY <1>2 DEF OthersKept, mainVars
<1>4. output \in Prefixes
  BY <1>1 DEF TypeOK
<1>5. PlaceIsRight(c) /\ PlaceIsRight(c)'
  BY <1>1, ThreadPlace DEF PoolIsRight
<1>6. csv # 0 => csv # output
  BY <1>1, <1>2 DEF CsvIsSafe, AtRest
<1>7. PrefixesInTime'
  <2>1. hive'[c] <= run
    BY <1>2 DEF OthersKept, PrefixesInTime, Prefixes
  <2>2. \A p \in Prefixes : p > run => objects'[p] = objects[p]
    BY <1>2, <1>4 DEF OthersKept, PrefixesInTime, Prefixes
  <2>3. QED
    BY <1>1, <1>2, <1>3, <2>1, <2>2 DEF OthersKept, PrefixesInTime
<1>8. RowIsResumable'
  BY <1>1, <1>3 DEF RowIsResumable
<1>9. EmptyOnes(output)'
  BY <1>1, <1>2, <1>3, <1>4
     DEF OthersKept, RunIsResumable, EmptyOnes, Wanted, Collections
<1>10. RunIsResumable'
  BY <1>1, <1>3, <1>9 DEF RunIsResumable
<1>11. PoolIsRight'
  <2>1. \A d \in Collections \ Wanted : task'[d] = "idle" /\ hive'[d] = 0
    BY <1>1, <1>2 DEF OthersKept, PoolIsRight
  <2>2. \A d \in Wanted \ {c} : PlaceIsRight(d)'
    <3> SUFFICES ASSUME NEW d \in Wanted \ {c} PROVE PlaceIsRight(d)'
      OBVIOUS
    <3>1. d \in Collections \ {c} /\ PlaceIsRight(d)
      BY <1>1 DEF PoolIsRight, Wanted, Collections
    <3>2. /\ task'[d] = task[d] /\ status'[d] = status[d] /\ hive'[d] = hive[d]
          /\ objects'[output][d] = objects[output][d] /\ output' = output
      BY <1>2, <1>3, <1>4, <3>1 DEF OthersKept
    <3>3. QED
      BY <3>1, <3>2 DEF PlaceIsRight, Published
  <2>3. QED
    BY <1>5, <2>1, <2>2 DEF PoolIsRight
<1>12. CsvIsSafe'
  <2>1. csv # 0 => \A d \in Wanted : objects'[csv][d] = objects[csv][d]
    BY <1>2, <1>6 DEF OthersKept, Prefixes
  <2>2. csv # 0 => objects'[csv] = objects[csv]
    BY <1>2, <1>6 DEF OthersKept, Prefixes
  <2>3. CsvNamesWholeDataset'
    BY <1>3, <2>2 DEF CsvIsSafe, CsvNamesWholeDataset, Whole
  <2>4. QED
    BY <1>3, <1>6, <2>3 DEF CsvIsSafe
<1>13. TablesReadWholeData'
  <2> SUFFICES ASSUME NEW d \in Collections, hive'[d] # 0
               PROVE  objects'[hive'[d]][d] = "full"
    BY DEF TablesReadWholeData
  <2>1. CASE d # c
    BY <1>2, <2>1 DEF OthersKept, TablesReadWholeData, Prefixes
  <2>2. CASE d = c /\ hive'[c] = output
    BY <1>3, <1>5, <2>2 DEF PlaceIsRight, Published
  <2>3. CASE d = c /\ hive'[c] # output
    BY <1>2, <2>3 DEF OthersKept, TablesReadWholeData, Prefixes
  <2>4. QED
    BY <2>1, <2>2, <2>3
<1>14. QED
  BY <1>7, <1>8, <1>10, <1>11, <1>12, <1>13 DEF RetryInvariant
-----------------------------------------------------------------------------
(***************************************************************************)
(* The steps of the main thread and the launches.                          *)
(***************************************************************************)

LEMMA LocateKeepsInvariant ==
  ASSUME TypeOK, RetrySafe, RetryInvariant, LocateOutput
  PROVE  RetryInvariant'
<1>. /\ PrefixesInTime /\ RowIsResumable /\ RunIsResumable /\ PoolIsRight
     /\ CsvIsSafe /\ TablesReadWholeData
  BY DEF RetryInvariant
<1>. run \in Prefixes /\ csv \in 0 .. MaxRuns /\ rowPrefix \in 0 .. MaxRuns
     /\ MaxRuns \in Nat /\ hive \in [Collections -> 0 .. MaxRuns]
  BY DatasetAssumption DEF TypeOK, Prefixes
<1>1. /\ step = "RUNNING" /\ mainPc = "locate" /\ mainPc' = "prepare"
      /\ UNCHANGED <<run, step, rowPrefix, selected, task, status, objects, hive, csv>>
  BY DEF LocateOutput, MainAt, storeVars
<1>2. \/ rowPrefix # 0 /\ output' = rowPrefix /\ existing'
      \/ /\ rowPrefix = 0 \/ "get" \in Environment
         /\ output' = run /\ ~existing'
  BY DEF LocateOutput, get_output_prefix
<1>. USE <1>1
<1>3. PrefixesInTime' /\ PoolIsRight' /\ TablesReadWholeData'
  <2>1. output' <= run
    BY <1>2 DEF PrefixesInTime, Prefixes
  <2>2. QED
    BY <2>1 DEF PrefixesInTime, PoolIsRight, TablesReadWholeData
<1>4. RowIsResumable'
  BY <1>2 DEF RowIsResumable
<1>5. CASE rowPrefix # 0 /\ output' = rowPrefix /\ existing'
  <2>1. Resumable(output)' /\ (csv = output' => AllPublished(output)')
    BY <1>5 DEF RowIsResumable, Resumable, AllPublished, Published, EmptyOnes
  <2>2. RunIsResumable'
    BY <1>5, <2>1 DEF RunIsResumable
  <2>3. CsvIsSafe'
    BY <2>1 DEF CsvIsSafe, CsvNamesWholeDataset, Whole
  <2>4. QED
    BY <1>3, <1>4, <2>2, <2>3 DEF RetryInvariant
<1>6. CASE output' = run /\ ~existing'
  <2>1. /\ csv # run /\ \A c \in Collections : hive[c] # run
        /\ objects[run] = [c \in Collections |-> "none"]
    BY DEF PrefixesInTime, Prefixes
  <2>2. RunIsResumable'
    BY <1>6, <2>1 DEF RunIsResumable
  <2>3. CsvIsSafe'
    BY <1>6, <2>1 DEF CsvIsSafe, CsvNamesWholeDataset, Whole
  <2>4. QED
    BY <1>3, <1>4, <2>2, <2>3 DEF RetryInvariant
<1>7. QED
  BY <1>2, <1>5, <1>6

LEMMA PrepareKeepsInvariant ==
  ASSUME TypeOK, RetrySafe, RetryInvariant, Prepare
  PROVE  RetryInvariant'
<1>. /\ PrefixesInTime /\ RowIsResumable /\ RunIsResumable /\ PoolIsRight
     /\ CsvIsSafe /\ TablesReadWholeData
  BY DEF RetryInvariant
<1>. /\ run \in Prefixes /\ csv \in 0 .. MaxRuns /\ output \in Prefixes
     /\ MaxRuns \in Nat /\ hive \in [Collections -> 0 .. MaxRuns]
     /\ objects \in [Prefixes -> [Collections -> Kinds]]
  BY DatasetAssumption DEF TypeOK, Prefixes, Kinds, Prepare, MainAt
<1>1. /\ step = "RUNNING" /\ mainPc = "prepare" /\ mainPc' = "pool"
      /\ UNCHANGED <<run, step, rowPrefix, output, existing, status, hive, csv>>
      /\ selected' = get_collections
      /\ objects' = populate_empty_prefixes(selected')
      /\ task' = [c \in Collections |->
                    IF c \in selected' \cap Exported THEN "queued" ELSE "idle"]
  BY DEF Prepare, MainAt
<1>. USE <1>1
<1>2. /\ \A p \in Prefixes : p # output => objects'[p] = objects[p]
      /\ \A c \in Collections :
           objects'[output][c] = IF Incremental /\ c \in selected' \ Exported
                                   THEN "empty" ELSE objects[output][c]
  BY DEF populate_empty_prefixes
<1>3. \A c \in Exported, p \in Prefixes : objects'[p][c] = objects[p][c]
  BY <1>2 DEF Collections
<1>4. selected' \subseteq Secrets
  BY DEF get_collections
<1>5. PrefixesInTime'
  BY <1>2 DEF PrefixesInTime, Prefixes
<1>6. RowIsResumable'
  BY DEF RowIsResumable
<1>7. EmptyOnes(output)'
  <2>1. CASE existing
    BY <1>2, <2>1 DEF RunIsResumable, Resumable, EmptyOnes, Collections
  <2>2. CASE ~existing
    BY <1>2, <2>2 DEF get_collections, EmptyOnes, Collections
  <2>3. QED
    BY <2>1, <2>2
<1>8. RunIsResumable'
  BY <1>7 DEF RunIsResumable
<1>9. ASSUME NEW c \in Wanted PROVE PlaceIsRight(c)'
  <2>1. c \in Collections /\ c \in Secrets /\ c \in Exported
    BY DEF Wanted, Collections
  <2>2. CASE existing
    <3>1. \/ Published(c, output)
          \/ status[c] \in Failing /\ hive[c] # output
      BY <2>2 DEF RunIsResumable, Resumable
    <3>2. c \in selected' <=> status[c] \in Failing
      BY <2>1, <2>2 DEF get_collections, get_failed_collection_names
    <3>3. CASE status[c] \in Failing
      BY <2>1, <3>1, <3>2, <3>3 DEF PlaceIsRight, Published, Failing
    <3>4. CASE status[c] \notin Failing
      BY <1>3, <2>1, <3>1, <3>2, <3>4 DEF PlaceIsRight, Published
    <3>5. QED
      BY <3>3, <3>4
  <2>3. CASE ~existing
    <3>1. task'[c] = "queued" /\ hive[c] # output
      BY <2>1, <2>3 DEF get_collections, RunIsResumable
    <3>2. QED
      BY <3>1 DEF PlaceIsRight
  <2>4. QED
    BY <2>2, <2>3
<1>10. PoolIsRight'
  BY <1>4, <1>9 DEF PoolIsRight, Wanted
<1>11. CsvNamesWholeDataset'
  BY <1>2, <1>3
     DEF CsvIsSafe, CsvNamesWholeDataset, Whole, Wanted, Collections, Prefixes
<1>12. csv # 0 /\ csv = output =>
         AllPublished(output)' /\ \A c \in Collections : task'[c] = "idle"
  <2> SUFFICES ASSUME csv # 0, csv = output
               PROVE  AllPublished(output)' /\ \A c \in Collections : task'[c] = "idle"
    OBVIOUS
  <2>1. existing /\ AllPublished(output)
    BY DEF RunIsResumable, CsvIsSafe
  <2>2. \A c \in Wanted : c \notin selected'
    BY <2>1 DEF AllPublished, Published, Failing, get_collections,
                get_failed_collection_names
  <2>3. QED
    BY <1>3, <1>4, <2>1, <2>2 DEF AllPublished, Published, Wanted
<1>13. CsvIsSafe'
  BY <1>11, <1>12 DEF CsvIsSafe
<1>14. TablesReadWholeData'
  <2> SUFFICES ASSUME NEW c \in Collections, hive[c] # 0
               PROVE  objects'[hive[c]][c] = "full"
    BY DEF TablesReadWholeData
  <2>1. c \in Exported
    BY DEF PoolIsRight, Wanted
  <2>2. QED
    BY <1>3, <2>1 DEF TablesReadWholeData, Prefixes
<1>15. QED
  BY <1>5, <1>6, <1>8, <1>10, <1>13, <1>14 DEF RetryInvariant

LEMMA CollectKeepsInvariant ==
  ASSUME TypeOK, RetrySafe, RetryInvariant, CollectResults
  PROVE  RetryInvariant'
<1>. /\ PrefixesInTime /\ RowIsResumable /\ RunIsResumable /\ PoolIsRight
     /\ CsvIsSafe /\ TablesReadWholeData
  BY DEF RetryInvariant
<1>1. /\ step = "RUNNING" /\ mainPc = "pool" /\ PoolIsOver
      /\ UNCHANGED <<run, rowPrefix, output, existing, status, hive, objects, csv, task>>
      /\ IF \E c \in Collections : task[c] = "raised"
           THEN step' = "FAILED" /\ mainPc' = "over"
           ELSE step' = step /\ mainPc' = "csv"
  BY DEF CollectResults, MainAt, EndStep, storeVars
<1>2. output \in Prefixes /\ output # 0
  BY <1>1 DEF TypeOK, Prefixes
<1>3. \A c \in Wanted : /\ c \in Collections
                        /\ task[c] \in AtRest
                        /\ PlaceIsRight(c)
  BY <1>1 DEF PoolIsOver, Wanted, Collections, PoolIsRight
<1>4. Resumable(output)
  BY <1>1, <1>3 DEF Resumable, RunIsResumable, PlaceIsRight, AtRest
<1>5. mainPc' = "csv" => AllPublished(output)
  BY <1>1, <1>3 DEF AllPublished, PlaceIsRight, AtRest
<1>6. PrefixesInTime' /\ RowIsResumable' /\ PoolIsRight' /\ CsvIsSafe'
      /\ TablesReadWholeData'
  BY <1>1 DEF PrefixesInTime, RowIsResumable, PoolIsRight, CsvIsSafe, AllPublished,
              Published, CsvNamesWholeDataset, Whole, TablesReadWholeData
<1>7. /\ Resumable(output)' /\ (mainPc' = "csv" => AllPublished(output)')
      /\ (EmptyOnes(output)')
  BY <1>1, <1>4, <1>5 DEF Resumable, AllPublished, Published, EmptyOnes
<1>8. RunIsResumable'
  BY <1>1, <1>2, <1>7 DEF RunIsResumable
<1>9. QED
  BY <1>6, <1>8 DEF RetryInvariant

LEMMA UploadKeepsInvariant ==
  ASSUME TypeOK, RetrySafe, RetryInvariant, create_adg_status_csv \/ UploadFails
  PROVE  RetryInvariant'
<1>. /\ PrefixesInTime /\ RowIsResumable /\ RunIsResumable /\ PoolIsRight
     /\ CsvIsSafe /\ TablesReadWholeData
  BY DEF RetryInvariant
<1>1. /\ step = "RUNNING" /\ mainPc = "csv" /\ mainPc' = "over"
      /\ UNCHANGED <<run, rowPrefix, output, existing, status, hive, objects, task>>
      /\ \/ step' = "COMPLETED" /\ csv' = output
         \/ step' = "FAILED" /\ csv' = csv
  BY DEF create_adg_status_csv, UploadFails, MainAt, EndStep, storeVars
<1>2. output \in Prefixes /\ output # 0
  BY <1>1 DEF TypeOK, Prefixes
<1>3. AllPublished(output) /\ EmptyOnes(output)
  BY <1>1 DEF RunIsResumable
<1>4. PrefixesInTime' /\ RowIsResumable' /\ PoolIsRight' /\ TablesReadWholeData'
  BY <1>1 DEF PrefixesInTime, RowIsResumable, PoolIsRight, TablesReadWholeData
<1>5. AllPublished(output)' /\ EmptyOnes(output)'
  BY <1>1, <1>3 DEF AllPublished, Published, EmptyOnes
<1>6. RunIsResumable'
  BY <1>1, <1>2, <1>5 DEF RunIsResumable, Resumable, AllPublished
<1>7. Whole(output)'
  BY <1>5 DEF Whole, AllPublished, Published, EmptyOnes
<1>8. CsvNamesWholeDataset'
  BY <1>1, <1>7 DEF CsvNamesWholeDataset, CsvIsSafe, Whole
<1>9. CsvIsSafe'
  BY <1>1, <1>5, <1>8 DEF CsvIsSafe
<1>10. QED
  BY <1>4, <1>6, <1>9 DEF RetryInvariant

LEMMA RelaunchKeepsInvariant ==
  ASSUME TypeOK, RetrySafe, RetryInvariant, Relaunch
  PROVE  RetryInvariant'
<1>. /\ PrefixesInTime /\ RowIsResumable /\ RunIsResumable /\ PoolIsRight
     /\ CsvIsSafe /\ TablesReadWholeData
  BY DEF RetryInvariant
<1>. /\ run \in Prefixes /\ csv \in 0 .. MaxRuns /\ rowPrefix \in 0 .. MaxRuns
     /\ output \in 0 .. MaxRuns /\ MaxRuns \in Nat
     /\ hive \in [Collections -> 0 .. MaxRuns]
  BY DatasetAssumption DEF TypeOK, Prefixes
<1>1. /\ step # "RUNNING" /\ run < MaxRuns /\ run' = run + 1 /\ step' = "RUNNING"
      /\ mainPc' = "locate" /\ rowPrefix' \in RowAfterRun /\ output' = 0
      /\ task' = [c \in Collections |-> "idle"]
      /\ UNCHANGED <<status, objects, hive, csv>>
  BY DEF Relaunch, storeVars
<1>2. output # 0 /\ Resumable(output)
  BY <1>1 DEF RunIsResumable
<1>3. rowPrefix' # 0 => rowPrefix' = output
  BY <1>1, <1>2 DEF RowAfterRun, RowIsResumable, RetrySafe
<1>4. PrefixesInTime'
  <2>1. run' \in Prefixes /\ run' > run
    BY <1>1 DEF Prefixes
  <2>2. rowPrefix' <= run'
    BY <1>3, <2>1 DEF PrefixesInTime, Prefixes
  <2>3. csv < run' /\ \A c \in Collections : hive[c] < run'
    BY <2>1 DEF PrefixesInTime, Prefixes
  <2>4. \A p \in Prefixes : p >= run' => objects[p] = [c \in Collections |-> "none"]
    BY <2>1 DEF PrefixesInTime, Prefixes
  <2>5. QED
    BY <1>1, <2>1, <2>2, <2>3, <2>4 DEF PrefixesInTime, Prefixes
<1>5. RowIsResumable'
  BY <1>1, <1>2, <1>3
     DEF RowIsResumable, Resumable, CsvIsSafe, AllPublished, Published, EmptyOnes
<1>6. RunIsResumable' /\ PoolIsRight' /\ TablesReadWholeData' /\ CsvIsSafe'
  BY <1>1 DEF RunIsResumable, PoolIsRight, TablesReadWholeData, CsvIsSafe,
              CsvNamesWholeDataset, Whole
<1>7. QED
  BY <1>4, <1>5, <1>6 DEF RetryInvariant
-----------------------------------------------------------------------------
\* The invariant that makes retries safe: in a safe environment every run
\* leaves a prefix, statuses, objects and tables the next one can resume from.
THEOREM RetryInvariantHolds ==
  ASSUME RetrySafe PROVE Spec => []RetryInvariant
<1>1. Init => RetryInvariant
  <2> SUFFICES ASSUME Init PROVE RetryInvariant
    OBVIOUS
  <2>. USE DatasetAssumption DEF Init
  <2>1. PrefixesInTime
    BY DEF PrefixesInTime, Prefixes
  <2>2. RowIsResumable /\ RunIsResumable /\ PoolIsRight
    BY DEF RowIsResumable, RunIsResumable, PoolIsRight
  <2>3. CsvIsSafe /\ TablesReadWholeData
    BY DEF CsvIsSafe, CsvNamesWholeDataset, TablesReadWholeData
  <2>4. QED
    BY <2>1, <2>2, <2>3 DEF RetryInvariant
<1>2. TypeOK /\ RetryInvariant /\ [Next]_vars => RetryInvariant'
  <2> SUFFICES ASSUME TypeOK, RetryInvariant, [Next]_vars
               PROVE  RetryInvariant'
    OBVIOUS
  <2>1. ~PrepareFails /\ ~Stop
    BY DEF PrepareFails, Stop, RetrySafe
  <2>2. CASE UNCHANGED vars
    BY <2>2
       DEF vars, mainVars, storeVars, RetryInvariant, PrefixesInTime,
           RowIsResumable, RunIsResumable, PoolIsRight, PlaceIsRight, CsvIsSafe,
           CsvNamesWholeDataset, Whole, TablesReadWholeData, Resumable,
           AllPublished, Published, EmptyOnes
  <2>3. QED
    BY <2>1, <2>2, ThreadKeepsInvariant, LocateKeepsInvariant,
       PrepareKeepsInvariant, CollectKeepsInvariant, UploadKeepsInvariant,
       RelaunchKeepsInvariant
       DEF Next, Main
<1>3. QED
  BY <1>1, <1>2, TypeCorrect, PTL DEF Spec

\* adg_params.csv names a prefix with every collection of the secret under it,
\* for every set of collections, pool size and number of retries.
THEOREM CsvIsTrue ==
  ASSUME RetrySafe PROVE Spec => []CsvNamesWholeDataset
<1>1. RetryInvariant => CsvNamesWholeDataset
  BY DEF RetryInvariant, CsvIsSafe
<1>2. QED
  BY <1>1, RetryInvariantHolds, PTL

\* A run that succeeds leaves every wanted collection Completed and published.
THEOREM SuccessIsTrue ==
  ASSUME RetrySafe PROVE Spec => []SuccessIsPublished
<1>1. RetryInvariant => SuccessIsPublished
  BY DEF RetryInvariant, RunIsResumable, SuccessIsPublished, AllPublished, Published
<1>2. QED
  BY <1>1, RetryInvariantHolds, PTL

\* No table reads data that a retry is deleting or has left half written.
THEOREM TablesAreWhole ==
  ASSUME RetrySafe PROVE Spec => []TablesReadWholeData
<1>1. RetryInvariant => TablesReadWholeData
  BY DEF RetryInvariant
<1>2. QED
  BY <1>1, RetryInvariantHolds, PTL

-----------------------------------------------------------------------------
(***************************************************************************)
(* DatasetRun implements RetriedDataset.                                   *)
(***************************************************************************)

\* Steps that touch neither the objects nor adg_params.csv.
LEMMA NothingAnnounced ==
  ASSUME UNCHANGED <<objects, csv>> PROVE UNCHANGED <<WholeUnder, csv>>
BY DEF WholeUnder

\* A thread changes what lies under the prefix of its run, which then is not the
\* one that is announced.
LEMMA ThreadWorks ==
  ASSUME TypeOK, RetryInvariant, NEW c \in Collections, NEW what,
         mainPc = "pool", step = "RUNNING", task[c] # "idle",
         SetObjects(c, what), UNCHANGED csv
  PROVE  Announced!Work(output)
<1>1. output \in Prefixes BY DEF TypeOK
<1>2. output # csv
  BY <1>1 DEF RetryInvariant, CsvIsSafe, Prefixes
<1> DEFINE there == {d \in Wanted : objects'[output][d] = "full"}
<1>3. \A p \in Prefixes \ {output} : objects'[p] = objects[p]
  BY DEF SetObjects, TypeOK
<1>4. WholeUnder' = [WholeUnder EXCEPT ![output] = there]
  BY <1>1, <1>3 DEF WholeUnder
<1> QED BY <1>2, <1>4 DEF Announced!Work

\* The directories of collections without data are none of the wanted ones.
LEMMA EmptyDirectoriesAreNotWanted ==
  ASSUME TypeOK, NEW names, output \in Prefixes,
         objects' = populate_empty_prefixes(names)
  PROVE  WholeUnder' = WholeUnder
<1>1. \A p \in Prefixes : \A c \in Wanted : objects'[p][c] = objects[p][c]
  BY DEF populate_empty_prefixes, Wanted, Collections, TypeOK
<1> QED BY <1>1 DEF WholeUnder

\* In every safe environment, what readers of adg_params.csv see is what the
\* abstract dataset promises them.
THEOREM SafeRunsImplementDataset ==
  ASSUME RetrySafe PROVE Spec => ImplementsDataset
<1>1. Init => Announced!Init
  BY DEF Init, Announced!Init, WholeUnder, Wanted, Collections
<1>2. TypeOK /\ RetryInvariant /\ [Next]_vars
        => [Announced!Next]_<<WholeUnder, csv>>
  <2> SUFFICES ASSUME TypeOK, RetryInvariant, [Next]_vars
               PROVE  [Announced!Next]_<<WholeUnder, csv>>
    OBVIOUS
  <2>1. ASSUME Announced!Work(output), output \in Prefixes
        PROVE  Announced!Next
    BY <2>1 DEF Announced!Next
  <2>2. ASSUME UNCHANGED <<objects, csv>> PROVE [Announced!Next]_<<WholeUnder, csv>>
    BY <2>2, NothingAnnounced
  <2>3. CASE LocateOutput \/ CollectResults \/ UploadFails \/ Relaunch
    BY <2>2, <2>3 DEF LocateOutput, CollectResults, UploadFails, Relaunch, storeVars
  <2>4. CASE Prepare
    <3>1. output \in Prefixes BY <2>4 DEF Prepare, MainAt, TypeOK
    <3>2. WholeUnder' = WholeUnder /\ csv' = csv
      BY <2>4, <3>1, EmptyDirectoriesAreNotWanted DEF Prepare
    <3> QED BY <3>2
  <2>5. CASE create_adg_status_csv
    <3>1. output \in Prefixes BY <2>5 DEF create_adg_status_csv, MainAt, TypeOK
    <3>2. AllPublished(output)
      BY <2>5 DEF create_adg_status_csv, MainAt, RetryInvariant, RunIsResumable
    <3>3. WholeUnder[output] = Wanted
      BY <3>1, <3>2 DEF WholeUnder, AllPublished, Published
    <3>4. WholeUnder' = WholeUnder
      BY <2>5 DEF create_adg_status_csv, storeVars, WholeUnder
    <3> QED
      BY <2>5, <3>1, <3>3, <3>4
      DEF create_adg_status_csv, Announced!Next, Announced!Announce
  <2>6. ASSUME NEW c \in Collections, ReadCollection(c) \/ persist_json(c)
        PROVE  [Announced!Next]_<<WholeUnder, csv>>
    <3>1. step = "RUNNING" /\ mainPc = "pool" /\ task[c] # "idle" /\ csv' = csv
      BY <2>6 DEF ReadCollection, persist_json, ThreadAt, MainAt
    <3>2. output \in Prefixes BY <3>1 DEF TypeOK
    <3>3. UNCHANGED objects \/ \E what : SetObjects(c, what)
      BY <2>6 DEF ReadCollection, persist_json, delete_existing_s3_files
    <3> QED BY <3>1, <3>2, <3>3, <2>1, <2>2, ThreadWorks
  <2>7. ASSUME NEW c \in Collections,
               \/ TakeCollection(c) \/ TagObjects(c) \/ StartPublishing(c)
               \/ DropTable(c) \/ CreateTable(c) \/ CompleteCollection(c)
               \/ MarkFailed(c) \/ notify_of_collection_failure(c)
        PROVE  [Announced!Next]_<<WholeUnder, csv>>
    BY <2>2, <2>7 DEF TakeCollection, TagObjects, StartPublishing, DropTable,
       CreateTable, CompleteCollection, MarkFailed, notify_of_collection_failure,
       storeVars
  <2>8. ~PrepareFails /\ ~Stop BY DEF PrepareFails, Stop, RetrySafe
  <2>9. CASE UNCHANGED vars BY <2>2, <2>9 DEF vars, storeVars
  <2> QED
    BY <2>3, <2>4, <2>5, <2>6, <2>7, <2>8, <2>9 DEF Next, Main, Thread
<1> QED
  BY <1>1, <1>2, TypeCorrect, RetryInvariantHolds, PTL
  DEF Spec, ImplementsDataset, Announced!Spec

-----------------------------------------------------------------------------
(***************************************************************************)
(* What a run leaves behind when it fails, in every environment.           *)
(***************************************************************************)

\* The message about c was sent or refused, or this run could not write its status.
IsAccountedFor(c) ==
  \/ notified[c] = "sent"
  \/ "sns" \in Environment /\ notified[c] = "refused"
  \/ "status" \in Environment /\ run > 1

\* A thread at work has replaced the status an earlier run left, and one that has
\* marked its collection failed goes by the topic before it is over.
FailureIsInHand(c) ==
  /\ task[c] = "idle" => run > 1 \/ status[c] = NoStatus
  /\ task[c] = "queued" => run > 1 \/ status[c] \notin Failing
  /\ task[c] = "ok" => status[c] = "Completed"
  /\ task[c] = "raised" => status[c] \notin Failing \/ IsAccountedFor(c)
  /\ task[c] \notin {"idle", "queued", "notify", "raised"} => status[c] \notin Failing

FailuresInHand ==
  /\ \A c \in Collections \ Wanted : task[c] = "idle" /\ status[c] = NoStatus
  /\ \A c \in Wanted : FailureIsInHand(c)
  /\ mainPc \in {"locate", "prepare"} =>
       selected = {} /\ \A c \in Collections : task[c] = "idle"
  /\ step = "RUNNING" <=> mainPc # "over"
  /\ mainPc = "csv" \/ step \in {"COMPLETED", "FAILED"} => PoolIsOver
  /\ mainPc = "csv" \/ step = "COMPLETED" =>
       \A c \in Collections : task[c] # "raised"
  /\ \A c \in selected \cap Exported : task[c] # "idle"

LEMMA ThreadKeepsFailureInHand ==
  ASSUME TypeOK, FailuresInHand, NEW c \in Wanted, Thread(c), FailureIsInHand(c)
  PROVE  FailureIsInHand(c)' /\ task'[c] # "idle"
<1>. USE DEF TypeOK, Wanted, Collections, GoTo, update_adg_status, ThreadAt, Failing,
             NoStatus, FailureIsInHand, IsAccountedFor
<1>1. CASE TakeCollection(c)
  BY <1>1 DEF TakeCollection, mainVars
<1>2. CASE ReadCollection(c)
  BY <1>2 DEF ReadCollection
<1>3. CASE persist_json(c) \/ TagObjects(c)
  BY <1>3 DEF persist_json, TagObjects, storeVars
<1>4. CASE StartPublishing(c) \/ CompleteCollection(c)
  BY <1>4 DEF StartPublishing, CompleteCollection
<1>5. CASE DropTable(c) \/ CreateTable(c)
  BY <1>5 DEF DropTable, CreateTable
<1>6. CASE MarkFailed(c)
  BY <1>6 DEF MarkFailed
<1>7. CASE notify_of_collection_failure(c)
  BY <1>7 DEF notify_of_collection_failure, storeVars
<1>8. QED
  BY <1>1, <1>2, <1>3, <1>4, <1>5, <1>6, <1>7 DEF Thread

LEMMA FailuresStay ==
  ASSUME TypeOK, FailuresInHand, [Next]_vars
  PROVE  FailuresInHand'
<1>. USE DEF FailuresInHand, FailureIsInHand, IsAccountedFor, MainAt, EndStep, PoolIsOver
<1>1. CASE LocateOutput
  BY <1>1 DEF LocateOutput, storeVars
<1>2. CASE Prepare
  <2>1. /\ run' = run /\ status' = status /\ notified' = notified
        /\ mainPc' = "pool" /\ step = "RUNNING" /\ step' = step
        /\ selected' \subseteq Secrets
        /\ \A c \in Collections :
             /\ task[c] = "idle"
             /\ task'[c] = IF c \in selected' \cap Exported THEN "queued" ELSE "idle"
    BY <1>2 DEF Prepare, get_collections
  <2>2. \A c \in Wanted : FailureIsInHand(c)'
    BY <2>1 DEF Wanted, Collections, NoStatus, Failing
  <2>3. QED
    BY <2>1, <2>2 DEF Wanted, Collections
<1>3. CASE CollectResults
  BY <1>3 DEF CollectResults, storeVars
<1>4. CASE create_adg_status_csv \/ UploadFails
  BY <1>4 DEF create_adg_status_csv, UploadFails, storeVars
<1>5. CASE PrepareFails
  BY <1>5 DEF PrepareFails, AtRest
<1>6. CASE Stop
  BY <1>6 DEF Stop, storeVars
<1>7. CASE Relaunch
  BY <1>7 DEF Relaunch, storeVars, TypeOK, AtRest, Wanted, Collections
<1>8. ASSUME NEW c \in Collections, Thread(c) PROVE FailuresInHand'
  <2>1. mainPc = "pool" /\ step = "RUNNING" /\ task[c] \notin AtRest
    BY <1>8 DEF Thread, TakeCollection, ReadCollection, persist_json, TagObjects,
       StartPublishing, DropTable, CreateTable, CompleteCollection, MarkFailed,
       notify_of_collection_failure, ThreadAt, AtRest, Failing
  <2>2. c \in Wanted
    BY <2>1 DEF AtRest
  <2>3. UNCHANGED mainVars
        /\ \A d \in Collections \ {c} : task'[d] = task[d] /\ status'[d] = status[d]
    BY <1>8, ThreadFrame DEF OthersKept
  <2>4. \A d \in Collections \ {c} : notified'[d] = notified[d]
    BY <1>8 DEF Thread, TakeCollection, ReadCollection, persist_json, TagObjects,
       StartPublishing, DropTable, CreateTable, CompleteCollection, MarkFailed,
       notify_of_collection_failure, TypeOK
  <2>5. FailureIsInHand(c)' /\ task'[c] # "idle"
    BY <1>8, <2>2, ThreadKeepsFailureInHand
  <2>6. \A d \in Wanted : FailureIsInHand(d)'
    BY <2>3, <2>4, <2>5 DEF mainVars, Wanted, Collections
  <2>7. \A d \in Collections \ Wanted : task'[d] = "idle" /\ status'[d] = NoStatus
    BY <2>2, <2>3
  <2>8. \A d \in selected \cap Exported : task'[d] # "idle"
    BY <2>3, <2>5 DEF Collections
  <2>9. QED
    BY <2>1, <2>3, <2>6, <2>7, <2>8 DEF mainVars
<1>9. CASE UNCHANGED vars
  BY <1>9 DEF vars, mainVars, storeVars
<1>10. QED
  BY <1>1, <1>2, <1>3, <1>4, <1>5, <1>6, <1>7, <1>8, <1>9 DEF Next, Main

LEMMA FailuresHold == Spec => []FailuresInHand
<1>1. Init => FailuresInHand
  BY DEF Init, FailuresInHand, FailureIsInHand, Wanted, Collections
<1>2. TypeOK /\ FailuresInHand /\ [Next]_vars => FailuresInHand'
  BY FailuresStay
<1>3. QED
  BY <1>1, <1>2, TypeCorrect, PTL DEF Spec

\* In every environment, the step that leaves a collection failed has failed too, and
\* has announced it to the topic, if the topic takes the message and the status is
\* not one of an earlier run that this one was refused to replace.
THEOREM FailuresAreSent == Spec => []FailuresAreNotified
<1>1. TypeOK /\ FailuresInHand => FailuresAreNotified
  <2> SUFFICES ASSUME TypeOK, FailuresInHand, step \in {"FAILED", "COMPLETED"},
                      NEW c \in selected, status[c] \in Failing
               PROVE  /\ step = "FAILED"
                      /\ \/ notified[c] = "sent"
                         \/ "sns" \in Environment /\ notified[c] = "refused"
                         \/ "status" \in Environment /\ run > 1 /\ task[c] = "raised"
    BY DEF FailuresAreNotified
  <2>1. c \in Collections
    BY DEF TypeOK, Collections
  <2>2. c \in Wanted
    BY <2>1 DEF FailuresInHand, Failing, NoStatus
  <2>3. task[c] \in {"ok", "raised"}
    BY <2>1, <2>2 DEF FailuresInHand, PoolIsOver, AtRest, Wanted
  <2>4. task[c] = "raised" /\ IsAccountedFor(c)
    BY <2>2, <2>3 DEF FailuresInHand, FailureIsInHand, Failing
  <2>5. step = "FAILED"
    BY <2>1, <2>4 DEF FailuresInHand
  <2>6. QED
    BY <2>4, <2>5 DEF IsAccountedFor
<1>2. QED
  BY <1>1, TypeCorrect, FailuresHold, PTL

\* In every safe environment, a run that fails leaves no collection in the middle,
\* where the next would pass it over.
THEOREM NoneIsLeftBetween ==
  ASSUME RetrySafe PROVE Spec => []FailureLeavesNoneBetween
<1>1. RetryInvariant /\ FailuresInHand => FailureLeavesNoneBetween
  BY DEF RetryInvariant, RunIsResumable, Resumable, Published, FailuresInHand,
         FailureLeavesNoneBetween, Between, Failing, NoStatus
<1> QED BY <1>1, RetryInvariantHolds, FailuresHold, PTL
-----------------------------------------------------------------------------
(***************************************************************************)
(* What a re-run leaves alone, in every environment.                       *)
(***************************************************************************)

\* The threads of a re-run are at work on collections that had failed, and the
\* pool is empty before it is filled.
OnlyFailedAreAtWork ==
  /\ mainPc \in {"locate", "prepare"} => \A c \in Collections : task[c] = "idle"
  /\ existing =>
       \A c \in Collections : task[c] \notin AtRest => status[c] # "Completed"

LEMMA OnlyFailedStay ==
  ASSUME TypeOK, OnlyFailedAreAtWork, [Next]_vars
  PROVE  OnlyFailedAreAtWork'
<1>. USE DEF OnlyFailedAreAtWork
<1>1. CASE LocateOutput
  BY <1>1 DEF LocateOutput, MainAt, storeVars, AtRest
<1>2. CASE Prepare
  <2>1. task' = [c \in Collections |->
                  IF c \in selected' \cap Exported THEN "queued" ELSE "idle"]
        /\ UNCHANGED <<existing, status>> /\ mainPc' = "pool"
        /\ selected' = get_collections
    BY <1>2 DEF Prepare
  <2>2. existing => \A c \in selected' : status[c] # "Completed"
    BY <2>1 DEF get_collections, get_failed_collection_names, Failing
  <2>. QED BY <2>1, <2>2 DEF AtRest
<1>3. CASE PrepareFails \/ CollectResults \/ create_adg_status_csv \/ UploadFails \/ Stop
  BY <1>3 DEF PrepareFails, CollectResults, create_adg_status_csv, UploadFails, Stop,
              EndStep, storeVars
<1>4. CASE Relaunch
  BY <1>4 DEF Relaunch, AtRest
<1>5. ASSUME NEW c \in Collections, Thread(c) PROVE OnlyFailedAreAtWork'
  <2>1. OthersKept(c) /\ mainPc = "pool"
    BY <1>5, ThreadFrame
       DEF Thread, TakeCollection, ReadCollection, persist_json, TagObjects,
           StartPublishing, DropTable, CreateTable, CompleteCollection, MarkFailed,
           notify_of_collection_failure, ThreadAt, MainAt
  <2>2. existing /\ task'[c] \notin AtRest => status'[c] # "Completed"
    <3>. USE DEF TypeOK, GoTo, ThreadAt, AtRest, update_adg_status, storeVars, Failing
    <3>1. CASE TakeCollection(c) BY <3>1 DEF TakeCollection
    <3>2. CASE ReadCollection(c) BY <3>2 DEF ReadCollection
    <3>3. CASE persist_json(c) \/ TagObjects(c) BY <3>3 DEF persist_json, TagObjects
    <3>4. CASE StartPublishing(c) \/ CompleteCollection(c)
      BY <3>4 DEF StartPublishing, CompleteCollection
    <3>5. CASE DropTable(c) \/ CreateTable(c) BY <3>5 DEF DropTable, CreateTable
    <3>6. CASE MarkFailed(c) BY <3>6 DEF MarkFailed
    <3>7. CASE notify_of_collection_failure(c)
      BY <3>7 DEF notify_of_collection_failure
    <3>. QED BY <1>5, <3>1, <3>2, <3>3, <3>4, <3>5, <3>6, <3>7 DEF Thread
  <2>. QED BY <2>1, <2>2 DEF OthersKept, mainVars
<1>6. CASE UNCHANGED vars BY <1>6 DEF vars, mainVars, storeVars
<1>. QED BY <1>1, <1>2, <1>3, <1>4, <1>5, <1>6 DEF Next, Main

\* In a re-run, whatever fails, nothing happens to a collection that had
\* succeeded: not to its status, its directory or its table.
THEOREM SuccessIsLeftAlone == Spec => CompletedIsNotRepeated
<1>1. Init => OnlyFailedAreAtWork
  BY DEF Init, OnlyFailedAreAtWork, AtRest
<1>2. TypeOK /\ OnlyFailedAreAtWork /\ [Next]_vars => OnlyFailedAreAtWork'
  BY OnlyFailedStay
<1>. DEFINE Kept(c) == /\ status'[c] = "Completed" /\ hive'[c] = hive[c]
                       /\ objects'[output][c] = objects[output][c]
            Step == existing => \A c \in Collections : status[c] = "Completed" => Kept(c)
<1>3. TypeOK /\ OnlyFailedAreAtWork /\ [Next]_vars => [Step]_vars
  <2>. SUFFICES ASSUME TypeOK, OnlyFailedAreAtWork, Next, existing,
                       NEW c \in Collections, status[c] = "Completed"
                PROVE  Kept(c)
    OBVIOUS
  <2>1. c \notin get_collections
    BY DEF get_collections, get_failed_collection_names, Failing
  <2>2. ASSUME NEW names \in SUBSET get_collections, mainPc = "prepare",
               objects' = populate_empty_prefixes(names)
        PROVE  objects'[output][c] = objects[output][c]
    BY <2>1, <2>2 DEF populate_empty_prefixes, TypeOK
  <2>3. CASE Prepare BY <2>2, <2>3 DEF Prepare, MainAt
  <2>4. CASE PrepareFails BY <2>2, <2>4 DEF PrepareFails, MainAt
  <2>5. CASE LocateOutput \/ CollectResults \/ create_adg_status_csv \/ UploadFails
               \/ Stop \/ Relaunch
    BY <2>5 DEF LocateOutput, CollectResults, create_adg_status_csv, UploadFails, Stop,
                Relaunch, storeVars
  <2>6. ASSUME NEW d \in Collections, Thread(d) PROVE Kept(c)
    <3>1. task[d] \notin AtRest /\ mainPc = "pool"
      BY <2>6
         DEF Thread, TakeCollection, ReadCollection, persist_json, TagObjects,
             StartPublishing, DropTable, CreateTable, CompleteCollection, MarkFailed,
             notify_of_collection_failure, ThreadAt, MainAt, AtRest, Failing
    <3>2. c # d
      BY <3>1 DEF OnlyFailedAreAtWork
    <3>3. OthersKept(d) /\ output \in Prefixes
      BY <2>6, <3>1, ThreadFrame DEF TypeOK
    <3>. QED BY <3>2, <3>3 DEF OthersKept
  <2>. QED BY <2>3, <2>4, <2>5, <2>6 DEF Next, Main
<1>. QED BY <1>1, <1>2, <1>3, TypeCorrect, PTL DEF Spec, CompletedIsNotRepeated
-----------------------------------------------------------------------------
(***************************************************************************)
(* Runs come to an end, as far as that is a matter of safety: a run has a  *)
(* bounded number of steps ahead, each step leaves fewer, and as long as   *)
(* it runs someone can take one. That someone does is RunsEnd, which rests *)
(* on fairness.                                                            *)
(***************************************************************************)

\* The steps a thread has ahead of it at most.
Ahead(place) ==
  CASE place = "queued"     -> 11
    [] place = "read"       -> 10
    [] place = "persist"    -> 9
    [] place = "tag"        -> 8
    [] place = "publishing" -> 7
    [] place = "drop"       -> 6
    [] place = "create"     -> 5
    [] place = "complete"   -> 4
    [] place \in Failing    -> 3
    [] place = "notify"     -> 2
    [] OTHER                -> 0

MainAhead ==
  CASE mainPc = "locate"  -> 4
    [] mainPc = "prepare" -> 3
    [] mainPc = "pool"    -> 2
    [] mainPc = "csv"     -> 1
    [] OTHER              -> 0

\* The steps of all threads, each of which may still be queued before the pool.
ThreadSteps ==
  {x \in Collections \X (1 .. 11) :
     mainPc \in {"locate", "prepare"} \/ x[2] <= Ahead(task[x[1]])}

StepsLeft == MainAhead + Cardinality(ThreadSteps)

MostSteps == 4 + Cardinality(Collections) * 11

\* A thread that finds a place in the pool, or is at work.
CanMove(c) ==
  task[c] \notin AtRest /\ (task[c] = "queued" => Cardinality(Busy) < Workers)

\* While a run goes on the main thread can go on, or a thread it waits for can.
NobodyWaitsForever ==
  step = "RUNNING" =>
    \/ mainPc \in {"locate", "prepare", "csv"}
    \/ mainPc = "pool" /\ (PoolIsOver \/ \E c \in Collections : CanMove(c))

\* Each step of a run leaves it fewer, and the next run is one of a bounded number.
RunsGetShorter ==
  [][\/ step = "RUNNING" /\ run' = run /\ StepsLeft' < StepsLeft
     \/ step # "RUNNING" /\ run' = run + 1 /\ run' <= MaxRuns]_vars

LEMMA ThreadStepsAreFinite ==
  /\ IsFiniteSet(Collections) /\ Cardinality(Collections) \in Nat
  /\ IsFiniteSet(Collections \X (1 .. 11))
  /\ Cardinality(Collections \X (1 .. 11)) = Cardinality(Collections) * 11
<1>1. IsFiniteSet(Collections) BY DatasetAssumption
<1>2. IsFiniteSet(1 .. 11) /\ Cardinality(1 .. 11) = 11
  <2>1. 1 \in Int /\ 11 \in Int OBVIOUS
  <2>2. /\ IsFiniteSet(1 .. 11)
        /\ Cardinality(1 .. 11) = IF 1 > 11 THEN 0 ELSE 11 - 1 + 1
    BY <2>1, FS_Interval, Zenon
  <2>. QED BY <2>2
<1>. QED BY <1>1, <1>2, FS_Product, FS_CardinalityType

LEMMA StepsLeftIsBounded ==
  /\ IsFiniteSet(ThreadSteps) /\ Cardinality(ThreadSteps) \in Nat
  /\ StepsLeft \in 0 .. MostSteps
<1>1. ThreadSteps \in SUBSET (Collections \X (1 .. 11)) BY DEF ThreadSteps
<1>2. /\ IsFiniteSet(ThreadSteps)
      /\ Cardinality(ThreadSteps) <= Cardinality(Collections \X (1 .. 11))
  BY <1>1, ThreadStepsAreFinite, FS_Subset
<1>3. Cardinality(ThreadSteps) \in Nat BY <1>2, FS_CardinalityType
<1>4. MainAhead \in 0 .. 4 BY DEF MainAhead
<1>. QED BY <1>2, <1>3, <1>4, ThreadStepsAreFinite DEF StepsLeft, MostSteps

\* The place a thread goes to is nearer to the end.
LEMMA ThreadGoesOn ==
  ASSUME TypeOK, NEW c \in Collections, Thread(c)
  PROVE  /\ MainAt("pool") /\ UNCHANGED mainVars
         /\ \A d \in Collections : d # c => task'[d] = task[d]
         /\ Ahead(task'[c]) < Ahead(task[c])
         /\ Ahead(task[c]) \in 1 .. 11
<1>. USE DEF ThreadAt, GoTo, TypeOK
<1>1. MainAt("pool") /\ UNCHANGED mainVars
  BY DEF Thread, TakeCollection, ReadCollection, persist_json, TagObjects,
         StartPublishing, DropTable, CreateTable, CompleteCollection, MarkFailed,
         notify_of_collection_failure
<1>2. \A d \in Collections : d # c => task'[d] = task[d]
  BY DEF Thread, TakeCollection, ReadCollection, persist_json, TagObjects,
         StartPublishing, DropTable, CreateTable, CompleteCollection, MarkFailed,
         notify_of_collection_failure, update_adg_status
<1>3. \/ task[c] = "queued" /\ task'[c] \in {"read", "raised"}
      \/ task[c] = "read" /\ task'[c] \in {"persist", "Failed_Processing", "raised"}
      \/ task[c] = "persist" /\ task'[c] \in {"tag", "Failed_Processing"}
      \/ task[c] = "tag" /\ task'[c] \in {"publishing", "Failed_Processing"}
      \/ task[c] = "publishing" /\ task'[c] \in {"drop", "raised"}
      \/ task[c] = "drop" /\ task'[c] \in {"create", "Failed_Publishing"}
      \/ task[c] = "create" /\ task'[c] \in {"complete", "Failed_Publishing"}
      \/ task[c] = "complete" /\ task'[c] \in {"ok", "raised"}
      \/ task[c] \in Failing /\ task'[c] \in {"notify", "raised"}
      \/ task[c] = "notify" /\ task'[c] = "raised"
  BY DEF Thread, TakeCollection, ReadCollection, persist_json, TagObjects,
         StartPublishing, DropTable, CreateTable, CompleteCollection, MarkFailed,
         notify_of_collection_failure, update_adg_status
<1>. QED BY <1>1, <1>2, <1>3 DEF Ahead, Failing

LEMMA ThreadShortens ==
  ASSUME TypeOK, NEW c \in Collections, Thread(c)
  PROVE  step = "RUNNING" /\ run' = run /\ StepsLeft' < StepsLeft
<1>1. /\ step = "RUNNING" /\ mainPc = "pool" /\ UNCHANGED mainVars
      /\ \A d \in Collections : d # c => task'[d] = task[d]
      /\ Ahead(task'[c]) < Ahead(task[c])
      /\ Ahead(task[c]) \in 1 .. 11
  BY ThreadGoesOn DEF MainAt
<1>2. \A place : Ahead(place) \in 0 .. 11 BY DEF Ahead
<1>3. ThreadSteps' \subseteq ThreadSteps
  <2>. SUFFICES ASSUME NEW x \in ThreadSteps' PROVE x \in ThreadSteps
    OBVIOUS
  <2>1. x \in Collections \X (1 .. 11) /\ x[2] <= Ahead(task'[x[1]])
    BY <1>1 DEF ThreadSteps, mainVars
  <2>2. x[2] <= Ahead(task[x[1]]) BY <1>1, <1>2, <2>1
  <2>. QED BY <2>1, <2>2 DEF ThreadSteps
<1>4. <<c, Ahead(task[c])>> \in ThreadSteps \ ThreadSteps'
  BY <1>1, <1>2 DEF ThreadSteps, mainVars
<1>5. Cardinality(ThreadSteps') < Cardinality(ThreadSteps)
  <2>1. /\ IsFiniteSet(ThreadSteps') /\ Cardinality(ThreadSteps) \in Nat
        /\ Cardinality(ThreadSteps') \in Nat
    BY <1>3, StepsLeftIsBounded, FS_Subset, FS_CardinalityType
  <2>. QED BY <1>3, <1>4, <2>1, StepsLeftIsBounded, FS_Subset
<1>6. MainAhead' = MainAhead BY <1>1 DEF MainAhead, mainVars
<1>7. MainAhead \in Nat BY DEF MainAhead
<1>8. StepsLeft' < StepsLeft
  BY <1>3, <1>5, <1>6, <1>7, StepsLeftIsBounded, FS_Subset, FS_CardinalityType
  DEF StepsLeft
<1>. QED BY <1>1, <1>8 DEF mainVars

\* The main thread's own steps start no thread that was not counted.
LEMMA MainShortens ==
  ASSUME step = "RUNNING", run' = run, MainAhead' < MainAhead,
         \/ mainPc \in {"locate", "prepare"}
         \/ mainPc' \notin {"locate", "prepare"} /\ UNCHANGED task
  PROVE  step = "RUNNING" /\ run' = run /\ StepsLeft' < StepsLeft
<1>1. ThreadSteps' \subseteq ThreadSteps
  BY DEF ThreadSteps
<1>2. /\ Cardinality(ThreadSteps') \in Nat /\ Cardinality(ThreadSteps) \in Nat
      /\ Cardinality(ThreadSteps') <= Cardinality(ThreadSteps)
  BY <1>1, StepsLeftIsBounded, FS_Subset, FS_CardinalityType
<1>3. MainAhead \in Nat /\ MainAhead' \in Nat BY DEF MainAhead
<1>. QED BY <1>2, <1>3 DEF StepsLeft

\* The main thread is over exactly when the step is.
OverTogether == (step = "RUNNING") <=> (mainPc # "over")

LEMMA OverTogetherHolds == Spec => []OverTogether
<1>1. Init => OverTogether
  BY DEF Init, OverTogether
<1>2. OverTogether /\ [Next]_vars => OverTogether'
  BY DEF OverTogether, Next, Main, LocateOutput, Prepare, PrepareFails,
         CollectResults, create_adg_status_csv, UploadFails, Stop, Relaunch, EndStep,
         MainAt, Thread, TakeCollection, ReadCollection, persist_json, TagObjects,
         StartPublishing, DropTable, CreateTable, CompleteCollection, MarkFailed,
         notify_of_collection_failure, vars, mainVars
<1>. QED BY <1>1, <1>2, PTL DEF Spec

\* Every run has a bounded number of steps ahead and each step leaves it fewer: no run
\* and no chain of runs goes round in a circle, whatever fails.
THEOREM RunsAreBounded == Spec => [](StepsLeft \in 0 .. MostSteps) /\ RunsGetShorter
<1>1. StepsLeft \in 0 .. MostSteps BY StepsLeftIsBounded
<1>2. TypeOK /\ OverTogether /\ TypeOK' /\ [Next]_vars =>
        [\/ step = "RUNNING" /\ run' = run /\ StepsLeft' < StepsLeft
         \/ step # "RUNNING" /\ run' = run + 1 /\ run' <= MaxRuns]_vars
  <2>. SUFFICES ASSUME TypeOK, OverTogether, TypeOK', Next
                PROVE  \/ step = "RUNNING" /\ run' = run /\ StepsLeft' < StepsLeft
                       \/ step # "RUNNING" /\ run' = run + 1 /\ run' <= MaxRuns
    OBVIOUS
  <2>1. ASSUME NEW c \in Collections, Thread(c)
        PROVE  step = "RUNNING" /\ run' = run /\ StepsLeft' < StepsLeft
    BY <2>1, ThreadShortens
  <2>2. CASE LocateOutput \/ Prepare \/ PrepareFails
    <3>1. step = "RUNNING" /\ run' = run /\ MainAhead' < MainAhead
          /\ mainPc \in {"locate", "prepare"}
      BY <2>2 DEF LocateOutput, Prepare, PrepareFails, EndStep, MainAt, MainAhead
    <3>. QED BY <3>1, MainShortens
  <2>3. CASE CollectResults \/ create_adg_status_csv \/ UploadFails \/ Stop
    <3>1. step = "RUNNING" /\ run' = run /\ MainAhead' < MainAhead /\ UNCHANGED task
          /\ mainPc' \notin {"locate", "prepare"}
      BY <2>3 DEF CollectResults, create_adg_status_csv, UploadFails, Stop, EndStep,
                  MainAt, MainAhead, OverTogether, TypeOK
    <3>. QED BY <3>1, MainShortens
  <2>4. CASE Relaunch
    BY <2>4 DEF Relaunch, TypeOK
  <2>. QED BY <2>1, <2>2, <2>3, <2>4 DEF Next, Main
<1>. QED
  BY <1>1, <1>2, TypeCorrect, OverTogetherHolds, PTL DEF Spec, RunsGetShorter

\* And nobody waits for a thread that cannot go on: the pool has a place for the
\* first that is queued, and the main thread waits for the threads alone.
THEOREM RunsAreNotStuck == Spec => []NobodyWaitsForever
<1>1. TypeOK /\ OverTogether => NobodyWaitsForever
  <2>. SUFFICES ASSUME TypeOK, mainPc = "pool", ~PoolIsOver
                PROVE  \E c \in Collections : CanMove(c)
    BY DEF NobodyWaitsForever, OverTogether, TypeOK
  <2>1. PICK c \in Collections : task[c] \notin AtRest
    BY DEF PoolIsOver
  <2>2. CASE \E d \in Collections : task[d] \notin AtRest \cup {"queued"}
    BY <2>2 DEF CanMove
  <2>3. CASE \A d \in Collections : task[d] \in AtRest \cup {"queued"}
    <3>1. Busy = {} BY <2>3 DEF Busy
    <3>2. Cardinality(Busy) < Workers BY <3>1, FS_EmptySet, DatasetAssumption
    <3>. QED BY <2>1, <3>2 DEF CanMove
  <2>. QED BY <2>2, <2>3
<1>. QED BY <1>1, TypeCorrect, OverTogetherHolds, PTL
=============================================================================
