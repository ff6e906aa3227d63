------------------------ MODULE AuditPublish_proofs ------------------------
(***************************************************************************)
(* For every number of days, threads and runs, and every fault: no managed *)
(* table ever holds a part of a day, the audit programs never repeat a     *)
(* day's rows, a run that ends has published every day whose thread did    *)
(* not raise, one that succeeds leaves no table of a day behind, and the   *)
(* equality programs can be repeated. The first rests on the order of a    *)
(* thread's work (statements run only when the day's objects are complete),*)
(* the second on there being no INSERT INTO among the audit statements,    *)
(* the others on the order of the statements within a script.              *)
(***************************************************************************)
EXTENDS AuditPublish, SequenceTheorems, FiniteSetTheorems, TLAPS

\* A thread that has written the day's objects finds them complete for as long
\* as it works on the day.
ObjectsAreThere ==
  \A d \in Days : task[d] \in {"tag", "sql", "ok"} => objects[d] = "full"

\* The invariant: the objects are there, and the rows came from them.
RowsInvariant == ObjectsAreThere /\ NoPartOfADay /\ AuditRowsOnce

-----------------------------------------------------------------------------
AllTables == Managed \cup External

Overwriting ==
  [op : {"create", "add_partition", "drop", "overwrite"},
   table : AllTables, from : AllTables]
  \cup [op : {"create_if"}, table : Managed, from : Managed]

Statements ==
  Overwriting \cup [op : {"create_at", "append"}, table : AllTables, from : AllTables]

LEMMA StatementKinds ==
  ASSUME NEW t \in AllTables, NEW s \in AllTables
  PROVE  /\ Create(t) \in Overwriting /\ AddPartition(t) \in Overwriting
         /\ Drop(t) \in Overwriting /\ InsertOverwrite(t, s) \in Overwriting
         /\ t \in Managed => CreateIf(t) \in Overwriting
         /\ CreateAt(t) \in Statements /\ InsertInto(t, s) \in Statements
<1>1. /\ Create(t) \in Overwriting /\ AddPartition(t) \in Overwriting
      /\ Drop(t) \in Overwriting /\ InsertOverwrite(t, s) \in Overwriting
  BY DEF Overwriting, Create, AddPartition, Drop, InsertOverwrite
<1>2. t \in Managed => CreateIf(t) \in Overwriting
  BY DEF Overwriting, CreateIf
<1>3. CreateAt(t) \in Statements /\ InsertInto(t, s) \in Statements
  BY DEF Statements, CreateAt, InsertInto
<1>. QED BY <1>1, <1>2, <1>3

\* The statements of the audit programs only ever overwrite.
LEMMA AuditScripts ==
  ASSUME NEW j \in AuditJobs
  PROVE  Script(j) \in Seq(Overwriting)
<1>. DEFINE O == Overwriting
<1>0. ASSUME NEW t \in AllTables, NEW s \in AllTables
      PROVE  /\ Create(t) \in O /\ AddPartition(t) \in O /\ Drop(t) \in O
             /\ InsertOverwrite(t, s) \in O
             /\ t \in Managed => CreateIf(t) \in O
  BY StatementKinds
<1>. HIDE DEF O
<1>1. raw_statements \in Seq(O)
  BY <1>0 DEF AllTables, Managed, External, raw_statements
<1>2. managed_statements \in Seq(O)
  BY <1>0 DEF AllTables, Managed, External, managed_statements
<1>3. view_statements \in Seq(O)
  BY <1>0 DEF AllTables, Managed, External, view_statements
<1>4. CASE j = "daily_audit"
  <2>1. <<CreateIf("auditlog_raw"), Drop("auditlog_raw_external")>> \in Seq(O)
    BY <1>0 DEF AllTables, Managed, External
  <2>2. Script(j) = <<CreateIf("auditlog_raw"), Drop("auditlog_raw_external")>>
                      \o raw_statements \o managed_statements \o view_statements
    BY <1>4 DEF Script
  <2>. QED BY <1>1, <1>2, <1>3, <2>1, <2>2, ConcatProperties DEF O
<1>5. CASE j = "historical_audit"
  <2>1. <<CreateIf("auditlog_raw")>> \in Seq(O)
    BY <1>0 DEF AllTables, Managed, External
  <2>2. Script(j) = <<CreateIf("auditlog_raw")>> \o raw_statements \o managed_statements
    BY <1>5 DEF Script
  <2>. QED BY <1>1, <1>2, <2>1, <2>2, ConcatProperties DEF O
<1>. QED BY <1>4, <1>5 DEF AuditJobs

LEMMA EqualityScripts ==
  ASSUME NEW j \in EqualityJobs
  PROVE  Script(j) \in Seq(Statements)
<1>. DEFINE O == Statements
<1>0. ASSUME NEW t \in AllTables, NEW s \in AllTables
      PROVE  /\ Drop(t) \in O /\ CreateAt(t) \in O /\ InsertInto(t, s) \in O
             /\ t \in Managed => CreateIf(t) \in O
  BY StatementKinds DEF Statements
<1>. HIDE DEF O
<1>1. equality_statements \in Seq(O)
  BY <1>0 DEF AllTables, Managed, External, equality_statements
<1>2. CASE j = "daily_equality"
  BY <1>1, <1>2 DEF Script, O
<1>3. CASE j = "historical_equality"
  <2>1. <<CreateIf("equality_managed")>> \in Seq(O)
    BY <1>0 DEF AllTables, Managed, External
  <2>2. Script(j) = <<CreateIf("equality_managed")>> \o equality_statements
    BY <1>3 DEF Script
  <2>. QED BY <1>1, <2>1, <2>2, ConcatProperties DEF O
<1>. QED BY <1>2, <1>3 DEF EqualityJobs

\* The statement a thread is at is one of the script of its program.
LEMMA StatementType ==
  ASSUME TypeOK, NEW d \in Days, at[d] <= Len(Script(job))
  PROVE  /\ Statement(d) \in Statements
         /\ job \in AuditJobs => Statement(d) \in Overwriting
<1>1. at[d] \in Nat /\ at[d] >= 1
  BY DEF TypeOK
<1>2. CASE job \in AuditJobs
  <2>1. Script(job) \in Seq(Overwriting)
    BY <1>2, AuditScripts
  <2>2. at[d] \in 1 .. Len(Script(job))
    BY <1>1, <2>1
  <2>. QED BY <2>1, <2>2, ElementOfSeq DEF Statement, Statements
<1>3. CASE job \in EqualityJobs /\ job \notin AuditJobs
  <2>1. Script(job) \in Seq(Statements)
    BY <1>3, EqualityScripts
  <2>2. at[d] \in 1 .. Len(Script(job))
    BY <1>1, <2>1
  <2>. QED BY <1>3, <2>1, <2>2, ElementOfSeq DEF Statement
<1>. QED BY <1>2, <1>3, AuditAssumption DEF TypeOK

\* What a table shows of a day is something a managed table may hold.
LEMMA ShownType ==
  ASSUME TypeOK, NEW t, NEW d \in Days
  PROVE  Shown(t, d) \in Contents
BY DEF TypeOK, Shown, Contents

-----------------------------------------------------------------------------
\* Changing one cell of a table of tables keeps its kind.
LEMMA CellType ==
  ASSUME NEW A, NEW B, NEW C, NEW f \in [A -> [B -> C]], NEW a, NEW b,
         NEW v, a \in A => v \in C
  PROVE  [f EXCEPT ![a][b] = v] \in [A -> [B -> C]]
OBVIOUS

\* What a statement does to Hive, or leaves when it fails, is of the right kind.
LEMMA HiveType ==
  ASSUME TypeOK, NEW d \in Days, NEW q \in Statements,
         Effect(q, d) \/ Undone(q, d)
  PROVE  /\ external' \in [External -> [Days -> {"none", "created", "located"}]]
         /\ tables' \subseteq Managed
         /\ rows' \in [Managed -> [Days -> Contents]]
<1>. USE DEF TypeOK
<1>1. ASSUME NEW v \in {"none", "created", "located"}, SetExternal(q, d, v)
      PROVE  external' \in [External -> [Days -> {"none", "created", "located"}]]
             /\ UNCHANGED <<tables, rows>>
  BY <1>1, CellType DEF SetExternal
<1>2. ASSUME NEW v, q.table \in Managed => v \in Contents, SetRows(q, d, v)
      PROVE  rows' \in [Managed -> [Days -> Contents]]
             /\ UNCHANGED <<external, tables>>
  <2>1. /\ rows' = [rows EXCEPT ![q.table][d] = v]
        /\ UNCHANGED <<external, tables>>
    BY <1>2 DEF SetRows
  <2>. DEFINE t == q.table
              C == Contents
  <2>2. rows \in [Managed -> [Days -> C]] /\ (t \in Managed => v \in C)
    BY <1>2
  <2>. HIDE DEF t, C
  <2>3. [rows EXCEPT ![t][d] = v] \in [Managed -> [Days -> C]]
    BY <2>2, CellType
  <2>. QED BY <2>1, <2>3 DEF t, C
<1>3. Shown(q.from, d) \in Contents
  BY ShownType
<1>4. q.table \in Managed => rows[q.table][d] \in Contents
  OBVIOUS
<1>5. "none" \in Contents /\ "twice" \in Contents
  BY DEF Contents
<1>6. CASE q.op = "create" /\ SetExternal(q, d, "created")
  BY <1>6, <1>1
<1>7. CASE q.op \in {"create_at", "add_partition"} /\ SetExternal(q, d, "located")
  BY <1>7, <1>1
<1>8. CASE q.op = "drop" /\ SetExternal(q, d, "none")
  BY <1>8, <1>1
<1>9. CASE q.op = "create_if" /\ tables' = tables \cup {q.table}
             /\ UNCHANGED <<external, rows>>
  <2>1. q.table \in Managed
    BY <1>9 DEF Statements, Overwriting
  <2>. QED BY <1>9, <2>1
<1>10. CASE q.op = "overwrite" /\ SetRows(q, d,
              IF Shown(q.from, d) = "none" THEN rows[q.table][d] ELSE Shown(q.from, d))
  BY <1>10, <1>2, <1>3, <1>4
<1>11. CASE q.op = "append" /\ SetRows(q, d,
              IF rows[q.table][d] = "none" THEN Shown(q.from, d) ELSE "twice")
  BY <1>11, <1>2, <1>3, <1>5
<1>12. CASE UNCHANGED hiveVars
  BY <1>12 DEF hiveVars
<1>13. CASE SetRows(q, d, "none")
  BY <1>13, <1>2, <1>5
<1>. QED BY <1>6, <1>7, <1>8, <1>9, <1>10, <1>11, <1>12, <1>13 DEF Effect, Undone
-----------------------------------------------------------------------------
\* Every variable of the model keeps its kind.
THEOREM TypeCorrect == Spec => []TypeOK
<1>1. Init => TypeOK
  <2>. SUFFICES ASSUME Init PROVE TypeOK
    OBVIOUS
  <2>1. days \subseteq Days
    BY AuditAssumption DEF Init, selected_dates, Days
  <2>2. task \in [Days -> AtRest \cup {"queued", "read", "persist", "tag", "sql"}]
    BY DEF Init, Queue, AtRest
  <2>3. at \in [Days -> Nat \ {0}] /\ run \in 1 .. MaxRuns
    BY AuditAssumption DEF Init
  <2>4. faulted \in BOOLEAN
    BY DEF Init
  <2>5. /\ objects \in [Days -> {"none", "partial", "full"}]
        /\ external \in [External -> [Days -> {"none", "created", "located"}]]
        /\ tables \subseteq Managed
        /\ rows \in [Managed -> [Days -> Contents]]
    BY AuditAssumption DEF Init, Contents
  <2>. QED BY <2>1, <2>2, <2>3, <2>4, <2>5 DEF Init, TypeOK
<1>2. TypeOK /\ [Next]_vars => TypeOK'
  <2>. SUFFICES ASSUME TypeOK, [Next]_vars PROVE TypeOK'
    OBVIOUS
  <2>1. CASE CollectResults
    BY <2>1 DEF CollectResults, TypeOK, hiveVars
  <2>2. CASE Stop
    BY <2>2 DEF Stop, TypeOK, hiveVars
  <2>3. CASE Relaunch
    <3>1. task' \in [Days -> AtRest \cup {"queued", "read", "persist", "tag", "sql"}]
      BY <2>3 DEF Relaunch, TypeOK, Queue, AtRest
    <3>2. at' \in [Days -> Nat \ {0}] /\ run' \in 1 .. MaxRuns
      BY <2>3, AuditAssumption DEF Relaunch, TypeOK
    <3>3. faulted' \in BOOLEAN
      BY <2>3 DEF Relaunch
    <3>. QED BY <2>3, <3>1, <3>2, <3>3 DEF Relaunch, TypeOK, hiveVars
  <2>4. ASSUME NEW d \in Days, Thread(d) PROVE TypeOK'
    <3>1. CASE TakeDay(d)
      BY <3>1 DEF TakeDay, GoTo, TypeOK, hiveVars
    <3>2. CASE ReadDay(d)
      BY <3>2 DEF ReadDay, GoTo, SetObjects, Raises, TypeOK, AtRest, hiveVars
    <3>3. CASE persist_json(d)
      BY <3>3 DEF persist_json, GoTo, SetObjects, Raises, TypeOK, AtRest, hiveVars
    <3>4. CASE tag_objects(d)
      <4>1. at' \in [Days -> Nat \ {0}]
        BY <3>4 DEF tag_objects, GoTo, Raises, TypeOK, AtRest, hiveVars
      <4>2. task' \in [Days -> AtRest \cup {"queued", "read", "persist", "tag", "sql"}]
        BY <3>4 DEF tag_objects, GoTo, Raises, TypeOK, AtRest, hiveVars
      <4>3. faulted' \in BOOLEAN
        BY <3>4 DEF tag_objects, GoTo, Raises, TypeOK, AtRest, hiveVars
      <4>. QED BY <3>4, <4>1, <4>2, <4>3 DEF tag_objects, TypeOK, hiveVars
    <3>5. CASE execute_queries(d)
      <4>1. at' \in [Days -> Nat \ {0}]
        <5>1. at' = [at EXCEPT ![d] = @ + 1] \/ at' = at
          BY <3>5, Zenon DEF execute_queries
        <5>2. at \in [Days -> Nat \ {0}]
          BY DEF TypeOK
        <5>. QED BY <5>1, <5>2
      <4>2. task' \in [Days -> AtRest \cup {"queued", "read", "persist", "tag", "sql"}]
        <5>1. task' = [task EXCEPT ![d] = "raised"] \/ task' = task
          BY <3>5, Zenon DEF execute_queries, GoTo, Raises
        <5>. QED BY <5>1 DEF TypeOK, AtRest
      <4>3. faulted' \in BOOLEAN
        <5>1. faulted' = TRUE \/ faulted' = faulted
          BY <3>5, Zenon DEF execute_queries, Raises
        <5>. QED BY <5>1 DEF TypeOK
      <4>4. /\ external' \in [External -> [Days -> {"none", "created", "located"}]]
            /\ tables' \subseteq Managed
            /\ rows' \in [Managed -> [Days -> Contents]]
        <5>1. CASE Effect(Statement(d), d) \/ Undone(Statement(d), d)
          <6>1. Statement(d) \in Statements
            BY <3>5, StatementType DEF execute_queries
          <6>. QED BY <5>1, <6>1, HiveType
        <5>2. CASE UNCHANGED hiveVars
          BY <5>2 DEF hiveVars, TypeOK
        <5>. QED BY <3>5, <5>1, <5>2 DEF execute_queries
      <4>. QED BY <3>5, <4>1, <4>2, <4>3, <4>4 DEF execute_queries, TypeOK
    <3>6. CASE FinishDay(d)
      BY <3>6 DEF FinishDay, GoTo, TypeOK, AtRest, hiveVars
    <3>. QED BY <2>4, <3>1, <3>2, <3>3, <3>4, <3>5, <3>6 DEF Thread
  <2>5. CASE UNCHANGED vars
    BY <2>5 DEF vars, hiveVars, TypeOK
  <2>. QED BY <2>1, <2>2, <2>3, <2>4, <2>5 DEF Next
<1>. QED BY <1>1, <1>2, PTL DEF Spec

-----------------------------------------------------------------------------
\* A statement executed on a day whose objects are complete leaves whole days in
\* the managed tables, and no day twice when it is one of an audit script.
LEMMA HiveStep ==
  ASSUME TypeOK, RowsInvariant, NEW d \in Days, NEW q \in Statements,
         objects[d] = "full",
         job \in AuditJobs => q \in Overwriting,
         Effect(q, d) \/ Undone(q, d), job' = job
  PROVE  NoPartOfADay' /\ AuditRowsOnce'
<1>. DEFINE Good(v) == v # "partial" /\ (job \in AuditJobs => v # "twice")
<1>0. \A t \in Managed, e \in Days : Good(rows[t][e])
  BY DEF RowsInvariant, NoPartOfADay, AuditRowsOnce, RowsOnceFor
<1>1. SUFFICES \A t \in Managed, e \in Days : Good(rows'[t][e])
  BY DEF NoPartOfADay, AuditRowsOnce, RowsOnceFor
<1>2. Good(Shown(q.from, d))
  BY <1>0 DEF Shown
<1>3. ASSUME NEW v, q.table \in Managed => Good(v), SetRows(q, d, v)
      PROVE  \A t \in Managed, e \in Days : Good(rows'[t][e])
  BY <1>0, <1>3 DEF SetRows, TypeOK
<1>4. CASE UNCHANGED rows
  BY <1>0, <1>4
<1>5. CASE SetRows(q, d, "none")
  BY <1>3, <1>5
<1>6. CASE q.op = "overwrite" /\ SetRows(q, d,
             IF Shown(q.from, d) = "none" THEN rows[q.table][d] ELSE Shown(q.from, d))
  BY <1>0, <1>2, <1>3, <1>6
<1>7. CASE q.op = "append" /\ SetRows(q, d,
             IF rows[q.table][d] = "none" THEN Shown(q.from, d) ELSE "twice")
  <2>1. job \notin AuditJobs
    BY <1>7 DEF Overwriting
  <2>. QED BY <1>2, <1>3, <1>7, <2>1
<1>. QED BY <1>4, <1>5, <1>6, <1>7 DEF Effect, Undone, SetExternal, hiveVars

\* The objects a thread publishes are complete, and so are the days it has put
\* into the managed tables; those of the audit programs are there once.
THEOREM RowsInvariantHolds == Spec => []RowsInvariant
<1>1. Init => RowsInvariant
  BY DEF Init, Queue, RowsInvariant, ObjectsAreThere, NoPartOfADay, AuditRowsOnce,
         RowsOnceFor
<1>2. TypeOK /\ RowsInvariant /\ [Next]_vars => RowsInvariant'
  <2>. SUFFICES ASSUME TypeOK, RowsInvariant, [Next]_vars PROVE RowsInvariant'
    OBVIOUS
  <2>0. ASSUME UNCHANGED <<job, rows>> PROVE NoPartOfADay' /\ AuditRowsOnce'
    BY <2>0 DEF RowsInvariant, NoPartOfADay, AuditRowsOnce, RowsOnceFor
  <2>1. CASE CollectResults \/ Stop
    BY <2>0, <2>1 DEF CollectResults, Stop, hiveVars, RowsInvariant, ObjectsAreThere
  <2>2. CASE Relaunch
    BY <2>0, <2>2 DEF Relaunch, Queue, hiveVars, RowsInvariant, ObjectsAreThere
  <2>3. ASSUME NEW d \in Days, Thread(d) PROVE RowsInvariant'
    <3>. USE DEF RowsInvariant, ObjectsAreThere, TypeOK
    <3>1. CASE TakeDay(d)
      BY <2>0, <3>1 DEF TakeDay, GoTo, hiveVars
    <3>2. CASE ReadDay(d)
      BY <2>0, <3>2 DEF ReadDay, ThreadAt, GoTo, SetObjects, Raises, hiveVars
    <3>3. CASE persist_json(d)
      BY <2>0, <3>3 DEF persist_json, ThreadAt, GoTo, SetObjects, Raises, hiveVars
    <3>4. CASE tag_objects(d)
      BY <2>0, <3>4 DEF tag_objects, ThreadAt, GoTo, Raises, hiveVars
    <3>5. CASE execute_queries(d)
      <4>1. objects[d] = "full" /\ UNCHANGED <<objects, job>>
        BY <3>5 DEF execute_queries, ThreadAt
      <4>2. ObjectsAreThere'
        BY <3>5, <4>1 DEF execute_queries, GoTo, Raises
      <4>3. CASE Effect(Statement(d), d) \/ Undone(Statement(d), d)
        <5>1. /\ Statement(d) \in Statements
              /\ job \in AuditJobs => Statement(d) \in Overwriting
          BY <3>5, StatementType DEF execute_queries
        <5>. QED BY <4>1, <4>2, <4>3, <5>1, HiveStep
      <4>4. CASE UNCHANGED hiveVars
        BY <2>0, <4>1, <4>2, <4>4 DEF hiveVars
      <4>. QED BY <3>5, <4>3, <4>4 DEF execute_queries
    <3>6. CASE FinishDay(d)
      BY <2>0, <3>6 DEF FinishDay, ThreadAt, GoTo, hiveVars
    <3>. QED BY <2>3, <3>1, <3>2, <3>3, <3>4, <3>5, <3>6 DEF Thread
  <2>4. CASE UNCHANGED vars
    BY <2>0, <2>4 DEF vars, hiveVars, RowsInvariant, ObjectsAreThere
  <2>. QED BY <2>1, <2>2, <2>3, <2>4 DEF Next
<1>. QED BY <1>1, <1>2, TypeCorrect, PTL DEF Spec

\* No managed table ever holds a part of a day, whatever fails and however often
\* a day is repeated.
THEOREM DaysAreWhole == Spec => []NoPartOfADay
<1>1. RowsInvariant => NoPartOfADay
  BY DEF RowsInvariant
<1>. QED BY <1>1, RowsInvariantHolds, PTL

\* However often they repeat a day, the audit programs have its rows once.
THEOREM AuditRepeatsAreHarmless == Spec => []AuditRowsOnce
<1>1. RowsInvariant => AuditRowsOnce
  BY DEF RowsInvariant
<1>. QED BY <1>1, RowsInvariantHolds, PTL
-----------------------------------------------------------------------------
(***************************************************************************)
(* What a script has done when it has come to a statement. The four        *)
(* scripts differ, so this is said of any sequence of statements that is   *)
(* in order, and then shown of each script that it is.                     *)
(***************************************************************************)
Makes   == {"create", "create_at", "add_partition", "drop"}
Locates == {"create_at", "add_partition"}
Fills   == {"overwrite", "append"}

\* The statements between k and i leave the table of k alone.
Quiet(s, k, i) == \A m \in k + 1 .. i - 1 : s[m].table # s[k].table

\* An earlier statement of one of these kinds has the last word on a table.
LastWord(s, i, ops, t) ==
  \E k \in 1 .. i - 1 : s[k].op \in ops /\ s[k].table = t /\ Quiet(s, k, i)

\* The day's tables are external and the filled ones managed; a table is filled
\* from a table of the day that is located, or from a managed one already filled.
FilledInOrder(s) ==
  \A i \in 1 .. Len(s) :
    /\ s[i].op \in Makes => s[i].table \in External
    /\ s[i].op \in Fills =>
         /\ s[i].table \in Managed
         /\ \/ s[i].from \in External /\ LastWord(s, i, Locates, s[i].from)
            \/ /\ s[i].from \in Managed
               /\ \E k \in 1 .. i - 1 : s[k].op \in Fills /\ s[k].table = s[i].from

\* In the end the tables of the day are dropped, and the targets filled.
EndsClean(s, j) ==
  /\ \A t \in External : \/ \A k \in 1 .. Len(s) : s[k].table # t
                         \/ LastWord(s, Len(s) + 1, {"drop"}, t)
  /\ \A t \in Targets(j) : \E k \in 1 .. Len(s) : s[k].op \in Fills /\ s[k].table = t

\* No statement of an equality script finds a table it must not find, or misses one.
NeverRefused(s, j) ==
  \A i \in 1 .. Len(s) :
    /\ s[i].op # "create" /\ s[i].op \notin {"overwrite", "add_partition"}
    /\ s[i].op = "create_at" => LastWord(s, i, {"drop"}, s[i].table)
    /\ s[i].op = "append" =>
         /\ s[i].from \in External /\ LastWord(s, i, Locates, s[i].from)
         /\ s[i].table \in Managed
         /\ \/ s[i].table = "equality_managed" /\ j = "daily_equality"
            \/ \E k \in 1 .. i - 1 : s[k].op = "create_if" /\ s[k].table = s[i].table

LEMMA HistoricalAuditScript ==
  LET s == Script("historical_audit") IN
  /\ Len(s) = 10
  /\ s[1] = CreateIf("auditlog_raw")
  /\ s[2] = Create("auditlog_raw_external") /\ s[3] = AddPartition("auditlog_raw_external")
  /\ s[4] = InsertOverwrite("auditlog_raw", "auditlog_raw_external")
  /\ s[5] = Drop("auditlog_raw_external")
  /\ s[6] = CreateIf("auditlog_managed")
  /\ s[7] = Create("auditlog") /\ s[8] = AddPartition("auditlog")
  /\ s[9] = InsertOverwrite("auditlog_managed", "auditlog") /\ s[10] = Drop("auditlog")
BY DEF Script, raw_statements, managed_statements

LEMMA DailyAuditScript ==
  LET s == Script("daily_audit") IN
  /\ Len(s) = 15
  /\ s[1] = CreateIf("auditlog_raw") /\ s[2] = Drop("auditlog_raw_external")
  /\ s[3] = Create("auditlog_raw_external") /\ s[4] = AddPartition("auditlog_raw_external")
  /\ s[5] = InsertOverwrite("auditlog_raw", "auditlog_raw_external")
  /\ s[6] = Drop("auditlog_raw_external")
  /\ s[7] = CreateIf("auditlog_managed")
  /\ s[8] = Create("auditlog") /\ s[9] = AddPartition("auditlog")
  /\ s[10] = InsertOverwrite("auditlog_managed", "auditlog") /\ s[11] = Drop("auditlog")
  /\ s[12] = CreateIf("auditlog_sec_v")
  /\ s[13] = InsertOverwrite("auditlog_sec_v", "auditlog_managed")
  /\ s[14] = CreateIf("auditlog_red_v")
  /\ s[15] = InsertOverwrite("auditlog_red_v", "auditlog_managed")
BY DEF Script, raw_statements, managed_statements, view_statements

LEMMA EqualityScript ==
  /\ LET s == Script("daily_equality") IN
     /\ Len(s) = 4
     /\ s[1] = Drop("equality") /\ s[2] = CreateAt("equality")
     /\ s[3] = InsertInto("equality_managed", "equality") /\ s[4] = Drop("equality")
  /\ LET s == Script("historical_equality") IN
     /\ Len(s) = 5
     /\ s[1] = CreateIf("equality_managed")
     /\ s[2] = Drop("equality") /\ s[3] = CreateAt("equality")
     /\ s[4] = InsertInto("equality_managed", "equality") /\ s[5] = Drop("equality")
BY DEF Script, equality_statements

LEMMA EqualityInOrder ==
  ASSUME NEW j \in EqualityJobs
  PROVE  FilledInOrder(Script(j)) /\ EndsClean(Script(j), j) /\ NeverRefused(Script(j), j)
<1>. USE DEF Drop, CreateAt, InsertInto, CreateIf, External, Managed, Makes, Fills, Locates
<1>1. Targets(j) = {"equality_managed"}
  BY DEF Targets, EqualityJobs
<1>2. CASE j = "daily_equality"
  <2>1. ASSUME NEW s,
               Len(s) = 4, s[1] = Drop("equality"), s[2] = CreateAt("equality"),
               s[3] = InsertInto("equality_managed", "equality"), s[4] = Drop("equality")
        PROVE  FilledInOrder(s) /\ EndsClean(s, j) /\ NeverRefused(s, j)
    <3>1. Quiet(s, 1, 2) /\ Quiet(s, 2, 3) /\ Quiet(s, 4, 5)
      BY <2>1 DEF Quiet
    <3>2. /\ LastWord(s, 2, {"drop"}, "equality")
          /\ LastWord(s, 3, Locates, "equality")
          /\ LastWord(s, 5, {"drop"}, "equality")
      BY <2>1, <3>1 DEF LastWord
    <3>3. FilledInOrder(s) BY <2>1, <3>2 DEF FilledInOrder
    <3>4. NeverRefused(s, j) BY <1>2, <2>1, <3>2 DEF NeverRefused
    <3>5. EndsClean(s, j) BY <1>1, <2>1, <3>2 DEF EndsClean
    <3>. QED BY <3>3, <3>4, <3>5
  <2>. QED BY <1>2, <2>1, EqualityScript
<1>3. CASE j = "historical_equality"
  <2>1. ASSUME NEW s,
               Len(s) = 5, s[1] = CreateIf("equality_managed"),
               s[2] = Drop("equality"), s[3] = CreateAt("equality"),
               s[4] = InsertInto("equality_managed", "equality"), s[5] = Drop("equality")
        PROVE  FilledInOrder(s) /\ EndsClean(s, j) /\ NeverRefused(s, j)
    <3>1. Quiet(s, 2, 3) /\ Quiet(s, 3, 4) /\ Quiet(s, 5, 6)
      BY <2>1 DEF Quiet
    <3>2. /\ LastWord(s, 3, {"drop"}, "equality")
          /\ LastWord(s, 4, Locates, "equality")
          /\ LastWord(s, 6, {"drop"}, "equality")
      BY <2>1, <3>1 DEF LastWord
    <3>3. FilledInOrder(s) BY <2>1, <3>2 DEF FilledInOrder
    <3>4. NeverRefused(s, j) BY <2>1, <3>2 DEF NeverRefused
    <3>5. EndsClean(s, j) BY <1>1, <2>1, <3>2 DEF EndsClean
    <3>. QED BY <3>3, <3>4, <3>5
  <2>. QED BY <1>3, <2>1, EqualityScript
<1>. QED BY <1>2, <1>3 DEF EqualityJobs

LEMMA AuditInOrder ==
  ASSUME NEW j \in AuditJobs
  PROVE  FilledInOrder(Script(j)) /\ EndsClean(Script(j), j)
<1>0. /\ Targets("historical_audit") = {"auditlog_raw", "auditlog_managed"}
      /\ Targets("daily_audit") = Managed \ {"equality_managed"}
  BY DEF Targets, EqualityJobs
<1>. USE DEF Create, AddPartition, Drop, CreateIf, InsertOverwrite, External, Managed,
             Makes, Fills, Locates
<1>1. CASE j = "historical_audit"
  <2>0. Targets(j) = {"auditlog_raw", "auditlog_managed"}
    BY <1>0, <1>1
  <2>1. ASSUME NEW s,
               Len(s) = 10,
               s[1] = CreateIf("auditlog_raw"),
               s[2] = Create("auditlog_raw_external"),
               s[3] = AddPartition("auditlog_raw_external"),
               s[4] = InsertOverwrite("auditlog_raw", "auditlog_raw_external"),
               s[5] = Drop("auditlog_raw_external"),
               s[6] = CreateIf("auditlog_managed"),
               s[7] = Create("auditlog"), s[8] = AddPartition("auditlog"),
               s[9] = InsertOverwrite("auditlog_managed", "auditlog"),
               s[10] = Drop("auditlog")
        PROVE  FilledInOrder(s) /\ EndsClean(s, j)
    <3>1. Quiet(s, 3, 4) /\ Quiet(s, 5, 11) /\ Quiet(s, 8, 9) /\ Quiet(s, 10, 11)
      BY <2>1 DEF Quiet
    <3>2. /\ LastWord(s, 4, Locates, "auditlog_raw_external")
          /\ LastWord(s, 9, Locates, "auditlog")
          /\ LastWord(s, 11, {"drop"}, "auditlog_raw_external")
          /\ LastWord(s, 11, {"drop"}, "auditlog")
      BY <2>1, <3>1 DEF LastWord
    <3>3. FilledInOrder(s) BY <2>1, <3>2 DEF FilledInOrder
    <3>4. EndsClean(s, j) BY <2>0, <2>1, <3>2 DEF EndsClean
    <3>. QED BY <3>3, <3>4
  <2>. QED BY <1>1, <2>1, HistoricalAuditScript
<1>2. CASE j = "daily_audit"
  <2>0. Targets(j) = {"auditlog_raw", "auditlog_managed", "auditlog_sec_v",
                      "auditlog_red_v"}
    BY <1>0, <1>2
  <2>1. ASSUME NEW s,
               Len(s) = 15,
               s[1] = CreateIf("auditlog_raw"), s[2] = Drop("auditlog_raw_external"),
               s[3] = Create("auditlog_raw_external"),
               s[4] = AddPartition("auditlog_raw_external"),
               s[5] = InsertOverwrite("auditlog_raw", "auditlog_raw_external"),
               s[6] = Drop("auditlog_raw_external"),
               s[7] = CreateIf("auditlog_managed"),
               s[8] = Create("auditlog"), s[9] = AddPartition("auditlog"),
               s[10] = InsertOverwrite("auditlog_managed", "auditlog"),
               s[11] = Drop("auditlog"),
               s[12] = CreateIf("auditlog_sec_v"),
               s[13] = InsertOverwrite("auditlog_sec_v", "auditlog_managed"),
               s[14] = CreateIf("auditlog_red_v"),
               s[15] = InsertOverwrite("auditlog_red_v", "auditlog_managed")
        PROVE  FilledInOrder(s) /\ EndsClean(s, j)
    <3>1. Quiet(s, 4, 5) /\ Quiet(s, 6, 16) /\ Quiet(s, 9, 10) /\ Quiet(s, 11, 16)
      BY <2>1 DEF Quiet
    <3>2. /\ LastWord(s, 5, Locates, "auditlog_raw_external")
          /\ LastWord(s, 10, Locates, "auditlog")
          /\ LastWord(s, 16, {"drop"}, "auditlog_raw_external")
          /\ LastWord(s, 16, {"drop"}, "auditlog")
      BY <2>1, <3>1 DEF LastWord
    <3>3. FilledInOrder(s)
      <4>1. ASSUME NEW i \in 1 .. Len(s), s[i].op \in Fills
            PROVE  i \in {5, 10, 13, 15}
        BY <2>1, <4>1
      <4>2. s[10].op \in Fills /\ s[10].table = "auditlog_managed" /\ 10 \in 1 .. 12
        BY <2>1
      <4>. QED BY <2>1, <3>2, <4>1, <4>2 DEF FilledInOrder
    <3>4. EndsClean(s, j) BY <2>0, <2>1, <3>2 DEF EndsClean
    <3>. QED BY <3>3, <3>4
  <2>. QED BY <1>2, <2>1, DailyAuditScript
<1>. QED BY <1>1, <1>2 DEF AuditJobs

LEMMA ScriptsInOrder ==
  ASSUME TypeOK
  PROVE  FilledInOrder(Script(job)) /\ EndsClean(Script(job), job)
BY EqualityInOrder, AuditInOrder, AuditAssumption DEF TypeOK

-----------------------------------------------------------------------------
(***************************************************************************)
(* How far each day has come.                                              *)
(***************************************************************************)

\* What the statement at k has done is still there when the thread is at i.
Stands(d, k, i) ==
  LET s == Script(job) IN
  /\ s[k].op \in Fills => rows[s[k].table][d] # "none"
  /\ s[k].op \in Locates /\ Quiet(s, k, i) => external[s[k].table][d] = "located"
  /\ s[k].op = "drop" /\ Quiet(s, k, i) => external[s[k].table][d] = "none"
  /\ s[k].op = "create_if" => s[k].table \in tables

DaysInOrder ==
  \A d \in Days :
    /\ task[d] = "idle" <=> d \notin days
    /\ task[d] = "sql" => at[d] <= Len(Script(job)) + 1
    /\ task[d] = "ok" => at[d] = Len(Script(job)) + 1
    /\ task[d] \in {"sql", "ok"} => \A k \in 1 .. at[d] - 1 : Stands(d, k, at[d])

\* Tables of a day are those of the program, and of its range.
OwnTables ==
  \A t \in External, d \in Days : external[t][d] # "none" =>
    d \in days /\ \E k \in 1 .. Len(Script(job)) : Script(job)[k].table = t

RunsInOrder ==
  /\ step \in {"COMPLETED", "FAILED"} => PoolIsOver
  /\ step = "COMPLETED" => NoneRaised
  /\ step = "FAILED" => ~NoneRaised

ProgressInvariant == DaysInOrder /\ OwnTables /\ RunsInOrder

\* A statement touches the day of its thread only, and takes no managed table away.
LEMMA OtherDays ==
  ASSUME TypeOK, NEW d \in Days, NEW q, Effect(q, d) \/ Undone(q, d)
  PROVE  /\ \A e \in Days \ {d} :
              /\ \A t \in External : external'[t][e] = external[t][e]
              /\ \A t \in Managed : rows'[t][e] = rows[t][e]
         /\ tables \subseteq tables'
<1>1. ASSUME NEW v, SetExternal(q, d, v)
      PROVE  \A e \in Days \ {d}, t \in External : external'[t][e] = external[t][e]
  BY <1>1 DEF SetExternal, TypeOK
<1>2. ASSUME NEW v, SetRows(q, d, v)
      PROVE  \A e \in Days \ {d}, t \in Managed : rows'[t][e] = rows[t][e]
  BY <1>2 DEF SetRows, TypeOK
<1>3. \/ \E v : SetExternal(q, d, v)
      \/ \E v : SetRows(q, d, v)
      \/ tables \subseteq tables' /\ UNCHANGED <<external, rows>>
  BY DEF Effect, Undone, hiveVars
<1>. QED BY <1>1, <1>2, <1>3 DEF SetExternal, SetRows

\* What a statement that is executed does to the day.
LEMMA OwnDay ==
  ASSUME TypeOK, NEW d \in Days, NEW q \in Statements, Effect(q, d)
  PROVE  /\ \A t \in Managed : rows[t][d] # "none" => rows'[t][d] # "none"
         /\ q.op \in Fills /\ q.table \in Managed /\ Shown(q.from, d) # "none" =>
              rows'[q.table][d] # "none"
         /\ \A t \in External : t # q.table => external'[t][d] = external[t][d]
         /\ q.table \in External /\ q.op \in Locates => external'[q.table][d] = "located"
         /\ q.table \in External /\ q.op = "drop" => external'[q.table][d] = "none"
         /\ q.op = "create_if" => q.table \in tables'
<1>. USE DEF Fills, Locates
<1>1. ASSUME NEW v, SetExternal(q, d, v)
      PROVE  /\ \A t \in External : t # q.table => external'[t][d] = external[t][d]
             /\ q.table \in External => external'[q.table][d] = v
             /\ UNCHANGED <<tables, rows>>
  BY <1>1 DEF SetExternal, TypeOK
<1>2. ASSUME NEW v, SetRows(q, d, v)
      PROVE  /\ \A t \in Managed : t # q.table => rows'[t][d] = rows[t][d]
             /\ q.table \in Managed => rows'[q.table][d] = v
             /\ UNCHANGED <<tables, external>>
  BY <1>2 DEF SetRows, TypeOK
<1>3. CASE q.op = "create" /\ SetExternal(q, d, "created")
  BY <1>1, <1>3
<1>4. CASE q.op \in {"create_at", "add_partition"} /\ SetExternal(q, d, "located")
  BY <1>1, <1>4
<1>5. CASE q.op = "drop" /\ SetExternal(q, d, "none")
  BY <1>1, <1>5
<1>6. CASE q.op = "create_if" /\ tables' = tables \cup {q.table}
             /\ UNCHANGED <<external, rows>>
  BY <1>6
<1>7. CASE q.op = "overwrite" /\ SetRows(q, d,
             IF Shown(q.from, d) = "none" THEN rows[q.table][d] ELSE Shown(q.from, d))
  BY <1>2, <1>7
<1>8. CASE q.op = "append" /\ SetRows(q, d,
             IF rows[q.table][d] = "none" THEN Shown(q.from, d) ELSE "twice")
  BY <1>2, <1>8
<1>. QED BY <1>3, <1>4, <1>5, <1>6, <1>7, <1>8 DEF Effect

\* A statement that fills a table finds something to fill it with.
LEMMA FilledWithData ==
  ASSUME TypeOK, ObjectsAreThere, DaysInOrder, NEW d \in Days, task[d] = "sql",
         at[d] <= Len(Script(job)), Statement(d).op \in Fills
  PROVE  Shown(Statement(d).from, d) # "none"
<1>. DEFINE s == Script(job)
            i == at[d]
<1>1. i \in 1 .. Len(s) /\ Statement(d) = s[i]
  BY DEF TypeOK, Statement
<1>2. /\ \/ s[i].from \in External /\ LastWord(s, i, Locates, s[i].from)
         \/ /\ s[i].from \in Managed
            /\ \E k \in 1 .. i - 1 : s[k].op \in Fills /\ s[k].table = s[i].from
  BY <1>1, ScriptsInOrder DEF FilledInOrder
<1>3. \A k \in 1 .. i - 1 : Stands(d, k, i)
  BY DEF DaysInOrder
<1>4. CASE s[i].from \in External /\ LastWord(s, i, Locates, s[i].from)
  <2>1. PICK k \in 1 .. i - 1 :
          s[k].op \in Locates /\ s[k].table = s[i].from /\ Quiet(s, k, i)
    BY <1>4 DEF LastWord
  <2>2. external[s[i].from][d] = "located"
    BY <1>3, <2>1 DEF Stands
  <2>3. s[i].from \notin Managed
    BY <1>4 DEF External, Managed
  <2>. QED BY <1>1, <2>2, <2>3 DEF Shown, ObjectsAreThere
<1>5. CASE s[i].from \in Managed
             /\ \E k \in 1 .. i - 1 : s[k].op \in Fills /\ s[k].table = s[i].from
  BY <1>1, <1>3, <1>5 DEF Stands, Shown
<1>. QED BY <1>2, <1>4, <1>5

\* Another day's statement leaves what this day's statements have done.
LEMMA OthersStand ==
  ASSUME TypeOK, NEW d \in Days, NEW e \in Days \ {d}, job' = job,
         NEW q, Effect(q, d) \/ Undone(q, d),
         NEW i, NEW k \in 1 .. Len(Script(job)), Stands(e, k, i)
  PROVE  Stands(e, k, i)'
<1>. DEFINE s == Script(job)
<1>1. /\ s[k].op \in Fills => s[k].table \in Managed
      /\ s[k].op \in Locates \cup {"drop"} => s[k].table \in External
  BY ScriptsInOrder DEF FilledInOrder, Makes, Locates
<1>2. s' = s
  OBVIOUS
<1>. QED BY <1>1, <1>2, OtherDays DEF Stands

\* A day that executes a statement has come one statement further.
LEMMA NextStands ==
  ASSUME TypeOK, ObjectsAreThere, DaysInOrder, NEW d \in Days, task[d] = "sql",
         at[d] <= Len(Script(job)), Effect(Statement(d), d), job' = job,
         at'[d] = at[d] + 1
  PROVE  \A k \in 1 .. at[d] : Stands(d, k, at[d])'
<1>. DEFINE s == Script(job)
            q == Statement(d)
<1>1. at[d] \in 1 .. Len(s) /\ q = s[at[d]] /\ q \in Statements
  BY StatementType DEF TypeOK, Statement
<1>2. FilledInOrder(s) /\ s' = s
  BY ScriptsInOrder
<1>3. q.op \in Fills => Shown(q.from, d) # "none"
  BY FilledWithData
<1>4. /\ \A t \in Managed : rows[t][d] # "none" => rows'[t][d] # "none"
      /\ q.op \in Fills /\ q.table \in Managed => rows'[q.table][d] # "none"
      /\ \A t \in External : t # q.table => external'[t][d] = external[t][d]
      /\ q.table \in External /\ q.op \in Locates => external'[q.table][d] = "located"
      /\ q.table \in External /\ q.op = "drop" => external'[q.table][d] = "none"
      /\ q.op = "create_if" => q.table \in tables'
      /\ tables \subseteq tables'
  <2>. HIDE DEF q
  <2>. QED BY <1>1, <1>3, OwnDay, OtherDays DEF q
<1>5. ASSUME NEW k \in 1 .. Len(s)
      PROVE  /\ s[k].op \in Fills => s[k].table \in Managed
             /\ s[k].op \in Locates \cup {"drop"} => s[k].table \in External
  BY <1>2 DEF FilledInOrder, Makes, Locates
<1>6. ASSUME NEW k \in 1 .. at[d] PROVE Stands(d, k, at[d])'
  <2>1. k \in 1 .. Len(s)
    BY <1>1
  <2>2. CASE k = at[d]
    BY <1>1, <1>2, <1>4, <1>5, <2>1, <2>2 DEF Stands
  <2>3. CASE k < at[d]
    <3>1. Stands(d, k, at[d])
      BY <1>1, <2>3 DEF DaysInOrder
    <3>2. Quiet(s, k, at[d] + 1) => Quiet(s, k, at[d]) /\ q.table # s[k].table
      <4>. HIDE DEF q, s
      <4>. QED BY <1>1, <2>3 DEF Quiet
    <3>3. Quiet(Script(job), k, at[d])' => Quiet(s, k, at[d] + 1)
      BY <1>2
    <3>. QED BY <1>2, <1>4, <1>5, <2>1, <3>1, <3>2, <3>3 DEF Stands
  <2>. QED BY <1>1, <2>2, <2>3
<1>. QED BY <1>6

LEMMA TablesStayOwn ==
  ASSUME TypeOK, OwnTables, DaysInOrder, NEW d \in Days, task[d] = "sql",
         at[d] <= Len(Script(job)), job' = job, days' = days,
         Effect(Statement(d), d) \/ Undone(Statement(d), d)
  PROVE  OwnTables'
<1>1. at[d] \in 1 .. Len(Script(job)) /\ Statement(d) = Script(job)[at[d]]
  BY DEF TypeOK, Statement
<1>2. d \in days
  BY DEF DaysInOrder
<1>3. \A t \in External : t # Statement(d).table => external'[t][d] = external[t][d]
  <2>1. CASE Effect(Statement(d), d)
    BY <2>1, StatementType, OwnDay
  <2>2. CASE Undone(Statement(d), d)
    BY <2>2 DEF Undone, SetRows, hiveVars
  <2>. QED BY <2>1, <2>2
<1>4. \A e \in Days \ {d}, t \in External : external'[t][e] = external[t][e]
  BY OtherDays
<1>5. Script(job)' = Script(job)
  OBVIOUS
<1>. QED BY <1>1, <1>2, <1>3, <1>4, <1>5 DEF OwnTables

LEMMA QueuesTheRange == \A d \in Days : Queue(days)[d] = "idle" <=> d \notin days
BY DEF Queue

\* The invariant of progress is kept.
LEMMA ProgressStays ==
  ASSUME TypeOK, ObjectsAreThere, ProgressInvariant, [Next]_vars
  PROVE  ProgressInvariant'
<1>. USE DEF ProgressInvariant
<1>0. ASSUME job' = job PROVE Script(job)' = Script(job)
  BY <1>0
<1>1. CASE CollectResults
  <2>1. DaysInOrder' /\ OwnTables'
    BY <1>0, <1>1 DEF CollectResults, DaysInOrder, OwnTables, Stands, hiveVars
  <2>2. RunsInOrder'
    BY <1>1 DEF CollectResults, RunsInOrder, PoolIsOver, NoneRaised
  <2>. QED BY <2>1, <2>2
<1>2. CASE Stop
  BY <1>0, <1>2 DEF Stop, DaysInOrder, OwnTables, RunsInOrder, Stands, hiveVars
<1>3. CASE Relaunch
  <2>1. DaysInOrder'
    BY <1>3, QueuesTheRange DEF Relaunch, DaysInOrder, Queue
  <2>2. OwnTables' /\ RunsInOrder'
    BY <1>0, <1>3 DEF Relaunch, OwnTables, RunsInOrder, hiveVars
  <2>. QED BY <2>1, <2>2
<1>4. CASE UNCHANGED vars
  BY <1>0, <1>4 DEF vars, hiveVars, DaysInOrder, OwnTables, RunsInOrder, Stands,
                    PoolIsOver, NoneRaised
<1>5. ASSUME NEW d \in Days, Thread(d) PROVE ProgressInvariant'
  <2>. USE DEF ThreadAt, GoTo, Raises, TypeOK
  <2>1. step = "RUNNING" /\ UNCHANGED <<job, days, run, step>>
    BY <1>5 DEF Thread, TakeDay, ReadDay, persist_json, tag_objects, execute_queries,
                FinishDay
  <2>2. RunsInOrder'
    BY <2>1 DEF RunsInOrder
  <2>3. CASE TakeDay(d) \/ ReadDay(d) \/ persist_json(d)
    <3>1. /\ UNCHANGED <<at, hiveVars>> /\ task[d] \in {"queued", "read", "persist"}
          /\ \A e \in Days \ {d} : task'[e] = task[e]
          /\ task'[d] \in {"read", "persist", "tag", "raised"}
      BY <2>3 DEF TakeDay, ReadDay, persist_json
    <3>2. DaysInOrder'
      BY <1>0, <2>1, <3>1 DEF DaysInOrder, Stands, hiveVars
    <3>. QED BY <1>0, <2>1, <2>2, <3>1, <3>2 DEF OwnTables, hiveVars
  <2>4. CASE tag_objects(d)
    <3>1. /\ UNCHANGED hiveVars /\ task[d] = "tag"
          /\ \A e \in Days \ {d} : task'[e] = task[e] /\ at'[e] = at[e]
          /\ task'[d] = "raised" \/ (task'[d] = "sql" /\ at'[d] = 1)
      BY <2>4 DEF tag_objects
    <3>2. DaysInOrder'
      BY <1>0, <2>1, <3>1 DEF DaysInOrder, Stands, hiveVars
    <3>. QED BY <1>0, <2>1, <2>2, <3>1, <3>2 DEF OwnTables, hiveVars
  <2>5. CASE execute_queries(d)
    <3>1. /\ task[d] = "sql" /\ at[d] \in 1 .. Len(Script(job))
          /\ \A e \in Days \ {d} : task'[e] = task[e] /\ at'[e] = at[e]
          /\ \/ /\ Effect(Statement(d), d)
                /\ task'[d] = "sql" /\ at'[d] = at[d] + 1
             \/ /\ Undone(Statement(d), d)
                /\ task'[d] = "raised"
      BY <2>5 DEF execute_queries, Undone
    <3>2. OwnTables'
      BY <2>1, <3>1, TablesStayOwn
    <3>3. ASSUME NEW e \in Days \ {d}, task[e] \in {"sql", "ok"},
                 NEW k \in 1 .. at[e] - 1
          PROVE  Stands(e, k, at[e])'
      <4>1. k \in 1 .. Len(Script(job)) /\ Stands(e, k, at[e])
        BY <3>3 DEF DaysInOrder
      <4>2. at'[e] = at[e]
        BY <3>1
      <4>. QED BY <2>1, <3>1, <4>1, <4>2, OthersStand
    <3>4. task'[d] = "sql" => \A k \in 1 .. at'[d] - 1 : Stands(d, k, at[d])'
      BY <2>1, <3>1, NextStands
    <3>5. DaysInOrder'
      <4>. DEFINE InOrder(e) ==
             /\ task[e] = "idle" <=> e \notin days
             /\ task[e] = "sql" => at[e] <= Len(Script(job)) + 1
             /\ task[e] = "ok" => at[e] = Len(Script(job)) + 1
             /\ task[e] \in {"sql", "ok"} => \A k \in 1 .. at[e] - 1 : Stands(e, k, at[e])
      <4>1. ASSUME NEW e \in Days \ {d} PROVE InOrder(e)'
        <5>1. InOrder(e) /\ task'[e] = task[e] /\ at'[e] = at[e]
          BY <3>1 DEF DaysInOrder
        <5>. QED BY <1>0, <2>1, <3>3, <5>1
      <4>2. InOrder(d)'
        <5>1. InOrder(d)
          BY DEF DaysInOrder
        <5>2. task'[d] = "sql" => at'[d] <= Len(Script(job)') + 1
          BY <1>0, <2>1, <3>1
        <5>. QED BY <2>1, <3>1, <3>4, <5>1, <5>2
      <4>. QED BY <4>1, <4>2 DEF DaysInOrder
    <3>. QED BY <2>2, <3>2, <3>5
  <2>6. CASE FinishDay(d)
    <3>1. /\ UNCHANGED <<at, hiveVars>> /\ task[d] = "sql"
          /\ at[d] = Len(Script(job)) + 1
          /\ \A e \in Days \ {d} : task'[e] = task[e]
          /\ task'[d] = "ok"
      BY <2>6, StatementType, ScriptsInOrder DEF FinishDay, DaysInOrder
    <3>2. DaysInOrder'
      BY <1>0, <2>1, <3>1 DEF DaysInOrder, Stands, hiveVars
    <3>. QED BY <1>0, <2>1, <2>2, <3>1, <3>2 DEF OwnTables, hiveVars
  <2>. QED BY <1>5, <2>3, <2>4, <2>5, <2>6 DEF Thread
<1>. QED BY <1>1, <1>2, <1>3, <1>4, <1>5 DEF Next

\* Each day has done what the statements before its place do, and the runs end in
\* order.
THEOREM ProgressHolds == Spec => []ProgressInvariant
<1>1. Init => ProgressInvariant
  BY QueuesTheRange
     DEF Init, Queue, ProgressInvariant, DaysInOrder, OwnTables, RunsInOrder
<1>2. TypeOK /\ RowsInvariant /\ ProgressInvariant /\ [Next]_vars => ProgressInvariant'
  BY ProgressStays DEF RowsInvariant
<1>. QED BY <1>1, <1>2, TypeCorrect, RowsInvariantHolds, PTL DEF Spec

\* A day whose thread came to its end is in every table the program fills.
LEMMA DayIsPublished ==
  ASSUME TypeOK, ProgressInvariant, NEW d \in Days, task[d] = "ok", NEW t \in Targets(job)
  PROVE  rows[t][d] # "none"
<1>1. PICK k \in 1 .. Len(Script(job)) :
        Script(job)[k].op \in Fills /\ Script(job)[k].table = t
  BY ScriptsInOrder DEF EndsClean
<1>2. Stands(d, k, at[d])
  BY DEF ProgressInvariant, DaysInOrder
<1>. QED BY <1>1, <1>2 DEF Stands

\* A run that fails has come to an end with every day: it is published, or its
\* thread raised.
THEOREM FailuresAreContained == Spec => []FailureIsContained
<1>1. TypeOK /\ ProgressInvariant => FailureIsContained
  <2>. SUFFICES ASSUME TypeOK, ProgressInvariant, step = "FAILED", NEW d \in days,
                       task[d] # "raised", NEW t \in Targets(job)
                PROVE  rows[t][d] # "none"
    BY DEF FailureIsContained
  <2>1. d \in Days /\ task[d] = "ok"
    BY DEF TypeOK, ProgressInvariant, RunsInOrder, DaysInOrder, PoolIsOver, AtRest
  <2>. QED BY <2>1, DayIsPublished
<1>. QED BY <1>1, TypeCorrect, ProgressHolds, PTL

\* A run that succeeds has every day in every table, and has left no table of a
\* day behind, not even one an earlier run left.
THEOREM SuccessIsTrue == Spec => []SuccessIsPublished
<1>1. TypeOK /\ ProgressInvariant => SuccessIsPublished
  <2>. SUFFICES ASSUME TypeOK, ProgressInvariant, step = "COMPLETED"
                PROVE  /\ \A t \in Targets(job), d \in days : rows[t][d] # "none"
                       /\ \A t \in External, d \in Days : external[t][d] = "none"
    BY DEF SuccessIsPublished
  <2>1. \A d \in days : d \in Days /\ task[d] = "ok"
    BY DEF TypeOK, ProgressInvariant, RunsInOrder, DaysInOrder, PoolIsOver, NoneRaised,
           AtRest
  <2>2. \A t \in Targets(job), d \in days : rows[t][d] # "none"
    BY <2>1, DayIsPublished
  <2>3. ASSUME NEW t \in External, NEW d \in Days, external[t][d] # "none"
        PROVE  FALSE
    <3>. DEFINE s == Script(job)
    <3>1. d \in days /\ \E k \in 1 .. Len(s) : s[k].table = t
      BY <2>3 DEF ProgressInvariant, OwnTables
    <3>2. LastWord(s, Len(s) + 1, {"drop"}, t)
      BY <3>1, ScriptsInOrder DEF EndsClean
    <3>3. PICK k \in 1 .. Len(s) :
            s[k].op = "drop" /\ s[k].table = t /\ Quiet(s, k, Len(s) + 1)
      <4>1. Len(s) \in Nat
        BY <2>1, <3>1 DEF ProgressInvariant, DaysInOrder, TypeOK
      <4>. HIDE DEF s
      <4>. QED BY <3>2, <4>1 DEF LastWord
    <3>4. Stands(d, k, Len(s) + 1)
      BY <2>1, <3>1 DEF ProgressInvariant, DaysInOrder
    <3>. QED BY <2>3, <3>3, <3>4 DEF Stands
  <2>. QED BY <2>2, <2>3
<1>. QED BY <1>1, TypeCorrect, ProgressHolds, PTL

-----------------------------------------------------------------------------
(***************************************************************************)
(* The equality programs can be repeated after whatever went wrong, when   *)
(* the managed table is there, which only the historical one creates.      *)
(***************************************************************************)
TableIsThere == "equality_managed" \in Existing \/ "daily_equality" \notin Jobs

\* Threads raise because of a fault, or of a day without files.
RaisedForAReason ==
  /\ Existing \subseteq tables
  /\ job \in EqualityJobs /\ ~faulted /\ days \cap NoFiles = {} => NoneRaised

\* Every statement of an equality script can be executed when the thread comes to it.
LEMMA EqualityExecutable ==
  ASSUME TableIsThere, TypeOK, DaysInOrder, Existing \subseteq tables,
         job \in EqualityJobs, NEW d \in Days, task[d] = "sql",
         at[d] <= Len(Script(job))
  PROVE  Executable(Statement(d), d)
<1>. DEFINE s == Script(job)
            i == at[d]
            q == Statement(d)
<1>1. i \in 1 .. Len(s) /\ q = s[i] /\ q \in Statements
  BY StatementType DEF TypeOK, Statement
<1>2. /\ q.op # "create" /\ q.op \notin {"overwrite", "add_partition"}
      /\ q.op = "create_at" => LastWord(s, i, {"drop"}, q.table)
      /\ q.op = "append" =>
           /\ q.from \in External /\ LastWord(s, i, Locates, q.from)
           /\ q.table \in Managed
           /\ \/ q.table = "equality_managed" /\ job = "daily_equality"
              \/ \E k \in 1 .. i - 1 : s[k].op = "create_if" /\ s[k].table = q.table
  <2>1. NeverRefused(s, job)
    BY EqualityInOrder
  <2>. HIDE DEF s, q, i
  <2>. QED BY <1>1, <2>1 DEF NeverRefused
<1>3. FilledInOrder(s)
  BY EqualityInOrder
<1>4. \A k \in 1 .. i - 1 : Stands(d, k, i)
  BY DEF DaysInOrder
<1>5. q.op \in {"create_at", "drop", "create_if", "append"}
  BY <1>1, <1>2 DEF Statements, Overwriting
<1>6. CASE q.op = "create_at"
  <2>1. PICK k \in 1 .. i - 1 : s[k].op = "drop" /\ s[k].table = q.table /\ Quiet(s, k, i)
    <3>. HIDE DEF s, q, i
    <3>. QED BY <1>2, <1>6 DEF LastWord
  <2>2. external[q.table][d] = "none"
    BY <1>4, <2>1 DEF Stands
  <2>3. q.table \notin Managed
    BY <1>1, <1>3, <1>6 DEF FilledInOrder, Makes, External, Managed
  <2>. QED BY <1>6, <2>2, <2>3 DEF Executable, Exists
<1>7. CASE q.op = "append"
  <2>1. PICK k \in 1 .. i - 1 : s[k].op \in Locates /\ s[k].table = q.from /\ Quiet(s, k, i)
    <3>. HIDE DEF s, q, i
    <3>. QED BY <1>2, <1>7 DEF LastWord
  <2>2. external[q.from][d] = "located" /\ q.from \notin Managed
    BY <1>2, <1>4, <1>7, <2>1 DEF Stands, External, Managed
  <2>3. q.table \in tables /\ q.table \in Managed
    BY <1>2, <1>4, <1>7 DEF Stands, TableIsThere, TypeOK
  <2>. QED BY <1>7, <2>2, <2>3 DEF Executable, Exists
<1>8. CASE q.op \in {"drop", "create_if"}
  BY <1>8 DEF Executable
<1>. QED BY <1>5, <1>6, <1>7, <1>8

LEMMA ReasonsStay ==
  ASSUME TableIsThere, TypeOK, ProgressInvariant, RaisedForAReason, [Next]_vars
  PROVE  RaisedForAReason'
<1>. USE DEF RaisedForAReason, NoneRaised
<1>1. CASE CollectResults \/ Stop \/ UNCHANGED vars
  BY <1>1 DEF CollectResults, Stop, vars, hiveVars
<1>2. CASE Relaunch
  BY <1>2 DEF Relaunch, Queue, hiveVars
<1>3. ASSUME NEW d \in Days, Thread(d) PROVE RaisedForAReason'
  <2>. USE DEF ThreadAt, GoTo, Raises, TypeOK
  <2>0. d \in days
    BY <1>3 DEF Thread, TakeDay, ReadDay, persist_json, tag_objects, execute_queries,
                FinishDay, ProgressInvariant, DaysInOrder
  <2>1. CASE TakeDay(d) \/ FinishDay(d)
    BY <2>1 DEF TakeDay, FinishDay, hiveVars
  <2>2. CASE ReadDay(d)
    BY <2>0, <2>2 DEF ReadDay, hiveVars
  <2>3. CASE persist_json(d)
    BY <2>3 DEF persist_json, hiveVars
  <2>4. CASE tag_objects(d)
    BY <2>4 DEF tag_objects, hiveVars
  <2>5. CASE execute_queries(d)
    <3>1. tables \subseteq tables'
      BY <2>5, OtherDays DEF execute_queries, hiveVars
    <3>2. CASE faulted'
      BY <2>5, <3>1, <3>2 DEF execute_queries
    <3>3. CASE job \notin EqualityJobs
      BY <2>5, <3>1, <3>3 DEF execute_queries
    <3>4. CASE ~faulted' /\ job \in EqualityJobs
      <4>1. Executable(Statement(d), d)
        BY <2>5, <3>4, EqualityExecutable DEF execute_queries, ProgressInvariant
      <4>2. UNCHANGED <<task, faulted, job, days>>
        BY <2>5, <3>4, <4>1 DEF execute_queries
      <4>. QED BY <3>1, <4>2
    <3>. QED BY <3>2, <3>3, <3>4
  <2>. QED BY <1>3, <2>1, <2>2, <2>3, <2>4, <2>5 DEF Thread
<1>. QED BY <1>1, <1>2, <1>3 DEF Next

\* Where equality_managed exists, a run of an equality program in which nothing
\* goes wrong, and whose days have files, succeeds after any earlier runs.
THEOREM EqualityRepeats ==
  ASSUME TableIsThere PROVE Spec => []EqualityIsRepeatable
<1>1. Init => RaisedForAReason
  BY DEF Init, Queue, RaisedForAReason, NoneRaised
<1>2. TypeOK /\ ProgressInvariant /\ RaisedForAReason /\ [Next]_vars => RaisedForAReason'
  BY ReasonsStay
<1>3. ProgressInvariant /\ RaisedForAReason => EqualityIsRepeatable
  BY DEF ProgressInvariant, RunsInOrder, RaisedForAReason, EqualityIsRepeatable,
         RepeatableFor
<1>. QED BY <1>1, <1>2, <1>3, TypeCorrect, ProgressHolds, PTL DEF Spec
-----------------------------------------------------------------------------
(***************************************************************************)
(* Runs for a range of days come to an end, as far as that is a matter of  *)
(* safety: a run has a bounded number of steps ahead, each leaves fewer,   *)
(* and as long as it runs someone can take one.                            *)
(***************************************************************************)

\* The statements of the program that runs.
ScriptLength == Len(Script(job))

\* The steps of a day ahead at most, from this place and statement; no script has
\* more than fifteen.
Ahead(place, i) ==
  CASE place = "queued"  -> 20
    [] place = "read"    -> 19
    [] place = "persist" -> 18
    [] place = "tag"     -> 17
    [] place = "sql"     -> ScriptLength + 2 - i
    [] OTHER             -> 0

\* The steps of all threads.
DaySteps == {x \in Days \X (1 .. 20) : x[2] <= Ahead(task[x[1]], at[x[1]])}

StepsLeft == (IF step = "RUNNING" THEN 1 ELSE 0) + Cardinality(DaySteps)

MostSteps == 1 + NDays * 20

\* A thread that finds a place in the pool, or is at work.
CanMove(d) ==
  task[d] \notin AtRest /\ (task[d] = "queued" => Cardinality(Busy) < Workers)

\* While a run goes on the main thread can go on, or a thread it waits for can.
NobodyWaitsForever ==
  step = "RUNNING" => PoolIsOver \/ \E d \in Days : CanMove(d)

\* Each step of a run leaves it fewer, and the next run is one of a bounded number.
RunsGetShorter ==
  [][\/ step = "RUNNING" /\ run' = run /\ StepsLeft' < StepsLeft
     \/ step # "RUNNING" /\ run' = run + 1 /\ run' <= MaxRuns]_vars

LEMMA ScriptsAreShort ==
  ASSUME TypeOK PROVE ScriptLength \in 0 .. 15
<1>1. job \in {"daily_audit", "historical_audit", "daily_equality",
               "historical_equality"}
  BY AuditAssumption DEF TypeOK, AuditJobs, EqualityJobs
<1>. QED BY <1>1, HistoricalAuditScript, DailyAuditScript, EqualityScript DEF ScriptLength

LEMMA DayStepsAreFinite ==
  /\ IsFiniteSet(Days \X (1 .. 20))
  /\ Cardinality(Days \X (1 .. 20)) = NDays * 20
<1>1. \A n \in Nat : IsFiniteSet(1 .. n) /\ Cardinality(1 .. n) = n
  <2>1. \A n \in Nat : 1 \in Int /\ n \in Int OBVIOUS
  <2>2. \A n \in Nat : /\ IsFiniteSet(1 .. n)
                       /\ Cardinality(1 .. n) = IF 1 > n THEN 0 ELSE n - 1 + 1
    BY <2>1, FS_Interval, Zenon
  <2>. QED BY <2>2
<1>2. IsFiniteSet(Days) /\ Cardinality(Days) = NDays
  BY <1>1, AuditAssumption DEF Days
<1>3. IsFiniteSet(1 .. 20) /\ Cardinality(1 .. 20) = 20
  BY <1>1
<1>. QED BY <1>2, <1>3, FS_Product

LEMMA StepsLeftIsBounded ==
  /\ IsFiniteSet(DaySteps) /\ Cardinality(DaySteps) \in Nat
  /\ StepsLeft \in 0 .. MostSteps
<1>1. DaySteps \in SUBSET (Days \X (1 .. 20))
  BY DEF DaySteps
<1>2. /\ IsFiniteSet(DaySteps)
      /\ Cardinality(DaySteps) <= Cardinality(Days \X (1 .. 20))
  BY <1>1, DayStepsAreFinite, FS_Subset
<1>3. Cardinality(DaySteps) \in Nat
  BY <1>2, FS_CardinalityType
<1>. QED BY <1>2, <1>3, DayStepsAreFinite, AuditAssumption DEF StepsLeft, MostSteps

\* A step of a thread brings its day nearer to the end.
LEMMA DayGoesOn ==
  ASSUME TypeOK, DaysInOrder, NEW d \in Days, Thread(d)
  PROVE  /\ UNCHANGED <<job, run, step>> /\ step = "RUNNING"
         /\ \A e \in Days : e # d => task'[e] = task[e] /\ at'[e] = at[e]
         /\ Ahead(task'[d], at'[d]) < Ahead(task[d], at[d])
         /\ Ahead(task[d], at[d]) \in 1 .. 20
<1>1. UNCHANGED <<job, run, step>> /\ step = "RUNNING"
  BY DEF Thread, TakeDay, ReadDay, persist_json, tag_objects, execute_queries, FinishDay,
         ThreadAt
<1>2. \A e \in Days : e # d => task'[e] = task[e] /\ at'[e] = at[e]
  BY DEF Thread, TakeDay, ReadDay, persist_json, tag_objects, execute_queries,
         FinishDay, Raises, GoTo, TypeOK
<1>3. ScriptLength \in 0 .. 15
  BY ScriptsAreShort
<1>4. \/ task[d] = "queued" /\ task'[d] = "read"
      \/ task[d] = "read" /\ task'[d] \in {"persist", "raised"}
      \/ task[d] = "persist" /\ task'[d] \in {"tag", "raised"}
      \/ task[d] = "tag" /\ task'[d] = "sql" /\ at'[d] = 1
      \/ task[d] = "tag" /\ task'[d] = "raised"
      \/ task[d] = "sql" /\ task'[d] = "sql" /\ at'[d] = at[d] + 1
         /\ at[d] <= ScriptLength
      \/ task[d] = "sql" /\ task'[d] \in {"raised", "ok"}
  BY DEF Thread, TakeDay, ReadDay, persist_json, tag_objects, execute_queries,
         FinishDay, Raises, ThreadAt, GoTo, TypeOK, ScriptLength
<1>5. task[d] = "sql" => at[d] \in 1 .. ScriptLength + 1
  <2>1. at[d] \in Nat \ {0}
    BY DEF TypeOK
  <2>2. task[d] = "sql" => at[d] <= ScriptLength + 1
    BY DEF DaysInOrder, ScriptLength
  <2>. QED BY <1>3, <2>1, <2>2
<1>6. CASE task[d] # "sql"
  <2>1. /\ Ahead("queued", at[d]) = 20 /\ Ahead("read", at[d]) = 19
        /\ Ahead("persist", at[d]) = 18 /\ Ahead("tag", at[d]) = 17
        /\ Ahead("read", at'[d]) = 19 /\ Ahead("persist", at'[d]) = 18
        /\ Ahead("tag", at'[d]) = 17 /\ Ahead("raised", at'[d]) = 0
        /\ Ahead("sql", 1) = ScriptLength + 1
    BY <1>3 DEF Ahead
  <2>2. Ahead(task'[d], at'[d]) < Ahead(task[d], at[d])
        /\ Ahead(task[d], at[d]) \in 1 .. 20
    BY <1>3, <1>4, <1>6, <2>1
  <2>. QED BY <1>1, <1>2, <2>2
<1>7. CASE task[d] = "sql"
  <2>1. ScriptLength + 2 - at[d] \in 1 .. 20
    BY <1>3, <1>5, <1>7
  <2>2. Ahead(task[d], at[d]) = ScriptLength + 2 - at[d]
    BY <1>7 DEF Ahead
  <2>3. CASE task'[d] = "sql" /\ at'[d] = at[d] + 1
    <3>1. Ahead(task'[d], at'[d]) = ScriptLength + 2 - (at[d] + 1)
      BY <2>3 DEF Ahead
    <3>. QED BY <1>1, <1>2, <1>3, <1>5, <1>7, <2>1, <2>2, <3>1
  <2>4. CASE task'[d] \in {"raised", "ok"}
    <3>1. Ahead(task'[d], at'[d]) = 0
      BY <2>4 DEF Ahead
    <3>. QED BY <1>1, <1>2, <2>1, <2>2, <3>1
  <2>. QED BY <1>4, <1>7, <2>3, <2>4
<1>. QED BY <1>6, <1>7

LEMMA DayShortens ==
  ASSUME TypeOK, DaysInOrder, DaysInOrder', TypeOK', NEW d \in Days, Thread(d)
  PROVE  step = "RUNNING" /\ run' = run /\ StepsLeft' < StepsLeft
<1>. DEFINE Now(e)   == Ahead(task[e], at[e])
            After(e) == Ahead(task'[e], at'[e])
<1>1. /\ UNCHANGED <<job, run, step>> /\ step = "RUNNING"
      /\ \A e \in Days : e # d => After(e) = Now(e)
      /\ After(d) < Now(d) /\ Now(d) \in 1 .. 20
  BY DayGoesOn
<1>2. \A e \in Days : Now(e) \in Int /\ After(e) \in Int
  <2>1. ScriptLength \in 0 .. 15
    BY ScriptsAreShort
  <2>. QED BY <2>1 DEF Ahead, TypeOK
<1>3. /\ DaySteps  = {x \in Days \X (1 .. 20) : x[2] <= Now(x[1])}
      /\ DaySteps' = {x \in Days \X (1 .. 20) : x[2] <= After(x[1])}
  BY <1>1 DEF DaySteps, Ahead, ScriptLength
<1>. HIDE DEF Now, After
<1>4. DaySteps' \subseteq DaySteps
  <2>. SUFFICES ASSUME NEW x \in DaySteps' PROVE x \in DaySteps
    OBVIOUS
  <2>1. x[1] \in Days /\ x[2] \in 1 .. 20 /\ x[2] <= After(x[1])
    BY <1>3
  <2>2. x[2] <= Now(x[1])
    BY <1>1, <1>2, <2>1
  <2>. QED BY <1>3, <2>2
<1>5. <<d, Now(d)>> \in DaySteps \ DaySteps'
  <2>1. Now(d) \in 1 .. 20 /\ ~(Now(d) <= After(d))
    BY <1>1, <1>2
  <2>. QED BY <1>3, <2>1
<1>6. /\ Cardinality(DaySteps') < Cardinality(DaySteps)
      /\ Cardinality(DaySteps') \in Nat
  <2>1. IsFiniteSet(DaySteps') /\ Cardinality(DaySteps') \in Nat
    BY <1>4, StepsLeftIsBounded, FS_Subset, FS_CardinalityType
  <2>. QED BY <1>4, <1>5, <2>1, StepsLeftIsBounded, FS_Subset
<1>. QED BY <1>1, <1>6, StepsLeftIsBounded DEF StepsLeft

\* Every run has a bounded number of steps ahead, each leaves it fewer, and the runs
\* themselves are counted: nothing goes round in a circle, whatever fails.
THEOREM RunsAreBounded == Spec => [](StepsLeft \in 0 .. MostSteps) /\ RunsGetShorter
<1>1. StepsLeft \in 0 .. MostSteps
  BY StepsLeftIsBounded
<1>2. /\ TypeOK /\ TypeOK'
      /\ ProgressInvariant /\ ProgressInvariant'
      /\ [Next]_vars
      => [\/ step = "RUNNING" /\ run' = run /\ StepsLeft' < StepsLeft
          \/ step # "RUNNING" /\ run' = run + 1 /\ run' <= MaxRuns]_vars
  <2>. SUFFICES ASSUME TypeOK, TypeOK', ProgressInvariant, ProgressInvariant', Next
                PROVE  \/ step = "RUNNING" /\ run' = run /\ StepsLeft' < StepsLeft
                       \/ step # "RUNNING" /\ run' = run + 1 /\ run' <= MaxRuns
    OBVIOUS
  <2>1. ASSUME NEW d \in Days, Thread(d)
        PROVE  step = "RUNNING" /\ run' = run /\ StepsLeft' < StepsLeft
    BY <2>1, DayShortens DEF ProgressInvariant
  <2>2. CASE CollectResults \/ Stop
    <3>1. step = "RUNNING" /\ step' # "RUNNING" /\ UNCHANGED <<job, run, task, at>>
      BY <2>2 DEF CollectResults, Stop
    <3>2. DaySteps' = DaySteps
      BY <3>1 DEF DaySteps, Ahead, ScriptLength
    <3>. QED BY <3>1, <3>2, StepsLeftIsBounded DEF StepsLeft
  <2>3. CASE Relaunch
    BY <2>3 DEF Relaunch, TypeOK
  <2>. QED BY <2>1, <2>2, <2>3 DEF Next
<1>. QED
  BY <1>1, <1>2, TypeCorrect, ProgressHolds, PTL DEF Spec, RunsGetShorter

\* And it is never stuck: the pool has a place for the first day that is queued,
\* and no day waits for another, though they write to the same tables.
THEOREM RunsAreNotStuck == Spec => []NobodyWaitsForever
<1>1. TypeOK => NobodyWaitsForever
  <2>. SUFFICES ASSUME TypeOK, ~PoolIsOver PROVE \E d \in Days : CanMove(d)
    BY DEF NobodyWaitsForever
  <2>1. PICK d \in Days : task[d] \notin AtRest
    BY DEF PoolIsOver
  <2>2. CASE \E e \in Days : task[e] \notin AtRest \cup {"queued"}
    BY <2>2 DEF CanMove
  <2>3. CASE \A e \in Days : task[e] \in AtRest \cup {"queued"}
    <3>1. Busy = {}
      BY <2>3 DEF Busy
    <3>2. Cardinality(Busy) < Workers
      BY <3>1, FS_EmptySet, AuditAssumption
    <3>. QED BY <2>1, <3>2 DEF CanMove
  <2>. QED BY <2>2, <2>3
<1>. QED BY <1>1, TypeCorrect, PTL
=============================================================================
