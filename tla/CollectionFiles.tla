-------------------------- MODULE CollectionFiles --------------------------
(***************************************************************************)
(* From the files of the export to the objects of a collection, inside one *)
(* run of generate_dataset_from_htme.py: the files are grouped by          *)
(* collection, each group is read by a thread of the pool, every file with *)
(* a data key that the Data Key Service (DKS, external) decrypts and the   *)
(* threads share in keys_map, and the collection is written with the keys  *)
(* its files were bound to.                                                *)
(* Besides, the threads and then the main thread add their times to        *)
(* processing_times.csv, which add_metric reads and writes anew each time. *)
(* The historical jobs read and decrypt the files of a day the same way.   *)
(*                                                                         *)
(* A file stands for its place in the listing, and a group for its first   *)
(* file. DatasetRun has what happens to a collection around this.          *)
(***************************************************************************)
EXTENDS Integers, FiniteSets

CONSTANTS
  NFiles,       \* number of files under the export's prefix
  Listings,     \* what the listing may be: file -> collection its name begins with
  Secrets,      \* the collections of the secret
  Cipher,       \* file -> its encrypted data key
  Kek,          \* file -> id of the key its data key is encrypted with
  Plain,        \* encrypted data key -> the key DKS makes of it
  Workers,      \* threads of the ThreadPoolExecutor
  Retries,      \* retries of a call of DKS (10 in the code)
  Environment   \* which faults may happen, a subset of Faults

Files   == 1 .. NFiles
Ciphers == {Cipher[f] : f \in Files}
Keks    == {Kek[f] : f \in Files}
Keys    == {Plain[c] : c \in Ciphers}

\* process: an Exception while a file is read or a collection written; busy: DKS
\* answers 429 or 5xx; dks: the call of DKS raises; nokey: DKS answers without a
\* key; mknod: the metrics file appears between the look for it and its creation.
Faults == {"process", "busy", "dks", "nokey", "mknod"}

NoKey == "no key"
Total == "all_collections"

ASSUME FilesAssumption ==
  /\ NFiles \in Nat
  /\ \A l \in Listings : DOMAIN l = Files
  /\ NoKey \notin Keys
  /\ Workers \in Nat \ {0}
  /\ Retries \in Nat
  /\ Environment \subseteq Faults

VARIABLES
  listing,   \* the listing of this run
  existing,  \* EXISTING_OUTPUT_PREFIX: an earlier run wrote under the prefix
  task,      \* file that heads a group -> where the thread reading it is
  at,        \* the file that thread has come to
  key,       \* the key it was given and has not yet put into keys_map
  tries,     \* requests sent again in its call of DKS
  keys_map,  \* encrypted data key -> key, NoKey before it is known
  answered,  \* history: encrypted data key -> files DKS decrypted it for
  bound,     \* file -> the key in the closure that will decrypt it
  content,   \* collection -> {<<file, key it was decrypted with>>} in S3
  times,     \* the names with a line in processing_times.csv
  lines,     \* writer -> the lines it read
  mainPc, result

poolVars    == <<listing, existing, task, at>>
keyVars     == <<key, tries, keys_map, answered, bound>>
metricsVars == <<times, lines>>
vars == <<poolVars, keyVars, content, metricsVars, mainPc, result>>

(***************************************************************************)
(* Grouping.                                                               *)
(***************************************************************************)
Collections == {listing[f] : f \in Files}

SameCollection(h, f) == \A g \in h .. f : listing[g] = listing[h]

\* groupby puts neighbours together, and only those.
Heads == {h \in Files : h = 1 \/ listing[h - 1] # listing[h]}

\* Mutant: a group without its first file.
group_but_first(h) == {f \in Files : f > h /\ SameCollection(h, f)}

group_keys_by_collection(h) == {f \in Files : f >= h /\ SameCollection(h, f)}

get_collections_in_secrets == {h \in Heads : listing[h] \in Secrets}

Places == {"idle", "queued", "read", "call", "store", "delete", "persist",
           "metric", "open", "write", "ok", "failed", "exited"}
AtRest == {"idle", "ok", "failed", "exited"}

\* The main thread is writer 0 of the metrics file.
Main    == 0
Writers == Files \cup {Main}

FilesOf(c) == {f \in Files : listing[f] = c}

\* A file of an earlier run's output.
Written(f) == <<f, Plain[Cipher[f]]>>

\* An earlier run may have left nothing, or a part of each collection.
Init ==
  /\ listing \in Listings
  /\ existing \in BOOLEAN
  /\ task = [h \in Files |-> IF h \in get_collections_in_secrets
                               THEN "queued" ELSE "idle"]
  /\ at = [h \in Files |-> h]
  /\ key = [h \in Files |-> NoKey] /\ tries = [h \in Files |-> 0]
  /\ keys_map = [c \in Ciphers \cup Keks |-> NoKey]
  /\ answered = [c \in Ciphers |-> {}]
  /\ bound = [f \in Files |-> NoKey]
  /\ \E part \in {{}, Heads} :
       content = [c \in Collections |->
         {Written(f) : f \in IF existing THEN FilesOf(c) \cap part ELSE {}}]
  /\ times = {} /\ lines = [w \in Writers |-> {}]
  /\ mainPc = "pool" /\ result = "RUNNING"

(***************************************************************************)
(* The files of a group, on a thread of the pool.                          *)
(***************************************************************************)
ThreadAt(h, place) == task[h] = place
GoTo(h, place) == task' = [task EXCEPT ![h] = place]

Busy == {h \in Files : task[h] \notin AtRest \cup {"queued"}}

TakeGroup(h) ==
  /\ ThreadAt(h, "queued")
  /\ Cardinality(Busy) < Workers
  /\ GoTo(h, "read")
  /\ UNCHANGED <<listing, existing, at, keyVars, content, metricsVars, mainPc,
                 result>>

\* Mutant: one key for all that share a key encryption key.
cached_by_kek(f) == Kek[f]

\* What keys_map is looked up by.
encryptedkey(f) == Cipher[f]

\* The closure of the file at hand gets its key, and the loop goes on.
Bind(h, k) ==
  /\ bound' = [bound EXCEPT ![at[h]] = k]
  /\ IF at[h] + 1 \in group_keys_by_collection(h)
       THEN at' = [at EXCEPT ![h] = @ + 1] /\ GoTo(h, "read")
       ELSE UNCHANGED at /\ GoTo(h, "delete")

\* The file's metadata is read and keys_map looked at.
ReadFile(h) ==
  /\ ThreadAt(h, "read")
  /\ LET known == keys_map[encryptedkey(at[h])] IN
     \/ known # NoKey /\ Bind(h, known) /\ UNCHANGED tries
     \/ /\ known = NoKey
        /\ tries' = [tries EXCEPT ![h] = 0]
        /\ GoTo(h, "call") /\ UNCHANGED <<at, bound>>
     \/ /\ "process" \in Environment
        /\ GoTo(h, "failed") /\ UNCHANGED <<at, bound, tries>>
  /\ UNCHANGED <<listing, existing, key, keys_map, answered, content, metricsVars,
                 mainPc, result>>

\* DKS answers with the key.
AnswerDks(h) ==
  /\ ThreadAt(h, "call")
  /\ LET c == Cipher[at[h]] IN
     /\ key' = [key EXCEPT ![h] = Plain[c]]
     /\ answered' = [answered EXCEPT ![c] = @ \cup {at[h]}]
  /\ GoTo(h, "store")
  /\ UNCHANGED <<listing, existing, at, tries, keys_map, bound, content,
                 metricsVars, mainPc, result>>

\* Mutants: one retry too many; a new session, with a new count, when the retries
\* of the old one are used up.
one_retry_more(n) == n <= Retries
retry_anew(n) == IF n = Retries - 1 THEN 0 ELSE n + 1

\* Retry(total=10) and its count.
may_retry(n) == n < Retries
retry_requests(n) == n + 1

\* DKS is busy, or there is an error of the connection: the request is sent
\* again, as often as the adapter of the session allows.
RetryDks(h) ==
  /\ "busy" \in Environment
  /\ ThreadAt(h, "call")
  /\ may_retry(tries[h])
  /\ tries' = [tries EXCEPT ![h] = retry_requests(@)]
  /\ UNCHANGED <<poolVars, key, keys_map, answered, bound, content, metricsVars,
                 mainPc, result>>

\* call_dks gives up and calls sys.exit; or its answer has no key, which is an
\* ordinary KeyError.
FailDks(h) ==
  /\ ThreadAt(h, "call")
  /\ \/ "busy" \in Environment /\ ~may_retry(tries[h]) /\ GoTo(h, "exited")
     \/ "dks" \in Environment /\ GoTo(h, "exited")
     \/ "nokey" \in Environment /\ GoTo(h, "failed")
  /\ UNCHANGED <<listing, existing, at, keyVars, content, metricsVars, mainPc,
                 result>>

\* Mutant: the key is used but not kept.
keys_map_forgets(f, k) == keys_map

keys_map_with(f, k) == [keys_map EXCEPT ![encryptedkey(f)] = k]

\* The answer goes into keys_map, whether or not another thread's is there.
StoreKey(h) ==
  /\ ThreadAt(h, "store")
  /\ keys_map' = keys_map_with(at[h], key[h])
  /\ Bind(h, key[h])
  /\ key' = [key EXCEPT ![h] = NoKey]
  /\ UNCHANGED <<listing, existing, tries, answered, content, metricsVars, mainPc,
                 result>>

\* A re-run empties the directory.
delete_existing_s3_files(h) ==
  /\ ThreadAt(h, "delete")
  /\ content' = IF existing THEN [content EXCEPT ![listing[h]] = {}] ELSE content
  /\ GoTo(h, "persist")
  /\ UNCHANGED <<listing, existing, at, keyVars, metricsVars, mainPc, result>>

\* Each closure decrypts its file with the key that was bound to it.
decrypted(h) == {<<f, bound[f]>> : f \in group_keys_by_collection(h)}

\* Only now are the files read and decrypted, and saveAsTextFile refuses a
\* directory that exists.
persist_json(h) ==
  /\ ThreadAt(h, "persist")
  /\ LET c == listing[h] IN
     \/ /\ content[c] = {}
        /\ content' = [content EXCEPT ![c] = decrypted(h)]
        /\ GoTo(h, "metric")
     \/ /\ content[c] # {} \/ "process" \in Environment
        /\ UNCHANGED content
        /\ GoTo(h, "failed")
  /\ UNCHANGED <<listing, existing, at, keyVars, metricsVars, mainPc, result>>

(***************************************************************************)
(* add_metric: the file is read, opened anew and written when it is closed.*)
(***************************************************************************)
ReadMetrics(w) == lines' = [lines EXCEPT ![w] = times] /\ UNCHANGED times

OpenMetrics == times' = {} /\ UNCHANGED lines

\* What the writer read, without the line it replaces, and its own; of a longer
\* text another wrote since the file was opened a rest may stay.
WriteMetrics(w, name) ==
  /\ \E rest \in SUBSET times : times' = lines[w] \cup {name} \cup rest
  /\ UNCHANGED lines

\* The time of the collection. An exception of add_metric is only logged; one of
\* tagging, measuring or publishing, which are left out here, is not.
AddTime(h) ==
  /\ \/ ThreadAt(h, "metric") /\ ReadMetrics(h) /\ GoTo(h, "open")
     \/ /\ "process" \in Environment
        /\ ThreadAt(h, "metric") /\ GoTo(h, "failed") /\ UNCHANGED metricsVars
     \/ /\ "mknod" \in Environment
        /\ ThreadAt(h, "metric") /\ GoTo(h, "ok") /\ UNCHANGED metricsVars
     \/ ThreadAt(h, "open") /\ OpenMetrics /\ GoTo(h, "write")
     \/ /\ ThreadAt(h, "write") /\ WriteMetrics(h, listing[h])
        /\ \/ GoTo(h, "ok")
           \/ "process" \in Environment /\ GoTo(h, "failed")
  /\ UNCHANGED <<listing, existing, at, keyVars, content, mainPc, result>>

(***************************************************************************)
(* The main thread.                                                        *)
(***************************************************************************)

\* Mutant: the pool is left as soon as one result is there.
pool_is_left_early ==
  \/ \E h \in Files : task[h] = "ok"
  \/ \A h \in Files : task[h] \in AtRest

\* Leaving the "with" block waits for every thread.
PoolIsOver == \A h \in Files : task[h] \in AtRest

\* A result that is an exception, SystemExit too, ends the program.
CollectResults ==
  /\ mainPc = "pool"
  /\ PoolIsOver
  /\ IF \E h \in Files : task[h] \in {"failed", "exited"}
       THEN mainPc' = "over" /\ result' = "FAILED"
       ELSE mainPc' = "metric" /\ UNCHANGED result
  /\ UNCHANGED <<poolVars, keyVars, content, metricsVars>>

\* The time of the whole run, as the last thing.
AddTotalTime ==
  /\ \/ mainPc = "metric" /\ ReadMetrics(Main) /\ mainPc' = "open" /\ UNCHANGED result
     \/ mainPc = "open" /\ OpenMetrics /\ mainPc' = "write" /\ UNCHANGED result
     \/ /\ mainPc = "write" /\ WriteMetrics(Main, Total)
        /\ mainPc' = "over" /\ result' = "COMPLETED"
  /\ UNCHANGED <<poolVars, keyVars, content>>

Thread(h) ==
  \/ TakeGroup(h) \/ ReadFile(h) \/ AnswerDks(h) \/ RetryDks(h) \/ FailDks(h)
  \/ StoreKey(h) \/ delete_existing_s3_files(h) \/ persist_json(h) \/ AddTime(h)

Next == CollectResults \/ AddTotalTime \/ \E h \in Files : Thread(h)

Spec == Init /\ [][Next]_vars

\* Every thread goes on, and every request is answered or refused some time.
FairSpec ==
  /\ Spec /\ WF_vars(CollectResults \/ AddTotalTime)
  /\ \A h \in Files : WF_vars(Thread(h))
-----------------------------------------------------------------------------
(***************************************************************************)
(* Properties.                                                             *)
(***************************************************************************)
\* Every variable holds a value of its kind.
TypeOK ==
  /\ listing \in Listings /\ existing \in BOOLEAN
  /\ task \in [Files -> Places]
  /\ at \in [Files -> Files]
  /\ key \in [Files -> Keys \cup {NoKey}]
  /\ tries \in [Files -> 0 .. Retries]
  /\ keys_map \in [Ciphers \cup Keks -> Keys \cup {NoKey}]
  /\ answered \in [Ciphers -> SUBSET Files]
  /\ bound \in [Files -> Keys \cup {NoKey}]
  /\ content \in [Collections -> SUBSET (Files \X (Keys \cup {NoKey}))]
  /\ times \subseteq Collections \cup {Total}
  /\ lines \in [Writers -> SUBSET (Collections \cup {Total})]
  /\ mainPc \in {"pool", "metric", "open", "write", "over"}
  /\ result \in {"RUNNING", "COMPLETED", "FAILED"}

\* What is written was decrypted with the file's own data key, although the keys
\* are shared by all threads and used long after they were fetched.
OwnKey ==
  \A c \in Collections : \A e \in content[c] :
    listing[e[1]] = c /\ e[2] = Plain[Cipher[e[1]]]

\* The files of a collection are neighbours, as they are when the export has no
\* directories.
Contiguous ==
  \A h, f \in Files : h <= f /\ listing[h] = listing[f] => SameCollection(h, f)

\* A run that succeeds has written every file of every collection of the secret,
\* with its own key; a first run wherever the files stood in the listing, a re-run
\* if they were neighbours.
NothingLeftOut ==
  result = "COMPLETED" /\ (existing => Contiguous) =>
    \A c \in Collections \cap Secrets : content[c] = {Written(f) : f \in FilesOf(c)}

\* Threads that miss a key at the same time each ask DKS for it, but no more than
\* there are threads: however many files share a data key.
DksCallsBounded == \A c \in Ciphers : Cardinality(answered[c]) <= Workers

\* The total time is not lost to a thread that writes back what it read before.
TotalSurvives == result = "COMPLETED" => Total \in times

\* The run comes to an end, whatever DKS answers.
RunEnds == <>(mainPc = "over")

-----------------------------------------------------------------------------
(***************************************************************************)
(* The invariant behind these properties.                                  *)
(***************************************************************************)

\* Every place a key passes through holds the key of the right file.
KeysAreRight ==
  /\ \A c \in Ciphers : keys_map[c] \in {NoKey, Plain[c]}
  /\ \A f \in Files : bound[f] \in {NoKey, Plain[Cipher[f]]}
  /\ \A h \in Files : task[h] = "store" => key[h] = Plain[Cipher[at[h]]]

Done == {"metric", "open", "write", "ok"}

\* How far a group has come: the files before "at" are bound, in the end all.
GroupsAreRight ==
  \A h \in Files :
    /\ task[h] = "idle" <=> h \notin get_collections_in_secrets
    /\ at[h] \in group_keys_by_collection(h)
    /\ \A f \in group_keys_by_collection(h) :
         f < at[h] \/ task[h] \in {"delete", "persist"} \cup Done => bound[f] # NoKey

\* A group that is written has its collection for itself.
ContentIsWhole ==
  (existing => Contiguous) =>
    \A h \in Files : task[h] \in Done =>
      content[listing[h]] = {Written(f) : f \in group_keys_by_collection(h)}

\* The main thread goes on only after all the others, and reports no failed run.
MainIsLast ==
  /\ mainPc # "pool" => PoolIsOver
  /\ mainPc = "over" <=> result # "RUNNING"
  /\ mainPc \in {"metric", "open", "write"} \/ result = "COMPLETED" =>
       \A h \in Files : task[h] \in {"idle", "ok"}

\* Groups that are asking DKS for a key, and those that have their answer.
Asking(c)    == {h \in Files : task[h] \in {"call", "store"} /\ Cipher[at[h]] = c}
Answering(c) == {h \in Asking(c) : task[h] = "store"}
FilesAt(S)   == {at[h] : h \in S}

\* Until a key is known, all answers are in the hands of threads at work; from
\* then on there are only the answers still to come.
DksIsSpared ==
  /\ Cardinality(Busy) <= Workers
  /\ \A c \in Ciphers :
       /\ keys_map[c] = NoKey => answered[c] \subseteq FilesAt(Answering(c))
       /\ Cardinality(answered[c] \cup FilesAt(Asking(c))) <= Workers

FilesInvariant ==
  /\ KeysAreRight /\ GroupsAreRight /\ OwnKey /\ ContentIsWhole
  /\ MainIsLast /\ TotalSurvives /\ DksIsSpared
=============================================================================
