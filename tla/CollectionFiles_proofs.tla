---------------------- MODULE CollectionFiles_proofs ----------------------
(***************************************************************************)
(* Theorems about CollectionFiles, for every listing, every set of keys    *)
(* and every environment: the module's invariant, and from it that every   *)
(* file is decrypted with its own key and none is left out, how often DKS  *)
(* is asked, and that the total time of a run is kept.                     *)
(***************************************************************************)
EXTENDS CollectionFiles, FiniteSetTheorems, WellFoundedInduction, TLAPS

\* A set of natural numbers has a least element.
LEMMA LeastElement ==
  ASSUME NEW T \in SUBSET Nat, T # {}
  PROVE  \E m \in T : \A n \in T : m <= n
<1> DEFINE R == {ss \in Nat \X Nat : ss[1] < ss[2]}
<1>1. IsWellFoundedOn(R, Nat) BY NatLessThanWellFounded DEF OpToRel
<1>2. \A m, n \in Nat : n < m => <<n, m>> \in R OBVIOUS
<1> HIDE DEF R
<1>3. PICK m \in T : \A n \in T : ~(<<n, m>> \in R) BY <1>1, WFMin
<1>4. \A n \in T : ~(n < m) BY <1>2, <1>3
<1> QED BY <1>4

\* Every file is in a group.
LEMMA EveryFileHasAHead ==
  ASSUME NFiles \in Nat, NEW f \in Files
  PROVE  \E h \in Heads : f \in group_keys_by_collection(h)
<1> DEFINE T == {h \in Files : h <= f /\ SameCollection(h, f)}
<1>1. f \in T BY DEF SameCollection, Files
<1>2. T \in SUBSET Nat /\ T # {} BY <1>1 DEF Files
<1>3. PICK m \in T : \A n \in T : m <= n BY <1>2, LeastElement
<1>4. ASSUME m # 1, listing[m - 1] = listing[m] PROVE FALSE
  <2>1. m - 1 \in Files /\ m - 1 <= f BY <1>4 DEF Files
  <2>2. SameCollection(m - 1, f) BY <1>3, <1>4, <2>1 DEF SameCollection, Files
  <2> QED BY <1>3, <2>1, <2>2 DEF Files
<1> QED BY <1>3, <1>4 DEF Heads, group_keys_by_collection

-----------------------------------------------------------------------------
\* Keys are what DKS makes of the data keys, and none is NoKey.
LEMMA KeysFact ==
  /\ NFiles \in Nat /\ NoKey \notin Keys
  /\ \A f \in Files : Cipher[f] \in Ciphers /\ Plain[Cipher[f]] \in Keys
BY FilesAssumption DEF Keys, Ciphers, Files

\* A file bound to a key of the kind stays within the kinds of TypeOK, and the
\* loop within the group.
LEMMA BindType ==
  ASSUME TypeOK, NEW h \in Files, NEW k \in Keys \cup {NoKey}, Bind(h, k)
  PROVE  /\ bound' \in [Files -> Keys \cup {NoKey}]
         /\ at' \in [Files -> Files]
         /\ task' \in [Files -> Places]
<1> USE DEF Bind, TypeOK, GoTo, Places
<1>1. bound' \in [Files -> Keys \cup {NoKey}] OBVIOUS
<1>2. CASE at[h] + 1 \in group_keys_by_collection(h)
  <2>1. at[h] + 1 \in Files BY <1>2 DEF group_keys_by_collection
  <2> QED BY <1>1, <1>2, <2>1
<1>3. CASE at[h] + 1 \notin group_keys_by_collection(h)
  BY <1>1, <1>3
<1> QED BY <1>2, <1>3

THEOREM TypeCorrect == Spec => []TypeOK
<1>1. Init => TypeOK
  <2> SUFFICES ASSUME Init PROVE TypeOK OBVIOUS
  <2>1. content \in [Collections -> SUBSET (Files \X (Keys \cup {NoKey}))]
    <3>1. \A f \in Files : Written(f) \in Files \X Keys BY KeysFact DEF Written
    <3> QED BY <3>1 DEF Init, FilesOf
  <2>2. task \in [Files -> Places] BY DEF Init, Places
  <2>3. tries \in [Files -> 0 .. Retries] BY FilesAssumption DEF Init
  <2> QED BY <2>1, <2>2, <2>3 DEF Init, TypeOK, Writers
<1>2. TypeOK /\ [Next]_vars => TypeOK'
  <2> SUFFICES ASSUME TypeOK, [Next]_vars PROVE TypeOK' OBVIOUS
  <2> USE KeysFact
  <2>1. CASE CollectResults BY <2>1 DEF CollectResults, TypeOK, poolVars, keyVars,
             metricsVars, Collections
  <2>2. CASE AddTotalTime BY <2>2 DEF AddTotalTime, ReadMetrics, OpenMetrics,
             WriteMetrics, TypeOK, poolVars, keyVars, Collections, Writers, Main
  <2>3. ASSUME NEW h \in Files, TakeGroup(h) PROVE TypeOK'
    BY <2>3 DEF TakeGroup, TypeOK, GoTo, Places, keyVars, metricsVars, Collections
  <2>4. ASSUME NEW h \in Files, ReadFile(h) PROVE TypeOK'
    <3> USE <2>4
    <3>1. keys_map[encryptedkey(at[h])] \in Keys \cup {NoKey}
      BY DEF TypeOK, encryptedkey
    <3>2. tries' \in [Files -> 0 .. Retries]
      BY FilesAssumption DEF ReadFile, TypeOK
    <3>3. /\ bound' \in [Files -> Keys \cup {NoKey}] /\ at' \in [Files -> Files]
          /\ task' \in [Files -> Places]
      BY <3>1, BindType DEF ReadFile, TypeOK, GoTo, Places
    <3> QED BY <3>2, <3>3 DEF ReadFile, TypeOK, metricsVars, Collections
  <2>5. ASSUME NEW h \in Files, AnswerDks(h) PROVE TypeOK'
    BY <2>5 DEF AnswerDks, TypeOK, GoTo, Places, metricsVars, Collections
  <2>6. ASSUME NEW h \in Files, RetryDks(h) PROVE TypeOK'
    <3>1. tries' \in [Files -> 0 .. Retries]
      BY <2>6, FilesAssumption DEF RetryDks, TypeOK, may_retry, retry_requests
    <3> QED BY <2>6, <3>1 DEF RetryDks, TypeOK, poolVars, metricsVars, Collections
  <2>7. ASSUME NEW h \in Files, FailDks(h) PROVE TypeOK'
    BY <2>7 DEF FailDks, TypeOK, GoTo, Places, keyVars, metricsVars, Collections
  <2>8. ASSUME NEW h \in Files, StoreKey(h) PROVE TypeOK'
    <3> USE <2>8
    <3>1. key[h] \in Keys \cup {NoKey} BY DEF TypeOK
    <3>2. keys_map' \in [Ciphers \cup Keks -> Keys \cup {NoKey}]
      BY <3>1 DEF StoreKey, keys_map_with, encryptedkey, TypeOK
    <3>3. key' \in [Files -> Keys \cup {NoKey}] BY DEF StoreKey, TypeOK
    <3>4. /\ bound' \in [Files -> Keys \cup {NoKey}] /\ at' \in [Files -> Files]
          /\ task' \in [Files -> Places]
      BY <3>1, BindType DEF StoreKey
    <3> QED BY <3>2, <3>3, <3>4 DEF StoreKey, TypeOK, metricsVars, Collections
  <2>9. ASSUME NEW h \in Files, delete_existing_s3_files(h) PROVE TypeOK'
    BY <2>9 DEF delete_existing_s3_files, TypeOK, GoTo, Places, keyVars, metricsVars,
       Collections
  <2>10. ASSUME NEW h \in Files, persist_json(h) PROVE TypeOK'
    <3>1. decrypted(h) \in SUBSET (Files \X (Keys \cup {NoKey}))
      BY DEF TypeOK, decrypted, group_keys_by_collection
    <3>2. content' \in [Collections -> SUBSET (Files \X (Keys \cup {NoKey}))]
      BY <2>10, <3>1 DEF persist_json, TypeOK
    <3>3. task' \in [Files -> Places] BY <2>10 DEF persist_json, TypeOK, GoTo, Places
    <3> QED BY <2>10, <3>2, <3>3 DEF persist_json, TypeOK, keyVars, metricsVars,
               Collections
  <2>11. ASSUME NEW h \in Files, AddTime(h) PROVE TypeOK'
    BY <2>11 DEF AddTime, ReadMetrics, OpenMetrics, WriteMetrics, ThreadAt, TypeOK,
       GoTo, Places, keyVars, metricsVars, Collections, Writers
  <2>12. CASE UNCHANGED vars
    BY <2>12 DEF vars, poolVars, keyVars, metricsVars, TypeOK, Collections
  <2> QED BY <2>1, <2>2, <2>3, <2>4, <2>5, <2>6, <2>7, <2>8, <2>9, <2>10, <2>11, <2>12
          DEF Next, Thread
<1> QED BY <1>1, <1>2, PTL DEF Spec

-----------------------------------------------------------------------------
\* A file is in one group.
LEMMA OneHead ==
  ASSUME NFiles \in Nat, NEW h \in Heads, NEW g \in Heads, NEW f \in Files,
         f \in group_keys_by_collection(h), f \in group_keys_by_collection(g)
  PROVE  h = g
<1> USE DEF Heads, group_keys_by_collection, SameCollection, Files
<1>1. ASSUME NEW a \in Heads, NEW b \in Heads, a < b, b <= f,
             \A x \in a .. f : listing[x] = listing[a]
      PROVE  FALSE
  <2>1. b - 1 \in a .. f /\ b \in a .. f /\ b # 1 BY <1>1
  <2> QED BY <1>1, <2>1
<1>2. ~(h < g) BY <1>1
<1>3. ~(g < h) BY <1>1
<1> QED BY <1>2, <1>3

\* Where the files of a collection are neighbours, it has one group.
LEMMA OneGroup ==
  ASSUME NFiles \in Nat, Contiguous,
         NEW h \in Heads, NEW g \in Heads, listing[h] = listing[g]
  PROVE  h = g
<1> USE DEF Heads, Files
<1>1. ASSUME NEW a \in Heads, NEW b \in Heads, a <= b, listing[a] = listing[b]
      PROVE  a = b
  <2>1. SameCollection(a, b) BY <1>1 DEF Contiguous
  <2>2. a \in group_keys_by_collection(a)
    BY DEF group_keys_by_collection, SameCollection
  <2>3. b \in group_keys_by_collection(a) BY <1>1, <2>1 DEF group_keys_by_collection
  <2>4. b \in group_keys_by_collection(b)
    BY DEF group_keys_by_collection, SameCollection
  <2> QED BY <2>3, <2>4, OneHead
<1> QED BY <1>1

\* A group is at work only if it is one.
LEMMA GroupsAreHeads ==
  ASSUME FilesInvariant, NEW h \in Files, task[h] # "idle"
  PROVE  h \in Heads /\ listing[h] \in Secrets
BY DEF FilesInvariant, GroupsAreRight, get_collections_in_secrets

\* The initial states.
LEMMA InvariantAtFirst ==
  ASSUME Init PROVE FilesInvariant
<1> USE KeysFact
<1>1. KeysAreRight BY DEF Init, KeysAreRight
<1>2. GroupsAreRight
  BY DEF Init, GroupsAreRight, group_keys_by_collection, SameCollection, Files, Done
<1>3. OwnKey
  <2> SUFFICES ASSUME NEW c \in Collections, NEW e \in content[c]
               PROVE  listing[e[1]] = c /\ e[2] = Plain[Cipher[e[1]]]
    BY DEF OwnKey
  <2>1. \E f \in FilesOf(c) : e = Written(f) BY DEF Init
  <2> QED BY <2>1 DEF FilesOf, Written
<1>4. ContentIsWhole BY DEF Init, ContentIsWhole, Done
<1>5. MainIsLast /\ TotalSurvives BY DEF Init, MainIsLast, TotalSurvives
<1>6. DksIsSpared
  <2>1. Busy = {} BY DEF Init, Busy, AtRest
  <2>2. \A c \in Ciphers : answered[c] = {} /\ FilesAt(Asking(c)) = {}
    BY DEF Init, FilesAt, Asking
  <2> QED BY <2>1, <2>2, FS_EmptySet, FilesAssumption DEF DksIsSpared
<1> QED BY <1>1, <1>2, <1>3, <1>4, <1>5, <1>6 DEF FilesInvariant

\* Keys are looked up, fetched, stored and bound for the file the group is at.
LEMMA KeysStep ==
  ASSUME TypeOK, FilesInvariant, [Next]_vars
  PROVE  KeysAreRight'
<1> USE KeysFact DEF TypeOK, FilesInvariant, KeysAreRight, GoTo, ThreadAt
<1>1. CASE CollectResults \/ AddTotalTime \/ UNCHANGED vars
  BY <1>1 DEF CollectResults, AddTotalTime, vars, poolVars, keyVars
<1>2. ASSUME NEW h \in Files, TakeGroup(h) PROVE KeysAreRight'
  BY <1>2 DEF TakeGroup, keyVars
<1>3. ASSUME NEW h \in Files, ReadFile(h) PROVE KeysAreRight'
  <2>1. CASE \/ keys_map[encryptedkey(at[h])] # NoKey
             /\ Bind(h, keys_map[encryptedkey(at[h])])
    BY <1>3, <2>1 DEF ReadFile, Bind, encryptedkey
  <2>2. CASE GoTo(h, "call") /\ UNCHANGED <<at, bound>>
    BY <1>3, <2>2 DEF ReadFile
  <2>3. CASE GoTo(h, "failed") /\ UNCHANGED <<at, bound>>
    BY <1>3, <2>3 DEF ReadFile
  <2> QED BY <1>3, <2>1, <2>2, <2>3 DEF ReadFile
<1>4. ASSUME NEW h \in Files, AnswerDks(h) PROVE KeysAreRight'
  BY <1>4 DEF AnswerDks
<1>5. ASSUME NEW h \in Files, RetryDks(h) \/ FailDks(h) PROVE KeysAreRight'
  BY <1>5 DEF RetryDks, FailDks, poolVars, keyVars
<1>6. ASSUME NEW h \in Files, StoreKey(h) PROVE KeysAreRight'
  BY <1>6 DEF StoreKey, Bind, keys_map_with, encryptedkey
<1>7. ASSUME NEW h \in Files,
             delete_existing_s3_files(h) \/ persist_json(h) \/ AddTime(h)
      PROVE  KeysAreRight'
  BY <1>7 DEF delete_existing_s3_files, persist_json, AddTime, keyVars
<1> QED BY <1>1, <1>2, <1>3, <1>4, <1>5, <1>6, <1>7 DEF Next, Thread

\* The group of a file is what it is for this listing.
LEMMA GroupsStay ==
  ASSUME UNCHANGED listing
  PROVE  /\ \A h \in Files : group_keys_by_collection(h)' = group_keys_by_collection(h)
         /\ get_collections_in_secrets' = get_collections_in_secrets
         /\ Heads' = Heads /\ Collections' = Collections
BY DEF group_keys_by_collection, SameCollection, get_collections_in_secrets, Heads,
       Collections

\* The file after the one at hand is in the group, or there is none.
LEMMA NextInGroup ==
  ASSUME NFiles \in Nat, NEW h \in Files, NEW a \in group_keys_by_collection(h),
         NEW f \in group_keys_by_collection(h), a < f
  PROVE  a + 1 \in group_keys_by_collection(h) /\ a + 1 <= f
<1>1. a + 1 \in Files /\ a + 1 <= f BY DEF group_keys_by_collection, Files
<1>2. \A g \in h .. (a + 1) : g \in h .. f
  BY <1>1 DEF group_keys_by_collection, Files
<1>3. SameCollection(h, a + 1)
  BY <1>2 DEF group_keys_by_collection, SameCollection
<1> QED BY <1>1, <1>3 DEF group_keys_by_collection, Files

\* Binding the file at hand goes on with the next one, or ends the loop.
LEMMA BindGroups ==
  ASSUME TypeOK, GroupsAreRight, UNCHANGED listing,
         NEW h \in Files, NEW k \in Keys, task[h] \in {"read", "store"}, Bind(h, k)
  PROVE  GroupsAreRight'
<1> USE KeysFact DEF Bind, GoTo
<1> DEFINE G == group_keys_by_collection(h)
<1>0. UNCHANGED <<get_collections_in_secrets, group_keys_by_collection(h)>>
      /\ \A g \in Files : UNCHANGED group_keys_by_collection(g)
  BY GroupsStay
<1>1. \A g \in Files \ {h} : task'[g] = task[g] /\ at'[g] = at[g]
  BY DEF TypeOK
<1>2. \A f \in Files : bound[f] # NoKey \/ f = at[h] => bound'[f] # NoKey
  BY DEF TypeOK
<1>3. at[h] \in G /\ (\A f \in G : f < at[h] => bound[f] # NoKey)
      /\ G \subseteq Files
  BY DEF GroupsAreRight, group_keys_by_collection
<1>4. task'[h] # "idle" BY DEF TypeOK
<1>5. /\ at'[h] \in G
      /\ \A f \in G : f < at'[h] \/ task'[h] \in {"delete", "persist"} \cup Done =>
           f <= at[h]
  <2>1. CASE at[h] + 1 \in G
    <3>1. at'[h] = at[h] + 1 /\ task'[h] = "read" BY <2>1 DEF TypeOK
    <3> QED BY <2>1, <3>1, <1>3 DEF Done, Files
  <2>2. CASE at[h] + 1 \notin G
    <3>1. \A f \in G : ~(at[h] < f) BY <2>2, <1>3, NextInGroup
    <3>2. at' = at BY <2>2
    <3> QED BY <3>1, <3>2, <1>3 DEF Files
  <2> QED BY <2>1, <2>2
<1>6. \A f \in G : f <= at[h] => bound'[f] # NoKey BY <1>2, <1>3 DEF Files
<1> SUFFICES ASSUME NEW g \in Files
    PROVE  /\ task'[g] = "idle" <=> g \notin get_collections_in_secrets
           /\ at'[g] \in group_keys_by_collection(g)
           /\ \A f \in group_keys_by_collection(g) :
                f < at'[g] \/ task'[g] \in {"delete", "persist"} \cup Done =>
                  bound'[f] # NoKey
  BY <1>0 DEF GroupsAreRight, Done
<1>7. CASE g = h
  <2>1. h \in get_collections_in_secrets BY DEF GroupsAreRight
  <2> QED BY <1>4, <1>5, <1>6, <1>7, <2>1
<1>8. CASE g # h
  <2>1. \A f \in group_keys_by_collection(g) : f \in Files
    BY DEF group_keys_by_collection
  <2> QED BY <1>1, <1>2, <1>8, <2>1 DEF GroupsAreRight
<1> QED BY <1>7, <1>8

\* A group changes its place without binding a file.
LEMMA MoveGroups ==
  ASSUME TypeOK, GroupsAreRight, UNCHANGED <<listing, at, bound>>,
         NEW h \in Files, NEW place \in Places, GoTo(h, place),
         task[h] # "idle", place # "idle",
         place \in {"delete", "persist"} \cup Done =>
           task[h] \in {"delete", "persist"} \cup Done
  PROVE  GroupsAreRight'
<1>1. \A g \in Files : UNCHANGED group_keys_by_collection(g)
  BY GroupsStay
<1>2. UNCHANGED get_collections_in_secrets BY GroupsStay
<1>3. \A g \in Files : task'[g] = IF g = h THEN place ELSE task[g]
  BY DEF TypeOK, GoTo
<1> QED BY <1>1, <1>2, <1>3 DEF GroupsAreRight, Done

LEMMA GroupsStep ==
  ASSUME TypeOK, FilesInvariant, [Next]_vars
  PROVE  GroupsAreRight'
<1> USE DEF FilesInvariant
<1>1. CASE CollectResults \/ AddTotalTime \/ UNCHANGED vars
  <2>1. UNCHANGED <<listing, task, at, bound>>
    BY <1>1 DEF CollectResults, AddTotalTime, vars, poolVars, keyVars
  <2>2. /\ \A g \in Files : UNCHANGED group_keys_by_collection(g)
        /\ UNCHANGED get_collections_in_secrets
    BY <2>1, GroupsStay
  <2> QED BY <2>1, <2>2 DEF GroupsAreRight, Done
<1>2. ASSUME NEW h \in Files, TakeGroup(h) \/ AnswerDks(h) \/ FailDks(h)
      PROVE  GroupsAreRight'
  BY <1>2, MoveGroups
     DEF TakeGroup, AnswerDks, FailDks, ThreadAt, Places, keyVars, Done
<1>3. ASSUME NEW h \in Files, ReadFile(h) PROVE GroupsAreRight'
  <2>1. CASE Bind(h, keys_map[encryptedkey(at[h])])
             /\ keys_map[encryptedkey(at[h])] # NoKey
    <3>1. keys_map[encryptedkey(at[h])] \in Keys
      BY <2>1 DEF TypeOK, encryptedkey, Ciphers
    <3> QED BY <1>3, <2>1, <3>1, BindGroups DEF ReadFile, ThreadAt
  <2>2. CASE (GoTo(h, "call") \/ GoTo(h, "failed")) /\ UNCHANGED <<at, bound>>
    BY <1>3, <2>2, MoveGroups DEF ReadFile, ThreadAt, Places, Done
  <2> QED BY <1>3, <2>1, <2>2 DEF ReadFile
<1>4. ASSUME NEW h \in Files, StoreKey(h) PROVE GroupsAreRight'
  <2>1. key[h] \in Keys BY <1>4, KeysFact DEF StoreKey, ThreadAt, KeysAreRight, TypeOK
  <2> QED BY <1>4, <2>1, BindGroups DEF StoreKey, ThreadAt
<1>5. ASSUME NEW h \in Files, RetryDks(h) PROVE GroupsAreRight'
  <2>1. UNCHANGED <<listing, task, at, bound>> BY <1>5 DEF RetryDks, poolVars
  <2>2. /\ \A g \in Files : UNCHANGED group_keys_by_collection(g)
        /\ UNCHANGED get_collections_in_secrets
    BY <2>1, GroupsStay
  <2> QED BY <2>1, <2>2 DEF GroupsAreRight, Done
<1>6. ASSUME NEW h \in Files, delete_existing_s3_files(h) \/ persist_json(h)
      PROVE  GroupsAreRight'
  BY <1>6, MoveGroups
     DEF delete_existing_s3_files, persist_json, ThreadAt, Places, keyVars, Done
<1>7. ASSUME NEW h \in Files, AddTime(h) PROVE GroupsAreRight'
  BY <1>7, MoveGroups DEF AddTime, ThreadAt, Places, keyVars, Done
<1> QED BY <1>1, <1>2, <1>3, <1>4, <1>5, <1>6, <1>7 DEF Next, Thread

\* Steps that leave the objects alone bring no group to an end.
LEMMA ContentStays ==
  ASSUME OwnKey, ContentIsWhole, UNCHANGED <<listing, existing, content>>,
         \A h \in Files : task'[h] \in Done => task[h] \in Done
  PROVE  OwnKey' /\ ContentIsWhole'
<1>1. \A h \in Files : UNCHANGED group_keys_by_collection(h) BY GroupsStay
<1>2. UNCHANGED <<Contiguous, Collections>>
  BY DEF Contiguous, SameCollection, Collections
<1> QED BY <1>1, <1>2 DEF OwnKey, ContentIsWhole, Written, Done

\* A directory is emptied for a group that has not written it.
LEMMA DeleteStep ==
  ASSUME TypeOK, FilesInvariant, NEW h \in Files, delete_existing_s3_files(h)
  PROVE  OwnKey' /\ ContentIsWhole'
<1> USE DEF FilesInvariant, delete_existing_s3_files, ThreadAt, GoTo
<1>1. CASE ~existing
  BY <1>1, ContentStays DEF TypeOK, Done
<1>2. CASE existing
  <2>1. content' = [content EXCEPT ![listing[h]] = {}] BY <1>2
  <2>2. UNCHANGED <<Contiguous, Collections>> /\ listing' = listing
    BY DEF Contiguous, SameCollection, Collections
  <2>3. \A g \in Files : UNCHANGED group_keys_by_collection(g) BY GroupsStay
  <2>4. OwnKey' BY <2>1, <2>2 DEF OwnKey, TypeOK
  <2>5. ASSUME Contiguous, NEW g \in Files, task'[g] \in Done
        PROVE  content'[listing[g]] = {Written(f) : f \in group_keys_by_collection(g)}
    <3>1. g # h /\ task[g] \in Done BY <2>5 DEF TypeOK, Done
    <3>2. g \in Heads /\ h \in Heads BY <3>1, GroupsAreHeads DEF Done
    <3>3. listing[g] # listing[h] BY <2>5, <3>1, <3>2, KeysFact, OneGroup
    <3>4. content'[listing[g]] = content[listing[g]]
      BY <2>1, <3>3 DEF TypeOK, Collections
    <3> QED BY <2>5, <3>1, <3>4 DEF ContentIsWhole
  <2>6. ContentIsWhole'
    BY <1>2, <2>2, <2>3, <2>5 DEF ContentIsWhole, Written, Done
  <2> QED BY <2>4, <2>6
<1> QED BY <1>1, <1>2

\* A group is written only where nothing is, and then is alone there.
LEMMA PersistStep ==
  ASSUME TypeOK, FilesInvariant, NEW h \in Files, persist_json(h)
  PROVE  OwnKey' /\ ContentIsWhole'
<1> USE DEF FilesInvariant, ThreadAt, GoTo
<1>1. CASE UNCHANGED content /\ GoTo(h, "failed")
  BY <1>1, ContentStays DEF persist_json, TypeOK, Done
<1>2. CASE /\ content[listing[h]] = {}
           /\ content' = [content EXCEPT ![listing[h]] = decrypted(h)]
           /\ GoTo(h, "metric")
  <2> DEFINE G == group_keys_by_collection(h)
  <2>1. task[h] = "persist" BY DEF persist_json
  <2>2. UNCHANGED <<listing, existing>> BY DEF persist_json
  <2>3. UNCHANGED <<Contiguous, Collections>>
    BY <2>2 DEF Contiguous, SameCollection, Collections
  <2>4. \A g \in Files : UNCHANGED group_keys_by_collection(g) BY <2>2, GroupsStay
  <2>5. \A f \in G : f \in Files /\ listing[f] = listing[h]
    BY DEF group_keys_by_collection, SameCollection, Files
  <2>6. \A f \in G : bound[f] = Plain[Cipher[f]]
    BY <2>1, <2>5 DEF GroupsAreRight, KeysAreRight
  <2>7. decrypted(h) = {Written(f) : f \in G} BY <2>6 DEF decrypted, Written
  <2>8. \A e \in decrypted(h) : listing[e[1]] = listing[h] /\ e[2] = Plain[Cipher[e[1]]]
    BY <2>5, <2>7 DEF Written
  <2>9. listing[h] \in Collections BY DEF Collections
  <2>10. OwnKey' BY <1>2, <2>2, <2>3, <2>8, <2>9 DEF OwnKey, TypeOK
  <2>11. ASSUME existing => Contiguous, NEW g \in Files, task'[g] \in Done
         PROVE  content'[listing[g]] = {Written(f) : f \in group_keys_by_collection(g)}
    <3>1. CASE g = h BY <1>2, <2>7, <2>9, <3>1 DEF TypeOK
    <3>2. CASE g # h
      <4>1. task[g] \in Done BY <1>2, <2>11, <3>2 DEF TypeOK
      <4>2. content[listing[g]] = {Written(f) : f \in group_keys_by_collection(g)}
        BY <2>11, <4>1 DEF ContentIsWhole
      <4>3. g \in group_keys_by_collection(g)
        BY KeysFact DEF group_keys_by_collection, SameCollection, Files
      <4>4. listing[g] # listing[h] BY <1>2, <4>2, <4>3
      <4> QED BY <1>2, <4>2, <4>4 DEF TypeOK, Collections
    <3> QED BY <3>1, <3>2
  <2>12. ContentIsWhole'
    BY <2>2, <2>3, <2>4, <2>11 DEF ContentIsWhole, Written, Done
  <2> QED BY <2>10, <2>12
<1> QED BY <1>1, <1>2 DEF persist_json

LEMMA ContentStep ==
  ASSUME TypeOK, FilesInvariant, [Next]_vars
  PROVE  OwnKey' /\ ContentIsWhole'
<1> USE DEF FilesInvariant, ThreadAt, GoTo
<1>1. CASE CollectResults \/ AddTotalTime \/ UNCHANGED vars
  BY <1>1, ContentStays DEF CollectResults, AddTotalTime, vars, poolVars
<1>2. ASSUME NEW h \in Files, TakeGroup(h) \/ AnswerDks(h) \/ FailDks(h)
      PROVE  OwnKey' /\ ContentIsWhole'
  BY <1>2, ContentStays DEF TakeGroup, AnswerDks, FailDks, TypeOK, Done
<1>3. ASSUME NEW h \in Files, RetryDks(h) PROVE OwnKey' /\ ContentIsWhole'
  BY <1>3, ContentStays DEF RetryDks, poolVars
<1>4. ASSUME NEW h \in Files, ReadFile(h) \/ StoreKey(h)
      PROVE  OwnKey' /\ ContentIsWhole'
  <2>1. UNCHANGED <<listing, existing, content>> BY <1>4 DEF ReadFile, StoreKey
  <2>2. \E place \in {"read", "delete", "call", "failed"} :
          task' = [task EXCEPT ![h] = place]
    BY <1>4 DEF ReadFile, StoreKey, Bind
  <2>3. \A g \in Files : task'[g] \in Done => task[g] \in Done
    BY <2>2 DEF TypeOK, Done
  <2> QED BY <2>1, <2>3, ContentStays
<1>5. ASSUME NEW h \in Files, AddTime(h) PROVE OwnKey' /\ ContentIsWhole'
  BY <1>5, ContentStays DEF AddTime, TypeOK, Done
<1> QED BY <1>1, <1>2, <1>3, <1>4, <1>5, DeleteStep, PersistStep DEF Next, Thread

\* While a thread is at work the main thread waits, so nobody writes the metrics
\* file after it.
LEMMA MainStep ==
  ASSUME TypeOK, FilesInvariant, [Next]_vars
  PROVE  MainIsLast' /\ TotalSurvives'
<1> USE DEF FilesInvariant, MainIsLast, TotalSurvives, PoolIsOver
<1>1. CASE CollectResults BY <1>1 DEF CollectResults, poolVars, metricsVars, TypeOK,
                                    AtRest, Places
<1>2. CASE AddTotalTime
  BY <1>2 DEF AddTotalTime, poolVars, WriteMetrics, TypeOK, AtRest
<1>3. ASSUME NEW h \in Files, Thread(h) PROVE MainIsLast' /\ TotalSurvives'
  <2>1. task[h] \notin AtRest
    BY <1>3 DEF Thread, TakeGroup, ReadFile, AnswerDks, RetryDks, FailDks, StoreKey,
       delete_existing_s3_files, persist_json, AddTime, ThreadAt, AtRest
  <2>2. mainPc = "pool" /\ result = "RUNNING" BY <2>1 DEF TypeOK
  <2>3. UNCHANGED <<mainPc, result>>
    BY <1>3 DEF Thread, TakeGroup, ReadFile, AnswerDks, RetryDks, FailDks, StoreKey,
       delete_existing_s3_files, persist_json, AddTime
  <2> QED BY <2>2, <2>3
<1>4. CASE UNCHANGED vars BY <1>4 DEF vars, poolVars, metricsVars
<1> QED BY <1>1, <1>2, <1>3, <1>4 DEF Next

-----------------------------------------------------------------------------
\* A function has no more values than arguments.
LEMMA ImageIsNoLarger ==
  ASSUME NEW S, IsFiniteSet(S), NEW g, NEW n \in Nat, Cardinality(S) <= n,
         NEW T \in SUBSET {g[x] : x \in S}
  PROVE  Cardinality(T) <= n
<1> DEFINE Image == {g[x] : x \in S}
<1> DEFINE f == [x \in S |-> g[x]]
<1>1. f \in Surjection(S, Image) BY DEF Surjection
<1>2. IsFiniteSet(Image) /\ Cardinality(Image) <= Cardinality(S)
  BY <1>1, FS_Surjection
<1>3. IsFiniteSet(T) /\ Cardinality(T) <= Cardinality(Image) BY <1>2, FS_Subset
<1>4. Cardinality(T) \in Nat /\ Cardinality(Image) \in Nat /\ Cardinality(S) \in Nat
  BY <1>2, <1>3, FS_CardinalityType
<1> QED BY <1>2, <1>3, <1>4

\* Only TakeGroup makes a thread busy, and only while one is free.
LEMMA BusyStep ==
  ASSUME TypeOK, FilesInvariant, [Next]_vars
  PROVE  Cardinality(Busy') <= Workers
<1> USE FilesAssumption DEF FilesInvariant, DksIsSpared
<1>0. IsFiniteSet(Files) BY FS_Interval DEF Files
<1>1. IsFiniteSet(Busy) BY <1>0, FS_Subset DEF Busy
<1>2. Cardinality(Busy) \in Nat BY <1>1, FS_CardinalityType
<1>3. ASSUME Busy' \subseteq Busy PROVE Cardinality(Busy') <= Workers
  <2>1. IsFiniteSet(Busy') /\ Cardinality(Busy') <= Cardinality(Busy)
    BY <1>1, <1>3, FS_Subset
  <2>2. Cardinality(Busy') \in Nat BY <2>1, FS_CardinalityType
  <2> QED BY <2>1, <2>2, <1>2
<1>4. ASSUME NEW h \in Files, TakeGroup(h) PROVE Cardinality(Busy') <= Workers
  <2>1. Busy' = Busy \cup {h}
    BY <1>4 DEF TakeGroup, Busy, GoTo, AtRest, TypeOK
  <2>2. Cardinality(Busy \cup {h}) <= Cardinality(Busy) + 1
    <3>1. Cardinality(Busy \cup {h})
            = IF h \in Busy THEN Cardinality(Busy) ELSE Cardinality(Busy) + 1
      BY <1>1, FS_AddElement
    <3> QED BY <1>2, <3>1
  <2>3. Cardinality(Busy') \in Nat
    BY <1>1, <2>1, FS_AddElement, FS_CardinalityType
  <2> QED BY <1>2, <1>4, <2>1, <2>2, <2>3 DEF TakeGroup
<1>5. CASE CollectResults \/ AddTotalTime \/ UNCHANGED vars
  BY <1>3, <1>5 DEF CollectResults, AddTotalTime, vars, poolVars, Busy
<1>6. ASSUME NEW h \in Files,
             ReadFile(h) \/ AnswerDks(h) \/ RetryDks(h) \/ FailDks(h) \/ StoreKey(h)
               \/ delete_existing_s3_files(h) \/ persist_json(h) \/ AddTime(h)
      PROVE  Cardinality(Busy') <= Workers
  <2>1. h \in Busy
    BY <1>6 DEF ReadFile, AnswerDks, RetryDks, FailDks, StoreKey,
       delete_existing_s3_files, persist_json, AddTime, ThreadAt, Busy, AtRest
  <2>2. \A g \in Files \ {h} : task'[g] = task[g]
    BY <1>6 DEF ReadFile, AnswerDks, RetryDks, FailDks, StoreKey, Bind, poolVars,
       delete_existing_s3_files, persist_json, AddTime, GoTo, TypeOK
  <2> QED BY <1>3, <2>1, <2>2 DEF Busy
<1> QED BY <1>4, <1>5, <1>6 DEF Next, Thread

\* Answers stay in the hands of the threads that have them.
Held(c) ==
  keys_map'[c] = NoKey => answered'[c] \subseteq FilesAt(Answering(c))'

\* Once a key is known no request is added.
NoneAdded(c) ==
  keys_map'[c] # NoKey =>
    answered'[c] \cup FilesAt(Asking(c))' \subseteq answered[c] \cup FilesAt(Asking(c))

LEMMA HeldStays ==
  ASSUME DksIsSpared, NEW c \in Ciphers, answered'[c] = answered[c],
         keys_map'[c] = NoKey =>
           /\ keys_map[c] = NoKey
           /\ \A g \in Answering(c) : g \in Answering(c)' /\ at'[g] = at[g]
  PROVE  Held(c)
<1> SUFFICES ASSUME keys_map'[c] = NoKey, NEW f \in answered'[c]
             PROVE  f \in FilesAt(Answering(c))'
  BY DEF Held
<1>1. f \in FilesAt(Answering(c)) BY DEF DksIsSpared
<1>2. PICK g \in Answering(c) : f = at[g] BY <1>1 DEF FilesAt
<1>3. g \in Answering(c)' /\ at'[g] = f BY <1>2
<1> QED BY <1>3 DEF FilesAt

LEMMA NoneAddedStays ==
  ASSUME NEW c \in Ciphers, answered'[c] = answered[c],
         keys_map'[c] # NoKey =>
           \A g \in Asking(c)' : g \in Asking(c) /\ at'[g] = at[g]
  PROVE  NoneAdded(c)
BY DEF NoneAdded, FilesAt

\* A step of a group that neither asks nor comes to ask.
LEMMA NotAsking ==
  ASSUME DksIsSpared, NEW c \in Ciphers, NEW h \in Files,
         task[h] \notin {"call", "store"}, task'[h] \notin {"call", "store"},
         \A g \in Files \ {h} : task'[g] = task[g] /\ at'[g] = at[g],
         UNCHANGED <<keys_map, answered>>
  PROVE  Held(c) /\ NoneAdded(c)
<1>1. \A g \in Answering(c) : g \in Answering(c)' /\ at'[g] = at[g]
  BY DEF Answering, Asking
<1>2. \A g \in Asking(c)' : g \in Asking(c) /\ at'[g] = at[g]
  BY DEF Asking
<1> QED BY <1>1, <1>2, HeldStays, NoneAddedStays

\* How the answers for a data key and the requests for it follow each other.
LEMMA AnswersStep ==
  ASSUME TypeOK, FilesInvariant, [Next]_vars, NEW c \in Ciphers
  PROVE  Held(c) /\ NoneAdded(c)
<1> USE DEF FilesInvariant, ThreadAt, GoTo
<1>1. CASE UNCHANGED <<task, at, keys_map, answered>>
  <2>1. Asking(c)' = Asking(c) /\ Answering(c)' = Answering(c)
    BY <1>1 DEF Asking, Answering
  <2> QED BY <1>1, <2>1, HeldStays, NoneAddedStays
<1>2. ASSUME NEW h \in Files,
             TakeGroup(h) \/ delete_existing_s3_files(h) \/ persist_json(h) \/ AddTime(h)
      PROVE  Held(c) /\ NoneAdded(c)
  BY <1>2, NotAsking DEF TakeGroup, delete_existing_s3_files, persist_json, AddTime,
                    keyVars, TypeOK
<1>3. ASSUME NEW h \in Files, ReadFile(h) PROVE Held(c) /\ NoneAdded(c)
  <2>1. CASE \/ Bind(h, keys_map[encryptedkey(at[h])])
             \/ GoTo(h, "failed") /\ UNCHANGED at
    BY <1>3, <2>1, NotAsking DEF ReadFile, Bind, TypeOK
  <2>2. CASE /\ keys_map[encryptedkey(at[h])] = NoKey
             /\ GoTo(h, "call") /\ UNCHANGED at
    <3>1. UNCHANGED <<keys_map, answered>> BY <1>3 DEF ReadFile
    <3>2. \A g \in Files \ {h} : task'[g] = task[g] BY <2>2 DEF TypeOK
    <3>3. task[h] = "read" /\ task'[h] = "call" BY <1>3, <2>2 DEF ReadFile, TypeOK
    <3>4. Held(c)
      <4>1. \A g \in Answering(c) : g \in Answering(c)' /\ at'[g] = at[g]
        BY <2>2, <3>2, <3>3 DEF Answering, Asking
      <4> QED BY <3>1, <4>1, HeldStays
    <3>5. NoneAdded(c)
      <4>1. ASSUME keys_map'[c] # NoKey, NEW g \in Asking(c)'
            PROVE  g \in Asking(c) /\ at'[g] = at[g]
        BY <2>2, <3>1, <3>2, <3>3, <4>1 DEF Asking, encryptedkey
      <4> QED BY <3>1, <4>1, NoneAddedStays
    <3> QED BY <3>4, <3>5
  <2>3. \/ Bind(h, keys_map[encryptedkey(at[h])])
        \/ keys_map[encryptedkey(at[h])] = NoKey /\ GoTo(h, "call") /\ UNCHANGED at
        \/ GoTo(h, "failed") /\ UNCHANGED at
    BY <1>3 DEF ReadFile
  <2> QED BY <2>1, <2>2, <2>3
<1>4. ASSUME NEW h \in Files, AnswerDks(h) PROVE Held(c) /\ NoneAdded(c)
  <2>1. /\ task[h] = "call" /\ task'[h] = "store" /\ UNCHANGED <<at, keys_map>>
        /\ \A g \in Files \ {h} : task'[g] = task[g]
    BY <1>4 DEF AnswerDks, TypeOK
  <2>2. Asking(c)' = Asking(c) BY <2>1 DEF Asking
  <2>3. \A g \in Answering(c) : g \in Answering(c)' BY <2>1 DEF Asking, Answering
  <2>4. CASE Cipher[at[h]] = c
    <3>1. answered'[c] = answered[c] \cup {at[h]} BY <1>4, <2>4 DEF AnswerDks, TypeOK
    <3>2. h \in Answering(c)' /\ h \in Asking(c) BY <2>1, <2>4 DEF Asking, Answering
    <3>3. Held(c) BY <2>1, <2>3, <3>1, <3>2 DEF Held, FilesAt, DksIsSpared
    <3>4. NoneAdded(c) BY <2>1, <2>2, <3>1, <3>2 DEF NoneAdded, FilesAt
    <3> QED BY <3>3, <3>4
  <2>5. CASE Cipher[at[h]] # c
    <3>1. answered'[c] = answered[c] BY <1>4, <2>5 DEF AnswerDks, TypeOK
    <3> QED BY <2>1, <2>2, <2>3, <3>1, HeldStays, NoneAddedStays
  <2> QED BY <2>4, <2>5
<1>5. ASSUME NEW h \in Files, FailDks(h) PROVE Held(c) /\ NoneAdded(c)
  <2>1. /\ task[h] = "call" /\ task'[h] \notin {"call", "store"}
        /\ UNCHANGED <<at, keys_map, answered>>
        /\ \A g \in Files \ {h} : task'[g] = task[g]
    BY <1>5 DEF FailDks, TypeOK, keyVars
  <2>2. \A g \in Asking(c)' : g \in Asking(c) BY <2>1 DEF Asking
  <2>3. \A g \in Answering(c) : g \in Answering(c)' BY <2>1 DEF Asking, Answering
  <2> QED BY <2>1, <2>2, <2>3, HeldStays, NoneAddedStays
<1>6. ASSUME NEW h \in Files, StoreKey(h) PROVE Held(c) /\ NoneAdded(c)
  <2>1. /\ task[h] = "store" /\ task'[h] \notin {"call", "store"}
        /\ UNCHANGED answered
        /\ \A g \in Files \ {h} : task'[g] = task[g] /\ at'[g] = at[g]
    BY <1>6 DEF StoreKey, Bind, TypeOK
  <2>2. \A g \in Asking(c)' : g \in Asking(c) /\ at'[g] = at[g]
    BY <2>1 DEF Asking
  <2>3. NoneAdded(c) BY <2>1, <2>2, NoneAddedStays
  <2>4. CASE Cipher[at[h]] = c
    <3>1. keys_map'[c] # NoKey
      BY <1>6, <2>1, <2>4, KeysFact
      DEF StoreKey, keys_map_with, encryptedkey, KeysAreRight, TypeOK
    <3> QED BY <2>3, <3>1 DEF Held
  <2>5. CASE Cipher[at[h]] # c
    <3>1. keys_map'[c] = keys_map[c]
      BY <1>6, <2>5 DEF StoreKey, keys_map_with, encryptedkey, TypeOK
    <3>2. \A g \in Answering(c) : g \in Answering(c)' /\ at'[g] = at[g]
      BY <2>1, <2>5 DEF Answering, Asking
    <3> QED BY <2>1, <2>3, <3>1, <3>2, HeldStays
  <2> QED BY <2>4, <2>5
<1>7. ASSUME CollectResults \/ AddTotalTime \/ UNCHANGED vars
             \/ \E h \in Files : RetryDks(h)
      PROVE  UNCHANGED <<task, at, keys_map, answered>>
  BY <1>7 DEF CollectResults, AddTotalTime, RetryDks, vars, poolVars, keyVars
<1> QED BY <1>1, <1>2, <1>3, <1>4, <1>5, <1>6, <1>7 DEF Next, Thread

LEMMA DksStep ==
  ASSUME TypeOK, TypeOK', FilesInvariant, [Next]_vars
  PROVE  DksIsSpared'
<1> USE FilesAssumption
<1>1. Cardinality(Busy') <= Workers BY BusyStep
<1> SUFFICES ASSUME NEW c \in Ciphers
    PROVE  /\ keys_map'[c] = NoKey => answered'[c] \subseteq FilesAt(Answering(c))'
           /\ Cardinality(answered'[c] \cup FilesAt(Asking(c))') <= Workers
  BY <1>1 DEF DksIsSpared
<1>2. CASE keys_map'[c] = NoKey
  <2>1. answered'[c] \cup FilesAt(Asking(c))' \subseteq FilesAt(Busy)'
    BY <1>2, AnswersStep DEF Held, Answering, Asking, FilesAt, Busy, AtRest
  <2>2. answered'[c] \cup FilesAt(Asking(c))' \in SUBSET {at'[h] : h \in Busy'}
    BY <2>1 DEF FilesAt
  <2>3. IsFiniteSet(Files) BY FS_Interval DEF Files
  <2>4. IsFiniteSet(Busy') BY <2>3, FS_Subset DEF Busy
  <2>5. Cardinality(answered'[c] \cup FilesAt(Asking(c))') <= Workers
    BY <1>1, <2>2, <2>4, ImageIsNoLarger
  <2> QED BY <1>2, <2>5, AnswersStep DEF Held
<1>3. CASE keys_map'[c] # NoKey
  <2> DEFINE Old == answered[c] \cup FilesAt(Asking(c))
             New == answered'[c] \cup FilesAt(Asking(c))'
  <2>1. New \subseteq Old BY <1>3, AnswersStep DEF NoneAdded
  <2>2. Old \subseteq Files BY DEF TypeOK, FilesAt, Asking
  <2>3. IsFiniteSet(Files) BY FS_Interval DEF Files
  <2>4. IsFiniteSet(Old) BY <2>2, <2>3, FS_Subset
  <2>5. IsFiniteSet(New) /\ Cardinality(New) <= Cardinality(Old)
    BY <2>1, <2>4, FS_Subset
  <2>6. Cardinality(New) \in Nat /\ Cardinality(Old) \in Nat
    BY <2>4, <2>5, FS_CardinalityType
  <2>7. Cardinality(Old) <= Workers BY DEF FilesInvariant, DksIsSpared
  <2>8. Cardinality(New) <= Workers BY <2>5, <2>6, <2>7
  <2> QED BY <1>3, <2>8
<1> QED BY <1>2, <1>3

-----------------------------------------------------------------------------
\* The invariant holds in every state of every run.
THEOREM FilesInvariantHolds == Spec => []FilesInvariant
<1>1. Init => FilesInvariant BY InvariantAtFirst
<1>2. TypeOK /\ TypeOK' /\ FilesInvariant /\ [Next]_vars => FilesInvariant'
  BY KeysStep, GroupsStep, ContentStep, MainStep, DksStep DEF FilesInvariant
<1> QED BY <1>1, <1>2, TypeCorrect, PTL DEF Spec

\* What is written was decrypted with the file's own data key, although all
\* threads share the keys and use them long after they were fetched.
THEOREM KeysAreNotMixed == Spec => []OwnKey
<1>1. FilesInvariant => OwnKey BY DEF FilesInvariant
<1> QED BY <1>1, FilesInvariantHolds, PTL

\* A run that succeeds has written every file of every collection of the secret;
\* a re-run if the files of a collection were neighbours.
THEOREM NoFileIsLeftOut == Spec => []NothingLeftOut
<1>1. TypeOK /\ FilesInvariant => NothingLeftOut
  <2> SUFFICES ASSUME TypeOK, FilesInvariant, result = "COMPLETED",
                      existing => Contiguous, NEW c \in Collections \cap Secrets
               PROVE  content[c] = {Written(f) : f \in FilesOf(c)}
    BY DEF NothingLeftOut
  <2> USE KeysFact DEF FilesInvariant
  <2>1. ASSUME NEW f \in FilesOf(c)
        PROVE  /\ Written(f) \in content[c]
               /\ content[c] \subseteq {Written(g) : g \in FilesOf(c)}
    <3>1. PICK h \in Heads : f \in group_keys_by_collection(h)
      BY EveryFileHasAHead DEF FilesOf
    <3>2. h \in Files /\ listing[h] = c
      BY <3>1 DEF Heads, FilesOf, group_keys_by_collection, SameCollection, Files
    <3>3. h \in get_collections_in_secrets
      BY <3>1, <3>2 DEF get_collections_in_secrets
    <3>4. task[h] = "ok" BY <3>2, <3>3 DEF GroupsAreRight, MainIsLast
    <3>5. content[c] = {Written(g) : g \in group_keys_by_collection(h)}
      BY <3>2, <3>4 DEF ContentIsWhole, Done
    <3>6. group_keys_by_collection(h) \subseteq FilesOf(c)
      BY <3>2 DEF group_keys_by_collection, SameCollection, FilesOf, Files
    <3> QED BY <3>1, <3>5, <3>6
  <2>2. \E f \in Files : f \in FilesOf(c) BY DEF Collections, FilesOf
  <2> QED BY <2>1, <2>2
<1> QED BY <1>1, TypeCorrect, FilesInvariantHolds, PTL

\* However many files share a data key, DKS is asked for it at most once per
\* thread.
THEOREM DksIsNotFlooded == Spec => []DksCallsBounded
<1>1. TypeOK /\ FilesInvariant => DksCallsBounded
  <2> SUFFICES ASSUME TypeOK, FilesInvariant, NEW c \in Ciphers
               PROVE  Cardinality(answered[c]) <= Workers
    BY DEF DksCallsBounded
  <2> DEFINE All == answered[c] \cup FilesAt(Asking(c))
  <2>1. Cardinality(All) <= Workers BY DEF FilesInvariant, DksIsSpared
  <2>2. IsFiniteSet(Files) BY FilesAssumption, FS_Interval DEF Files
  <2>3. All \subseteq Files BY DEF TypeOK, FilesAt, Asking
  <2>4. IsFiniteSet(All) BY <2>2, <2>3, FS_Subset
  <2>5. IsFiniteSet(answered[c]) /\ Cardinality(answered[c]) <= Cardinality(All)
    BY <2>4, FS_Subset
  <2>6. Cardinality(All) \in Nat /\ Cardinality(answered[c]) \in Nat
    BY <2>4, <2>5, FS_CardinalityType
  <2> QED BY <2>1, <2>5, <2>6, FilesAssumption
<1> QED BY <1>1, TypeCorrect, FilesInvariantHolds, PTL

\* The total time of a run that succeeds is in the metrics file.
THEOREM TotalTimeIsKept == Spec => []TotalSurvives
<1>1. FilesInvariant => TotalSurvives BY DEF FilesInvariant
<1> QED BY <1>1, FilesInvariantHolds, PTL
-----------------------------------------------------------------------------
(***************************************************************************)
(* The run comes to an end, as far as that is a matter of safety: it has a *)
(* bounded number of steps ahead, each leaves fewer, retries of DKS too,   *)
(* and until it is over someone can take one. That someone does is RunEnds,*)
(* which rests on fairness.                                                *)
(***************************************************************************)

\* The steps of a file: its metadata, the call and its retries, the answer's use.
FileSteps == Retries + 3

\* The steps a thread has ahead of it at most: at this place, with this file at
\* hand, after so many retries. The last five begin with "delete".
Ahead(place, f, n) ==
  CASE place = "queued"  -> (NFiles - f) * FileSteps + FileSteps + 6
    [] place = "read"    -> (NFiles - f) * FileSteps + FileSteps + 5
    [] place = "call"    -> (NFiles - f) * FileSteps + (Retries - n) + 7
    [] place = "store"   -> (NFiles - f) * FileSteps + 6
    [] place = "delete"  -> 5
    [] place = "persist" -> 4
    [] place = "metric"  -> 3
    [] place = "open"    -> 2
    [] place = "write"   -> 1
    [] OTHER             -> 0

MostAhead == NFiles * FileSteps + 6

MainAhead ==
  CASE mainPc = "pool"   -> 4
    [] mainPc = "metric" -> 3
    [] mainPc = "open"   -> 2
    [] mainPc = "write"  -> 1
    [] OTHER             -> 0

\* The steps of all threads.
ThreadSteps ==
  {x \in Files \X (1 .. MostAhead) : x[2] <= Ahead(task[x[1]], at[x[1]], tries[x[1]])}

StepsLeft == MainAhead + Cardinality(ThreadSteps)

MostSteps == 4 + NFiles * MostAhead

\* A thread that finds a place in the pool, or is at work.
CanMove(h) ==
  task[h] \notin AtRest /\ (task[h] = "queued" => Cardinality(Busy) < Workers)

\* Until the run is over the main thread can go on, or a thread it waits for can.
NobodyWaitsForever ==
  result = "RUNNING" =>
    \/ mainPc \in {"metric", "open", "write"}
    \/ mainPc = "pool" /\ (PoolIsOver \/ \E h \in Files : CanMove(h))

\* Each step leaves the run fewer.
RunGetsShorter == [][StepsLeft' < StepsLeft]_vars

LEMMA FewerFiles ==
  ASSUME NEW a \in Nat, NEW b \in Nat, NEW w \in Nat, a < b
  PROVE  a * w \in Nat /\ b * w \in Nat /\ a * w + w <= b * w
<1>1. PICK k \in Nat : b = a + 1 + k
  <2>1. b - a - 1 \in Nat OBVIOUS
  <2> QED BY <2>1
<1>2. b * w = a * w + w + k * w BY <1>1
<1>3. a * w \in Nat /\ k * w \in Nat OBVIOUS
<1> QED BY <1>2, <1>3

LEMMA CountsAreNumbers ==
  /\ FileSteps \in Nat /\ MostAhead \in Nat /\ NFiles * FileSteps \in Nat
  /\ \A f \in Files : NFiles - f \in Nat /\ (NFiles - f) * FileSteps \in Nat
<1>1. FileSteps \in Nat BY FilesAssumption DEF FileSteps
<1>2. NFiles * FileSteps \in Nat BY <1>1, FilesAssumption
<1>3. ASSUME NEW f \in Files PROVE NFiles - f \in Nat BY FilesAssumption DEF Files
<1>4. ASSUME NEW f \in Files PROVE (NFiles - f) * FileSteps \in Nat
  BY <1>1, <1>3
<1> QED BY <1>1, <1>2, <1>3, <1>4 DEF MostAhead

LEMMA AheadIsBounded ==
  ASSUME NEW place, NEW f \in Files, NEW n \in 0 .. Retries
  PROVE  Ahead(place, f, n) \in 0 .. MostAhead
<1> DEFINE rest == (NFiles - f) * FileSteps
           all  == NFiles * FileSteps
<1>1. /\ rest \in Nat /\ all \in Nat /\ FileSteps \in Nat
      /\ NFiles - f \in Nat /\ NFiles \in Nat /\ NFiles - f < NFiles
  BY CountsAreNumbers, FilesAssumption DEF Files
<1>2. rest + FileSteps <= all BY <1>1, FewerFiles
<1>3. Ahead(place, f, n) \in {rest + FileSteps + 6, rest + FileSteps + 5,
                              rest + (Retries - n) + 7, rest + 6, 5, 4, 3, 2, 1, 0}
  BY DEF Ahead
<1> HIDE DEF rest, all
<1>4. MostAhead = all + 6 BY DEF MostAhead, all
<1>5. Retries \in Nat /\ FileSteps = Retries + 3 BY FilesAssumption DEF FileSteps
<1> QED BY <1>1, <1>2, <1>3, <1>4, <1>5

LEMMA ThreadStepsAreFinite ==
  /\ IsFiniteSet(Files \X (1 .. MostAhead))
  /\ Cardinality(Files \X (1 .. MostAhead)) = NFiles * MostAhead
<1>1. \A n \in Nat : IsFiniteSet(1 .. n) /\ Cardinality(1 .. n) = n
  <2>1. \A n \in Nat : 1 \in Int /\ n \in Int OBVIOUS
  <2>2. \A n \in Nat : /\ IsFiniteSet(1 .. n)
                       /\ Cardinality(1 .. n) = IF 1 > n THEN 0 ELSE n - 1 + 1
    BY <2>1, FS_Interval, Zenon
  <2> QED BY <2>2
<1>2. IsFiniteSet(Files) /\ Cardinality(Files) = NFiles
  BY <1>1, FilesAssumption DEF Files
<1>3. IsFiniteSet(1 .. MostAhead) /\ Cardinality(1 .. MostAhead) = MostAhead
  BY <1>1, CountsAreNumbers
<1> QED BY <1>2, <1>3, FS_Product

LEMMA StepsLeftIsBounded ==
  /\ IsFiniteSet(ThreadSteps) /\ Cardinality(ThreadSteps) \in Nat
  /\ StepsLeft \in 0 .. MostSteps
<1>1. ThreadSteps \in SUBSET (Files \X (1 .. MostAhead)) BY DEF ThreadSteps
<1>2. /\ IsFiniteSet(ThreadSteps)
      /\ Cardinality(ThreadSteps) <= Cardinality(Files \X (1 .. MostAhead))
  BY <1>1, ThreadStepsAreFinite, FS_Subset
<1>3. Cardinality(ThreadSteps) \in Nat BY <1>2, FS_CardinalityType
<1>4. Cardinality(ThreadSteps) <= NFiles * MostAhead
  BY <1>2, ThreadStepsAreFinite
<1>5. NFiles * MostAhead \in Nat BY CountsAreNumbers, FilesAssumption
<1>6. MainAhead \in 0 .. 4 BY DEF MainAhead
<1> QED BY <1>2, <1>3, <1>4, <1>5, <1>6 DEF StepsLeft, MostSteps

\* Binding a file leaves fewer steps than the call of DKS left to its answer.
LEMMA BindGoesOn ==
  ASSUME TypeOK, NEW h \in Files, NEW k, Bind(h, k)
  PROVE  Ahead(task'[h], at'[h], tries'[h]) \in 0 .. ((NFiles - at[h]) * FileSteps + 5)
<1> USE DEF Bind, GoTo, TypeOK
<1> DEFINE rest == (NFiles - at[h]) * FileSteps
<1>1. rest \in Nat BY CountsAreNumbers
<1>2. CASE at[h] + 1 \in group_keys_by_collection(h)
  <2>1. /\ at'[h] = at[h] + 1 /\ task'[h] = "read"
        /\ at[h] \in Files /\ at[h] + 1 \in Files
    BY <1>2 DEF group_keys_by_collection
  <2>2. /\ NFiles - (at[h] + 1) \in Nat /\ NFiles - at[h] \in Nat
        /\ NFiles - (at[h] + 1) < NFiles - at[h] /\ FileSteps \in Nat
    <3>1. /\ NFiles \in Nat /\ at[h] \in 1 .. NFiles /\ at[h] + 1 \in 1 .. NFiles
          /\ FileSteps \in Nat
      BY <2>1, CountsAreNumbers, FilesAssumption, Zenon DEF Files
    <3> QED BY <3>1
  <2>3. /\ (NFiles - (at[h] + 1)) * FileSteps \in Nat
        /\ (NFiles - (at[h] + 1)) * FileSteps + FileSteps <= rest
    BY <2>2, FewerFiles
  <2>4. Ahead(task'[h], at'[h], tries'[h])
          = (NFiles - (at[h] + 1)) * FileSteps + FileSteps + 5
    BY <2>1 DEF Ahead
  <2> HIDE DEF rest
  <2> QED BY <1>1, <2>2, <2>3, <2>4 DEF rest
<1>3. CASE at[h] + 1 \notin group_keys_by_collection(h)
  <2>1. task'[h] = "delete" BY <1>3
  <2>2. Ahead(task'[h], at'[h], tries'[h]) = 5 BY <2>1 DEF Ahead
  <2> QED BY <1>1, <2>2
<1> QED BY <1>2, <1>3

\* A step of a thread brings it nearer to its end.
LEMMA ThreadGoesOn ==
  ASSUME TypeOK, NEW h \in Files, Thread(h)
  PROVE  /\ UNCHANGED mainPc
         /\ \A g \in Files : g # h =>
              task'[g] = task[g] /\ at'[g] = at[g] /\ tries'[g] = tries[g]
         /\ Ahead(task'[h], at'[h], tries'[h]) < Ahead(task[h], at[h], tries[h])
<1> USE DEF ThreadAt, GoTo, TypeOK
<1> DEFINE rest == (NFiles - at[h]) * FileSteps
           Fewer == Ahead(task'[h], at'[h], tries'[h]) < Ahead(task[h], at[h], tries[h])
<1>1. rest \in Nat /\ Retries \in Nat /\ FileSteps = Retries + 3
  BY CountsAreNumbers, FilesAssumption DEF FileSteps
<1>2. UNCHANGED mainPc
  BY DEF Thread, TakeGroup, ReadFile, AnswerDks, RetryDks, FailDks, StoreKey,
         delete_existing_s3_files, persist_json, AddTime
<1>3. \A g \in Files : g # h =>
        task'[g] = task[g] /\ at'[g] = at[g] /\ tries'[g] = tries[g]
  BY DEF Thread, TakeGroup, ReadFile, AnswerDks, RetryDks, FailDks, StoreKey, Bind,
         delete_existing_s3_files, persist_json, AddTime, poolVars, keyVars
<1>4. CASE TakeGroup(h)
  <2>1. task[h] = "queued" /\ task'[h] = "read" /\ at'[h] = at[h]
    BY <1>4 DEF TakeGroup
  <2>2. /\ Ahead(task[h], at[h], tries[h]) = rest + FileSteps + 6
        /\ Ahead(task'[h], at'[h], tries'[h]) = rest + FileSteps + 5
    BY <2>1 DEF Ahead
  <2> HIDE DEF rest
  <2>3. Fewer BY <1>1, <2>2
  <2> QED BY <1>2, <1>3, <2>3
<1>5. CASE ReadFile(h)
  <2>1. task[h] = "read" BY <1>5 DEF ReadFile
  <2>2. Ahead(task[h], at[h], tries[h]) = rest + FileSteps + 5 BY <2>1 DEF Ahead
  <2>3. CASE \E k : Bind(h, k)
    <3>1. Ahead(task'[h], at'[h], tries'[h]) \in 0 .. (rest + 5)
      BY <2>3, BindGoesOn
    <3> HIDE DEF rest
    <3>2. Fewer BY <1>1, <2>2, <3>1
    <3> QED BY <1>2, <1>3, <3>2
  <2>4. CASE GoTo(h, "call") /\ tries' = [tries EXCEPT ![h] = 0] /\ UNCHANGED at
    <3>1. task'[h] = "call" /\ at'[h] = at[h] /\ tries'[h] = 0 BY <2>4
    <3>2. Ahead(task'[h], at'[h], tries'[h]) = rest + (Retries - 0) + 7
      BY <3>1 DEF Ahead
    <3> HIDE DEF rest
    <3>3. Fewer BY <1>1, <2>2, <3>2
    <3> QED BY <1>2, <1>3, <3>3
  <2>5. CASE GoTo(h, "failed")
    <3>1. Ahead(task'[h], at'[h], tries'[h]) = 0 BY <2>5 DEF Ahead
    <3> HIDE DEF rest
    <3>2. Fewer BY <1>1, <2>2, <3>1
    <3> QED BY <1>2, <1>3, <3>2
  <2> QED BY <1>5, <2>3, <2>4, <2>5 DEF ReadFile
<1>6. CASE AnswerDks(h)
  <2>1. task[h] = "call" /\ task'[h] = "store" /\ at'[h] = at[h]
    BY <1>6 DEF AnswerDks
  <2>2. /\ Ahead(task[h], at[h], tries[h]) = rest + (Retries - tries[h]) + 7
        /\ Ahead(task'[h], at'[h], tries'[h]) = rest + 6
    BY <2>1 DEF Ahead
  <2>3. tries[h] \in 0 .. Retries OBVIOUS
  <2> HIDE DEF rest
  <2>4. Fewer BY <1>1, <2>2, <2>3
  <2> QED BY <1>2, <1>3, <2>4
<1>7. CASE RetryDks(h)
  <2>1. /\ task[h] = "call" /\ task'[h] = "call" /\ at'[h] = at[h]
        /\ tries[h] < Retries /\ tries'[h] = tries[h] + 1
    BY <1>7 DEF RetryDks, may_retry, retry_requests, poolVars
  <2>2. /\ Ahead(task[h], at[h], tries[h]) = rest + (Retries - tries[h]) + 7
        /\ Ahead(task'[h], at'[h], tries'[h]) = rest + (Retries - (tries[h] + 1)) + 7
    BY <2>1 DEF Ahead
  <2>3. tries[h] \in 0 .. Retries OBVIOUS
  <2> HIDE DEF rest
  <2>4. Fewer BY <1>1, <2>2, <2>3
  <2> QED BY <1>2, <1>3, <2>4
<1>8. CASE FailDks(h)
  <2>1. task[h] = "call" /\ task'[h] \in {"exited", "failed"} BY <1>8 DEF FailDks
  <2>2. /\ Ahead(task[h], at[h], tries[h]) = rest + (Retries - tries[h]) + 7
        /\ Ahead(task'[h], at'[h], tries'[h]) = 0
    BY <2>1 DEF Ahead
  <2>3. tries[h] \in 0 .. Retries OBVIOUS
  <2> HIDE DEF rest
  <2>4. Fewer BY <1>1, <2>2, <2>3
  <2> QED BY <1>2, <1>3, <2>4
<1>9. CASE StoreKey(h)
  <2>1. task[h] = "store" /\ Bind(h, key[h]) BY <1>9 DEF StoreKey
  <2>2. Ahead(task[h], at[h], tries[h]) = rest + 6 BY <2>1 DEF Ahead
  <2>3. Ahead(task'[h], at'[h], tries'[h]) \in 0 .. (rest + 5)
    BY <2>1, BindGoesOn
  <2> HIDE DEF rest
  <2>4. Fewer BY <1>1, <2>2, <2>3
  <2> QED BY <1>2, <1>3, <2>4
<1>10. CASE delete_existing_s3_files(h) \/ persist_json(h) \/ AddTime(h)
  <2>1. \/ task[h] = "delete" /\ task'[h] = "persist"
        \/ task[h] = "persist" /\ task'[h] \in {"metric", "failed"}
        \/ task[h] = "metric" /\ task'[h] \in {"open", "ok", "failed"}
        \/ task[h] = "open" /\ task'[h] = "write"
        \/ task[h] = "write" /\ task'[h] \in {"ok", "failed"}
    BY <1>10 DEF delete_existing_s3_files, persist_json, AddTime
  <2>2. Fewer BY <2>1 DEF Ahead
  <2> QED BY <1>2, <1>3, <2>2
<1> QED BY <1>4, <1>5, <1>6, <1>7, <1>8, <1>9, <1>10 DEF Thread

LEMMA ThreadShortens ==
  ASSUME TypeOK, TypeOK', NEW h \in Files, Thread(h)
  PROVE  StepsLeft' < StepsLeft
<1> DEFINE Now(g)   == Ahead(task[g], at[g], tries[g])
           After(g) == Ahead(task'[g], at'[g], tries'[g])
<1>1. /\ UNCHANGED mainPc
      /\ \A g \in Files : g # h => After(g) = Now(g)
      /\ After(h) < Now(h)
  BY ThreadGoesOn
<1>2. \A g \in Files : Now(g) \in 0 .. MostAhead /\ After(g) \in 0 .. MostAhead
  BY AheadIsBounded DEF TypeOK
<1>3. MostAhead \in Nat BY CountsAreNumbers
<1>4. /\ ThreadSteps  = {x \in Files \X (1 .. MostAhead) : x[2] <= Now(x[1])}
      /\ ThreadSteps' = {x \in Files \X (1 .. MostAhead) : x[2] <= After(x[1])}
  BY DEF ThreadSteps
<1> HIDE DEF Now, After
<1>5. ThreadSteps' \subseteq ThreadSteps
  <2> SUFFICES ASSUME NEW x \in ThreadSteps' PROVE x \in ThreadSteps
    OBVIOUS
  <2>1. x[1] \in Files /\ x[2] \in 1 .. MostAhead /\ x[2] <= After(x[1])
    BY <1>4
  <2>2. x[2] <= Now(x[1]) BY <1>1, <1>2, <1>3, <2>1
  <2> QED BY <1>4, <2>2
<1>6. <<h, Now(h)>> \in ThreadSteps \ ThreadSteps'
  <2>1. Now(h) \in 1 .. MostAhead /\ ~(Now(h) <= After(h))
    BY <1>1, <1>2, <1>3
  <2> QED BY <1>4, <2>1
<1>7. Cardinality(ThreadSteps') < Cardinality(ThreadSteps)
      /\ Cardinality(ThreadSteps') \in Nat
  <2>1. IsFiniteSet(ThreadSteps') /\ Cardinality(ThreadSteps') \in Nat
    BY <1>5, StepsLeftIsBounded, FS_Subset, FS_CardinalityType
  <2> QED BY <1>5, <1>6, <2>1, StepsLeftIsBounded, FS_Subset
<1>8. MainAhead' = MainAhead /\ MainAhead \in Nat BY <1>1 DEF MainAhead
<1> QED BY <1>7, <1>8, StepsLeftIsBounded DEF StepsLeft

\* However many files share keys and however often DKS is busy, the run has a bounded
\* number of steps ahead, which each step makes smaller: it does not go in a circle.
THEOREM RunsAreBounded == Spec => [](StepsLeft \in 0 .. MostSteps) /\ RunGetsShorter
<1>1. StepsLeft \in 0 .. MostSteps BY StepsLeftIsBounded
<1>2. TypeOK /\ TypeOK' /\ [Next]_vars => [StepsLeft' < StepsLeft]_vars
  <2> SUFFICES ASSUME TypeOK, TypeOK', Next PROVE StepsLeft' < StepsLeft
    OBVIOUS
  <2>1. ASSUME NEW h \in Files, Thread(h) PROVE StepsLeft' < StepsLeft
    BY <2>1, ThreadShortens
  <2>2. CASE CollectResults \/ AddTotalTime
    <3>1. UNCHANGED <<task, at, tries>>
      BY <2>2 DEF CollectResults, AddTotalTime, poolVars, keyVars
    <3>2. ThreadSteps' = ThreadSteps BY <3>1 DEF ThreadSteps
    <3>3. MainAhead' < MainAhead /\ MainAhead \in Nat /\ MainAhead' \in Nat
      BY <2>2 DEF CollectResults, AddTotalTime, MainAhead
    <3> QED BY <3>2, <3>3, StepsLeftIsBounded DEF StepsLeft
  <2> QED BY <2>1, <2>2 DEF Next
<1> QED BY <1>1, <1>2, TypeCorrect, PTL DEF Spec, RunGetsShorter

\* And it is never stuck: the pool has a place for the first group that is queued,
\* no thread waits for another, and the main thread waits for the threads alone.
THEOREM RunsAreNotStuck == Spec => []NobodyWaitsForever
<1>1. TypeOK /\ FilesInvariant => NobodyWaitsForever
  <2> SUFFICES ASSUME TypeOK, mainPc = "pool", ~PoolIsOver
               PROVE  \E h \in Files : CanMove(h)
    BY DEF NobodyWaitsForever, FilesInvariant, MainIsLast, TypeOK
  <2>1. PICK h \in Files : task[h] \notin AtRest BY DEF PoolIsOver
  <2>2. CASE \E g \in Files : task[g] \notin AtRest \cup {"queued"}
    BY <2>2 DEF CanMove
  <2>3. CASE \A g \in Files : task[g] \in AtRest \cup {"queued"}
    <3>1. Busy = {} BY <2>3 DEF Busy
    <3>2. Cardinality(Busy) < Workers BY <3>1, FS_EmptySet, FilesAssumption
    <3> QED BY <2>1, <3>2 DEF CanMove
  <2> QED BY <2>2, <2>3
<1> QED BY <1>1, TypeCorrect, FilesInvariantHolds, PTL
=============================================================================
