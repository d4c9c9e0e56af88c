--------------------------- MODULE ThreadsProofs ---------------------------
(***************************************************************************)
(* Proofs about ThreadMap and Threads, for any number of threads and any   *)
(* set of ids: first that the map, if nobody creates a thread twice or     *)
(* removes one that is not there, stays sorted and holds exactly the live  *)
(* threads, and every live thread is found; then that the tree of threads  *)
(* stays a tree.                                                           *)
(***************************************************************************)
EXTENDS Threads, FiniteSetTheorems, TLAPS

-----------------------------------------------------------------------------
(* The map: the inductive invariant *)

\* The count is that of the live TCBs, so there is room for the one that is
\* inserted; a live TCB has its id.
CountExact ==
    /\ Cardinality(live) = thread_count
    /\ \A t \in live : t_globalid[t] \in Ids

\* What a call needs while its search is running.
CallOK ==
    /\ op = "insert" => thr \in Tcb \ live /\ tid \in Ids /\ tid \notin LiveIds
    /\ op = "find" => tid \in LiveIds
    /\ op = "delete" => thr \in live /\ tid = t_globalid[thr]

\* The loop invariant of thread_map_search(): the id is behind entry from, and
\* before entry to unless that is the end.
SearchOK ==
    op # "none" =>
        /\ at = "entry" => from = 0 /\ to = thread_count
        /\ at = "loop" => /\ from < to /\ to <= thread_count
                          /\ IdAt(from) < tid
                          /\ to < thread_count => tid < IdAt(to)

IInv == TypeOK /\ MapSorted /\ MapExact /\ CountExact /\ CallOK /\ SearchOK

-----------------------------------------------------------------------------
(* Lemmas *)

\* An entry of the map is a live TCB with an id.
LEMMA EntryLive ==
    ASSUME TypeOK, MapExact, CountExact, NEW i \in 0 .. thread_count - 1
    PROVE  /\ i \in Index
           /\ thread_map[i] \in live /\ live \subseteq Tcb
           /\ IdAt(i) \in Ids /\ IdAt(i) \in Nat
  BY ThreadMapAssumption DEF TypeOK, MapExact, CountExact, IdAt, Index

\* A live TCB has an entry.
LEMMA LiveEntry ==
    ASSUME MapExact, NEW t \in live
    PROVE  \E i \in 0 .. thread_count - 1 : thread_map[i] = t
  BY DEF MapExact

LEMMA LiveFinite ==
    ASSUME TypeOK
    PROVE  IsFiniteSet(live)
  <1>1. IsFiniteSet(Tcb)
    BY FS_Interval, ThreadMapAssumption DEF Tcb
  <1> QED
    BY <1>1, FS_Subset DEF TypeOK

\* While a TCB is free the array has room.
LEMMA Room ==
    ASSUME TypeOK, CountExact, NEW t \in Tcb \ live
    PROVE  thread_count < MaxThreads
  <1>1. IsFiniteSet(Tcb) /\ Cardinality(Tcb) = MaxThreads
    BY FS_Interval, ThreadMapAssumption DEF Tcb
  <1>2. live \subseteq Tcb /\ live # Tcb
    BY DEF TypeOK
  <1>3. Cardinality(live) <= Cardinality(Tcb)
        /\ (Cardinality(live) = Cardinality(Tcb) => live = Tcb)
    BY <1>1, <1>2, FS_Subset, FS_CardinalityType
  <1> QED
    BY <1>1, <1>2, <1>3, ThreadMapAssumption DEF CountExact, TypeOK

\* thread_map_search() returns the place of the id: all entries before it are
\* smaller, all from it on are not.
LEMMA SearchPlace ==
    ASSUME IInv, op # "none", NEW i \in 0 .. thread_count, Returns(i)
    PROVE  /\ \A k \in 0 .. i - 1 : IdAt(k) < tid
           /\ \A k \in i .. thread_count - 1 : tid <= IdAt(k)
  <1>1. \A k \in 0 .. thread_count - 1 : IdAt(k) \in Nat
    BY EntryLive DEF IInv
  <1>2. tid \in Nat /\ thread_count \in Nat /\ from \in Nat /\ to \in Nat
    BY ThreadMapAssumption DEF IInv, TypeOK, NULL
  <1>3. CASE at = "entry"
    <2>1. i = 0 /\ (thread_count # 0 => tid <= IdAt(0))
      BY <1>1, <1>2, <1>3 DEF IInv, SearchOK, Returns
    <2> QED
      BY <1>1, <1>2, <2>1 DEF IInv, MapSorted
  <1>4. CASE at = "loop" /\ NarrowEnough
    <2>1. i = to /\ from = to - 1 /\ IdAt(from) < tid
          /\ (to < thread_count => tid < IdAt(to))
      BY <1>2, <1>4 DEF IInv, SearchOK, Returns, NarrowEnough
    <2> QED
      BY <1>1, <1>2, <2>1 DEF IInv, MapSorted
  <1>5. CASE at = "loop" /\ ~NarrowEnough
    <2>1. i \in 0 .. thread_count - 1 /\ IdAt(i) = tid
      BY <1>2, <1>5 DEF IInv, SearchOK, Returns, NarrowEnough, Mid
    <2> QED
      BY <1>1, <1>2, <2>1 DEF IInv, MapSorted
  <1> QED
    BY <1>3, <1>4, <1>5 DEF IInv, TypeOK

\* The place of the id of a live TCB is its entry.
LEMMA SearchHits ==
    ASSUME IInv, op # "none", NEW i \in 0 .. thread_count, Returns(i),
           NEW t \in live, t_globalid[t] = tid
    PROVE  i \in 0 .. thread_count - 1 /\ thread_map[i] = t
  <1>1. PICK j \in 0 .. thread_count - 1 : thread_map[j] = t
    BY LiveEntry DEF IInv
  <1>2. IdAt(j) = tid
    BY <1>1 DEF IdAt
  <1>3. \A k \in 0 .. thread_count - 1 : IdAt(k) \in Nat
    BY EntryLive DEF IInv
  <1>4. thread_count \in Nat
    BY DEF IInv, TypeOK
  <1>5. i <= j
    BY <1>2, <1>3, <1>4, SearchPlace
  <1>6. ~(i < j)
    BY <1>2, <1>3, <1>4, <1>5, SearchPlace DEF IInv, MapSorted
  <1> QED
    BY <1>1, <1>4, <1>5, <1>6

-----------------------------------------------------------------------------
(* Invariance *)

LEMMA InitIInv == Init => IInv
  <1> SUFFICES ASSUME Init PROVE IInv
    OBVIOUS
  <1>1. TypeOK
    BY ThreadMapAssumption DEF Init, TypeOK
  <1>2. MapSorted /\ MapExact /\ CallOK /\ SearchOK
    BY DEF Init, MapSorted, MapExact, CallOK, SearchOK
  <1>3. CountExact
    BY FS_EmptySet DEF Init, CountExact
  <1> QED
    BY <1>1, <1>2, <1>3 DEF IInv

\* Starting a call changes neither the map nor what the invariant says of it.
LEMMA SearchStep ==
    ASSUME IInv, UNCHANGED map, NEW o \in {"insert", "lookup", "find", "delete"},
           NEW id \in Ids, NEW t \in Tcb \cup {NULL}, Search(o, id, t),
           found' \in Tcb \cup {NULL},
           o = "insert" => t \in Tcb \ live /\ id \notin LiveIds,
           o = "find" => id \in LiveIds,
           o = "delete" => t \in live /\ id = t_globalid[t]
    PROVE  IInv'
  <1>1. TypeOK'
    BY ThreadMapAssumption DEF IInv, TypeOK, map, Search
  <1>2. MapSorted' /\ MapExact' /\ CountExact'
    BY DEF IInv, MapSorted, MapExact, CountExact, map, IdAt
  <1>3. CallOK' /\ SearchOK'
    BY DEF map, Search, CallOK, SearchOK, LiveIds
  <1> QED
    BY <1>1, <1>2, <1>3 DEF IInv

\* So does ending one.
LEMMA DoneStep ==
    ASSUME IInv, UNCHANGED map, Done, found' \in Tcb \cup {NULL}
    PROVE  IInv'
  <1>1. TypeOK'
    BY ThreadMapAssumption DEF IInv, TypeOK, map, Done
  <1>2. MapSorted' /\ MapExact' /\ CountExact'
    BY DEF IInv, MapSorted, MapExact, CountExact, map, IdAt
  <1>3. CallOK' /\ SearchOK'
    BY DEF Done, CallOK, SearchOK
  <1> QED
    BY <1>1, <1>2, <1>3 DEF IInv

LEMMA CreateStep ==
    ASSUME Careful, IInv, NEW id \in Ids, Create(id)
    PROVE  IInv'
  <1>1. PICK t \in Tcb \ live : Search("insert", id, t)
    BY DEF Create, Free
  <1> QED
    BY <1>1, SearchStep DEF Create

LEMMA LookupStep ==
    ASSUME IInv, NEW id \in Ids, Lookup(id)
    PROVE  IInv'
  BY SearchStep DEF Lookup

LEMMA RemoveStep ==
    ASSUME Careful, IInv, NEW id \in Ids, Remove(id)
    PROVE  IInv'
  BY SearchStep DEF Remove

LEMMA EnterLoopStep ==
    ASSUME IInv, EnterLoop
    PROVE  IInv'
  <1>1. TypeOK'
    BY DEF IInv, TypeOK, EnterLoop, map
  <1>2. MapSorted' /\ MapExact' /\ CountExact' /\ CallOK'
    BY DEF IInv, EnterLoop, map, IdAt, MapSorted, MapExact, CountExact, CallOK,
           LiveIds
  <1>3. SearchOK'
    BY DEF IInv, TypeOK, EnterLoop, map, IdAt, SearchOK
  <1> QED
    BY <1>1, <1>2, <1>3 DEF IInv

LEMMA NarrowStep ==
    ASSUME IInv, Narrow
    PROVE  IInv'
  <1>1. /\ from \in Nat /\ to \in Nat /\ thread_count \in Nat /\ MaxThreads \in Nat
        /\ from + 1 < to /\ to <= thread_count /\ thread_count <= MaxThreads
    BY ThreadMapAssumption
    DEF IInv, TypeOK, SearchOK, Narrow, NarrowEnough
  <1>2. Mid \in Nat /\ from < Mid /\ Mid < to
    BY <1>1 DEF Mid
  <1>3. TypeOK'
    BY <1>1, <1>2 DEF IInv, TypeOK, Narrow, map
  <1>4. MapSorted' /\ MapExact' /\ CountExact' /\ CallOK'
    BY DEF IInv, Narrow, map, IdAt, MapSorted, MapExact, CountExact, CallOK,
           LiveIds
  <1>5. SearchOK'
    BY <1>1, <1>2 DEF IInv, Narrow, map, IdAt, SearchOK
  <1> QED
    BY <1>3, <1>4, <1>5 DEF IInv

LEMMA LookedUpStep ==
    ASSUME IInv, LookedUp
    PROVE  IInv'
  BY DoneStep DEF LookedUp

LEMMA RemoveFoundStep ==
    ASSUME IInv, RemoveFound
    PROVE  IInv'
  <1>1. PICK i \in 0 .. thread_count, t \in Tcb \cup {NULL} :
            /\ Returns(i) /\ Finds(i, t) /\ found' = t
            /\ IF t = NULL THEN Done ELSE Search("delete", t_globalid[t], t)
    BY DEF RemoveFound
  <1>2. PICK v \in live : t_globalid[v] = tid
    BY DEF RemoveFound, IInv, CallOK, LiveIds
  <1>3. i \in 0 .. thread_count - 1 /\ thread_map[i] = v
    BY <1>1, <1>2, SearchHits DEF RemoveFound
  <1>4. v # NULL /\ v \in Tcb /\ IdAt(i) = tid /\ i \in Index
    BY <1>2, <1>3, EntryLive, ThreadMapAssumption DEF IInv, IdAt, Tcb, NULL
  <1>5. t = v
    BY <1>1, <1>3, <1>4 DEF Finds
  <1>6. Search("delete", t_globalid[v], v) /\ t_globalid[v] \in Ids
    BY <1>1, <1>4, <1>5 DEF IInv, CountExact
  <1> QED
    BY <1>1, <1>2, <1>4, <1>5, <1>6, SearchStep DEF RemoveFound

LEMMA InsertStep ==
    ASSUME IInv, Insert
    PROVE  IInv'
  <1>1. PICK i \in 0 .. thread_count :
            Returns(i) /\ thread_map' = Inserted(i, thr)
    BY DEF Insert
  <1>2. thr \in Tcb \ live /\ tid \in Ids /\ tid \notin LiveIds
    BY DEF Insert, IInv, CallOK
  <1>3. /\ thread_count \in Nat /\ MaxThreads \in Nat /\ thread_count < MaxThreads
        /\ thread_count' = thread_count + 1 /\ tid \in Nat
    BY <1>2, Room, ThreadMapAssumption DEF IInv, TypeOK, Insert
  <1>4. \A k \in 0 .. thread_count - 1 :
            /\ k \in Index /\ thread_map[k] \in live /\ thread_map[k] \in Tcb
            /\ IdAt(k) \in Nat
            /\ IF k < i THEN IdAt(k) < tid ELSE tid < IdAt(k)
    <2> SUFFICES ASSUME NEW k \in 0 .. thread_count - 1
                 PROVE  /\ k \in Index /\ thread_map[k] \in live /\ thread_map[k] \in Tcb
                        /\ IdAt(k) \in Nat
                        /\ IF k < i THEN IdAt(k) < tid ELSE tid < IdAt(k)
      OBVIOUS
    <2>1. /\ k \in Index /\ thread_map[k] \in live /\ thread_map[k] \in Tcb
          /\ IdAt(k) \in Nat
      BY EntryLive DEF IInv
    <2>2. IdAt(k) # tid
      BY <1>2, <2>1 DEF LiveIds, IdAt
    <2>3. (k < i => IdAt(k) < tid) /\ (~(k < i) => tid <= IdAt(k))
      BY <1>1, <1>3, SearchPlace DEF Insert
    <2> QED
      BY <1>3, <2>1, <2>2, <2>3
  <1>5. /\ live' = live \cup {thr}
        /\ t_globalid' = [t_globalid EXCEPT ![thr] = tid]
        /\ t_globalid \in [Tcb -> Ids \cup {NULL}]
        /\ live \subseteq Tcb
        /\ thread_map \in [Index -> Tcb \cup {NULL}]
    BY DEF Insert, IInv, TypeOK
  <1>6. \A k \in 0 .. thread_count :
            thread_map'[k] = IF k = i THEN thr
                             ELSE IF i < k THEN thread_map[k - 1] ELSE thread_map[k]
    BY <1>1, <1>3 DEF Inserted, Index
  <1>7. \A k \in 0 .. thread_count :
            IdAt(k)' = IF k = i THEN tid
                       ELSE IF i < k THEN IdAt(k - 1) ELSE IdAt(k)
    <2> SUFFICES ASSUME NEW k \in 0 .. thread_count
                 PROVE  IdAt(k)' = IF k = i THEN tid
                                   ELSE IF i < k THEN IdAt(k - 1) ELSE IdAt(k)
      OBVIOUS
    <2>1. CASE k = i
      BY <1>2, <1>5, <1>6, <2>1 DEF IdAt
    <2>2. CASE i < k
      <3>1. k - 1 \in 0 .. thread_count - 1 /\ thread_map'[k] = thread_map[k - 1]
        BY <1>3, <1>6, <2>2
      <3> QED
        BY <1>2, <1>4, <1>5, <2>2, <3>1 DEF IdAt
    <2>3. CASE k < i
      <3>1. k \in 0 .. thread_count - 1 /\ thread_map'[k] = thread_map[k]
        BY <1>3, <1>6, <2>3
      <3> QED
        BY <1>2, <1>4, <1>5, <2>3, <3>1 DEF IdAt
    <2> QED
      BY <1>3, <2>1, <2>2, <2>3
  <1>8. TypeOK'
    <2>1. thread_map' \in [Index -> Tcb \cup {NULL}]
      BY <1>1, <1>2, <1>3, <1>5 DEF Inserted, Index
    <2> QED
      BY <1>2, <1>3, <1>5, <2>1, ThreadMapAssumption DEF TypeOK, Insert, Done
  <1>9. MapSorted'
    BY <1>3, <1>4, <1>7 DEF IInv, MapSorted
  <1>10. MapExact'
    <2>1. \A j, k \in 0 .. thread_count : j # k => thread_map'[j] # thread_map'[k]
      BY <1>2, <1>3, <1>4, <1>6 DEF IInv, MapExact
    <2>2. \A k \in 0 .. thread_count : thread_map'[k] \in live \cup {thr}
      BY <1>3, <1>4, <1>6
    <2>3. \A t \in live \cup {thr} : \E k \in 0 .. thread_count : thread_map'[k] = t
      <3>1. thread_map'[i] = thr
        BY <1>6
      <3>2. ASSUME NEW t \in live
            PROVE  \E k \in 0 .. thread_count : thread_map'[k] = t
        <4>1. PICK k \in 0 .. thread_count - 1 : thread_map[k] = t
          BY LiveEntry DEF IInv
        <4>2. CASE k < i
          BY <1>3, <1>6, <4>1, <4>2
        <4>3. CASE ~(k < i)
          <5>1. k + 1 \in 0 .. thread_count /\ i < k + 1 /\ (k + 1) - 1 = k
            BY <1>3, <4>3
          <5> QED
            BY <1>3, <1>6, <4>1, <5>1
        <4> QED
          BY <4>2, <4>3
      <3> QED
        BY <3>1, <3>2
    <2>4. 0 .. thread_count' - 1 = 0 .. thread_count
      BY <1>3
    <2>5. {thread_map'[k] : k \in 0 .. thread_count} = live'
      BY <1>5, <2>2, <2>3
    <2> QED
      BY <2>1, <2>4, <2>5 DEF MapExact
  <1>11. CountExact'
    <2>1. IsFiniteSet(live)
      BY LiveFinite DEF IInv
    <2>2. Cardinality(live \cup {thr}) = Cardinality(live) + 1
      BY <1>2, <2>1, FS_AddElement
    <2> QED
      BY <1>2, <1>3, <1>5, <2>2 DEF IInv, CountExact
  <1>12. CallOK' /\ SearchOK'
    BY DEF Insert, Done, CallOK, SearchOK
  <1> QED
    BY <1>8, <1>9, <1>10, <1>11, <1>12 DEF IInv

LEMMA DeleteStep ==
    ASSUME IInv, Delete
    PROVE  IInv'
  <1>1. thr \in live /\ t_globalid[thr] = tid /\ live \subseteq Tcb
    BY DEF Delete, IInv, CallOK, TypeOK
  <1>2. PICK i \in 0 .. thread_count - 1 :
            /\ thread_map[i] = thr
            /\ thread_count # 1 => thread_map' = Deleted(i)
    <2>1. CASE thread_count = 1
      BY <1>1, <2>1, LiveEntry DEF IInv
    <2>2. CASE thread_count # 1
      <3>1. PICK i \in 0 .. thread_count : Returns(i) /\ thread_map' = Deleted(i)
        BY <2>2 DEF Delete
      <3> QED
        BY <1>1, <3>1, SearchHits DEF Delete
    <2> QED
      BY <2>1, <2>2
  <1>3. /\ thread_count \in Nat \ {0} /\ MaxThreads \in Nat
        /\ thread_count <= MaxThreads
        /\ thread_count' = thread_count - 1
    BY <1>2, ThreadMapAssumption DEF IInv, TypeOK, Delete
  <1>4. /\ live' = live \ {thr} /\ t_globalid' = t_globalid
        /\ thread_map \in [Index -> Tcb \cup {NULL}]
    BY DEF Delete, IInv, TypeOK
  <1>5. \A k \in 0 .. thread_count - 2 :
            /\ k \in 0 .. thread_count - 1 /\ k + 1 \in 0 .. thread_count - 1
            /\ thread_map'[k] = IF k < i THEN thread_map[k] ELSE thread_map[k + 1]
    BY <1>2, <1>3 DEF Deleted, Index
  <1>6. \A k \in 0 .. thread_count - 1 :
            k \in Index /\ thread_map[k] \in live /\ IdAt(k) \in Nat
    BY EntryLive DEF IInv
  <1>7. TypeOK'
    <2>1. thread_map' \in [Index -> Tcb \cup {NULL}]
      <3>1. CASE thread_count = 1
        BY <1>4, <3>1 DEF Delete
      <3>2. CASE thread_count # 1
        BY <1>2, <1>3, <1>4, <3>2 DEF Deleted, Index
      <3> QED
        BY <3>1, <3>2
    <2> QED
      BY <1>3, <1>4, <2>1, ThreadMapAssumption DEF IInv, TypeOK, Delete, Done
  <1>8. MapSorted'
    <2>1. \A k \in 0 .. thread_count - 2 :
              IdAt(k)' = IF k < i THEN IdAt(k) ELSE IdAt(k + 1)
      BY <1>3, <1>4, <1>5 DEF IdAt
    <2> QED
      BY <1>2, <1>3, <1>5, <1>6, <2>1 DEF IInv, MapSorted
  <1>9. MapExact'
    <2>1. \A j, k \in 0 .. thread_count - 2 : j # k => thread_map'[j] # thread_map'[k]
      BY <1>2, <1>3, <1>5 DEF IInv, MapExact
    <2>2. \A k \in 0 .. thread_count - 2 : thread_map'[k] \in live \ {thr}
      BY <1>2, <1>3, <1>5, <1>6 DEF IInv, MapExact
    <2>3. \A t \in live \ {thr} : \E k \in 0 .. thread_count - 2 : thread_map'[k] = t
      <3> SUFFICES ASSUME NEW t \in live \ {thr}
                   PROVE  \E k \in 0 .. thread_count - 2 : thread_map'[k] = t
        OBVIOUS
      <3>1. PICK k \in 0 .. thread_count - 1 : thread_map[k] = t
        BY LiveEntry DEF IInv
      <3>2. k # i
        BY <1>2, <3>1
      <3>3. CASE k < i
        <4>1. k \in 0 .. thread_count - 2
          BY <1>2, <1>3, <3>3
        <4> QED
          BY <1>5, <3>1, <3>3, <4>1
      <3>4. CASE k > i
        <4>1. k - 1 \in 0 .. thread_count - 2 /\ ~(k - 1 < i) /\ (k - 1) + 1 = k
          BY <1>2, <1>3, <3>4
        <4> QED
          BY <1>5, <3>1, <4>1
      <3> QED
        BY <1>2, <1>3, <3>2, <3>3, <3>4
    <2>4. 0 .. thread_count' - 1 = 0 .. thread_count - 2
      BY <1>3
    <2>5. {thread_map'[k] : k \in 0 .. thread_count - 2} = live'
      BY <1>4, <2>2, <2>3
    <2> QED
      BY <2>1, <2>4, <2>5 DEF MapExact
  <1>10. CountExact'
    <2>1. IsFiniteSet(live)
      BY LiveFinite DEF IInv
    <2>2. Cardinality(live \ {thr}) = Cardinality(live) - 1
      BY <1>1, <2>1, FS_RemoveElement
    <2> QED
      BY <1>3, <1>4, <2>2 DEF IInv, CountExact
  <1>11. CallOK' /\ SearchOK'
    BY DEF Delete, Done, CallOK, SearchOK
  <1> QED
    BY <1>7, <1>8, <1>9, <1>10, <1>11 DEF IInv

LEMMA NextStep ==
    ASSUME Careful, IInv, [Next]_vars
    PROVE  IInv'
  <1>1. CASE \E id \in Ids : Create(id) \/ Lookup(id) \/ Remove(id)
    BY <1>1, CreateStep, LookupStep, RemoveStep
  <1>2. CASE Continue
    BY <1>2, EnterLoopStep, NarrowStep, InsertStep, LookedUpStep, RemoveFoundStep,
       DeleteStep
    DEF Continue
  <1>3. CASE UNCHANGED vars
    BY <1>3
    DEF vars, map, search, IInv, TypeOK, MapSorted, MapExact, CountExact, CallOK,
        SearchOK, LiveIds, IdAt
  <1> QED
    BY <1>1, <1>2, <1>3 DEF Next

-----------------------------------------------------------------------------
(* Theorems *)

\* If threads are created and removed with care, the invariant always holds.
THEOREM InductiveInvariant == Careful => (Spec => []IInv)
  <1> SUFFICES ASSUME Careful PROVE Spec => []IInv
    OBVIOUS
  <1>1. IInv /\ [Next]_vars => IInv'
    BY NextStep
  <1> QED
    BY <1>1, InitIInv, PTL DEF Spec

\* The types of the variables are kept: no index leaves the array.
THEOREM TypeCorrect == Careful => (Spec => []TypeOK)
  <1> SUFFICES ASSUME Careful PROVE Spec => []TypeOK
    OBVIOUS
  <1>1. IInv => TypeOK
    BY DEF IInv
  <1> QED
    BY <1>1, InductiveInvariant, PTL

\* The map is always sorted, as its binary search needs.
THEOREM AlwaysSorted == Careful => (Spec => []MapSorted)
  <1> SUFFICES ASSUME Careful PROVE Spec => []MapSorted
    OBVIOUS
  <1>1. IInv => MapSorted
    BY DEF IInv
  <1> QED
    BY <1>1, InductiveInvariant, PTL

\* The map holds the live threads and no other, each once.
THEOREM HoldsTheLive == Careful => (Spec => []MapExact)
  <1> SUFFICES ASSUME Careful PROVE Spec => []MapExact
    OBVIOUS
  <1>1. IInv => MapExact
    BY DEF IInv
  <1> QED
    BY <1>1, InductiveInvariant, PTL

\* The map is a sorted list of exactly the live threads.
THEOREM MapAlwaysSound == Careful => (Spec => []MapSound)
  <1> SUFFICES ASSUME Careful PROVE Spec => []MapSound
    OBVIOUS
  <1>1. IInv => MapSound
    BY DEF IInv, MapSound
  <1> QED
    BY <1>1, InductiveInvariant, PTL

\* A completed look-up of a live thread returns it.
LEMMA LookupHits ==
    ASSUME IInv, Next, op' # op, op \in {"lookup", "find"},
           NEW t \in live, t_globalid[t] = tid
    PROVE  found' = t
  <1>1. LookedUp \/ RemoveFound
    BY DEF Next, Continue, Create, Lookup, Remove, EnterLoop, Narrow, Insert, Delete
  <1>2. PICK i \in 0 .. thread_count, u \in Tcb \cup {NULL} :
            Returns(i) /\ Finds(i, u) /\ found' = u
    BY <1>1 DEF LookedUp, RemoveFound
  <1>3. i \in 0 .. thread_count - 1 /\ thread_map[i] = t
    BY <1>2, SearchHits
  <1>4. t # NULL /\ IdAt(i) = tid /\ i \in Index
    BY <1>3, EntryLive DEF IInv, IdAt, Tcb, NULL
  <1> QED
    BY <1>2, <1>3, <1>4 DEF Finds

\* Every thread that exists is found by its id, wherever it is in the map.
THEOREM LookupComplete == Careful => (Spec => FindsEveryThread)
  <1> SUFFICES ASSUME Careful PROVE Spec => FindsEveryThread
    OBVIOUS
  <1>1. IInv /\ [Next]_vars =>
          [op' # op /\ op \in {"lookup", "find"} =>
               (\A t \in live : t_globalid[t] = tid => found' = t)]_vars
    BY LookupHits
  <1> QED
    BY <1>1, InductiveInvariant, PTL DEF Spec, FindsEveryThread

-----------------------------------------------------------------------------
(* Chains of links *)

INSTANCE Chains WITH Node <- Tcb, Nil <- NULL, Size <- MaxThreads

LEMMA Fit == Fits /\ Links = Link
  <1>1. IsFiniteSet(Tcb) /\ Cardinality(Tcb) = MaxThreads
    BY FS_Interval, ThreadMapAssumption DEF Tcb
  <1>2. MaxThreads \in Nat /\ NULL \notin Tcb
    BY ThreadMapAssumption DEF Tcb, NULL
  <1> QED
    BY <1>1, <1>2 DEF Fits, Links, Link

LEMMA SiblingsReach == \A t : Siblings(t) = Reach(t_sibling, t)
  BY DEF Siblings, Reach, Way

LEMMA LineageReach == \A t : Lineage(t) = Reach(t_parent, t)
  BY DEF Lineage, Reach, Way

-----------------------------------------------------------------------------
(* The tree: the inductive invariant *)

\* Root is on top and is never removed; every other live thread has a parent
\* that is live, and nobody descends from itself.
ParentsOK ==
    /\ Root \in live /\ t_globalid[Root] = RootId
    /\ t_parent[Root] = NULL /\ t_sibling[Root] = NULL
    /\ \A t \in live \ {Root} : t_parent[t] \in live
    /\ \E r : Ranked(t_parent, live, r)

\* A list of children holds children of one parent, and ends.
ListsOK ==
    /\ \A p \in live : t_child[p] # NULL =>
                           t_child[p] \in live \ {Root} /\ t_parent[t_child[p]] = p
    /\ \A t \in live : t_sibling[t] # NULL =>
                           /\ t_sibling[t] \in live \ {Root}
                           /\ t_parent[t_sibling[t]] = t_parent[t]
    /\ \E r : Ranked(t_sibling, live, r)

\* Every live thread but root is in one place of one list.
ListedOnce ==
    /\ \A t \in live \ {Root} :
           t_child[t_parent[t]] = t \/ \E u \in live : t_sibling[u] = t
    /\ \A u, v \in live : t_sibling[u] # NULL /\ t_sibling[u] = t_sibling[v] => u = v
    /\ \A u, p \in live : t_sibling[u] # NULL => t_child[p] # t_sibling[u]

\* While a call is served its caller lives, and does not descend from the
\* thread it removes.
CallerOK ==
    /\ op \in {"insert", "find", "delete"} => caller \in live
    /\ op \in {"find", "delete"} => \A t \in Lineage(caller) : t_globalid[t] # tid

TreeInv ==
    /\ ThreadsTypeOK /\ IInv
    /\ ParentsOK /\ ListsOK /\ ListedOnce /\ CallerOK

\* thread_select() has left the threads of D and all that descend from them
\* behind it; it has passed those of D and those it has come down through.
\* What comes before these in the lists of siblings is in D.
WalkedTo(D) ==
    LET above == Lineage(sel) \ {Root}
    IN /\ op = "none"
       /\ sel \in live \ {Root}
       /\ passed \subseteq live \ {Root} /\ D \subseteq passed
       /\ above \ {sel} \subseteq passed
       /\ \A t \in live \ {Root} : t_parent[t] \in D => t \in D
       /\ \A t \in live : t_sibling[t] \in D \cup above => t \in D
       /\ climbing => sel \in D /\ t_sibling[sel] = NULL

WalkInv ==
    IF sel = NULL THEN ~climbing /\ passed = {}
    ELSE \E D : WalkedTo(D)

SelectInv == TreeInv /\ WalkInv

-----------------------------------------------------------------------------
(* The tree *)

Kids(p) == {t \in live \ {Root} : t_parent[t] = p}

TreeOK == ThreadsTypeOK /\ ParentsOK /\ ListsOK /\ ListedOnce

\* NULL is no TCB, and the live ones are.
LEMMA LiveTcb ==
    ASSUME ThreadsTypeOK
    PROVE  live \subseteq Tcb /\ NULL \notin Tcb /\ NULL \notin live /\ Root \in Tcb
  BY ThreadMapAssumption DEF ThreadsTypeOK, TypeOK, Tcb, NULL, Root

\* A list of children is that of the threads whose parent it is, and ends.
LEMMA KidsListed ==
    ASSUME TreeOK, NEW p \in live
    PROVE  /\ t_child[p] = NULL => Kids(p) = {}
           /\ t_child[p] # NULL =>
                  /\ Siblings(t_child[p]) = Kids(p)
                  /\ \E last \in Kids(p) : t_sibling[last] = NULL
  <1>1. /\ t_sibling \in Link /\ live \in SUBSET Tcb /\ NULL \notin live
        /\ p \in Tcb /\ t_sibling[Root] = NULL
    BY LiveTcb DEF TreeOK, ThreadsTypeOK, ParentsOK
  <1>2. PICK q : Ranked(t_sibling, live, q)
    BY DEF TreeOK, ListsOK
  <1>3. q \in [Tcb -> Nat]
    BY <1>2 DEF Ranked
  <1>4. PICK b \in Nat : \A t \in Tcb : q[t] <= b
    BY <1>3, Fit, RankBound
  <1> DEFINE back == [t \in Tcb |-> b - q[t]]
             S == {t \in live : t_child[p] # NULL /\ t \in Reach(t_sibling, t_child[p])}
  <1>5. back \in [Tcb -> Nat]
    BY <1>3, <1>4
  <1>6. ASSUME NEW u \in Kids(p), \A v \in Kids(p) : back[v] < back[u] => v \in S
        PROVE  u \in S
    <2>1. u \in live /\ u # Root /\ t_parent[u] = p /\ u \in Tcb
      BY <1>1 DEF Kids
    <2>2. CASE t_child[p] = u
      BY <1>1, <1>2, <2>1, <2>2, Fit, ReachFacts
    <2>3. ASSUME NEW v \in live, t_sibling[v] = u
          PROVE  u \in S
      <3>1. v # Root /\ t_parent[v] = p /\ v \in Tcb /\ u # NULL
        BY <1>1, <2>1, <2>3 DEF TreeOK, ListsOK
      <3>2. q[u] < q[v] /\ q[u] \in Nat /\ q[v] \in Nat /\ q[u] <= b /\ q[v] <= b
        BY <1>2, <1>3, <1>4, <2>1, <2>3, <3>1 DEF Ranked
      <3>3. back[v] < back[u]
        BY <2>1, <3>1, <3>2
      <3>4. v \in S
        BY <1>6, <3>1, <3>3 DEF Kids
      <3>5. t_child[p] \in live
        BY <3>4 DEF TreeOK, ListsOK
      <3> QED
        BY <1>1, <1>2, <2>1, <2>3, <3>1, <3>4, <3>5, Fit, ReachFacts
    <2> QED
      BY <2>1, <2>2, <2>3 DEF TreeOK, ListedOnce
  <1>7. Kids(p) \subseteq S
    <2>1. Kids(p) \in SUBSET Tcb
      BY <1>1 DEF Kids
    <2> HIDE DEF S, back
    <2> QED
      BY <1>5, <1>6, <2>1, RankInduction
  <1>8. CASE t_child[p] = NULL
    BY <1>7, <1>8
  <1>9. CASE t_child[p] # NULL
    <2>1. t_child[p] \in Kids(p) /\ t_child[p] \in live
      BY <1>9 DEF TreeOK, ListsOK, Kids
    <2>2. ASSUME NEW u \in live, u \in Kids(p), t_sibling[u] # NULL
          PROVE  t_sibling[u] \in Kids(p)
      BY <2>2 DEF Kids, TreeOK, ListsOK
    <2>3. Reach(t_sibling, t_child[p]) \subseteq Kids(p)
      BY <1>1, <1>2, <2>1, <2>2, Fit, ReachLeast
    <2>4. \E last \in Reach(t_sibling, t_child[p]) : t_sibling[last] = NULL
      BY <1>1, <1>2, <2>1, Fit, ReachFacts
    <2> QED
      BY <1>7, <1>9, <2>3, <2>4, SiblingsReach
  <1> QED
    BY <1>8, <1>9

\* The lineage of a thread: itself and that of its parent, up to root.
LEMMA LineageStep ==
    ASSUME TreeOK, NEW t \in live
    PROVE  /\ t = Root => Lineage(t) = {t}
           /\ t # Root => Lineage(t) = {t} \cup Lineage(t_parent[t])
           /\ Lineage(t) \subseteq live
           /\ Root \in Lineage(t)
  <1>1. t_parent \in Link /\ live \in SUBSET Tcb /\ NULL \notin live
    BY LiveTcb DEF TreeOK, ThreadsTypeOK
  <1>2. PICK r : Ranked(t_parent, live, r)
    BY DEF TreeOK, ParentsOK
  <1>3. \A u \in live : Reach(t_parent, u) = {u} \cup Reach(t_parent, t_parent[u])
    BY <1>1, <1>2, Fit, ReachStep
  <1>4. Reach(t_parent, NULL) = {}
    BY <1>1, Fit, ReachNull
  <1>5. t_parent[Root] = NULL /\ \A u \in live \ {Root} : t_parent[u] \in live
    BY DEF TreeOK, ParentsOK
  <1> DEFINE S == {u \in live : Root \in Reach(t_parent, u)}
  <1>6. ASSUME NEW u \in live, \A v \in live : r[v] < r[u] => v \in S
        PROVE  u \in S
    <2>1. CASE u = Root
      BY <1>3, <2>1
    <2>2. CASE u # Root
      <3>1. t_parent[u] \in live /\ r[t_parent[u]] < r[u]
        BY <1>1, <1>2, <1>5, <2>2 DEF Ranked
      <3> QED
        BY <1>3, <1>6, <3>1
    <2> QED
      BY <2>1, <2>2
  <1>7. r \in [Tcb -> Nat]
    BY <1>2 DEF Ranked
  <1>8. live \subseteq S
    <2> HIDE DEF S
    <2> QED
      BY <1>1, <1>6, <1>7, RankInduction
  <1>9. Reach(t_parent, t) \subseteq live
    BY <1>1, <1>2, Fit, ReachFacts
  <1> QED
    BY <1>3, <1>4, <1>5, <1>8, <1>9, LineageReach

\* So the tree is what it should be.
LEMMA TreeOKExact ==
    ASSUME TreeOK
    PROVE  TreeExact
  <1>1. AllDerivedFromRoot
    BY LineageStep DEF AllDerivedFromRoot
  <1>2. ASSUME NEW p \in live
        PROVE  LET kids == IF t_child[p] = NULL THEN {} ELSE Siblings(t_child[p])
               IN /\ kids = {t \in live \ {Root} : t_parent[t] = p}
                  /\ kids # {} => \E last \in kids : t_sibling[last] = NULL
    BY KidsListed DEF Kids
  <1>3. ChildrenExact
    BY <1>2 DEF ChildrenExact
  <1> QED
    BY <1>1, <1>3 DEF TreeExact, TreeOK

-----------------------------------------------------------------------------
(* Placing and unlinking *)

\* thread_create() leaves a tree: the new thread is the last child of its
\* creator.
LEMMA PlacedStep ==
    ASSUME TreeOK, ThreadsTypeOK', NEW t \in Tcb \ live, NEW c \in live, Placed(t, c),
           live' = live \cup {t}, t_globalid'[Root] = RootId
    PROVE  TreeOK'
  <1>1. /\ t_parent \in Link /\ t_child \in Link /\ t_sibling \in Link
        /\ live \subseteq Tcb /\ NULL \notin Tcb /\ NULL \notin live
        /\ t \in Tcb /\ c \in Tcb /\ t # c /\ t # NULL
        /\ Root \in live /\ t # Root
    BY LiveTcb DEF TreeOK, ThreadsTypeOK, ParentsOK
  <1>2. t_parent' = [t_parent EXCEPT ![t] = c]
    BY DEF Placed
  <1>3. \A u \in live : t_parent'[u] = t_parent[u]
    BY <1>1, <1>2 DEF Link
  <1>4. t_parent'[t] = c
    BY <1>1, <1>2 DEF Link
  <1>5. t_child[c] = NULL =>
            /\ t_child'[t] = NULL /\ t_child'[c] = t
            /\ \A u \in live : u # c => t_child'[u] = t_child[u]
            /\ t_sibling'[t] = NULL
            /\ \A u \in live : t_sibling'[u] = t_sibling[u]
    BY <1>1 DEF Placed, Link
  <1>6. t_child[c] # NULL =>
            \E last \in Kids(c) :
                /\ t_sibling[last] = NULL
                /\ t_child'[t] = NULL
                /\ \A u \in live : t_child'[u] = t_child[u]
                /\ t_sibling'[t] = NULL /\ t_sibling'[last] = t
                /\ \A u \in live : u # last => t_sibling'[u] = t_sibling[u]
    <2> SUFFICES ASSUME t_child[c] # NULL
                 PROVE  \E last \in Kids(c) :
                            /\ t_sibling[last] = NULL
                            /\ t_child'[t] = NULL
                            /\ \A u \in live : t_child'[u] = t_child[u]
                            /\ t_sibling'[t] = NULL /\ t_sibling'[last] = t
                            /\ \A u \in live : u # last => t_sibling'[u] = t_sibling[u]
      OBVIOUS
    <2>1. PICK last \in Siblings(t_child[c]) :
              /\ t_sibling[last] = NULL
              /\ t_child' = [t_child EXCEPT ![t] = NULL]
              /\ t_sibling' = [t_sibling EXCEPT ![t] = NULL, ![last] = t]
      BY DEF Placed
    <2>2. last \in Kids(c) /\ last \in live
      BY <2>1, KidsListed DEF Kids
    <2>3. /\ t_child'[t] = NULL
          /\ \A u \in live : t_child'[u] = t_child[u]
          /\ t_sibling'[t] = NULL /\ t_sibling'[last] = t
          /\ \A u \in live : u # last => t_sibling'[u] = t_sibling[u]
      BY <1>1, <2>1, <2>2 DEF Link
    <2> QED
      BY <2>1, <2>2, <2>3
  <1>7. ParentsOK'
    <2>1. PICK r : Ranked(t_parent, live, r)
      BY DEF TreeOK, ParentsOK
    <2> DEFINE s == [r EXCEPT ![t] = r[c] + 1]
    <2>2. s \in [Tcb -> Nat] /\ s[t] = r[c] + 1 /\ r[c] \in Nat /\ \A u \in live : s[u] = r[u]
      BY <1>1, <2>1 DEF Ranked
    <2> HIDE DEF s
    <2>3. Ranked(t_parent', live', s)
      <3>1. ASSUME NEW u \in live
            PROVE  /\ t_parent'[u] \in live' \cup {NULL}
                   /\ t_parent'[u] # NULL => s[t_parent'[u]] < s[u]
        <4>1. t_parent[u] \in live \cup {NULL} /\ (t_parent[u] # NULL => r[t_parent[u]] < r[u])
          BY <2>1 DEF Ranked
        <4> QED
          BY <1>1, <1>3, <2>2, <4>1
      <3>2. /\ t_parent'[t] \in live' \cup {NULL}
            /\ t_parent'[t] # NULL => s[t_parent'[t]] < s[t]
        <4>1. s[c] < s[t]
          BY <2>2
        <4> QED
          BY <1>4, <4>1
      <3> QED
        BY <2>2, <3>1, <3>2 DEF Ranked
    <2>4. t_sibling'[Root] = NULL
      BY <1>1, <1>5, <1>6 DEF TreeOK, ParentsOK, Kids
    <2> QED
      BY <1>1, <1>3, <1>4, <2>3, <2>4 DEF TreeOK, ParentsOK
  <1>8. ASSUME NEW u \in live
        PROVE  /\ t_child[u] # NULL => /\ t_child[u] \in live \ {Root}
                                       /\ t_parent[t_child[u]] = u /\ t_child[u] # t
               /\ t_sibling[u] # NULL => /\ t_sibling[u] \in live \ {Root}
                                         /\ t_parent[t_sibling[u]] = t_parent[u]
                                         /\ t_sibling[u] # t
    BY DEF TreeOK, ListsOK
  <1>9. ListsOK'
    <2>1. ASSUME NEW p \in live', t_child'[p] # NULL
          PROVE  t_child'[p] \in live' \ {Root} /\ t_parent'[t_child'[p]] = p
      <3>1. CASE p = t
        BY <1>5, <1>6, <2>1, <3>1
      <3>2. CASE p \in live /\ t_child'[p] = t_child[p]
        BY <1>3, <1>8, <2>1, <3>2
      <3>3. CASE p = c /\ t_child'[p] = t
        BY <1>1, <1>4, <3>3
      <3> QED
        BY <1>5, <1>6, <3>1, <3>2, <3>3
    <2>2. ASSUME NEW u \in live', t_sibling'[u] # NULL
          PROVE  /\ t_sibling'[u] \in live' \ {Root}
                 /\ t_parent'[t_sibling'[u]] = t_parent'[u]
      <3>1. CASE u = t
        BY <1>5, <1>6, <2>2, <3>1
      <3>2. CASE u \in live /\ t_sibling'[u] = t_sibling[u]
        BY <1>3, <1>8, <2>2, <3>2
      <3>3. CASE u \in Kids(c) /\ t_sibling'[u] = t
        BY <1>1, <1>3, <1>4, <3>3 DEF Kids
      <3> QED
        BY <1>5, <1>6, <3>1, <3>2, <3>3
    <2>3. PICK q : Ranked(t_sibling, live, q)
      BY DEF TreeOK, ListsOK
    <2> DEFINE s == [u \in Tcb |-> IF u = t THEN 0 ELSE q[u] + 1]
    <2>4. s \in [Tcb -> Nat] /\ s[t] = 0 /\ \A u \in live : s[u] = q[u] + 1 /\ q[u] \in Nat
      BY <1>1, <2>3 DEF Ranked
    <2> HIDE DEF s
    <2>5. Ranked(t_sibling', live', s)
      <3>1. ASSUME NEW u \in live', t_sibling'[u] # NULL
            PROVE  s[t_sibling'[u]] < s[u]
        <4>1. CASE u = t
          BY <1>5, <1>6, <3>1, <4>1
        <4>2. CASE u \in live /\ t_sibling'[u] = t_sibling[u]
          <5>1. t_sibling[u] \in live /\ q[t_sibling[u]] < q[u]
            BY <1>8, <2>3, <3>1, <4>2 DEF Ranked
          <5> QED
            BY <2>4, <4>2, <5>1
        <4>3. CASE u \in live /\ t_sibling'[u] = t
          BY <2>4, <4>3
        <4> QED
          BY <1>5, <1>6, <4>1, <4>2, <4>3
      <3> QED
        BY <2>2, <2>4, <3>1 DEF Ranked
    <2> QED
      BY <2>1, <2>2, <2>5 DEF ListsOK
  <1>10. ListedOnce'
    <2>1. ASSUME NEW u \in live' \ {Root}
          PROVE  t_child'[t_parent'[u]] = u \/ \E v \in live' : t_sibling'[v] = u
      <3>1. CASE u = t
        BY <1>1, <1>4, <1>5, <1>6, <3>1 DEF Kids
      <3>2. CASE u \in live /\ t_child[t_parent[u]] = u
        <4>1. t_parent[u] \in live
          BY <2>1, <3>2 DEF TreeOK, ParentsOK
        <4>2. t_child'[t_parent[u]] = t_child[t_parent[u]]
          BY <1>1, <1>5, <1>6, <3>2, <4>1
        <4> QED
          BY <1>3, <3>2, <4>2
      <3>3. ASSUME u \in live, NEW v \in live, t_sibling[v] = u
            PROVE  \E w \in live' : t_sibling'[w] = u
        <4>1. t_sibling'[v] = u
          BY <1>1, <1>5, <1>6, <3>3
        <4> QED
          BY <4>1
      <3> QED
        BY <2>1, <3>1, <3>2, <3>3 DEF TreeOK, ListedOnce
    <2>2. ASSUME NEW u \in live', NEW v \in live', t_sibling'[u] # NULL,
                 t_sibling'[u] = t_sibling'[v]
          PROVE  u = v
      <3>1. u \in live /\ v \in live
        BY <1>5, <1>6, <2>2
      <3>2. CASE t_sibling'[u] = t_sibling[u] /\ t_sibling'[v] = t_sibling[v]
        BY <2>2, <3>1, <3>2 DEF TreeOK, ListedOnce
      <3> QED
        BY <1>5, <1>6, <1>8, <2>2, <3>1, <3>2
    <2>3. ASSUME NEW u \in live', NEW p \in live', t_sibling'[u] # NULL
          PROVE  t_child'[p] # t_sibling'[u]
      <3>1. CASE p = t
        BY <1>5, <1>6, <2>3, <3>1
      <3>2. CASE p # t
        <4>1. p \in live /\ u \in live
          BY <1>5, <1>6, <2>3, <3>2
        <4>2. t_sibling[u] # NULL => t_child[p] # t_sibling[u]
          BY <4>1 DEF TreeOK, ListedOnce
        <4> QED
          BY <1>1, <1>5, <1>6, <1>8, <2>3, <4>1, <4>2
      <3> QED
        BY <3>1, <3>2
    <2> QED
      BY <2>1, <2>2, <2>3 DEF ListedOnce
  <1> QED
    BY <1>7, <1>9, <1>10 DEF TreeOK

\* The children once t is taken out of the list it is in, ...
ChildWithout(t) ==
    IF t_child[t_parent[t]] = t THEN [t_child EXCEPT ![t_parent[t]] = t_sibling[t]]
    ELSE t_child

\* ... and the siblings.
SiblingWithout(t) ==
    IF t_child[t_parent[t]] = t THEN t_sibling
    ELSE [u \in Tcb |-> IF t_sibling[u] = t /\ t_parent[u] = t_parent[t]
                        THEN t_sibling[t] ELSE t_sibling[u]]

LEMMA UnlinkedIs ==
    \A t, c : Unlinked(t, c) <=>
        /\ t_parent' = Parents(t, c)
        /\ IF t_child[t] = NULL
           THEN t_child' = ChildWithout(t) /\ t_sibling' = SiblingWithout(t)
           ELSE \E last \in Siblings(t_child[t]) :
                   /\ t_sibling[last] = NULL
                   /\ t_child' = [ChildWithout(t) EXCEPT ![c] = t_child[t]]
                   /\ t_sibling' = [SiblingWithout(t) EXCEPT ![last] = ChildWithout(t)[c]]
  BY DEF Unlinked, ChildWithout, SiblingWithout

\* Without t every other thread is in one place of one list, the children of t
\* in theirs.
LEMMA WithoutFacts ==
    ASSUME TreeOK, NEW t \in live \ {Root}
    PROVE  LET child == ChildWithout(t)
               sibling == SiblingWithout(t)
               rest == live \ {t}
           IN /\ child \in Link /\ sibling \in Link
              /\ child[t] = t_child[t]
              /\ \A p \in rest : child[p] # NULL =>
                     child[p] \in rest \ {Root} /\ t_parent[child[p]] = p
              /\ \A u \in rest : sibling[u] # NULL =>
                     sibling[u] \in rest \ {Root} /\ t_parent[sibling[u]] = t_parent[u]
              /\ sibling[Root] = NULL
              /\ \A u \in rest : t_sibling[u] = NULL => sibling[u] = NULL
              /\ \A u \in rest : t_parent[u] = t => sibling[u] = t_sibling[u]
              /\ \A q : Ranked(t_sibling, live, q) =>
                     \A u \in rest : sibling[u] # NULL => q[sibling[u]] < q[u]
              /\ \A u \in rest \ {Root} : t_parent[u] # t =>
                     child[t_parent[u]] = u \/ \E v \in rest : sibling[v] = u
              /\ \A u \in rest \ {Root} : t_parent[u] = t =>
                     t_child[t] = u \/ \E v \in rest : sibling[v] = u
              /\ \A u, v \in rest : sibling[u] # NULL /\ sibling[u] = sibling[v] => u = v
              /\ \A u \in rest, p \in live : sibling[u] # NULL => child[p] # sibling[u]
  <1> DEFINE child == ChildWithout(t)
             sibling == SiblingWithout(t)
             rest == live \ {t}
             p == t_parent[t]
  <1>1. /\ t_parent \in Link /\ t_child \in Link /\ t_sibling \in Link
        /\ live \subseteq Tcb /\ NULL \notin Tcb /\ NULL \notin live
        /\ t \in Tcb /\ t # NULL /\ t \in live /\ t # Root
        /\ Root \in live /\ t_sibling[Root] = NULL
        /\ p \in live /\ p \in Tcb
    BY LiveTcb DEF TreeOK, ThreadsTypeOK, ParentsOK
  <1>2. p # t
    <2>1. PICK r : Ranked(t_parent, live, r)
      BY DEF TreeOK, ParentsOK
    <2> QED
      BY <1>1, <2>1 DEF Ranked
  <1>3. PICK q : Ranked(t_sibling, live, q)
    BY DEF TreeOK, ListsOK
  <1>4. t_sibling[t] # t
    BY <1>1, <1>3 DEF Ranked
  <1>5. /\ child \in Link
        /\ \A x \in live : child[x] = IF x = p /\ t_child[p] = t THEN t_sibling[t]
                                      ELSE t_child[x]
    BY <1>1 DEF Link, ChildWithout
  <1>6. /\ sibling \in Link
        /\ \A x \in live : sibling[x] = IF t_sibling[x] = t THEN t_sibling[t]
                                        ELSE t_sibling[x]
    <2>1. CASE t_child[p] = t
      <3>1. \A x \in live : t_sibling[x] # t
        BY <1>1, <2>1 DEF TreeOK, ListedOnce
      <3> QED
        BY <1>1, <2>1, <3>1 DEF SiblingWithout
    <2>2. CASE t_child[p] # t
      <3>1. \A x \in live : t_sibling[x] = t => t_parent[x] = p
        BY <1>1 DEF TreeOK, ListsOK
      <3> QED
        BY <1>1, <2>2, <3>1 DEF SiblingWithout, Link
    <2> QED
      BY <2>1, <2>2
  <1>7. ASSUME NEW u \in live
        PROVE  /\ t_child[u] # NULL => t_child[u] \in live \ {Root} /\ t_parent[t_child[u]] = u
               /\ t_sibling[u] # NULL => /\ t_sibling[u] \in live \ {Root}
                                         /\ t_parent[t_sibling[u]] = t_parent[u]
    BY DEF TreeOK, ListsOK
  <1>8. /\ \A u, v \in live : t_sibling[u] # NULL /\ t_sibling[u] = t_sibling[v] => u = v
        /\ \A u, x \in live : t_sibling[u] # NULL => t_child[x] # t_sibling[u]
        /\ \A u \in live \ {Root} :
               t_child[t_parent[u]] = u \/ \E v \in live : t_sibling[v] = u
    BY DEF TreeOK, ListedOnce
  <1> HIDE DEF child, sibling
  <1>9. child[t] = t_child[t]
    BY <1>1, <1>2, <1>5
  <1>10. ASSUME NEW x \in rest, child[x] # NULL
         PROVE  child[x] \in rest \ {Root} /\ t_parent[child[x]] = x
    BY <1>1, <1>2, <1>4, <1>5, <1>7, <1>10
  <1>11. ASSUME NEW u \in rest, sibling[u] # NULL
         PROVE  sibling[u] \in rest \ {Root} /\ t_parent[sibling[u]] = t_parent[u]
    BY <1>1, <1>4, <1>6, <1>7, <1>11
  <1>12. sibling[Root] = NULL
    BY <1>1, <1>6
  <1>13. ASSUME NEW u \in rest
         PROVE  /\ t_sibling[u] = NULL => sibling[u] = NULL
                /\ t_parent[u] = t => sibling[u] = t_sibling[u]
    BY <1>1, <1>2, <1>6, <1>7
  <1>14. ASSUME NEW r, Ranked(t_sibling, live, r), NEW u \in rest, sibling[u] # NULL
         PROVE  r[sibling[u]] < r[u]
    <2>1. CASE t_sibling[u] = t
      <3>1. sibling[u] = t_sibling[t] /\ r[t_sibling[t]] < r[t] /\ r[t] < r[u]
            /\ t_sibling[t] \in live
        BY <1>1, <1>6, <1>7, <1>14, <2>1 DEF Ranked
      <3>2. r[t_sibling[t]] \in Nat /\ r[t] \in Nat /\ r[u] \in Nat
        BY <1>1, <1>14, <3>1 DEF Ranked
      <3> QED
        BY <3>1, <3>2
    <2>2. CASE t_sibling[u] # t
      BY <1>6, <1>14, <2>2 DEF Ranked
    <2> QED
      BY <2>1, <2>2
  <1>15. ASSUME NEW u \in rest \ {Root}, t_parent[u] # t
         PROVE  child[t_parent[u]] = u \/ \E v \in rest : sibling[v] = u
    <2>1. t_parent[u] \in live
      BY DEF TreeOK, ParentsOK
    <2>2. CASE t_child[t_parent[u]] = u
      BY <1>5, <2>1, <2>2
    <2>3. ASSUME NEW v \in live, t_sibling[v] = u
          PROVE  child[t_parent[u]] = u \/ \E w \in rest : sibling[w] = u
      <3>1. CASE v # t
        BY <1>6, <2>3, <3>1
      <3>2. CASE v = t
        <4>1. t_parent[u] = p /\ t_sibling[t] = u
          BY <1>1, <1>7, <2>3, <3>2
        <4>2. CASE t_child[p] = t
          BY <1>1, <1>5, <4>1, <4>2
        <4>3. ASSUME NEW w \in live, t_sibling[w] = t
              PROVE  sibling[w] = u /\ w \in rest
          BY <1>4, <1>6, <4>1, <4>3
        <4> QED
          BY <1>1, <1>8, <4>2, <4>3
      <3> QED
        BY <3>1, <3>2
    <2> QED
      BY <1>8, <2>2, <2>3
  <1>16. ASSUME NEW u \in rest \ {Root}, t_parent[u] = t
         PROVE  t_child[t] = u \/ \E v \in rest : sibling[v] = u
    <2>1. ASSUME NEW v \in live, t_sibling[v] = u
          PROVE  v \in rest /\ sibling[v] = u
      BY <1>1, <1>2, <1>6, <1>7, <1>16, <2>1
    <2> QED
      BY <1>8, <1>16, <2>1
  <1>17. ASSUME NEW u \in rest, NEW v \in rest, sibling[u] # NULL, sibling[u] = sibling[v]
         PROVE  u = v
    BY <1>1, <1>6, <1>8, <1>17
  <1>18. ASSUME NEW u \in rest, NEW x \in live, sibling[u] # NULL
         PROVE  child[x] # sibling[u]
    BY <1>1, <1>5, <1>6, <1>8, <1>18
  <1> QED
    BY <1>5, <1>6, <1>9, <1>10, <1>11, <1>12, <1>13, <1>14, <1>15, <1>16, <1>17, <1>18
    DEF child, sibling

\* thread_destroy() leaves a tree, with the children of t under the caller, who
\* does not descend from t.
LEMMA UnlinkedStep ==
    ASSUME TreeOK, ThreadsTypeOK', NEW t \in live \ {Root}, NEW c \in live,
           t \notin Lineage(c), Unlinked(t, c), live' = live \ {t}, t_globalid'[Root] = RootId
    PROVE  TreeOK'
  <1> DEFINE child == ChildWithout(t)
             sibling == SiblingWithout(t)
             rest == live \ {t}
             K == Kids(t)
  <1>1. /\ t_parent \in Link /\ t_child \in Link /\ t_sibling \in Link
        /\ live \subseteq Tcb /\ NULL \notin Tcb /\ NULL \notin live
        /\ t \in Tcb /\ c \in Tcb /\ t # NULL /\ Root \in live /\ t # Root
        /\ t_parent[Root] = NULL /\ t_sibling[Root] = NULL
        /\ \A u \in live \ {Root} : t_parent[u] \in live
    BY LiveTcb DEF TreeOK, ThreadsTypeOK, ParentsOK
  <1>2. c # t /\ c \in rest
    BY LineageStep
  <1>3. /\ child \in Link /\ sibling \in Link
        /\ child[t] = t_child[t]
        /\ \A p \in rest : child[p] # NULL =>
               child[p] \in rest \ {Root} /\ t_parent[child[p]] = p
        /\ \A u \in rest : sibling[u] # NULL =>
               sibling[u] \in rest \ {Root} /\ t_parent[sibling[u]] = t_parent[u]
        /\ sibling[Root] = NULL
        /\ \A u \in rest : t_sibling[u] = NULL => sibling[u] = NULL
        /\ \A u \in rest : t_parent[u] = t => sibling[u] = t_sibling[u]
        /\ \A q : Ranked(t_sibling, live, q) =>
               \A u \in rest : sibling[u] # NULL => q[sibling[u]] < q[u]
    BY WithoutFacts
  <1>4. /\ \A u \in rest \ {Root} : t_parent[u] # t =>
               child[t_parent[u]] = u \/ \E v \in rest : sibling[v] = u
        /\ \A u \in rest \ {Root} : t_parent[u] = t =>
               t_child[t] = u \/ \E v \in rest : sibling[v] = u
        /\ \A u, v \in rest : sibling[u] # NULL /\ sibling[u] = sibling[v] => u = v
        /\ \A u \in rest, p \in live : sibling[u] # NULL => child[p] # sibling[u]
    BY WithoutFacts
  <1> HIDE DEF child, sibling
  <1>5. K \subseteq rest \ {Root} /\ \A u \in K : t_parent[u] = t
    <2>1. t_parent[t] # t
      <3>1. PICK r : Ranked(t_parent, live, r)
        BY DEF TreeOK, ParentsOK
      <3> QED
        BY <1>1, <3>1 DEF Ranked
    <2> QED
      BY <2>1 DEF Kids
  <1>6. \A u \in rest : u \notin K => t_parent[u] # t
    BY <1>1 DEF Kids
  <1>7. \A u \in Tcb : t_parent'[u] = IF u \in K THEN c ELSE t_parent[u]
    <2>1. t_parent' = Parents(t, c)
      BY UnlinkedIs
    <2> QED
      BY <2>1, KidsListed DEF Parents
  <1>8. t_child[t] = NULL => K = {} /\ t_child' = child /\ t_sibling' = sibling
    BY UnlinkedIs, KidsListed DEF child, sibling
  <1>9. t_child[t] # NULL =>
            /\ t_child[t] \in K
            /\ \E last \in K :
                   /\ sibling[last] = NULL
                   /\ t_child'[c] = t_child[t]
                   /\ \A p \in rest : p # c => t_child'[p] = child[p]
                   /\ t_sibling'[last] = child[c]
                   /\ \A u \in rest : u # last => t_sibling'[u] = sibling[u]
    <2> SUFFICES ASSUME t_child[t] # NULL
                 PROVE  /\ t_child[t] \in K
                        /\ \E last \in K :
                               /\ sibling[last] = NULL
                               /\ t_child'[c] = t_child[t]
                               /\ \A p \in rest : p # c => t_child'[p] = child[p]
                               /\ t_sibling'[last] = child[c]
                               /\ \A u \in rest : u # last => t_sibling'[u] = sibling[u]
      OBVIOUS
    <2>1. PICK last \in Siblings(t_child[t]) :
              /\ t_sibling[last] = NULL
              /\ t_child' = [child EXCEPT ![c] = t_child[t]]
              /\ t_sibling' = [sibling EXCEPT ![last] = child[c]]
      BY UnlinkedIs DEF child, sibling
    <2>2. last \in K
      BY <2>1, KidsListed
    <2>3. last \in Tcb /\ sibling[last] = NULL
      BY <1>1, <1>3, <1>5, <2>1, <2>2
    <2>4. /\ t_child'[c] = t_child[t]
          /\ \A p \in rest : p # c => t_child'[p] = child[p]
          /\ t_sibling'[last] = child[c]
          /\ \A u \in rest : u # last => t_sibling'[u] = sibling[u]
      BY <1>1, <1>3, <2>1, <2>3 DEF Link
    <2>5. t_child[t] \in K
      BY <1>1 DEF TreeOK, ListsOK, Kids
    <2> QED
      BY <2>2, <2>3, <2>4, <2>5
  <1>10. ParentsOK'
    <2>1. PICK r : Ranked(t_parent, live, r)
      BY DEF TreeOK, ParentsOK
    <2> DEFINE D == {u \in live : t \in Reach(t_parent, u)}
               s == [u \in Tcb |-> IF u \in D THEN r[u] + r[c] + 1 ELSE r[u]]
    <2>2. \A u \in live : Reach(t_parent, u) = {u} \cup Reach(t_parent, t_parent[u])
      BY <1>1, <2>1, Fit, ReachStep
    <2>3. t \in D /\ c \notin D
      BY <1>1, <2>2, LineageReach
    <2>4. \A u \in live \ {Root} : t_parent[u] \in D => u \in D
      BY <1>1, <2>2
    <2>5. \A u \in live \ {Root} : u # t /\ u \in D => t_parent[u] \in D
      BY <1>1, <2>2
    <2>6. \A u \in Tcb : r[u] \in Nat
      BY <2>1 DEF Ranked
    <2> HIDE DEF D
    <2>7. s \in [Tcb -> Nat]
      BY <1>1, <2>6
    <2>8. ASSUME NEW u \in rest \ {Root}
          PROVE  t_parent'[u] \in rest /\ s[t_parent'[u]] < s[u]
      <3>1. CASE u \in K
        <4>1. t_parent'[u] = c /\ u \in D /\ u \in Tcb
          BY <1>1, <1>5, <1>7, <2>3, <2>4, <3>1
        <4>2. s[c] = r[c] /\ s[u] = r[u] + r[c] + 1 /\ r[c] \in Nat /\ r[u] \in Nat
          BY <1>1, <2>3, <2>6, <4>1
        <4> QED
          BY <1>2, <4>1, <4>2
      <3>2. CASE u \notin K
        <4>1. t_parent'[u] = t_parent[u] /\ t_parent[u] \in rest /\ u \in Tcb
              /\ r[t_parent[u]] < r[u]
          BY <1>1, <1>6, <1>7, <2>1, <3>2 DEF Ranked
        <4>2. u \in D <=> t_parent[u] \in D
          BY <2>4, <2>5
        <4>3. r[u] \in Nat /\ r[t_parent[u]] \in Nat /\ r[c] \in Nat
          BY <1>1, <2>6, <4>1
        <4>4. CASE u \in D
          BY <1>1, <4>1, <4>2, <4>3, <4>4
        <4>5. CASE u \notin D
          BY <1>1, <4>1, <4>2, <4>3, <4>5
        <4> QED
          BY <4>4, <4>5
      <3> QED
        BY <3>1, <3>2
    <2> HIDE DEF s
    <2>9. t_parent'[Root] = NULL
      BY <1>1, <1>5, <1>7
    <2>10. Ranked(t_parent', live', s)
      BY <2>7, <2>8, <2>9 DEF Ranked
    <2>11. t_sibling'[Root] = NULL
      BY <1>1, <1>3, <1>5, <1>8, <1>9
    <2> QED
      BY <1>1, <2>8, <2>9, <2>10, <2>11 DEF TreeOK, ParentsOK
  <1>11. ListsOK'
    <2>1. ASSUME NEW p \in rest, t_child'[p] # NULL
          PROVE  t_child'[p] \in rest \ {Root} /\ t_parent'[t_child'[p]] = p
      <3>1. CASE t_child'[p] = child[p]
        <4>1. child[p] \in rest \ {Root} /\ t_parent[child[p]] = p
          BY <1>3, <2>1, <3>1
        <4> QED
          BY <1>1, <1>5, <1>7, <3>1, <4>1
      <3>2. CASE p = c /\ t_child'[c] = t_child[t] /\ t_child[t] \in K
        BY <1>1, <1>5, <1>7, <3>2
      <3> QED
        BY <1>8, <1>9, <3>1, <3>2
    <2>2. ASSUME NEW u \in rest, t_sibling'[u] # NULL
          PROVE  /\ t_sibling'[u] \in rest \ {Root}
                 /\ t_parent'[t_sibling'[u]] = t_parent'[u]
      <3>1. CASE t_sibling'[u] = sibling[u]
        <4>1. sibling[u] \in rest \ {Root} /\ t_parent[sibling[u]] = t_parent[u]
          BY <1>3, <2>2, <3>1
        <4>2. u \in K <=> sibling[u] \in K
          BY <1>3, <1>5, <1>6, <2>2, <3>1, <4>1
        <4> QED
          BY <1>1, <1>7, <3>1, <4>1, <4>2
      <3>2. CASE u \in K /\ t_sibling'[u] = child[c]
        <4>1. child[c] \in rest \ {Root} /\ t_parent[child[c]] = c
          BY <1>2, <1>3, <2>2, <3>2
        <4> QED
          BY <1>1, <1>2, <1>5, <1>7, <3>2, <4>1
      <3> QED
        BY <1>8, <1>9, <3>1, <3>2
    <2>3. PICK q : Ranked(t_sibling, live, q)
      BY DEF TreeOK, ListsOK
    <2> DEFINE n == IF child[c] = NULL THEN 0 ELSE q[child[c]] + 1
               s == [u \in Tcb |-> IF u \in K THEN q[u] + n ELSE q[u]]
    <2>4. /\ \A u \in Tcb : q[u] \in Nat
          /\ n \in Nat
          /\ child[c] # NULL => n = q[child[c]] + 1
      BY <1>1, <1>2, <1>3, <2>3 DEF Ranked
    <2> HIDE DEF n
    <2>5. s \in [Tcb -> Nat]
      BY <2>4
    <2>6. ASSUME NEW u \in rest, t_sibling'[u] # NULL
          PROVE  s[t_sibling'[u]] < s[u]
      <3>1. CASE t_sibling'[u] = sibling[u]
        <4>1. sibling[u] \in rest /\ t_parent[sibling[u]] = t_parent[u]
              /\ q[sibling[u]] < q[u]
          BY <1>3, <2>3, <2>6, <3>1
        <4>2. u \in K <=> sibling[u] \in K
          BY <1>3, <1>5, <1>6, <2>6, <3>1, <4>1
        <4>3. q[u] \in Nat /\ q[sibling[u]] \in Nat /\ u \in Tcb /\ sibling[u] \in Tcb
          BY <1>1, <2>4, <4>1
        <4> QED
          BY <2>4, <3>1, <4>1, <4>2, <4>3
      <3>2. CASE u \in K /\ t_sibling'[u] = child[c]
        <4>1. child[c] \in rest /\ t_parent[child[c]] = c
          BY <1>2, <1>3, <2>6, <3>2
        <4>2. child[c] \notin K /\ child[c] \in Tcb /\ u \in Tcb
          BY <1>1, <1>2, <1>5, <4>1
        <4>3. s[child[c]] = q[child[c]] /\ s[u] = q[u] + q[child[c]] + 1
          <5>1. n = q[child[c]] + 1
            BY <2>4, <2>6, <3>2
          <5> QED
            BY <2>4, <3>2, <4>2, <5>1
        <4>4. q[u] \in Nat /\ q[child[c]] \in Nat
          BY <2>4, <4>2
        <4> QED
          BY <3>2, <4>3, <4>4
      <3> QED
        BY <1>8, <1>9, <3>1, <3>2
    <2> HIDE DEF s
    <2>7. Ranked(t_sibling', live', s)
      BY <2>2, <2>5, <2>6 DEF Ranked
    <2> QED
      BY <2>1, <2>2, <2>7 DEF ListsOK
  <1>12. ListedOnce'
    <2>1. ASSUME NEW u \in rest \ {Root}
          PROVE  t_child'[t_parent'[u]] = u \/ \E v \in rest : t_sibling'[v] = u
      <3>1. u \in Tcb /\ u # NULL /\ t_parent[u] \in live
        BY <1>1
      <3>2. ASSUME NEW v \in rest, sibling[v] = u
            PROVE  t_sibling'[v] = u
        BY <1>8, <1>9, <3>1, <3>2
      <3>3. CASE u \in K /\ t_child[t] = u
        BY <1>7, <1>8, <1>9, <3>1, <3>3
      <3>4. CASE u \notin K /\ child[t_parent[u]] = u
        <4>1. t_parent'[u] = t_parent[u] /\ t_parent[u] \in rest
          BY <1>6, <1>7, <3>1, <3>4
        <4> QED
          BY <1>5, <1>8, <1>9, <3>4, <4>1
      <3> QED
        BY <1>4, <1>5, <1>6, <3>2, <3>3, <3>4
    <2>2. \A u \in rest : child[c] # NULL => child[c] # sibling[u]
      BY <1>4, <1>1
    <2>3. ASSUME NEW u \in rest, NEW v \in rest, t_sibling'[u] # NULL,
                 t_sibling'[u] = t_sibling'[v]
          PROVE  u = v
      BY <1>4, <1>8, <1>9, <2>2, <2>3
    <2>4. ASSUME NEW u \in rest, NEW p \in rest, t_sibling'[u] # NULL
          PROVE  t_child'[p] # t_sibling'[u]
      <3>1. child[p] # NULL => t_parent[child[p]] = p
        BY <1>3
      <3>2. child[c] # NULL => t_parent[child[c]] = c
        BY <1>2, <1>3
      <3>3. sibling[u] # NULL => child[p] # sibling[u] /\ t_child[t] # sibling[u]
        BY <1>1, <1>3, <1>4
      <3>4. CASE t_child[t] = NULL
        BY <1>8, <2>4, <3>3, <3>4
      <3>5. CASE t_child[t] # NULL
        <4>1. t_parent[t_child[t]] = t
          BY <1>5, <1>9, <3>5
        <4> QED
          BY <1>2, <1>9, <2>4, <3>1, <3>2, <3>3, <3>5, <4>1
      <3> QED
        BY <3>4, <3>5
    <2> QED
      BY <2>1, <2>3, <2>4 DEF ListedOnce
  <1> QED
    BY <1>10, <1>11, <1>12 DEF TreeOK

-----------------------------------------------------------------------------
(* Invariance of the tree *)

\* The map starts with root in it.
LEMMA InitTree == ThreadsInit => TreeInv
  <1> SUFFICES ASSUME ThreadsInit PROVE TreeInv
    OBVIOUS
  <1>1. MaxThreads \in Nat /\ MaxThreads >= 1 /\ RootId \in Ids /\ RootId \in Nat
        /\ Root \in Tcb /\ 0 \in Index /\ Root # NULL
    BY ThreadMapAssumption, ThreadsAssumption DEF Tcb, Root, Index, NULL
  <1>2. ThreadsTypeOK
    <2>1. thread_map \in [Index -> Tcb \cup {NULL}]
      BY <1>1 DEF ThreadsInit
    <2>2. t_globalid \in [Tcb -> Ids \cup {NULL}]
      BY <1>1 DEF ThreadsInit
    <2>3. TypeOK
      BY <1>1, <2>1, <2>2 DEF ThreadsInit, TypeOK
    <2>4. t_parent \in Link /\ t_child \in Link /\ t_sibling \in Link
      BY DEF ThreadsInit, Link
    <2> QED
      BY <2>3, <2>4 DEF ThreadsInit, ThreadsTypeOK
  <1>3. 0 .. thread_count - 1 = {0}
    BY DEF ThreadsInit
  <1>4. MapSorted /\ MapExact
    BY <1>1, <1>3 DEF ThreadsInit, MapSorted, MapExact
  <1>5. CountExact
    BY <1>1, FS_Singleton DEF ThreadsInit, CountExact
  <1>6. IInv
    BY <1>2, <1>4, <1>5 DEF ThreadsInit, IInv, CallOK, SearchOK, ThreadsTypeOK
  <1> DEFINE r == [t \in Tcb |-> 0]
  <1>7. r \in [Tcb -> Nat]
    OBVIOUS
  <1> HIDE DEF r
  <1>8. Ranked(t_parent, live, r) /\ Ranked(t_sibling, live, r)
    BY <1>1, <1>7 DEF ThreadsInit, Ranked
  <1>9. ParentsOK /\ ListsOK
    BY <1>1, <1>8 DEF ThreadsInit, ParentsOK, ListsOK
  <1>10. ListedOnce /\ CallerOK
    BY <1>1 DEF ThreadsInit, ListedOnce, CallerOK
  <1> QED
    BY <1>2, <1>6, <1>9, <1>10 DEF TreeInv

\* Every step is one of the thread map's, or none of it.
LEMMA MapStep == ThreadsNext => [Next]_vars
  BY DEF ThreadsNext, CreateBy, RemoveBy, LookupById, SelectStart, Work, InsertUnder,
     DeleteUnlinked, SearchOn, SelectOn, SelectRunnable, SelectDescend, SelectNone,
     SelectClimb, Next, Continue

\* Where the threads and their links stay, so does the tree.
LEMMA TreeKept ==
    ASSUME TreeOK, ThreadsTypeOK', UNCHANGED <<live, t_globalid, tree>>
    PROVE  TreeOK'
  <1>1. ParentsOK'
    BY DEF TreeOK, ParentsOK, tree
  <1>2. ListsOK'
    BY DEF TreeOK, ListsOK, tree
  <1>3. ListedOnce'
    BY DEF TreeOK, ListedOnce, tree
  <1> QED
    BY <1>1, <1>2, <1>3 DEF TreeOK

\* The types of what thread_select() changes.
LEMMA SelectTypes ==
    ASSUME ThreadsTypeOK, TreeOK, WalkInv, SelectStart \/ SelectOn
    PROVE  sel' \in Tcb \cup {NULL} /\ climbing' \in BOOLEAN /\ passed' \in SUBSET Tcb
  <1>1. /\ t_parent \in [Tcb -> Tcb \cup {NULL}] /\ t_child \in [Tcb -> Tcb \cup {NULL}]
        /\ t_sibling \in [Tcb -> Tcb \cup {NULL}]
        /\ sel \in Tcb \cup {NULL} /\ passed \in SUBSET Tcb /\ Root \in Tcb
    BY LiveTcb DEF ThreadsTypeOK, Link
  <1>2. CASE SelectStart
    BY <1>1, <1>2 DEF SelectStart, ThreadsTypeOK
  <1>3. CASE SelectRunnable \/ SelectNone
    BY <1>1, <1>3 DEF SelectRunnable, SelectNone, SelectReturns
  <1>4. CASE SelectDescend
    BY <1>1, <1>4 DEF SelectDescend
  <1>5. CASE SelectClimb
    <2>1. sel \in Tcb /\ t_parent[sel] \in Tcb
      <3>1. sel # NULL /\ t_parent[sel] # Root
        BY <1>5 DEF SelectClimb, Top
      <3>2. sel \in live \ {Root}
        BY <3>1 DEF WalkInv, WalkedTo
      <3> QED
        BY <3>2, LiveTcb DEF TreeOK, ParentsOK
    <2> QED
      BY <1>1, <1>5, <2>1 DEF SelectClimb, Higher, ThreadsTypeOK
  <1> QED
    BY <1>2, <1>3, <1>4, <1>5 DEF SelectOn

\* The tree stays one whatever is done.
LEMMA TreeStep ==
    ASSUME Careful, TreeInv, WalkInv, [ThreadsNext]_tvars
    PROVE  TreeInv'
  <1>0. TreeOK /\ ThreadsTypeOK /\ IInv /\ CallerOK
    BY DEF TreeInv, TreeOK
  <1>1. IInv'
    <2>1. [Next]_vars
      BY MapStep DEF tvars
    <2> QED
      BY <1>0, <2>1, NextStep
  <1>2. TypeOK'
    BY <1>1 DEF IInv
  <1>3. CASE UNCHANGED tvars
    <2>1. ThreadsTypeOK'
      BY <1>0, <1>2, <1>3 DEF ThreadsTypeOK, tvars, tree, select
    <2>2. CallerOK'
      BY <1>0, <1>3 DEF CallerOK, Lineage, tvars, tree, vars, search, map
    <2>3. TreeOK'
      BY <1>0, <1>3, <2>1, TreeKept DEF tvars, vars, map
    <2> QED
      BY <1>1, <2>1, <2>2, <2>3 DEF TreeInv, TreeOK
  <1>4. ASSUME NEW c \in live, NEW id \in Ids, CreateBy(c, id)
        PROVE  TreeInv'
    <2>1. ThreadsTypeOK'
      BY <1>0, <1>2, <1>4, LiveTcb DEF CreateBy, ThreadsTypeOK, tree, select
    <2>2. CallerOK'
      BY <1>4 DEF CreateBy, Create, Search, CallerOK, map
    <2>3. TreeOK'
      BY <1>0, <1>4, <2>1, TreeKept DEF CreateBy, Create, map
    <2> QED
      BY <1>1, <2>1, <2>2, <2>3 DEF TreeInv, TreeOK
  <1>5. ASSUME NEW c \in live, NEW id \in Ids, RemoveBy(c, id)
        PROVE  TreeInv'
    <2>1. ThreadsTypeOK'
      BY <1>0, <1>2, <1>5, LiveTcb DEF RemoveBy, ThreadsTypeOK, tree, select
    <2>2. CallerOK'
      BY <1>5 DEF RemoveBy, Remove, Search, CallerOK, map, Lineage, tree
    <2>3. TreeOK'
      BY <1>0, <1>5, <2>1, TreeKept DEF RemoveBy, Remove, map
    <2> QED
      BY <1>1, <2>1, <2>2, <2>3 DEF TreeInv, TreeOK
  <1>6. ASSUME NEW id \in Ids, LookupById(id)
        PROVE  TreeInv'
    <2>1. ThreadsTypeOK'
      BY <1>0, <1>2, <1>6 DEF LookupById, ThreadsTypeOK, tree, select
    <2>2. CallerOK'
      BY <1>6 DEF LookupById, Lookup, Search, CallerOK
    <2>3. TreeOK'
      BY <1>0, <1>6, <2>1, TreeKept DEF LookupById, Lookup, map
    <2> QED
      BY <1>1, <2>1, <2>2, <2>3 DEF TreeInv, TreeOK
  <1>7. CASE InsertUnder
    <2>1. /\ thr \in Tcb \ live /\ caller \in live /\ thr # Root
          /\ live' = live \cup {thr} /\ op' = "none"
          /\ t_globalid' = [t_globalid EXCEPT ![thr] = tid]
          /\ Placed(thr, caller)
      BY <1>0, <1>7 DEF InsertUnder, Insert, IInv, CallOK, CallerOK, Done, TreeOK, ParentsOK
    <2>2. t_globalid'[Root] = RootId
      BY <1>0, <2>1, LiveTcb DEF TreeOK, ParentsOK, IInv, TypeOK
    <2>3. ThreadsTypeOK'
      <3>1. /\ t_parent \in Link /\ t_child \in Link /\ t_sibling \in Link
            /\ thr \in Tcb /\ caller \in Tcb
        BY <1>0, <2>1, LiveTcb DEF ThreadsTypeOK
      <3>2. t_parent' \in Link /\ t_child' \in Link /\ t_sibling' \in Link
        <4>1. t_parent' \in Link
          BY <2>1, <3>1 DEF Placed, Link
        <4>2. CASE t_child[caller] = NULL
          BY <2>1, <3>1, <4>1, <4>2 DEF Placed, Link
        <4>3. CASE t_child[caller] # NULL
          BY <2>1, <3>1, <4>1, <4>3 DEF Placed, Link
        <4> QED
          BY <4>2, <4>3
      <3> QED
        BY <1>0, <1>2, <1>7, <3>2 DEF InsertUnder, ThreadsTypeOK, select
    <2>4. TreeOK'
      BY <1>0, <2>1, <2>2, <2>3, PlacedStep
    <2> QED
      BY <1>1, <2>1, <2>4 DEF TreeInv, TreeOK, CallerOK
  <1>8. CASE DeleteUnlinked
    <2>1. /\ thr \in live /\ caller \in live /\ thr \notin Lineage(caller)
          /\ live' = live \ {thr} /\ op' = "none" /\ t_globalid' = t_globalid
          /\ Unlinked(thr, caller)
      BY <1>0, <1>8 DEF DeleteUnlinked, Delete, IInv, CallOK, CallerOK, Done
    <2>2. thr # Root
      BY <1>0, <2>1, LineageStep
    <2>3. t_globalid'[Root] = RootId
      BY <1>0, <2>1 DEF TreeOK, ParentsOK
    <2>4. ThreadsTypeOK'
      <3>1. /\ t_parent \in Link /\ t_child \in Link /\ t_sibling \in Link
            /\ thr \in Tcb /\ caller \in Tcb
        BY <1>0, <2>1, LiveTcb DEF ThreadsTypeOK
      <3>2. ChildWithout(thr) \in Link /\ SiblingWithout(thr) \in Link
        BY <1>0, <2>1, <2>2, WithoutFacts
      <3>3. t_parent' \in Link
        BY <2>1, <3>1, UnlinkedIs DEF Parents, Link
      <3>4. t_child' \in Link /\ t_sibling' \in Link
        <4>1. CASE t_child[thr] = NULL
          BY <2>1, <3>2, <4>1, UnlinkedIs
        <4>2. CASE t_child[thr] # NULL
          BY <2>1, <3>1, <3>2, <4>2, UnlinkedIs DEF Link
        <4> QED
          BY <4>1, <4>2
      <3> QED
        BY <1>0, <1>2, <1>8, <3>3, <3>4 DEF DeleteUnlinked, ThreadsTypeOK, select
    <2>5. TreeOK'
      BY <1>0, <2>1, <2>2, <2>3, <2>4, UnlinkedStep
    <2> QED
      BY <1>1, <2>1, <2>5 DEF TreeInv, TreeOK, CallerOK
  <1>9. CASE SearchOn
    <2>1. UNCHANGED <<live, t_globalid, tree, select>>
      BY <1>9 DEF SearchOn, EnterLoop, Narrow, LookedUp, RemoveFound, map, select
    <2>2. ThreadsTypeOK'
      BY <1>0, <1>2, <1>9, <2>1 DEF SearchOn, ThreadsTypeOK, tree, select
    <2>3. TreeOK'
      BY <1>0, <2>1, <2>2, TreeKept
    <2>4. CallerOK'
      <3>1. \A t : Lineage(t)' = Lineage(t)
        BY <2>1 DEF Lineage, tree
      <3>2. CASE EnterLoop \/ Narrow
        <4>1. op' = op /\ tid' = tid /\ op # "none" /\ caller' = caller
          BY <1>9, <3>2 DEF SearchOn, EnterLoop, Narrow
        <4>2. live' = live /\ t_globalid' = t_globalid
          BY <2>1
        <4> QED
          BY <1>0, <2>1, <4>1, <4>2 DEF CallerOK, Lineage, tree
      <3>3. CASE LookedUp
        BY <3>3 DEF LookedUp, Done, CallerOK
      <3>4. CASE RemoveFound
        <4>1. op' = "none" \/ (op = "find" /\ op' = "delete" /\ tid' = tid)
          BY <1>0, <3>4 DEF RemoveFound, Done, Search, Finds, IdAt, Index
        <4>2. CASE op' = "none"
          BY <4>2 DEF CallerOK
        <4>3. CASE op = "find" /\ op' = "delete" /\ tid' = tid
          <5>1. caller' = caller /\ live' = live /\ t_globalid' = t_globalid
            BY <1>9, <2>1, <4>3 DEF SearchOn
          <5> QED
            BY <1>0, <2>1, <4>3, <5>1 DEF CallerOK, Lineage, tree
        <4> QED
          BY <4>1, <4>2, <4>3
      <3> QED
        BY <1>9, <3>2, <3>3, <3>4 DEF SearchOn
    <2> QED
      BY <1>1, <2>2, <2>3, <2>4 DEF TreeInv, TreeOK
  <1>10. CASE SelectStart \/ SelectOn
    <2>1. UNCHANGED <<vars, tree, caller>>
      BY <1>10 DEF SelectStart, SelectOn, SelectRunnable, SelectDescend, SelectNone, SelectClimb
    <2>2. ThreadsTypeOK'
      BY <1>0, <1>2, <1>10, <2>1, SelectTypes DEF ThreadsTypeOK, tree
    <2>3. TreeOK'
      BY <1>0, <2>1, <2>2, TreeKept DEF vars, map
    <2>4. CallerOK'
      BY <1>0, <2>1 DEF CallerOK, Lineage, tree, vars, search, map
    <2> QED
      BY <1>1, <2>2, <2>3, <2>4 DEF TreeInv, TreeOK
  <1> QED
    BY <1>3, <1>4, <1>5, <1>6, <1>7, <1>8, <1>9, <1>10 DEF ThreadsNext, Work

-----------------------------------------------------------------------------
(* The walk of thread_select() *)

\* When the last child is left behind, so is all that is below the parent.
LEMMA LastChildLast ==
    ASSUME TreeOK, NEW D, NEW t \in live \ {Root}, t \in D, t_sibling[t] = NULL,
           \A u \in live : t_sibling[u] \in D => u \in D
    PROVE  Kids(t_parent[t]) \subseteq D
  <1> DEFINE p == t_parent[t]
  <1>1. t_sibling \in Link /\ live \in SUBSET Tcb /\ NULL \notin live /\ p \in live
    BY LiveTcb DEF TreeOK, ThreadsTypeOK, ParentsOK
  <1>2. PICK q : Ranked(t_sibling, live, q)
    BY DEF TreeOK, ListsOK
  <1>3. t \in Kids(p)
    BY DEF Kids
  <1>4. t_child[p] # NULL /\ t_child[p] \in live /\ Kids(p) = Reach(t_sibling, t_child[p])
    BY <1>1, <1>3, KidsListed, SiblingsReach DEF TreeOK, ListsOK
  <1>5. Reach(t_sibling, t) = {t}
    BY <1>1, <1>2, Fit, ReachStep, ReachNull
  <1>6. ASSUME NEW u \in Kids(p), u # t
        PROVE  t \in Reach(t_sibling, u)
    BY <1>1, <1>2, <1>3, <1>4, <1>5, <1>6, Fit, ReachLinear
  <1> DEFINE S == {u \in live : t \in Reach(t_sibling, u) => u \in D}
  <1>7. ASSUME NEW u \in live, \A v \in live : q[v] < q[u] => v \in S,
               t \in Reach(t_sibling, u)
        PROVE  u \in D
    <2>1. CASE u = t
      BY <2>1
    <2>2. CASE u # t
      <3>1. Reach(t_sibling, u) = {u} \cup Reach(t_sibling, t_sibling[u])
        BY <1>1, <1>2, Fit, ReachStep
      <3>2. t \in Reach(t_sibling, t_sibling[u]) /\ t_sibling[u] # NULL
        BY <1>1, <1>7, <2>2, <3>1, Fit, ReachNull
      <3>3. t_sibling[u] \in live /\ q[t_sibling[u]] < q[u]
        BY <1>2, <3>2 DEF Ranked
      <3>4. t_sibling[u] \in D
        BY <1>7, <3>2, <3>3
      <3> QED
        BY <3>4
    <2> QED
      BY <2>1, <2>2
  <1>8. q \in [Tcb -> Nat] /\ \A u \in live : (\A v \in live : q[v] < q[u] => v \in S) => u \in S
    BY <1>2, <1>7 DEF Ranked
  <1> HIDE DEF S
  <1>9. live \subseteq S
    BY <1>1, <1>8, RankInduction
  <1>10. ASSUME NEW u \in Kids(p)
         PROVE  u \in D
    BY <1>6, <1>9 DEF S, Kids
  <1> QED
    BY <1>10

\* The walk keeps what it has left behind closed.
LEMMA WalkStep ==
    ASSUME TreeInv, TreeInv', WalkInv, [ThreadsNext]_tvars
    PROVE  WalkInv'
  <1>0. TreeOK /\ ThreadsTypeOK
    BY DEF TreeInv, TreeOK
  <1>1. /\ live \subseteq Tcb /\ NULL \notin live
        /\ \A u \in live \ {Root} : t_parent[u] \in live
        /\ \A p \in live : t_child[p] # NULL =>
               t_child[p] \in live \ {Root} /\ t_parent[t_child[p]] = p
        /\ \A u \in live : t_sibling[u] # NULL =>
               t_sibling[u] \in live \ {Root} /\ t_parent[t_sibling[u]] = t_parent[u]
        /\ \A u, v \in live : t_sibling[u] # NULL /\ t_sibling[u] = t_sibling[v] => u = v
        /\ \A u, p \in live : t_sibling[u] # NULL => t_child[p] # t_sibling[u]
        /\ Root \in live /\ t_sibling[Root] = NULL
    BY <1>0, LiveTcb DEF TreeOK, ParentsOK, ListsOK, ListedOnce
  <1>2. CASE op # "none" \/ ~(SelectStart \/ SelectOn)
    <2>1. CASE UNCHANGED tvars
      BY <2>1 DEF WalkInv, WalkedTo, Lineage, tvars, vars, map, search, tree, select
    <2>2. CASE ~(UNCHANGED tvars)
      <3>1. sel = NULL /\ UNCHANGED select
        BY <1>2, <2>2 DEF ThreadsNext, Work, CreateBy, RemoveBy, LookupById, Quiet,
           InsertUnder, Insert, DeleteUnlinked, Delete, SearchOn, EnterLoop, Narrow,
           LookedUp, RemoveFound, SelectStart, SelectOn, SelectRunnable, SelectDescend,
           SelectNone, SelectClimb, WalkInv, WalkedTo
      <3> QED
        BY <3>1 DEF WalkInv, select
    <2> QED
      BY <2>1, <2>2
  <1>3. CASE SelectRunnable \/ SelectNone
    BY <1>3 DEF SelectRunnable, SelectNone, SelectReturns, WalkInv
  <1>4. CASE SelectStart
    <2>1. sel' = t_child[Root] /\ ~climbing' /\ passed' = {} /\ op' = "none"
          /\ live' = live /\ t_parent' = t_parent /\ t_sibling' = t_sibling
      BY <1>4 DEF SelectStart, Quiet, WalkInv, vars, map, search, tree
    <2>2. sel' \in live \ {Root} /\ t_parent[sel'] = Root /\ sel' # NULL
      BY <1>1, <1>4, <2>1 DEF SelectStart
    <2>3. Lineage(sel') = {sel', Root}
      BY <1>0, <1>1, <2>2, LineageStep
    <2>4. (Lineage(sel))' = Lineage(sel')
      BY <2>1 DEF Lineage
    <2>5. WalkedTo({})'
      BY <1>1, <2>1, <2>2, <2>3, <2>4 DEF WalkedTo
    <2> QED
      BY <2>2, <2>5 DEF WalkInv
  <1>5. ASSUME sel # NULL, NEW D, WalkedTo(D), SelectDescend
        PROVE  WalkInv'
    <2>1. /\ op' = "none" /\ live' = live /\ t_parent' = t_parent /\ t_sibling' = t_sibling
          /\ passed' = passed \cup {sel} /\ ~climbing
          /\ climbing' = (t_child[sel] = NULL /\ t_sibling[sel] = NULL)
          /\ sel' = IF t_child[sel] # NULL THEN t_child[sel]
                    ELSE IF t_sibling[sel] # NULL THEN t_sibling[sel] ELSE sel
      BY <1>5 DEF SelectDescend, WalkedTo, vars, map, search, tree
    <2>2. /\ sel \in live \ {Root} /\ passed \subseteq live \ {Root} /\ D \subseteq passed
          /\ (Lineage(sel) \ {Root}) \ {sel} \subseteq passed
          /\ \A t \in live \ {Root} : t_parent[t] \in D => t \in D
          /\ \A t \in live : t_sibling[t] \in D \cup (Lineage(sel) \ {Root}) => t \in D
      BY <1>5 DEF WalkedTo
    <2>3. (Lineage(sel))' = Lineage(sel')
      BY <2>1 DEF Lineage
    <2>4. Lineage(sel) = {sel} \cup Lineage(t_parent[sel])
      BY <1>0, <2>2, LineageStep
    <2>5. CASE t_child[sel] # NULL
      <3>1. sel' = t_child[sel] /\ sel' \in live \ {Root} /\ t_parent[sel'] = sel /\ sel' # NULL
            /\ ~climbing'
        BY <1>1, <2>1, <2>2, <2>5
      <3>2. Lineage(sel') = {sel'} \cup Lineage(sel)
        BY <1>0, <3>1, LineageStep
      <3>3. \A t \in live : t_sibling[t] # sel'
        BY <1>1, <2>2, <3>1
      <3>4. WalkedTo(D)'
        BY <2>1, <2>2, <2>3, <3>1, <3>2, <3>3 DEF WalkedTo
      <3> QED
        BY <3>1, <3>4 DEF WalkInv
    <2>6. CASE t_child[sel] = NULL
      <3>1. \A t \in live \ {Root} : t_parent[t] # sel
        BY <1>0, <2>2, <2>6, KidsListed DEF Kids
      <3>0. PICK E : E = D \cup {sel}
        OBVIOUS
      <3>2. /\ \A t \in live \ {Root} : t_parent[t] \in E => t \in E
            /\ E \subseteq passed'
            /\ passed' \subseteq live \ {Root}
        BY <2>1, <2>2, <3>0, <3>1
      <3>3. sel \in Lineage(sel) \ {Root}
        BY <2>2, <2>4
      <3>4. CASE t_sibling[sel] # NULL
        <4>1. sel' = t_sibling[sel] /\ sel' \in live \ {Root}
              /\ t_parent[sel'] = t_parent[sel] /\ sel' # NULL /\ ~climbing'
          BY <1>1, <2>1, <2>2, <2>6, <3>4
        <4>2. Lineage(sel') = {sel'} \cup Lineage(t_parent[sel])
          BY <1>0, <4>1, LineageStep
        <4>3. \A t \in live : t_sibling[t] = sel' => t = sel
          BY <1>1, <2>2, <3>4, <4>1
        <4>4. \A t \in live : t_sibling[t] \in E \cup (Lineage(sel') \ {Root}) => t \in E
          BY <2>2, <2>4, <3>0, <3>3, <4>2, <4>3
        <4>5. (Lineage(sel') \ {Root}) \ {sel'} \subseteq passed'
          BY <2>1, <2>2, <2>4, <4>2
        <4>6. WalkedTo(E)'
          BY <2>1, <2>3, <3>2, <4>1, <4>4, <4>5 DEF WalkedTo
        <4> QED
          BY <4>1, <4>6 DEF WalkInv
      <3>5. CASE t_sibling[sel] = NULL
        <4>1. sel' = sel
          BY <2>1, <2>6, <3>5
        <4>2. \A t \in live : t_sibling[t] \in E \cup (Lineage(sel) \ {Root}) => t \in E
          BY <2>2, <3>0, <3>3
        <4>3. (Lineage(sel) \ {Root}) \ {sel} \subseteq passed' /\ sel \in E
          BY <2>1, <2>2, <3>0
        <4>4. WalkedTo(E)'
          BY <2>1, <2>2, <2>3, <3>2, <3>5, <4>1, <4>2, <4>3 DEF WalkedTo
        <4> QED
          BY <1>5, <4>1, <4>4 DEF WalkInv
      <3> QED
        BY <3>4, <3>5
    <2> QED
      BY <2>5, <2>6
  <1>6. ASSUME sel # NULL, NEW D, WalkedTo(D), SelectClimb
        PROVE  WalkInv'
    <2> DEFINE p == t_parent[sel]
    <2>0. PICK E : E = D \cup {p}
      OBVIOUS
    <2>1. /\ op' = "none" /\ live' = live /\ t_parent' = t_parent /\ t_sibling' = t_sibling
          /\ passed' = passed /\ climbing /\ p # Root
          /\ climbing' = (t_sibling[p] = NULL)
          /\ sel' = IF t_sibling[p] = NULL THEN p ELSE t_sibling[p]
      BY <1>6 DEF SelectClimb, WalkedTo, Top, Higher, vars, map, search, tree
    <2>2. /\ sel \in live \ {Root} /\ passed \subseteq live \ {Root} /\ D \subseteq passed
          /\ (Lineage(sel) \ {Root}) \ {sel} \subseteq passed
          /\ \A t \in live \ {Root} : t_parent[t] \in D => t \in D
          /\ \A t \in live : t_sibling[t] \in D \cup (Lineage(sel) \ {Root}) => t \in D
          /\ sel \in D /\ t_sibling[sel] = NULL
      BY <1>6, <2>1 DEF WalkedTo
    <2>3. (Lineage(sel))' = Lineage(sel')
      BY <2>1 DEF Lineage
    <2>4. p \in live \ {Root} /\ p # sel /\ p # NULL
      <3>1. PICK r : Ranked(t_parent, live, r)
        BY <1>0 DEF TreeOK, ParentsOK
      <3> QED
        BY <1>1, <2>1, <2>2, <3>1 DEF Ranked
    <2>5. Lineage(sel) = {sel} \cup Lineage(p)
      BY <1>0, <2>2, LineageStep
    <2>6. Lineage(p) = {p} \cup Lineage(t_parent[p])
      BY <1>0, <2>4, LineageStep
    <2>7. Kids(p) \subseteq D
      BY <1>0, <2>2, LastChildLast
    <2>above. Lineage(p) \ {Root} \subseteq passed
      BY <2>2, <2>5
    <2>8. /\ \A t \in live \ {Root} : t_parent[t] \in E => t \in E
          /\ E \subseteq passed'
          /\ passed' \subseteq live \ {Root}
      BY <2>0, <2>1, <2>2, <2>4, <2>6, <2>7, <2>above DEF Kids
    <2>9. CASE t_sibling[p] = NULL
      <3>1. sel' = p
        BY <2>1, <2>9
      <3>2. \A t \in live : t_sibling[t] \in E \cup (Lineage(p) \ {Root}) => t \in E
        BY <2>0, <2>2, <2>4, <2>5, <2>6
      <3>3. (Lineage(p) \ {Root}) \ {p} \subseteq passed'
        BY <2>1, <2>above
      <3>4. p \in E
        BY <2>0
      <3> HIDE DEF p
      <3>5. WalkedTo(E)'
        BY <2>1, <2>3, <2>4, <2>8, <2>9, <3>1, <3>2, <3>3, <3>4 DEF WalkedTo
      <3> QED
        BY <2>4, <3>1, <3>5 DEF WalkInv
    <2>10. CASE t_sibling[p] # NULL
      <3>1. sel' = t_sibling[p] /\ sel' \in live \ {Root}
            /\ t_parent[sel'] = t_parent[p] /\ sel' # NULL /\ ~climbing'
        BY <1>1, <2>1, <2>4, <2>10
      <3>2. Lineage(sel') = {sel'} \cup Lineage(t_parent[p])
        BY <1>0, <3>1, LineageStep
      <3>3. \A t \in live : t_sibling[t] = sel' => t = p
        BY <1>1, <2>4, <2>10, <3>1
      <3>4. \A t \in live : t_sibling[t] \in E \cup (Lineage(sel') \ {Root}) => t \in E
        BY <2>0, <2>2, <2>4, <2>5, <2>6, <3>2, <3>3
      <3>5. (Lineage(sel') \ {Root}) \ {sel'} \subseteq passed'
        BY <2>1, <2>6, <2>above, <3>2
      <3> HIDE DEF p
      <3>6. WalkedTo(E)'
        BY <2>1, <2>3, <2>8, <3>1, <3>4, <3>5 DEF WalkedTo
      <3> QED
        BY <3>1, <3>6 DEF WalkInv
    <2> QED
      BY <2>9, <2>10
  <1>7. CASE SelectDescend \/ SelectClimb
    <2>1. sel # NULL
      BY <1>7 DEF SelectDescend, SelectClimb
    <2> QED
      BY <1>5, <1>6, <1>7, <2>1 DEF WalkInv
  <1> QED
    BY <1>2, <1>3, <1>4, <1>7 DEF SelectOn

\* When thread_select() gives up, it has passed everybody.
LEMMA GivesUpLast ==
    ASSUME TreeInv, WalkInv, [ThreadsNext]_tvars, ~(UNCHANGED tvars), climbing, sel' = NULL
    PROVE  passed = live \ {Root}
  <1>0. TreeOK /\ ThreadsTypeOK
    BY DEF TreeInv, TreeOK
  <1>1. sel # NULL
    BY DEF WalkInv
  <1>2. PICK D : WalkedTo(D)
    BY <1>1 DEF WalkInv
  <1>3. SelectNone
    <2>1. op = "none"
      BY <1>2 DEF WalkedTo
    <2>2. SelectNone \/ SelectClimb
      BY <1>1, <2>1 DEF ThreadsNext, Work, CreateBy, RemoveBy, LookupById, Quiet,
         InsertUnder, Insert, DeleteUnlinked, Delete, SearchOn, EnterLoop, Narrow,
         LookedUp, RemoveFound, SelectStart, SelectOn, SelectRunnable, SelectDescend
    <2>3. ~SelectClimb
      <3> SUFFICES ASSUME SelectClimb PROVE FALSE
        OBVIOUS
      <3>1. t_parent[sel] \in live
        BY <1>0, <1>2 DEF WalkedTo, TreeOK, ParentsOK
      <3> QED
        BY <1>0, <3>1, LiveTcb DEF SelectClimb
    <2> QED
      BY <2>2, <2>3
  <1>4. /\ sel \in live \ {Root} /\ t_parent[sel] = Root /\ sel \in D /\ t_sibling[sel] = NULL
        /\ \A t \in live \ {Root} : t_parent[t] \in D => t \in D
        /\ \A t \in live : t_sibling[t] \in D => t \in D
        /\ passed \subseteq live \ {Root} /\ D \subseteq passed
    BY <1>2, <1>3 DEF WalkedTo, SelectNone, Top
  <1>5. Kids(Root) \subseteq D
    BY <1>0, <1>4, LastChildLast
  <1>6. PICK r : Ranked(t_parent, live, r)
    BY <1>0 DEF TreeOK, ParentsOK
  <1> DEFINE S == {t \in live : t # Root => t \in D}
  <1>7. ASSUME NEW t \in live, \A u \in live : r[u] < r[t] => u \in S, t # Root
        PROVE  t \in D
    <2>1. t_parent[t] \in live /\ r[t_parent[t]] < r[t]
      BY <1>0, <1>6, <1>7, LiveTcb DEF TreeOK, ParentsOK, Ranked
    <2> QED
      BY <1>4, <1>5, <1>7, <2>1 DEF Kids
  <1>8. r \in [Tcb -> Nat] /\ \A t \in live : (\A u \in live : r[u] < r[t] => u \in S) => t \in S
    BY <1>6, <1>7 DEF Ranked
  <1> HIDE DEF S
  <1>9. live \subseteq S
    BY <1>0, <1>8, LiveTcb, RankInduction
  <1> QED
    BY <1>4, <1>9 DEF S

-----------------------------------------------------------------------------
(* Theorems *)

\* The invariant of the tree and of the walk holds throughout: no sequence of
\* creations, removals, look-ups and selections leaves it.
THEOREM SelectInductive == Careful => (ThreadsSpec => []SelectInv)
  <1> SUFFICES ASSUME Careful PROVE ThreadsSpec => []SelectInv
    OBVIOUS
  <1>1. ThreadsInit => SelectInv
    BY InitTree DEF ThreadsInit, SelectInv, WalkInv
  <1>2. SelectInv /\ [ThreadsNext]_tvars => SelectInv'
    BY TreeStep, WalkStep DEF SelectInv
  <1> QED
    BY <1>1, <1>2, PTL DEF ThreadsSpec

\* The links thread_create() and thread_destroy() leave are a tree with root on
\* top, in which every list of children is that of the threads whose parent it
\* is.
THEOREM AlwaysATree == Careful => (ThreadsSpec => []TreeExact)
  <1> SUFFICES ASSUME Careful PROVE ThreadsSpec => []TreeExact
    OBVIOUS
  <1>1. SelectInv => TreeExact
    BY TreeOKExact DEF SelectInv, TreeInv, TreeOK
  <1> QED
    BY <1>1, SelectInductive, PTL

\* The thread map stays sorted and exact where the calls are those of threads
\* that build and take down a tree.
THEOREM TreeMapSound == Careful => (ThreadsSpec => []MapSound)
  <1> SUFFICES ASSUME Careful PROVE ThreadsSpec => []MapSound
    OBVIOUS
  <1>1. SelectInv => MapSound
    BY DEF SelectInv, TreeInv, IInv, MapSound
  <1> QED
    BY <1>1, SelectInductive, PTL

\* A thread of the tree is found by its id.
THEOREM TreeLookupComplete == Careful => (ThreadsSpec => FindsEveryThread)
  <1> SUFFICES ASSUME Careful PROVE ThreadsSpec => FindsEveryThread
    OBVIOUS
  <1>1. SelectInv /\ [ThreadsNext]_tvars =>
          [op' # op /\ op \in {"lookup", "find"} =>
               (\A t \in live : t_globalid[t] = tid => found' = t)]_vars
    <2> SUFFICES ASSUME SelectInv, [ThreadsNext]_tvars, op' # op, op \in {"lookup", "find"},
                        NEW t \in live, t_globalid[t] = tid
                 PROVE  found' = t
      OBVIOUS
    <2>1. Next
      BY MapStep DEF tvars, vars, search
    <2> QED
      BY <2>1, LookupHits DEF SelectInv, TreeInv
  <1> QED
    BY <1>1, SelectInductive, PTL DEF ThreadsSpec, FindsEveryThread

\* thread_select() returns NULL only when it has looked at every thread but
\* root.
THEOREM NobodySkipped == Careful => (ThreadsSpec => SelectSkipsNobody)
  <1> SUFFICES ASSUME Careful PROVE ThreadsSpec => SelectSkipsNobody
    OBVIOUS
  <1>1. SelectInv /\ [ThreadsNext]_tvars =>
          [climbing /\ sel' = NULL => passed = live \ {Root}]_tvars
    BY GivesUpLast DEF SelectInv
  <1> QED
    BY <1>1, SelectInductive, PTL DEF ThreadsSpec, SelectSkipsNobody
=============================================================================
