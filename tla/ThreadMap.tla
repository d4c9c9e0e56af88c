----------------------------- MODULE ThreadMap -----------------------------
(***************************************************************************)
(* The thread map (kernel/F9/thread.c): an array of pointers to TCBs,      *)
(* sorted by thread id, and the binary search in it that every look-up,    *)
(* insertion and deletion goes through.                                    *)
(*                                                                         *)
(* thread_map_search() is modelled loop iteration by loop iteration; the   *)
(* shifts of the array are one assignment.  Deleted entries are not wiped  *)
(* in the array, nor are freed TCBs: both keep what they held, and a       *)
(* look-up may read them.                                                  *)
(*                                                                         *)
(* sys_thread_control() does not check the id it is given ("TODO: checking *)
(* globalid"): Careful says whether its callers create threads that do not *)
(* exist and remove threads that do.                                       *)
(***************************************************************************)
EXTENDS Naturals, FiniteSets

CONSTANTS
    MaxThreads,     \* CONFIG_MAX_THREADS
    Ids,            \* thread ids, GLOBALID_TO_TID()
    Resident,       \* those created at boot and never removed
    Careful

ASSUME ThreadMapAssumption ==
    /\ MaxThreads \in Nat \ {0}
    /\ Ids \subseteq Nat
    /\ Resident \subseteq Ids
    /\ Careful \in BOOLEAN

Tcb == 1 .. MaxThreads      \* the slots of thread_table
NULL == 0
Index == 0 .. MaxThreads - 1

VARIABLES
    thread_map, thread_count,
    t_globalid,     \* the field of each TCB
    live,           \* the allocated slots of thread_table
    op,             \* what the search is for, "none" when there is none
    at,             \* "entry" or "loop" of thread_map_search()
    tid, from, to,  \* its arguments and loop variables
    thr,            \* the TCB that is inserted or removed
    found           \* what thread_by_globalid() returned, until the next call

map == <<thread_map, thread_count, t_globalid, live>>
search == <<op, at, tid, from, to, thr>>
vars == <<map, search, found>>

TypeOK ==
    /\ thread_map \in [Index -> Tcb \cup {NULL}]
    /\ thread_count \in 0 .. MaxThreads
    /\ t_globalid \in [Tcb -> Ids \cup {NULL}]
    /\ live \in SUBSET Tcb
    /\ op \in {"none", "insert", "lookup", "find", "delete"}
    /\ at \in {"entry", "loop"}
    /\ tid \in Ids \cup {NULL}
    /\ from \in 0 .. MaxThreads
    /\ to \in 0 .. MaxThreads
    /\ thr \in Tcb \cup {NULL}
    /\ found \in Tcb \cup {NULL}

Init ==
    /\ thread_map = [i \in Index |-> NULL]
    /\ thread_count = 0
    /\ t_globalid = [t \in Tcb |-> NULL]
    /\ live = {}
    /\ op = "none" /\ at = "entry" /\ tid = NULL
    /\ from = 0 /\ to = 0
    /\ thr = NULL /\ found = NULL

LiveIds == {t_globalid[t] : t \in live}

\* GLOBALID_TO_TID(thread_map[i]->t_globalid)
IdAt(i) == t_globalid[thread_map[i]]

-----------------------------------------------------------------------------
(* thread_map_search() *)

\* thread_map_search(id, 0, thread_count), for a call about TCB t.
Search(o, id, t) ==
    /\ op' = o /\ at' = "entry"
    /\ tid' = id /\ from' = 0 /\ to' = thread_count
    /\ thr' = t

\* The call is over.
Done ==
    /\ op' = "none" /\ at' = "entry" /\ tid' = NULL /\ from' = 0 /\ to' = 0
    /\ thr' = NULL

Mid == from + (to - from) \div 2

NarrowEnough == to - from <= 1

\* Mutant: the lower end is returned.
ReturnsFrom(i) ==
    \/ /\ at = "entry"
       /\ to # from => IdAt(from) >= tid
       /\ i = from
    \/ at = "loop" /\ NarrowEnough /\ i = from
    \/ at = "loop" /\ ~NarrowEnough /\ IdAt(Mid) = tid /\ i = Mid

\* The search returns i in its current iteration.
Returns(i) ==
    \/ /\ at = "entry"
       /\ to # from => IdAt(from) >= tid
       /\ i = from
    \/ at = "loop" /\ NarrowEnough /\ i = to
    \/ at = "loop" /\ ~NarrowEnough /\ IdAt(Mid) = tid /\ i = Mid

\* The search goes on.
EnterLoop ==
    /\ op # "none" /\ at = "entry"
    /\ to # from /\ IdAt(from) < tid
    /\ at' = "loop"
    /\ UNCHANGED <<map, op, tid, from, to, thr, found>>

Narrow ==
    /\ op # "none" /\ at = "loop"
    /\ ~NarrowEnough
    /\ \/ IdAt(Mid) > tid /\ to' = Mid /\ UNCHANGED from
       \/ IdAt(Mid) < tid /\ from' = Mid /\ UNCHANGED to
    /\ UNCHANGED <<map, op, at, tid, thr, found>>

-----------------------------------------------------------------------------
(* Insertion: thread_init() *)

\* The array after entry t was inserted at i.
Inserted(i, t) ==
    [k \in Index |-> IF k = i THEN t
                     ELSE IF i < k /\ k <= thread_count THEN thread_map[k - 1]
                     ELSE thread_map[k]]

\* The free slots of thread_table.
Free == Tcb \ live

\* ktable_alloc() finds a slot; then thread_map_insert().  Without a free slot the
\* map is left alone.
Create(id) ==
    /\ op = "none"
    /\ Careful => id \notin LiveIds
    /\ \E t \in Free :
          /\ \A u \in Free : t <= u
          /\ Search("insert", id, t)
    /\ found' = NULL
    /\ UNCHANGED map

\* thread_init() sets t_globalid when the TCB is already in the map.
Insert ==
    /\ op = "insert"
    /\ \E i \in 0 .. thread_count :
          /\ Returns(i)
          /\ thread_map' = Inserted(i, thr)
    /\ thread_count' = thread_count + 1
    /\ t_globalid' = [t_globalid EXCEPT ![thr] = tid]
    /\ live' = live \cup {thr}
    /\ Done
    /\ found' = NULL

-----------------------------------------------------------------------------
(* Look-up: thread_by_globalid() *)

Lookup(id) ==
    /\ op = "none"
    /\ Search("lookup", id, NULL)
    /\ found' = NULL
    /\ UNCHANGED map

\* Mutant: the last entry is not looked at.
FindsBeforeLast(i, t) ==
    t = IF i < thread_count - 1 /\ IdAt(i) = tid THEN thread_map[i] ELSE NULL

\* What a look-up returns: the entry at i if it has the id that is looked for.
\* One behind the array anything may be read, and is taken for a TCB.
Finds(i, t) ==
    IF i \in Index
    THEN t = IF thread_map[i] # NULL /\ IdAt(i) = tid THEN thread_map[i] ELSE NULL
    ELSE t # NULL => t_globalid[t] = tid

LookedUp ==
    /\ op = "lookup"
    /\ \E i \in 0 .. thread_count, t \in Tcb \cup {NULL} :
          Returns(i) /\ Finds(i, t) /\ found' = t
    /\ Done
    /\ UNCHANGED map

-----------------------------------------------------------------------------
(* Removal: sys_thread_control() with a nil space *)

Remove(id) ==
    /\ op = "none"
    /\ Resident \subseteq LiveIds /\ id \notin Resident
    /\ Careful => id \in LiveIds
    /\ Search("find", id, NULL)
    /\ found' = NULL
    /\ UNCHANGED map

\* thread_by_globalid() returns the victim; thread_destroy() calls
\* thread_map_delete(), which searches for it again.  If nothing is found the
\* code goes on with a null pointer; the model gives up the call.
RemoveFound ==
    /\ op = "find"
    /\ \E i \in 0 .. thread_count, t \in Tcb \cup {NULL} :
          /\ Returns(i) /\ Finds(i, t)
          /\ found' = t
          /\ IF t = NULL THEN Done ELSE Search("delete", t_globalid[t], t)
    /\ UNCHANGED map

\* Mutant: the last entry is not moved.
DeletedShort(i) ==
    [k \in Index |-> IF i <= k /\ k < thread_count - 2 THEN thread_map[k + 1]
                     ELSE thread_map[k]]

\* The array after the entry at i was deleted.
Deleted(i) ==
    [k \in Index |-> IF i <= k /\ k < thread_count - 1 THEN thread_map[k + 1]
                     ELSE thread_map[k]]

\* thread_deinit()
Delete ==
    /\ op = "delete"
    /\ IF thread_count = 1
       THEN thread_count' = 0 /\ UNCHANGED thread_map
       ELSE \E i \in 0 .. thread_count :
               /\ Returns(i)
               /\ thread_map' = Deleted(i)
               /\ thread_count' = thread_count - 1
    /\ live' = live \ {thr}
    /\ Done
    /\ found' = NULL
    /\ UNCHANGED t_globalid

-----------------------------------------------------------------------------

Continue ==
    EnterLoop \/ Narrow \/ Insert \/ LookedUp \/ RemoveFound \/ Delete

Next ==
    \/ \E id \in Ids : Create(id) \/ Lookup(id) \/ Remove(id)
    \/ Continue

\* The loops run to their end: they are code of one handler.
Spec == Init /\ [][Next]_vars /\ WF_vars(Continue)
-----------------------------------------------------------------------------
(* Properties *)

\* "Always sorted, so we can use binary search on it": the map is sorted by
\* id, whatever the order of insertions and deletions.
MapSorted ==
    \A i, j \in 0 .. thread_count - 1 : i < j => IdAt(i) < IdAt(j)

\* The map holds every live TCB once, and nothing else: none is lost and no
\* freed one is kept by an insertion or deletion at either end.
MapExact ==
    /\ \A i, j \in 0 .. thread_count - 1 : i # j => thread_map[i] # thread_map[j]
    /\ {thread_map[i] : i \in 0 .. thread_count - 1} = live

\* The map is a sorted list of the live threads.
MapSound == MapSorted /\ MapExact

\* A thread that exists is found, and removed or returned, by its id.
FindsEveryThread ==
    [][op' # op /\ op \in {"lookup", "find"} =>
           (\A t \in live : t_globalid[t] = tid => found' = t)]_vars

\* Every search ends.
SearchEnds == op # "none" ~> op = "none"
=============================================================================
