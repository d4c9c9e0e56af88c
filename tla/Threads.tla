------------------------------ MODULE Threads ------------------------------
(***************************************************************************)
(* Threads (kernel/F9/thread.c): the thread map together with the tree of  *)
(* threads, in which thread_create() places a thread under its creator,    *)
(* thread_destroy() hands the children of a thread to the caller, and      *)
(* thread_select() looks for a thread to run, step by step.                *)
(*                                                                         *)
(* The model starts when root has been created.  The idle and the kernel   *)
(* thread are in no tree and no call names them; they are left out.        *)
(* Which threads are runnable is decided as thread_select() visits them.   *)
(*                                                                         *)
(* No thread removes itself or a thread it descends from: the code does    *)
(* not forbid it, and hands the caller to itself, so that it becomes its   *)
(* own parent and nobody finds it any more.                                *)
(***************************************************************************)
EXTENDS ThreadMap

CONSTANT RootId     \* THREAD_ROOT

ASSUME ThreadsAssumption == Resident = {RootId}

Root == 1       \* the TCB that the global root points to

VARIABLES
    t_parent, t_child, t_sibling,
    caller,     \* whose system call is served, NULL between calls
    sel,        \* thr in thread_select(), NULL when it is not running
    climbing,   \* thread_select() is in its inner loop
    passed      \* the threads it found not to be runnable

tree == <<t_parent, t_child, t_sibling>>
select == <<sel, climbing, passed>>
tvars == <<vars, tree, caller, select>>

Link == [Tcb -> Tcb \cup {NULL}]

ThreadsTypeOK ==
    /\ TypeOK
    /\ t_parent \in Link /\ t_child \in Link /\ t_sibling \in Link
    /\ caller \in Tcb \cup {NULL}
    /\ sel \in Tcb \cup {NULL}
    /\ climbing \in BOOLEAN
    /\ passed \in SUBSET Tcb

ThreadsInit ==
    /\ thread_map = [i \in Index |-> IF i = 0 THEN Root ELSE NULL]
    /\ thread_count = 1
    /\ t_globalid = [t \in Tcb |-> IF t = Root THEN RootId ELSE NULL]
    /\ live = {Root}
    /\ op = "none" /\ at = "entry" /\ tid = NULL
    /\ from = 0 /\ to = 0
    /\ thr = NULL /\ found = NULL
    /\ t_parent = [t \in Tcb |-> NULL]
    /\ t_child = [t \in Tcb |-> NULL]
    /\ t_sibling = [t \in Tcb |-> NULL]
    /\ caller = NULL
    /\ sel = NULL /\ climbing = FALSE /\ passed = {}

\* The members of a list of siblings that starts at t.
Siblings(t) ==
    LET s[k \in 0 .. MaxThreads] ==
          IF k = 0 THEN t
          ELSE IF s[k - 1] = NULL THEN NULL ELSE t_sibling[s[k - 1]]
    IN {s[k] : k \in 0 .. MaxThreads} \ {NULL}

\* The threads t descends from, and t itself.
Lineage(t) ==
    LET p[k \in 0 .. MaxThreads] ==
          IF k = 0 THEN t
          ELSE IF p[k - 1] = NULL THEN NULL ELSE t_parent[p[k - 1]]
    IN {p[k] : k \in 0 .. MaxThreads} \ {NULL}

-----------------------------------------------------------------------------
(* System calls *)

\* No handler is at work.
Quiet == op = "none" /\ sel = NULL

CreateBy(c, id) ==
    /\ Quiet
    /\ Create(id)
    /\ caller' = c
    /\ UNCHANGED <<tree, select>>

\* Mutant: a new thread is the only child.
PlacedAlone(t, c) ==
    /\ t_parent' = [t_parent EXCEPT ![t] = c]
    /\ t_child' = [t_child EXCEPT ![t] = NULL, ![c] = t]
    /\ t_sibling' = [t_sibling EXCEPT ![t] = NULL]

\* thread_create(): t becomes the last child of c.  An id that is refused (below
\* THREAD_SYS, or a wildcard) leaves everything as it is; with a full table
\* thread_init() returns NULL, through which thread_create() writes: nothing is
\* said of what follows that.
Placed(t, c) ==
    /\ t_parent' = [t_parent EXCEPT ![t] = c]
    /\ IF t_child[c] = NULL
       THEN /\ t_child' = [t_child EXCEPT ![t] = NULL, ![c] = t]
            /\ t_sibling' = [t_sibling EXCEPT ![t] = NULL]
       ELSE \E last \in Siblings(t_child[c]) :
               /\ t_sibling[last] = NULL
               /\ t_child' = [t_child EXCEPT ![t] = NULL]
               /\ t_sibling' = [t_sibling EXCEPT ![t] = NULL, ![last] = t]

InsertUnder ==
    /\ Insert
    /\ Placed(thr, caller)
    /\ caller' = NULL
    /\ UNCHANGED select

LookupById(id) ==
    /\ Quiet
    /\ Lookup(id)
    /\ UNCHANGED <<tree, caller, select>>

RemoveBy(c, id) ==
    /\ Quiet
    /\ \A t \in Lineage(c) : t_globalid[t] # id
    /\ Remove(id)
    /\ caller' = c
    /\ UNCHANGED <<tree, select>>

\* Mutant: the children keep the parent they had.
ParentsKept(t, c) == t_parent

\* The parents after the children of t were handed to c.
Parents(t, c) ==
    [u \in Tcb |-> IF t_child[t] # NULL /\ u \in Siblings(t_child[t]) THEN c
                   ELSE t_parent[u]]

\* thread_destroy(): t is unlinked from its parent and its siblings, and its
\* children come first among those of c.
Unlinked(t, c) ==
    LET p == t_parent[t]
        first == t_child[p] = t
        child == IF first THEN [t_child EXCEPT ![p] = t_sibling[t]] ELSE t_child
        sibling == IF first THEN t_sibling
                   ELSE [u \in Tcb |-> IF t_sibling[u] = t /\ t_parent[u] = p
                                       THEN t_sibling[t] ELSE t_sibling[u]]
        kid == t_child[t]
    IN /\ t_parent' = Parents(t, c)
       /\ IF kid = NULL
          THEN t_child' = child /\ t_sibling' = sibling
          ELSE \E last \in Siblings(kid) :
                  /\ t_sibling[last] = NULL
                  /\ t_child' = [child EXCEPT ![c] = kid]
                  /\ t_sibling' = [sibling EXCEPT ![last] = child[c]]

DeleteUnlinked ==
    /\ Delete
    /\ Unlinked(thr, caller)
    /\ caller' = NULL
    /\ UNCHANGED select

\* The other steps of a search.
SearchOn ==
    /\ EnterLoop \/ Narrow \/ LookedUp \/ RemoveFound
    /\ caller' = IF op' = "none" THEN NULL ELSE caller
    /\ UNCHANGED <<tree, select>>

-----------------------------------------------------------------------------
(* thread_select(root) *)

SelectStart ==
    /\ Quiet
    /\ t_child[Root] # NULL
    /\ sel' = t_child[Root]
    /\ UNCHANGED <<vars, tree, caller, climbing, passed>>

SelectReturns == sel' = NULL /\ climbing' = FALSE /\ passed' = {}

\* The loop's head: a runnable thread is returned.
SelectRunnable ==
    /\ sel # NULL /\ ~climbing
    /\ SelectReturns
    /\ UNCHANGED <<vars, tree, caller>>

\* Any other is left for its first child or, if it has none, for its sibling.
SelectDescend ==
    /\ sel # NULL /\ ~climbing
    /\ passed' = passed \cup {sel}
    /\ sel' = IF t_child[sel] # NULL THEN t_child[sel]
              ELSE IF t_sibling[sel] # NULL THEN t_sibling[sel] ELSE sel
    /\ climbing' = (t_child[sel] = NULL /\ t_sibling[sel] = NULL)
    /\ UNCHANGED <<vars, tree, caller>>

\* Mutant: the walk ends where it first has to climb.
TopFirst(t) == TRUE

\* thr->t_parent == parent
Top(t) == t_parent[t] = Root

SelectNone ==
    /\ sel # NULL /\ climbing
    /\ Top(sel)
    /\ SelectReturns
    /\ UNCHANGED <<vars, tree, caller>>

\* Mutant: the inner loop is left at once.
HigherNever(p) == FALSE

\* The inner loop's condition.
Higher(p) == t_sibling[p] = NULL

SelectClimb ==
    /\ sel # NULL /\ climbing
    /\ ~Top(sel)
    /\ LET p == t_parent[sel]
       IN /\ climbing' = Higher(p)
          /\ sel' = IF t_sibling[p] = NULL THEN p ELSE t_sibling[p]
    /\ UNCHANGED <<vars, tree, caller, passed>>

-----------------------------------------------------------------------------

SelectOn == SelectRunnable \/ SelectDescend \/ SelectNone \/ SelectClimb

Work == InsertUnder \/ DeleteUnlinked \/ SearchOn \/ SelectOn

ThreadsNext ==
    \/ \E c \in live, id \in Ids : CreateBy(c, id) \/ RemoveBy(c, id)
    \/ \E id \in Ids : LookupById(id)
    \/ SelectStart
    \/ Work

\* The loops run to their end.
ThreadsSpec == ThreadsInit /\ [][ThreadsNext]_tvars /\ WF_tvars(Work)
-----------------------------------------------------------------------------
(* Properties *)

\* "NOTE: all threads are derived from root": otherwise thread_select() never
\* finds them.
AllDerivedFromRoot == \A t \in live : Root \in Lineage(t)

\* The list of children of a thread is that of the threads whose parent it is,
\* and ends: unlinking and handing over lose nobody and close no circle.
ChildrenExact ==
    \A p \in live :
        LET kids == IF t_child[p] = NULL THEN {} ELSE Siblings(t_child[p])
        IN /\ kids = {t \in live \ {Root} : t_parent[t] = p}
           /\ kids # {} => \E last \in kids : t_sibling[last] = NULL

\* The links of the TCBs are a tree with root on top.
TreeExact == ThreadsTypeOK /\ AllDerivedFromRoot /\ ChildrenExact

\* thread_select() returns NULL only after it has looked at every thread but
\* root: the walk of the tree skips nobody.
SelectSkipsNobody ==
    [][climbing /\ sel' = NULL => passed = live \ {Root}]_tvars

\* Every search of the map and every walk of the tree ends.
WalksEnd == SearchEnds /\ (sel # NULL ~> sel = NULL)

\* A selection ends and has looked at everybody.
SelectExact == SelectSkipsNobody /\ WalksEnd
=============================================================================
