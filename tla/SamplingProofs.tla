--------------------------- MODULE SamplingProofs ---------------------------
(***************************************************************************)
(* Proofs about KProbes, and about Sampling, which puts a probe on its     *)
(* list: for any number of probes, samples and symbols.                    *)
(***************************************************************************)
EXTENDS Sampling, FiniteSetTheorems, TLAPS

INSTANCE Chains WITH Node <- Probes, Nil <- NULL, Size <- Cardinality(Probes)

-----------------------------------------------------------------------------
(* The invariant of the list of probes *)

State ==
    [head : Probes \cup {NULL}, next : Links, addr : [Probes -> Places],
     pre : [Probes -> {"handler", "move"}], post : [Probes -> {"none", "back"}],
     bkpt : [Probes -> {"none", "on", "off"}], calls : [Probes -> Nat],
     break : Places \cup {NULL}, stuck : BOOLEAN]

\* The probes of L are the list.
Ordered(k, L) ==
    /\ L \subseteq Probes
    /\ \E r : Ranked(k.next, L, r)
    /\ IF k.head = NULL THEN L = {} ELSE k.head \in L
    /\ Listed(k.next, L, k.head, NULL)

\* The probe is set at its function, or, a return probe that has moved, where
\* the function returns to.
SetAs(k, p) ==
    LET moved == p \in Returning /\ k.pre[p] = "handler"
    IN  /\ k.addr[p] = IF moved THEN Return ELSE Function[p]
        /\ k.post[p] = IF moved THEN "back" ELSE "none"
        /\ k.pre[p] = "move" => p \in Returning

Halfway(L) ==
    \/ half = Whole
    \/ half[1] \in {"register", "unregister"} /\ half[2] \in Probes \ L

\* Those that have a breakpoint: the list, and what is half on it.
Armed(L) == L \cup ({half[2]} \ {NULL})

ListInv(L) ==
    /\ Ordered(kps, L) /\ Halfway(L)
    /\ {p \in Probes : kps.bkpt[p] # "none"} = Armed(L)
    /\ \A p \in Armed(L) : SetAs(kps, p)
    /\ ~kps.stuck => \A p \in Armed(L) : kps.bkpt[p] = "on"
    /\ kps.stuck => half # Whole

ProbesInv == kps \in State /\ \E L : ListInv(L)

-----------------------------------------------------------------------------
(* The list *)

LEMMA Fit == Fits /\ Links = [Probes -> Probes \cup {NULL}] /\ Cardinality(Probes) \in Nat
  BY FS_CardinalityType, KProbesAssumption DEF Fits, Links

\* The walk over the list meets its probes, and ends.
LEMMA InListIs ==
    ASSUME NEW k \in State, NEW L, Ordered(k, L)
    PROVE  InList(k) = L /\ Walk(k)[Cardinality(Probes)] = NULL
  <1>1. PICK r : Ranked(k.next, L, r)
    BY DEF Ordered
  <1>2. k.next \in Links /\ L \in SUBSET Probes
    BY DEF State, Ordered
  <1>3. Walk(k) = Way(k.next, k.head)
    BY DEF Walk, Way
  <1>4. InList(k) = Reach(k.next, k.head)
    BY <1>3 DEF InList, Reach
  <1>5. InList(k) = L
    BY <1>1, <1>2, <1>4, Fit, ListedReach DEF Ordered
  <1>6. Path(k.next, k.head, Walk(k))
    BY <1>2, <1>3, Fit, WayPath DEF State
  <1>7. Walk(k)[Cardinality(Probes)] = NULL
    <2>1. CASE k.head = NULL
      BY <1>2, <1>6, <2>1, Fit, ReachNull
    <2>2. CASE k.head # NULL
      BY <1>1, <1>2, <1>6, <2>2, Fit, PathEnds DEF Ordered
    <2> QED
      BY <2>1, <2>2
  <1> QED
    BY <1>5, <1>7

\* All but the links are as in k.
Relinked(k, u) ==
    /\ u \in State
    /\ u.addr = k.addr /\ u.pre = k.pre /\ u.post = k.post /\ u.bkpt = k.bkpt
    /\ u.calls = k.calls /\ u.break = k.break /\ u.stuck = k.stuck

LEMMA AddedOrdered ==
    ASSUME NEW k \in State, NEW L, Ordered(k, L), NEW p \in Probes \ L
    PROVE  /\ Relinked(k, Added(k, p)) /\ Ordered(Added(k, p), L \cup {p})
           /\ Added(k, p).head = p /\ Added(k, p).next[p] = k.head
  <1> DEFINE u == Added(k, p)
  <1>1. /\ u.next = [k.next EXCEPT ![p] = k.head] /\ u.head = p
        /\ u.addr = k.addr /\ u.pre = k.pre /\ u.post = k.post /\ u.bkpt = k.bkpt
        /\ u.calls = k.calls /\ u.break = k.break /\ u.stuck = k.stuck
    BY DEF Added, State
  <1>2. u \in State
    BY DEF Added, State, Links
  <1>3. k.next \in Links /\ L \in SUBSET Probes /\ k.head \in L \cup {NULL}
    BY DEF State, Ordered
  <1>4. PICK r : Ranked(k.next, L, r)
    BY DEF Ordered
  <1> HIDE DEF u
  <1>5. \E s : Ranked(u.next, L \cup {p}, s)
    <2>1. PICK g \in Links : g = k.next
      BY <1>3
    <2>2. PICK n \in L \cup {NULL} : n = k.head
      BY <1>3
    <2>3. Ranked(g, L, r)
      BY <1>4, <2>1
    <2>4. \E s : Ranked([g EXCEPT ![p] = n], L \cup {p}, s)
      BY <1>3, <2>3, Fit, RankedPush
    <2> QED
      BY <1>1, <2>1, <2>2, <2>4
  <1>6. Listed(u.next, L \cup {p}, u.head, NULL)
    BY <1>1, <1>3, KProbesAssumption, ListedPush DEF Ordered
  <1>7. Ordered(u, L \cup {p})
    BY <1>1, <1>3, <1>5, <1>6, KProbesAssumption DEF Ordered
  <1>8. u.next[p] = k.head
    BY <1>1, <1>3, Fit
  <1> QED
    BY <1>1, <1>2, <1>7, <1>8 DEF u, Relinked

LEMMA DeletedOrdered ==
    ASSUME NEW k \in State, NEW L, Ordered(k, L), NEW p \in L
    PROVE  Relinked(k, Deleted(k, p)) /\ Ordered(Deleted(k, p), L \ {p})
  <1> DEFINE u == Deleted(k, p)
  <1>1. k.next \in Links /\ L \in SUBSET Probes /\ k.head \in L /\ p \in Probes
    BY DEF State, Ordered
  <1>2. PICK r : Ranked(k.next, L, r)
    BY DEF Ordered
  <1>3. CASE k.head = p
    <2>1. /\ u.head = k.next[p] /\ u.next = k.next
          /\ u.addr = k.addr /\ u.pre = k.pre /\ u.post = k.post /\ u.bkpt = k.bkpt
          /\ u.calls = k.calls /\ u.break = k.break /\ u.stuck = k.stuck
      BY <1>3 DEF Deleted, State
    <2>2. u \in State
      BY <1>1, <1>3, Fit DEF Deleted, State
    <2> HIDE DEF u
    <2>3. /\ Listed(k.next, L \ {p}, k.next[p], NULL)
          /\ IF k.next[p] = NULL THEN L \ {p} = {} ELSE k.next[p] \in L \ {p}
      <3>1. NULL \notin L /\ Listed(k.next, L, p, NULL) /\ p \in L
        BY <1>1, <1>3, KProbesAssumption DEF Ordered
      <3>2. PICK g \in Links : g = k.next
        BY <1>1
      <3>3. Ranked(g, L, r) /\ Listed(g, L, p, NULL)
        BY <1>2, <3>1, <3>2
      <3>4. /\ Listed(g, L \ {p}, g[p], NULL)
            /\ IF g[p] = NULL THEN L \ {p} = {} ELSE g[p] \in L \ {p}
        BY <1>1, <3>1, <3>3, Fit, ListedPop
      <3> QED
        BY <3>2, <3>4
    <2>4. Ranked(u.next, L \ {p}, r)
      BY <1>2, <1>3, <2>1 DEF Ranked, Ordered, Listed
    <2>5. Ordered(u, L \ {p})
      BY <1>1, <2>1, <2>3, <2>4 DEF Ordered
    <2> QED
      BY <2>1, <2>2, <2>5 DEF u, Relinked
  <1>4. CASE k.head # p
    <2>1. InList(k) = L
      BY InListIs
    <2>2. /\ u.head = k.head
          /\ u.next = [q \in Probes |-> IF q \in L /\ k.next[q] = p THEN k.next[p] ELSE k.next[q]]
          /\ u.addr = k.addr /\ u.pre = k.pre /\ u.post = k.post /\ u.bkpt = k.bkpt
          /\ u.calls = k.calls /\ u.break = k.break /\ u.stuck = k.stuck
      BY <1>4, <2>1 DEF Deleted, State
    <2>3. u.next \in Links
      BY <1>1, <2>2, Fit
    <2>4. u \in State
      <3>1. u = [k EXCEPT !.next = u.next]
        BY <1>4, <2>2, <2>1 DEF Deleted
      <3> HIDE DEF u
      <3> QED
        BY <2>3, <3>1 DEF State
    <2> HIDE DEF u
    <2>5. \A x \in L : u.next[x] = IF k.next[x] = p THEN k.next[p] ELSE k.next[x]
      BY <1>1, <2>2
    <2>6. Listed(u.next, L \ {p}, k.head, NULL) /\ Ranked(u.next, L \ {p}, r)
      BY <1>1, <1>2, <1>4, <2>5, Fit, ListedUnlink DEF Ordered
    <2>7. Ordered(u, L \ {p})
      BY <1>1, <1>4, <2>2, <2>6, KProbesAssumption DEF Ordered
    <2> QED
      BY <2>2, <2>4, <2>7 DEF u, Relinked
  <1> QED
    BY <1>3, <1>4

\* Nothing below a node leads back to it.
LEMMA ReachBelow ==
    ASSUME NEW g \in Links, NEW L \in SUBSET Probes, NEW r, Ranked(g, L, r), NEW t \in L
    PROVE  t \notin Reach(g, g[t])
  <1> DEFINE C == {u \in L : r[u] < r[t]}
  <1>1. r \in [Probes -> Nat] /\ NULL \notin Probes
    BY KProbesAssumption DEF Ranked
  <1>2. t \notin C
    BY <1>1
  <1>3. CASE g[t] = NULL
    BY <1>3, Fit, ReachNull
  <1>4. CASE g[t] # NULL
    <2>1. g[t] \in L /\ g[t] \in C
      BY <1>1, <1>4 DEF Ranked
    <2>2. \A u \in L : u \in C /\ g[u] # NULL => g[u] \in C
      <3> SUFFICES ASSUME NEW u \in L, r[u] < r[t], g[u] # NULL
                   PROVE  g[u] \in L /\ r[g[u]] < r[t]
        OBVIOUS
      <3>1. g[u] \in L /\ r[g[u]] < r[u]
        BY DEF Ranked
      <3>2. r[g[u]] \in Nat /\ r[u] \in Nat /\ r[t] \in Nat
        BY <1>1, <3>1
      <3> QED
        BY <3>1, <3>2
    <2> HIDE DEF C
    <2>3. Reach(g, g[t]) \subseteq C
      BY <2>1, <2>2, Fit, ReachLeast
    <2> QED
      BY <1>2, <2>3
  <1> QED
    BY <1>3, <1>4

\* Off the list, set anew, and back on it: the probe is the head then, and the
\* others follow.
Again(k, p, addr, pre, post) ==
    Registered([Unregistered(k, p) EXCEPT !.addr[p] = addr, !.pre[p] = pre, !.post[p] = post], p)

Reset(k, L, p, addr, pre, post, u) ==
    /\ u \in State /\ Ordered(u, L)
    /\ u.head = p /\ Reach(u.next, u.next[p]) = L \ {p}
    /\ u.next[p] \in (L \ {p}) \cup {NULL}
    /\ u.addr = [k.addr EXCEPT ![p] = addr] /\ u.pre = [k.pre EXCEPT ![p] = pre]
    /\ u.post = [k.post EXCEPT ![p] = post] /\ u.bkpt = [k.bkpt EXCEPT ![p] = "on"]
    /\ u.calls = k.calls /\ u.break = k.break /\ u.stuck = k.stuck

LEMMA AgainOrdered ==
    ASSUME NEW k \in State, NEW L, Ordered(k, L), NEW p \in L,
           NEW addr \in Places, NEW pre \in {"handler", "move"}, NEW post \in {"none", "back"},
           NEW u, u = Again(k, p, addr, pre, post)
    PROVE  Reset(k, L, p, addr, pre, post, u)
  <1>1. PICK v : v = Deleted(k, p)
    OBVIOUS
  <1>2. Relinked(k, v) /\ Ordered(v, L \ {p}) /\ v \in State
    BY <1>1, DeletedOrdered DEF Relinked
  <1>3. PICK w : w = ArchAdded([ArchDeleted(v, p) EXCEPT !.addr[p] = addr, !.pre[p] = pre, !.post[p] = post], p)
    OBVIOUS
  <1>4. p \in Probes /\ L \subseteq Probes
    BY DEF Ordered
  <1>5. /\ w \in State /\ w.next = v.next /\ w.head = v.head
        /\ w.addr = [v.addr EXCEPT ![p] = addr] /\ w.pre = [v.pre EXCEPT ![p] = pre]
        /\ w.post = [v.post EXCEPT ![p] = post]
        /\ w.calls = v.calls /\ w.break = v.break /\ w.stuck = v.stuck
    BY <1>2, <1>3, <1>4 DEF ArchAdded, ArchDeleted, State
  <1>6. w.bkpt = [v.bkpt EXCEPT ![p] = "on"]
    BY <1>2, <1>3, <1>4 DEF ArchAdded, ArchDeleted, State
  <1>7. Ordered(w, L \ {p})
    BY <1>2, <1>5 DEF Ordered
  <1>8. u = Added(w, p)
    BY <1>1, <1>3 DEF Again, Registered, Unregistered
  <1>9. p \in Probes \ (L \ {p}) /\ (L \ {p}) \cup {p} = L
    BY <1>4
  <1>10. Relinked(w, u) /\ Ordered(u, L) /\ u.head = p /\ u.next[p] = w.head
    BY <1>5, <1>7, <1>8, <1>9, AddedOrdered
  <1>11. /\ u.next[p] \in (L \ {p}) \cup {NULL}
         /\ Reach(u.next, u.next[p]) = L \ {p}
    <2>1. PICK g \in Links : g = u.next
      BY <1>10 DEF Relinked, State
    <2>2. PICK r : Ranked(g, L, r)
      BY <1>10, <2>1 DEF Ordered
    <2>3. Listed(g, L, p, NULL) /\ NULL \notin L /\ L \in SUBSET Probes
      BY <1>4, <1>10, <2>1, KProbesAssumption DEF Ordered
    <2>4. /\ Listed(g, L \ {p}, g[p], NULL)
          /\ IF g[p] = NULL THEN L \ {p} = {} ELSE g[p] \in L \ {p}
      BY <2>2, <2>3, Fit, ListedPop
    <2>5. PICK n : n = g[p]
      OBVIOUS
    <2>6. Reach(g, n) = L \ {p}
      <3>1. L \ {p} \in SUBSET L
        OBVIOUS
      <3> QED
        BY <2>2, <2>3, <2>4, <2>5, <3>1, Fit, ListedReach
    <2> QED
      BY <2>1, <2>4, <2>5, <2>6
  <1> QED
    BY <1>2, <1>5, <1>6, <1>10, <1>11 DEF Relinked, Reset

-----------------------------------------------------------------------------
(* kprobe_prebreak() *)

\* What is true at the probe at of the loop, which began with o: the handlers of
\* the probes at pc have been called, or the loop has still to come to them.
PreGood(o, L, pc, k, at) ==
    LET here == {p \in L : o.addr[p] = pc}
    IN  /\ k \in State /\ Ordered(k, L) /\ at \in L \cup {NULL}
        /\ k.bkpt = o.bkpt /\ k.break = o.break /\ k.stuck = o.stuck
        /\ \A p \in Probes :
              \/ k.addr[p] = o.addr[p] /\ k.pre[p] = o.pre[p] /\ k.post[p] = o.post[p]
              \/ /\ p \in here /\ o.pre[p] = "move" /\ k.calls[p] # 0
                 /\ k.addr[p] = Return /\ k.pre[p] = "handler" /\ k.post[p] = "back"
        /\ \A p \in here : k.calls[p] = 0 => p \in Reach(k.next, at)
        /\ (\A q \in here : o.pre[q] # "move") =>
              \A p \in here : k.calls[p] = IF p \in Reach(k.next, at) THEN 0 ELSE 1

\* How many turns are left, at most.
Movers(L, pc, k) == {p \in L : k.addr[p] = pc /\ k.pre[p] = "move"}
Left(L, pc, k, at) ==
    IF at = NULL THEN 0
    ELSE Cardinality(Movers(L, pc, k)) * (Cardinality(Probes) + 1) + Cardinality(Reach(k.next, at))

\* A break at pc, as it is found: no handler is called yet, the probes of the
\* list are set and have their breakpoint on.
Reached(o, L, pc) ==
    /\ o \in State /\ Ordered(o, L) /\ pc \in Places
    /\ \A p \in L : SetAs(o, p) /\ o.bkpt[p] = "on"
    /\ o.calls = [p \in Probes |-> 0]

LEMMA PreStep ==
    ASSUME NEW o, NEW L, NEW pc, Reached(o, L, pc), NEW k, NEW at \in L, PreGood(o, L, pc, k, at),
           NEW v, v = PreVisit(k, at, pc, Return)
    PROVE  /\ PreGood(o, L, pc, v, v.next[at])
           /\ \/ /\ Movers(L, pc, v) = Movers(L, pc, k) \ {at} /\ at \in Movers(L, pc, k)
              \/ /\ Movers(L, pc, v) = Movers(L, pc, k)
                 /\ at \notin Reach(v.next, v.next[at])
                 /\ Reach(k.next, at) = {at} \cup Reach(v.next, v.next[at])
  <1> DEFINE here == {p \in L : o.addr[p] = pc}
  <1>1. /\ k \in State /\ Ordered(k, L) /\ L \in SUBSET Probes /\ at \in Probes
        /\ k.next \in Links /\ k.calls \in [Probes -> Nat] /\ NULL \notin Probes /\ at # NULL
    BY KProbesAssumption DEF PreGood, Ordered, State
  <1>2. PICK r : Ranked(k.next, L, r)
    BY <1>1 DEF Ordered
  <1>3. /\ Reach(k.next, at) = {at} \cup Reach(k.next, k.next[at])
        /\ at \notin Reach(k.next, k.next[at])
        /\ k.next[at] \in L \cup {NULL}
    <2>1. PICK g \in Links : g = k.next
      BY <1>1
    <2>2. Ranked(g, L, r)
      BY <1>2, <2>1
    <2>3. Reach(g, at) = {at} \cup Reach(g, g[at])
      BY <1>1, <2>2, Fit, ReachStep
    <2>4. at \notin Reach(g, g[at])
      BY <1>1, <2>2, ReachBelow
    <2> QED
      BY <2>1, <2>2, <2>3, <2>4 DEF Ranked
  <1>4. \A p \in here : o.pre[p] = "move" => pc # Return
    BY <1>1, KProbesAssumption DEF Reached, SetAs
  <1>5. /\ k.addr[at] = pc => /\ at \in here
                              /\ k.pre[at] = o.pre[at] /\ k.post[at] = o.post[at]
        /\ at \in here /\ k.addr[at] # pc => o.pre[at] = "move" /\ k.calls[at] # 0
    BY <1>1, <1>4 DEF PreGood
  <1>6. CASE k.addr[at] # pc
    <2>1. v = k
      BY <1>6 DEF PreVisit
    <2>2. PreGood(o, L, pc, k, k.next[at])
      BY <1>1, <1>3, <1>5, <1>6 DEF PreGood
    <2> QED
      BY <1>3, <2>1, <2>2
  <1>7. CASE k.addr[at] = pc /\ k.pre[at] # "move"
    <2>1. v = [k EXCEPT !.calls[at] = @ + 1]
      BY <1>7 DEF PreVisit
    <2>2. /\ v.head = k.head /\ v.next = k.next /\ v.addr = k.addr /\ v.pre = k.pre
          /\ v.post = k.post /\ v.bkpt = k.bkpt /\ v.break = k.break /\ v.stuck = k.stuck
          /\ v.calls = [k.calls EXCEPT ![at] = @ + 1]
      BY <1>1, <2>1 DEF State
    <2>3. v \in State
      BY <1>1, <2>1 DEF State
    <2>4. Ordered(v, L) /\ Movers(L, pc, v) = Movers(L, pc, k)
      BY <1>1, <2>2 DEF Ordered, Movers
    <2>5. v.calls[at] = k.calls[at] + 1 /\ v.calls[at] # 0 /\ \A p \in Probes \ {at} : v.calls[p] = k.calls[p]
      BY <1>1, <2>2
    <2>6. ASSUME NEW p \in Probes
          PROVE  \/ v.addr[p] = o.addr[p] /\ v.pre[p] = o.pre[p] /\ v.post[p] = o.post[p]
                 \/ /\ p \in here /\ o.pre[p] = "move" /\ v.calls[p] # 0
                    /\ v.addr[p] = Return /\ v.pre[p] = "handler" /\ v.post[p] = "back"
      BY <2>2, <2>5 DEF PreGood
    <2>7. \A p \in here : v.calls[p] = 0 => p \in Reach(v.next, v.next[at])
      BY <1>1, <1>3, <2>2, <2>5 DEF PreGood
    <2>8. ASSUME \A q \in here : o.pre[q] # "move", NEW p \in here
          PROVE  v.calls[p] = IF p \in Reach(v.next, v.next[at]) THEN 0 ELSE 1
      BY <1>1, <1>3, <2>2, <2>5, <2>8 DEF PreGood
    <2>9. v.next[at] \in L \cup {NULL} /\ v.bkpt = o.bkpt /\ v.break = o.break /\ v.stuck = o.stuck
      BY <1>3, <2>2 DEF PreGood
    <2>10. PreGood(o, L, pc, v, v.next[at])
      BY <2>3, <2>4, <2>6, <2>7, <2>8, <2>9 DEF PreGood
    <2> QED
      BY <1>3, <2>2, <2>4, <2>10
  <1>8. CASE k.addr[at] = pc /\ k.pre[at] = "move"
    <2>1. PICK w : w = [k EXCEPT !.calls[at] = @ + 1]
      OBVIOUS
    <2>2. /\ w.head = k.head /\ w.next = k.next /\ w.addr = k.addr /\ w.pre = k.pre
          /\ w.post = k.post /\ w.bkpt = k.bkpt /\ w.break = k.break /\ w.stuck = k.stuck
          /\ w.calls = [k.calls EXCEPT ![at] = @ + 1]
      BY <1>1, <2>1 DEF State
    <2>3. w \in State
      BY <1>1, <2>1 DEF State
    <2>4. Ordered(w, L)
      BY <1>1, <2>2 DEF Ordered
    <2>5. v = Again(w, at, Return, "handler", "back")
      BY <1>8, <2>1 DEF PreVisit, Moved, Again
    <2>6. PICK a \in Places, b \in {"handler", "move"}, c \in {"none", "back"} :
                  a = Return /\ b = "handler" /\ c = "back"
      BY DEF Places
    <2>a. v = Again(w, at, a, b, c)
      BY <2>5, <2>6
    <2>b. Reset(w, L, at, a, b, c, v)
      BY <2>3, <2>4, <2>a, AgainOrdered
    <2>7. /\ v \in State /\ Ordered(v, L)
          /\ Reach(v.next, v.next[at]) = L \ {at}
          /\ v.next[at] \in (L \ {at}) \cup {NULL}
          /\ v.addr = [w.addr EXCEPT ![at] = a] /\ v.pre = [w.pre EXCEPT ![at] = b]
          /\ v.post = [w.post EXCEPT ![at] = c] /\ v.bkpt = [w.bkpt EXCEPT ![at] = "on"]
          /\ v.calls = w.calls /\ v.break = w.break /\ v.stuck = w.stuck
      BY <2>b DEF Reset
    <2>8. /\ v.addr[at] = Return /\ v.pre[at] = "handler" /\ v.post[at] = "back"
          /\ v.calls[at] # 0
          /\ \A p \in Probes \ {at} : /\ v.addr[p] = k.addr[p] /\ v.pre[p] = k.pre[p]
                                      /\ v.post[p] = k.post[p] /\ v.calls[p] = k.calls[p]
      BY <1>1, <2>2, <2>6, <2>7 DEF State
    <2>9. at \in here /\ o.pre[at] = "move" /\ pc # Return
      BY <1>4, <1>5, <1>8
    <2>10. v.bkpt = o.bkpt
      <3>1. o.bkpt \in [Probes -> {"none", "on", "off"}] /\ o.bkpt[at] = "on" /\ w.bkpt = o.bkpt
        BY <2>2 DEF Reached, State, PreGood
      <3> QED
        BY <1>1, <2>7, <3>1
    <2>11. ASSUME NEW p \in Probes
           PROVE  \/ v.addr[p] = o.addr[p] /\ v.pre[p] = o.pre[p] /\ v.post[p] = o.post[p]
                  \/ /\ p \in here /\ o.pre[p] = "move" /\ v.calls[p] # 0
                     /\ v.addr[p] = Return /\ v.pre[p] = "handler" /\ v.post[p] = "back"
      BY <2>8, <2>9 DEF PreGood
    <2>12. \A p \in here : v.calls[p] = 0 => p \in Reach(v.next, v.next[at])
      BY <2>7, <2>8
    <2>13. v.break = o.break /\ v.stuck = o.stuck /\ v.next[at] \in L \cup {NULL}
      BY <2>2, <2>7 DEF PreGood
    <2>14. PreGood(o, L, pc, v, v.next[at])
      BY <2>7, <2>9, <2>10, <2>11, <2>12, <2>13 DEF PreGood
    <2>15. Movers(L, pc, v) = Movers(L, pc, k) \ {at} /\ at \in Movers(L, pc, k)
      BY <1>1, <1>8, <2>8, <2>9 DEF Movers
    <2> QED
      BY <2>14, <2>15
  <1> QED
    BY <1>6, <1>7, <1>8

\* Numbers for the bound of the loop.
LEMMA Bounds ==
    ASSUME NEW n \in Nat, NEW m \in 0 .. n, NEW q \in 0 .. n
    PROVE  /\ m * (n + 1) + q \in Nat /\ m * (n + 1) + q <= (n + 1) * (n + 1)
           /\ \A d \in 1 .. n : m # 0 => (m - 1) * (n + 1) + q < m * (n + 1) + d
  <1>1. m * (n + 1) + q \in Nat
    OBVIOUS
  <1>2. m * (n + 1) <= n * (n + 1) /\ n * (n + 1) + (n + 1) = (n + 1) * (n + 1)
    OBVIOUS
  <1>3. ASSUME NEW d \in 1 .. n, m # 0
        PROVE  (m - 1) * (n + 1) + q < m * (n + 1) + d
    <2>1. (m - 1) * (n + 1) = m * (n + 1) - (n + 1)
      OBVIOUS
    <2>2. m * (n + 1) \in Nat
      OBVIOUS
    <2> QED
      BY <2>1, <2>2
  <1>4. m * (n + 1) \in Nat /\ n * (n + 1) \in Nat
    OBVIOUS
  <1> QED
    BY <1>1, <1>2, <1>3, <1>4

LEMMA LeftIs ==
    ASSUME NEW o, NEW L, NEW pc, Reached(o, L, pc), NEW k, NEW at, PreGood(o, L, pc, k, at)
    PROVE  /\ Cardinality(Movers(L, pc, k)) \in 0 .. Cardinality(Probes)
           /\ IsFiniteSet(Movers(L, pc, k))
           /\ at # NULL => Cardinality(Reach(k.next, at)) \in 1 .. Cardinality(Probes)
           /\ IsFiniteSet(Reach(k.next, at))
           /\ Left(L, pc, k, at) \in Nat /\ Left(L, pc, k, at) <= Turns
           /\ at # NULL => Left(L, pc, k, at) # 0
  <1>1. /\ k.next \in Links /\ L \in SUBSET Probes /\ IsFiniteSet(Probes)
        /\ \E r : Ranked(k.next, L, r)
    BY KProbesAssumption DEF PreGood, Ordered, State
  <1>2. Cardinality(Probes) \in Nat
    BY Fit
  <1>3. /\ IsFiniteSet(Movers(L, pc, k))
        /\ Cardinality(Movers(L, pc, k)) \in 0 .. Cardinality(Probes)
    <2>1. PICK M \in SUBSET Probes : M = Movers(L, pc, k)
      BY <1>1 DEF Movers
    <2>2. IsFiniteSet(M) /\ Cardinality(M) <= Cardinality(Probes) /\ Cardinality(M) \in Nat
      BY <1>1, FS_Subset, FS_CardinalityType
    <2> QED
      BY <1>2, <2>1, <2>2
  <1>4. CASE at = NULL
    <2>1. Reach(k.next, at) = {}
      BY <1>1, <1>4, Fit, ReachNull
    <2>2. Left(L, pc, k, at) = 0
      BY <1>4 DEF Left
    <2>3. Turns \in Nat
      BY <1>2 DEF Turns
    <2> QED
      BY <1>3, <1>4, <2>1, <2>2, <2>3, FS_EmptySet
  <1>5. CASE at # NULL
    <2>1. PICK R \in SUBSET Probes : R = Reach(k.next, at) /\ at \in R
      <3>0. PICK g \in Links : g = k.next
        BY <1>1
      <3>1. PICK r : Ranked(g, L, r)
        BY <1>1, <3>0
      <3>2. at \in L
        BY <1>5 DEF PreGood
      <3>3. at \in Reach(g, at) /\ Reach(g, at) \subseteq L
        BY <1>1, <3>1, <3>2, Fit, ReachFacts
      <3> QED
        BY <1>1, <3>0, <3>3
    <2>2. IsFiniteSet(R) /\ Cardinality(R) <= Cardinality(Probes) /\ Cardinality(R) \in Nat
      BY <1>1, FS_Subset, FS_CardinalityType
    <2>3. Cardinality(R) # 0
      BY <2>1, <2>2, FS_EmptySet
    <2>4. Cardinality(R) \in 1 .. Cardinality(Probes) /\ Cardinality(R) \in 0 .. Cardinality(Probes)
      BY <1>2, <2>2, <2>3
    <2>5. PICK m \in 0 .. Cardinality(Probes) : m = Cardinality(Movers(L, pc, k))
      BY <1>3
    <2>6. PICK q \in 1 .. Cardinality(Probes) : q = Cardinality(R) /\ q \in 0 .. Cardinality(Probes)
      BY <2>4
    <2>7. Left(L, pc, k, at) = m * (Cardinality(Probes) + 1) + q
      BY <1>5, <2>1, <2>5, <2>6 DEF Left
    <2>8. /\ m * (Cardinality(Probes) + 1) + q \in Nat
          /\ m * (Cardinality(Probes) + 1) + q <= Turns
      BY <1>2, <2>6, Bounds DEF Turns
    <2>9. m * (Cardinality(Probes) + 1) \in Nat
      BY <1>2
    <2>10. m * (Cardinality(Probes) + 1) + q # 0
      BY <1>2, <2>6, <2>9
    <2> QED
      BY <1>3, <1>5, <2>1, <2>2, <2>4, <2>7, <2>8, <2>10
  <1> QED
    BY <1>4, <1>5

LEMMA LeftLess ==
    ASSUME NEW o, NEW L, NEW pc, Reached(o, L, pc), NEW k, NEW at \in L, PreGood(o, L, pc, k, at),
           NEW v, v = PreVisit(k, at, pc, Return)
    PROVE  PreGood(o, L, pc, v, v.next[at]) /\ Left(L, pc, v, v.next[at]) < Left(L, pc, k, at)
  <1>1. /\ PreGood(o, L, pc, v, v.next[at])
        /\ \/ /\ Movers(L, pc, v) = Movers(L, pc, k) \ {at} /\ at \in Movers(L, pc, k)
           \/ /\ Movers(L, pc, v) = Movers(L, pc, k)
              /\ at \notin Reach(v.next, v.next[at])
              /\ Reach(k.next, at) = {at} \cup Reach(v.next, v.next[at])
    BY PreStep
  <1>2. PICK next : next = v.next[at]
    OBVIOUS
  <1>3. PICK n \in Nat : n = Cardinality(Probes)
    BY Fit
  <1>4. at # NULL
    BY KProbesAssumption DEF Reached, Ordered
  <1>5. PICK m \in 0 .. n, d \in 1 .. n :
            m = Cardinality(Movers(L, pc, k)) /\ d = Cardinality(Reach(k.next, at))
    BY <1>3, <1>4, LeftIs
  <1>6. Left(L, pc, k, at) = m * (n + 1) + d
    BY <1>3, <1>4, <1>5 DEF Left
  <1>7. Left(L, pc, k, at) # 0 /\ Left(L, pc, k, at) \in Nat
    BY <1>4, LeftIs
  <1>8. PreGood(o, L, pc, v, next)
    BY <1>1, <1>2
  <1>9. CASE next = NULL
    <2>1. Left(L, pc, v, next) = 0
      BY <1>9 DEF Left
    <2> QED
      BY <1>1, <1>2, <1>7, <2>1
  <1>10. CASE next # NULL
    <2>1. PICK p \in 0 .. n, q \in 1 .. n :
              p = Cardinality(Movers(L, pc, v)) /\ q = Cardinality(Reach(v.next, next))
      BY <1>3, <1>8, <1>10, LeftIs
    <2>2. Left(L, pc, v, next) = p * (n + 1) + q
      BY <1>3, <1>10, <2>1 DEF Left
    <2>3. CASE Movers(L, pc, v) = Movers(L, pc, k) \ {at} /\ at \in Movers(L, pc, k)
      <3>1. p = m - 1
        <4>1. IsFiniteSet(Movers(L, pc, k))
          BY LeftIs
        <4> QED
          BY <1>5, <2>1, <2>3, <4>1, FS_RemoveElement
      <3>2. q \in 0 .. n /\ m # 0
        BY <1>3, <2>1, <3>1
      <3> QED
        BY <1>1, <1>2, <1>3, <1>6, <2>2, <3>1, <3>2, Bounds
    <2>4. CASE /\ Movers(L, pc, v) = Movers(L, pc, k)
               /\ at \notin Reach(v.next, v.next[at])
               /\ Reach(k.next, at) = {at} \cup Reach(v.next, v.next[at])
      <3>1. IsFiniteSet(Reach(v.next, next))
        BY <1>8, LeftIs
      <3>2. Reach(k.next, at) = Reach(v.next, next) \cup {at} /\ at \notin Reach(v.next, next)
        BY <1>2, <2>4
      <3>3. d = q + 1
        BY <1>5, <2>1, <3>1, <3>2, FS_AddElement
      <3>4. p = m /\ m * (n + 1) \in Nat
        BY <1>3, <1>5, <2>1, <2>4
      <3> QED
        BY <1>1, <1>2, <1>6, <2>2, <3>3, <3>4
    <2> QED
      BY <1>1, <2>3, <2>4
  <1> QED
    BY <1>9, <1>10

\* The loop ends, and has called the handlers then.
LEMMA PrebreakEnds ==
    ASSUME NEW o, NEW L, NEW pc, Reached(o, L, pc)
    PROVE  PreGood(o, L, pc, Prebreak(o, pc, Return), NULL)
  <1> DEFINE X == {x \in State \X (Probes \cup {NULL}) : PreGood(o, L, pc, x[1], x[2])}
             V(x) == PreVisit(x[1], x[2], pc, Return)
             T(x) == IF x[2] = NULL THEN x ELSE <<V(x), V(x).next[x[2]]>>
             Step(f) == [m \in 0 .. Turns |-> IF m = 0 THEN <<o, o.head>> ELSE T(f[m - 1])]
             st == [x \in X |-> T(x)]
             e == CHOOSE f : f = Step(f)
  <1>1. Prebreak(o, pc, Return) = e[Turns][1]
    BY DEF Prebreak, Loop, Turn
  <1>2. Turns \in Nat
    BY Fit DEF Turns
  <1>3. <<o, o.head>> \in X
    <2>1. /\ o \in State /\ Ordered(o, L) /\ o.head \in L \cup {NULL} /\ o.next \in Links
          /\ L \in SUBSET Probes
      BY DEF Reached, Ordered, State
    <2>2. Reach(o.next, o.head) = L
      <3>1. InList(o) = L
        BY <2>1, InListIs
      <3> QED
        BY <3>1 DEF InList, Walk, Reach, Way
    <2>3. PreGood(o, L, pc, o, o.head)
      BY <2>1, <2>2 DEF PreGood, Reached
    <2>4. PICK h \in Probes \cup {NULL} : h = o.head
      BY <2>1
    <2> QED
      BY <2>1, <2>3, <2>4
  <1>4. ASSUME NEW x \in X
        PROVE  /\ x[1] \in State /\ x[2] \in L \cup {NULL}
               /\ PreGood(o, L, pc, x[1], x[2])
               /\ T(x) \in X
               /\ x[2] # NULL => Left(L, pc, T(x)[1], T(x)[2]) < Left(L, pc, x[1], x[2])
    <2>1. PICK k, at : k = x[1] /\ at = x[2] /\ x = <<k, at>>
      OBVIOUS
    <2>2. k \in State /\ PreGood(o, L, pc, k, at) /\ at \in L \cup {NULL}
      BY <2>1 DEF PreGood
    <2>3. CASE at = NULL
      BY <2>1, <2>2, <2>3
    <2>4. CASE at # NULL
      <3>1. PICK v : v = PreVisit(k, at, pc, Return)
        OBVIOUS
      <3>2. /\ PreGood(o, L, pc, v, v.next[at])
            /\ Left(L, pc, v, v.next[at]) < Left(L, pc, k, at)
        BY <2>2, <2>4, <3>1, LeftLess
      <3>3. PICK next : next = v.next[at]
        OBVIOUS
      <3>4. T(x) = <<v, next>>
        BY <2>1, <2>4, <3>1, <3>3
      <3>5. v \in State /\ next \in Probes \cup {NULL}
        BY <3>2, <3>3 DEF PreGood, Ordered
      <3> HIDE DEF T
      <3> QED
        BY <2>1, <2>2, <2>4, <3>2, <3>3, <3>4, <3>5
    <2> QED
      BY <2>2, <2>3, <2>4
  <1> HIDE DEF X, T
  <1>5. st \in [X -> X]
    BY <1>4
  <1>6. PICK f \in [0 .. Turns -> X] :
            f[0] = <<o, o.head>> /\ \A m \in 1 .. Turns : f[m] = st[f[m - 1]]
    <2>1. PICK n \in Nat, c \in X : n = Turns /\ c = <<o, o.head>>
      BY <1>2, <1>3
    <2> HIDE DEF st
    <2>2. \E f : Repeats(f, X, c, st, n)
      BY <1>5, Repeated
    <2> QED
      BY <2>1, <2>2 DEF Repeats
  <1>7. f = Step(f)
    <2>1. ASSUME NEW m \in 0 .. Turns
          PROVE  f[m] = Step(f)[m]
      <3>1. CASE m = 0
        BY <1>6, <3>1
      <3>2. CASE m # 0
        <4>1. m \in 1 .. Turns /\ m - 1 \in 0 .. Turns
          BY <1>2, <3>2
        <4> QED
          BY <1>6, <3>2, <4>1
      <3> QED
        BY <3>1, <3>2
    <2> QED
      BY <1>6, <2>1
  <1>8. e = Step(e)
    BY <1>7
  <1> HIDE DEF e
  <1>9. e[0] = <<o, o.head>> /\ \A m \in 1 .. Turns : e[m] = T(e[m - 1])
    <2>1. PICK s : s = Step(e) /\ s = e
      BY <1>8
    <2>2. s[0] = <<o, o.head>> /\ \A m \in 1 .. Turns : s[m] = T(e[m - 1])
      BY <1>2, <2>1
    <2> QED
      BY <2>1, <2>2
  <1>10. \A m \in 0 .. Turns : e[m] \in X
    <2>1. \A m \in 1 .. Turns : e[m - 1] \in X => e[m] \in X
      BY <1>4, <1>9
    <2> HIDE DEF Step
    <2> QED
      BY <1>2, <1>3, <1>9, <2>1, StaysIn
  <1> DEFINE v == [m \in 0 .. Turns |-> Left(L, pc, e[m][1], e[m][2])]
  <1>11. ASSUME NEW m \in 0 .. Turns
         PROVE  v[m] \in Nat /\ v[m] <= Turns /\ (e[m][2] # NULL => v[m] # 0)
    BY <1>4, <1>10, LeftIs
  <1>12. ASSUME NEW m \in 1 .. Turns
         PROVE  v[m] <= v[m - 1] /\ (v[m - 1] # 0 => v[m] < v[m - 1])
    <2>1. m - 1 \in 0 .. Turns /\ m \in 0 .. Turns
      BY <1>2
    <2>2. PICK x \in X : x = e[m - 1]
      BY <1>10, <2>1
    <2>3. e[m] = T(x)
      BY <1>9, <2>2
    <2>4. v[m - 1] = Left(L, pc, x[1], x[2]) /\ v[m] = Left(L, pc, T(x)[1], T(x)[2])
      BY <2>1, <2>2, <2>3
    <2>5. CASE x[2] = NULL
      <3>1. T(x) = x /\ v[m - 1] = 0
        BY <2>4, <2>5 DEF T, Left
      <3> QED
        BY <2>4, <3>1
    <2>6. CASE x[2] # NULL
      <3>1. v[m] < v[m - 1]
        BY <1>4, <2>4, <2>6
      <3>2. v[m] \in Nat /\ v[m - 1] \in Nat
        BY <1>11, <2>1
      <3> HIDE DEF v
      <3> QED
        BY <3>1, <3>2
    <2> QED
      BY <2>5, <2>6
  <1>13. e[Turns][2] = NULL
    <2>1. v \in [0 .. Turns -> Nat] /\ v[0] <= Turns
      BY <1>2, <1>11
    <2> HIDE DEF v
    <2>2. PICK n \in Nat : n = Turns
      BY <1>2
    <2>3. \A m \in 1 .. n : v[m] <= v[m - 1] /\ (v[m - 1] # 0 => v[m] < v[m - 1])
      BY <1>12, <2>2
    <2>4. v \in [0 .. n -> Nat] /\ v[0] <= n
      BY <2>1, <2>2
    <2>5. v[n] = 0 /\ n \in 0 .. n
      BY <2>3, <2>4, Descends
    <2> QED
      BY <1>11, <2>2, <2>5
  <1>14. e[Turns] \in X /\ PreGood(o, L, pc, e[Turns][1], e[Turns][2])
    BY <1>2, <1>4, <1>10
  <1> QED
    BY <1>1, <1>13, <1>14

-----------------------------------------------------------------------------
(* kprobe_postbreak() *)

\* What is true in the loop, which began with o: return probes have gone back,
\* all others are as they were.
PostGood(o, L, k, at) ==
    /\ k \in State /\ Ordered(k, L) /\ at \in L \cup {NULL}
    /\ k.calls = o.calls /\ k.break = o.break /\ k.stuck = o.stuck
    /\ \A p \in Probes :
          \/ /\ k.addr[p] = o.addr[p] /\ k.pre[p] = o.pre[p] /\ k.post[p] = o.post[p]
             /\ k.bkpt[p] = o.bkpt[p]
          \/ /\ p \in L /\ p \in Returning
             /\ k.addr[p] = Function[p] /\ k.pre[p] = "move" /\ k.post[p] = "none"
             /\ k.bkpt[p] = "on"

LEMMA PostStep ==
    ASSUME NEW o, NEW L, \A p \in L : SetAs(o, p), NEW pc, NEW k, NEW at \in L, PostGood(o, L, k, at),
           NEW v, v = PostVisit(k, at, pc)
    PROVE  PostGood(o, L, v, v.next[at])
  <1>1. /\ k \in State /\ Ordered(k, L) /\ L \in SUBSET Probes /\ at \in Probes
    BY DEF PostGood, Ordered
  <1>2. CASE ~(k.addr[at] = pc /\ k.post[at] = "back")
    <2>1. v = k
      BY <1>2 DEF PostVisit
    <2>2. k.next[at] \in L \cup {NULL}
      BY <1>1 DEF Ordered, Ranked
    <2> QED
      BY <2>1, <2>2 DEF PostGood
  <1>3. CASE k.addr[at] = pc /\ k.post[at] = "back"
    <2>1. PICK a \in Places, b \in {"handler", "move"}, c \in {"none", "back"} :
                  a = Function[at] /\ b = "move" /\ c = "none"
      BY <1>1 DEF Places
    <2>2. v = Again(k, at, a, b, c)
      BY <1>3, <2>1 DEF PostVisit, MovedBack, Again
    <2>3. Reset(k, L, at, a, b, c, v)
      BY <1>1, <2>2, AgainOrdered
    <2>4. at \in Returning
      BY <1>1, <1>3 DEF PostGood, SetAs
    <2>5. /\ v.addr[at] = Function[at] /\ v.pre[at] = "move" /\ v.post[at] = "none"
          /\ v.bkpt[at] = "on"
          /\ \A p \in Probes \ {at} : /\ v.addr[p] = k.addr[p] /\ v.pre[p] = k.pre[p]
                                      /\ v.post[p] = k.post[p] /\ v.bkpt[p] = k.bkpt[p]
      BY <1>1, <2>1, <2>3 DEF Reset, State
    <2>6. ASSUME NEW p \in Probes
          PROVE  \/ /\ v.addr[p] = o.addr[p] /\ v.pre[p] = o.pre[p] /\ v.post[p] = o.post[p]
                    /\ v.bkpt[p] = o.bkpt[p]
                 \/ /\ p \in L /\ p \in Returning
                    /\ v.addr[p] = Function[p] /\ v.pre[p] = "move" /\ v.post[p] = "none"
                    /\ v.bkpt[p] = "on"
      BY <2>4, <2>5 DEF PostGood
    <2> QED
      BY <2>3, <2>6 DEF PostGood, Reset
  <1> QED
    BY <1>2, <1>3

LEMMA PostbreakKeeps ==
    ASSUME NEW o \in State, NEW L, Ordered(o, L), \A p \in L : SetAs(o, p), NEW pc
    PROVE  \E at : PostGood(o, L, Postbreak(o, pc), at)
  <1> DEFINE X == {x \in State \X (Probes \cup {NULL}) : PostGood(o, L, x[1], x[2])}
             V(x) == PostVisit(x[1], x[2], pc)
             T(x) == IF x[2] = NULL THEN x ELSE <<V(x), V(x).next[x[2]]>>
             Step(f) == [m \in 0 .. Turns |-> IF m = 0 THEN <<o, o.head>> ELSE T(f[m - 1])]
             st == [x \in X |-> T(x)]
             e == CHOOSE f : f = Step(f)
  <1>1. Postbreak(o, pc) = e[Turns][1]
    BY DEF Postbreak, Loop, Turn
  <1>2. Turns \in Nat
    BY Fit DEF Turns
  <1>3. <<o, o.head>> \in X
    <2>1. o.head \in L \cup {NULL} /\ o.head \in Probes \cup {NULL}
      BY DEF Ordered
    <2>2. PostGood(o, L, o, o.head)
      BY <2>1 DEF PostGood
    <2> QED
      BY <2>1, <2>2
  <1>4. ASSUME NEW x \in X
        PROVE  T(x) \in X
    <2>1. PICK k, at : k = x[1] /\ at = x[2] /\ x = <<k, at>>
      OBVIOUS
    <2>2. k \in State /\ PostGood(o, L, k, at) /\ at \in L \cup {NULL}
      BY <2>1 DEF PostGood
    <2>3. CASE at = NULL
      BY <2>1, <2>2, <2>3
    <2>4. CASE at # NULL
      <3>1. PICK v, next : v = PostVisit(k, at, pc) /\ next = v.next[at]
        OBVIOUS
      <3>2. PostGood(o, L, v, v.next[at])
        BY <2>2, <2>4, <3>1, PostStep
      <3>3. T(x) = <<v, next>>
        BY <2>1, <2>4, <3>1
      <3>4. v \in State /\ next \in Probes \cup {NULL} /\ PostGood(o, L, v, next)
        BY <3>1, <3>2 DEF PostGood, Ordered
      <3> HIDE DEF T
      <3> QED
        BY <3>3, <3>4
    <2> QED
      BY <2>2, <2>3, <2>4
  <1>5. \A x \in X : PostGood(o, L, x[1], x[2])
    OBVIOUS
  <1> HIDE DEF X, T
  <1>6. st \in [X -> X]
    BY <1>4
  <1>7. PICK f \in [0 .. Turns -> X] :
            f[0] = <<o, o.head>> /\ \A m \in 1 .. Turns : f[m] = st[f[m - 1]]
    <2>1. PICK n \in Nat, c \in X : n = Turns /\ c = <<o, o.head>>
      BY <1>2, <1>3
    <2> HIDE DEF st
    <2>2. \E f : Repeats(f, X, c, st, n)
      BY <1>6, Repeated
    <2> QED
      BY <2>1, <2>2 DEF Repeats
  <1>8. f = Step(f)
    <2>1. ASSUME NEW m \in 0 .. Turns
          PROVE  f[m] = Step(f)[m]
      <3>1. CASE m = 0
        BY <1>7, <3>1
      <3>2. CASE m # 0
        <4>1. m \in 1 .. Turns /\ m - 1 \in 0 .. Turns
          BY <1>2, <3>2
        <4> QED
          BY <1>7, <3>2, <4>1
      <3> QED
        BY <3>1, <3>2
    <2> QED
      BY <1>7, <2>1
  <1>9. e = Step(e)
    BY <1>8
  <1> HIDE DEF e
  <1>10. e[0] = <<o, o.head>> /\ \A m \in 1 .. Turns : e[m] = T(e[m - 1])
    <2>1. PICK s : s = Step(e) /\ s = e
      BY <1>9
    <2>2. s[0] = <<o, o.head>> /\ \A m \in 1 .. Turns : s[m] = T(e[m - 1])
      BY <1>2, <2>1
    <2> QED
      BY <2>1, <2>2
  <1>11. \A m \in 0 .. Turns : e[m] \in X
    <2>1. \A m \in 1 .. Turns : e[m - 1] \in X => e[m] \in X
      BY <1>4, <1>10
    <2> HIDE DEF Step
    <2> QED
      BY <1>2, <1>3, <1>10, <2>1, StaysIn
  <1>12. PostGood(o, L, e[Turns][1], e[Turns][2])
    BY <1>2, <1>5, <1>11
  <1> QED
    BY <1>1, <1>12

-----------------------------------------------------------------------------
(* The debug monitor *)

LEMMA SwitchedIs ==
    ASSUME NEW k \in State, NEW L, Ordered(k, L), NEW pc, NEW from, NEW to \in {"on", "off"},
           NEW u, u = Switched(k, pc, from, to)
    PROVE  /\ u \in State /\ Ordered(u, L)
           /\ u.addr = k.addr /\ u.pre = k.pre /\ u.post = k.post
           /\ u.calls = k.calls /\ u.break = k.break /\ u.stuck = k.stuck
           /\ \A p \in Probes : u.bkpt[p] = IF p \in L /\ k.addr[p] = pc /\ k.bkpt[p] = from
                                            THEN to ELSE k.bkpt[p]
  <1>1. InList(k) = L
    BY InListIs
  <1>2. PICK b : b = [p \in Probes |-> IF p \in L /\ k.addr[p] = pc /\ k.bkpt[p] = from
                                       THEN to ELSE k.bkpt[p]]
    OBVIOUS
  <1>3. u = [k EXCEPT !.bkpt = b]
    BY <1>1, <1>2 DEF Switched
  <1>4. b \in [Probes -> {"none", "on", "off"}]
    BY <1>2 DEF State
  <1>5. /\ u \in State /\ u.head = k.head /\ u.next = k.next
        /\ u.addr = k.addr /\ u.pre = k.pre /\ u.post = k.post /\ u.bkpt = b
        /\ u.calls = k.calls /\ u.break = k.break /\ u.stuck = k.stuck
    BY <1>3, <1>4 DEF State
  <1> QED
    BY <1>2, <1>5 DEF Ordered

\* What a break at pc leaves, if it finds the list L: the breakpoints as they
\* were, unless it was stuck, the probes set, and all handlers called.
LEMMA BrokenIs ==
    ASSUME NEW k \in State, NEW L, Ordered(k, L), NEW pc \in Places,
           \A p \in L : k.bkpt[p] = "on" /\ SetAs(k, p),
           NEW x, x = Broken(k, pc, Return)
    PROVE  /\ x \in State /\ Ordered(x, L) /\ x.break = pc
           /\ \A p \in Probes \ L : SetAs(k, p) => SetAs(x, p)
           /\ \A p \in L : SetAs(x, p)
           /\ \A p \in Probes : x.bkpt[p] = "none" <=> k.bkpt[p] = "none"
           /\ \A p \in Probes \ L : x.bkpt[p] = k.bkpt[p]
           /\ ~x.stuck => \A p \in L : x.bkpt[p] = "on"
           /\ x.stuck /\ ~k.stuck => \E p \in Probes \ L : x.bkpt[p] # "none"
           /\ \A p \in L : k.addr[p] = pc =>
                  IF \E q \in L : k.addr[q] = pc /\ k.pre[q] = "move" THEN x.calls[p] >= 1
                  ELSE x.calls[p] = 1
  <1>0. L \subseteq Probes /\ NULL \notin Probes
    BY KProbesAssumption DEF Ordered
  <1>1. PICK o : o = [Uncalled(k) EXCEPT !.break = pc]
    OBVIOUS
  <1>2. /\ o.head = k.head /\ o.next = k.next /\ o.addr = k.addr /\ o.pre = k.pre
        /\ o.post = k.post /\ o.bkpt = k.bkpt /\ o.stuck = k.stuck /\ o.break = pc
        /\ o.calls = [p \in Probes |-> 0]
    BY <1>1 DEF Uncalled, State
  <1>3. o \in State
    BY <1>1 DEF Uncalled, State
  <1>4. Reached(o, L, pc)
    BY <1>2, <1>3 DEF Reached, Ordered, SetAs
  <1>5. PICK u : u = Prebreak(o, pc, Return)
    OBVIOUS
  <1>6. PreGood(o, L, pc, u, NULL)
    BY <1>4, <1>5, PrebreakEnds
  <1>7. /\ u \in State /\ Ordered(u, L) /\ u.bkpt = k.bkpt /\ u.break = pc /\ u.stuck = k.stuck
        /\ \A p \in L : SetAs(u, p)
        /\ \A p \in Probes \ L : SetAs(k, p) => SetAs(u, p)
    <2>1. ASSUME NEW p \in Probes, SetAs(k, p)
          PROVE  SetAs(u, p)
      BY <1>2, <1>6, <2>1 DEF PreGood, SetAs
    <2> QED
      BY <1>0, <1>2, <1>6, <2>1 DEF PreGood
  <1>8. \A p \in L : k.addr[p] = pc =>
            IF \E q \in L : k.addr[q] = pc /\ k.pre[q] = "move" THEN u.calls[p] >= 1
            ELSE u.calls[p] = 1
    <2>1. Reach(u.next, NULL) = {}
      BY <1>7, Fit, ReachNull DEF State
    <2>2. ASSUME NEW p \in L, k.addr[p] = pc
          PROVE  /\ u.calls[p] \in Nat /\ u.calls[p] # 0
                 /\ (\A q \in L : k.addr[q] = pc => k.pre[q] # "move") => u.calls[p] = 1
      BY <1>0, <1>2, <1>6, <1>7, <2>1, <2>2 DEF PreGood, State
    <2> QED
      BY <2>2
  <1>9. PICK w : w = Switched(u, pc, "on", "off")
    OBVIOUS
  <1>10. /\ w \in State /\ Ordered(w, L)
         /\ w.addr = u.addr /\ w.pre = u.pre /\ w.post = u.post
         /\ w.calls = u.calls /\ w.break = u.break /\ w.stuck = u.stuck
         /\ \A p \in Probes : w.bkpt[p] = IF p \in L /\ u.addr[p] = pc /\ u.bkpt[p] = "on"
                                          THEN "off" ELSE u.bkpt[p]
    <2>1. PICK from, to \in {"on", "off"} : from = "on" /\ to = "off"
      OBVIOUS
    <2>2. w = Switched(u, pc, from, to)
      BY <1>9, <2>1
    <2> QED
      BY <1>7, <2>1, <2>2, SwitchedIs
  <1>11. x = Stepped(w, pc)
    BY <1>1, <1>5, <1>9 DEF Broken
  <1>12. \A p \in Probes : SetAs(u, p) => SetAs(w, p)
    BY <1>10 DEF SetAs
  <1>13. CASE On(w, pc) # {}
    <2>1. x = [w EXCEPT !.stuck = TRUE]
      BY <1>11, <1>13 DEF Stepped
    <2>2. /\ x \in State /\ x.head = w.head /\ x.next = w.next /\ x.stuck
          /\ x.addr = w.addr /\ x.pre = w.pre /\ x.post = w.post /\ x.bkpt = w.bkpt
          /\ x.calls = w.calls /\ x.break = w.break
      BY <1>10, <2>1 DEF State
    <2>3. Ordered(x, L)
      BY <1>10, <2>2 DEF Ordered
    <2>4. PICK p \in Probes : w.bkpt[p] = "on" /\ w.addr[p] = pc
      BY <1>13 DEF On
    <2>5. p \notin L
      BY <1>10, <2>4
    <2>6. \A q \in Probes : SetAs(w, q) => SetAs(x, q)
      BY <2>2 DEF SetAs
    <2>7. /\ \A q \in Probes : x.bkpt[q] = "none" <=> k.bkpt[q] = "none"
          /\ \A q \in Probes \ L : x.bkpt[q] = k.bkpt[q]
      BY <1>7, <1>10, <2>2
    <2> QED
      BY <1>0, <1>7, <1>8, <1>10, <1>12, <2>2, <2>3, <2>4, <2>5, <2>6, <2>7
  <1>14. CASE On(w, pc) = {}
    <2>1. PICK y : y = Postbreak(w, pc)
      OBVIOUS
    <2>2. PICK at : PostGood(w, L, y, at)
      BY <1>0, <1>7, <1>10, <1>12, <2>1, PostbreakKeeps
    <2>3. x = Switched(y, pc, "off", "on")
      BY <1>11, <1>14, <2>1 DEF Stepped
    <2>4. /\ x \in State /\ Ordered(x, L)
          /\ x.addr = y.addr /\ x.pre = y.pre /\ x.post = y.post
          /\ x.calls = y.calls /\ x.break = y.break /\ x.stuck = y.stuck
          /\ \A p \in Probes : x.bkpt[p] = IF p \in L /\ y.addr[p] = pc /\ y.bkpt[p] = "off"
                                           THEN "on" ELSE y.bkpt[p]
      <3>1. PICK from, to \in {"on", "off"} : from = "off" /\ to = "on"
        OBVIOUS
      <3>2. x = Switched(y, pc, from, to) /\ y \in State /\ Ordered(y, L)
        BY <2>2, <2>3, <3>1 DEF PostGood
      <3> QED
        BY <3>1, <3>2, SwitchedIs
    <2>5. ASSUME NEW p \in Probes, SetAs(w, p)
          PROVE  SetAs(x, p)
      BY <2>2, <2>4, <2>5 DEF PostGood, SetAs
    <2>6. ASSUME NEW p \in Probes
          PROVE  /\ x.bkpt[p] = "none" <=> k.bkpt[p] = "none"
                 /\ p \notin L => x.bkpt[p] = k.bkpt[p]
      BY <1>7, <1>10, <2>2, <2>4 DEF PostGood
    <2>7. ASSUME NEW p \in L
          PROVE  x.bkpt[p] = "on"
      BY <1>0, <1>7, <1>10, <2>2, <2>4 DEF PostGood
    <2>8. x.calls = u.calls /\ x.break = pc /\ x.stuck = k.stuck
      BY <1>7, <1>10, <2>2, <2>4 DEF PostGood
    <2> QED
      BY <1>0, <1>7, <1>8, <1>12, <2>4, <2>5, <2>6, <2>7, <2>8
  <1> QED
    BY <1>13, <1>14

-----------------------------------------------------------------------------
(* Every step *)

LEMMA NullOut == NULL \notin Probes
  BY KProbesAssumption

\* A step that does not break keeps all but what it says; before, no handler is
\* called.
LEMMA UncalledIs ==
    ASSUME NEW k \in State
    PROVE  /\ Uncalled(k) \in State /\ Uncalled(k).break = NULL
           /\ Uncalled(k).head = k.head /\ Uncalled(k).next = k.next
           /\ Uncalled(k).addr = k.addr /\ Uncalled(k).pre = k.pre
           /\ Uncalled(k).post = k.post /\ Uncalled(k).bkpt = k.bkpt
           /\ Uncalled(k).stuck = k.stuck
           /\ \A L : Ordered(k, L) => Ordered(Uncalled(k), L)
  <1>1. /\ Uncalled(k) \in State /\ Uncalled(k).break = NULL
        /\ Uncalled(k).head = k.head /\ Uncalled(k).next = k.next
        /\ Uncalled(k).addr = k.addr /\ Uncalled(k).pre = k.pre
        /\ Uncalled(k).post = k.post /\ Uncalled(k).bkpt = k.bkpt
        /\ Uncalled(k).stuck = k.stuck
    BY DEF Uncalled, State
  <1> QED
    BY <1>1 DEF Ordered

LEMMA KInitList == KInit => ProbesInv
  <1> SUFFICES ASSUME KInit PROVE ProbesInv
    OBVIOUS
  <1>1. kps \in State
    BY KProbesAssumption DEF KInit, State, Links, Places
  <1>2. kps.head = NULL /\ kps.bkpt = [p \in Probes |-> "none"] /\ kps.stuck = FALSE /\ half = Whole
    BY DEF KInit
  <1>3. Ordered(kps, {})
    <2>1. Ranked(kps.next, {}, [p \in Probes |-> 0])
      BY Fit DEF Ranked
    <2>2. Listed(kps.next, {}, kps.head, NULL)
      BY <1>2 DEF Listed
    <2> QED
      BY <1>2, <2>1, <2>2 DEF Ordered
  <1>4. ListInv({})
    BY <1>2, <1>3 DEF ListInv, Halfway, Armed, Whole
  <1> QED
    BY <1>1, <1>4 DEF ProbesInv

LEMMA ListIsWhole == ProbesInv => ProbesWhole
  <1> SUFFICES ASSUME ProbesInv PROVE ProbesWhole
    OBVIOUS
  <1>1. PICK L : ListInv(L)
    BY DEF ProbesInv
  <1>2. InList(kps) = L /\ Walk(kps)[Cardinality(Probes)] = NULL
    BY <1>1, InListIs DEF ProbesInv, ListInv
  <1>3. half[2] \notin L
    BY <1>1, NullOut DEF ListInv, Halfway, Whole, Ordered
  <1> QED
    BY <1>1, <1>2, <1>3 DEF ListInv, ProbesWhole, Armed, SetAs

LEMMA RegisterArchKeeps ==
    ASSUME ProbesInv, NEW p \in Probes, RegisterArch(p), ~kps.stuck
    PROVE  ProbesInv' /\ kps'.break = NULL
  <1>1. PICK L : ListInv(L)
    BY DEF ProbesInv
  <1>2. kps \in State /\ p \in Probes \ L /\ half = Whole
    BY <1>1, InListIs DEF ProbesInv, ListInv, RegisterArch
  <1>3. PICK k : k = Fresh(kps, p)
    OBVIOUS
  <1>4. /\ k \in State /\ k.break = NULL /\ k.head = kps.head /\ k.next = kps.next
        /\ k.bkpt = kps.bkpt /\ k.stuck = kps.stuck /\ SetAs(k, p)
        /\ \A q \in Probes \ {p} : k.addr[q] = kps.addr[q] /\ k.pre[q] = kps.pre[q] /\ k.post[q] = kps.post[q]
    <2>1. PICK u : u = Uncalled(kps)
      OBVIOUS
    <2>2. /\ u \in State /\ u.break = NULL /\ u.head = kps.head /\ u.next = kps.next
          /\ u.addr = kps.addr /\ u.pre = kps.pre /\ u.post = kps.post
          /\ u.bkpt = kps.bkpt /\ u.stuck = kps.stuck
      BY <1>2, <2>1, UncalledIs
    <2>3. k = [u EXCEPT !.addr[p] = Function[p], !.post[p] = "none",
                        !.pre[p] = IF p \in Returning THEN "move" ELSE "handler"]
      BY <1>3, <2>1 DEF Fresh
    <2>4. Function[p] \in Places
      BY DEF Places
    <2> QED
      BY <2>2, <2>3, <2>4 DEF State, SetAs
  <1>5. /\ kps' \in State /\ kps'.break = NULL /\ kps'.head = kps.head /\ kps'.next = kps.next
        /\ kps'.addr = k.addr /\ kps'.pre = k.pre /\ kps'.post = k.post
        /\ kps'.bkpt = [kps.bkpt EXCEPT ![p] = "on"] /\ kps'.stuck = kps.stuck
    BY <1>3, <1>4 DEF RegisterArch, ArchAdded, State
  <1>6. half' = <<"register", p>>
    BY DEF RegisterArch
  <1>7. Ordered(kps', L)
    BY <1>1, <1>5 DEF ListInv, Ordered
  <1>8. Armed(L) = L /\ Armed(L)' = L \cup {p}
    BY <1>2, <1>6, NullOut DEF Armed, Whole
  <1>9. L \subseteq Probes
    BY <1>1 DEF ListInv, Ordered
  <1>10. \A q \in L \cup {p} : SetAs(kps', q)
    BY <1>1, <1>2, <1>4, <1>5, <1>8, <1>9 DEF ListInv, SetAs
  <1>11. {q \in Probes : kps'.bkpt[q] # "none"} = L \cup {p}
    BY <1>1, <1>2, <1>5, <1>8, <1>9 DEF ListInv, State
  <1>12. \A q \in L \cup {p} : kps'.bkpt[q] = "on"
    BY <1>1, <1>2, <1>5, <1>8, <1>9 DEF ListInv, State
  <1>13. half' # Whole /\ Halfway(L)'
    BY <1>2, <1>6 DEF Whole, Halfway
  <1>14. ListInv(L)'
    BY <1>7, <1>8, <1>10, <1>11, <1>12, <1>13 DEF ListInv
  <1> QED
    BY <1>5, <1>14 DEF ProbesInv

LEMMA RegisterListKeeps ==
    ASSUME ProbesInv, RegisterList, ~kps.stuck
    PROVE  ProbesInv' /\ kps'.break = NULL
  <1>1. PICK L : ListInv(L)
    BY DEF ProbesInv
  <1>2. half[1] = "register" /\ half # Whole
    BY DEF RegisterList, Whole
  <1>3. PICK p \in Probes \ L : p = half[2]
    BY <1>1, <1>2 DEF ListInv, Halfway
  <1>4. PICK u : u = Uncalled(kps)
    OBVIOUS
  <1>5. /\ u \in State /\ u.break = NULL /\ u.addr = kps.addr /\ u.pre = kps.pre
        /\ u.post = kps.post /\ u.bkpt = kps.bkpt /\ u.stuck = kps.stuck /\ Ordered(u, L)
    BY <1>1, <1>4, UncalledIs DEF ProbesInv, ListInv
  <1>6. kps' = Added(u, p) /\ half' = Whole
    BY <1>3, <1>4 DEF RegisterList
  <1>7. Relinked(u, kps') /\ Ordered(kps', L \cup {p})
    BY <1>5, <1>6, AddedOrdered
  <1>8. Armed(L) = L \cup {p} /\ Armed(L \cup {p})' = L \cup {p} /\ L \subseteq Probes
    BY <1>1, <1>3, <1>6, NullOut DEF Armed, Whole, ListInv, Ordered
  <1>9. /\ kps' \in State /\ kps'.break = NULL /\ kps'.addr = kps.addr /\ kps'.pre = kps.pre
        /\ kps'.post = kps.post /\ kps'.bkpt = kps.bkpt /\ kps'.stuck = kps.stuck
    BY <1>5, <1>7 DEF Relinked
  <1>10. \A q \in L \cup {p} : SetAs(kps', q)
    BY <1>1, <1>8, <1>9 DEF ListInv, SetAs
  <1>11. ListInv(L \cup {p})'
    BY <1>1, <1>6, <1>7, <1>8, <1>9, <1>10 DEF ListInv, Halfway
  <1> QED
    BY <1>9, <1>11 DEF ProbesInv

LEMMA UnregisterListKeeps ==
    ASSUME ProbesInv, NEW p \in Probes, UnregisterList(p), ~kps.stuck
    PROVE  ProbesInv' /\ kps'.break = NULL
  <1>1. PICK L : ListInv(L)
    BY DEF ProbesInv
  <1>2. kps \in State /\ p \in L /\ L \subseteq Probes /\ half = Whole /\ half' = <<"unregister", p>>
    BY <1>1, InListIs DEF ProbesInv, ListInv, UnregisterList, Ordered
  <1>3. PICK u : u = Uncalled(kps)
    OBVIOUS
  <1>4. /\ u \in State /\ u.break = NULL /\ u.addr = kps.addr /\ u.pre = kps.pre
        /\ u.post = kps.post /\ u.bkpt = kps.bkpt /\ u.stuck = kps.stuck /\ Ordered(u, L)
    BY <1>1, <1>3, UncalledIs DEF ProbesInv, ListInv
  <1>5. kps' = Deleted(u, p)
    BY <1>3 DEF UnregisterList
  <1>6. Relinked(u, kps') /\ Ordered(kps', L \ {p})
    BY <1>2, <1>4, <1>5, DeletedOrdered
  <1>7. Armed(L) = L /\ Armed(L \ {p})' = L
    BY <1>2, NullOut DEF Armed, Whole
  <1>8. /\ kps' \in State /\ kps'.break = NULL /\ kps'.addr = kps.addr /\ kps'.pre = kps.pre
        /\ kps'.post = kps.post /\ kps'.bkpt = kps.bkpt /\ kps'.stuck = kps.stuck
    BY <1>4, <1>6 DEF Relinked
  <1>9. \A q \in L : SetAs(kps', q)
    BY <1>1, <1>7, <1>8 DEF ListInv, SetAs
  <1>10. half' # Whole /\ Halfway(L \ {p})'
    BY <1>2 DEF Whole, Halfway
  <1>11. ListInv(L \ {p})'
    BY <1>1, <1>6, <1>7, <1>8, <1>9, <1>10 DEF ListInv
  <1> QED
    BY <1>8, <1>11 DEF ProbesInv

LEMMA UnregisterArchKeeps ==
    ASSUME ProbesInv, UnregisterArch, ~kps.stuck
    PROVE  ProbesInv' /\ kps'.break = NULL
  <1>1. PICK L : ListInv(L)
    BY DEF ProbesInv
  <1>2. half[1] = "unregister" /\ half # Whole
    BY DEF UnregisterArch, Whole
  <1>3. PICK p \in Probes \ L : p = half[2]
    BY <1>1, <1>2 DEF ListInv, Halfway
  <1>4. PICK u : u = Uncalled(kps)
    OBVIOUS
  <1>5. /\ u \in State /\ u.break = NULL /\ u.addr = kps.addr /\ u.pre = kps.pre
        /\ u.post = kps.post /\ u.bkpt = kps.bkpt /\ u.stuck = kps.stuck /\ Ordered(u, L)
    BY <1>1, <1>4, UncalledIs DEF ProbesInv, ListInv
  <1>6. kps' = ArchDeleted(u, p) /\ half' = Whole
    BY <1>3, <1>4 DEF UnregisterArch
  <1>7. /\ kps' \in State /\ kps'.break = NULL /\ kps'.head = u.head /\ kps'.next = u.next
        /\ kps'.addr = kps.addr /\ kps'.pre = kps.pre /\ kps'.post = kps.post
        /\ kps'.bkpt = [kps.bkpt EXCEPT ![p] = "none"] /\ kps'.stuck = kps.stuck
    BY <1>5, <1>6 DEF ArchDeleted, State
  <1>8. Ordered(kps', L) /\ L \subseteq Probes
    BY <1>5, <1>7 DEF Ordered
  <1>9. Armed(L) = L \cup {p} /\ Armed(L)' = L
    BY <1>3, <1>6, NullOut DEF Armed, Whole
  <1>10. kps.bkpt \in [Probes -> {"none", "on", "off"}]
    BY DEF ProbesInv, State
  <1>11. {q \in Probes : kps'.bkpt[q] # "none"} = L
    BY <1>1, <1>3, <1>7, <1>8, <1>9, <1>10 DEF ListInv
  <1>12. \A q \in L : kps'.bkpt[q] = "on" /\ SetAs(kps', q)
    BY <1>1, <1>3, <1>7, <1>8, <1>9, <1>10 DEF ListInv, SetAs
  <1>13. ListInv(L)'
    BY <1>6, <1>7, <1>8, <1>9, <1>11, <1>12 DEF ListInv, Halfway
  <1> QED
    BY <1>7, <1>13 DEF ProbesInv

\* Who is called by a break.
Called(k, x, L) ==
    \A p \in L : k.addr[p] = x.break =>
        IF \E q \in L : k.addr[q] = x.break /\ k.pre[q] = "move" THEN x.calls[p] >= 1
        ELSE x.calls[p] = 1

LEMMA BreakKeeps ==
    ASSUME ProbesInv, NEW pc \in Places, Break(pc, Return), ~kps.stuck
    PROVE  ProbesInv' /\ Called(kps, kps', InList(kps))
  <1>1. PICK L : ListInv(L)
    BY DEF ProbesInv
  <1>2. /\ kps \in State /\ Ordered(kps, L) /\ InList(kps) = L /\ L \subseteq Probes
        /\ \A p \in L : kps.bkpt[p] = "on" /\ SetAs(kps, p)
    BY <1>1, InListIs DEF ProbesInv, ListInv, Ordered, Armed
  <1>3. PICK x : x = Broken(kps, pc, Return)
    OBVIOUS
  <1>4. kps' = x /\ half' = half
    BY <1>3 DEF Break
  <1>5. /\ x \in State /\ Ordered(x, L) /\ x.break = pc
        /\ \A p \in Probes \ L : SetAs(kps, p) => SetAs(x, p)
        /\ \A p \in L : SetAs(x, p)
        /\ \A p \in Probes : x.bkpt[p] = "none" <=> kps.bkpt[p] = "none"
        /\ \A p \in Probes \ L : x.bkpt[p] = kps.bkpt[p]
        /\ ~x.stuck => \A p \in L : x.bkpt[p] = "on"
        /\ x.stuck /\ ~kps.stuck => \E p \in Probes \ L : x.bkpt[p] # "none"
        /\ \A p \in L : kps.addr[p] = pc =>
               IF \E q \in L : kps.addr[q] = pc /\ kps.pre[q] = "move" THEN x.calls[p] >= 1
               ELSE x.calls[p] = 1
    BY <1>2, <1>3, BrokenIs
  <1>6. Armed(L)' = Armed(L) /\ Halfway(L)' /\ Armed(L) \subseteq Probes
    BY <1>1, <1>2, <1>4, NullOut DEF Armed, ListInv, Halfway, Whole
  <1>7. {p \in Probes : x.bkpt[p] # "none"} = Armed(L)
    BY <1>1, <1>5 DEF ListInv
  <1>8. \A p \in Armed(L) : SetAs(x, p)
    BY <1>1, <1>5, <1>6 DEF ListInv
  <1>9. ~x.stuck => \A p \in Armed(L) : x.bkpt[p] = "on"
    BY <1>1, <1>5, <1>6 DEF ListInv
  <1>10. x.stuck => half # Whole
    <2>1. ASSUME NEW p \in Probes \ L, x.bkpt[p] # "none"
          PROVE  half # Whole
      BY <1>7, <2>1, NullOut DEF Armed, Whole
    <2> QED
      BY <1>5, <2>1
  <1>11. ListInv(L)'
    BY <1>4, <1>5, <1>6, <1>7, <1>8, <1>9, <1>10 DEF ListInv
  <1> QED
    BY <1>2, <1>4, <1>5, <1>11 DEF ProbesInv, Called

LEMMA StepKeeps ==
    ASSUME ProbesInv, [Next]_vars
    PROVE  /\ ProbesInv'
           /\ kps' = kps \/ kps'.break = NULL \/ Called(kps, kps', InList(kps))
  <1>1. ASSUME kps' = kps, half' = half
        PROVE  ProbesInv'
    BY <1>1 DEF ProbesInv, ListInv, Halfway, Armed
  <1>2. CASE SamplingInit \/ SamplingDisable \/ SamplingStats \/ SamplingEnable
    BY <1>1, <1>2 DEF SamplingInit, SamplingDisable, SamplingStats, SamplingEnable
  <1>3. CASE RegisterSampler
    <2>1. Sampler \in Probes /\ ~kps.stuck
      BY <1>3, SamplingAssumption DEF RegisterSampler, Tick
    <2>2. CASE ArchAdds(kps)
      <3>1. RegisterArch(Sampler)
        BY <1>3, <2>2 DEF RegisterSampler
      <3> QED
        BY <2>1, <3>1, RegisterArchKeeps
    <2>3. CASE ~ArchAdds(kps)
      BY <1>1, <1>3, <2>3 DEF RegisterSampler, kpVars
    <2> QED
      BY <2>2, <2>3
  <1>4. ASSUME NEW p \in Probes, OtherRegisters(p)
        PROVE  ProbesInv' /\ kps'.break = NULL
    BY <1>4, RegisterArchKeeps DEF OtherRegisters, Tick
  <1>5. ASSUME NEW p \in Probes, OtherUnregisters(p)
        PROVE  ProbesInv' /\ kps'.break = NULL
    BY <1>5, UnregisterListKeeps DEF OtherUnregisters, Tick
  <1>6. CASE Registering
    BY <1>6, RegisterListKeeps DEF Registering, Tick
  <1>7. CASE Unregistering
    BY <1>7, UnregisterArchKeeps DEF Unregistering, Tick
  <1>8. ASSUME NEW pc \in Places, NEW code \in Codes, Interrupt(pc, code)
        PROVE  ProbesInv' /\ Called(kps, kps', InList(kps))
    BY <1>8, BreakKeeps DEF Interrupt, Tick
  <1>9. CASE UNCHANGED vars
    BY <1>1, <1>9 DEF vars
  <1> QED
    BY <1>2, <1>3, <1>4, <1>5, <1>6, <1>7, <1>8, <1>9 DEF Next

\* The list of probes, with all the links, is always as its invariant says.
THEOREM ProbesInductive == Spec => []ProbesInv
  <1>1. Init => ProbesInv
    BY KInitList DEF Init
  <1>2. ProbesInv /\ [Next]_vars => ProbesInv'
    BY StepKeeps
  <1> QED
    BY <1>1, <1>2, PTL DEF Spec

\* Whatever registers, is registered half only, moves itself while the list is
\* walked, or is taken away (kprobes.c): the list of probes ends, the probes on
\* it have their breakpoints on and at their place, and a break repeats for ever
\* only while a probe is half registered.
THEOREM ListAlwaysWhole == Spec => []ProbesWhole
  BY ProbesInductive, ListIsWhole, PTL

\* kprobe_prebreak() calls every probe that is set at the address of the break,
\* even when return probes leave the list and come back while it is walked; and
\* calls each once when none does.
THEOREM NobodyMissed == Spec => NoneMissed
  <1>1. ProbesInv /\ [Next]_vars =>
            [kps' # kps /\ kps'.break # NULL =>
                LET here == {p \in InList(kps) : kps.addr[p] = kps'.break}
                IN  \A p \in here : IF \E q \in here : kps.pre[q] = "move" THEN kps'.calls[p] >= 1
                                    ELSE kps'.calls[p] = 1]_kpVars
    BY StepKeeps DEF Called
  <1> QED
    BY <1>1, ProbesInductive, PTL DEF Spec, NoneMissed

-----------------------------------------------------------------------------
(* sort() *)

\* From lo on, no element of a is less than one of its two children below n;
\* apart from the one at r, whose children are not greater than its parent.
Heaped(a, key, lo, n, r) ==
    \A j \in 1 .. n - 1 :
        LET up == (j - 1) \div 2
        IN  /\ up >= lo /\ up # r => key[a[up]] >= key[a[j]]
            /\ up = r /\ r >= 1 /\ (r - 1) \div 2 >= lo => key[a[(r - 1) \div 2]] >= key[a[j]]

\* b has the elements of a, those from n on where they were.
Shuffled(a, b, n) ==
    /\ \A j \in DOMAIN a : j >= n => b[j] = a[j]
    /\ {b[j] : j \in 0 .. n - 1} = {a[j] : j \in 0 .. n - 1}

LEMMA SwapShuffles ==
    ASSUME NEW V, NEW N \in Nat, NEW n \in 0 .. N, NEW a \in [0 .. N - 1 -> V],
           NEW i \in 0 .. n - 1, NEW j \in 0 .. n - 1
    PROVE  /\ Swap(a, i, j) \in [0 .. N - 1 -> V] /\ Shuffled(a, Swap(a, i, j), n)
           /\ \A k \in 0 .. N - 1 : Swap(a, i, j)[k] = IF k = j THEN a[i] ELSE IF k = i THEN a[j] ELSE a[k]
  <1> DEFINE b == Swap(a, i, j)
  <1>1. i \in 0 .. N - 1 /\ j \in 0 .. N - 1
    OBVIOUS
  <1>2. /\ b \in [0 .. N - 1 -> V]
        /\ \A k \in 0 .. N - 1 : b[k] = IF k = j THEN a[i] ELSE IF k = i THEN a[j] ELSE a[k]
    BY <1>1 DEF Swap
  <1> HIDE DEF b
  <1>3. \A k \in 0 .. N - 1 : k >= n => b[k] = a[k]
    BY <1>2
  <1>4. ASSUME NEW k \in 0 .. n - 1
        PROVE  /\ \E l \in 0 .. n - 1 : b[k] = a[l]
               /\ \E l \in 0 .. n - 1 : a[k] = b[l]
    <2>1. k \in 0 .. N - 1
      OBVIOUS
    <2>2. b[j] = a[i] /\ b[i] = a[j]
      BY <1>1, <1>2
    <2> QED
      BY <1>2, <2>1, <2>2
  <1>5. {b[k] : k \in 0 .. n - 1} = {a[k] : k \in 0 .. n - 1}
    <2>1. \A x : (\E k \in 0 .. n - 1 : x = b[k]) <=> \E k \in 0 .. n - 1 : x = a[k]
      BY <1>4
    <2> QED
      BY <2>1
  <1>6. Shuffled(a, b, n)
    BY <1>3, <1>5 DEF Shuffled
  <1> QED
    BY <1>2, <1>6 DEF b

LEMMA ShuffledOn ==
    ASSUME NEW V, NEW N \in Nat, NEW n, NEW a \in [0 .. N - 1 -> V], NEW b \in [0 .. N - 1 -> V],
           NEW c, Shuffled(a, b, n), Shuffled(b, c, n)
    PROVE  Shuffled(a, c, n)
  BY DEF Shuffled

\* The turn at r moves what is there down, or there is nothing to move.
LEMMA DownStep ==
    ASSUME NEW V, NEW N \in Nat, NEW n \in 0 .. N, NEW a \in [0 .. N - 1 -> V], NEW key \in [V -> Int],
           NEW lo \in Nat, NEW r \in lo .. n - 1, Heaped(a, key, lo, n, r)
    PROVE  \/ Down(<<a, r>>, n, key) = <<a, r>> /\ Heaped(a, key, lo, n, n)
           \/ \E c \in r + 1 .. n - 1 :
                 /\ Down(<<a, r>>, n, key) = <<Swap(a, r, c), c>>
                 /\ Heaped(Swap(a, r, c), key, lo, n, c)
  <1> DEFINE K(k) == key[a[k]]
  <1>1. \A k \in 0 .. n - 1 : k \in 0 .. N - 1 /\ K(k) \in Int
    OBVIOUS
  <1>2. CASE r * 2 + 1 >= n
    <2>1. Down(<<a, r>>, n, key) = <<a, r>>
      BY <1>2 DEF Down
    <2>2. \A j \in 1 .. n - 1 : (j - 1) \div 2 # r
      BY <1>2
    <2>3. \A j \in 1 .. n - 1 : (j - 1) \div 2 \in Int /\ (j - 1) \div 2 # n
      OBVIOUS
    <2>4. Heaped(a, key, lo, n, n)
      BY <2>2, <2>3 DEF Heaped
    <2> QED
      BY <2>1, <2>4
  <1>3. CASE r * 2 + 1 < n
    <2>1. PICK c : c = Greater(a, r * 2 + 1, n, key)
      OBVIOUS
    <2>2. /\ c \in r + 1 .. n - 1 /\ (c - 1) \div 2 = r
          /\ \A j \in 1 .. n - 1 : (j - 1) \div 2 = r => K(c) >= K(j)
      <3>1. \A j \in 1 .. n - 1 : (j - 1) \div 2 = r => j = r * 2 + 1 \/ j = r * 2 + 2
        OBVIOUS
      <3>2. r * 2 + 1 \in 0 .. n - 1 /\ (r * 2 + 1) + 1 = r * 2 + 2
        BY <1>3
      <3>3. CASE r * 2 + 1 < n - 1 /\ K(r * 2 + 1) < K((r * 2 + 1) + 1)
        <4>1. c = r * 2 + 2
          BY <2>1, <3>2, <3>3 DEF Greater
        <4>2. c \in r + 1 .. n - 1 /\ (c - 1) \div 2 = r
          BY <3>3, <4>1
        <4>3. K(c) >= K(r * 2 + 1)
          BY <1>1, <3>2, <3>3, <4>1, <4>2
        <4>4. ASSUME NEW j \in 1 .. n - 1, (j - 1) \div 2 = r
              PROVE  K(c) >= K(j)
          <5>1. j \in 0 .. n - 1 /\ c \in 0 .. n - 1
            BY <4>2
          <5>2. CASE j = r * 2 + 1
            BY <1>1, <4>1, <4>3, <5>1, <5>2
          <5>3. CASE j = r * 2 + 2
            BY <1>1, <4>1, <4>3, <5>1, <5>3
          <5> QED
            BY <3>1, <4>4, <5>2, <5>3
        <4> QED
          BY <4>2, <4>4
      <3>4. CASE ~(r * 2 + 1 < n - 1 /\ K(r * 2 + 1) < K((r * 2 + 1) + 1))
        <4>1. c = r * 2 + 1
          BY <2>1, <3>4 DEF Greater
        <4>2. c \in r + 1 .. n - 1 /\ (c - 1) \div 2 = r
          BY <3>2, <4>1
        <4>3. r * 2 + 2 \in 0 .. n - 1 => K(c) >= K(r * 2 + 2)
          BY <1>1, <3>2, <3>4, <4>1
        <4>4. ASSUME NEW j \in 1 .. n - 1, (j - 1) \div 2 = r
              PROVE  K(c) >= K(j)
          <5>1. j \in 0 .. n - 1 /\ c \in 0 .. n - 1
            BY <4>2
          <5>2. CASE j = r * 2 + 1
            BY <1>1, <4>1, <4>3, <5>1, <5>2
          <5>3. CASE j = r * 2 + 2
            BY <1>1, <4>1, <4>3, <5>1, <5>3
          <5> QED
            BY <3>1, <4>4, <5>2, <5>3
        <4> QED
          BY <4>2, <4>4
      <3> QED
        BY <3>3, <3>4
    <2>3. CASE ~(K(r) < K(c))
      <3>1. Down(<<a, r>>, n, key) = <<a, r>>
        BY <2>1, <2>3 DEF Down
      <3>2. ASSUME NEW j \in 1 .. n - 1, (j - 1) \div 2 = r
            PROVE  K(r) >= K(j)
        BY <1>1, <2>2, <2>3, <3>2
      <3>3. \A j \in 1 .. n - 1 : (j - 1) \div 2 \in Int /\ (j - 1) \div 2 # n
        OBVIOUS
      <3>4. Heaped(a, key, lo, n, n)
        BY <3>2, <3>3 DEF Heaped
      <3> QED
        BY <3>1, <3>4
    <2>4. CASE K(r) < K(c)
      <3>1. PICK b : b = Swap(a, r, c)
        OBVIOUS
      <3>2. Down(<<a, r>>, n, key) = <<b, c>>
        BY <1>3, <2>1, <2>4, <3>1 DEF Down
      <3>3. \A k \in 0 .. n - 1 : b[k] = IF k = c THEN a[r] ELSE IF k = r THEN a[c] ELSE a[k]
        <4>1. r \in 0 .. n - 1 /\ c \in 0 .. n - 1
          BY <2>2
        <4>2. \A k \in 0 .. N - 1 : Swap(a, r, c)[k] = IF k = c THEN a[r] ELSE IF k = r THEN a[c] ELSE a[k]
          BY <4>1 DEF Swap
        <4> QED
          BY <1>1, <3>1, <4>2
      <3>4. ASSUME NEW j \in 1 .. n - 1, NEW up, up = (j - 1) \div 2, up >= lo
            PROVE  /\ up # c => key[b[up]] >= key[b[j]]
                   /\ up = c => key[b[(c - 1) \div 2]] >= key[b[j]]
        <4>1. up \in 0 .. n - 1 /\ j \in 0 .. n - 1 /\ up < j
          BY <3>4
        <4>2. up # r => K(up) >= K(j)
          BY <3>4 DEF Heaped
        <4>3. up = r => K(c) >= K(j)
          BY <2>2, <3>4
        <4>4. CASE up = c
          <5>1. b[(c - 1) \div 2] = a[c] /\ b[j] = a[j]
            BY <2>2, <3>3, <4>1, <4>4
          <5> QED
            BY <2>2, <4>2, <4>4, <5>1
        <4>5. CASE up = r
          <5>1. b[up] = a[c] /\ b[j] = IF j = c THEN a[r] ELSE a[j]
            BY <2>2, <3>3, <4>1, <4>5
          <5> QED
            BY <1>1, <2>2, <2>4, <4>1, <4>3, <4>5, <5>1
        <4>6. CASE up # c /\ up # r /\ j = r
          <5>1. b[up] = a[up] /\ b[j] = a[c]
            BY <2>2, <3>3, <4>1, <4>6
          <5>2. K((r - 1) \div 2) >= K(c)
            BY <2>2, <3>4, <4>1, <4>6 DEF Heaped
          <5> QED
            BY <2>2, <3>4, <4>6, <5>1, <5>2
        <4>7. CASE up # c /\ up # r /\ j # r
          <5>1. j # c
            BY <2>2, <3>4, <4>7
          <5>2. b[up] = a[up] /\ b[j] = a[j]
            BY <3>3, <4>1, <4>7, <5>1
          <5> QED
            BY <4>2, <4>7, <5>2
        <4> QED
          BY <4>4, <4>5, <4>6, <4>7
      <3>5. \A j \in 1 .. n - 1 : (j - 1) \div 2 \in Int
        OBVIOUS
      <3>6. Heaped(b, key, lo, n, c)
        BY <3>4, <3>5 DEF Heaped
      <3> QED
        BY <2>2, <3>1, <3>2, <3>6
    <2> QED
      BY <2>3, <2>4
  <1>4. r * 2 + 1 < n \/ r * 2 + 1 >= n
    OBVIOUS
  <1> QED
    BY <1>2, <1>3, <1>4

\* What a turn of Sift() keeps.
Sifting(a, key, lo, n, b, r) ==
    /\ DOMAIN b = DOMAIN a /\ Shuffled(a, b, n)
    /\ r \in lo .. n - 1 /\ Heaped(b, key, lo, n, r)

\* It does so, and either has moved down or will not any more.
SiftsOn(A, a, key, lo, n, b, r) ==
    \E c \in A, q \in r .. n - 1 :
        /\ Down(<<b, r>>, n, key) = <<c, q>> /\ Sifting(a, key, lo, n, c, q)
        /\ q = r => Down(<<b, r>>, n, key) = <<b, r>> /\ Heaped(b, key, lo, n, n)

LEMMA SiftingOn ==
    ASSUME NEW V, NEW N \in Nat, NEW n \in 0 .. N, NEW a \in [0 .. N - 1 -> V], NEW key \in [V -> Int],
           NEW lo \in Nat, NEW b \in [0 .. N - 1 -> V], NEW r, Sifting(a, key, lo, n, b, r)
    PROVE  SiftsOn([0 .. N - 1 -> V], a, key, lo, n, b, r)
  <1>1. r \in lo .. n - 1 /\ r \in r .. n - 1 /\ r \in 0 .. n - 1
    BY DEF Sifting
  <1>2. CASE Down(<<b, r>>, n, key) = <<b, r>> /\ Heaped(b, key, lo, n, n)
    BY <1>1, <1>2 DEF SiftsOn
  <1>3. ASSUME NEW q \in r + 1 .. n - 1, Down(<<b, r>>, n, key) = <<Swap(b, r, q), q>>,
               Heaped(Swap(b, r, q), key, lo, n, q)
        PROVE  SiftsOn([0 .. N - 1 -> V], a, key, lo, n, b, r)
    <2>1. PICK c : c = Swap(b, r, q)
      OBVIOUS
    <2>2. q \in 0 .. n - 1 /\ q \in lo .. n - 1
      BY <1>1
    <2>3. c \in [0 .. N - 1 -> V] /\ Shuffled(b, c, n)
      BY <1>1, <2>1, <2>2, SwapShuffles
    <2>4. Shuffled(a, c, n)
      BY <2>3, ShuffledOn DEF Sifting
    <2>5. Sifting(a, key, lo, n, c, q) /\ Down(<<b, r>>, n, key) = <<c, q>>
      BY <1>3, <2>1, <2>2, <2>3, <2>4 DEF Sifting
    <2>6. q \in r .. n - 1 /\ q # r
      BY <1>1
    <2> QED
      BY <2>3, <2>5, <2>6 DEF SiftsOn
  <1>4. \/ Down(<<b, r>>, n, key) = <<b, r>> /\ Heaped(b, key, lo, n, n)
        \/ \E c \in r + 1 .. n - 1 :
              /\ Down(<<b, r>>, n, key) = <<Swap(b, r, c), c>>
              /\ Heaped(Swap(b, r, c), key, lo, n, c)
    BY <1>1, DownStep DEF Sifting
  <1> QED
    BY <1>2, <1>3, <1>4

\* The loop that moves what is at r down repairs the heap there.
LEMMA SiftIs ==
    ASSUME NEW V, NEW N \in Nat, NEW n \in 0 .. N, NEW a \in [0 .. N - 1 -> V], NEW key \in [V -> Int],
           NEW r \in 0 .. n - 1, Heaped(a, key, r, n, r)
    PROVE  /\ Sift(a, r, n, key) \in [0 .. N - 1 -> V] /\ Shuffled(a, Sift(a, r, n, key), n)
           /\ Heaped(Sift(a, r, n, key), key, r, n, n)
  <1> DEFINE A == [0 .. N - 1 -> V]
             X == {x \in A \X (0 .. n - 1) : Sifting(a, key, r, n, x[1], x[2])}
             Step(f) == [m \in 0 .. n |-> IF m = 0 THEN <<a, r>> ELSE Down(f[m - 1], n, key)]
             st == [x \in X |-> Down(x, n, key)]
             e == CHOOSE f : f = Step(f)
  <1>1. Sift(a, r, n, key) = e[n][1]
    BY DEF Sift
  <1>2. n \in Nat /\ r \in Nat /\ n \in 0 .. N
    OBVIOUS
  <1>3. <<a, r>> \in X
    <2>1. Sifting(a, key, r, n, a, r)
      BY DEF Sifting, Shuffled
    <2> QED
      BY <2>1
  <1>4. ASSUME NEW x \in X
        PROVE  /\ x[1] \in A /\ x[2] \in 0 .. n - 1 /\ Shuffled(a, x[1], n)
               /\ Down(x, n, key) \in X /\ Down(x, n, key)[2] \in x[2] .. n - 1
               /\ Down(x, n, key)[2] = x[2] => Down(x, n, key) = x /\ Heaped(x[1], key, r, n, n)
    <2>1. PICK b, q : b = x[1] /\ q = x[2] /\ x = <<b, q>>
      OBVIOUS
    <2>2. b \in A /\ q \in 0 .. n - 1 /\ Sifting(a, key, r, n, b, q)
      BY <2>1
    <2>3. SiftsOn(A, a, key, r, n, b, q)
      BY <1>2, <2>2, SiftingOn
    <2>4. PICK c \in A, s \in q .. n - 1 :
              /\ Down(x, n, key) = <<c, s>> /\ Sifting(a, key, r, n, c, s)
              /\ s = q => Down(x, n, key) = x /\ Heaped(b, key, r, n, n)
      BY <2>1, <2>3 DEF SiftsOn
    <2>5. s \in 0 .. n - 1
      BY <2>2
    <2>6. <<c, s>> \in X
      BY <2>4, <2>5
    <2>7. Shuffled(a, b, n) /\ Down(x, n, key)[2] = s
      BY <2>2, <2>4 DEF Sifting
    <2> HIDE DEF X, A
    <2> QED
      BY <2>1, <2>2, <2>4, <2>6, <2>7
  <1> HIDE DEF X
  <1>5. st \in [X -> X]
    BY <1>4
  <1>6. PICK f \in [0 .. n -> X] : f[0] = <<a, r>> /\ \A m \in 1 .. n : f[m] = st[f[m - 1]]
    <2>1. PICK z \in X : z = <<a, r>>
      BY <1>3
    <2> HIDE DEF st
    <2>2. \E f : Repeats(f, X, z, st, n)
      BY <1>2, <1>5, Repeated
    <2> QED
      BY <2>1, <2>2 DEF Repeats
  <1>7. f = Step(f)
    <2>1. ASSUME NEW m \in 0 .. n
          PROVE  f[m] = Step(f)[m]
      <3>1. CASE m = 0
        BY <1>6, <3>1
      <3>2. CASE m # 0
        <4>1. m \in 1 .. n /\ m - 1 \in 0 .. n
          BY <3>2
        <4> QED
          BY <1>6, <3>2, <4>1
      <3> QED
        BY <3>1, <3>2
    <2> QED
      BY <1>6, <2>1
  <1>8. e = Step(e)
    BY <1>7
  <1> HIDE DEF e
  <1>9. e[0] = <<a, r>> /\ \A m \in 1 .. n : e[m] = Down(e[m - 1], n, key)
    <2>1. PICK s : s = Step(e) /\ s = e
      BY <1>8
    <2>2. s[0] = <<a, r>> /\ \A m \in 1 .. n : s[m] = Down(e[m - 1], n, key)
      BY <1>2, <2>1
    <2> QED
      BY <2>1, <2>2
  <1>10. \A m \in 0 .. n : e[m] \in X
    <2>1. \A m \in 1 .. n : e[m - 1] \in X => e[m] \in X
      BY <1>4, <1>9
    <2> HIDE DEF Step
    <2> QED
      BY <1>2, <1>3, <1>9, <2>1, StaysIn
  <1> DEFINE v == [m \in 0 .. n |-> IF Down(e[m], n, key)[2] = e[m][2] THEN 0 ELSE n - e[m][2]]
  <1>11. ASSUME NEW m \in 0 .. n
         PROVE  /\ v[m] \in Nat /\ v[m] <= n
                /\ v[m] = 0 <=> Down(e[m], n, key)[2] = e[m][2]
    <2>1. e[m][2] \in 0 .. n - 1
      BY <1>4, <1>10
    <2> QED
      BY <2>1
  <1>12. ASSUME NEW m \in 1 .. n
         PROVE  v[m] <= v[m - 1] /\ (v[m - 1] # 0 => v[m] < v[m - 1])
    <2>1. m - 1 \in 0 .. n /\ m \in 0 .. n
      OBVIOUS
    <2>2. PICK x \in X, y \in X : x = e[m - 1] /\ y = e[m] /\ y = Down(x, n, key)
      BY <1>9, <1>10, <2>1
    <2>3. /\ x[2] \in 0 .. n - 1 /\ y[2] \in x[2] .. n - 1
          /\ y[2] = x[2] => y = x
      BY <1>4, <2>2
    <2>4. /\ v[m - 1] = IF y[2] = x[2] THEN 0 ELSE n - x[2]
          /\ v[m] = IF Down(y, n, key)[2] = y[2] THEN 0 ELSE n - y[2]
      BY <2>1, <2>2
    <2> HIDE DEF v
    <2>5. CASE y[2] = x[2]
      BY <2>2, <2>3, <2>4, <2>5
    <2>6. CASE y[2] # x[2]
      BY <2>3, <2>4, <2>6
    <2> QED
      BY <2>5, <2>6
  <1>13. Down(e[n], n, key)[2] = e[n][2]
    <2>1. v \in [0 .. n -> Nat] /\ v[0] <= n
      BY <1>2, <1>11
    <2> HIDE DEF v
    <2>2. \A m \in 1 .. n : v[m] <= v[m - 1] /\ (v[m - 1] # 0 => v[m] < v[m - 1])
      BY <1>12
    <2>3. v[n] = 0
      BY <1>2, <2>1, <2>2, Descends
    <2>4. n \in 0 .. n
      BY <1>2
    <2> QED
      BY <1>11, <2>3, <2>4
  <1>14. e[n] \in X
    BY <1>2, <1>10
  <1> QED
    BY <1>1, <1>4, <1>13, <1>14

LEMMA ShuffledMore ==
    ASSUME NEW V, NEW N \in Nat, NEW a \in [0 .. N - 1 -> V], NEW b \in [0 .. N - 1 -> V],
           NEW n \in 0 .. N, NEW m \in n .. N, Shuffled(a, b, n)
    PROVE  Shuffled(a, b, m)
  <1>1. \A j \in 0 .. N - 1 : j >= m => b[j] = a[j]
    BY DEF Shuffled
  <1>2. ASSUME NEW k \in 0 .. m - 1
        PROVE  /\ \E l \in 0 .. m - 1 : b[k] = a[l]
               /\ \E l \in 0 .. m - 1 : a[k] = b[l]
    <2>1. CASE k < n
      <3>1. k \in 0 .. n - 1
        BY <2>1
      <3>2. (\E l \in 0 .. n - 1 : b[k] = a[l]) /\ (\E l \in 0 .. n - 1 : a[k] = b[l])
        BY <3>1 DEF Shuffled
      <3>3. \A l \in 0 .. n - 1 : l \in 0 .. m - 1
        OBVIOUS
      <3> QED
        BY <3>2, <3>3
    <2>2. CASE k >= n
      <3>1. k \in 0 .. N - 1
        OBVIOUS
      <3> QED
        BY <2>2, <3>1 DEF Shuffled
    <2> QED
      BY <2>1, <2>2
  <1>3. {b[k] : k \in 0 .. m - 1} = {a[k] : k \in 0 .. m - 1}
    <2>1. \A x : (\E k \in 0 .. m - 1 : x = b[k]) <=> \E k \in 0 .. m - 1 : x = a[k]
      BY <1>2
    <2> QED
      BY <2>1
  <1> QED
    BY <1>1, <1>3 DEF Shuffled

\* The first loop of sort() makes a heap.
LEMMA HeapIs ==
    ASSUME NEW V, NEW n \in Nat \ {0}, NEW a \in [0 .. n - 1 -> V], NEW key \in [V -> Int]
    PROVE  /\ Heap(a, n, key) \in [0 .. n - 1 -> V] /\ Shuffled(a, Heap(a, n, key), n)
           /\ Heaped(Heap(a, n, key), key, 0, n, n)
  <1> DEFINE A == [0 .. n - 1 -> V]
             g == n \div 2
             Good(i, b) == Shuffled(a, b, n) /\ Heaped(b, key, g - i, n, n)
             G == {x \in (0 .. g) \X A : Good(x[1], x[2])}
             T(i, b) == Sift(b, g - i, n, key)
             Step(f) == [i \in 0 .. g |-> IF i = 0 THEN a ELSE T(i, f[i - 1])]
             e == CHOOSE f : f = Step(f)
             h == [x \in Nat \X A |-> IF T(x[1], x[2]) \in A THEN T(x[1], x[2]) ELSE a]
  <1>1. Heap(a, n, key) = e[g]
    BY DEF Heap
  <1>2. g \in Nat /\ n \in 0 .. n /\ g <= n
    OBVIOUS
  <1>3. Good(0, a)
    <2>1. \A j \in 1 .. n - 1 : (j - 1) \div 2 \in Int /\ (j - 1) \div 2 < g
      OBVIOUS
    <2>2. Heaped(a, key, g, n, n)
      BY <2>1 DEF Heaped
    <2> QED
      BY <2>2 DEF Shuffled
  <1>4. ASSUME NEW i \in 1 .. g, NEW b, <<i - 1, b>> \in G
        PROVE  <<i, T(i, b)>> \in G /\ b \in A /\ T(i, b) \in A
    <2>1. PICK r \in 0 .. n - 1 : r = g - i
      BY <1>2
    <2>2. Heaped(b, key, r + 1, n, n) /\ b \in A /\ Shuffled(a, b, n)
      <3>1. g - (i - 1) = r + 1
        BY <2>1
      <3> QED
        BY <1>4, <3>1
    <2>3. \A j \in 1 .. n - 1 : /\ (j - 1) \div 2 \in Int /\ (j - 1) \div 2 # n
                                /\ (j - 1) \div 2 >= r /\ (j - 1) \div 2 # r => (j - 1) \div 2 >= r + 1
      OBVIOUS
    <2>4. r >= 1 => ~((r - 1) \div 2 >= r)
      OBVIOUS
    <2>5. Heaped(b, key, r, n, r)
      BY <2>2, <2>3, <2>4 DEF Heaped
    <2>6. /\ Sift(b, r, n, key) \in [0 .. n - 1 -> V] /\ Shuffled(b, Sift(b, r, n, key), n)
          /\ Heaped(Sift(b, r, n, key), key, r, n, n)
      BY <1>2, <2>2, <2>5, SiftIs
    <2>7. Shuffled(a, Sift(b, r, n, key), n)
      BY <2>2, <2>6, ShuffledOn
    <2>8. T(i, b) = Sift(b, r, n, key) /\ i \in 0 .. g /\ g - i = r
      BY <1>2, <2>1
    <2>9. Good(i, T(i, b)) /\ T(i, b) \in A
      BY <2>6, <2>7, <2>8
    <2> HIDE DEF T, Good, A
    <2> QED
      BY <2>2, <2>8, <2>9
  <1>5. <<0, a>> \in G /\ a \in A
    BY <1>2, <1>3
  <1> HIDE DEF T, G
  <1>6. PICK f : Recursive(f, A, a, h, g)
    <2>1. h \in [Nat \X A -> A]
      BY <1>5
    <2> HIDE DEF h, A
    <2> QED
      BY <1>2, <1>5, <2>1, Recursion
  <1>7. ASSUME NEW i \in 1 .. g, <<i - 1, f[i - 1]>> \in G
        PROVE  f[i] = T(i, f[i - 1]) /\ <<i, f[i]>> \in G
    <2>1. PICK b \in A : b = f[i - 1] /\ T(i, b) \in A /\ <<i, T(i, b)>> \in G
      BY <1>4, <1>7
    <2> HIDE DEF A
    <2>2. \A y \in Nat, x \in A : h[<<y, x>>] = IF T(y, x) \in A THEN T(y, x) ELSE a
      OBVIOUS
    <2>3. h[<<i, b>>] = T(i, b)
      BY <1>2, <2>1, <2>2
    <2> QED
      BY <1>6, <2>1, <2>3 DEF Recursive
  <1>8. \A i \in 0 .. g : <<i, f[i]>> \in G
    <2>1. <<0, f[0]>> \in G /\ \A i \in 1 .. g : <<i - 1, f[i - 1]>> \in G => <<i, f[i]>> \in G
      BY <1>5, <1>6, <1>7 DEF Recursive
    <2> HIDE DEF g
    <2> QED
      BY <1>2, <2>1, StaysGood
  <1>9. f = Step(f)
    <2>1. ASSUME NEW i \in 0 .. g, i # 0
          PROVE  f[i] = T(i, f[i - 1])
      <3>1. i \in 1 .. g /\ i - 1 \in 0 .. g
        BY <1>2, <2>1
      <3> QED
        BY <1>7, <1>8, <3>1
    <2> QED
      BY <1>6, <2>1 DEF Recursive
  <1>10. e = Step(e)
    BY <1>9
  <1> HIDE DEF e
  <1>11. e[0] = a /\ \A i \in 1 .. g : e[i] = T(i, e[i - 1])
    <2>1. PICK s : s = Step(e) /\ s = e
      BY <1>10
    <2>2. s[0] = a /\ \A i \in 1 .. g : s[i] = T(i, e[i - 1])
      BY <1>2, <2>1
    <2> QED
      BY <2>1, <2>2
  <1>12. \A i \in 0 .. g : <<i, e[i]>> \in G
    <2>1. <<0, e[0]>> \in G /\ \A i \in 1 .. g : <<i - 1, e[i - 1]>> \in G => <<i, e[i]>> \in G
      BY <1>4, <1>5, <1>11
    <2> HIDE DEF g
    <2> QED
      BY <1>2, <2>1, StaysGood
  <1>13. <<g, e[g]>> \in G /\ g - g = 0
    BY <1>2, <1>12
  <1> QED
    BY <1>1, <1>13 DEF G

LEMMA HeapTop ==
    ASSUME NEW V, NEW N \in Nat, NEW n \in 0 .. N, NEW a \in [0 .. N - 1 -> V], NEW key \in [V -> Int],
           Heaped(a, key, 0, n, n)
    PROVE  \A j \in 0 .. n - 1 : key[a[j]] <= key[a[0]]
  <1> DEFINE T == {j \in 0 .. n - 1 : ~(key[a[j]] <= key[a[0]])}
  <1> SUFFICES ASSUME T # {} PROVE FALSE
    OBVIOUS
  <1>1. PICK j \in T : \A k \in T : j <= k
    <2>1. T \in SUBSET Nat
      OBVIOUS
    <2> HIDE DEF T
    <2> QED
      BY <2>1, LeastNatural
  <1>2. \A k \in 0 .. n - 1 : k \in 0 .. N - 1 /\ key[a[k]] \in Int
    OBVIOUS
  <1>3. j \in 1 .. n - 1
    <2>1. j # 0
      BY <1>2
    <2> QED
      BY <2>1
  <1>4. PICK up \in 0 .. n - 1 : up = (j - 1) \div 2 /\ up < j
    BY <1>3
  <1>5. key[a[up]] <= key[a[0]]
    BY <1>1, <1>4
  <1>6. key[a[up]] >= key[a[j]]
    BY <1>3, <1>4 DEF Heaped
  <1>7. 0 \in 0 .. n - 1
    BY <1>3
  <1> QED
    BY <1>2, <1>4, <1>5, <1>6, <1>7

\* The elements from l on are in order, and no other one is greater.
Drained(a, key, l, n) == \A j, k \in 0 .. n - 1 : j <= k /\ k >= l => key[a[j]] <= key[a[k]]

\* One turn of the second loop: the top of the heap goes behind it.
Drains(b, key, p, n, c, A) ==
    c \in A /\ Shuffled(b, c, n) /\ Heaped(c, key, 0, p, p) /\ Drained(c, key, p, n)

LEMMA DrainStep ==
    ASSUME NEW V, NEW n \in Nat, NEW b \in [0 .. n - 1 -> V], NEW key \in [V -> Int],
           NEW p \in 1 .. n - 1, Heaped(b, key, 0, p + 1, p + 1), Drained(b, key, p + 1, n)
    PROVE  Drains(b, key, p, n, Sift(Swap(b, 0, p), 0, p, key), [0 .. n - 1 -> V])
  <1> DEFINE c == Sift(Swap(b, 0, p), 0, p, key)
  <1>1. /\ 0 \in 0 .. n - 1 /\ p \in 0 .. n - 1 /\ p \in 0 .. n /\ p + 1 \in 0 .. n /\ n \in 0 .. n
        /\ 0 \in 0 .. p - 1
    OBVIOUS
  <1>2. PICK a : a = Swap(b, 0, p)
    OBVIOUS
  <1>3. a \in [0 .. n - 1 -> V] /\ Shuffled(b, a, n)
    BY <1>1, <1>2, SwapShuffles
  <1>4. \A k \in 0 .. n - 1 : a[k] = IF k = p THEN b[0] ELSE IF k = 0 THEN b[p] ELSE b[k]
    BY <1>1, <1>2 DEF Swap
  <1>5. Heaped(a, key, 0, p, 0)
    <2>1. ASSUME NEW j \in 1 .. p - 1, NEW up, up = (j - 1) \div 2, up # 0
          PROVE  key[a[up]] >= key[a[j]]
      <3>1. /\ up \in 1 .. p - 1 /\ up \in 0 .. n - 1 /\ j \in 0 .. n - 1
            /\ j \in 1 .. (p + 1) - 1 /\ up # p + 1
        BY <2>1
      <3>2. key[b[up]] >= key[b[j]]
        BY <2>1, <3>1 DEF Heaped
      <3>3. a[up] = b[up] /\ a[j] = b[j]
        BY <1>4, <3>1
      <3> QED
        BY <3>2, <3>3
    <2> QED
      BY <2>1 DEF Heaped
  <1>6. c \in [0 .. n - 1 -> V] /\ Shuffled(a, c, p) /\ Heaped(c, key, 0, p, p)
    BY <1>1, <1>2, <1>3, <1>5, SiftIs
  <1> HIDE DEF c
  <1>7. Shuffled(b, c, n)
    <2>1. p \in 0 .. n /\ n \in p .. n
      OBVIOUS
    <2>2. Shuffled(a, c, n)
      BY <1>3, <1>6, <2>1, ShuffledMore
    <2> QED
      BY <1>3, <1>6, <2>2, ShuffledOn
  <1>8. \A k \in 0 .. n - 1 : key[b[k]] \in Int
    OBVIOUS
  <1>9. \A q \in 0 .. p : q \in 0 .. n - 1 /\ key[b[q]] <= key[b[0]]
    <2>1. \A q \in 0 .. (p + 1) - 1 : key[b[q]] <= key[b[0]]
      BY <1>1, HeapTop
    <2> QED
      BY <2>1
  <1>10. ASSUME NEW j \in 0 .. n - 1, NEW k \in 0 .. n - 1, j <= k, k >= p
         PROVE  key[c[j]] <= key[c[k]]
    <2>1. c[k] = IF k = p THEN b[0] ELSE b[k]
      BY <1>1, <1>3, <1>4, <1>6, <1>10 DEF Shuffled
    <2>2. ASSUME NEW q \in 0 .. p
          PROVE  key[b[q]] <= key[c[k]]
      <3>1. k # p => k >= p + 1 /\ q <= k
        BY <1>10
      <3> QED
        BY <1>9, <2>1, <3>1 DEF Drained
    <2>3. CASE j < p
      <3>1. j \in 0 .. p - 1
        BY <2>3
      <3>2. PICK l \in 0 .. p - 1 : c[j] = a[l]
        <4>1. c[j] \in {c[i] : i \in 0 .. p - 1}
          BY <3>1
        <4>2. c[j] \in {a[i] : i \in 0 .. p - 1}
          BY <1>6, <4>1 DEF Shuffled
        <4> QED
          BY <4>2
      <3>3. PICK q \in 0 .. p : a[l] = b[q]
        BY <1>1, <1>4
      <3> QED
        BY <2>2, <3>2, <3>3
    <2>4. CASE j = p
      <3>1. c[j] = b[0] /\ 0 \in 0 .. p
        BY <1>1, <1>3, <1>4, <1>6, <2>4 DEF Shuffled
      <3> QED
        BY <2>2, <3>1
    <2>5. CASE j > p
      <3>1. c[j] = b[j] /\ k # p /\ k >= p + 1
        BY <1>1, <1>3, <1>4, <1>6, <1>10, <2>5 DEF Shuffled
      <3> QED
        BY <1>10, <2>1, <3>1 DEF Drained
    <2> QED
      BY <2>3, <2>4, <2>5
  <1>11. Drains(b, key, p, n, c, [0 .. n - 1 -> V])
    BY <1>6, <1>7, <1>10 DEF Drained, Drains
  <1> QED
    BY <1>11 DEF c

\* sort() leaves the elements, in the order of the key.
LEMMA SortIs ==
    ASSUME NEW V, NEW n \in Nat \ {0}, NEW a \in [0 .. n - 1 -> V], NEW key \in [V -> Int]
    PROVE  /\ Sort(a, n, key) \in [0 .. n - 1 -> V] /\ Shuffled(a, Sort(a, n, key), n)
           /\ Drained(Sort(a, n, key), key, 1, n)
  <1> DEFINE A == [0 .. n - 1 -> V]
             Good(i, b) == Shuffled(a, b, n) /\ Heaped(b, key, 0, n - i, n - i) /\ Drained(b, key, n - i, n)
             G == {x \in (0 .. n - 1) \X A : Good(x[1], x[2])}
             T(i, b) == Sift(Swap(b, 0, n - i), 0, n - i, key)
             o == Heap(a, n, key)
             Step(f) == [i \in 0 .. n - 1 |-> IF i = 0 THEN o ELSE T(i, f[i - 1])]
             e == CHOOSE f : f = Step(f)
             h == [x \in Nat \X A |-> IF T(x[1], x[2]) \in A THEN T(x[1], x[2]) ELSE o]
  <1>1. Sort(a, n, key) = e[n - 1]
    BY DEF Sort, Drain
  <1>2. n - 1 \in Nat /\ 0 \in 0 .. n - 1 /\ n - 0 = n
    OBVIOUS
  <1>3. o \in A /\ Good(0, o)
    <2>1. o \in A /\ Shuffled(a, o, n) /\ Heaped(o, key, 0, n, n)
      BY HeapIs
    <2> HIDE DEF o
    <2>2. Drained(o, key, n, n)
      BY DEF Drained
    <2> QED
      BY <1>2, <2>1, <2>2
  <1> HIDE DEF o
  <1>4. ASSUME NEW i \in 1 .. n - 1, NEW b, <<i - 1, b>> \in G
        PROVE  <<i, T(i, b)>> \in G /\ b \in A /\ T(i, b) \in A
    <2>1. PICK p \in 1 .. n - 1 : p = n - i
      BY <1>2
    <2>2. Heaped(b, key, 0, p + 1, p + 1) /\ Drained(b, key, p + 1, n) /\ b \in A /\ Shuffled(a, b, n)
      <3>1. n - (i - 1) = p + 1
        BY <2>1
      <3> QED
        BY <1>4, <3>1
    <2>3. PICK c : c = Sift(Swap(b, 0, p), 0, p, key)
      OBVIOUS
    <2>4. /\ c \in [0 .. n - 1 -> V] /\ Shuffled(b, c, n)
          /\ Heaped(c, key, 0, p, p) /\ Drained(c, key, p, n)
      <3>1. n \in Nat /\ b \in [0 .. n - 1 -> V]
        BY <2>2
      <3> HIDE DEF A, T, G, Good, Step, h, e
      <3> QED
        BY <2>2, <2>3, <3>1, DrainStep DEF Drains
    <2>5. Shuffled(a, c, n)
      BY <2>2, <2>4, ShuffledOn
    <2>6. T(i, b) = c /\ i \in 0 .. n - 1 /\ n - i = p
      BY <2>1, <2>3
    <2>7. Good(i, c) /\ c \in A
      BY <2>4, <2>5, <2>6
    <2> HIDE DEF T, Good, A
    <2> QED
      BY <2>2, <2>6, <2>7
  <1>5. <<0, o>> \in G /\ o \in A
    BY <1>2, <1>3
  <1> HIDE DEF T, G
  <1>6. PICK f : Recursive(f, A, o, h, n - 1)
    <2>1. h \in [Nat \X A -> A]
      BY <1>5
    <2> HIDE DEF h, A
    <2> QED
      BY <1>2, <1>5, <2>1, Recursion
  <1>7. ASSUME NEW i \in 1 .. n - 1, <<i - 1, f[i - 1]>> \in G
        PROVE  f[i] = T(i, f[i - 1]) /\ <<i, f[i]>> \in G
    <2>1. PICK b \in A : b = f[i - 1] /\ T(i, b) \in A /\ <<i, T(i, b)>> \in G
      BY <1>4, <1>7
    <2> HIDE DEF A
    <2>2. \A y \in Nat, x \in A : h[<<y, x>>] = IF T(y, x) \in A THEN T(y, x) ELSE o
      OBVIOUS
    <2>3. h[<<i, b>>] = T(i, b)
      BY <1>2, <2>1, <2>2
    <2> QED
      BY <1>6, <2>1, <2>3 DEF Recursive
  <1>8. \A i \in 0 .. n - 1 : <<i, f[i]>> \in G
    <2>1. <<0, f[0]>> \in G /\ \A i \in 1 .. n - 1 : <<i - 1, f[i - 1]>> \in G => <<i, f[i]>> \in G
      BY <1>5, <1>6, <1>7 DEF Recursive
    <2> QED
      BY <1>2, <2>1, StaysGood
  <1>9. f = Step(f)
    <2>1. ASSUME NEW i \in 0 .. n - 1, i # 0
          PROVE  f[i] = T(i, f[i - 1])
      <3>1. i \in 1 .. n - 1 /\ i - 1 \in 0 .. n - 1
        BY <1>2, <2>1
      <3> QED
        BY <1>7, <1>8, <3>1
    <2> QED
      BY <1>6, <2>1 DEF Recursive
  <1>10. e = Step(e)
    BY <1>9
  <1> HIDE DEF e
  <1>11. e[0] = o /\ \A i \in 1 .. n - 1 : e[i] = T(i, e[i - 1])
    <2>1. PICK s : s = Step(e) /\ s = e
      BY <1>10
    <2>2. s[0] = o /\ \A i \in 1 .. n - 1 : s[i] = T(i, e[i - 1])
      BY <1>2, <2>1
    <2> QED
      BY <2>1, <2>2
  <1>12. \A i \in 0 .. n - 1 : <<i, e[i]>> \in G
    <2>1. <<0, e[0]>> \in G /\ \A i \in 1 .. n - 1 : <<i - 1, e[i - 1]>> \in G => <<i, e[i]>> \in G
      BY <1>4, <1>5, <1>11
    <2> QED
      BY <1>2, <2>1, StaysGood
  <1>13. <<n - 1, e[n - 1]>> \in G /\ n - (n - 1) = 1
    BY <1>2, <1>12
  <1> QED
    BY <1>1, <1>13 DEF G

-----------------------------------------------------------------------------
(* ksym_lookup() *)

LEMMA Table ==
    /\ Total \in Nat /\ Total >= 1 /\ 0 \in Ids /\ Total - 1 \in Ids
    /\ \A i \in Ids : Addr(i) \in Nat
    /\ \A i, j \in Ids : i <= j => Addr(i) <= Addr(j)
  <1>1. Total \in Nat /\ Total >= 1
    BY SamplingAssumption DEF Total
  <1>2. \A i \in Ids : Addr(i) \in Nat
    <2>1. \A i \in Ids : i + 1 \in 1 .. Len(Symbols)
      BY <1>1 DEF Ids, Total
    <2> QED
      BY <2>1, SamplingAssumption DEF Addr
  <1>3. ASSUME NEW i \in Ids, NEW j \in Ids, i <= j
        PROVE  Addr(i) <= Addr(j)
    <2>1. i < j \/ i = j
      BY <1>1, <1>3 DEF Ids
    <2> QED
      BY <1>2, <2>1, SamplingAssumption
  <1> QED
    BY <1>1, <1>2, <1>3 DEF Ids

\* The symbol an address is in is the last one that is not behind it.
LEMMA SymbolIs ==
    ASSUME NEW addr \in Nat, Addr(0) <= addr
    PROVE  /\ Symbol(addr) \in Ids /\ Addr(Symbol(addr)) <= addr
           /\ \A j \in Ids : Addr(j) <= addr => j <= Symbol(addr)
  <1> DEFINE T == {id \in Ids : Addr(id) <= addr}
  <1>1. \E x \in T : \A y \in T : y <= x
    <2>1. T \in SUBSET Nat /\ T # {} /\ Total \in Nat /\ \A y \in T : y <= Total
      BY Table DEF Ids
    <2> HIDE DEF T
    <2> QED
      BY <2>1, GreatestNatural
  <1>2. \E id \in Ids : Addr(id) <= addr /\ \A j \in Ids : Addr(j) <= addr => j <= id
    BY <1>1
  <1>3. ~(addr < Addr(0))
    BY Table
  <1> QED
    BY <1>2, <1>3 DEF Symbol

\* What a search may say: the symbol, but for the last two, of which it may say
\* either for the other.
Says(addr, id) ==
    id = Symbol(addr) \/ {id, Symbol(addr)} \subseteq {Total - 2, Total - 1}

\* What is left to search holds the symbol, or the search is over.
Window(addr, b, l) ==
    \/ /\ b \in Nat /\ l \in Nat /\ b + l <= Total
       /\ IF addr < Addr(0) THEN b = 0 ELSE b <= Symbol(addr) /\ Symbol(addr) < b + l
    \/ l = -1 /\ b \in Ids /\ (Total >= 3 => Says(addr, b))

LEMMA HalveStep ==
    ASSUME NEW addr \in Nat, NEW b, NEW l, Window(addr, b, l)
    PROVE  \E c, m : /\ Halve(addr, <<b, l>>) = <<c, m>> /\ Window(addr, c, m)
                     /\ l \in {-1, 0} => m = l
                     /\ l \notin {-1, 0} => m < l
  <1>1. CASE l \in {-1, 0}
    BY <1>1 DEF Halve
  <1>2. CASE l \notin {-1, 0}
    <2> DEFINE p == b + (l \div 2)
               S == Symbol(addr)
    <2>1. /\ b \in Nat /\ l \in Nat \ {0} /\ b + l <= Total
          /\ IF addr < Addr(0) THEN b = 0 ELSE b <= S /\ S < b + l
      BY <1>2 DEF Window
    <2>2. p \in Ids /\ Addr(p) \in Nat /\ Addr(0) \in Nat /\ Addr(0) <= Addr(p) /\ Total \in Nat
      BY <2>1, Table DEF Ids
    <2>3. Addr(0) <= addr => /\ S \in Ids /\ Addr(S) <= addr
                             /\ \A j \in Ids : Addr(j) <= addr => j <= S
      BY SymbolIs
    <2>4. ~(l <= 0) /\ ~(addr < Addr(0)) => Addr(0) <= addr
      BY <2>2
    <2>5. CASE Matches(addr, p)
      <3>1. Halve(addr, <<b, l>>) = <<p, -1>>
        BY <2>1, <2>5 DEF Halve
      <3>2. Total >= 3 => Says(addr, p)
        <4> SUFFICES ASSUME Total >= 3 PROVE Says(addr, p)
          OBVIOUS
        <4>1. CASE p = Total - 1
          <5>1. b >= Total - 2
            BY <2>1, <2>2, <4>1
          <5>2. ~(addr < Addr(0))
            BY <2>1, <2>2, <5>1
          <5>3. S \in Ids /\ S >= Total - 2
            BY <2>1, <2>2, <2>3, <5>1, <5>2 DEF Ids
          <5>4. S \in {Total - 2, Total - 1}
            BY <2>2, <5>3 DEF Ids
          <5> QED
            BY <4>1, <5>4 DEF Says
        <4>2. CASE p # Total - 1
          <5>1. addr >= Addr(p) /\ addr < Addr(p + 1) /\ p + 1 \in Ids
            BY <2>2, <2>5, <4>2 DEF Matches, Ids
          <5>2. S \in Ids /\ p <= S /\ Addr(S) <= addr
            BY <2>2, <2>3, <5>1
          <5>3. ~(p + 1 <= S)
            <6> SUFFICES ASSUME p + 1 <= S PROVE FALSE
              OBVIOUS
            <6>1. Addr(p + 1) <= Addr(S) /\ Addr(S) \in Nat /\ Addr(p + 1) \in Nat
              BY <5>1, <5>2, Table
            <6> QED
              BY <5>1, <5>2, <6>1
          <5>4. p = S
            BY <2>2, <5>2, <5>3 DEF Ids
          <5> QED
            BY <5>4 DEF Says
        <4> QED
          BY <4>1, <4>2
      <3>3. Window(addr, p, -1)
        BY <2>2, <3>2 DEF Window
      <3> QED
        BY <1>2, <2>1, <3>1, <3>3
    <2>6. CASE ~Matches(addr, p) /\ addr > Addr(p)
      <3>1. Halve(addr, <<b, l>>) = <<p + 1, (l - 1) \div 2>>
        BY <2>1, <2>6 DEF Halve
      <3>2. p + 1 \in Ids /\ Addr(p + 1) <= addr
        BY <2>2, <2>6, Table DEF Matches, Ids
      <3>3. ~(addr < Addr(0)) /\ S \in Ids /\ p + 1 <= S
        BY <2>2, <2>3, <2>6, <3>2
      <3>4. /\ (l - 1) \div 2 \in Nat /\ (l - 1) \div 2 < l
            /\ (p + 1) + ((l - 1) \div 2) = b + l
        BY <2>1
      <3>5. Window(addr, p + 1, (l - 1) \div 2)
        BY <2>1, <2>2, <3>3, <3>4 DEF Window, Ids
      <3> QED
        BY <1>2, <3>1, <3>4, <3>5
    <2>7. CASE ~Matches(addr, p) /\ ~(addr > Addr(p))
      <3>1. Halve(addr, <<b, l>>) = <<b, l \div 2>>
        BY <2>1, <2>7 DEF Halve
      <3>2. addr < Addr(p)
        <4>1. p # Total - 1 => p + 1 \in Ids /\ Addr(p) < Addr(p + 1)
          BY <2>2, SamplingAssumption DEF Ids
        <4> QED
          BY <2>2, <2>7, <4>1, Table DEF Matches
      <3>3. l \div 2 \in Nat /\ l \div 2 < l
        BY <2>1
      <3>4. ~(addr < Addr(0)) => S < p
        <4> SUFFICES ASSUME ~(addr < Addr(0)), ~(S < p) PROVE FALSE
          OBVIOUS
        <4>1. S \in Ids /\ Addr(S) <= addr /\ p <= S
          BY <2>2, <2>3 DEF Ids
        <4>2. Addr(p) <= Addr(S) /\ Addr(S) \in Nat
          BY <2>2, <4>1, Table
        <4> QED
          BY <2>2, <3>2, <4>1, <4>2
      <3>5. Window(addr, b, l \div 2)
        BY <2>1, <2>2, <3>3, <3>4 DEF Window
      <3> QED
        BY <1>2, <3>1, <3>3, <3>5
    <2> QED
      BY <2>5, <2>6, <2>7
  <1> QED
    BY <1>1, <1>2

\* bsearch() finds what its window holds.
LEMMA SearchIs ==
    ASSUME NEW addr \in Nat, NEW base \in Nat, NEW lim \in Nat, Window(addr, base, lim)
    PROVE  /\ Search(addr, base, lim) \in Ids \cup {-1}
           /\ Total >= 3 => Says(addr, Search(addr, base, lim))
  <1> DEFINE X == {x \in Int \X (Nat \cup {-1}) : Window(addr, x[1], x[2])}
             Step(f) == [i \in 0 .. Total |-> IF i = 0 THEN <<base, lim>> ELSE Halve(addr, f[i - 1])]
             st == [x \in X |-> Halve(addr, x)]
             e == CHOOSE f : f = Step(f)
  <1>1. Search(addr, base, lim) = IF e[Total][2] = -1 THEN e[Total][1] ELSE -1
    BY DEF Search
  <1>2. Total \in Nat /\ lim <= Total /\ 0 \in 0 .. Total /\ Total \in 0 .. Total
    BY Table DEF Window
  <1>3. <<base, lim>> \in X
    OBVIOUS
  <1>4. ASSUME NEW x \in X
        PROVE  /\ x[2] \in Nat \cup {-1} /\ Window(addr, x[1], x[2])
               /\ Halve(addr, x) \in X
               /\ x[2] \in {-1, 0} => Halve(addr, x)[2] = x[2]
               /\ x[2] \notin {-1, 0} => Halve(addr, x)[2] < x[2]
    <2>1. PICK b, l : b = x[1] /\ l = x[2] /\ x = <<b, l>>
      OBVIOUS
    <2>2. l \in Nat \cup {-1} /\ Window(addr, b, l)
      BY <2>1
    <2>3. PICK c, m : /\ Halve(addr, <<b, l>>) = <<c, m>> /\ Window(addr, c, m)
                      /\ l \in {-1, 0} => m = l
                      /\ l \notin {-1, 0} => m < l
      BY <2>2, HalveStep
    <2>4. c \in Int /\ m \in Nat \cup {-1}
      BY <2>3 DEF Window, Ids
    <2>5. <<c, m>> \in X
      BY <2>3, <2>4
    <2> HIDE DEF X
    <2> QED
      BY <2>1, <2>2, <2>3, <2>5
  <1> HIDE DEF X
  <1>5. PICK f \in [0 .. Total -> X] :
            f[0] = <<base, lim>> /\ \A m \in 1 .. Total : f[m] = Halve(addr, f[m - 1])
    <2>1. PICK z \in X : z = <<base, lim>>
      BY <1>3
    <2>2. PICK n \in Nat : n = Total
      BY <1>2
    <2>3. st \in [X -> X]
      BY <1>4
    <2>4. \A x \in X : st[x] = Halve(addr, x)
      OBVIOUS
    <2> HIDE DEF st
    <2>5. \E f : Repeats(f, X, z, st, n)
      BY <2>3, Repeated
    <2>6. \A m \in 1 .. n : m - 1 \in 0 .. n
      OBVIOUS
    <2> QED
      BY <2>1, <2>2, <2>4, <2>5, <2>6 DEF Repeats
  <1>6. f = Step(f)
    <2>1. ASSUME NEW m \in 0 .. Total, m # 0
          PROVE  m \in 1 .. Total
      BY <1>2, <2>1
    <2> QED
      BY <1>5, <2>1
  <1>7. e = Step(e)
    BY <1>6
  <1> HIDE DEF e
  <1>8. e[0] = <<base, lim>> /\ \A m \in 1 .. Total : e[m] = Halve(addr, e[m - 1])
    <2>1. PICK s : s = Step(e) /\ s = e
      BY <1>7
    <2>2. s[0] = <<base, lim>> /\ \A m \in 1 .. Total : s[m] = Halve(addr, e[m - 1])
      BY <1>2, <2>1
    <2> QED
      BY <2>1, <2>2
  <1>9. \A m \in 0 .. Total : e[m] \in X
    <2>1. e[0] \in X /\ \A m \in 1 .. Total : e[m - 1] \in X => e[m] \in X
      BY <1>3, <1>4, <1>8
    <2> HIDE DEF Step
    <2> QED
      BY <1>2, <2>1, StaysIn
  <1> DEFINE v == [m \in 0 .. Total |-> IF e[m][2] = -1 THEN 0 ELSE e[m][2]]
  <1>10. ASSUME NEW m \in 0 .. Total
         PROVE  v[m] \in Nat /\ (v[m] = 0 <=> e[m][2] \in {-1, 0})
    BY <1>4, <1>9
  <1>11. ASSUME NEW m \in 1 .. Total
         PROVE  v[m] <= v[m - 1] /\ (v[m - 1] # 0 => v[m] < v[m - 1])
    <2>1. m - 1 \in 0 .. Total /\ m \in 0 .. Total
      BY <1>2
    <2>2. PICK x \in X, y \in X : x = e[m - 1] /\ y = e[m] /\ y = Halve(addr, x)
      BY <1>8, <1>9, <2>1
    <2>3. /\ x[2] \in Nat \cup {-1} /\ y[2] \in Nat \cup {-1}
          /\ x[2] \in {-1, 0} => y[2] = x[2]
          /\ x[2] \notin {-1, 0} => y[2] < x[2]
      BY <1>4, <2>2
    <2>4. /\ v[m - 1] = IF x[2] = -1 THEN 0 ELSE x[2]
          /\ v[m] = IF y[2] = -1 THEN 0 ELSE y[2]
      BY <2>1, <2>2
    <2> HIDE DEF v
    <2> QED
      BY <2>3, <2>4
  <1>12. e[Total][2] \in {-1, 0}
    <2>1. v \in [0 .. Total -> Nat] /\ v[0] <= Total
      BY <1>2, <1>8, <1>10
    <2> HIDE DEF v
    <2>2. PICK n \in Nat : n = Total
      BY <1>2
    <2>3. \A m \in 1 .. n : v[m] <= v[m - 1] /\ (v[m - 1] # 0 => v[m] < v[m - 1])
      BY <1>11, <2>2
    <2>4. v \in [0 .. n -> Nat] /\ v[0] <= n
      BY <2>1, <2>2
    <2>5. v[n] = 0
      BY <2>3, <2>4, Descends
    <2> QED
      BY <1>2, <1>10, <2>2, <2>5
  <1>13. PICK b, l : b = e[Total][1] /\ l = e[Total][2] /\ Window(addr, b, l) /\ l \in {-1, 0}
    BY <1>2, <1>4, <1>9, <1>12
  <1>14. CASE l = -1
    BY <1>1, <1>13, <1>14 DEF Window
  <1>15. CASE l = 0
    <2>1. b \in Nat /\ IF addr < Addr(0) THEN b = 0 ELSE b <= Symbol(addr) /\ Symbol(addr) < b + 0
      BY <1>13, <1>15 DEF Window
    <2>2. addr < Addr(0)
      <3> SUFFICES ASSUME ~(addr < Addr(0)) PROVE FALSE
        OBVIOUS
      <3>1. Symbol(addr) \in Nat
        BY SymbolIs, Table DEF Ids
      <3> QED
        BY <2>1, <3>1
    <2>3. Symbol(addr) = -1
      BY <2>2 DEF Symbol
    <2> QED
      BY <1>1, <1>13, <1>15, <2>3 DEF Says
  <1> QED
    BY <1>13, <1>14, <1>15

\* ksym_lookup() may begin at any symbol it found before.
LEMMA LookupIs ==
    ASSUME NEW addr \in Nat, NEW prev \in Ids
    PROVE  /\ Lookup(addr, prev) \in Ids \cup {-1}
           /\ Total >= 3 => Says(addr, Lookup(addr, prev))
  <1>1. Addr(0) \in Nat /\ Total \in Nat /\ Addr(0) <= Addr(prev) /\ Addr(prev) \in Nat /\ prev \in Nat
    BY Table DEF Ids
  <1>2. Addr(0) <= addr => /\ Symbol(addr) \in Ids
                           /\ \A j \in Ids : Addr(j) <= addr => j <= Symbol(addr)
    BY SymbolIs
  <1>3. CASE Addr(prev) < addr
    <2>1. Window(addr, prev, Total - prev) /\ Total - prev \in Nat
      BY <1>1, <1>2, <1>3 DEF Window, Ids
    <2> QED
      BY <1>1, <1>3, <2>1, SearchIs DEF Lookup
  <1>4. CASE ~(Addr(prev) < addr)
    <2>1. Window(addr, 0, Total)
      BY <1>1, <1>2 DEF Window, Ids
    <2> QED
      BY <1>1, <1>4, <2>1, SearchIs DEF Lookup
  <1> QED
    BY <1>3, <1>4

-----------------------------------------------------------------------------
(* sampling_stats() *)

\* The hits of the first m samples.
HitsTo(pcs, id, m) == Cardinality({i \in 0 .. m - 1 : Symbol(pcs[i]) = id})

LEMMA HitsNext ==
    ASSUME NEW pcs, NEW id, NEW m \in Nat
    PROVE  /\ HitsTo(pcs, id, m) \in Nat
           /\ HitsTo(pcs, id, m + 1) = HitsTo(pcs, id, m) + IF Symbol(pcs[m]) = id THEN 1 ELSE 0
  <1> DEFINE Those(n) == {i \in 0 .. n - 1 : Symbol(pcs[i]) = id}
  <1>1. IsFiniteSet(Those(m)) /\ Cardinality(Those(m)) \in Nat /\ m \notin Those(m)
    <2>1. Those(m) \subseteq 0 .. m - 1 /\ IsFiniteSet(0 .. m - 1)
      BY FS_Interval
    <2>2. IsFiniteSet(Those(m))
      BY <2>1, FS_Subset
    <2> QED
      BY <2>2, FS_CardinalityType
  <1>2. Those(m + 1) = IF Symbol(pcs[m]) = id THEN Those(m) \cup {m} ELSE Those(m)
    OBVIOUS
  <1>3. Cardinality(Those(m) \cup {m}) = Cardinality(Those(m)) + 1
    BY <1>1, FS_AddElement
  <1>4. Cardinality(Those(m + 1)) = Cardinality(Those(m)) + IF Symbol(pcs[m]) = id THEN 1 ELSE 0
    <2> HIDE DEF Those
    <2> QED
      BY <1>1, <1>2, <1>3
  <1> QED
    BY <1>1, <1>4 DEF HitsTo

\* hits are the hits of the first m samples, those of the last two symbols
\* together.
Exact(pcs, hits, m) ==
    Total >= 3 => /\ \A id \in 0 .. Total - 3 : hits[id] = HitsTo(pcs, id, m)
                  /\ hits[Total - 1] + hits[Total - 2] =
                         HitsTo(pcs, Total - 1, m) + HitsTo(pcs, Total - 2, m)

LEMMA CountedStep ==
    ASSUME NEW pcs, NEW m \in Nat, pcs[m] \in Nat, NEW s \in [Ids -> Nat] \X Ids
    PROVE  /\ Counted(s, pcs[m]) \in [Ids -> Nat] \X Ids
           /\ Exact(pcs, s[1], m) => Exact(pcs, Counted(s, pcs[m])[1], m + 1)
  <1>1. PICK hits \in [Ids -> Nat], prev \in Ids : s = <<hits, prev>> /\ s[1] = hits /\ s[2] = prev
    OBVIOUS
  <1>2. PICK id : id = Lookup(pcs[m], prev)
    OBVIOUS
  <1>3. id \in Ids \cup {-1} /\ (Total >= 3 => Says(pcs[m], id))
    BY <1>2, LookupIs
  <1>4. PICK t : t = Counted(s, pcs[m])
    OBVIOUS
  <1>5. Total \in Nat /\ Ids = 0 .. Total - 1
    BY Table DEF Ids
  <1>6. PICK new \in [Ids -> Nat], next \in Ids :
            /\ t = <<new, next>> /\ t[1] = new
            /\ \A i \in Ids : new[i] = hits[i] + IF i = id THEN 1 ELSE 0
    <2>1. t = IF id < 0 THEN <<hits, prev>> ELSE <<[hits EXCEPT ![id] = @ + 1], id>>
      BY <1>1, <1>2, <1>4 DEF Counted, Hit
    <2>2. CASE id = -1
      BY <1>5, <2>1, <2>2
    <2>3. CASE id \in Ids
      <3>1. ~(id < 0)
        BY <1>5, <2>3
      <3>2. PICK new : new = [hits EXCEPT ![id] = @ + 1]
        OBVIOUS
      <3>3. new \in [Ids -> Nat] /\ \A i \in Ids : new[i] = hits[i] + IF i = id THEN 1 ELSE 0
        BY <2>3, <3>2
      <3>4. t = <<new, id>>
        BY <2>1, <3>1, <3>2
      <3> QED
        BY <2>3, <3>3, <3>4
    <2> QED
      BY <1>3, <2>2, <2>3
  <1>7. ASSUME Total >= 3, Exact(pcs, hits, m)
        PROVE  Exact(pcs, new, m + 1)
    <2> DEFINE S == Symbol(pcs[m])
    <2>1. Says(pcs[m], id)
      BY <1>3, <1>7
    <2>2. Total - 1 \in Ids /\ Total - 2 \in Ids
      BY <1>5, <1>7
    <2>3. ASSUME NEW i \in 0 .. Total - 3
          PROVE  new[i] = HitsTo(pcs, i, m + 1)
      <3>1. i \in Ids /\ i \notin {Total - 2, Total - 1}
        BY <1>5
      <3>2. i = id <=> i = S
        BY <2>1, <3>1 DEF Says
      <3>3. hits[i] = HitsTo(pcs, i, m)
        BY <1>7 DEF Exact
      <3> QED
        BY <1>6, <3>1, <3>2, <3>3, HitsNext
    <2>4. new[Total - 1] + new[Total - 2] =
              HitsTo(pcs, Total - 1, m + 1) + HitsTo(pcs, Total - 2, m + 1)
      <3> DEFINE One(i, j) == IF i = j THEN 1 ELSE 0
      <3>1. One(Total - 1, id) + One(Total - 2, id) = One(S, Total - 1) + One(S, Total - 2)
        BY <1>5, <2>1 DEF Says
      <3>2. /\ new[Total - 1] = hits[Total - 1] + One(Total - 1, id)
            /\ new[Total - 2] = hits[Total - 2] + One(Total - 2, id)
        BY <1>6, <2>2
      <3>3. /\ HitsTo(pcs, Total - 1, m) \in Nat /\ HitsTo(pcs, Total - 2, m) \in Nat
            /\ HitsTo(pcs, Total - 1, m + 1) = HitsTo(pcs, Total - 1, m) + One(S, Total - 1)
            /\ HitsTo(pcs, Total - 2, m + 1) = HitsTo(pcs, Total - 2, m) + One(S, Total - 2)
        BY HitsNext
      <3>4. hits[Total - 1] + hits[Total - 2] = HitsTo(pcs, Total - 1, m) + HitsTo(pcs, Total - 2, m)
        BY <1>7 DEF Exact
      <3>5. hits[Total - 1] \in Nat /\ hits[Total - 2] \in Nat
        BY <2>2
      <3>6. \A i, j : One(i, j) \in Nat
        OBVIOUS
      <3> HIDE DEF One, S
      <3> QED
        BY <3>1, <3>2, <3>3, <3>4, <3>5, <3>6
    <2> QED
      BY <2>3, <2>4 DEF Exact
  <1>8. Exact(pcs, hits, m) => Exact(pcs, new, m + 1)
    <2>1. CASE Total >= 3
      BY <1>7, <2>1
    <2>2. CASE ~(Total >= 3)
      BY <2>2 DEF Exact
    <2> QED
      BY <2>1, <2>2
  <1> QED
    BY <1>1, <1>4, <1>6, <1>8

\* The loop over the samples counts them.
LEMMA CountIs ==
    ASSUME NEW pcs \in [Indices -> Nat], NEW prev \in Ids
    PROVE  /\ Count(pcs, NoHits, prev) \in [Ids -> Nat] \X Ids
           /\ Exact(pcs, Count(pcs, NoHits, prev)[1], MaxSamples)
  <1> DEFINE P == [Ids -> Nat] \X Ids
             G == {x \in (0 .. MaxSamples) \X P : Exact(pcs, x[2][1], x[1])}
             T(i, s) == Counted(s, pcs[i - 1])
             o == <<NoHits, prev>>
             Step(f) == [i \in 0 .. MaxSamples |-> IF i = 0 THEN o ELSE T(i, f[i - 1])]
             e == CHOOSE f : f = Step(f)
             h == [x \in Nat \X P |-> IF T(x[1], x[2]) \in P THEN T(x[1], x[2]) ELSE o]
  <1>1. Count(pcs, NoHits, prev) = e[MaxSamples]
    BY DEF Count
  <1>2. MaxSamples \in Nat
    BY SamplingAssumption
  <1>3. <<0, o>> \in G /\ o \in P
    <2>1. ASSUME NEW id
          PROVE  HitsTo(pcs, id, 0) = 0
      <3>1. {i \in 0 .. 0 - 1 : Symbol(pcs[i]) = id} = {}
        OBVIOUS
      <3> QED
        BY <3>1, FS_EmptySet DEF HitsTo
    <2>2. NoHits \in [Ids -> Nat] /\ \A id \in Ids : NoHits[id] = 0
      BY DEF NoHits
    <2>3. Exact(pcs, NoHits, 0)
      BY <2>1, <2>2, Table DEF Exact, Ids
    <2> QED
      BY <1>2, <2>2, <2>3
  <1>4. ASSUME NEW i \in 1 .. MaxSamples, NEW s, <<i - 1, s>> \in G
        PROVE  <<i, T(i, s)>> \in G /\ s \in P /\ T(i, s) \in P
    <2>1. PICK m \in Nat : m = i - 1 /\ m + 1 = i /\ i \in 0 .. MaxSamples
      BY <1>2
    <2>2. pcs[m] \in Nat
      <3>1. m \in 0 .. MaxSamples - 1
        BY <1>2, <2>1
      <3> QED
        BY <3>1 DEF Indices
    <2>3. s \in P /\ Exact(pcs, s[1], m)
      BY <1>4, <2>1
    <2>4. Counted(s, pcs[m]) \in P /\ Exact(pcs, Counted(s, pcs[m])[1], m + 1)
      BY <2>2, <2>3, CountedStep
    <2> HIDE DEF P
    <2> QED
      BY <2>1, <2>3, <2>4
  <1> HIDE DEF T, G, o, P
  <1>6. PICK f : Recursive(f, P, o, h, MaxSamples)
    <2>1. h \in [Nat \X P -> P]
      BY <1>3
    <2> HIDE DEF h
    <2> QED
      BY <1>2, <1>3, <2>1, Recursion
  <1>7. ASSUME NEW i \in 1 .. MaxSamples, <<i - 1, f[i - 1]>> \in G
        PROVE  f[i] = T(i, f[i - 1]) /\ <<i, f[i]>> \in G
    <2>1. PICK b \in P : b = f[i - 1] /\ T(i, b) \in P /\ <<i, T(i, b)>> \in G
      BY <1>4, <1>7
    <2>2. \A y \in Nat, x \in P : h[<<y, x>>] = IF T(y, x) \in P THEN T(y, x) ELSE o
      OBVIOUS
    <2>3. h[<<i, b>>] = T(i, b)
      BY <1>2, <2>1, <2>2
    <2> QED
      BY <1>6, <2>1, <2>3 DEF Recursive
  <1>8. \A i \in 0 .. MaxSamples : <<i, f[i]>> \in G
    <2>1. <<0, f[0]>> \in G /\ \A i \in 1 .. MaxSamples : <<i - 1, f[i - 1]>> \in G => <<i, f[i]>> \in G
      BY <1>3, <1>6, <1>7 DEF Recursive
    <2> QED
      BY <1>2, <2>1, StaysGood
  <1>9. f = Step(f)
    <2>1. ASSUME NEW i \in 0 .. MaxSamples, i # 0
          PROVE  f[i] = T(i, f[i - 1])
      <3>1. i \in 1 .. MaxSamples /\ i - 1 \in 0 .. MaxSamples
        BY <1>2, <2>1
      <3> QED
        BY <1>7, <1>8, <3>1
    <2> QED
      BY <1>6, <2>1 DEF Recursive
  <1>10. e = Step(e)
    BY <1>9
  <1> HIDE DEF e
  <1>11. e[0] = o /\ \A i \in 1 .. MaxSamples : e[i] = T(i, e[i - 1])
    <2>1. PICK s : s = Step(e) /\ s = e
      BY <1>10
    <2>2. s[0] = o /\ \A i \in 1 .. MaxSamples : s[i] = T(i, e[i - 1])
      BY <1>2, <2>1
    <2> QED
      BY <2>1, <2>2
  <1>12. \A i \in 0 .. MaxSamples : <<i, e[i]>> \in G
    <2>1. <<0, e[0]>> \in G /\ \A i \in 1 .. MaxSamples : <<i - 1, e[i - 1]>> \in G => <<i, e[i]>> \in G
      BY <1>3, <1>4, <1>11
    <2> QED
      BY <1>2, <2>1, StaysGood
  <1>13. <<MaxSamples, e[MaxSamples]>> \in G
    BY <1>2, <1>12
  <1> QED
    BY <1>1, <1>13 DEF G, P

\* sampled_pcpush() stays within what its values are.
LEMMA PushedIs ==
    ASSUME NEW X, NEW s \in X, NEW pc, \A x \in X : Push(x, pc) \in X, NEW n \in Nat
    PROVE  Pushed(s, pc, n) \in X
  <1> DEFINE Step(f) == [i \in 0 .. n |-> IF i = 0 THEN s ELSE Push(f[i - 1], pc)]
             st == [x \in X |-> Push(x, pc)]
             e == CHOOSE f : f = Step(f)
  <1>1. Pushed(s, pc, n) = e[n]
    BY DEF Pushed
  <1>2. PICK f \in [0 .. n -> X] : f[0] = s /\ \A m \in 1 .. n : f[m] = Push(f[m - 1], pc)
    <2>1. st \in [X -> X] /\ \A x \in X : st[x] = Push(x, pc)
      OBVIOUS
    <2> HIDE DEF st
    <2>2. PICK g \in [X -> X] : g = st
      BY <2>1
    <2>3. \E f : Repeats(f, X, s, g, n)
      BY Repeated
    <2>4. \A m \in 1 .. n : m - 1 \in 0 .. n
      OBVIOUS
    <2> QED
      BY <2>1, <2>2, <2>3, <2>4 DEF Repeats
  <1>3. f = Step(f)
    <2>1. ASSUME NEW m \in 0 .. n, m # 0
          PROVE  m \in 1 .. n
      BY <2>1
    <2> QED
      BY <1>2, <2>1
  <1>4. e = Step(e)
    BY <1>3
  <1> HIDE DEF e
  <1>5. e[0] = s /\ \A m \in 1 .. n : e[m] = Push(e[m - 1], pc)
    <2>1. PICK z : z = Step(e) /\ z = e
      BY <1>4
    <2>2. z[0] = s /\ \A m \in 1 .. n : z[m] = Push(e[m - 1], pc)
      BY <2>1
    <2> QED
      BY <2>1, <2>2
  <1>6. \A m \in 0 .. n : e[m] \in X
    <2>1. PICK z : z = e
      OBVIOUS
    <2>2. z[0] \in X /\ \A m \in 1 .. n : z[m - 1] \in X => z[m] \in X
      BY <1>5, <2>1
    <2>3. \A m \in 0 .. n : z[m] \in X
      BY <2>2, StaysIn
    <2> QED
      BY <2>1, <2>3
  <1> QED
    BY <1>1, <1>6

Pcs == [Indices -> Codes \cup {0}]

\* The samples, and what the last command made of them.
SamplingInv ==
    /\ sampledPc \in Pcs /\ sampledCount \in 0 .. MaxSamples /\ prevIndex \in Ids
    /\ kdb \in {"stats", "enable"} => enabled = FALSE
    /\ StatsExact

\* sampling_stats() does what StatsExact says.
LEMMA StatsKeeps ==
    ASSUME Total # 2, SamplingInv, SamplingStats, ~TooMany
    PROVE  SamplingInv'
  <1>1. /\ MaxSamples \in Nat \ {0} /\ Codes \subseteq Nat /\ Total \in Nat \ {0}
        /\ Ids = 0 .. Total - 1 /\ Indices = 0 .. MaxSamples - 1
    BY SamplingAssumption, Table DEF Ids, Indices
  <1>2. PICK pcs, found, list :
            /\ pcs = Sort(sampledPc, MaxSamples, [code \in Codes \cup {0} |-> code])
            /\ found = Count(pcs, NoHits, prevIndex)
            /\ list = Sort([id \in Ids |-> id], Total, [id \in Ids |-> -found[1][id]])
            /\ sampledPc' = pcs /\ hitcount' = found[1] /\ prevIndex' = found[2]
            /\ sortedList' = list
    BY DEF SamplingStats
  <1>3. /\ kdb' = "enable" /\ sampledCount' = sampledCount /\ enabled' = enabled /\ kdb = "stats"
    BY DEF SamplingStats
  <1>4. pcs \in Pcs
    <2>1. PICK a \in Pcs : a = sampledPc
      BY DEF SamplingInv
    <2>2. PICK V : V = Codes \cup {0}
      OBVIOUS
    <2>3. PICK key \in [V -> Int] : key = [code \in V |-> code]
      <3>1. \A code \in V : code \in Int
        BY <1>1, <2>2
      <3> QED
        BY <3>1
    <2>4. a \in [0 .. MaxSamples - 1 -> V]
      BY <1>1, <2>1, <2>2 DEF Pcs
    <2>5. Sort(a, MaxSamples, key) \in [0 .. MaxSamples - 1 -> V]
      BY <1>1, <2>4, SortIs
    <2> QED
      BY <1>1, <1>2, <2>1, <2>2, <2>3, <2>5 DEF Pcs
  <1>5. found \in [Ids -> Nat] \X Ids /\ Exact(pcs, found[1], MaxSamples)
    <2>1. pcs \in [Indices -> Nat]
      <3>1. \A code \in Codes \cup {0} : code \in Nat
        BY <1>1
      <3> QED
        BY <1>4, <3>1 DEF Pcs
    <2>2. PICK prev \in Ids : prev = prevIndex
      BY DEF SamplingInv
    <2> QED
      BY <1>2, <2>1, <2>2, CountIs
  <1>6. PICK hits \in [Ids -> Nat] : hits = found[1]
    BY <1>5
  <1>7. /\ {list[id] : id \in Ids} = Ids
        /\ \A i \in 0 .. Total - 2 : hits[list[i]] >= hits[list[i + 1]]
    <2>1. PICK a : a = [id \in Ids |-> id]
      OBVIOUS
    <2>2. PICK key : key = [id \in Ids |-> -hits[id]]
      OBVIOUS
    <2>3. key \in [Ids -> Int] /\ \A id \in Ids : key[id] = -hits[id] /\ hits[id] \in Nat
      BY <2>2
    <2>4. a \in [0 .. Total - 1 -> Ids]
      BY <1>1, <2>1
    <2>5. list = Sort(a, Total, key)
      BY <1>2, <1>6, <2>1, <2>2
    <2>6. /\ list \in [0 .. Total - 1 -> Ids] /\ Shuffled(a, list, Total)
          /\ Drained(list, key, 1, Total)
      BY <1>1, <2>3, <2>4, <2>5, SortIs
    <2>7. {list[id] : id \in Ids} = Ids
      <3>1. {list[j] : j \in 0 .. Total - 1} = {a[j] : j \in 0 .. Total - 1}
        BY <2>6 DEF Shuffled
      <3>2. {a[j] : j \in Ids} = Ids
        BY <2>1
      <3> QED
        BY <1>1, <3>1, <3>2
    <2>8. ASSUME NEW i \in 0 .. Total - 2
          PROVE  hits[list[i]] >= hits[list[i + 1]]
      <3>1. i \in 0 .. Total - 1 /\ i + 1 \in 0 .. Total - 1 /\ i <= i + 1 /\ i + 1 >= 1
        BY <1>1
      <3>2. key[list[i]] <= key[list[i + 1]]
        BY <2>6, <3>1 DEF Drained
      <3>3. list[i] \in Ids /\ list[i + 1] \in Ids
        BY <2>6, <3>1
      <3> QED
        BY <2>3, <3>2, <3>3
    <2> QED
      BY <2>7, <2>8
  <1>8. \A id : HitsOf(pcs, id) = HitsTo(pcs, id, MaxSamples)
    BY <1>1 DEF HitsOf, HitsTo
  <1>9. /\ \A id \in 0 .. Total - 3 : hits[id] = HitsOf(pcs, id)
        /\ Total >= 2 => hits[Total - 1] + hits[Total - 2] =
                         HitsOf(pcs, Total - 1) + HitsOf(pcs, Total - 2)
    <2>1. CASE Total >= 3
      BY <1>5, <1>6, <1>8, <2>1 DEF Exact
    <2>2. CASE Total = 1
      BY <2>2
    <2>3. Total >= 3 \/ Total = 1
      BY <1>1
    <2> QED
      BY <2>1, <2>2, <2>3
  <1>10. sampledPc' = pcs /\ hitcount' = hits /\ sortedList' = list
    BY <1>2, <1>6
  <1>11. StatsExact'
    BY <1>7, <1>9, <1>10 DEF StatsExact, HitsOf
  <1> QED
    BY <1>2, <1>3, <1>4, <1>5, <1>11 DEF SamplingInv

\* A break adds samples, if they are counted at all.
LEMMA InterruptKeeps ==
    ASSUME SamplingInv, ProbesInv', NEW pc, NEW code \in Codes, Interrupt(pc, code)
    PROVE  SamplingInv'
  <1>1. /\ kdb' = kdb /\ enabled' = enabled /\ prevIndex' = prevIndex
        /\ hitcount' = hitcount /\ sortedList' = sortedList
    BY DEF Interrupt, stats
  <1>2. PICK n \in Nat : n = kps'.calls[Sampler]
    <2>1. Sampler \in Probes
      BY SamplingAssumption
    <2> QED
      BY <2>1 DEF ProbesInv, State
  <1>3. PICK s : s = <<sampledPc, sampledCount>>
    OBVIOUS
  <1>4. sampledPc' = Pushed(s, code, n)[1] /\ sampledCount' = Pushed(s, code, n)[2]
    BY <1>2, <1>3 DEF Interrupt
  <1>5. Pushed(s, code, n) \in Pcs \X (0 .. MaxSamples)
    <2>1. PICK X : X = Pcs \X (0 .. MaxSamples)
      OBVIOUS
    <2>2. ASSUME NEW x \in X
          PROVE  Push(x, code) \in X
      <3>1. PICK a, m : x = <<a, m>> /\ a \in Pcs /\ m \in 0 .. MaxSamples /\ x[1] = a /\ x[2] = m
        BY <2>1
      <3>2. PICK at : at = IF m = MaxSamples THEN 0 ELSE m
        OBVIOUS
      <3>3. at \in 0 .. MaxSamples - 1 /\ at + 1 \in 0 .. MaxSamples
        BY <3>1, <3>2, SamplingAssumption
      <3>4. [a EXCEPT ![at] = code] \in Pcs
        BY <3>1, <3>3 DEF Pcs, Indices
      <3>5. Push(x, code) = IF enabled THEN <<[a EXCEPT ![at] = code], at + 1>> ELSE x
        BY <3>1, <3>2 DEF Push
      <3> QED
        BY <2>1, <3>3, <3>4, <3>5
    <2>3. s \in X
      BY <1>3, <2>1 DEF SamplingInv
    <2> QED
      BY <2>1, <2>2, <2>3, PushedIs
  <1>6. enabled = FALSE => Pushed(s, code, n) = s
    <2> SUFFICES ASSUME enabled = FALSE PROVE Pushed(s, code, n) \in {s}
      OBVIOUS
    <2>1. PICK X : X = {s}
      OBVIOUS
    <2>2. \A x \in X : Push(x, code) \in X
      BY <2>1 DEF Push
    <2> QED
      BY <2>1, <2>2, PushedIs
  <1>7. CASE kdb = "enable"
    <2>1. sampledPc' = sampledPc
      BY <1>3, <1>4, <1>6, <1>7 DEF SamplingInv
    <2> QED
      BY <1>1, <1>4, <1>5, <2>1 DEF SamplingInv, StatsExact, HitsOf
  <1>8. CASE kdb # "enable"
    BY <1>1, <1>4, <1>5, <1>8 DEF SamplingInv, StatsExact
  <1> QED
    BY <1>7, <1>8

LEMMA SamplingKeeps ==
    ASSUME Total # 2, SamplingInv, ProbesInv', [Next]_vars
    PROVE  SamplingInv'
  <1>1. ASSUME kdb' # "enable", kdb' = "stats" => enabled' = FALSE, sampledPc' \in Pcs,
               sampledCount' \in 0 .. MaxSamples, prevIndex' = prevIndex
        PROVE  SamplingInv'
    BY <1>1 DEF SamplingInv, StatsExact
  <1>2. ASSUME UNCHANGED <<samples, stats, kdb>>
        PROVE  SamplingInv'
    BY <1>2 DEF SamplingInv, StatsExact, HitsOf, samples, stats
  <1>3. CASE SamplingInit
    <2>1. [i \in Indices |-> 0] \in Pcs /\ 0 \in 0 .. MaxSamples
      BY SamplingAssumption DEF Pcs
    <2>2. sampledPc' \in Pcs /\ sampledCount' \in 0 .. MaxSamples
      BY <1>3, <2>1 DEF SamplingInit, SamplingInv
    <2> QED
      BY <1>1, <1>3, <2>2 DEF SamplingInit, stats
  <1>4. CASE SamplingDisable \/ SamplingEnable
    BY <1>1, <1>4 DEF SamplingDisable, SamplingEnable, stats, SamplingInv
  <1>5. CASE RegisterSampler
    BY <1>1, <1>5 DEF RegisterSampler, samples, stats, SamplingInv
  <1>6. CASE SamplingStats
    <2>1. CASE TooMany
      BY <1>1, <1>6, <2>1 DEF SamplingStats, SamplingInv, stats
    <2> QED
      BY <1>6, <2>1, StatsKeeps
  <1>7. ASSUME NEW p \in Probes, OtherRegisters(p) \/ OtherUnregisters(p)
        PROVE  SamplingInv'
    BY <1>2, <1>7 DEF OtherRegisters, OtherUnregisters
  <1>8. CASE Registering \/ Unregistering
    BY <1>2, <1>8 DEF Registering, Unregistering
  <1>9. ASSUME NEW pc \in Places, NEW code \in Codes, Interrupt(pc, code)
        PROVE  SamplingInv'
    BY <1>9, InterruptKeeps
  <1>10. CASE UNCHANGED vars
    BY <1>2, <1>10 DEF vars
  <1> QED
    BY <1>3, <1>4, <1>5, <1>6, <1>7, <1>8, <1>9, <1>10 DEF Next

\* The command of the debugger (sampling_stats() with sort(), bsearch() and
\* ksym_lookup()) counts every sample once, for its symbol, or for the other of
\* the last two, and lists the symbols by their counts: for tables of strictly
\* ascending addresses with no more than MAX_KSYM symbols, but not two (with
\* more the command leaves its arrays and the behaviour ends), any
\* number of samples, and whatever index the lookup before left.
THEOREM CountsAlwaysExact ==
    ASSUME Total # 2
    PROVE  Spec => []StatsExact
  <1>1. Init => SamplingInv
    <2>1. [i \in Indices |-> 0] \in Pcs /\ 0 \in 0 .. MaxSamples /\ 0 \in Ids
      BY SamplingAssumption, Table DEF Pcs
    <2> QED
      BY <2>1 DEF Init, SamplingInv, StatsExact
  <1>2. ProbesInv' /\ SamplingInv /\ [Next]_vars => SamplingInv'
    BY SamplingKeeps
  <1>3. SamplingInv => StatsExact
    BY DEF SamplingInv
  <1> QED
    BY <1>1, <1>2, <1>3, ProbesInductive, PTL DEF Spec
=============================================================================
