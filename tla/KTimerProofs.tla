---------------------------- MODULE KTimerProofs ----------------------------
(***************************************************************************)
(* Proofs about KTimer, for a table of events of any size and for any      *)
(* times: the queue holds every event once, and an event that is inserted  *)
(* goes where the code reckons it and moves no other.                      *)
(***************************************************************************)
EXTENDS KTimer, FiniteSetTheorems, TLAPS

INSTANCE Chains WITH Node <- Event, Nil <- NULL, Size <- NEvents

-----------------------------------------------------------------------------
(* The inductive invariant *)

\* The event that is being scheduled, which links to no other.
Placing == {placing} \ {NULL}

\* The allocated events are those of the queue, Q, those the handler has still to
\* call, D, and the one being scheduled; D comes before last_event, which is in the
\* queue.
Split(Q, D) ==
    /\ Q \cap D = {} /\ Placing \cap (Q \cup D) = {} /\ Q \cup D \cup Placing = used
    /\ \E r : Ranked(next, used, r)
    /\ IF event_queue = NULL THEN Q = {} ELSE event_queue \in Q
    /\ Listed(next, Q, event_queue, NULL)
    /\ IF event = NULL THEN D = {} ELSE event \in D
    /\ event # NULL => last_event \in Q \cup {NULL} /\ Listed(next, D, event, last_event)

QueueInv ==
    /\ TypeOK
    /\ Deliver \in used
    /\ resetting => event = NULL
    /\ clearing => event = NULL /\ ~resetting /\ placing = NULL
    /\ placing \notin {NULL, Deliver} => event = NULL
    /\ \E Q, D : Split(Q, D)

\* ticks is small enough for sums and differences of a few such to be right in
\* 32 bits.
Small(ticks) == ticks \in Nat /\ 4 * ticks < Word

\* at are the places of the events of the queue, in ticks from its start.
Places(at) ==
    /\ at \in [Event -> Nat]
    /\ event_queue # NULL => at[event_queue] = delta[event_queue]
    /\ \A e \in InQueue : /\ Small(at[e])
                          /\ next[e] # NULL => at[next[e]] = at[e] + delta[next[e]]

\* The counter runs for a small number of ticks.
Bounded == IF enabled THEN Small(ktimer_time + ktimer_delta) ELSE ktimer_time = 0

\* Since an expiry it has not run longer than its handling takes.
CounterOK ==
    /\ Bounded
    /\ Handling => pending
    /\ pending => ktimer_time <= lag

\* What is asked for, and what the counter had gone when it was read, is small; for
\* ipc_deliver() it had not gone longer than the handling takes.
RequestOK ==
    placing # NULL => /\ Small(asked) /\ Small(elapsed)
                      /\ placing = Deliver => asked = Period /\ elapsed <= lag

\* The handler is done with an expiry before the period of ipc_deliver() has
\* passed, and CONFIG_KTIMER_MINTICKS rounds at all.
Timely == MaxLag <= Period /\ MinTicks > 0

TimeInv == QueueInv /\ CounterOK /\ RequestOK /\ \E at : Places(at)

-----------------------------------------------------------------------------
(* The chain of events *)

LEMMA Fit == Fits /\ Links = [Event -> Event \cup {NULL}]
  <1>1. IsFiniteSet(Event) /\ Cardinality(Event) = NEvents
    BY FS_Interval, KTimerAssumption DEF Event
  <1>2. NEvents \in Nat /\ NULL \notin Event
    BY KTimerAssumption DEF Event, NULL
  <1> QED
    BY <1>1, <1>2 DEF Fits, Links

LEMMA ChainWay == \A e : Chain(e) = Way(next, e)
  BY DEF Chain, Way

LEMMA QueueReach == InQueue = Reach(next, event_queue)
  BY ChainWay DEF InQueue, Reach

\* The least number of a set.
LEMMA MinIs ==
    ASSUME NEW S \in SUBSET Nat, S # {}
    PROVE  Min(S) \in S /\ \A n \in S : Min(S) <= n
  BY LeastNatural DEF Min

LEMMA NullNoEvent == NULL \notin Event /\ NEvents \in Nat /\ NEvents >= 1
  BY KTimerAssumption DEF Event, NULL

\* What the invariant says of the queue alone.
Queued(Q) ==
    /\ next \in Links
    /\ used \in SUBSET Event /\ Q \subseteq used
    /\ IF event_queue = NULL THEN Q = {} ELSE event_queue \in Q
    /\ Listed(next, Q, event_queue, NULL)

LEMMA SplitQueued ==
    ASSUME TypeOK, NEW Q, NEW D, Split(Q, D)
    PROVE  Queued(Q)
  BY Fit DEF TypeOK, Split, Queued

\* The queue of m events: the chain from its head has as many.
LEMMA QueueLength ==
    ASSUME NEW Q, Queued(Q), NEW r, Ranked(next, used, r), event_queue # NULL
    PROVE  \E m \in 1 .. NEvents :
               /\ \A k \in 0 .. NEvents : Chain(event_queue)[k] # NULL <=> k < m
               /\ \A k \in 0 .. m - 1 : Chain(event_queue)[k] \in Q
               /\ \A k \in 0 .. m - 2 : Chain(event_queue)[k + 1] = next[Chain(event_queue)[k]]
               /\ next[Chain(event_queue)[m - 1]] = NULL
               /\ Length(event_queue) = m
  <1> DEFINE c == Chain(event_queue)
  <1>1. event_queue \in used /\ event_queue \in Event
    BY DEF Queued
  <1>2. Path(next, event_queue, c)
    BY <1>1, Fit, ChainWay, WayPath DEF Queued
  <1>3. /\ c[NEvents] = NULL
        /\ \A j, k \in 0 .. NEvents : j < k /\ c[k] # NULL => c[j] # NULL
    <2> HIDE DEF c
    <2>1. next \in Links /\ used \in SUBSET Event
      BY DEF Queued
    <2>2. c[NEvents] = NULL
      BY <1>1, <1>2, <2>1, Fit, PathEnds
    <2>3. \A j, k \in 0 .. NEvents : j < k /\ c[k] # NULL => c[j] # NULL /\ r[c[k]] < r[c[j]]
      BY <1>1, <1>2, <2>1, Fit, PathRank
    <2> QED
      BY <2>2, <2>3
  <1>4. {c[k] : k \in 0 .. NEvents} \ {NULL} = Q
    <2>1. Reach(next, event_queue) = Q
      BY Fit, ListedReach DEF Queued
    <2> QED
      BY <2>1, QueueReach DEF InQueue
  <1>5. c[0] = event_queue
        /\ \A k \in 1 .. NEvents : c[k] = IF c[k - 1] = NULL THEN NULL ELSE next[c[k - 1]]
    BY <1>2 DEF Path
  <1> HIDE DEF c
  <1> DEFINE T == {k \in 0 .. NEvents : c[k] = NULL}
  <1>6. T \in SUBSET Nat /\ T # {}
    BY <1>3, NullNoEvent
  <1>7. PICK m \in T : \A k \in T : m <= k
    BY <1>6, LeastNatural
  <1>8. m \in 1 .. NEvents
    BY <1>5, <1>7
  <1>9. ASSUME NEW k \in 0 .. NEvents
        PROVE  c[k] # NULL <=> k < m
    BY <1>3, <1>7, <1>8, <1>9
  <1>10. ASSUME NEW k \in 0 .. m - 1
         PROVE  c[k] \in Q
    <2>1. k \in 0 .. NEvents /\ c[k] # NULL
      BY <1>8, <1>9, NullNoEvent
    <2> QED
      BY <1>4, <2>1
  <1>11. ASSUME NEW k \in 0 .. m - 1
         PROVE  c[k + 1] = next[c[k]]
    <2>1. k + 1 \in 1 .. NEvents /\ (k + 1) - 1 = k /\ k \in 0 .. NEvents
      BY <1>8, NullNoEvent
    <2>2. c[k] # NULL
      BY <1>8, <1>9, <2>1
    <2> QED
      BY <1>5, <2>1, <2>2
  <1>12. next[c[m - 1]] = NULL
    <2>1. m - 1 \in 0 .. m - 1 /\ (m - 1) + 1 = m
      BY <1>8
    <2> QED
      BY <1>7, <1>11, <2>1
  <1>13. Length(event_queue) = m
    <2>1. {k \in 0 .. NEvents : c[k] # NULL} = 0 .. m - 1
      BY <1>8, <1>9, NullNoEvent
    <2>2. Cardinality(0 .. m - 1) = m
      BY <1>8, FS_Interval
    <2> QED
      BY <2>1, <2>2 DEF Length, c
  <1>14. \A k \in 0 .. m - 2 : c[k + 1] = next[c[k]]
    BY <1>8, <1>11
  <1> QED
    BY <1>8, <1>9, <1>10, <1>12, <1>13, <1>14 DEF c

\* The places of the chain are numbers, each the one before it and a delta.
LEMMA PositionIs ==
    ASSUME delta \in [Event -> Nat], NEW Q, Queued(Q)
    PROVE  /\ \A k \in 0 .. NEvents : Position[k] \in Nat
           /\ event_queue # NULL => Position[0] = delta[event_queue]
           /\ \A k \in 1 .. NEvents :
                  Position[k] = Position[k - 1] + (IF Chain(event_queue)[k] = NULL THEN 0
                                                   ELSE delta[Chain(event_queue)[k]])
  <1> DEFINE c == Chain(event_queue)
             add == [k \in 0 .. NEvents |-> IF c[k] = NULL THEN 0 ELSE delta[c[k]]]
             Step(s) == [k \in 0 .. NEvents |->
                            LET e == c[k]
                            IN (IF k = 0 THEN 0 ELSE s[k - 1])
                               + (IF e = NULL THEN 0 ELSE delta[e])]
             h == [x \in Nat \X Nat |-> x[2] + (IF x[1] \in 0 .. NEvents THEN add[x[1]] ELSE 0)]
             p == CHOOSE s : s = Step(s)
  <1>1. event_queue \in Event \cup {NULL}
    BY DEF Queued
  <1>2. Path(next, event_queue, c)
    BY <1>1, Fit, ChainWay, WayPath DEF Queued
  <1>3. c \in [0 .. NEvents -> Event \cup {NULL}] /\ c[0] = event_queue
    BY <1>2 DEF Path
  <1>4. Position = p
    BY DEF Position
  <1> HIDE DEF c
  <1>5. add \in [0 .. NEvents -> Nat]
    BY <1>3
  <1>6. \A k \in 0 .. NEvents : add[k] = IF c[k] = NULL THEN 0 ELSE delta[c[k]]
    OBVIOUS
  <1>7. \A s : Step(s) = [k \in 0 .. NEvents |-> (IF k = 0 THEN 0 ELSE s[k - 1]) + add[k]]
    OBVIOUS
  <1> HIDE DEF add, Step
  <1>8. h \in [Nat \X Nat -> Nat] /\ 0 \in 0 .. NEvents /\ add[0] \in Nat /\ NEvents \in Nat
    BY <1>5, NullNoEvent
  <1>9. \A k \in 0 .. NEvents, x \in Nat : h[<<k, x>>] = x + add[k]
    BY NullNoEvent
  <1> HIDE DEF h
  <1>10. PICK f : Recursive(f, Nat, add[0], h, NEvents)
    BY <1>8, Recursion
  <1>11. /\ f \in [0 .. NEvents -> Nat] /\ f[0] = add[0]
         /\ \A k \in 1 .. NEvents : f[k] = f[k - 1] + add[k]
    <2>1. ASSUME NEW k \in 1 .. NEvents
          PROVE  k - 1 \in 0 .. NEvents /\ k \in 0 .. NEvents
      BY <1>8
    <2> QED
      BY <1>9, <1>10, <2>1 DEF Recursive
  <1>12. f = Step(f)
    <2>1. \A k \in 0 .. NEvents : f[k] = (IF k = 0 THEN 0 ELSE f[k - 1]) + add[k]
      BY <1>5, <1>8, <1>11
    <2> QED
      BY <1>7, <1>11, <2>1
  <1>13. p = Step(p)
    BY <1>12
  <1> HIDE DEF p
  <1>14. \A k \in 0 .. NEvents : p[k] = (IF k = 0 THEN 0 ELSE p[k - 1]) + add[k]
    BY <1>7, <1>13
  <1>15. ASSUME NEW k \in 0 .. NEvents
         PROVE  p[k] \in Nat
    <2> DEFINE S == {m \in Nat : m <= NEvents => p[m] \in Nat}
    <2>1. 0 \in S
      BY <1>8, <1>14
    <2>2. ASSUME NEW m \in Nat, m \in S
          PROVE  m + 1 \in S
      <3> SUFFICES ASSUME m + 1 <= NEvents
                   PROVE  p[m + 1] \in Nat
        OBVIOUS
      <3>1. m + 1 \in 0 .. NEvents /\ (m + 1) - 1 = m /\ m + 1 # 0 /\ p[m] \in Nat
        BY <1>8, <2>2
      <3>2. p[m + 1] = p[m] + add[m + 1] /\ add[m + 1] \in Nat
        BY <1>5, <1>14, <3>1
      <3> QED
        BY <3>1, <3>2
    <2> HIDE DEF S
    <2>3. k \in S
      BY <1>8, <2>1, <2>2, SetInduction
    <2> QED
      BY <1>8, <2>3 DEF S
  <1>16. event_queue # NULL => p[0] = delta[event_queue]
    <2>1. p[0] = 0 + add[0]
      BY <1>8, <1>14
    <2> QED
      BY <1>3, <1>6, <1>8, <2>1
  <1>17. ASSUME NEW k \in 1 .. NEvents
         PROVE  p[k] = p[k - 1] + (IF c[k] = NULL THEN 0 ELSE delta[c[k]])
    <2>1. k \in 0 .. NEvents /\ k # 0
      BY <1>8
    <2> QED
      BY <1>6, <1>14, <2>1
  <1> QED
    BY <1>4, <1>15, <1>16, <1>17 DEF c

\* The search of ktimer_event_schedule() ends at an event of the queue: the
\* places before it are too early, and the next one, if any, is not.
LEMMA PredecessorIs ==
    ASSUME NEW ticks, NEW m \in 1 .. NEvents, Length(event_queue) = m
    PROVE  /\ Predecessor(ticks) \in 0 .. m - 1
           /\ Predecessor(ticks) < m - 1 => ticks <= Position[Predecessor(ticks) + 1]
           /\ \A j \in 0 .. m - 1 : j < Predecessor(ticks) => ~(ticks <= Position[j + 1])
  <1> DEFINE S == {k \in 0 .. m - 1 : k = m - 1 \/ ticks <= Position[k + 1]}
  <1>1. S \in SUBSET Nat /\ m - 1 \in S
    BY NullNoEvent
  <1>2. Predecessor(ticks) = Min(S)
    BY DEF Predecessor
  <1>3. Min(S) \in S /\ \A n \in S : Min(S) <= n
    <2> HIDE DEF S
    <2> QED
      BY <1>1, MinIs
  <1>4. ASSUME NEW j \in 0 .. m - 1, j < Min(S)
        PROVE  ~(ticks <= Position[j + 1])
    <2>1. j \notin S
      BY <1>1, <1>3, <1>4
    <2> QED
      BY <2>1
  <1>5. Min(S) \in 0 .. m - 1 /\ (Min(S) < m - 1 => ticks <= Position[Min(S) + 1])
    BY <1>3
  <1> QED
    BY <1>2, <1>4, <1>5

-----------------------------------------------------------------------------
(* Linking an event into the queue *)

\* A new link through e, which nothing led to, leaves the links ranked.
LEMMA RankedThrough ==
    ASSUME NEW g \in Links, NEW L \in SUBSET Event, NEW r, Ranked(g, L, r),
           NEW e \in Event, \A x \in L \ {e} : g[x] # e,
           NEW h \in Links, NEW n \in (L \ {e}) \cup {NULL}, h[e] = n,
           \A x \in L \ {e} : h[x] = g[x] \/ (h[x] = e /\ n = g[x])
    PROVE  \E s : Ranked(h, L \cup {e}, s)
  <1> DEFINE s == [x \in Event |-> IF x # e THEN 2 * r[x] + 2
                                   ELSE IF n = NULL THEN 0 ELSE 2 * r[n] + 3]
  <1>1. r \in [Event -> Nat] /\ NULL \notin Event
    BY NullNoEvent DEF Ranked
  <1>2. s \in [Event -> Nat]
    BY <1>1
  <1>3. h[e] \in (L \cup {e}) \cup {NULL} /\ (h[e] # NULL => s[h[e]] < s[e])
    <2>1. n # NULL => n \in Event /\ n # e /\ r[n] \in Nat
      BY <1>1
    <2>2. n # NULL => s[n] = 2 * r[n] + 2 /\ s[e] = 2 * r[n] + 3
      BY <2>1
    <2> QED
      BY <2>1, <2>2
  <1>4. ASSUME NEW x \in L, x # e
        PROVE  h[x] \in (L \cup {e}) \cup {NULL} /\ (h[x] # NULL => s[h[x]] < s[x])
    <2>1. /\ g[x] \in L \cup {NULL} /\ g[x] # e
          /\ g[x] # NULL => r[g[x]] < r[x] /\ r[g[x]] \in Nat
          /\ r[x] \in Nat /\ s[x] = 2 * r[x] + 2
      BY <1>1, <1>4 DEF Ranked
    <2>2. CASE h[x] = g[x]
      <3>1. g[x] # NULL => s[g[x]] = 2 * r[g[x]] + 2
        BY <2>1
      <3> QED
        BY <2>1, <2>2, <3>1
    <2>3. CASE h[x] = e /\ n = g[x]
      <3>1. s[e] = IF n = NULL THEN 0 ELSE 2 * r[n] + 3
        OBVIOUS
      <3> QED
        BY <2>1, <2>3, <3>1
    <2> QED
      BY <1>4, <2>2, <2>3
  <1> HIDE DEF s
  <1>5. Ranked(h, L \cup {e}, s)
    BY <1>2, <1>3, <1>4 DEF Ranked
  <1> QED
    BY <1>5

\* What the queue of the events Q is once e is linked into it.
Inserted(Q, e) ==
    /\ next' \in Links
    /\ event_queue' \in Q \cup {e}
    /\ Listed(next', Q \cup {e}, event_queue', NULL)
    /\ \A x \in Event \ (Q \cup {e}) : next'[x] = next[x]
    /\ \E s : Ranked(next', used \cup {e}, s)

\* An event that is not in the queue, and that nothing leads to, is linked in.
LEMMA QueueInsert ==
    ASSUME NEW Q, Queued(Q), NEW r, Ranked(next, used, r),
           NEW e \in Event, e \notin Q, \A x \in used \ {e} : next[x] # e,
           NEW t, Insert(t, e)
    PROVE  Inserted(Q, e)
  <1>1. /\ next \in Links /\ next \in [Event -> Event \cup {NULL}]
        /\ Q \in SUBSET Event /\ used \in SUBSET Event /\ Q \subseteq used \ {e}
        /\ IF event_queue = NULL THEN Q = {} ELSE event_queue \in Q
        /\ Listed(next, Q, event_queue, NULL)
        /\ event_queue \in (used \ {e}) \cup {NULL}
    BY Fit DEF Queued
  <1>2. NULL \notin Event
    BY NullNoEvent
  <1>3. ASSUME next' = [next EXCEPT ![e] = event_queue], event_queue' = e
        PROVE  Inserted(Q, e)
    <2>1. Listed(next', Q \cup {e}, e, NULL)
      BY <1>1, <1>2, <1>3, ListedPush
    <2>2. /\ next' \in Links /\ next'[e] = event_queue
          /\ \A x \in Event \ {e} : next'[x] = next[x]
      BY <1>1, <1>3, Fit
    <2>3. \E s : Ranked(next', used \cup {e}, s)
      BY <1>1, <2>2, RankedThrough
    <2> QED
      BY <1>3, <2>1, <2>2, <2>3 DEF Inserted
  <1>4. ASSUME NEW before \in Q, event_queue # NULL, UNCHANGED event_queue,
               next' = [next EXCEPT ![before] = e, ![e] = next[before]]
        PROVE  Inserted(Q, e)
    <2>1. Listed(next', Q \cup {e}, event_queue, NULL)
      BY <1>1, <1>2, <1>4, ListedInsert
    <2>2. /\ next' \in Links /\ next'[e] = next[before] /\ next'[before] = e
          /\ \A x \in Event \ {e, before} : next'[x] = next[x]
      BY <1>1, <1>4, Fit
    <2>3. next[before] \in (used \ {e}) \cup {NULL}
      BY <1>1, <1>4 DEF Listed
    <2>4. \A x \in used \ {e} : next'[x] = next[x] \/ (next'[x] = e /\ next[before] = next[x])
      BY <1>1, <2>2
    <2>5. \E s : Ranked(next', used \cup {e}, s)
      BY <1>1, <2>2, <2>3, <2>4, RankedThrough
    <2> QED
      BY <1>1, <1>4, <2>1, <2>2, <2>5 DEF Inserted
  <1>5. CASE ScheduleFirst(t, e)
    <2>1. event_queue = NULL /\ event_queue' = e /\ next' = [next EXCEPT ![e] = NULL]
      BY <1>5 DEF ScheduleFirst
    <2> QED
      BY <1>3, <2>1
  <1>6. CASE ScheduleEarly(t, e)
    <2>1. event_queue' = e /\ next' = [next EXCEPT ![e] = event_queue]
      BY <1>6 DEF ScheduleEarly
    <2> QED
      BY <1>3, <2>1
  <1>7. CASE ScheduleAfter(t, e)
    <2>1. event_queue # NULL /\ UNCHANGED event_queue
      BY <1>7 DEF ScheduleAfter
    <2>2. PICK m \in 1 .. NEvents : /\ \A k \in 0 .. m - 1 : Chain(event_queue)[k] \in Q
                                    /\ Length(event_queue) = m
      BY <2>1, QueueLength
    <2>3. Chain(event_queue)[Predecessor(t)] \in Q
      BY <2>2, PredecessorIs
    <2>4. \E before \in Q : next' = [next EXCEPT ![before] = e, ![e] = next[before]]
      BY <1>7, <2>3 DEF ScheduleAfter
    <2> QED
      BY <1>4, <2>1, <2>4
  <1> QED
    BY <1>5, <1>6, <1>7 DEF Insert

-----------------------------------------------------------------------------
(* Every step keeps the invariant *)

LEMMA Constants ==
    /\ Word \in Nat /\ Word > 0
    /\ First \in 0 .. Word - 1 /\ Small(First) /\ Small(Period)
    /\ \A ticks \in Requests : Small(ticks)
    /\ Deliver \in Event
  BY KTimerAssumption DEF Event, Deliver, Small

LEMMA ClampIs ==
    ASSUME NEW d \in 0 .. Word - 1
    PROVE  Clamp(d) \in {0, d}
  BY DEF Clamp

\* Scheduling an event keeps the types.
LEMMA ScheduleTypes ==
    ASSUME TypeOK, NEW Q, Queued(Q), NEW r, Ranked(next, used, r), NEW e \in Event,
           NEW t \in 0 .. Word - 1, Insert(t, e)
    PROVE  /\ delta' \in [Event -> 0 .. Word - 1]
           /\ enabled' \in BOOLEAN /\ ktimer_delta' \in 0 .. Word - 1 /\ ktimer_time' \in Nat
  <1>1. /\ delta \in [Event -> 0 .. Word - 1] /\ ktimer_time \in Nat
        /\ enabled \in BOOLEAN /\ ktimer_delta \in 0 .. Word - 1
        /\ event_queue \in Event \cup {NULL} /\ next \in [Event -> Event \cup {NULL}]
    BY DEF TypeOK
  <1>3. Enable(t) => enabled' \in BOOLEAN /\ ktimer_delta' \in 0 .. Word - 1 /\ ktimer_time' \in Nat
    <2>1. CASE enabled
      BY <1>1, <2>1 DEF Enable, counter
    <2>2. CASE ~enabled
      BY <2>2 DEF Enable
    <2> QED
      BY <2>1, <2>2
  <1>4. ASSUME NEW later, NEW d \in 0 .. Word - 1
        PROVE  Recalc(e, later, d) \in [Event -> 0 .. Word - 1]
    <2>1. \A f \in Event : (delta[f] + Word - d) % Word \in 0 .. Word - 1
      BY <1>1, Constants
    <2> QED
      BY <1>1, <2>1 DEF Recalc
  <1>5. CASE ScheduleFirst(t, e)
    BY <1>1, <1>3, <1>5 DEF ScheduleFirst
  <1>6. CASE ScheduleEarly(t, e)
    <2>1. Clamp(t) \in 0 .. Word - 1
      BY ClampIs, Constants
    <2> QED
      BY <1>3, <1>4, <1>6, <2>1 DEF ScheduleEarly
  <1>7. CASE ScheduleAfter(t, e)
    <2> DEFINE k == Predecessor(t)
               d == (t + Word - Position[k]) % Word
    <2>1. event_queue # NULL
      BY <1>7 DEF ScheduleAfter
    <2>2. PICK m \in 1 .. NEvents : Length(event_queue) = m
      BY <2>1, QueueLength
    <2>3. k \in 0 .. NEvents
      BY <2>2, PredecessorIs, NullNoEvent
    <2>4. Position[k] \in Nat
      <3>1. delta \in [Event -> Nat]
        BY <1>1, Constants
      <3> QED
        BY <2>3, <3>1, PositionIs
    <2>5. d \in 0 .. Word - 1
      BY <2>4, Constants
    <2>6. /\ delta' = Recalc(e, next[Chain(event_queue)[k]], Clamp(d))
          /\ UNCHANGED counter
      BY <1>7 DEF ScheduleAfter
    <2> HIDE DEF d, k
    <2>7. Clamp(d) \in 0 .. Word - 1
      BY <2>5, ClampIs, Constants
    <2> QED
      BY <1>1, <1>4, <2>6, <2>7 DEF counter
  <1> QED
    BY <1>5, <1>6, <1>7 DEF Insert

LEMMA QueueInit == Init => QueueInv
  <1> SUFFICES ASSUME Init
               PROVE  QueueInv
    OBVIOUS
  <1> USE DEF Init
  <1>1. TypeOK
    <2>1. /\ First \in 0 .. Word - 1 /\ 0 \in 0 .. Word - 1
          /\ 0 \in 0 .. MaxLag /\ 0 \in 0 .. MaxCalls /\ 0 \in Nat
      BY Constants, KTimerAssumption
    <2>2. delta \in [Event -> 0 .. Word - 1]
      BY <2>1
    <2> QED
      BY <2>1, <2>2, Constants DEF TypeOK
  <1>2. /\ next \in [Event -> Event \cup {NULL}] /\ \A e \in Event : next[e] = NULL
        /\ Deliver \in Event /\ NULL \notin Event
    BY Constants, NullNoEvent
  <1>3. Ranked(next, used, [e \in Event |-> 0])
    BY <1>2 DEF Ranked
  <1>4. Listed(next, {Deliver}, Deliver, NULL)
    BY <1>2 DEF Listed
  <1>5. Split({Deliver}, {})
    BY <1>2, <1>3, <1>4 DEF Split, Placing
  <1> QED
    BY <1>1, <1>2, <1>5 DEF QueueInv

\* A step that leaves the events alone.
LEMMA SplitSame ==
    ASSUME NEW Q, NEW D, Split(Q, D), UNCHANGED <<used, next, event_queue, event, last_event, placing>>
    PROVE  Split(Q, D)'
  BY DEF Split, Ranked, Listed, Placing

\* Nothing leads to an event that is neither in the queue nor due.
LEMMA Unlinked ==
    ASSUME TypeOK, NEW Q, NEW D, Split(Q, D), NEW e \in Event, e \notin Q, e \notin D
    PROVE  \A x \in Q \cup D : next[x] # e
  <1>1. \A x \in Q : next[x] \in Q \cup {NULL}
    BY DEF Split, Listed
  <1>2. D # {} => \A x \in D : next[x] \in D \cup {last_event} /\ last_event \in Q \cup {NULL}
    BY DEF Split, Listed
  <1> QED
    BY <1>1, <1>2, NullNoEvent

\* ktimer_event_schedule() up to where it has read the counter, of an event that
\* nothing leads to.
LEMMA QueueRead ==
    ASSUME TypeOK, NEW Q, NEW r, Ranked(next, used, r), Q \subseteq used, used \in SUBSET Event,
           NEW e \in Event, e \notin Q, NEW ticks \in {Period} \cup Requests, Read(ticks, e)
    PROVE  /\ next' \in [Event -> Event \cup {NULL}] /\ Ranked(next', used \cup {e}, r)
           /\ \A x \in Event \ {e} : next'[x] = next[x]
           /\ placing' = e /\ Placing' = {e}
           /\ placing' \in Event /\ asked' \in {0, Period} \cup Requests /\ elapsed' \in Nat
  <1>1. /\ next' = [next EXCEPT ![e] = NULL] /\ next \in [Event -> Event \cup {NULL}]
        /\ placing' = e /\ asked' = ticks /\ elapsed' = ktimer_time /\ ktimer_time \in Nat
    BY DEF Read, TypeOK
  <1>2. next'[e] = NULL /\ \A x \in Event \ {e} : next'[x] = next[x]
    BY <1>1
  <1>3. Ranked(next', used \cup {e}, r)
    BY <1>2 DEF Ranked
  <1> QED
    BY <1>1, <1>2, <1>3, NullNoEvent DEF Placing

LEMMA QueueCreate ==
    ASSUME QueueInv, NEW ticks \in Requests, Create(ticks)
    PROVE  QueueInv'
  <1>1. TypeOK /\ Deliver \in used /\ event = NULL /\ resetting = FALSE /\ clearing = FALSE /\ placing = NULL
    BY DEF QueueInv, Create, Handling, TypeOK
  <1>2. PICK Q, D : Split(Q, D)
    BY DEF QueueInv
  <1>3. D = {} /\ Q = used /\ Q \in SUBSET Event
    BY <1>1, <1>2 DEF Split, Placing, TypeOK
  <1>4. Min(Event \ used) \in Event \ used
    <2>1. Event \ used \in SUBSET Nat /\ Event \ used # {}
      BY DEF Create, Event
    <2> QED
      BY <2>1, MinIs
  <1>5. PICK e \in Event \ used : used' = used \cup {e} /\ Read(ticks, e)
    BY <1>4 DEF Create
  <1>6. PICK r : Ranked(next, used, r)
    BY <1>2 DEF Split
  <1>7. /\ next' \in [Event -> Event \cup {NULL}] /\ Ranked(next', used \cup {e}, r)
        /\ \A x \in Event \ {e} : next'[x] = next[x]
        /\ placing' = e /\ Placing' = {e}
        /\ placing' \in Event /\ asked' \in {0, Period} \cup Requests /\ elapsed' \in Nat
    BY <1>1, <1>3, <1>5, <1>6, QueueRead
  <1>8. /\ UNCHANGED <<delta, event_queue, counter, pending, loop, lag, late>>
        /\ calls' = calls + 1 /\ calls < MaxCalls
    BY DEF Create
  <1>9. TypeOK'
    <2>1. used' \in SUBSET Event
      BY <1>1, <1>5 DEF TypeOK
    <2>2. calls' \in 0 .. MaxCalls
      BY <1>1, <1>8, KTimerAssumption DEF TypeOK
    <2> QED
      BY <1>1, <1>7, <1>8, <2>1, <2>2 DEF TypeOK, counter, loop
  <1>10. Split(Q, {})'
    <2>1. event' = NULL /\ event_queue' = event_queue
      BY <1>1, <1>8 DEF loop
    <2>2. /\ \A x \in Q : next'[x] = next[x]
          /\ e \notin Q
          /\ IF event_queue = NULL THEN Q = {} ELSE event_queue \in Q
          /\ Listed(next, Q, event_queue, NULL)
      BY <1>2, <1>3, <1>5, <1>7 DEF Split
    <2>3. Listed(next', Q, event_queue', NULL)
      BY <2>1, <2>2 DEF Listed
    <2> QED
      BY <1>3, <1>5, <1>7, <2>1, <2>2, <2>3 DEF Split
  <1> QED
    BY <1>1, <1>5, <1>8, <1>9, <1>10 DEF QueueInv, loop

LEMMA RemainingType ==
    ASSUME TypeOK
    PROVE  Remaining \in 0 .. Word - 1
  <1>1. asked \in Nat /\ elapsed \in Nat /\ Word \in Nat /\ Word > 0
    BY Constants DEF TypeOK, Small
  <1> QED
    BY <1>1 DEF Remaining

\* The event that was being scheduled comes into the queue.
LEMMA ScheduleInserts ==
    ASSUME QueueInv, NEW Q, NEW D, Split(Q, D), Schedule
    PROVE  /\ Queued(Q) /\ placing \in Event /\ placing \notin Q /\ used \cup {placing} = used
           /\ \A x \in used \ {placing} : next[x] # placing
           /\ Inserted(Q, placing)
  <1>1. TypeOK /\ placing # NULL /\ Insert(Remaining, placing)
    BY DEF QueueInv, Schedule
  <1>2. Queued(Q)
    BY <1>1, SplitQueued
  <1>3. placing \in Event /\ placing \notin Q /\ placing \notin D /\ used \cup {placing} = used
        /\ used \ {placing} \subseteq Q \cup D
    BY <1>1 DEF Split, Placing, TypeOK
  <1>4. \A x \in used \ {placing} : next[x] # placing
    BY <1>1, <1>3, Unlinked
  <1>5. PICK r : Ranked(next, used, r)
    BY DEF Split
  <1>6. Inserted(Q, placing)
    BY <1>1, <1>2, <1>3, <1>4, <1>5, QueueInsert
  <1> QED
    BY <1>2, <1>3, <1>4, <1>6

LEMMA QueueSchedule ==
    ASSUME QueueInv, Schedule
    PROVE  QueueInv'
  <1>1. TypeOK /\ Deliver \in used /\ placing # NULL
    BY DEF QueueInv, Schedule
  <1>2. PICK Q, D : Split(Q, D)
    BY DEF QueueInv
  <1>3. /\ Queued(Q) /\ placing \in Event /\ placing \notin Q /\ used \cup {placing} = used
        /\ Inserted(Q, placing)
    BY <1>2, ScheduleInserts
  <1>4. PICK e : e = placing
    OBVIOUS
  <1>5. /\ UNCHANGED <<used, pending, loop, calls, late>>
        /\ placing' = NULL /\ asked' = 0 /\ elapsed' = 0 /\ Placing' = {}
        /\ lag' \in {lag, 0}
    BY DEF Schedule, Placing
  <1>6. PICK R : R = Q \cup {e}
    OBVIOUS
  <1>7. Q \cap D = {} /\ e \notin D /\ Q \cup D \cup {e} = used /\ Q \in SUBSET Event
    BY <1>1, <1>2, <1>4 DEF Split, Placing, TypeOK
  <1>8. Split(R, D)'
    <2>1. R \cap D = {} /\ R \cup D = used' /\ R \in SUBSET Event
      BY <1>3, <1>4, <1>5, <1>6, <1>7
    <2>2. event_queue' \in R /\ event_queue' # NULL /\ Listed(next', R, event_queue', NULL)
      BY <1>3, <1>4, <1>6, <2>1, NullNoEvent DEF Inserted
    <2>3. \E s : Ranked(next', used', s)
      BY <1>3, <1>5 DEF Inserted
    <2>4. \A x \in D : next'[x] = next[x]
      BY <1>1, <1>3, <1>4, <1>7 DEF Inserted, TypeOK
    <2>5. event' = event /\ last_event' = last_event
      BY <1>5 DEF loop
    <2>6. IF event = NULL THEN D = {} ELSE event \in D
      BY <1>2 DEF Split
    <2>7. event' # NULL => last_event' \in R \cup {NULL} /\ Listed(next', D, event', last_event')
      <3>1. ASSUME event # NULL
            PROVE  last_event \in Q \cup {NULL} /\ Listed(next, D, event, last_event)
        BY <1>2, <3>1 DEF Split
      <3>2. ASSUME event # NULL
            PROVE  Listed(next', D, event, last_event)
        BY <2>4, <3>1, <3>2 DEF Listed
      <3> QED
        BY <1>6, <2>5, <3>1, <3>2
    <2> QED
      BY <1>5, <2>1, <2>2, <2>3, <2>5, <2>6, <2>7 DEF Split
  <1>9. TypeOK'
    <2>1. PICK r : Ranked(next, used, r)
      BY <1>2 DEF Split
    <2>2. Insert(Remaining, placing)
      BY DEF Schedule
    <2>3. /\ delta' \in [Event -> 0 .. Word - 1]
          /\ enabled' \in BOOLEAN /\ ktimer_delta' \in 0 .. Word - 1 /\ ktimer_time' \in Nat
      BY <1>1, <1>3, <2>1, <2>2, RemainingType, ScheduleTypes
    <2>4. next' \in [Event -> Event \cup {NULL}] /\ event_queue' \in Event
      BY <1>3, <1>7, Fit DEF Inserted
    <2>5. lag' \in 0 .. MaxLag
      BY <1>1, <1>5, KTimerAssumption DEF TypeOK
    <2> QED
      BY <1>1, <1>5, <2>3, <2>4, <2>5 DEF TypeOK, loop
  <1> QED
    BY <1>1, <1>5, <1>8, <1>9 DEF QueueInv, loop

LEMMA QueueTick ==
    ASSUME QueueInv, Tick
    PROVE  QueueInv'
  <1>1. TypeOK /\ Deliver \in used
    BY DEF QueueInv
  <1>2. PICK Q, D : Split(Q, D)
    BY DEF QueueInv
  <1>3. Split(Q, D)'
    BY <1>2, SplitSame DEF Tick, queue, loop, request
  <1>4. lag' \in 0 .. MaxLag
    BY <1>1, KTimerAssumption DEF TypeOK, Tick
  <1>5. enabled' \in BOOLEAN /\ pending' \in BOOLEAN
    BY <1>1 DEF TypeOK, Tick, counter, Raise
  <1>6. ktimer_delta' \in 0 .. Word - 1 /\ ktimer_time' \in Nat
    BY <1>1, Constants DEF TypeOK, Tick, counter
  <1>7. late' \in SUBSET {"placing", "clearing"}
    BY <1>1 DEF TypeOK, Tick, Noticed
  <1>8. TypeOK'
    BY <1>1, <1>4, <1>5, <1>6, <1>7 DEF TypeOK, Tick, queue, loop, request
  <1> QED
    BY <1>1, <1>3, <1>8 DEF QueueInv, Tick, loop, request

\* The due events: those before the first that is due later.
LEMMA FirstLaterIs ==
    ASSUME NEW Q, Queued(Q), NEW r, Ranked(next, used, r), event_queue # NULL
    PROVE  FirstLater \in (Q \ {event_queue}) \cup {NULL}
  <1> DEFINE c == Chain(event_queue)
             T == {k \in 1 .. NEvents : LET e == c[k] IN e # NULL /\ delta[e] # 0}
  <1>1. event_queue \in used /\ next \in Links /\ used \in SUBSET Event
    BY DEF Queued
  <1>2. Path(next, event_queue, c)
    BY <1>1, Fit, ChainWay, WayPath DEF Queued
  <1>3. Reach(next, event_queue) = Q
    BY Fit, ListedReach DEF Queued
  <1>4. {c[k] : k \in 0 .. NEvents} \ {NULL} = Q
    BY <1>3, QueueReach DEF InQueue
  <1>5. FirstLater = IF T = {} THEN NULL ELSE c[Min(T)]
    BY DEF FirstLater
  <1>6. CASE T = {}
    BY <1>5, <1>6
  <1>7. CASE T # {}
    <2>1. T \in SUBSET Nat
      OBVIOUS
    <2>2. Min(T) \in T
      <3> HIDE DEF T
      <3> QED
        BY <1>7, <2>1, MinIs
    <2>3. Min(T) \in 1 .. NEvents /\ c[Min(T)] # NULL
      BY <2>2
    <2> HIDE DEF T, c
    <2>4. Min(T) \in 0 .. NEvents /\ 0 \in 0 .. NEvents /\ 0 < Min(T)
      BY <2>3, NullNoEvent
    <2>5. \A j, k \in 0 .. NEvents : j < k /\ c[k] # NULL => c[j] # NULL /\ r[c[k]] < r[c[j]]
      BY <1>1, <1>2, Fit, PathRank
    <2>6. r[c[Min(T)]] < r[c[0]] /\ c[0] = event_queue
      BY <1>2, <2>3, <2>4, <2>5 DEF Path
    <2>7. c[Min(T)] \in Q
      BY <1>4, <2>3, <2>4
    <2>8. c[Min(T)] # event_queue
      BY <1>1, <2>6, <2>7 DEF Ranked, Queued
    <2> QED
      BY <1>5, <1>7, <2>7, <2>8
  <1> QED
    BY <1>6, <1>7

LEMMA QueueHandlerStart ==
    ASSUME QueueInv, HandlerStart
    PROVE  QueueInv'
  <1>1. TypeOK /\ Deliver \in used /\ event = NULL /\ resetting = FALSE /\ clearing = FALSE /\ placing = NULL
    BY DEF QueueInv, HandlerStart, Handling, TypeOK
  <1>2. PICK Q, D : Split(Q, D)
    BY DEF QueueInv
  <1>3. D = {} /\ Q = used
    BY <1>1, <1>2 DEF Split, Placing
  <1>4. /\ event_queue # NULL
        /\ event' = event_queue /\ last_event' = FirstLater /\ event_queue' = FirstLater
        /\ UNCHANGED <<used, next, delta, enabled, ktimer_delta, ktimer_time, pending, resetting, clearing,
                       request, lag, calls, late>>
    BY <1>1, <1>2, <1>3 DEF HandlerStart, Split
  <1>5. PICK r : Ranked(next, used, r)
    BY <1>2 DEF Split
  <1>6. Queued(Q)
    BY <1>1, <1>2, SplitQueued
  <1>7. FirstLater \in (Q \ {event_queue}) \cup {NULL}
    BY <1>4, <1>5, <1>6, FirstLaterIs
  <1> DEFINE S == Reach(next, FirstLater)
  <1>8. /\ S \subseteq Q \ {event_queue}
        /\ IF FirstLater = NULL THEN S = {} ELSE FirstLater \in S
        /\ Listed(next, S, FirstLater, NULL)
        /\ Listed(next, Q \ S, event_queue, FirstLater)
    <2>1. /\ next \in Links /\ used \in SUBSET Event /\ Q \in SUBSET used /\ event_queue \in Q
          /\ Listed(next, Q, event_queue, NULL)
      BY <1>3, <1>4, <1>6 DEF Queued
    <2> QED
      BY <1>5, <1>7, <2>1, Fit, ListedSplit
  <1>9. \E R, E : Split(R, E)'
    <2>1. PICK R : R = S
      OBVIOUS
    <2>2. PICK E : E = Q \ R
      OBVIOUS
    <2>3. /\ R \cap E = {} /\ R \cup E = used' /\ event_queue \in E /\ event_queue # NULL
          /\ IF FirstLater = NULL THEN R = {} ELSE FirstLater \in R
          /\ Listed(next, R, FirstLater, NULL)
          /\ Listed(next, E, event_queue, FirstLater)
      <3> HIDE DEF S
      <3> QED
        BY <1>3, <1>4, <1>6, <1>8, <2>1, <2>2 DEF Queued
    <2>4. Ranked(next', used', r)
      BY <1>4, <1>5 DEF Ranked
    <2>5. Listed(next', R, event_queue', NULL) /\ Listed(next', E, event', last_event')
      BY <1>4, <2>3 DEF Listed
    <2>6. Placing' = {}
      BY <1>1, <1>4 DEF Placing, request
    <2>7. Split(R, E)'
      BY <1>4, <2>3, <2>4, <2>5, <2>6 DEF Split
    <2> QED
      BY <2>7
  <1>10. TypeOK'
    BY <1>1, <1>4, <1>6, <1>7, NullNoEvent DEF TypeOK, Queued, request
  <1> QED
    BY <1>1, <1>4, <1>9, <1>10 DEF QueueInv, request

LEMMA QueueHandlerStep ==
    ASSUME QueueInv, HandlerStep
    PROVE  QueueInv'
  <1>1. /\ TypeOK /\ Deliver \in used /\ event # NULL /\ resetting = FALSE /\ clearing = FALSE
        /\ placing = NULL /\ Placing = {}
    BY DEF QueueInv, HandlerStep, TypeOK, Placing
  <1>2. PICK Q, D : Split(Q, D)
    BY DEF QueueInv
  <1>3. PICK r : Ranked(next, used, r)
    BY <1>2 DEF Split
  <1>4. Queued(Q)
    BY <1>1, <1>2, SplitQueued
  <1>5. /\ Q \cap D = {} /\ Q \cup D = used /\ event \in D
        /\ last_event \in Q \cup {NULL} /\ Listed(next, D, event, last_event)
    BY <1>1, <1>2 DEF Split
  <1>6. next \in Links /\ used \in SUBSET Event /\ D \in SUBSET used /\ last_event \notin D
    BY <1>4, <1>5, NullNoEvent DEF Queued
  <1> DEFINE n == next[event]
  <1>0. PICK E : E = D \ {event}
    OBVIOUS
  <1>7. Listed(next, E, n, last_event) /\ IF n = last_event THEN E = {} ELSE n \in E
    BY <1>0, <1>3, <1>5, <1>6, Fit, ListedPop
  <1>8. IF n = NULL \/ n = last_event
        THEN event' = NULL /\ resetting' = TRUE
        ELSE event' = n /\ UNCHANGED resetting
    BY DEF HandlerStep, NextEvent
  <1>9. UNCHANGED <<delta, event_queue, counter, pending, last_event, clearing, lag, calls, late>>
    BY DEF HandlerStep
  <1>10. E \in SUBSET used /\ E \cap Q = {} /\ event \notin E /\ NULL \notin E
    BY <1>0, <1>5, <1>6, NullNoEvent
  <1>11. n = NULL => E = {}
    BY <1>7, <1>10
  <1>12. /\ IF event' = NULL THEN E = {} ELSE event' \in E
         /\ event' # NULL => event' = n
         /\ (resetting' => event' = NULL) /\ clearing' = FALSE
         /\ event' \in Event \cup {NULL} /\ resetting' \in BOOLEAN
    BY <1>1, <1>6, <1>7, <1>8, <1>9, <1>10, <1>11
  <1> HIDE DEF n
  <1>13. /\ event \in Event /\ event \notin Q /\ Q \subseteq used
         /\ IF event_queue = NULL THEN Q = {} ELSE event_queue \in Q
         /\ Listed(next, Q, event_queue, NULL)
    BY <1>4, <1>5, <1>6 DEF Queued
  \* The rest of the chain and the queue, whose links do not change.
  <1>14. ASSUME \A x \in Event \ {event} : next'[x] = next[x]
         PROVE  /\ Listed(next', Q, event_queue', NULL)
                /\ event' # NULL => Listed(next', E, event', last_event')
    <2>1. \A x \in Q \cup E : next'[x] = next[x]
      BY <1>6, <1>10, <1>13, <1>14
    <2>2. Listed(next', Q, event_queue, NULL) /\ Listed(next', E, n, last_event)
      BY <1>7, <1>13, <2>1 DEF Listed
    <2> QED
      BY <1>9, <1>12, <2>2
  <1>15. CASE event = Deliver
    <2>1. Read(Period, event) /\ used' = used
      BY <1>15 DEF HandlerStep
    <2>2. /\ next' \in [Event -> Event \cup {NULL}] /\ Ranked(next', used \cup {event}, r)
          /\ \A x \in Event \ {event} : next'[x] = next[x]
          /\ placing' = event /\ Placing' = {event}
          /\ placing' \in Event /\ asked' \in {0, Period} \cup Requests /\ elapsed' \in Nat
      BY <1>1, <1>3, <1>6, <1>13, <2>1, QueueRead
    <2>3. Split(Q, E)'
      <3>1. Q \cap E = {} /\ {event} \cap (Q \cup E) = {} /\ Q \cup E \cup {event} = used' /\ used \cup {event} = used'
        BY <1>0, <1>5, <1>10, <1>13, <2>1
      <3> QED
        BY <1>5, <1>9, <1>12, <1>13, <1>14, <2>2, <3>1 DEF Split
    <2>4. TypeOK'
      BY <1>1, <1>9, <1>12, <2>1, <2>2 DEF TypeOK, counter
    <2> QED
      BY <1>1, <1>12, <1>15, <2>1, <2>2, <2>3, <2>4 DEF QueueInv
  <1>16. CASE event # Deliver
    <2>1. used' = used \ {event} /\ UNCHANGED <<next, request>>
      BY <1>16 DEF HandlerStep
    <2>2. Ranked(next', used', r)
      <3>1. ASSUME NEW x \in used, x # event
            PROVE  next[x] # event
        <4>1. x \in D => next[x] # event
          BY <1>5 DEF Listed
        <4>2. x \in Q => next[x] \in Q \cup {NULL}
          BY <1>4 DEF Queued, Listed
        <4> QED
          BY <1>5, <1>6, <3>1, <4>1, <4>2, NullNoEvent
      <3> QED
        BY <1>3, <2>1, <3>1 DEF Ranked
    <2>3. Placing' = {} /\ placing' = NULL
      BY <1>1, <2>1 DEF Placing, request
    <2>4. Split(Q, E)'
      <3>1. Q \cap E = {} /\ Q \cup E = used' /\ \A x \in Event \ {event} : next'[x] = next[x]
        BY <1>0, <1>5, <1>10, <2>1
      <3> QED
        BY <1>5, <1>9, <1>12, <1>13, <1>14, <2>2, <2>3, <3>1 DEF Split
    <2>5. TypeOK'
      BY <1>1, <1>9, <1>12, <2>1 DEF TypeOK, counter, request
    <2> QED
      BY <1>1, <1>12, <1>16, <2>1, <2>3, <2>4, <2>5 DEF QueueInv
  <1> QED
    BY <1>15, <1>16

LEMMA QueueHandlerEnd ==
    ASSUME QueueInv, HandlerEnd
    PROVE  QueueInv'
  <1>1. TypeOK /\ Deliver \in used /\ event = NULL /\ placing = NULL
    BY DEF QueueInv, HandlerEnd
  <1>2. PICK Q, D : Split(Q, D)
    BY DEF QueueInv
  <1>3. /\ UNCHANGED <<used, next, delta, event_queue, event, pending, request, lag, calls, late>>
        /\ resetting' = FALSE /\ last_event' = NULL /\ clearing' = TRUE
    BY DEF HandlerEnd, queue
  <1>4. Split(Q, D)'
    BY <1>1, <1>2, <1>3 DEF Split, Ranked, Listed, Placing, request
  <1>5. enabled' \in BOOLEAN /\ ktimer_delta' \in 0 .. Word - 1 /\ ktimer_time' \in Nat
    <2>1. Reset /\ enabled \in BOOLEAN
      BY <1>1 DEF HandlerEnd, TypeOK
    <2>2. CASE event_queue # NULL /\ ~enabled
      <3>1. event_queue \in Event
        BY <1>1, <2>2 DEF TypeOK
      <3>2. delta[event_queue] \in 0 .. Word - 1
        BY <1>1, <3>1 DEF TypeOK
      <3> QED
        BY <2>1, <2>2, <3>2 DEF Reset, Enable
    <2>3. CASE ~(event_queue # NULL /\ ~enabled)
      BY <1>1, <2>1, <2>3 DEF Reset, Enable, counter, TypeOK
    <2> QED
      BY <2>2, <2>3
  <1>6. TypeOK'
    BY <1>1, <1>3, <1>5, NullNoEvent DEF TypeOK, request
  <1> QED
    BY <1>1, <1>3, <1>4, <1>6 DEF QueueInv, request

LEMMA QueueClear ==
    ASSUME QueueInv, Clear
    PROVE  QueueInv'
  <1>1. TypeOK /\ Deliver \in used /\ event = NULL
    BY DEF QueueInv, Clear
  <1>2. PICK Q, D : Split(Q, D)
    BY DEF QueueInv
  <1>3. /\ UNCHANGED <<used, queue, counter, event, last_event, resetting, request, calls, late>>
        /\ clearing' = FALSE /\ pending' = FALSE /\ lag' = 0
    BY DEF Clear
  <1>4. Split(Q, D)'
    BY <1>2, <1>3, SplitSame DEF queue, request
  <1>5. 0 \in 0 .. MaxLag
    BY KTimerAssumption
  <1>6. TypeOK'
    BY <1>1, <1>3, <1>5 DEF TypeOK, queue, counter, request
  <1> QED
    BY <1>1, <1>3, <1>4, <1>6 DEF QueueInv

LEMMA QueueStep == QueueInv /\ [Next]_vars => QueueInv'
  <1> SUFFICES ASSUME QueueInv, [Next]_vars
               PROVE  QueueInv'
    OBVIOUS
  <1>1. CASE \E ticks \in Requests : Create(ticks)
    BY <1>1, QueueCreate
  <1>2. CASE Tick
    BY <1>2, QueueTick
  <1>3. CASE Handler
    BY <1>3, QueueHandlerStart, QueueHandlerStep, QueueHandlerEnd, QueueClear DEF Handler
  <1>4. CASE UNCHANGED vars
    <2>1. PICK Q, D : Split(Q, D)
      BY DEF QueueInv
    <2>2. Split(Q, D)'
      BY <1>4, <2>1, SplitSame DEF vars, queue, loop, request
    <2> QED
      BY <1>4, <2>2 DEF QueueInv, TypeOK, vars, queue, counter, loop, request
  <1>5. CASE Schedule
    BY <1>5, QueueSchedule
  <1> QED
    BY <1>1, <1>2, <1>3, <1>4, <1>5 DEF Next

-----------------------------------------------------------------------------
(* What the invariant says of the queue and of the loop *)

\* The loop of the handler, from event to last_event, calls the events D.
LEMMA DueIs ==
    ASSUME TypeOK, NEW Q, NEW D, Split(Q, D)
    PROVE  DueChain = D
  <1>1. CASE event = NULL
    BY <1>1 DEF Split, DueChain
  <1>2. CASE event # NULL
    <2> DEFINE c == Chain(event)
               T == {k \in 1 .. NEvents : c[k] \in {NULL, last_event}}
    <2>1. PICK r : Ranked(next, used, r)
      BY DEF Split
    <2>2. /\ next \in Links /\ used \in SUBSET Event /\ D \in SUBSET used /\ event \in D
          /\ last_event \notin D /\ NULL \notin D /\ Listed(next, D, event, last_event)
      BY <1>2, Fit, NullNoEvent DEF Split, TypeOK
    <2>3. Path(next, event, c)
      BY <2>2, Fit, ChainWay, WayPath
    <2>4. c[NEvents] = NULL
      <3> HIDE DEF c
      <3> QED
        BY <2>1, <2>2, <2>3, Fit, PathEnds
    <2>5. T \in SUBSET Nat /\ NEvents \in T
      BY <2>4, NullNoEvent
    <2>6. Min(T) \in T /\ \A k \in T : Min(T) <= k
      <3> HIDE DEF T
      <3> QED
        BY <2>5, MinIs
    <2>7. PICK end : end = Min(T)
      OBVIOUS
    <2>8. /\ end \in 1 .. NEvents /\ c[end] \in {NULL, last_event}
          /\ \A k \in 1 .. NEvents : k < end => c[k] \notin {NULL, last_event}
      <3>1. \A k \in T : end <= k
        BY <2>6, <2>7
      <3>2. ASSUME NEW k \in 1 .. NEvents, k < end, c[k] \in {NULL, last_event}
            PROVE  FALSE
        <4>1. end <= k
          BY <3>1, <3>2
        <4> QED
          BY <2>6, <2>7, <3>2, <4>1
      <3> QED
        BY <2>6, <2>7, <3>2
    <2>9. DueChain = {c[k] : k \in 0 .. end - 1}
      BY <1>2, <2>7 DEF DueChain
    <2> HIDE DEF T, c
    <2>10. /\ c[0] = event
           /\ \A k \in 1 .. NEvents : c[k] = IF c[k - 1] = NULL THEN NULL ELSE next[c[k - 1]]
      BY <2>3 DEF Path
    <2>11. ASSUME NEW k \in 0 .. end - 1
           PROVE  c[k] \in D /\ c[k + 1] = next[c[k]]
      <3> DEFINE S == {m \in Nat : m < end => c[m] \in D}
      <3>1. 0 \in S
        BY <2>2, <2>10
      <3>2. ASSUME NEW m \in Nat, c[m] \in D, m < end
            PROVE  c[m + 1] = next[c[m]]
        <4>1. m + 1 \in 1 .. NEvents /\ (m + 1) - 1 = m
          BY <2>8, <3>2, NullNoEvent
        <4> QED
          BY <2>2, <2>10, <3>2, <4>1
      <3>3. ASSUME NEW m \in Nat, m \in S
            PROVE  m + 1 \in S
        <4> SUFFICES ASSUME m + 1 < end
                     PROVE  c[m + 1] \in D
          OBVIOUS
        <4>1. c[m] \in D /\ m < end /\ m + 1 \in 1 .. NEvents
          BY <2>8, <3>3, NullNoEvent
        <4>2. c[m + 1] = next[c[m]] /\ c[m + 1] \notin {NULL, last_event}
          BY <2>8, <3>2, <4>1
        <4> QED
          BY <2>2, <4>1, <4>2 DEF Listed
      <3> HIDE DEF S
      <3>4. k \in S /\ k \in Nat /\ k < end
        BY <2>8, <3>1, <3>3, SetInduction
      <3>5. c[k] \in D
        BY <3>4 DEF S
      <3> QED
        BY <3>2, <3>4, <3>5
    <2> DEFINE C == {c[k] : k \in 0 .. end - 1}
    <2>12. D \subseteq C
      <3>1. event \in C
        BY <2>8, <2>10
      <3>2. ASSUME NEW e \in D, e \in C, next[e] \in D
            PROVE  next[e] \in C
        <4>1. PICK k \in 0 .. end - 1 : e = c[k]
          BY <3>2
        <4>2. c[k + 1] = next[e]
          BY <2>11, <4>1
        <4>3. k + 1 # end
          BY <2>2, <2>8, <3>2, <4>2
        <4>4. k + 1 \in 0 .. end - 1
          BY <2>8, <4>1, <4>3
        <4> QED
          BY <4>2, <4>4
      <3> HIDE DEF C
      <3> QED
        BY <2>1, <2>2, <3>1, <3>2, Fit, ListInduction
    <2> QED
      BY <2>9, <2>11, <2>12
  <1> QED
    BY <1>1, <1>2

LEMMA QueueInvExact == QueueInv => QueueExact
  <1> SUFFICES ASSUME QueueInv
               PROVE  QueueExact
    OBVIOUS
  <1>1. TypeOK
    BY DEF QueueInv
  <1>2. PICK Q, D : Split(Q, D)
    BY DEF QueueInv
  <1>3. PICK r : Ranked(next, used, r)
    BY <1>2 DEF Split
  <1>4. Queued(Q)
    BY <1>1, <1>2, SplitQueued
  <1>5. DueChain = D
    BY <1>1, <1>2, DueIs
  <1>6. InQueue = Q
    BY <1>3, <1>4, Fit, QueueReach, ListedReach DEF Queued
  <1>7. Chain(event_queue)[NEvents] = NULL
    <2>1. Path(next, event_queue, Chain(event_queue)) /\ next \in Links /\ used \in SUBSET Event
      BY <1>1, Fit, ChainWay, WayPath DEF TypeOK
    <2>2. CASE event_queue = NULL
      <3>1. NEvents \in 0 .. NEvents /\ Path(next, NULL, Chain(event_queue))
        BY <2>1, <2>2, NullNoEvent
      <3> QED
        BY <2>1, <3>1, Fit, ReachNull
    <2>3. CASE event_queue # NULL
      <3>1. event_queue \in used
        BY <1>4, <2>3 DEF Queued
      <3> QED
        BY <1>3, <2>1, <3>1, Fit, PathEnds
    <2> QED
      BY <2>2, <2>3
  <1> QED
    BY <1>1, <1>2, <1>5, <1>6, <1>7 DEF Split, QueueExact, Placing

-----------------------------------------------------------------------------
(* The places of the events *)

\* Differences in 32 bits.
LEMMA Wraps ==
    ASSUME NEW a \in Nat, NEW b \in Nat, NEW w \in Nat, a < w, b < w
    PROVE  (a + w - b) % w = IF b <= a THEN a - b ELSE a + w - b
  OBVIOUS

LEMMA InQueueIs ==
    ASSUME NEW Q, Queued(Q), NEW r, Ranked(next, used, r)
    PROVE  InQueue = Q
  BY Fit, QueueReach, ListedReach DEF Queued

\* The sums of the deltas are the places.
LEMMA PositionIsPlace ==
    ASSUME delta \in [Event -> Nat], NEW Q, Queued(Q), NEW r, Ranked(next, used, r),
           NEW at, Places(at), NEW k \in 0 .. NEvents, Chain(event_queue)[k] # NULL
    PROVE  Position[k] = at[Chain(event_queue)[k]]
  <1> DEFINE c == Chain(event_queue)
  <1>1. event_queue # NULL
    <2>1. next \in Links /\ Path(next, event_queue, c)
      BY Fit, ChainWay, WayPath DEF Queued
    <2> QED
      BY <2>1, Fit, ReachNull
  <1>2. PICK m \in 1 .. NEvents :
               /\ \A j \in 0 .. NEvents : c[j] # NULL <=> j < m
               /\ \A j \in 0 .. m - 1 : c[j] \in Q
               /\ \A j \in 0 .. m - 2 : c[j + 1] = next[c[j]]
    BY <1>1, QueueLength
  <1>3. c[0] = event_queue
    <2>1. Path(next, event_queue, c)
      BY Fit, ChainWay, WayPath DEF Queued
    <2> QED
      BY <2>1 DEF Path
  <1>4. \A e \in Q : next[e] # NULL => at[next[e]] = at[e] + delta[next[e]]
    BY InQueueIs DEF Places
  <1>5. /\ Position[0] = delta[event_queue]
        /\ \A j \in 1 .. NEvents :
               Position[j] = Position[j - 1] + (IF c[j] = NULL THEN 0 ELSE delta[c[j]])
    BY <1>1, PositionIs
  <1>6. at[event_queue] = delta[event_queue]
    BY <1>1 DEF Places
  <1> HIDE DEF c
  <1> DEFINE S == {j \in Nat : j < m => Position[j] = at[c[j]]}
  <1>7. 0 \in S
    BY <1>3, <1>5, <1>6
  <1>8. ASSUME NEW j \in Nat, j \in S
        PROVE  j + 1 \in S
    <2> SUFFICES ASSUME j + 1 < m
                 PROVE  Position[j + 1] = at[c[j + 1]]
      OBVIOUS
    <2>1. /\ j + 1 \in 1 .. NEvents /\ (j + 1) - 1 = j /\ j \in 0 .. m - 2 /\ j \in 0 .. m - 1
          /\ j + 1 \in 0 .. NEvents
      BY <1>2, NullNoEvent
    <2>2. c[j + 1] # NULL /\ c[j] \in Q /\ c[j + 1] = next[c[j]]
      BY <1>2, <2>1
    <2>3. Position[j] = at[c[j]]
      BY <1>8, <1>2, <2>1
    <2>4. Position[j + 1] = Position[j] + delta[c[j + 1]]
      BY <1>5, <2>1, <2>2
    <2>5. at[c[j + 1]] = at[c[j]] + delta[c[j + 1]]
      BY <1>4, <2>2
    <2> QED
      BY <2>3, <2>4, <2>5
  <1> HIDE DEF S
  <1>9. k \in S
    BY <1>7, <1>8, SetInduction, NullNoEvent
  <1>10. k < m
    BY <1>2 DEF c
  <1> QED
    BY <1>9, <1>10 DEF S, c

\* Due() is the place of an event, now and in the next state.
DueIsPlace == \A at : QueueInv /\ Places(at) => \A e \in InQueue : Due(e) = at[e]

LEMMA DuePlace == DueIsPlace
  <1> SUFFICES ASSUME NEW at, QueueInv, Places(at), NEW e \in InQueue
               PROVE  Due(e) = at[e]
    BY DEF DueIsPlace
  <1> DEFINE k == CHOOSE j \in 0 .. NEvents : Chain(event_queue)[j] = e
  <1>1. TypeOK
    BY DEF QueueInv
  <1>2. PICK Q, D : Split(Q, D)
    BY DEF QueueInv
  <1>3. PICK r : Ranked(next, used, r)
    BY <1>2 DEF Split
  <1>4. Queued(Q)
    BY <1>1, <1>2, SplitQueued
  <1>5. k \in 0 .. NEvents /\ Chain(event_queue)[k] = e /\ e # NULL
    BY DEF InQueue
  <1>6. delta \in [Event -> Nat]
    BY <1>1, Constants DEF TypeOK
  <1>7. Due(e) = Position[k]
    BY DEF Due
  <1> HIDE DEF k
  <1>8. Position[k] = at[Chain(event_queue)[k]]
    BY <1>3, <1>4, <1>5, <1>6, PositionIsPlace
  <1> QED
    BY <1>5, <1>7, <1>8

LEMMA DuePlaceNext == DueIsPlace'
  BY DuePlace, PTL

\* The queue in the next state.
LEMMA InQueueNext == InQueue' = Reach(next', event_queue')
  BY DEF InQueue, Reach, Chain, Way

\* What the new queue is in terms of the places of its events.
LEMMA InsertedPlaces ==
    ASSUME NEW Q \in SUBSET Event, NEW e \in Event, used \in SUBSET Event, Q \subseteq used,
           Inserted(Q, e),
           NEW at \in [Event -> Nat],
           at[event_queue'] = delta'[event_queue'],
           \A x \in Q \cup {e} :
               Small(at[x]) /\ (next'[x] # NULL => at[next'[x]] = at[x] + delta'[next'[x]])
    PROVE  Places(at)' /\ InQueue' = Q \cup {e}
  <1>1. PICK s : Ranked(next', used \cup {e}, s)
    BY DEF Inserted
  <1>2. /\ next' \in Links /\ used \cup {e} \in SUBSET Event
        /\ Q \cup {e} \in SUBSET (used \cup {e})
        /\ event_queue' \in Q \cup {e} /\ event_queue' # NULL
        /\ Listed(next', Q \cup {e}, event_queue', NULL)
    BY NullNoEvent DEF Inserted
  <1>3. Reach(next', event_queue') = Q \cup {e}
    BY <1>1, <1>2, Fit, ListedReach
  <1>4. InQueue' = Q \cup {e}
    BY <1>3, InQueueNext
  <1> QED
    BY <1>4 DEF Places

\* What is left of the ticks asked for: a small number, or so large that its sign
\* bit and the one below are set.
LEMMA RemainingIs ==
    ASSUME Small(asked), Small(elapsed)
    PROVE  /\ Remaining \in 0 .. Word - 1
           /\ elapsed <= asked => Small(Remaining) /\ Remaining = asked - elapsed
           /\ elapsed > asked => 4 * Remaining > 3 * Word
  <1>1. /\ asked \in Nat /\ 4 * asked < Word /\ Word \in Nat
        /\ elapsed \in Nat /\ 4 * elapsed < Word
    BY Constants DEF Small
  <1>2. Remaining = IF elapsed <= asked THEN asked - elapsed ELSE asked + Word - elapsed
    <2>1. asked < Word /\ elapsed < Word
      BY <1>1
    <2>2. (asked + Word - elapsed) % Word = IF elapsed <= asked THEN asked - elapsed ELSE asked + Word - elapsed
      BY <1>1, <2>1, Wraps
    <2> QED
      BY <2>2 DEF Remaining
  <1> QED
    BY <1>1, <1>2 DEF Small

\* A delta is rounded down, by less than MinTicks; a negative one to nothing.
LEMMA ClampSmall ==
    ASSUME NEW d \in Nat, 4 * d < Word
    PROVE  /\ Clamp(d) \in Nat /\ Clamp(d) <= d
           /\ MinTicks > 0 => d < Clamp(d) + MinTicks
  <1>1. MinTicks \in Nat /\ Word \in Nat /\ ~(d >= Word \div 2)
    BY KTimerAssumption
  <1> QED
    BY <1>1 DEF Clamp

LEMMA ClampNegative ==
    ASSUME NEW d \in Nat, 2 * d > Word
    PROVE  Clamp(d) = 0
  <1>1. d >= Word \div 2
    BY KTimerAssumption
  <1> QED
    BY <1>1 DEF Clamp

\* at2 are the places with the event e linked in: no other event has moved, and
\* the new one is where the ticks say, or with the last one if they have wrapped.
PlacedAt(Q, e, t, at, at2) ==
    /\ at2 \in [Event -> Nat]
    /\ \A x \in Q : at2[x] = at[x]
    /\ Small(t) /\ MinTicks > 0 => at2[e] <= t /\ t < at2[e] + MinTicks
    /\ ~Small(t) => (\E x \in Q : at2[e] = at[x]) /\ \A x \in Q : at[x] <= at2[e]

\* The events of the queue are due in its order.
LEMMA PositionGrows ==
    ASSUME delta \in [Event -> Nat], NEW Q, Queued(Q), NEW k \in 0 .. NEvents
    PROVE  \A j \in 0 .. k : Position[j] <= Position[k]
  <1>1. /\ \A j \in 0 .. NEvents : Position[j] \in Nat
        /\ \A j \in 1 .. NEvents :
               Position[j] = Position[j - 1] + (IF Chain(event_queue)[j] = NULL THEN 0
                                                ELSE delta[Chain(event_queue)[j]])
    BY PositionIs
  <1>2. ASSUME NEW j \in 1 .. NEvents
        PROVE  Position[j - 1] <= Position[j]
    <2>1. j \in 0 .. NEvents /\ j - 1 \in 0 .. NEvents
      BY NullNoEvent
    <2>2. PICK p \in Nat, q \in Nat : p = Position[j - 1] /\ q = Position[j]
      BY <1>1, <2>1
    <2>3. Chain(event_queue)[j] # NULL => Chain(event_queue)[j] \in Event
      <3>1. Path(next, event_queue, Chain(event_queue))
        BY Fit, ChainWay, WayPath DEF Queued
      <3> QED
        BY <2>1, <3>1 DEF Path
    <2>4. PICK d \in Nat : d = IF Chain(event_queue)[j] = NULL THEN 0 ELSE delta[Chain(event_queue)[j]]
      BY <2>3
    <2>5. q = p + d
      BY <1>1, <2>2, <2>4
    <2> QED
      BY <2>2, <2>5
  <1> DEFINE S == {n \in Nat : n <= NEvents => \A j \in 0 .. n : Position[j] <= Position[n]}
  <1>3. 0 \in S
    BY <1>1, NullNoEvent
  <1>4. ASSUME NEW n \in Nat, n \in S
        PROVE  n + 1 \in S
    <2> SUFFICES ASSUME n + 1 <= NEvents, NEW j \in 0 .. n + 1
                 PROVE  Position[j] <= Position[n + 1]
      OBVIOUS
    <2>1. /\ n \in 0 .. NEvents /\ n + 1 \in 1 .. NEvents /\ n + 1 \in 0 .. NEvents /\ (n + 1) - 1 = n
          /\ j \in 0 .. NEvents
      BY NullNoEvent
    <2>2. Position[n] <= Position[n + 1]
      BY <1>2, <2>1
    <2>3. j # n + 1 => Position[j] <= Position[n]
      BY <1>4, <2>1
    <2>4. Position[j] \in Nat /\ Position[n] \in Nat /\ Position[n + 1] \in Nat
      BY <1>1, <2>1
    <2> QED
      BY <2>2, <2>3, <2>4
  <1> HIDE DEF S
  <1>5. k \in S /\ k <= NEvents
    BY <1>3, <1>4, SetInduction, NullNoEvent
  <1> QED
    BY <1>5 DEF S

\* The counter is started, if at all, for a small number of ticks.
LEMMA EnableBounded ==
    ASSUME TypeOK, Bounded, NEW ticks, Small(ticks), Enable(ticks)
    PROVE  Bounded' /\ ktimer_time' <= ktimer_time
  <1>1. ktimer_time \in Nat
    BY DEF TypeOK
  <1>2. CASE enabled
    BY <1>1, <1>2 DEF Enable, counter, Bounded
  <1>3. CASE ~enabled
    <2>1. enabled' = TRUE /\ ktimer_delta' = ticks /\ ktimer_time' = 0 /\ 0 + ticks = ticks
      BY <1>3 DEF Enable, Small
    <2> QED
      BY <1>1, <2>1 DEF Bounded
  <1> QED
    BY <1>2, <1>3

\* ktimer_event_schedule() keeps the places of the other events.
LEMMA InsertPlaces ==
    ASSUME TypeOK, Bounded, NEW Q, Queued(Q), NEW r, Ranked(next, used, r),
           NEW at, Places(at),
           NEW e \in Event, e \notin Q, \A x \in used \ {e} : next[x] # e,
           NEW t \in 0 .. Word - 1, Small(t) \/ 4 * t > 3 * Word, Insert(t, e),
           event_queue = NULL => Small(t)
    PROVE  /\ \E at2 : PlacedAt(Q, e, t, at, at2) /\ Places(at2)'
           /\ InQueue = Q /\ InQueue' = Q \cup {e}
           /\ Bounded' /\ ktimer_time' <= ktimer_time
  <1>1. /\ next \in [Event -> Event \cup {NULL}]
        /\ Q \in SUBSET Event /\ used \in SUBSET Event /\ Q \subseteq used
        /\ IF event_queue = NULL THEN Q = {} ELSE event_queue \in Q
        /\ \A x \in Q : next[x] \in Q \cup {NULL} /\ next[x] # event_queue
        /\ \A x, y \in Q : next[x] = next[y] => x = y
        /\ NULL \notin Event
    BY Fit, NullNoEvent DEF Queued, Listed
  <1>2. /\ delta \in [Event -> Nat] /\ ktimer_time \in Nat /\ ktimer_delta \in Nat
        /\ Word \in Nat
    BY Constants DEF TypeOK, Small
  <1>3. InQueue = Q
    BY InQueueIs
  <1>4. /\ at \in [Event -> Nat]
        /\ event_queue # NULL => at[event_queue] = delta[event_queue]
        /\ \A x \in Q : /\ at[x] \in Nat /\ 4 * at[x] < Word
                        /\ next[x] # NULL => at[next[x]] = at[x] + delta[next[x]]
    BY <1>3 DEF Places, Small
  <1>5. Inserted(Q, e)
    BY QueueInsert
  <1>6. /\ Small(t) => 4 * t < Word
        /\ t \in Nat /\ t < Word
        /\ ~Small(t) => 4 * t > 3 * Word
    BY <1>2 DEF Small
  \* What is left to show is where the new event is, and what is after it.
  <1>7. ASSUME NEW n \in Nat, 4 * n < Word,
               \A x \in Q : next'[x] # NULL /\ next'[x] # e => next'[x] = next[x],
               \A x \in Q : next'[x] = e => n = at[x] + delta'[e],
               event_queue' = e => n = delta'[e],
               next'[e] # NULL => next'[e] \in Q /\ at[next'[e]] = n + delta'[next'[e]],
               \A x \in Q : x # next'[e] => delta'[x] = delta[x],
               event_queue' # e => event_queue' = event_queue /\ next'[e] # event_queue,
               \A x \in Q : next'[x] # NULL => next'[x] # next'[e],
               Small(t) /\ MinTicks > 0 => n <= t /\ t < n + MinTicks,
               ~Small(t) => (\E x \in Q : n = at[x]) /\ \A x \in Q : at[x] <= n
        PROVE  /\ \E at2 : PlacedAt(Q, e, t, at, at2) /\ Places(at2)'
               /\ InQueue' = Q \cup {e}
    <2> DEFINE at2 == [at EXCEPT ![e] = n]
    <2>1. at2 \in [Event -> Nat] /\ at2[e] = n /\ \A x \in Event : x # e => at2[x] = at[x]
      BY <1>4
    <2> HIDE DEF at2
    <2>2. \A x \in Q : at2[x] = at[x] /\ x # e /\ x \in Event
      BY <1>1, <2>1
    <2>3. event_queue' \in Q \cup {e} /\ next' \in [Event -> Event \cup {NULL}]
          /\ \A x \in Q \cup {e} : next'[x] \in (Q \cup {e}) \cup {NULL}
      BY <1>5, Fit DEF Inserted, Listed
    <2>4. at2[event_queue'] = delta'[event_queue']
      <3>1. CASE event_queue' = e
        BY <1>7, <2>1, <3>1
      <3>2. CASE event_queue' # e
        BY <1>1, <1>4, <1>7, <2>2, <2>3, <3>2
      <3> QED
        BY <3>1, <3>2
    <2>5. ASSUME NEW x \in Q \cup {e}
          PROVE  Small(at2[x])
      BY <1>4, <1>7, <2>1, <2>2 DEF Small
    <2>6. ASSUME NEW x \in Q \cup {e}, next'[x] # NULL
          PROVE  at2[next'[x]] = at2[x] + delta'[next'[x]]
      <3>1. CASE x = e
        BY <1>7, <2>1, <2>2, <2>6, <3>1
      <3>2. CASE x # e /\ next'[x] = e
        BY <1>7, <2>1, <2>2, <3>2
      <3>3. CASE x # e /\ next'[x] # e
        <4>1. x \in Q /\ next'[x] = next[x] /\ next'[x] \in Q /\ next'[x] # next'[e]
          BY <1>7, <2>3, <2>6, <3>3
        <4>2. delta'[next'[x]] = delta[next[x]]
          BY <1>7, <4>1
        <4> QED
          BY <1>4, <2>2, <2>6, <4>1, <4>2
      <3> QED
        BY <3>1, <3>2, <3>3
    <2>7. Places(at2)' /\ InQueue' = Q \cup {e}
      BY <1>1, <1>5, <2>1, <2>4, <2>5, <2>6, InsertedPlaces
    <2>8. PlacedAt(Q, e, t, at, at2)
      BY <1>7, <2>1, <2>2 DEF PlacedAt
    <2> QED
      BY <2>7, <2>8
  <1>8. CASE ScheduleFirst(t, e)
    <2>1. /\ event_queue = NULL /\ event_queue' = e
          /\ next' = [next EXCEPT ![e] = NULL] /\ delta' = [delta EXCEPT ![e] = t]
          /\ Enable(t)
      BY <1>8 DEF ScheduleFirst
    <2>2. Q = {} /\ next'[e] = NULL /\ delta'[e] = t
      BY <1>1, <1>2, <2>1
    <2>3. t \in Nat /\ 4 * t < Word /\ Small(t)
      BY <1>6, <2>1
    <2>4. MinTicks > 0 => t <= t /\ t < t + MinTicks
      BY <2>3, KTimerAssumption
    <2>5. Bounded' /\ ktimer_time' <= ktimer_time
      BY <2>1, <2>3, EnableBounded DEF Small
    <2> QED
      BY <1>3, <1>7, <2>1, <2>2, <2>3, <2>4, <2>5
  <1>9. CASE ScheduleEarly(t, e)
    <2>1. /\ event_queue # NULL /\ event_queue' = e /\ t < delta[event_queue]
          /\ next' = [next EXCEPT ![e] = event_queue]
          /\ delta' = Recalc(e, event_queue, Clamp(t))
          /\ Enable(t)
      BY <1>9 DEF ScheduleEarly
    <2>2. PICK h : h = event_queue
      OBVIOUS
    <2>3. h \in Q /\ h \in Event /\ h # e /\ at[h] = delta[h] /\ delta[h] \in Nat /\ 4 * delta[h] < Word
      BY <1>1, <1>2, <1>4, <2>1, <2>2
    <2>4. 4 * t < Word /\ Small(t)
      BY <1>2, <1>6, <2>1, <2>2, <2>3
    <2>5. PICK d : d = Clamp(t)
      OBVIOUS
    <2>6. d \in Nat /\ d <= t /\ (MinTicks > 0 => t < d + MinTicks)
      BY <1>6, <2>4, <2>5, ClampSmall
    <2>7. d <= delta[h]
      BY <1>6, <2>1, <2>2, <2>3, <2>6
    <2>8. (delta[h] + Word - d) % Word = delta[h] - d
      BY <1>2, <2>3, <2>6, <2>7, Wraps
    <2>9. /\ delta'[e] = d /\ delta'[h] = delta[h] - d
          /\ \A x \in Event : x # e /\ x # h => delta'[x] = delta[x]
      BY <2>1, <2>2, <2>3, <2>5, <2>8 DEF Recalc
    <2>10. next'[e] = h /\ \A x \in Event : x # e => next'[x] = next[x]
      BY <1>1, <2>1, <2>2
    <2>11. 4 * d < Word /\ (MinTicks > 0 => d <= t /\ t < d + MinTicks)
      BY <1>2, <1>6, <2>4, <2>6, KTimerAssumption
    <2>12. \A x \in Q : x # e /\ x \in Event /\ next'[x] = next[x] /\ next[x] # e /\ next[x] # h
      BY <1>1, <2>2, <2>10
    <2>13. at[h] = d + delta'[h]
      BY <2>3, <2>6, <2>7, <2>9
    <2>14. Bounded' /\ ktimer_time' <= ktimer_time
      BY <1>6, <2>1, <2>4, EnableBounded DEF Small
    <2> QED
      BY <1>3, <1>7, <2>1, <2>3, <2>4, <2>6, <2>9, <2>10, <2>11, <2>12, <2>13, <2>14
  <1>10. CASE ScheduleAfter(t, e)
    <2>1. /\ event_queue # NULL /\ t >= delta[event_queue]
          /\ UNCHANGED event_queue /\ UNCHANGED counter
      BY <1>10 DEF ScheduleAfter
    <2>2. PICK m \in 1 .. NEvents :
               /\ \A j \in 0 .. NEvents : Chain(event_queue)[j] # NULL <=> j < m
               /\ \A j \in 0 .. m - 1 : Chain(event_queue)[j] \in Q
               /\ \A j \in 0 .. m - 2 : Chain(event_queue)[j + 1] = next[Chain(event_queue)[j]]
               /\ next[Chain(event_queue)[m - 1]] = NULL
               /\ Length(event_queue) = m
      BY <2>1, QueueLength
    <2>3. PICK k : k = Predecessor(t)
      OBVIOUS
    <2>4. /\ k \in 0 .. m - 1
          /\ k < m - 1 => t <= Position[k + 1]
          /\ \A j \in 0 .. m - 1 : j < k => ~(t <= Position[j + 1])
      BY <2>2, <2>3, PredecessorIs
    <2>5. PICK before : before = Chain(event_queue)[k]
      OBVIOUS
    <2>6. before \in Q
      BY <2>2, <2>4, <2>5
    <2>7. PICK later : later = next[before]
      OBVIOUS
    <2>8. /\ next' = [next EXCEPT ![before] = e, ![e] = later]
          /\ delta' = Recalc(e, later, Clamp((t + Word - Position[k]) % Word))
      BY <1>10, <2>3, <2>5, <2>7 DEF ScheduleAfter
    <2>9. ASSUME NEW j \in 0 .. m - 1
          PROVE  Position[j] = at[Chain(event_queue)[j]] /\ Position[j] \in Nat
      <3>1. j \in 0 .. NEvents /\ Chain(event_queue)[j] # NULL
        BY <1>1, <2>2, <2>9, NullNoEvent
      <3> QED
        BY <1>2, <3>1, PositionIsPlace, PositionIs
    <2>10. PICK p : p = at[before]
      OBVIOUS
    <2>11. p = Position[k] /\ p \in Nat /\ 4 * p < Word
      BY <1>4, <2>4, <2>5, <2>6, <2>9, <2>10
    <2>12. p <= t
      <3>1. CASE k = 0
        <4>1. Position[0] = delta[event_queue]
          BY <1>2, <2>1, PositionIs
        <4> QED
          BY <2>1, <2>11, <3>1, <4>1
      <3>2. CASE k # 0
        <4>1. k - 1 \in 0 .. m - 1 /\ k - 1 < k /\ (k - 1) + 1 = k
          BY <2>4, <3>2
        <4>2. ~(t <= Position[k])
          BY <2>4, <4>1
        <4> QED
          BY <1>6, <2>11, <4>2
      <3> QED
        BY <3>1, <3>2
    <2>13. later # NULL => t <= at[later] /\ later \in Q /\ at[later] = p + delta[later]
      <3>1. ASSUME later # NULL
            PROVE  k < m - 1
        BY <2>2, <2>4, <2>5, <2>7, <3>1
      <3>2. ASSUME later # NULL
            PROVE  Position[k + 1] = at[later]
        <4>1. k \in 0 .. m - 2 /\ k + 1 \in 0 .. m - 1
          BY <2>4, <3>1, <3>2
        <4>2. Chain(event_queue)[k + 1] = later
          BY <2>2, <2>5, <2>7, <4>1
        <4> QED
          BY <2>9, <4>1, <4>2
      <3> QED
        BY <1>1, <1>4, <2>4, <2>6, <2>7, <2>10, <3>1, <3>2
    <2>14. (t + Word - Position[k]) % Word = t - p
      <3>1. p \in Nat /\ p < Word /\ t \in Nat /\ t < Word /\ p <= t
        BY <1>2, <1>6, <2>11, <2>12
      <3>2. (t + Word - p) % Word = t - p
        BY <1>2, <3>1, Wraps
      <3> QED
        BY <2>11, <3>2
    <2>15. PICK d : d = Clamp(t - p)
      OBVIOUS
    <2>16. /\ d \in Nat /\ d <= t - p
           /\ ~Small(t) => d = 0 /\ later = NULL
           /\ Small(t) /\ MinTicks > 0 => t - p < d + MinTicks
      <3>1. CASE Small(t)
        <4>1. t - p \in Nat /\ 4 * (t - p) < Word
          BY <1>2, <1>6, <2>11, <2>12, <3>1
        <4> QED
          BY <1>2, <2>15, <3>1, <4>1, ClampSmall
      <3>2. CASE ~Small(t)
        <4>1. t - p \in Nat /\ 2 * (t - p) > Word
          BY <1>2, <1>6, <2>11, <2>12, <3>2
        <4>2. d = 0
          BY <2>15, <4>1, ClampNegative
        <4>3. later = NULL
          BY <1>2, <1>4, <1>6, <2>13, <3>2
        <4> QED
          BY <1>2, <3>2, <4>1, <4>2, <4>3
      <3> QED
        BY <3>1, <3>2
    <2>17. PICK n : n = p + d
      OBVIOUS
    <2>18. /\ n \in Nat /\ 4 * n < Word
           /\ Small(t) /\ MinTicks > 0 => n <= t /\ t < n + MinTicks
      <3>1. CASE Small(t)
        BY <1>2, <1>6, <2>11, <2>12, <2>16, <2>17, <3>1, KTimerAssumption
      <3>2. CASE ~Small(t)
        BY <1>2, <2>11, <2>16, <2>17, <3>2
      <3> QED
        BY <3>1, <3>2
    <2>w. ~Small(t) => (\E x \in Q : n = at[x]) /\ \A x \in Q : at[x] <= n
      <3> SUFFICES ASSUME ~Small(t)
                   PROVE  (\E x \in Q : n = at[x]) /\ \A x \in Q : at[x] <= n
        OBVIOUS
      <3>1. n = p /\ k = m - 1
        <4>1. k < m - 1 => Chain(event_queue)[k + 1] # NULL /\ Chain(event_queue)[k + 1] = later
          <5>1. k < m - 1 => k \in 0 .. m - 2 /\ k + 1 \in 0 .. NEvents /\ k + 1 < m
            BY <2>4, NullNoEvent
          <5> QED
            BY <2>2, <2>5, <2>7, <5>1
        <4> QED
          BY <2>4, <2>11, <2>16, <2>17, <4>1
      <3>2. ASSUME NEW x \in Q
            PROVE  at[x] <= n
        <4>1. PICK j \in 0 .. NEvents : x = Chain(event_queue)[j] /\ x # NULL
          BY <1>3 DEF InQueue
        <4>2. j \in 0 .. m - 1 /\ j \in 0 .. k /\ k \in 0 .. NEvents
          BY <2>2, <3>1, <4>1, NullNoEvent
        <4>3. Position[j] = at[x]
          BY <2>9, <4>1, <4>2
        <4>4. Position[j] <= Position[k]
          BY <1>2, <4>2, PositionGrows
        <4> QED
          BY <2>11, <3>1, <4>3, <4>4
      <3> QED
        BY <2>6, <2>10, <3>1, <3>2
    <2>19. ASSUME later # NULL
           PROVE  (delta[later] + Word - d) % Word = delta[later] - d /\ d <= delta[later]
      <3>1. /\ later \in Event /\ delta[later] \in Nat /\ at[later] = p + delta[later]
            /\ t <= at[later] /\ 4 * at[later] < Word
        BY <1>1, <1>2, <1>4, <2>13, <2>19
      <3>2. d <= delta[later] /\ delta[later] < Word
        BY <1>2, <1>6, <2>11, <2>12, <2>16, <3>1
      <3>3. d < Word
        BY <1>2, <2>16, <3>1, <3>2
      <3> QED
        BY <1>2, <2>16, <3>1, <3>2, <3>3, Wraps
    <2>20. before # e /\ later # e /\ before \in Event
      BY <1>1, <2>6, <2>7
    <2>21. /\ delta'[e] = d
           /\ later # NULL => delta'[later] = delta[later] - d
           /\ \A x \in Event : x # e /\ x # later => delta'[x] = delta[x]
      <3>1. delta' = Recalc(e, later, d)
        BY <2>8, <2>14, <2>15
      <3>2. later # NULL => later \in Event
        BY <1>1, <2>13
      <3> QED
        BY <2>19, <2>20, <3>1, <3>2 DEF Recalc
    <2>22. /\ next'[e] = later /\ next'[before] = e
           /\ \A x \in Event : x # e /\ x # before => next'[x] = next[x]
      BY <1>1, <2>8, <2>20
    <2>23. \A x \in Q : /\ next'[x] # e => next'[x] = next[x]
                        /\ next'[x] = e => x = before
                        /\ next'[x] # NULL => next'[x] # later
                        /\ x # e /\ x \in Event
      <3>1. ASSUME NEW x \in Q
            PROVE  x # e /\ x \in Event /\ next[x] # e
        BY <1>1
      <3>2. ASSUME NEW x \in Q, x # before
            PROVE  next'[x] = next[x] /\ (next[x] # NULL => next[x] # later)
        BY <1>1, <2>6, <2>7, <2>22, <3>1, <3>2
      <3> QED
        BY <2>20, <2>22, <3>1, <3>2
    <2>24. later # NULL => later \in Q /\ at[later] = n + delta'[later]
      <3>1. ASSUME later # NULL
            PROVE  later \in Event /\ delta[later] \in Nat
        BY <1>1, <1>2, <2>13, <3>1
      <3> QED
        BY <2>11, <2>13, <2>16, <2>17, <2>19, <2>21, <3>1
    <2>25. event_queue' = event_queue /\ event_queue # e /\ later # event_queue
      BY <1>1, <2>1, <2>6, <2>7
    <2>26. \A x \in Q : next'[x] = e => n = at[x] + delta'[e]
      BY <2>10, <2>17, <2>21, <2>23
    <2>27. Bounded' /\ ktimer_time' <= ktimer_time
      BY <1>2, <2>1 DEF counter, Bounded
    <2> QED
      BY <1>3, <1>7, <2>18, <2>w, <2>21, <2>22, <2>23, <2>24, <2>25, <2>26, <2>27
  <1> QED
    BY <1>8, <1>9, <1>10 DEF Insert

-----------------------------------------------------------------------------
(* Every step keeps the places *)

\* The event that was being scheduled comes into the queue, and no other event of
\* it moves.
LEMMA ScheduleShifts ==
    ASSUME MaxLag <= Period, QueueInv, Bounded, RequestOK, NEW at, Places(at), Schedule
    PROVE  /\ \E at2 : PlacedAt(InQueue, placing, Remaining, at, at2) /\ Places(at2)'
           /\ placing \in InQueue'
           /\ Bounded' /\ ktimer_time' <= ktimer_time
           /\ Small(Remaining) <=> elapsed <= asked
           /\ Small(Remaining) => Remaining = asked - elapsed
           /\ InQueue = {} => elapsed <= asked
  <1>1. TypeOK /\ placing # NULL /\ Insert(Remaining, placing) /\ Deliver \in used
    BY DEF QueueInv, Schedule
  <1>2. PICK Q, D : Split(Q, D)
    BY DEF QueueInv
  <1>3. PICK r : Ranked(next, used, r)
    BY <1>2 DEF Split
  <1>4. /\ Queued(Q) /\ placing \in Event /\ placing \notin Q /\ used \cup {placing} = used
        /\ \A x \in used \ {placing} : next[x] # placing
    BY <1>2, ScheduleInserts
  <1>5. Small(asked) /\ Small(elapsed) /\ (placing = Deliver => asked = Period /\ elapsed <= lag)
    BY <1>1 DEF RequestOK
  <1>6. /\ Remaining \in 0 .. Word - 1
        /\ elapsed <= asked => Small(Remaining) /\ Remaining = asked - elapsed
        /\ elapsed > asked => 4 * Remaining > 3 * Word
    BY <1>5, RemainingIs
  <1>7. asked \in Nat /\ elapsed \in Nat /\ Word \in Nat
    BY <1>5, Constants DEF Small
  <1>8. Q = {} => elapsed <= asked
    <2> SUFFICES ASSUME Q = {}
                 PROVE  elapsed <= asked
      OBVIOUS
    <2>1. placing = Deliver
      <3>1. placing # Deliver => event = NULL
        BY <1>1 DEF QueueInv
      <3>2. placing # Deliver => D = {} /\ Q \cup D \cup {placing} = used
        BY <1>1, <1>2, <3>1 DEF Split, Placing
      <3> QED
        BY <1>1, <3>2
    <2>2. lag \in 0 .. MaxLag /\ Period \in Nat /\ MaxLag \in Nat
      BY <1>1, KTimerAssumption DEF TypeOK
    <2> QED
      BY <1>5, <1>7, <2>1, <2>2
  <1>9. event_queue = NULL => Q = {}
    BY <1>4 DEF Queued
  <1>10. Small(Remaining) <=> elapsed <= asked
    <2>1. 4 * Remaining > 3 * Word => ~Small(Remaining)
      BY <1>6, <1>7 DEF Small
    <2> QED
      BY <1>6, <1>7, <2>1
  <1>11. Small(Remaining) \/ 4 * Remaining > 3 * Word
    BY <1>6, <1>7
  <1>12. PICK t : t = Remaining
    OBVIOUS
  <1>13. PICK e : e = placing
    OBVIOUS
  <1>14. /\ \E at2 : PlacedAt(Q, e, t, at, at2) /\ Places(at2)'
         /\ InQueue = Q /\ InQueue' = Q \cup {e}
         /\ Bounded' /\ ktimer_time' <= ktimer_time
    <2>1. /\ e \in Event /\ e \notin Q /\ \A x \in used \ {e} : next[x] # e
          /\ t \in 0 .. Word - 1 /\ (Small(t) \/ 4 * t > 3 * Word) /\ Insert(t, e)
          /\ event_queue = NULL => Small(t)
      BY <1>1, <1>4, <1>6, <1>8, <1>9, <1>10, <1>11, <1>12, <1>13
    <2> QED
      BY <1>1, <1>3, <1>4, <2>1, InsertPlaces
  <1> QED
    BY <1>6, <1>8, <1>10, <1>12, <1>13, <1>14

\* The first event that is due later is as much later as its delta says: the
\* ones before it are due with the head.
LEMMA FirstLaterPlace ==
    ASSUME delta \in [Event -> Nat], NEW Q, Queued(Q), NEW r, Ranked(next, used, r),
           NEW at, Places(at), event_queue # NULL, FirstLater # NULL
    PROVE  at[FirstLater] = delta[event_queue] + delta[FirstLater]
  <1> DEFINE c == Chain(event_queue)
             T == {k \in 1 .. NEvents : LET e == c[k] IN e # NULL /\ delta[e] # 0}
  <1>1. T # {} /\ FirstLater = c[Min(T)]
    BY DEF FirstLater
  <1>2. Min(T) \in T /\ \A k \in T : Min(T) <= k
    <2>1. T \in SUBSET Nat
      OBVIOUS
    <2> HIDE DEF T
    <2> QED
      BY <1>1, <2>1, MinIs
  <1>3. PICK n : n = Min(T)
    OBVIOUS
  <1>4. /\ n \in 1 .. NEvents /\ c[n] = FirstLater
        /\ \A k \in 1 .. NEvents : k < n /\ c[k] # NULL => delta[c[k]] = 0
    <2>1. ASSUME NEW k \in 1 .. NEvents, k < n, c[k] # NULL, delta[c[k]] # 0
          PROVE  FALSE
      <3>1. k \in T
        BY <2>1
      <3>2. n <= k
        BY <1>2, <1>3, <3>1
      <3> QED
        BY <1>2, <1>3, <2>1, <3>2
    <2> QED
      BY <1>1, <1>2, <1>3, <2>1
  <1>5. /\ \A k \in 0 .. NEvents : Position[k] \in Nat
        /\ Position[0] = delta[event_queue]
        /\ \A k \in 1 .. NEvents :
               Position[k] = Position[k - 1] + (IF c[k] = NULL THEN 0 ELSE delta[c[k]])
    BY PositionIs
  <1>6. Position[n] = at[FirstLater]
    BY <1>4, PositionIsPlace, NullNoEvent
  <1> HIDE DEF c, T
  <1> DEFINE S == {k \in Nat : k < n => Position[k] = delta[event_queue]}
  <1>7. 0 \in S
    BY <1>5
  <1>8. ASSUME NEW k \in Nat, k \in S
        PROVE  k + 1 \in S
    <2> SUFFICES ASSUME k + 1 < n
                 PROVE  Position[k + 1] = delta[event_queue]
      OBVIOUS
    <2>1. k + 1 \in 1 .. NEvents /\ (k + 1) - 1 = k /\ k \in 0 .. NEvents /\ k < n
      BY <1>4, NullNoEvent
    <2>2. Position[k + 1] = Position[k] + 0
      BY <1>4, <1>5, <2>1
    <2> QED
      BY <1>5, <1>8, <2>1, <2>2
  <1> HIDE DEF S
  <1>9. n - 1 \in S /\ n - 1 < n /\ n - 1 \in Nat
    BY <1>4, <1>7, <1>8, SetInduction, NullNoEvent
  <1>10. Position[n - 1] = delta[event_queue]
    BY <1>9 DEF S
  <1> QED
    BY <1>4, <1>5, <1>6, <1>10

\* When the due events are taken off, the others are as far from the first of
\* them as they were.
LEMMA StartPlaces ==
    ASSUME QueueInv, NEW at, Places(at), HandlerStart
    PROVE  /\ \E at2 : Places(at2)'
           /\ \E x \in InQueue : x \notin InQueue'
           /\ event' # NULL /\ UNCHANGED <<enabled, ktimer_delta, ktimer_time, pending, lag>>
  <1>1. TypeOK /\ Deliver \in used /\ event = NULL /\ resetting = FALSE /\ Placing = {}
    BY DEF QueueInv, HandlerStart, Handling, TypeOK, Placing
  <1>2. PICK Q, D : Split(Q, D)
    BY DEF QueueInv
  <1>3. D = {} /\ Q = used
    BY <1>1, <1>2 DEF Split
  <1>4. /\ event_queue # NULL
        /\ event' = event_queue /\ event_queue' = FirstLater
        /\ UNCHANGED <<next, delta, enabled, ktimer_delta, ktimer_time, pending, lag>>
    BY <1>1, <1>2, <1>3 DEF HandlerStart, Split
  <1>5. PICK r : Ranked(next, used, r)
    BY <1>2 DEF Split
  <1>6. Queued(Q)
    BY <1>1, <1>2, SplitQueued
  <1>7. /\ next \in Links /\ used \in SUBSET Event /\ Q \in SUBSET used /\ event_queue \in Q
        /\ Listed(next, Q, event_queue, NULL)
    BY <1>3, <1>4, <1>6 DEF Queued
  <1>8. FirstLater \in (Q \ {event_queue}) \cup {NULL}
    BY <1>4, <1>5, <1>6, FirstLaterIs
  <1>9. PICK R : R = Reach(next, FirstLater)
    OBVIOUS
  <1>10. /\ R \subseteq Q \ {event_queue}
         /\ IF FirstLater = NULL THEN R = {} ELSE FirstLater \in R
         /\ Listed(next, R, FirstLater, NULL)
    BY <1>5, <1>7, <1>8, <1>9, Fit, ListedSplit
  <1>11. InQueue = Q
    BY <1>5, <1>6, InQueueIs
  <1>12. InQueue' = R
    BY <1>4, <1>9, InQueueNext
  <1>13. PICK h : h = event_queue
    OBVIOUS
  <1>14. /\ at \in [Event -> Nat] /\ delta \in [Event -> Nat] /\ h \in Event /\ at[h] = delta[h]
         /\ \A x \in Q : /\ x \in Event /\ 4 * at[x] < Word
                         /\ next[x] # NULL => next[x] \in Event /\ at[next[x]] = at[x] + delta[next[x]]
         /\ Word \in Nat
    BY <1>1, <1>4, <1>7, <1>11, <1>13, Constants, Fit DEF Places, TypeOK, Small, Links
  <1>15. \A x \in Q : at[x] >= at[h]
    <2> DEFINE C == {x \in Event : at[x] >= at[h]}
    <2>1. h \in C
      BY <1>14
    <2>2. ASSUME NEW x \in Q, x \in C, next[x] \in Q
          PROVE  next[x] \in C
      <3>1. next[x] # NULL /\ next[x] \in Event
        BY <1>7, <2>2, NullNoEvent
      <3>2. at[next[x]] = at[x] + delta[next[x]] /\ at[x] \in Nat /\ at[x] >= at[h] /\ at[h] \in Nat
            /\ delta[next[x]] \in Nat
        BY <1>14, <2>2, <3>1
      <3> QED
        BY <3>1, <3>2
    <2> HIDE DEF C
    <2>3. Q \subseteq C
      BY <1>5, <1>7, <1>13, <2>1, <2>2, Fit, ListInduction
    <2> QED
      BY <2>3 DEF C
  <1>16. FirstLater # NULL => at[FirstLater] = delta[h] + delta[FirstLater]
    BY <1>4, <1>5, <1>6, <1>13, <1>14, FirstLaterPlace
  <1> DEFINE at3 == [x \in Event |-> IF at[x] >= at[h] THEN at[x] - at[h] ELSE 0]
  <1>17. PICK at2 : at2 = at3
    OBVIOUS
  <1>18. at2 \in [Event -> Nat] /\ \A x \in Q : at2[x] = at[x] - at[h]
    <2>1. at3 \in [Event -> Nat]
      BY <1>14
    <2>2. \A x \in Q : at3[x] = at[x] - at[h]
      BY <1>14, <1>15
    <2> QED
      BY <1>17, <2>1, <2>2
  <1> HIDE DEF at3
  <1>19. FirstLater # NULL => at2[FirstLater] = delta[FirstLater]
    <2>1. ASSUME FirstLater # NULL
          PROVE  FirstLater \in Q /\ FirstLater \in Event /\ delta[FirstLater] \in Nat
      BY <1>8, <1>14, <2>1
    <2> QED
      BY <1>14, <1>16, <1>18, <2>1
  <1>20. ASSUME NEW x \in R
         PROVE  /\ Small(at2[x])
                /\ next[x] # NULL => at2[next[x]] = at2[x] + delta[next[x]]
    <2>1. /\ x \in Q /\ x \in Event /\ at[x] \in Nat /\ at[h] \in Nat /\ at[x] >= at[h]
          /\ at2[x] = at[x] - at[h] /\ 4 * at[x] < Word
      BY <1>10, <1>14, <1>15, <1>18
    <2>2. next[x] # NULL => /\ next[x] \in Q /\ at2[next[x]] = at[next[x]] - at[h]
                            /\ at[next[x]] = at[x] + delta[next[x]] /\ delta[next[x]] \in Nat
      BY <1>10, <1>14, <1>18, <2>1 DEF Listed
    <2> QED
      BY <1>14, <2>1, <2>2 DEF Small
  <1>21. Places(at2)'
    BY <1>4, <1>12, <1>18, <1>19, <1>20 DEF Places
  <1>22. event_queue \in InQueue /\ event_queue \notin InQueue' /\ event' # NULL
    BY <1>4, <1>7, <1>10, <1>11, <1>12
  <1> QED
    BY <1>4, <1>21, <1>22

LEMMA TimeInit == Init => TimeInv
  <1> SUFFICES ASSUME Init
               PROVE  TimeInv
    OBVIOUS
  <1> DEFINE at == [e \in Event |-> First]
  <1>1. /\ enabled = TRUE /\ ktimer_time = 0 /\ ktimer_delta = First /\ pending = FALSE
        /\ event = NULL /\ resetting = FALSE /\ clearing = FALSE /\ event_queue = Deliver /\ placing = NULL
        /\ delta = [e \in Event |-> IF e = Deliver THEN First ELSE 0]
        /\ next = [e \in Event |-> NULL]
    BY DEF Init
  <1>2. Small(First) /\ First \in Nat /\ 0 + First = First /\ Deliver \in Event
    BY Constants, KTimerAssumption
  <1>3. CounterOK /\ RequestOK
    BY <1>1, <1>2 DEF CounterOK, Bounded, Handling, RequestOK
  <1>4. InQueue \subseteq Event
    <2>1. QueueInv
      BY QueueInit
    <2> QED
      BY <2>1, QueueInvExact DEF QueueExact, TypeOK
  <1>5. at \in [Event -> Nat] /\ \A e \in Event : at[e] = First /\ next[e] = NULL
    BY <1>1, <1>2
  <1>6. delta[Deliver] = First
    BY <1>1, <1>2
  <1> HIDE DEF at
  <1>7. Places(at)
    BY <1>1, <1>2, <1>4, <1>5, <1>6 DEF Places
  <1> QED
    BY <1>3, <1>7, QueueInit DEF TimeInv

\* An event that is not in the queue loses its link: the queue and its places stay.
LEMMA ReadPlaces ==
    ASSUME TypeOK, NEW Q, Queued(Q), NEW r, Ranked(next, used, r), NEW at, Places(at),
           NEW e \in Event, e \notin Q, next' = [next EXCEPT ![e] = NULL],
           UNCHANGED <<delta, event_queue>>
    PROVE  Places(at)' /\ InQueue' = InQueue
  <1>1. InQueue = Q
    BY InQueueIs
  <1>2. /\ Q \in SUBSET Event /\ event_queue \in Event \cup {NULL}
        /\ next \in [Event -> Event \cup {NULL}] /\ Q \in SUBSET used /\ used \in SUBSET Event
        /\ IF event_queue = NULL THEN Q = {} ELSE event_queue \in Q
        /\ Listed(next, Q, event_queue, NULL)
    BY DEF Queued, TypeOK
  <1>3. /\ next' \in [Event -> Event \cup {NULL}] /\ next'[e] = NULL
        /\ \A x \in Event \ {e} : next'[x] = next[x]
    BY <1>2
  <1>4. Listed(next', Q, event_queue, NULL)
    BY <1>2, <1>3 DEF Listed
  <1>5. Ranked(next', used, r)
    BY <1>3 DEF Ranked
  <1>6. Reach(next', event_queue) = Q
    BY <1>2, <1>3, <1>4, <1>5, Fit, ListedReach
  <1>7. InQueue' = Q
    BY <1>6, InQueueNext
  <1>8. \A x \in Q : next'[x] = next[x]
    BY <1>2, <1>3
  <1> QED
    BY <1>1, <1>7, <1>8 DEF Places

\* ktimer_event_schedule() reads the counter, of which Bounded says that it is small.
LEMMA ReadRequest ==
    ASSUME TypeOK, Bounded, NEW ticks, Small(ticks), NEW e, Read(ticks, e)
    PROVE  placing' = e /\ asked' = ticks /\ elapsed' = ktimer_time /\ Small(asked)' /\ Small(elapsed)'
  <1>1. ktimer_time \in Nat /\ ktimer_delta \in Nat /\ Word \in Nat /\ Word > 0
    BY Constants DEF TypeOK
  <1>2. Small(ktimer_time)
    BY <1>1 DEF Bounded, Small
  <1> QED
    BY <1>2 DEF Read, Small

\* The places after a step that only takes events off the queue, or inserts one.
LEMMA StepPlaces ==
    ASSUME MaxLag <= Period, QueueInv, CounterOK, RequestOK, NEW at, Places(at), [Next]_vars
    PROVE  /\ \E at2 : /\ Places(at2)'
                       /\ InQueue \subseteq InQueue' => \A e \in InQueue : at2[e] = at[e]
           /\ CounterOK' /\ RequestOK'
  <1>1. TypeOK
    BY DEF QueueInv
  <1>2. /\ Bounded /\ (Handling => pending) /\ (pending => ktimer_time <= lag)
        /\ ktimer_time \in Nat /\ ktimer_delta \in Nat /\ lag \in Nat /\ Word \in Nat
        /\ elapsed \in Nat
        /\ pending \in BOOLEAN /\ enabled \in BOOLEAN
    BY <1>1, Constants, KTimerAssumption DEF CounterOK, TypeOK
  <1>3. ASSUME UNCHANGED queue
        PROVE  Places(at)' /\ InQueue' = InQueue
    <2>1. UNCHANGED <<next, delta, event_queue>>
      BY <1>3 DEF queue
    <2>2. InQueue' = InQueue
      BY <2>1, InQueueNext, QueueReach
    <2> QED
      BY <2>1, <2>2 DEF Places
  <1>4. ASSUME UNCHANGED counter
        PROVE  Bounded' /\ ktimer_time' = ktimer_time
    BY <1>2, <1>4 DEF counter, Bounded
  <1>5. PICK Q, D : Split(Q, D)
    BY DEF QueueInv
  <1>6. PICK r : Ranked(next, used, r)
    BY <1>5 DEF Split
  <1>7. Queued(Q)
    BY <1>1, <1>5, SplitQueued
  <1>r. ASSUME placing' = NULL
        PROVE  RequestOK'
    BY <1>r DEF RequestOK
  <1>s. ASSUME UNCHANGED request, lag' >= lag, lag' \in Nat
        PROVE  RequestOK'
    <2>1. placing' = placing /\ asked' = asked /\ elapsed' = elapsed
      BY <1>s DEF request
    <2>2. elapsed <= lag => elapsed <= lag'
      BY <1>2, <1>s
    <2> QED
      BY <2>1, <2>2 DEF RequestOK, Small
  <1>8. ASSUME NEW ticks \in Requests, Create(ticks)
        PROVE  Places(at)' /\ CounterOK' /\ RequestOK'
    <2>1. /\ event = NULL /\ resetting = FALSE /\ clearing = FALSE /\ placing = NULL
          /\ UNCHANGED <<delta, event_queue, counter, pending, loop, lag, late>>
      BY <1>1, <1>8 DEF Create, Handling, TypeOK
    <2>2. Min(Event \ used) \in Event \ used
      <3>1. Event \ used \in SUBSET Nat /\ Event \ used # {}
        BY <1>8 DEF Create, Event
      <3> QED
        BY <3>1, MinIs
    <2>3. PICK e \in Event \ used : Read(ticks, e)
      BY <1>8, <2>2 DEF Create
    <2>4. e \notin Q /\ e # Deliver
      BY <1>7, <2>3 DEF Queued, QueueInv
    <2>5. Places(at)'
      BY <1>1, <1>6, <1>7, <2>1, <2>3, <2>4, ReadPlaces DEF Read
    <2>6. CounterOK'
      BY <1>2, <1>4, <2>1 DEF CounterOK, Handling, loop
    <2>7. placing' = e /\ Small(asked)' /\ Small(elapsed)'
      BY <1>1, <1>2, <2>3, ReadRequest, Constants
    <2> QED
      BY <2>4, <2>5, <2>6, <2>7 DEF RequestOK
  <1>9. CASE Schedule
    <2>1. /\ \E at2 : PlacedAt(InQueue, placing, Remaining, at, at2) /\ Places(at2)'
          /\ Bounded' /\ ktimer_time' <= ktimer_time
      BY <1>2, <1>9, ScheduleShifts
    <2>2. /\ placing' = NULL /\ UNCHANGED <<pending, loop>>
          /\ lag' = IF pending \/ Handling THEN lag ELSE 0
      BY <1>9 DEF Schedule
    <2>3. ktimer_time' \in Nat
      BY <1>9, QueueSchedule DEF QueueInv, TypeOK
    <2>4. Handling' = Handling
      BY <2>2 DEF Handling, loop
    <2>5. CounterOK'
      BY <1>2, <2>1, <2>2, <2>3, <2>4 DEF CounterOK
    <2>6. \E at2 : Places(at2)' /\ \A x \in InQueue : at2[x] = at[x]
      BY <2>1 DEF PlacedAt
    <2> QED
      BY <1>r, <2>2, <2>5, <2>6
  <1>10. CASE Tick
    <2>1. UNCHANGED queue /\ UNCHANGED loop /\ UNCHANGED request
      BY <1>10 DEF Tick
    <2>2. Handling' = Handling
      BY <2>1 DEF loop, Handling
    <2>3. lag' = IF Busy THEN lag + 1 ELSE 0
      BY <1>10 DEF Tick
    <2>4. (pending => lag' = lag + 1) /\ lag' \in Nat
      BY <1>2, <2>3 DEF Busy
    <2>5. RequestOK'
      <3>1. CASE placing = NULL
        BY <1>r, <2>1, <3>1 DEF request
      <3>2. CASE placing # NULL
        BY <1>2, <1>s, <2>1, <2>3, <3>2 DEF Busy
      <3> QED
        BY <3>1, <3>2
    <2>6. CASE enabled /\ ktimer_delta = 1
      <3>1. enabled' = FALSE /\ ktimer_time' = 0 /\ pending' = TRUE
        BY <1>2, <1>10, <2>6 DEF Tick, Raise
      <3> QED
        BY <1>3, <2>1, <2>4, <2>5, <3>1 DEF CounterOK, Bounded
    <2>7. CASE enabled /\ ktimer_delta > 1
      <3>1. /\ ktimer_delta' = ktimer_delta - 1 /\ ktimer_time' = ktimer_time + 1
            /\ UNCHANGED <<enabled, pending>>
        <4>1. enabled /\ ktimer_delta > 0 /\ ktimer_delta # 1
          BY <1>2, <2>7
        <4> QED
          BY <1>10, <4>1 DEF Tick
      <3>2. ktimer_time' + ktimer_delta' = ktimer_time + ktimer_delta
        BY <1>2, <2>7, <3>1
      <3>3. Bounded'
        BY <1>2, <2>7, <3>1, <3>2 DEF Bounded
      <3>4. pending' => ktimer_time' <= lag'
        BY <1>2, <2>4, <3>1
      <3> QED
        BY <1>2, <1>3, <2>1, <2>2, <2>5, <3>1, <3>3, <3>4 DEF CounterOK
    <2>8. CASE ~(enabled /\ ktimer_delta > 0)
      <3>1. UNCHANGED counter /\ UNCHANGED pending
        BY <1>10, <2>8 DEF Tick
      <3>2. pending' => ktimer_time' <= lag'
        BY <1>2, <1>4, <2>4, <3>1
      <3> QED
        BY <1>2, <1>3, <1>4, <2>1, <2>2, <2>5, <3>1, <3>2 DEF CounterOK
    <2> QED
      BY <1>2, <2>6, <2>7, <2>8
  <1>11. CASE HandlerStart
    <2>1. /\ \E at2 : Places(at2)'
          /\ ~(InQueue \subseteq InQueue')
          /\ UNCHANGED <<enabled, ktimer_delta, ktimer_time, pending, lag>>
      BY <1>11, StartPlaces
    <2>2. pending' = TRUE /\ placing' = NULL
      BY <1>2, <1>11, <2>1 DEF HandlerStart, request
    <2>3. CounterOK'
      BY <1>2, <1>4, <2>1, <2>2 DEF CounterOK, counter
    <2> QED
      BY <1>r, <2>1, <2>2, <2>3
  <1>12. CASE HandlerStep
    <2>1. /\ UNCHANGED <<delta, event_queue, counter, pending, last_event, clearing, lag, calls, late>>
          /\ event # NULL /\ placing = NULL
      BY <1>12 DEF HandlerStep
    <2>2. pending = TRUE
      BY <1>2, <2>1 DEF Handling
    <2>3. CounterOK'
      BY <1>2, <1>4, <2>1, <2>2 DEF CounterOK
    <2>4. CASE event = Deliver
      <3>1. Read(Period, event)
        BY <1>12, <2>4 DEF HandlerStep
      <3>2. event \in Event /\ event \notin Q
        BY <1>1, <1>5, <2>1 DEF Split, TypeOK
      <3>3. Places(at)'
        BY <1>1, <1>6, <1>7, <2>1, <3>1, <3>2, ReadPlaces DEF Read
      <3>4. asked' = Period /\ elapsed' = ktimer_time /\ Small(asked)' /\ Small(elapsed)'
        BY <1>1, <1>2, <3>1, ReadRequest, Constants
      <3>5. RequestOK'
        BY <1>2, <2>1, <2>2, <3>4 DEF RequestOK
      <3>6. InQueue' = InQueue
        BY <1>1, <1>6, <1>7, <2>1, <3>1, <3>2, ReadPlaces DEF Read
      <3> QED
        BY <2>3, <3>3, <3>5
    <2>5. CASE event # Deliver
      <3>1. UNCHANGED <<next, request>>
        BY <1>12, <2>5 DEF HandlerStep
      <3> QED
        BY <1>3, <1>r, <2>1, <2>3, <3>1 DEF queue, request
    <2> QED
      BY <2>4, <2>5
  <1>13. CASE HandlerEnd
    <2>1. UNCHANGED queue /\ UNCHANGED <<pending, lag, request>> /\ placing = NULL
      BY <1>13 DEF HandlerEnd
    <2>2. pending = TRUE
      BY <1>2, <1>13 DEF HandlerEnd, Handling
    <2>3. Bounded' /\ ktimer_time' <= ktimer_time
      <3>1. CASE event_queue = NULL
        <4>1. UNCHANGED counter
          BY <1>13, <3>1 DEF HandlerEnd, Reset
        <4> QED
          BY <1>2, <1>4, <4>1
      <3>2. CASE event_queue # NULL
        <4>1. Enable(delta[event_queue])
          BY <1>13, <3>2 DEF HandlerEnd, Reset
        <4>2. Small(delta[event_queue])
          <5>1. event_queue \in InQueue
            BY <1>6, <1>7, <3>2, InQueueIs DEF Queued
          <5> QED
            BY <3>2, <5>1 DEF Places
        <4> QED
          BY <1>1, <1>2, <4>1, <4>2, EnableBounded
      <3> QED
        BY <3>1, <3>2
    <2>4. ktimer_time' \in Nat
      BY <1>13, QueueHandlerEnd DEF QueueInv, TypeOK
    <2>5. CounterOK'
      BY <1>2, <2>1, <2>2, <2>3, <2>4 DEF CounterOK
    <2> QED
      BY <1>3, <1>r, <2>1, <2>5 DEF request
  <1>14. CASE Clear
    <2>1. /\ UNCHANGED <<queue, counter, event, resetting, request>>
          /\ clearing /\ clearing' = FALSE /\ pending' = FALSE
      BY <1>14 DEF Clear
    <2>2. event' = NULL /\ resetting' = FALSE /\ placing' = NULL
      BY <2>1 DEF QueueInv, request
    <2>3. CounterOK'
      BY <1>2, <1>4, <2>1, <2>2 DEF CounterOK, Handling
    <2> QED
      BY <1>3, <1>r, <2>1, <2>2, <2>3
  <1>15. CASE UNCHANGED vars
    <2>1. UNCHANGED queue /\ UNCHANGED counter /\ UNCHANGED <<pending, lag, request>> /\ Handling' = Handling
      BY <1>15 DEF vars, loop, Handling
    <2>2. CounterOK'
      BY <1>2, <1>4, <2>1 DEF CounterOK
    <2>3. RequestOK'
      BY <1>2, <1>s, <2>1
    <2> QED
      BY <1>3, <2>1, <2>2, <2>3
  <1> QED
    BY <1>8, <1>9, <1>10, <1>11, <1>12, <1>13, <1>14, <1>15 DEF Next, Handler

LEMMA TimeStep ==
    ASSUME MaxLag <= Period, TimeInv, [Next]_vars
    PROVE  TimeInv'
  <1>1. PICK at : Places(at)
    BY DEF TimeInv
  <1>2. CounterOK' /\ RequestOK' /\ \E at2 : Places(at2)'
    BY <1>1, StepPlaces DEF TimeInv
  <1>3. QueueInv'
    BY QueueStep DEF TimeInv
  <1> QED
    BY <1>2, <1>3 DEF TimeInv

\* What is in the queue before and after a step is due when it was.
LEMMA StepKeepsOthers ==
    ASSUME MaxLag <= Period, TimeInv, [Next]_vars, InQueue \subseteq InQueue',
           NEW e \in InQueue
    PROVE  Due(e)' = Due(e)
  <1>1. PICK at : Places(at)
    BY DEF TimeInv
  <1>2. PICK at2 : Places(at2)' /\ \A x \in InQueue : at2[x] = at[x]
    BY <1>1, StepPlaces DEF TimeInv
  <1>3. QueueInv'
    BY QueueStep DEF TimeInv
  <1>4. Due(e) = at[e]
    BY <1>1, DuePlace DEF DueIsPlace, TimeInv
  <1>5. Due(e)' = at2[e]
    BY <1>2, <1>3, DuePlaceNext DEF DueIsPlace
  <1> QED
    BY <1>2, <1>4, <1>5

\* What is scheduled is due where the code reckons it.
LEMMA StepPlaced ==
    ASSUME Timely, TimeInv, [Next]_vars, NEW e \in Event, Placed(e)
    PROVE  IF elapsed <= asked THEN Due(e)' <= asked - elapsed /\ asked - elapsed < Due(e)' + MinTicks
           ELSE /\ Due(e)' \in {Due(f) : f \in InQueue}
                /\ \A f \in InQueue : Due(f) <= Due(e)'
  <1>1. PICK at : Places(at)
    BY DEF TimeInv
  <1>2. Schedule /\ e = placing
    BY NullNoEvent DEF Placed, Next, Handler, Tick, Create, Read, HandlerStart, HandlerStep, HandlerEnd, Clear, request, vars
  <1>3. /\ \E at2 : PlacedAt(InQueue, e, Remaining, at, at2) /\ Places(at2)'
        /\ e \in InQueue'
        /\ Small(Remaining) <=> elapsed <= asked
        /\ Small(Remaining) => Remaining = asked - elapsed
    BY <1>1, <1>2, ScheduleShifts DEF Timely, TimeInv, CounterOK
  <1>4. PICK at2 : PlacedAt(InQueue, e, Remaining, at, at2) /\ Places(at2)'
    BY <1>3
  <1>5. QueueInv'
    BY QueueStep DEF TimeInv
  <1>6. Due(e)' = at2[e]
    BY <1>3, <1>4, <1>5, DuePlaceNext DEF DueIsPlace
  <1>7. \A f \in InQueue : Due(f) = at[f]
    BY <1>1, DuePlace DEF DueIsPlace, TimeInv
  <1>8. CASE elapsed <= asked
    BY <1>3, <1>4, <1>6, <1>8 DEF PlacedAt, Timely
  <1>9. CASE ~(elapsed <= asked)
    <2>1. (\E x \in InQueue : at2[e] = at[x]) /\ \A x \in InQueue : at[x] <= at2[e]
      BY <1>3, <1>4, <1>9 DEF PlacedAt
    <2> QED
      BY <1>6, <1>7, <1>9, <2>1
  <1> QED
    BY <1>8, <1>9

-----------------------------------------------------------------------------
(* The theorems *)

\* ktimer.c: whatever the order in which events are created, fall due, are
\* called, freed and scheduled again, the allocated events are the queue, what the
\* loop of ktimer_event_handler() has still to call, and the one being scheduled,
\* each once.
THEOREM QueueInductive == Spec => []QueueInv
  <1>1. Init => QueueInv
    BY QueueInit
  <1>2. QueueInv /\ [Next]_vars => QueueInv'
    BY QueueStep
  <1> QED
    BY <1>1, <1>2, PTL DEF Spec

\* ktimer_event_schedule() and ktimer_event_handler(): relinking an event while
\* the chain it was in is being walked loses none and repeats none, and the
\* queue ends, for a table of any size and any ticks.
THEOREM QueueAlwaysExact == Spec => []QueueExact
  BY QueueInductive, QueueInvExact, PTL

\* ktimer.c: the counter stays small and each event of the queue has its place,
\* as long as the handler is done with an expiry within the period of
\* ipc_deliver().
THEOREM TimeInductive == Timely => (Spec => []TimeInv)
  <1> SUFFICES ASSUME Timely PROVE Spec => []TimeInv
    OBVIOUS
  <1>1. TimeInv /\ [Next]_vars => TimeInv'
    BY TimeStep DEF Timely
  <1> QED
    BY <1>1, TimeInit, PTL DEF Spec

\* ktimer_event_schedule(), ktimer_event_recalc(): inserting an event, while
\* ticks come at any point and the handler walks the due events, moves no other
\* event of the queue, and puts the new one at the ticks asked for less those the
\* counter had gone when they were read, rounded down by less than
\* CONFIG_KTIMER_MINTICKS; or, where more had gone, together with the last event.
THEOREM InsertAlwaysExact == Timely => (Spec => InsertExact)
  <1> SUFFICES ASSUME Timely PROVE Spec => InsertExact
    OBVIOUS
  <1>1. TimeInv /\ [Next]_vars =>
            [InQueue \subseteq InQueue' => \A e \in InQueue : Due(e)' = Due(e)]_vars
    BY StepKeepsOthers DEF Timely
  <1>2. TimeInv /\ [Next]_vars =>
            [\A e \in Event : Placed(e) =>
                IF elapsed <= asked THEN Due(e)' <= asked - elapsed /\ asked - elapsed < Due(e)' + MinTicks
                ELSE InQueue # {} => Due(e)' \in {Due(f) : f \in InQueue} /\ \A f \in InQueue : Due(f) <= Due(e)']_vars
    BY StepPlaced
  <1> QED
    BY <1>1, <1>2, TimeInductive, PTL DEF Spec, InsertExact, InsertKeepsOthers, InsertedWhereAsked
=============================================================================
