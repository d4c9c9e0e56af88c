-------------------------- MODULE InterruptProofs --------------------------
(***************************************************************************)
(* Proofs about Interrupt, for any number of irqs and threads that keep to *)
(* the protocol: the linked queue is a list of distinct irqs, who is       *)
(* selected for an interrupt waits for it, and the queue is a FIFO.        *)
(***************************************************************************)
EXTENDS Interrupt, SequenceTheorems, FiniteSetTheorems, TLAPS

\* Of the lemmas about links only the one on induction is needed: entries follow
\* each other in the queue by position.
INSTANCE Chains WITH Node <- Irq, Nil <- NULL, Size <- IRQn_NUM

\* s is the list that q links: its entries are distinct, each leads to the
\* next, the last one is the tail, and an entry outside of it has no link.
IsList(q, s) ==
    /\ s \in Seq(Irq) /\ Len(s) <= IRQn_NUM
    /\ \A j, k \in 1 .. Len(s) : j # k => s[j] # s[k]
    /\ q.head = IF s = <<>> THEN NULL ELSE s[1]
    /\ \A k \in 1 .. Len(s) - 1 : q.next[s[k]] = s[k + 1]
    /\ s # <<>> => q.tail = s[Len(s)] /\ q.next[s[Len(s)]] = NULL
    /\ \A i \in Irq : (\A k \in 1 .. Len(s) : s[k] # i) => q.next[i] = NULL

Queue == [head : Irq \cup {NULL}, tail : Irq \cup {NULL}, next : [Irq -> Irq \cup {NULL}]]

\* The recursive definition of Entries follows the links of the list to its end.
LEMMA EntriesOfList ==
    ASSUME NEW q \in Queue, NEW s, IsList(q, s)
    PROVE  Entries(q) = s
  <1> DEFINE Step(f) == [k \in 0 .. IRQn_NUM |->
                            IF k = 0 THEN q.head
                            ELSE IF f[k - 1] = NULL THEN NULL ELSE q.next[f[k - 1]]]
             e == CHOOSE f : f = Step(f)
             Last(k) == /\ e[k] = NULL \/ k = IRQn_NUM
                        /\ \A j \in 0 .. k - 1 : e[j] # NULL
  <1>0. PICK n \in Nat : n = Len(s)
    BY DEF IsList
  <1> DEFINE f0 == [k \in 0 .. IRQn_NUM |-> IF k < n THEN s[k + 1] ELSE NULL]
  <1>1. IRQn_NUM \in Nat /\ n \in Nat /\ n <= IRQn_NUM /\ s \in [1 .. n -> Irq] /\ NULL \notin Irq
    BY <1>0, InterruptAssumption DEF IsList, Irq, NULL
  <1>2. f0 = Step(f0)
    <2>1. ASSUME NEW k \in 0 .. IRQn_NUM
          PROVE  f0[k] = Step(f0)[k]
      <3>1. CASE k = 0
        <4>1. s = <<>> <=> n = 0
          BY <1>0, <1>1 DEF IsList
        <4> QED
          BY <1>1, <3>1, <4>1, <1>0 DEF IsList
      <3>2. CASE k # 0 /\ k < n
        <4>1. k \in 1 .. n - 1 /\ k - 1 \in 0 .. IRQn_NUM /\ f0[k - 1] = s[k] /\ s[k] \in Irq
          BY <1>1, <3>2
        <4> QED
          BY <1>1, <3>2, <4>1, <1>0 DEF IsList
      <3>3. CASE k # 0 /\ k = n
        <4>1. k - 1 \in 0 .. IRQn_NUM /\ f0[k - 1] = s[n] /\ s[n] \in Irq /\ s # <<>>
          BY <1>1, <3>3
        <4> QED
          BY <1>1, <3>3, <4>1, <1>0 DEF IsList
      <3>4. CASE k # 0 /\ k > n
        <4>1. k - 1 \in 0 .. IRQn_NUM /\ f0[k - 1] = NULL
          BY <1>1, <3>4
        <4> QED
          BY <1>1, <3>4, <4>1
      <3> QED
        BY <1>1, <3>1, <3>2, <3>3, <3>4
    <2> QED
      BY <2>1
  <1>3. e = Step(e)
    BY <1>2
  <1> HIDE DEF e, f0
  <1>31. ASSUME NEW f, f = Step(f)
         PROVE  /\ f[0] = q.head
                /\ \A k \in 1 .. IRQn_NUM :
                       f[k] = IF f[k - 1] = NULL THEN NULL ELSE q.next[f[k - 1]]
    <2>1. Step(f)[0] = q.head
      BY <1>1
    <2>2. ASSUME NEW k \in 1 .. IRQn_NUM
          PROVE  Step(f)[k] = IF f[k - 1] = NULL THEN NULL ELSE q.next[f[k - 1]]
      BY <1>1
    <2> HIDE DEF Step
    <2> QED
      BY <1>31, <2>1, <2>2
  <1>4. ASSUME NEW k \in 0 .. IRQn_NUM
        PROVE  e[k] = f0[k]
    <2> HIDE DEF Step
    <2> DEFINE S == {m \in Nat : m <= IRQn_NUM => e[m] = f0[m]}
    <2>1. 0 \in S
      BY <1>2, <1>3, <1>31
    <2>2. ASSUME NEW m \in Nat, m \in S
          PROVE  m + 1 \in S
      <3> SUFFICES ASSUME m + 1 <= IRQn_NUM
                   PROVE  e[m + 1] = f0[m + 1]
        OBVIOUS
      <3>1. m + 1 \in 1 .. IRQn_NUM /\ (m + 1) - 1 = m /\ e[m] = f0[m]
        BY <1>1, <2>2
      <3>2. e[m + 1] = IF e[m] = NULL THEN NULL ELSE q.next[e[m]]
        BY <1>3, <1>31, <3>1
      <3>3. f0[m + 1] = IF f0[m] = NULL THEN NULL ELSE q.next[f0[m]]
        BY <1>2, <1>31, <3>1
      <3> QED
        BY <3>1, <3>2, <3>3
    <2> HIDE DEF S
    <2>3. k \in S
      BY <1>1, <2>1, <2>2, SetInduction
    <2> QED
      BY <1>1, <2>3 DEF S
  <1>5. ASSUME NEW k \in 0 .. IRQn_NUM
        PROVE  e[k] = IF k < n THEN s[k + 1] ELSE NULL
    BY <1>4 DEF f0
  <1>6. (CHOOSE k \in 0 .. IRQn_NUM : Last(k)) = n
    <2>1. n \in 0 .. IRQn_NUM /\ Last(n)
      <3>1. ASSUME NEW j \in 0 .. n - 1
            PROVE  e[j] # NULL
        BY <1>1, <1>5
      <3> QED
        BY <1>1, <1>5, <3>1
    <2>2. ASSUME NEW k \in 0 .. IRQn_NUM, Last(k)
          PROVE  k = n
      <3>1. ~(k < n)
        BY <1>1, <1>5, <2>2
      <3>2. ~(k > n)
        BY <1>1, <1>5, <2>2
      <3> QED
        BY <1>1, <3>1, <3>2
    <2> HIDE DEF Last
    <2> QED
      BY <2>1, <2>2
  <1>7. Entries(q) = [k \in 1 .. n |-> e[k - 1]]
    BY <1>6 DEF Entries, e
  <1>8. \A k \in 1 .. n : e[k - 1] = s[k]
    BY <1>1, <1>5
  <1> QED
    BY <1>1, <1>7, <1>8

-----------------------------------------------------------------------------
(* The queue's operations on the list                                      *)

\* A list that misses an irq has room for it.
LEMMA RoomInList ==
    ASSUME NEW q, NEW s, IsList(q, s), NEW i \in Irq, \A k \in 1 .. Len(s) : s[k] # i
    PROVE  Len(s) + 1 <= IRQn_NUM
  <1>1. s \in Seq(Irq) /\ Len(s) \in Nat /\ IRQn_NUM \in Nat
    BY InterruptAssumption DEF IsList
  <1> DEFINE t == Append(s, i)
  <1>2. t \in [1 .. Len(s) + 1 -> Irq] /\ (\A k \in 1 .. Len(s) : t[k] = s[k]) /\ t[Len(s) + 1] = i
    <2>1. t \in Seq(Irq) /\ Len(t) = Len(s) + 1
      BY <1>1, AppendProperties
    <2>2. t \in [1 .. Len(t) -> Irq]
      BY <2>1, LenProperties
    <2> QED
      BY <1>1, <2>1, <2>2, AppendProperties
  <1> HIDE DEF t
  <1>3. \A j, k \in 1 .. Len(s) + 1 : t[j] = t[k] => j = k
    BY <1>1, <1>2 DEF IsList
  <1>4. t \in Injection(1 .. Len(s) + 1, Irq)
    BY <1>2, <1>3 DEF Injection, IsInjective
  <1>5. IsFiniteSet(Irq) /\ Cardinality(Irq) = IRQn_NUM
    BY <1>1, FS_Interval DEF Irq
  <1>6. Cardinality(1 .. Len(s) + 1) = Len(s) + 1
    BY <1>1, FS_Interval
  <1>7. Cardinality(1 .. Len(s) + 1) <= Cardinality(Irq)
    BY <1>4, <1>5, FS_Injection
  <1> QED
    BY <1>5, <1>6, <1>7

LEMMA PushedList ==
    ASSUME NEW q \in Queue, NEW s, IsList(q, s),
           NEW i \in Irq, \A k \in 1 .. Len(s) : s[k] # i
    PROVE  Pushed(q, i) \in Queue /\ IsList(Pushed(q, i), Append(s, i))
  <1>1. s \in Seq(Irq) /\ Len(s) \in Nat /\ IRQn_NUM \in Nat /\ NULL \notin Irq
    BY InterruptAssumption DEF IsList, Irq, NULL
  <1> DEFINE t == Append(s, i)  p == Pushed(q, i)
  <1>2. /\ t \in Seq(Irq) /\ Len(t) = Len(s) + 1 /\ t # <<>>
        /\ \A k \in 1 .. Len(s) : t[k] = s[k] /\ s[k] \in Irq /\ s[k] # i
        /\ t[Len(s) + 1] = i
    BY <1>1
  <1>3. Len(t) <= IRQn_NUM
    BY <1>2, RoomInList
  <1>4. CASE s = <<>>
    <2>1. p = [q EXCEPT !.head = i, !.tail = i] /\ Len(s) = 0
      BY <1>4 DEF IsList, Pushed
    <2> HIDE DEF t
    <2>2. p \in Queue /\ p.head = i /\ p.tail = i /\ p.next = q.next
      BY <2>1 DEF Queue
    <2> HIDE DEF p
    <2>3. IsList(p, t)
      BY <1>1, <1>2, <1>3, <2>1, <2>2 DEF IsList
    <2> QED
      BY <2>2, <2>3 DEF p, t
  <1>5. CASE s # <<>>
    <2>1. Len(s) \in Nat \ {0} /\ q.head = s[1] /\ s[1] \in Irq
      BY <1>1, <1>5 DEF IsList
    <2>2. p = [q EXCEPT !.next[q.tail] = i, !.tail = i] /\ q.tail = s[Len(s)] /\ q.tail \in Irq
      BY <1>1, <1>2, <1>5, <2>1 DEF IsList, Pushed
    <2>3. /\ p \in Queue /\ p.head = s[1] /\ p.tail = i
          /\ p.next = [q.next EXCEPT ![s[Len(s)]] = i] /\ q.next \in [Irq -> Irq \cup {NULL}]
      BY <2>1, <2>2 DEF Queue
    <2> HIDE DEF p, t
    <2>4. \A k \in 1 .. Len(s) - 1 : s[k] # s[Len(s)] /\ p.next[s[k]] = t[k + 1]
      BY <1>1, <1>2, <2>1, <2>3 DEF IsList
    <2>5. p.next[s[Len(s)]] = i /\ p.next[i] = q.next[i] /\ q.next[i] = NULL
      BY <1>1, <1>2, <2>1, <2>2, <2>3 DEF IsList
    <2>6. \A k \in 1 .. Len(t) - 1 : p.next[t[k]] = t[k + 1]
      BY <1>1, <1>2, <2>4, <2>5
    <2>7. \A j, k \in 1 .. Len(t) : j # k => t[j] # t[k]
      BY <1>1, <1>2 DEF IsList
    <2>8. ASSUME NEW j \in Irq, \A k \in 1 .. Len(t) : t[k] # j
          PROVE  p.next[j] = NULL
      <3>1. \A k \in 1 .. Len(s) : s[k] # j
        BY <1>1, <1>2, <2>8
      <3>2. q.next[j] = NULL /\ j # s[Len(s)]
        BY <2>1, <3>1 DEF IsList
      <3> QED
        BY <2>3, <3>2
    <2>9. p.head = t[1]
      BY <1>2, <2>1, <2>3
    <2>10. p.tail = t[Len(t)] /\ p.next[t[Len(t)]] = NULL
      BY <1>2, <2>3, <2>5
    <2>11. IsList(p, t)
      BY <1>2, <1>3, <2>6, <2>7, <2>8, <2>9, <2>10 DEF IsList
    <2> QED
      BY <2>3, <2>11 DEF p, t
  <1> QED
    BY <1>4, <1>5

LEMMA PoppedList ==
    ASSUME NEW q \in Queue, NEW s, IsList(q, s), s # <<>>
    PROVE  Popped(q) \in Queue /\ IsList(Popped(q), Tail(s))
  <1> DEFINE t == Tail(s)  p == Popped(q)
  <1>1. /\ s \in Seq(Irq) /\ Len(s) \in Nat \ {0} /\ IRQn_NUM \in Nat /\ NULL \notin Irq
        /\ \A k \in 1 .. Len(s) : s[k] \in Irq
        /\ q.head = s[1]
    BY InterruptAssumption DEF IsList, Irq, NULL
  <1>2. /\ t \in Seq(Irq) /\ Len(t) = Len(s) - 1 /\ (t = <<>> <=> Len(s) = 1)
        /\ \A k \in 1 .. Len(t) : t[k] = s[k + 1]
    <2>1. t \in Seq(Irq) /\ Len(t) = Len(s) - 1 /\ \A k \in 1 .. Len(t) : t[k] = s[k + 1]
      BY <1>1, HeadTailProperties
    <2>2. t = <<>> <=> Len(t) = 0
      BY <2>1, EmptySeq
    <2> QED
      BY <1>1, <2>1, <2>2
  <1>3. /\ p \in Queue /\ p.head = q.next[s[1]] /\ p.tail = q.tail
        /\ p.next = [q.next EXCEPT ![s[1]] = NULL] /\ q.next \in [Irq -> Irq \cup {NULL}]
    <2>1. s[1] \in Irq /\ q.next[s[1]] \in Irq \cup {NULL}
      BY <1>1 DEF Queue
    <2>2. p = [q EXCEPT !.head = q.next[s[1]], !.next[s[1]] = NULL]
      BY <1>1 DEF Popped
    <2> HIDE DEF p
    <2> QED
      BY <2>1, <2>2 DEF Queue
  <1> HIDE DEF p, t
  <1>4. \A k \in 2 .. Len(s) : s[k] # s[1] /\ p.next[s[k]] = q.next[s[k]]
    BY <1>1, <1>3 DEF IsList
  <1>5. p.head = IF t = <<>> THEN NULL ELSE t[1]
    <2>1. CASE Len(s) = 1
      BY <1>2, <1>3, <2>1 DEF IsList
    <2>2. CASE Len(s) # 1
      <3>1. 1 \in 1 .. Len(s) - 1 /\ 1 \in 1 .. Len(t)
        BY <1>1, <1>2, <2>2
      <3> QED
        BY <1>2, <1>3, <2>2, <3>1 DEF IsList
    <2> QED
      BY <2>1, <2>2
  <1>6. \A j, k \in 1 .. Len(t) : j # k => t[j] # t[k]
    BY <1>1, <1>2 DEF IsList
  <1>7. ASSUME NEW k \in 1 .. Len(t) - 1
        PROVE  p.next[t[k]] = t[k + 1]
    <2>1. k + 1 \in 2 .. Len(s) /\ k + 1 \in 1 .. Len(s) - 1 /\ k \in 1 .. Len(t) /\ k + 1 \in 1 .. Len(t)
      BY <1>1, <1>2
    <2>2. t[k] = s[k + 1] /\ t[k + 1] = s[k + 1 + 1] /\ q.next[s[k + 1]] = s[k + 1 + 1]
      BY <1>2, <2>1 DEF IsList
    <2> QED
      BY <1>4, <2>1, <2>2
  <1>8. t # <<>> => p.tail = t[Len(t)] /\ p.next[t[Len(t)]] = NULL
    <2> SUFFICES ASSUME t # <<>> PROVE p.tail = t[Len(t)] /\ p.next[t[Len(t)]] = NULL
      OBVIOUS
    <2>1. Len(s) \in 2 .. Len(s) /\ Len(t) \in 1 .. Len(t) /\ Len(t) + 1 = Len(s)
      BY <1>1, <1>2
    <2> QED
      BY <1>2, <1>3, <1>4, <2>1 DEF IsList
  <1>9. ASSUME NEW j \in Irq, \A k \in 1 .. Len(t) : t[k] # j
        PROVE  p.next[j] = NULL
    <2>1. CASE j = s[1]
      BY <1>3, <2>1
    <2>2. CASE j # s[1]
      <3>1. ASSUME NEW k \in 1 .. Len(s)
            PROVE  s[k] # j
        <4>1. CASE k = 1
          BY <2>2, <4>1
        <4>2. CASE k # 1
          <5>1. k - 1 \in 1 .. Len(t) /\ (k - 1) + 1 = k
            BY <1>1, <1>2, <4>2
          <5> QED
            BY <1>2, <1>9, <5>1
        <4> QED
          BY <4>1, <4>2
      <3> QED
        BY <1>3, <2>2, <3>1 DEF IsList
    <2> QED
      BY <2>1, <2>2
  <1>10. Len(t) <= IRQn_NUM
    BY <1>1, <1>2 DEF IsList
  <1>11. IsList(p, t)
    BY <1>2, <1>5, <1>6, <1>7, <1>8, <1>9, <1>10 DEF IsList
  <1> QED
    BY <1>3, <1>11 DEF p, t

-----------------------------------------------------------------------------
(* The inductive invariant *)

InList(s, i) == \E k \in 1 .. Len(s) : s[k] = i

\* The thread of irq i waits for an interrupt.
Awaited(i) == thr(i) # NoThread /\ state[thr(i)] = "INTR_BLOCKED"

\* With the list s of queued irqs, the irqs nv that are enabled and the messages
\* iq: the thread of an irq that is enabled or queued waits, for no other irq,
\* and has the number of a queued one in its message.
Ready(s, nv, iq) ==
    /\ \A i \in nv : Awaited(i) /\ ~InList(s, i)
    /\ \A i \in Irq : InList(s, i) => Awaited(i) /\ iq[thr(i)] = i
    /\ \A i, j \in Irq :
          (i \in nv \/ InList(s, i)) /\ (j \in nv \/ InList(s, j)) /\ thr(i) = thr(j) => i = j

IInv ==
    /\ TypeOK /\ RunningIsRunnable
    /\ IsList(queue, Entries(queue))
    /\ Ready(Entries(queue), nvic, irqn)

LEMMA QueuedIsInList ==
    ASSUME NEW i, Entries(queue) \in Seq(Irq)
    PROVE  Queued(i) <=> InList(Entries(queue), i)
  <1>1. DOMAIN Entries(queue) = 1 .. Len(Entries(queue))
    BY LenProperties
  <1> QED
    BY <1>1 DEF Queued, InList

\* Without its first entry a list holds the others.
LEMMA TailList ==
    ASSUME NEW q, NEW s, IsList(q, s), s # <<>>
    PROVE  \A i \in Irq : InList(Tail(s), i) <=> InList(s, i) /\ i # s[1]
  <1> SUFFICES ASSUME NEW i \in Irq
               PROVE  InList(Tail(s), i) <=> InList(s, i) /\ i # s[1]
    OBVIOUS
  <1>1. s \in Seq(Irq) /\ Len(s) \in Nat \ {0}
    BY EmptySeq DEF IsList
  <1>2. Len(Tail(s)) = Len(s) - 1 /\ \A k \in 1 .. Len(s) - 1 : Tail(s)[k] = s[k + 1]
    BY <1>1, HeadTailProperties
  <1>3. ASSUME InList(Tail(s), i)
        PROVE  InList(s, i) /\ i # s[1]
    <2>1. PICK k \in 1 .. Len(s) - 1 : s[k + 1] = i
      BY <1>2, <1>3 DEF InList
    <2>2. k + 1 \in 1 .. Len(s) /\ k + 1 # 1 /\ 1 \in 1 .. Len(s)
      BY <1>1
    <2> QED
      BY <2>1, <2>2 DEF InList, IsList
  <1>4. ASSUME InList(s, i), i # s[1]
        PROVE  InList(Tail(s), i)
    <2>1. PICK k \in 1 .. Len(s) : s[k] = i
      BY <1>4 DEF InList
    <2>2. k - 1 \in 1 .. Len(s) - 1 /\ (k - 1) + 1 = k
      BY <1>1, <1>4, <2>1
    <2> QED
      BY <1>2, <2>1, <2>2 DEF InList
  <1> QED
    BY <1>3, <1>4

LEMMA InitIInv == Init => IInv
  <1> SUFFICES ASSUME Init PROVE IInv
    OBVIOUS
  <1>1. NULL \notin Irq /\ IRQn_NUM \in Nat
    BY InterruptAssumption DEF Irq, NULL
  <1>2. TypeOK /\ RunningIsRunnable
    BY InterruptAssumption
    DEF Init, TypeOK, Default, Action, ThreadState, RunningIsRunnable
  <1>3. queue \in Queue
    BY DEF Init, Queue
  <1>4. <<>> \in Seq(Irq) /\ Len(<<>>) = 0
    OBVIOUS
  <1>5. IsList(queue, <<>>)
    BY <1>1, <1>4 DEF Init, IsList
  <1>6. Entries(queue) = <<>>
    BY <1>3, <1>5, EntriesOfList
  <1>7. Ready(<<>>, nvic, irqn)
    BY <1>4 DEF Init, Ready, InList
  <1> QED
    BY <1>2, <1>5, <1>6, <1>7 DEF IInv

-----------------------------------------------------------------------------
(* schedule_select() *)

\* Either nobody is taken from the queue, and whoever runs can run; or the
\* thread of the first irq, which waits, is woken and runs.
LEMMA SelectOutcome ==
    ASSUME TypeOK, RunningIsRunnable, NEW q, NEW s, IsList(q, s),
           NEW nv, NEW iq, Ready(s, nv, iq), Select(q) \/ Return(q)
    PROVE  \/ /\ queue' = q /\ state' = state /\ slot' = slot
              /\ current' \in Thread \cup {Kernel, Idle}
              /\ current' \in Thread => state[current'] = "RUNNABLE"
           \/ /\ s # <<>> /\ queue' = Popped(q)
              /\ thr(s[1]) \in Thread
              /\ state' = [state EXCEPT ![thr(s[1])] = "RUNNABLE"]
              /\ slot' = thr(s[1]) /\ current' = thr(s[1])
  <1>1. s \in Seq(Irq) /\ Len(s) \in Nat /\ NULL \notin Irq
    BY InterruptAssumption DEF IsList, Irq, NULL
  <1>2. s # <<>> =>
            /\ q.head = s[1] /\ s[1] \in Irq /\ thr(s[1]) \in Thread
            /\ state[thr(s[1])] = "INTR_BLOCKED"
    <2> SUFFICES ASSUME s # <<>>
                 PROVE  /\ q.head = s[1] /\ s[1] \in Irq /\ thr(s[1]) \in Thread
                        /\ state[thr(s[1])] = "INTR_BLOCKED"
      OBVIOUS
    <2>1. 1 \in 1 .. Len(s) /\ s[1] \in Irq
      BY <1>1, EmptySeq
    <2>2. InList(s, s[1])
      BY <2>1 DEF InList
    <2> QED
      BY <2>1, <2>2 DEF IsList, Ready, Awaited, TypeOK, thr
  <1>3. q.head = NULL <=> s = <<>>
    BY <1>1, <1>2 DEF IsList
  <1>4. CASE SelectSlot(q)
    BY <1>4 DEF SelectSlot, SlotTaken, TypeOK
  <1>5. CASE SelectHandler(q)
    <2>1. s # <<>> /\ Receiving(thr(s[1]))
      BY <1>2, <1>3, <1>5 DEF SelectHandler, Receiving
    <2>2. state' = [state EXCEPT ![thr(s[1])] = "RUNNABLE"]
      BY <1>2, <1>5, <2>1 DEF SelectHandler, Woken
    <2> QED
      BY <1>2, <1>5, <2>1, <2>2 DEF SelectHandler
  <1>6. CASE SelectOther(q)
    <2>1. q.head = NULL
      BY <1>2, <1>3, <1>6, InterruptAssumption DEF SelectOther
    <2>2. queue' = q /\ state' = state /\ slot' = slot
      BY <1>6, <2>1 DEF SelectOther
    <2>3. current' = Idle \/ (current' \in Thread /\ state[current'] = "RUNNABLE")
      BY <1>6 DEF SelectOther
    <2> QED
      BY <2>2, <2>3, InterruptAssumption
  <1>7. CASE current = Kernel /\ queue' = q /\ UNCHANGED <<state, slot, current>>
    BY <1>7, InterruptAssumption
  <1> QED
    BY <1>4, <1>5, <1>6, <1>7 DEF Select, Return

\* The invariant holds after schedule_select() if all but the choice is as it
\* should be: s are the irqs it finds in the queue.
LEMMA SelectKeeps ==
    ASSUME TypeOK, RunningIsRunnable, NEW q \in Queue, NEW s, IsList(q, s),
           user_irqs' = user_irqs, nvic' \in SUBSET Irq,
           irqn' \in [Thread -> Irq \cup {NULL}],
           Ready(s, nvic', irqn'), Select(q) \/ Return(q)
    PROVE  /\ IInv'
           /\ \/ Entries(queue)' = s /\ state' = state
              \/ /\ s # <<>> /\ Entries(queue)' = Tail(s)
                 /\ thr(s[1]) \in Thread /\ current' = thr(s[1])
                 /\ state' = [state EXCEPT ![thr(s[1])] = "RUNNABLE"]
  <1>1. s \in Seq(Irq) /\ Len(s) \in Nat /\ (\A k \in 1 .. Len(s) : s[k] \in Irq)
    BY DEF IsList
  <1>2. \A i : thr(i)' = thr(i)
    BY DEF thr
  <1>3. CASE /\ queue' = q /\ state' = state /\ slot' = slot
             /\ current' \in Thread \cup {Kernel, Idle}
             /\ current' \in Thread => state[current'] = "RUNNABLE"
    <2>1. Entries(queue') = s
      BY <1>3, EntriesOfList
    <2>2. TypeOK' /\ RunningIsRunnable'
      BY <1>3 DEF TypeOK, RunningIsRunnable, Queue
    <2>3. Ready(s, nvic, irqn)'
      BY <1>2, <1>3 DEF Ready, Awaited, InList
    <2> QED
      BY <1>3, <2>1, <2>2, <2>3 DEF IInv
  <1>4. CASE /\ s # <<>> /\ queue' = Popped(q)
             /\ thr(s[1]) \in Thread
             /\ state' = [state EXCEPT ![thr(s[1])] = "RUNNABLE"]
             /\ slot' = thr(s[1]) /\ current' = thr(s[1])
    <2>1. queue' \in Queue /\ IsList(queue', Tail(s))
      BY <1>4, PoppedList
    <2>2. Entries(queue') = Tail(s)
      BY <2>1, EntriesOfList
    <2>3. TypeOK'
      BY <1>4, <2>1 DEF TypeOK, Queue, ThreadState
    <2>4. RunningIsRunnable'
      BY <1>4 DEF RunningIsRunnable, TypeOK
    <2>5. /\ Len(Tail(s)) = Len(s) - 1 /\ 1 \in 1 .. Len(s) /\ s[1] \in Irq
          /\ \A k \in 1 .. Len(s) - 1 : Tail(s)[k] = s[k + 1]
      BY <1>1, <1>4, HeadTailProperties, EmptySeq
    <2>6. \A i \in Irq : InList(Tail(s), i) <=> InList(s, i) /\ i # s[1]
      BY <1>4, TailList
    <2>7. InList(s, s[1])
      BY <2>5 DEF InList
    <2>8. \A i \in Irq : (i \in nvic' \/ InList(s, i)) /\ i # s[1] => thr(i) # thr(s[1])
      BY <2>5, <2>7 DEF Ready
    <2>9. \A i \in Irq : Awaited(i) /\ thr(i) # thr(s[1]) => Awaited(i)'
      BY <1>2, <1>4 DEF Awaited, TypeOK
    <2>10. s[1] \notin nvic'
      BY <2>7 DEF Ready
    <2>11. \A i \in nvic' : Awaited(i)' /\ ~InList(Tail(s), i)
      BY <2>6, <2>8, <2>9, <2>10 DEF Ready
    <2>12. \A i \in Irq : InList(Tail(s), i) => Awaited(i)' /\ irqn'[thr(i)'] = i
      BY <1>2, <2>6, <2>8, <2>9 DEF Ready
    <2>13. Ready(Tail(s), nvic, irqn)'
      BY <1>2, <2>6, <2>11, <2>12 DEF Ready, InList
    <2> QED
      BY <1>4, <2>1, <2>2, <2>3, <2>4, <2>13 DEF IInv
  <1> QED
    BY <1>3, <1>4, SelectOutcome

-----------------------------------------------------------------------------
(* The steps: each keeps the invariant, takes irqs out of the queue only by *)
(* waking their threads, and is a step of IrqFifo or stutters.              *)

Taken ==
    \A i \in Irq :
        Queued(i) /\ ~Queued(i)' =>
            /\ state[thr(i)] = "INTR_BLOCKED"
            /\ state'[thr(i)] = "RUNNABLE"
            /\ current' = thr(i)
            /\ irqn'[thr(i)] = i

FifoStep == [Fifo!FNext]_(Fifo!fvars)

StepOK == IInv' /\ Taken /\ FifoStep

\* A step that leaves the queue alone.
LEMMA QueueKept ==
    ASSUME IInv, queue' = queue, TypeOK', RunningIsRunnable',
           Ready(Entries(queue), nvic, irqn)'
    PROVE  IInv' /\ Taken /\ Entries(queue)' = Entries(queue)
  <1>1. \A i : Queued(i)' <=> Queued(i)
    BY DEF Queued
  <1> QED
    BY <1>1 DEF IInv, Taken

\* The list of irqs and what is true of each.
LEMMA ListFacts ==
    ASSUME IInv
    PROVE  /\ queue \in Queue
           /\ Entries(queue) \in Seq(Irq)
           /\ IsList(queue, Entries(queue))
           /\ \A i : Queued(i) <=> InList(Entries(queue), i)
  BY QueuedIsInList DEF IInv, IsList, TypeOK, Queue

LEMMA QueuedAfter ==
    ASSUME IInv'
    PROVE  \A i : Queued(i)' <=> InList(Entries(queue)', i)
  <1>1. Entries(queue)' \in Seq(Irq)
    BY DEF IInv, IsList
  <1>2. DOMAIN Entries(queue)' = 1 .. Len(Entries(queue)')
    BY <1>1, LenProperties
  <1> QED
    BY <1>2 DEF Queued, InList

\* A step of schedule_select() on the queue as it is.
LEMMA SelectStep ==
    ASSUME IInv, Select(queue) \/ Return(queue), UNCHANGED <<user_irqs, nvic, irqn>>
    PROVE  StepOK
  <1> DEFINE s == Entries(queue)
  <1>1. queue \in Queue /\ s \in Seq(Irq) /\ IsList(queue, s)
        /\ \A i : Queued(i) <=> InList(s, i)
    BY ListFacts
  <1>2. TypeOK /\ RunningIsRunnable /\ nvic' \in SUBSET Irq
        /\ irqn' \in [Thread -> Irq \cup {NULL}] /\ Ready(s, nvic', irqn')
    BY DEF IInv, TypeOK
  <1> HIDE DEF s
  <1>3. /\ IInv'
        /\ \/ Entries(queue)' = s /\ state' = state
           \/ /\ s # <<>> /\ Entries(queue)' = Tail(s)
              /\ thr(s[1]) \in Thread /\ current' = thr(s[1])
              /\ state' = [state EXCEPT ![thr(s[1])] = "RUNNABLE"]
    BY <1>1, <1>2, SelectKeeps
  <1>4. \A i : Queued(i)' <=> InList(Entries(queue)', i)
    BY <1>3, QueuedAfter
  <1>5. CASE Entries(queue)' = s /\ state' = state
    <2>1. Taken
      BY <1>1, <1>4, <1>5 DEF Taken
    <2>2. FifoStep
      BY <1>5 DEF FifoStep, Fifo!fvars, s
    <2> QED
      BY <1>3, <2>1, <2>2 DEF StepOK
  <1>6. CASE /\ s # <<>> /\ Entries(queue)' = Tail(s)
             /\ thr(s[1]) \in Thread /\ current' = thr(s[1])
             /\ state' = [state EXCEPT ![thr(s[1])] = "RUNNABLE"]
    <2>1. ASSUME NEW i \in Irq, Queued(i), ~Queued(i)'
          PROVE  i = s[1]
      BY <1>1, <1>4, <1>6, <2>1, TailList
    <2>2. ASSUME NEW i \in Irq, Queued(i)
          PROVE  state[thr(i)] = "INTR_BLOCKED" /\ irqn'[thr(i)] = i
      BY <1>1, <1>2, <2>2 DEF Ready, Awaited
    <2>3. state'[thr(s[1])] = "RUNNABLE"
      BY <1>2, <1>6 DEF TypeOK
    <2>4. Taken
      BY <1>6, <2>1, <2>2, <2>3 DEF Taken
    <2>5. Fifo!Take
      BY <1>6 DEF Fifo!Take, s
    <2>6. FifoStep
      BY <2>5 DEF FifoStep, Fifo!FNext
    <2> QED
      BY <1>3, <2>4, <2>6 DEF StepOK
  <1> QED
    BY <1>3, <1>5, <1>6

LEMMA InterruptStep ==
    ASSUME IInv, NEW i \in Irq, Interrupt(i)
    PROVE  StepOK
  <1> DEFINE s == Entries(queue)  t == Append(s, i)  q == Pushed(queue, i)
  <1>1. queue \in Queue /\ s \in Seq(Irq) /\ IsList(queue, s)
        /\ (\A j : Queued(j) <=> InList(s, j)) /\ Ready(s, nvic, irqn)
    BY ListFacts DEF IInv
  <1>2. i \in nvic /\ nvic' = nvic \ {i} /\ user_irqs' = user_irqs
        /\ Awaited(i) /\ ~InList(s, i) /\ thr(i) \in Thread
    BY <1>1 DEF Interrupt, Masked, Ready, Awaited, IInv, TypeOK, thr
  <1>3. irqn' = [irqn EXCEPT ![thr(i)] = i]
    BY <1>2 DEF Interrupt, Message, Awaited, Receiving
  <1>4. q \in Queue /\ IsList(q, t)
    BY <1>1, <1>2, PushedList DEF InList
  <1>5. /\ Len(s) \in Nat /\ Len(t) = Len(s) + 1 /\ t[Len(s) + 1] = i /\ t # <<>>
        /\ \A k \in 1 .. Len(s) : t[k] = s[k]
    BY <1>1, AppendProperties, LenProperties
  <1>6. Return(q)
    BY DEF Interrupt
  <1> HIDE DEF s, t, q
  <1>7. \A j \in Irq : InList(t, j) <=> InList(s, j) \/ j = i
    <2>1. \A j \in Irq : InList(s, j) => InList(t, j)
      BY <1>5 DEF InList
    <2>2. InList(t, i)
      BY <1>5 DEF InList
    <2>3. ASSUME NEW j \in Irq, InList(t, j), j # i
          PROVE  InList(s, j)
      <3>1. PICK k \in 1 .. Len(t) : t[k] = j
        BY <2>3 DEF InList
      <3>2. k \in 1 .. Len(s)
        BY <1>5, <2>3, <3>1
      <3> QED
        BY <1>5, <3>1, <3>2 DEF InList
    <2> QED
      BY <2>1, <2>2, <2>3
  <1>8. \A j \in Irq : (j \in nvic \/ InList(s, j)) /\ j # i => thr(j) # thr(i)
    BY <1>1, <1>2 DEF Ready
  <1>9. TypeOK /\ RunningIsRunnable /\ nvic' \in SUBSET Irq
        /\ irqn' \in [Thread -> Irq \cup {NULL}]
    BY <1>2, <1>3 DEF IInv, TypeOK
  <1>10. Ready(t, nvic', irqn')
    <2>1. \A j \in nvic' : Awaited(j) /\ ~InList(t, j)
      BY <1>1, <1>2, <1>7, <1>9 DEF Ready
    <2>2. \A j \in Irq : InList(t, j) => Awaited(j) /\ irqn'[thr(j)] = j
      <3> SUFFICES ASSUME NEW j \in Irq, InList(t, j)
                   PROVE  Awaited(j) /\ irqn'[thr(j)] = j
        OBVIOUS
      <3>1. CASE j = i
        BY <1>2, <1>3, <1>9, <3>1 DEF TypeOK
      <3>2. CASE j # i
        <4>1. InList(s, j) /\ thr(j) # thr(i)
          BY <1>7, <1>8, <3>2
        <4>2. Awaited(j) /\ irqn[thr(j)] = j /\ thr(j) \in Thread
          BY <1>1, <1>9, <4>1 DEF Ready, Awaited, TypeOK, thr
        <4> QED
          BY <1>3, <1>9, <4>1, <4>2 DEF TypeOK
      <3> QED
        BY <3>1, <3>2
    <2>3. \A j \in Irq : j \in nvic' \/ InList(t, j) => j \in nvic \/ InList(s, j)
      BY <1>2, <1>7
    <2> QED
      BY <1>1, <2>1, <2>2, <2>3 DEF Ready
  <1>11. /\ IInv'
         /\ \/ Entries(queue)' = t /\ state' = state
            \/ /\ t # <<>> /\ Entries(queue)' = Tail(t)
               /\ thr(t[1]) \in Thread /\ current' = thr(t[1])
               /\ state' = [state EXCEPT ![thr(t[1])] = "RUNNABLE"]
    BY <1>2, <1>4, <1>6, <1>9, <1>10, SelectKeeps
  <1>12. \A j : Queued(j)' <=> InList(Entries(queue)', j)
    BY <1>11, QueuedAfter
  <1>13. Taken
    <2>1. CASE Entries(queue)' = t
      BY <1>1, <1>7, <1>12, <2>1 DEF Taken
    <2>2. CASE /\ Entries(queue)' = Tail(t)
               /\ thr(t[1]) \in Thread /\ current' = thr(t[1])
               /\ state' = [state EXCEPT ![thr(t[1])] = "RUNNABLE"]
      <3>3. ASSUME NEW j \in Irq, Queued(j), ~Queued(j)'
            PROVE  j = t[1]
        BY <1>1, <1>4, <1>5, <1>7, <1>12, <2>2, <3>3, TailList
      <3>4. ASSUME NEW j \in Irq, Queued(j)
            PROVE  state[thr(j)] = "INTR_BLOCKED" /\ irqn'[thr(j)] = j
        BY <1>1, <1>7, <1>10, <3>4 DEF Ready, Awaited
      <3>5. state'[thr(t[1])] = "RUNNABLE"
        BY <1>9, <2>2 DEF TypeOK
      <3> QED
        BY <2>2, <3>3, <3>4, <3>5 DEF Taken
    <2> QED
      BY <1>11, <2>1, <2>2
  <1>14. Fifo!Raise(i)
    BY <1>2, <1>11 DEF Fifo!Raise, s, t
  <1>15. FifoStep
    BY <1>14 DEF FifoStep, Fifo!FNext
  <1> QED
    BY <1>11, <1>13, <1>15 DEF StepOK

\* A step that leaves the queue alone, and the line of IrqFifo with it.
LEMMA CallStep ==
    ASSUME IInv, queue' = queue, TypeOK', RunningIsRunnable',
           Ready(Entries(queue), nvic, irqn)',
           \/ nvic' = nvic
           \/ \E i \in Irq : nvic' = nvic \ {i}
           \/ \E i \in Irq : nvic' = nvic \cup {i} /\ ~Queued(i)
    PROVE  StepOK
  <1>1. IInv' /\ Taken /\ Entries(queue)' = Entries(queue)
    BY QueueKept
  <1>2. CASE nvic' = nvic
    BY <1>1, <1>2 DEF StepOK, FifoStep, Fifo!fvars
  <1>3. CASE \E i \in Irq : nvic' = nvic \ {i}
    BY <1>1, <1>3 DEF StepOK, FifoStep, Fifo!FNext, Fifo!Mask
  <1>4. CASE \E i \in Irq : nvic' = nvic \cup {i} /\ ~Queued(i)
    BY <1>1, <1>4 DEF StepOK, FifoStep, Fifo!FNext, Fifo!Unmask, Fifo!InLine, Queued
  <1> QED
    BY <1>2, <1>3, <1>4

\* No irq of a thread that is not waiting is enabled or queued.
LEMMA NotAwaited ==
    ASSUME IInv, NEW t, state[t] # "INTR_BLOCKED", NEW i \in Irq, thr(i) = t
    PROVE  i \notin nvic /\ ~InList(Entries(queue), i)
  BY DEF IInv, Ready, Awaited

\* The state of one thread changes that does not wait for an irq.
LEMMA StateStep ==
    ASSUME IInv, NEW t \in Thread, state[t] # "INTR_BLOCKED", NEW st \in ThreadState,
           state' = [state EXCEPT ![t] = st],
           UNCHANGED <<user_irqs, queue, nvic, slot>>,
           irqn' \in [Thread -> Irq \cup {NULL}], \A u \in Thread \ {t} : irqn'[u] = irqn[u],
           current' \in Thread \cup {Kernel, Idle}, RunningIsRunnable'
    PROVE  StepOK
  <1> DEFINE s == Entries(queue)
  <1>1. s' = s /\ \A i : thr(i)' = thr(i)
    BY DEF thr
  <1>2. TypeOK'
    BY DEF IInv, TypeOK
  <1>3. ASSUME NEW i \in Irq, i \in nvic \/ InList(s, i)
        PROVE  Awaited(i)' /\ irqn'[thr(i)] = irqn[thr(i)]
    <2>1. thr(i) # t /\ Awaited(i)
      BY <1>3, NotAwaited DEF IInv, Ready
    <2>2. thr(i) \in Thread
      BY <2>1 DEF IInv, TypeOK, Awaited, thr
    <2> QED
      BY <1>1, <2>1, <2>2 DEF Awaited, IInv, TypeOK
  <1> HIDE DEF s
  <1>4. Ready(s, nvic, irqn)
    BY DEF IInv, s
  <1>5. nvic' = nvic /\ nvic \subseteq Irq
    BY DEF IInv, TypeOK
  <1>6. Ready(s, nvic, irqn)'
    BY <1>1, <1>3, <1>4, <1>5 DEF Ready, InList
  <1> QED
    BY <1>2, <1>5, <1>6, CallStep DEF s

LEMMA OtherInterruptStep ==
    ASSUME IInv, OtherInterrupt
    PROVE  StepOK
  <1>1. CASE current' = Kernel /\ UNCHANGED <<queue, state, slot>>
    <2>1. UNCHANGED <<user_irqs, queue, nvic, irqn, state, slot>>
      BY <1>1 DEF OtherInterrupt
    <2>2. TypeOK' /\ RunningIsRunnable'
      BY <1>1, <2>1, InterruptAssumption DEF IInv, TypeOK, RunningIsRunnable
    <2>3. Ready(Entries(queue), nvic, irqn)'
      BY <2>1 DEF IInv, Ready, InList, Awaited, thr
    <2> QED
      BY <2>1, <2>2, <2>3, CallStep
  <1>2. CASE Select(queue)
    BY <1>2, SelectStep DEF OtherInterrupt
  <1> QED
    BY <1>1, <1>2 DEF OtherInterrupt

LEMMA SvcStep ==
    ASSUME IInv, NEW t \in Thread, Svc(t)
    PROVE  StepOK
  <1>1. state[t] = "RUNNABLE"
    BY DEF IInv, RunningIsRunnable, Svc
  <1>2. RunningIsRunnable' /\ current' \in Thread \cup {Kernel, Idle}
    BY InterruptAssumption DEF Svc, RunningIsRunnable
  <1>3. irqn' \in [Thread -> Irq \cup {NULL}] /\ \A u \in Thread \ {t} : irqn'[u] = irqn[u]
    BY DEF Svc, IInv, TypeOK
  <1> QED
    BY <1>1, <1>2, <1>3, StateStep DEF Svc, ThreadState

LEMMA WakeOtherStep ==
    ASSUME Disciplined, IInv, NEW t \in Thread, WakeOther(t)
    PROVE  StepOK
  <1>1. state[t] # "INTR_BLOCKED"
    BY DEF WakeOther
  <1>2. RunningIsRunnable' /\ current' \in Thread \cup {Kernel, Idle}
    BY InterruptAssumption DEF WakeOther, RunningIsRunnable
  <1>3. irqn' \in [Thread -> Irq \cup {NULL}] /\ \A u \in Thread \ {t} : irqn'[u] = irqn[u]
    BY DEF WakeOther, IInv, TypeOK
  <1> QED
    BY <1>1, <1>2, <1>3, StateStep DEF WakeOther, ThreadState

LEMMA ConfigureStep ==
    ASSUME Disciplined, IInv, NEW c \in Thread, NEW i \in Irq, Configure(c, i)
    PROVE  StepOK
  <1> DEFINE s == Entries(queue)
  <1>1. PICK t \in MayName(c, i), a \in Action, h \in {TRUE, user_irqs[i].handler} :
            user_irqs' = [user_irqs EXCEPT ![i] = [thr |-> t, action |-> a, handler |-> h]]
    BY DEF Configure
  <1>2. thr(i) \in {NoThread, c} /\ t \in {c, thr(i)}
    BY DEF MayName
  <1>3. /\ queue' = queue /\ irqn' = irqn /\ slot' = slot /\ current' = current /\ current = Kernel
        /\ nvic' = nvic \ {i} /\ state[c] = "SVC_BLOCKED"
        /\ state' = [state EXCEPT ![c] = "RUNNABLE"]
    BY DEF Configure, Serves
  <1>4. TypeOK'
    BY <1>1, <1>2, <1>3, InterruptAssumption DEF IInv, TypeOK, ThreadState, thr
  <1>5. RunningIsRunnable'
    BY <1>3, InterruptAssumption DEF RunningIsRunnable
  <1>6. \A j \in Irq : j # i => thr(j)' = thr(j)
    BY <1>1 DEF thr, IInv, TypeOK
  <1>7. s' = s /\ Ready(s, nvic, irqn)
    BY <1>3 DEF IInv
  <1>8. ASSUME NEW j \in Irq, j \in nvic \/ InList(s, j)
        PROVE  thr(j) # c /\ j # i /\ Awaited(j) /\ thr(j) \in Thread
    <2>1. Awaited(j)
      BY <1>7, <1>8 DEF Ready
    <2>2. thr(j) \in Thread
      BY <2>1 DEF IInv, TypeOK, Awaited, thr
    <2> QED
      BY <1>2, <1>3, <2>1, <2>2 DEF Awaited
  <1> HIDE DEF s
  <1>9. ASSUME NEW j \in Irq, j \in nvic \/ InList(s, j)
        PROVE  Awaited(j)' /\ thr(j)' = thr(j) /\ j # i
    BY <1>3, <1>6, <1>8, <1>9 DEF Awaited, IInv, TypeOK
  <1>10. \A j \in nvic' : j \in nvic /\ j \in Irq
    BY <1>3 DEF IInv, TypeOK
  <1>11. Ready(s, nvic, irqn)'
    BY <1>3, <1>7, <1>9, <1>10 DEF Ready, InList
  <1> QED
    BY <1>3, <1>4, <1>5, <1>11, CallStep DEF s

LEMMA WaitEnabledStep ==
    ASSUME IInv, NEW c \in Thread, NEW i \in Irq, WaitEnabled(c, i)
    PROVE  StepOK
  <1> DEFINE s == Entries(queue)
  <1>1. /\ queue' = queue /\ irqn' = irqn /\ slot' = slot /\ current' = current /\ current = Kernel
        /\ user_irqs' = user_irqs /\ nvic' = nvic \cup {i} /\ state[c] = "SVC_BLOCKED"
        /\ state' = [state EXCEPT ![c] = "INTR_BLOCKED"] /\ thr(i) = c
    BY DEF WaitEnabled, Serves, First
  <1>2. TypeOK'
    BY <1>1 DEF IInv, TypeOK, ThreadState
  <1>3. RunningIsRunnable'
    BY <1>1, InterruptAssumption DEF RunningIsRunnable
  <1>4. s' = s /\ Ready(s, nvic, irqn) /\ (\A j : thr(j)' = thr(j)) /\ nvic \subseteq Irq
    BY <1>1 DEF IInv, TypeOK, thr
  <1>5. ASSUME NEW j \in Irq, j \in nvic \/ InList(s, j)
        PROVE  thr(j) # c /\ Awaited(j)'
    <2>1. Awaited(j) /\ thr(j) # c
      BY <1>1, <1>4, <1>5 DEF Ready, Awaited
    <2>2. thr(j) \in Thread
      BY <2>1 DEF IInv, TypeOK, Awaited, thr
    <2> QED
      BY <1>1, <1>4, <2>1, <2>2 DEF Awaited, IInv, TypeOK
  <1>6. Awaited(i)' /\ ~InList(s, i)
    <2>1. ~InList(s, i)
      BY <1>1, <1>5
    <2>2. thr(i)' = c /\ state'[c] = "INTR_BLOCKED" /\ c # NoThread
      BY <1>1, <1>4, InterruptAssumption DEF IInv, TypeOK
    <2> QED
      BY <2>1, <2>2 DEF Awaited
  <1> HIDE DEF s
  <1>7. Ready(s, nvic, irqn)'
    BY <1>1, <1>4, <1>5, <1>6 DEF Ready, InList
  <1>8. ~Queued(i)
    BY <1>6, ListFacts DEF s
  <1> QED
    BY <1>1, <1>2, <1>3, <1>7, <1>8, CallStep DEF s

LEMMA WaitDisabledStep ==
    ASSUME IInv, NEW c \in Thread, NEW i \in Irq, WaitDisabled(c, i)
    PROVE  StepOK
  <1>1. /\ irqn' = irqn /\ slot' = slot /\ current' = current /\ current = Kernel
        /\ user_irqs' = user_irqs /\ nvic' = nvic \ {i} /\ state[c] = "SVC_BLOCKED"
        /\ state' = [state EXCEPT ![c] = "INTR_BLOCKED"] /\ thr(i) = c
    BY DEF WaitDisabled, Serves, First
  <1>2. i \notin nvic /\ ~Queued(i)
    BY <1>1, NotAwaited, ListFacts
  <1>3. queue' = queue /\ nvic' = nvic
    BY <1>1, <1>2 DEF WaitDisabled
  <1>4. RunningIsRunnable' /\ current' \in Thread \cup {Kernel, Idle}
    BY <1>1, InterruptAssumption DEF RunningIsRunnable
  <1>5. irqn' \in [Thread -> Irq \cup {NULL}]
    BY <1>1 DEF IInv, TypeOK
  <1> QED
    BY <1>1, <1>3, <1>4, <1>5, StateStep DEF ThreadState

LEMMA WaitFreeStep ==
    ASSUME IInv, NEW c \in Thread, NEW i \in Irq, WaitFree(c, i)
    PROVE  StepOK
  <1> DEFINE s == Entries(queue)
  <1>1. /\ irqn' = [irqn EXCEPT ![c] = i] /\ slot' = slot /\ current' = current /\ current = Kernel
        /\ user_irqs' = [user_irqs EXCEPT ![i] = Default] /\ nvic' = nvic
        /\ state[c] = "SVC_BLOCKED"
        /\ state' = [state EXCEPT ![c] = "RUNNABLE"] /\ thr(i) = c
    BY DEF WaitFree, Serves, First
  <1>2. i \notin nvic /\ ~Queued(i)
    BY <1>1, NotAwaited, ListFacts
  <1>3. queue' = queue
    BY <1>2 DEF WaitFree
  <1>4. TypeOK'
    BY <1>1, <1>3 DEF IInv, TypeOK, ThreadState, Default, Action
  <1>5. RunningIsRunnable'
    BY <1>1, InterruptAssumption DEF RunningIsRunnable
  <1>6. s' = s /\ Ready(s, nvic, irqn) /\ nvic \subseteq Irq
    BY <1>3 DEF IInv, TypeOK
  <1>7. ASSUME NEW j \in Irq, j \in nvic \/ InList(s, j)
        PROVE  thr(j)' = thr(j) /\ Awaited(j)' /\ irqn'[thr(j)] = irqn[thr(j)]
    <2>1. Awaited(j) /\ thr(j) # c /\ j # i
      BY <1>1, <1>6, <1>7 DEF Ready, Awaited
    <2>2. thr(j) \in Thread /\ thr(j)' = thr(j)
      BY <1>1, <2>1 DEF IInv, TypeOK, Awaited, thr
    <2> QED
      BY <1>1, <2>1, <2>2 DEF Awaited, IInv, TypeOK
  <1> HIDE DEF s
  <1>8. Ready(s, nvic, irqn)'
    BY <1>1, <1>6, <1>7 DEF Ready, InList
  <1> QED
    BY <1>1, <1>3, <1>4, <1>5, <1>8, CallStep DEF s

\* WaitNothing, OtherCall
LEMMA OtherCallStep ==
    ASSUME IInv, NEW c \in Thread, WaitNothing(c) \/ OtherCall(c)
    PROVE  StepOK
  <1>1. PICK st \in ThreadState : state' = [state EXCEPT ![c] = st]
    BY DEF WaitNothing, OtherCall, ThreadState
  <1>2. /\ UNCHANGED <<user_irqs, queue, nvic, irqn, slot, current>>
        /\ current = Kernel /\ state[c] = "SVC_BLOCKED"
    BY DEF WaitNothing, OtherCall, Serves
  <1>3. RunningIsRunnable' /\ current' \in Thread \cup {Kernel, Idle}
    BY <1>2, InterruptAssumption DEF RunningIsRunnable
  <1>4. irqn' \in [Thread -> Irq \cup {NULL}]
    BY <1>2 DEF IInv, TypeOK
  <1> QED
    BY <1>1, <1>2, <1>3, <1>4, StateStep

LEMMA NextStep ==
    ASSUME Disciplined, IInv, Next
    PROVE  StepOK
  <1>1. ASSUME NEW i \in Irq, Interrupt(i)
        PROVE  StepOK
    BY <1>1, InterruptStep
  <1>2. ASSUME NEW i \in Irq, Spurious(i)
        PROVE  StepOK
    BY <1>2, SelectStep DEF Spurious
  <1>3. ASSUME OtherInterrupt
        PROVE  StepOK
    BY <1>3, OtherInterruptStep
  <1>4. ASSUME NEW t \in Thread, Svc(t) \/ WakeOther(t)
        PROVE  StepOK
    BY <1>4, SvcStep, WakeOtherStep
  <1>5. ASSUME Schedule
        PROVE  StepOK
    BY <1>5, SelectStep DEF Schedule
  <1>6. ASSUME NEW c \in Thread, Serve(c)
        PROVE  StepOK
    BY <1>6, ConfigureStep, WaitEnabledStep, WaitDisabledStep, WaitFreeStep, OtherCallStep
    DEF Serve
  <1> QED
    BY <1>1, <1>2, <1>3, <1>4, <1>5, <1>6 DEF Next, KernelStep

LEMMA StutterStep ==
    ASSUME IInv, UNCHANGED vars
    PROVE  StepOK
  <1>1. TypeOK' /\ RunningIsRunnable' /\ queue' = queue /\ nvic' = nvic
    BY DEF IInv, TypeOK, RunningIsRunnable, vars
  <1>2. Ready(Entries(queue), nvic, irqn)'
    BY DEF IInv, Ready, InList, Awaited, thr, vars
  <1> QED
    BY <1>1, <1>2, CallStep

-----------------------------------------------------------------------------
(* Theorems *)

\* If the threads keep to the protocol, the invariant always holds.
THEOREM InductiveInvariant == Disciplined => (Spec => []IInv)
  <1> SUFFICES ASSUME Disciplined PROVE Spec => []IInv
    OBVIOUS
  <1>1. IInv /\ [Next]_vars => IInv'
    BY NextStep, StutterStep DEF StepOK
  <1> QED
    BY <1>1, InitIInv, PTL DEF Spec

\* The queue stays a list without repetition, an enabled irq is awaited and not
\* queued, and the thread on the processor can run.
THEOREM QueueAlwaysSound == Disciplined => (Spec => []QueueSound)
  <1> SUFFICES ASSUME Disciplined PROVE Spec => []QueueSound
    OBVIOUS
  <1>1. ASSUME IInv
        PROVE  QueueSound
    <2> DEFINE e == Entries(queue)
    <2>1. e \in Seq(Irq) /\ IsList(queue, e) /\ \A i : Queued(i) <=> InList(e, i)
      BY <1>1, ListFacts
    <2>2. EnabledAwaited
      BY <1>1, <2>1 DEF IInv, Ready, Awaited, EnabledAwaited
    <2>3. \A j, k \in 1 .. Len(e) : j # k => e[j] # e[k]
      BY <2>1 DEF IsList
    <2>4. Len(e) > 0 => queue.tail = e[Len(e)]
      BY <2>1 DEF IsList
    <2>5. ASSUME NEW i \in Irq, ~Queued(i) \/ queue.tail = i
          PROVE  queue.next[i] = NULL
      <3>1. CASE ~Queued(i)
        BY <2>1, <3>1 DEF IsList, InList
      <3>2. CASE Queued(i) /\ queue.tail = i
        <4>1. e # <<>>
          BY <2>1, <3>2 DEF InList
        <4> QED
          BY <2>1, <3>2, <4>1 DEF IsList
      <3> QED
        BY <2>5, <3>1, <3>2
    <2>6. QueueIsList
      BY <2>3, <2>4, <2>5 DEF QueueIsList
    <2> QED
      BY <1>1, <2>2, <2>6 DEF IInv, QueueSound
  <1> QED
    BY <1>1, InductiveInvariant, PTL

\* An irq leaves the queue only by waking the thread that waits for it.
THEOREM AlwaysTakenByWaking == Disciplined => (Spec => TakenByWaking)
  <1> SUFFICES ASSUME Disciplined PROVE Spec => TakenByWaking
    OBVIOUS
  <1>1. IInv /\ [Next]_vars =>
            [\A i \in Irq :
                 Queued(i) /\ ~Queued(i)' =>
                     /\ state[thr(i)] = "INTR_BLOCKED"
                     /\ state'[thr(i)] = "RUNNABLE"
                     /\ current' = thr(i)
                     /\ irqn'[thr(i)] = i]_vars
    BY NextStep DEF StepOK, Taken
  <1> QED
    BY <1>1, InductiveInvariant, PTL DEF Spec, TakenByWaking

\* Interrupts are taken in the order in which they came: the queue implements
\* IrqFifo.
THEOREM QueueImplementsFifo == Disciplined => (Spec => ImplementsFifo)
  <1> SUFFICES ASSUME Disciplined PROVE Spec => ImplementsFifo
    OBVIOUS
  <1>1. Init => Fifo!FInit
    <2> SUFFICES ASSUME Init PROVE Entries(queue) = <<>>
      BY DEF Init, Fifo!FInit
    <2>1. queue \in Queue /\ IsList(queue, <<>>)
      BY InterruptAssumption DEF Init, Queue, IsList, Irq, NULL
    <2> QED
      BY <2>1, EntriesOfList
  <1>2. IInv /\ [Next]_vars => [Fifo!FNext]_(Fifo!fvars)
    BY NextStep, StutterStep DEF StepOK, FifoStep
  <1> QED
    BY <1>1, <1>2, InductiveInvariant, PTL DEF Spec, ImplementsFifo, Fifo!FSpec
=============================================================================
