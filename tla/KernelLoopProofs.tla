-------------------------- MODULE KernelLoopProofs --------------------------
(***************************************************************************)
(* The safety invariants of KernelLoop, proved for any set of threads.     *)
(***************************************************************************)
EXTENDS KernelLoop, TLAPS

\* The strengthening: what the position of the kernel thread in its loop says
\* about the processor, the flags and the caller.
LoopInv ==
    /\ slots["SOFTIRQ"] = Kernel
    /\ slots["IDLE"] = Idle /\ state[Idle] = "RUNNABLE"
    /\ current # Kernel =>
          /\ state[Kernel] # "RUNNABLE"
          /\ kpc \in {"scan", "svc"} /\ ki = 0
    /\ current = Kernel /\ kpc # "svc" => state[Kernel] = "RUNNABLE"
    /\ kpc = "svc" => ki = 0
    /\ kpc \in {"handler", "clear"} => ki \in Registered /\ sched[ki]
    /\ sched[SYSCALL] => caller \in Trapping
    /\ SYSCALL \in owed => sched[SYSCALL] /\ ~(kpc = "clear" /\ ki = SYSCALL)

IInv ==
    /\ TypeOK
    /\ LoopInv
    /\ PendingKeepsKernelRunnable
    /\ RunningIsRunnable
    /\ TrappedIsCaller

-----------------------------------------------------------------------------
(* Scheduling *)

\* The slots are six.
LEMMA SlotNames ==
    Slot = {"SOFTIRQ", "INTR_THREAD", "ROOT_THREAD",
            "IPC_THREAD", "NORMAL_THREAD", "IDLE"}
BY DEF Slot, SlotRank

\* schedule_select() returns the kernel thread whenever it is runnable.
LEMMA KernelSelected ==
    ASSUME NEW sl \in [Slot -> Thread \cup {None}], NEW st,
           sl["SOFTIRQ"] = Kernel, st[Kernel] = "RUNNABLE",
           Switch(sl, st)
    PROVE  current' = Kernel /\ slots' = sl
<1> DEFINE Y(s) == Yields(sl, Runnable(st), Redispatch(st), s)
           sel == SelectedSlot(sl, Runnable(st), Redispatch(st))
<1>1. Kernel \in Runnable(st)
  BY DEF Runnable, Thread
<1>2. Y("SOFTIRQ") = {Kernel}
  BY <1>1 DEF Yields
<1>3. \A s \in Slot : s # "SOFTIRQ" => SlotRank["SOFTIRQ"] < SlotRank[s]
  BY SlotNames DEF SlotRank
<1>4. \A r \in Slot : ~(SlotRank[r] < SlotRank["SOFTIRQ"])
  BY SlotNames DEF SlotRank
<1>5. sel = "SOFTIRQ"
  <2> DEFINE First(s) == /\ Y(s) # {}
                         /\ \A r \in Slot : SlotRank[r] < SlotRank[s] => Y(r) = {}
  <2>1. "SOFTIRQ" \in Slot /\ First("SOFTIRQ")
    BY <1>2, <1>4, SlotNames
  <2>2. \A s \in Slot : First(s) => s = "SOFTIRQ"
    BY <1>2, <1>3, <2>1
  <2>3. sel = CHOOSE s \in Slot : First(s)
    BY DEF SelectedSlot
  <2> HIDE DEF First, sel
  <2> QED BY <2>1, <2>2, <2>3
<1>6. PICK t \in Y(sel) : current' = t /\ slots' = Dispatch(sl, sel, t)
  BY DEF Switch
<1>7. t = Kernel
  BY <1>2, <1>5, <1>6
<1> QED BY <1>5, <1>6, <1>7, SlotNames DEF Dispatch

\* Whatever the slots hold, schedule_select() finds a runnable thread (slot
\* IDLE has one), and the kernel and idle threads keep their slots.
LEMMA SomeoneSelected ==
    ASSUME NEW sl \in [Slot -> Thread \cup {None}],
           NEW st \in [Thread -> ThreadState],
           sl["SOFTIRQ"] = Kernel, sl["IDLE"] = Idle, st[Idle] = "RUNNABLE",
           Switch(sl, st)
    PROVE  /\ current' \in Thread /\ st[current'] = "RUNNABLE"
           /\ slots' \in [Slot -> Thread \cup {None}]
           /\ slots'["SOFTIRQ"] = Kernel /\ slots'["IDLE"] = Idle
<1> DEFINE Y(s) == Yields(sl, Runnable(st), Redispatch(st), s)
           First(s) == /\ Y(s) # {}
                       /\ \A r \in Slot : SlotRank[r] < SlotRank[s] => Y(r) = {}
           sel == SelectedSlot(sl, Runnable(st), Redispatch(st))
<1>1. Idle \in Runnable(st)
  BY DEF Runnable, Thread
<1>2. Y("IDLE") # {}
  BY <1>1 DEF Yields
<1>3. \E s \in Slot : First(s)
  <2> HIDE DEF Y
  <2>1. CASE Y("SOFTIRQ") # {}
    BY <2>1, SlotNames DEF SlotRank
  <2>2. CASE Y("SOFTIRQ") = {} /\ Y("INTR_THREAD") # {}
    BY <2>2, SlotNames DEF SlotRank
  <2>3. CASE Y("SOFTIRQ") = {} /\ Y("INTR_THREAD") = {} /\ Y("ROOT_THREAD") # {}
    BY <2>3, SlotNames DEF SlotRank
  <2>4. CASE /\ Y("SOFTIRQ") = {} /\ Y("INTR_THREAD") = {}
             /\ Y("ROOT_THREAD") = {} /\ Y("IPC_THREAD") # {}
    BY <2>4, SlotNames DEF SlotRank
  <2>5. CASE /\ Y("SOFTIRQ") = {} /\ Y("INTR_THREAD") = {}
             /\ Y("ROOT_THREAD") = {} /\ Y("IPC_THREAD") = {}
             /\ Y("NORMAL_THREAD") # {}
    BY <2>5, SlotNames DEF SlotRank
  <2>6. CASE \A s \in Slot \ {"IDLE"} : Y(s) = {}
    BY <2>6, <1>2, SlotNames DEF SlotRank
  <2> QED BY <2>1, <2>2, <2>3, <2>4, <2>5, <2>6, SlotNames
<1>4. sel \in Slot /\ First(sel)
  <2>1. sel = CHOOSE s \in Slot : First(s)
    BY DEF SelectedSlot
  <2> HIDE DEF First, sel
  <2> QED BY <1>3, <2>1
<1>5. PICK t \in Y(sel) : current' = t /\ slots' = Dispatch(sl, sel, t)
  BY DEF Switch
<1> HIDE DEF sel
<1>6. t \in Thread /\ st[t] = "RUNNABLE"
  BY <1>4, <1>5 DEF Yields, Redispatch, Runnable
<1>7. sel = "SOFTIRQ" => t = Kernel
  BY <1>4, <1>5, SlotNames DEF Yields, Redispatch
<1>8. sel = "IDLE" => t = Idle
  BY <1>4, <1>5, SlotNames DEF Yields, Redispatch
<1> QED BY <1>4, <1>5, <1>6, <1>7, <1>8, SlotNames DEF Dispatch

-----------------------------------------------------------------------------
(* The inductive invariant *)

\* The boot state satisfies the invariant.
LEMMA InitIInv == Init => IInv
<1> SUFFICES ASSUME Init PROVE IInv
  OBVIOUS
<1>1. armed \in BOOLEAN /\ late \in BOOLEAN
  BY Zenon DEF Init
<1>2. TypeOK
  BY <1>1 DEF Init, TypeOK, Thread, Trapping, ThreadState, Softirq, NR_SOFTIRQ
<1>3. LoopInv
  BY KernelLoopAssumption, SlotNames
     DEF Init, LoopInv, Thread, Trapping, Softirq, NR_SOFTIRQ, SYSCALL, KTE, Registered
<1>4. PendingKeepsKernelRunnable /\ RunningIsRunnable /\ TrappedIsCaller
  BY KernelLoopAssumption
     DEF Init, PendingKeepsKernelRunnable, RunningIsRunnable, TrappedIsCaller,
         Thread, Trapping
<1> QED BY <1>2, <1>3, <1>4 DEF IInv

USE DEF Softirq, NR_SOFTIRQ, KTE, SYSCALL, Registered

\* Raising a softirq and switching, as every trap and every timer expiry do.
LEMMA RaiseStep ==
    ASSUME IInv, NEW i \in Registered, NEW st \in [Thread -> ThreadState],
           \A t \in Thread \ Trapping : st[t] = state[t],
           SoftirqSchedule(i, st), Switch(slots, state'),
           UNCHANGED <<kpc, ki>>
    PROVE  /\ current' = Kernel /\ slots' = slots
           /\ sched' \in [Softirq -> BOOLEAN] /\ owed' \in SUBSET Softirq
           /\ state' \in [Thread -> ThreadState]
           /\ state'[Kernel] = "RUNNABLE" /\ state'[Idle] = "RUNNABLE"
           /\ sched'[i] /\ \A j \in Softirq \ {i} : sched'[j] = sched[j]
           /\ owed' = owed \cup {i}
           /\ kpc \in {"handler", "clear"} => current = Kernel
<1>1. state'[Kernel] = "RUNNABLE" /\ state' \in [Thread -> ThreadState]
  BY DEF SoftirqSchedule, Thread, ThreadState
<1>2. current' = Kernel /\ slots' = slots
  BY <1>1, KernelSelected DEF IInv, TypeOK, LoopInv
<1>3. state'[Idle] = "RUNNABLE"
  BY KernelLoopAssumption DEF SoftirqSchedule, Thread, Trapping, IInv, LoopInv
<1> QED BY <1>1, <1>2, <1>3 DEF SoftirqSchedule, IInv, TypeOK, LoopInv

\* Every step preserves the invariant.
LEMMA StepIInv == IInv /\ [Next]_vars => IInv'
<1> SUFFICES ASSUME IInv, [Next]_vars PROVE IInv'
  OBVIOUS
<1> USE KernelLoopAssumption
<1>t. TypeOK /\ LoopInv /\ PendingKeepsKernelRunnable /\ RunningIsRunnable /\ TrappedIsCaller
  BY DEF IInv
<1>1. ASSUME NEW t \in Trapping, UserSvc(t) PROVE IInv'
  <2> DEFINE st == [state EXCEPT ![t] = "SVC_BLOCKED"]
  <2>1. t # Kernel /\ t # Idle /\ current = t /\ caller' = t /\ SYSCALL \in Registered
    BY <1>1 DEF Trapping, UserSvc
  <2>2. st \in [Thread -> ThreadState] /\ \A u \in Thread \ Trapping : st[u] = state[u]
    BY <1>t DEF TypeOK, ThreadState
  <2>3. SoftirqSchedule(SYSCALL, st) /\ Switch(slots, state') /\ UNCHANGED <<kpc, ki, armed, late>>
    BY <1>1 DEF UserSvc
  <2>4. /\ current' = Kernel /\ slots' = slots
        /\ sched' \in [Softirq -> BOOLEAN] /\ owed' \in SUBSET Softirq
        /\ state' \in [Thread -> ThreadState]
        /\ state'[Kernel] = "RUNNABLE" /\ state'[Idle] = "RUNNABLE"
        /\ sched'[SYSCALL] /\ \A j \in Softirq \ {SYSCALL} : sched'[j] = sched[j]
        /\ owed' = owed \cup {SYSCALL}
        /\ kpc \in {"handler", "clear"} => current = Kernel
    <3> HIDE DEF st
    <3> QED BY <2>1, <2>2, <2>3, RaiseStep
  <2>5. kpc' \in {"scan", "svc"}
    BY <2>1, <2>3, <1>t DEF LoopInv
  <2>6. TrappedIsCaller'
    <3>1. \A u \in Trapping : state[u] # "SVC_BLOCKED"
      BY <2>1, <1>t DEF TrappedIsCaller, LoopInv, PendingKeepsKernelRunnable
    <3>2. \A u \in Trapping \ {t} : state'[u] = state[u]
      BY <2>3, <1>t DEF SoftirqSchedule, TypeOK, Trapping, Thread
    <3> QED BY <3>1, <3>2, <2>1, <2>4 DEF TrappedIsCaller
  <2>7. TypeOK'
    BY <2>1, <2>3, <2>4, <1>t DEF TypeOK, Thread, Trapping
  <2>8. LoopInv'
    BY <2>1, <2>3, <2>4, <2>5, <1>t DEF LoopInv
  <2> QED BY <2>4, <2>6, <2>7, <2>8
          DEF IInv, PendingKeepsKernelRunnable, RunningIsRunnable
<1>2. CASE TimerExpires
  <2>1. SoftirqSchedule(KTE, state) /\ Switch(slots, state')
        /\ UNCHANGED <<caller, kpc, ki>> /\ armed' = FALSE
    BY <1>2 DEF TimerExpires
  <2>l. late' \in BOOLEAN
    BY <1>2, <1>t, Zenon DEF TimerExpires, TypeOK
  <2>2. /\ current' = Kernel /\ slots' = slots
        /\ sched' \in [Softirq -> BOOLEAN] /\ owed' \in SUBSET Softirq
        /\ state' \in [Thread -> ThreadState]
        /\ state'[Kernel] = "RUNNABLE" /\ state'[Idle] = "RUNNABLE"
        /\ sched'[KTE] /\ \A j \in Softirq \ {KTE} : sched'[j] = sched[j]
        /\ owed' = owed \cup {KTE}
        /\ kpc \in {"handler", "clear"} => current = Kernel
    BY <2>1, <1>t, RaiseStep DEF TypeOK
  <2>3. TypeOK'
    BY <2>1, <2>l, <2>2, <1>t DEF TypeOK, Thread
  <2>4. LoopInv'
    BY <2>1, <2>2, <1>t DEF LoopInv
  <2>5. TrappedIsCaller'
    BY <2>1, <2>2, <1>t DEF TrappedIsCaller, SoftirqSchedule, TypeOK, Trapping, Thread
  <2> QED BY <2>2, <2>3, <2>4, <2>5
          DEF IInv, PendingKeepsKernelRunnable, RunningIsRunnable
<1>3. ASSUME Switch(slots, state), UNCHANGED <<sched, state, caller, armed, owed, late>>,
             \/ UNCHANGED <<kpc, ki>>
             \/ current = Kernel /\ kpc = "svc" /\ kpc' = "scan" /\ ki' = ki
      PROVE  IInv'
  <2>1. state[Kernel] = "RUNNABLE" => current' = Kernel /\ slots' = slots
    BY <1>3, <1>t, KernelSelected DEF TypeOK, LoopInv
  <2>2. /\ current' \in Thread /\ state[current'] = "RUNNABLE"
        /\ slots' \in [Slot -> Thread \cup {None}]
        /\ slots'["SOFTIRQ"] = Kernel /\ slots'["IDLE"] = Idle
    BY <1>3, <1>t, SomeoneSelected DEF TypeOK, LoopInv
  <2>3. TypeOK'
    BY <1>3, <2>2, <1>t DEF TypeOK
  <2>4. LoopInv'
    BY <1>3, <2>1, <2>2, <1>t DEF LoopInv
  <2> QED BY <1>3, <2>2, <2>3, <2>4, <1>t
          DEF IInv, PendingKeepsKernelRunnable, RunningIsRunnable, TrappedIsCaller
<1>4. CASE OtherInterrupt
  BY <1>3, <1>4 DEF OtherInterrupt
<1>5. CASE Scan
  BY <1>5, <1>t DEF Scan, IInv, TypeOK, LoopInv, PendingKeepsKernelRunnable,
                    RunningIsRunnable, TrappedIsCaller
<1>6. CASE SyscallHandler
  <2>1. caller \in Trapping /\ caller # Kernel /\ caller # Idle /\ sched[SYSCALL]
    BY <1>6, <1>t DEF SyscallHandler, LoopInv, Trapping
  <2>2. PICK r \in {"RUNNABLE", "BLOCKED"}, t \in Trapping : state' = ServedStates(r, t)
    BY <1>6 DEF SyscallHandler
  <2>3. /\ state' \in [Thread -> ThreadState]
        /\ state'[Kernel] = state[Kernel] /\ state'[Idle] = state[Idle]
        /\ \A u \in Trapping : state'[u] = "SVC_BLOCKED" => state[u] = "SVC_BLOCKED" /\ u # caller
    BY <2>1, <2>2, <1>t DEF ServedStates, TypeOK, ThreadState, Thread, Trapping
  <2>4. /\ slots' \in [Slot -> Thread \cup {None}]
        /\ slots'["SOFTIRQ"] = slots["SOFTIRQ"] /\ slots'["IDLE"] = slots["IDLE"]
    BY <1>6, <2>1, <1>t, SlotNames
       DEF SyscallHandler, MayDispatch, Dispatch, TypeOK, Thread
  <2>5. TypeOK'
    BY <1>6, <2>3, <2>4, <1>t DEF SyscallHandler, TypeOK
  <2>6. LoopInv'
    BY <1>6, <2>1, <2>3, <2>4, <1>t DEF SyscallHandler, LoopInv
  <2>7. TrappedIsCaller'
    BY <1>6, <2>3, <1>t DEF SyscallHandler, TrappedIsCaller
  <2> QED BY <1>6, <2>3, <2>5, <2>6, <2>7, <1>t
          DEF SyscallHandler, IInv, PendingKeepsKernelRunnable, RunningIsRunnable
<1>7. CASE KtimerHandler
  <2>1. /\ state' \in [Thread -> ThreadState]
        /\ state'[Kernel] = state[Kernel] /\ state'[Idle] = state[Idle]
        /\ \A u \in Trapping : state'[u] = "SVC_BLOCKED" => state[u] = "SVC_BLOCKED"
    BY <1>7, <1>t DEF KtimerHandler, TypeOK, ThreadState, Thread, Trapping
  <2>2. /\ slots' \in [Slot -> Thread \cup {None}]
        /\ slots'["SOFTIRQ"] = slots["SOFTIRQ"] /\ slots'["IDLE"] = slots["IDLE"]
    BY <1>7, <1>t, SlotNames
       DEF KtimerHandler, MayDispatch, Dispatch, TypeOK, Thread
  <2>3. TypeOK'
    BY <1>7, <2>1, <2>2, <1>t DEF KtimerHandler, Rearm, TypeOK
  <2>4. LoopInv'
    BY <1>7, <2>1, <2>2, <1>t DEF KtimerHandler, LoopInv
  <2>5. TrappedIsCaller'
    BY <1>7, <2>1, <1>t DEF KtimerHandler, TrappedIsCaller
  <2> QED BY <1>7, <2>1, <2>3, <2>4, <2>5, <1>t
          DEF KtimerHandler, IInv, PendingKeepsKernelRunnable, RunningIsRunnable
<1>8. CASE ClearFlag
  BY <1>8, <1>t DEF ClearFlag, IInv, TypeOK, LoopInv, PendingKeepsKernelRunnable,
                    RunningIsRunnable, TrappedIsCaller
<1>9. CASE Settle
  <2>1. Kernel \in Thread /\ Idle \in Thread /\ Idle # Kernel /\ Kernel \notin Trapping
    BY DEF Thread, Trapping
  <2> QED BY <1>9, <1>t, <2>1
          DEF Settle, IInv, TypeOK, ThreadState, LoopInv, PendingKeepsKernelRunnable,
              RunningIsRunnable, TrappedIsCaller
<1>10. CASE KernelSvc
  BY <1>3, <1>10, <1>t DEF KernelSvc
<1>11. CASE UNCHANGED vars
  BY <1>11, <1>t DEF vars, IInv, TypeOK, LoopInv, PendingKeepsKernelRunnable,
                     RunningIsRunnable, TrappedIsCaller
<1> QED
  BY <1>1, <1>2, <1>4, <1>5, <1>6, <1>7, <1>8, <1>9, <1>10, <1>11 DEF Next, KernelStep

\* The invariant holds in every reachable state.
THEOREM InductiveInvariant == Spec => []IInv
<1>1. Init => IInv
  BY InitIInv
<1>2. IInv /\ [Next]_vars => IInv'
  BY StepIInv
<1> QED BY <1>1, <1>2, PTL DEF Spec

-----------------------------------------------------------------------------
(* The theorems *)

\* The variables of the kernel loop keep their types.
THEOREM TypeCorrect == Spec => []TypeOK
<1>1. IInv => TypeOK
  BY DEF IInv
<1> QED BY <1>1, InductiveInvariant, PTL

\* A raised softirq always finds the kernel thread runnable: the writes of
\* softirq_schedule() and of softirq_execute() never strand one.
THEOREM SoftirqNeverStranded == Spec => []PendingKeepsKernelRunnable
<1>1. IInv => PendingKeepsKernelRunnable
  BY DEF IInv
<1> QED BY <1>1, InductiveInvariant, PTL

\* No other thread has the processor while a softirq is pending.
THEOREM KernelFirst == Spec => []KernelGoesFirst
<1>1. IInv => KernelGoesFirst
  BY DEF IInv, LoopInv, PendingKeepsKernelRunnable, KernelGoesFirst
<1> QED BY <1>1, InductiveInvariant, PTL

\* The assertion of thread_switch() holds of every thread but the kernel's.
THEOREM SwitchAssertion == Spec => []RunningIsRunnable
<1>1. IInv => RunningIsRunnable
  BY DEF IInv
<1> QED BY <1>1, InductiveInvariant, PTL

\* A raised softirq is never stranded and goes before everybody else, and the
\* thread that has the processor can run.
THEOREM SoftirqFirst == Spec => []SoftirqsGoFirst
<1>1. PendingKeepsKernelRunnable /\ KernelGoesFirst /\ RunningIsRunnable
        => SoftirqsGoFirst
  BY DEF SoftirqsGoFirst
<1> QED BY <1>1, SoftirqNeverStranded, KernelFirst, SwitchAssertion, PTL

\* The global `caller' is the thread that trapped until its call is served.
THEOREM CallerNotOverwritten == Spec => []TrappedIsCaller
<1>1. IInv => TrappedIsCaller
  BY DEF IInv
<1> QED BY <1>1, InductiveInvariant, PTL

\* Until an interrupt is late, the flags account for every request and the
\* kernel timer is alive.
TimelyInv ==
    ~late => /\ NoRequestForgotten
             /\ armed \/ sched[KTE]
             /\ kpc = "clear" => ki \notin owed
             /\ kpc = "clear" /\ ki = KTE => armed

LEMMA TimelyStep ==
    ASSUME IInv, TimelyInv, [Next]_vars
    PROVE  TimelyInv'
<1> USE DEF TimelyInv, NoRequestForgotten, TimerAlive, IInv, TypeOK, LoopInv
<1>1. ASSUME NEW t \in Trapping, UserSvc(t) PROVE TimelyInv'
  <2>1. current # Kernel
    BY <1>1, KernelLoopAssumption DEF UserSvc, Trapping
  <2> QED BY <1>1, <2>1 DEF UserSvc, SoftirqSchedule
<1>2. CASE TimerExpires
  BY <1>2 DEF TimerExpires, SoftirqSchedule
<1>3. CASE OtherInterrupt
  BY <1>3 DEF OtherInterrupt
<1>4. CASE Scan
  BY <1>4 DEF Scan
<1>5. CASE SyscallHandler
  <2>1. armed => armed'
    BY <1>5, Zenon DEF SyscallHandler
  <2>2. UNCHANGED <<sched, late>> /\ kpc' = "clear" /\ ki' = SYSCALL
        /\ owed' = owed \ {SYSCALL}
    BY <1>5 DEF SyscallHandler
  <2> QED BY <2>1, <2>2
<1>6. CASE KtimerHandler
  BY <1>6 DEF KtimerHandler, Rearm
<1>7. CASE ClearFlag
  BY <1>7 DEF ClearFlag
<1>8. CASE Settle
  BY <1>8 DEF Settle
<1>9. CASE KernelSvc
  BY <1>9 DEF KernelSvc
<1>10. CASE UNCHANGED vars
  BY <1>10 DEF vars
<1> QED
  BY <1>1, <1>2, <1>3, <1>4, <1>5, <1>6, <1>7, <1>8, <1>9, <1>10 DEF Next, KernelStep

\* Until an interrupt falls between a handler's return and the reset of its
\* flag, every request that was raised is served or still flagged, and the
\* timer is on or its expiry pending.
THEOREM TimelyLoop == Spec => [](RequestsKept /\ TimerAlive)
<1>1. Init => TimelyInv
  BY DEF Init, TimelyInv, NoRequestForgotten
<1>2. IInv /\ TimelyInv /\ [Next]_vars => TimelyInv'
  BY TimelyStep
<1>3. TimelyInv => RequestsKept /\ TimerAlive
  BY DEF TimelyInv, RequestsKept, TimerAlive
<1> QED BY <1>1, <1>2, <1>3, InductiveInvariant, PTL DEF Spec

-----------------------------------------------------------------------------
(* Implementation of SyscallService *)

\* Every step of the kernel loop is a step of the service, or changes nothing
\* a client can see.
LEMMA ServiceStep ==
    ASSUME IInv, IInv', [Next]_vars
    PROVE  [Service!SNext]_(Service!svars)
<1> USE KernelLoopAssumption
<1> USE DEF Service!SNext, Service!svars, Service!Serve, Service!Switched
<1>a. TypeOK /\ LoopInv /\ PendingKeepsKernelRunnable /\ TypeOK' /\ LoopInv'
  BY DEF IInv
<1>b. Kernel \notin Trapping /\ None \notin Trapping
  BY DEF Trapping
<1>c. current \in Trapping => SYSCALL \notin owed
  BY <1>a, <1>b DEF LoopInv, PendingKeepsKernelRunnable
<1>1. ASSUME NEW t \in Trapping, UserSvc(t) PROVE Service!SNext
  <2>1. current = t /\ caller' = t /\ SYSCALL \in owed' /\ state'[Kernel] = "RUNNABLE"
    BY <1>1, <1>a DEF UserSvc, SoftirqSchedule, TypeOK, Thread
  <2>2. current' = Kernel
    BY <2>1, <1>a DEF LoopInv
  <2>3. Service!Call(t)
    BY <2>1, <2>2, <1>b, <1>c DEF Service!Call
  <2> QED BY <2>3
<1>2. CASE TimerExpires
  <2>1. caller' = caller /\ (SYSCALL \in owed' <=> SYSCALL \in owed) /\ state'[Kernel] = "RUNNABLE"
    BY <1>2, <1>a DEF TimerExpires, SoftirqSchedule, TypeOK, Thread
  <2>2. current' = Kernel
    BY <2>1, <1>a DEF LoopInv
  <2> QED BY <2>1, <2>2, <1>b, <1>c
<1>3. ASSUME Switch(slots, state), UNCHANGED <<sched, state, caller, owed>>
      PROVE  [Service!SNext]_(Service!svars)
  <2>1. SYSCALL \in owed => current' = Kernel
    BY <1>3, <1>a DEF LoopInv, PendingKeepsKernelRunnable
  <2> QED BY <1>3, <2>1, <1>b, <1>c
<1>4. CASE OtherInterrupt
  BY <1>3, <1>4 DEF OtherInterrupt
<1>5. CASE Scan
  BY <1>5 DEF Scan
<1>6. CASE SyscallHandler
  <2>1. current = Kernel /\ current' = Kernel /\ caller \in Trapping /\ SYSCALL \notin owed'
    BY <1>6, <1>a DEF SyscallHandler, LoopInv
  <2> QED BY <1>6, <2>1, <1>b DEF SyscallHandler
<1>7. CASE KtimerHandler
  BY <1>7 DEF KtimerHandler
<1>8. CASE ClearFlag
  BY <1>8 DEF ClearFlag
<1>9. CASE Settle
  BY <1>9 DEF Settle
<1>10. CASE KernelSvc
  BY <1>3, <1>10 DEF KernelSvc
<1>11. CASE UNCHANGED vars
  BY <1>11 DEF vars
<1> QED
  BY <1>1, <1>2, <1>4, <1>5, <1>6, <1>7, <1>8, <1>9, <1>10, <1>11 DEF Next, KernelStep

\* The kernel loop implements the service's initial state and steps: from the
\* trap to the end of its service no other thread runs and no call is issued.
THEOREM ImplementsServiceSteps ==
    Spec => Service!SInit /\ [][Service!SNext]_(Service!svars)
<1>1. Init => Service!SInit
  BY KernelLoopAssumption DEF Init, Service!SInit, Trapping
<1>2. IInv /\ IInv' /\ [Next]_vars => [Service!SNext]_(Service!svars)
  BY ServiceStep
<1> QED BY <1>1, <1>2, InductiveInvariant, PTL DEF Spec
=============================================================================
