----------------------------- MODULE KernelLoop -----------------------------
(***************************************************************************)
(* The core loop of the F9 kernel: user threads trap into the kernel by    *)
(* SVC, interrupt handlers raise softirqs, and the kernel thread runs the  *)
(* softirq handlers and gives the processor back (syscall.c, softirq.c,    *)
(* systhread.c, sched.c, the timer interrupt of ktimer.c).                 *)
(*                                                                         *)
(* An interrupt may arrive between any two steps of the kernel thread, as  *)
(* softirq_execute() runs with interrupts enabled except between           *)
(* irq_disable() and irq_enable().  An interrupt handler is atomic and     *)
(* ends with schedule_select() and a context switch.                       *)
(*                                                                         *)
(* The softirq handlers themselves are abstracted to what they may do to   *)
(* the states of threads and to the kernel timer; IPC.tla and KTimer.tla   *)
(* hold their details.  User interrupts (slot INTR_THREAD) are the subject *)
(* of another module: here no user interrupt is queued.                    *)
(***************************************************************************)
EXTENDS Naturals, Sched

CONSTANTS
    User,       \* user threads other than the root thread
    Root,       \* the root thread
    Kernel,     \* the kernel thread
    Idle,       \* the idle thread
    None        \* NULL

ASSUME KernelLoopAssumption ==
    /\ Root \notin User
    /\ Kernel \notin User \cup {Root}
    /\ Idle \notin User \cup {Root, Kernel}
    /\ None \notin User \cup {Root, Kernel, Idle}

\* The softirqs, in the order of the table softirq[].
KTE == 0
ASYNC == 1
SYSCALL == 2
NR_SOFTIRQ == 3
Softirq == 0 .. NR_SOFTIRQ - 1

\* Mutant: an init hook that does not register its softirq.
RegisteredNoKtimer == {SYSCALL}

\* The softirqs some part of the kernel registers a handler for.
Registered == {KTE, SYSCALL}

Trapping == User \cup {Root}            \* the threads that issue SVCs
Thread   == Trapping \cup {Kernel, Idle}

\* BLOCKED stands for T_RECV_BLOCKED and T_SEND_BLOCKED, and for T_INACTIVE
\* in a user thread; INACTIVE is T_INACTIVE in the kernel thread.
ThreadState == {"RUNNABLE", "SVC_BLOCKED", "BLOCKED", "INACTIVE"}

VARIABLES
    sched,      \* softirq[i].schedule
    state,      \* tcb_t.state
    slots,      \* slots[] of sched.c
    current,    \* thread on the processor
    caller,     \* thread whose system call is served
    kpc,        \* where the kernel thread stands in its loop
    ki,         \* the loop index i of softirq_execute()
    armed,      \* ktimer_enabled
    owed,       \* history: softirqs raised and not yet taken up by a handler
    late        \* history: an interrupt has raised a softirq after its handler
                \* had run and before softirq_execute() cleared its flag

vars == <<sched, state, slots, current, caller, kpc, ki, armed, owed, late>>

TypeOK ==
    /\ sched \in [Softirq -> BOOLEAN]
    /\ state \in [Thread -> ThreadState]
    /\ slots \in [Slot -> Thread \cup {None}]
    /\ current \in Thread
    /\ caller \in Trapping \cup {None}
    /\ kpc \in {"scan", "handler", "clear", "svc"}
    /\ ki \in 0 .. NR_SOFTIRQ
    /\ armed \in BOOLEAN
    /\ owed \in SUBSET Softirq
    /\ late \in BOOLEAN

(***************************************************************************)
(* Boot: switch_to_kernel() runs kernel_thread() on the kernel thread; the *)
(* root and idle threads are dispatched in their slots and runnable; other *)
(* threads do not run yet.  The initial kernel events keep the timer on.   *)
(***************************************************************************)
Init ==
    /\ sched = [i \in Softirq |-> FALSE]
    /\ state = [t \in Thread |-> IF t \in User THEN "BLOCKED" ELSE "RUNNABLE"]
    /\ slots = [s \in Slot |-> CASE s = "SOFTIRQ"     -> Kernel
                                [] s = "ROOT_THREAD" -> Root
                                [] s = "IDLE"        -> Idle
                                [] OTHER             -> None]
    /\ current = Kernel
    /\ caller = None
    /\ kpc = "scan"
    /\ ki = 0
    /\ armed = TRUE
    /\ owed = {}
    /\ late = FALSE

-----------------------------------------------------------------------------
(* Scheduling *)

Runnable(st) == {t \in Thread : st[t] = "RUNNABLE"}

\* Mutant: the tree walk forgets to test thread_isrunnable().
RedispatchAny(st) ==
    [s \in Slot |-> IF s = "NORMAL_THREAD" THEN User ELSE {}]

\* Only slot NORMAL_THREAD has a handler here: thread_sched() proposes a
\* runnable thread from the tree under root (which one: ThreadTree.tla).
Redispatch(st) ==
    [s \in Slot |-> IF s = "NORMAL_THREAD" THEN Runnable(st) \cap User ELSE {}]

\* schedule_select() and thread_switch() with the slots sl and the thread
\* states st.
Switch(sl, st) ==
    LET s == SelectedSlot(sl, Runnable(st), Redispatch(st))
    IN  \E t \in Yields(sl, Runnable(st), Redispatch(st), s) :
            /\ current' = t
            /\ slots' = Dispatch(sl, s, t)

\* Mutant: the flag is set but the kernel thread is not made runnable.
SoftirqScheduleFlagOnly(i, st) ==
    /\ sched' = [sched EXCEPT ![i] = TRUE]
    /\ state' = st
    /\ owed' = owed \cup {i}

\* softirq_schedule(): the flag and the kernel thread's state.
SoftirqSchedule(i, st) ==
    /\ sched' = [sched EXCEPT ![i] = TRUE]
    /\ state' = [st EXCEPT ![Kernel] = "RUNNABLE"]
    /\ owed' = owed \cup {i}

-----------------------------------------------------------------------------
(* Threads and interrupts *)

\* A user thread executes SVC: __svc_handler(), then the context switch.
UserSvc(t) ==
    /\ current = t
    /\ caller' = t
    /\ SoftirqSchedule(SYSCALL, [state EXCEPT ![t] = "SVC_BLOCKED"])
    /\ Switch(slots, state')
    /\ UNCHANGED <<kpc, ki, armed, late>>

\* A timer interrupt that brings ktimer_delta to zero.
TimerExpires ==
    /\ armed
    /\ armed' = FALSE
    /\ SoftirqSchedule(KTE, state)
    /\ late' = (late \/ (kpc = "clear" /\ ki = KTE))
    /\ Switch(slots, state')
    /\ UNCHANGED <<caller, kpc, ki>>

\* Any other interrupt: its return path only schedules.
OtherInterrupt ==
    /\ Switch(slots, state)
    /\ UNCHANGED <<sched, state, caller, kpc, ki, armed, owed, late>>

-----------------------------------------------------------------------------
(* The kernel thread *)

\* softirq_execute() looks for the next softirq that is flagged and registered.
Scan ==
    /\ current = Kernel /\ kpc = "scan" /\ ki < NR_SOFTIRQ
    /\ IF ki \in Registered /\ sched[ki]
          THEN kpc' = "handler" /\ ki' = ki
          ELSE kpc' = "scan" /\ ki' = ki + 1
    /\ UNCHANGED <<sched, state, slots, current, caller, armed, owed, late>>

\* do_ipc() in a handler dispatches the two partners in their slots.
MayDispatch(A, B) ==
    \/ slots' = slots
    \/ \E from \in A, to \in B :
          slots' = Dispatch(Dispatch(slots, "NORMAL_THREAD", from),
                            "IPC_THREAD", to)

\* Mutant: the caller's state is left as the trap set it.
ServedStatesNoCaller(r, t) ==
    [state EXCEPT ![t] = IF @ = "BLOCKED" THEN "RUNNABLE" ELSE @]

\* The thread states after a system call: r for the caller, and thread t woken
\* if it was blocked.
ServedStates(r, t) ==
    [state EXCEPT ![t] = IF @ = "BLOCKED" THEN "RUNNABLE" ELSE @, ![caller] = r]

\* syscall_handler(): the caller continues or blocks, another thread may be
\* woken, a kernel event may be created and the timer enabled for it.
SyscallHandler ==
    /\ current = Kernel /\ kpc = "handler" /\ ki = SYSCALL
    /\ \E r \in {"RUNNABLE", "BLOCKED"}, t \in Trapping :
          state' = ServedStates(r, t)
    /\ MayDispatch({caller}, Trapping) \/ MayDispatch(Trapping, {caller})
    /\ armed' \in {armed, TRUE}
    /\ owed' = owed \ {SYSCALL}
    /\ kpc' = "clear"
    /\ UNCHANGED <<sched, current, caller, ki, late>>

\* "Reset ktimer": the timer is on when ktimer_event_handler() returns.
Rearm == armed' = TRUE

\* ktimer_event_handler(): timeouts and deliveries wake blocked threads (a
\* late timeout even one that has just trapped); ipc_deliver() is always
\* rescheduled, so the timer is on when the handler returns.
KtimerHandler ==
    /\ current = Kernel /\ kpc = "handler" /\ ki = KTE
    /\ \E W \in SUBSET {t \in Trapping : state[t] \in {"BLOCKED", "SVC_BLOCKED"}} :
          state' = [t \in Thread |-> IF t \in W THEN "RUNNABLE" ELSE state[t]]
    /\ MayDispatch(Trapping, Trapping)
    /\ Rearm
    /\ owed' = owed \ {KTE}
    /\ kpc' = "clear"
    /\ UNCHANGED <<sched, current, caller, ki, late>>

\* Mutant: every flag is reset.
ClearAllFlags ==
    /\ current = Kernel /\ kpc = "clear"
    /\ sched' = [i \in Softirq |-> FALSE]
    /\ kpc' = "scan" /\ ki' = ki + 1
    /\ UNCHANGED <<state, slots, current, caller, armed, owed, late>>

\* The flag is reset after the handler has returned.
ClearFlag ==
    /\ current = Kernel /\ kpc = "clear"
    /\ sched' = [sched EXCEPT ![ki] = FALSE]
    /\ kpc' = "scan" /\ ki' = ki + 1
    /\ UNCHANGED <<state, slots, current, caller, armed, owed, late>>

\* Mutant: the kernel thread becomes inactive without the second look.
SettleBlindly ==
    /\ current = Kernel /\ kpc = "scan" /\ ki = NR_SOFTIRQ
    /\ state' = [state EXCEPT ![Kernel] = "INACTIVE"]
    /\ kpc' = "svc" /\ ki' = 0
    /\ UNCHANGED <<sched, slots, current, caller, armed, owed, late>>

\* From irq_disable() to irq_enable(): no interrupt in between.
Settle ==
    /\ current = Kernel /\ kpc = "scan" /\ ki = NR_SOFTIRQ
    /\ LET again == \E i \in Softirq : sched[i]
       IN /\ state' = [state EXCEPT ![Kernel] = IF again THEN "RUNNABLE"
                                                         ELSE "INACTIVE"]
          /\ kpc' = IF again THEN "scan" ELSE "svc"
    /\ ki' = 0
    /\ UNCHANGED <<sched, slots, current, caller, armed, owed, late>>

\* irq_svc() of kernel_thread(): the SVC handler returns at once for the
\* kernel thread, and the scheduler chooses who runs.  The kernel thread
\* resumes after its SVC, that is at the head of its loop.
KernelSvc ==
    /\ current = Kernel /\ kpc = "svc"
    /\ kpc' = "scan"
    /\ Switch(slots, state)
    /\ UNCHANGED <<sched, state, caller, ki, armed, owed, late>>

KernelStep ==
    Scan \/ SyscallHandler \/ KtimerHandler \/ ClearFlag \/ Settle \/ KernelSvc

Next ==
    \/ \E t \in Trapping : UserSvc(t)
    \/ TimerExpires
    \/ OtherInterrupt
    \/ KernelStep

\* A thread that is on the processor executes its next step.
Spec == Init /\ [][Next]_vars /\ WF_vars(KernelStep)

-----------------------------------------------------------------------------
(* Properties *)

\* A pending softirq keeps the kernel thread runnable, so that the scheduler
\* cannot pass it over: the flag and the state are written by interrupts and
\* by softirq_execute() in an order that must never strand a raised softirq.
PendingKeepsKernelRunnable ==
    (\E i \in Softirq : sched[i]) => state[Kernel] = "RUNNABLE"

\* While any other thread has the processor no softirq is pending: what an
\* interrupt or an SVC asked for is done before anybody else runs.
KernelGoesFirst ==
    current # Kernel => \A i \in Softirq : ~sched[i]

\* thread_switch() asserts that the thread it is given is runnable; the
\* kernel thread alone may stay on the processor after it became inactive.
RunningIsRunnable ==
    current # Kernel => state[current] = "RUNNABLE"

\* Raised softirqs are never stranded, go before everybody else, and leave the
\* processor to a thread that can run.
SoftirqsGoFirst ==
    PendingKeepsKernelRunnable /\ KernelGoesFirst /\ RunningIsRunnable

\* A trapped thread is the one `caller' points to and its call is still owed:
\* the global `caller' of syscall.c is never overwritten by a second trap
\* while syscall_handler() has the first to serve.
TrappedIsCaller ==
    \A t \in Trapping : state[t] = "SVC_BLOCKED" => t = caller /\ SYSCALL \in owed

\* A raised softirq that no handler has taken up has its flag set ("If all
\* softirqs processed, call SVC", systhread.c): no request is forgotten.
NoRequestForgotten == \A i \in owed : sched[i]

\* So it is until an interrupt falls between a handler's return and the reset
\* of its flag, whatever else happens between the steps of softirq_execute().
RequestsKept == ~late => NoRequestForgotten

\* The kernel timer never dies: until then it is counting, or its expiry waits
\* to be handled.  Timeouts and ipc_deliver() depend on it.
TimerAlive == ~late => armed \/ sched[KTE]

\* Every timer expiry is handled, until then.
ExpiryHandled == KTE \in owed ~> KTE \notin owed \/ late

\* The kernel loop implements the procedure-call view of system calls: each
\* is served once and before anybody else runs, whatever interrupts arrive
\* meanwhile (Service assumes weak fairness of Serve).
Service == INSTANCE SyscallService WITH
    Client   <- Trapping,
    NoClient <- None,
    pending  <- IF SYSCALL \in owed THEN caller ELSE None,
    running  <- IF current \in Trapping THEN current ELSE None

ImplementsService == Service!SSpec
=============================================================================
