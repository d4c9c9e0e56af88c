----------------------------- MODULE Interrupt -----------------------------
(***************************************************************************)
(* User interrupts (kernel/F9/interrupt.c): a thread asks for an irq by a  *)
(* message to THREAD_IRQ_REQUEST and waits for it by receiving from        *)
(* THREAD_INTERRUPT; the interrupt handler puts the irq in a queue linked  *)
(* through its entries, and the handler of the scheduler's slot            *)
(* INTR_THREAD takes it out and wakes the thread.                          *)
(*                                                                         *)
(* An interrupt may arrive between any two steps; its handler ends with    *)
(* schedule_select(), which passes over the slot while the kernel thread   *)
(* has softirqs to run.  A system call is served in one step, as the parts *)
(* of it that touch the queue run with interrupts disabled and the rest is *)
(* not read by handlers of other irqs.                                     *)
(*                                                                         *)
(* Abstractions: the entry of an irq is named by the irq (there are as     *)
(* many slots in user_irq_table as irqs, so user_irq_fetch() never fails,  *)
(* and an unused entry is a default one); priority is not used by the      *)
(* code; ipc_from only keeps ipc_deliver() away, before the interrupt and  *)
(* after it.  Which thread runs when no interrupt thread does is left open *)
(* (KernelLoop).                                                           *)
(***************************************************************************)
EXTENDS Naturals, Sequences

CONSTANTS
    IRQn_NUM,       \* number of irqs
    Thread,         \* threads that may handle interrupts
    Kernel, Idle,
    NoThread,       \* NULL
    Disciplined     \* do the threads keep to the protocol: each asks for irqs
                    \* of its own, waits for them without a timeout, and gets
                    \* no message from anybody else while it waits?

ASSUME InterruptAssumption ==
    /\ IRQn_NUM \in Nat \ {0}
    /\ Kernel \notin Thread \cup {Idle, NoThread}
    /\ Idle \notin Thread \cup {NoThread}
    /\ NoThread \notin Thread
    /\ Disciplined \in BOOLEAN

Irq == 1 .. IRQn_NUM
NULL == 0

\* INTR_BLOCKED is T_RECV_BLOCKED in a receive from THREAD_INTERRUPT.
ThreadState ==
    {"RUNNABLE", "SVC_BLOCKED", "SEND_BLOCKED", "RECV_BLOCKED", "INTR_BLOCKED"}

Action == {"ENABLE", "DISABLE", "FREE"}

VARIABLES
    user_irqs,  \* user_irqs[i]: thr, action, and whether handler is not NULL
    queue,      \* user_irq_queue, and the field next of every entry
    nvic,       \* the irqs that are enabled in the NVIC
    state,      \* tcb_t.state
    irqn,       \* the irq number in the message registers of each thread
    slot,       \* the thread scheduled in slot INTR_THREAD
    current     \* the thread on the processor

vars == <<user_irqs, queue, nvic, state, irqn, slot, current>>

Default == [thr |-> NoThread, action |-> "DISABLE", handler |-> FALSE]

TypeOK ==
    /\ user_irqs \in [Irq -> [thr : Thread \cup {NoThread}, action : Action,
                              handler : BOOLEAN]]
    /\ queue \in [head : Irq \cup {NULL}, tail : Irq \cup {NULL},
                  next : [Irq -> Irq \cup {NULL}]]
    /\ nvic \in SUBSET Irq
    /\ state \in [Thread -> ThreadState]
    /\ irqn \in [Thread -> Irq \cup {NULL}]
    /\ slot \in Thread \cup {NoThread}
    /\ current \in Thread \cup {Kernel, Idle}

Init ==
    /\ user_irqs = [i \in Irq |-> Default]
    /\ queue = [head |-> NULL, tail |-> NULL, next |-> [i \in Irq |-> NULL]]
    /\ nvic = {}
    /\ state = [t \in Thread |-> "RUNNABLE"]
    /\ irqn = [t \in Thread |-> NULL]
    /\ slot = NoThread
    /\ current = Kernel

thr(i) == user_irqs[i].thr

\* thr->state == T_RECV_BLOCKED
Receiving(t) == state[t] \in {"RECV_BLOCKED", "INTR_BLOCKED"}

-----------------------------------------------------------------------------
(* The queue *)

\* Mutant: the new entry comes first.
PushedFirst(q, i) ==
    IF q.head = NULL THEN [q EXCEPT !.head = i, !.tail = i]
    ELSE [q EXCEPT !.head = i, !.next[i] = q.head]

Pushed(q, i) ==
    IF q.head = NULL THEN [q EXCEPT !.head = i, !.tail = i]
    ELSE [q EXCEPT !.next[q.tail] = i, !.tail = i]

\* Mutant: the entry keeps its link.
PoppedLinked(q) == [q EXCEPT !.head = q.next[q.head]]

\* The queue without its first entry.
Popped(q) == [q EXCEPT !.head = q.next[q.head], !.next[q.head] = NULL]

\* The entries from the head on, as far as they are distinct.
Entries(q) ==
    LET e[k \in 0 .. IRQn_NUM] ==
          IF k = 0 THEN q.head
          ELSE IF e[k - 1] = NULL THEN NULL ELSE q.next[e[k - 1]]
        last == CHOOSE k \in 0 .. IRQn_NUM :
                   /\ e[k] = NULL \/ k = IRQn_NUM
                   /\ \A j \in 0 .. k - 1 : e[j] # NULL
    IN [k \in 1 .. last |-> e[k - 1]]

Queued(i) == \E k \in DOMAIN Entries(queue) : Entries(queue)[k] = i

\* user_irq_queue_delete(): the links to i now lead behind it.
Without(q, i) ==
    IF q.head = i THEN [q EXCEPT !.head = q.next[i]]
    ELSE [q EXCEPT !.next = [j \in Irq |->
             IF Queued(j) /\ q.next[j] = i THEN q.next[i] ELSE q.next[j]]]

-----------------------------------------------------------------------------
(* schedule_select() when no softirq is pending: q is the queue it finds.  *)

\* Mutant: the slot is asked for another thread only while it has none.
SlotTakenOnce == slot # NoThread

\* The thread in slot INTR_THREAD goes on.
SlotTaken == slot # NoThread /\ state[slot] = "RUNNABLE"

SelectSlot(q) ==
    /\ SlotTaken
    /\ current' = slot
    /\ queue' = q
    /\ UNCHANGED <<state, slot>>

\* Mutant: the thread is not woken.
WokenNever(t) == state

Woken(t) == [state EXCEPT ![t] = IF Receiving(t) THEN "RUNNABLE" ELSE @]

\* irq_handler_sched() returns the thread of the first irq, waiting or not.
SelectHandler(q) ==
    /\ ~SlotTaken
    /\ q.head # NULL /\ thr(q.head) # NoThread
    /\ queue' = Popped(q)
    /\ state' = Woken(thr(q.head))
    /\ slot' = thr(q.head)
    /\ current' = thr(q.head)

\* It returns NULL: the other slots are asked.
SelectOther(q) ==
    /\ ~SlotTaken
    /\ q.head # NULL => thr(q.head) = NoThread
    /\ queue' = IF q.head = NULL THEN q ELSE Popped(q)
    /\ LET runnable == {t \in Thread : state[t] = "RUNNABLE"}
       IN current' \in IF runnable = {} THEN {Idle} ELSE runnable
    /\ UNCHANGED <<state, slot>>

Select(q) == SelectSlot(q) \/ SelectHandler(q) \/ SelectOther(q)

\* An interrupt's return: the kernel thread goes on if it was running.
Return(q) ==
    \/ current # Kernel /\ Select(q)
    \/ current = Kernel /\ queue' = q /\ UNCHANGED <<state, slot, current>>

-----------------------------------------------------------------------------
(* Interrupts *)

Handled(i) ==
    thr(i) # NoThread /\ user_irqs[i].handler /\ user_irqs[i].action = "ENABLE"

\* Mutant: the irq stays enabled.
MaskedNever(i) == nvic

\* "No re-entry interrupt"
Masked(i) == nvic \ {i}

\* Mutant: the message is left as it was.
MessageNever(i) == irqn

\* irq_handler_enable(), irq_handler_ipc()
Message(i) == IF Receiving(thr(i)) THEN [irqn EXCEPT ![thr(i)] = i] ELSE irqn

\* __interrupt_handler(): the irq is masked and queued, and its message written
\* if its thread is waiting.
Interrupt(i) ==
    /\ i \in nvic
    /\ Handled(i)
    /\ nvic' = Masked(i)
    /\ irqn' = Message(i)
    /\ Return(Pushed(queue, i))
    /\ UNCHANGED user_irqs

\* An irq nobody handles.
Spurious(i) ==
    /\ i \in nvic
    /\ ~Handled(i)
    /\ Return(queue)
    /\ UNCHANGED <<user_irqs, nvic, irqn>>

\* Another interrupt: it may raise a softirq.
OtherInterrupt ==
    /\ current # Kernel
    /\ \/ current' = Kernel /\ UNCHANGED <<queue, state, slot>>
       \/ Select(queue)
    /\ UNCHANGED <<user_irqs, nvic, irqn>>

-----------------------------------------------------------------------------
(* System calls, served by the kernel thread *)

\* A thread that calls has filled its message registers anew.
Svc(t) ==
    /\ current = t
    /\ state' = [state EXCEPT ![t] = "SVC_BLOCKED"]
    /\ irqn' = [irqn EXCEPT ![t] = NULL]
    /\ current' = Kernel
    /\ UNCHANGED <<user_irqs, queue, nvic, slot>>

Serves(c) == current = Kernel /\ state[c] = "SVC_BLOCKED"

\* The threads a request of c may leave in the entry: a null tid keeps the old
\* one, an unknown one gives NULL.
MayName(c, i) ==
    IF Disciplined
    THEN IF thr(i) \in {NoThread, c} THEN {c, thr(i)} ELSE {}
    ELSE Thread \cup {NoThread, thr(i)}

\* user_interrupt_config(): a null handler leaves the old one.
Configure(c, i) ==
    /\ Serves(c)
    /\ \E t \in MayName(c, i), a \in Action, h \in {TRUE, user_irqs[i].handler} :
          user_irqs' = [user_irqs EXCEPT ![i] = [thr |-> t, action |-> a,
                                                 handler |-> h]]
    /\ nvic' = nvic \ {i}
    /\ state' = [state EXCEPT ![c] = "RUNNABLE"]
    /\ UNCHANGED <<queue, irqn, slot, current>>

\* The first irq of thread c: user_interrupt_handler_update() looks no further.
First(c, i) == thr(i) = c /\ \A j \in Irq : thr(j) = c => i <= j

\* A receive from THREAD_INTERRUPT by a thread that has an irq.
WaitEnabled(c, i) ==
    /\ Serves(c) /\ First(c, i)
    /\ user_irqs[i].action = "ENABLE"
    /\ nvic' = nvic \cup {i}
    /\ state' = [state EXCEPT ![c] = "INTR_BLOCKED"]
    /\ UNCHANGED <<user_irqs, queue, irqn, slot, current>>

WaitDisabled(c, i) ==
    /\ Serves(c) /\ First(c, i)
    /\ user_irqs[i].action = "DISABLE"
    /\ queue' = IF Queued(i) THEN Without(queue, i) ELSE queue
    /\ nvic' = nvic \ {i}
    /\ state' = [state EXCEPT ![c] = "INTR_BLOCKED"]
    /\ UNCHANGED <<user_irqs, irqn, slot, current>>

\* "reply ipc immediately"
WaitFree(c, i) ==
    /\ Serves(c) /\ First(c, i)
    /\ user_irqs[i].action = "FREE"
    /\ queue' = IF Queued(i) THEN Without(queue, i) ELSE queue
    /\ user_irqs' = [user_irqs EXCEPT ![i] = Default]
    /\ irqn' = [irqn EXCEPT ![c] = i]
    /\ state' = [state EXCEPT ![c] = "RUNNABLE"]
    /\ UNCHANGED <<nvic, slot, current>>

WaitNothing(c) ==
    /\ Serves(c)
    /\ \A i \in Irq : thr(i) # c
    /\ state' = [state EXCEPT ![c] = "INTR_BLOCKED"]
    /\ UNCHANGED <<user_irqs, queue, nvic, irqn, slot, current>>

\* Any other call of the IPC.
OtherCall(c) ==
    /\ Serves(c)
    /\ \E s \in {"RUNNABLE", "SEND_BLOCKED", "RECV_BLOCKED"} :
          state' = [state EXCEPT ![c] = s]
    /\ UNCHANGED <<user_irqs, queue, nvic, irqn, slot, current>>

Serve(c) ==
    \/ \E i \in Irq :
          Configure(c, i) \/ WaitEnabled(c, i) \/ WaitDisabled(c, i) \/ WaitFree(c, i)
    \/ WaitNothing(c)
    \/ OtherCall(c)

\* IPC or a timeout wakes a thread.
WakeOther(t) ==
    /\ current = Kernel
    /\ state[t] \in {"SEND_BLOCKED", "RECV_BLOCKED"}
          \cup IF Disciplined THEN {} ELSE {"INTR_BLOCKED"}
    /\ state' = [state EXCEPT ![t] = "RUNNABLE"]
    /\ UNCHANGED <<user_irqs, queue, nvic, irqn, slot, current>>

\* The kernel thread has no softirqs left.
Schedule ==
    /\ current = Kernel
    /\ \A t \in Thread : state[t] # "SVC_BLOCKED"
    /\ Select(queue)
    /\ UNCHANGED <<user_irqs, nvic, irqn>>

KernelStep == Schedule \/ \E c \in Thread : Serve(c)

Next ==
    \/ \E i \in Irq : Interrupt(i) \/ Spurious(i)
    \/ OtherInterrupt
    \/ \E t \in Thread : Svc(t) \/ WakeOther(t)
    \/ KernelStep

\* The kernel thread runs whenever it can.
Spec == Init /\ [][Next]_vars /\ WF_vars(KernelStep)
-----------------------------------------------------------------------------
(* Properties *)

\* The queue is a list of distinct entries that ends at tail, and an entry
\* outside of it has no link: an old link would bring others in again.
QueueIsList ==
    LET e == Entries(queue)
        n == Len(e)
    IN /\ \A j, k \in 1 .. n : j # k => e[j] # e[k]
       /\ n > 0 => queue.tail = e[n]
       /\ \A i \in Irq : (~Queued(i) \/ queue.tail = i) => queue.next[i] = NULL

\* An irq is enabled only while its thread waits for it, and is not in the
\* queue then: it is never queued twice and never finds its thread elsewhere.
EnabledAwaited ==
    \A i \in nvic :
        thr(i) # NoThread /\ state[thr(i)] = "INTR_BLOCKED" /\ ~Queued(i)

\* thread_switch() asserts that the thread it is given is runnable.
\* irq_handler_sched() returns the thread of a queued irq whatever its state.
RunningIsRunnable == current \in Thread => state[current] = "RUNNABLE"

\* What the interrupt handler relies on: the queue is a list, an enabled irq
\* is awaited and not queued, and who runs can run.
QueueSound == TypeOK /\ QueueIsList /\ EnabledAwaited /\ RunningIsRunnable

\* An irq leaves the queue only by waking its thread, which was waiting for
\* it, runs next, and finds the irq's number in its message: no interrupt is
\* lost, and none is taken for another.
TakenByWaking ==
    [][\A i \in Irq :
          Queued(i) /\ ~Queued(i)' =>
              /\ state[thr(i)] = "INTR_BLOCKED"
              /\ state'[thr(i)] = "RUNNABLE"
              /\ current' = thr(i)
              /\ irqn'[thr(i)] = i]_vars

\* If every thread keeps coming back to wait for interrupts, every queued
\* interrupt is taken, whatever else the kernel is asked to do.
Answered ==
    (\A t \in Thread : []<>(state[t] = "INTR_BLOCKED"))
        => \A i \in Irq : Queued(i) ~> ~Queued(i)

\* "Push n to irq queue.  Select the first one in queue to run.": irqs are
\* taken in the order in which they came.
Fifo == INSTANCE IrqFifo WITH
    Source   <- Irq,
    line     <- Entries(queue),
    unmasked <- nvic

ImplementsFifo == Fifo!FSpec
=============================================================================
