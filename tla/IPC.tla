-------------------------------- MODULE IPC --------------------------------
(***************************************************************************)
(* Synchronous IPC between threads (kernel/F9/ipc.c): the branches of      *)
(* sys_ipc(), do_ipc(), the timeouts armed in the kernel timer and the     *)
(* periodic ipc_deliver().                                                 *)
(*                                                                         *)
(* All of it runs in softirq handlers on the kernel thread, one handler at *)
(* a time and never beside a user thread (proved in KernelLoopProofs), so  *)
(* a system call is one action, taken by any runnable thread; the loop of  *)
(* ipc_deliver() takes one action per thread it visits, and nothing else   *)
(* happens meanwhile.  Which runnable thread runs next is the scheduler's  *)
(* affair (KernelLoop): the two sched_slot_dispatch() calls of do_ipc() do *)
(* not restrict it here.                                                   *)
(*                                                                         *)
(* Abstractions: a message is its outcome (delivered or refused), a time   *)
(* is "a timer was asked for"; a pending timer may expire at any moment.   *)
(* System calls name existing threads.  Calls to the log and to the        *)
(* interrupt configuration change no state of this module, and waiting for *)
(* THREAD_INTERRUPT is modelled in Interrupt.tla.                          *)
(***************************************************************************)
EXTENDS Naturals, FiniteSets

CONSTANTS
    N,          \* number of threads; their ids give their order in thread_map
    MaxEvents,  \* CONFIG_MAX_KT_EVENTS, the slots left for IPC timeouts
    Pager,      \* utcb->t_pager
    Boot,       \* the threads started before the first system call
    Sleepers    \* the threads that use the timed sleep (IPC to and from NIL)

Tid == 1 .. N
Event == 1 .. MaxEvents
NIL == 0            \* L4_NILTHREAD, and a null event
ANY == N + 1        \* L4_ANYTHREAD

ASSUME IPCAssumption ==
    /\ N \in Nat \ {0} /\ MaxEvents \in Nat
    /\ Pager \in [Tid -> Tid \cup {NIL}]
    /\ Boot \subseteq Tid /\ Sleepers \subseteq Tid

VARIABLES
    state,          \* tcb_t.state
    started,        \* the threads whose ctx.sp is set
    ipc_from,       \* tcb_t.ipc_from
    intended,       \* utcb->intended_receiver of a sending thread
    frame_r1,       \* R1 in the saved frame of a sending thread: its receive phase
    timeout_event,  \* tcb_t.timeout_event
    events,         \* events[e]: the thread in event e's data, NIL if e is free
    scan            \* loop index of ipc_deliver(), 0 when it is not running

vars == <<state, started, ipc_from, intended, frame_r1, timeout_event, events,
          scan>>

TypeOK ==
    /\ state \in [Tid -> {"RUNNABLE", "RECV_BLOCKED", "SEND_BLOCKED", "INACTIVE"}]
    /\ started \in SUBSET Tid
    /\ ipc_from \in [Tid -> Tid \cup {NIL, ANY}]
    /\ intended \in [Tid -> Tid \cup {NIL}]
    /\ frame_r1 \in [Tid -> Tid \cup {NIL, ANY}]
    /\ timeout_event \in [Tid -> Event \cup {NIL}]
    /\ events \in [Event -> Tid \cup {NIL}]
    /\ scan \in 0 .. N

Init ==
    /\ state = [t \in Tid |-> IF t \in Boot THEN "RUNNABLE" ELSE "INACTIVE"]
    /\ started = Boot
    /\ ipc_from = [t \in Tid |-> NIL]
    /\ intended = [t \in Tid |-> NIL]
    /\ frame_r1 = [t \in Tid |-> NIL]
    /\ timeout_event = [t \in Tid |-> NIL]
    /\ events = [e \in Event |-> NIL]
    /\ scan = 0

-----------------------------------------------------------------------------
(* do_ipc() *)

\* The message cannot be handed over: too long, a mapping failed (both fixed
\* by the sender and the memory, here ok = FALSE), or a partner has no stack.
Refused(from, to, ok) == ~ok \/ {from, to} \ started # {}

\* The states do_ipc() leaves, where r1 is the receive phase of from.
IpcState(from, to, r1, ok) ==
    IF Refused(from, to, ok) \/ r1 = NIL
    THEN [state EXCEPT ![to] = "RUNNABLE", ![from] = "RUNNABLE"]
    ELSE [state EXCEPT ![to] = "RUNNABLE", ![from] = "RECV_BLOCKED"]

\* The saved frame and the intended receiver are read while a thread is blocked
\* sending, ipc_from while it is blocked receiving; the code leaves them as they
\* are after a timeout or a refusal, and here they return to NIL.
Forget(f, t) == [f EXCEPT ![t] = NIL]

\* Mutant: only the sender's timeout is cleared.
TimeoutsClearedOnce(from, to) == [timeout_event EXCEPT ![from] = NIL]

\* "Clear timeout event when ipc is established."
TimeoutsCleared(from, to) ==
    [timeout_event EXCEPT ![from] = NIL, ![to] = NIL]

\* Everything do_ipc() does but the thread states.
IpcRest(from, to, r1, ok) ==
    /\ timeout_event' = TimeoutsCleared(from, to)
    /\ ipc_from' = [ipc_from EXCEPT ![to] = NIL,
                          ![from] = IF Refused(from, to, ok) THEN NIL ELSE r1]
    /\ intended' = Forget(intended, from)
    /\ frame_r1' = Forget(frame_r1, from)

DoIpc(from, to, r1, ok) ==
    /\ state' = IpcState(from, to, r1, ok)
    /\ IpcRest(from, to, r1, ok)

-----------------------------------------------------------------------------
(* Timeouts *)

FreeEvents == {e \in Event : events[e] = NIL}

\* sys_ipc_timeout(): no event if the time rounds to zero ticks or the table
\* is full; else the first free one.
ArmTimeout(t) ==
    \/ /\ timeout_event' = [timeout_event EXCEPT ![t] = NIL]
       /\ UNCHANGED events
    \/ \E e \in FreeEvents :
          /\ \A f \in FreeEvents : e <= f
          /\ events' = [events EXCEPT ![e] = t]
          /\ timeout_event' = [timeout_event EXCEPT ![t] = e]

\* if (timeout) sys_ipc_timeout(timeout);
MaybeTimeout(t) == ArmTimeout(t) \/ UNCHANGED <<timeout_event, events>>

\* Mutants: any timeout of the thread ends its wait; only a receive is ended;
\* the thread keeps pointing to the event.
DueAlways(t, e) == TRUE
WakeReceiver(t) ==
    state' = [state EXCEPT ![t] = IF @ = "RECV_BLOCKED" THEN "RUNNABLE" ELSE @]
KeepEvent(t) == UNCHANGED timeout_event

\* The event belongs to the wait the thread is in.
Due(t, e) == timeout_event[t] = e

Wake(t) == state' = [state EXCEPT ![t] = "RUNNABLE"]

DropEvent(t) == timeout_event' = [timeout_event EXCEPT ![t] = NIL]

\* ipc_timeout(), called when event e is due; ktimer_event_handler() then
\* frees the event.  A thread that is in another wait by now is left alone.
Timeout(e) ==
    /\ scan = 0 /\ events[e] # NIL
    /\ LET t == events[e]
       IN  IF Due(t, e)
           THEN /\ Wake(t)
                /\ DropEvent(t)
                /\ ipc_from' = Forget(ipc_from, t)
                /\ intended' = Forget(intended, t)
                /\ frame_r1' = Forget(frame_r1, t)
           ELSE UNCHANGED <<state, timeout_event, ipc_from, intended, frame_r1>>
    /\ events' = [events EXCEPT ![e] = NIL]
    /\ UNCHANGED <<started, scan>>

-----------------------------------------------------------------------------
(* The branches of sys_ipc(), in the order of the code.  c is the caller.  *)

Calls(c) == scan = 0 /\ state[c] = "RUNNABLE" /\ UNCHANGED <<scan>>

\* Neither sends nor receives: a sleep.
Sleep(c) ==
    /\ Calls(c) /\ c \in Sleepers
    /\ state' = [state EXCEPT ![c] = "INACTIVE"]
    /\ MaybeTimeout(c)
    /\ UNCHANGED <<started, ipc_from, intended, frame_r1>>

\* The receiver is blocked receiving, or the caller sends to itself.
ReadyToReceive(c, to) == state[to] = "RECV_BLOCKED" \/ to = c

SendReady(c, to, r1, ok) ==
    /\ Calls(c)
    /\ ReadyToReceive(c, to)
    /\ DoIpc(c, to, r1, ok)
    /\ UNCHANGED <<started, events>>

\* The receiver is inactive and the caller is its pager.
PagesFor(c, to) ==
    ~ReadyToReceive(c, to) /\ state[to] = "INACTIVE" /\ Pager[to] = c

\* The thread start protocol.
StartThread(c, to) ==
    /\ Calls(c) /\ PagesFor(c, to)
    /\ started' = started \cup {to}
    /\ state' = [state EXCEPT ![c] = "RUNNABLE", ![to] = "RUNNABLE"]
    /\ UNCHANGED <<ipc_from, intended, frame_r1, timeout_event, events>>

\* Any other message of the pager: copied, and the receiver stays inactive.
SendInactive(c, to, r1, ok) ==
    /\ Calls(c) /\ PagesFor(c, to)
    /\ state' = [IpcState(c, to, r1, ok) EXCEPT ![to] = "INACTIVE"]
    /\ IpcRest(c, to, r1, ok)
    /\ UNCHANGED <<started, events>>

\* No waiting receiver: the caller blocks; r1 stays in its saved frame.
SendBlock(c, to, r1) ==
    /\ Calls(c)
    /\ ~ReadyToReceive(c, to) /\ ~PagesFor(c, to)
    /\ state' = [state EXCEPT ![c] = "SEND_BLOCKED"]
    /\ intended' = [intended EXCEPT ![c] = to]
    /\ frame_r1' = [frame_r1 EXCEPT ![c] = r1]
    /\ MaybeTimeout(c)
    /\ UNCHANGED <<started, ipc_from>>

\* Thread s is blocked sending to r.
SendsTo(s, r) == state[s] = "SEND_BLOCKED" /\ intended[s] = r

\* The senders the caller accepts: the first in thread_map if it receives from
\* anybody, else the one it names.
Acceptable(c, from) ==
    {s \in Tid : /\ SendsTo(s, c)
                 /\ \/ from = s
                    \/ from = ANY /\ \A u \in Tid : SendsTo(u, c) => s <= u}

\* A receive that finds its sender waiting.
ReceivePending(c, from, s, ok) ==
    /\ Calls(c)
    /\ s \in Acceptable(c, from)
    /\ DoIpc(s, c, frame_r1[s], ok)
    /\ UNCHANGED <<started, events>>

\* A receive that has to wait.
ReceiveBlock(c, from) ==
    /\ Calls(c)
    /\ Acceptable(c, from) = {}
    /\ state' = [state EXCEPT ![c] = "RECV_BLOCKED"]
    /\ ipc_from' = [ipc_from EXCEPT ![c] = from]
    /\ MaybeTimeout(c)
    /\ UNCHANGED <<started, intended, frame_r1>>

-----------------------------------------------------------------------------
(* ipc_deliver() *)

\* The timer event of ipc_deliver() is due.
DeliverStart ==
    /\ scan = 0 /\ scan' = 1
    /\ UNCHANGED <<state, started, ipc_from, intended, frame_r1, timeout_event,
                   events>>

\* Mutant: only the branch of a receiving thread is there.
JoinsReceivers(t, from, to) ==
    state[t] = "RECV_BLOCKED" /\ to = t /\ ipc_from[t] = from /\ SendsTo(from, t)

\* The pair the loop joins at thread t: t waits for a thread that sends to it,
\* or t sends to a thread that is blocked receiving.
Joins(t, from, to) ==
    \/ state[t] = "RECV_BLOCKED" /\ to = t /\ ipc_from[t] = from /\ SendsTo(from, t)
    \/ from = t /\ SendsTo(t, to) /\ state[to] = "RECV_BLOCKED"

NextScan == scan' = IF scan = N THEN 0 ELSE scan + 1

DeliverStep ==
    /\ scan # 0
    /\ NextScan
    /\ \/ \E from, to \in Tid, ok \in BOOLEAN :
             /\ Joins(scan, from, to)
             /\ DoIpc(from, to, frame_r1[from], ok)
       \/ /\ ~\E from, to \in Tid : Joins(scan, from, to)
          /\ UNCHANGED <<state, ipc_from, intended, frame_r1, timeout_event>>
    /\ UNCHANGED <<started, events>>

Deliver == DeliverStart \/ DeliverStep

-----------------------------------------------------------------------------

\* A receive phase names another thread, any thread, or nothing.
Phases(c) == (Tid \ {c}) \cup {NIL, ANY}

Call(c) ==
    \/ Sleep(c)
    \/ \E to \in Tid : StartThread(c, to)
    \/ \E to \in Tid, r1 \in Phases(c), ok \in BOOLEAN : SendReady(c, to, r1, ok)
    \/ \E to \in Tid, r1 \in Phases(c), ok \in BOOLEAN : SendInactive(c, to, r1, ok)
    \/ \E to \in Tid, r1 \in Phases(c) : SendBlock(c, to, r1)
    \/ \E from \in Phases(c) \ {NIL}, s \in Tid, ok \in BOOLEAN :
          ReceivePending(c, from, s, ok)
    \/ \E from \in Phases(c) \ {NIL} : ReceiveBlock(c, from)

Next ==
    \/ \E c \in Tid : Call(c)
    \/ \E e \in Event : Timeout(e)
    \/ Deliver

\* The loop of ipc_deliver() is code of one handler.  That it is called again,
\* and that an event is ever due, is not assumed: a lost softirq (softirq.c:46),
\* events that restart the counter (ktimer.c:197) and one that starts it with
\* no ticks left keep the timer from both (KernelLoop, KTimer).
Fairness == WF_vars(DeliverStep)

Spec == Init /\ [][Next]_vars /\ Fairness

-----------------------------------------------------------------------------
(* Properties *)

\* The event a thread points to is pending and its own: a slot of the event
\* table that was freed and given to another timeout is never taken for it
\* (ipc_timeout() compares nothing but the address of the slot).
TimeoutEventPending ==
    \A t \in Tid : timeout_event[t] # NIL => events[timeout_event[t]] = t

\* A thread that can run has no timeout armed: the one of a past wait would end
\* a later wait that asked for none.
ArmedOnlyWhileWaiting ==
    \A t \in Tid : timeout_event[t] # NIL => state[t] # "RUNNABLE"

\* A receiver names whom it waits for; ipc_deliver() skips it if it does not.
WaitsForSomeone ==
    \A t \in Tid : state[t] = "RECV_BLOCKED" => ipc_from[t] # NIL

\* A message is handed over once, to the receiver it was posted for, releasing
\* both partners in the step; a wait ends by that or by its own timeout.
Meeting == INSTANCE Rendezvous WITH
    Party     <- Tid,
    Nobody    <- NIL,
    offer     <- [t \in Tid |-> IF state[t] = "SEND_BLOCKED" THEN intended[t] ELSE NIL],
    listening <- {t \in Tid : state[t] = "RECV_BLOCKED"},
    timed     <- {t \in Tid : timeout_event[t] # NIL}

ImplementsRendezvous == Meeting!RSpec

\* A thread sending to one that is blocked receiving does not stay so: two
\* waits that began by send-then-receive calls meet through ipc_deliver(),
\* unless this is not called any more.
PartnersMeet ==
    \/ <>[][~DeliverStart]_vars
    \/ \A s, r \in Tid :
          (SendsTo(s, r) /\ state[r] = "RECV_BLOCKED") ~>
             ~(SendsTo(s, r) /\ state[r] = "RECV_BLOCKED")

\* A wait whose timeout was armed ends, unless its event stays in the table for
\* ever: nothing takes the timeout away and leaves the thread in its wait.  (No
\* pager may write to a thread that sleeps with a timeout: its message clears
\* the timeout and leaves the thread asleep, SendInactive.)
TimedWaitEnds ==
    \A t \in Tid, e \in Event, wait \in {"RECV_BLOCKED", "SEND_BLOCKED", "INACTIVE"} :
        (state[t] = wait /\ timeout_event[t] = e) ~> (state[t] # wait \/ [](events[e] = t))

\* A wait with a partner or with a timeout ends, as far as IPC can do it.
WaitsEnd == PartnersMeet /\ TimedWaitEnds
=============================================================================
