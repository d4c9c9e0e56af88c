------------------------------- MODULE Sched -------------------------------
(***************************************************************************)
(* The slot scheduler of kernel/F9/sched.c, as operators.  Its state is    *)
(* the array of slots; a slot remembers the thread last dispatched in it   *)
(* and may have a handler that proposes another one when that thread is    *)
(* not runnable.  The modules that schedule threads keep the slots in a    *)
(* variable of their own and use these operators for schedule_select().    *)
(***************************************************************************)
EXTENDS Naturals

\* Mutant: the root thread is preferred to the softirqs.
SlotRankRootFirst == [SOFTIRQ       |-> 2, INTR_THREAD   |-> 1, ROOT_THREAD |-> 0,
                      IPC_THREAD    |-> 3, NORMAL_THREAD |-> 4, IDLE        |-> 5]

\* The slots in the order in which schedule_select() asks them.  The enum
\* lives in a header; the order is that of its uses and of the comment that
\* the last slot is IDLE.
SlotRank == [SOFTIRQ       |-> 0, INTR_THREAD   |-> 1, ROOT_THREAD |-> 2,
             IPC_THREAD    |-> 3, NORMAL_THREAD |-> 4, IDLE        |-> 5]

Slot == DOMAIN SlotRank

\* What one iteration of the loop can return for slot s: the thread already
\* scheduled there when it is runnable, else one of the threads the slot's
\* handler may propose (redispatch[s] is empty when the handler is absent or
\* returns NULL).
Yields(slots, runnable, redispatch, s) ==
    IF slots[s] \in runnable THEN {slots[s]} ELSE redispatch[s]

\* The slot at which the loop of schedule_select() returns.
SelectedSlot(slots, runnable, redispatch) ==
    CHOOSE s \in Slot :
        /\ Yields(slots, runnable, redispatch, s) # {}
        /\ \A r \in Slot : SlotRank[r] < SlotRank[s]
               => Yields(slots, runnable, redispatch, r) = {}

\* sched_slot_dispatch(): thread t becomes the scheduled thread of slot s.
Dispatch(slots, s, t) == [slots EXCEPT ![s] = t]
=============================================================================
