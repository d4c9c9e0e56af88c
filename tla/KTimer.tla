------------------------------- MODULE KTimer -------------------------------
(***************************************************************************)
(* The kernel timer (kernel/F9/ktimer.c): a queue of events whose deltas   *)
(* are relative to the event before, the counter that the tick interrupt   *)
(* runs down to the first of them, and the handler of the KTE softirq.     *)
(*                                                                         *)
(* Ticks interleave with everything: with the loop of                      *)
(* ktimer_event_handler(), which takes one step per event, with what       *)
(* softirq_execute() does after it, and with ktimer_event_schedule(),      *)
(* which reads the counter in one step, and links the event and starts the *)
(* counter in another (a tick changes the counter only, so that it does    *)
(* not matter where between the two it comes).  Events are created by      *)
(* system calls, which the kernel thread handles between two runs of the   *)
(* timer's handler, and by main() before the first tick.  The handler of   *)
(* the event main() creates, ipc_deliver(), asks to be called again after  *)
(* Period ticks; that of the others, ipc_timeout(), does not.              *)
(*                                                                         *)
(* A tick is one interrupt: ktimer_now and tickless idle are left out.     *)
(***************************************************************************)
EXTENDS Naturals, FiniteSets, FiniteSetsExt

CONSTANTS
    NEvents,    \* CONFIG_MAX_KT_EVENTS
    MinTicks,   \* CONFIG_KTIMER_MINTICKS
    First,      \* ticks to the first call of ipc_deliver()
    Period,     \* what ipc_deliver() returns
    Requests,   \* the ticks timeouts ask for
    MaxCalls,   \* bound: timeouts asked for in a behaviour
    MaxLag,     \* bound: ticks from an expiry to the end of its handling, and in a call
    Word        \* 2^32: ticks and deltas are uint32_t

Event == 1 .. NEvents
NULL == 0
Deliver == 1    \* ktable_alloc() gives main() the first slot

ASSUME KTimerAssumption ==
    /\ NEvents \in Nat \ {0} /\ MinTicks \in Nat /\ MaxCalls \in Nat
    /\ First \in Nat \ {0} /\ Period \in Nat \ {0}
    /\ Requests \subseteq Nat \ {0}
    /\ MaxLag \in Nat \ {0}
    /\ Word \in Nat /\ \A ticks \in Requests \cup {First, Period} : 4 * ticks < Word

VARIABLES
    used,       \* slots of ktimer_event_table that are allocated
    next, delta,    \* the fields of the events
    event_queue,
    enabled, ktimer_delta, ktimer_time,     \* the counter
    pending,    \* the flag of the KTE softirq
    event,      \* next event of the handler's loop, NULL when it is not in it
    last_event,
    resetting,  \* the handler has left the loop
    clearing,   \* the handler has returned, its flag is not yet reset
    placing,    \* the event being scheduled, NULL when none is
    asked, elapsed, \* ticks and ktimer_time as it read them
    lag,        \* ticks since the expiry that is being handled, or in a call
    calls,      \* timeouts asked for
    late        \* ghost: where the counter has expired too late to be noticed

queue == <<next, delta, event_queue>>
counter == <<enabled, ktimer_delta, ktimer_time>>
loop == <<event, last_event, resetting, clearing>>
request == <<placing, asked, elapsed>>
vars == <<used, queue, counter, pending, loop, request, lag, calls, late>>

TypeOK ==
    /\ used \in SUBSET Event
    /\ next \in [Event -> Event \cup {NULL}]
    /\ delta \in [Event -> 0 .. Word - 1]
    /\ event_queue \in Event \cup {NULL}
    /\ enabled \in BOOLEAN
    /\ ktimer_delta \in 0 .. Word - 1
    /\ ktimer_time \in Nat
    /\ pending \in BOOLEAN
    /\ event \in Event \cup {NULL}
    /\ last_event \in Event \cup {NULL}
    /\ resetting \in BOOLEAN /\ clearing \in BOOLEAN
    /\ placing \in Event \cup {NULL} /\ asked \in {0, Period} \cup Requests /\ elapsed \in Nat
    /\ lag \in 0 .. MaxLag
    /\ calls \in 0 .. MaxCalls
    /\ late \in SUBSET {"placing", "clearing"}

\* ktimer_event_create(First, ipc_deliver, NULL) on the empty queue.
Init ==
    /\ used = {Deliver}
    /\ next = [e \in Event |-> NULL]
    /\ delta = [e \in Event |-> IF e = Deliver THEN First ELSE 0]
    /\ event_queue = Deliver
    /\ enabled = TRUE /\ ktimer_delta = First /\ ktimer_time = 0
    /\ pending = FALSE
    /\ event = NULL /\ last_event = NULL /\ resetting = FALSE /\ clearing = FALSE
    /\ placing = NULL /\ asked = 0 /\ elapsed = 0
    /\ lag = 0 /\ calls = 0 /\ late = {}

Handling == event # NULL \/ resetting \/ clearing
Busy == pending \/ Handling \/ placing # NULL

-----------------------------------------------------------------------------
(* The chain of events that starts at an event *)

\* Chain(e)[k]: the event k links after e, NULL beyond the end.
Chain(e) ==
    LET c[k \in 0 .. NEvents] ==
          IF k = 0 THEN e ELSE IF c[k - 1] = NULL THEN NULL ELSE next[c[k - 1]]
    IN c

Length(e) == Cardinality({k \in 0 .. NEvents : Chain(e)[k] # NULL})

InQueue == {Chain(event_queue)[k] : k \in 0 .. NEvents} \ {NULL}

\* Position(k): the sum of the deltas of the queue up to its k-th event.
Position ==
    LET s[k \in 0 .. NEvents] ==
          LET e == Chain(event_queue)[k]
          IN (IF k = 0 THEN 0 ELSE s[k - 1]) + (IF e = NULL THEN 0 ELSE delta[e])
    IN s

-----------------------------------------------------------------------------
(* Scheduling *)

\* ktimer_enable()
Enable(ticks) ==
    IF enabled THEN UNCHANGED counter
    ELSE enabled' = TRUE /\ ktimer_delta' = ticks /\ ktimer_time' = 0

\* The ticks asked for from now on, less those that have gone, in 32 bits.
Remaining == (asked + Word - elapsed) % Word

\* delta < CONFIG_KTIMER_MINTICKS, where delta is signed.
Clamp(d) == IF d < MinTicks \/ d >= Word \div 2 THEN 0 ELSE d

\* The place the search loop ends at: the first event such that the next one
\* is due at ticks or later.
Predecessor(ticks) ==
    Min({k \in 0 .. Length(event_queue) - 1 :
            \/ k = Length(event_queue) - 1
            \/ ticks <= Position[k + 1]})

\* Mutant: the event after the new one keeps its delta.
RecalcNothing(e, later, d) == [delta EXCEPT ![e] = d]

\* kte->delta = delta; ktimer_event_recalc(next_event, delta);
Recalc(e, later, d) ==
    [f \in Event |-> IF f = e THEN d
                     ELSE IF f = later THEN (delta[f] + Word - d) % Word
                     ELSE delta[f]]

ScheduleFirst(ticks, e) ==
    /\ event_queue = NULL
    /\ event_queue' = e
    /\ next' = [next EXCEPT ![e] = NULL]
    /\ delta' = [delta EXCEPT ![e] = ticks]
    /\ Enable(ticks)

ScheduleEarly(ticks, e) ==
    /\ event_queue # NULL
    /\ ticks < delta[event_queue]
    /\ event_queue' = e
    /\ next' = [next EXCEPT ![e] = event_queue]
    /\ delta' = Recalc(e, event_queue, Clamp(ticks))
    /\ Enable(ticks)

ScheduleAfter(ticks, e) ==
    /\ event_queue # NULL
    /\ ticks >= delta[event_queue]
    /\ LET k == Predecessor(ticks)
           before == Chain(event_queue)[k]
           d == (ticks + Word - Position[k]) % Word
       IN /\ next' = [next EXCEPT ![before] = e, ![e] = next[before]]
          /\ delta' = Recalc(e, next[before], Clamp(d))
    /\ UNCHANGED <<event_queue, counter>>

Insert(ticks, e) == ScheduleFirst(ticks, e) \/ ScheduleEarly(ticks, e) \/ ScheduleAfter(ticks, e)

\* ktimer_event_schedule() with ticks # 0, up to where it has read the counter,
\* ticks -= ktimer_time, kte->next = NULL;
Read(ticks, e) ==
    /\ placing' = e /\ asked' = ticks /\ elapsed' = ktimer_time
    /\ next' = [next EXCEPT ![e] = NULL]

\* and the rest of it.
Schedule ==
    /\ placing # NULL
    /\ Insert(Remaining, placing)
    /\ placing' = NULL /\ asked' = 0 /\ elapsed' = 0
    /\ lag' = IF pending \/ Handling THEN lag ELSE 0
    /\ UNCHANGED <<used, pending, loop, calls, late>>

\* ktimer_event_create(ticks, ipc_timeout, caller), in a system call.  A full
\* table changes nothing.
Create(ticks) ==
    /\ ~Handling /\ placing = NULL /\ calls < MaxCalls
    /\ Event \ used # {}
    /\ LET e == Min(Event \ used)
       IN used' = used \cup {e} /\ Read(ticks, e)
    /\ calls' = calls + 1
    /\ UNCHANGED <<delta, event_queue, counter, pending, loop, lag, late>>

-----------------------------------------------------------------------------
(* The tick interrupt: __ktimer_handler() *)

\* Mutant: the counter stops without raising the softirq.
RaiseNever == pending' = pending

\* softirq_schedule(KTE_SOFTIRQ)
Raise == pending' = TRUE

\* An expiry is noticed late if the event being placed was reckoned by the counter
\* before it, or if its request is about to be cleared.
Noticed == late' = late \cup (IF placing # NULL THEN {"placing"} ELSE {})
                        \cup (IF clearing THEN {"clearing"} ELSE {})

Tick ==
    /\ lag < MaxLag
    /\ lag' = IF Busy THEN lag + 1 ELSE 0
    /\ IF enabled /\ ktimer_delta > 0
       THEN IF ktimer_delta = 1
            THEN /\ enabled' = FALSE /\ ktimer_delta' = 0 /\ ktimer_time' = 0
                 /\ Raise /\ Noticed
            ELSE /\ ktimer_delta' = ktimer_delta - 1
                 /\ ktimer_time' = ktimer_time + 1
                 /\ UNCHANGED <<enabled, pending, late>>
       ELSE UNCHANGED <<counter, pending, late>>
    /\ UNCHANGED <<used, queue, loop, request, calls>>

-----------------------------------------------------------------------------
(* The handler of the KTE softirq: ktimer_event_handler() *)

\* Mutant: the event after the head is always the last one.
FirstLaterAlone == Chain(event_queue)[1]

\* The first event after the head that is not due together with it.
FirstLater ==
    LET later == {k \in 1 .. NEvents : LET e == Chain(event_queue)[k]
                                       IN e # NULL /\ delta[e] # 0}
    IN IF later = {} THEN NULL ELSE Chain(event_queue)[Min(later)]

\* The due events are taken off the queue.  On an empty queue ("That is bug if
\* we are here") the handler stops the counter and returns.
HandlerStart ==
    /\ pending /\ ~Handling /\ placing = NULL
    /\ IF event_queue = NULL
       THEN /\ enabled' = FALSE /\ clearing' = TRUE
            /\ UNCHANGED <<event, last_event, event_queue>>
       ELSE /\ event' = event_queue
            /\ last_event' = FirstLater /\ event_queue' = FirstLater
            /\ UNCHANGED <<enabled, clearing>>
    /\ UNCHANGED <<used, next, delta, ktimer_delta, ktimer_time, pending, resetting, request, lag, calls, late>>

\* Mutant: next_event is read after the event's own link was reset.
NextEventReread(e) == next'[e]

\* next_event = event->next, read before the event is scheduled again.
NextEvent(e) == next[e]

\* event->handler(event), and what is done with the event after it; if it is
\* scheduled again, Schedule comes next.
HandlerStep ==
    /\ event # NULL /\ placing = NULL
    /\ IF event = Deliver
       THEN Read(Period, event) /\ UNCHANGED used
       ELSE used' = used \ {event} /\ UNCHANGED <<next, request>>
    /\ LET n == NextEvent(event)
       IN IF n = NULL \/ n = last_event
          THEN event' = NULL /\ resetting' = TRUE
          ELSE event' = n /\ UNCHANGED resetting
    /\ UNCHANGED <<delta, event_queue, counter, pending, last_event, clearing, lag, calls, late>>

\* if (event_queue) ktimer_enable(event_queue->delta);
Reset ==
    IF event_queue # NULL THEN Enable(delta[event_queue]) ELSE UNCHANGED counter

\* The end of the handler.
HandlerEnd ==
    /\ resetting /\ placing = NULL
    /\ Reset
    /\ resetting' = FALSE /\ last_event' = NULL /\ clearing' = TRUE
    /\ UNCHANGED <<used, queue, event, pending, request, lag, calls, late>>

\* softirq_execute() then clears the flag, whoever set it.
Clear ==
    /\ clearing
    /\ clearing' = FALSE /\ pending' = FALSE /\ lag' = 0
    /\ UNCHANGED <<used, queue, counter, event, last_event, resetting, request, calls, late>>

Handler == HandlerStart \/ HandlerStep \/ HandlerEnd \/ Clear

Next == (\E ticks \in Requests : Create(ticks)) \/ Schedule \/ Tick \/ Handler

\* SysTick never stops, and the kernel thread runs before any other thread.
Fairness == WF_vars(Tick) /\ WF_vars(Schedule \/ Handler)

Spec == Init /\ [][Next]_vars /\ Fairness
-----------------------------------------------------------------------------
(* Properties *)

\* The events the loop of the handler has still to call.
DueChain ==
    IF event = NULL THEN {}
    ELSE LET c == Chain(event)
             end == Min({k \in 1 .. NEvents : c[k] \in {NULL, last_event}})
         IN {c[k] : k \in 0 .. end - 1}

\* Every allocated event is either in the queue, still to be called by the handler,
\* or being placed, never two of it, and the queue ends: relinking an event while
\* the chain it was in is being walked loses none and repeats none.
QueueExact ==
    LET placed == {placing} \ {NULL}
    IN  /\ TypeOK
        /\ InQueue \cap DueChain = {} /\ InQueue \cap placed = {} /\ DueChain \cap placed = {}
        /\ InQueue \cup DueChain \cup placed = used
        /\ Chain(event_queue)[NEvents] = NULL

\* The ticks from the start of the queue to an event in it.
Due(e) == Position[CHOOSE k \in 0 .. NEvents : Chain(event_queue)[k] = e]

\* Scheduling an event moves no other event: the deltas before and after it
\* still add up ("insert and recalculate").
InsertKeepsOthers ==
    [][InQueue \subseteq InQueue' => \A e \in InQueue : Due(e)' = Due(e)]_vars

Placed(e) == e = placing /\ placing' = NULL

\* An event is queued at the ticks asked for less those the counter had gone when
\* it was read, less than CONFIG_KTIMER_MINTICKS early; if more had gone, where
\* the difference wraps in 32 bits, together with the last event.
InsertedWhereAsked ==
    [][\A e \in Event : Placed(e) =>
          IF elapsed <= asked THEN Due(e)' <= asked - elapsed /\ asked - elapsed < Due(e)' + MinTicks
          ELSE InQueue # {} => Due(e)' \in {Due(f) : f \in InQueue} /\ \A f \in InQueue : Due(f) <= Due(e)']_vars

\* A new event is where the code reckons it and the others are where they were.
InsertExact == InsertKeepsOthers /\ InsertedWhereAsked

\* Events wait, and neither the counter runs nor is an expiry being handled.
Stopped == event_queue # NULL /\ ~Busy /\ ~(enabled /\ ktimer_delta > 0)

\* The timer stops with events in the queue in two ways only: the expiry came
\* between the end of the handler and the reset of its flag and was forgotten
\* (softirq.c:46), or it came while an early event was being placed for which no
\* ticks were left, so that ktimer_enable(0) set a counter that never runs.
TimerAlive == Stopped => "clearing" \in late \/ ("placing" \in late /\ enabled)

\* Every timeout fires and frees its event.
TimeoutsFire ==
    \A e \in Event \ {Deliver} : e \in used ~> e \notin used

\* ipc_deliver() is called again and again.
DeliverAgain == []<>(event = Deliver)

\* Whatever is queued is called, whatever the order of early, rounded and
\* rescheduled events, unless an expiry was noticed late and the timer stopped for
\* good (TimerAlive), and if no more than MaxCalls timeouts are asked for: early
\* events push the later ones back, so that an unending supply of them can delay
\* an event for ever.
Fires == <>[](Stopped /\ late # {}) \/ (TimeoutsFire /\ DeliverAgain)
=============================================================================
