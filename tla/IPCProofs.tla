----------------------------- MODULE IPCProofs -----------------------------
(***************************************************************************)
(* Safety of IPC for any number of threads, any event table and any        *)
(* assignment of pagers, and that it implements Rendezvous step by step.   *)
(***************************************************************************)
EXTENDS IPC, TLAPS

\* What a blocked thread remembers: a sender its receiver, a receiver whom it
\* waits for, and a thread that points to an event that event's slot.
BlockedInv ==
    /\ \A t \in Tid : state[t] = "SEND_BLOCKED" => intended[t] # NIL
    /\ WaitsForSomeone
    /\ TimeoutEventPending

IInv == TypeOK /\ BlockedInv

-----------------------------------------------------------------------------
(* What the helpers do *)

\* do_ipc() changes the two partners only; the receiver runs (unless it is also
\* the sender), the sender runs or waits for somebody it names; neither keeps a
\* timeout.
LEMMA DoIpcEffect ==
    ASSUME IInv, NEW from \in Tid, NEW to \in Tid,
           NEW r1 \in Tid \cup {NIL, ANY}, NEW ok \in BOOLEAN,
           IpcRest(from, to, r1, ok)
    PROVE  LET st == IpcState(from, to, r1, ok)
           IN  /\ st \in [Tid -> {"RUNNABLE", "RECV_BLOCKED", "SEND_BLOCKED", "INACTIVE"}]
               /\ \A t \in Tid \ {from, to} :
                     /\ st[t] = state[t] /\ ipc_from'[t] = ipc_from[t]
                     /\ timeout_event'[t] = timeout_event[t]
               /\ \A t \in Tid \ {from} : intended'[t] = intended[t]
               /\ to # from => st[to] = "RUNNABLE"
               /\ st[from] \in {"RUNNABLE", "RECV_BLOCKED"}
               /\ st[from] = "RECV_BLOCKED" => ipc_from'[from] # NIL
               /\ timeout_event'[from] = NIL /\ timeout_event'[to] = NIL
               /\ ipc_from' \in [Tid -> Tid \cup {NIL, ANY}]
               /\ intended' \in [Tid -> Tid \cup {NIL}]
               /\ frame_r1' \in [Tid -> Tid \cup {NIL, ANY}]
               /\ timeout_event' \in [Tid -> Event \cup {NIL}]
BY DEF IpcRest, IpcState, Forget, TimeoutsCleared, IInv, TypeOK

\* Arming a timeout keeps every other thread's and gives the caller none or a
\* slot that was free.
LEMMA TimeoutEffect ==
    ASSUME IInv, NEW t \in Tid, MaybeTimeout(t)
    PROVE  /\ timeout_event' \in [Tid -> Event \cup {NIL}]
           /\ events' \in [Event -> Tid \cup {NIL}]
           /\ \A u \in Tid \ {t} : timeout_event'[u] = timeout_event[u]
           /\ TimeoutEventPending'
<1>1. CASE UNCHANGED <<timeout_event, events>>
  BY <1>1 DEF IInv, TypeOK, BlockedInv, TimeoutEventPending
<1>2. CASE timeout_event' = [timeout_event EXCEPT ![t] = NIL] /\ UNCHANGED events
  BY <1>2 DEF IInv, TypeOK, BlockedInv, TimeoutEventPending
<1>3. ASSUME NEW e \in FreeEvents,
             events' = [events EXCEPT ![e] = t],
             timeout_event' = [timeout_event EXCEPT ![t] = e]
      PROVE  /\ timeout_event' \in [Tid -> Event \cup {NIL}]
             /\ events' \in [Event -> Tid \cup {NIL}]
             /\ \A u \in Tid \ {t} : timeout_event'[u] = timeout_event[u]
             /\ TimeoutEventPending'
  <2>1. e \in Event /\ events[e] = NIL
    BY DEF FreeEvents
  <2>2. \A u \in Tid : timeout_event[u] # e
    BY <2>1, IPCAssumption DEF IInv, BlockedInv, TimeoutEventPending, Tid, Event, NIL
  <2> QED BY <1>3, <2>1, <2>2 DEF IInv, TypeOK, BlockedInv, TimeoutEventPending
<1> QED BY <1>1, <1>2, <1>3 DEF MaybeTimeout, ArmTimeout

-----------------------------------------------------------------------------
(* The inductive invariant *)

\* A meeting through do_ipc() that keeps the event table preserves the
\* invariant, also when the receiver is then put back to INACTIVE.
LEMMA MeetInv ==
    ASSUME IInv, NEW from \in Tid, NEW to \in Tid,
           NEW r1 \in Tid \cup {NIL, ANY}, NEW ok \in BOOLEAN,
           IpcRest(from, to, r1, ok),
           \/ state' = IpcState(from, to, r1, ok)
           \/ to # from /\ state' = [IpcState(from, to, r1, ok) EXCEPT ![to] = "INACTIVE"],
           UNCHANGED <<started, events>>, scan' \in 0 .. N
    PROVE  IInv'
<1> DEFINE st == IpcState(from, to, r1, ok)
<1>1. /\ st \in [Tid -> {"RUNNABLE", "RECV_BLOCKED", "SEND_BLOCKED", "INACTIVE"}]
      /\ \A t \in Tid \ {from, to} :
            /\ st[t] = state[t] /\ ipc_from'[t] = ipc_from[t]
            /\ timeout_event'[t] = timeout_event[t]
      /\ \A t \in Tid \ {from} : intended'[t] = intended[t]
      /\ to # from => st[to] = "RUNNABLE"
      /\ st[from] \in {"RUNNABLE", "RECV_BLOCKED"}
      /\ st[from] = "RECV_BLOCKED" => ipc_from'[from] # NIL
      /\ timeout_event'[from] = NIL /\ timeout_event'[to] = NIL
      /\ ipc_from' \in [Tid -> Tid \cup {NIL, ANY}]
      /\ intended' \in [Tid -> Tid \cup {NIL}]
      /\ frame_r1' \in [Tid -> Tid \cup {NIL, ANY}]
      /\ timeout_event' \in [Tid -> Event \cup {NIL}]
  BY DoIpcEffect
<1> HIDE DEF st
<1>2. /\ state' \in [Tid -> {"RUNNABLE", "RECV_BLOCKED", "SEND_BLOCKED", "INACTIVE"}]
      /\ \A t \in Tid \ {from, to} : state'[t] = state[t]
      /\ state'[to] \in {"RUNNABLE", "INACTIVE", st[to]}
      /\ state'[from] = st[from]
  BY <1>1 DEF st
<1>3. TypeOK'
  BY <1>1, <1>2 DEF IInv, TypeOK
<1>4. \A t \in Tid : state'[t] = "SEND_BLOCKED" => intended'[t] # NIL
  BY <1>1, <1>2 DEF IInv, BlockedInv
<1>5. WaitsForSomeone'
  BY <1>1, <1>2 DEF IInv, BlockedInv, WaitsForSomeone
<1>6. TimeoutEventPending'
  BY <1>1 DEF IInv, BlockedInv, TimeoutEventPending
<1> QED BY <1>3, <1>4, <1>5, <1>6 DEF IInv, BlockedInv

\* Initially nobody is blocked and no event is pending.
LEMMA InitIInv == Init => IInv
BY IPCAssumption
   DEF Init, IInv, TypeOK, BlockedInv, WaitsForSomeone, TimeoutEventPending

\* Every step preserves the invariant.
LEMMA StepIInv == IInv /\ [Next]_vars => IInv'
<1> SUFFICES ASSUME IInv, [Next]_vars PROVE IInv'
  OBVIOUS
<1>t. TypeOK /\ BlockedInv
  BY DEF IInv
<1>p. \A c \in Tid : Phases(c) \subseteq Tid \cup {NIL, ANY}
  BY DEF Phases
<1>s. \A c \in Tid : Calls(c) => scan' \in 0 .. N
  BY <1>t DEF Calls, TypeOK
<1>1. ASSUME NEW c \in Tid, Sleep(c) PROVE IInv'
  BY <1>1, <1>t, TimeoutEffect
     DEF Sleep, Calls, IInv, TypeOK, BlockedInv, WaitsForSomeone
<1>2. ASSUME NEW c \in Tid, NEW to \in Tid, StartThread(c, to) PROVE IInv'
  BY <1>2, <1>t
     DEF StartThread, Calls, IInv, TypeOK, BlockedInv, WaitsForSomeone, TimeoutEventPending
<1>3. ASSUME NEW c \in Tid, NEW to \in Tid, NEW r1 \in Phases(c), NEW ok \in BOOLEAN,
             SendReady(c, to, r1, ok)
      PROVE  IInv'
  BY <1>3, <1>p, <1>s, MeetInv DEF SendReady, DoIpc
<1>4. ASSUME NEW c \in Tid, NEW to \in Tid, NEW r1 \in Phases(c), NEW ok \in BOOLEAN,
             SendInactive(c, to, r1, ok)
      PROVE  IInv'
  BY <1>4, <1>p, <1>s, MeetInv DEF SendInactive, PagesFor, ReadyToReceive
<1>5. ASSUME NEW c \in Tid, NEW to \in Tid, NEW r1 \in Phases(c), SendBlock(c, to, r1)
      PROVE  IInv'
  BY <1>5, <1>p, <1>t, TimeoutEffect, IPCAssumption
     DEF SendBlock, Calls, IInv, TypeOK, BlockedInv, WaitsForSomeone, Tid, NIL
<1>6. ASSUME NEW c \in Tid, NEW from \in Phases(c) \ {NIL}, NEW s \in Tid, NEW ok \in BOOLEAN,
             ReceivePending(c, from, s, ok)
      PROVE  IInv'
  <2>1. frame_r1[s] \in Tid \cup {NIL, ANY}
    BY <1>t DEF TypeOK
  <2> QED BY <1>6, <2>1, <1>s, MeetInv DEF ReceivePending, DoIpc
<1>7. ASSUME NEW c \in Tid, NEW from \in Phases(c) \ {NIL}, ReceiveBlock(c, from)
      PROVE  IInv'
  BY <1>7, <1>p, <1>t, TimeoutEffect
     DEF ReceiveBlock, Calls, IInv, TypeOK, BlockedInv, WaitsForSomeone
<1>8. ASSUME NEW e \in Event, Timeout(e) PROVE IInv'
  <2>1. events[e] \in Tid
    BY <1>8, <1>t DEF Timeout, TypeOK
  <2>2. CASE timeout_event[events[e]] = e
    BY <1>8, <2>1, <2>2, <1>t
       DEF Timeout, Due, Wake, DropEvent, Forget, IInv, TypeOK, BlockedInv,
           WaitsForSomeone, TimeoutEventPending
  <2>3. CASE timeout_event[events[e]] # e
    BY <1>8, <2>1, <2>3, <1>t
       DEF Timeout, Due, IInv, TypeOK, BlockedInv, WaitsForSomeone, TimeoutEventPending
  <2> QED BY <2>2, <2>3
<1>9. CASE DeliverStart
  BY <1>9, <1>t, IPCAssumption
     DEF DeliverStart, IInv, TypeOK, BlockedInv, WaitsForSomeone, TimeoutEventPending
<1>10. CASE DeliverStep
  <2>1. scan' \in 0 .. N
    BY <1>10, <1>t, IPCAssumption DEF DeliverStep, NextScan, TypeOK
  <2>2. ASSUME NEW from \in Tid, NEW to \in Tid, NEW ok \in BOOLEAN,
               DoIpc(from, to, frame_r1[from], ok)
        PROVE  IInv'
    <3>1. frame_r1[from] \in Tid \cup {NIL, ANY}
      BY <1>t DEF TypeOK
    <3> QED BY <1>10, <2>1, <2>2, <3>1, MeetInv DEF DeliverStep, DoIpc
  <2>3. ASSUME UNCHANGED <<state, ipc_from, intended, frame_r1, timeout_event>>
        PROVE  IInv'
    BY <1>10, <2>1, <2>3, <1>t
       DEF DeliverStep, IInv, TypeOK, BlockedInv, WaitsForSomeone, TimeoutEventPending
  <2> QED BY <1>10, <2>2, <2>3 DEF DeliverStep
<1>11. CASE UNCHANGED vars
  BY <1>11, <1>t DEF vars, IInv, TypeOK, BlockedInv, WaitsForSomeone, TimeoutEventPending
<1> QED
  BY <1>1, <1>2, <1>3, <1>4, <1>5, <1>6, <1>7, <1>8, <1>9, <1>10, <1>11
     DEF Next, Call, Deliver

\* The invariant holds in every reachable state.
THEOREM InductiveInvariant == Spec => []IInv
<1> QED BY InitIInv, StepIInv, PTL DEF Spec

-----------------------------------------------------------------------------
(* The theorems *)

\* The variables of IPC keep their types.
THEOREM TypeCorrect == Spec => []TypeOK
<1>1. IInv => TypeOK
  BY DEF IInv
<1> QED BY <1>1, InductiveInvariant, PTL

\* The event a thread points to is pending and its own, so that a reused slot
\* of the event table never ends the wait of another thread.
THEOREM TimeoutOwnsItsEvent == Spec => []TimeoutEventPending
<1>1. IInv => TimeoutEventPending
  BY DEF IInv, BlockedInv
<1> QED BY <1>1, InductiveInvariant, PTL

\* A blocked receiver names whom it waits for.
THEOREM ReceiverNamesPartner == Spec => []WaitsForSomeone
<1>1. IInv => WaitsForSomeone
  BY DEF IInv, BlockedInv
<1> QED BY <1>1, InductiveInvariant, PTL

\* The threads a pager may start do not sleep with a timeout.
NoPagedSleeper == \A t \in Sleepers : Pager[t] = NIL

\* Only sleepers are inactive with a timeout armed.
ArmedInv ==
    /\ ArmedOnlyWhileWaiting
    /\ \A t \in Tid : state[t] = "INACTIVE" /\ timeout_event[t] # NIL => t \in Sleepers

\* Every step preserves it, if no pager starts a sleeping thread.
LEMMA ArmedStep ==
    ASSUME NoPagedSleeper, IInv, ArmedInv, [Next]_vars
    PROVE  ArmedInv'
<1> USE DEF ArmedInv, ArmedOnlyWhileWaiting
<1>t. TypeOK
  BY DEF IInv
<1>p. \A c \in Tid : Phases(c) \subseteq Tid \cup {NIL, ANY}
  BY DEF Phases
<1>m. ASSUME NEW from \in Tid, NEW to \in Tid, NEW r1 \in Tid \cup {NIL, ANY},
             NEW ok \in BOOLEAN, IpcRest(from, to, r1, ok),
             \/ state' = IpcState(from, to, r1, ok)
             \/ to # from /\ state' = [IpcState(from, to, r1, ok) EXCEPT ![to] = "INACTIVE"]
      PROVE  ArmedInv'
  <2> DEFINE st == IpcState(from, to, r1, ok)
  <2>1. /\ st \in [Tid -> {"RUNNABLE", "RECV_BLOCKED", "SEND_BLOCKED", "INACTIVE"}]
        /\ \A t \in Tid \ {from, to} :
              st[t] = state[t] /\ timeout_event'[t] = timeout_event[t]
        /\ timeout_event'[from] = NIL /\ timeout_event'[to] = NIL
    BY <1>m, DoIpcEffect
  <2>2. \A t \in Tid \ {from, to} : state'[t] = state[t]
    <3> HIDE DEF st
    <3> QED BY <1>m, <2>1 DEF st
  <2> QED BY <2>1, <2>2
<1>1. ASSUME NEW c \in Tid, Sleep(c) PROVE ArmedInv'
  BY <1>1, <1>t, TimeoutEffect DEF Sleep, TypeOK
<1>2. ASSUME NEW c \in Tid, NEW to \in Tid, StartThread(c, to) PROVE ArmedInv'
  <2>1. timeout_event[to] = NIL
    BY <1>2, IPCAssumption
       DEF StartThread, PagesFor, NoPagedSleeper, Tid, NIL
  <2> QED BY <1>2, <1>t, <2>1 DEF StartThread, Calls, TypeOK
<1>3. ASSUME NEW c \in Tid, NEW to \in Tid, NEW r1 \in Phases(c), NEW ok \in BOOLEAN,
             SendReady(c, to, r1, ok)
      PROVE  ArmedInv'
  BY <1>3, <1>p, <1>m DEF SendReady, DoIpc
<1>4. ASSUME NEW c \in Tid, NEW to \in Tid, NEW r1 \in Phases(c), NEW ok \in BOOLEAN,
             SendInactive(c, to, r1, ok)
      PROVE  ArmedInv'
  BY <1>4, <1>p, <1>m DEF SendInactive, PagesFor, ReadyToReceive
<1>5. ASSUME NEW c \in Tid, NEW to \in Tid, NEW r1 \in Phases(c), SendBlock(c, to, r1)
      PROVE  ArmedInv'
  BY <1>5, <1>t, TimeoutEffect DEF SendBlock, TypeOK
<1>6. ASSUME NEW c \in Tid, NEW from \in Phases(c) \ {NIL}, NEW s \in Tid, NEW ok \in BOOLEAN,
             ReceivePending(c, from, s, ok)
      PROVE  ArmedInv'
  <2>1. frame_r1[s] \in Tid \cup {NIL, ANY}
    BY <1>t DEF TypeOK
  <2> QED BY <1>6, <2>1, <1>m DEF ReceivePending, DoIpc
<1>7. ASSUME NEW c \in Tid, NEW from \in Phases(c) \ {NIL}, ReceiveBlock(c, from)
      PROVE  ArmedInv'
  BY <1>7, <1>t, TimeoutEffect DEF ReceiveBlock, TypeOK
<1>8. ASSUME NEW e \in Event, Timeout(e) PROVE ArmedInv'
  BY <1>8, <1>t DEF Timeout, Due, Wake, DropEvent, TypeOK
<1>9. CASE DeliverStart
  BY <1>9 DEF DeliverStart
<1>10. CASE DeliverStep
  <2>1. ASSUME NEW from \in Tid, NEW to \in Tid, NEW ok \in BOOLEAN,
               DoIpc(from, to, frame_r1[from], ok)
        PROVE  ArmedInv'
    <3>1. frame_r1[from] \in Tid \cup {NIL, ANY}
      BY <1>t DEF TypeOK
    <3> QED BY <2>1, <3>1, <1>m DEF DoIpc
  <2> QED BY <1>10, <2>1 DEF DeliverStep
<1>11. CASE UNCHANGED vars
  BY <1>11 DEF vars
<1> QED
  BY <1>1, <1>2, <1>3, <1>4, <1>5, <1>6, <1>7, <1>8, <1>9, <1>10, <1>11
     DEF Next, Call, Deliver

\* If no pager starts a thread out of a timed sleep, a thread that can run has
\* no timeout armed: no later wait is ended by the timeout of an earlier one.
THEOREM NoStaleTimeout == NoPagedSleeper => (Spec => []ArmedOnlyWhileWaiting)
<1> SUFFICES ASSUME NoPagedSleeper PROVE Spec => []ArmedOnlyWhileWaiting
  OBVIOUS
<1>1. Init => ArmedInv
  BY DEF Init, ArmedInv, ArmedOnlyWhileWaiting
<1>2. IInv /\ ArmedInv /\ [Next]_vars => ArmedInv'
  BY ArmedStep
<1>3. ArmedInv => ArmedOnlyWhileWaiting
  BY DEF ArmedInv
<1> QED BY <1>1, <1>2, <1>3, InductiveInvariant, PTL DEF Spec

-----------------------------------------------------------------------------
(* Implementation of Rendezvous *)

\* The abstract state of a concrete one.
Offer == [t \in Tid |-> IF state[t] = "SEND_BLOCKED" THEN intended[t] ELSE NIL]
Listening == {t \in Tid : state[t] = "RECV_BLOCKED"}
Timed == {t \in Tid : timeout_event[t] # NIL}

\* A thread waits in the abstract state if it is blocked sending or receiving.
LEMMA WaitingMeans ==
    ASSUME IInv, NEW t \in Tid
    PROVE  Meeting!Waiting(t) <=> state[t] \in {"SEND_BLOCKED", "RECV_BLOCKED"}
BY DEF Meeting!Waiting, IInv, BlockedInv

\* do_ipc() between a sender that has posted its message for the receiver or
\* calls now, and a receiver that is blocked or calls now, is a meeting.
LEMMA MeetStep ==
    ASSUME IInv, NEW from \in Tid, NEW to \in Tid,
           NEW r1 \in Tid \cup {NIL, ANY}, NEW ok \in BOOLEAN,
           DoIpc(from, to, r1, ok),
           SendsTo(from, to) \/ state[from] = "RUNNABLE",
           state[to] \in {"RECV_BLOCKED", "RUNNABLE"},
           SendsTo(from, to) \/ state[to] = "RECV_BLOCKED" \/ from = to
    PROVE  Meeting!Meet(from, to)
<1> DEFINE st == IpcState(from, to, r1, ok)
<1>1. /\ st \in [Tid -> {"RUNNABLE", "RECV_BLOCKED", "SEND_BLOCKED", "INACTIVE"}]
      /\ \A t \in Tid \ {from, to} :
            st[t] = state[t] /\ timeout_event'[t] = timeout_event[t]
      /\ \A t \in Tid \ {from} : intended'[t] = intended[t]
      /\ to # from => st[to] = "RUNNABLE"
      /\ st[from] \in {"RUNNABLE", "RECV_BLOCKED"}
      /\ timeout_event'[from] = NIL /\ timeout_event'[to] = NIL
  BY DoIpcEffect DEF DoIpc
<1>2. state' = st
  BY DEF DoIpc
<1> HIDE DEF st
<1>3. Offer[from] = to \/ ~Meeting!Waiting(from)
  BY WaitingMeans DEF Offer, SendsTo
<1>4. to \in Listening \/ ~Meeting!Waiting(to)
  BY WaitingMeans DEF Listening
<1>5. Meeting!Waiting(from) \/ Meeting!Waiting(to) \/ from = to
  BY WaitingMeans DEF SendsTo
<1>6. Offer' = [Offer EXCEPT ![from] = NIL]
  BY <1>1, <1>2 DEF Offer
<1>7. Listening' \in {Listening \ {from, to}, (Listening \ {to}) \cup {from}}
  <2>1. CASE st[from] = "RECV_BLOCKED"
    BY <1>1, <1>2, <2>1 DEF Listening
  <2>2. CASE st[from] = "RUNNABLE"
    BY <1>1, <1>2, <2>2 DEF Listening
  <2> QED BY <1>1, <2>1, <2>2
<1>8. Timed' = Timed \ {from, to}
  BY <1>1 DEF Timed
<1> QED BY <1>3, <1>4, <1>5, <1>6, <1>7, <1>8
        DEF Meeting!Meet, Offer, Listening, Timed

\* Every step of IPC is a step of the rendezvous, or leaves it as it is.
LEMMA RendezvousStep ==
    ASSUME IInv, IInv', [Next]_vars
    PROVE  [Meeting!RNext]_(Meeting!rvars)
<1>t. TypeOK /\ BlockedInv
  BY DEF IInv
<1>p. \A c \in Tid : Phases(c) \subseteq Tid \cup {NIL, ANY}
  BY DEF Phases
<1>w. \A t \in Tid : Meeting!Waiting(t) <=> state[t] \in {"SEND_BLOCKED", "RECV_BLOCKED"}
  BY WaitingMeans
<1>o. ASSUME \A t \in Tid : state[t] \in {"SEND_BLOCKED", "RECV_BLOCKED"} =>
                 state'[t] = state[t] /\ timeout_event'[t] = timeout_event[t],
             \A t \in Tid : state[t] \notin {"SEND_BLOCKED", "RECV_BLOCKED"} =>
                 state'[t] \notin {"SEND_BLOCKED", "RECV_BLOCKED"},
             UNCHANGED intended
      PROVE  Meeting!RNext
  <2>1. Offer' = Offer /\ Listening' = Listening
    BY <1>o, <1>t DEF Offer, Listening, TypeOK
  <2>2. Timed' \in SUBSET Tid
    BY DEF Timed
  <2>3. \A t \in Tid : Meeting!Waiting(t) => (t \in Timed' <=> t \in Timed)
    BY <1>o, <1>w DEF Timed
  <2>4. Meeting!Others
    BY <2>1, <2>2, <2>3 DEF Meeting!Others, Offer, Listening, Timed
  <2> QED BY <2>4 DEF Meeting!RNext
<1>m. ASSUME NEW from \in Tid, NEW to \in Tid, Meeting!Meet(from, to)
      PROVE  Meeting!RNext
  BY <1>m DEF Meeting!RNext
<1>1. ASSUME NEW c \in Tid, Sleep(c) PROVE Meeting!RNext
  BY <1>1, <1>o, <1>t, TimeoutEffect DEF Sleep, Calls, TypeOK
<1>2. ASSUME NEW c \in Tid, NEW to \in Tid, StartThread(c, to) PROVE Meeting!RNext
  BY <1>2, <1>o, <1>t DEF StartThread, Calls, PagesFor, TypeOK
<1>3. ASSUME NEW c \in Tid, NEW to \in Tid, NEW r1 \in Phases(c), NEW ok \in BOOLEAN,
             SendReady(c, to, r1, ok)
      PROVE  Meeting!RNext
  <2>1. Meeting!Meet(c, to)
    BY <1>3, <1>p, MeetStep DEF SendReady, Calls, ReadyToReceive
  <2> QED BY <2>1, <1>m
<1>6. ASSUME NEW c \in Tid, NEW from \in Phases(c) \ {NIL}, NEW s \in Tid, NEW ok \in BOOLEAN,
             ReceivePending(c, from, s, ok)
      PROVE  Meeting!RNext
  <2>1. frame_r1[s] \in Tid \cup {NIL, ANY} /\ SendsTo(s, c)
    BY <1>6, <1>t DEF TypeOK, ReceivePending, Acceptable
  <2>2. Meeting!Meet(s, c)
    BY <1>6, <2>1, MeetStep DEF ReceivePending, Calls
  <2> QED BY <2>2, <1>m
<1>9. CASE DeliverStart
  BY <1>9, <1>o DEF DeliverStart
<1>10. CASE DeliverStep
  <2>1. ASSUME NEW from \in Tid, NEW to \in Tid, NEW ok \in BOOLEAN,
               Joins(scan, from, to), DoIpc(from, to, frame_r1[from], ok)
        PROVE  Meeting!RNext
    <3>1. frame_r1[from] \in Tid \cup {NIL, ANY}
      BY <1>t DEF TypeOK
    <3>2. SendsTo(from, to) /\ state[to] = "RECV_BLOCKED"
      BY <2>1 DEF Joins
    <3>3. Meeting!Meet(from, to)
      BY <2>1, <3>1, <3>2, MeetStep
    <3> QED BY <3>3, <1>m
  <2> QED BY <1>10, <2>1, <1>o DEF DeliverStep
<1>11. CASE UNCHANGED vars
  BY <1>11, <1>o DEF vars
<1>4. ASSUME NEW c \in Tid, NEW to \in Tid, NEW r1 \in Phases(c), NEW ok \in BOOLEAN,
             SendInactive(c, to, r1, ok)
      PROVE  Meeting!RNext
  <2> DEFINE st == IpcState(c, to, r1, ok)
  <2>1. c # to /\ state[c] = "RUNNABLE" /\ state[to] = "INACTIVE"
    BY <1>4 DEF SendInactive, Calls, PagesFor, ReadyToReceive
  <2>2. /\ st \in [Tid -> {"RUNNABLE", "RECV_BLOCKED", "SEND_BLOCKED", "INACTIVE"}]
        /\ \A t \in Tid \ {c, to} :
              st[t] = state[t] /\ timeout_event'[t] = timeout_event[t]
        /\ \A t \in Tid \ {c} : intended'[t] = intended[t]
        /\ st[c] \in {"RUNNABLE", "RECV_BLOCKED"}
    <3>1. IpcRest(c, to, r1, ok) /\ r1 \in Tid \cup {NIL, ANY}
      BY <1>4, <1>p DEF SendInactive
    <3> QED BY <3>1, DoIpcEffect
  <2>3. state' = [st EXCEPT ![to] = "INACTIVE"]
    BY <1>4 DEF SendInactive
  <2> HIDE DEF st
  <2>4. Offer' = Offer
    BY <2>1, <2>2, <2>3, <1>t DEF Offer, TypeOK
  <2>5. \A t \in Tid \ {c} : Meeting!Waiting(t) => (t \in Timed' <=> t \in Timed)
    BY <2>1, <2>2, <1>w DEF Timed
  <2>6. Timed' \in SUBSET Tid /\ ~Meeting!Waiting(c)
    BY <2>1, <1>w DEF Timed
  <2>7. CASE st[c] = "RECV_BLOCKED"
    <3>1. Listening' = Listening \cup {c}
      BY <2>1, <2>2, <2>3, <2>7 DEF Listening
    <3>2. Meeting!Listen(c)
      BY <3>1, <2>4, <2>5, <2>6
         DEF Meeting!Listen, Meeting!OnlyTimes, Offer, Listening, Timed
    <3> QED BY <3>2 DEF Meeting!RNext
  <2>8. CASE st[c] = "RUNNABLE"
    <3>1. Listening' = Listening
      BY <2>1, <2>2, <2>3, <2>8 DEF Listening
    <3>2. \A t \in Tid : Meeting!Waiting(t) => (t \in Timed' <=> t \in Timed)
      BY <2>5, <2>6
    <3>3. Meeting!Others
      BY <3>1, <3>2, <2>4, <2>6 DEF Meeting!Others, Offer, Listening, Timed
    <3> QED BY <3>3 DEF Meeting!RNext
  <2> QED BY <2>2, <2>7, <2>8
<1>5. ASSUME NEW c \in Tid, NEW to \in Tid, NEW r1 \in Phases(c), SendBlock(c, to, r1)
      PROVE  Meeting!RNext
  <2>1. Offer' = [Offer EXCEPT ![c] = to] /\ Listening' = Listening
    BY <1>5, <1>t DEF SendBlock, Calls, Offer, Listening, TypeOK
  <2>2. \A t \in Tid \ {c} : Meeting!Waiting(t) => (t \in Timed' <=> t \in Timed)
    BY <1>5, TimeoutEffect DEF SendBlock, Timed
  <2>3. Timed' \in SUBSET Tid /\ ~Meeting!Waiting(c)
    BY <1>5, <1>w DEF Timed, SendBlock, Calls
  <2>4. Meeting!Post(c, to)
    BY <2>1, <2>2, <2>3 DEF Meeting!Post, Meeting!OnlyTimes, Offer, Listening, Timed
  <2> QED BY <2>4 DEF Meeting!RNext
<1>7. ASSUME NEW c \in Tid, NEW from \in Phases(c) \ {NIL}, ReceiveBlock(c, from)
      PROVE  Meeting!RNext
  <2>1. Listening' = Listening \cup {c} /\ Offer' = Offer
    BY <1>7, <1>t DEF ReceiveBlock, Calls, Offer, Listening, TypeOK
  <2>2. \A t \in Tid \ {c} : Meeting!Waiting(t) => (t \in Timed' <=> t \in Timed)
    BY <1>7, TimeoutEffect DEF ReceiveBlock, Timed
  <2>3. Timed' \in SUBSET Tid /\ ~Meeting!Waiting(c)
    BY <1>7, <1>w DEF Timed, ReceiveBlock, Calls
  <2>4. Meeting!Listen(c)
    BY <2>1, <2>2, <2>3 DEF Meeting!Listen, Meeting!OnlyTimes, Offer, Listening, Timed
  <2> QED BY <2>4 DEF Meeting!RNext
<1>8. ASSUME NEW e \in Event, Timeout(e) PROVE Meeting!RNext
  <2>1. PICK t \in Tid : t = events[e]
    BY <1>8, <1>t DEF Timeout, TypeOK
  <2>2. CASE ~Due(t, e)
    BY <1>8, <2>1, <2>2, <1>o DEF Timeout
  <2>3. CASE Due(t, e) /\ ~Meeting!Waiting(t)
    <3>1. state' = [state EXCEPT ![t] = "RUNNABLE"] /\ intended' = [intended EXCEPT ![t] = NIL]
          /\ timeout_event' = [timeout_event EXCEPT ![t] = NIL]
      BY <1>8, <2>1, <2>3 DEF Timeout, Wake, DropEvent, Forget
    <3>2. Offer' = Offer /\ Listening' = Listening
      BY <3>1, <2>1, <2>3, <1>w, <1>t DEF Offer, Listening, TypeOK
    <3>3. \A u \in Tid : Meeting!Waiting(u) => (u \in Timed' <=> u \in Timed)
      BY <3>1, <2>1, <2>3, <1>t DEF Timed, TypeOK
    <3>4. Meeting!Others
      BY <3>2, <3>3 DEF Meeting!Others, Offer, Listening, Timed
    <3> QED BY <3>4 DEF Meeting!RNext
  <2>4. CASE Due(t, e) /\ Meeting!Waiting(t)
    <3>1. state' = [state EXCEPT ![t] = "RUNNABLE"] /\ intended' = [intended EXCEPT ![t] = NIL]
          /\ timeout_event' = [timeout_event EXCEPT ![t] = NIL] /\ timeout_event[t] # NIL
      BY <1>8, <2>1, <2>4, IPCAssumption DEF Timeout, Wake, DropEvent, Forget, Due, Event, NIL
    <3>2. Offer' = [Offer EXCEPT ![t] = NIL]
      BY <3>1, <2>1, <1>t DEF Offer, TypeOK
    <3>3. Listening' = Listening \ {t}
      BY <3>1, <2>1, <1>t DEF Listening, TypeOK
    <3>4. Timed' = Timed \ {t} /\ t \in Timed
      BY <3>1, <2>1, <1>t DEF Timed, TypeOK
    <3>5. Meeting!Expire(t)
      BY <3>2, <3>3, <3>4, <2>4 DEF Meeting!Expire, Offer, Listening, Timed
    <3> QED BY <3>5 DEF Meeting!RNext
  <2> QED BY <2>2, <2>3, <2>4
<1> QED
  BY <1>1, <1>2, <1>3, <1>4, <1>5, <1>6, <1>7, <1>8, <1>9, <1>10, <1>11
     DEF Next, Call, Deliver

\* IPC implements Rendezvous: a message is handed over once, to the receiver it
\* was posted for, and a wait ends by that or by its own timeout.
THEOREM ImplementsRendezvousSteps == Spec => ImplementsRendezvous
<1>1. Init => Meeting!RInit
  BY DEF Init, Meeting!RInit
<1>2. IInv /\ IInv' /\ [Next]_vars => [Meeting!RNext]_(Meeting!rvars)
  BY RendezvousStep
<1> QED BY <1>1, <1>2, InductiveInvariant, PTL DEF Spec, ImplementsRendezvous, Meeting!RSpec
=============================================================================
