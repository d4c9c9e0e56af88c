----------------------------- MODULE Rendezvous -----------------------------
(***************************************************************************)
(* What synchronous IPC promises: a posted message waits for one receiver  *)
(* and is handed over once, in one step that releases both partners; a     *)
(* wait ends by such a meeting or by the thread's own timeout, and by      *)
(* nothing else.                                                           *)
(***************************************************************************)
CONSTANTS Party, Nobody

VARIABLES
    offer,      \* offer[s]: the party s waits to hand a message to, or Nobody
    listening,  \* the parties that wait for a message
    timed       \* the parties whose wait may time out

rvars == <<offer, listening, timed>>

Waiting(t) == offer[t] # Nobody \/ t \in listening

RInit ==
    /\ offer = [t \in Party |-> Nobody]
    /\ listening = {}
    /\ timed \in SUBSET Party

\* Nobody's timeout but that of t and of parties that do not wait changes.
OnlyTimes(t) ==
    /\ timed' \in SUBSET Party
    /\ \A u \in Party \ {t} : Waiting(u) => (u \in timed' <=> u \in timed)

\* A party that does not wait posts an offer or listens, with a timeout or not.
Post(s, r) ==
    /\ ~Waiting(s)
    /\ offer' = [offer EXCEPT ![s] = r]
    /\ UNCHANGED listening
    /\ OnlyTimes(s)

Listen(r) ==
    /\ ~Waiting(r)
    /\ listening' = listening \cup {r}
    /\ UNCHANGED offer
    /\ OnlyTimes(r)

\* s hands its message to r: s has posted it for r or sends it in this step,
\* r listens or receives in this step, and one of them was waiting unless a
\* party talks to itself.  Both are released; s may go on to listen.
Meet(s, r) ==
    /\ offer[s] = r \/ ~Waiting(s)
    /\ r \in listening \/ ~Waiting(r)
    /\ Waiting(s) \/ Waiting(r) \/ s = r
    /\ offer' = [offer EXCEPT ![s] = Nobody]
    /\ listening' \in {listening \ {s, r}, (listening \ {r}) \cup {s}}
    /\ timed' = timed \ {s, r}

\* A wait that was given a timeout ends by it.
Expire(t) ==
    /\ Waiting(t) /\ t \in timed
    /\ offer' = [offer EXCEPT ![t] = Nobody]
    /\ listening' = listening \ {t}
    /\ timed' = timed \ {t}

\* Parties that do not wait may set or drop timers of their own.
Others ==
    /\ UNCHANGED <<offer, listening>>
    /\ timed' \in SUBSET Party
    /\ \A t \in Party : Waiting(t) => (t \in timed' <=> t \in timed)

RNext ==
    \/ \E s, r \in Party : Post(s, r) \/ Meet(s, r)
    \/ \E t \in Party : Listen(t) \/ Expire(t)
    \/ Others

RSpec == RInit /\ [][RNext]_rvars
=============================================================================
