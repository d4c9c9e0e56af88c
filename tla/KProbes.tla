------------------------------ MODULE KProbes -------------------------------
(***************************************************************************)
(* Kernel probes and return probes (kernel/F9/kprobes.c): the list         *)
(* kp_list, the breakpoints, and what the debug monitor does with both     *)
(* when a probed instruction is reached.                                   *)
(*                                                                         *)
(* Threads register and unregister probes, in two steps each: the list and *)
(* the breakpoint change one after the other, with interrupts enabled, and *)
(* an interrupt handler may run into a breakpoint in between.  A handler   *)
(* may take its own probe off the list and put it back while the list is   *)
(* walked, so the list is kept as pointers, in the record kps.             *)
(***************************************************************************)
EXTENDS Naturals, Sequences, FiniteSets

CONSTANTS
    Probes,      \* struct kprobe; those of return probes are Returning
    Returning,
    Function,    \* where each probe is set
    Return,      \* where the probed functions return to
    Comparators, \* the number of breakpoints of the processor
    NULL

ASSUME KProbesAssumption ==
    /\ IsFiniteSet(Probes) /\ NULL \notin Probes /\ Returning \subseteq Probes
    /\ Function = [p \in Probes |-> Function[p]] /\ \A p \in Probes : Function[p] # Return

VARIABLES
    kps,         \* head: kp_list; next, addr, pre, post: the fields of a probe;
                 \* bkpt: is its breakpoint "none", "on" or "off"; calls: ghost,
                 \* how often its handler was called by the last step, and
                 \* break: the break that was; stuck: a break repeats for ever
    half         \* what a thread has half done: <<step, probe>>

kpVars == <<kps, half>>

Places == {Function[p] : p \in Probes} \cup {Return}

\* The probes on the way through the list, for as many steps as there are
\* probes.
Walk(k) ==
    LET w[n \in 0 .. Cardinality(Probes)] ==
          IF n = 0 THEN k.head ELSE IF w[n - 1] = NULL THEN NULL ELSE k.next[w[n - 1]]
    IN w
InList(k) == {Walk(k)[n] : n \in 0 .. Cardinality(Probes)} \ {NULL}

\* kplist_add()
Added(k, p) == [k EXCEPT !.next[p] = k.head, !.head = p]

\* Mutant: what follows the deleted probe is lost.
DeletedRest(k, p) ==
    IF k.head = p THEN [k EXCEPT !.head = k.next[p]]
    ELSE [k EXCEPT !.next = [q \in Probes |-> IF q \in InList(k) /\ k.next[q] = p THEN NULL ELSE k.next[q]]]
\* kplist_del()
Deleted(k, p) ==
    IF k.head = p THEN [k EXCEPT !.head = k.next[p]]
    ELSE [k EXCEPT !.next = [q \in Probes |-> IF q \in InList(k) /\ k.next[q] = p THEN k.next[p] ELSE k.next[q]]]

\* kprobe_arch_add() fails when all breakpoints are in use.
ArchAdds(k) == Cardinality({p \in Probes : k.bkpt[p] # "none"}) < Comparators
ArchAdded(k, p) == [k EXCEPT !.bkpt[p] = "on"]
ArchDeleted(k, p) == [k EXCEPT !.bkpt[p] = "none"]

Registered(k, p) == Added(ArchAdded(k, p), p)
Unregistered(k, p) == ArchDeleted(Deleted(k, p), p)

-----------------------------------------------------------------------------
(* Breaks                                                                  *)

\* __kretprobe_pre_handler(): the probe moves to where the function returns.
Moved(k, p, lr) ==
    Registered([Unregistered(k, p) EXCEPT !.addr[p] = lr, !.pre[p] = "handler", !.post[p] = "back"], p)

\* __kretprobe_post_handler() and kretprobe_register(): and back.
MovedBack(k, p) ==
    Registered([Unregistered(k, p) EXCEPT !.addr[p] = Function[p], !.pre[p] = "move", !.post[p] = "none"], p)

\* One turn of a loop over the list, at the probe s[2], for what it does there;
\* the next probe is the one that follows then.
Turn(s, Visit(_, _)) ==
    LET k == Visit(s[1], s[2])
    IN  IF s[2] = NULL THEN s ELSE <<k, k.next[s[2]]>>

\* The loop.  A visit moves its probe to the head of the list at most, and no
\* probe is moved twice.
Turns == (Cardinality(Probes) + 1) * (Cardinality(Probes) + 1)
Loop(k, Visit(_, _)) ==
    LET s[n \in 0 .. Turns] == IF n = 0 THEN <<k, k.head>> ELSE Turn(s[n - 1], Visit)
    IN s[Turns][1]

\* Mutant: only the first probe that is set there is called.
PreVisitFirst(k, p, pc, lr) ==
    IF k.addr[p] # pc \/ (\E q \in Probes : k.calls[q] # 0) THEN k
    ELSE IF k.pre[p] = "move" THEN Moved([k EXCEPT !.calls[p] = @ + 1], p, lr)
    ELSE [k EXCEPT !.calls[p] = @ + 1]
\* kprobe_prebreak() at the probe p
PreVisit(k, p, pc, lr) ==
    IF k.addr[p] # pc THEN k
    ELSE IF k.pre[p] = "move" THEN Moved([k EXCEPT !.calls[p] = @ + 1], p, lr)
    ELSE [k EXCEPT !.calls[p] = @ + 1]
Prebreak(k, pc, lr) == Loop(k, LAMBDA u, p : PreVisit(u, p, pc, lr))

\* kprobe_postbreak() at the probe p; step_addr is the address behind the one of
\* the break.
PostVisit(k, p, pc) == IF k.addr[p] = pc /\ k.post[p] = "back" THEN MovedBack(k, p) ELSE k
Postbreak(k, pc) == Loop(k, LAMBDA u, p : PostVisit(u, p, pc))

\* kprobe_breakpoint_disable() and kprobe_breakpoint_enable()
Switched(k, pc, from, to) ==
    [k EXCEPT !.bkpt = [p \in Probes |-> IF p \in InList(k) /\ k.addr[p] = pc /\ k.bkpt[p] = from
                                         THEN to ELSE k.bkpt[p]]]

\* Where a breakpoint is on, the debug monitor calls the handlers, turns off the
\* breakpoints of the probes on the list, steps, and turns them on again.  A
\* breakpoint of a probe that is not on the list stays on: the instruction is
\* never passed.
On(k, pc) == {p \in Probes : k.bkpt[p] = "on" /\ k.addr[p] = pc}
Uncalled(k) == [k EXCEPT !.calls = [p \in Probes |-> 0], !.break = NULL]
Stepped(k, pc) ==
    LET u == Postbreak(k, pc)
    IN  IF On(k, pc) # {} THEN [k EXCEPT !.stuck = TRUE] ELSE Switched(u, pc, "off", "on")
Broken(k, pc, lr) ==
    Stepped(Switched(Prebreak([Uncalled(k) EXCEPT !.break = pc], pc, lr), pc, "on", "off"), pc)

-----------------------------------------------------------------------------
(* Steps                                                                   *)

Whole == <<"none", NULL>>
Fresh(k, p) ==
    [Uncalled(k) EXCEPT !.addr[p] = Function[p], !.post[p] = "none",
                        !.pre[p] = IF p \in Returning THEN "move" ELSE "handler"]

KInit ==
    /\ kps = [head |-> NULL, next |-> [p \in Probes |-> NULL], addr |-> Function,
              pre |-> [p \in Probes |-> "handler"], post |-> [p \in Probes |-> "none"],
              bkpt |-> [p \in Probes |-> "none"], calls |-> [p \in Probes |-> 0],
              break |-> NULL, stuck |-> FALSE]
    /\ half = Whole

\* kprobe_register(), kretprobe_register(): the breakpoint, then the list
RegisterArch(p) ==
    /\ half = Whole /\ p \notin InList(kps) /\ ArchAdds(kps)
    /\ kps' = ArchAdded(Fresh(kps, p), p) /\ half' = <<"register", p>>
RegisterList ==
    /\ half[1] = "register"
    /\ kps' = Added(Uncalled(kps), half[2]) /\ half' = Whole

\* kprobe_unregister(): the list, then the breakpoint
UnregisterList(p) ==
    /\ half = Whole /\ p \in InList(kps)
    /\ kps' = Deleted(Uncalled(kps), p) /\ half' = <<"unregister", p>>
UnregisterArch ==
    /\ half[1] = "unregister"
    /\ kps' = ArchDeleted(Uncalled(kps), half[2]) /\ half' = Whole

\* A probed instruction is reached.
Break(pc, lr) ==
    /\ On(kps, pc) # {}
    /\ kps' = Broken(kps, pc, lr) /\ UNCHANGED half

-----------------------------------------------------------------------------
(* Correctness                                                             *)

\* The list ends; its probes have a breakpoint of their own each, that is on;
\* only the probe that is half registered or unregistered has a breakpoint and
\* is not on it.
ProbesWhole ==
    /\ Walk(kps)[Cardinality(Probes)] = NULL
    /\ {p \in Probes : kps.bkpt[p] # "none"} = InList(kps) \cup ({half[2]} \ {NULL})
    /\ half[2] \notin InList(kps)
    /\ ~kps.stuck => \A p \in InList(kps) : kps.bkpt[p] = "on"
    /\ \A p \in InList(kps) :
           kps.addr[p] = IF p \in Returning /\ kps.pre[p] = "handler" THEN Return ELSE Function[p]
    /\ kps.stuck => half # Whole

\* A break calls the handlers of all probes that are set there, whatever their
\* handlers do to the list; and each once, unless a return probe that is set
\* there too goes back to the head of the list and lets the walk start again.
NoneMissed ==
    [][kps' # kps /\ kps'.break # NULL =>
          LET here == {p \in InList(kps) : kps.addr[p] = kps'.break}
          IN  \A p \in here : IF \E q \in here : kps.pre[q] = "move" THEN kps'.calls[p] >= 1
                               ELSE kps'.calls[p] = 1]_kpVars
=============================================================================
