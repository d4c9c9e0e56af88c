------------------------------ MODULE IrqFifo ------------------------------
(***************************************************************************)
(* What the queue of user interrupts promises: an interrupt that is        *)
(* unmasked waits in line at most once, is masked from then on, and leaves *)
(* the line from its front.  An interrupt that finds nobody in line may be *)
(* taken in the step that raises it.                                       *)
(***************************************************************************)
EXTENDS Sequences

CONSTANT Source

VARIABLES
    line,       \* the interrupts that wait for their threads, oldest first
    unmasked

fvars == <<line, unmasked>>

FInit == line = <<>> /\ unmasked = {}

InLine(i) == \E k \in DOMAIN line : line[k] = i

Unmask(i) ==
    /\ ~InLine(i)
    /\ unmasked' = unmasked \cup {i}
    /\ UNCHANGED line

Mask(i) ==
    /\ unmasked' = unmasked \ {i}
    /\ UNCHANGED line

\* i is raised; the front of the line may be taken at once.
Raise(i) ==
    /\ i \in unmasked
    /\ unmasked' = unmasked \ {i}
    /\ line' \in {Append(line, i), Tail(Append(line, i))}

Take ==
    /\ line # <<>>
    /\ line' = Tail(line)
    /\ UNCHANGED unmasked

FNext ==
    \/ \E i \in Source : Unmask(i) \/ Mask(i) \/ Raise(i)
    \/ Take

FSpec == FInit /\ [][FNext]_fvars
=============================================================================
