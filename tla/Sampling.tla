------------------------------ MODULE Sampling ------------------------------
(***************************************************************************)
(* Sampling by the kernel debugger (kernel/F9/sampling.c, sampling-kdb.c,  *)
(* ksym.c, lib/sort.c, lib/bsearch.c): a probe on the timer's handler      *)
(* records where the CPU was, a command of the debugger sorts the records  *)
(* and counts them by symbol, while the timer goes on.                     *)
(*                                                                         *)
(* An address is a number, arrays are functions from 0 on.                 *)
(***************************************************************************)
EXTENDS Integers, KProbes

CONSTANTS
    Sampler,    \* the probe of kdb_show_sampling()
    MaxSamples, \* MAX_SAMPLING_COUNT
    MaxKsym,    \* MAX_KSYM: how many symbols can be counted
    Symbols,    \* the table of symbols: their addresses, ascending
    Codes,      \* where the timer may interrupt
    MaxSteps    \* bound on the steps

Total == Len(Symbols)       \* ksym_total()
Addr(id) == Symbols[id + 1]
Ids == 0 .. Total - 1
Indices == 0 .. MaxSamples - 1

ASSUME SamplingAssumption ==
    /\ Sampler \in Probes \ Returning /\ MaxSamples \in Nat \ {0} /\ MaxKsym \in Nat \ {0} /\ Total >= 1
    /\ Symbols \in Seq(Nat) /\ Codes \subseteq Nat
    /\ \A i, j \in Ids : i < j => Addr(i) < Addr(j)

VARIABLES
    sampledPc, sampledCount, enabled,
    prevIndex,              \* prev_index of ksym_lookup()
    hitcount, sortedList,   \* ksym_hitcount, ksymid_sortedlist: the entries of symbols
    kdb,                    \* where kdb_show_sampling() is
    steps

samples == <<sampledPc, sampledCount, enabled>>
stats == <<prevIndex, hitcount, sortedList>>
vars == <<kps, half, samples, stats, kdb, steps>>

-----------------------------------------------------------------------------
(* lib: sort() by a key, and bsearch()                                     *)

Swap(a, i, j) == [a EXCEPT ![i] = a[j], ![j] = a[i]]

\* The greater child of a node, of those below n.
Greater(a, c, n, key) == IF c < n - 1 /\ key[a[c]] < key[a[c + 1]] THEN c + 1 ELSE c

\* One turn of the loop that moves what is at s[2] down; no turn follows one
\* that changes nothing.
Down(s, n, key) ==
    LET c == Greater(s[1], s[2] * 2 + 1, n, key)
    IN  IF s[2] * 2 + 1 < n /\ key[s[1][s[2]]] < key[s[1][c]] THEN <<Swap(s[1], s[2], c), c>> ELSE s
Sift(a, r, n, key) ==
    LET s[i \in 0 .. n] == IF i = 0 THEN <<a, r>> ELSE Down(s[i - 1], n, key)
    IN  s[n][1]
Heap(a, n, key) ==
    LET h[i \in 0 .. n \div 2] == IF i = 0 THEN a ELSE Sift(h[i - 1], (n \div 2) - i, n, key)
    IN  h[n \div 2]
Drain(a, n, key) ==
    LET d[i \in 0 .. n - 1] == IF i = 0 THEN a ELSE Sift(Swap(d[i - 1], 0, n - i), 0, n - i, key)
    IN  d[n - 1]
Sort(a, n, key) == Drain(Heap(a, n, key), n, key)

\* cmp_key() is 0: the last symbol fits always.
Matches(addr, p) == p = Total - 1 \/ (addr >= Addr(p) /\ addr < Addr(p + 1))

\* bsearch(): what is left to search are s[2] symbols from s[1] on; -1 when it
\* was found, at s[1].
Halve(addr, s) ==
    LET p == s[1] + (s[2] \div 2)
    IN  IF s[2] <= 0 THEN s
        ELSE IF Matches(addr, p) THEN <<p, -1>>
        ELSE IF addr > Addr(p) THEN <<p + 1, (s[2] - 1) \div 2>>
        ELSE <<s[1], s[2] \div 2>>
Search(addr, base, lim) ==
    LET s[i \in 0 .. Total] == IF i = 0 THEN <<base, lim>> ELSE Halve(addr, s[i - 1])
        Found(e) == IF e[2] = -1 THEN e[1] ELSE -1
    IN  Found(s[Total])

\* Mutant: the search begins behind the symbol that was found last.
LookupBehind(addr, prev) ==
    IF Addr(prev) < addr THEN Search(addr, prev + 1, Total - prev - 1) ELSE Search(addr, 0, Total)
\* ksym_lookup()
Lookup(addr, prev) ==
    IF Addr(prev) < addr THEN Search(addr, prev, Total - prev) ELSE Search(addr, 0, Total)

-----------------------------------------------------------------------------
(* sampling.c                                                              *)

\* sampled_pcpush(), and n times
Push(s, pc) ==
    LET at == IF s[2] = MaxSamples THEN 0 ELSE s[2]
    IN  IF enabled THEN <<[s[1] EXCEPT ![at] = pc], at + 1>> ELSE s
Pushed(s, pc, n) ==
    LET p[i \in 0 .. n] == IF i = 0 THEN s ELSE Push(p[i - 1], pc)
    IN  p[n]

\* The hits and prev_index, when one more sample is looked up; and when all are.
Hit(s, id) == IF id < 0 THEN s ELSE <<[s[1] EXCEPT ![id] = @ + 1], id>>
Counted(s, pc) == Hit(s, Lookup(pc, s[2]))
Count(pcs, hits, prev) ==
    LET c[i \in 0 .. MaxSamples] == IF i = 0 THEN <<hits, prev>> ELSE Counted(c[i - 1], pcs[i - 1])
    IN  c[MaxSamples]

NoHits == [id \in Ids |-> 0]
Tick == ~kps.stuck /\ kdb # "overrun" /\ steps < MaxSteps /\ steps' = steps + 1

\* More symbols than the arrays of sampling_stats() have entries
TooMany == Total > MaxKsym

\* sampling_stats().  With too many symbols its second sort() works on what lies
\* behind the arrays, at least: what follows is undefined.
SamplingStats ==
    /\ Tick /\ kdb = "stats" /\ kdb' = IF TooMany THEN "overrun" ELSE "enable"
    /\ IF TooMany THEN UNCHANGED <<sampledPc, stats>>
       ELSE \E pcs \in {Sort(sampledPc, MaxSamples, [code \in Codes \cup {0} |-> code])} :
              \E found \in {Count(pcs, NoHits, prevIndex)} :
                /\ sampledPc' = pcs /\ hitcount' = found[1] /\ prevIndex' = found[2]
                /\ sortedList' = Sort([id \in Ids |-> id], Total, [id \in Ids |-> -found[1][id]])
    /\ UNCHANGED <<kps, half, sampledCount, enabled>>

\* sampling_init() and sampling_enable(), the first time.  When there are too
\* many symbols sampling_init() says so and returns, but kdb_show_sampling() goes on.
SamplingInit ==
    /\ Tick /\ kdb = "first"
    /\ IF TooMany THEN UNCHANGED <<sampledPc, sampledCount>>
       ELSE sampledPc' = [i \in Indices |-> 0] /\ sampledCount' = 0
    /\ enabled' = TRUE /\ kdb' = "register"
    /\ UNCHANGED <<kps, half, stats>>
SamplingDisable ==
    /\ Tick /\ kdb = "idle" /\ enabled' = FALSE /\ kdb' = "stats"
    /\ UNCHANGED <<kps, half, sampledPc, sampledCount, stats>>
SamplingEnable ==
    /\ Tick /\ kdb = "enable" /\ enabled' = TRUE /\ kdb' = "idle"
    /\ UNCHANGED <<kps, half, sampledPc, sampledCount, stats>>

\* kdb_show_sampling(): its probe is registered, if there is a breakpoint left.
RegisterSampler ==
    /\ Tick /\ kdb = "register" /\ kdb' = "idle"
    /\ IF ArchAdds(kps) THEN RegisterArch(Sampler) ELSE half = Whole /\ UNCHANGED kpVars
    /\ UNCHANGED <<samples, stats>>

\* Others use probes too; and what is half done is finished.
OtherRegisters(p) == Tick /\ RegisterArch(p) /\ UNCHANGED <<samples, stats, kdb>>
OtherUnregisters(p) == Tick /\ UnregisterList(p) /\ UNCHANGED <<samples, stats, kdb>>
Registering == Tick /\ RegisterList /\ UNCHANGED <<samples, stats, kdb>>
Unregistering == Tick /\ UnregisterArch /\ UNCHANGED <<samples, stats, kdb>>

\* A break; sampling_handler() is the handler of the sampler.
Interrupt(pc, code) ==
    /\ Tick /\ Break(pc, Return)
    /\ \E s \in {Pushed(<<sampledPc, sampledCount>>, code, kps'.calls[Sampler])} :
        sampledPc' = s[1] /\ sampledCount' = s[2]
    /\ UNCHANGED <<enabled, stats, kdb>>

Init ==
    /\ KInit
    /\ sampledPc = [i \in Indices |-> 0] /\ sampledCount = 0 /\ enabled = FALSE
    /\ prevIndex = 0 /\ hitcount = NoHits /\ sortedList = [id \in Ids |-> 0]
    /\ kdb = "first" /\ steps = 0

Next ==
    \/ SamplingInit \/ RegisterSampler \/ SamplingDisable \/ SamplingStats \/ SamplingEnable
    \/ \E p \in Probes \ {Sampler} : OtherRegisters(p) \/ OtherUnregisters(p)
    \/ Registering \/ Unregistering
    \/ \E pc \in Places, code \in Codes : Interrupt(pc, code)

Spec == Init /\ [][Next]_vars

-----------------------------------------------------------------------------
(* Correctness                                                             *)

Symbol(addr) == IF addr < Addr(0) THEN -1 ELSE CHOOSE id \in Ids :
                    Addr(id) <= addr /\ \A j \in Ids : Addr(j) <= addr => j <= id
HitsOf(pcs, id) == Cardinality({i \in Indices : Symbol(pcs[i]) = id})

\* The command counts each sample once, for the symbol it is in, whatever
\* samples the commands before it looked up, and lists the symbols by their
\* counts.  (The last two symbols only together: a search that is left with
\* just these always says it is the last.)
StatsExact ==
    kdb = "enable" =>
        /\ \A id \in 0 .. Total - 3 : hitcount[id] = HitsOf(sampledPc, id)
        /\ Total >= 2 => hitcount[Total - 1] + hitcount[Total - 2] =
                         HitsOf(sampledPc, Total - 1) + HitsOf(sampledPc, Total - 2)
        /\ {sortedList[id] : id \in Ids} = Ids
        /\ \A i \in 0 .. Total - 2 : hitcount[sortedList[i]] >= hitcount[sortedList[i + 1]]
=============================================================================
