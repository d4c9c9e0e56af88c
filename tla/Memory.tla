------------------------------- MODULE Memory -------------------------------
(***************************************************************************)
(* Flexpages, address spaces and the MPU (kernel/F9/fpage.c and memory.c), *)
(* with what the creation and removal of threads, map items of messages    *)
(* and thread switches do with them.                                       *)
(*                                                                         *)
(* The tables are the record mem; a function that changes them takes and   *)
(* returns such a record.  The list linked by as_next is a sequence of     *)
(* slots of fpage_table, the other lists are kept as pointers, as they may *)
(* run into each other.  The kernel thread does all this by itself, no     *)
(* interrupt handler touches it, so an operation is one step.              *)
(*                                                                         *)
(* What C leaves undefined ends the behaviour with a fault: a step through *)
(* a NULL pointer ("unlisted" where an fpage is removed from a list it is  *)
(* not on, "spaces" where as_table is full), the use of a freed fpage, a   *)
(* walk that does not end ("endless" in a ring of maps, "circular" in a    *)
(* list of the MPU), a full fpage_table, an fpage in a pool that has none  *)
(* ("region"), and an uninitialised `end' of remove_fpage_from_list() that *)
(* is not 0 by chance.  Access rights, and the fault handler, which is not *)
(* in this repository, are left out.                                       *)
(*                                                                         *)
(* A loop is a function: s[k] is what its k-th turn leaves.                *)
(***************************************************************************)
EXTENDS Integers, Sequences, FiniteSets, SequencesExt

CONSTANTS
    Top,        \* the first address behind the memory
    Smallest,   \* CONFIG_SMALLEST_FPAGE_SIZE
    Pools,      \* memmap[]: a sequence of [start, end, user, always, fpages]
    MaxFpages,  \* CONFIG_MAX_FPAGES
    MpuRegions, \* the number of regions of the MPU
    Root,
    Users,      \* the other threads
    Spaces,     \* the slots of as_table
    Kip,        \* kip_fpage and kip_extra_fpage: pairs <<base, size>>
    Utcb, Stack,    \* for each thread, where they are: <<base, size>>
    Areas,      \* what threads map to each other
    Codes,      \* where a thread may be when it is switched to
    MaxOps      \* bound on the operations

Threads == {Root} \cup Users
Slots == 1 .. MaxFpages
NULL == 0

ASSUME MemoryAssumption ==
    /\ Top \in Nat \ {0} /\ Smallest \in 1 .. Top /\ Top % Smallest = 0
    /\ MaxFpages \in Nat /\ MpuRegions \in Nat \ {0}
    /\ Pools \in Seq([start : 0 .. Top, end : 0 .. Top, user : BOOLEAN, always : BOOLEAN, fpages : BOOLEAN])
    /\ Root \notin Users /\ IsFiniteSet(Users)
    /\ Spaces \subseteq Nat \ {NULL} /\ IsFiniteSet(Spaces) /\ Spaces # {}
    /\ Kip \in Seq(Nat \X Nat) /\ Areas \subseteq Nat \X Nat /\ Codes \subseteq Nat
    /\ Utcb \in [Threads -> Nat \X Nat] /\ Stack \in [Threads -> Nat \X Nat]

VARIABLES
    mem,
    of,         \* thr->as
    last,       \* ghost: the last operation and what it did
    ops         \* how many operations were done

vars == <<mem, of, last, ops>>

(* mem.fp: the fpages; used: those allocated in fpage_table; chain:        *)
(* as->first and what follows; mapNext, mpuNext: map_next, mpu_next;       *)
(* mpuFirst, shared: the fields of a space; live: the spaces allocated in  *)
(* as_table; fault: what has gone wrong.                                   *)
Fpage == [base : 0 .. Top, size : 1 .. Top, always : BOOLEAN, clone : BOOLEAN]
Faults == {"none", "null", "unlisted", "spaces", "freed", "full", "region", "endless", "circular", "uninitialised"}

TypeOK ==
    /\ mem.fault \in Faults
    /\ mem.used \subseteq Slots /\ mem.live \subseteq Spaces
    /\ \A f \in mem.used : mem.fp[f] \in Fpage /\ mem.mapNext[f] \in Slots /\ mem.mpuNext[f] \in Slots \cup {NULL}
    /\ \A a \in mem.live : mem.chain[a] \in Seq(Slots) /\ mem.mpuFirst[a] \in Slots \cup {NULL} /\ mem.shared[a] \in Nat
    /\ of \in [Threads -> Spaces \cup {NULL}]

Faulty(m, what) == [m EXCEPT !.fault = IF @ = "none" THEN what ELSE @]
Result(m, val) == [mem |-> m, val |-> val]

Base(m, f) == m.fp[f].base
End(m, f) == m.fp[f].base + m.fp[f].size
\* addr_in_fpage()
Within(m, addr, f, inclusive) ==
    addr >= Base(m, f) /\ (addr < End(m, f) \/ (inclusive /\ addr = End(m, f)))

Before(c, k) == SubSeq(c, 1, k - 1)
From(c, k) == SubSeq(c, k, Len(c))
FirstOf(set) == CHOOSE k \in set : \A j \in set : k <= j
LastOf(set) == CHOOSE k \in set : \A j \in set : j <= k

\* Where the links lead from f on.
Follow(links, f) == IF f = NULL THEN NULL ELSE links[f]
Trail(links, f) == LET s[k \in 0 .. MaxFpages] == IF k = 0 THEN f ELSE Follow(links, s[k - 1]) IN s

-----------------------------------------------------------------------------
(* Tiling *)

\* mempool_align() in a pool that has fpages
Aligned(a) == ((a + Smallest - 1) \div Smallest) * Smallest

Power == LET p[k \in 0 .. Top] == IF k = 0 THEN 1 ELSE 2 * p[k - 1] IN p
PowersOf2 == {Power[k] : k \in 0 .. Top} \cap 1 .. Top

\* 1 << fp_addr_log2(a): the lowest bit of a, and of 0 a bit above all others.
LowestBit(a) ==
    IF a = 0 THEN 2 * Top
    ELSE LastOf({p \in PowersOf2 : a % p = 0})

\* The size of the first fpage for n bytes at b.
Tile(b, n) == IF LowestBit(b) > n THEN LowestBit(n) ELSE LowestBit(b)

-----------------------------------------------------------------------------
(* fpage_table and the lists.                                              *)

\* create_fpage(), and the allocation in map_fpage()
Create(m, fpage) ==
    LET free == Slots \ m.used
        f == FirstOf(free)
    IN  IF free = {} THEN Result(Faulty(m, "full"), NULL)
        ELSE Result([m EXCEPT !.used = @ \cup {f}, !.fp[f] = fpage,
                              !.mapNext[f] = f, !.mpuNext[f] = NULL], f)

\* create_fpage_chain(): n bytes from b on; val is the sequence of fpages.
CreateNext(s, always) ==
    LET tile == Tile(s.b, s.n)
        new == Create(s.mem, [base |-> s.b, size |-> tile, always |-> always, clone |-> FALSE])
    IN  IF s.n = 0 \/ s.mem.fault # "none" THEN s
        ELSE IF new.val = NULL THEN [s EXCEPT !.mem = new.mem]
        ELSE [mem |-> new.mem, val |-> Append(s.val, new.val), b |-> s.b + tile, n |-> s.n - tile]
CreateChain(m, b, n, always) ==
    LET s[k \in 0 .. n] == IF k = 0 THEN [mem |-> m, val |-> <<>>, b |-> b, n |-> n]
                           ELSE CreateNext(s[k - 1], always)
    IN  IF n < 0 THEN Result(Faulty(m, "full"), <<>>)     \* size_t
        ELSE Result(s[n].mem, s[n].val)

\* Mutant: a chain is put behind the first fpage that is not above it.
InsertedEarly(m, c, new) ==
    LET l == Base(m, new[Len(new)])
        k == IF c = <<>> \/ l < Base(m, c[1]) THEN 1 ELSE 2
    IN  Before(c, k) \o new \o From(c, k)
\* insert_fpage_chain_to_as()
Inserted(m, c, new) ==
    LET l == Base(m, new[Len(new)])
        above == {j \in DOMAIN c : l < Base(m, c[j])}
        k == IF above = {} THEN Len(c) + 1 ELSE FirstOf(above)
    IN  Before(c, k) \o new \o From(c, k)

\* remove_fpage_from_list(), of the two lists of a space.  The walk reads `end'
\* before it is set; behind the end of a list it goes through NULL.
RemoveAs(m, a, f, chance) ==
    LET c == m.chain[a]
        k == {j \in DOMAIN c : c[j] = f}
    IN  IF k = {} THEN Faulty(m, "unlisted")
        ELSE IF k # {1} /\ chance THEN Faulty(m, "uninitialised")
        ELSE [m EXCEPT !.chain[a] = Before(c, FirstOf(k)) \o From(c, FirstOf(k) + 1)]

RemoveMpu(m, a, f, chance) ==
    LET s == Trail(m.mpuNext, m.mpuFirst[a])
        before == {k \in 0 .. MaxFpages : s[k] # NULL /\ m.mpuNext[s[k]] = f}
    IN  IF m.mpuFirst[a] = f THEN [m EXCEPT !.mpuFirst[a] = m.mpuNext[f]]
        ELSE IF m.mpuFirst[a] = NULL THEN Faulty(m, "unlisted")
        ELSE IF chance THEN Faulty(m, "uninitialised")
        ELSE IF before # {} THEN [m EXCEPT !.mpuNext[s[FirstOf(before)]] = m.mpuNext[f]]
        ELSE Faulty(m, IF s[MaxFpages] = NULL THEN "unlisted" ELSE "circular")

\* remove_fpage_from_as() and ktable_free()
Dropped(m, a, f, chance) ==
    LET gone == RemoveMpu(RemoveAs(m, a, f, chance), a, f, chance)
    IN  [gone EXCEPT !.used = @ \ {f}]

-----------------------------------------------------------------------------
(* assign_fpages_ext(): val is <<*pfirst, *plast>>.                        *)

\* mempool_search()
PoolsOf(base, size) == {n \in DOMAIN Pools : Pools[n].start <= base /\ Pools[n].end >= base + size}

Found(bounds, f, l) == <<IF bounds[1] = NULL THEN f ELSE bounds[1], l>>

HoleEnd(end, next) == IF end < next THEN end ELSE next

\* The fpages of new come into the chain in front of pos.
Filled(s, a, pos, new) ==
    LET c == s.mem.chain[a]
    IN  [s EXCEPT !.mem = [new.mem EXCEPT !.chain[a] = Before(c, pos) \o new.val \o From(c, pos)],
                  !.val = Found(@, new.val[1], new.val[Len(new.val)])]
\* mempool_align() gives INVALID_FPAGE_REGION in a pool without fpages.
Hole(s, base, end, pool) ==
    IF pool.fpages THEN CreateChain(s.mem, Aligned(base), Aligned(end - base), pool.always)
    ELSE Result(Faulty(s.mem, "region"), <<>>)

\* A turn of the loop over the chain; *fp is at s.pos.  A hole in front of it is
\* filled, and the loop goes on behind it.
AssignNext(s, a, end, pool) ==
    LET f == s.mem.chain[a][s.pos]
        new == Hole(s, s.base, HoleEnd(end, Base(s.mem, f)), pool)
        Past(u, n) == [u EXCEPT !.pos = @ + n, !.base = End(s.mem, f)]
    IN  IF s.mem.fault # "none" \/ s.base >= end \/ s.pos > Len(s.mem.chain[a]) THEN s
        ELSE IF s.base < Base(s.mem, f)
        THEN IF new.mem.fault # "none" THEN [s EXCEPT !.mem = new.mem]
             ELSE Past(Filled(s, a, s.pos, new), Len(new.val) + 1)
        ELSE IF s.base < End(s.mem, f) THEN Past([s EXCEPT !.val = Found(@, f, f)], 1)
        ELSE [s EXCEPT !.pos = @ + 1]

\* The part of the request behind all fpages.
Rest(s, a, end, pool) ==
    LET new == Hole(s, s.base, end, pool)
    IN  IF s.mem.fault # "none" \/ s.base >= end THEN s
        ELSE IF new.mem.fault # "none" THEN [s EXCEPT !.mem = new.mem]
        ELSE Filled(s, a, Len(s.mem.chain[a]) + 1, new)

AssignFpages(m, a, base, size) ==
    LET nothing == <<NULL, NULL>>
        pool == Pools[FirstOf(PoolsOf(base, size))]
        s[k \in 0 .. Len(m.chain[a])] ==
            IF k = 0 THEN [mem |-> m, val |-> nothing, pos |-> 1, base |-> base]
            ELSE AssignNext(s[k - 1], a, base + size, pool)
        Assigned(r) == Result(r.mem, r.val)
    IN  IF size <= 0 \/ PoolsOf(base, size) = {} THEN Result(m, nothing)
        ELSE Assigned(Rest(s[Len(m.chain[a])], a, base + size, pool))

-----------------------------------------------------------------------------
(* split_fpage(): val is an fpage or NULL.                                 *)

WithBoth(m, a, left, right) == [m EXCEPT !.chain[a] = Inserted(m, Inserted(m, @, left), right)]

\* Mutant: the wrong side of the split is given back.
InTwoSwapped(a, f, left, right, side, chance) ==
    LET out == Dropped(right.mem, a, f, chance)
    IN  IF right.mem.fault # "none" THEN Result(right.mem, NULL)
        ELSE IF out.fault # "none" THEN Result(out, NULL)
        ELSE Result(WithBoth(out, a, left.val, right.val),
                    IF side = "left" THEN right.val[1] ELSE left.val[Len(left.val)])

InTwo(a, f, left, right, side, chance) ==
    LET out == Dropped(right.mem, a, f, chance)
    IN  IF right.mem.fault # "none" THEN Result(right.mem, NULL)
        ELSE IF out.fault # "none" THEN Result(out, NULL)
        ELSE Result(WithBoth(out, a, left.val, right.val),
                    IF side = "left" THEN left.val[Len(left.val)] ELSE right.val[1])

SplitFpage(m, a, f, at, side, chance) ==
    LET split == Aligned(at)
        always == m.fp[f].always
        Left(left) == InTwo(a, f, left, CreateChain(left.mem, split, End(m, f) - split, always), side, chance)
    IN  IF split \in {Base(m, f), End(m, f)} THEN Result(m, f)
        ELSE IF m.mapNext[f] # f THEN Result(m, NULL)
        ELSE Left(CreateChain(m, Base(m, f), split - Base(m, f), always))

-----------------------------------------------------------------------------
(* Mapping.                                                                *)

\* The new fpage goes into the ring of those that are mapped to each other.
Linked(m, f, new) == [m EXCEPT !.mapNext[new] = m.mapNext[f], !.mapNext[f] = new]

Into(m, dst, f, new) ==
    IF new = NULL THEN m ELSE [Linked(m, f, new) EXCEPT !.chain[dst] = Inserted(m, @, <<new>>)]

\* map_fpage()
MapFpage(m, dst, f) ==
    LET new == Create(m, [m.fp[f] EXCEPT !.clone = TRUE, !.always = FALSE])
    IN  Into(new.mem, dst, f, new.val)

MapNext(m, dst, f) == IF m.fault # "none" THEN m ELSE MapFpage(m, dst, f)
MapList(m, dst, list) ==
    LET s[k \in 0 .. Len(list)] == IF k = 0 THEN m ELSE MapNext(s[k - 1], dst, list[k])
    IN  s[Len(list)]

\* Where a thread without privileges has the area: the fpages from the one that
\* holds base to the one that holds end, of which each but the last holds probe,
\* base and the sizes of those before it.
Probe(m, c, base, end) ==
    LET at == {k \in DOMAIN c : Within(m, base, c[k], FALSE)}
        ends == {k \in DOMAIN c : Within(m, end, c[k], TRUE)}
        first == FirstOf(at)
        final == FirstOf(ends)
        probe[k \in 0 .. Len(c)] == IF k <= first THEN base ELSE probe[k - 1] + m.fp[c[k - 1]].size
        sequential == first <= final /\ \A k \in first .. final - 1 : Within(m, probe[k], c[k], TRUE)
    IN  IF at # {} /\ ends # {} /\ sequential THEN <<c[first], c[final]>> ELSE <<NULL, NULL>>

PositionIn(c, f) == FirstOf({k \in DOMAIN c : c[k] = f})

\* Mutant: the fpage that was found first is split, and freed, twice.
AgainNot(m, a, f, end, to) == to
\* The fpage that holds end, from f on.
Again(m, a, f, end, to) ==
    LET c == From(m.chain[a], PositionIn(m.chain[a], f))
        k == {j \in DOMAIN c : Within(m, end, c[j], TRUE)}
    IN  IF k = {} THEN to ELSE c[FirstOf(k)]

\* All from f to what the last split gave are mapped.
Mapped(l, src, dst, f) ==
    LET c == l.mem.chain[src]
        list == SubSeq(c, PositionIn(c, f), PositionIn(c, l.val))
    IN  IF l.mem.fault # "none" \/ NULL \in {f, l.val} THEN Result(l.mem, FALSE)
        ELSE IF ~({f, l.val} \subseteq ToSet(c)) THEN Result(Faulty(l.mem, "freed"), FALSE)
        ELSE IF list = <<>> THEN Result(Faulty(l.mem, "null"), FALSE)
        ELSE Result(MapList(l.mem, dst, list), TRUE)

\* The rest of map_area(): first and last are split if they hold more than the
\* area, last also if first could not be, and all from the one to the other are
\* mapped.
MapBetween(m, src, dst, base, end, from, to, chance) ==
    LET Final(r) == SplitFpage(r.mem, src,
                               IF from = to /\ r.val # NULL THEN Again(r.mem, src, r.val, end, to) ELSE to,
                               end, "left", chance)
        ToLast(r) == IF r.mem.fault # "none" THEN Result(r.mem, FALSE)
                     ELSE Mapped(Final(r), src, dst, r.val)
    IN  ToLast(SplitFpage(m, src, from, base, "right", chance))

\* map_area(): val says whether it returns 0.
MapArea(m, src, dst, base, size, privileged, chance) ==
    LET Between(r) ==
            IF src = dst THEN Result(r.mem, TRUE)
            ELSE IF r.mem.fault # "none" \/ NULL \in {r.val[1], r.val[2]} THEN Result(r.mem, FALSE)
            ELSE MapBetween(r.mem, src, dst, base, base + size, r.val[1], r.val[2], chance)
    IN  Between(IF privileged THEN AssignFpages(m, src, base, size)
                ELSE Result(m, Probe(m, m.chain[src], base, base + size)))

\* unmap_fpage() of an fpage that was mapped to the space: where it is linked from
LinksTo(m, f) == LET s == Trail(m.mapNext, f) IN {k \in 0 .. MaxFpages - 1 : m.mapNext[s[k]] = f}

\* Mutant: it stays in the ring.
UnlinkedNot(m, prev, f) == m
Unlinked(m, prev, f) == [m EXCEPT !.mapNext[prev] = m.mapNext[f]]
UnmapFpage(m, a, f, chance) ==
    IF LinksTo(m, f) = {} THEN Faulty(m, "endless")
    ELSE Dropped(Unlinked(m, Trail(m.mapNext, f)[FirstOf(LinksTo(m, f))], f), a, f, chance)

-----------------------------------------------------------------------------
(* Address spaces.                                                         *)

\* as_create(): mpu_first keeps what it was; "assert as == NULL" is a comment only.
AsCreate(m) ==
    LET a == FirstOf(Spaces \ m.live)
    IN  IF Spaces \ m.live = {} THEN Result(Faulty(m, "spaces"), NULL)
        ELSE Result([m EXCEPT !.live = @ \cup {a}, !.chain[a] = <<>>, !.shared[a] = 0], a)

DestroyNext(m, a, f, chance) ==
    IF m.fault # "none" THEN m
    ELSE IF m.fp[f].clone THEN UnmapFpage(m, a, f, chance)
    ELSE [m EXCEPT !.used = @ \ {f}]
DestroyList(m, a, c, chance) ==
    LET s[k \in 0 .. Len(c)] == IF k = 0 THEN m ELSE DestroyNext(s[k - 1], a, c[k], chance)
    IN  s[Len(c)]

\* as_destroy()
AsDestroy(m, a, chance) ==
    IF m.shared[a] > 0 THEN [m EXCEPT !.shared[a] = @ - 1]
    ELSE [DestroyList(m, a, m.chain[a], chance) EXCEPT !.live = @ \ {a}]

-----------------------------------------------------------------------------
(* as_setup_mpu()                                                          *)

\* The fpages that hold the stack, as many as there are regions.
StackNext(m, s, f, end) ==
    IF Len(s.found) = MpuRegions \/ s.start >= end \/ ~Within(m, s.start, f, FALSE) THEN s
    ELSE [found |-> Append(s.found, f), start |-> End(m, f)]
StackFpages(m, c, start, end) ==
    LET s[k \in 0 .. Len(c)] ==
          IF k = 0 THEN [found |-> <<>>, start |-> start] ELSE StackNext(m, s[k - 1], c[k], end)
    IN  s[Len(c)].found

\* The fpages of the list are linked; behind the last one all stays as it is, or
\* the list ends there.
Link(m, list) ==
    LET at(f) == {k \in 1 .. Len(list) - 1 : list[k] = f}
    IN  [m EXCEPT !.mpuNext = [f \in Slots |-> IF at(f) = {} THEN m.mpuNext[f] ELSE list[LastOf(at(f)) + 1]]]
LinkLast(m, list) ==
    IF list = <<>> THEN m ELSE [Link(m, list) EXCEPT !.mpuNext[list[Len(list)]] = NULL]

\* The fpages of c that are in the set, in the order of c.
OnlyNext(s, f, set) == IF f \in set THEN Append(s, f) ELSE s
Only(c, set) ==
    LET s[k \in 0 .. Len(c)] == IF k = 0 THEN <<>> ELSE OnlyNext(s[k - 1], c[k], set)
    IN  s[Len(c)]

Listing(m, a, list, ends) ==
    [(IF ends THEN LinkLast(m, list) ELSE Link(m, list)) EXCEPT !.mpuFirst[a] = list[1]]

\* A space that was not switched to has no list yet: the fpage of the program
\* counter, those always mapped, and the others.
MakeList(m, a, pc) ==
    LET c == m.chain[a]
        at == {f \in ToSet(c) : Within(m, pc, f, FALSE)}
        always == {f \in ToSet(c) \ at : m.fp[f].always}
        others == Only(c, ToSet(c) \ (at \cup always))
        list == Only(c, at) \o Only(c, always) \o others
    IN  IF m.mpuFirst[a] # NULL \/ list = <<>> THEN m
        ELSE Listing(m, a, list, others = <<>>)

\* The list from mpu_first on, without those that hold the stack, as long as there
\* are regions; s.at is where it goes on.
OthersNext(m, s, on) ==
    IF s.at = NULL \/ Len(on) + Len(s.found) = MpuRegions THEN s
    ELSE [at |-> m.mpuNext[s.at], found |-> IF s.at \in ToSet(on) THEN s.found ELSE Append(s.found, s.at)]
Others(m, a, on) ==
    LET s[k \in 0 .. MpuRegions * MaxFpages] ==
          IF k = 0 THEN [at |-> m.mpuFirst[a], found |-> <<>>] ELSE OthersNext(m, s[k - 1], on)
    IN  s[MpuRegions * MaxFpages]

\* Those found are the list, those that hold the stack are another one.
Relinked(m, a, on, found) ==
    [Link(LinkLast(m, on), found) EXCEPT !.mpuFirst[a] = IF found = <<>> THEN NULL ELSE found[1]]

\* Mutant: the stack is not set up first.
SetupMpuList(m, a, pc, stack) ==
    LET Of(u) == Result(u, Others(u, a, <<>>).found)
    IN  Of(MakeList(m, a, pc))
\* val: the regions.  If the stack takes them all, mpu_first is read behind the
\* array of those found.
SetupMpu(m, a, pc, stack) ==
    LET on == StackFpages(m, m.chain[a], stack[1], stack[1] + stack[2])
        Ended(u, s) ==
            IF s.at # NULL /\ Len(on) + Len(s.found) # MpuRegions THEN Result(Faulty(u, "circular"), on)
            ELSE Result(Relinked(u, a, on, s.found), on \o s.found)
        Of(u) == IF Len(on) = MpuRegions THEN Result(Faulty(u, "uninitialised"), on)
                 ELSE Ended(u, Others(u, a, on))
    IN  Of(MakeList(m, a, pc))

-----------------------------------------------------------------------------
(* What threads do.                                                        *)

Op == mem.fault = "none" /\ ops < MaxOps /\ ops' = ops + 1
\* What is in the tables after a fault is left open.
Becomes(m) == mem' = IF m.fault = "none" THEN m ELSE [mem EXCEPT !.fault = m.fault]
Alive == {t \in Threads : of[t] # NULL}
Kips == 1 .. Len(Kip)
Privileged(t) == t = Root
Nothing == [what |-> "none", ok |-> TRUE, from |-> Root, space |-> NULL, regions |-> <<>>, area |-> <<0, 0>>]
\* What is left to be said of a call that created or removed a thread.
Called(m, what, from, space, area) ==
    IF m.fault = "none" THEN Nothing
    ELSE [Nothing EXCEPT !.what = what, !.from = from, !.space = space, !.area = area]

\* thread_space(), for sys_thread_control() of the caller
NewThread(caller, t, space, chance) ==
    /\ Op /\ caller \in Alive /\ t \notin Alive /\ space \in Alive \cup {t}
    /\ \E r \in {IF space = t THEN AsCreate(mem)
                 ELSE Result([mem EXCEPT !.shared[of[space]] = @ + 1], of[space])} :
        \E m \in {IF space = t THEN MapList(r.mem, r.val, [n \in Kips |-> n]) ELSE r.mem} :
            \E area \in {MapArea(m, of[caller], r.val, Utcb[t][1], Utcb[t][2], Privileged(caller), chance)} :
                /\ Becomes(area.mem) /\ of' = [of EXCEPT ![t] = r.val]
                /\ last' = Called(area.mem, "create", caller, r.val, Utcb[t])

\* thread_free_space()
Delete(t, chance) ==
    /\ Op /\ t \in Alive
    /\ \E m \in {AsDestroy(mem, of[t], chance)} :
        Becomes(m) /\ last' = Called(m, "remove", t, of[t], <<0, 0>>)
    /\ of' = [of EXCEPT ![t] = NULL]

\* do_ipc(): a map or grant item
Send(from, to, area, chance) ==
    /\ Op /\ from \in Alive /\ to \in Alive
    /\ \E r \in {MapArea(mem, of[from], of[to], area[1], area[2], Privileged(from), chance)} :
        /\ Becomes(r.mem)
        /\ last' = [Nothing EXCEPT !.what = "map", !.ok = r.val, !.from = from, !.space = of[to], !.area = area]
    /\ UNCHANGED of

\* thread_switch()
Switch(t, pc) ==
    /\ Op /\ t \in Alive
    /\ \E r \in {SetupMpu(mem, of[t], pc, Stack[t])} :
        /\ Becomes(r.mem)
        /\ last' = [Nothing EXCEPT !.what = "switch", !.space = of[t], !.regions = r.val, !.area = Stack[t]]
    /\ UNCHANGED of

\* thread_init_subsys() and create_root_thread()
KipFpages(m) ==
    LET s[n \in 0 .. Len(Kip)] == IF n = 0 THEN m ELSE CreateChain(s[n - 1], Kip[n][1], Kip[n][2], FALSE).mem
    IN  s[Len(Kip)]
Pooled(m, a, pool) == IF pool.user THEN AssignFpages(m, a, pool.start, pool.end - pool.start).mem ELSE m
MapUser(m, a) ==
    LET s[n \in 0 .. Len(Pools)] == IF n = 0 THEN m ELSE Pooled(s[n - 1], a, Pools[n])
    IN  s[Len(Pools)]
RootSpace == FirstOf(Spaces)
Empty ==
    [fp |-> [f \in Slots |-> [base |-> 0, size |-> 1, always |-> FALSE, clone |-> FALSE]], used |-> {},
     chain |-> [a \in Spaces |-> <<>>], mapNext |-> [f \in Slots |-> f], mpuNext |-> [f \in Slots |-> NULL],
     mpuFirst |-> [a \in Spaces |-> NULL], shared |-> [a \in Spaces |-> 0], live |-> {}, fault |-> "none"]
Booted ==
    LET Rooted(r) == MapList(r.mem, r.val, [n \in Kips |-> n])
        WithUtcb(m) == AssignFpages(m, RootSpace, Utcb[Root][1], Utcb[Root][2]).mem
    IN  MapUser(WithUtcb(Rooted(AsCreate(KipFpages(Empty)))), RootSpace)

\* The board is configured for the kernel: the fpages are enough for booting, and
\* the KIP is aligned ("last is ignored, because kip fpages is aligned").
ASSUME BootAssumption ==
    /\ Booted.fault = "none"
    /\ \A n \in DOMAIN Kip : Kip[n][2] \in 1 .. Top /\ Tile(Kip[n][1], Kip[n][2]) = Kip[n][2]

Init ==
    /\ mem = Booted
    /\ of = [t \in Threads |-> IF t = Root THEN RootSpace ELSE NULL]
    /\ last = Nothing /\ ops = 0

Next ==
    \/ \E chance \in BOOLEAN :
        \/ \E caller \in Threads, t \in Users, space \in Threads : NewThread(caller, t, space, chance)
        \/ \E t \in Users : Delete(t, chance)
        \/ \E from, to \in Threads, area \in Areas : Send(from, to, area, chance)
    \/ \E t \in Threads, pc \in Codes : Switch(t, pc)

Spec == Init /\ [][Next]_vars

-----------------------------------------------------------------------------
(* Correctness, as long as nothing undefined was done.                     *)

Fine == mem.fault = "none"
Bytes(m, a) == UNION {Base(m, f) .. End(m, f) - 1 : f \in ToSet(m.chain[a])}

\* "Address space (as_t) - sorted list of fpages": by their bases, and those
\* that were not mapped from elsewhere do not overlap.
ChainSorted ==
    \A a \in mem.live :
        LET c == mem.chain[a]
        IN  \A j, k \in DOMAIN c :
                j < k => IF mem.fp[c[j]].clone \/ mem.fp[c[k]].clone THEN Base(mem, c[j]) <= Base(mem, c[k])
                         ELSE End(mem, c[j]) <= Base(mem, c[k])
\* All fpages are regions the MPU can hold.
MpuShaped == \A f \in mem.used : mem.fp[f].size \in PowersOf2 /\ Base(mem, f) % mem.fp[f].size = 0

\* The board and the areas are laid out in multiples of the smallest fpage.
\* Nothing in the code asks for it: for an area that begins elsewhere
\* assign_fpages_ext() rounds base and size up and can overlap what comes next.
Multiple(n) == n % Smallest = 0
Regular ==
    /\ Smallest \in PowersOf2
    /\ \A n \in DOMAIN Pools : Multiple(Pools[n].start)
    /\ \A t \in Threads : Multiple(Utcb[t][1])
    /\ \A area \in Areas : Multiple(area[1])
    /\ \A n \in Kips : Multiple(Kip[n][1]) /\ Multiple(Kip[n][2]) /\ Kip[n][1] + Kip[n][2] <= Top
    /\ \A j, k \in Kips : j < k => Kip[j][1] + Kip[j][2] <= Kip[k][1] \/ Kip[k][1] + Kip[k][2] <= Kip[j][1]

\* Spaces are sorted lists of MPU regions, whatever holes were filled, fpages
\* split, mapped and unmapped (insert_fpage_chain_to_as(),
\* create_fpage_chain()).
WellFormed == TypeOK /\ ChainSorted /\ MpuShaped

\* The slots in use are those in the spaces and those of the KIP, no fpage is
\* in two places, a space is there as long as a thread uses it.
SlotsExact ==
    /\ mem.used = Kips \cup UNION {ToSet(mem.chain[a]) : a \in mem.live}
    /\ \A a, b \in mem.live : \A j \in DOMAIN mem.chain[a], k \in DOMAIN mem.chain[b] :
           mem.chain[a][j] \notin Kips /\ (mem.chain[a][j] = mem.chain[b][k] => a = b /\ j = k)
    /\ Fine => mem.live = {of[t] : t \in Alive}
    /\ Fine => \A a \in mem.live : mem.shared[a] + 1 = Cardinality({t \in Threads : of[t] = a})

\* The fpages mapped to each other form a ring: one that was assigned, and its
\* maps, all of the same memory.  Every fpage is in a ring.
Behind(f) == LET s == Trail(mem.mapNext, mem.mapNext[f]) IN {s[k] : k \in 0 .. MaxFpages}
RingsWhole ==
    LET ring == [f \in {f \in mem.used : ~mem.fp[f].clone} |-> Behind(f)]
    IN  /\ mem.used = UNION {ring[f] : f \in DOMAIN ring}
        /\ \A f \in DOMAIN ring :
               /\ f \in ring[f]
               /\ \A g \in ring[f] \ {f} : mem.fp[g].clone /\ Base(mem, g) = Base(mem, f) /\ End(mem, g) = End(mem, f)

\* Nothing of fpage_table and as_table is lost or used twice by mapping,
\* splitting and the end of threads, in the order of whatever calls; and no walk
\* around a ring goes on for ever.
Accounted == SlotsExact /\ RingsWhole /\ mem.fault # "endless"

\* What is switched to has its stack in the MPU, as far as there are regions,
\* and only fpages of its space, each once; and no walk along the lists of the MPU
\* goes on for ever.
SwitchFits ==
    LET regions == ToSet(last.regions)
        stack == last.area[1] .. last.area[1] + last.area[2] - 1
    IN  /\ mem.fault # "circular"
        /\ Fine /\ last.what = "switch" =>
               /\ regions \subseteq ToSet(mem.chain[last.space])
               /\ Cardinality(regions) = Len(last.regions)
               /\ stack \subseteq Bytes(mem, last.space) =>
                      stack \subseteq UNION {Base(mem, f) .. End(mem, f) - 1 : f \in regions}

Mapping == last'.what = "map" /\ mem'.fault = "none"
LastArea == last.area[1] .. Aligned(last.area[1] + last.area[2]) - 1

\* A map of an area that its space has, as the root thread's always has, gives
\* the area, rounded up, and nothing else; one that fails gives nothing.  However
\* fpages are split for it, and whether map_area() then succeeds or not, the space
\* that maps keeps all it had, and only the root thread's gets more, of the area.
\* Of an area with a hole before its last fpage, which "probe checks that addresses
\* in fpage are sequental" (memory.c:400) does not notice, it gives what there is,
\* and from the end of the area on at most the fpage that begins there.
MapGives ==
    [][Mapping =>
          LET source == of[last'.from]
              had == Bytes(mem, last'.space)
              has == Bytes(mem', last'.space)
              there == LastArea' \cap Bytes(mem', source)
              next == {f \in ToSet(mem'.chain[source]) : Base(mem', f) - 1 \in LastArea'}
              behind == UNION {Base(mem', f) .. End(mem', f) - 1 : f \in next}
          IN  /\ source # last'.space =>
                    /\ ~last'.ok => has = had
                    /\ last'.ok => had \cup there \subseteq has
                    /\ last'.ok /\ there = LastArea' => has = had \cup there
                    /\ last'.ok /\ there # LastArea' => has \subseteq had \cup there \cup behind
                    /\ last'.ok /\ Privileged(last'.from) => there = LastArea'
              /\ Bytes(mem, source) \subseteq Bytes(mem', source)
              /\ Bytes(mem', source) \subseteq
                    Bytes(mem, source) \cup (IF Privileged(last'.from) THEN LastArea' ELSE {})]_vars

\* The fpages on the MPU list of a space.
OnMpu(a) == LET s == Trail(mem.mpuNext, mem.mpuFirst[a]) IN {s[k] : k \in 0 .. MaxFpages}

\* Whatever the code does that C leaves undefined is one of these things.  A map
\* walks on from a freed fpage only if its area begins with an fpage and ends inside
\* it (memory.c:454); an fpage is taken off a list it is not on only where the MPU
\* list of its space misses one (fpage.c:29); the list of regions is read beyond its
\* end only for a stack that takes them all (memory.c:258), or `end', which is never
\* set, is by chance not 0 (fpage.c:22); fpages are asked for in a pool that has none
\* (memory.c:119); the table of spaces runs full (memory.c:329) only if it has fewer
\* slots than there are threads, and the one of fpages only by as many as are in use
\* and the operation can need.
FaultsNamed ==
    [][LET why == mem'.fault
           what == last'.what
           source == IF what = "remove" THEN last'.space ELSE of[last'.from]
           base == last'.area[1]
           end == Aligned(base + last'.area[2])
           Holds(f) == Base(mem, f) = base /\ end < End(mem, f)
       IN  Fine /\ why # "none" =>
              /\ why \notin {"null", "endless", "circular"}
              /\ why = "full" => Cardinality(mem.used) + Len(mem.chain[source]) + (end - base) \div Smallest > MaxFpages
              /\ why = "freed" => what \in {"create", "map"} /\ \E f \in ToSet(mem.chain[source]) : Holds(f)
              /\ why = "unlisted" => ~(ToSet(mem.chain[source]) \subseteq OnMpu(source))
              /\ why = "region" => \E n \in PoolsOf(base, end - base) : ~Pools[n].fpages
              /\ why = "spaces" => Cardinality(Spaces) < Cardinality(Threads)
              /\ why = "uninitialised" /\ what = "switch" =>
                    Len(StackFpages(mem, mem.chain[last'.space], base, base + last'.area[2])) = MpuRegions]_vars

\* A map gives what it should, whatever it splits, and where an operation runs into
\* what C leaves undefined it is for a reason that is named.
CallsExact == MapGives /\ FaultsNamed
=============================================================================
