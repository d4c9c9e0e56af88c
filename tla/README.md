# Formal models of arch_sdk: the F9 kernel and its Kconfig

The repository is an SDK around one program: the F9 microkernel for ARM Cortex-M
(`kernel/F9`), an L4-style kernel with threads, synchronous IPC, address spaces
built from flexpages, a kernel timer, softirqs, user-level interrupt handlers,
kernel probes and a sampling debugger. What is built into it is decided by the
second program of the repository, the Kconfig system (`scripts/kconfig`): it reads
descriptions of options, works out which may be set, lets a user set them, and
writes the files a build depends on. The models are about both.

No header of the kernel is in the repository (`include/` holds a readme only):
the values of enums, the macros (`GLOBALID_TO_TID`, `IRQ_HANDLER`, ...) and the
structs are modelled from how the C files use them.

## 1. The system: components, state, operations, hard behaviours

| Component | State | Operations | What is hard | Correct when |
|---|---|---|---|---|
| Kernel loop (`syscall.c`, `softirq.c`, `systhread.c`, `sched.c`) | softirq flags, kernel thread state, scheduler slots, `current`, `caller` | SVC entry, timer interrupt, `softirq_execute`, `schedule_select`, `kernel_thread` | interrupts at every point of `softirq_execute` | no raised softirq is stranded or forgotten; a trapped thread is served before anybody runs |
| IPC (`ipc.c`) | thread states, `ipc_from`, `intended_receiver`, `timeout_event` | `sys_ipc` and its branches, `do_ipc`, `ipc_timeout`, `ipc_deliver` | send-then-receive calls, late timeouts, polling delivery | a wait ends by its partner or its own timeout; matched partners meet |
| Kernel timer (`ktimer.c`) | event queue of relative deltas, `ktimer_delta`, `ktimer_time`, `ktimer_enabled` | `ktimer_event_create/schedule`, tick interrupt, `ktimer_event_handler`, tickless idle | relative deltas, unsigned arithmetic, early events while the timer runs, ticks while an event is placed and before the softirq's flag is reset | an event fires once, when it is due, and is freed once; the timer does not stop while events wait |
| Threads (`thread.c`) | `thread_map` (sorted), thread table, parent/child/sibling tree | `thread_create/destroy`, `thread_by_globalid`, `thread_select` | binary search with a half-open upper end, relinking on destroy | map sorted and complete, lookup finds exactly the live threads, tree rooted at root |
| User interrupts (`interrupt.c`) | `user_irqs[]`, intrusive queue, handler threads | configure, interrupt, queue push/pop/delete, `irq_handler_sched` | ISR against handler thread, queue tail upkeep, handler not waiting | each enabled interrupt wakes its thread once; queue is a FIFO of distinct entries |
| Memory (`memory.c`, `fpage.c`) | memory pools, address spaces, fpage chains, rings of maps, MPU lists | `as_create/destroy`, `map_area`, `assign_fpages_ext`, `split_fpage`, `map/unmap_fpage`, `as_setup_mpu` | tiling an arbitrary range by aligned powers of two, sharing between spaces, holes, splits while a list is walked, full tables | chains sorted and disjoint; slots and rings exact; the stack of who runs is in the MPU; undefined only where it is said |
| Kernel probes (`kprobes.c`) | list of probes, breakpoints | register, unregister, break and step handlers | a handler that edits the list being walked; a break between the list and the breakpoint | every enabled probe fires once per hit, and no break repeats |
| Symbols and sampling (`sampling.c`, `sampling-kdb.c`, `ksym.c`, `lib/sort.c`, `lib/bsearch.c`) | ring of samples, hit counts, the index found last | a probe that samples, the command that sorts, looks up and counts | the timer goes on sampling; a search that starts where the last ended | each sample is counted once, for its symbol |
| Tables (`lib/ktable.c`, `lib/queue.c`) | bitmap of used slots; ring | alloc/free | | no slot given twice |
| Kconfig expressions (`expr.c`) | trees | transform, eliminate, compare, print | rules that hold for two values of three, applied until nothing changes | an option depends on what was written |
| Kconfig menus (`zconf.y`, `menu.c`) | tree of entries, properties, dependencies | the grammar's blocks, `menu_finalize()`, `sym_check_deps()` | relinking while conditions are rewritten; cycles through selects, defaults, choices | no entry lost or out of reach; every cycle reported |
| Kconfig values (`symbol.c`) | values, visibility, flags of all symbols | `sym_calc_value()`, setters | values calculated on demand and kept, flags as side effects | values are what the user's settings give |
| Kconfig files (`confdata.c`) | `.config`, minimal configuration, `auto.conf`, `autoconf.h`, `include/config` | read, write, split | crashes between renames, time stamps, symbols that vanish | a saved configuration comes back; nothing stale is linked |
| Kconfig front ends (`mconf.c`, `nconf.c`, `conf.c`) | open menus, items on the screen; questions still to ask | keys, questions, load, save, leave | screen against values, loops over new symbols | what is shown is true; conf asks for all that is new, and ends |
| Boot, debug console, logs, primitives, window front ends, scanner | | | | see section 6 |

How they interact: a user thread traps by SVC; the SVC handler stores it in the
global `caller`, raises the SYSCALL softirq and makes the kernel thread runnable.
The scheduler prefers the kernel thread, which runs `softirq_execute`: the KTE
softirq runs the event queue of the kernel timer (IPC timeouts and the periodic
`ipc_deliver`), the SYSCALL softirq runs `syscall_handler` on `caller` (thread
control or IPC). IPC and interrupts dispatch threads in the scheduler's slots.
Interrupt handlers run at any moment, except between `irq_disable` and
`irq_enable`, and end with a call of the scheduler.

The Kconfig programs share one core: the parser builds the tree of entries
(`menu.c`) from expressions (`expr.c`), values are calculated from it (`symbol.c`),
files are read and written from the values (`confdata.c`), and `mconf`, `nconf` and
`conf` are three users of these calls. make starts `conf`, and decides by the time
stamps of what it left which objects to compile again.

What makes each hard to test is listed line by line under `hazards` in
`PROJECT.json`, with the properties that cover it.

## 2. Modules

| Module | Models | Uses |
|---|---|---|
| `Sched` | `schedule_select()` and the slots of `sched.c`, as operators | |
| `KernelLoop` | SVC, timer interrupt, `softirq_execute()`, the kernel thread | `Sched`; implements `SyscallService` |
| `SyscallService` | abstract: a system call is a procedure call | |
| `KernelLoopProofs` | theorems about `KernelLoop` | TLAPS |
| `IPC` (`MCIPC` for TLC) | `sys_ipc()`, `do_ipc()`, `ipc_timeout()`, `ipc_deliver()` | implements `Rendezvous` |
| `Rendezvous` | abstract: synchronous messages with timeouts | |
| `IPCProofs` | theorems about `IPC` | TLAPS |
| `KTimer` | the event queue, the counter, the tick interrupt, the KTE handler | |
| `ThreadMap` | the sorted array of threads and its binary search, step by step | |
| `Threads` | the thread tree and `thread_select()`, on top of the map | `ThreadMap` |
| `Interrupt` | user interrupts: configuration, interrupt handler, queue, slot handler | implements `IrqFifo` |
| `IrqFifo` | abstract: a FIFO of masked interrupts | |
| `Chains` | lemmas about numbers, ranks, and lists linked by an array | TLAPS |
| `InterruptProofs` | theorems about `Interrupt` | `Chains`, TLAPS |
| `ThreadsProofs` | theorems about `ThreadMap` and `Threads` | `Chains`, TLAPS |
| `KTimerProofs` | theorems about `KTimer` | `Chains`, TLAPS |
| `Memory` (`MCMemory`) | flexpages, address spaces, maps, MPU, with the threads that use them | |
| `MemoryProofs` | theorems about `Memory` | `Chains`, TLAPS |
| `KProbes` | the list of probes, breakpoints, the debug monitor | |
| `Sampling` (`MCSampling`) | the sampler, the debugger's command, sort, search, symbol look-up | `KProbes` |
| `SamplingProofs` | theorems about `KProbes` and `Sampling` | `Sampling`, `Chains` |
| `ConfigExpr` | expressions and the rules that rewrite them, as operators | |
| `ConfigRewrite` (`MCConfigRewrite`) | what happens to the dependency of one property, step by step | `ConfigExpr` |
| `ConfigTree` | entries, properties, `menu_finalize()`, as operators | `ConfigExpr` |
| `ConfigMenu` (`MCConfigMenu`) | reading a configuration: blocks, finalizing, the check for cycles | `ConfigTree` |
| `ConfigSymbol` | the calculation of values, setters, choices | `ConfigTree` |
| `ConfigData` | visibility of menus; reading, writing, minimal files, automatic settings | `ConfigSymbol` |
| `ConfigScreen` (`MCConfigScreen`) | `mconf` and `nconf` | `ConfigData` |
| `ConfigBuild` (`MCConfigBuild`) | `conf`, the files of a build, crashes, make | `ConfigData` |
| `MCConfigPrograms` | small configurations, finalized by `ConfigTree` | `ConfigData` |

### How the models correspond to the code

Every definition that models code has an entry in the `map` of `PROJECT.json`
with the lines it stands for; the names are the source's where TLA+ allows it.
Pointers are indices or model values, and 0 or a model value is NULL. An
allocation from a ktable is the choice of its first free slot.

The grain of atomicity follows the code. Interrupt handlers are one action: they
cannot be interrupted by one another in what they share, and they end with
`schedule_select()` and a switch, which are part of that action. Between two
actions of the kernel thread any interrupt may come, so what the kernel thread
does with interrupts enabled is split where an interrupt matters:

- `KernelLoop`: the variable `kpc` is the place of the kernel thread in its loop
  (the scan of the softirq table, a handler, the reset of its flag, the last test
  and the SVC that gives the processor back). `softirq[i].schedule` is `sched`,
  the slots of the scheduler are `slots`. Two variables are not in the code:
  `owed`, the requests no handler has taken up yet, and `late`, which records that
  an interrupt raised a softirq between the return of its handler and the reset of
  the flag. Nothing in a guard depends on them. The softirq handlers are
  abstracted to what they may do to thread states and to the timer.
- `IPC`: a system call is one action, because `KernelLoopProofs` shows that no
  thread but the kernel's runs from the trap to the end of the service. The loop
  of `ipc_deliver()` takes one action per thread. A pending event may expire at
  any moment, so every order of timeouts, calls and deliveries is covered.
- `KTimer`: the tick interrupt is one action, the loop of
  `ktimer_event_handler()` takes one action per event, its end (`HandlerEnd`, where the
  counter is started) and the reset of the flag in `softirq_execute()` (`Clear`) are
  one each, and ticks fall between all of them. `ktimer_event_schedule()` is two: it
  reads the counter in the call (`Create`, or `HandlerStep` where the event is scheduled
  again; `Read`), and links the event and starts the counter in `Schedule`. A tick touches
  the counter only, so that where else it comes inside does not matter. `late` is not
  in the code: it records that the counter expired while an event was being placed, or
  between the end of the handler and the reset of its flag. Ticks and deltas are
  unsigned words: `Word` stands for 2^32 and all subtractions wrap.
- `ThreadMap` and `Threads`: `thread_map_search()` and `thread_select()` take one
  action per loop iteration, the shifts of the array one assignment. What is
  freed keeps its contents, because look-ups can read it.
- `Interrupt`: an interrupt, a system call and the selection of a thread are one
  action each; the queue is the code's intrusive list (`head`, `tail`, `next` of
  each entry), not a sequence.
- `Memory`: only the kernel thread touches these tables, with no interrupt handler
  in between, so an operation (a thread created or removed, a map item, a switch)
  is one action that makes all the calls the code makes. `as_next` is a sequence;
  the lists of maps and of the MPU stay pointers, as they may run into each other.
  What C leaves undefined (a step through NULL, also the one of `as_create()` with
  `as_table` full; a freed fpage; a full `fpage_table`; fpages in a pool that has none,
  where `mempool_align()` returns an error that nobody looks at; a walk that does not
  end; an uninitialised `end` that is not 0) sets `mem.fault`, to what it is, and ends
  the behaviour. `last` is not in the code: it holds what an operation was asked and
  answered, for `MapGives` and `FaultsNamed`. A loop of the code is a function on the
  numbers of its turns.
- `KProbes`: the list and the breakpoint of a probe change in two actions, with
  breaks between them; a break with all the handlers it calls is one action, and
  the list is walked pointer by pointer because handlers change it.
- `Sampling`: the probe's handler runs in the break; the command is split where
  `sampling_enable()` is called. `sort()`, `bsearch()` and `ksym_lookup()` are
  functions of arrays. With more than `MAX_KSYM` symbols `sampling_init()` gives up,
  the debugger goes on, and the next command leaves its arrays (`kdb` is "overrun",
  the end of the behaviour).
- `Config...`: a symbol's value is calculated on demand and leaves flags on others,
  so every C function that may calculate is an operator from the fields of all
  symbols (`st`) to the fields and a result. A string is a number, a file a sequence
  of lines. In `ConfigScreen` the calls of `conf()`, `conf_choice()` and
  `conf_string()` that have not returned are a stack, `Draw` builds the items,
  and a key is an action. In `ConfigBuild` a run of `conf` is a list of tasks; the
  process may be killed between any two, and each rename and each touched file is
  a task of its own. The minimal configuration is opened in place: it is empty from one
  task to the next.

External definitions (marked so in the map) stand for what the missing headers
hold and are modelled from their uses.

### Composition

The modules meet at the following seams, each of which one module assumes and
another shows:

- `IPC` takes a system call as one step: theorem `ImplementsServiceSteps` and
  run `kernel_loop`.
- `IPC` does not take `ipc_deliver()` to be called again, nor armed timeouts to be
  handled: its liveness has these as conditions (`PartnersMeet`, `TimedWaitEnds`).
  `Fires` of `KTimer` says when they are met: as long as no expiry was noticed too
  late, and no unending supply of early events comes.
- `KTimer` lets system calls create events only between two runs of the timer's
  handler: in `KernelLoop` the kernel thread serves no call in the middle of one.
- `KTimer` and `KernelLoop` both have the window between the return of a handler and
  the reset of its flag; the one looks at what it does to the queue and the counter,
  the other at all the softirqs and the threads.
- `KernelLoop` leaves out the slot INTR_THREAD and `Interrupt` leaves open which
  other thread runs; both use the order of slots in `Sched`.
- `Sampling` puts its probe on the list of `KProbes`, with the others.
- `ConfigScreen` and `ConfigBuild` run on what `ConfigTree` finalizes, by the values
  of `ConfigSymbol` and the files of `ConfigData`.

## 3. Runs

State counts are those of a complete search.

| Run | Instance | Distinct states | Question |
|---|---|---|---|
| `kernel_loop` | root, two users | 19 651 | do the flags, states and the scheduler strand a softirq or let a thread run too early; is a system call a procedure call |
| `kernel_loop_lost_softirq` | the same | violation | is every raised softirq served |
| `ipc` | three threads, one started by its pager, one event slot | 44 216 | do late timeouts hit other waits; is IPC a rendezvous; do matched partners meet and armed waits end |
| `ktimer` | three events, requests of 1, 2, 3, 7 ticks against a period of 4 | 152 076 | is the queue exact while it is relinked; is each event where the code reckons it; how may the timer stop; does every event fire otherwise |
| `threads` | four slots, four ids, root in the middle of the ids | 411 308 | map, tree and walks |
| `interrupt` | two irqs, two threads, disciplined | 82 158 | are interrupts queued once, in order, and answered |
| `memory` | 22 bytes, smallest fpage 2, four pools, three threads, three MPU regions, five operations | 146 189 | do spaces, fpages, maps and MPU lists stay consistent; what does a map give; where does the code run into what C leaves undefined |
| `sampling` | three probes in one place, one of them a return probe, three samples, five symbols, thirteen steps | 261 961 | is the list of probes whole, no probe missed, each sample counted |
| `config_rewrite` | dependencies of up to three operands over three symbols | 31 512 | does rewriting keep what a dependency is worth |
| `config_menu` | all files of three entries with two conditions, defaults included | 128 193 | is the tree whole, are dependencies propagated, cycles reported |
| `config_screen` | two sessions of mconf and two of nconf on four configurations, names of no file entered | 125 636 | are values, screen and files true to the user's settings |
| `config_build` | two runs of conf in ten modes, two changes between them | 126 503 | does the configuration survive crashes, is what is compiled fresh, does conf end |

A property of a run may be the conjunction of several named ones, all of which the
run checks: `SoftirqsGoFirst`, `WaitsEnd`, `InsertExact`, `Fires`, `MapSound`, `TreeExact`,
`SelectExact`, `QueueSound`, `WellFormed`, `Accounted`, `CallsExact`, `ValueKept`, `TestsSound`,
`TreeSound`, `ValuesTrue`, `ScreenTrue`, `FileTrue`, `BuildTrue`, `AsksAndEnds`.
Most of these have several mutants, of different parts.

Why the bounds are enough:

- `KernelLoop` has no bound: the state space is finite for given threads. Two users
  and root give a caller, a second thread that may trap and one that is blocked.
- `IPC`: three threads are the least with a partner and a third that interferes
  (a stale timeout needs a waiting thread, its partner and a thread that takes the
  freed slot; a wrong meeting needs two senders). The one event slot is freed and
  used again by other threads, and its allocation fails while it is taken. Two
  threads with armed timeouts at once need two slots: the safety properties are
  proved for any number, the liveness is beyond the time of a run there. Only thread 2
  sleeps with a timeout and only thread 3 has a pager: with a pager that writes to a
  timed sleeper the properties are false (section 4).
- `KTimer`: `MaxCalls` bounds the timeouts of a behaviour and `MaxLag` the ticks
  from an expiry to the end of its handling and in the placing of an event, which is the
  assumption that the kernel thread is not starved for ever by ticks. With two of them a
  counter that an early event has restarted expires again before the handler ends. The requests are chosen below,
  at and above `MinTicks`, before, at and behind the period, so that an event
  lands first, in the middle, last, and on another one. `Word` = 64 is more than
  four times the largest request, as 2^32 is.
- `Threads`: with four slots the map is full and the tree has a thread with two
  children one of which has a child; root's id is not the smallest, so that entries
  lie on both sides of it. Larger maps are covered by the proofs.
- `Interrupt`: two irqs make a queue with a head that is not its tail; two threads
  allow one thread per irq or both irqs for one.
- `Memory`: a space of its own, a space shared with the creator, and a map between
  two spaces take four operations, the fifth is a switch, an unmap by removal or a
  second map over the first. The areas mapped begin and end inside fpages, so both
  splits of `map_area()` happen, and one is not a multiple of the smallest fpage.
  With three regions the MPU is full, and stack and text compete for it. 16 slots
  of fpages are enough for most sequences of five operations, and full for some. There
  is a space for each thread, so that maps can go from one user's space to another's;
  that `as_table` is full is the fault "spaces", which such a run must not reach
  (`FaultsNamed`: removed threads give their spaces back).
- `Sampling`: thirteen steps hold two commands with samples before, between and
  while they run, and probes that come and go. Three breakpoints let all
  three probes be on the list at once, which deleting one in the middle needs; fewer, with
  which registering fails, are left to the proofs, which hold for any number. `Codes` has an
  address in the first symbol, between, and in the last two.
- `ConfigRewrite`: three operands are the depth at which two rules meet (a pair to
  be joined inside a pair); of the symbols two are tristate, one boolean.
- `ConfigMenu`: three entries make a submenu, a menu in a menu and a choice with two
  values; two conditions are a dependency and a `visible if`, select, default or a second
  dependency, which is enough for cycles of three. What a default may give is
  the constant `Defaults`, one symbol, through which a cycle can go. That
  boolean values of a tristate choice get one dependency more (`menu.c:398`) is modelled,
  but the choice of the run is boolean.
- `ConfigScreen`: the configurations have a select against a dependency, a choice
  whose value depends on a symbol, a tristate choice of tristate values, and ranges
  that depend on a symbol. `MaxDepth` is two open menus or boxes.
- `ConfigBuild`: between the two versions a symbol vanishes, a choice moves into a
  menu, and a number appears that an answer to a later question shows. Two runs are
  one that is killed and one that finds what it left. Ten of the twelve modes are
  run; `alldefconfig` and `allmodconfig` differ from two of them by one value.

`memory`, `sampling`, `config_screen` and `config_build` switch the deadlock check
off: after a fault, at the bound of steps, when the program has ended, and after
the last run nothing is left to do. Everywhere else some action is always enabled.
Every property of a passing run has a mutant in `PROJECT.json`, a changed operator
of the model that breaks it.

### Fairness

- `KernelLoop`, `Interrupt`: `WF(KernelStep)`. The kernel thread is in the first
  slot, so whenever it is runnable it is what `schedule_select()` returns, and no
  interrupt storm is assumed to take the processor for ever.
- `KTimer`: `WF(Tick)`, SysTick does not stop, and `WF(Schedule \/ Handler)` by the same
  argument as above. That the timer goes on is not assumed: `Fires` excuses the
  behaviours in which it stops because an expiry was noticed too late, and `TimerAlive`
  says which these are.
- `IPC`: `WF(DeliverStep)`, the loop of `ipc_deliver()` is code of one handler. That
  it is called again, or that an event is ever due, is not assumed, because the timer
  does not guarantee it; `WaitsEnd` excuses the behaviours where it is not. Threads
  themselves are not assumed to do anything.
- `ThreadMap`, `Threads`: weak fairness of the loops, which are code of one
  handler.
- `Answered` of `Interrupt` has a premise of its own: every thread comes back to
  wait for interrupts again and again. Nothing in the kernel makes a thread do so.
- `ConfigBuild`: `Running` is weak fairness of `Step`, written with `run = Idle` for
  "not enabled" (every task of a process that lives has a step): the program runs,
  and its user answers each question with one of the values it accepts.

### Assumptions that a run makes about user threads

The kernel trusts its threads in places. What is assumed is a constant or a guard
with a name: `Careful` (ids given to thread control name threads that do not exist
yet, or exist), no removal of oneself or of a thread one descends from (guard of
`RemoveBy` in `Threads`), `Disciplined` (a thread waits for its own irqs without
a timeout and without other partners), and `NoPagedSleeper` in `IPCProofs` (no pager starts a thread out of a
timed sleep, nor sends it a message there).

## 4. What the code does wrong

One defect is the subject of a `violation` run with a finding in `PROJECT.json`:
`softirq_execute()` resets the flag of a softirq after its handler returned. An
expiry in between is forgotten, and with it the timer, unless an early event starts it
again (`kernel_loop_lost_softirq`). Up to that moment nothing is lost: `RequestsKept`,
proved.

The others are behaviour of the models, met while stating properties, which are
weakened or guarded exactly there, and say so where they are defined. None has a run
of its own: they are what the properties name as exceptions.

In the kernel:

1. A send hands its message to any receiver, whoever that waits for (`ipc.c:231`,
   whose comment says "thread who is waiting for us").
2. Ticks asked for while the counter runs are taken less what it has gone
   (`ktimer.c:134`) but added up from its start (`ktimer.c:174`), so that an event is
   placed twice the elapsed time early, against the worked example of
   `ktimer.c:150-166` ("from now"); if more has gone than was asked for the difference
   wraps, and the event goes to the last of the queue (`InsertedWhereAsked` says where).
   An event before the first one of the queue does not restart the counter
   (`ktimer.c:197`), and after it the old first one is counted anew.
3. A look-up of an id above all others reads the entry behind the array, and may
   return a removed thread (`thread.c:363`).
4. An interrupt whose thread no longer waits for it makes the scheduler select a
   blocked thread, against the assertion of `thread_switch()` (`interrupt.c:209`;
   `Disciplined` excludes it).
5. Removing a thread before it ran takes fpages off an MPU list that has none of them,
   and writes through NULL (`fpage.c:29`), although "If fpage is not exist in as fpages
   list, does nothing" (`fpage.c:105`; fault "unlisted");
   `remove_fpage_from_list()` reads an uninitialised variable
   (`fpage.c:22`; fault "uninitialised").
   The list of a space whose fpages all hold the stack becomes NULL with the old links left
   behind, and is built anew by the next switch (`memory.c:258`), which may then close a
   circle; the run does not come to that (`SwitchFits`).
6. `map_area()` looks `last` up again after its first split but not `first` after
   its second: mapping the front of an fpage walks from a freed one
   (`memory.c:454`; fault "freed"). A map of an area with a hole before its last fpage
   succeeds, against the comment at `memory.c:400` ("probe checks that addresses in fpage
   are sequental"): it gives what there is of the area, and, if an fpage begins at its
   end, that one too. `MapGives` says so, and promises the area itself only if the source
   has it, as the root's always has.
7. A probe's breakpoint is set before the probe is on the list and taken off after
   it has left: an interrupt handler that runs into it in between breaks there for
   ever (`kprobes.c:66`).
8. The samples of the last symbol but one are counted for the last (`ksym.c:44`).
9. For an area that begins inside a smallest fpage, `assign_fpages_ext()` rounds the
   base and the size of each hole up one by one (`fpage.c:249`, `fpage.c:281`), so that
   the new fpages may reach into the one behind the hole; the functions that insert
   them do not look ("Not checks if as and this chain overlapping", `fpage.c:59`). In
   a space of the root, <<9, 3>> ends in two fpages of the same memory, neither of them a
   map. `Regular` excludes such areas, and the run has none.
10. A pager's start of a thread that sleeps with a timeout leaves the timeout armed
   (`ipc.c:266`), so that it ends a later wait; its message to such a thread takes the
   timeout away and leaves the thread inactive for ever (`ipc.c:271`). The run `ipc` has
   no pager of a timed sleeper, and `NoStaleTimeout` has `NoPagedSleeper`.
11. The timer stops with events in its queue if its counter expires between the end of
   the handler and the reset of the flag (`softirq.c:46`, the defect above), or while an
   early event is being placed that was reckoned by the counter before: no ticks are left
   at `ktimer.c:197`, and `ktimer_enable(0)` sets a counter that never runs. `TimerAlive`
   says that there is no third way.
12. `as_create()` writes through NULL when `as_table` is full (`memory.c:329`, "assert as
   == NULL" is a comment), which 16 spaces for 32 threads, the defaults of `Kconfig`,
   allow; the models end there (fault "spaces"). `mempool_align()` returns
   INVALID_FPAGE_REGION for a pool without fpages and nobody looks (fault "region").
   `thread_create()` writes through the NULL of `thread_init()` when the thread table is
   full (`thread.c:162`, `thread.c:210`), which the models leave out.
13. `sampling_init()` finds more than `MAX_KSYM` symbols and returns (`sampling.c:30`), but
   `kdb_show_sampling()` goes on, and the next command sorts and counts them all in arrays
   of `MAX_KSYM` (`sampling.c:67`).

In Kconfig:

1. `conf_read()` resets the count of changes before it knows whether the file can
   be read (`confdata.c:407`): after the name of no file was entered to be loaded, `mconf`
   and `nconf` leave without asking to save (`mistyped` of `ConfigScreen` records it, and
   `NothingLost` excuses just that).
2. A choice that is set while its values are new counts as new itself, and the next
   change of any symbol unsets it (`symbol.c:277`; `SetInVain`).
3. Values of a choice that became hidden are written as not set, and the reader
   then says that the file changed (`StaleLine`); a choice that is `m` without a
   value that is leaves no trace in a file (`Traceless`).
4. nconf does not calculate what it shows while it shows all symbols
   (`nconf.c:742`; left out of `ShownIsTrue`).
5. The empty value of an integer without default is written to `autoconf.h` and not
   read back (`confdata.c:139`): when it vanishes nothing is touched
   (the versions of the run have no such integer); at the end of the input,
   `conf_string()` asks for it for ever (`conf.c:138`).
6. `!B != n` is rewritten to `B = n`, which differs where B is `m`
   (`expr.c:908`; `CompareExact` excludes it), and joining operands may change a
   dependency that is `m` (`DefiniteKept`).
7. A symbol without a prompt takes below it what follows and mentions it, even as
   `= n` (`menu.c:343`; `Swallowed`); `sym_check_deps()` may report a cycle and
   leave the count of errors at 0 (`symbol.c:1283`).

## 5. Proofs

TLAPS checks the following for every value of the constants that the named
assumption of each module allows (`KernelLoopAssumption`, `IPCAssumption`,
`ThreadMapAssumption`, `ThreadsAssumption`, `InterruptAssumption`,
`KTimerAssumption`, `KProbesAssumption`, `SamplingAssumption`, `MemoryAssumption`,
`BootAssumption`; no other assumption is made). The two of `Memory` are about the
configuration of the board: the memory is a multiple of the smallest fpage, the fpages
are enough for booting, and each area of the KIP is one fpage, on which `map_area()`
relies for it ("last is ignored, because kip fpages is aligned"). The tables may be of any
size: where one runs full the behaviour ends in a fault. `SamplingAssumption` has the
symbols strictly ascending. A theorem that needs more, such as
that threads keep to the protocol, has it as a hypothesis with a name. The
inductive invariants were invariants of a TLC run before they were proved; where one has
a quantifier over functions (ranks, rings), what follows from it was.

`KernelLoopProofs`. The inductive invariant is type correctness, `LoopInv` (what
holds at each place of the kernel thread: a handler runs only on the kernel
thread, the kernel thread holds its slot, the SYSCALL flag points to a caller that
may trap and is set as long as its call is owed) and the invariants of the runs.
`PendingKeepsKernelRunnable` alone is not inductive: the kernel thread goes
inactive after the last scan, and only the place in the loop, together with the
interrupts being off there, says that no flag was raised meanwhile. From it follow
`SoftirqNeverStranded`, `KernelFirst`, `SwitchAssertion` (together `SoftirqFirst`,
the property of the run), `CallerNotOverwritten`, `TypeCorrect`; `TimelyLoop` adds the requests and the timer under `~late`; and
`ImplementsServiceSteps` maps every step to one of `SyscallService` or a stutter.

`IPCProofs`. The invariant adds to the types what a blocked thread remembers: a
sender its receiver, a receiver whom it waits for, and a thread with a timeout the
slot of that timeout. It gives `TimeoutOwnsItsEvent` (with slots used again the
comparison of addresses in `ipc_timeout()` is right), `ReceiverNamesPartner` and
the refinement `ImplementsRendezvousSteps`: every step of IPC is a step of
`Rendezvous` or a stutter, for any number of threads, events and pagers.
`NoStaleTimeout` needs `NoPagedSleeper`, and a second invariant (`ArmedInv`): only
sleepers are inactive with a timeout armed, so no start of an inactive thread
leaves one behind.

`ThreadsProofs` begins with the map. Under `Careful` the invariant is that the map is sorted and
holds the live threads, that `thread_count` is their number, and the invariant of
the search (`SearchOK`: what lies below `from` is smaller than the id, what lies
from `to` on is larger). `AlwaysSorted`, `HoldsTheLive` (together `MapAlwaysSound`), `TypeCorrect` (no index
leaves the array) and `LookupComplete` follow.

`Chains`. The kernel's lists are links in its tables, and the specifications follow
them by functions on `0 .. n` for as many steps as there are nodes, because a chain
that runs into itself must be a state the model can be in. What such a function
reaches is not in its definition but has to be proved by induction. The library's
induction theorems have an operator as parameter, which the provers cannot
instantiate, so `Chains` starts from a theorem without one: the finite subsets of a
set are well-founded. It gives the least element of a set of numbers, from that
induction in terms of sets (`SetInduction`), and that a function defined by
recursion satisfies its equations (`Recursion`). Above these, links are `Ranked` if
each leads to a node of lower rank: then a path ends and meets no node twice
(`PathEnds`), what is reached from a node is the node and what its link reaches
(`ReachStep`), and it is the least set closed under links (`ReachLeast`). `Listed`
says locally that the nodes of a set are one list; taking the head off, putting one
on, inserting one and cutting a list in two keep it (`ListedPop` ... `ListedSplit`), and
what is reached from the head of such a list is that set (`ListedReach`).

`InterruptProofs`. `QueueSound` is not inductive: it says that no irq is in the
queue twice, but not that `tail` is the last entry, nor that the fields of an irq
that is not queued are clear, on which the next push relies. The invariant says that
head, tail and links represent a sequence without repetition (`IsList`), and that
whoever is enabled or queued is awaited by a thread of its own (`Ready`). Pushing,
popping and deleting are then the operations on sequences (`PushedList`,
`PoppedList`), which gives `QueueAlwaysSound`, `AlwaysTakenByWaking` and, with the queue as
refinement mapping, `QueueImplementsFifo`. All three are for threads that keep to the protocol
(`Disciplined`, see section 3): without it the kernel may run a blocked thread.

Of the tree, `TreeExact` speaks of the threads that are reached from root. The
invariant replaces this by facts about single threads: each live thread but root
has a live parent (`ParentsOK`), lists of children hold children of one parent
(`ListsOK`), every thread is in one place of one list (`ListedOnce`), and both kinds of
links are ranked, so that nothing descends from itself and no list runs in a
circle. Removing a thread hands its children to its parent, and the rank stays;
creating one gives it a rank above all. `CallerOK` keeps a caller alive while it is
served. For `thread_select()` the invariant has a set D (`WalkedTo`): the threads that are
behind the walk with all their descendants. It gives `AlwaysATree` and
`NobodySkipped`, which is the safety half of `SelectExact`, that the walk gives up
only after all others were passed. `TreeMapSound` and
`TreeLookupComplete` carry over the results of the map, whose steps these are
(`MapStep`). All are under `Careful`.

`KTimerProofs`. While the handler walks the due events, `last_event` separates
them from the queue, but their chain leads into it, and an event that is called is put
back anywhere. `QueueInv` splits the allocated events into the queue, the due
ones and the one being placed (`Split`): the first two are lists, the due list ends in
`last_event`, and all links are
ranked. Insertion doubles the ranks to make room for one between two others. `QueueAlwaysExact`
follows with no hypothesis: relinking is right whatever the ticks do. Where events are
placed (`InsertAlwaysExact`) needs the times as well: `TimeInv`
gives every event of the queue its place, and keeps counter and deltas below a
quarter of `Word`, so that the differences wrap only where the code's do. The theorem says
that nothing else moves, and that the new event is at the ticks asked for less those
the counter had gone when they were read, or with the last event if more had gone: places in
the queue, counted from its start, not times from now (2 of section 4). It holds if
the handler is `Timely`: no expiry waits longer than the period of `ipc_deliver()`
(`MaxLag <= Period`), because otherwise `ipc_deliver()` is put back with a delta below zero,
that is, near 2^32; and `MinTicks` is not 0, because an event is placed
less than `MinTicks` before where the code reckons it. The bound of the run is such a one.
That the timer stays alive (`TimerAlive`) is model-checked only.

`SamplingProofs`. `ProbesWhole` reads the list by walking it; the invariant
(`ProbesInv`) says instead that some set of probes is the list (`Ordered`: ranked links, and
`Listed` from the head), that exactly these and the probe that is half registered have a
breakpoint, and how each is set (`SetAs`). That a break repeats for ever only while a
probe is half registered follows from that count of breakpoints. The hard part is
`kprobe_prebreak()`, which walks the list while its handlers take their probes off and put
them back at the head. `PreGood` is the invariant of that loop: each probe set at the
address has been called, or is still to be reached from where the loop is. It ends because
each turn goes one probe on, or moves a return probe, which then is not set at that address
any more (`Left`: what is left to move, and then to walk, decreases); so the number of turns
that `Loop` allows is enough. `ListAlwaysWhole` and `NobodyMissed` follow, with no
hypothesis. For `StatsExact` the loops of `sort()`, `bsearch()` and `sampling_stats()` have an
invariant each: below the place `Sift` has come to there is a heap (`Heaped`), behind the
one `Drain` has come to the elements are in order (`Drained`), what `Search` has left
holds the symbol (`Window`), and the counts are those of the samples seen (`Exact`).
`CountsAlwaysExact` puts them together; it holds for any index that an earlier look-up
has left, and for strictly ascending symbols, no more than `MAX_KSYM` (with more the
behaviour ends before anything is counted) and not exactly two, of which a search looks at the
last first and never tells an address below both of them from one in them.

`MemoryProofs`. Two things make `Accounted` far from inductive: between two calls of one
operation fpages are in use that are in no space, and a ring is whole only if the walk
around it comes back, which no single link says. The invariant of the tables (`Sound`) is
the conjunction of `Placed` (the slots in use are those of the chains and a set x that is in
none: the KIP, and what was just created), `Homed` (only the root's space, which is never
destroyed, has fpages that are no maps), `Ringed` (every fpage has an origin, the one
among those linked with it that is no map, and the same memory; ranks go down along the links until one leads
back to the origin; no two links lead to the same fpage) and `Shapely` (sizes are powers of two, bases their
multiples). Each operation of `fpage.c` and `memory.c` has a lemma that says what it makes
of such tables (`After`): tables as sound, or a fault. The loops over chains, of
`create_fpage_chain()`, `assign_fpages_ext()`, `as_destroy()` and `as_setup_mpu()`, are induction over
their turns by `Recursion` of `Chains`. A ring of n fpages is walked in n steps, which
are at most `MaxFpages` (`Returns`), so that `unmap_fpage()` always finds the link it looks for:
"endless" is never the fault. A destroyed space takes only maps out of rings, because of
`Homed`; with it, `as_destroy()` never breaks a ring, not even where it removes a map that was mapped on to
others (the "FIXME" of `memory.c:347`). The counts `shared` are those of the threads
(`Counted`). Whether there is a space left for the next thread is nobody's assumption: with
none, `as_create()` is a fault.
Together they are `Inv`, and `AllAccounted` follows from it, with no hypothesis, as does
`AllShaped`, the part of `WellFormed` about the regions of the MPU.

`AllWellFormed` adds the order of the chains, under `Regular`: memory, UTCBs, KIP and areas begin at
multiples of the smallest fpage (which is a power of two), as in the run, and the areas of the
KIP do not overlap; without it the theorem is false (9 of section 4). That a chain is
sorted is not inductive by itself: `map_fpage()` puts the map of an fpage
next to what lies there already, and `split_fpage()` splits all of a ring, in each space. The
invariant (`Tidy`) says of all fpages in use, in whatever space: they begin and end at
multiples of the smallest fpage and inside the address space (`Gridded`), and two of them are
apart, or have the same base and size and one of them is a map (`Sundered`); then each chain has
only to be in the order of the bases (`Sorted`), and inserting a map keeps it. New
fpages are only made by `assign_fpages_ext()`, in the root's space, in a hole of its chain, and
what makes them apart from everything else is that the root's space has an fpage at
each base in use: its own, and a map of each fpage of the KIP
(`Covered`), which `sys_thread_control()` and booting add and nothing removes. The loop of
`assign_fpages_ext()` has the invariant `Stands`: what is before its place in the chain ends at or
below the base it has come to, so that an fpage rounded up to the grid ends where the hole does, at most.

What the operations leave after a fault is
open (`Becomes`), so all this holds up to the first thing that C leaves undefined.

Model-checked only: all liveness properties (`ExpiryHandled`, `WaitsEnd`, `Fires`,
`Answered`, `WalksEnd`, `Terminates` and the fairness part of `ImplementsService`),
which the prover does not treat; `TimerAlive` of `KTimer`; of `Memory`, `SwitchFits` (which does not hold for every layout, 5 of section 4),
`MapGives` (what a sequence of splits leaves between two addresses, not proved so far) and
`FaultsNamed`; and all of Kconfig, whose modules use RECURSIVE
operators (for expressions and trees this is what they are: data the provers cannot do
induction over).

## 6. What is not modelled

- Assembly and hardware: context switch, SVC entry and exit, SysTick registers and
  with them tickless idle (`ktimer_enter_tickless`), MPU registers, breakpoints.
- In the kernel: contents of messages, permissions, priorities (the code does not
  use them), calls that name threads that do not exist, the fault handler (not in
  the repository), a slot of the scheduler that keeps a destroyed thread (the
  thread set of `KernelLoop` is fixed), and waits for interrupts with a timeout. Of
  `thread_create()`: ids that it refuses (nothing changes) and a full thread table (12
  of section 4).
- `queue.c` and allocation by index (`ktable.c`): nothing calls them.
- Boot (`start.c`, `init.c`): start-up assembly, copying of sections, and hooks that
  the linker collects from other repositories. What it leaves is each module's `Init`.
- Debug console, logs, error texts, the kernel information page, memory and string
  primitives: formatting, byte loops and constant tables.
- In Kconfig: the scanner and the table of names, help texts, colours and scrolling,
  search by name, the terminal widgets (`lxdialog`, `nconf.gui.c`). `gconf.c` and
  `qconf.cc` are GTK and Qt callbacks over the setters and files that `ConfigScreen`
  and `ConfigBuild` exercise; their own state is in the widgets of libraries.
  Seed files, environment variables that change a path (`KCONFIG_OVERWRITECONFIG`
  gives up the backup that `ConfigKept` rests on), and files that cannot be written.
- `fixdep.c` and the makefiles, but for what makes an object compile again.

## 7. Plan

Written in this order: kernel loop, IPC, kernel timer, thread map and tree, user
interrupts; memory (which took the place of an earlier model of one fpage chain),
probes and sampling; Kconfig expressions, menus, values, files, front ends.

To come, in order:

1. Proofs: that a map item maps what it names (`MapGives`), and that the regions of the MPU
   hold the stack as long as no space consists of its stack (`SwitchFits`), in `Memory`;
   that the timer stops in two ways only (`TimerAlive`), in `KTimer`; lemmas about the rules of `ConfigExpr` on one level of a tree.
2. Calls that name missing threads, in `IPC` composed with `ThreadMap`.
3. Seed files of `conf`, and the environment variables of `confdata.c`.
