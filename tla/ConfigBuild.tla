---------------------------- MODULE ConfigBuild ----------------------------
(***************************************************************************)
(* The line-oriented front end scripts/kconfig/conf.c, the files it and    *)
(* conf_write(), conf_write_autoconf() of confdata.c leave, and the build  *)
(* that depends on them.                                                   *)
(*                                                                         *)
(* A run of conf is a list of tasks still to do, <<function, entry, flag>>;*)
(* a question is a task that the user's answer finishes.  The process may  *)
(* be killed between two tasks.  Between runs the user edits .config,      *)
(* another version of the Kconfig files arrives, and make compiles.        *)
(*                                                                         *)
(* include/config/ holds one file per symbol, whose time stamp makes make  *)
(* compile the objects that mention the symbol; objects also include       *)
(* autoconf.h.  tristate.conf, which holds nothing else than auto.conf,    *)
(* auto.conf.cmd, seed configurations (KCONFIG_ALLCONFIG), the environment *)
(* variables that change a path or forbid an update, and files that cannot *)
(* be written are left out.                                                *)
(***************************************************************************)
EXTENDS ConfigData

CONSTANTS
    Versions,       \* what the Kconfig files may say: a sequence of finalized menus
    Modes,          \* the options conf is started with
    Edits,          \* the files a user makes of .config
    Amounts,        \* the numbers a user enters
    Draws,          \* what rand() says, as ConfigData takes it
    MaxRuns,        \* bound on the runs of conf
    MaxChanges      \* bound on what happens between them

NotBuilt == {EMPTY - 1}     \* what no object is compiled with

VARIABLES
    run,            \* input_mode, sync_kconfig, valid_stdin of the process
    todo,
    conf_cnt,       \* was anything asked since the last check_conf(&rootmenu)?
    rootEntry,
    disk,           \* .config, .config.old, a defconfig, auto.conf, autoconf.h
    tmp,            \* the file that is renamed next
    fresh,          \* is auto.conf newer than .config and the Kconfig files?
    touched,        \* symbols whose file is newer than the objects
    built,          \* what the objects that mention a symbol were compiled with
    last,           \* ghost: the latest complete configuration
    settled,        \* ghost: .config is what a run of conf has left
    runs, changes

process == <<st, run, todo, conf_cnt, rootEntry, tmp>>
files == <<disk, fresh, touched, last>>
vars == <<prog, process, files, built, settled, runs, changes>>

Idle == [mode |-> None, sync |-> FALSE, tty |-> TRUE]
SetsAll == [allnoconfig |-> "def_no", allyesconfig |-> "def_yes", allmodconfig |-> "def_mod",
            alldefconfig |-> "def_default", defconfig |-> "def_default", randconfig |-> "def_random"]

-----------------------------------------------------------------------------
(* What a task does: the fields of the symbols, the tasks that follow it,  *)
(* and the answers it waits for, each a symbol to set and what follows.    *)

Task(f, i) == <<f, i, FALSE>>
Tasks(f, kids) == [n \in DOMAIN kids |-> Task(f, kids[n])]
Done(t, next) == [st |-> t, next |-> next, answers |-> {}, how |-> "done",
                  cnt |-> conf_cnt, root |-> rootEntry]
Answer(s, v, next) == [sym |-> s, val |-> v, next |-> next]
Wait(t, answers) == [Done(t, <<>>) EXCEPT !.answers = answers, !.how = "wait"]

Quiet == run.mode \in {"oldconfig", "silentoldconfig"}
\* check_stdin() before a line is read
Ask(t, answers) ==
    IF run.mode = "silentoldconfig" /\ ~run.tty THEN [Done(t, <<>>) EXCEPT !.how = "abort"]
    ELSE Wait(t, answers)

\* conf() of a visible entry
Conf(t, i) ==
    LET s == SymOf(i)
        kids == Tasks("conf", prog.kids[i])
    IN  Done(t, IF i \in prog.menus \cup {0} /\ i # rootEntry
                   /\ run.mode \in {"silentoldconfig", "listnewconfig", "olddefconfig"}
                THEN <<Task("check", i)>>
                ELSE IF s = None THEN kids
                ELSE IF s \in Chooser THEN <<Task("choice", i), Task("rest", i)>>
                ELSE <<Task("value", i)>> \o kids)

\* menu_get_parent_menu()
RECURSIVE ParentMenu(_)
ParentMenu(i) == IF i = 0 \/ i \in prog.menus THEN i ELSE ParentMenu(prog.par[i])

\* check_conf() of a visible entry: a new symbol is asked for with all there is
\* in its menu.
Fresh(t, s) == s # None /\ s \notin t.user /\ (CanChange(t, s) \/ (s \in Chooser /\ t.tri[s] = yes))
Check(t, i) ==
    LET kids == Tasks("check", prog.kids[i])
        menu == ParentMenu(i)
    IN  IF Fresh(t, SymOf(i)) /\ run.mode \notin {"listnewconfig", "olddefconfig"}
        THEN [Done(t, <<Task("conf", menu)>> \o kids) EXCEPT !.cnt = TRUE, !.root = menu]
        ELSE Done(t, kids)

\* conf_sym(), conf_string() and conf_askvalue(): an answer that cannot be set
\* is asked for again.
Value(t, s) ==
    IF ~CanChange(t, s) \/ (Quiet /\ s \in t.user) THEN Done(t, <<>>)
    ELSE Ask(t, {Answer(s, v, <<>>) : v \in
                 IF s \in Numbers
                 THEN {n \in Amounts \cup {t.num[s]} : n # EMPTY /\ NumberWithin(t, s, n)}
                 ELSE {v \in Tri : CanSet(t, s, v)}})

\* conf_choice(): whether the choice can be set to another value is asked first.
Choice(t, i) ==
    Done(t, (IF CanChange(t, SymOf(i)) THEN <<Task("value", i)>> ELSE <<>>)
            \o << <<"pick", i, SymOf(i) \notin t.user>> >>)

\* The entries of a list that are visible and have a symbol.
RECURSIVE Shown(_, _)
Shown(r, kids) ==
    LET Of(v) == Shown(Result(v.st, IF v.val /\ SymOf(Head(kids)) # None THEN Append(r.val, Head(kids))
                                    ELSE r.val), Tail(kids))
    IN  IF kids = <<>> THEN r ELSE Of(MenuVisible(r.st, Head(kids)))

\* One of them is picked: the only one, the present one unless the choice is
\* new, or the one that the user names.
Picked(t, c, list, new) ==
    LET present == {k \in ToSet(list) : SymOf(k) = t.chosen[c]}
        Picks(set) == {Answer(SymOf(k), yes, Tasks("conf", prog.kids[k])) : k \in set}
    IN  CASE Len(list) = 1 -> Wait(t, Picks(ToSet(list)))
          [] Len(list) # 1 /\ Quiet /\ ~new -> Wait(t, Picks(present))
          [] OTHER -> Ask(t, Picks(ToSet(list)))
Pick(t, i, new) ==
    LET c == SymOf(i)
        Of(r) == Picked(r.st, c, r.val, new)
        Set(u) == IF u.tri[c] = yes THEN Of(Shown(Result(u, <<>>), prog.kids[i])) ELSE Done(u, <<>>)
    IN  Set(Calculated(t, c))

\* Nothing is done with what is not visible.
Visible(v, task) ==
    IF ~v.val THEN Done(v.st, <<>>)
    ELSE IF task[1] = "conf" THEN Conf(v.st, task[2]) ELSE Check(v.st, task[2])

\* A random configuration is drawn until nothing is new any more.
Drawn(r) == Done(r.st, IF run.mode = "randconfig" /\ r.again THEN <<Task("new", 0)>> ELSE <<>>)

Writing == <<Task("write", 0), Task("backup", 0), Task("install", 0)>>
\* Mutant: the build does not write .config.
SavingAuto ==
    IF run.sync THEN <<Task("autoconf", 0)>>
    ELSE CASE run.mode = "savedefconfig" -> <<Task("open", 0), Task("defconfig", 0)>>
           [] run.mode = "listnewconfig" -> <<>>
           [] OTHER -> Writing
\* The end of main().
Saving ==
    IF run.sync THEN (IF st.changed THEN Writing ELSE <<>>) \o <<Task("autoconf", 0)>>
    ELSE CASE run.mode = "savedefconfig" -> <<Task("open", 0), Task("defconfig", 0)>>
           [] run.mode = "listnewconfig" -> <<>>
           [] OTHER -> Writing

\* Mutant: the menus are checked once.
PerformOnce(task, draw) ==
    LET i == task[2]
    IN  CASE task[1] \in {"conf", "check"} -> Visible(MenuVisible(st, i), task)
          [] task[1] = "value" -> Value(st, SymOf(i))
          [] task[1] = "choice" -> Choice(st, i)
          [] task[1] = "pick" -> Pick(st, i, task[3])
          [] task[1] = "rest" ->
                Done(st, IF st.tri[SymOf(i)] = mod THEN Tasks("conf", prog.kids[i]) ELSE <<>>)
          [] task[1] = "loop" -> Done(st, <<>>)
          [] task[1] = "new" -> Drawn(SetAllNew(st, SetsAll[run.mode], draw))
          [] task[1] = "save" -> Done(st, Saving)
Perform(task, draw) ==
    LET i == task[2]
    IN  CASE task[1] \in {"conf", "check"} -> Visible(MenuVisible(st, i), task)
          [] task[1] = "value" -> Value(st, SymOf(i))
          [] task[1] = "choice" -> Choice(st, i)
          [] task[1] = "pick" -> Pick(st, i, task[3])
          [] task[1] = "rest" ->
                Done(st, IF st.tri[SymOf(i)] = mod THEN Tasks("conf", prog.kids[i]) ELSE <<>>)
          [] task[1] = "loop" ->
                IF conf_cnt THEN [Done(st, <<Task("check", 0), Task("loop", 0)>>) EXCEPT !.cnt = FALSE]
                ELSE Done(st, <<>>)
          [] task[1] = "new" -> Drawn(SetAllNew(st, SetsAll[run.mode], draw))
          [] task[1] = "save" -> Done(st, Saving)
Functions == {"conf", "check", "value", "choice", "pick", "rest", "loop", "new", "save"}

-----------------------------------------------------------------------------
(* The files.                                                              *)

\* What auto.conf and autoconf.h say: nothing of symbols that are `n'.
AutoLines(t) ==
    LET said == SelectSeq(HashOrder, LAMBDA s :
                    s \in t.write \ Chooser /\ (s \in Numbers \/ StringValue(t, s) # no))
    IN  [n \in DOMAIN said |-> <<said[n], StringValue(t, said[n])>>]
Said(file, s) == {file[n][2] : n \in {n \in DOMAIN file : file[n][1] = s}}
Old(s) == {v \in Said(disk.auto, s) : Settable(s, v) /\ Fits(s, v)}

\* Mutant: symbols that the Kconfig files no longer have are passed over.
ChangedKnown(t, s) ==
    LET old == Old(s)
    IN  IF s \in t.write THEN IF old # {} THEN StringValue(t, s) \notin old
                              ELSE s \in Numbers \/ t.tri[s] # no
        ELSE s \in Known /\ old # {}
\* conf_split_config(): is the value another one than that in auto.conf?
Changed(t, s) ==
    LET old == Old(s)
    IN  IF s \in t.write THEN IF old # {} THEN StringValue(t, s) \notin old
                              ELSE s \in Numbers \/ t.tri[s] # no
        ELSE old # {}

Split(t) ==
    LET changed == SelectSeq(SetToSeq(All \ Chooser), LAMBDA s : Changed(t, s))
    IN  [n \in DOMAIN changed |-> <<"touch", changed[n], FALSE>>]
\* Mutant: auto.conf gets its name first.
RenamesAuto == <<Task("auto", 0), Task("header", 0)>>
Renames == <<Task("header", 0), Task("auto", 0)>>

-----------------------------------------------------------------------------
(* The process.                                                            *)

Go(t, next, file) == st' = t /\ todo' = next /\ tmp' = file
Stop == run' = Idle /\ Go(Unset, <<>>, Gone) /\ conf_cnt' = FALSE /\ rootEntry' = 0
Change == run = Idle /\ changes < MaxChanges /\ changes' = changes + 1 /\ UNCHANGED runs

Plan(m) ==
    LET checks == <<Task("check", 0), Task("loop", 0), Task("save", 0)>>
    IN  CASE m = "oldaskconfig" -> <<Task("conf", 0), Task("quiet", 0)>> \o checks
          [] m \in DOMAIN SetsAll -> <<Task("new", 0), Task("save", 0)>>
          [] m = "savedefconfig" -> <<Task("save", 0)>>
          [] OTHER -> checks
Read(file) == IF file = Gone THEN NoFile(Unset) ELSE ConfRead(Unset, file)

\* Without the file it needs conf only says so.
Start(m, tty) ==
    /\ run = Idle /\ runs < MaxRuns /\ runs' = runs + 1
    /\ m = "silentoldconfig" => disk.config # Gone
    /\ m # "silentoldconfig" => tty
    /\ m = "defconfig" => disk.def # Gone
    /\ run' = [mode |-> m, sync |-> m = "silentoldconfig", tty |-> tty]
    /\ \E t \in {IF m \in DOMAIN SetsAll \ {"defconfig"} THEN Unset
                  ELSE Read(IF m = "defconfig" THEN disk.def ELSE disk.config)} :
        Go(t, Plan(m), Gone)
    /\ UNCHANGED <<prog, conf_cnt, rootEntry, files, built, settled, changes>>

Doing(f) == todo # <<>> /\ todo[1][1] = f

\* The next task of the program, or the user's answer.
Work ==
    /\ \E f \in Functions : Doing(f)
    /\ \E draw \in IF Doing("new") THEN Draws ELSE {<<>>} :
        \E r \in {Perform(Head(todo), draw)} :
            \/ r.how = "abort" /\ Stop
            \/ /\ r.how # "abort"
               /\ \/ r.how = "done" /\ Go(r.st, r.next \o Tail(todo), tmp)
                  \/ \E a \in r.answers :
                        Go(IF a.sym \in Numbers THEN SetNumber(r.st, a.sym, a.val)
                           ELSE SetTo(r.st, a.sym, a.val), a.next \o Tail(todo), tmp)
               /\ conf_cnt' = r.cnt /\ rootEntry' = r.root /\ UNCHANGED run
    /\ UNCHANGED <<prog, files, built, settled, runs, changes>>

\* oldaskconfig goes on as silentoldconfig, but for what it writes.
BeQuiet ==
    /\ Doing("quiet") /\ run' = [run EXCEPT !.mode = "silentoldconfig"] /\ todo' = Tail(todo)
    /\ UNCHANGED <<prog, st, conf_cnt, rootEntry, tmp, files, built, settled, runs, changes>>

\* conf_write() and conf_write_autoconf() make their files under another name.
Write1 ==
    /\ \/ Doing("write") /\ \E w \in {ConfWrite(st)} : Go(w.st, Tail(todo), w.file)
       \/ Doing("autoconf") /\ \E t \in {CalcAll(ClearAllValid(st))} :
            Go(t, Split(t) \o Renames, AutoLines(t))
    /\ UNCHANGED <<prog, run, conf_cnt, rootEntry, files, built, settled, runs, changes>>

\* Mutant: the name .config.old is taken even if there is no .config.
BackupMissing == [disk EXCEPT !.old = disk.config, !.config = Gone]
Backup == IF disk.config = Gone THEN disk ELSE [disk EXCEPT !.old = disk.config, !.config = Gone]

Install(name) == [disk EXCEPT ![name] = tmp]
Rename ==
    /\ \/ Doing("backup") /\ disk' = Backup /\ fresh' = FALSE /\ UNCHANGED last
       \/ Doing("install") /\ disk' = Install("config") /\ fresh' = FALSE /\ last' = tmp
       \/ Doing("header") /\ disk' = Install("header") /\ UNCHANGED <<fresh, last>>
       \/ Doing("auto") /\ disk' = Install("auto") /\ fresh' = TRUE /\ UNCHANGED last
    /\ todo' = Tail(todo)
    /\ settled' = (settled /\ ~Doing("backup"))
    /\ UNCHANGED <<prog, st, run, conf_cnt, rootEntry, tmp, touched, built, runs, changes>>

\* conf_write_defconfig() opens the file under its own name: it is empty, then
\* holds the first lines, and is whole when it is closed.
WriteOpen ==
    /\ \E w \in {WriteDefconfig(st)} :
          \/ /\ Doing("open")
             /\ \E n \in 0 .. Len(w.file) : disk' = [disk EXCEPT !.def = SubSeq(w.file, 1, n)]
          \/ Doing("defconfig") /\ disk' = [disk EXCEPT !.def = w.file]
    /\ todo' = Tail(todo)
    /\ UNCHANGED <<prog, st, run, conf_cnt, rootEntry, tmp, fresh, touched, last, built, settled, runs, changes>>

Touch ==
    /\ Doing("touch") /\ touched' = touched \cup {todo[1][2]} /\ todo' = Tail(todo)
    /\ UNCHANGED <<prog, st, run, conf_cnt, rootEntry, tmp, disk, fresh, built, last, settled, runs, changes>>

Exit ==
    /\ run # Idle /\ todo = <<>> /\ Stop
    /\ settled' = (settled \/ run.mode \notin {"listnewconfig", "savedefconfig"})
    /\ UNCHANGED <<prog, files, built, runs, changes>>

Step == Work \/ BeQuiet \/ Write1 \/ Rename \/ WriteOpen \/ Touch \/ Exit

Kill == run # Idle /\ Stop /\ UNCHANGED <<prog, files, built, settled, runs, changes>>

-----------------------------------------------------------------------------
(* What happens between the runs.                                          *)

Edit(file) ==
    /\ Change /\ file # disk.config
    /\ disk' = [disk EXCEPT !.config = file] /\ last' = file /\ fresh' = FALSE /\ settled' = FALSE
    /\ UNCHANGED <<prog, process, touched, built>>

Upgrade(version) ==
    /\ Change /\ prog' = version /\ fresh' = FALSE /\ settled' = FALSE
    /\ UNCHANGED <<process, disk, touched, built, last>>

\* make runs silentoldconfig until auto.conf is fresh, then compiles.
Make ==
    /\ Change /\ fresh /\ disk.auto # Gone
    /\ built' = [s \in All |-> IF s \in touched \/ built[s] = NotBuilt THEN Said(disk.header, s)
                               ELSE built[s]]
    /\ touched' = {}
    /\ UNCHANGED <<prog, process, disk, fresh, last, settled>>

Init ==
    /\ prog = Versions[1] /\ st = Unset /\ run = Idle /\ todo = <<>> /\ conf_cnt = FALSE /\ rootEntry = 0
    /\ \E file \in Edits \cup {Gone} : last = file /\ disk = [config |-> file, old |-> Gone, def |-> Gone, auto |-> Gone, header |-> Gone]
    /\ tmp = Gone /\ fresh = FALSE /\ touched = {} /\ built = [s \in All |-> NotBuilt]
    /\ settled = FALSE /\ runs = 0 /\ changes = 0

Next ==
    \/ \E m \in Modes, tty \in BOOLEAN : Start(m, tty)
    \/ Step \/ Kill
    \/ \E file \in Edits : Edit(file)
    \/ \E n \in DOMAIN Versions : Upgrade(Versions[n])
    \/ Make

\* The program runs, and the user answers: WF_vars(Step), as a step is possible
\* until the process has ended.
Running == []<>(run = Idle) \/ []<><<Step>>_vars
Spec == Init /\ [][Next]_vars /\ Running

-----------------------------------------------------------------------------
(* Correctness.                                                            *)

\* A run of conf ends, if the user answers: what it asks does not make it ask
\* for ever.
Terminates == run # Idle ~> run = Idle

\* Whenever the process is killed, .config or .config.old is the latest
\* complete configuration.
ConfigKept == last # Gone => last \in {disk.config, disk.old}

\* While make takes auto.conf for fresh, the objects it would not compile were
\* compiled with what autoconf.h says.
BuiltFresh ==
    fresh => \A s \in All \ touched : built[s] # NotBuilt => built[s] = Said(disk.header, s)

\* While make takes auto.conf for fresh, it and autoconf.h say what another
\* process makes of .config.
AutoTrue ==
    run = Idle /\ fresh =>
        \A t \in {CalcAll(Read(disk.config))} : \A lines \in {AutoLines(t)} :
            disk.auto = lines /\ disk.header = lines

\* The files of a build that passes for fresh are those of the configuration.
BuildTrue == BuiltFresh /\ AutoTrue

\* A configuration that conf left has nothing new: the build will not ask.
RECURSIVE NewBelow(_, _)
NewBelow(t, list) ==
    LET Of(v) == IF v.val THEN Fresh(v.st, SymOf(Head(list))) \/ NewBelow(v.st, prog.kids[Head(list)] \o Tail(list))
                 ELSE NewBelow(v.st, Tail(list))
    IN  list # <<>> /\ Of(MenuVisible(t, Head(list)))
NothingAsked ==
    run = Idle /\ settled => ~NewBelow(Read(disk.config), <<0>>)

\* Before that conf has asked for all that is new, also for what an answer to a
\* later question showed.
AllAsked == Doing("save") /\ Quiet => ~NewBelow(st, <<0>>)

\* conf asks for all that is new, and comes to an end.
AsksAndEnds == [](NothingAsked /\ AllAsked) /\ Terminates
=============================================================================
