---------------------------- MODULE ConfigScreen ----------------------------
(***************************************************************************)
(* The menu front ends scripts/kconfig/mconf.c and nconf.c at work on one  *)
(* configuration: the menus, choice lists and input boxes that are open,   *)
(* the items on the screen, what the keys do with them, and loading,       *)
(* saving and leaving.                                                     *)
(*                                                                         *)
(* conf(), conf_choice() and conf_string() call one another; the calls     *)
(* that have not returned are the stack, <<function, entry>> each.  Every  *)
(* loop draws its items anew before it reads a key: the actions are Draw    *)
(* and, for each key, what it does.  Help, scrolling, colours, the search  *)
(* by name in a long menu, and a start with nothing to show are left out.  *)
(* Without one of them, the functions of nconf.c are those of mconf.c but  *)
(* for what is tested by front.                                            *)
(***************************************************************************)
EXTENDS ConfigData

CONSTANTS
    Sessions,       \* configuration (finalized menus), "mconf" or "nconf", single_menu_mode
    Amounts,        \* the numbers a user enters
    Names,          \* the file names a user enters
    MaxDepth        \* bound on the stack

Start == ".config"
ASSUME StartAssumption == Start \in Names

VARIABLES
    front,          \* the program, and single_menu_mode
    stack,          \* empty when the program has ended
    drawn,          \* a key is read
    items,          \* what is on the screen
    showAll,        \* show_all_options, show_all_items
    open,           \* the menus shown in place (menu->data, single_menu_mode)
    filename,
    files,
    mistyped        \* ghost: the last name to be loaded was one of no file

vars == <<prog, st, front, stack, drawn, items, showAll, open, filename, files, mistyped>>

-----------------------------------------------------------------------------
(* build_conf(), and the list of conf_choice().  c: what is drawn.         *)

Item(i, tag, val, pick) == [entry |-> i, tag |-> tag, val |-> val, pick |-> pick]

\* What build_conf() does of one entry: the items it adds, whether it then looks
\* if the entry's menu is empty, and the entries that follow below.
Line(item, look, below) == [item |-> item, look |-> look, below |-> below]

\* A menu, a comment or an `if' block; in single menu mode the list of an open
\* menu follows it.
BuildMenu(c, i) ==
    LET menu == i \in prog.menus /\ i # c.cur
    IN  Line(IF i = c.cur \/ i \notin DOMAIN prog.title THEN {}
             ELSE {Item(i, IF menu THEN "m" ELSE ":", no, None)},
             menu /\ ~c.single,
             IF menu /\ (~c.single \/ i \notin c.open) THEN <<>> ELSE prog.kids[i])

\* A choice that is set shows its value, def_menu, and below it the list of
\* that value's entry.
BuildChoice(t, i, def_menu) ==
    LET s == SymOf(i)
        set == t.tri[s] = yes
    IN  Line({Item(i, IF CanChange(t, s) \/ def_menu # 0 THEN "t" ELSE ":", t.tri[s],
                   IF set THEN SymOf(def_menu) ELSE None)},
             FALSE,
             IF ~set THEN prog.kids[i]
             ELSE IF def_menu # 0 /\ prog.kids[def_menu] # <<>> THEN <<def_menu>> ELSE <<>>)

BuildSymbol(c, t, i) ==
    LET s == SymOf(i)
        tag == IF i = c.cur \/ (IsValue(s) /\ t.tri[s] = yes) THEN ":"
               ELSE IF s \in Numbers THEN "s" ELSE "t"
        own == i # c.cur /\ s \notin Numbers /\ i \in prog.menus
    IN  Line({Item(i, tag, StringValue(t, s), None)}, own, IF own THEN <<>> ELSE prog.kids[i])

\* The value of a choice: the last visible entry of its current symbol.
RECURSIVE DefMenu(_, _, _, _)
DefMenu(t, chosen, kids, found) ==
    LET Seen(v) == DefMenu(v.st, chosen, Tail(kids),
                           IF v.val /\ SymOf(Head(kids)) = chosen THEN Head(kids) ELSE found)
    IN  IF kids = <<>> THEN Result(t, found) ELSE Seen(MenuVisible(t, Head(kids)))

\* conf_choice() lists the values of a choice.
BuildValue(c, t, i) ==
    Line({Item(i, IF SymOf(i) # None /\ SymOf(i) = t.chosen[c.choice] THEN "X" ELSE ":", no, None)},
         FALSE, <<>>)

\* nconf.c does not even calculate what it shows because it shows all.
Blind(c) == c.all /\ c.front = "nconf"
\* item_make(); the one of nconf.c asks whether the entry is visible
ItemMake(c, t, i) == IF c.front = "nconf" THEN MenuVisible(t, i).st ELSE t

BuildEntry(c, r, i) ==
    LET Looked(t, line) == IF line.look THEN AnyVisible(t, prog.kids[i]).st ELSE t  \* menu_is_empty()
        Made(t, line) ==
            [st |-> Looked(IF line.item = {} THEN t ELSE ItemMake(c, t, i), line),
             items |-> r.items \cup line.item, below |-> line.below]
        Chosen(d) == Made(d.st, IF c.choice # None THEN BuildValue(c, d.st, i)
                                ELSE IF SymOf(i) = None THEN BuildMenu(c, i)
                                ELSE IF SymOf(i) \in Chooser THEN BuildChoice(d.st, i, d.val)
                                ELSE BuildSymbol(c, d.st, i))
        Seen(shown, t) ==
            IF shown THEN Chosen(IF c.choice = None /\ SymOf(i) \in Chooser
                                 THEN DefMenu(t, t.chosen[SymOf(i)], prog.kids[i], 0) ELSE Result(t, 0))
            ELSE [st |-> t, items |-> r.items, below |-> <<>>]
        Of(v) == Seen(IF c.all THEN Blind(c) \/ HasPrompt(prog, i) ELSE v.val, v.st)
    IN  Of(IF Blind(c) THEN Result(r.st, TRUE) ELSE MenuVisible(r.st, i))

\* build_conf() calls itself for every entry of a list, in order.
RECURSIVE Build(_, _, _)
Build(c, r, list) ==
    LET Follow(l) == Build(c, l, l.below \o Tail(list))
    IN  IF list = <<>> THEN r ELSE Follow(BuildEntry(c, r, Head(list)))

Top == stack[Len(stack)]
In(function) == stack # <<>> /\ Top[1] = function
Below == SubSeq(stack, 1, Len(stack) - 1)

Drawing ==
    LET c == [front |-> front[1], single |-> front[2], open |-> open, cur |-> Top[2],
              all |-> showAll /\ (In("choice") => front[1] = "nconf"),
              choice |-> IF In("choice") THEN SymOf(Top[2]) ELSE None]
    IN  Build(c, [st |-> st, items |-> {}],
              CASE In("choice") -> prog.kids[Top[2]] [] In("conf") -> <<Top[2]>> [] OTHER -> <<>>)

\* The top of every loop: nothing else happens before it.  child_count is never
\* reset, so conf() stays in a menu that has nothing to show any more.
Draw ==
    /\ stack # <<>> /\ ~drawn /\ drawn' = TRUE
    /\ \E d \in {Drawing} : st' = d.st /\ items' = d.items
    /\ UNCHANGED <<prog, front, stack, showAll, open, filename, files, mistyped>>

\* Mutant: the items are only drawn anew in another menu.
ShowKept(t, stk, all, opn) ==
    /\ drawn /\ drawn' = (stk = stack) /\ items' = IF stk = stack THEN items ELSE {}
    /\ st' = t /\ stack' = stk /\ showAll' = all /\ open' = opn
\* What a key did: the next round of the loop of the innermost function.
Show(t, stk, all, opn) ==
    /\ drawn /\ drawn' = FALSE /\ items' = {}
    /\ st' = t /\ stack' = stk /\ showAll' = all /\ open' = opn

Init ==
    /\ \E s \in Sessions : prog = s[1] /\ front = <<s[2], s[3]>>
    /\ \E t \in {NoFile(Unset)} : st = t
    /\ stack = <<<<"conf", 0>>>> /\ items = {} /\ drawn = FALSE /\ showAll = FALSE /\ open = {}
    /\ filename = Start /\ files = [n \in Names |-> Gone] /\ mistyped = FALSE

-----------------------------------------------------------------------------
(* The keys.                                                               *)

Push(function, i) == Append(stack, <<function, i>>)

Keep(t) == Show(t, stack, showAll, open)
Files == UNCHANGED <<prog, front, filename, files, mistyped>>

\* `y' makes a symbol that cannot be built in a module.
Press(item, v) ==
    /\ In("conf") /\ item.tag = "t"
    /\ LET s == SymOf(item.entry)
       IN  Keep(SetTo(st, s, IF v = yes /\ ~CanSet(st, s, yes) THEN mod ELSE v))
    /\ Files

Toggle(item) == Keep(SetTristate(st, SymOf(item.entry), Toggled(st, SymOf(item.entry))))

Space(item) ==
    /\ In("conf")
    /\ \/ item.tag = "t" /\ Toggle(item)
       \/ item.tag = "m" /\ Show(st, Push("conf", item.entry), showAll, open)
    /\ Files

\* Enter opens what there is to open, and in nconf.c toggles what there is not.
Opened(item) ==
    LET s == SymOf(item.entry)
    IN  CASE item.tag = "m" -> IF front[2] THEN None ELSE "conf"
          [] item.tag = "s" -> "string"
          [] item.tag = "t" /\ s \in Chooser /\ st.tri[s] = yes -> "choice"
          [] OTHER -> IF item.tag = "t" /\ item.entry \in prog.menus THEN "conf" ELSE None
Enter(item) ==
    LET i == item.entry
    IN  /\ In("conf")
        /\ \/ Opened(item) # None /\ Show(st, Push(Opened(item), i), showAll, open)
           \/ /\ item.tag = "m" /\ front[2]
              /\ Show(st, stack, showAll, IF i \in open THEN open \ {i} ELSE open \cup {i})
           \/ item.tag = "t" /\ Opened(item) = None /\ front[1] = "nconf" /\ Toggle(item)
        /\ Files

\* conf_choice(): the entry that was selected is set
Choose(item) ==
    LET s == SymOf(item.entry)
    IN  /\ In("choice") /\ s # None
        /\ Show(SetTo(st, s, yes), Below, showAll, open)
        /\ Files

\* conf_string(): an invalid number is asked for again
Type(n) ==
    LET s == SymOf(Top[2])
    IN  /\ In("string") /\ NumberWithin(st, s, n)
        /\ Show(SetNumber(st, s, n), Below, showAll, open)
        /\ Files

ShowAll == In("conf") /\ Show(st, stack, ~showAll, open) /\ Files

\* Where the results of a search lead: to the entry, or to the innermost menu
\* around it that is visible (get_prompt_str()).
RECURSIVE Location(_, _)
Location(t, i) ==
    LET Inside(v) == IF v.val THEN [st |-> v.st, at |-> i] ELSE Location(v.st, prog.par[i])
    IN  IF i = 0 THEN [st |-> t, at |-> 0] ELSE Inside(MenuVisible(t, i))
Search(i) ==
    /\ front[1] = "mconf" /\ In("conf") /\ Len(stack) < MaxDepth
    /\ SymOf(i) # None /\ HasPrompt(prog, i)
    /\ \E around \in {Location(Calculated(st, SymOf(i)), prog.par[i])} :
        /\ around.at # 0
        /\ \E own \in {MenuVisible(around.st, i)} :
            Show(own.st, Push("conf", prog.par[IF own.val THEN i ELSE around.at]), showAll, open)
    /\ Files

\* Saving and loading; the keys of nconf.c work in a choice list, too.
Dialog == In("conf") \/ (In("choice") /\ front[1] = "nconf")
Save(n) ==
    \E w \in {ConfWrite(st)} :
        /\ Dialog /\ files' = [files EXCEPT ![n] = w.file] /\ filename' = n
        /\ Keep(w.st) /\ mistyped' = FALSE /\ UNCHANGED <<prog, front>>
\* conf_read() forgets that there are changes before it looks for the file.
Load(n) ==
    /\ Dialog /\ mistyped' = (files[n] = Gone)
    /\ filename' = IF files[n] = Gone THEN filename ELSE n
    /\ Keep(IF files[n] = Gone THEN [NoFile(st) EXCEPT !.changed = FALSE]
            ELSE [ConfRead(st, files[n]) EXCEPT !.changed = TRUE])
    /\ UNCHANGED <<prog, front, files>>

Back == /\ Len(stack) > 1
        /\ Show(st, Below, showAll, open) /\ Files

\* handle_exit(), do_exit(): at the main menu, or by the key of nconf.c and the
\* interrupt of mconf.c anywhere, leave without a word if nothing has changed,
\* else save or do not.
Leave(save) ==
    LET w == ConfWrite(st)
    IN  /\ stack # <<>> /\ (front[1] = "nconf" => ~In("string"))
        /\ save => st.changed
        /\ files' = IF save THEN [files EXCEPT ![filename] = w.file] ELSE files
        /\ Show(Unset, <<>>, FALSE, {})
        /\ UNCHANGED <<prog, front, filename, mistyped>>

\* A key on an item; nconf.c looks again whether its entry is visible.
Key == \E item \in items :
    /\ front[1] = "nconf" => MenuVisible(st, item.entry).val
    /\ Space(item) \/ Enter(item) \/ Choose(item) \/ \E v \in Tri : Press(item, v)
Next ==
    \/ Draw
    \/ Key
    \/ \E n \in Amounts : Type(n)
    \/ \E i \in DOMAIN prog.sym : Search(i)
    \/ \E n \in Names : Save(n) \/ Load(n)
    \/ ShowAll \/ Back
    \/ \E save \in BOOLEAN : Leave(save)

Spec == Init /\ [][Next]_vars

-----------------------------------------------------------------------------
(* Correctness.                                                            *)

\* A choice has no name in a file.
ValuesOf(t) == [s \in Known \ Chooser |-> StringValue(t, s)]
AtMenu == drawn /\ stack = <<<<"conf", 0>>>> /\ ~showAll
\* A choice that is set while its values are new counts as new itself: the
\* next change of any symbol unsets it.
SetInVain(t) == {c \in Chooser \cap t.valid : t.tri[c] = yes /\ t.def[c] # no}
\* What the user's values are worth in a process that has calculated nothing.
FromUser(t) ==
    CalcAll(ClearAllValid([Unset EXCEPT !.user = t.user \cup SetInVain(t),
                                        !.def = t.def, !.pick = t.pick]))

\* A value that is taken for calculated is the one the user's values give,
\* whatever was calculated before and in which order.
Coherent ==
    LET Same(fresh) == \A s \in st.valid \cap Known : StringValue(st, s) = StringValue(fresh, s)
    IN  drawn => Same(FromUser(st))

\* What the screen shows is the value (nconf.c shows stale values if it shows
\* all).
ShownIsTrue ==
    LET True(now) == \A item \in items :
            /\ item.tag \in {"t", "s"} => item.val = StringValue(now, SymOf(item.entry))
            /\ item.pick # None => now.tri[item.pick] = yes
    IN  ~(showAll /\ front[1] = "nconf") => True(CalcAll(st))

\* A choice that is set has one value, and any other symbol gets no more than
\* what it depends on, or what selects it, allows.
ValuesLegal ==
    LET Legal(now) == \A s \in Known \cap Symbols :
            /\ s \in Chooser /\ now.tri[s] = yes
                => Cardinality({v \in Values(s) : now.tri[v] = yes}) = 1
            /\ ~IsValue(s) => now.tri[s] <= Promoted(Most(now.dir[s], now.rev[s]), TRUE)
    IN  AtMenu => Legal(CalcAll(st))

\* Values are what the user's settings give, and legal.
ValuesTrue == Coherent /\ ValuesLegal

\* When the program would end without asking, another process gets the values
\* this one shows from the file, unless the name of no file was entered to be
\* loaded and nothing was saved or loaded since: then changes are lost.
NothingLost ==
    AtMenu /\ ~st.changed /\ ~mistyped =>
        /\ files[filename] # Gone
        /\ ValuesOf(CalcAll(ConfRead(Unset, files[filename]))) = ValuesOf(CalcAll(st))

\* The minimal configuration gives another process the same values, once the
\* rest got its defaults.  (Writing it calculates all values anew, and unsets
\* what was set in vain.)
MinimalEnough ==
    LET Fresh(file) == SetAllNew(ConfRead(Unset, file), "def_default", [s \in All |-> no]).st
        Enough(w) == ValuesOf(CalcAll(Fresh(w.file))) = ValuesOf(CalcAll(w.st))
    IN  AtMenu => Enough(WriteDefconfig(CalcAll(st)))

\* SYMBOL_WRITE of the values of a choice is set and not reset while they are
\* hidden: they are written as not set, and the reader says they changed.
StaleLine(w) == \E n \in DOMAIN w.file : IsValue(w.file[n][1]) /\ w.st.vis[w.file[n][1]] = no
\* A choice that is `m' without a value that is leaves no trace in a file.
Traceless(t) == \E c \in Chooser \cap Known : t.tri[c] = mod /\ \A s \in Values(c) : t.tri[s] = no

\* A configuration that was just saved needs no saving.
SavedIsSettled ==
    LET Settled(w) == StaleLine(w) \/ Traceless(w.st) \/ ~ConfRead(Unset, w.file).changed
    IN  AtMenu => Settled(ConfWrite(CalcAll(st)))

\* A key that may set a symbol gives it that value, whatever hangs on it.
KeysWork ==
    \A item \in items : item.tag = "t" =>
        LET s == SymOf(item.entry)
        IN  \A v \in Tri : CanSet(st, s, v) => Calculated(SetTristate(st, s, v), s).tri[s] = v

\* A configuration survives the program, and one that was saved is settled.
FileTrue == NothingLost /\ SavedIsSettled

\* The screen shows the values, and its keys set them.
ScreenTrue == ShownIsTrue /\ KeysWork
=============================================================================
