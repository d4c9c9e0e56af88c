----------------------------- MODULE ConfigData -----------------------------
(***************************************************************************)
(* Reading and writing configurations (scripts/kconfig/confdata.c), and    *)
(* conf_set_all_new_symbols().                                             *)
(*                                                                         *)
(* A configuration file is the sequence of its lines, <<symbol, value>>;   *)
(* `# CONFIG_A is not set' is <<"A", no>>.  As in ConfigSymbol, a function *)
(* takes the fields of all symbols and returns them changed.  A symbol has *)
(* one prompt at most.  What is printed besides the lines is left out.     *)
(***************************************************************************)
EXTENDS ConfigSymbol

SymOf(i) == IF i = 0 THEN None ELSE prog.sym[i]
Known == {s \in All : \E i \in DOMAIN prog.sym : prog.sym[i] = s}
HashOrder == SetToSeq(Known)        \* for_all_symbols()

RECURSIVE CalcList(_, _)
CalcList(t, syms) == IF syms = <<>> THEN t ELSE CalcList(Calculated(t, Head(syms)), Tail(syms))
CalcAll(t) == CalcList(t, HashOrder)

-----------------------------------------------------------------------------
(* The menu as the front ends and the writers walk through it.             *)

\* menu_is_visible(): a symbol that is set shows the entries below it even if
\* its own prompt is hidden, and then counts as set by the user.
RECURSIVE MenuVisible(_, _), AnyVisible(_, _)
MenuVisible(t, i) ==
    LET s == SymOf(i)
        Vis(u) == Result(u, u.vis[s])
        Used(below) == [below EXCEPT !.st.user = IF below.val THEN @ \cup {s} ELSE @]
        Own(own) == IF own.val # no THEN Result(own.st, TRUE)
                    ELSE IF s \notin Symbols \/ (s \in Symbols /\ own.st.tri[s] = no)
                    THEN Result(own.st, FALSE)
                    ELSE Used(AnyVisible(own.st, prog.kids[i]))
        Seen(seen) == IF seen.val = no THEN Result(seen.st, FALSE)
                      ELSE Own(IF s # None THEN Vis(Calculated(seen.st, s)) ELSE Eval(seen.st, prog.title[i]))
    IN  IF HasPrompt(prog, i) THEN Seen(IF i = 0 THEN Result(t, yes) ELSE Eval(t, prog.seen[i]))
        ELSE Result(t, FALSE)
AnyVisible(t, kids) ==
    LET First(r) == IF r.val THEN r ELSE AnyVisible(r.st, Tail(kids))
    IN  IF kids = <<>> THEN Result(t, FALSE) ELSE First(MenuVisible(t, Head(kids)))

-----------------------------------------------------------------------------
(* conf_read_simple(), conf_read().                                        *)

Gone == << <<None, no>> >>      \* in place of the lines: there is no such file

Cleared(t) ==
    [t EXCEPT !.valid = {}, !.user = Chooser, !.pick = [c \in Chooser |-> None],
              !.def = [s \in All |-> IF s \in Numbers THEN EMPTY ELSE no]]

\* conf_set_sym_val()
Settable(s, v) == s \in Numbers => v # EMPTY
Fits(s, v) == s \in Booleans => v # mod

\* A value of a choice sets the choice to the most its lines say.
SetChoiceOf(r, s, v) ==
    LET c == ChoiceOf(s)
        before == r.st.def[c]
        t == [r.st EXCEPT !.def[c] = Most(@, v),
                          !.pick[c] = IF v = yes THEN s ELSE @,
                          !.user = IF v = mod /\ before = yes THEN @ \ {c} ELSE @]
        odd == (v = mod /\ before = yes) \/ (v = yes /\ before # no)
    IN  IF c = None THEN r ELSE [st |-> t, warned |-> r.warned \/ odd]

ReadLine(r, line) ==
    LET s == line[1]
        v == line[2]
        warned == r.warned \/ s \in r.st.user
        set == [r.st EXCEPT !.def[s] = v, !.user = @ \cup {s}]
    IN  IF s \notin Known THEN [r EXCEPT !.st.changed = TRUE]
        ELSE IF ~(Settable(s, v) /\ Fits(s, v)) THEN [r EXCEPT !.warned = TRUE]
        ELSE SetChoiceOf([st |-> set, warned |-> warned], s, v)

ReadSimple(t, file) == FoldLeft(ReadLine, [st |-> Cleared(t), warned |-> FALSE], file)

StringValue(t, s) ==
    IF s \in Numbers THEN t.num[s]
    ELSE IF t.tri[s] = mod /\ t.tri["MODULES"] = no THEN no ELSE t.tri[s]

\* Mutant: whether the symbol is to be written is not looked at.
UnsavedAnyway(t, s) ==
    s \in t.user => IF s \in Numbers THEN t.def[s] # t.num[s] ELSE t.def[s] # t.tri[s]
\* Does the value that was read differ from the calculated one?
Unsaved(t, s) ==
    IF s \in t.user /\ s \in t.write
    THEN IF s \in Numbers THEN t.def[s] # t.num[s] ELSE t.def[s] # t.tri[s]
    ELSE s \in t.user \/ s \in t.write

RECURSIVE Compared(_, _), Reset(_, _)
Compared(r, syms) ==
    LET Of(t, s) == Compared([st |-> t, unsaved |-> r.unsaved \/ (s \notin Chooser /\ Unsaved(t, s))],
                             Tail(syms))
    IN  IF syms = <<>> THEN r ELSE Of(Calculated(r.st, Head(syms)), Head(syms))

\* Values that are not visible shall appear as new once they are, if nothing
\* was to be saved; a number out of range is dropped.
ResetHidden(r, s) ==
    LET hide == r.st.vis[s] = no /\ ~r.unsaved
        t == [r.st EXCEPT !.user = IF hide THEN @ \ {s} ELSE @]
    IN  IF s \notin r.st.user \/ IsValue(s) THEN r
        ELSE IF s \in Numbers /\ ~NumberWithin(t, s, t.def[s])
        THEN [st |-> [t EXCEPT !.user = @ \ {s}, !.valid = @ \ {s}], unsaved |-> TRUE]
        ELSE [r EXCEPT !.st = t]
Reset(r, syms) == IF syms = <<>> THEN r ELSE Reset(ResetHidden(r, Head(syms)), Tail(syms))

\* file: None if there is none
ConfRead(t, file) ==
    LET Marked(changed, r) == [r.st EXCEPT !.changed = changed \/ r.unsaved]
        Of(r) == Marked(r.st.changed \/ r.warned,
                        Reset(Compared([st |-> Calculated(r.st, "MODULES"), unsaved |-> FALSE], HashOrder),
                              HashOrder))
    IN  Of(ReadSimple([t EXCEPT !.changed = FALSE], file))
NoFile(t) == Calculated([t EXCEPT !.changed = TRUE], "MODULES")

-----------------------------------------------------------------------------
(* conf_write(), conf_write_defconfig().                                   *)

\* What is written of a symbol: its line, if it is to be written and not yet is.
Written(r, t, s, needed) ==
    IF s \notin t.write THEN [r EXCEPT !.st = t]
    ELSE [st |-> [t EXCEPT !.write = @ \ {s}],
          file |-> IF needed THEN Append(r.file, <<s, StringValue(t, s)>>) ELSE r.file]

RECURSIVE Write(_, _), WriteMinimal(_, _)
Write(r, list) ==
    LET i == Head(list)
        Follow(n) == Write(n, Tail(list))
        Line(t, s) == Written(r, t, s, TRUE)
    IN  IF list = <<>> THEN r
        ELSE Follow(CASE SymOf(i) = None -> [r EXCEPT !.st = MenuVisible(@, i).st]
                     [] SymOf(i) \in Chooser -> r
                     [] OTHER -> Line(Calculated(r.st, SymOf(i)), SymOf(i)))

ConfWrite(t) ==
    LET Saved(r) == [r EXCEPT !.st.changed = FALSE]
    IN  Saved(Write([st |-> IF t.changed THEN t ELSE ClearAllValid(t), file |-> <<>>],
                    Preorder(prog, 0)))

\* Mutant: the default of a choice that may be unset is left out, too.
RedundantOptional(t, s) ==
    \/ t.vis[s] <= t.rev[s]
    \/ StringValue(t, s) = StringDefault(t, s)
    \/ /\ IsValue(s) /\ s \in Booleans /\ t.tri[s] = yes
       /\ VisibleDefault(t, ChoiceOf(s), prog.props[ChoiceOf(s)]).sym = s
\* Is the value what a symbol gets anyway?
Redundant(t, s) ==
    \/ t.vis[s] <= t.rev[s]                 \* sym_is_changable()
    \/ StringValue(t, s) = StringDefault(t, s)
    \/ /\ IsValue(s) /\ s \in Booleans /\ t.tri[s] = yes
       /\ ChoiceOf(s) \notin Optional
       /\ VisibleDefault(t, ChoiceOf(s), prog.props[ChoiceOf(s)]).sym = s

WriteMinimal(r, list) ==
    LET i == Head(list)
        Follow(n) == WriteMinimal(n, Tail(list))
        Line(t, s) == Written(r, t, s, s \in t.write => ~Redundant(t, s))
    IN  IF list = <<>> THEN r
        ELSE Follow(CASE SymOf(i) = None -> [r EXCEPT !.st = MenuVisible(@, i).st]
                     [] SymOf(i) \in Chooser -> r
                     [] OTHER -> Line(Calculated(r.st, SymOf(i)), SymOf(i)))
WriteDefconfig(t) == WriteMinimal([st |-> ClearAllValid(t), file |-> <<>>], Preorder(prog, 0))

-----------------------------------------------------------------------------
(* conf_set_all_new_symbols().                                             *)

\* The value a new symbol is given; draw is what rand() said.
NewValue(mode, s, draw) ==
    CASE mode = "def_yes" -> yes
      [] mode = "def_mod" -> mod
      [] mode = "def_no" -> IF s \in prog.allnoY THEN yes ELSE no
      [] mode = "def_random" -> IF s \in Booleans /\ draw[s] = mod THEN yes ELSE draw[s]

New(t) == (Known \cap Symbols) \ (t.user \cup t.valid)
SetNew(t, mode, draw) ==
    LET new == New(t)
    IN  IF mode = "def_default" THEN t
        ELSE [t EXCEPT !.def = [s \in All |-> IF s \in new THEN NewValue(mode, s, draw) ELSE @[s]],
                       !.user = @ \cup (new \ (IF mode = "def_random" THEN Chooser ELSE {}))]

\* randomize_choice_values(): any value is picked, visible or not.
Randomized(t, c, draw) ==
    LET picked == prog.values[c][1 + (draw[c] % Len(prog.values[c]))]
    IN  [t EXCEPT !.def = [s \in All |-> IF s = picked THEN yes
                                         ELSE IF s \in Values(c) THEN no ELSE @[s]],
                  !.pick[c] = picked, !.user = @ \cup Values(c) \cup {c},
                  !.valid = @ \ (Values(c) \cup {c})]

RECURSIVE SetNewChoices(_, _, _, _)
SetNewChoices(r, mode, draw, choices) ==
    LET c == Head(choices)
        Set(u) == IF mode # "def_random" THEN [st |-> SetAllChoiceValues(u, c), again |-> TRUE]
                  ELSE [st |-> IF u.tri[c] = yes THEN Randomized(u, c, draw) ELSE u,
                        again |-> u.tri[c] = yes]
    IN  IF choices = <<>> THEN r
        ELSE SetNewChoices(IF c \in r.st.user THEN r ELSE Set(Calculated(r.st, c)), mode, draw, Tail(choices))

\* again: did it change anything, as far as it tells
SetAllNew(t, mode, draw) ==
    LET Marked(u) ==
            LET open == {c \in Chooser \cap Known : c \notin u.user}
            IN  IF mode = "def_random" THEN u
                ELSE [u EXCEPT !.needSet = @ \cup open \cup {s \in Known : IsValue(s)}]
    IN  SetNewChoices([st |-> Marked(ClearAllValid(SetNew(t, mode, draw))), again |-> New(t) # {}],
                      mode, draw, SelectSeq(HashOrder, LAMBDA s : s \in Chooser))
=============================================================================
