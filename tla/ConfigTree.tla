----------------------------- MODULE ConfigTree -----------------------------
(***************************************************************************)
(* The tree of menu entries of a configuration (scripts/kconfig/menu.c):   *)
(* what the parser adds to it, and menu_finalize().                        *)
(*                                                                         *)
(* The entries are numbered as they are read; 0 is rootmenu.  The list and *)
(* next pointers are a sequence of children for each entry.  A record h is *)
(* everything that hangs on entries and symbols; an operator takes it and  *)
(* returns it changed.  Types are given (Booleans, Tristates, any other    *)
(* symbol is a number); texts, help and warnings are left out.             *)
(***************************************************************************)
EXTENDS ConfigExpr, FiniteSets, SequencesExt

CONSTANTS
    Chooser,        \* the logical symbols that are choices
    Optional        \* those that may be left without a value

None == "none"
Root == 0

Empty(syms) ==
    [sym |-> <<>>,                          \* menu->sym or None
     par |-> <<>>,                          \* menu->parent
     kids |-> [i \in {Root} |-> <<>>],      \* menu->list and what follows
     dep |-> <<>>,                          \* menu->dep
     seen |-> <<>>,                         \* menu->visibility
     props |-> [s \in syms |-> <<>>],    \* sym->prop
     title |-> [i \in {Root} |-> NIL],      \* the visibility of the prompt of a
                                            \* menu, which belongs to no symbol
     rev |-> [s \in syms |-> NIL], dir |-> [s \in syms |-> NIL],
     values |-> [c \in Chooser |-> <<>>]]   \* the list of P_CHOICE

-----------------------------------------------------------------------------
(* What the parser calls.                                                  *)

\* change 'm' into 'm' && MODULES
RECURSIVE CheckDep(_)
CheckDep(e) ==
    CASE e[1] = "NOT" -> Not(CheckDep(e[2]))
      [] e[1] \in Junction -> <<e[1], CheckDep(e[2]), CheckDep(e[3])>>
      [] e = Sym("m") -> And(e, Sym("MODULES"))
      [] OTHER -> e

Prop(kind, vis, expr, i) == [kind |-> kind, vis |-> vis, expr |-> expr, menu |-> i]

AddEntry(h, s, at) ==
    LET i == Len(h.sym) + 1
        h1 == [h EXCEPT !.sym = Append(@, s), !.par = Append(@, at),
                        !.kids = [j \in DOMAIN @ \cup {i} |->
                                    CASE j = i -> <<>> [] j = at -> Append(@[j], i) [] OTHER -> @[j]],
                        !.dep = Append(@, NIL), !.seen = Append(@, NIL)]
    IN  IF s = None THEN h1
        ELSE [h1 EXCEPT !.props[s] = Append(@, Prop("symbol", NIL, Sym(s), i))]
Newest(h) == Len(h.sym)

AddDep(h, dep) == [h EXCEPT !.dep[Newest(h)] = And(@, CheckDep(dep))]
AddVisibility(h, e) == [h EXCEPT !.seen[Newest(h)] = And(@, e)]

\* The `visible if' of all menus above an entry, joined to the condition of a
\* prompt.
RECURSIVE UpperVisibility(_, _, _)
UpperVisibility(h, i, vis) ==
    IF i = Root THEN vis
    ELSE UpperVisibility(h, h.par[i], And(vis, h.seen[i]))

AddProp(h, kind, vis, expr) ==
    LET i == Newest(h)
        all == IF kind = "prompt" THEN UpperVisibility(h, h.par[i], CheckDep(vis)) ELSE CheckDep(vis)
    IN  [h EXCEPT !.props[h.sym[i]] = Append(@, Prop(kind, all, expr, i))]

AddTitle(h) == [h EXCEPT !.title = [j \in DOMAIN @ \cup {Newest(h)} |-> IF j = Newest(h) THEN NIL ELSE @[j]]]

\* menu->prompt: the last prompt of the entry's symbol that the entry gave it.
Prompts(h, i) == IF i = Root \/ h.sym[i] = None THEN <<>>
                 ELSE SelectSeq(h.props[h.sym[i]], LAMBDA p : p.kind = "prompt" /\ p.menu = i)
HasPrompt(h, i) == i \in DOMAIN h.title \/ Prompts(h, i) # <<>>
PromptVisible(h, i) == IF i \in DOMAIN h.title THEN h.title[i]
                       ELSE Prompts(h, i)[Len(Prompts(h, i))].vis

-----------------------------------------------------------------------------
(* menu_finalize().                                                        *)

\* Mutant: the condition of a select is left as it was read.
SelectUnfinished(base, s, p) ==
    LET dep == EliminateDups(And(base, Transform(p.vis)))
    IN  IF p.kind = "select" THEN p
        ELSE [p EXCEPT !.vis = IF s \in Tristates THEN dep ELSE TransBool(dep)]
\* The dependencies of parent's list are joined with its own and propagated
\* to the properties; a select becomes a reverse dependency.
FinalizeProp(base, s, p) ==
    LET dep == EliminateDups(And(base, Transform(p.vis)))
    IN  [p EXCEPT !.vis = IF s \in Tristates THEN dep ELSE TransBool(dep)]

RECURSIVE AddRevDeps(_, _, _)
AddRevDeps(h, s, props) ==
    IF props = <<>> THEN h
    ELSE AddRevDeps([h EXCEPT !.rev[Head(props).expr[2]] = Or(@, And(Sym(s), Head(props).vis))],
                    s, Tail(props))

\* h with base as the dependency of entry i.
PropagateBase(h, i, base) ==
    LET s == h.sym[i]
        h1 == [h EXCEPT !.dep[i] = base]
        Finalized(acc, p) == Append(acc, IF p.menu = i THEN FinalizeProp(base, s, p) ELSE p)
        WithProps(props) ==
            AddRevDeps([h1 EXCEPT !.props[s] = props], s,
                       SelectSeq(props, LAMBDA p : p.kind = "select" /\ p.menu = i))
    IN  IF s # None THEN WithProps(FoldLeft(Finalized, <<>>, h.props[s]))
        ELSE IF i \in DOMAIN h.title
        THEN [h1 EXCEPT !.title[i] = EliminateDups(And(base, Transform(@)))]
        ELSE h1
PropagateTo(h, i, parentdep) ==
    PropagateBase(h, i, EliminateDups(And(parentdep, Transform(h.dep[i]))))

Propagate(h, i) ==
    LET s == IF i = Root THEN None ELSE h.sym[i]
        parentdep == IF s \in Chooser THEN Sym(s)
                     ELSE IF HasPrompt(h, i) THEN PromptVisible(h, i) ELSE h.dep[i]
    IN  FoldLeft(LAMBDA acc, k : PropagateTo(acc, k, parentdep), h, h.kids[i])

Visibility(h, i) == IF HasPrompt(h, i) THEN PromptVisible(h, i) ELSE h.dep[i]
NotNo(e) == EliminateDups(Transform(TransCompare(e, "NE", "n")))

\* Mutant: any entry that mentions the symbol is taken below it.
BelongsMentioned(h, k, i) == ContainsSymbol(Visibility(h, k), h.sym[i])
\* Does entry k go into the submenu of entry i before it?
BelongsBelow(h, k, i) ==
    LET dep == Visibility(h, k)
        base == NotNo(IF HasPrompt(h, i) THEN PromptVisible(h, i) ELSE NIL)
    IN  /\ ContainsSymbol(dep, h.sym[i])
        /\ \/ DependsSymbol(dep, h.sym[i])
           \/ IsYes(EliminateEq(NotNo(dep), base)[2])

PositionOf(h, i) == CHOOSE n \in DOMAIN h.kids[h.par[i]] : h.kids[h.par[i]][n] = i

\* Mutant: the entries after those taken are lost.
TakeAll(h, i, first, last) ==
    LET p == h.par[i]
        below == SubSeq(h.kids[p], first, last)
    IN  IF below = <<>> THEN h
        ELSE [h EXCEPT !.kids[i] = below, !.kids[p] = SubSeq(@, 1, first - 1),
                       !.par = [j \in DOMAIN @ |-> IF j \in ToSet(below) THEN i ELSE @[j]]]
\* Entries first .. last of the list that entry i is in become its own list.
TakeBelow(h, i, first, last) ==
    LET p == h.par[i]
        l == h.kids[p]
        below == SubSeq(l, first, last)
    IN  IF below = <<>> THEN h
        ELSE [h EXCEPT !.kids[i] = below,
                       !.kids[p] = SubSeq(l, 1, first - 1) \o SubSeq(l, last + 1, Len(l)),
                       !.par = [j \in DOMAIN @ |-> IF j \in ToSet(below) THEN i ELSE @[j]]]

\* An entry of a choice becomes one of its values; unless it is tristate it
\* depends on a tristate choice being `y'.
AddChoiceValue(h, c, k) ==
    LET s == h.sym[k]
        isY == Comp("EQ", c, "y")
        h1 == [h EXCEPT !.dep[k] = And(isY, @),
                        !.props[s] = [n \in DOMAIN @ |->
                            IF @[n].menu = k THEN [@[n] EXCEPT !.vis = And(isY, @)] ELSE @[n]]]
        h2 == IF c \in Tristates /\ s \notin Tristates THEN h1 ELSE h
    IN  IF s = None \/ \E d \in Chooser : s \in ToSet(h.values[d]) THEN h
        ELSE [h2 EXCEPT !.props[s] = Append(@, Prop("choice", NIL, Sym(c), k)),
                        !.values[c] = Append(@, s)]

\* The last loop over the list of entry i: values of a choice, and the lists
\* of entries without a prompt, which are moved up.
RECURSIVE Settle(_, _, _)
Settle(h, i, n) ==
    IF n > Len(h.kids[i]) THEN h
    ELSE LET k == h.kids[i][n]
             s == IF i = Root THEN None ELSE h.sym[i]
             h1 == IF s \in Chooser THEN AddChoiceValue(h, s, k) ELSE h
             up == h1.kids[k]
             h2 == [h1 EXCEPT !.kids[k] = <<>>,
                              !.kids[i] = SubSeq(@, 1, n) \o up \o SubSeq(@, n + 1, Len(@)),
                              !.par = [j \in DOMAIN @ |-> IF @[j] = k THEN i ELSE @[j]]]
         IN  Settle(IF up # <<>> /\ ~HasPrompt(h1, k) THEN h2 ELSE h1, i, n + 1)

RECURSIVE Finalize(_, _), FinalizeList(_, _, _), Gather(_, _, _)
FinalizeList(h, i, n) ==
    IF n > Len(h.kids[i]) THEN h
    ELSE FinalizeList(Finalize(h, h.kids[i][n]), i, n + 1)

\* The entries behind i that belong below it are finalized, one by one; last
\* is the position of the last one.
Gather(h, i, last) ==
    LET l == h.kids[h.par[i]]
        k == l[last + 1]
    IN  IF last + 1 > Len(l) \/ ~BelongsBelow(h, k, i)
        THEN TakeBelow(h, i, PositionOf(h, i) + 1, last)
        ELSE Gather(Finalize(h, k), i, last + 1)

Finalize(h, i) ==
    LET s == IF i = Root THEN None ELSE h.sym[i]
        WithDir(h1) == IF s # None THEN [h1 EXCEPT !.dir[s] = Or(@, h1.dep[i])] ELSE h1
        WithMod(h1) == IF s \in Chooser \ Optional /\ HasPrompt(h1, i)
                       THEN [h1 EXCEPT !.rev[s] = Or(@, And(PromptVisible(h1, i), Sym("m")))]
                       ELSE h1
        Below == IF h.kids[i] # <<>> THEN FinalizeList(Propagate(h, i), i, 1)
                 ELSE IF s # None THEN WithDir(Gather(h, i, PositionOf(h, i)))
                 ELSE h
    IN  WithMod(Settle(Below, i, 1))

\* The entries below i as the front ends and the writers walk through them.
RECURSIVE Preorder(_, _)
Preorder(h, i) ==
    FoldLeft(LAMBDA acc, k : acc \o <<k>> \o Preorder(h, k), <<>>, h.kids[i])
=============================================================================
