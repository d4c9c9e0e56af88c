----------------------------- MODULE ConfigMenu -----------------------------
(***************************************************************************)
(* Reading a configuration: the calls the parser (scripts/kconfig/zconf.y) *)
(* makes for its blocks, menu_finalize() on what they built (ConfigTree),  *)
(* and the check for cycles that follows (sym_check_deps() of symbol.c).   *)
(***************************************************************************)
EXTENDS ConfigTree

CONSTANTS
    Deps,           \* the dependencies the parser reads
    Selects,        \* what a symbol may select
    Defaults,       \* the values its default may have
    MaxEntries,     \* bound on the entries that are read
    MaxConditions   \* bound on dependencies, `visible if's, defaults and selects

VARIABLES
    g,              \* entries and symbols
    current_menu,
    phase,          \* "parse", "finalize", then the symbols are checked
    unchecked,      \* the symbols conf_parse() has still to check
    report          \* the cycles sym_check_deps() reported: their first symbols

vars == <<g, current_menu, phase, unchecked, report>>

Entries == DOMAIN g.sym

-----------------------------------------------------------------------------
(* sym_check_deps().  c: the symbols being checked (SYMBOL_CHECK), those   *)
(* checked, the stack of the symbols on the way (dep_stack), and the       *)
(* cycles reported.  found is the symbol a cycle was closed at.            *)

ChoiceOf(s) == IF \E d \in Chooser : s \in ToSet(g.values[d])
               THEN CHOOSE d \in Chooser : s \in ToSet(g.values[d]) ELSE None

\* Every check returns at once when a cycle was found before.
RECURSIVE CheckDeps(_, _), CheckExpr(_, _)
CheckSymbol(c, s) == IF s \in Consts \/ c.found # None THEN c ELSE CheckDeps(c, s)
CheckExpr(c, e) ==
    CASE e = NIL \/ c.found # None -> c
      [] e[1] = "SYM" -> CheckSymbol(c, e[2])
      [] e[1] = "NOT" -> CheckExpr(c, e[2])
      [] e[1] \in Junction -> CheckExpr(CheckExpr(c, e[2]), e[3])
      [] e[1] \in Compare -> CheckSymbol(CheckSymbol(c, e[2]), e[3])

\* Mutant: defaults are not followed.
CheckVisible(c, s, p) == IF p.kind \in {"choice", "select"} THEN c ELSE CheckExpr(c, p.vis)
CheckProp(c, s, p) ==
    IF p.kind \in {"choice", "select"} THEN c
    ELSE CheckExpr(CheckExpr(c, p.vis),
                   IF p.kind = "default" /\ s \notin Chooser THEN p.expr ELSE NIL)

\* Mutant: the symbols that select s are not followed.
CheckOwn(c, s) == FoldLeft(LAMBDA d, p : CheckProp(d, s, p), c, g.props[s])
CheckSym(c, s) ==
    FoldLeft(LAMBDA d, p : CheckProp(d, s, p), CheckExpr(c, g.rev[s]), g.props[s])

Entered(c, syms) == [c EXCEPT !.check = @ \cup syms, !.checked = @ \cup syms]
Left(c, syms) == [c EXCEPT !.check = @ \ syms]

\* A cycle through the choice that was closed at one of its values is its own.
CheckChoice(c, ch) ==
    LET vals == ToSet(g.values[ch])
        Leave(d) == [d EXCEPT !.check = @ \ vals,
                              !.found = IF @ # None /\ ChoiceOf(@) = ch THEN ch ELSE @]
    IN  Leave(FoldLeft(LAMBDA d, s : IF d.found # None THEN d ELSE CheckSym(d, s),
                       Left(CheckSym(Entered(c, vals \cup {ch}), ch), {ch}), g.values[ch]))

CheckDeps(c, s) ==
    LET Closed(d) == [d EXCEPT !.found = IF @ = s THEN None ELSE @]
    IN  IF s \in c.check THEN [c EXCEPT !.found = s, !.report = @ \cup {s}]
        ELSE IF s \in c.checked THEN c
        ELSE Closed(CASE ChoiceOf(s) # None -> CheckDeps(c, ChoiceOf(s))
                      [] s \in Chooser -> CheckChoice(c, s)
                      [] OTHER -> Left(CheckSym(Entered(c, {s}), s), {s}))

-----------------------------------------------------------------------------
(* conf_parse(): the blocks of zconf.y, each with the calls it makes, then *)
(* menu_finalize() and the check of every symbol.                          *)

Init ==
    /\ g = Empty(Symbols) /\ current_menu = Root /\ phase = "parse"
    /\ unchecked = {} /\ report = {}

Reading == phase = "parse" /\ UNCHANGED <<phase, unchecked, report>>
Conditions(h) ==
    Cardinality({i \in DOMAIN h.dep : h.dep[i] # NIL}) +
    Cardinality({i \in DOMAIN h.seen : h.seen[i] # NIL}) +
    Cardinality({s \in Symbols : \E n \in DOMAIN h.props[s] : h.props[s][n].kind = "select"}) +
    Cardinality({s \in Symbols : \E n \in DOMAIN h.props[s] : h.props[s][n].kind = "default"})
Room == Newest(g') <= MaxEntries /\ Conditions(g') <= MaxConditions
New(s) == \A i \in Entries : g.sym[i] # s
Inside(c) == current_menu # Root /\ g.sym[current_menu] \in c

WithPrompt(h, prompted) == IF prompted THEN AddProp(h, "prompt", NIL, NIL) ELSE h
WithDefault(h, e) == IF e = NIL THEN h ELSE AddProp(h, "default", NIL, e)
WithSelect(h, t) == IF t = None THEN h ELSE AddProp(h, "select", NIL, Sym(t))

ReadConfig ==
    /\ Reading
    /\ \E s \in Symbols \ Chooser, dep \in Deps, prompted \in BOOLEAN,
          e \in Defaults \cup {NIL}, t \in Selects \cup {None} :
        /\ New(s) /\ s # "MODULES" /\ t # s
        /\ Inside(Chooser) => prompted
        /\ g' = WithSelect(WithDefault(WithPrompt(AddDep(AddEntry(g, s, current_menu), dep), prompted), e), t)
    /\ Room /\ UNCHANGED current_menu

ReadChoice ==
    /\ Reading /\ ~Inside(Chooser)
    /\ \E c \in Chooser, dep \in Deps :
        /\ New(c)
        /\ g' = AddProp(AddDep(AddProp(AddEntry(g, c, current_menu), "choice", NIL, NIL), dep),
                           "prompt", NIL, NIL)
    /\ Room /\ current_menu' = Newest(g')

\* A menu with `visible if', an `if' block
ReadMenu ==
    /\ Reading /\ ~Inside(Chooser)
    /\ \E dep \in Deps, seen \in Deps :
            g' = AddDep(AddVisibility(AddTitle(AddEntry(g, None, current_menu)), seen), dep)
    /\ Room /\ current_menu' = Newest(g')

ReadIf ==
    /\ Reading
    /\ \E dep \in Deps \ {NIL} : g' = AddDep(AddEntry(g, None, current_menu), dep)
    /\ Room /\ current_menu' = Newest(g')

EndMenu ==
    /\ Reading /\ current_menu # Root
    /\ current_menu' = g.par[current_menu]
    /\ UNCHANGED g

FinalizeAll ==
    /\ phase = "parse" /\ current_menu = Root /\ Entries # {}
    /\ g' = Finalize(g, Root) /\ phase' = "check"
    /\ unchecked' = Symbols /\ UNCHANGED <<current_menu, report>>

\* One of the symbols in the order of the hash table; those that were met on
\* the way of another are CHECKED.
CheckAll ==
    /\ phase = "check"
    /\ \E order \in {SetToSeq(unchecked), Reverse(SetToSeq(unchecked))} :
        report' = FoldLeft(LAMBDA c, s : CheckDeps([c EXCEPT !.found = None], s),
                           [check |-> {}, checked |-> {}, found |-> None, report |-> {}],
                           order).report
    /\ phase' = "done" /\ unchecked' = {} /\ UNCHANGED <<g, current_menu>>

Done == phase = "done" /\ UNCHANGED vars

Next == \/ ReadConfig \/ ReadChoice \/ ReadMenu \/ ReadIf \/ EndMenu
        \/ FinalizeAll \/ CheckAll \/ Done

Spec == Init /\ [][Next]_vars

-----------------------------------------------------------------------------
(* Correctness.                                                            *)

\* Building submenus and moving lists up loses no entry, shows none twice and
\* keeps the order of the file; parents and lists agree; and the values of a
\* choice are the symbols listed under it.
TreeExact ==
    /\ phase = "check" => Preorder(g, Root) = [i \in Entries |-> i]
    /\ \A i \in Entries : \E n \in DOMAIN g.kids[g.par[i]] : g.kids[g.par[i]][n] = i
    /\ phase = "check" => \A i \in Entries : g.sym[i] \in Chooser =>
            ToSet(g.values[g.sym[i]]) = {g.sym[k] : k \in ToSet(g.kids[i])} \ {None}

\* The values without `m', for which the rules of ConfigExpr are exact.
TwoValued ==
    {v \in [Symbols \cup Consts -> Tri] :
        /\ v["y"] = yes /\ v["m"] = mod /\ v["n"] = no
        /\ \A s \in Symbols : v[s] # mod
        /\ \A s \in Symbols \ ToSet(g.sym) : v[s] = yes <=> s = "MODULES"}

\* menu_is_visible()
RECURSIVE MenuVisible(_, _)
MenuVisible(i, v) ==
    /\ HasPrompt(g, i)
    /\ CalcValue(g.seen[i], v) # no
    /\ \/ CalcValue(PromptVisible(g, i), v) # no
       \/ /\ g.sym[i] # None /\ v[g.sym[i]] # no
          /\ \E k \in ToSet(g.kids[i]) : MenuVisible(k, v)

\* A symbol without a prompt takes below it all that follows and mentions it,
\* even as `B=n', and its list is then moved up into the menu it is in.
Swallowed(i) == \E j \in 1 .. i - 1 :
    g.sym[j] # None /\ ~HasPrompt(g, j) /\ ContainsSymbol(PromptVisible(g, i), g.sym[j])

\* Wherever finalizing puts an entry: when its prompt is to be shown, so is
\* the menu it is in, unless a symbol without a prompt took it there.
PromptsReachable ==
    phase = "check" => \A v \in TwoValued : \A i \in Entries :
        Prompts(g, i) # <<>> /\ CalcValue(PromptVisible(g, i), v) # no
            => g.par[i] = Root \/ Swallowed(i) \/ MenuVisible(g.par[i], v)

\* Finalizing loses no entry, shows none twice, and hides none.
TreeSound == TreeExact /\ PromptsReachable

\* A finalized property is visible when its entry's dependencies and those of
\* all entries around it in the file are met, or its choice is set; and a
\* symbol is selected when a visible select of a set symbol names it.
DepsPropagated ==
    [][phase # phase' /\ phase = "parse" => \A v \in TwoValued :
        LET Met[i \in Entries] ==
                LET p == g.par[i]
                    up == IF p = Root THEN yes
                          ELSE IF g.sym[p] \in Chooser THEN v[g.sym[p]] ELSE Met[p]
                IN  Least(up, CalcValue(g.dep[i], v))
        IN  /\ \A s \in Symbols : \A n \in DOMAIN g.props[s] :
                    CalcValue(g'.props[s][n].vis, v)
                        = Least(Met[g.props[s][n].menu], CalcValue(g.props[s][n].vis, v))
            /\ \A t \in Symbols \ Chooser :
                    (g'.rev[t] # NIL /\ CalcValue(g'.rev[t], v) # no)
                        = \E s \in Symbols : \E n \in DOMAIN g.props[s] :
                            /\ g.props[s][n].kind = "select" /\ g.props[s][n].expr = Sym(t)
                            /\ v[s] # no /\ CalcValue(g'.props[s][n].vis, v) # no]_vars

\* What the value of a symbol is calculated from.  A choice stands for its own
\* value, any of its values for all of them.
SymbolsOf(e) == {s \in Symbols : ContainsSymbol(e, s)}
Reads(s) ==
    LET props == {p \in ToSet(g.props[s]) : p.kind \notin {"choice", "select"}}
    IN  SymbolsOf(g.rev[s])
        \cup UNION {SymbolsOf(p.vis) : p \in props}
        \cup UNION {SymbolsOf(p.expr) : p \in {q \in props : q.kind = "default"}}
Node(s) == IF ChoiceOf(s) = None THEN <<s>> ELSE <<ChoiceOf(s), "values">>
Edges ==
    {<<Node(s), Node(t)>> : s \in Symbols, t \in Symbols}
        \cap ({<<Node(e[1]), Node(e[2])>> : e \in {d \in Symbols \X Symbols : d[2] \in Reads(d[1])}}
              \cup {<<Node(s), <<ChoiceOf(s)>>>> : s \in {d \in Symbols : ChoiceOf(d) # None}})
RECURSIVE ReachedFrom(_)
ReachedFrom(nodes) ==
    LET more == nodes \cup {e[2] : e \in {d \in Edges : d[1] \in nodes}}
    IN  IF more = nodes THEN nodes ELSE ReachedFrom(more)
Cyclic == \E s \in Symbols :
            Node(s) \in ReachedFrom({e[2] : e \in {d \in Edges : d[1] = Node(s)}})

\* A recursive dependency is reported exactly when there is one.
CyclesReported == phase = "done" => (report # {}) = Cyclic
=============================================================================
