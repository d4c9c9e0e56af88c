-------------------------- MODULE MCConfigPrograms --------------------------
(***************************************************************************)
(* Small configurations, read and finalized by the operators of            *)
(* ConfigTree.                                                             *)
(***************************************************************************)
EXTENDS ConfigData

\* An entry: its symbol, the entry it is read in, its dependency, the
\* condition of its prompt (None: no prompt), and its other properties.
Entry(s, at, dep, prompt, props) == [sym |-> s, at |-> at, dep |-> dep, prompt |-> prompt, props |-> props]
Always(s, props) == Entry(s, 0, NIL, NIL, props)
Default(e, vis) == [kind |-> "default", vis |-> vis, expr |-> e]
Select(s) == [kind |-> "select", vis |-> NIL, expr |-> Sym(s)]
Bounds(lo, hi, vis) == [kind |-> "range", vis |-> vis, expr |-> <<lo, hi>>]
Number(n) == <<"NUM", n>>

ReadEntry(h, e) ==
    LET a == AddDep(AddEntry(h, e.sym, e.at), e.dep)
        b == IF e.prompt = <<None>> THEN a
             ELSE IF e.sym = None THEN AddTitle(a) ELSE AddProp(a, "prompt", e.prompt, NIL)
    IN  FoldLeft(LAMBDA x, p : AddProp(x, p.kind, p.vis, p.expr), b, e.props)

\* file: the entries as they are read, and those whose prompt is that of a menu
Program(file) ==
    Finalize(FoldLeft(ReadEntry, Empty(All), file[1]), 0) @@ [allnoY |-> {"B"}, menus |-> file[2]]

Modules == Always("MODULES", <<Default(Sym("y"), NIL)>>)
ModulesOn == Entry("MODULES", 0, NIL, <<None>>, <<Default(Sym("y"), NIL)>>)

\* Dependencies, a default that depends on one, and a symbol that is selected
\* though it depends on the opposite.
Selecting == << <<
    ModulesOn,
    Always("A", <<Default(Sym("m"), Sym("MODULES"))>>),
    Entry("B", 0, Sym("A"), NIL, <<Default(Sym("y"), Comp("NE", "A", "y")), Select("C")>>),
    Entry("C", 0, Not(Sym("B")), NIL, <<>>) >>, {2} >>

\* A choice, one of whose values depends on a symbol, with a default.
Choosing == << <<
    Entry(None, 0, NIL, NIL, <<>>),
    Entry("A", 1, NIL, NIL, <<>>),
    Entry("X", 0, NIL, NIL, <<Default(Sym("W"), NIL)>>),
    Entry("V", 3, NIL, NIL, <<>>),
    Entry("W", 3, Sym("A"), NIL, <<>>) >>, {1} >>

\* A tristate choice with two tristate values and one that is boolean.
Modular == << <<
    Modules,
    Entry("Z", 0, NIL, NIL, <<>>),
    Entry("V", 2, NIL, NIL, <<>>),
    Entry("A", 2, NIL, NIL, <<>>) >>, {} >>

\* A menu, and numbers with ranges and defaults in it.
Ranging == << <<
    Entry(None, 0, NIL, NIL, <<>>),
    Entry("A", 1, NIL, NIL, <<>>),
    Entry("B", 1, NIL, Sym("A"), <<Default(Sym("y"), NIL)>>),
    Entry("I", 1, Sym("B"), NIL, <<Bounds(1, 2, Sym("A")), Default(Number(3), NIL)>>) >>, {1} >>

=============================================================================
