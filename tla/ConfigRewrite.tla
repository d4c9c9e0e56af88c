--------------------------- MODULE ConfigRewrite ----------------------------
(***************************************************************************)
(* What menu_finalize() (scripts/kconfig/menu.c) does with the dependency  *)
(* of one property, step by step: it is transformed, joined with the       *)
(* dependency of the menu entry, freed of duplicates, and made boolean     *)
(* when the symbol is not tristate; then it is compared with `n' to find   *)
(* out whether an entry depends on the one before it.  Every step rewrites *)
(* the expression in place with the rules of ConfigExpr, under every       *)
(* value the symbols may take.                                             *)
(***************************************************************************)
EXTENDS ConfigExpr

CONSTANTS
    Parsed,     \* the dependencies the parser may return
    Bases       \* the dependencies of the menu entry, finalized before

VARIABLES
    given,      \* prop->visible.expr as parsed
    base,       \* basedep
    dep,        \* dep
    step        \* what was last done to it

vars == <<given, base, dep, step>>

Init ==
    /\ given \in Parsed /\ base \in Bases
    /\ dep = given /\ step = "parsed"

TransformDep ==
    /\ step = "parsed" /\ step' = "transformed"
    /\ dep' = Transform(dep)
    /\ UNCHANGED <<given, base>>

AddBase ==
    /\ step = "transformed" /\ step' = "based"
    /\ dep' = And(base, dep)
    /\ UNCHANGED <<given, base>>

EliminateDupsDep ==
    /\ step = "based" /\ step' = "reduced"
    /\ dep' = EliminateDups(dep)
    /\ UNCHANGED <<given, base>>

\* menu->sym is not tristate
TransBoolDep ==
    /\ step = "reduced" /\ step' = "bool"
    /\ dep' = TransBool(dep)
    /\ UNCHANGED <<given, base>>

CompareDep ==
    /\ step \in {"reduced", "bool"} /\ step' = "compared"
    /\ dep' = EliminateDups(Transform(TransCompare(dep, "NE", "n")))
    /\ UNCHANGED <<given, base>>

Done == step = "compared" /\ UNCHANGED vars

Next == TransformDep \/ AddBase \/ EliminateDupsDep \/ TransBoolDep \/ CompareDep \/ Done

Spec == Init /\ [][Next]_vars

-----------------------------------------------------------------------------
(* The grammar of zconf.y, which lies outside: what a token sequence that  *)
(* expr_print() wrote means when it is read.                               *)

\* The last token of this kind outside parentheses, or 0.
LastOutside(s, tok) ==
    LET Depth(i) == Len(SelectSeq(SubSeq(s, 1, i), LAMBDA x : x = "("))
                    - Len(SelectSeq(SubSeq(s, 1, i), LAMBDA x : x = ")"))
        at == {i \in DOMAIN s : s[i] = tok /\ Depth(i) = 0}
    IN  IF at = {} THEN 0 ELSE CHOOSE i \in at : \A j \in at : j <= i

RECURSIVE Read(_)
Read(s) ==
    LET or == LastOutside(s, "OR")
        and == LastOutside(s, "AND")
        Split(type, i) == <<type, Read(SubSeq(s, 1, i - 1)), Read(SubSeq(s, i + 1, Len(s)))>>
    IN  IF or # 0 THEN Split("OR", or)
        ELSE IF and # 0 THEN Split("AND", and)
        ELSE IF s[1] = "NOT" THEN Not(Read(Tail(s)))
        ELSE IF s[1] = "(" THEN Read(SubSeq(s, 2, Len(s) - 1))
        ELSE IF Len(s) = 1 THEN Sym(s[1])
        ELSE Comp(s[2], s[1], s[3])

-----------------------------------------------------------------------------
(* Every value the symbols can take: `m' only while modules are on.        *)
Valuations ==
    {v \in [Symbols \cup Consts -> Tri] :
        /\ v["y"] = yes /\ v["m"] = mod /\ v["n"] = no
        /\ \A s \in Symbols : v[s] = mod => s \in Tristates /\ v["MODULES"] = yes}

Meant(v) == CalcValue(And(base, given), v)

\* De Morgan's rules, the double negations and the tests of booleans of
\* expr_transform() keep the value of a dependency.
TransformExact ==
    step = "transformed" => \A v \in Valuations : CalcValue(dep, v) = CalcValue(given, v)

\* Joining and extracting operands may only change a dependency whose value
\* is `m': one that is met, or not met, stays so.
DefiniteKept ==
    step = "reduced" => \A v \in Valuations :
                            Meant(v) # mod => CalcValue(dep, v) = Meant(v)

\* Rewriting keeps what a dependency is worth, up to where it may be `m'.
ValueKept == TransformExact /\ DefiniteKept

\* FOO!=n may become FOO for a boolean option, whose prompt is shown unless
\* the dependency is `n'; the comparison with `n' that decides on submenus is
\* `y' exactly when the dependency is not `n', where no symbol is `m' (!B!=n
\* becomes B=n, which tells them apart).
CompareExact ==
    [][\A v \in Valuations :
        /\ step' = "bool" => (CalcValue(dep', v) = no) = (CalcValue(dep, v) = no)
        /\ step' = "compared" /\ (\A s \in Symbols : v[s] # mod) =>
                CalcValue(dep', v) = IF CalcValue(dep, v) = no THEN no ELSE yes]_vars

\* A dependency is printed with the parentheses it needs and no others: read
\* with the grammar's precedences it has the same value.
PrintReadsBack ==
    step \in {"based", "compared"} => \A v \in Valuations : CalcValue(Read(ExprPrint(dep, "NIL")), v) = CalcValue(dep, v)

\* When expr_depends_symbol() says that a dependency rests on a symbol, the
\* dependency is not met while the symbol is `n'.
DependsSound ==
    \A s \in Symbols : DependsSymbol(dep, s) =>
        /\ ContainsSymbol(dep, s)
        /\ \A v \in Valuations : v[s] = no => CalcValue(dep, v) = no

\* The tests on rewritten dependencies, which decide where an entry goes and
\* whether a prompt is shown, and the text a user reads tell what the dependency
\* itself tells.
TestsSound == [](DependsSound /\ PrintReadsBack) /\ CompareExact
=============================================================================
