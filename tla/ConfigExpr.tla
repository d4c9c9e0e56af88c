----------------------------- MODULE ConfigExpr -----------------------------
(***************************************************************************)
(* The expressions of Kconfig and the rules that simplify them             *)
(* (scripts/kconfig/expr.c, expr.h).                                       *)
(*                                                                         *)
(* An expression is a tuple: its type, then its left and right parts       *)
(* (union expr_data).  A function that rewrites a tree through a pointer   *)
(* is an operator that returns the tree; the two pointers into one tree    *)
(* that expr_eliminate_dups1() and 2() walk with are paths.  trans_count   *)
(* is only compared with 0: it is the second part of what those two        *)
(* return.  Allocation is left out.                                        *)
(***************************************************************************)
EXTENDS Naturals, Sequences

CONSTANTS
    Booleans, Tristates     \* the symbols of the two logical types

\* The value of a symbol: no, mod, yes.
no == 0
mod == 1
yes == 2
Tri == {no, mod, yes}
Least(a, b) == IF a < b THEN a ELSE b       \* EXPR_AND
Most(a, b) == IF a > b THEN a ELSE b        \* EXPR_OR

Consts == {"y", "m", "n"}
Symbols == Booleans \cup Tristates

NIL == <<"NIL">>
Sym(s) == <<"SYM", s>>
Not(e) == <<"NOT", e>>
Comp(type, s, t) == <<type, s, t>>
Two(type, a, b) == IF a = NIL THEN b ELSE IF b = NIL THEN a ELSE <<type, a, b>>
And(a, b) == Two("AND", a, b)
Or(a, b) == Two("OR", a, b)

Y == Sym("y")
N == Sym("n")
IsYes(e) == e = NIL \/ e = Y
Junction == {"AND", "OR"}
Compare == {"EQ", "NE"}
Unit(type) == IF type = "AND" THEN Y ELSE N
Zero(type) == IF type = "AND" THEN N ELSE Y
\* Mutant: De Morgan's rules without the swap.
DualKept(type) == CASE type \in Junction -> type [] type = "EQ" -> "NE" [] type = "NE" -> "EQ"
Dual(type) == CASE type = "AND" -> "OR" [] type = "OR" -> "AND"
                [] type = "EQ" -> "NE" [] type = "NE" -> "EQ"
\* Mutant: (a!='m') && (a!='n') is joined to (a='m').
ThirdFirst(s, t) == s
Third(s, t) == CHOOSE c \in Consts : c \notin {s, t}

\* The part of tree t that path p leads to, and t with that part replaced.
RECURSIVE At(_, _), Put(_, _, _)
At(t, p) == IF p = <<>> THEN t ELSE At(t[Head(p)], Tail(p))
Put(t, p, x) == IF p = <<>> THEN x ELSE [t EXCEPT ![Head(p)] = Put(@, Tail(p), x)]

-----------------------------------------------------------------------------
(* Values.  v gives the constants and the symbols their tristate, which is *)
(* also what the strings that are compared tell apart.                     *)

RECURSIVE CalcValue(_, _)
CalcValue(e, v) ==
    CASE e = NIL -> yes
      [] e[1] = "SYM" -> v[e[2]]
      [] e[1] = "AND" -> Least(CalcValue(e[2], v), CalcValue(e[3], v))
      [] e[1] = "OR" -> Most(CalcValue(e[2], v), CalcValue(e[3], v))
      [] e[1] = "NOT" -> 2 - CalcValue(e[2], v)
      [] e[1] = "EQ" -> IF v[e[2]] = v[e[3]] THEN yes ELSE no
      [] e[1] = "NE" -> IF v[e[2]] = v[e[3]] THEN no ELSE yes

RECURSIVE ContainsSymbol(_, _), DependsSymbol(_, _)
ContainsSymbol(e, s) ==
    CASE e[1] \in Junction -> ContainsSymbol(e[2], s) \/ ContainsSymbol(e[3], s)
      [] e[1] = "NOT" -> ContainsSymbol(e[2], s)
      [] e[1] = "SYM" -> e[2] = s
      [] e[1] \in Compare -> s \in {e[2], e[3]}
      [] e = NIL -> FALSE

\* Mutant: one operand of a disjunction is enough.
DependsOnEither(e, s) ==
    \/ e[1] \in Junction /\ (DependsSymbol(e[2], s) \/ DependsSymbol(e[3], s))
    \/ e = Sym(s)
\* Does dependency e alone make sure that s is not `n'?
DependsSymbol(e, s) ==
    CASE e[1] = "AND" -> DependsSymbol(e[2], s) \/ DependsSymbol(e[3], s)
      [] e[1] = "SYM" -> e[2] = s
      [] e[1] = "EQ" -> e[2] = s /\ e[3] \in {"y", "m"}
      [] e[1] = "NE" -> e[2] = s /\ e[3] = "n"
      [] OTHER -> FALSE

-----------------------------------------------------------------------------
(* Simplification.                                                         *)

RECURSIVE EliminateYN(_)
EliminateYN(e) ==
    IF e[1] \notin Junction THEN e
    ELSE LET l == EliminateYN(e[2])
             r == EliminateYN(e[3])
             u == Unit(e[1])
         IN  CASE l = Zero(e[1]) \/ r = Zero(e[1]) -> Zero(e[1])
               [] l = u /\ r # Zero(e[1]) -> r
               [] r = u /\ l \notin {u, Zero(e[1])} -> l
               [] OTHER -> <<e[1], l, r>>

\* __expr_eliminate_eq(): operands of `type' that two trees share are replaced
\* in both by the unit of `type'.
RECURSIVE ElimEq(_, _, _), EliminateEq(_, _), ExprEq(_, _)
ElimEq(type, a, b) ==
    IF a[1] = type
    THEN LET l == ElimEq(type, a[2], b)
             r == ElimEq(type, a[3], l[2])
         IN  << <<type, l[1], r[1]>>, r[2] >>
    ELSE IF b[1] = type
    THEN LET l == ElimEq(type, a, b[2])
             r == ElimEq(type, l[1], b[3])
         IN  << r[1], <<type, l[2], r[2]>> >>
    ELSE IF ~(a = b /\ a \in {Y, N}) /\ ExprEq(a, b)
    THEN <<Unit(type), Unit(type)>>
    ELSE <<a, b>>

EliminateEq(a, b) ==
    LET Both(p) == <<EliminateYN(p[1]), EliminateYN(p[2])>>
        Second(p) == IF p[1][1] # p[2][1] /\ p[2][1] \in Junction
                     THEN ElimEq(p[2][1], p[1], p[2]) ELSE p
    IN  IF a = NIL \/ b = NIL THEN <<a, b>>
        ELSE Both(Second(IF a[1] \in Junction THEN ElimEq(a[1], a, b) ELSE <<a, b>>))

ExprEq(a, b) ==
    /\ a[1] = b[1]
    /\ CASE a[1] = "NOT" -> ExprEq(a[2], b[2])
         [] a[1] \in Junction -> LET r == EliminateEq(a, b)
                                 IN  r[1][1] = "SYM" /\ r[1] = r[2]
         [] OTHER -> a = b

\* The symbol two operands must share to be joined: the second may only be
\* negated when it is a symbol.
Joinable == Compare \cup {"SYM", "NOT"}
JoinSymbol(e, negatable) ==
    CASE e[1] = "NOT" -> IF e[2][1] \in negatable THEN e[2][2] ELSE "none"
      [] e[1] \in Joinable \ {"NOT"} -> e[2]
      [] OTHER -> "none"
SharedSymbol(a, b) ==
    LET s == JoinSymbol(a, Joinable \ {"NOT"})
    IN  IF s \in Symbols /\ s = JoinSymbol(b, {"SYM"}) THEN s ELSE "none"

\* One of a, b has type t1, the other type t2 and constant c on its right.
EitherWay(a, b, t1, t2, c) ==
    \/ a[1] = t1 /\ b[1] = t2 /\ b[3] = c
    \/ b[1] = t1 /\ a[1] = t2 /\ a[3] = c

JoinOr(a, b, s) ==
    IF s = "none" THEN NIL
    ELSE IF s \in Tristates /\ a[1] = "EQ" /\ b[1] = "EQ" /\ {a[3], b[3]} \subseteq Consts
    THEN Comp("NE", s, Third(a[3], b[3]))
    ELSE IF s \in Booleans /\ (a = Not(b) \/ b = Not(a)) /\ "SYM" \in {a[1], b[1]}
    THEN Y
    ELSE NIL

JoinAnd(a, b, s) ==
    LET types == <<a[1], b[1]>>
        consts == {a[3], b[3]} \subseteq Consts
        \* (a='b') && (a!='c'): e is the equation
        Keep(e, other) == IF e[3] # other[3] THEN Comp("EQ", s, e[3]) ELSE N
    IN  IF s = "none" THEN NIL
        ELSE IF EitherWay(a, b, "SYM", "EQ", "y") \/ EitherWay(a, b, "SYM", "NE", "m")
        THEN Comp("EQ", s, "y")
        ELSE IF EitherWay(a, b, "SYM", "NE", "n") THEN Sym(s)
        ELSE IF s \notin Tristates THEN NIL
        ELSE IF types = <<"EQ", "NE">> /\ consts THEN Keep(a, b)
        ELSE IF types = <<"NE", "EQ">> /\ consts THEN Keep(b, a)
        ELSE IF types = <<"NE", "NE">> /\ consts THEN Comp("EQ", s, Third(a[3], b[3]))
        ELSE NIL

Join(type, a, b) ==
    IF ExprEq(a, b) THEN a
    ELSE IF type = "OR" THEN JoinOr(a, b, SharedSymbol(a, b))
    ELSE JoinAnd(a, b, SharedSymbol(a, b))

\* r: the tree, and whether it was changed.  Paths p and q walk it; both visit
\* every operand of `type'.
PutJoined(type, r, p, q, j) ==
    IF j = NIL THEN r ELSE <<Put(Put(r[1], p, Unit(type)), q, j), TRUE>>
JoinAt(type, r, p, q) == PutJoined(type, r, p, q, Join(type, At(r[1], p), At(r[1], q)))

RECURSIVE Dups1(_, _, _, _)
Dups1(type, r, p, q) ==
    LET a == At(r[1], p)
    IN  IF a[1] = type THEN Dups1(type, Dups1(type, r, p \o <<2>>, q), p \o <<3>>, q)
        ELSE IF At(r[1], q)[1] = type
        THEN Dups1(type, Dups1(type, r, p, q \o <<2>>), p, q \o <<3>>)
        ELSE IF p = q THEN r
        ELSE JoinAt(type, IF a[1] \in Junction THEN Dups1(a[1], r, p, p) ELSE r, p, q)

RECURSIVE Transform(_)
Transform(e0) ==
    LET e == CASE e0[1] = "NOT" -> Not(Transform(e0[2]))
               [] e0[1] \in Junction -> <<e0[1], Transform(e0[2]), Transform(e0[3])>>
               [] OTHER -> e0
        bool == e[1] \in Compare /\ e[2] \in Booleans
        in == IF e[1] = "NOT" THEN e[2] ELSE NIL
    IN  CASE bool /\ <<e[1], e[3]>> \in {<<"EQ", "n">>, <<"NE", "y">>} -> Not(Sym(e[2]))
          [] bool /\ <<e[1], e[3]>> \in {<<"EQ", "y">>, <<"NE", "n">>} -> Sym(e[2])
          [] bool /\ e[3] = "m" -> IF e[1] = "EQ" THEN N ELSE Y
          [] in[1] = "NOT" -> Transform(in[2])
          [] in[1] \in Compare -> Comp(Dual(in[1]), in[2], in[3])
          [] in[1] \in Junction -> Transform(<<Dual(in[1]), Not(in[2]), Not(in[3])>>)
          [] in[1] = "SYM" /\ in[2] \in Consts ->
                [y |-> N, m |-> Sym("m"), n |-> Y][in[2]]
          [] OTHER -> e

\* expr_extract_eq(): the operands two trees share, and what is left of each.
RECURSIVE ExtractEq(_, _, _, _)
ExtractEq(type, ep, a, b) ==
    IF a[1] = type
    THEN LET l == ExtractEq(type, ep, a[2], b)
             r == ExtractEq(type, l[1], a[3], l[3])
         IN  <<r[1], <<type, l[2], r[2]>>, r[3]>>
    ELSE IF b[1] = type
    THEN LET l == ExtractEq(type, ep, a, b[2])
             r == ExtractEq(type, l[1], l[2], b[3])
         IN  <<r[1], r[2], <<type, l[3], r[3]>> >>
    ELSE IF ExprEq(a, b) THEN <<Two(type, ep, a), Unit(type), Unit(type)>>
    ELSE <<ep, a, b>>

\* expr_extract_eq_and(), expr_extract_eq_or(): what is left of a.
Extracted(type, a, b) ==
    LET r == ExtractEq(type, NIL, a, b) IN IF r[1] = NIL THEN a ELSE EliminateYN(r[2])

\* At p a junction; the rest of the tree, at q, has all its operands negated.
ZeroAt(r, p, q) ==
    LET a == At(r[1], p)
        rest == Extracted(Dual(a[1]), Transform(Not(a)), At(r[1], q))
    IN  IF rest = Unit(Dual(a[1])) THEN <<Put(r[1], p, Zero(Dual(a[1]))), TRUE>> ELSE r

\* The operands below q come first, then q itself.
RECURSIVE Dups2(_, _, _, _), Dups2At(_, _, _)
Dups2(type, r, p, q) ==
    IF At(r[1], p)[1] = type
    THEN Dups2(type, Dups2(type, r, p \o <<2>>, q), p \o <<3>>, q)
    ELSE Dups2At(IF At(r[1], q)[1] = type
                 THEN Dups2(type, Dups2(type, r, p, q \o <<2>>), p, q \o <<3>>) ELSE r, p, q)
Dups2At(r, p, q) ==
    LET type == At(r[1], p)[1]
    IN  IF p = q \/ type \notin Junction THEN r ELSE ZeroAt(Dups2(type, r, p, p), p, q)

RECURSIVE EliminateDups(_)
EliminateDups(e) ==
    IF e[1] \notin Junction THEN e
    ELSE LET Again(r) == IF r[2] THEN EliminateDups(EliminateYN(r[1])) ELSE e
         IN  Again(Dups2(e[1], Dups1(e[1], <<e, FALSE>>, <<>>, <<>>), <<>>, <<>>))

RECURSIVE TransBool(_)
\* Mutant: any inequality is taken for FOO!=n.
TransBoolAny(e) ==
    CASE e[1] \in Junction -> <<e[1], TransBool(e[2]), TransBool(e[3])>>
      [] e[1] = "NE" -> Sym(e[2])
      [] OTHER -> e
\* FOO!=n -> FOO, for tristate FOO
TransBool(e) ==
    CASE e[1] \in Junction -> <<e[1], TransBool(e[2]), TransBool(e[3])>>
      [] e[1] = "NOT" -> Not(TransBool(e[2]))
      [] e[1] = "NE" /\ e[2] \in Tristates /\ e[3] = "n" -> Sym(e[2])
      [] OTHER -> e

\* The expression that is `y' when e compares with the constant c as `type'
\* says: c is `y' or `n', the only ones it is called with.
RECURSIVE TransCompare(_, _, _)
TransCompare(e, type, c) ==
    LET Neg(x) == IF type = "NE" THEN Not(x) ELSE x
    IN  CASE e = NIL -> Neg(Sym(c))
          [] e[1] \in Junction ->
                Neg(<<IF c = "y" THEN e[1] ELSE Dual(e[1]),
                      TransCompare(e[2], "EQ", c), TransCompare(e[3], "EQ", c)>>)
          [] e[1] = "NOT" -> TransCompare(e[2], Dual(type), c)
          [] e[1] \in Compare -> IF (type = "EQ") = (c = "y") THEN e ELSE Not(e)
          [] e[1] = "SYM" -> Comp(type, e[2], c)

\* The leaf that the warning of a symbol with unmet dependencies names; an
\* equation is followed as if its left symbol were an expression.
RECURSIVE LeftmostSymbol(_), SimplifyUnmetDep(_, _)
LeftmostSymbol(e) ==
    CASE e = NIL -> NIL
      [] e[1] = "SYM" -> e
      [] e[1] \in Compare -> <<"WILD">>
      [] OTHER -> LeftmostSymbol(e[2])
SimplifyUnmetDep(a, b) ==
    CASE a[1] = "OR" -> And(SimplifyUnmetDep(a[2], b), SimplifyUnmetDep(a[3], b))
      [] a[1] = "AND" -> LeftmostSymbol(IF ExprEq(EliminateDups(And(a, b)), a) THEN NIL ELSE a)
      [] OTHER -> LeftmostSymbol(a)

-----------------------------------------------------------------------------
(* Printing, and the grammar that reads it back.                           *)

\* expr_compare_type(): does t1 bind tighter than t2?
Rank(t) == CASE t \in Compare -> 5 [] t = "NOT" -> 4 [] t = "AND" -> 3
             [] t = "OR" -> 2 [] t = "LIST" -> 1 [] t = "NIL" -> 0
\* Mutant: only a negation puts parentheses.
TighterNot(t1, t2) == t1 = "NOT" /\ t2 \in Junction
Tighter(t1, t2) == t1 \in {"EQ", "NE", "NOT", "AND", "OR"} /\ t2 \notin {"SYM"} /\ Rank(t1) > Rank(t2)

RECURSIVE ExprPrint(_, _)
ExprPrint(e, prev) ==
    LET body == CASE e[1] = "SYM" -> <<e[2]>>
                  [] e[1] \in Compare -> <<e[2], e[1], e[3]>>
                  [] e[1] = "NOT" -> <<"NOT">> \o ExprPrint(e[2], "NOT")
                  [] OTHER -> ExprPrint(e[2], e[1]) \o <<e[1]>> \o ExprPrint(e[3], e[1])
    IN  CASE e = NIL -> <<"y">>
          [] Tighter(prev, e[1]) -> <<"(">> \o body \o <<")">>
          [] OTHER -> body
=============================================================================
