---------------------------- MODULE ConfigSymbol ----------------------------
(***************************************************************************)
(* The values of the symbols of a configuration (scripts/kconfig/symbol.c, *)
(* and conf_set_all_new_symbols() of confdata.c).                          *)
(*                                                                         *)
(* A value is calculated when it is asked for and kept until all values    *)
(* are invalidated; calculating one may calculate others, changes flags,   *)
(* and may meet the symbol it began with.  So every function that may      *)
(* calculate is an operator that takes the fields of all symbols, the      *)
(* record st, and returns them with its result.                            *)
(*                                                                         *)
(* What is known of a symbol once the menus are finalized is in the        *)
(* record prog; its expressions are those of ConfigExpr.  A number stands  *)
(* for the string of an integer symbol.  SYMBOL_CHANGED, which only makes  *)
(* the front ends redraw, and SYMBOL_AUTO of environment symbols are left  *)
(* out.                                                                    *)
(***************************************************************************)
EXTENDS ConfigTree, Integers

CONSTANT Numbers    \* the integer symbols

VARIABLES
    prog,       \* what was parsed
    st          \* the fields of all symbols

All == Symbols \cup Numbers
EMPTY == -1     \* symbol_empty

(* prog is the record that ConfigTree finalizes.                           *)
Values(c) == ToSet(prog.values[c])
ChoiceOf(s) == IF \E c \in Chooser : s \in Values(c)
               THEN CHOOSE c \in Chooser : s \in Values(c) ELSE None
IsValue(s) == ChoiceOf(s) # None

Unset ==
    [valid |-> {}, write |-> {}, user |-> {}, needSet |-> {}, changed |-> TRUE,
     def |-> [s \in All |-> IF s \in Numbers THEN EMPTY ELSE no], pick |-> [c \in Chooser |-> None],
     tri |-> [s \in Symbols |-> no], num |-> [s \in Numbers |-> EMPTY],
     chosen |-> [c \in Chooser |-> None],
     vis |-> [s \in All |-> no], dir |-> [s \in All |-> no], rev |-> [s \in All |-> no],
     modules |-> no]

TriOf(t, s) == CASE s = "y" -> yes [] s = "m" -> mod [] s \in Numbers \cup {"n"} -> no [] OTHER -> t.tri[s]

\* sym_get_type() of a logical symbol
IsBool(t, s) ==
    s \in Booleans \/ t.modules = no \/ (IsValue(s) /\ t.vis[s] = yes)

Promoted(val, when) == IF val = mod /\ when THEN yes ELSE val

-----------------------------------------------------------------------------
(* sym_calc_value() and what it calls.                                     *)

RECURSIVE Calc(_, _), Calcs(_, _), Eval(_, _), Best(_, _, _), FirstMet(_, _, _)
Result(t, val) == [st |-> t, val |-> val]
Calcs(t, syms) == IF syms = <<>> THEN t ELSE Calcs(Calc(t, Head(syms)), Tail(syms))

\* expr_calc_value()
Eval(t, e) ==
    LET Val(a, b) == CASE e[1] = "SYM" -> a
                       [] e[1] = "EQ" -> IF a = b THEN yes ELSE no
                       [] e[1] = "NE" -> IF a = b THEN no ELSE yes
        Of(u) == Result(u, Val(TriOf(u, e[2]), TriOf(u, e[Len(e)])))
        Negated(r) == Result(r.st, 2 - r.val)
        Joined(l, r) == Result(r.st, IF e[1] = "AND" THEN Least(l, r.val) ELSE Most(l, r.val))
        Second(l) == Joined(l.val, Eval(l.st, e[3]))
    IN  CASE e = NIL -> Result(t, yes)
          [] e[1] \in Junction -> Second(Eval(t, e[2]))
          [] e[1] = "NOT" -> Negated(Eval(t, e[2]))
          [] OTHER -> Of(Calcs(t, Tail(e)))

\* The best visibility of the prompts among some properties, and of `val'.
Best(t, val, props) ==
    LET Better(r) == Best(r.st, Most(val, r.val), Tail(props))
    IN  IF props = <<>> THEN Result(t, val)
        ELSE Better(IF Head(props).kind = "prompt" THEN Eval(t, Head(props).vis) ELSE Result(t, no))

\* sym_get_default_prop(), sym_get_range_prop(): the first property of a kind
\* whose condition is met, val is `no' if none is.
FirstMet(t, kind, props) ==
    LET Met(r) == IF r.val # no THEN [st |-> r.st, val |-> r.val, expr |-> Head(props).expr]
                  ELSE FirstMet(r.st, kind, Tail(props))
    IN  IF props = <<>> THEN [st |-> t, val |-> no, expr |-> NIL]
        ELSE Met(IF Head(props).kind = kind THEN Eval(t, Head(props).vis) ELSE Result(t, no))

\* sym_calc_visibility()
CalcVisibility(t, s) ==
    LET Vis(r) == [r.st EXCEPT !.vis[s] =
                        Promoted(r.val, s \notin Tristates \/ r.st.modules = no)]
        Dir(r) == [r.st EXCEPT !.dir[s] = Promoted(r.val, TRUE)]
        Rev(r) == [r.st EXCEPT !.rev[s] = Promoted(r.val, s \in Symbols /\ IsBool(r.st, s))]
        Selectors(u) == Rev(IF prog.rev[s] = NIL THEN Result(u, no) ELSE Eval(u, prog.rev[s]))
        Depends(u) == IF IsValue(s) THEN u ELSE Selectors(Dir(Eval(u, prog.dir[s])))
    IN  Depends(Vis(Best(t, no, prog.props[s])))

RECURSIVE CalcVisibilities(_, _), VisibleDefault(_, _, _)
CalcVisibilities(t, syms) ==
    IF syms = <<>> THEN t ELSE CalcVisibilities(CalcVisibility(t, Head(syms)), Tail(syms))

\* sym_choice_default(): a default of the choice that is met and whose value
\* is visible, or the first value that is.
VisibleDefault(t, c, props) ==
    LET First(shown) == [st |-> t, sym |-> IF shown = <<>> THEN None ELSE shown[1]]
        Take(r, s) == IF r.val # no /\ r.st.vis[s] # no THEN [st |-> r.st, sym |-> s]
                      ELSE VisibleDefault(r.st, c, Tail(props))
    IN  IF props = <<>> THEN First(SelectSeq(prog.values[c], LAMBDA s : t.vis[s] # no))
        ELSE Take(IF Head(props).kind = "default" THEN Eval(t, Head(props).vis) ELSE Result(t, no),
                  Head(props).expr[2])

\* Mutant: the picked value is taken even if it is hidden.
CalcChoiceHidden(t, c) ==
    LET u == CalcVisibilities(t, prog.values[c])
        d == VisibleDefault(u, c, prog.props[c])
    IN  IF u.pick[c] # None THEN [u EXCEPT !.chosen[c] = u.pick[c]]
        ELSE [d.st EXCEPT !.chosen[c] = d.sym]
\* sym_calc_choice(): the choice only counts as set by the user if all its
\* visible values do.
CalcChoice(t, c) ==
    LET New(u) == \E s \in Values(c) : u.vis[s] # no /\ s \notin u.user
        Forget(u) == IF New(u) THEN [u EXCEPT !.user = @ \ {c}] ELSE u
        Default(d) == IF d.sym = None THEN [d.st EXCEPT !.chosen[c] = None, !.tri[c] = no]
                      ELSE [d.st EXCEPT !.chosen[c] = d.sym]
        Pick(u) == IF u.pick[c] # None /\ u.vis[u.pick[c]] # no
                   THEN [u EXCEPT !.chosen[c] = u.pick[c]]
                   ELSE Default(VisibleDefault(u, c, prog.props[c]))
    IN  Pick(Forget(CalcVisibilities(t, prog.values[c])))

\* sym_get_range_val(), sym_validate_range(): the bounds are numbers; a value
\* below the first becomes it, a value above the second becomes that.
ValidRange(t, s) ==
    LET val == IF t.num[s] = EMPTY THEN 0 ELSE t.num[s]
        Into(range) ==
            IF range.val = no THEN range.st
            ELSE IF val < range.expr[1] THEN [range.st EXCEPT !.num[s] = range.expr[1]]
            ELSE IF val > range.expr[2] THEN [range.st EXCEPT !.num[s] = range.expr[2]]
            ELSE range.st
    IN  Into(FirstMet(t, "range", prog.props[s]))

\* The value of a logical symbol that is not the visible value of a choice.
CalcLogical(t, s) ==
    LET shown == IF t.vis[s] # no \/ t.rev[s] # no THEN [t EXCEPT !.write = @ \cup {s}] ELSE t
        Limited(val, r) == Result(r.st, Least(val, r.val))
        Default(prop) ==
            IF prop.val = no THEN Result(prop.st, no)
            ELSE Limited(prop.val, Eval([prop.st EXCEPT !.write = @ \cup {s}], prop.expr))
        Selected(r) == Result(r.st, Most(r.val, r.st.rev[s]))
    IN  Selected(IF t.vis[s] # no /\ s \in t.user THEN Result(shown, Least(t.def[s], t.vis[s]))
                 ELSE IF s \in Chooser THEN Result(shown, no)
                 ELSE Default(FirstMet(shown, "default", prog.props[s])))

CalcNumber(t, s) ==
    LET shown == IF t.vis[s] # no THEN [t EXCEPT !.write = @ \cup {s}] ELSE t
        Default(prop) == IF prop.val = no THEN prop.st
                         ELSE [prop.st EXCEPT !.num[s] = prop.expr[2], !.write = @ \cup {s}]
    IN  IF t.vis[s] # no /\ s \in t.user THEN [shown EXCEPT !.num[s] = t.def[s]]
        ELSE Default(FirstMet(shown, "default", prog.props[s]))

\* set_all_choice_values()
SetAllChoiceValues(t, c) ==
    [t EXCEPT !.def = [s \in All |-> IF s \in Values(c) \ t.user THEN no ELSE @[s]],
              !.user = @ \cup {c}, !.valid = @ \ {c}, !.needSet = @ \ {c}]

\* What is left to do for a choice: its values are written if it is, and its
\* own symbol (SYMBOL_AUTO) never is.
FinishChoice(t, c) ==
    LET shown == {s \in Values(c) : t.vis[s] # no}
        t1 == [t EXCEPT !.write = IF c \in t.write THEN (@ \cup shown) \ {c} ELSE @]
    IN  IF c \in t1.needSet THEN SetAllChoiceValues(t1, c) ELSE t1

Calc(t, s) ==
    LET Entered(u) == [u EXCEPT !.valid = @ \cup {s},
                                !.write = IF IsValue(s) THEN @ ELSE @ \ {s}]
        Number(u) == ValidRange(CalcNumber([u EXCEPT !.num[s] = EMPTY], s), s)
        Reset(u) == [u EXCEPT !.tri[s] = no,
                              !.chosen = [d \in Chooser |-> IF d = s THEN None ELSE @[d]]]
        Logical(u) == IF IsValue(s) /\ u.vis[s] = yes
                      THEN Result(u, IF u.chosen[ChoiceOf(s)] = s THEN yes ELSE no)
                      ELSE CalcLogical(u, s)
        Assigned(r) == [r.st EXCEPT !.tri[s] = Promoted(r.val, IsBool(r.st, s))]
        Finished(u) ==
            IF s \in Chooser THEN FinishChoice(IF u.tri[s] = yes THEN CalcChoice(u, s) ELSE u, s)
            ELSE IF s = "MODULES" THEN [u EXCEPT !.modules = u.tri[s]] ELSE u
        Value(u) == IF s \in Numbers THEN Number(u) ELSE Finished(Assigned(Logical(Reset(u))))
    IN  IF s \in Consts \cup t.valid THEN t
        ELSE Value(CalcVisibility(
                Entered(IF IsValue(s) /\ s \in t.needSet
                        THEN Calc([t EXCEPT !.needSet = @ \ {s}], ChoiceOf(s)) ELSE t), s))

\* The calculation of one symbol from outside: that of the expression it is.
Calculated(t, s) == Eval(t, Sym(s)).st

\* Mutant: the count of changes is not raised.
ClearAllValidQuiet(t) == Calculated([t EXCEPT !.valid = {}], "MODULES")
\* sym_clear_all_valid(); the symbol for modules is calculated at once.
ClearAllValid(t) == Calculated([t EXCEPT !.valid = {}, !.changed = TRUE], "MODULES")

-----------------------------------------------------------------------------
(* The values the user sets.                                               *)

\* Mutant: a boolean symbol may be set to m.
WithinModules(t, s, val) ==
    /\ t.vis[s] > t.rev[s]
    /\ IF IsValue(s) /\ t.vis[s] = yes THEN val = yes
       ELSE val >= t.rev[s] /\ val <= t.vis[s]
\* sym_tristate_within_range()
Within(t, s, val) ==
    /\ t.vis[s] > t.rev[s]
    /\ ~(IsBool(t, s) /\ val = mod)
    /\ IF IsValue(s) /\ t.vis[s] = yes THEN val = yes
       ELSE val >= t.rev[s] /\ val <= t.vis[s]

CanChange(t, s) == t.vis[s] > t.rev[s]      \* sym_is_changable()

\* sym_set_tristate_value(): setting a value of a choice also sets the choice
\* and takes the other values for set.
CanSet(t, s, val) == t.tri[s] = val \/ Within(t, s, val)
\* Mutant: only the symbol itself is calculated anew.
SetTristateAlone(t, s, val) ==
    LET c == ChoiceOf(s)
        set == IF IsValue(s) /\ val = yes
               THEN [t EXCEPT !.pick[c] = s,
                              !.user = @ \cup {s, c} \cup {v \in Values(c) : t.vis[v] # no}]
               ELSE [t EXCEPT !.user = @ \cup {s}]
    IN  Calculated([set EXCEPT !.def[s] = val, !.valid = @ \ {s, c}, !.changed = TRUE], s)
\* Mutant: a value that is not changed does not count as set.
SetTristateChanged(t, s, val) ==
    LET c == ChoiceOf(s)
        set == IF IsValue(s) /\ val = yes
               THEN [t EXCEPT !.pick[c] = s,
                              !.user = @ \cup {s, c} \cup {v \in Values(c) : t.vis[v] # no}]
               ELSE [t EXCEPT !.user = @ \cup {s}]
    IN  IF t.tri[s] # val THEN ClearAllValid([set EXCEPT !.def[s] = val]) ELSE t
SetTristate(t, s, val) ==
    LET c == ChoiceOf(s)
        set == IF IsValue(s) /\ val = yes
               THEN [t EXCEPT !.pick[c] = s,
                              !.user = @ \cup {s, c} \cup {v \in Values(c) : t.vis[v] # no}]
               ELSE [t EXCEPT !.user = @ \cup {s}]
        def == [set EXCEPT !.def[s] = val]
    IN  IF t.tri[s] # val THEN ClearAllValid(def) ELSE def

SetTo(t, s, v) == IF CanSet(t, s, v) THEN SetTristate(t, s, v) ELSE t

\* sym_toggle_tristate_value(): the next value, in the order n, m, y, that can
\* be set.
Toggled(t, s) ==
    LET next == (t.tri[s] + 1) % 3
        after == (t.tri[s] + 2) % 3
    IN  CASE CanSet(t, s, next) -> next
          [] ~CanSet(t, s, next) /\ CanSet(t, s, after) -> after
          [] OTHER -> t.tri[s]

\* sym_string_within_range(), sym_set_string_value() of a number
NumberWithin(t, s, n) ==
    LET Fits(range) == range.val # no => n \in range.expr[1] .. range.expr[2]
    IN  Fits(FirstMet(t, "range", prog.props[s]))
SetNumber(t, s, n) ==
    LET set == [FirstMet(t, "range", prog.props[s]).st EXCEPT !.user = @ \cup {s}, !.def[s] = n]
    IN  IF t.def[s] = n THEN set ELSE ClearAllValid(set)

\* sym_get_string_default(): what the value would be without the user's.
StringDefault(t0, s) ==
    LET Limited(val, r) == Least(val, r.val)
        Allowed(t, val) == Promoted(Most(val, t.rev[s]),
                            s \in Booleans \/ (~IsValue(s) /\ t.tri["MODULES"] = no))
        Default(t, prop) ==
            IF s \in Numbers THEN IF prop.val = no THEN EMPTY ELSE prop.expr[2]
            ELSE Allowed(t, IF prop.val = no THEN no ELSE Limited(prop.val, Eval(prop.st, prop.expr)))
        Of(t) == Default(t, FirstMet(t, "default", prog.props[s]))
    IN  Of(Calculated(CalcVisibility(t0, s), "MODULES"))
=============================================================================
