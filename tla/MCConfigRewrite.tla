-------------------------- MODULE MCConfigRewrite ---------------------------
(* Values for TLC that a cfg cannot write: dependencies over two tristate  *)
(* and one boolean symbol, up to three operands deep.                      *)
EXTENDS ConfigRewrite

Leaves ==
    {Sym(s) : s \in {"A", "B", "C", "m"}}
        \cup {Comp(t, s, c) : t \in Compare, s \in {"A", "C"}, c \in Consts}
Pairs(L) == {<<t, a, b>> : t \in Junction, a \in L, b \in L}
Few ==
    {Sym("A"), Not(Sym("A")), Not(Sym("B")), Comp("NE", "A", "n"), Comp("EQ", "C", "n")}

MCParsed ==
    LET small == Leaves \cup {Not(l) : l \in Leaves} \cup Pairs(Leaves)
        deep == Pairs(Few) \cup {Not(e) : e \in Pairs(Few)}
    IN  small \cup deep
          \cup {<<t, a, b>> : t \in Junction, a \in deep, b \in Few}
          \cup {<<t, b, a>> : t \in Junction, a \in deep, b \in Few}
MCBases == {NIL, And(Sym("A"), Not(Sym("B")))}
=============================================================================
