--------------------------- MODULE MCConfigBuild ---------------------------
(* Two versions of a small configuration through runs of conf and make. *)
EXTENDS MCConfigPrograms, ConfigBuild

Older == << <<
    ModulesOn,
    Always("A", <<Default(Sym("m"), Sym("MODULES"))>>),
    Entry("C", 0, Sym("A"), NIL, <<>>) >>, {} >>
\* There is a choice now in a menu, before it a number that one of the values
\* shows, and C is gone.
Newer == << <<
    ModulesOn,
    Always("A", <<Default(Sym("m"), Sym("MODULES"))>>),
    Entry("I", 0, Sym("W"), NIL, <<Bounds(1, 2, NIL), Default(Number(3), NIL)>>),
    Entry(None, 0, NIL, NIL, <<>>),
    Entry("X", 4, Sym("A"), NIL, <<>>),
    Entry("V", 5, NIL, NIL, <<>>),
    Entry("W", 5, NIL, NIL, <<>>) >>, {4} >>

MCVersions == <<Program(Older), Program(Newer)>>
MCEdits == {<<<<"A", yes>>>>, << <<"A", mod>>, <<"C", yes>>, <<"I", 2>> >>}
MCDraws == {[s \in All |-> v] : v \in {no, yes}}
=============================================================================
