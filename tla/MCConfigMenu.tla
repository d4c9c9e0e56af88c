---------------------------- MODULE MCConfigMenu ----------------------------
(* Values for TLC that a cfg cannot write. *)
EXTENDS ConfigMenu

MCDeps == {NIL, Sym("A"), Comp("EQ", "B", "n")}
MCDefaults == {Sym("C")}
=============================================================================
