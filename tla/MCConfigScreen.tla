--------------------------- MODULE MCConfigScreen ---------------------------
(* The small configurations of MCConfigPrograms in mconf and nconf. *)
EXTENDS MCConfigPrograms, ConfigScreen

MCSessions ==
    {<<Program(s[1]), s[2], s[3]>> : s \in {
     <<Selecting, "nconf", FALSE>>, <<Choosing, "mconf", TRUE>>,
     <<Modular, "nconf", TRUE>>, <<Ranging, "mconf", FALSE>>}}
=============================================================================
