------------------------------ MODULE MCStartup ------------------------------
(* Two processes, which the program cannot tell apart.                       *)
EXTENDS Startup, TLC

Same == Permutations(Procs)
=============================================================================
