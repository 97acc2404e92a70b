--------------------------- MODULE MCProblemPage ---------------------------
(* Instances of ProblemPage for TLC. *)
EXTENDS ProblemPage, TLC
CONSTANTS code, text, x

MCTab == (code :> 1) @@ (text :> 2)
=============================================================================
