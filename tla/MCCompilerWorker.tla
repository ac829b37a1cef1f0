-------------------------- MODULE MCCompilerWorker --------------------------
(* The worker for TLC: five messages are enough for two sessions of two    *)
(* compilers, a change of each and a question, or for a failed start       *)
(* before them.                                                            *)
EXTENDS CompilerWorker

=============================================================================
