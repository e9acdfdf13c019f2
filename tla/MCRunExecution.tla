--------------------------- MODULE MCRunExecution ---------------------------
(* Small instances of RunExecution: a workflow of two states with a cycle.  *)
EXTENDS RunExecution, TLC

MCAllowed == { <<"draft", "review">>, <<"review", "draft">> }

WorkerSymmetry == Permutations(Workers)

=============================================================================
