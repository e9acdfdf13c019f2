----------------------------- MODULE MCChildRuns -----------------------------
(* A small instance of ChildRuns: a root, a child of it and the feedback run  *)
(* of that child, so that there are steps nested in a step and a grandparent. *)
EXTENDS ChildRuns

CONSTANTS s1, s2

MCStarters == {s1, s2}

=============================================================================
