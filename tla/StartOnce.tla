------------------------------ MODULE StartOnce ------------------------------
(***************************************************************************)
(* What an idempotency key promises to the clients that start a run with   *)
(* it: as if each request took one instant, the first that does not fail   *)
(* creates the run, for good, and later ones find it.                      *)
(***************************************************************************)
CONSTANTS Clients

VARIABLES
  exists,   \* the run is there
  answer    \* what each client was told, "none" before that

vars == <<exists, answer>>

Init == ~exists /\ answer = [c \in Clients |-> "none"]

Answer(c, with) ==
  /\ answer[c] = "none"
  /\ answer' = [answer EXCEPT ![c] = with]

Create(c) == ~exists /\ exists' /\ Answer(c, "created")

Find(c) == exists /\ exists' /\ Answer(c, "existing")

\* The request fails, and changes nothing.
Fail(c) == exists' = exists /\ Answer(c, "failed")

Next == \E c \in Clients : Create(c) \/ Find(c) \/ Fail(c)

Spec == Init /\ [][Next]_vars

=============================================================================
