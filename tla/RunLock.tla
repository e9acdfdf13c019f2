------------------------------ MODULE RunLock ------------------------------
(***************************************************************************)
(* What the orchestrator expects of a LockProvider: each key has at most   *)
(* one holder, it is granted only while it is free, and a holder keeps it  *)
(* until it is given back, by the holder or because its process died.      *)
(***************************************************************************)
CONSTANTS
  Keys,     \* what is locked: run ids
  Owners,   \* who asks: the callers of resumeRun
  Nobody    \* null value

VARIABLE holder   \* the owner each key is granted to

Init == holder = [k \in Keys |-> Nobody]

Grant(k, o) ==
  /\ holder[k] = Nobody
  /\ holder' = [holder EXCEPT ![k] = o]

\* One key is given back, or all those of a process at once.
GiveBack(keys) ==
  holder' = [k \in Keys |-> IF k \in keys THEN Nobody ELSE holder[k]]

Next ==
  \/ \E k \in Keys, o \in Owners : Grant(k, o)
  \/ \E keys \in SUBSET Keys : GiveBack(keys)

Spec == Init /\ [][Next]_holder

=============================================================================
