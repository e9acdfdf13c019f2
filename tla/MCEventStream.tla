---------------------------- MODULE MCEventStream ----------------------------
(* A small instance of EventStream: a step and a control request that append, *)
(* pages and batches that are full before the run ends.                       *)
EXTENDS EventStream

CONSTANTS w1, w2

MCWriters == {w1, w2}

\* A log line also stands for the events that are neither in the logs panel nor
\* set a lifecycle.
MCKinds == {"log", "cancelling", "ended"}

=============================================================================
