------------------------------ MODULE EventFeed ------------------------------
(***************************************************************************)
(* What a reader of a run's event log is promised: the log only grows, by  *)
(* whole transactions, and the reader gets its events one after the other, *)
(* each of them once.                                                      *)
(***************************************************************************)
EXTENDS Naturals, Sequences

CONSTANT Events   \* the kinds of event

VARIABLES
  feed,        \* the events there are
  delivered    \* those the reader has got

vars == <<feed, delivered>>

Init == feed = <<>> /\ delivered = <<>>

Commit ==
  /\ feed' \in Seq(Events)
  /\ Len(feed) < Len(feed')
  /\ \A i \in 1..Len(feed) : feed'[i] = feed[i]
  /\ UNCHANGED delivered

Deliver ==
  /\ Len(delivered) < Len(feed)
  /\ delivered' = Append(delivered, feed[Len(delivered) + 1])
  /\ UNCHANGED feed

Spec == Init /\ [][Commit \/ Deliver]_vars

=============================================================================
