------------------------ MODULE MCConsistencyFollowUp ------------------------
(* A small instance of ConsistencyFollowUp: two layers, one of them with two  *)
(* checklist keys that the other one shares, so that merging can go wrong.    *)
EXTENDS ConsistencyFollowUp

MCLayerKeys == <<{"contradictions"}, {"contradictions", "detail"}>>
MCIssues == {"issue"}
MCItems == {"item"}
MCFollowUpIds == {"question"}

=============================================================================
