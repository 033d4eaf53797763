--------------------------- MODULE MCUsageSummary ---------------------------
(***************************************************************************)
(* Months of two instants, and events that add or release a byte or count  *)
(* a push.                                                                 *)
(***************************************************************************)
EXTENDS UsageSummary, TLC

MCUsage == {<<"storage-bytes", 1>>, <<"storage-bytes", -1>>, <<"push-op-count", 1>>}

Interchangeable == Permutations(Event)

=============================================================================
