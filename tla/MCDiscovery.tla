---------------------------- MODULE MCDiscovery -----------------------------
(* Discovery on the small instances of the configurations beside it.       *)
EXTENDS Discovery

\* There is something to delete in every configuration.
ASSUME MaxJobs >= 1

=============================================================================
