---------------------------- MODULE MCSSHGateway ----------------------------
(* SSHGateway on the small instance of the configurations beside it.       *)
EXTENDS SSHGateway

\* The instance lets a tombstone be pruned and a throttled touch fall due.
ASSUME MaxTime > TombstoneTTL /\ MaxTime > TouchInterval

=============================================================================
