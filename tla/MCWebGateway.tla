---------------------------- MODULE MCWebGateway ----------------------------
(* WebGateway on the small instance of MCWebGateway.cfg.  The clock runs   *)
(* past the life of a tombstone and past the persist interval.             *)
EXTENDS WebGateway

\* The instance lets a tombstone be pruned and a throttled touch fall due.
ASSUME MaxTime > TombstoneTTL /\ MaxTime > PersistInterval

=============================================================================
