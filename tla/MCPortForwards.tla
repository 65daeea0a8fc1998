--------------------------- MODULE MCPortForwards ---------------------------
(* PortForwards on the small instances of the configurations beside it.    *)
EXTENDS PortForwards

\* The instance lets a row be replaced by a second one on the same port.
ASSUME MaxForwards >= 2 /\ MaxTasks >= 2

\* Addresses are interchangeable: starting from one of them covers them all.
InitFromOneAddress ==
    /\ Init
    /\ target = [e \in Endpoints |-> CHOOSE g \in Targets : TRUE]

FairSpecFromOneAddress == InitFromOneAddress /\ [][Next]_vars /\ Fairness

=============================================================================
