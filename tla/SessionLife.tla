----------------------------- MODULE SessionLife -----------------------------
(***************************************************************************)
(* What an access session promises to the person who opened it and to the  *)
(* administrator who ends it: it has one life, the grant that starts it is *)
(* used once, and nothing is served before the grant or after the end.     *)
(***************************************************************************)
CONSTANTS Sessions

VARIABLES
    phase, \* the life of a session
    grant, \* its one-time grant
    page   \* changes with every page the session serves

vars == <<phase, grant, page>>

TypeOK ==
    /\ phase \in [Sessions -> {"none", "live", "ended"}]
    /\ grant \in [Sessions -> {"held", "used"}]
    /\ page \in [Sessions -> BOOLEAN]

Init ==
    /\ phase = [s \in Sessions |-> "none"]
    /\ grant = [s \in Sessions |-> "held"]
    /\ page = [s \in Sessions |-> FALSE]

\* A session whose login ends while it is opened is never live.
Open(s, p) ==
    /\ phase[s] = "none" /\ p \in {"live", "ended"}
    /\ phase' = [phase EXCEPT ![s] = p]
    /\ UNCHANGED <<grant, page>>

Exchange(s) ==
    /\ phase[s] = "live" /\ grant[s] = "held"
    /\ grant' = [grant EXCEPT ![s] = "used"]
    /\ UNCHANGED <<phase, page>>

\* To serve never ends the session, although an answer older than the last
\* one may become its latest activity.
Serve(s) ==
    /\ phase[s] = "live" /\ grant[s] = "used"
    /\ page' = [page EXCEPT ![s] = ~@]
    /\ UNCHANGED <<phase, grant>>

\* One event can end the sessions of many.
End(S) ==
    /\ \A s \in S : phase[s] = "live"
    /\ phase' = [s \in Sessions |-> IF s \in S THEN "ended" ELSE phase[s]]
    /\ UNCHANGED <<grant, page>>

Next ==
    \/ \E s \in Sessions :
          Exchange(s) \/ Serve(s) \/ \E p \in {"live", "ended"} : Open(s, p)
    \/ \E S \in SUBSET Sessions : End(S)

Spec == Init /\ [][Next]_vars

=============================================================================
