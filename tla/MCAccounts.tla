----------------------------- MODULE MCAccounts -----------------------------
(***************************************************************************)
(* Accounts with model values; users, handlers and challenges are alike.   *)
(***************************************************************************)
EXTENDS Accounts, TLC

CONSTANT MaxTogether  \* bound of the requests while there are two accounts

Symmetric == Permutations(Users) \cup Permutations(Handlers)
             \cup Permutations(Challenges)

\* Administrators act on each other while at most MaxTogether requests were
\* made; beyond that the behaviours of a single account are explored.
OneAccountOrFewRequests ==
    asked > MaxTogether =>
       \E u \in Users : \A v \in Users \ {u} : user[v].state = "new"

=============================================================================
