-------------------------------- MODULE Waits --------------------------------
(* Postgres's deadlock detector: a transaction that waits, through others, for
   itself. blockers[r] is the set of transactions r waits for. *)
OnCycle(r, blockers) ==
  \E S \in SUBSET DOMAIN blockers : \E f \in [S -> S] :
    /\ r \in S
    /\ \A s \in S : f[s] \in blockers[s]
    /\ \A s, t \in S : f[s] = f[t] => s = t
=============================================================================
