----------------------------- MODULE MCAccounts -----------------------------
(* Instances of Accounts for TLC. *)
EXTENDS Accounts, TLC

CONSTANTS a1, a2, a3, a4

Ask(kind, id, primary) == [kind |-> kind, id |-> id, primary |-> primary]

\* Creating with and without the flag; making an account primary, unsetting
\* it, renaming it; an account that need not exist.
AllOperations ==
  { Ask("create", None, TRUE), Ask("create", None, None),
    Ask("update", a1, TRUE), Ask("update", a1, FALSE), Ask("update", a1, None),
    Ask("update", a2, TRUE), Ask("update", a3, TRUE) }

Plain(primary) == [primary |-> primary, balance |-> 0]

Table(p1, p2) ==
  (a1 :> Plain(p1)) @@ (a2 :> Plain(p2)) @@ [a \in Accounts |-> None]

\* A user without accounts, and one with two.
EmptyOrTwo == {[a \in Accounts |-> None], Table(TRUE, FALSE)}

\* The tables two racing requests leave behind as well (see ExactlyOnePrimary).
AlsoRaced == EmptyOrTwo \cup {Table(TRUE, TRUE)}

Symmetry == Permutations(Requests)
=============================================================================
