----------------------------- MODULE MCSessions -----------------------------
(* Instances of Sessions for TLC. *)
EXTENDS Sessions, TLC

CONSTANTS alice, bob, phone, laptop, work

\* One user with two browsers; the other user is locked.
MCUsers == {alice, bob}
MCLocked == {bob}
MCUserOf == [k \in Keys |-> IF k = work THEN bob ELSE alice]

Symmetry == Permutations(Requests)
=============================================================================
