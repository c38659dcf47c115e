----------------------------- MODULE MCTransfer -----------------------------
(* Instances of Transfer for TLC. *)
EXTENDS Transfer, TLC

CONSTANTS alice, bob, a1, b1, ghost, k1, k2

MCAccounts == {a1, b1}
MCUsers == {alice, bob}
MCOwner == (a1 :> alice) @@ (b1 :> bob)
MCInitialBalance == (a1 :> 2) @@ (b1 :> 1)
MCKeys == {k1, k2}

Ask(user, key, sender, receiver, amount) ==
  [user |-> user, key |-> key, sender |-> sender, receiver |-> receiver, amount |-> amount]

\* Two keys on one account, a key used for two payloads, both directions.
Contended ==
  { Ask(alice, k1, a1, b1, 1), Ask(alice, k1, a1, b1, 2),
    Ask(alice, k2, a1, b1, 2), Ask(bob, k2, b1, a1, 1) }

\* Two transfers of one account and one against them: the payloads that wait
\* for each other.
Opposed ==
  { Ask(alice, k1, a1, b1, 1), Ask(alice, k2, a1, b1, 2), Ask(bob, k2, b1, a1, 1) }

\* What the checks of transfer() and of the controller refuse.
Refused ==
  { Ask(alice, None, a1, b1, 1), Ask(alice, k1, ghost, b1, 1),
    Ask(alice, k1, b1, a1, 1), Ask(alice, k1, a1, ghost, 1),
    Ask(alice, k1, a1, a1, 1), Ask(alice, k1, a1, b1, 3) }

AllPayloads == Contended \cup Refused

Symmetry == Permutations(Requests)
=============================================================================
