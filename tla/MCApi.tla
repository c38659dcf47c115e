------------------------------- MODULE MCApi -------------------------------
(* Instances of Api for TLC. *)
EXTENDS Api, TLC

CONSTANTS alice, bob, ofAlice, ofBob, ofNobody, r1, r2, r3

MCUsers == {alice, bob}
MCNumbers == {ofAlice, ofBob, ofNobody}
MCHolderOf == [n \in MCNumbers |-> IF n = ofAlice THEN alice ELSE IF n = ofBob THEN bob ELSE None]

With(proof, c) == [command |-> c, proof |-> proof, token |-> TRUE, ph |-> TRUE, dto |-> TRUE]
Own(c) == With(c.kind, c)

Change(kind, u, v)   == [kind |-> kind, by |-> u, user |-> v]
Add(u, n)            == [kind |-> "add", by |-> u, number |-> n]
Edit(u, r, n)        == [kind |-> "edit", by |-> u, row |-> r, number |-> n]
Remove(u, r)         == [kind |-> "remove", by |-> u, row |-> r]

\* One proof for each kind of request, so that a second request of a kind is a
\* replay, except for the second add.
MCList ==
  { Own(Add(alice, n)) : n \in MCNumbers } \cup
  { With("again", Add(alice, ofBob)),
    Own(Edit(alice, r1, None)), Own(Edit(alice, r1, ofAlice)), Own(Edit(bob, r1, None)),
    Own(Remove(alice, r1)) }

MCProfile == Own(Change("profile", alice, alice))

MCUserRows ==
  { MCProfile, Own(Change("reset", alice, alice)), Own(Change("status", alice, bob)),
    Own(Change("status", bob, alice)),
    Own(Add(alice, ofBob)), Own([kind |-> "list", by |-> bob]),
    [MCProfile EXCEPT !.token = FALSE], [MCProfile EXCEPT !.ph = FALSE],
    [MCProfile EXCEPT !.dto = FALSE] }

MCMenus == {MCList, MCUserRows}

\* Requests edit and remove the row of r1: the others are alike.
Later == Permutations({r2, r3})
============================================================================
