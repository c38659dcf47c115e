------------------------------ MODULE MCClient ------------------------------
(* Instances of Client for TLC. *)
EXTENDS Client, TLC

CONSTANTS alice, bob, t1, t2, l1, l2

MCUsers == {alice, bob}
Have(users, tabs, logins, paths, bounds) ==
  [users |-> users, tabs |-> tabs, logins |-> logins, paths |-> paths, sockets |-> {},
   resets |-> {}] @@ bounds

Bounds(c, f, s, o) ==
  [calls |-> c, faults |-> f, sessions |-> s, orphans |-> o]

\* Two calls in one tab; a lost message; a page left while it waits; two clicks
\* on Login, by two users; two tabs; the socket and the administrator's pages; a change of the password.
MCWorlds ==
  { Have({alice}, {t1}, {l1}, {"/auth"}, Bounds(2, 0, 3, 0)),
    Have({alice}, {t1}, {l1}, {"/auth"}, Bounds(1, 1, 3, 0)),
    Have({alice}, {t1}, {l1}, {"/auth"}, Bounds(1, 0, 3, 1)),
    Have({alice, bob}, {t1}, {l1, l2}, {"/auth"}, Bounds(0, 0, 3, 0)),
    Have({alice}, {t1, t2}, {l1}, {"/auth"}, Bounds(0, 0, 2, 0)),
    [Have({bob}, {t1}, {l1}, {"/auth", "/admin"}, Bounds(1, 0, 3, 0)) EXCEPT !.sockets = {t1}],
    [Have({alice}, {t1}, {l1}, {"/auth"}, Bounds(1, 0, 2, 0)) EXCEPT !.resets = {alice}] }
=============================================================================
