---------------------------- MODULE MCConsentQueue ----------------------------
(* Four requests of two users over two connection slots: enough for a queue *)
(* with a live request, one waiting behind it, one over the per-user bound  *)
(* and one of another user, each arriving before or after any of the others.*)
EXTENDS ConsentQueue

CONSTANTS a1, a2, a3, b1, alice, bob

MCRequest == {a1, a2, a3, b1}
MCUser == {alice, bob}
MCUserOf == [r \in MCRequest |-> IF r = b1 THEN bob ELSE alice]
===============================================================================
