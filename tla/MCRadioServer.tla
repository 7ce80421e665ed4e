--------------------------- MODULE MCRadioServer ----------------------------
(* Instances of RadioServer for TLC. *)
EXTENDS RadioServer, TLC

Symmetry == Permutations(Cookies)

\* Two powers, and one the bus schema allows and the server takes for none.
Powers == {10, 22, -5}

=============================================================================
