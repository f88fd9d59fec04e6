------------------------------- MODULE MCStore -------------------------------
(* The instances of Store that TLC checks. *)
EXTENDS Store, TLC

\* "a1" and "a2" are the same message up to an ephemeral port number.
MCMaskedMessage == [m \in Messages |-> IF m \in {"a1", "a2"} THEN "a" ELSE m]

Symmetry == Permutations(Targets)
=============================================================================
