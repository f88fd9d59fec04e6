--------------------------- MODULE MCStoreRestart ---------------------------
(* The instances of StoreRestart that TLC checks. *)
EXTENDS StoreRestart, TLC

MCMaskedMessage == [m \in Messages |-> IF m \in {"a1", "a2"} THEN "a" ELSE m]

\* The default name, ayd_%Y%m%d.log: the first three instants are one day.
MCFilePerDay == [t \in 1 .. MaxTime |-> (t + 2) \div 3]
=============================================================================
