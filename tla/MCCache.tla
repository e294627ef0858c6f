------------------------------ MODULE MCCache ------------------------------
(* Instances of Cache for TLC. *)
EXTENDS Cache, TLC

Ttls == {0, 1}

KeyValueSymmetry == Permutations(Key) \cup Permutations(Value)
=============================================================================
