--------------------------- MODULE MCPersistence ---------------------------
(* Instances of Persistence for TLC. *)
EXTENDS Persistence, TLC

OneShard == [k \in Key |-> 0]

Ttls == {2}

KeySymmetry == Permutations(Key)
=============================================================================
