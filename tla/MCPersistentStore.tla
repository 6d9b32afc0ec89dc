-------------------------- MODULE MCPersistentStore --------------------------
(* Instances of PersistentStore for TLC: a receiver and a transmitter.      *)
EXTENDS PersistentStore, TLC

MCSymmetry == Permutations(Generations) \cup Permutations(Nodes)
                  \cup Permutations(Networks)
=============================================================================
