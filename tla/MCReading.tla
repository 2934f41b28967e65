----------------------------- MODULE MCReading -----------------------------
(* Instances of Reading. Deliveries are interchangeable. *)
EXTENDS Reading, TLC

Perms == Permutations(Deliveries)

=============================================================================
