---------------------------- MODULE MCAdmission ----------------------------
(* Symmetry of Admission: keys, transactions and calls are interchangeable. *)
EXTENDS Admission, TLC

AllSymmetry == Permutations(Keys) \cup Permutations(Hashes) \cup Permutations(Calls)

=============================================================================
