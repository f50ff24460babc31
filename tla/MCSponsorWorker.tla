--------------------------- MODULE MCSponsorWorker ---------------------------
(* Values for the constants of SponsorWorker that a .cfg cannot write.     *)
EXTENDS SponsorWorker, TLC

CONSTANTS u1, u2, p1, w1, k1, k2

\* Requests 1 and 2 are of one user, the others of another.
MCUserOf == [r \in Requests |-> IF r < 3 THEN u1 ELSE u2]

CopiesSymmetry  == Permutations(Copies)

=============================================================================
