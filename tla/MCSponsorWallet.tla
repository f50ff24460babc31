--------------------------- MODULE MCSponsorWallet ---------------------------
(* Small instances of SponsorWallet for TLC. *)
EXTENDS SponsorWallet

CONSTANTS r1, r2, c1
=============================================================================
