------------------------------ MODULE MCShares ------------------------------
(***************************************************************************)
(* Small instances of Shares for TLC.                                      *)
(***************************************************************************)
EXTENDS Shares

CONSTANTS s1, s2, r1, r2
=============================================================================
