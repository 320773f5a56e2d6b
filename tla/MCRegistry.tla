----------------------------- MODULE MCRegistry ------------------------------
(* The tables of MCVault, with calls that register one of two keys.         *)
EXTENDS MCVault, Registry
==============================================================================
