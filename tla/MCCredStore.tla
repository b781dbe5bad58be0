----------------------------- MODULE MCCredStore -----------------------------
(***************************************************************************)
(* CredStore for TLC.                                                      *)
(***************************************************************************)
EXTENDS CredStore, TLC

Interchangeable == Permutations(Command)
=============================================================================
