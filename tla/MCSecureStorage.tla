---------------------------- MODULE MCSecureStorage ----------------------------
(***************************************************************************)
(* SecureStorage on a small instance.                                      *)
(***************************************************************************)
EXTENDS SecureStorage, TLC

\* Keys are compared only with each other.
Keys == Permutations(Key)
================================================================================
