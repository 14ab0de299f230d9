---------------------------- MODULE MCSessionCore ----------------------------
(***************************************************************************)
(* A small SessionCore for TLC: three requests on two sessions, the first  *)
(* and the last of them made on the same one.                              *)
(***************************************************************************)
EXTENDS SessionCore

CONSTANTS r1, r2, r3, s1, s2

OwnerShared == r1 :> s1 @@ r2 :> s2 @@ r3 :> s1
==============================================================================
