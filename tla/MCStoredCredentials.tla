-------------------------- MODULE MCStoredCredentials --------------------------
(***************************************************************************)
(* StoredCredentials on small instances.                                   *)
(***************************************************************************)
EXTENDS StoredCredentials, TLC

\* Passwords are compared only with each other.
Passwords == Permutations(Password)

\* One object at a time has a copy, and plug-ins store data of the last identity.
Bound ==
  /\ \A id, other \in Id :
       copy[id] # NoCopy /\ copy[other] # NoCopy => id = other
  /\ \A id \in Id : lastData[id] # Empty => id = MaxId

================================================================================
