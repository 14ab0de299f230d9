---------------------------- MODULE MCIdentities ----------------------------
(***************************************************************************)
(* Identities without disorder, with dialogs, calls and requests at bad    *)
(* times, with removed identities that are used, and with these and        *)
(* failing writes: the sets of Interferences.  Bound leaves two passwords  *)
(* to one user name, and where there is disorder one of each and one       *)
(* attempt; where writes fail, one identity is stored.                     *)
(***************************************************************************)
EXTENDS Identities, TLC

CONSTANTS p1, x1

Symmetric == Permutations(Object) \cup Permutations(Client)

Bounded(r) ==
  \/ r = None
  \/ r.password \in {p1, Empty} /\ r.userName = x1
  \/ interference = {} /\ (r.password \in {p1, Empty} \/ r.userName = x1)

Bound ==
  /\ \A i \in Id : Bounded(row[i])
  /\ \A o \in Object : Bounded(object[o].info)
  /\ interference # {} => \A c \in Client : call[c] # None => call[c].left = 0
  /\ "write" \in interference => lastId <= 1
=============================================================================
