--------------------------------- MODULE Vault ---------------------------------
(***************************************************************************)
(* What the credentials database promises about secrets, without saying    *)
(* how: one value per identity.  While the storage is locked a value can   *)
(* only be held in memory; it is written down when the storage is unlocked *)
(* if the identity is one whose values are kept, and lost otherwise.       *)
(***************************************************************************)
CONSTANTS
  Id,       \* identities
  Value,    \* secrets
  Nothing   \* no secret; not a Value

VARIABLES
  unlocked,   \* can the durable values be read and written
  durable,    \* value of each identity on disk
  volatile,   \* value of each identity in memory, which counts if present
  keeps       \* identities whose values are to be kept

vars == <<unlocked, durable, volatile, keeps>>

None == [id \in Id |-> Nothing]

Init ==
  /\ unlocked = FALSE
  /\ durable = None
  /\ volatile = None
  /\ keeps = {}

(* A value is stored, or only what is to become of it later. *)
Put(id, v, keep) ==
  /\ keeps' = IF keep THEN keeps \cup {id} ELSE keeps \ {id}
  /\ IF keep /\ unlocked
       THEN /\ durable' = [durable EXCEPT ![id] = v]
            /\ volatile' = [volatile EXCEPT ![id] = Nothing]
       ELSE /\ volatile' = [volatile EXCEPT ![id] = v]
            /\ durable' = IF keep THEN durable
                                  ELSE [durable EXCEPT ![id] = Nothing]
  /\ UNCHANGED unlocked

Describe(id, keep) ==
  /\ volatile[id] = Nothing /\ durable[id] = Nothing
  /\ keeps' = IF keep THEN keeps \cup {id} ELSE keeps \ {id}
  /\ UNCHANGED <<unlocked, durable, volatile>>

Unlock ==
  /\ ~unlocked
  /\ unlocked' = TRUE
  /\ durable' = [id \in Id |-> IF id \in keeps /\ volatile[id] # Nothing
                                 THEN volatile[id] ELSE durable[id]]
  /\ volatile' = None
  /\ UNCHANGED keeps

Lock ==
  /\ unlocked' = FALSE
  /\ UNCHANGED <<durable, volatile, keeps>>

(* The memory is lost; what is on disk stays, and may be in reach at once. *)
Crash ==
  /\ unlocked' \in BOOLEAN
  /\ volatile' = None
  /\ UNCHANGED <<durable, keeps>>

(* Identities are removed, or only their durable values if that fails
   halfway. *)
Remove(ids) ==
  /\ unlocked
  /\ durable' = [id \in Id |-> IF id \in ids THEN Nothing ELSE durable[id]]
  /\ \/ UNCHANGED <<volatile, keeps>>
     \/ /\ volatile' = [id \in Id |-> IF id \in ids THEN Nothing
                                                     ELSE volatile[id]]
        /\ keeps' = keeps \ ids
  /\ UNCHANGED unlocked

Next ==
  \/ \E id \in Id, v \in Value, keep \in BOOLEAN : Put(id, v, keep)
  \/ \E id \in Id, keep \in BOOLEAN : Describe(id, keep)
  \/ Unlock
  \/ Lock
  \/ Crash
  \/ \E ids \in SUBSET Id : Remove(ids)

Spec == Init /\ [][Next]_vars
================================================================================
