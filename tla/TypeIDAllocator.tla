--------------------------- MODULE TypeIDAllocator ---------------------------
(***************************************************************************)
(* Type-id allocation of the crypto driver registry (spec.md 4.1).  A     *)
(* registration either names a manual id, which must lie in               *)
(* [1, MaxManualTypeID], or none, in which case the id is derived from a  *)
(* hash of the driver name.  The hash is abstracted to the function       *)
(* DeriveTypeID: what the registry relies on is only that it is a pure    *)
(* function of the name whose values lie above the manual range; two      *)
(* names may collide, and the model chooses such a pair on purpose.       *)
(***************************************************************************)
EXTENDS Integers

CONSTANTS
  MaxManualTypeID,   \* upper end of the manually assigned range
  DeriveTypeID,      \* name -> id derived from the hash of the name
  NoTypeID           \* the registration carries no WithOptionTypeID

ASSUME MaxManualTypeID \in Nat \ {0}
ASSUME \A n \in DOMAIN DeriveTypeID : DeriveTypeID[n] > MaxManualTypeID

\* validate_manual: ids <= 0 and ids above MaxManualTypeID are refused,
\* MaxManualTypeID itself is accepted.
ValidManualTypeID(id) == id > 0 /\ id <= MaxManualTypeID

\* The id a registration resolves to: the manual one, or derive(name).
ResolveTypeID(name, id) == IF id = NoTypeID THEN DeriveTypeID[name] ELSE id

=============================================================================
