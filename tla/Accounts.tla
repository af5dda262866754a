------------------------------ MODULE Accounts ------------------------------
(***************************************************************************)
(* Whom rows belong to.                                                    *)
(***************************************************************************)
CONSTANTS
  Users,
  Nobody   \* NULL in a column that refers to a user, or no row or object at all

ASSUME AccountAssumption == Nobody \notin Users
=============================================================================
