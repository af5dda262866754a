----------------------- MODULE MCConservationActivity -----------------------
(***************************************************************************)
(* Small instances of ConservationActivity.                                *)
(***************************************************************************)
EXTENDS ConservationActivity, TLC

Interchangeable == Permutations(Users) \union Permutations(Requests) \union Permutations(Reviews)
=============================================================================
