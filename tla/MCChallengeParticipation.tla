---------------------- MODULE MCChallengeParticipation ----------------------
(***************************************************************************)
(* Small instances of ChallengeParticipation.                              *)
(***************************************************************************)
EXTENDS ChallengeParticipation, TLC

Interchangeable == Permutations(Users) \union Permutations(Reviews) \union Permutations(Challenges)
=============================================================================
