--------------------------- MODULE MCPushDelivery ---------------------------
(***************************************************************************)
(* Small instances of PushDelivery.  *)
(***************************************************************************)
EXTENDS PushDelivery, TLC

Interchangeable == Permutations(Tokens)
=============================================================================
