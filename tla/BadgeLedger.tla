---------------------------- MODULE BadgeLedger ----------------------------
(***************************************************************************)
(* What the system promises about badges, wherever they come from: one is  *)
(* earned by a decision, is given only for what was earned, and is never   *)
(* taken back.                                                             *)
(***************************************************************************)
CONSTANTS Users,
          Sources  \* what a badge is for: challenges, activities or courses

VARIABLES earned,  \* pairs <<user, source>> with a decision in their favour
          given    \* pairs with a row in badges

ledgerVars == <<earned, given>>

Init == earned = {} /\ given = {}

Earn(u, s) ==
  /\ earned' = earned \union {<<u, s>>}
  /\ UNCHANGED given

Give(u, s) ==
  /\ <<u, s>> \in earned
  /\ given' = given \union {<<u, s>>}
  /\ UNCHANGED earned

Next == \E u \in Users, s \in Sources : Earn(u, s) \/ Give(u, s)

Spec == Init /\ [][Next]_ledgerVars
=============================================================================
