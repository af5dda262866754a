------------------------- MODULE NotificationLedger -------------------------
(***************************************************************************)
(* What the push subsystem promises about one notification, whatever the   *)
(* goroutines, requests, crashes and Expo do: a notification is accepted,  *)
(* then claimed once and for all, and from then on every sender hands it   *)
(* to every device at most once.  PushDelivery implements this module.     *)
(***************************************************************************)
EXTENDS Naturals

CONSTANTS Jobs,    \* rows of push_notifications
          Tokens,  \* rows of push_tokens
          Senders  \* the worker's goroutines and the Send requests

VARIABLES phase,   \* phase[j]: "none", "waiting" or "claimed"
          ledger   \* ledger[s][j][t]: how often s handed j to Expo for t

ledgerVars == <<phase, ledger>>

Init ==
  /\ phase  = [j \in Jobs |-> "none"]
  /\ ledger = [s \in Senders |-> [j \in Jobs |-> [t \in Tokens |-> 0]]]

\* A notification is stored to be sent later.
Accept(j) ==
  /\ phase[j] = "none"
  /\ phase' = [phase EXCEPT ![j] = "waiting"]
  /\ UNCHANGED ledger

\* A sender takes the notification up; no later step returns it.
Claim(j) ==
  /\ phase[j] # "claimed"
  /\ phase' = [phase EXCEPT ![j] = "claimed"]
  /\ UNCHANGED ledger

\* s hands a claimed notification to Expo for the devices C, none of which
\* it has handed it to before.
Deliver(s, j, C) ==
  /\ phase[j] = "claimed"
  /\ \A t \in C : ledger[s][j][t] = 0
  /\ ledger' = [ledger EXCEPT ![s][j] = [t \in Tokens |-> IF t \in C THEN 1 ELSE @[t]]]
  /\ UNCHANGED phase

Next ==
  \/ \E j \in Jobs : Accept(j) \/ Claim(j)
  \/ \E s \in Senders, j \in Jobs : \E C \in SUBSET Tokens : Deliver(s, j, C)

Spec == Init /\ [][Next]_ledgerVars
=============================================================================
