-------------------------- MODULE SpendingAllowance --------------------------
(***************************************************************************)
(* What "authorize coinjoin" promises the user, with nothing about psbts   *)
(* or messages in it: the device holds an allowance of rounds and satoshis *)
(* that only the user can grant.  Each unattended signature draws on it,   *)
(* nothing puts anything back, and withdrawing it is always possible.      *)
(***************************************************************************)
EXTENDS Integers

VARIABLES
  rounds_left,   \* rounds that may still be signed unattended
  sats_left,     \* satoshis those rounds may still cost in total
  signed         \* rounds signed under the present allowance

vars == <<rounds_left, sats_left, signed>>

Init == rounds_left = 0 /\ sats_left = 0 /\ signed = 0

\* The user grants a new allowance; it replaces what was left of the old one.
Grant ==
  /\ rounds_left' \in Nat \ {0}
  /\ sats_left' \in Nat
  /\ signed' = 0

\* A round is signed.  Rounds that earn money leave the satoshis as they are.
SignRound ==
  /\ rounds_left > 0
  /\ rounds_left' = rounds_left - 1
  /\ sats_left' \in 0 .. sats_left
  /\ signed' = signed + 1

Withdraw ==
  /\ rounds_left' = 0 /\ sats_left' = 0 /\ signed' = 0

Next == Grant \/ SignRound \/ Withdraw

Spec == Init /\ [][Next]_vars
=============================================================================
