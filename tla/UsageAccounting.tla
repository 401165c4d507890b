-------------------------- MODULE UsageAccounting --------------------------
(***************************************************************************)
(* What usage billing promises the owner of an account, without holds,     *)
(* ledgers or statements: money leaves the account only as the bill of a   *)
(* run, every run is billed at most once, and every other change of the    *)
(* balance is a funding event of its own.                                  *)
(***************************************************************************)
EXTENDS Integers

CONSTANTS
    Runs,      \* the runs that may be billed
    Bills,     \* what a bill may take from the balance
    Deposits,  \* amounts a payment adds
    Levels,    \* balances an administrator sets
    Opening    \* the balance at the start

VARIABLES
    money,     \* the balance
    billed,    \* the runs that have been billed
    paid,      \* what each run's bill took from the balance
    funded     \* number of funding events

vars == <<money, billed, paid, funded>>

Init ==
    /\ money = Opening
    /\ billed = {}
    /\ paid = [r \in Runs |-> 0]
    /\ funded = 0

Bill(r, amount) ==
    /\ r \notin billed
    /\ billed' = billed \cup {r}
    /\ paid' = [paid EXCEPT ![r] = amount]
    /\ money' = money - amount
    /\ UNCHANGED funded

Fund ==
    /\ \/ \E amount \in Deposits : money' = money + amount
       \/ \E level \in Levels : money' = level
    /\ funded' = funded + 1
    /\ UNCHANGED <<billed, paid>>

Next ==
    \/ \E r \in Runs, amount \in Bills : Bill(r, amount)
    \/ Fund

Spec == Init /\ [][Next]_vars

=============================================================================
