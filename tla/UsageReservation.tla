-------------------------- MODULE UsageReservation --------------------------
(***************************************************************************)
(* The usage-billing tables of one user: the balance account, the budget   *)
(* reservations ("holds"), the usage ledger, the balance transactions and  *)
(* the top-up orders.  Every action is one committed transaction of        *)
(* infra/persistence/postgres/billing: the account row lock (or the lock   *)
(* on the one row it updates) makes it atomic.  A call that returns an     *)
(* error rolls back and is no step.  The callers are unconstrained here:   *)
(* any call may come at any time, in any order, any number of times.       *)
(* UsageSession composes these operations with the code that calls them.   *)
(*                                                                         *)
(* Operators named Fault... are not part of the model: each is a form of   *)
(* the definition that follows it with one plausible mistake, used to see  *)
(* that a property notices it.                                             *)
(*                                                                         *)
(* Money is counted in whole units.  `lease' is the time left until        *)
(* expires_at, in renewal intervals (usageReservationTTL is 3h, a renewal  *)
(* comes every 30 minutes: LeaseTTL = 6 in the code).                      *)
(***************************************************************************)
EXTENDS Totals, Sequences

CONSTANTS
    Refs,            \* the client run ids (ref_no) of the user
    Orders,          \* the user's top-up payment orders
    MaxSlots,        \* UsageReservationMaxActivePerUser
    LeaseTTL,        \* usageReservationTTL in renewal intervals
    Periods,         \* the calendar months of the run, as numbers from 1
    Credits,         \* period credits the user's plans grant
    Prepaid,         \* values of the prepaid-amount setting, 0 = not set
    Estimates,       \* costs estimated from the shape of a request
    Charges,         \* actual costs of a run
    TopUpCredit,     \* credit of a top-up order
    AdminBalances,   \* balances an administrator sets
    OpeningBalance,  \* the balance before the first modelled transaction
    MaxAdminSets     \* bound on administrator changes

ASSUME RefsAssumption   == IsFiniteSet(Refs)
ASSUME LimitAssumption  == /\ MaxSlots \in Nat \ {0}
                           /\ LeaseTTL \in Nat \ {0}
                           /\ MaxAdminSets \in Nat
ASSUME AmountAssumption == /\ Credits \subseteq Nat
                           /\ Prepaid \subseteq Nat
                           /\ Estimates \subseteq Nat
                           /\ Charges \subseteq Nat
                           /\ AdminBalances \subseteq Nat
                           /\ TopUpCredit \in Nat \ {0}
                           /\ OpeningBalance \in Int
ASSUME PeriodAssumption == Periods \subseteq Nat \ {0}

VARIABLES
    balance,   \* billing_accounts.balance_nanousd, may be a debt
    resv,      \* billing_usage_reservations by ref_no
    ledger,    \* billing_usage_ledgers by ref_no
    txs,       \* billing_balance_transactions, in commit order
    orders     \* status of each top-up order

billingVars == <<balance, resv, ledger, txs, orders>>

(***************************************************************************)
(* Rows.  Both tables have a unique index on (user_id, ref_no), so a row   *)
(* is found by its ref; status "none" and present = FALSE stand for no row.*)
(* Period 0 stands for the NULL bounds of a usage-mode row.                *)
(***************************************************************************)
Modes    == {"usage", "period"}
Statuses == {"none", "active", "settled", "released", "reconciliation"}

Hold == [status: Statuses, mode: Modes \cup {"none"}, balance: Nat,
         periodCredit: Nat, periodLimit: Nat, period: Periods \cup {0},
         lease: 0 .. LeaseTTL]

NoHold == [status |-> "none", mode |-> "none", balance |-> 0, periodCredit |-> 0,
           periodLimit |-> 0, period |-> 0, lease |-> 0]

\* billingAt is the month of billing_at, creditPeriod the month whose credit
\* the settlement drew on, covered and charged the parts of billed that the
\* period credit and the balance paid.
LedgerRow == [present: BOOLEAN, billed: Nat, billingAt: Periods \cup {0},
              creditPeriod: Periods \cup {0}, covered: Nat, charged: Nat]

NoRow == [present |-> FALSE, billed |-> 0, billingAt |-> 0,
          creditPeriod |-> 0, covered |-> 0, charged |-> 0]

Transaction == [type: {"usage_debit", "topup", "admin_set"}, ref: Refs \cup Orders \cup {"admin"},
                amount: Int, after: Int]

(***************************************************************************)
(* Budget arithmetic.  Amounts stay far below 2^63, so the saturation of   *)
(* addNonNegativeInt64 is not modelled.                                    *)
(***************************************************************************)
Lesser(a, b) == IF a < b THEN a ELSE b

\* What is left may go below zero.
FaultUnclampedBudget(limit, consumed, reserved) == limit - consumed - reserved

RemainingBudget(limit, consumed, reserved) ==
    LET left == limit - consumed - reserved IN IF left > 0 THEN left ELSE 0

\* An equal share of what is left for every free slot, rounded up.
DivideAcrossSlots(available, slots) == (available + slots - 1) \div slots

\* Holds that still occupy a slot and their budget.
LiveHolds == {r \in Refs : \/ resv[r].status = "active" /\ resv[r].lease > 0
                           \/ resv[r].status = "reconciliation"}

HeldBalance(holds) == Total([r \in Refs |-> resv[r].balance], holds)

HeldCredit(p, holds) ==
    Total([r \in Refs |-> resv[r].periodCredit], {r \in holds : resv[r].period = p})

\* Free runs are billed 0, so they do not count.
BilledIn(p) ==
    Total([r \in Refs |-> ledger[r].billed],
          {r \in Refs : ledger[r].present /\ ledger[r].billingAt = p})

\* The balance that other holds have already taken is offered again.
FaultBalanceIgnoresHolds(others) == RemainingBudget(balance, 0, 0)

AvailableBalance(others) == RemainingBudget(balance, HeldBalance(others), 0)

AvailableCredit(mode, p, limit, others) ==
    IF mode = "period" THEN RemainingBudget(limit, BilledIn(p), HeldCredit(p, others)) ELSE 0

-----------------------------------------------------------------------------
(***************************************************************************)
(* Reservations.                                                           *)
(***************************************************************************)

Requested(prepaid, available) ==
    IF prepaid > 0 THEN prepaid
    ELSE DivideAcrossSlots(available, MaxSlots - Cardinality(LiveHolds))

CanReserve(r, mode, prepaid, p, limit) ==
    LET available == AvailableCredit(mode, p, limit, LiveHolds) + AvailableBalance(LiveHolds)
    IN  /\ resv[r].status = "none"
        /\ Cardinality(LiveHolds) < MaxSlots
        /\ balance >= 0
        /\ Requested(prepaid, available) \in 1 .. available

ReserveUsageBalance(r, mode, prepaid, p, limit) ==
    LET credit    == AvailableCredit(mode, p, limit, LiveHolds)
        requested == Requested(prepaid, credit + AvailableBalance(LiveHolds))
        covered   == Lesser(requested, credit)
    IN  /\ CanReserve(r, mode, prepaid, p, limit)
        /\ resv' = [resv EXCEPT ![r] =
                       [status |-> "active", mode |-> mode, balance |-> requested - covered,
                        periodCredit |-> covered, periodLimit |-> limit, period |-> p,
                        lease |-> LeaseTTL]]
        /\ UNCHANGED <<balance, ledger, txs, orders>>

\* The lease is still held: Raise and Renew refuse any other row.
Leased(r) == resv[r].status = "active" /\ resv[r].lease > 0

CoveredBy(r, required) == required <= resv[r].balance + resv[r].periodCredit

CanRaise(r, required) ==
    LET others == LiveHolds \ {r}
    IN  /\ Leased(r)
        /\ \/ CoveredBy(r, required)
           \/ required <= AvailableCredit(resv[r].mode, resv[r].period, resv[r].periodLimit, others)
                            + AvailableBalance(others)

\* A hold only grows, and its split is computed anew from what is available now.
RaiseUsageBalanceReservation(r, required) ==
    LET others  == LiveHolds \ {r}
        credit  == AvailableCredit(resv[r].mode, resv[r].period, resv[r].periodLimit, others)
        covered == Lesser(required, credit)
    IN  /\ CanRaise(r, required)
        /\ ~ CoveredBy(r, required)
        /\ resv' = [resv EXCEPT ![r].balance = required - covered, ![r].periodCredit = covered]
        /\ UNCHANGED <<balance, ledger, txs, orders>>

ReleaseUsageBalanceReservation(r) ==
    /\ resv[r].status = "active"
    /\ resv' = [resv EXCEPT ![r].status = "released"]
    /\ UNCHANGED <<balance, ledger, txs, orders>>

RenewUsageBalanceReservation(r) ==
    /\ Leased(r)
    /\ resv' = [resv EXCEPT ![r].lease = LeaseTTL]
    /\ UNCHANGED <<balance, ledger, txs, orders>>

\* A row of any status may be marked.
FaultMarkAnyRow(r) == resv[r].status # "none"

\* No look at the lease: a lapsed hold takes up a slot and its budget again.
CanMark(r) == resv[r].status \in {"active", "reconciliation"}

MarkUsageReservationReconciliationRequired(r) ==
    /\ CanMark(r)
    /\ resv' = [resv EXCEPT ![r].status = "reconciliation"]
    /\ UNCHANGED <<balance, ledger, txs, orders>>

-----------------------------------------------------------------------------
(***************************************************************************)
(* Settlement.  `reserved' tells whether the caller's authorization holds  *)
(* a reservation.                                                          *)
(***************************************************************************)

\* The outcome getUsageReservationForSettlement and the ref_no look-ups lead to.
Replayed(r, reserved) ==
    IF reserved THEN resv[r].status = "settled" ELSE ledger[r].present

Open(r, reserved) ==
    reserved => resv[r].status \in {"active", "reconciliation"}

\* The unique index of the ledger admits the row.
Insertable(r) == ~ ledger[r].present

\* Usage(r, ...) settles for the first time.
CanSettle(r, reserved) ==
    Open(r, reserved) /\ ~ Replayed(r, reserved) /\ Insertable(r)

\* The balance after the transaction is taken before it is applied.
FaultStaleBalanceAfter(type, ref, amount) ==
    txs' = Append(txs, [type |-> type, ref |-> ref, amount |-> amount, after |-> balance])

RecordTransaction(type, ref, amount) ==
    txs' = Append(txs, [type |-> type, ref |-> ref, amount |-> amount, after |-> balance + amount])

Debit(r, amount) ==
    IF amount > 0
    THEN balance' = balance - amount /\ RecordTransaction("usage_debit", r, 0 - amount)
    ELSE UNCHANGED <<balance, txs>>

SettleReservation(r, reserved) ==
    resv' = IF reserved THEN [resv EXCEPT ![r].status = "settled"] ELSE resv

\* Self mode: every price is zero and nobody's balance is touched.
AddUsage(r, at) ==
    /\ CanSettle(r, FALSE)
    /\ ledger' = [ledger EXCEPT ![r] =
                     [present |-> TRUE, billed |-> 0, billingAt |-> at,
                      creditPeriod |-> 0, covered |-> 0, charged |-> 0]]
    /\ UNCHANGED <<balance, resv, txs, orders>>

AddUsageAndSettleBalance(r, reserved, charge, at) ==
    /\ CanSettle(r, reserved)
    /\ reserved => resv[r].mode = "usage"
    /\ ledger' = [ledger EXCEPT ![r] =
                     [present |-> TRUE, billed |-> charge, billingAt |-> at,
                      creditPeriod |-> 0, covered |-> 0, charged |-> charge]]
    /\ Debit(r, charge)
    /\ SettleReservation(r, reserved)
    /\ UNCHANGED orders

MatchesPeriodReservation(r, p, limit) ==
    resv[r].mode = "period" /\ resv[r].period = p /\ resv[r].periodLimit = limit

\* What the month's bills have used of the credit is not subtracted.
FaultCreditIgnoresBills(r, reserved, charge, p, limit) == Lesser(charge, limit)

\* The part of the charge that the credit left by others' holds pays.
CoveredByCredit(r, reserved, charge, p, limit) ==
    LET others == IF reserved THEN LiveHolds \ {r} ELSE LiveHolds
    IN  Lesser(charge, RemainingBudget(limit, BilledIn(p), HeldCredit(p, others)))

\* The row shows the whole cost as charged, also what the credit covers.
FaultRowIgnoresCredit(r, reserved, charge, at, p, limit) ==
    LET covered == CoveredByCredit(r, reserved, charge, p, limit)
    IN  /\ CanSettle(r, reserved)
        /\ reserved => MatchesPeriodReservation(r, p, limit)
        /\ ledger' = [ledger EXCEPT ![r] =
                         [present |-> TRUE, billed |-> charge, billingAt |-> at,
                          creditPeriod |-> p, covered |-> covered, charged |-> charge]]
        /\ Debit(r, charge - covered)
        /\ SettleReservation(r, reserved)
        /\ UNCHANGED orders

AddPeriodUsageAndSettleOverage(r, reserved, charge, at, p, limit) ==
    LET covered == CoveredByCredit(r, reserved, charge, p, limit)
    IN  /\ CanSettle(r, reserved)
        /\ reserved => MatchesPeriodReservation(r, p, limit)
        /\ ledger' = [ledger EXCEPT ![r] =
                         [present |-> TRUE, billed |-> charge, billingAt |-> at,
                          creditPeriod |-> p, covered |-> covered, charged |-> charge - covered]]
        /\ Debit(r, charge - covered)
        /\ SettleReservation(r, reserved)
        /\ UNCHANGED orders

-----------------------------------------------------------------------------
(***************************************************************************)
(* The other writers of the balance, and time.                             *)
(***************************************************************************)

AdminSets == {i \in DOMAIN txs : txs[i].type = "admin_set"}

\* Setting the balance it already has leaves no transaction and no change.
SetBillingAccountBalance(amount) ==
    /\ amount # balance
    /\ Cardinality(AdminSets) < MaxAdminSets
    /\ balance' = amount
    /\ RecordTransaction("admin_set", "admin", amount - balance)
    /\ UNCHANGED <<resv, ledger, orders>>

\* The callback does not look at what became of the order.
FaultCallbackCreditsAgain(o) ==
    /\ orders' = [orders EXCEPT ![o] = "paid"]
    /\ balance' = balance + TopUpCredit
    /\ RecordTransaction("topup", o, TopUpCredit)
    /\ UNCHANGED <<resv, ledger>>

\* A repeated callback finds the order paid and returns it unchanged; a
\* callback dated after the order's expiry rolls its own update back.
MarkPaymentOrderPaidAndCreditBalance(o) ==
    /\ orders[o] = "pending"
    /\ orders' = [orders EXCEPT ![o] = "paid"]
    /\ balance' = balance + TopUpCredit
    /\ RecordTransaction("topup", o, TopUpCredit)
    /\ UNCHANGED <<resv, ledger>>

Shorter(lease) == IF lease > 0 THEN lease - 1 ELSE 0

\* One renewal interval passes.
Tick ==
    /\ \E r \in Refs : resv[r].lease > 0
    /\ resv' = [r \in Refs |-> [resv[r] EXCEPT !.lease = Shorter(resv[r].lease)]]
    /\ UNCHANGED <<balance, ledger, txs, orders>>

-----------------------------------------------------------------------------
BillingInit ==
    /\ balance = OpeningBalance
    /\ resv = [r \in Refs |-> NoHold]
    /\ ledger = [r \in Refs |-> NoRow]
    /\ txs = <<>>
    /\ orders = [o \in Orders |-> "pending"]

Reserving(r) ==
    \E prepaid \in Prepaid :
        \/ ReserveUsageBalance(r, "usage", prepaid, 0, 0)
        \/ \E p \in Periods, limit \in Credits :
               ReserveUsageBalance(r, "period", prepaid, p, limit)

Settling(r) ==
    \E at \in Periods, reserved \in BOOLEAN :
        \/ ~ reserved /\ AddUsage(r, at)
        \/ \E charge \in Charges :
               \/ AddUsageAndSettleBalance(r, reserved, charge, at)
               \/ \E p \in Periods, limit \in Credits :
                      AddPeriodUsageAndSettleOverage(r, reserved, charge, at, p, limit)

Holding(r) ==
    \/ \E required \in Estimates : RaiseUsageBalanceReservation(r, required)
    \/ ReleaseUsageBalanceReservation(r)
    \/ RenewUsageBalanceReservation(r)
    \/ MarkUsageReservationReconciliationRequired(r)

Funding ==
    \/ \E amount \in AdminBalances : SetBillingAccountBalance(amount)
    \/ \E o \in Orders : MarkPaymentOrderPaidAndCreditBalance(o)

BillingNext ==
    \/ \E r \in Refs : Reserving(r) \/ Holding(r) \/ Settling(r)
    \/ Funding
    \/ Tick

BillingSpec == BillingInit /\ [][BillingNext]_billingVars

-----------------------------------------------------------------------------
(***************************************************************************)
(* What the tables promise to callers that come in any order.              *)
(***************************************************************************)

\* Every column keeps its type (the gorm models of models/billing.go).
TypeOK ==
    /\ balance \in Int
    /\ resv \in [Refs -> Hold]
    /\ ledger \in [Refs -> LedgerRow]
    /\ txs \in Seq(Transaction)
    /\ orders \in [Orders -> {"pending", "paid"}]

Debits(r) == {i \in DOMAIN txs : txs[i].type = "usage_debit" /\ txs[i].ref = r}

\* However often a settlement is retried or raced, a run is debited once, and
\* by exactly what its ledger row says the balance pays; a run whose cost the
\* credit covers, or that has no ledger row, is not debited
\* (AddUsageAndSettleBalance, AddPeriodUsageAndSettleOverage).
DebitedOnce ==
    \A r \in Refs :
        /\ \A i, j \in Debits(r) : i = j
        /\ \A i \in Debits(r) : txs[i].amount = 0 - ledger[r].charged
        /\ (ledger[r].present /\ ledger[r].charged > 0) <=> (Debits(r) # {})

TopUps(o) == {i \in DOMAIN txs : txs[i].type = "topup" /\ txs[i].ref = o}

\* However often the provider delivers its callback, and beside whatever other
\* transactions, an order is credited once, by what it is worth, and shows paid
\* exactly when it has been (MarkPaymentOrderPaidAndCreditBalance).
CreditedOnce ==
    \A o \in Orders :
        /\ \A i, j \in TopUps(o) : i = j
        /\ \A i \in TopUps(o) : txs[i].amount = TopUpCredit
        /\ orders[o] = "paid" <=> TopUps(o) # {}

\* The statement adds up: BalanceAfterNanousd of every transaction is that of
\* the one before plus its amount, and the account shows the last of them, so
\* no writer of the balance bypasses the statement or computes from a stale
\* balance.
BalanceBefore(i) == IF i = 1 THEN OpeningBalance ELSE txs[i - 1].after

StatementAddsUp ==
    /\ \A i \in DOMAIN txs : txs[i].after = BalanceBefore(i) + txs[i].amount
    /\ balance = BalanceBefore(Len(txs) + 1)

\* Settlement is one transaction: a hold is settled only with the ledger row of
\* its run, and the row splits the bill between credit and balance without
\* remainder.
SettledHoldIsBilled ==
    \A r \in Refs :
        /\ resv[r].status = "settled" => ledger[r].present
        /\ ledger[r].billed = ledger[r].covered + ledger[r].charged

\* The books balance: the parts above of what every settlement, replay and
\* funding leaves behind, together with the types of the tables.
BooksBalance ==
    TypeOK /\ DebitedOnce /\ CreditedOnce /\ StatementAddsUp /\ SettledHoldIsBilled

CoveredIn(p) ==
    Total([r \in Refs |-> ledger[r].covered],
          {r \in Refs : /\ ledger[r].present
                        /\ ledger[r].creditPeriod = p /\ ledger[r].billingAt = p})

\* Concurrent settlements never hand out the credit of a month twice: the runs
\* billed in the month they were authorized for are covered by at most the
\* largest credit a plan grants.
CreditNotOversold ==
    \A p \in Periods :
        CoveredIn(p) > 0 => \E limit \in Credits : CoveredIn(p) <= limit

\* A hold that is settled or released stays as it is, and one whose cost awaits
\* reconciliation is never released or taken back into use.
NextStatuses(status) ==
    CASE status = "none"           -> {"none", "active"}
      [] status = "active"         -> {"active", "settled", "released", "reconciliation"}
      [] status = "reconciliation" -> {"reconciliation", "settled"}
      [] OTHER                     -> {status}

HoldLifecycle ==
    [][\A r \in Refs :
          /\ resv'[r].status \in NextStatuses(resv[r].status)
          /\ resv[r].status \in {"settled", "released"} =>
                 /\ resv'[r].balance = resv[r].balance
                 /\ resv'[r].periodCredit = resv[r].periodCredit]_billingVars

\* No transaction commits a budget it does not have: whenever a hold takes more
\* balance or more credit, all live holds together stay within the balance, or
\* within what the month's bills leave of the credit (ReserveUsageBalance and
\* RaiseUsageBalanceReservation under the account lock).
GrantsWithinBudget ==
    [][\A r \in Refs :
          /\ resv'[r].balance > resv[r].balance => HeldBalance(LiveHolds)' <= balance'
          /\ resv'[r].periodCredit > resv[r].periodCredit =>
                 \A p \in Periods : resv'[r].period = p =>
                     (HeldCredit(p, LiveHolds) + BilledIn(p))' <= resv'[r].periodLimit]_billingVars

-----------------------------------------------------------------------------
(***************************************************************************)
(* The tables implement UsageAccounting: a ledger row is the bill of its   *)
(* run, and every transaction that is no usage debit funds the account.    *)
(***************************************************************************)
Fundings == {i \in DOMAIN txs : txs[i].type # "usage_debit"}

Accounting == INSTANCE UsageAccounting WITH
    Runs     <- Refs,
    Bills    <- UNION {0 .. charge : charge \in Charges \cup {0}},
    Deposits <- {TopUpCredit},
    Levels   <- AdminBalances,
    Opening  <- OpeningBalance,
    money    <- balance,
    billed   <- {r \in Refs : ledger[r].present},
    paid     <- [r \in Refs |-> ledger[r].charged],
    funded   <- Cardinality(Fundings)

\* Every transaction of the tables bills one unbilled run, funds the account
\* once, or changes nothing the owner of the account can see.
ImplementsAccounting == Accounting!Spec

=============================================================================
