---------------------- MODULE UsageReservationProofs ----------------------
(***************************************************************************)
(* Proofs about the billing tables, for any set of runs, any amounts and   *)
(* any order of calls.                                                     *)
(***************************************************************************)
EXTENDS UsageReservation, FiniteSetTheorems, SequenceTheorems, TLAPS

-----------------------------------------------------------------------------
(***************************************************************************)
(* Sums over finite sets of rows.                                          *)
(***************************************************************************)

\* The units of a finite set of rows with natural amounts are finite.
LEMMA UnitsFinite ==
    ASSUME NEW rows, IsFiniteSet(rows), NEW amount, \A x \in rows : amount[x] \in Nat
    PROVE  IsFiniteSet(Units(amount, rows))
<1> DEFINE image == {UnitsOf(amount, x) : x \in rows}
<1> DEFINE f == [x \in rows |-> UnitsOf(amount, x)]
<1>1. f \in Surjection(rows, image)
  BY DEF Surjection
<1>2. IsFiniteSet(image)
  <2> HIDE DEF f, image
  <2> QED BY <1>1, FS_Surjection
<1>3. ASSUME NEW x \in rows PROVE IsFiniteSet(UnitsOf(amount, x))
  <2>1. IsFiniteSet({x})
    BY FS_Singleton
  <2>2. IsFiniteSet(1 .. amount[x])
    BY FS_Interval
  <2> QED BY <2>1, <2>2, FS_Product DEF UnitsOf
<1>4. \A T \in image : IsFiniteSet(T)
  BY <1>3
<1> QED
  <2> HIDE DEF image
  <2>1. IsFiniteSet(UNION image)
    BY <1>2, <1>4, FS_UNION
  <2> QED BY <2>1 DEF Units, image

\* A sum of natural numbers is a natural number (the COALESCE of the queries).
LEMMA TotalNat ==
    ASSUME NEW rows, IsFiniteSet(rows), NEW amount, \A x \in rows : amount[x] \in Nat
    PROVE  Total(amount, rows) \in Nat
BY UnitsFinite, FS_CardinalityType DEF Total

\* Only the amounts of the rows summed over matter.
LEMMA TotalSame ==
    ASSUME NEW rows, NEW amount, NEW other, \A x \in rows : amount[x] = other[x]
    PROVE  Total(amount, rows) = Total(other, rows)
<1>1. Units(amount, rows) = Units(other, rows)
  BY DEF Units, UnitsOf
<1> QED BY <1>1 DEF Total

\* One row more adds its amount.
LEMMA TotalAdd ==
    ASSUME NEW rows, IsFiniteSet(rows), NEW row, row \notin rows, NEW amount,
           \A x \in rows \cup {row} : amount[x] \in Nat
    PROVE  Total(amount, rows \cup {row}) = Total(amount, rows) + amount[row]
<1> DEFINE old == Units(amount, rows)
           new == UnitsOf(amount, row)
<1>1. IsFiniteSet(old)
  BY UnitsFinite
<1>2. amount[row] \in Nat
  OBVIOUS
<1>3. IsFiniteSet(new) /\ Cardinality(new) = amount[row]
  <2>1. IsFiniteSet({row}) /\ Cardinality({row}) = 1
    BY FS_Singleton
  <2>2. IsFiniteSet(1 .. amount[row]) /\ Cardinality(1 .. amount[row]) = amount[row]
    <3>1. /\ IsFiniteSet(1 .. amount[row])
          /\ Cardinality(1 .. amount[row]) =
                IF 1 > amount[row] THEN 0 ELSE amount[row] - 1 + 1
      BY <1>2, FS_Interval
    <3> QED BY <1>2, <3>1
  <2>3. IsFiniteSet({row} \X (1 .. amount[row])) /\
        Cardinality({row} \X (1 .. amount[row])) = 1 * amount[row]
    BY <2>1, <2>2, FS_Product
  <2>4. IsFiniteSet({row} \X (1 .. amount[row])) /\
        Cardinality({row} \X (1 .. amount[row])) = amount[row]
    BY <1>2, <2>3
  <2> QED BY <2>4 DEF UnitsOf
<1>4. Units(amount, rows \cup {row}) = old \cup new
  BY DEF Units
<1>5. old \cap new = {}
  BY DEF Units, UnitsOf
<1>6. Total(amount, rows \cup {row}) = Cardinality(old \cup new) /\
      Total(amount, rows) = Cardinality(old)
  BY <1>4 DEF Total
<1> HIDE DEF old, new
<1>7. Cardinality(old \cup new) = Cardinality(old) + Cardinality(new) - Cardinality({})
  BY <1>1, <1>3, <1>5, FS_Union
<1>8. Cardinality(old) \in Nat /\ Cardinality({}) = 0
  BY <1>1, FS_CardinalityType, FS_EmptySet
<1> QED BY <1>2, <1>3, <1>6, <1>7, <1>8

\* Fewer rows, or smaller amounts, give a smaller sum.
LEMMA TotalMonotone ==
    ASSUME NEW few, NEW many, few \subseteq many, IsFiniteSet(many), NEW small, NEW large,
           \A x \in many : large[x] \in Nat,
           \A x \in few : small[x] \in Nat /\ small[x] <= large[x]
    PROVE  Total(small, few) <= Total(large, many)
<1>1. Units(small, few) \subseteq Units(large, many)
  BY DEF Units, UnitsOf
<1>2. IsFiniteSet(Units(large, many))
  BY UnitsFinite
<1> QED BY <1>1, <1>2, FS_Subset DEF Total

\* The sum over no rows.
LEMMA TotalEmpty == \A amount : Total(amount, {}) = 0
BY FS_EmptySet DEF Total, Units

-----------------------------------------------------------------------------
(***************************************************************************)
(* What the queries return.                                                *)
(***************************************************************************)

\* The live holds are finitely many.
LEMMA LiveHoldsFinite ==
    /\ LiveHolds \subseteq Refs
    /\ IsFiniteSet(LiveHolds)
    /\ Cardinality(LiveHolds) \in Nat
<1>1. LiveHolds \subseteq Refs
  BY DEF LiveHolds
<1> QED BY <1>1, RefsAssumption, FS_Subset, FS_CardinalityType

\* sumActiveBalanceReservations returns a natural number.
LEMMA HeldBalanceNat ==
    ASSUME resv \in [Refs -> Hold], NEW holds \in SUBSET Refs
    PROVE  HeldBalance(holds) \in Nat
<1>1. IsFiniteSet(holds)
  BY RefsAssumption, FS_Subset
<1>2. \A x \in holds : [r \in Refs |-> resv[r].balance][x] \in Nat
  BY DEF Hold
<1> QED BY <1>1, <1>2, TotalNat DEF HeldBalance

\* sumActivePeriodCreditReservations returns a natural number.
LEMMA HeldCreditNat ==
    ASSUME resv \in [Refs -> Hold], NEW holds \in SUBSET Refs, NEW p
    PROVE  HeldCredit(p, holds) \in Nat
<1> DEFINE rows == {r \in holds : resv[r].period = p}
<1>1. IsFiniteSet(rows)
  BY RefsAssumption, FS_Subset
<1>2. \A x \in rows : [r \in Refs |-> resv[r].periodCredit][x] \in Nat
  BY DEF Hold
<1>3. Total([r \in Refs |-> resv[r].periodCredit], rows) \in Nat
  <2> HIDE DEF rows
  <2> QED BY <1>1, <1>2, TotalNat
<1> QED BY <1>3 DEF HeldCredit

\* sumPeriodBilledNanousd returns a natural number.
LEMMA BilledInNat ==
    ASSUME ledger \in [Refs -> LedgerRow], NEW p
    PROVE  BilledIn(p) \in Nat
<1> DEFINE rows == {r \in Refs : ledger[r].present /\ ledger[r].billingAt = p}
<1>1. IsFiniteSet(rows)
  BY RefsAssumption, FS_Subset
<1>2. \A x \in rows : [r \in Refs |-> ledger[r].billed][x] \in Nat
  BY DEF LedgerRow
<1>3. Total([r \in Refs |-> ledger[r].billed], rows) \in Nat
  <2> HIDE DEF rows
  <2> QED BY <1>1, <1>2, TotalNat
<1> QED BY <1>3 DEF BilledIn

\* What is left of a budget is never negative, and with everything that uses it
\* stays within the limit when there is anything left (remainingNonNegativeBudget).
LEMMA RemainingBudgetIsLeft ==
    ASSUME NEW limit \in Int, NEW consumed \in Nat, NEW reserved \in Nat
    PROVE  /\ RemainingBudget(limit, consumed, reserved) \in Nat
           /\ RemainingBudget(limit, consumed, reserved) > 0 =>
                  RemainingBudget(limit, consumed, reserved) = limit - consumed - reserved
BY DEF RemainingBudget

\* The smaller of two amounts is one of them and at most the other (minInt64).
LEMMA LesserIsLess ==
    ASSUME NEW a \in Nat, NEW b \in Nat
    PROVE  Lesser(a, b) \in Nat /\ Lesser(a, b) <= a /\ Lesser(a, b) <= b
BY DEF Lesser

\* The balance that others' holds leave.
LEMMA AvailableBalanceNat ==
    ASSUME TypeOK, NEW others \in SUBSET Refs
    PROVE  /\ AvailableBalance(others) \in Nat
           /\ AvailableBalance(others) > 0 =>
                  AvailableBalance(others) = balance - HeldBalance(others)
<1>1. balance \in Int /\ HeldBalance(others) \in Nat
  BY HeldBalanceNat DEF TypeOK
<1> DEFINE left == RemainingBudget(balance, HeldBalance(others), 0)
<1>2. left \in Nat /\ (left > 0 => left = balance - HeldBalance(others) - 0)
  BY <1>1, RemainingBudgetIsLeft
<1>3. AvailableBalance(others) = left
  BY DEF AvailableBalance
<1> HIDE DEF left
<1> QED BY <1>1, <1>2, <1>3

\* The credit that bills and others' holds leave.
LEMMA AvailableCreditNat ==
    ASSUME TypeOK, NEW others \in SUBSET Refs, NEW mode, NEW p, NEW limit \in Nat
    PROVE  /\ AvailableCredit(mode, p, limit, others) \in Nat
           /\ AvailableCredit(mode, p, limit, others) > 0 =>
                  AvailableCredit(mode, p, limit, others) =
                      limit - BilledIn(p) - HeldCredit(p, others)
<1>1. HeldCredit(p, others) \in Nat /\ BilledIn(p) \in Nat /\ limit \in Int
  BY HeldCreditNat, BilledInNat DEF TypeOK
<1> DEFINE left == RemainingBudget(limit, BilledIn(p), HeldCredit(p, others))
<1>2. left \in Nat /\ (left > 0 => left = limit - BilledIn(p) - HeldCredit(p, others))
  BY <1>1, RemainingBudgetIsLeft
<1>3. AvailableCredit(mode, p, limit, others) = IF mode = "period" THEN left ELSE 0
  BY DEF AvailableCredit
<1> HIDE DEF left
<1> QED BY <1>2, <1>3

-----------------------------------------------------------------------------
(***************************************************************************)
(* The kinds of steps.                                                     *)
(***************************************************************************)

\* A new hold is typed and splits what was asked for into what the credit covers
\* and a rest within the available balance.
LEMMA Reserves ==
    ASSUME TypeOK, NEW r \in Refs, NEW mode \in Modes, NEW prepaid \in Prepaid,
           NEW p \in Periods \cup {0}, NEW limit \in Nat,
           ReserveUsageBalance(r, mode, prepaid, p, limit)
    PROVE  \E hold \in Hold :
               /\ resv' = [resv EXCEPT ![r] = hold]
               /\ hold.status = "active" /\ resv[r].status = "none"
               /\ hold.period = p /\ hold.periodLimit = limit /\ hold.lease = LeaseTTL
               /\ hold.periodCredit <= AvailableCredit(mode, p, limit, LiveHolds)
               /\ hold.balance <= AvailableBalance(LiveHolds)
               /\ UNCHANGED <<balance, ledger, txs, orders>>
<1> DEFINE credit    == AvailableCredit(mode, p, limit, LiveHolds)
           funds     == AvailableBalance(LiveHolds)
           requested == Requested(prepaid, credit + funds)
           covered   == Lesser(requested, credit)
           hold      == [status |-> "active", mode |-> mode, balance |-> requested - covered,
                         periodCredit |-> covered, periodLimit |-> limit, period |-> p,
                         lease |-> LeaseTTL]
<1>1. credit \in Nat /\ funds \in Nat
  BY AvailableCreditNat, AvailableBalanceNat, LiveHoldsFinite
<1>2. /\ resv' = [resv EXCEPT ![r] = hold]
      /\ resv[r].status = "none"
      /\ requested \in 1 .. (credit + funds)
      /\ UNCHANGED <<balance, ledger, txs, orders>>
  BY DEF ReserveUsageBalance, CanReserve
<1>3. covered = IF requested < credit THEN requested ELSE credit
  BY DEF Lesser
<1> HIDE DEF credit, funds, requested, covered
<1>4. /\ covered \in Nat /\ covered <= credit
      /\ requested - covered \in Nat /\ requested - covered <= funds
  BY <1>1, <1>2, <1>3
<1>5. hold \in Hold
  BY <1>4, LimitAssumption DEF Hold, Statuses
<1> QED BY <1>2, <1>4, <1>5 DEF credit, funds

\* A raised hold is typed, was leased, and its new split is within what the
\* others leave.
LEMMA Raises ==
    ASSUME TypeOK, NEW r \in Refs, NEW required \in Estimates,
           RaiseUsageBalanceReservation(r, required)
    PROVE  \E bal \in Nat, cred \in Nat :
               /\ resv' = [resv EXCEPT ![r].balance = bal, ![r].periodCredit = cred]
               /\ Leased(r)
               /\ cred <= AvailableCredit(resv[r].mode, resv[r].period, resv[r].periodLimit,
                                           LiveHolds \ {r})
               /\ bal <= AvailableBalance(LiveHolds \ {r})
               /\ UNCHANGED <<balance, ledger, txs, orders>>
<1> DEFINE others  == LiveHolds \ {r}
           credit  == AvailableCredit(resv[r].mode, resv[r].period, resv[r].periodLimit, others)
           funds   == AvailableBalance(others)
           covered == Lesser(required, credit)
<1>1. others \in SUBSET Refs /\ resv[r].periodLimit \in Nat /\ required \in Nat
  BY LiveHoldsFinite, AmountAssumption DEF TypeOK, Hold
<1>2. credit \in Nat /\ funds \in Nat
  BY <1>1, AvailableCreditNat, AvailableBalanceNat
<1>3. /\ resv' = [resv EXCEPT ![r].balance = required - covered, ![r].periodCredit = covered]
      /\ Leased(r)
      /\ required <= credit + funds
      /\ UNCHANGED <<balance, ledger, txs, orders>>
  BY DEF RaiseUsageBalanceReservation, CanRaise
<1>4. covered = IF required < credit THEN required ELSE credit
  BY DEF Lesser
<1> HIDE DEF credit, funds, covered
<1>5. /\ covered \in Nat /\ covered <= credit
      /\ required - covered \in Nat /\ required - covered <= funds
  BY <1>1, <1>2, <1>3, <1>4
<1> QED BY <1>3, <1>5 DEF credit, funds


\* What every first settlement does: it writes the ledger row, debits what the
\* row charges and settles the hold.
Bills(r, reserved, row) ==
    /\ CanSettle(r, reserved)
    /\ ledger' = [ledger EXCEPT ![r] = row]
    /\ Debit(r, row.charged)
    /\ SettleReservation(r, reserved)
    /\ row.covered > 0 => \E limit \in Credits : row.covered + BilledIn(row.creditPeriod) <= limit
    /\ UNCHANGED orders

\* The row a settlement may write: its bill is split without remainder.
Writable == {row \in LedgerRow : /\ row.present
                                 /\ row.billed = row.covered + row.charged
                                 /\ \E charge \in Charges \cup {0} : row.charged \in 0 .. charge}

\* The credit pays at most the charge, and nothing beyond what is left of it.
LEMMA CreditCovers ==
    ASSUME TypeOK, NEW r \in Refs, NEW reserved \in BOOLEAN, NEW charge \in Nat,
           NEW p \in Periods, NEW limit \in Nat
    PROVE  LET covered == CoveredByCredit(r, reserved, charge, p, limit)
           IN  /\ covered \in Nat /\ covered <= charge
               /\ covered > 0 => covered + BilledIn(p) <= limit
<1> DEFINE others  == IF reserved THEN LiveHolds \ {r} ELSE LiveHolds
           held    == HeldCredit(p, others)
           left    == RemainingBudget(limit, BilledIn(p), held)
           covered == CoveredByCredit(r, reserved, charge, p, limit)
<1>1. others \in SUBSET Refs
  BY LiveHoldsFinite
<1>2. held \in Nat /\ BilledIn(p) \in Nat /\ limit \in Int
  BY <1>1, HeldCreditNat, BilledInNat DEF TypeOK
<1>3. left \in Nat /\ (left > 0 => left = limit - BilledIn(p) - held)
  <2> HIDE DEF held
  <2> QED BY <1>2, RemainingBudgetIsLeft
<1>4. covered = IF charge < left THEN charge ELSE left
  BY DEF CoveredByCredit, Lesser
<1> HIDE DEF held, left, covered
<1> QED BY <1>2, <1>3, <1>4 DEF covered

\* Every settlement is of that kind.
LEMMA Settles ==
    ASSUME TypeOK, NEW r \in Refs, Settling(r)
    PROVE  \E reserved \in BOOLEAN, row \in Writable : Bills(r, reserved, row)
<1>1. PICK at \in Periods, reserved \in BOOLEAN :
        \/ ~ reserved /\ AddUsage(r, at)
        \/ \E charge \in Charges :
               \/ AddUsageAndSettleBalance(r, reserved, charge, at)
               \/ \E p \in Periods, limit \in Credits :
                      AddPeriodUsageAndSettleOverage(r, reserved, charge, at, p, limit)
  BY DEF Settling
<1>2. CASE ~ reserved /\ AddUsage(r, at)
  <2> DEFINE row == [present |-> TRUE, billed |-> 0, billingAt |-> at,
                     creditPeriod |-> 0, covered |-> 0, charged |-> 0]
  <2>1. row \in LedgerRow
    BY DEF LedgerRow
  <2>2. row \in Writable /\ row.charged = 0 /\ row.covered = 0
    BY <2>1 DEF Writable
  <2>3. /\ CanSettle(r, FALSE)
        /\ ledger' = [ledger EXCEPT ![r] = row]
        /\ UNCHANGED <<balance, resv, txs, orders>>
    BY <1>2 DEF AddUsage
  <2>4. Debit(r, row.charged) /\ SettleReservation(r, FALSE)
    BY <2>2, <2>3 DEF Debit, SettleReservation
  <2>5. ~ (row.covered > 0) /\ UNCHANGED orders
    BY <2>2, <2>3
  <2> HIDE DEF row
  <2>6. Bills(r, FALSE, row)
    BY <2>3, <2>4, <2>5 DEF Bills
  <2> QED BY <2>2, <2>6
<1>3. CASE \E charge \in Charges : AddUsageAndSettleBalance(r, reserved, charge, at)
  <2>1. PICK charge \in Charges : AddUsageAndSettleBalance(r, reserved, charge, at)
    BY <1>3
  <2> DEFINE row == [present |-> TRUE, billed |-> charge, billingAt |-> at,
                     creditPeriod |-> 0, covered |-> 0, charged |-> charge]
  <2>2. row \in Writable /\ row.charged = charge /\ row.covered = 0
    BY AmountAssumption DEF Writable, LedgerRow
  <2>3. Bills(r, reserved, row)
    BY <2>1, <2>2 DEF AddUsageAndSettleBalance, Bills
  <2> QED BY <2>2, <2>3
<1>4. CASE \E charge \in Charges, p \in Periods, limit \in Credits :
             AddPeriodUsageAndSettleOverage(r, reserved, charge, at, p, limit)
  <2>1. PICK charge \in Charges, p \in Periods, limit \in Credits :
          AddPeriodUsageAndSettleOverage(r, reserved, charge, at, p, limit)
    BY <1>4
  <2> DEFINE covered == CoveredByCredit(r, reserved, charge, p, limit)
             row     == [present |-> TRUE, billed |-> charge, billingAt |-> at,
                         creditPeriod |-> p, covered |-> covered, charged |-> charge - covered]
  <2>2. charge \in Nat /\ limit \in Nat
    BY AmountAssumption
  <2>3. covered \in Nat /\ covered <= charge /\ (covered > 0 => covered + BilledIn(p) <= limit)
    BY <2>2, CreditCovers
  <2>4. /\ CanSettle(r, reserved)
        /\ ledger' = [ledger EXCEPT ![r] = row]
        /\ Debit(r, charge - covered)
        /\ SettleReservation(r, reserved)
        /\ UNCHANGED orders
    BY <2>1 DEF AddPeriodUsageAndSettleOverage
  <2> HIDE DEF covered
  <2>5. row \in Writable /\ row.charged = charge - covered
    BY <2>2, <2>3 DEF Writable, LedgerRow
  <2>6. Bills(r, reserved, row)
    BY <2>3, <2>4, <2>5 DEF Bills
  <2> QED BY <2>5, <2>6
<1> QED BY <1>1, <1>2, <1>3, <1>4

-----------------------------------------------------------------------------
(***************************************************************************)
(* Type correctness.                                                       *)
(***************************************************************************)

LEMMA InitTypeOK == BillingInit => TypeOK
<1> SUFFICES ASSUME BillingInit PROVE TypeOK
  OBVIOUS
<1>1. NoHold \in Hold /\ NoRow \in LedgerRow
  BY LimitAssumption DEF NoHold, Hold, NoRow, LedgerRow, Modes, Statuses
<1>2. <<>> \in Seq(Transaction)
  BY EmptySeq
<1> QED BY <1>1, <1>2, AmountAssumption DEF BillingInit, TypeOK

\* The statement grows by tx, and nothing before it changes.
Grows(tx) ==
    /\ Len(txs) \in Nat /\ Len(txs') = Len(txs) + 1
    /\ DOMAIN txs = 1 .. Len(txs) /\ DOMAIN txs' = 1 .. Len(txs) + 1
    /\ \A i \in 1 .. Len(txs) : txs'[i] = txs[i]
    /\ txs'[Len(txs) + 1] = tx

LEMMA Records ==
    ASSUME TypeOK, NEW type \in {"usage_debit", "topup", "admin_set"},
           NEW ref \in Refs \cup Orders \cup {"admin"}, NEW amount \in Int,
           RecordTransaction(type, ref, amount)
    PROVE  /\ txs' \in Seq(Transaction)
           /\ Grows([type |-> type, ref |-> ref, amount |-> amount, after |-> balance + amount])
<1> DEFINE tx == [type |-> type, ref |-> ref, amount |-> amount, after |-> balance + amount]
<1>1. txs \in Seq(Transaction) /\ balance \in Int
  BY DEF TypeOK
<1>2. tx \in Transaction
  BY <1>1 DEF Transaction
<1>3. txs' = Append(txs, tx)
  BY DEF RecordTransaction
<1> HIDE DEF tx
<1>4. /\ txs' \in Seq(Transaction) /\ Len(txs') = Len(txs) + 1
      /\ \A i \in 1 .. Len(txs) : txs'[i] = txs[i]
      /\ txs'[Len(txs) + 1] = tx
  BY <1>1, <1>2, <1>3, AppendProperties
<1>5. Len(txs) \in Nat /\ DOMAIN txs = 1 .. Len(txs) /\ DOMAIN txs' = 1 .. Len(txs')
  BY <1>1, <1>4, LenProperties
<1>6. Grows(tx)
  BY <1>4, <1>5 DEF Grows
<1> QED BY <1>4, <1>6 DEF tx

LEMMA BillsTypeOK ==
    ASSUME TypeOK, NEW r \in Refs, NEW reserved \in BOOLEAN, NEW row \in Writable,
           Bills(r, reserved, row)
    PROVE  TypeOK'
<1>1. row \in LedgerRow /\ row.charged \in Nat
  BY DEF Writable, LedgerRow
<1>2. balance' \in Int /\ txs' \in Seq(Transaction)
  <2>1. CASE row.charged > 0
    <3>1. balance' = balance - row.charged /\ RecordTransaction("usage_debit", r, 0 - row.charged)
      BY <2>1 DEF Bills, Debit
    <3>2. 0 - row.charged \in Int /\ r \in Refs \cup Orders \cup {"admin"}
      BY <1>1
    <3>3. txs' \in Seq(Transaction)
      BY <3>1, <3>2, Records
    <3> QED BY <1>1, <3>1, <3>3 DEF TypeOK
  <2>2. CASE ~ (row.charged > 0)
    BY <2>2 DEF Bills, Debit, TypeOK
  <2> QED BY <2>1, <2>2
<1>3. resv' \in [Refs -> Hold]
  <2>1. [resv EXCEPT ![r].status = "settled"] \in [Refs -> Hold]
    BY DEF TypeOK, Hold, Statuses
  <2> QED BY <2>1 DEF Bills, SettleReservation, TypeOK
<1>4. ledger' \in [Refs -> LedgerRow] /\ orders' \in [Orders -> {"pending", "paid"}]
  BY <1>1 DEF Bills, TypeOK
<1> QED BY <1>2, <1>3, <1>4 DEF TypeOK


\* What every funding does: a transaction that is no usage debit changes the
\* balance by its amount.
Funds(type, ref, amount) ==
    /\ RecordTransaction(type, ref, amount)
    /\ balance' = balance + amount
    /\ UNCHANGED <<resv, ledger>>
    /\ orders' \in [Orders -> {"pending", "paid"}]

LEMMA FundingFunds ==
    ASSUME TypeOK, Funding
    PROVE  \E type \in {"topup", "admin_set"}, ref \in Refs \cup Orders \cup {"admin"}, amount \in Int :
               Funds(type, ref, amount) /\ (amount = TopUpCredit \/ balance' \in AdminBalances)
<1>1. CASE \E amount \in AdminBalances : SetBillingAccountBalance(amount)
  <2>1. PICK amount \in AdminBalances : SetBillingAccountBalance(amount)
    BY <1>1
  <2>2. amount \in Int /\ balance \in Int /\ amount - balance \in Int
    BY AmountAssumption DEF TypeOK
  <2>3. Funds("admin_set", "admin", amount - balance) /\ balance' = amount
    BY <2>1, <2>2 DEF SetBillingAccountBalance, Funds, TypeOK
  <2> QED BY <2>2, <2>3
<1>2. CASE \E o \in Orders : MarkPaymentOrderPaidAndCreditBalance(o)
  <2>1. PICK o \in Orders : MarkPaymentOrderPaidAndCreditBalance(o)
    BY <1>2
  <2>2. TopUpCredit \in Int
    BY AmountAssumption
  <2>3. Funds("topup", o, TopUpCredit)
    BY <2>1 DEF MarkPaymentOrderPaidAndCreditBalance, Funds, TypeOK
  <2> QED BY <2>2, <2>3
<1> QED BY <1>1, <1>2 DEF Funding

LEMMA FundsTypeOK ==
    ASSUME TypeOK, NEW type \in {"topup", "admin_set"},
           NEW ref \in Refs \cup Orders \cup {"admin"}, NEW amount \in Int,
           Funds(type, ref, amount)
    PROVE  TypeOK'
<1>1. txs' \in Seq(Transaction)
  BY Records DEF Funds
<1> QED BY <1>1 DEF Funds, TypeOK

\* Steps on holds alone change nothing else.
HoldStep == UNCHANGED <<balance, ledger, txs, orders>>

LEMMA ReservingStep ==
    ASSUME TypeOK, NEW r \in Refs, Reserving(r)
    PROVE  \E mode \in Modes, prepaid \in Prepaid, p \in Periods \cup {0}, limit \in Nat :
               ReserveUsageBalance(r, mode, prepaid, p, limit)
BY AmountAssumption DEF Reserving, Modes

LEMMA HoldStepTypeOK ==
    ASSUME TypeOK, NEW r \in Refs, Reserving(r) \/ Holding(r)
    PROVE  TypeOK' /\ HoldStep
<1> SUFFICES resv' \in [Refs -> Hold] /\ HoldStep
  BY DEF TypeOK, HoldStep
<1>1. CASE Reserving(r)
  <2>1. PICK hold \in Hold : resv' = [resv EXCEPT ![r] = hold] /\ HoldStep
    BY <1>1, ReservingStep, Reserves DEF HoldStep
  <2> QED BY <2>1 DEF TypeOK
<1>2. CASE \E required \in Estimates : RaiseUsageBalanceReservation(r, required)
  <2>1. PICK bal \in Nat, cred \in Nat :
          resv' = [resv EXCEPT ![r].balance = bal, ![r].periodCredit = cred] /\ HoldStep
    BY <1>2, Raises DEF HoldStep
  <2>2. resv[r] \in Hold
    BY DEF TypeOK
  <2>3. [[resv[r] EXCEPT !.balance = bal] EXCEPT !.periodCredit = cred] \in Hold
    BY <2>2 DEF Hold
  <2> DEFINE hold == [[resv[r] EXCEPT !.balance = bal] EXCEPT !.periodCredit = cred]
  <2>4. resv' = [resv EXCEPT ![r] = hold]
    BY <2>1, <2>2 DEF TypeOK
  <2> HIDE DEF hold
  <2>5. [resv EXCEPT ![r] = hold] \in [Refs -> Hold]
    BY <2>3 DEF TypeOK, hold
  <2> QED BY <2>1, <2>4, <2>5
<1>3. CASE ReleaseUsageBalanceReservation(r)
  <2>1. [resv EXCEPT ![r].status = "released"] \in [Refs -> Hold]
    BY DEF TypeOK, Hold, Statuses
  <2> QED BY <1>3, <2>1 DEF ReleaseUsageBalanceReservation, HoldStep
<1>4. CASE RenewUsageBalanceReservation(r)
  <2>1. LeaseTTL \in 0 .. LeaseTTL
    BY LimitAssumption
  <2>2. [resv EXCEPT ![r].lease = LeaseTTL] \in [Refs -> Hold]
    BY <2>1 DEF TypeOK, Hold
  <2> QED BY <1>4, <2>2 DEF RenewUsageBalanceReservation, HoldStep
<1>5. CASE MarkUsageReservationReconciliationRequired(r)
  <2>1. [resv EXCEPT ![r].status = "reconciliation"] \in [Refs -> Hold]
    BY DEF TypeOK, Hold, Statuses
  <2> QED BY <1>5, <2>1 DEF MarkUsageReservationReconciliationRequired, HoldStep
<1> QED BY <1>1, <1>2, <1>3, <1>4, <1>5 DEF Holding

LEMMA TickTypeOK ==
    ASSUME TypeOK, Tick
    PROVE  TypeOK' /\ HoldStep
<1>1. ASSUME NEW lease \in 0 .. LeaseTTL PROVE Shorter(lease) \in 0 .. LeaseTTL
  BY LimitAssumption DEF Shorter
<1>2. ASSUME NEW r \in Refs
      PROVE  [resv[r] EXCEPT !.lease = Shorter(resv[r].lease)] \in Hold
  BY <1>1 DEF TypeOK, Hold
<1> QED BY <1>2 DEF Tick, TypeOK, HoldStep

LEMMA NextTypeOK ==
    ASSUME TypeOK, [BillingNext]_billingVars
    PROVE  TypeOK'
<1>1. CASE \E r \in Refs : Reserving(r) \/ Holding(r)
  BY <1>1, HoldStepTypeOK
<1>2. CASE \E r \in Refs : Settling(r)
  BY <1>2, Settles, BillsTypeOK
<1>3. CASE Funding
  BY <1>3, FundingFunds, FundsTypeOK
<1>4. CASE Tick
  BY <1>4, TickTypeOK
<1>5. CASE UNCHANGED billingVars
  BY <1>5 DEF TypeOK, billingVars
<1> QED BY <1>1, <1>2, <1>3, <1>4, <1>5 DEF BillingNext

\* Every column keeps its type, whatever calls come (models/billing.go).
THEOREM TypeCorrect == BillingSpec => []TypeOK
<1>1. TypeOK /\ [BillingNext]_billingVars => TypeOK'
  BY NextTypeOK
<1> QED BY InitTypeOK, <1>1, PTL DEF BillingSpec

-----------------------------------------------------------------------------
(***************************************************************************)
(* The statement and the ledger.  Each invariant is inductive together     *)
(* with TypeOK.                                                            *)
(***************************************************************************)

\* The three kinds of steps, as far as money, ledger and statement go.
LEMMA MoneySteps ==
    ASSUME TypeOK, [BillingNext]_billingVars
    PROVE  \/ HoldStep
           \/ \E r \in Refs, reserved \in BOOLEAN, row \in Writable : Bills(r, reserved, row)
           \/ \E type \in {"topup", "admin_set"}, ref \in Refs \cup Orders \cup {"admin"}, amount \in Int :
                  Funds(type, ref, amount) /\ (amount = TopUpCredit \/ balance' \in AdminBalances)
<1>1. CASE \E r \in Refs : Reserving(r) \/ Holding(r)
  BY <1>1, HoldStepTypeOK
<1>2. CASE \E r \in Refs : Settling(r)
  BY <1>2, Settles
<1>3. CASE Funding
  BY <1>3, FundingFunds
<1>4. CASE Tick
  BY <1>4, TickTypeOK
<1>5. CASE UNCHANGED billingVars
  BY <1>5 DEF HoldStep, billingVars
<1> QED BY <1>1, <1>2, <1>3, <1>4, <1>5 DEF BillingNext

\* A settlement whose row charges something appends one debit, any other none.
LEMMA BillsDebit ==
    ASSUME TypeOK, NEW r \in Refs, NEW reserved \in BOOLEAN, NEW row \in Writable,
           Bills(r, reserved, row)
    PROVE  /\ row.charged \in Nat
           /\ row.charged = 0 => UNCHANGED <<balance, txs>>
           /\ row.charged > 0 =>
                  /\ balance' = balance + (0 - row.charged)
                  /\ Grows([type |-> "usage_debit", ref |-> r, amount |-> 0 - row.charged,
                            after |-> balance + (0 - row.charged)])
<1>1. row.charged \in Nat
  BY DEF Writable, LedgerRow
<1>2. CASE row.charged > 0
  <2>1. balance' = balance - row.charged /\ RecordTransaction("usage_debit", r, 0 - row.charged)
    BY <1>2 DEF Bills, Debit
  <2>2. 0 - row.charged \in Int /\ r \in Refs \cup Orders \cup {"admin"}
    BY <1>1
  <2>3. balance' = balance + (0 - row.charged)
    BY <1>1, <2>1 DEF TypeOK
  <2> QED BY <1>1, <1>2, <2>1, <2>2, <2>3, Records
<1>3. CASE row.charged = 0
  BY <1>3 DEF Bills, Debit
<1> QED BY <1>1, <1>2, <1>3

\* One more transaction that moves the balance by its amount keeps the sums right.
LEMMA StatementExtends ==
    ASSUME TypeOK, StatementAddsUp, NEW tx,
           Grows(tx), tx.after = balance + tx.amount, balance' = tx.after
    PROVE  StatementAddsUp'
<1>1. PICK n \in Nat : n = Len(txs)
  BY DEF Grows
<1>2. DOMAIN txs = 1 .. n /\ DOMAIN txs' = 1 .. n + 1 /\ Len(txs') = n + 1
  BY <1>1 DEF Grows
<1>3. txs'[n + 1] = tx /\ \A i \in 1 .. n : txs'[i] = txs[i]
  BY <1>1 DEF Grows
<1>4. balance = IF n = 0 THEN OpeningBalance ELSE txs[n].after
  BY <1>1 DEF StatementAddsUp, BalanceBefore
<1>5. ASSUME NEW i \in 1 .. n + 1
      PROVE  txs'[i].after = (IF i = 1 THEN OpeningBalance ELSE txs'[i - 1].after) + txs'[i].amount
  <2>1. CASE i = n + 1
    BY <1>3, <1>4, <2>1
  <2>2. CASE i \in 1 .. n
    <3>1. txs[i].after = (IF i = 1 THEN OpeningBalance ELSE txs[i - 1].after) + txs[i].amount
      BY <1>2, <2>2 DEF StatementAddsUp, BalanceBefore
    <3>2. i # 1 => i - 1 \in 1 .. n
      BY <2>2
    <3> QED BY <1>3, <2>2, <3>1, <3>2
  <2> QED BY <2>1, <2>2
<1>6. balance' = txs'[n + 1].after
  BY <1>3
<1>7. balance' = IF Len(txs') + 1 = 1 THEN OpeningBalance ELSE txs'[Len(txs') + 1 - 1].after
  BY <1>2, <1>6
<1> QED BY <1>2, <1>5, <1>7 DEF StatementAddsUp, BalanceBefore

\* The statement adds up: no writer of the balance bypasses it or computes from
\* a stale balance.
THEOREM StatementAlwaysAddsUp == BillingSpec => []StatementAddsUp
<1>1. BillingInit => StatementAddsUp
  <2> SUFFICES ASSUME BillingInit PROVE StatementAddsUp
    OBVIOUS
  <2>1. DOMAIN txs = {} /\ Len(txs) = 0
    BY DEF BillingInit
  <2> QED BY <2>1 DEF BillingInit, StatementAddsUp, BalanceBefore
<1>2. TypeOK /\ StatementAddsUp /\ [BillingNext]_billingVars => StatementAddsUp'
  <2> SUFFICES ASSUME TypeOK, StatementAddsUp, [BillingNext]_billingVars
               PROVE  StatementAddsUp'
    OBVIOUS
  <2>1. ASSUME UNCHANGED <<balance, txs>> PROVE StatementAddsUp'
    BY <2>1 DEF StatementAddsUp, BalanceBefore
  <2>2. ASSUME NEW r \in Refs, NEW reserved \in BOOLEAN, NEW row \in Writable,
               Bills(r, reserved, row)
        PROVE  StatementAddsUp'
    <3>1. CASE row.charged = 0
      BY <2>1, <2>2, <3>1, BillsDebit
    <3>2. CASE row.charged > 0
      <4> DEFINE tx == [type |-> "usage_debit", ref |-> r, amount |-> 0 - row.charged,
                        after |-> balance + (0 - row.charged)]
      <4>1. Grows(tx) /\ balance' = tx.after
        BY <2>2, <3>2, BillsDebit
      <4>2. tx.after = balance + tx.amount
        OBVIOUS
      <4> HIDE DEF tx
      <4> QED BY <4>1, <4>2, StatementExtends
    <3>3. row.charged \in Nat
      BY <2>2, BillsDebit
    <3> QED BY <3>1, <3>2, <3>3
  <2>3. ASSUME NEW type \in {"topup", "admin_set"}, NEW ref \in Refs \cup Orders \cup {"admin"},
               NEW amount \in Int, Funds(type, ref, amount)
        PROVE  StatementAddsUp'
    <3>1. RecordTransaction(type, ref, amount) /\ balance' = balance + amount
      BY <2>3 DEF Funds
    <3> DEFINE tx == [type |-> type, ref |-> ref, amount |-> amount, after |-> balance + amount]
    <3>2. Grows(tx)
      BY <3>1, Records
    <3>3. tx.after = balance + tx.amount /\ balance' = tx.after
      BY <3>1
    <3> HIDE DEF tx
    <3> QED BY <3>2, <3>3, StatementExtends
  <2>4. HoldStep => UNCHANGED <<balance, txs>>
    BY DEF HoldStep
  <2> QED BY <2>1, <2>2, <2>3, <2>4, MoneySteps
<1> QED BY <1>1, <1>2, TypeCorrect, PTL DEF BillingSpec


\* A new transaction is a debit of at most one run, and old debits stay.
LEMMA DebitsGrow ==
    ASSUME NEW tx, Grows(tx), NEW r
    PROVE  /\ Debits(r)' = IF tx.type = "usage_debit" /\ tx.ref = r
                           THEN Debits(r) \cup {Len(txs) + 1} ELSE Debits(r)
           /\ \A i \in Debits(r) : txs'[i] = txs[i]
           /\ txs'[Len(txs) + 1] = tx
<1>1. /\ Len(txs) \in Nat
      /\ DOMAIN txs = 1 .. Len(txs) /\ DOMAIN txs' = 1 .. Len(txs) + 1
      /\ \A i \in 1 .. Len(txs) : txs'[i] = txs[i]
      /\ txs'[Len(txs) + 1] = tx
  BY DEF Grows
<1>2. DOMAIN txs' = DOMAIN txs \cup {Len(txs) + 1}
  BY <1>1
<1> QED BY <1>1, <1>2 DEF Debits

\* The debit of a run is what its ledger row charges, exactly once.
THEOREM RunsAreDebitedOnce == BillingSpec => []DebitedOnce
<1>1. BillingInit => DebitedOnce
  <2> SUFFICES ASSUME BillingInit PROVE DebitedOnce
    OBVIOUS
  <2>1. DOMAIN txs = {}
    BY DEF BillingInit
  <2>2. \A r \in Refs : Debits(r) = {} /\ ~ ledger[r].present
    BY <2>1 DEF BillingInit, Debits, NoRow
  <2> QED BY <2>2 DEF DebitedOnce
<1>2. TypeOK /\ DebitedOnce /\ [BillingNext]_billingVars => DebitedOnce'
  <2> SUFFICES ASSUME TypeOK, DebitedOnce, [BillingNext]_billingVars PROVE DebitedOnce'
    OBVIOUS
  <2>1. CASE HoldStep
    BY <2>1 DEF HoldStep, DebitedOnce, Debits
  <2>2. ASSUME NEW r \in Refs, NEW reserved \in BOOLEAN, NEW row \in Writable,
               Bills(r, reserved, row)
        PROVE  DebitedOnce'
    <3>1. /\ ledger' = [ledger EXCEPT ![r] = row]
          /\ ~ ledger[r].present
          /\ row.present
      BY <2>2 DEF Bills, CanSettle, Insertable, Writable
    <3>2. ledger'[r] = row /\ \A q \in Refs \ {r} : ledger'[q] = ledger[q]
      BY <3>1 DEF TypeOK
    <3>3. Debits(r) = {}
      BY <3>1 DEF DebitedOnce
    <3>4. row.charged \in Nat
      BY <2>2, BillsDebit
    <3>5. CASE row.charged = 0
      <4>1. txs' = txs
        BY <2>2, <3>5, BillsDebit
      <4>2. \A q \in Refs : Debits(q)' = Debits(q)
        BY <4>1 DEF Debits
      <4> QED BY <3>2, <3>3, <3>5, <4>1, <4>2 DEF DebitedOnce
    <3>6. CASE row.charged > 0
      <4> DEFINE tx == [type |-> "usage_debit", ref |-> r, amount |-> 0 - row.charged,
                        after |-> balance + (0 - row.charged)]
      <4>1. Grows(tx)
        BY <2>2, <3>6, BillsDebit
      <4>2. tx.type = "usage_debit" /\ tx.ref = r /\ tx.amount = 0 - row.charged
        OBVIOUS
      <4> HIDE DEF tx
      <4>3. Debits(r)' = {Len(txs) + 1} /\ txs'[Len(txs) + 1].amount = 0 - row.charged
        BY <3>3, <4>1, <4>2, DebitsGrow
      <4>4. \A q \in Refs \ {r} : /\ Debits(q)' = Debits(q)
                                  /\ \A i \in Debits(q) : txs'[i] = txs[i]
        BY <4>1, <4>2, DebitsGrow
      <4>5. ASSUME NEW q \in Refs
            PROVE  /\ \A i, j \in Debits(q)' : i = j
                   /\ \A i \in Debits(q)' : txs'[i].amount = 0 - ledger'[q].charged
                   /\ (ledger'[q].present /\ ledger'[q].charged > 0) <=> (Debits(q)' # {})
        <5>1. CASE q = r
          BY <3>1, <3>2, <3>6, <4>3, <5>1
        <5>2. CASE q # r
          BY <3>2, <4>4, <5>2 DEF DebitedOnce
        <5> QED BY <5>1, <5>2
      <4> QED BY <4>5 DEF DebitedOnce
    <3> QED BY <3>4, <3>5, <3>6
  <2>3. ASSUME NEW type \in {"topup", "admin_set"}, NEW ref \in Refs \cup Orders \cup {"admin"},
               NEW amount \in Int, Funds(type, ref, amount)
        PROVE  DebitedOnce'
    <3> DEFINE tx == [type |-> type, ref |-> ref, amount |-> amount, after |-> balance + amount]
    <3>1. Grows(tx) /\ ledger' = ledger
      BY <2>3, Records DEF Funds
    <3>2. tx.type # "usage_debit"
      OBVIOUS
    <3> HIDE DEF tx
    <3>3. \A r \in Refs : Debits(r)' = Debits(r) /\ \A i \in Debits(r) : txs'[i] = txs[i]
      BY <3>1, <3>2, DebitsGrow
    <3> QED BY <3>1, <3>3 DEF DebitedOnce
  <2> QED BY <2>1, <2>2, <2>3, MoneySteps
<1> QED BY <1>1, <1>2, TypeCorrect, PTL DEF BillingSpec

\* A new transaction is the top-up of at most one order, and old ones stay.
LEMMA TopUpsGrow ==
    ASSUME NEW tx, Grows(tx), NEW o
    PROVE  /\ TopUps(o)' = IF tx.type = "topup" /\ tx.ref = o
                           THEN TopUps(o) \cup {Len(txs) + 1} ELSE TopUps(o)
           /\ \A i \in TopUps(o) : txs'[i] = txs[i]
           /\ txs'[Len(txs) + 1] = tx
<1>1. /\ Len(txs) \in Nat
      /\ DOMAIN txs = 1 .. Len(txs) /\ DOMAIN txs' = 1 .. Len(txs) + 1
      /\ \A i \in 1 .. Len(txs) : txs'[i] = txs[i]
      /\ txs'[Len(txs) + 1] = tx
  BY DEF Grows
<1>2. DOMAIN txs' = DOMAIN txs \cup {Len(txs) + 1}
  BY <1>1
<1> QED BY <1>1, <1>2 DEF TopUps

\* A transaction that is no top-up credits no order.
LEMMA OthersCreditNothing ==
    ASSUME CreditedOnce, UNCHANGED orders, NEW tx, Grows(tx), tx.type # "topup"
    PROVE  CreditedOnce'
<1>1. \A o \in Orders : TopUps(o)' = TopUps(o) /\ \A i \in TopUps(o) : txs'[i] = txs[i]
  BY TopUpsGrow
<1> QED BY <1>1 DEF CreditedOnce

\* An order is credited by the callback that finds it pending, and by no other.
THEOREM OrdersAreCreditedOnce == BillingSpec => []CreditedOnce
<1>1. BillingInit => CreditedOnce
  <2> SUFFICES ASSUME BillingInit PROVE CreditedOnce
    OBVIOUS
  <2>1. DOMAIN txs = {}
    BY DEF BillingInit
  <2>2. \A o \in Orders : TopUps(o) = {} /\ orders[o] # "paid"
    BY <2>1 DEF BillingInit, TopUps
  <2> QED BY <2>2 DEF CreditedOnce
<1>2. TypeOK /\ CreditedOnce /\ [BillingNext]_billingVars => CreditedOnce'
  <2> SUFFICES ASSUME TypeOK, CreditedOnce, [BillingNext]_billingVars PROVE CreditedOnce'
    OBVIOUS
  <2>1. ASSUME UNCHANGED <<txs, orders>> PROVE CreditedOnce'
    BY <2>1 DEF CreditedOnce, TopUps
  <2>2. ASSUME NEW r \in Refs, Reserving(r) \/ Holding(r) PROVE CreditedOnce'
    BY <2>1, <2>2, HoldStepTypeOK DEF HoldStep
  <2>3. ASSUME NEW r \in Refs, Settling(r) PROVE CreditedOnce'
    <3>1. PICK q \in Refs, reserved \in BOOLEAN, row \in Writable : Bills(q, reserved, row)
      BY <2>3, Settles
    <3>2. UNCHANGED orders
      BY <3>1 DEF Bills
    <3>3. row.charged \in Nat /\ (row.charged = 0 => UNCHANGED txs)
      BY <3>1, BillsDebit
    <3>4. CASE row.charged > 0
      <4> DEFINE tx == [type |-> "usage_debit", ref |-> q, amount |-> 0 - row.charged,
                        after |-> balance + (0 - row.charged)]
      <4>1. Grows(tx)
        BY <3>1, <3>4, BillsDebit
      <4>2. tx.type # "topup"
        OBVIOUS
      <4> HIDE DEF tx
      <4> QED BY <3>2, <4>1, <4>2, OthersCreditNothing
    <3> QED BY <2>1, <3>2, <3>3, <3>4
  <2>4. ASSUME NEW amount \in AdminBalances, SetBillingAccountBalance(amount) PROVE CreditedOnce'
    <3> DEFINE tx == [type |-> "admin_set", ref |-> "admin", amount |-> amount - balance,
                      after |-> balance + (amount - balance)]
    <3>1. amount - balance \in Int
      BY AmountAssumption DEF TypeOK
    <3>2. UNCHANGED orders /\ RecordTransaction("admin_set", "admin", amount - balance)
      BY <2>4 DEF SetBillingAccountBalance
    <3>3. Grows(tx)
      BY <3>1, <3>2, Records
    <3>4. tx.type # "topup"
      OBVIOUS
    <3> HIDE DEF tx
    <3> QED BY <3>2, <3>3, <3>4, OthersCreditNothing
  <2>5. ASSUME NEW o \in Orders, MarkPaymentOrderPaidAndCreditBalance(o) PROVE CreditedOnce'
    <3> DEFINE tx == [type |-> "topup", ref |-> o, amount |-> TopUpCredit,
                      after |-> balance + TopUpCredit]
    <3>1. /\ orders[o] = "pending"
          /\ orders' = [orders EXCEPT ![o] = "paid"]
          /\ RecordTransaction("topup", o, TopUpCredit)
      BY <2>5 DEF MarkPaymentOrderPaidAndCreditBalance
    <3>2. TopUpCredit \in Int
      BY AmountAssumption
    <3>3. Grows(tx) /\ tx.type = "topup" /\ tx.ref = o /\ tx.amount = TopUpCredit
      BY <3>1, <3>2, Records
    <3> HIDE DEF tx
    <3>4. TopUps(o) = {}
      BY <3>1 DEF CreditedOnce
    <3>5. TopUps(o)' = {Len(txs) + 1} /\ txs'[Len(txs) + 1].amount = TopUpCredit
      BY <3>3, <3>4, TopUpsGrow
    <3>6. \A p \in Orders \ {o} : /\ TopUps(p)' = TopUps(p)
                                  /\ \A i \in TopUps(p) : txs'[i] = txs[i]
      BY <3>3, TopUpsGrow
    <3>7. orders'[o] = "paid" /\ \A p \in Orders \ {o} : orders'[p] = orders[p]
      BY <3>1 DEF TypeOK
    <3>8. ASSUME NEW p \in Orders
          PROVE  /\ \A i, j \in TopUps(p)' : i = j
                 /\ \A i \in TopUps(p)' : txs'[i].amount = TopUpCredit
                 /\ orders'[p] = "paid" <=> TopUps(p)' # {}
      <4>1. CASE p = o
        BY <3>5, <3>7, <4>1
      <4>2. CASE p # o
        BY <3>6, <3>7, <4>2 DEF CreditedOnce
      <4> QED BY <4>1, <4>2
    <3> QED BY <3>8 DEF CreditedOnce
  <2>6. CASE Tick
    BY <2>1, <2>6 DEF Tick
  <2>7. CASE UNCHANGED billingVars
    BY <2>1, <2>7 DEF billingVars
  <2> QED BY <2>2, <2>3, <2>4, <2>5, <2>6, <2>7 DEF BillingNext, Funding
<1> QED BY <1>1, <1>2, TypeCorrect, PTL DEF BillingSpec

-----------------------------------------------------------------------------
(***************************************************************************)
(* The life of a hold.                                                     *)
(***************************************************************************)

\* The hold of a run moves along NextStatuses, is settled only together with a
\* ledger row, and changes its amounts only while it is open.
MovesOn(r) ==
    /\ resv'[r].status \in NextStatuses(resv[r].status)
    /\ resv[r].status \in {"settled", "released"} =>
           /\ resv'[r].balance = resv[r].balance
           /\ resv'[r].periodCredit = resv[r].periodCredit
    /\ resv'[r].status = "settled" => resv[r].status = "settled" \/ ledger'[r].present

\* A hold that keeps its status and its amounts moves on.
LEMMA StaysMovesOn ==
    ASSUME TypeOK, NEW r \in Refs,
           resv'[r].status = resv[r].status, resv'[r].balance = resv[r].balance,
           resv'[r].periodCredit = resv[r].periodCredit
    PROVE  MovesOn(r)
<1>1. resv[r].status \in Statuses
  BY DEF TypeOK, Hold
<1> QED BY <1>1 DEF MovesOn, NextStatuses, Statuses

LEMMA HoldsMoveOn ==
    ASSUME TypeOK, [BillingNext]_billingVars, NEW r \in Refs
    PROVE  MovesOn(r)
<1>0. resv \in [Refs -> Hold] /\ ledger \in [Refs -> LedgerRow]
  BY DEF TypeOK
<1> USE <1>0
<1>1. ASSUME NEW q \in Refs, Reserving(q) PROVE MovesOn(r)
  <2>0. PICK mode \in Modes, prepaid \in Prepaid, p \in Periods \cup {0}, limit \in Nat :
          ReserveUsageBalance(q, mode, prepaid, p, limit)
    BY <1>1, ReservingStep
  <2>1. PICK hold \in Hold : /\ resv' = [resv EXCEPT ![q] = hold]
                             /\ hold.status = "active" /\ resv[q].status = "none"
    <3>1. \E hold \in Hold : /\ resv' = [resv EXCEPT ![q] = hold]
                              /\ hold.status = "active" /\ resv[q].status = "none"
                              /\ hold.period = p /\ hold.periodLimit = limit /\ hold.lease = LeaseTTL
                              /\ hold.periodCredit <= AvailableCredit(mode, p, limit, LiveHolds)
                              /\ hold.balance <= AvailableBalance(LiveHolds)
                              /\ UNCHANGED <<balance, ledger, txs, orders>>
      BY <2>0, Reserves
    <3> QED BY <3>1
  <2>2. CASE q = r
    BY <2>1, <2>2 DEF MovesOn, NextStatuses
  <2> QED BY <2>1, <2>2, StaysMovesOn
<1>2. ASSUME NEW q \in Refs, NEW required \in Estimates, RaiseUsageBalanceReservation(q, required)
      PROVE  MovesOn(r)
  <2>1. PICK bal \in Nat, cred \in Nat :
          /\ resv' = [resv EXCEPT ![q].balance = bal, ![q].periodCredit = cred]
          /\ resv[q].status = "active"
    BY <1>2, Raises DEF Leased
  <2>2. resv'[r].status = resv[r].status
    BY <2>1
  <2>3. CASE q = r
    BY <2>1, <2>2, <2>3 DEF MovesOn, NextStatuses
  <2>4. CASE q # r
    BY <2>1, <2>4, StaysMovesOn
  <2> QED BY <2>3, <2>4
<1>3. ASSUME NEW q \in Refs, ReleaseUsageBalanceReservation(q) PROVE MovesOn(r)
  <2>1. resv[q].status = "active" /\ resv' = [resv EXCEPT ![q].status = "released"]
    BY <1>3 DEF ReleaseUsageBalanceReservation
  <2>2. CASE q = r
    BY <2>1, <2>2 DEF MovesOn, NextStatuses
  <2> QED BY <2>1, <2>2, StaysMovesOn
<1>4. ASSUME NEW q \in Refs, RenewUsageBalanceReservation(q) PROVE MovesOn(r)
  <2>1. resv' = [resv EXCEPT ![q].lease = LeaseTTL]
    BY <1>4 DEF RenewUsageBalanceReservation
  <2> QED BY <2>1, StaysMovesOn
<1>5. ASSUME NEW q \in Refs, MarkUsageReservationReconciliationRequired(q) PROVE MovesOn(r)
  <2>1. /\ resv[q].status \in {"active", "reconciliation"}
        /\ resv' = [resv EXCEPT ![q].status = "reconciliation"]
    BY <1>5 DEF MarkUsageReservationReconciliationRequired, CanMark
  <2>2. CASE q = r
    BY <2>1, <2>2 DEF MovesOn, NextStatuses
  <2> QED BY <2>1, <2>2, StaysMovesOn
<1>6. ASSUME NEW q \in Refs, Settling(q) PROVE MovesOn(r)
  <2>1. PICK reserved \in BOOLEAN, row \in Writable : Bills(q, reserved, row)
    BY <1>6, Settles
  <2>2. CASE reserved /\ q = r
    <3>1. /\ resv[q].status \in {"active", "reconciliation"}
          /\ resv' = [resv EXCEPT ![q].status = "settled"]
          /\ ledger' = [ledger EXCEPT ![q] = row] /\ row.present
      BY <2>1, <2>2 DEF Bills, CanSettle, Open, SettleReservation, Writable
    <3> QED BY <2>2, <3>1 DEF MovesOn, NextStatuses
  <2>3. CASE ~ (reserved /\ q = r)
    <3>1. resv'[r] = resv[r]
      BY <2>1, <2>3 DEF Bills, SettleReservation
    <3> QED BY <3>1, StaysMovesOn
  <2> QED BY <2>2, <2>3
<1>7. CASE Funding
  <2>1. resv' = resv
    BY <1>7 DEF Funding, SetBillingAccountBalance, MarkPaymentOrderPaidAndCreditBalance
  <2> QED BY <2>1, StaysMovesOn
<1>8. CASE Tick
  <2>1. resv'[r] = [resv[r] EXCEPT !.lease = Shorter(resv[r].lease)]
    BY <1>8 DEF Tick
  <2>2. resv[r] \in Hold
    OBVIOUS
  <2> QED BY <2>1, <2>2, StaysMovesOn DEF Hold
<1>9. CASE UNCHANGED billingVars
  BY <1>9, StaysMovesOn DEF billingVars
<1> QED BY <1>1, <1>2, <1>3, <1>4, <1>5, <1>6, <1>7, <1>8, <1>9 DEF BillingNext, Holding

\* Settled and released holds are final; a hold awaiting reconciliation is never
\* released.
THEOREM HoldsFollowLifecycle == BillingSpec => HoldLifecycle
<1>1. TypeOK /\ [BillingNext]_billingVars =>
        [\A r \in Refs :
          /\ resv'[r].status \in NextStatuses(resv[r].status)
          /\ resv[r].status \in {"settled", "released"} =>
                 /\ resv'[r].balance = resv[r].balance
                 /\ resv'[r].periodCredit = resv[r].periodCredit]_billingVars
  BY HoldsMoveOn DEF MovesOn
<1> QED BY <1>1, TypeCorrect, PTL DEF BillingSpec, HoldLifecycle

\* No step settles a hold without the ledger row of its run.
LEMMA SettledStep ==
    ASSUME TypeOK, SettledHoldIsBilled, [BillingNext]_billingVars
    PROVE  SettledHoldIsBilled'
<1> SUFFICES ASSUME NEW r \in Refs
             PROVE  /\ resv'[r].status = "settled" => ledger'[r].present
                    /\ ledger'[r].billed = ledger'[r].covered + ledger'[r].charged
  BY DEF SettledHoldIsBilled
<1>1. \/ ledger'[r] = ledger[r]
      \/ ledger'[r] \in Writable
  <2>1. CASE HoldStep
    BY <2>1 DEF HoldStep
  <2>2. ASSUME NEW q \in Refs, NEW reserved \in BOOLEAN, NEW row \in Writable,
               Bills(q, reserved, row)
        PROVE  ledger'[r] = ledger[r] \/ ledger'[r] \in Writable
    BY <2>2 DEF Bills, TypeOK
  <2>3. ASSUME NEW type \in {"topup", "admin_set"}, NEW ref \in Refs \cup Orders \cup {"admin"},
               NEW amount \in Int, Funds(type, ref, amount)
        PROVE  ledger'[r] = ledger[r]
    BY <2>3 DEF Funds
  <2> QED BY <2>1, <2>2, <2>3, MoneySteps
<1>2. resv'[r].status = "settled" => resv[r].status = "settled" \/ ledger'[r].present
  BY HoldsMoveOn DEF MovesOn
<1> QED BY <1>1, <1>2 DEF SettledHoldIsBilled, Writable

\* A hold is settled only with the ledger row of its run, and the row splits the
\* bill without remainder.
THEOREM SettledHoldsAreBilled == BillingSpec => []SettledHoldIsBilled
<1>1. BillingInit => SettledHoldIsBilled
  BY DEF BillingInit, SettledHoldIsBilled, NoHold, NoRow
<1>2. TypeOK /\ SettledHoldIsBilled /\ [BillingNext]_billingVars => SettledHoldIsBilled'
  BY SettledStep
<1> QED BY <1>1, <1>2, TypeCorrect, PTL DEF BillingSpec

-----------------------------------------------------------------------------
(***************************************************************************)
(* Budgets.                                                                *)
(***************************************************************************)

\* A hold whose balance and credit are within what the others leave keeps all
\* live holds together within the balance, and within the credit of its period.
LEMMA GrantFits ==
    ASSUME TypeOK, TypeOK', NEW r \in Refs, NEW mode,
           LiveHolds' = (LiveHolds \ {r}) \cup {r},
           \A x \in Refs \ {r} : resv'[x] = resv[x],
           UNCHANGED <<balance, ledger>>,
           resv'[r].balance <= AvailableBalance(LiveHolds \ {r}),
           resv'[r].periodCredit <=
               AvailableCredit(mode, resv'[r].period, resv'[r].periodLimit, LiveHolds \ {r})
    PROVE  /\ resv'[r].balance > 0 => HeldBalance(LiveHolds)' <= balance'
           /\ resv'[r].periodCredit > 0 =>
                 \A p \in Periods : resv'[r].period = p =>
                     (HeldCredit(p, LiveHolds) + BilledIn(p))' <= resv'[r].periodLimit
<1> DEFINE others == LiveHolds \ {r}
           bal    == [x \in Refs |-> resv'[x].balance]
           cred   == [x \in Refs |-> resv'[x].periodCredit]
<1>1. others \in SUBSET Refs /\ r \notin others /\ IsFiniteSet(others)
  BY LiveHoldsFinite, RefsAssumption, FS_Subset
<1>2. \A x \in Refs : bal[x] \in Nat /\ cred[x] \in Nat
  BY DEF TypeOK, Hold
<1>3. resv'[r].periodLimit \in Nat /\ balance \in Int
  BY DEF TypeOK, Hold
<1>4. HeldBalance(LiveHolds)' = HeldBalance(others) + resv'[r].balance
  <2>1. HeldBalance(LiveHolds)' = Total(bal, others \cup {r})
    BY DEF HeldBalance
  <2>2. Total(bal, others \cup {r}) = Total(bal, others) + bal[r]
    <3> HIDE DEF bal, others
    <3> QED BY <1>1, <1>2, TotalAdd
  <2>3. Total(bal, others) = HeldBalance(others)
    <3>1. \A x \in others : bal[x] = [y \in Refs |-> resv[y].balance][x]
      BY <1>1
    <3> HIDE DEF bal, others
    <3> QED BY <3>1, TotalSame DEF HeldBalance
  <2> QED BY <2>1, <2>2, <2>3
<1>5. resv'[r].balance > 0 => HeldBalance(LiveHolds)' <= balance'
  <2>1. /\ AvailableBalance(others) \in Nat
        /\ AvailableBalance(others) > 0 => AvailableBalance(others) = balance - HeldBalance(others)
    BY <1>1, AvailableBalanceNat
  <2>2. HeldBalance(others) \in Nat /\ resv'[r].balance \in Nat
    BY <1>1, <1>2, HeldBalanceNat DEF TypeOK
  <2> QED BY <1>3, <1>4, <2>1, <2>2
<1>6. ASSUME NEW p \in Periods, resv'[r].period = p, resv'[r].periodCredit > 0
      PROVE  (HeldCredit(p, LiveHolds) + BilledIn(p))' <= resv'[r].periodLimit
  <2> DEFINE rows == {x \in others : resv[x].period = p}
  <2>1. rows \in SUBSET Refs /\ r \notin rows /\ IsFiniteSet(rows)
    BY <1>1, FS_Subset
  <2>2. {x \in LiveHolds' : resv'[x].period = p} = rows \cup {r}
    BY <1>1, <1>6
  <2>3. HeldCredit(p, LiveHolds)' = Total(cred, rows \cup {r})
    BY <2>2 DEF HeldCredit
  <2>4. Total(cred, rows \cup {r}) = Total(cred, rows) + cred[r]
    <3> HIDE DEF cred, rows
    <3> QED BY <1>2, <2>1, TotalAdd
  <2>5. Total(cred, rows) = HeldCredit(p, others)
    <3>1. \A x \in rows : cred[x] = [y \in Refs |-> resv[y].periodCredit][x]
      BY <1>1
    <3>2. HeldCredit(p, others) = Total([y \in Refs |-> resv[y].periodCredit], rows)
      BY DEF HeldCredit
    <3> HIDE DEF cred, rows, others
    <3> QED BY <3>1, <3>2, TotalSame
  <2>6. BilledIn(p)' = BilledIn(p)
    BY DEF BilledIn
  <2> DEFINE left == AvailableCredit(mode, p, resv'[r].periodLimit, others)
  <2>7. left \in Nat /\ (left > 0 => left = resv'[r].periodLimit - BilledIn(p) - HeldCredit(p, others))
    BY <1>1, <1>3, AvailableCreditNat
  <2>8. HeldCredit(p, others) \in Nat /\ BilledIn(p) \in Nat
    BY <1>1, HeldCreditNat, BilledInNat DEF TypeOK
  <2>9. resv'[r].periodCredit <= left /\ resv'[r].periodCredit \in Nat
    BY <1>2, <1>6
  <2>10. HeldCredit(p, LiveHolds)' = HeldCredit(p, others) + resv'[r].periodCredit
    BY <2>3, <2>4, <2>5
  <2> HIDE DEF left
  <2> QED BY <1>3, <1>6, <2>6, <2>7, <2>8, <2>9, <2>10
<1> QED BY <1>5, <1>6


\* What a grant promises for run r in this step.
GrantFor(r) ==
    /\ resv'[r].balance > resv[r].balance => HeldBalance(LiveHolds)' <= balance'
    /\ resv'[r].periodCredit > resv[r].periodCredit =>
           \A p \in Periods : resv'[r].period = p =>
               (HeldCredit(p, LiveHolds) + BilledIn(p))' <= resv'[r].periodLimit

LEMMA NoGrantNeeded ==
    ASSUME resv \in [Refs -> Hold], NEW r \in Refs,
           resv'[r].balance = resv[r].balance, resv'[r].periodCredit = resv[r].periodCredit
    PROVE  GrantFor(r)
<1>1. resv[r].balance \in Nat /\ resv[r].periodCredit \in Nat
  BY DEF Hold
<1> QED BY <1>1 DEF GrantFor

LEMMA GrantNeeded ==
    ASSUME resv \in [Refs -> Hold], resv' \in [Refs -> Hold], NEW r \in Refs,
           resv'[r].balance > 0 => HeldBalance(LiveHolds)' <= balance',
           resv'[r].periodCredit > 0 =>
               \A p \in Periods : resv'[r].period = p =>
                   (HeldCredit(p, LiveHolds) + BilledIn(p))' <= resv'[r].periodLimit
    PROVE  GrantFor(r)
<1>1. /\ resv[r].balance \in Nat /\ resv[r].periodCredit \in Nat
      /\ resv'[r].balance \in Nat /\ resv'[r].periodCredit \in Nat
  BY DEF Hold
<1>2. /\ resv'[r].balance > resv[r].balance => resv'[r].balance > 0
      /\ resv'[r].periodCredit > resv[r].periodCredit => resv'[r].periodCredit > 0
  BY <1>1
<1> QED BY <1>2 DEF GrantFor

LEMMA ReserveGrants ==
    ASSUME TypeOK, TypeOK', NEW r \in Refs, NEW mode \in Modes, NEW prepaid \in Prepaid,
           NEW p \in Periods \cup {0}, NEW limit \in Nat,
           ReserveUsageBalance(r, mode, prepaid, p, limit)
    PROVE  GrantFor(r)
<1>1. PICK hold \in Hold :
        /\ resv' = [resv EXCEPT ![r] = hold]
        /\ hold.status = "active" /\ resv[r].status = "none"
        /\ hold.period = p /\ hold.periodLimit = limit /\ hold.lease = LeaseTTL
        /\ hold.periodCredit <= AvailableCredit(mode, p, limit, LiveHolds)
        /\ hold.balance <= AvailableBalance(LiveHolds)
        /\ UNCHANGED <<balance, ledger, txs, orders>>
  BY Reserves
<1>2. r \notin LiveHolds /\ LiveHolds \ {r} = LiveHolds
  BY <1>1 DEF LiveHolds
<1>3. resv'[r] = hold /\ \A x \in Refs \ {r} : resv'[x] = resv[x]
  BY <1>1 DEF TypeOK
<1>4. hold.lease > 0
  BY <1>1, LimitAssumption
<1>5. LiveHolds' = (LiveHolds \ {r}) \cup {r}
  BY <1>1, <1>3, <1>4 DEF LiveHolds
<1>6. /\ resv'[r].balance <= AvailableBalance(LiveHolds \ {r})
      /\ resv'[r].periodCredit <=
             AvailableCredit(mode, resv'[r].period, resv'[r].periodLimit, LiveHolds \ {r})
  BY <1>1, <1>2, <1>3
<1>7. UNCHANGED <<balance, ledger>>
  BY <1>1
<1>8. /\ resv'[r].balance > 0 => HeldBalance(LiveHolds)' <= balance'
      /\ resv'[r].periodCredit > 0 =>
            \A q \in Periods : resv'[r].period = q =>
                (HeldCredit(q, LiveHolds) + BilledIn(q))' <= resv'[r].periodLimit
  BY <1>3, <1>5, <1>6, <1>7, GrantFits
<1> QED BY <1>8, GrantNeeded DEF TypeOK

LEMMA RaiseGrants ==
    ASSUME TypeOK, TypeOK', NEW r \in Refs, NEW required \in Estimates,
           RaiseUsageBalanceReservation(r, required)
    PROVE  GrantFor(r)
<1>1. PICK bal \in Nat, cred \in Nat :
        /\ resv' = [resv EXCEPT ![r].balance = bal, ![r].periodCredit = cred]
        /\ Leased(r)
        /\ cred <= AvailableCredit(resv[r].mode, resv[r].period, resv[r].periodLimit,
                                   LiveHolds \ {r})
        /\ bal <= AvailableBalance(LiveHolds \ {r})
        /\ UNCHANGED <<balance, ledger, txs, orders>>
  BY Raises
<1>2. /\ resv'[r].balance = bal /\ resv'[r].periodCredit = cred
      /\ resv'[r].status = resv[r].status /\ resv'[r].lease = resv[r].lease
      /\ resv'[r].period = resv[r].period /\ resv'[r].periodLimit = resv[r].periodLimit
      /\ \A x \in Refs \ {r} : resv'[x] = resv[x]
  BY <1>1 DEF TypeOK, Hold
<1>3. r \in LiveHolds
  BY <1>1 DEF Leased, LiveHolds
<1>4. LiveHolds' = (LiveHolds \ {r}) \cup {r}
  BY <1>2, <1>3 DEF LiveHolds
<1>5. /\ resv'[r].balance <= AvailableBalance(LiveHolds \ {r})
      /\ resv'[r].periodCredit <=
             AvailableCredit(resv[r].mode, resv'[r].period, resv'[r].periodLimit, LiveHolds \ {r})
      /\ UNCHANGED <<balance, ledger>>
  BY <1>1, <1>2
<1>6. /\ resv'[r].balance > 0 => HeldBalance(LiveHolds)' <= balance'
      /\ resv'[r].periodCredit > 0 =>
            \A q \in Periods : resv'[r].period = q =>
                (HeldCredit(q, LiveHolds) + BilledIn(q))' <= resv'[r].periodLimit
  BY <1>2, <1>4, <1>5, GrantFits
<1> QED BY <1>6, GrantNeeded DEF TypeOK

\* The books balance after any calls in any order: the five results above in one,
\* as the runs check it.
THEOREM BooksAlwaysBalance == BillingSpec => []BooksBalance
<1>1. TypeOK /\ DebitedOnce /\ CreditedOnce /\ StatementAddsUp /\ SettledHoldIsBilled => BooksBalance
  BY DEF BooksBalance
<1> QED BY <1>1, TypeCorrect, RunsAreDebitedOnce, OrdersAreCreditedOnce,
           StatementAlwaysAddsUp, SettledHoldsAreBilled, PTL

\* No transaction grants a hold a budget that is not there.
THEOREM GrantsStayWithinBudget == BillingSpec => GrantsWithinBudget
<1>1. ASSUME TypeOK, TypeOK', BillingNext, NEW r \in Refs
      PROVE  GrantFor(r)
  <2>0. resv \in [Refs -> Hold]
    BY <1>1 DEF TypeOK
  <2>1. ASSUME resv'[r].balance = resv[r].balance, resv'[r].periodCredit = resv[r].periodCredit
        PROVE  GrantFor(r)
    BY <2>0, <2>1, NoGrantNeeded
  <2>2. ASSUME NEW q \in Refs, Reserving(q) PROVE GrantFor(r)
    <3>1. PICK mode \in Modes, prepaid \in Prepaid, p \in Periods \cup {0}, limit \in Nat :
            ReserveUsageBalance(q, mode, prepaid, p, limit)
      BY <1>1, <2>2, ReservingStep
    <3>2. CASE q = r
      BY <1>1, <3>1, <3>2, ReserveGrants
    <3>3. CASE q # r
      BY <2>0, <2>1, <3>1, <3>3 DEF ReserveUsageBalance
    <3> QED BY <3>2, <3>3
  <2>3. ASSUME NEW q \in Refs, NEW required \in Estimates, RaiseUsageBalanceReservation(q, required)
        PROVE  GrantFor(r)
    <3>1. CASE q = r
      BY <1>1, <2>3, <3>1, RaiseGrants
    <3>2. CASE q # r
      BY <2>0, <2>1, <2>3, <3>2 DEF RaiseUsageBalanceReservation
    <3> QED BY <3>1, <3>2
  <2>4. ASSUME NEW q \in Refs,
               \/ ReleaseUsageBalanceReservation(q)
               \/ RenewUsageBalanceReservation(q)
               \/ MarkUsageReservationReconciliationRequired(q)
        PROVE  GrantFor(r)
    BY <2>0, <2>1, <2>4 DEF ReleaseUsageBalanceReservation, RenewUsageBalanceReservation,
                            MarkUsageReservationReconciliationRequired, Hold
  <2>5. ASSUME NEW q \in Refs, Settling(q) PROVE GrantFor(r)
    <3>1. PICK reserved \in BOOLEAN, row \in Writable : Bills(q, reserved, row)
      BY <1>1, <2>5, Settles
    <3> QED BY <2>0, <2>1, <3>1 DEF Bills, SettleReservation, Hold
  <2>6. CASE Funding
    BY <2>1, <2>6 DEF Funding, SetBillingAccountBalance, MarkPaymentOrderPaidAndCreditBalance
  <2>7. CASE Tick
    BY <2>0, <2>1, <2>7 DEF Tick, Hold
  <2> QED BY <1>1, <2>2, <2>3, <2>4, <2>5, <2>6, <2>7 DEF BillingNext, Holding
<1>2. TypeOK /\ TypeOK' /\ [BillingNext]_billingVars =>
        [\A r \in Refs :
          /\ resv'[r].balance > resv[r].balance => HeldBalance(LiveHolds)' <= balance'
          /\ resv'[r].periodCredit > resv[r].periodCredit =>
                 \A p \in Periods : resv'[r].period = p =>
                     (HeldCredit(p, LiveHolds) + BilledIn(p))' <= resv'[r].periodLimit]_billingVars
  BY <1>1 DEF GrantFor
<1> QED BY <1>2, TypeCorrect, PTL DEF BillingSpec, GrantsWithinBudget


\* The rows CoveredIn sums over.
CoveredRows(p) ==
    {r \in Refs : ledger[r].present /\ ledger[r].creditPeriod = p /\ ledger[r].billingAt = p}

\* The credit of a month pays no more than what was billed in it.
LEMMA CoveredAtMostBilled ==
    ASSUME TypeOK, SettledHoldIsBilled, NEW p
    PROVE  CoveredIn(p) \in Nat /\ CoveredIn(p) <= BilledIn(p)
<1> DEFINE covered == [r \in Refs |-> ledger[r].covered]
           billed  == [r \in Refs |-> ledger[r].billed]
           rows    == {r \in Refs : ledger[r].present /\ ledger[r].billingAt = p}
<1>1. CoveredRows(p) \subseteq rows /\ IsFiniteSet(rows) /\ IsFiniteSet(CoveredRows(p))
  BY RefsAssumption, FS_Subset DEF CoveredRows
<1>2. \A r \in Refs : /\ ledger[r].billed \in Nat /\ ledger[r].covered \in Nat
                      /\ ledger[r].charged \in Nat
                      /\ ledger[r].billed = ledger[r].covered + ledger[r].charged
  BY DEF TypeOK, LedgerRow, SettledHoldIsBilled
<1>3. /\ \A r \in rows : billed[r] \in Nat
      /\ \A r \in CoveredRows(p) : covered[r] \in Nat /\ covered[r] <= billed[r]
  BY <1>2 DEF CoveredRows
<1>4. CoveredIn(p) = Total(covered, CoveredRows(p)) /\ BilledIn(p) = Total(billed, rows)
  BY DEF CoveredIn, CoveredRows, BilledIn
<1> HIDE DEF covered, billed, rows
<1> QED BY <1>1, <1>3, <1>4, TotalNat, TotalMonotone

\* A settlement adds what its row covers to the month it was authorized and
\* billed in.
LEMMA CoverageGrows ==
    ASSUME TypeOK, TypeOK', NEW r \in Refs, NEW reserved \in BOOLEAN, NEW row \in Writable,
           Bills(r, reserved, row), NEW p
    PROVE  CoveredIn(p)' = CoveredIn(p) +
               (IF row.creditPeriod = p /\ row.billingAt = p THEN row.covered ELSE 0)
<1> DEFINE before == [x \in Refs |-> ledger[x].covered]
           after  == [x \in Refs |-> ledger'[x].covered]
           rows   == CoveredRows(p)
<1>1. ledger'[r] = row /\ row.present /\ \A x \in Refs \ {r} : ledger'[x] = ledger[x]
  BY DEF Bills, TypeOK, Writable
<1>2. r \notin rows /\ rows \subseteq Refs /\ IsFiniteSet(rows)
  BY RefsAssumption, FS_Subset DEF CoveredRows, Bills, CanSettle, Insertable
<1>3. CoveredRows(p)' = IF row.creditPeriod = p /\ row.billingAt = p THEN rows \cup {r} ELSE rows
  BY <1>1, <1>2 DEF CoveredRows
<1>4. \A x \in Refs : after[x] \in Nat
  BY DEF TypeOK, LedgerRow
<1>5. after[r] = row.covered /\ \A x \in rows : before[x] = after[x]
  BY <1>1, <1>2
<1>6. CoveredIn(p) = Total(before, rows) /\ CoveredIn(p)' = Total(after, CoveredRows(p)')
  BY DEF CoveredIn, CoveredRows
<1> HIDE DEF before, after, rows
<1>7. Total(before, rows) = Total(after, rows)
  BY <1>5, TotalSame
<1>8. Total(after, rows) \in Nat /\ Total(after, rows \cup {r}) = Total(after, rows) + after[r]
  BY <1>2, <1>4, TotalNat, TotalAdd
<1> QED BY <1>3, <1>5, <1>6, <1>7, <1>8

\* The runs billed in the month they were authorized for are covered by at most
\* the largest credit: the invariant needs the ledger rows to be split without
\* remainder, so that what the credit has paid is within what has been billed.
THEOREM CreditIsNotOversold == BillingSpec => []CreditNotOversold
<1>1. BillingInit => CreditNotOversold
  <2> SUFFICES ASSUME BillingInit, NEW p \in Periods PROVE ~ (CoveredIn(p) > 0)
    BY DEF CreditNotOversold
  <2>1. CoveredRows(p) = {}
    BY DEF BillingInit, NoRow, CoveredRows
  <2>2. CoveredIn(p) = 0
    BY <2>1, TotalEmpty DEF CoveredIn, CoveredRows
  <2> QED BY <2>2
<1>2. TypeOK /\ TypeOK' /\ SettledHoldIsBilled /\ CreditNotOversold /\ [BillingNext]_billingVars
        => CreditNotOversold'
  <2> SUFFICES ASSUME TypeOK, TypeOK', SettledHoldIsBilled, CreditNotOversold,
                      [BillingNext]_billingVars, NEW p \in Periods, CoveredIn(p)' > 0
               PROVE  \E limit \in Credits : CoveredIn(p)' <= limit
    BY DEF CreditNotOversold
  <2>1. CASE ledger' = ledger
    <3>1. CoveredIn(p)' = CoveredIn(p)
      BY <2>1 DEF CoveredIn
    <3> QED BY <3>1 DEF CreditNotOversold
  <2>2. ASSUME NEW r \in Refs, NEW reserved \in BOOLEAN, NEW row \in Writable,
               Bills(r, reserved, row)
        PROVE  \E limit \in Credits : CoveredIn(p)' <= limit
    <3>1. CoveredIn(p)' = CoveredIn(p) +
             (IF row.creditPeriod = p /\ row.billingAt = p THEN row.covered ELSE 0)
      BY <2>2, CoverageGrows
    <3>2. CoveredIn(p) \in Nat /\ CoveredIn(p) <= BilledIn(p) /\ BilledIn(p) \in Nat
      BY CoveredAtMostBilled, BilledInNat DEF TypeOK
    <3>3. row.covered \in Nat
      BY DEF Writable, LedgerRow
    <3>4. CASE row.covered > 0 /\ row.creditPeriod = p /\ row.billingAt = p
      <4>1. PICK limit \in Credits : row.covered + BilledIn(p) <= limit
        BY <2>2, <3>4 DEF Bills
      <4>2. limit \in Nat /\ CoveredIn(p)' = CoveredIn(p) + row.covered
        BY <3>1, <3>4, AmountAssumption
      <4> QED BY <3>2, <3>3, <4>1, <4>2
    <3>5. CASE ~ (row.covered > 0 /\ row.creditPeriod = p /\ row.billingAt = p)
      <4>1. CoveredIn(p)' = CoveredIn(p)
        BY <3>1, <3>2, <3>3, <3>5
      <4> QED BY <4>1 DEF CreditNotOversold
    <3> QED BY <3>4, <3>5
  <2>3. ASSUME NEW type \in {"topup", "admin_set"}, NEW ref \in Refs \cup Orders \cup {"admin"},
               NEW amount \in Int, Funds(type, ref, amount)
        PROVE  ledger' = ledger
    BY <2>3 DEF Funds
  <2> QED BY <2>1, <2>2, <2>3, MoneySteps DEF HoldStep
<1> QED BY <1>1, <1>2, TypeCorrect, SettledHoldsAreBilled, PTL DEF BillingSpec

-----------------------------------------------------------------------------
(***************************************************************************)
(* Refinement.                                                             *)
(***************************************************************************)

\* The number of fundings counts the transactions that are no usage debits.
LEMMA FundingsGrow ==
    ASSUME NEW tx, Grows(tx)
    PROVE  Cardinality(Fundings)' =
               Cardinality(Fundings) + (IF tx.type = "usage_debit" THEN 0 ELSE 1)
<1>1. /\ Len(txs) \in Nat
      /\ DOMAIN txs = 1 .. Len(txs) /\ DOMAIN txs' = 1 .. Len(txs) + 1
      /\ \A i \in 1 .. Len(txs) : txs'[i] = txs[i]
      /\ txs'[Len(txs) + 1] = tx
  BY DEF Grows
<1>2. DOMAIN txs' = DOMAIN txs \cup {Len(txs) + 1} /\ Len(txs) + 1 \notin Fundings
  BY <1>1 DEF Fundings
<1>3. Fundings' = IF tx.type = "usage_debit" THEN Fundings ELSE Fundings \cup {Len(txs) + 1}
  BY <1>1, <1>2 DEF Fundings
<1>4. IsFiniteSet(1 .. Len(txs)) /\ Fundings \subseteq 1 .. Len(txs)
  BY <1>1, FS_Interval DEF Fundings
<1>5. IsFiniteSet(Fundings) /\ Cardinality(Fundings) \in Nat
  BY <1>4, FS_Subset, FS_CardinalityType
<1>6. Cardinality(Fundings \cup {Len(txs) + 1}) = Cardinality(Fundings) + 1
  BY <1>2, <1>5, FS_AddElement
<1> QED BY <1>3, <1>5, <1>6

\* There are finitely many fundings.
LEMMA FundingsFinite ==
    ASSUME TypeOK
    PROVE  Cardinality(Fundings) \in Nat
<1>1. Len(txs) \in Nat /\ DOMAIN txs = 1 .. Len(txs)
  BY LenProperties DEF TypeOK
<1>2. IsFiniteSet(1 .. Len(txs)) /\ Fundings \subseteq 1 .. Len(txs)
  BY <1>1, FS_Interval DEF Fundings
<1> QED BY <1>2, FS_Subset, FS_CardinalityType

\* A settlement is a bill of the abstract account.
LEMMA BillsAreBills ==
    ASSUME TypeOK, TypeOK', NEW r \in Refs, NEW reserved \in BOOLEAN, NEW row \in Writable,
           Bills(r, reserved, row)
    PROVE  Accounting!Bill(r, row.charged)
<1>1. /\ ledger' = [ledger EXCEPT ![r] = row] /\ ~ ledger[r].present /\ row.present
      /\ row.charged \in Nat
  BY DEF Bills, CanSettle, Insertable, Writable, LedgerRow
<1>2. ledger'[r] = row /\ \A x \in Refs \ {r} : ledger'[x] = ledger[x]
  BY <1>1 DEF TypeOK
<1>3. {x \in Refs : ledger'[x].present} = {x \in Refs : ledger[x].present} \cup {r}
  BY <1>1, <1>2
<1>4. [x \in Refs |-> ledger'[x].charged]
        = [[x \in Refs |-> ledger[x].charged] EXCEPT ![r] = row.charged]
  BY <1>2
<1>5. balance' = balance - row.charged /\ Cardinality(Fundings)' = Cardinality(Fundings)
  <2>1. CASE row.charged = 0
    <3>1. balance' = balance /\ txs' = txs
      BY <2>1, BillsDebit
    <3> QED BY <2>1, <3>1 DEF TypeOK, Fundings
  <2>2. CASE row.charged > 0
    <3> DEFINE tx == [type |-> "usage_debit", ref |-> r, amount |-> 0 - row.charged,
                      after |-> balance + (0 - row.charged)]
    <3>1. Grows(tx) /\ balance' = balance + (0 - row.charged)
      BY <2>2, BillsDebit
    <3>2. tx.type = "usage_debit"
      OBVIOUS
    <3> HIDE DEF tx
    <3>3. Cardinality(Fundings)' = Cardinality(Fundings) + 0
      BY <3>1, <3>2, FundingsGrow
    <3>4. Cardinality(Fundings) \in Nat
      BY FundingsFinite
    <3> QED BY <1>1, <3>1, <3>3, <3>4 DEF TypeOK
  <2> QED BY <1>1, <2>1, <2>2
<1> QED BY <1>1, <1>3, <1>4, <1>5 DEF Accounting!Bill

\* A funding is a funding of the abstract account.
LEMMA FundsFund ==
    ASSUME TypeOK, NEW type \in {"topup", "admin_set"},
           NEW ref \in Refs \cup Orders \cup {"admin"}, NEW amount \in Int,
           Funds(type, ref, amount), amount = TopUpCredit \/ balance' \in AdminBalances
    PROVE  Accounting!Fund
<1> DEFINE tx == [type |-> type, ref |-> ref, amount |-> amount, after |-> balance + amount]
<1>1. Grows(tx) /\ balance' = balance + amount /\ ledger' = ledger
  BY Records DEF Funds
<1>2. tx.type # "usage_debit"
  OBVIOUS
<1> HIDE DEF tx
<1>3. Cardinality(Fundings)' = Cardinality(Fundings) + 1
  BY <1>1, <1>2, FundingsGrow
<1> QED BY <1>1, <1>3 DEF Accounting!Fund

\* Every transaction of the tables bills one unbilled run, funds the account
\* once, or changes nothing its owner can see.
THEOREM TablesImplementAccounting == BillingSpec => ImplementsAccounting
<1>1. BillingInit => Accounting!Init
  <2> SUFFICES ASSUME BillingInit PROVE Accounting!Init
    OBVIOUS
  <2>1. Fundings = {}
    BY DEF BillingInit, Fundings
  <2>2. \A r \in Refs : ~ ledger[r].present /\ ledger[r].charged = 0
    BY DEF BillingInit, NoRow
  <2> QED BY <2>1, <2>2, FS_EmptySet DEF BillingInit, Accounting!Init
<1>2. TypeOK /\ TypeOK' /\ [BillingNext]_billingVars => [Accounting!Next]_(Accounting!vars)
  <2> SUFFICES ASSUME TypeOK, TypeOK', [BillingNext]_billingVars
               PROVE  [Accounting!Next]_(Accounting!vars)
    OBVIOUS
  <2>1. CASE HoldStep
    BY <2>1 DEF HoldStep, Accounting!vars, Fundings
  <2>2. ASSUME NEW r \in Refs, NEW reserved \in BOOLEAN, NEW row \in Writable,
               Bills(r, reserved, row)
        PROVE  Accounting!Next
    <3>1. Accounting!Bill(r, row.charged)
      BY <2>2, BillsAreBills
    <3>2. row.charged \in UNION {0 .. charge : charge \in Charges \cup {0}}
      BY DEF Writable
    <3> QED BY <3>1, <3>2 DEF Accounting!Next
  <2>3. ASSUME NEW type \in {"topup", "admin_set"}, NEW ref \in Refs \cup Orders \cup {"admin"},
               NEW amount \in Int, Funds(type, ref, amount),
               amount = TopUpCredit \/ balance' \in AdminBalances
        PROVE  Accounting!Next
    BY <2>3, FundsFund DEF Accounting!Next
  <2> QED BY <2>1, <2>2, <2>3, MoneySteps
<1> QED BY <1>1, <1>2, TypeCorrect, PTL DEF BillingSpec, ImplementsAccounting, Accounting!Spec

=============================================================================
