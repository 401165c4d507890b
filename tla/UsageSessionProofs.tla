------------------------ MODULE UsageSessionProofs ------------------------
(***************************************************************************)
(* Proofs about the sessions, for any number of requests, run ids, servers *)
(* that crash and answers that are lost.  The tables' theorems transfer to *)
(* the sessions through TablesAreImplemented.                              *)
(***************************************************************************)
EXTENDS UsageSession, UsageReservationProofs

-----------------------------------------------------------------------------
(***************************************************************************)
(* The inductive invariant.                                                *)
(***************************************************************************)

\* A hold in period mode is for a month and a credit of the calendar and plans.
HoldTerms ==
    \A r \in Refs : resv[r].mode = "period" =>
        resv[r].period \in Periods /\ resv[r].periodLimit \in Credits

Renewed == {"authorized", "running", "ended", "stopping"}

\* What the phase of a session says about its other fields.
Course(s) ==
    LET x == sess[s]
    IN  /\ x.phase \in {"new", "rejected"} =>
               /\ ~ x.reserved /\ ~ x.called /\ x.renewer = "off"
               /\ x.startedIn = 0 /\ x.need = 0
        /\ x.phase \notin {"new", "rejected"} => x.ref \in Refs /\ x.mode \in Modes \cup {"self"}
        /\ x.phase = "running" \/ x.called => x.startedIn # 0
        /\ x.billable => /\ x.called
                         /\ x.phase \notin {"authorized", "running", "releasing"}
                         /\ x.charge \in IF x.mode = "self" THEN {0} ELSE Charges
        /\ x.phase \in {"settling", "marking", "annotating"} => x.billable
        /\ x.phase = "marking" => x.reserved
        /\ x.renewer # "off" => x.reserved /\ x.phase \in Renewed

Budget(hold) == hold.balance + hold.periodCredit

\* What a session knows of the tables.
Knows(s) ==
    LET x == sess[s]
    IN  /\ x.startedIn # 0 => x.ref \in claimed
        /\ x.reserved => /\ resv[x.ref].status # "none"
                         /\ x.quota <= Budget(resv[x.ref]) /\ x.need <= Budget(resv[x.ref])
                         /\ resv[x.ref].status = "released" => x.phase \in Final /\ ~ x.billable
        /\ x.phase = "annotating" => ledger[x.ref].present
        /\ x.phase = "done" /\ x.billable => ledger[x.ref].present /\ x.shown = x.charge

\* A hold has one holder, and a claimed run one session that ran it.
OneEach ==
    \A s, t \in Sessions :
        s # t /\ sess[s].ref = sess[t].ref =>
            /\ ~ (sess[s].reserved /\ sess[t].reserved)
            /\ ~ (sess[s].startedIn # 0 /\ sess[t].startedIn # 0)

\* Only billable runs settle their hold or leave it for reconciliation.
KeptForBillable ==
    \A r \in Refs : resv[r].status \in {"settled", "reconciliation"} =>
        \E s \in Holders(r) : sess[s].billable

SessionInv ==
    /\ TypeOK /\ SettledHoldIsBilled /\ HoldTerms
    /\ SessionTypeOK
    /\ \A s \in Sessions : Course(s) /\ Knows(s)
    /\ OneEach /\ KeptForBillable /\ EveryBillIsOwed

-----------------------------------------------------------------------------
(***************************************************************************)
(* What no transaction of the tables takes away.                           *)
(***************************************************************************)

Terms(hold) == hold.mode = "period" => hold.period \in Periods /\ hold.periodLimit \in Credits

\* The row of a run is never removed, a hold keeps its terms and never covers
\* less, and a ledger row is final.
Lasts(r) ==
    /\ Terms(resv'[r])
    /\ resv[r].status # "none" =>
           resv'[r].status # "none" /\ Budget(resv[r]) <= Budget(resv'[r])
    /\ ledger[r].present => ledger'[r] = ledger[r]

\* A hold that only moves its status or its lease lasts.
LEMMA SameBudgetLasts ==
    ASSUME TypeOK, HoldTerms, NEW r \in Refs, ledger'[r] = ledger[r],
           resv'[r].status # "none" \/ resv[r].status = "none",
           resv'[r].mode = resv[r].mode, resv'[r].period = resv[r].period,
           resv'[r].periodLimit = resv[r].periodLimit,
           resv'[r].balance = resv[r].balance, resv'[r].periodCredit = resv[r].periodCredit
    PROVE  Lasts(r)
<1>1. resv[r] \in Hold
  BY DEF TypeOK
<1>2. Budget(resv[r]) \in Nat /\ Budget(resv'[r]) = Budget(resv[r])
  BY <1>1 DEF Hold, Budget
<1>3. Budget(resv[r]) <= Budget(resv'[r])
  BY <1>2
<1>4. Terms(resv'[r])
  BY DEF Terms, HoldTerms
<1> QED BY <1>3, <1>4 DEF Lasts

\* A raised hold covers what the raise was for.
LEMMA RaiseCovers ==
    ASSUME TypeOK, NEW r \in Refs, NEW required \in Estimates,
           RaiseUsageBalanceReservation(r, required)
    PROVE  /\ Leased(r)
           /\ \E bal \in Nat, cred \in Nat :
                 /\ resv' = [resv EXCEPT ![r].balance = bal, ![r].periodCredit = cred]
                 /\ bal + cred = required
           /\ Budget(resv[r]) < required /\ Budget(resv'[r]) = required
           /\ UNCHANGED <<balance, ledger, txs, orders>>
<1> DEFINE others  == LiveHolds \ {r}
           credit  == AvailableCredit(resv[r].mode, resv[r].period, resv[r].periodLimit, others)
           funds   == AvailableBalance(others)
           covered == Lesser(required, credit)
<1>1. /\ others \in SUBSET Refs /\ required \in Nat /\ resv[r] \in Hold
      /\ resv \in [Refs -> Hold]
  BY LiveHoldsFinite, AmountAssumption DEF TypeOK
<1>2. credit \in Nat /\ funds \in Nat
  BY <1>1, AvailableCreditNat, AvailableBalanceNat DEF Hold
<1>3. /\ resv' = [resv EXCEPT ![r].balance = required - covered, ![r].periodCredit = covered]
      /\ Leased(r) /\ required <= credit + funds
      /\ ~ (required <= resv[r].balance + resv[r].periodCredit)
      /\ UNCHANGED <<balance, ledger, txs, orders>>
  BY DEF RaiseUsageBalanceReservation, CanRaise, CoveredBy
<1>4. covered = IF required < credit THEN required ELSE credit
  BY DEF Lesser
<1> HIDE DEF credit, funds, covered
<1>5. covered \in Nat /\ required - covered \in Nat /\ (required - covered) + covered = required
  BY <1>1, <1>2, <1>4
<1>6. resv'[r].balance = required - covered /\ resv'[r].periodCredit = covered
  BY <1>1, <1>3 DEF Hold
<1>7. resv[r].balance \in Nat /\ resv[r].periodCredit \in Nat
  BY <1>1 DEF Hold
<1>8. Budget(resv[r]) < required /\ Budget(resv'[r]) = required
  BY <1>1, <1>3, <1>5, <1>6, <1>7 DEF Budget
<1> QED BY <1>3, <1>5, <1>8

LEMMA RowsLast ==
    ASSUME TypeOK, HoldTerms, [BillingNext]_billingVars, NEW r \in Refs
    PROVE  Lasts(r)
<1>0. resv \in [Refs -> Hold] /\ ledger \in [Refs -> LedgerRow]
  BY DEF TypeOK
<1> USE <1>0
<1>1. ASSUME NEW q \in Refs, Reserving(q) PROVE Lasts(r)
  <2>1. PICK hold : /\ resv' = [resv EXCEPT ![q] = hold] /\ Terms(hold)
                    /\ resv[q].status = "none" /\ ledger' = ledger
    <3>1. PICK prepaid \in Prepaid :
            \/ ReserveUsageBalance(q, "usage", prepaid, 0, 0)
            \/ \E p \in Periods, limit \in Credits :
                   ReserveUsageBalance(q, "period", prepaid, p, limit)
      BY <1>1 DEF Reserving
    <3>2. CASE ReserveUsageBalance(q, "usage", prepaid, 0, 0)
      BY <3>2 DEF ReserveUsageBalance, CanReserve, Terms
    <3>3. ASSUME NEW p \in Periods, NEW limit \in Credits,
                 ReserveUsageBalance(q, "period", prepaid, p, limit)
          PROVE  \E hold : /\ resv' = [resv EXCEPT ![q] = hold] /\ Terms(hold)
                           /\ resv[q].status = "none" /\ ledger' = ledger
      BY <3>3 DEF ReserveUsageBalance, CanReserve, Terms
    <3> QED BY <3>1, <3>2, <3>3
  <2>2. CASE q = r
    BY <2>1, <2>2 DEF Lasts
  <2>3. CASE q # r
    BY <2>1, <2>3, SameBudgetLasts
  <2> QED BY <2>2, <2>3
<1>2. ASSUME NEW q \in Refs, NEW required \in Estimates, RaiseUsageBalanceReservation(q, required)
      PROVE  Lasts(r)
  <2>1. PICK bal \in Nat, cred \in Nat :
          /\ resv' = [resv EXCEPT ![q].balance = bal, ![q].periodCredit = cred]
          /\ resv[q].status = "active" /\ ledger' = ledger
          /\ Budget(resv[q]) < required /\ Budget(resv'[q]) = required
    BY <1>2, RaiseCovers DEF Leased
  <2>2. CASE q = r
    <3>1. Budget(resv[r]) \in Nat /\ required \in Nat
      BY AmountAssumption DEF Budget, Hold
    <3>2. Budget(resv[r]) <= Budget(resv'[r])
      BY <2>1, <2>2, <3>1
    <3>3. /\ resv'[r].status = "active" /\ resv'[r].mode = resv[r].mode
          /\ resv'[r].period = resv[r].period /\ resv'[r].periodLimit = resv[r].periodLimit
      BY <2>1, <2>2 DEF Hold
    <3> QED BY <2>1, <3>2, <3>3 DEF Lasts, Terms, HoldTerms
  <2>3. CASE q # r
    BY <2>1, <2>3, SameBudgetLasts
  <2> QED BY <2>2, <2>3
<1>3. ASSUME NEW q \in Refs, NEW status \in {"released", "reconciliation"},
             resv' = [resv EXCEPT ![q].status = status], ledger' = ledger
      PROVE  Lasts(r)
  BY <1>3, SameBudgetLasts DEF Hold
<1>4. ASSUME NEW q \in Refs, RenewUsageBalanceReservation(q) PROVE Lasts(r)
  BY <1>4, SameBudgetLasts DEF RenewUsageBalanceReservation, Hold
<1>5. ASSUME NEW q \in Refs, Settling(q) PROVE Lasts(r)
  <2>1. PICK reserved \in BOOLEAN, row \in Writable : Bills(q, reserved, row)
    BY <1>5, Settles
  <2>2. /\ ledger' = [ledger EXCEPT ![q] = row] /\ ~ ledger[q].present
        /\ resv' = IF reserved THEN [resv EXCEPT ![q].status = "settled"] ELSE resv
    BY <2>1 DEF Bills, CanSettle, Insertable, SettleReservation
  <2>3. ledger[r].present => ledger'[r] = ledger[r]
    BY <2>2
  <2>4. /\ resv'[r].status # "none" \/ resv[r].status = "none"
        /\ resv'[r].mode = resv[r].mode /\ resv'[r].period = resv[r].period
        /\ resv'[r].periodLimit = resv[r].periodLimit
        /\ resv'[r].balance = resv[r].balance /\ resv'[r].periodCredit = resv[r].periodCredit
    BY <2>2 DEF Hold
  <2>5. Terms(resv'[r])
    BY <2>4 DEF Terms, HoldTerms
  <2>6. Budget(resv[r]) \in Nat /\ Budget(resv'[r]) = Budget(resv[r])
    BY <2>4 DEF Budget, Hold
  <2> QED BY <2>3, <2>4, <2>5, <2>6 DEF Lasts
<1>6. CASE Funding
  BY <1>6, SameBudgetLasts DEF Funding, SetBillingAccountBalance, MarkPaymentOrderPaidAndCreditBalance
<1>7. CASE Tick
  <2>1. resv'[r] = [resv[r] EXCEPT !.lease = Shorter(resv[r].lease)] /\ ledger' = ledger
    BY <1>7 DEF Tick
  <2> QED BY <2>1, SameBudgetLasts DEF Hold
<1>8. CASE UNCHANGED billingVars
  BY <1>8, SameBudgetLasts DEF billingVars
<1> QED
  BY <1>1, <1>2, <1>3, <1>4, <1>5, <1>6, <1>7, <1>8
  DEF BillingNext, Holding, ReleaseUsageBalanceReservation, MarkUsageReservationReconciliationRequired

-----------------------------------------------------------------------------
(***************************************************************************)
(* The shape of a step: a session moves, and the rows that change are its  *)
(* own, or no session moves at all.                                        *)
(***************************************************************************)

\* What a session has begun stays begun.
Continues(s) ==
    LET x == sess[s]
        y == sess'[s]
    IN  /\ x.reserved => y.reserved /\ y.ref = x.ref
        /\ x.startedIn # 0 => y.startedIn # 0 /\ y.ref = x.ref
        /\ x.called => y.called
        /\ x.billable => y.billable /\ y.charge = x.charge
        /\ y.reserved /\ ~ x.reserved => resv[y.ref].status = "none"
        /\ y.startedIn # 0 /\ x.startedIn = 0 => y.ref \notin claimed

\* The status of the hold of r changes because of s, or becomes active.
HoldMovedBy(r, s) ==
    LET y == sess'[s]
    IN  \/ resv'[r].status = resv[r].status
        \/ resv[r].status = "none" /\ resv'[r].status = "active"
        \/ /\ y.reserved /\ y.ref = r
           /\ resv'[r].status \in {"settled", "reconciliation"} => y.billable

\* The ledger row of r is there already, or is the bill of s.
BilledBy(r, s) ==
    LET y == sess'[s]
    IN  \/ ledger'[r].present = ledger[r].present
        \/ /\ y.ref = r /\ r \in claimed' /\ y.called /\ y.billable
           /\ ledger'[r].billed = y.charge

\* s is the only session that moves.
StepOf(s) ==
    /\ [BillingNext]_billingVars
    /\ SessionTypeOK' /\ claimed \subseteq claimed'
    /\ \A t \in Sessions \ {s} : sess'[t] = sess[t]
    /\ Continues(s) /\ Course(s)' /\ Knows(s)'
    /\ \A r \in Refs : HoldMovedBy(r, s) /\ BilledBy(r, s)

\* The tables' part of the invariant is kept whoever calls.
LEMMA TablesKeep ==
    ASSUME SessionInv, [BillingNext]_billingVars
    PROVE  TypeOK' /\ SettledHoldIsBilled' /\ HoldTerms' /\ \A r \in Refs : Lasts(r)
<1>1. TypeOK /\ SettledHoldIsBilled /\ HoldTerms
  BY DEF SessionInv
<1>2. TypeOK' /\ SettledHoldIsBilled'
  BY <1>1, NextTypeOK, SettledStep
<1>3. \A r \in Refs : Lasts(r)
  BY <1>1, RowsLast
<1>4. HoldTerms'
  BY <1>3 DEF Lasts, Terms, HoldTerms
<1> QED BY <1>2, <1>3, <1>4

\* A hold goes on covering what it covers.
LEMMA CoverLasts ==
    ASSUME SessionInv, [BillingNext]_billingVars, NEW r \in Refs, resv[r].status # "none",
           NEW amount \in Nat, amount <= Budget(resv[r])
    PROVE  resv'[r].status # "none" /\ amount <= Budget(resv'[r])
<1>1. Lasts(r) /\ resv[r] \in Hold /\ resv'[r] \in Hold
  BY TablesKeep DEF SessionInv, TypeOK
<1>2. Budget(resv[r]) \in Nat /\ Budget(resv'[r]) \in Nat
  BY <1>1 DEF Hold, Budget
<1>3. Budget(resv[r]) <= Budget(resv'[r]) /\ resv'[r].status # "none"
  BY <1>1 DEF Lasts
<1> QED BY <1>2, <1>3

\* A session that does not move still has one hold to itself when another does.
LEMMA StepKeepsOneEach ==
    ASSUME SessionInv, NEW s \in Sessions, StepOf(s)
    PROVE  OneEach'
<1>1. ASSUME NEW t \in Sessions, t # s, sess'[t].ref = sess'[s].ref
      PROVE  /\ ~ (sess'[s].reserved /\ sess'[t].reserved)
             /\ ~ (sess'[s].startedIn # 0 /\ sess'[t].startedIn # 0)
  <2>1. sess'[t] = sess[t] /\ Knows(t) /\ OneEach
    BY <1>1 DEF StepOf, SessionInv
  <2>2. ~ (sess'[s].reserved /\ sess'[t].reserved)
    <3> SUFFICES ASSUME sess'[s].reserved, sess'[t].reserved PROVE FALSE
      OBVIOUS
    <3>1. sess[t].reserved /\ resv[sess[t].ref].status # "none"
      BY <2>1 DEF Knows
    <3>2. sess[s].reserved /\ sess[s].ref = sess[t].ref
      BY <1>1, <2>1, <3>1 DEF StepOf, Continues
    <3> QED BY <1>1, <2>1, <3>1, <3>2 DEF OneEach
  <2>3. ~ (sess'[s].startedIn # 0 /\ sess'[t].startedIn # 0)
    <3> SUFFICES ASSUME sess'[s].startedIn # 0, sess'[t].startedIn # 0 PROVE FALSE
      OBVIOUS
    <3>1. sess[t].startedIn # 0 /\ sess[t].ref \in claimed
      BY <2>1 DEF Knows
    <3>2. sess[s].startedIn # 0 /\ sess[s].ref = sess[t].ref
      BY <1>1, <2>1, <3>1 DEF StepOf, Continues
    <3> QED BY <1>1, <2>1, <3>1, <3>2 DEF OneEach
  <2> QED BY <2>2, <2>3
<1>2. ASSUME NEW t \in Sessions, NEW u \in Sessions, t # u, t # s, u # s
      PROVE  sess'[t] = sess[t] /\ sess'[u] = sess[u] /\ OneEach
  BY <1>2 DEF StepOf, SessionInv
<1> SUFFICES ASSUME NEW t \in Sessions, NEW u \in Sessions, t # u, sess'[t].ref = sess'[u].ref
             PROVE  /\ ~ (sess'[t].reserved /\ sess'[u].reserved)
                    /\ ~ (sess'[t].startedIn # 0 /\ sess'[u].startedIn # 0)
  BY DEF OneEach
<1>3. CASE t = s
  BY <1>1, <1>3
<1>4. CASE u = s
  BY <1>1, <1>4
<1>5. CASE t # s /\ u # s
  BY <1>2, <1>5 DEF OneEach
<1> QED BY <1>3, <1>4, <1>5

\* A session that does not move still knows what it knew.
LEMMA OthersKnow ==
    ASSUME SessionInv, NEW s \in Sessions, StepOf(s), NEW t \in Sessions, t # s
    PROVE  Knows(t)'
<1>1. /\ sess'[t] = sess[t] /\ Knows(t) /\ Course(t) /\ claimed \subseteq claimed'
      /\ sess[t] \in Session
      /\ \A r \in Refs : Lasts(r) /\ HoldMovedBy(r, s)
      /\ OneEach' /\ [BillingNext]_billingVars
  BY TablesKeep, StepKeepsOneEach DEF StepOf, SessionInv, SessionTypeOK
<1> DEFINE x == sess[t]
<1>2. x.startedIn # 0 => x.ref \in claimed'
  BY <1>1 DEF Knows
<1>3. ASSUME x.reserved
      PROVE  /\ resv'[x.ref].status # "none"
             /\ x.quota <= Budget(resv'[x.ref]) /\ x.need <= Budget(resv'[x.ref])
             /\ resv'[x.ref].status = "released" => x.phase \in Final /\ ~ x.billable
  <2>1. x.ref \in Refs
    BY <1>1, <1>3 DEF Course
  <2>2. /\ resv[x.ref].status # "none"
        /\ x.quota <= Budget(resv[x.ref]) /\ x.need <= Budget(resv[x.ref])
        /\ resv[x.ref].status = "released" => x.phase \in Final /\ ~ x.billable
        /\ x.quota \in Nat /\ x.need \in Nat
    BY <1>1, <1>3 DEF Knows, Session
  <2>3. resv'[x.ref].status # "none" /\ x.quota <= Budget(resv'[x.ref]) /\ x.need <= Budget(resv'[x.ref])
    BY <1>1, <2>1, <2>2, CoverLasts
  <2>4. resv'[x.ref].status = "released" => resv[x.ref].status = "released"
    <3> SUFFICES ASSUME resv'[x.ref].status = "released", resv[x.ref].status # "released"
                 PROVE  FALSE
      OBVIOUS
    <3>1. sess'[s].reserved /\ sess'[s].ref = x.ref
      BY <1>1, <2>1, <2>2 DEF HoldMovedBy
    <3> QED BY <1>1, <1>3, <3>1 DEF OneEach
  <2> QED BY <2>2, <2>3, <2>4
<1>4. x.phase = "annotating" => ledger'[x.ref].present
  <2> SUFFICES ASSUME x.phase = "annotating" PROVE ledger'[x.ref].present
    OBVIOUS
  <2>1. ledger[x.ref].present /\ x.ref \in Refs
    BY <1>1 DEF Knows, Course
  <2> QED BY <1>1, <2>1 DEF Lasts
<1>5. x.phase = "done" /\ x.billable => ledger'[x.ref].present /\ x.shown = x.charge
  <2> SUFFICES ASSUME x.phase = "done", x.billable
               PROVE  ledger'[x.ref].present /\ x.shown = x.charge
    OBVIOUS
  <2>1. ledger[x.ref].present /\ x.shown = x.charge /\ x.ref \in Refs
    BY <1>1 DEF Knows, Course
  <2> QED BY <1>1, <2>1 DEF Lasts
<1> QED BY <1>1, <1>2, <1>3, <1>4, <1>5 DEF Knows

\* What a session has billed stays its bill.
LEMMA BillsContinue ==
    ASSUME SessionInv, NEW s \in Sessions, StepOf(s), NEW t \in Sessions, sess[t].billable
    PROVE  /\ sess'[t].billable /\ sess'[t].charge = sess[t].charge
           /\ sess'[t].called /\ sess'[t].ref = sess[t].ref
           /\ sess[t].reserved => sess'[t].reserved
<1>1. Course(t) /\ sess[t].called /\ sess[t].startedIn # 0
  BY DEF SessionInv, Course
<1>2. CASE t # s
  BY <1>1, <1>2 DEF StepOf
<1>3. CASE t = s
  BY <1>1, <1>3 DEF StepOf, Continues
<1> QED BY <1>2, <1>3

\* Whatever a step of a session does in this shape keeps the invariant.
LEMMA StepKeeps ==
    ASSUME SessionInv, NEW s \in Sessions, StepOf(s)
    PROVE  SessionInv'
<1>1. TypeOK' /\ SettledHoldIsBilled' /\ HoldTerms' /\ \A r \in Refs : Lasts(r)
  BY TablesKeep DEF StepOf
<1>2. SessionTypeOK'
  BY DEF StepOf
<1>3. ASSUME NEW t \in Sessions PROVE Course(t)' /\ Knows(t)'
  <2>1. CASE t = s
    BY <2>1 DEF StepOf
  <2>2. CASE t # s
    <3>1. sess'[t] = sess[t] /\ Course(t)
      BY <2>2 DEF StepOf, SessionInv
    <3>2. Course(t)'
      BY <3>1 DEF Course
    <3> QED BY <2>2, <3>2, OthersKnow
  <2> QED BY <2>1, <2>2
<1>4. KeptForBillable'
  <2> SUFFICES ASSUME NEW r \in Refs, resv'[r].status \in {"settled", "reconciliation"}
               PROVE  \E t \in Sessions : sess'[t].ref = r /\ sess'[t].reserved /\ sess'[t].billable
    BY DEF KeptForBillable, Holders
  <2>1. CASE resv'[r].status = resv[r].status
    <3>1. PICK t \in Sessions : sess[t].ref = r /\ sess[t].reserved /\ sess[t].billable
      BY <2>1 DEF SessionInv, KeptForBillable, Holders
    <3> QED BY <3>1, BillsContinue
  <2>2. CASE resv'[r].status # resv[r].status
    BY <2>2 DEF StepOf, HoldMovedBy
  <2> QED BY <2>1, <2>2
<1>5. EveryBillIsOwed'
  <2> SUFFICES ASSUME NEW r \in Refs, ledger'[r].present
               PROVE  \E t \in Sessions : /\ sess'[t].ref = r /\ r \in claimed'
                                          /\ sess'[t].called /\ sess'[t].billable
                                          /\ ledger'[r].billed = sess'[t].charge
    BY DEF EveryBillIsOwed
  <2>1. CASE ledger[r].present
    <3>1. PICK t \in Sessions : /\ sess[t].ref = r /\ r \in claimed
                                /\ sess[t].called /\ sess[t].billable
                                /\ ledger[r].billed = sess[t].charge
      BY <2>1 DEF SessionInv, EveryBillIsOwed
    <3>2. ledger'[r] = ledger[r] /\ r \in claimed'
      BY <1>1, <2>1, <3>1 DEF Lasts, StepOf
    <3> QED BY <3>1, <3>2, BillsContinue
  <2>2. CASE ~ ledger[r].present
    <3>1. BilledBy(r, s) /\ ledger'[r].present # ledger[r].present
      BY <2>2 DEF StepOf
    <3> QED BY <3>1 DEF BilledBy
  <2> QED BY <2>1, <2>2
<1> QED BY <1>1, <1>2, <1>3, <1>4, <1>5, StepKeepsOneEach DEF SessionInv

-----------------------------------------------------------------------------
(***************************************************************************)
(* Every action of a session has that shape.                               *)
(***************************************************************************)

\* A step after which s is y and the tables are as before.
LEMMA TablesKeptStep ==
    ASSUME SessionInv, NEW s \in Sessions, NEW y \in Session, Becomes(s, y), TablesKept,
           claimed' \subseteq Refs, claimed \subseteq claimed', month' = month,
           Continues(s), Course(s)', Knows(s)'
    PROVE  StepOf(s)
<1>1. sess' = [sess EXCEPT ![s] = y] /\ sess \in [Sessions -> Session] /\ month \in Periods
  BY DEF Becomes, SessionInv, SessionTypeOK
<1>2. SessionTypeOK' /\ \A t \in Sessions \ {s} : sess'[t] = sess[t]
  BY <1>1 DEF SessionTypeOK
<1>3. [BillingNext]_billingVars /\ resv' = resv /\ ledger' = ledger
  BY DEF TablesKept, billingVars
<1>4. \A r \in Refs : HoldMovedBy(r, s) /\ BilledBy(r, s)
  BY <1>3 DEF HoldMovedBy, BilledBy
<1> QED BY <1>2, <1>3, <1>4 DEF StepOf

\* What is known of the session that moves.
LEMMA Mover ==
    ASSUME SessionInv, NEW s \in Sessions
    PROVE  /\ sess[s] \in Session /\ Course(s) /\ Knows(s)
           /\ sess \in [Sessions -> Session] /\ claimed \subseteq Refs /\ month \in Periods
           /\ \A y : Becomes(s, y) => sess'[s] = y
BY DEF SessionInv, SessionTypeOK, Becomes

LEMMA StepFinish ==
    ASSUME SessionInv, NEW s \in Sessions, Finish(s)
    PROVE  StepOf(s)
<1> DEFINE x == sess[s]
           y == [x EXCEPT !.phase = "stopping"]
<1>1. /\ x \in Session /\ Course(s) /\ Knows(s) /\ x.phase = "ended"
      /\ Becomes(s, y) /\ sess'[s] = y /\ TablesKept /\ UNCHANGED <<claimed, month>>
      /\ claimed \subseteq Refs
  BY Mover DEF Finish, MovesTo
<1>2. y \in Session
  BY <1>1 DEF Session, Phases
<1>3. Continues(s) /\ Course(s)'
  BY <1>1 DEF Continues, Course, Session, Renewed
<1>4. Knows(s)'
  BY <1>1 DEF Knows, Session, TablesKept, billingVars, Final
<1> QED BY <1>1, <1>2, <1>3, <1>4, TablesKeptStep

LEMMA StepAuthorizeRefused ==
    ASSUME SessionInv, NEW s \in Sessions, AuthorizeRefused(s)
    PROVE  StepOf(s)
<1> DEFINE x == sess[s]
           y == [x EXCEPT !.phase = "rejected"]
<1>1. /\ x \in Session /\ Course(s) /\ Knows(s) /\ x.phase = "new"
      /\ Becomes(s, y) /\ sess'[s] = y /\ TablesKept /\ UNCHANGED <<claimed, month>>
      /\ claimed \subseteq Refs
  BY Mover DEF AuthorizeRefused, MovesTo
<1>2. y \in Session
  BY <1>1 DEF Session, Phases, Final
<1>3. Continues(s) /\ Course(s)'
  BY <1>1 DEF Continues, Course, Session, Renewed
<1>4. Knows(s)'
  BY <1>1 DEF Knows, Session, TablesKept, billingVars, Final
<1> QED BY <1>1, <1>2, <1>3, <1>4, TablesKeptStep

LEMMA StepRunRefused ==
    ASSUME SessionInv, NEW s \in Sessions, RunRefused(s)
    PROVE  StepOf(s)
<1> DEFINE x == sess[s]
           y == [x EXCEPT !.phase = "ended"]
<1>1. /\ x \in Session /\ Course(s) /\ Knows(s) /\ x.phase = "authorized"
      /\ Becomes(s, y) /\ sess'[s] = y /\ TablesKept /\ UNCHANGED <<claimed, month>>
      /\ claimed \subseteq Refs
  BY Mover DEF RunRefused, MovesTo
<1>2. y \in Session
  BY <1>1 DEF Session, Phases
<1>3. Continues(s) /\ Course(s)'
  BY <1>1 DEF Continues, Course, Session, Renewed
<1>4. Knows(s)'
  BY <1>1 DEF Knows, Session, TablesKept, billingVars, Final
<1> QED BY <1>1, <1>2, <1>3, <1>4, TablesKeptStep

LEMMA StepRenewBegins ==
    ASSUME SessionInv, NEW s \in Sessions, RenewBegins(s)
    PROVE  StepOf(s)
<1> DEFINE x == sess[s]
           y == [x EXCEPT !.renewer = "busy"]
<1>1. /\ x \in Session /\ Course(s) /\ Knows(s) /\ x.renewer = "on" /\ x.phase # "stopping"
      /\ Becomes(s, y) /\ sess'[s] = y /\ TablesKept /\ UNCHANGED <<claimed, month>>
      /\ claimed \subseteq Refs
  BY Mover DEF RenewBegins
<1>2. y \in Session
  BY <1>1 DEF Session, Phases
<1>3. Continues(s) /\ Course(s)'
  BY <1>1 DEF Continues, Course, Session, Renewed
<1>4. Knows(s)'
  BY <1>1 DEF Knows, Session, TablesKept, billingVars, Final
<1> QED BY <1>1, <1>2, <1>3, <1>4, TablesKeptStep

LEMMA StepRenewalStopped ==
    ASSUME SessionInv, NEW s \in Sessions, RenewalStopped(s)
    PROVE  StepOf(s)
<1> DEFINE x == sess[s]
           y == [x EXCEPT !.renewer = "off", !.attempts = 0,
                       !.phase = IF x.billable THEN "settling" ELSE "releasing"]
<1>1. /\ x \in Session /\ Course(s) /\ Knows(s) /\ x.phase = "stopping"
      /\ Becomes(s, y) /\ sess'[s] = y /\ TablesKept /\ UNCHANGED <<claimed, month>>
      /\ claimed \subseteq Refs
  BY Mover DEF RenewalStopped
<1>2. y \in Session
  <2>1. 0 \in 0 .. MaxAttempts - 1
    BY AttemptsAssumption
  <2>2. (IF x.billable THEN "settling" ELSE "releasing") \in Phases
    BY DEF Phases
  <2> QED BY <1>1, <2>1, <2>2 DEF Session
<1>3. Continues(s) /\ Course(s)'
  BY <1>1 DEF Continues, Course, Session, Renewed
<1>4. Knows(s)'
  BY <1>1 DEF Knows, Session, TablesKept, billingVars, Final
<1> QED BY <1>1, <1>2, <1>3, <1>4, TablesKeptStep

LEMMA StepLeave ==
    ASSUME SessionInv, NEW s \in Sessions, Leave(s)
    PROVE  StepOf(s)
<1> DEFINE x == sess[s]
           y == [x EXCEPT !.phase = "gone", !.renewer = "off"]
<1>1. /\ x \in Session /\ Course(s) /\ Knows(s) /\ x.phase \notin Final \cup {"new"}
      /\ Becomes(s, y) /\ sess'[s] = y /\ TablesKept /\ UNCHANGED <<claimed, month>>
      /\ claimed \subseteq Refs
  BY Mover DEF Leave
<1>2. y \in Session
  BY <1>1 DEF Session, Phases, Final
<1>3. Continues(s) /\ Course(s)'
  BY <1>1 DEF Continues, Course, Session, Renewed, Final
<1>4. Knows(s)'
  BY <1>1 DEF Knows, Session, TablesKept, billingVars, Final
<1> QED BY <1>1, <1>2, <1>3, <1>4, TablesKeptStep

LEMMA StepAuthorizeFree ==
    ASSUME SessionInv, NEW s \in Sessions, NEW r \in Refs, AuthorizeFree(s, r)
    PROVE  StepOf(s)
<1> DEFINE x == sess[s]
<1>0. PICK mode \in Modes \cup {"self"} : Becomes(s, WithoutReservation(s, r, mode))
  BY DEF AuthorizeFree
<1> DEFINE y == [x EXCEPT !.phase = "authorized", !.ref = r, !.mode = mode]
<1>1. /\ x \in Session /\ Course(s) /\ Knows(s) /\ x.phase = "new"
      /\ Becomes(s, y) /\ sess'[s] = y /\ TablesKept /\ UNCHANGED <<claimed, month>>
      /\ claimed \subseteq Refs
  BY <1>0, Mover DEF AuthorizeFree, WithoutReservation
<1>2. y \in Session
  BY <1>1 DEF Session, Phases, Modes
<1>3. Continues(s) /\ Course(s)'
  BY <1>1 DEF Continues, Course, Session, Renewed
<1>4. Knows(s)'
  BY <1>1 DEF Knows, Course, Session, TablesKept, billingVars, Final
<1> QED BY <1>1, <1>2, <1>3, <1>4, TablesKeptStep

LEMMA StepClaimRun ==
    ASSUME SessionInv, NEW s \in Sessions, ClaimRun(s)
    PROVE  StepOf(s)
<1> DEFINE x == sess[s]
           y == [x EXCEPT !.phase = "running", !.startedIn = month]
<1>1. /\ x \in Session /\ Course(s) /\ Knows(s) /\ x.phase = "authorized" /\ x.ref \notin claimed
      /\ Becomes(s, y) /\ sess'[s] = y /\ TablesKept /\ month' = month
      /\ claimed \subseteq Refs /\ claimed' = claimed \cup {x.ref} /\ month \in Periods
  BY Mover DEF ClaimRun
<1>2. y \in Session /\ month # 0 /\ x.ref \in Refs
  BY <1>1, PeriodAssumption DEF Session, Phases, Course
<1>3. Continues(s) /\ Course(s)'
  BY <1>1, <1>2 DEF Continues, Course, Knows, Session, Renewed
<1>4. Knows(s)'
  BY <1>1, <1>2 DEF Knows, Course, Session, TablesKept, billingVars, Final
<1>5. claimed' \subseteq Refs /\ claimed \subseteq claimed'
  BY <1>1, <1>2
<1> QED BY <1>1, <1>2, <1>3, <1>4, <1>5, TablesKeptStep

\* What a run may end with.
LEMMA OutcomesTyped ==
    ASSUME SessionInv, NEW s \in Sessions, sess[s].phase = "running", NEW y \in Outcomes(s)
    PROVE  /\ y \in Session /\ y.phase = "ended"
           /\ y.ref = sess[s].ref /\ y.mode = sess[s].mode /\ y.reserved = sess[s].reserved
           /\ y.quota = sess[s].quota /\ y.need = sess[s].need /\ y.called = sess[s].called
           /\ y.startedIn = sess[s].startedIn /\ y.renewer = sess[s].renewer
           /\ y.billable => y.called /\ y.charge \in IF y.mode = "self" THEN {0} ELSE Charges
<1> DEFINE x == sess[s]
<1>1. x \in Session /\ Course(s) /\ x.phase = "running" /\ ~ x.billable
  BY Mover DEF Course
<1>2. CASE y = [x EXCEPT !.phase = "ended"]
  BY <1>1, <1>2 DEF Session, Phases
<1>3. ASSUME NEW charge \in IF ~ x.called THEN {} ELSE IF x.mode = "self" THEN {0} ELSE Charges,
             y = [x EXCEPT !.phase = "ended", !.billable = TRUE, !.charge = charge]
      PROVE  /\ y \in Session /\ y.phase = "ended"
             /\ y.ref = x.ref /\ y.mode = x.mode /\ y.reserved = x.reserved
             /\ y.quota = x.quota /\ y.need = x.need /\ y.called = x.called
             /\ y.startedIn = x.startedIn /\ y.renewer = x.renewer
             /\ y.billable => y.called /\ y.charge \in IF y.mode = "self" THEN {0} ELSE Charges
  <2>1. x.called /\ charge \in Nat /\ charge \in IF x.mode = "self" THEN {0} ELSE Charges
    BY <1>1, <1>3, AmountAssumption DEF Session
  <2> QED BY <1>1, <1>3, <2>1 DEF Session, Phases
<1> QED BY <1>1, <1>2, <1>3 DEF Outcomes

LEMMA StepRunEnds ==
    ASSUME SessionInv, NEW s \in Sessions, RunEnds(s)
    PROVE  StepOf(s)
<1> DEFINE x == sess[s]
<1>0. PICK y \in Outcomes(s) : Becomes(s, y)
  BY DEF RunEnds
<1>1. /\ x \in Session /\ Course(s) /\ Knows(s) /\ x.phase = "running"
      /\ sess'[s] = y /\ TablesKept /\ UNCHANGED <<claimed, month>> /\ claimed \subseteq Refs
  BY <1>0, Mover DEF RunEnds
<1>2. /\ y \in Session /\ y.phase = "ended"
      /\ y.ref = x.ref /\ y.mode = x.mode /\ y.reserved = x.reserved
      /\ y.quota = x.quota /\ y.need = x.need /\ y.called = x.called
      /\ y.startedIn = x.startedIn /\ y.renewer = x.renewer
      /\ y.billable => y.called /\ y.charge \in IF y.mode = "self" THEN {0} ELSE Charges
  BY <1>1, OutcomesTyped
<1>3. Continues(s) /\ Course(s)'
  BY <1>1, <1>2 DEF Continues, Course, Renewed
<1>4. Knows(s)'
  BY <1>1, <1>2 DEF Knows, TablesKept, billingVars, Final
<1> QED BY <1>0, <1>1, <1>2, <1>3, <1>4, TablesKeptStep

LEMMA StepAnnotate ==
    ASSUME SessionInv, NEW s \in Sessions, Annotate(s)
    PROVE  StepOf(s)
<1> DEFINE x == sess[s]
<1>1. /\ x \in Session /\ Course(s) /\ Knows(s) /\ x.phase = "annotating"
      /\ TablesKept /\ UNCHANGED <<claimed, month>> /\ claimed \subseteq Refs
      /\ \A y : Becomes(s, y) => sess'[s] = y
  BY Mover DEF Annotate
<1>2. x.ref \in Refs /\ x.billable /\ x.startedIn # 0 /\ ledger[x.ref].present
  BY <1>1 DEF Course, Knows
<1>3. ledger[x.ref].billed = x.charge
  <2>1. PICK t \in Sessions : /\ sess[t].ref = x.ref /\ sess[t].called
                              /\ ledger[x.ref].billed = sess[t].charge
    BY <1>2 DEF SessionInv, EveryBillIsOwed
  <2>2. sess[t].startedIn # 0
    BY <2>1 DEF SessionInv, Course
  <2>3. t = s
    BY <1>2, <2>1, <2>2 DEF SessionInv, OneEach
  <2> QED BY <2>1, <2>3
<1>4. CASE Becomes(s, [x EXCEPT !.phase = "done", !.shown = ledger[x.ref].billed])
  <2> DEFINE y == [x EXCEPT !.phase = "done", !.shown = ledger[x.ref].billed]
  <2>1. sess'[s] = y /\ y \in Session /\ x.charge \in Nat
    BY <1>1, <1>3, <1>4 DEF Session, Phases, Final
  <2>2. Continues(s) /\ Course(s)'
    BY <1>1, <2>1 DEF Continues, Course, Session, Renewed
  <2>3. Knows(s)'
    BY <1>1, <1>2, <1>3, <2>1 DEF Knows, Session, TablesKept, billingVars, Final
  <2> QED BY <1>1, <1>4, <2>1, <2>2, <2>3, TablesKeptStep
<1>5. CASE MovesTo(s, "failed")
  <2> DEFINE y == [x EXCEPT !.phase = "failed"]
  <2>1. Becomes(s, y) /\ sess'[s] = y /\ y \in Session
    BY <1>1, <1>5 DEF Session, Phases, Final, MovesTo
  <2>2. Continues(s) /\ Course(s)'
    BY <1>1, <2>1 DEF Continues, Course, Session, Renewed
  <2>3. Knows(s)'
    BY <1>1, <1>2, <2>1 DEF Knows, Session, TablesKept, billingVars, Final
  <2> QED BY <1>1, <2>1, <2>2, <2>3, TablesKeptStep
<1> QED BY <1>4, <1>5 DEF Annotate

\* A step after which s is y and the tables have moved by its own transaction.
LEMMA TablesMovedStep ==
    ASSUME SessionInv, NEW s \in Sessions, NEW y \in Session, Becomes(s, y), BillingNext,
           UNCHANGED <<claimed, month>>,
           Continues(s), Course(s)', Knows(s)',
           \A r \in Refs : HoldMovedBy(r, s) /\ BilledBy(r, s)
    PROVE  StepOf(s)
<1>1. sess' = [sess EXCEPT ![s] = y] /\ sess \in [Sessions -> Session]
      /\ claimed \subseteq Refs /\ month \in Periods
  BY DEF Becomes, SessionInv, SessionTypeOK
<1>2. SessionTypeOK' /\ \A t \in Sessions \ {s} : sess'[t] = sess[t]
  BY <1>1 DEF SessionTypeOK
<1> QED BY <1>1, <1>2 DEF StepOf

\* A reservation of AuthorizeUsage is one of the tables.
LEMMA ReserveStep ==
    ASSUME SessionInv, NEW r \in Refs, NEW mode \in Modes, Reserve(r, mode)
    PROVE  /\ BillingNext
           /\ \E hold \in Hold : /\ resv' = [resv EXCEPT ![r] = hold]
                                 /\ hold.status = "active" /\ resv[r].status = "none"
           /\ ledger' = ledger
<1>1. month \in Periods /\ TypeOK
  BY DEF SessionInv, SessionTypeOK
<1>2. PICK prepaid \in Prepaid :
        IF mode = "usage" THEN ReserveUsageBalance(r, mode, prepaid, 0, 0)
        ELSE \E limit \in Credits : ReserveUsageBalance(r, mode, prepaid, month, limit)
  BY DEF Reserve
<1>3. CASE mode = "usage"
  <2>1. ReserveUsageBalance(r, "usage", prepaid, 0, 0) /\ "usage" \in Modes
    BY <1>2, <1>3
  <2>2. Reserving(r)
    BY <2>1 DEF Reserving
  <2>3. \E hold \in Hold : /\ resv' = [resv EXCEPT ![r] = hold]
                           /\ hold.status = "active" /\ resv[r].status = "none"
    <3>1. 0 \in Nat /\ 0 \in Periods \cup {0}
      OBVIOUS
    <3> QED BY <1>1, <2>1, <3>1, Reserves
  <2>4. ledger' = ledger
    BY <2>1 DEF ReserveUsageBalance
  <2> QED BY <2>2, <2>3, <2>4 DEF BillingNext
<1>4. CASE mode = "period"
  <2>1. PICK limit \in Credits : ReserveUsageBalance(r, "period", prepaid, month, limit)
    BY <1>2, <1>4
  <2>2. Reserving(r)
    BY <1>1, <2>1 DEF Reserving
  <2>3. \E hold \in Hold : /\ resv' = [resv EXCEPT ![r] = hold]
                           /\ hold.status = "active" /\ resv[r].status = "none"
    <3>1. limit \in Nat /\ month \in Periods \cup {0} /\ "period" \in Modes
      BY <1>1, AmountAssumption DEF Modes
    <3> QED BY <1>1, <2>1, <3>1, Reserves
  <2>4. ledger' = ledger
    BY <2>1 DEF ReserveUsageBalance
  <2> QED BY <2>2, <2>3, <2>4 DEF BillingNext
<1> QED BY <1>3, <1>4 DEF Modes

LEMMA StepAuthorizePaid ==
    ASSUME SessionInv, NEW s \in Sessions, NEW r \in Refs, AuthorizePaid(s, r)
    PROVE  StepOf(s)
<1> DEFINE x == sess[s]
<1>0. PICK mode \in Modes :
        /\ Reserve(r, mode)
        /\ \/ Becomes(s, [WithoutReservation(s, r, mode) EXCEPT
                             !.reserved = TRUE, !.renewer = "on",
                             !.quota = resv'[r].balance + resv'[r].periodCredit])
           \/ MovesTo(s, "rejected")
  BY DEF AuthorizePaid
<1>1. /\ x \in Session /\ Course(s) /\ Knows(s) /\ x.phase = "new"
      /\ UNCHANGED <<claimed, month>>
      /\ \A y : Becomes(s, y) => sess'[s] = y
  BY Mover DEF AuthorizePaid
<1>2. PICK hold \in Hold : /\ resv' = [resv EXCEPT ![r] = hold]
                           /\ hold.status = "active" /\ resv[r].status = "none"
  BY <1>0, ReserveStep
<1>3. BillingNext /\ ledger' = ledger /\ resv \in [Refs -> Hold]
  BY <1>0, ReserveStep DEF SessionInv, TypeOK
<1>4. resv'[r] = hold
  BY <1>2, <1>3
<1>5. \A q \in Refs : HoldMovedBy(q, s) /\ BilledBy(q, s)
  BY <1>2, <1>3 DEF HoldMovedBy, BilledBy
<1>6. CASE Becomes(s, [WithoutReservation(s, r, mode) EXCEPT
                          !.reserved = TRUE, !.renewer = "on",
                          !.quota = resv'[r].balance + resv'[r].periodCredit])
  <2> DEFINE sum == hold.balance + hold.periodCredit
             z == [x EXCEPT !.phase = "authorized", !.ref = r, !.mode = mode]
             y == [z EXCEPT !.reserved = TRUE, !.renewer = "on", !.quota = sum]
  <2>1. sum \in Nat
    BY DEF Hold
  <2>2. Becomes(s, y) /\ sess'[s] = y
    BY <1>1, <1>4, <1>6 DEF WithoutReservation
  <2>3. z \in Session
    BY <1>1 DEF Session, Phases, Modes
  <2> HIDE DEF sum
  <2>4. y \in Session
    <3> HIDE DEF z
    <3> QED BY <2>1, <2>3 DEF Session
  <2>5. /\ y.phase = "authorized" /\ y.ref = r /\ y.mode = mode /\ y.reserved
        /\ y.renewer = "on" /\ y.quota = sum /\ y.need = x.need /\ y.called = x.called
        /\ y.billable = x.billable /\ y.startedIn = x.startedIn /\ y.charge = x.charge
    BY <1>1 DEF Session
  <2> HIDE DEF y, z
  <2>6. ~ x.called /\ ~ x.billable /\ x.startedIn = 0 /\ ~ x.reserved /\ x.need = 0
    BY <1>1 DEF Course
  <2>7. Continues(s) /\ Course(s)'
    BY <1>2, <2>2, <2>5, <2>6 DEF Continues, Course, Renewed
  <2>8. sum = Budget(resv'[r])
    BY <1>4 DEF sum, Budget
  <2>9. sum <= sum /\ 0 <= sum
    BY <2>1
  <2>10. Knows(s)'
    BY <1>2, <1>4, <2>2, <2>5, <2>6, <2>8, <2>9 DEF Knows
  <2> QED BY <1>1, <1>3, <1>5, <2>2, <2>4, <2>7, <2>10, TablesMovedStep
<1>7. CASE MovesTo(s, "rejected")
  <2> DEFINE y == [x EXCEPT !.phase = "rejected"]
  <2>1. Becomes(s, y) /\ sess'[s] = y /\ y \in Session
    BY <1>1, <1>7 DEF Session, Phases, Final, MovesTo
  <2>2. Continues(s) /\ Course(s)' /\ Knows(s)'
    BY <1>1, <2>1 DEF Continues, Course, Knows, Session, Renewed
  <2> QED BY <1>1, <1>3, <1>5, <2>1, <2>2, TablesMovedStep
<1> QED BY <1>0, <1>6, <1>7

\* A session in progress that keeps its hold still knows that the hold covers it.
LEMMA KnowsOn ==
    ASSUME SessionInv, [BillingNext]_billingVars, NEW s \in Sessions, claimed' = claimed,
           sess'[s].ref = sess[s].ref, sess'[s].reserved = sess[s].reserved,
           sess'[s].quota = sess[s].quota, sess'[s].startedIn = sess[s].startedIn,
           sess'[s].need # sess[s].need => sess'[s].need <= Budget(resv'[sess[s].ref]),
           sess[s].reserved /\ resv'[sess[s].ref].status = "released" =>
               sess'[s].phase \in Final /\ ~ sess'[s].billable,
           sess'[s].phase = "annotating" => ledger'[sess[s].ref].present,
           sess'[s].phase = "done" /\ sess'[s].billable =>
               ledger'[sess[s].ref].present /\ sess'[s].shown = sess'[s].charge
    PROVE  Knows(s)'
<1> DEFINE x == sess[s]
<1>1. x \in Session /\ Course(s) /\ Knows(s)
  BY Mover
<1>2. ASSUME x.reserved
      PROVE  /\ resv'[x.ref].status # "none"
             /\ x.quota <= Budget(resv'[x.ref]) /\ x.need <= Budget(resv'[x.ref])
  <2>1. /\ x.ref \in Refs /\ x.quota \in Nat /\ x.need \in Nat
        /\ resv[x.ref].status # "none"
        /\ x.quota <= Budget(resv[x.ref]) /\ x.need <= Budget(resv[x.ref])
    BY <1>1, <1>2 DEF Course, Knows, Session
  <2> QED BY <2>1, CoverLasts
<1>3. sess'[s].reserved =>
        /\ resv'[sess'[s].ref].status # "none"
        /\ sess'[s].quota <= Budget(resv'[sess'[s].ref])
        /\ sess'[s].need <= Budget(resv'[sess'[s].ref])
        /\ resv'[sess'[s].ref].status = "released" => sess'[s].phase \in Final /\ ~ sess'[s].billable
  BY <1>2
<1> QED BY <1>1, <1>3 DEF Knows

\* The hold of a session in progress has not been released.
LEMMA NotReleased ==
    ASSUME SessionInv, NEW s \in Sessions, sess[s].reserved, sess[s].phase \notin Final
    PROVE  sess[s].ref \in Refs /\ resv[sess[s].ref].status \notin {"none", "released"}
BY Mover DEF Course, Knows, Final

LEMMA LargerIsOne ==
    ASSUME NEW a \in Nat, NEW b \in Nat
    PROVE  Larger(a, b) \in Nat /\ Larger(a, b) \in {a, b}
BY DEF Larger

LEMMA StepCallUpstream ==
    ASSUME SessionInv, NEW s \in Sessions, CallUpstream(s)
    PROVE  StepOf(s)
<1> DEFINE x == sess[s]
<1>0. PICK estimate \in Estimates :
        /\ EnsureBudget(s, estimate)
        /\ Becomes(s, [x EXCEPT !.called = TRUE, !.need = Larger(@, estimate)])
  BY DEF CallUpstream
<1> DEFINE need == Larger(x.need, estimate)
           y == [x EXCEPT !.called = TRUE, !.need = need]
<1>1. /\ x \in Session /\ Course(s) /\ Knows(s) /\ x.phase = "running" /\ x.ref \in Refs
      /\ UNCHANGED <<claimed, month>> /\ claimed \subseteq Refs
      /\ Becomes(s, y) /\ sess'[s] = y
  BY <1>0, Mover DEF CallUpstream, Course
<1>2. estimate \in Nat /\ need \in Nat /\ need \in {x.need, estimate}
  BY <1>1, AmountAssumption, LargerIsOne DEF Session
<1> HIDE DEF need
<1>3. /\ y \in Session
      /\ y.ref = x.ref /\ y.reserved = x.reserved /\ y.quota = x.quota /\ y.mode = x.mode
      /\ y.startedIn = x.startedIn /\ y.need = need /\ y.called /\ y.phase = x.phase
      /\ y.billable = x.billable /\ y.charge = x.charge /\ y.renewer = x.renewer
  BY <1>1, <1>2 DEF Session
<1>4. /\ ~ x.billable /\ x.startedIn # 0
      /\ x.reserved => resv[x.ref].status \notin {"none", "released"}
  BY <1>1, NotReleased DEF Course, Final
<1> HIDE DEF y
<1>5. Continues(s) /\ Course(s)'
  BY <1>1, <1>3, <1>4 DEF Continues, Course, Renewed
<1>6. CASE TablesKept /\ (x.reserved => estimate <= x.quota \/ CoveredBy(x.ref, estimate))
  <2>1. /\ resv' = resv /\ ledger' = ledger /\ [BillingNext]_billingVars
    BY <1>6 DEF TablesKept, billingVars
  <2>2. ASSUME x.reserved PROVE estimate <= Budget(resv[x.ref])
    <3>1. x.quota <= Budget(resv[x.ref]) /\ x.quota \in Nat /\ resv[x.ref] \in Hold
      BY <1>1, <2>2 DEF Knows, Session, SessionInv, TypeOK
    <3>2. Budget(resv[x.ref]) \in Nat
      BY <3>1 DEF Hold, Budget
    <3>3. CASE estimate <= x.quota
      BY <1>2, <3>1, <3>2, <3>3
    <3>4. CASE CoveredBy(x.ref, estimate)
      BY <3>4 DEF CoveredBy, Budget
    <3> QED BY <1>6, <2>2, <3>3, <3>4
  <2>3. ASSUME x.reserved PROVE need <= Budget(resv[x.ref])
    BY <1>1, <1>2, <2>2, <2>3 DEF Knows
  <2>4. Knows(s)'
    BY <1>1, <1>3, <1>4, <2>1, <2>3 DEF Knows
  <2> QED BY <1>1, <1>3, <1>5, <1>6, <2>4, TablesKeptStep
<1>7. CASE x.reserved /\ RaiseUsageBalanceReservation(x.ref, estimate)
  <2>1. BillingNext
    BY <1>1, <1>7 DEF BillingNext, Holding
  <2>2. PICK bal \in Nat, cred \in Nat :
          /\ resv' = [resv EXCEPT ![x.ref].balance = bal, ![x.ref].periodCredit = cred]
          /\ bal + cred = estimate /\ ledger' = ledger
    BY <1>1, <1>7, RaiseCovers DEF SessionInv
  <2>3. resv \in [Refs -> Hold] /\ resv[x.ref] \in Hold
    BY <1>1 DEF SessionInv, TypeOK
  <2>4. resv'[x.ref].balance = bal /\ resv'[x.ref].periodCredit = cred
    BY <1>1, <2>2, <2>3 DEF Hold
  <2>5. \A q \in Refs : resv'[q].status = resv[q].status
    BY <2>2, <2>3 DEF Hold
  <2>6. \A q \in Refs : HoldMovedBy(q, s) /\ BilledBy(q, s)
    BY <2>2, <2>5 DEF HoldMovedBy, BilledBy
  <2>7. y.need # x.need => y.need <= Budget(resv'[x.ref])
    <3>1. estimate <= bal + cred
      BY <1>2, <2>2
    <3> QED BY <1>2, <1>3, <2>4, <3>1 DEF Budget
  <2>8. resv'[x.ref].status # "released"
    BY <1>1, <1>4, <1>7, <2>5
  <2>9. Knows(s)'
    BY <1>1, <1>3, <2>1, <2>7, <2>8, KnowsOn
  <2> QED BY <1>1, <1>3, <1>5, <2>1, <2>6, <2>9, TablesMovedStep
<1> QED BY <1>0, <1>6, <1>7 DEF EnsureBudget

LEMMA StepRaiseUnanswered ==
    ASSUME SessionInv, NEW s \in Sessions, RaiseUnanswered(s)
    PROVE  StepOf(s)
<1> DEFINE x == sess[s]
<1>0. PICK y \in Outcomes(s) : Becomes(s, y)
  BY DEF RaiseUnanswered
<1>1. /\ x \in Session /\ Course(s) /\ Knows(s) /\ x.phase = "running" /\ x.ref \in Refs
      /\ UNCHANGED <<claimed, month>> /\ sess'[s] = y /\ x.reserved
  BY <1>0, Mover DEF RaiseUnanswered, Course
<1>2. /\ y \in Session /\ y.phase = "ended"
      /\ y.ref = x.ref /\ y.mode = x.mode /\ y.reserved = x.reserved
      /\ y.quota = x.quota /\ y.need = x.need /\ y.called = x.called
      /\ y.startedIn = x.startedIn /\ y.renewer = x.renewer
      /\ y.billable => y.called /\ y.charge \in IF y.mode = "self" THEN {0} ELSE Charges
  BY <1>1, OutcomesTyped
<1>3. PICK estimate \in Estimates : RaiseUsageBalanceReservation(x.ref, estimate)
  BY DEF RaiseUnanswered
<1>4. BillingNext
  BY <1>1, <1>3 DEF BillingNext, Holding
<1>5. PICK bal \in Nat, cred \in Nat :
        /\ resv' = [resv EXCEPT ![x.ref].balance = bal, ![x.ref].periodCredit = cred]
        /\ bal + cred = estimate /\ ledger' = ledger
  BY <1>1, <1>3, RaiseCovers DEF SessionInv
<1>6. \A q \in Refs : resv'[q].status = resv[q].status
  BY <1>5 DEF SessionInv, TypeOK, Hold
<1>7. \A q \in Refs : HoldMovedBy(q, s) /\ BilledBy(q, s)
  BY <1>5, <1>6 DEF HoldMovedBy, BilledBy
<1>8. Continues(s) /\ Course(s)'
  BY <1>1, <1>2 DEF Continues, Course, Renewed
<1>9. resv'[x.ref].status # "released"
  BY <1>1, <1>6, NotReleased DEF Final
<1>10. Knows(s)'
  BY <1>1, <1>2, <1>4, <1>9, KnowsOn
<1> QED BY <1>0, <1>1, <1>2, <1>4, <1>7, <1>8, <1>10, TablesMovedStep

LEMMA StepRenewReturns ==
    ASSUME SessionInv, NEW s \in Sessions, RenewReturns(s)
    PROVE  StepOf(s)
<1> DEFINE x == sess[s]
           y == [x EXCEPT !.renewer = "on"]
<1>1. /\ x \in Session /\ Course(s) /\ Knows(s) /\ x.renewer = "busy"
      /\ UNCHANGED <<claimed, month>> /\ claimed \subseteq Refs
      /\ Becomes(s, y) /\ sess'[s] = y
  BY Mover DEF RenewReturns
<1>2. x.reserved /\ x.phase \in Renewed /\ x.ref \in Refs
  BY <1>1 DEF Course, Renewed
<1>3. y \in Session
  BY <1>1 DEF Session
<1>4. Continues(s) /\ Course(s)'
  BY <1>1, <1>2 DEF Continues, Course, Session, Renewed
<1>5. CASE TablesKept
  <2>1. Knows(s)'
    BY <1>1, <1>5 DEF Knows, Session, TablesKept, billingVars
  <2> QED BY <1>1, <1>3, <1>4, <1>5, <2>1, TablesKeptStep
<1>6. CASE RenewUsageBalanceReservation(x.ref)
  <2>1. BillingNext
    BY <1>2, <1>6 DEF BillingNext, Holding
  <2>2. \A q \in Refs : resv'[q].status = resv[q].status
    BY <1>6 DEF RenewUsageBalanceReservation, SessionInv, TypeOK, Hold
  <2>3. ledger' = ledger
    BY <1>6 DEF RenewUsageBalanceReservation
  <2>4. \A q \in Refs : HoldMovedBy(q, s) /\ BilledBy(q, s)
    BY <2>2, <2>3 DEF HoldMovedBy, BilledBy
  <2>5. resv'[x.ref].status # "released"
    BY <1>2, <2>2, NotReleased DEF Renewed, Final
  <2>6. /\ y.ref = x.ref /\ y.reserved = x.reserved /\ y.quota = x.quota
        /\ y.startedIn = x.startedIn /\ y.need = x.need /\ y.phase = x.phase
    BY <1>1 DEF Session
  <2>7. y.phase \notin {"annotating", "done"}
    BY <1>2, <2>6 DEF Renewed
  <2> HIDE DEF y
  <2>8. Knows(s)'
    BY <1>1, <2>1, <2>5, <2>6, <2>7, KnowsOn
  <2> QED BY <1>1, <1>3, <1>4, <2>1, <2>4, <2>8, TablesMovedStep
<1> QED BY <1>5, <1>6 DEF RenewReturns

LEMMA StepRelease ==
    ASSUME SessionInv, NEW s \in Sessions, Release(s)
    PROVE  StepOf(s)
<1> DEFINE x == sess[s]
<1>0. PICK phase \in {"done", "failed"} : MovesTo(s, phase)
  BY DEF Release
<1> DEFINE y == [x EXCEPT !.phase = phase]
<1>1. /\ x \in Session /\ Course(s) /\ Knows(s) /\ x.phase = "releasing" /\ x.ref \in Refs
      /\ UNCHANGED <<claimed, month>> /\ claimed \subseteq Refs
      /\ Becomes(s, y) /\ sess'[s] = y /\ ~ x.billable
  BY <1>0, Mover DEF Release, MovesTo, Course
<1>2. /\ y \in Session /\ y.phase \in Final
      /\ y.ref = x.ref /\ y.reserved = x.reserved /\ y.quota = x.quota /\ y.mode = x.mode
      /\ y.startedIn = x.startedIn /\ y.need = x.need /\ y.called = x.called
      /\ y.billable = x.billable /\ y.charge = x.charge /\ y.renewer = x.renewer
  BY <1>0, <1>1 DEF Session, Phases, Final
<1>3. y.phase \in {"done", "failed"} /\ x.renewer = "off"
  BY <1>0, <1>1 DEF Session, Course, Renewed
<1> HIDE DEF y
<1>4. Continues(s) /\ Course(s)'
  BY <1>1, <1>2, <1>3 DEF Continues, Course, Renewed
<1>5. CASE TablesKept
  <2>1. [BillingNext]_billingVars
    BY <1>5 DEF TablesKept, billingVars
  <2>2. Knows(s)'
    BY <1>1, <1>2, <1>3, <2>1, KnowsOn
  <2> QED BY <1>1, <1>2, <1>4, <1>5, <2>2, TablesKeptStep
<1>6. CASE x.reserved /\ ReleaseUsageBalanceReservation(x.ref)
  <2>1. BillingNext
    BY <1>1, <1>6 DEF BillingNext, Holding
  <2>2. resv' = [resv EXCEPT ![x.ref].status = "released"] /\ ledger' = ledger
    BY <1>6 DEF ReleaseUsageBalanceReservation
  <2>3. \A q \in Refs : q # x.ref => resv'[q].status = resv[q].status
    BY <2>2 DEF SessionInv, TypeOK, Hold
  <2>4. resv'[x.ref].status = "released"
    BY <1>1, <2>2 DEF SessionInv, TypeOK, Hold
  <2>5. \A q \in Refs : HoldMovedBy(q, s) /\ BilledBy(q, s)
    BY <1>1, <1>2, <1>6, <2>2, <2>3, <2>4 DEF HoldMovedBy, BilledBy
  <2>6. Knows(s)'
    BY <1>1, <1>2, <1>3, <2>1, KnowsOn
  <2> QED BY <1>1, <1>2, <1>4, <2>1, <2>5, <2>6, TablesMovedStep
<1> QED BY <1>5, <1>6 DEF Release

LEMMA StepMark ==
    ASSUME SessionInv, NEW s \in Sessions, Mark(s)
    PROVE  StepOf(s)
<1> DEFINE x == sess[s]
           y == [x EXCEPT !.phase = "failed"]
<1>1. /\ x \in Session /\ Course(s) /\ Knows(s) /\ x.phase = "marking" /\ x.ref \in Refs
      /\ UNCHANGED <<claimed, month>> /\ claimed \subseteq Refs
      /\ Becomes(s, y) /\ sess'[s] = y /\ x.billable /\ x.reserved /\ x.renewer = "off"
  BY Mover DEF Mark, MovesTo, Course, Renewed, Session
<1>2. /\ y \in Session /\ y.phase = "failed"
      /\ y.ref = x.ref /\ y.reserved = x.reserved /\ y.quota = x.quota /\ y.mode = x.mode
      /\ y.startedIn = x.startedIn /\ y.need = x.need /\ y.called = x.called
      /\ y.billable = x.billable /\ y.charge = x.charge /\ y.renewer = x.renewer
  BY <1>1 DEF Session, Phases, Final
<1> HIDE DEF y
<1>3. Continues(s) /\ Course(s)'
  BY <1>1, <1>2 DEF Continues, Course, Renewed
<1>4. resv[x.ref].status \notin {"none", "released"}
  BY <1>1, NotReleased DEF Final
<1>5. CASE TablesKept
  <2>1. [BillingNext]_billingVars /\ resv' = resv
    BY <1>5 DEF TablesKept, billingVars
  <2>2. Knows(s)'
    BY <1>1, <1>2, <1>4, <2>1, KnowsOn
  <2> QED BY <1>1, <1>2, <1>3, <1>5, <2>2, TablesKeptStep
<1>6. CASE MarkUsageReservationReconciliationRequired(x.ref)
  <2>1. BillingNext
    BY <1>1, <1>6 DEF BillingNext, Holding
  <2>2. resv' = [resv EXCEPT ![x.ref].status = "reconciliation"] /\ ledger' = ledger
    BY <1>6 DEF MarkUsageReservationReconciliationRequired
  <2>3. \A q \in Refs : q # x.ref => resv'[q].status = resv[q].status
    BY <2>2 DEF SessionInv, TypeOK, Hold
  <2>4. resv'[x.ref].status = "reconciliation"
    BY <1>1, <2>2 DEF SessionInv, TypeOK, Hold
  <2>5. \A q \in Refs : HoldMovedBy(q, s) /\ BilledBy(q, s)
    BY <1>1, <1>2, <2>2, <2>3 DEF HoldMovedBy, BilledBy
  <2>6. Knows(s)'
    BY <1>1, <1>2, <2>1, <2>4, KnowsOn
  <2> QED BY <1>1, <1>2, <1>3, <2>1, <2>5, <2>6, TablesMovedStep
<1> QED BY <1>5, <1>6 DEF Mark

\* The settlement of a session is one of the tables, bills what the session ran,
\* and touches no other row.
LEMMA RecordsItsRun ==
    ASSUME SessionInv, NEW s \in Sessions, sess[s].phase = "settling", RecordUsage(s)
    PROVE  /\ Settling(sess[s].ref)
           /\ \E row : /\ ledger' = [ledger EXCEPT ![sess[s].ref] = row]
                       /\ row.present /\ row.billed = sess[s].charge
           /\ resv' = IF sess[s].reserved /\ sess[s].mode # "self"
                      THEN [resv EXCEPT ![sess[s].ref].status = "settled"] ELSE resv
<1> DEFINE x  == sess[s]
           r  == x.ref
           at == x.startedIn
<1>1. /\ x \in Session /\ Course(s) /\ r \in Refs /\ at \in Periods /\ x.billable
      /\ x.mode \in Modes \cup {"self"} /\ x.reserved \in BOOLEAN
      /\ x.charge \in IF x.mode = "self" THEN {0} ELSE Charges
  BY Mover DEF Course, Session
<1>2. CASE x.mode = "self"
  <2>1. AddUsage(r, at)
    BY <1>2 DEF RecordUsage
  <2>2. Settling(r)
    BY <1>1, <2>1 DEF Settling
  <2> DEFINE row == [present |-> TRUE, billed |-> 0, billingAt |-> at,
                     creditPeriod |-> 0, covered |-> 0, charged |-> 0]
  <2>3. ledger' = [ledger EXCEPT ![r] = row] /\ resv' = resv
    BY <2>1 DEF AddUsage
  <2>4. row.present /\ row.billed = x.charge
    BY <1>1, <1>2
  <2> HIDE DEF row
  <2> QED BY <1>2, <2>2, <2>3, <2>4
<1>3. CASE x.mode = "usage"
  <2>1. AddUsageAndSettleBalance(r, x.reserved, x.charge, at)
    BY <1>3 DEF RecordUsage
  <2>2. x.charge \in Charges
    BY <1>1, <1>3
  <2>3. Settling(r)
    BY <1>1, <2>1, <2>2 DEF Settling
  <2> DEFINE row == [present |-> TRUE, billed |-> x.charge, billingAt |-> at,
                     creditPeriod |-> 0, covered |-> 0, charged |-> x.charge]
  <2>4. ledger' = [ledger EXCEPT ![r] = row] /\ SettleReservation(r, x.reserved)
    BY <2>1 DEF AddUsageAndSettleBalance
  <2>5. row.present /\ row.billed = x.charge
    OBVIOUS
  <2> HIDE DEF row
  <2> QED BY <1>3, <2>3, <2>4, <2>5 DEF SettleReservation
<1>4. CASE x.mode = "period"
  <2>1. PICK p \in Periods, limit \in Credits :
          AddPeriodUsageAndSettleOverage(r, x.reserved, x.charge, at, p, limit)
    <3>1. CASE x.reserved
      <4>1. AddPeriodUsageAndSettleOverage(r, TRUE, x.charge, at, resv[r].period, resv[r].periodLimit)
        BY <1>4, <3>1 DEF RecordUsage
      <4>2. resv[r].mode = "period"
        BY <4>1 DEF AddPeriodUsageAndSettleOverage, MatchesPeriodReservation
      <4>3. resv[r].period \in Periods /\ resv[r].periodLimit \in Credits
        BY <1>1, <4>2 DEF SessionInv, HoldTerms
      <4> QED BY <1>1, <3>1, <4>1, <4>3
    <3>2. CASE ~ x.reserved
      <4>1. PICK limit \in Credits :
              AddPeriodUsageAndSettleOverage(r, FALSE, x.charge, at, at, limit)
        BY <1>4, <3>2 DEF RecordUsage
      <4>2. x.reserved = FALSE
        BY <1>1, <3>2
      <4> QED BY <1>1, <4>1, <4>2
    <3> QED BY <3>1, <3>2
  <2>2. x.charge \in Charges
    BY <1>1, <1>4
  <2>3. Settling(r)
    BY <1>1, <2>1, <2>2 DEF Settling
  <2> DEFINE covered == CoveredByCredit(r, x.reserved, x.charge, p, limit)
             row == [present |-> TRUE, billed |-> x.charge, billingAt |-> at,
                     creditPeriod |-> p, covered |-> covered, charged |-> x.charge - covered]
  <2>4. ledger' = [ledger EXCEPT ![r] = row] /\ SettleReservation(r, x.reserved)
    BY <2>1 DEF AddPeriodUsageAndSettleOverage
  <2>5. row.present /\ row.billed = x.charge
    OBVIOUS
  <2> HIDE DEF row
  <2> QED BY <1>4, <2>3, <2>4, <2>5 DEF SettleReservation
<1> QED BY <1>1, <1>2, <1>3, <1>4 DEF Modes

\* A settlement that was committed by an earlier attempt has its row.
LEMMA ReplayedIsBilled ==
    ASSUME SessionInv, NEW s \in Sessions, sess[s].ref \in Refs,
           Replayed(sess[s].ref, sess[s].reserved)
    PROVE  ledger[sess[s].ref].present
BY DEF SessionInv, SettledHoldIsBilled, Replayed

\* What a failed attempt leaves of the session.
LEMMA AttemptTyped ==
    ASSUME SessionInv, NEW s \in Sessions, sess[s].phase = "settling", AttemptFails(s)
    PROVE  \E y \in Session :
               /\ Becomes(s, y)
               /\ y.phase \in {"settling", "failed"} \/ (y.phase = "marking" /\ y.reserved)
               /\ y.ref = sess[s].ref /\ y.reserved = sess[s].reserved
               /\ y.quota = sess[s].quota /\ y.mode = sess[s].mode
               /\ y.startedIn = sess[s].startedIn /\ y.need = sess[s].need
               /\ y.called = sess[s].called /\ y.billable = sess[s].billable
               /\ y.charge = sess[s].charge /\ y.renewer = sess[s].renewer
<1> DEFINE x == sess[s]
<1>1. x \in Session
  BY Mover
<1>2. CASE x.attempts + 1 < MaxAttempts /\ Becomes(s, [x EXCEPT !.attempts = @ + 1])
  <2> DEFINE n == x.attempts + 1
             y == [x EXCEPT !.attempts = n]
  <2>1. n \in 0 .. MaxAttempts - 1
    BY <1>1, <1>2, AttemptsAssumption DEF Session
  <2> HIDE DEF n
  <2>2. y \in Session /\ y.phase = x.phase /\ y.ref = x.ref /\ y.reserved = x.reserved
        /\ y.quota = x.quota /\ y.mode = x.mode /\ y.startedIn = x.startedIn
        /\ y.need = x.need /\ y.called = x.called /\ y.billable = x.billable
        /\ y.charge = x.charge /\ y.renewer = x.renewer
    BY <1>1, <2>1 DEF Session
  <2>3. Becomes(s, y)
    BY <1>2 DEF n
  <2> HIDE DEF y
  <2> QED BY <2>2, <2>3
<1>3. CASE SettlementFails(s)
  <2> DEFINE phase == IF x.reserved THEN "marking" ELSE "failed"
             y == [x EXCEPT !.attempts = 0, !.phase = phase]
  <2>1. 0 \in 0 .. MaxAttempts - 1
    BY AttemptsAssumption
  <2>2. phase \in Phases
    BY DEF Phases, Final
  <2>3. Becomes(s, y)
    BY <1>3 DEF SettlementFails
  <2>4. phase = "failed" \/ (phase = "marking" /\ x.reserved)
    OBVIOUS
  <2> HIDE DEF phase
  <2>5. y \in Session /\ y.phase = phase /\ y.ref = x.ref /\ y.reserved = x.reserved
        /\ y.quota = x.quota /\ y.mode = x.mode /\ y.startedIn = x.startedIn
        /\ y.need = x.need /\ y.called = x.called /\ y.billable = x.billable
        /\ y.charge = x.charge /\ y.renewer = x.renewer
    BY <1>1, <2>1, <2>2 DEF Session
  <2> HIDE DEF y
  <2> QED BY <2>3, <2>4, <2>5
<1> QED BY <1>2, <1>3 DEF AttemptFails

LEMMA StepSettle ==
    ASSUME SessionInv, NEW s \in Sessions, Settle(s)
    PROVE  StepOf(s)
<1> DEFINE x == sess[s]
<1>1. /\ x \in Session /\ Course(s) /\ Knows(s) /\ x.phase = "settling" /\ x.ref \in Refs
      /\ UNCHANGED <<claimed, month>> /\ claimed \subseteq Refs
      /\ x.billable /\ x.called /\ x.startedIn # 0 /\ x.ref \in claimed /\ x.renewer = "off"
      /\ \A z : Becomes(s, z) => sess'[s] = z
  BY Mover DEF Settle, Course, Knows, Renewed, Session
<1>2. x.reserved => resv[x.ref].status \notin {"none", "released"}
  BY <1>1, NotReleased DEF Final
<1>3. PICK y \in Session :
        /\ Becomes(s, y)
        /\ y.phase \in {"settling", "failed", "annotating"} \/ (y.phase = "marking" /\ y.reserved)
        /\ y.ref = x.ref /\ y.reserved = x.reserved /\ y.quota = x.quota /\ y.mode = x.mode
        /\ y.startedIn = x.startedIn /\ y.need = x.need /\ y.called = x.called
        /\ y.billable = x.billable /\ y.charge = x.charge /\ y.renewer = x.renewer
        /\ y.phase = "annotating" => RecordUsage(s) \/ Replayed(x.ref, x.reserved)
        /\ RecordUsage(s) \/ TablesKept
  <2>1. CASE AttemptFails(s) /\ (RecordUsage(s) \/ TablesKept)
    <3>1. PICK y \in Session :
            /\ Becomes(s, y)
            /\ y.phase \in {"settling", "failed"} \/ (y.phase = "marking" /\ y.reserved)
            /\ y.ref = x.ref /\ y.reserved = x.reserved /\ y.quota = x.quota /\ y.mode = x.mode
            /\ y.startedIn = x.startedIn /\ y.need = x.need /\ y.called = x.called
            /\ y.billable = x.billable /\ y.charge = x.charge /\ y.renewer = x.renewer
      BY <1>1, <2>1, AttemptTyped
    <3> QED BY <2>1, <3>1
  <2>2. CASE /\ MovesTo(s, "annotating")
             /\ RecordUsage(s) \/ (Replayed(x.ref, x.reserved) /\ TablesKept)
    <3> DEFINE y == [x EXCEPT !.phase = "annotating"]
    <3>1. /\ y \in Session /\ Becomes(s, y) /\ y.phase = "annotating"
          /\ y.ref = x.ref /\ y.reserved = x.reserved /\ y.quota = x.quota /\ y.mode = x.mode
          /\ y.startedIn = x.startedIn /\ y.need = x.need /\ y.called = x.called
          /\ y.billable = x.billable /\ y.charge = x.charge /\ y.renewer = x.renewer
      BY <1>1, <2>2 DEF Session, Phases, MovesTo
    <3> HIDE DEF y
    <3> QED BY <2>2, <3>1
  <2> QED BY <2>1, <2>2 DEF Settle
<1>4. sess'[s] = y
  BY <1>1, <1>3
<1>5. Continues(s) /\ Course(s)'
  BY <1>1, <1>3, <1>4 DEF Continues, Course, Renewed
<1>6. CASE TablesKept /\ ~ RecordUsage(s)
  <2>1. [BillingNext]_billingVars /\ resv' = resv /\ ledger' = ledger
    BY <1>6 DEF TablesKept, billingVars
  <2>2. y.phase = "annotating" => ledger'[x.ref].present
    BY <1>1, <1>3, <1>6, <2>1, ReplayedIsBilled
  <2>3. Knows(s)'
    BY <1>1, <1>2, <1>3, <1>4, <2>1, <2>2, KnowsOn
  <2> QED BY <1>1, <1>3, <1>5, <1>6, <2>3, TablesKeptStep
<1>7. CASE RecordUsage(s)
  <2>1. PICK row : /\ ledger' = [ledger EXCEPT ![x.ref] = row]
                   /\ row.present /\ row.billed = x.charge
    BY <1>1, <1>7, RecordsItsRun
  <2>2. /\ Settling(x.ref)
        /\ resv' = IF x.reserved /\ x.mode # "self"
                   THEN [resv EXCEPT ![x.ref].status = "settled"] ELSE resv
    BY <1>1, <1>7, RecordsItsRun
  <2>3. BillingNext
    BY <1>1, <2>2 DEF BillingNext
  <2>4. ledger \in [Refs -> LedgerRow] /\ resv \in [Refs -> Hold]
    BY DEF SessionInv, TypeOK
  <2>5. ledger'[x.ref] = row /\ \A q \in Refs : q # x.ref => ledger'[q] = ledger[q]
    BY <1>1, <2>1, <2>4
  <2>6. \A q \in Refs : BilledBy(q, s)
    BY <1>1, <1>3, <1>4, <2>1, <2>5 DEF BilledBy
  <2>7. \A q \in Refs : resv'[q].status = resv[q].status \/ (q = x.ref /\ x.reserved)
    BY <2>2, <2>4 DEF Hold
  <2>8. \A q \in Refs : HoldMovedBy(q, s)
    BY <1>1, <1>3, <1>4, <2>7 DEF HoldMovedBy
  <2>9. x.reserved => resv'[x.ref].status # "released"
    BY <1>1, <1>2, <2>2, <2>4 DEF Hold
  <2>10. Knows(s)'
    BY <1>1, <1>3, <1>4, <2>1, <2>3, <2>5, <2>9, KnowsOn
  <2> QED BY <1>1, <1>3, <1>5, <2>3, <2>6, <2>8, <2>10, TablesMovedStep
<1> QED BY <1>3, <1>6, <1>7

\* Every step of a session has the shape.
LEMMA SessionSteps ==
    ASSUME SessionInv, NEW s \in Sessions,
           Authorize(s) \/ Run(s) \/ Renewing(s) \/ Finishing(s) \/ Leave(s)
    PROVE  StepOf(s)
<1>1. CASE Authorize(s)
  BY <1>1, StepAuthorizeFree, StepAuthorizePaid, StepAuthorizeRefused DEF Authorize
<1>2. CASE Run(s)
  BY <1>2, StepClaimRun, StepRunRefused, StepCallUpstream, StepRaiseUnanswered, StepRunEnds DEF Run
<1>3. CASE Renewing(s)
  BY <1>3, StepRenewBegins, StepRenewReturns DEF Renewing
<1>4. CASE Finishing(s)
  BY <1>4, StepFinish, StepRenewalStopped, StepRelease, StepSettle, StepMark, StepAnnotate
  DEF Finishing
<1>5. CASE Leave(s)
  BY <1>5, StepLeave
<1> QED BY <1>1, <1>2, <1>3, <1>4, <1>5

\* Neither the calendar, nor time, nor a funding of the account moves a session
\* or the status of a hold.
LEMMA IdleKeeps ==
    ASSUME SessionInv, [BillingNext]_billingVars, UNCHANGED <<sess, claimed>>, month' \in Periods,
           \A r \in Refs : resv'[r].status = resv[r].status, ledger' = ledger
    PROVE  SessionInv'
<1>1. TypeOK' /\ SettledHoldIsBilled' /\ HoldTerms'
  BY TablesKeep
<1>2. SessionTypeOK' /\ OneEach' /\ EveryBillIsOwed'
  BY DEF SessionInv, SessionTypeOK, OneEach, EveryBillIsOwed
<1>3. ASSUME NEW s \in Sessions PROVE Course(s)' /\ Knows(s)'
  <2>1. Course(s) /\ Knows(s) /\ sess'[s] = sess[s]
    BY DEF SessionInv
  <2>2. Course(s)'
    BY <2>1 DEF Course
  <2>3. sess[s].reserved => sess[s].ref \in Refs
    BY <2>1 DEF Course
  <2>4. Knows(s)'
    BY <2>1, <2>3, KnowsOn DEF Knows
  <2> QED BY <2>2, <2>4
<1>4. KeptForBillable'
  BY DEF SessionInv, KeptForBillable, Holders
<1> QED BY <1>1, <1>2, <1>3, <1>4 DEF SessionInv

\* What the environment does to the tables.
LEMMA EnvironmentSteps ==
    ASSUME SessionInv, Environment \/ UNCHANGED allVars
    PROVE  /\ [BillingNext]_billingVars /\ UNCHANGED <<sess, claimed>> /\ month' \in Periods
           /\ ledger' = ledger
           /\ \A r \in Refs : /\ resv'[r].status = resv[r].status
                              /\ resv'[r].lease <= resv[r].lease
<1>1. /\ month \in Periods /\ resv \in [Refs -> Hold]
      /\ \A r \in Refs : resv[r].lease \in Nat
  BY LimitAssumption DEF SessionInv, SessionTypeOK, TypeOK, Hold
<1>2. CASE Funding /\ UNCHANGED sessionVars
  BY <1>1, <1>2 DEF Funding, SetBillingAccountBalance, MarkPaymentOrderPaidAndCreditBalance,
     sessionVars, BillingNext
<1>3. CASE Tick /\ UNCHANGED sessionVars
  <2>1. \A r \in Refs : resv'[r] = [resv[r] EXCEPT !.lease = Shorter(resv[r].lease)]
    BY <1>3 DEF Tick
  <2>2. \A r \in Refs : resv'[r].status = resv[r].status /\ resv'[r].lease = Shorter(resv[r].lease)
    BY <1>1, <2>1 DEF Hold
  <2>3. \A r \in Refs : Shorter(resv[r].lease) <= resv[r].lease
    BY <1>1 DEF Shorter
  <2> QED BY <1>1, <1>3, <2>2, <2>3 DEF Tick, sessionVars, BillingNext
<1>4. CASE NextMonth \/ UNCHANGED allVars
  BY <1>1, <1>4 DEF NextMonth, TablesKept, allVars, billingVars, sessionVars
<1> QED BY <1>2, <1>3, <1>4 DEF Environment

LEMMA NextKeeps ==
    ASSUME SessionInv, [Next]_allVars
    PROVE  SessionInv' /\ [BillingNext]_billingVars
<1>1. ASSUME NEW s \in Sessions,
             Authorize(s) \/ Run(s) \/ Renewing(s) \/ Finishing(s) \/ Leave(s)
      PROVE  SessionInv' /\ [BillingNext]_billingVars
  <2>1. StepOf(s)
    BY <1>1, SessionSteps
  <2> QED BY <2>1, StepKeeps DEF StepOf
<1>2. CASE Environment \/ UNCHANGED allVars
  BY <1>2, EnvironmentSteps, IdleKeeps
<1> QED BY <1>1, <1>2 DEF Next

LEMMA InitKeeps == Init => SessionInv
<1> SUFFICES ASSUME Init PROVE SessionInv
  OBVIOUS
<1>1. BillingInit /\ sess = [s \in Sessions |-> NewSession] /\ claimed = {} /\ month = 1
  BY DEF Init
<1>2. TypeOK /\ resv = [r \in Refs |-> NoHold] /\ ledger = [r \in Refs |-> NoRow]
  BY <1>1, InitTypeOK DEF BillingInit
<1>3. SettledHoldIsBilled /\ HoldTerms /\ KeptForBillable /\ EveryBillIsOwed
  BY <1>2 DEF SettledHoldIsBilled, HoldTerms, KeptForBillable, EveryBillIsOwed, NoHold, NoRow
<1>4. NewSession \in Session
  <2>1. 0 \in 0 .. MaxAttempts - 1
    BY AttemptsAssumption
  <2> QED BY <2>1 DEF NewSession, Session, Phases
<1>5. SessionTypeOK
  BY <1>1, <1>4, CalendarAssumption DEF SessionTypeOK
<1>6. \A s \in Sessions : Course(s) /\ Knows(s)
  BY <1>1 DEF NewSession, Course, Knows
<1>7. OneEach
  BY <1>1 DEF OneEach, NewSession
<1> QED BY <1>2, <1>3, <1>5, <1>6, <1>7 DEF SessionInv

-----------------------------------------------------------------------------
(***************************************************************************)
(* Theorems.                                                               *)
(***************************************************************************)

\* The sessions and what they know of the tables stay in step, whoever crashes,
\* retries or is not answered.
THEOREM SessionInvariant == Spec => []SessionInv
<1>1. SessionInv /\ [Next]_allVars => SessionInv'
  BY NextKeeps
<1> QED BY InitKeeps, <1>1, PTL DEF Spec

\* The fields of the sessions keep their types.
THEOREM SessionTypesAreKept == Spec => []SessionTypeOK
<1>1. SessionInv => SessionTypeOK
  BY DEF SessionInv
<1> QED BY <1>1, SessionInvariant, PTL

\* Sessions change the tables only by the repository's transactions.
THEOREM TablesAreImplemented == Spec => ImplementsTables
<1>1. Init => BillingInit
  BY DEF Init
<1>2. SessionInv /\ [Next]_allVars => [BillingNext]_billingVars
  BY NextKeeps
<1> QED BY <1>1, <1>2, SessionInvariant, PTL DEF Spec, ImplementsTables, BillingSpec

\* So whatever the tables promise to every caller, they promise to sessions: the
\* books balance, no credit is oversold, no budget granted twice, holds keep
\* their lifecycle, and the account is that of UsageAccounting.
THEOREM SessionsKeepTheBooks ==
    Spec => /\ []BooksBalance
            /\ []CreditNotOversold
            /\ HoldLifecycle
            /\ GrantsWithinBudget
            /\ ImplementsAccounting
<1>1. Spec => BillingSpec
  BY TablesAreImplemented DEF ImplementsTables
<1> QED
  BY <1>1, BooksAlwaysBalance, CreditIsNotOversold, HoldsFollowLifecycle,
     GrantsStayWithinBudget, TablesImplementAccounting

\* What is billed is what ran, and what a successful Finish reports is what is
\* billed.
THEOREM BillsAreAlwaysRight == Spec => []BillsAreRight
<1>1. SessionInv => BillsAreRight
  <2> SUFFICES ASSUME SessionInv PROVE BillsAreRight
    OBVIOUS
  <2>1. ReportedRunsAreBilled
    BY DEF SessionInv, Knows, ReportedRunsAreBilled
  <2> QED BY <2>1 DEF SessionInv, BillsAreRight
<1> QED BY <1>1, SessionInvariant, PTL

\* A hold is settled or kept only for a billable run, released only for another.
THEOREM HoldsFollowOutcomes == Spec => []HoldFollowsOutcome
<1>1. SessionInv => HoldFollowsOutcome
  <2> SUFFICES ASSUME SessionInv, NEW r \in Refs
               PROVE  /\ resv[r].status \in {"settled", "reconciliation"} =>
                             \E s \in Holders(r) : sess[s].billable
                      /\ resv[r].status = "released" => \A s \in Holders(r) : ~ sess[s].billable
    BY DEF HoldFollowsOutcome
  <2>1. resv[r].status = "released" => \A s \in Holders(r) : ~ sess[s].billable
    BY DEF SessionInv, Knows, Holders
  <2> QED BY <2>1 DEF SessionInv, KeptForBillable
<1> QED BY <1>1, SessionInvariant, PTL

\* No upstream call exceeds the hold it is made under.
THEOREM CallsStayCovered == Spec => []CallsAreCovered
<1>1. SessionInv => CallsAreCovered
  BY DEF SessionInv, Knows, CallsAreCovered, CoveredBy, Budget
<1> QED BY <1>1, SessionInvariant, PTL

\* A step extends the lease of a hold that exists only if it is the return of a
\* renewal of its holder.
LEMMA OnlyRenewalsExtend ==
    ASSUME SessionInv, NEW s \in Sessions, NEW r \in Refs, resv[r].status # "none",
           Authorize(s) \/ Run(s) \/ Renewing(s) \/ Finishing(s) \/ Leave(s)
    PROVE  \/ resv'[r].lease <= resv[r].lease
           \/ sess[s].reserved /\ sess[s].ref = r /\ sess[s].phase \in Renewed
<1>0. /\ resv \in [Refs -> Hold] /\ resv[r].lease \in Nat /\ TypeOK
      /\ sess[s] \in Session /\ Course(s)
  BY Mover, LimitAssumption DEF SessionInv, TypeOK, Hold
<1> SUFFICES resv'[r].lease = resv[r].lease
             \/ (sess[s].reserved /\ sess[s].ref = r /\ sess[s].phase \in Renewed)
  BY <1>0
<1>1. CASE TablesKept
  BY <1>1 DEF TablesKept, billingVars
<1>2. ASSUME NEW q \in Refs, NEW mode \in Modes, Reserve(q, mode)
      PROVE  resv'[r].lease = resv[r].lease
  <2>1. PICK hold \in Hold : /\ resv' = [resv EXCEPT ![q] = hold]
                             /\ hold.status = "active" /\ resv[q].status = "none"
    BY <1>2, ReserveStep
  <2> QED BY <1>0, <2>1
<1>3. ASSUME NEW q \in Refs, NEW estimate \in Estimates, RaiseUsageBalanceReservation(q, estimate)
      PROVE  resv'[r].lease = resv[r].lease
  <2>1. PICK bal \in Nat, cred \in Nat :
          /\ resv' = [resv EXCEPT ![q].balance = bal, ![q].periodCredit = cred]
          /\ bal + cred = estimate
    BY <1>0, <1>3, RaiseCovers
  <2> QED BY <1>0, <2>1 DEF Hold
<1>4. ASSUME NEW q, NEW status, resv' = [resv EXCEPT ![q].status = status]
      PROVE  resv'[r].lease = resv[r].lease
  BY <1>0, <1>4 DEF Hold
<1>5. CASE Authorize(s)
  BY <1>1, <1>2, <1>5 DEF Authorize, AuthorizeFree, AuthorizePaid, AuthorizeRefused
<1>6. CASE Run(s)
  <2>1. sess[s].phase = "running" => sess[s].ref \in Refs
    BY <1>0 DEF Course
  <2> QED BY <1>1, <1>3, <1>6, <2>1
      DEF Run, ClaimRun, RunRefused, CallUpstream, EnsureBudget, RaiseUnanswered, RunEnds
<1>7. CASE Renewing(s)
  <2>1. CASE RenewBegins(s)
    BY <1>1, <2>1 DEF RenewBegins
  <2>2. CASE RenewReturns(s)
    <3>1. sess[s].reserved /\ sess[s].phase \in Renewed
      BY <1>0, <2>2 DEF RenewReturns, Course
    <3>2. CASE RenewUsageBalanceReservation(sess[s].ref)
      BY <1>0, <3>1, <3>2 DEF RenewUsageBalanceReservation
    <3> QED BY <1>1, <2>2, <3>2 DEF RenewReturns
  <2> QED BY <1>7, <2>1, <2>2 DEF Renewing
<1>8. CASE Finishing(s)
  <2>1. CASE Release(s)
    BY <1>1, <1>4, <2>1 DEF Release, ReleaseUsageBalanceReservation
  <2>2. CASE Mark(s)
    BY <1>1, <1>4, <2>2 DEF Mark, MarkUsageReservationReconciliationRequired
  <2>3. CASE Settle(s)
    <3>1. CASE RecordUsage(s)
      <4>1. resv' = IF sess[s].reserved /\ sess[s].mode # "self"
                    THEN [resv EXCEPT ![sess[s].ref].status = "settled"] ELSE resv
        BY <2>3, <3>1, RecordsItsRun DEF Settle
      <4> QED BY <1>4, <4>1
    <3> QED BY <1>1, <2>3, <3>1 DEF Settle
  <2> QED BY <1>1, <1>8, <2>1, <2>2, <2>3 DEF Finishing, Finish, RenewalStopped, Annotate
<1>9. CASE Leave(s)
  BY <1>1, <1>9 DEF Leave
<1> QED BY <1>5, <1>6, <1>7, <1>8, <1>9

\* Once its renewal has been stopped, nobody extends the hold of a session.
THEOREM RenewalsAreStopped == Spec => NoRenewalAfterStop
<1> DEFINE Late(s) == sess[s].reserved /\ sess[s].phase \in
                          {"settling", "marking", "annotating", "releasing"} \cup Final
           Shrinks(s) == resv'[sess[s].ref].lease <= resv[sess[s].ref].lease
<1>1. SessionInv /\ [Next]_allVars => \A s \in Sessions : Late(s) => Shrinks(s)
  <2> SUFFICES ASSUME SessionInv, [Next]_allVars, NEW s \in Sessions, Late(s)
               PROVE  Shrinks(s)
    OBVIOUS
  <2>1. /\ sess[s].ref \in Refs /\ resv[sess[s].ref].status # "none"
        /\ sess[s].phase \notin Renewed /\ sess[s].reserved
    BY Mover DEF Course, Knows, Renewed, Final
  <2>2. ASSUME NEW t \in Sessions,
               Authorize(t) \/ Run(t) \/ Renewing(t) \/ Finishing(t) \/ Leave(t)
        PROVE  Shrinks(s)
    <3>1. CASE sess[t].reserved /\ sess[t].ref = sess[s].ref /\ sess[t].phase \in Renewed
      BY <2>1, <3>1 DEF SessionInv, OneEach
    <3> QED BY <2>1, <2>2, <3>1, OnlyRenewalsExtend
  <2>3. CASE Environment \/ UNCHANGED allVars
    BY <2>1, <2>3, EnvironmentSteps
  <2> QED BY <2>2, <2>3 DEF Next
<1>2. SessionInv /\ [Next]_allVars =>
        [\A s \in Sessions :
            sess[s].reserved /\ sess[s].phase \in
                {"settling", "marking", "annotating", "releasing"} \cup Final
              => resv'[sess[s].ref].lease <= resv[sess[s].ref].lease]_allVars
  BY <1>1
<1> QED BY <1>2, SessionInvariant, PTL DEF Spec, NoRenewalAfterStop

=============================================================================
