---------------------------- MODULE UsageSession ----------------------------
(***************************************************************************)
(* The billing life of model runs: HTTP requests that authorize a run,     *)
(* renew its hold while it generates, and settle or release it at the end  *)
(* (application/conversation/service_usage_session.go, service_billing.go, *)
(* application/billing/service.go and the message handlers), composed with *)
(* the tables of UsageReservation.                                         *)
(*                                                                         *)
(* Sessions interleave at every database transaction.  A call whose commit *)
(* is acknowledged, one that commits but whose answer is lost, and one     *)
(* that fails before it commits are three different steps.  A session may  *)
(* crash, or leave through a panic that runs Close only, at any point.     *)
(*                                                                         *)
(* Operators named Fault... are forms of the definition that follows them  *)
(* with one plausible mistake; the model does not use them.                *)
(***************************************************************************)
EXTENDS UsageReservation

CONSTANTS
    Sessions,     \* HTTP requests that send a message
    MaxAttempts   \* usageBillingRetryAttempts

ASSUME AttemptsAssumption == MaxAttempts \in Nat \ {0}
ASSUME CalendarAssumption == 1 \in Periods

VARIABLES
    sess,      \* the state of every session
    claimed,   \* the refs with a row in conversation_runs
    month      \* the current calendar month

sessionVars == <<sess, claimed, month>>
allVars     == <<billingVars, sessionVars>>

(***************************************************************************)
(* phase:    new, authorized (BeginUsageSession returned), running, ended  *)
(*           (the result is known), stopping, settling, marking,           *)
(*           annotating, releasing (inside Finish), and the final ones:    *)
(*           rejected  AuthorizeUsage returned an error                    *)
(*           done      Finish returned no error                            *)
(*           failed    Finish returned an error                            *)
(*           gone      crashed, or left without Finish                     *)
(* reserved: the authorization holds a reservation                         *)
(* quota:    the budget of the reservation as AuthorizeUsage returned it   *)
(* need:     the largest estimate an upstream call was made for            *)
(* renewer:  the renewal goroutine: off, on, or busy with a renewal        *)
(***************************************************************************)
Final  == {"rejected", "done", "failed", "gone"}
Phases == {"new", "authorized", "running", "ended", "stopping", "settling", "marking",
           "annotating", "releasing"} \cup Final

Session == [phase: Phases, ref: Refs \cup {"none"}, mode: Modes \cup {"none", "self"},
            reserved: BOOLEAN, quota: Nat, need: Nat, startedIn: Periods \cup {0},
            called: BOOLEAN, billable: BOOLEAN, charge: Nat, attempts: 0 .. MaxAttempts - 1,
            renewer: {"off", "on", "busy"}, shown: Nat \cup {-1}]

NewSession == [phase |-> "new", ref |-> "none", mode |-> "none", reserved |-> FALSE,
               quota |-> 0, need |-> 0, startedIn |-> 0, called |-> FALSE,
               billable |-> FALSE, charge |-> 0, attempts |-> 0, renewer |-> "off",
               shown |-> -1]

\* Session s moves to `to' in the given phase.
Becomes(s, to) == sess' = [sess EXCEPT ![s] = to]
MovesTo(s, phase) == Becomes(s, [sess[s] EXCEPT !.phase = phase])

TablesKept == UNCHANGED billingVars

-----------------------------------------------------------------------------
(***************************************************************************)
(* AuthorizeUsage.  The billing mode is a setting an administrator may     *)
(* change between any two requests, and a model may be free or priced.     *)
(***************************************************************************)

WithoutReservation(s, r, mode) ==
    [sess[s] EXCEPT !.phase = "authorized", !.ref = r, !.mode = mode]

AuthorizeFree(s, r) ==
    /\ sess[s].phase = "new"
    /\ \E mode \in Modes \cup {"self"} : Becomes(s, WithoutReservation(s, r, mode))
    /\ TablesKept
    /\ UNCHANGED <<claimed, month>>

\* A usage-mode hold is given the bounds of the month.
FaultHoldInMonth(r, mode) ==
    \E prepaid \in Prepaid, limit \in Credits :
        ReserveUsageBalance(r, mode, prepaid, month, IF mode = "usage" THEN 0 ELSE limit)

\* The period and its credit are those of the moment of the authorization.
Reserve(r, mode) ==
    \E prepaid \in Prepaid :
        IF mode = "usage" THEN ReserveUsageBalance(r, mode, prepaid, 0, 0)
        ELSE \E limit \in Credits : ReserveUsageBalance(r, mode, prepaid, month, limit)

AuthorizePaid(s, r) ==
    /\ sess[s].phase = "new"
    /\ \E mode \in Modes :
          /\ Reserve(r, mode)
          /\ \/ Becomes(s, [WithoutReservation(s, r, mode) EXCEPT
                               !.reserved = TRUE, !.renewer = "on",
                               !.quota = resv'[r].balance + resv'[r].periodCredit])
             \/ MovesTo(s, "rejected")   \* the commit's answer is lost
    /\ UNCHANGED <<claimed, month>>

\* ReserveUsageBalance, or a read before it, returned an error.
AuthorizeRefused(s) ==
    /\ sess[s].phase = "new"
    /\ MovesTo(s, "rejected")
    /\ TablesKept
    /\ UNCHANGED <<claimed, month>>

-----------------------------------------------------------------------------
(***************************************************************************)
(* The run.                                                                *)
(***************************************************************************)

\* startedAt is taken and the run claimed; the ref of another run is refused.
ClaimRun(s) ==
    /\ sess[s].phase = "authorized"
    /\ sess[s].ref \notin claimed
    /\ claimed' = claimed \cup {sess[s].ref}
    /\ Becomes(s, [sess[s] EXCEPT !.phase = "running", !.startedIn = month])
    /\ TablesKept
    /\ UNCHANGED month

\* The service drains, the claim fails or the request is invalid: the session
\* finishes with nothing to bill.
RunRefused(s) ==
    /\ sess[s].phase = "authorized"
    /\ MovesTo(s, "ended")
    /\ TablesKept
    /\ UNCHANGED <<claimed, month>>

\* The upstream is called whatever the hold covers.
FaultNoBudgetCheck(s, estimate) == TablesKept

\* The in-memory quota decides whether the hold has to grow, the table whether
\* it can; only then is the upstream called.
EnsureBudget(s, estimate) ==
    LET r == sess[s].ref
        enough == ~ sess[s].reserved \/ estimate <= sess[s].quota
    IN  \/ enough /\ TablesKept
        \/ ~ enough /\ CanRaise(r, estimate) /\ CoveredBy(r, estimate) /\ TablesKept
        \/ ~ enough /\ RaiseUsageBalanceReservation(r, estimate)

Larger(a, b) == IF a < b THEN b ELSE a

CallUpstream(s) ==
    /\ sess[s].phase = "running"
    /\ \E estimate \in Estimates :
          /\ EnsureBudget(s, estimate)
          /\ Becomes(s, [sess[s] EXCEPT !.called = TRUE, !.need = Larger(@, estimate)])
    /\ UNCHANGED <<claimed, month>>

\* What a run may end with: nothing to bill, or, once the upstream was called,
\* whatever usage was observed.
Outcomes(s) ==
    {[sess[s] EXCEPT !.phase = "ended"]} \cup
    {[sess[s] EXCEPT !.phase = "ended", !.billable = TRUE, !.charge = charge] :
        charge \in IF ~ sess[s].called THEN {} ELSE IF sess[s].mode = "self" THEN {0} ELSE Charges}

\* Success, cancellation, a refused raise or an upstream failure.
RunEnds(s) ==
    /\ sess[s].phase = "running"
    /\ \E outcome \in Outcomes(s) : Becomes(s, outcome)
    /\ TablesKept
    /\ UNCHANGED <<claimed, month>>

\* The raise commits but its answer is lost: the run ends before the call.
RaiseUnanswered(s) ==
    /\ sess[s].phase = "running"
    /\ sess[s].reserved
    /\ \E estimate \in Estimates :
          /\ estimate > sess[s].quota
          /\ RaiseUsageBalanceReservation(sess[s].ref, estimate)
    /\ \E outcome \in Outcomes(s) : Becomes(s, outcome)
    /\ UNCHANGED <<claimed, month>>

-----------------------------------------------------------------------------
(***************************************************************************)
(* The renewal goroutine.  Stopping it waits for a renewal in progress.    *)
(***************************************************************************)

RenewBegins(s) ==
    /\ sess[s].renewer = "on"
    /\ sess[s].phase # "stopping"
    /\ Becomes(s, [sess[s] EXCEPT !.renewer = "busy"])
    /\ TablesKept
    /\ UNCHANGED <<claimed, month>>

RenewReturns(s) ==
    /\ sess[s].renewer = "busy"
    /\ Becomes(s, [sess[s] EXCEPT !.renewer = "on"])
    /\ \/ RenewUsageBalanceReservation(sess[s].ref)
       \/ TablesKept
    /\ UNCHANGED <<claimed, month>>

Stoppable(s) == sess[s].renewer # "busy"

-----------------------------------------------------------------------------
(***************************************************************************)
(* Finish.                                                                 *)
(***************************************************************************)

\* markFinished, and the stop channel is closed.
Finish(s) ==
    /\ sess[s].phase = "ended"
    /\ MovesTo(s, "stopping")
    /\ TablesKept
    /\ UNCHANGED <<claimed, month>>

\* Finish does not wait for the renewal in progress.
FaultStopWithoutWaiting(s) ==
    /\ sess[s].phase = "stopping"
    /\ Becomes(s, [sess[s] EXCEPT !.renewer = IF @ = "busy" THEN @ ELSE "off", !.attempts = 0,
                      !.phase = IF sess[s].billable THEN "settling" ELSE "releasing"])
    /\ TablesKept
    /\ UNCHANGED <<claimed, month>>

\* Every run is settled, billable or not.
FaultSettleEveryRun(s) ==
    /\ sess[s].phase = "stopping"
    /\ Stoppable(s)
    /\ Becomes(s, [sess[s] EXCEPT !.renewer = "off", !.attempts = 0, !.phase = "settling"])
    /\ TablesKept
    /\ UNCHANGED <<claimed, month>>

RenewalStopped(s) ==
    /\ sess[s].phase = "stopping"
    /\ Stoppable(s)
    /\ Becomes(s, [sess[s] EXCEPT !.renewer = "off", !.attempts = 0,
                      !.phase = IF sess[s].billable THEN "settling" ELSE "releasing"])
    /\ TablesKept
    /\ UNCHANGED <<claimed, month>>

\* One attempt: it finds nothing to release, commits with or without an
\* answer, or fails.
Release(s) ==
    /\ sess[s].phase = "releasing"
    /\ \/ /\ sess[s].reserved
          /\ ReleaseUsageBalanceReservation(sess[s].ref)
          /\ \E phase \in {"done", "failed"} : MovesTo(s, phase)
       \/ /\ sess[s].reserved => resv[sess[s].ref].status # "active"
          /\ TablesKept
          /\ MovesTo(s, "done")
       \/ /\ sess[s].reserved
          /\ TablesKept
          /\ MovesTo(s, "failed")
    /\ UNCHANGED <<claimed, month>>

\* RecordUsageWithAuthorization: the settlement the authorization calls for.
RecordUsage(s) ==
    LET r  == sess[s].ref
        at == sess[s].startedIn
    IN  CASE sess[s].mode = "self"  -> AddUsage(r, at)
          [] sess[s].mode = "usage" ->
                AddUsageAndSettleBalance(r, sess[s].reserved, sess[s].charge, at)
          [] OTHER ->
                IF sess[s].reserved
                THEN AddPeriodUsageAndSettleOverage(r, TRUE, sess[s].charge, at,
                         resv[r].period, resv[r].periodLimit)
                ELSE \E limit \in Credits :
                         AddPeriodUsageAndSettleOverage(r, FALSE, sess[s].charge, at, at, limit)

\* A failed settlement gives the hold back.
FaultReleaseOnFailure(s) ==
    Becomes(s, [sess[s] EXCEPT !.attempts = 0,
                   !.phase = IF sess[s].reserved THEN "releasing" ELSE "failed"])

\* A settlement that cannot succeed is not retried, any other failure is until
\* the attempts or the 10 seconds of the settlement run out.
SettlementFails(s) ==
    Becomes(s, [sess[s] EXCEPT !.attempts = 0,
                   !.phase = IF sess[s].reserved THEN "marking" ELSE "failed"])

\* One attempt too many.
FaultExtraAttempt(s) ==
    \/ sess[s].attempts < MaxAttempts
          /\ Becomes(s, [sess[s] EXCEPT !.attempts = @ + 1])
    \/ SettlementFails(s)

\* The error of the last attempt is dropped.
FaultErrorDropped(s) ==
    IF sess[s].attempts + 1 < MaxAttempts
    THEN Becomes(s, [sess[s] EXCEPT !.attempts = @ + 1])
    ELSE MovesTo(s, "annotating")

\* The attempts are not limited.
FaultRetryForEver(s) ==
    Becomes(s, [sess[s] EXCEPT !.attempts = (@ + 1) % MaxAttempts])

AttemptFails(s) ==
    \/ sess[s].attempts + 1 < MaxAttempts
          /\ Becomes(s, [sess[s] EXCEPT !.attempts = @ + 1])
    \/ SettlementFails(s)

Settle(s) ==
    /\ sess[s].phase = "settling"
    /\ \/ /\ RecordUsage(s)
          /\ MovesTo(s, "annotating") \/ AttemptFails(s)
       \/ /\ Replayed(sess[s].ref, sess[s].reserved)
          /\ TablesKept
          /\ MovesTo(s, "annotating")
       \/ TablesKept /\ AttemptFails(s)
    /\ UNCHANGED <<claimed, month>>

\* The mark shares the settlement's deadline, so it may fail before its first
\* attempt as well as after its last.
Mark(s) ==
    /\ sess[s].phase = "marking"
    /\ \/ /\ MarkUsageReservationReconciliationRequired(sess[s].ref)
          /\ MovesTo(s, "failed")
       \/ /\ TablesKept
          /\ MovesTo(s, "failed")
    /\ UNCHANGED <<claimed, month>>

\* UpdateMessageBilling writes the billed amount of the ledger row to the message.
Annotate(s) ==
    /\ sess[s].phase = "annotating"
    /\ \/ Becomes(s, [sess[s] EXCEPT !.phase = "done", !.shown = ledger[sess[s].ref].billed])
       \/ MovesTo(s, "failed")
    /\ TablesKept
    /\ UNCHANGED <<claimed, month>>

\* A handler that panics does not stop its renewal.
FaultLeaveRenewing(s) ==
    /\ sess[s].phase \notin Final \cup {"new"}
    /\ MovesTo(s, "gone")
    /\ TablesKept
    /\ UNCHANGED <<claimed, month>>

\* The process crashes, or the handler panics and only Close runs.
Leave(s) ==
    /\ sess[s].phase \notin Final \cup {"new"}
    /\ Stoppable(s)
    /\ Becomes(s, [sess[s] EXCEPT !.phase = "gone", !.renewer = "off"])
    /\ TablesKept
    /\ UNCHANGED <<claimed, month>>

-----------------------------------------------------------------------------
NextMonth ==
    /\ month + 1 \in Periods
    /\ month' = month + 1
    /\ TablesKept
    /\ UNCHANGED <<sess, claimed>>

Environment ==
    \/ (Funding \/ Tick) /\ UNCHANGED sessionVars
    \/ NextMonth

Init ==
    /\ BillingInit
    /\ sess = [s \in Sessions |-> NewSession]
    /\ claimed = {}
    /\ month = 1

Authorize(s) ==
    \/ \E r \in Refs : AuthorizeFree(s, r) \/ AuthorizePaid(s, r)
    \/ AuthorizeRefused(s)

Run(s) == ClaimRun(s) \/ RunRefused(s) \/ CallUpstream(s) \/ RaiseUnanswered(s) \/ RunEnds(s)

Finishing(s) == Finish(s) \/ RenewalStopped(s) \/ Release(s) \/ Settle(s) \/ Mark(s) \/ Annotate(s)

Renewing(s) == RenewBegins(s) \/ RenewReturns(s)

Next ==
    \/ \E s \in Sessions : Authorize(s) \/ Run(s) \/ Renewing(s) \/ Finishing(s) \/ Leave(s)
    \/ Environment

(***************************************************************************)
(* The handler keeps going: every database call of Finish has a timeout, a *)
(* run is cut off after the ownership window, a renewal after 5 seconds.   *)
(* Nothing makes a client send a request, a renewal come or a process      *)
(* crash.  Time passes.                                                    *)
(***************************************************************************)
Fairness ==
    /\ \A s \in Sessions :
          /\ WF_allVars(ClaimRun(s) \/ RunRefused(s))
          /\ WF_allVars(RunEnds(s))
          /\ WF_allVars(RenewReturns(s))
          /\ WF_allVars(Finishing(s))
    /\ WF_allVars(Tick /\ UNCHANGED sessionVars)

Spec == Init /\ [][Next]_allVars
FairSpec == Spec /\ Fairness

-----------------------------------------------------------------------------
(***************************************************************************)
(* Properties.                                                             *)
(***************************************************************************)

\* The fields of the sessions, the claims and the calendar keep their types.
SessionTypeOK ==
    /\ sess \in [Sessions -> Session]
    /\ claimed \subseteq Refs
    /\ month \in Periods

\* Sessions only ever change the tables through the transactions of the
\* repository, whatever crashes or goes unanswered.
ImplementsTables == BillingSpec

\* Nobody is billed for a run that did not happen or twice the cost of one that
\* did: every ledger row is the cost of a run that claimed its ref, called the
\* upstream and ended billable (RecordSendMessageBilling).
EveryBillIsOwed ==
    \A r \in Refs : ledger[r].present =>
        \E s \in Sessions :
            /\ sess[s].ref = r /\ r \in claimed
            /\ sess[s].called /\ sess[s].billable
            /\ ledger[r].billed = sess[s].charge

\* A Finish that reported success has billed its run and shown the user the
\* amount of the bill, also when the amount was restored from an earlier,
\* unanswered attempt.
ReportedRunsAreBilled ==
    \A s \in Sessions : sess[s].phase = "done" /\ sess[s].billable =>
        /\ ledger[sess[s].ref].present
        /\ sess[s].shown = sess[s].charge

\* What is billed is what ran, and what is reported is what is billed.
BillsAreRight == EveryBillIsOwed /\ ReportedRunsAreBilled

\* The hold of a run follows its outcome: settled or kept for reconciliation only
\* if the run was billable, released only if it was not.
Holders(r) == {s \in Sessions : sess[s].ref = r /\ sess[s].reserved}

HoldFollowsOutcome ==
    \A r \in Refs :
        /\ resv[r].status \in {"settled", "reconciliation"} =>
               \E s \in Holders(r) : sess[s].billable
        /\ resv[r].status = "released" => \A s \in Holders(r) : ~ sess[s].billable

\* A paid upstream call is made only with a hold of at least its estimate
\* (EnsureUsageAuthorizationBudget decides from a snapshot of the hold).
CallsAreCovered ==
    \A s \in Sessions : sess[s].reserved /\ sess[s].called =>
        CoveredBy(sess[s].ref, sess[s].need)

\* Settlement and renewal never rewrite the same hold concurrently
\* (startUsageAuthorizationRenewal): once renewal has been stopped, nothing
\* extends the lease.
NoRenewalAfterStop ==
    [][\A s \in Sessions :
          sess[s].reserved /\ sess[s].phase \in {"settling", "marking", "annotating", "releasing"} \cup Final
              => resv'[sess[s].ref].lease <= resv[sess[s].ref].lease]_allVars

\* A session that has begun comes to an end.
SessionsEnd ==
    \A s \in Sessions : (sess[s].phase # "new") ~> (sess[s].phase \in Final)

\* No hold blocks a slot for ever by being renewed: it is settled, released,
\* kept for reconciliation, or lapses, also when nobody knows it exists.
HoldsAreLetGo == \A r \in Refs : Leased(r) ~> ~ Leased(r)

-----------------------------------------------------------------------------
(***************************************************************************)
(* What comments of the code say and the code does not keep.               *)
(***************************************************************************)

\* repository.go, AddPeriodUsageAndSettleOverage: the account lock makes sure
\* that concurrent requests of a user recompute the used credit in commit order,
\* so a month's credit covers at most what a plan grants.
CoveredByMonth(p) ==
    Total([r \in Refs |-> ledger[r].covered], {r \in Refs : ledger[r].creditPeriod = p})

CreditOfMonthNotOversold ==
    \A p \in Periods : CoveredByMonth(p) > 0 => \E limit \in Credits : CoveredByMonth(p) <= limit

\* repository.go, AddPeriodUsageAndSettleOverage: the balance pays the part beyond
\* the plan's credit.  So once nothing is held, a month whose runs together cost
\* no more than the credit has not touched the balance.
OnlyOverageIsCharged ==
    \A p \in Periods :
        LiveHolds = {} /\ (\A limit \in Credits : BilledIn(p) <= limit) =>
            \A r \in Refs : ledger[r].creditPeriod = p /\ ledger[r].billingAt = p => ledger[r].charged = 0

\* service_usage_session.go, Finish: a settlement that fails with a reservation is
\* marked for reconciliation as well.
FailedSettlementIsMarked ==
    \A s \in Sessions :
        sess[s].phase = "failed" /\ sess[s].reserved /\ sess[s].billable =>
            resv[sess[s].ref].status \in {"settled", "reconciliation"}

=============================================================================
