--------------------------- MODULE GenerationLease ---------------------------
(***************************************************************************)
(* Who may generate: the lease of one run's stream in the shared store     *)
(* (infra/cache/redis, one Lua script per operation) and the registries of *)
(* the servers that use it (application/conversation/generation_stream.go).*)
(*                                                                         *)
(* An execution is one request that registers for the run.  Requests with  *)
(* the run's id may reach any server at any time.  Calls to the store can  *)
(* commit and be answered, commit without an answer, or fail.  Servers may *)
(* be closed or crash; a restarted server is another member of Servers.    *)
(*                                                                         *)
(* Time is counted in renewal intervals (10 seconds): LeaseTTL = 3,        *)
(* Retention = 90 and OwnerTTL = 720 in the code.  Operators named Fault...*)
(* are mistaken forms of the definition that follows them; the model does  *)
(* not use them.                                                           *)
(***************************************************************************)
EXTENDS Integers, FiniteSets

CONSTANTS
    Executions,   \* requests that register for the run
    Servers,      \* server processes
    LeaseTTL,     \* generationStreamLeaseTTL
    Retention,    \* generationStreamRetention
    OwnerTTL,     \* generationStreamActiveTTL
    Stoppable,    \* bound: servers that may be closed
    Cancelling,   \* bound: servers that may be asked to cancel the run
    Publishing,   \* bound: executions that publish events
    None          \* no execution

ASSUME NoneAssumption == None \notin Executions
ASSUME BoundAssumption == /\ Stoppable \subseteq Servers /\ Cancelling \subseteq Servers
                          /\ Publishing \subseteq Executions
ASSUME TTLAssumption  == /\ LeaseTTL \in Nat \ {0} /\ Retention \in Nat \ {0}
                         /\ OwnerTTL \in Nat /\ OwnerTTL >= LeaseTTL /\ OwnerTTL >= Retention

VARIABLES
    store,   \* the keys of the run in the shared store
    ex,      \* each execution: its request, its worker, what it knows
    sv,      \* each server: its table entry for the run, its shutdown
    pend     \* executions whose completion is retried in the background

vars == <<store, ex, sv, pend>>

(***************************************************************************)
(* exec is the value of the active key and lease its time to live; owner   *)
(* that of the owner and conversation keys, which are always set together; *)
(* cancel that of the cancellation; authors are the executions with events *)
(* in the retained window and kept its time to live.                       *)
(***************************************************************************)
Store == [exec: Executions \cup {None}, lease: 0 .. LeaseTTL, owner: 0 .. OwnerTTL,
          cancel: 0 .. Retention, authors: SUBSET Executions, kept: 0 .. OwnerTTL]

NoKeys == [exec |-> None, lease |-> 0, owner |-> 0, cancel |-> 0, authors |-> {}, kept |-> 0]

(***************************************************************************)
(* phase:  idle, acquired (lifecycle context), claiming, claimed,          *)
(*         abandoning, registered (in the table), executing (register      *)
(*         returned), finishing, stopping, completing (inside finish),     *)
(*         over, gone (its server crashed)                                 *)
(* worker: none, idle, due (the ticker fired), yes / no / error (the       *)
(*         answer of a renewal under way), finalizing, done                *)
(* valid:  leaseValidUntil; slow: a call under way has lasted an interval  *)
(***************************************************************************)
Phases  == {"idle", "acquired", "claiming", "claimed", "abandoning", "registered", "executing",
            "finishing", "stopping", "completing", "over", "gone"}
Answers == {"yes", "no", "error"}
Workers == {"none", "idle", "due", "finalizing", "done"} \cup Answers

Execution == [phase: Phases, server: Servers \cup {None}, cancelled: BOOLEAN,
              worker: Workers, stop: BOOLEAN, valid: 0 .. LeaseTTL, slow: BOOLEAN]

NewExecution == [phase |-> "idle", server |-> None, cancelled |-> FALSE,
                 worker |-> "none", stop |-> FALSE, valid |-> 0, slow |-> FALSE]

\* closing, draining, orphans and waiting are the stages of close().
Server == [phase: {"open", "closing", "draining", "orphans", "waiting", "closed", "crashed"},
           active: Executions \cup {None}, snap: Executions \cup {None}]

NewServer == [phase |-> "open", active |-> None, snap |-> None]

Init ==
    /\ store = NoKeys
    /\ ex = [e \in Executions |-> NewExecution]
    /\ sv = [s \in Servers |-> NewServer]
    /\ pend = {}

Home(e) == ex[e].server
InTable(e) == Home(e) \in Servers /\ sv[Home(e)].active = e
Enters(e, phase) == ex' = [ex EXCEPT ![e].phase = phase]

\* register returns an error, which cancels the request's context.
Fails(e) == ex' = [ex EXCEPT ![e].phase = "finishing", ![e].cancelled = TRUE]

-----------------------------------------------------------------------------
(***************************************************************************)
(* The scripts of the store.                                               *)
(***************************************************************************)

CanClaim(e) == store.exec = e \/ (store.exec = None /\ store.owner = 0)

\* The retained window of the previous owner is kept.
FaultClaimKeepsEvents(e) ==
    [store EXCEPT !.exec = e, !.lease = LeaseTTL, !.owner = OwnerTTL, !.cancel = 0]

Claimed(e) ==
    IF store.exec = e THEN [store EXCEPT !.lease = LeaseTTL, !.owner = OwnerTTL]
    ELSE [NoKeys EXCEPT !.exec = e, !.lease = LeaseTTL, !.owner = OwnerTTL]

Renewed(e) == [store EXCEPT !.lease = LeaseTTL, !.owner = OwnerTTL]

CanComplete(e) == store.owner > 0 /\ store.exec \in {None, e}

Shortened(ttl) == IF ttl > 0 THEN Retention ELSE 0

\* A completion is accepted whoever holds the lease.
FaultCompleteAnyExecution(e) ==
    IF store.owner = 0 THEN store
    ELSE [store EXCEPT !.exec = None, !.lease = 0, !.owner = Retention,
                       !.cancel = Shortened(@), !.kept = Shortened(@)]

Completed(e) ==
    IF ~ CanComplete(e) THEN store
    ELSE [store EXCEPT !.exec = None, !.lease = 0, !.owner = Retention,
                       !.cancel = Shortened(@), !.kept = Shortened(@)]

Abandoned(e) == IF store.exec = e THEN NoKeys ELSE store

Appended(e) ==
    [store EXCEPT !.authors = @ \cup {e}, !.kept = IF store.authors = {} THEN OwnerTTL ELSE @]

\* A completion, its attempts taken together: acknowledged, committed without
\* an answer, or failed.  What is not acknowledged is retried in the
\* background unless the server has closed.
Enqueued(e) == IF sv[Home(e)].phase = "closed" THEN pend ELSE pend \cup {e}

Completing(e) ==
    \/ store' = Completed(e) /\ pend' \in {pend, Enqueued(e)}
    \/ UNCHANGED store /\ pend' = Enqueued(e)

-----------------------------------------------------------------------------
(***************************************************************************)
(* register.                                                               *)
(***************************************************************************)

Acquire(e, s) ==
    /\ ex[e].phase = "idle"
    /\ sv[s].phase = "open"
    /\ ex' = [ex EXCEPT ![e].phase = "acquired", ![e].server = s]
    /\ UNCHANGED <<store, sv, pend>>

Register(e) ==
    /\ ex[e].phase = "acquired"
    /\ IF sv[Home(e)].phase = "open" THEN Enters(e, "claiming") ELSE Fails(e)
    /\ UNCHANGED <<store, sv, pend>>

Claim(e) ==
    /\ ex[e].phase = "claiming"
    /\ \/ /\ CanClaim(e)
          /\ store' = Claimed(e)
          /\ Enters(e, "claimed") \/ Enters(e, "abandoning")
       \/ UNCHANGED store /\ Enters(e, "abandoning")
       \/ ~ CanClaim(e) /\ UNCHANGED store /\ Fails(e)
    /\ UNCHANGED <<sv, pend>>

Abandon(e) ==
    /\ ex[e].phase = "abandoning"
    /\ store' \in {Abandoned(e), store}
    /\ Fails(e)
    /\ UNCHANGED <<sv, pend>>

\* The server has closed meanwhile, or another request is in the table.
InsertRefused(e) ==
    /\ ex[e].phase = "claimed"
    /\ sv[Home(e)].phase # "open" \/ sv[Home(e)].active # None
    /\ ex' = [ex EXCEPT ![e].phase = "abandoning", ![e].slow = FALSE]
    /\ UNCHANGED <<store, sv, pend>>

\* The table entry is made and its worker started.
Insert(e) ==
    /\ ex[e].phase = "claimed"
    /\ sv[Home(e)].phase = "open" /\ sv[Home(e)].active = None
    /\ sv' = [sv EXCEPT ![Home(e)].active = e]
    /\ ex' = [ex EXCEPT ![e].phase = "registered", ![e].slow = FALSE,
                        ![e].worker = "idle", ![e].valid = LeaseTTL]
    /\ UNCHANGED <<store, pend>>

\* The entry is still current once the worker runs, or register fails.
Start(e) ==
    /\ ex[e].phase = "registered"
    /\ IF sv[Home(e)].phase = "open" /\ InTable(e) THEN Enters(e, "executing") ELSE Fails(e)
    /\ UNCHANGED <<store, sv, pend>>

-----------------------------------------------------------------------------
(***************************************************************************)
(* The run.                                                                *)
(***************************************************************************)

\* What publishes or resets has read the table; it may have changed since.
WasInTable(e) == ex[e].worker # "none"

Publish(e) ==
    /\ e \in Publishing
    /\ WasInTable(e)
    /\ store.exec = e
    /\ store' = Appended(e)
    /\ UNCHANGED <<ex, sv, pend>>

\* The store refuses the event of an execution that is not the current one.
PublishRefused(e) ==
    /\ InTable(e)
    /\ store.exec # e
    /\ ex' = [ex EXCEPT ![e].cancelled = TRUE]
    /\ UNCHANGED <<store, sv, pend>>

\* Moderation withdraws what the current execution has published.
ResetEvents(e) ==
    /\ WasInTable(e)
    /\ store.exec = e
    /\ store' = [store EXCEPT !.authors = {}, !.kept = 0]
    /\ UNCHANGED <<ex, sv, pend>>

\* Any server can take the request; one with the run in its table cancels it
\* at once, unless the answer of the store is lost.
Cancel(s) ==
    /\ s \in Cancelling
    /\ sv[s].phase # "crashed"
    /\ store.exec # None
    /\ store' = [store EXCEPT !.cancel = Retention]
    /\ \/ UNCHANGED ex
       \/ /\ sv[s].active # None
          /\ ex' = [ex EXCEPT ![sv[s].active].cancelled = TRUE]
    /\ UNCHANGED <<sv, pend>>

\* A stream event of the provider is handled, and the mark seen.
ObserveCancel(e) ==
    /\ ex[e].phase = "executing"
    /\ store.cancel > 0
    /\ ex' = [ex EXCEPT ![e].cancelled = TRUE]
    /\ UNCHANGED <<store, sv, pend>>

\* The generation returns, with or without a result.
RunEnds(e) ==
    /\ ex[e].phase = "executing"
    /\ Enters(e, "finishing")
    /\ UNCHANGED <<store, sv, pend>>

-----------------------------------------------------------------------------
(***************************************************************************)
(* The worker that renews the lease.                                       *)
(***************************************************************************)

CanRenew(e) == store.exec = e

Answered(e, answer) ==
    ex' = [ex EXCEPT ![e].worker = answer, ![e].slow = FALSE]

Renew(e) ==
    /\ ex[e].worker = "due"
    /\ \/ CanRenew(e) /\ store' = Renewed(e) /\ \E a \in {"yes", "error"} : Answered(e, a)
       \/ ~ CanRenew(e) /\ UNCHANGED store /\ Answered(e, "no")
       \/ UNCHANGED store /\ Answered(e, "error")
    /\ UNCHANGED <<sv, pend>>

\* An error is tolerated as long as the store fails.
FaultTolerateErrors(e) == ex[e].worker = "error"

\* An error is tolerated while the last acknowledged lease is valid.
Tolerated(e) == ex[e].worker = "error" /\ ex[e].valid > 0

\* The lease is extended, or at least not known to be lost.
RenewReturns(e) ==
    /\ ex[e].worker = "yes" \/ Tolerated(e)
    /\ ex' = [ex EXCEPT ![e].worker = "idle", ![e].slow = FALSE,
                        ![e].valid = IF ex[e].worker = "yes" THEN LeaseTTL ELSE @]
    /\ UNCHANGED <<store, sv, pend>>

\* The worker leaves its loop, and leaseValidUntil with it.
Leaves(e, worker) == [ex[e] EXCEPT !.worker = worker, !.valid = 0, !.slow = FALSE]

\* The lease is lost, or the run has lasted the whole ownership window: unless
\* another goroutine removed the entry, the worker removes it, cancels the
\* execution and completes the stream.
Lapse(e) ==
    /\ \/ ex[e].worker \in {"no", "error"} /\ ~ Tolerated(e)
       \/ ex[e].worker \in {"idle", "due"}
    /\ IF InTable(e)
       THEN /\ sv' = [sv EXCEPT ![Home(e)].active = None]
            /\ ex' = [ex EXCEPT ![e] = [Leaves(e, "finalizing") EXCEPT !.cancelled = TRUE]]
       ELSE /\ ex' = [ex EXCEPT ![e] = Leaves(e, "done")]
            /\ UNCHANGED sv
    /\ UNCHANGED <<store, pend>>

WorkerFinalizes(e) ==
    /\ ex[e].worker = "finalizing"
    /\ Completing(e)
    /\ ex' = [ex EXCEPT ![e].worker = "done"]
    /\ UNCHANGED sv

WorkerStops(e) ==
    /\ ex[e].worker \in {"idle", "due"}
    /\ ex[e].stop
    /\ ex' = [ex EXCEPT ![e] = Leaves(e, "done")]
    /\ UNCHANGED <<store, sv, pend>>

-----------------------------------------------------------------------------
(***************************************************************************)
(* finish, by the request that holds the entry, and background completion. *)
(***************************************************************************)

\* The entry is removed and the worker left running.
FaultFinishKeepsWorker(e) ==
    /\ ex[e].phase = "finishing"
    /\ IF InTable(e)
       THEN /\ sv' = [sv EXCEPT ![Home(e)].active = None]
            /\ Completing(e)
       ELSE UNCHANGED <<store, sv, pend>>
    /\ Enters(e, "over")

\* The worker is waited for but not told to stop.
FaultWorkerNotTold(e) ==
    /\ ex[e].phase = "finishing"
    /\ IF InTable(e)
       THEN sv' = [sv EXCEPT ![Home(e)].active = None] /\ Enters(e, "stopping")
       ELSE Enters(e, "over") /\ UNCHANGED sv
    /\ UNCHANGED <<store, pend>>

Finish(e) ==
    /\ ex[e].phase = "finishing"
    /\ IF InTable(e)
       THEN /\ sv' = [sv EXCEPT ![Home(e)].active = None]
            /\ ex' = [ex EXCEPT ![e].phase = "stopping", ![e].stop = TRUE]
       ELSE Enters(e, "over") /\ UNCHANGED sv
    /\ UNCHANGED <<store, pend>>

WorkerStopped(e) ==
    /\ ex[e].phase = "stopping"
    /\ ex[e].worker = "done"
    /\ Enters(e, "completing")
    /\ UNCHANGED <<store, sv, pend>>

FinishCompletes(e) ==
    /\ ex[e].phase = "completing"
    /\ Completing(e)
    /\ Enters(e, "over")
    /\ UNCHANGED sv

\* A completion is retried, and given up after the ownership window.
CompleteInBackground(e) ==
    /\ e \in pend
    /\ store' = Completed(e)
    /\ pend' \in {pend, pend \ {e}}
    /\ UNCHANGED <<ex, sv>>

GiveUpCompletion(e) ==
    /\ e \in pend
    /\ pend' = pend \ {e}
    /\ UNCHANGED <<store, ex, sv>>

-----------------------------------------------------------------------------
(***************************************************************************)
(* close, crashes and time.                                                *)
(***************************************************************************)

CloseBegins(s) ==
    /\ s \in Stoppable
    /\ sv[s].phase = "open"
    /\ sv' = [sv EXCEPT ![s].phase = "closing", ![s].snap = sv[s].active]
    /\ UNCHANGED <<store, ex, pend>>

ToBeCancelled(e) ==
    /\ ex[e].phase \in {"acquired", "claiming", "claimed", "registered", "executing"}
    /\ sv[Home(e)].phase # "open"
    /\ ~ ex[e].cancelled

\* The cancelled lifecycle context reaches the requests by goroutines of its own.
LifecycleCancels(e) ==
    /\ ToBeCancelled(e)
    /\ ex' = [ex EXCEPT ![e].cancelled = TRUE]
    /\ UNCHANGED <<store, sv, pend>>

CloseSignals(s) ==
    /\ sv[s].phase = "closing" /\ sv[s].snap # None
    /\ ex' = [ex EXCEPT ![sv[s].snap].stop = TRUE]
    /\ UNCHANGED <<store, sv, pend>>

\* The worker in the snapshot has stopped; its execution is cancelled.
CloseStops(s) ==
    LET e == sv[s].snap
    IN  /\ sv[s].phase = "closing"
        /\ \/ e = None /\ UNCHANGED ex
           \/ /\ e # None /\ ex[e].stop /\ ex[e].worker = "done"
              /\ ex' = [ex EXCEPT ![e].cancelled = TRUE]
        /\ sv' = [sv EXCEPT ![s].phase = "draining", ![s].snap = None]
        /\ UNCHANGED <<store, pend>>

\* A registration that fails is never counted down.
FaultNotCountedDown(s) ==
    {e \in Executions : Home(e) = s /\ ex[e].phase \notin {"acquired", "executing"}}

Registering(s) ==
    {e \in Executions : Home(e) = s /\ ex[e].phase \in {"claiming", "claimed", "abandoning", "registered"}}

\* registrationWG.Wait, after which what is left in the table is taken out.
CloseDrains(s) ==
    /\ sv[s].phase = "draining"
    /\ Registering(s) = {}
    /\ sv' = [sv EXCEPT ![s].phase = "orphans", ![s].snap = sv[s].active, ![s].active = None]
    /\ UNCHANGED <<store, ex, pend>>

CloseFinalizes(s) ==
    LET e == sv[s].snap
    IN  /\ sv[s].phase = "orphans"
        /\ \/ e = None /\ UNCHANGED <<store, pend>>
           \/ e # None /\ ex[e].worker = "done" /\ Completing(e)
        /\ sv' = [sv EXCEPT ![s].phase = "waiting", ![s].snap = None]
        /\ UNCHANGED ex

At(s) == {e \in Executions : Home(e) = s}
Busy(e) == ex[e].worker \notin {"none", "done"}

\* The workers are not waited for.
FaultReturnWithWorkers(s) ==
    /\ sv[s].phase = "waiting"
    /\ sv' = [sv EXCEPT ![s].phase = "closed"]
    /\ pend' = pend \ At(s)
    /\ UNCHANGED <<store, ex>>

\* activeWorkerWG.Wait; the pending completions are dropped.
CloseReturns(s) ==
    /\ sv[s].phase = "waiting"
    /\ \A e \in At(s) : ~ Busy(e)
    /\ sv' = [sv EXCEPT ![s].phase = "closed"]
    /\ pend' = pend \ At(s)
    /\ UNCHANGED <<store, ex>>

Crash(s) ==
    /\ sv[s].phase # "crashed"
    /\ sv' = [sv EXCEPT ![s] = [NewServer EXCEPT !.phase = "crashed"]]
    /\ ex' = [e \in Executions |->
                 IF e \in At(s) THEN [NewExecution EXCEPT !.phase = "gone", !.server = s] ELSE ex[e]]
    /\ pend' = pend \ At(s)
    /\ UNCHANGED store

\* Expired keys count on below zero.
FaultElapsed(ttl) == ttl - 1

Elapsed(ttl) == IF ttl > 0 THEN ttl - 1 ELSE 0

\* A server is less than an interval late in what it does between a call that
\* extended the lease and the next decision about it, and in cancelling a
\* request once its lifecycle context is.
InTransit(e) == ex[e].phase = "claimed" \/ ex[e].worker \in Answers

Punctual ==
    \A e \in Executions :
        ex[e].worker # "due" /\ ~ (InTransit(e) /\ ex[e].slow) /\ ~ ToBeCancelled(e)

\* One renewal interval passes.
Tick ==
    /\ store # NoKeys \/ \E e \in Executions : ex[e].worker = "idle"
    /\ Punctual
    /\ store' = [exec |-> IF store.lease > 1 THEN store.exec ELSE None,
                 lease |-> Elapsed(store.lease), owner |-> Elapsed(store.owner),
                 cancel |-> Elapsed(store.cancel), kept |-> Elapsed(store.kept),
                 authors |-> IF store.kept > 1 THEN store.authors ELSE {}]
    /\ ex' = [e \in Executions |->
                 [ex[e] EXCEPT !.valid = Elapsed(@), !.slow = InTransit(e),
                               !.worker = IF @ = "idle" THEN "due" ELSE @]]
    /\ UNCHANGED <<sv, pend>>

-----------------------------------------------------------------------------
Registration(e) ==
    Register(e) \/ Claim(e) \/ Abandon(e) \/ InsertRefused(e) \/ Insert(e) \/ Start(e)

Generating(e) == Publish(e) \/ PublishRefused(e) \/ ResetEvents(e) \/ ObserveCancel(e)

Renewing(e) == Renew(e) \/ RenewReturns(e) \/ Lapse(e) \/ WorkerFinalizes(e) \/ WorkerStops(e)

Finishing(e) == Finish(e) \/ WorkerStopped(e) \/ FinishCompletes(e)

Closing(s) ==
    CloseSignals(s) \/ CloseStops(s) \/ CloseDrains(s) \/ CloseFinalizes(s) \/ CloseReturns(s)

Next ==
    \/ \E e \in Executions :
          \/ \E s \in Servers : Acquire(e, s)
          \/ Registration(e) \/ Generating(e) \/ RunEnds(e) \/ Renewing(e) \/ Finishing(e)
          \/ CompleteInBackground(e) \/ GiveUpCompletion(e) \/ LifecycleCancels(e)
    \/ \E s \in Servers :
          Cancel(s) \/ CloseBegins(s) \/ Closing(s) \/ Crash(s)
    \/ Tick

Spec == Init /\ [][Next]_vars

(***************************************************************************)
(* Goroutines run, calls to the store are answered or time out, providers  *)
(* answer or time out, a worker that keeps looking at its stopped context  *)
(* sees it, and time passes.  No call has to succeed.                      *)
(***************************************************************************)
RequestSteps(e) == Registration(e) \/ RunEnds(e) \/ Finishing(e)

WorkerSteps(e) ==
    Renew(e) \/ RenewReturns(e) \/ WorkerFinalizes(e) \/ (ex[e].worker \in Answers /\ Lapse(e))

Fairness ==
    /\ \A e \in Executions :
          WF_vars(RequestSteps(e)) /\ WF_vars(WorkerSteps(e))
          /\ SF_vars(WorkerStops(e)) /\ WF_vars(LifecycleCancels(e))
    /\ \A s \in Servers : WF_vars(Closing(s))
    /\ WF_vars(Tick)

FairSpec == Spec /\ Fairness

-----------------------------------------------------------------------------
(***************************************************************************)
(* Properties.                                                             *)
(***************************************************************************)

\* The keys, the requests, the tables and the pending completions keep their
\* types, and a key that has expired is gone.
TypeOK ==
    /\ store \in Store
    /\ ex \in [Executions -> Execution]
    /\ sv \in [Servers -> Server]
    /\ pend \subseteq Executions

Executing(e) == ex[e].phase = "executing" /\ ~ ex[e].cancelled

\* One execution at a time: whatever fails, lapses or is retried, two requests
\* never generate for the run at the same time, on one server or on two
\* (register, runActiveWorker and the ownership that outlives the lease).
OneExecution ==
    \A e, f \in Executions : Executing(e) /\ Executing(f) => e = f

\* What subscribers can replay is the output of one execution, that of the
\* holder if there is one: a late event of an earlier execution never mixes in.
RetainedByOne ==
    /\ \A e, f \in store.authors : e = f
    /\ store.exec # None => store.authors \subseteq {store.exec}

\* The store never mixes executions, whatever its keys' times to live.
StoreOK == TypeOK /\ RetainedByOne

\* Once close has returned, nothing on the server generates, renews, holds a
\* table entry or waits to be completed, whatever registered meanwhile.
ClosedIsQuiet ==
    \A s \in Servers : sv[s].phase = "closed" =>
        /\ sv[s].active = None
        /\ \A e \in At(s) : ~ Executing(e) /\ ~ Busy(e) /\ e \notin pend

Holds(e) == ex[e].phase \in {"claimed", "registered", "executing"} /\ ~ ex[e].cancelled

\* The lease of a request that is registering or generating is not released by
\* anybody else: it is only lost when it runs out or its server crashes
\* (finish, late completions, abandoned claims and duplicated requests).
OnlyHolderReleases ==
    [][\A e \in Executions :
          store.exec = e /\ Holds(e) /\ store'.exec # e => store.lease <= 1]_vars

\* The lease of an execution that has ended, was cancelled or crashed is let go.
EndedRunsAreFreed ==
    \A e \in Executions : (store.exec = e) ~> (store.exec # e)

\* Every request comes to its end, also if its server closes meanwhile.
RequestsEnd ==
    \A e \in Executions :
        (ex[e].phase # "idle") ~> (ex[e].phase \in {"over", "gone"} /\ ~ Busy(e))

\* close returns, unless the server crashes: its waits do not wait for each other.
ClosesEnd ==
    \A s \in Servers : (sv[s].phase = "closing") ~> (sv[s].phase \in {"closed", "crashed"})

=============================================================================
