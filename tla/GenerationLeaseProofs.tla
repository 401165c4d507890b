------------------------ MODULE GenerationLeaseProofs ------------------------
(***************************************************************************)
(* GenerationLease for any number of requests and servers, whatever calls  *)
(* fail and whichever servers crash: the store never mixes executions,     *)
(* nobody lets go the lease of another one's request, close leaves nothing *)
(* behind and, when the keys live long enough, at most one request         *)
(* generates.                                                              *)
(***************************************************************************)
EXTENDS GenerationLease, TLAPS

-----------------------------------------------------------------------------
(***************************************************************************)
(* The inductive invariant.                                                *)
(***************************************************************************)

\* Before the table entry is made.
Early == {"idle", "acquired", "claiming", "claimed"}

\* What the phase of a request says about its worker, its table entry and its
\* completion.
Course(e) ==
    LET x == ex[e]
    IN  /\ IF x.phase = "idle" THEN ~ x.stop ELSE x.server \in Servers
        /\ x.phase \in Early => x.worker = "none"
        /\ x.slow => x.phase = "claimed" \/ x.worker \in Answers
        /\ x.worker = "idle" => x.valid > 0
        /\ x.worker = "finalizing" => x.cancelled
        /\ x.stop => \/ x.phase \in {"stopping", "completing", "over"}
                     \/ sv[x.server].phase # "open"
        /\ Holds(e) /\ x.phase # "claimed" =>
               /\ sv[x.server].active = e
               /\ x.worker \notin {"none", "finalizing"}
               /\ x.worker = "done" => sv[x.server].phase # "open"
        /\ e \in pend => x.cancelled \/ x.phase = "over"

\* What the stage of close says about the table: what is in it when close
\* begins is stopped and cancelled, and nothing is entered any more.
Stages(s) ==
    LET y == sv[s]
    IN  /\ \A e \in {y.active, y.snap} \ {None} : Home(e) = s /\ ex[e].phase \notin Early
        /\ y.phase = "closing" => y.active \in {None, y.snap}
        /\ y.phase = "draining" /\ y.active # None => ex[y.active].cancelled
        /\ y.phase = "orphans" /\ y.snap # None => ex[y.snap].cancelled
        /\ y.phase \in {"orphans", "waiting", "closed", "crashed"} => y.active = None
        /\ y.phase = "closed" => \A e \in At(s) : ~ Busy(e) /\ e \notin pend

LeaseInv ==
    /\ TypeOK
    /\ RetainedByOne
    /\ \A e \in Executions : Course(e)
    /\ \A s \in Servers : Stages(s)

(***************************************************************************)
(* How many intervals a request can go on without another answer of the    *)
(* store.                                                                  *)
(***************************************************************************)
Left(e) ==
    LET x == ex[e]
    IN  IF x.phase = "claimed" \/ x.worker = "yes"
        THEN LeaseTTL + (IF x.slow THEN 1 ELSE 2)
        ELSE IF x.slow /\ x.valid = 0 THEN 0 ELSE x.valid + 1

\* The ownership outlives the request, also when its lease has run out.
Guarded(e) ==
    Holds(e) => /\ store.exec \in {None, e} /\ store.owner > Left(e)
                /\ Left(e) <= (IF store.exec = e THEN store.lease + 2 ELSE 2)

OneHolder == \A e, f \in Executions : Holds(e) /\ Holds(f) => e = f

Alone == OneHolder /\ \A e \in Executions : Guarded(e)

-----------------------------------------------------------------------------
(***************************************************************************)
(* The scripts.                                                            *)
(***************************************************************************)

\* Every script keeps the types of the keys.
LEMMA ScriptTypes ==
    ASSUME TypeOK, NEW e \in Executions
    PROVE  /\ Claimed(e) \in Store /\ Renewed(e) \in Store /\ Completed(e) \in Store
           /\ Abandoned(e) \in Store /\ Appended(e) \in Store
           /\ [store EXCEPT !.authors = {}, !.kept = 0] \in Store
           /\ [store EXCEPT !.cancel = Retention] \in Store
<1>1. /\ LeaseTTL \in 0 .. LeaseTTL /\ OwnerTTL \in 0 .. OwnerTTL
      /\ Retention \in 0 .. Retention /\ Retention \in 0 .. OwnerTTL
      /\ 0 \in 0 .. LeaseTTL /\ 0 \in 0 .. OwnerTTL /\ 0 \in 0 .. Retention
  BY TTLAssumption
<1>2. NoKeys \in Store
  BY <1>1 DEF NoKeys, Store
<1>3. Claimed(e) \in Store
  BY <1>1, <1>2 DEF Claimed, TypeOK, Store, NoKeys
<1>4. Renewed(e) \in Store
  BY <1>1 DEF Renewed, TypeOK, Store
<1>5. Completed(e) \in Store
  BY <1>1 DEF Completed, TypeOK, Store, Shortened
<1>6. Abandoned(e) \in Store
  BY <1>2 DEF Abandoned, TypeOK
<1>7. Appended(e) \in Store
  BY <1>1 DEF Appended, TypeOK, Store
<1>8. /\ [store EXCEPT !.authors = {}, !.kept = 0] \in Store
      /\ [store EXCEPT !.cancel = Retention] \in Store
  BY <1>1 DEF TypeOK, Store
<1> QED BY <1>3, <1>4, <1>5, <1>6, <1>7, <1>8

\* No script mixes the events of two executions.
LEMMA ScriptsKeepApart ==
    ASSUME TypeOK, RetainedByOne, NEW e \in Executions,
           \/ store' = store \/ store' = Claimed(e) \/ store' = Completed(e) \/ store' = Abandoned(e)
           \/ store' = Renewed(e) \/ (store' = Appended(e) /\ store.exec = e)
           \/ store' = [store EXCEPT !.authors = {}, !.kept = 0]
           \/ store' = [store EXCEPT !.cancel = Retention]
    PROVE  RetainedByOne'
<1>1. CASE store' = store
  BY <1>1 DEF RetainedByOne
<1>2. CASE store' = Claimed(e)
  BY <1>2 DEF RetainedByOne, Claimed, TypeOK, Store, NoKeys
<1>3. CASE store' = Completed(e)
  BY <1>3 DEF RetainedByOne, Completed, TypeOK, Store
<1>4. CASE store' = Abandoned(e)
  BY <1>4 DEF RetainedByOne, Abandoned, NoKeys
<1>5. CASE store' = Renewed(e)
  BY <1>5 DEF RetainedByOne, Renewed, TypeOK, Store
<1>6. CASE store' = Appended(e) /\ store.exec = e
  BY <1>6, NoneAssumption DEF RetainedByOne, Appended, TypeOK, Store
<1>7. CASE store' = [store EXCEPT !.authors = {}, !.kept = 0]
  BY <1>7 DEF RetainedByOne, TypeOK, Store
<1>8. CASE store' = [store EXCEPT !.cancel = Retention]
  BY <1>8 DEF RetainedByOne, TypeOK, Store
<1> QED BY <1>1, <1>2, <1>3, <1>4, <1>5, <1>6, <1>7, <1>8

-----------------------------------------------------------------------------
(***************************************************************************)
(* The shapes of a step.                                                   *)
(***************************************************************************)

\* Request e goes on, on its server; its worker may end but not begin.
Goes(e) ==
    /\ ex' \in [Executions -> Execution]
    /\ \A f \in Executions \ {e} : ex'[f] = ex[f]
    /\ ex'[e].server = ex[e].server
    /\ ex[e].cancelled => ex'[e].cancelled
    /\ ex[e].phase \notin Early => ex'[e].phase \notin Early
    /\ Busy(e)' => Busy(e)
    /\ pend' \subseteq pend \cup {e}
    /\ e \in pend' => e \in pend \/ sv[Home(e)].phase # "closed"
    /\ Course(e)'

\* The table of its server has or has no longer the entry of e.
Leaving(e) == /\ InTable(e)
              /\ sv' = [sv EXCEPT ![Home(e)].active = None]
              /\ ~ Holds(e)'

LEMMA OwnStep ==
    ASSUME LeaseInv, NEW e \in Executions, Goes(e), sv' = sv \/ Leaving(e),
           store' \in Store, RetainedByOne'
    PROVE  LeaseInv'
<1>1. TypeOK'
  <2>1. sv' \in [Servers -> Server]
    BY DEF LeaseInv, TypeOK, Leaving, InTable, Server
  <2>2. pend' \subseteq Executions
    BY DEF Goes, LeaseInv, TypeOK
  <2> QED BY <2>1, <2>2 DEF Goes, TypeOK
<1>2. ASSUME NEW s \in Servers
      PROVE  /\ sv'[s].phase = sv[s].phase /\ sv'[s].snap = sv[s].snap
             /\ sv'[s].active = sv[s].active \/ (s = Home(e) /\ sv[s].active = e /\ sv'[s].active = None)
  BY DEF Leaving, InTable, LeaseInv, TypeOK, Server
<1>3. ASSUME NEW f \in Executions PROVE Course(f)'
  <2>1. CASE f = e
    BY <2>1 DEF Goes
  <2>2. CASE f # e
    <3>1. ex'[f] = ex[f] /\ (f \in pend' => f \in pend) /\ Course(f)
      BY <2>2 DEF Goes, LeaseInv
    <3>2. Holds(f)' <=> Holds(f)
      BY <3>1 DEF Holds
    <3>3. CASE ex[f].phase = "idle"
      BY <3>1, <3>2, <3>3 DEF Course, Holds
    <3>4. CASE ex[f].phase # "idle"
      <4>1. ex[f].server \in Servers
        BY <3>1, <3>4 DEF Course
      <4> QED BY <2>2, <3>1, <3>2, <4>1, <1>2 DEF Course
    <3> QED BY <3>3, <3>4
  <2> QED BY <2>1, <2>2
<1>4. ASSUME NEW s \in Servers PROVE Stages(s)'
  <2>1. Stages(s) /\ sv[s] \in Server
    BY DEF LeaseInv, TypeOK
  <2>2. ASSUME NEW f \in Executions
        PROVE  /\ Home(f)' = Home(f) /\ (ex[f].cancelled => ex'[f].cancelled)
               /\ ex[f].phase \notin Early => ex'[f].phase \notin Early
               /\ Busy(f)' => Busy(f)
               /\ f \in pend' => f \in pend \/ sv[Home(f)].phase # "closed"
    BY DEF Goes, Home, Busy
  <2>3. At(s)' = At(s)
    BY <2>2 DEF At
  <2>4. {sv'[s].active, sv'[s].snap} \ {None} \subseteq {sv[s].active, sv[s].snap} \ {None}
    BY <1>2
  <2>5. {sv[s].active, sv[s].snap} \ {None} \subseteq Executions
    BY <2>1 DEF Server
  <2> QED BY <2>1, <2>2, <2>3, <2>4, <2>5, <1>2 DEF Stages, At
<1> QED BY <1>1, <1>3, <1>4 DEF LeaseInv

-----------------------------------------------------------------------------
(***************************************************************************)
(* The steps of a request that neither claim nor renew.                    *)
(***************************************************************************)

\* Nobody becomes a holder, or gains time.
Stays(e) == Holds(e)' => Holds(e) /\ Left(e)' <= Left(e)

StoreStays(e) ==
    \/ store' = store
    \/ store' = Completed(e) /\ ~ Holds(e)
    \/ store' = Appended(e) /\ store.exec = e
    \/ store' = [store EXCEPT !.authors = {}, !.kept = 0]
    \/ store' = [store EXCEPT !.cancel = Retention]

Continues(e) == Goes(e) /\ Stays(e) /\ (sv' = sv \/ Leaving(e)) /\ StoreStays(e)

LEMMA Facts ==
    ASSUME LeaseInv, NEW e \in Executions
    PROVE  /\ ex[e] \in Execution /\ Course(e) /\ ex \in [Executions -> Execution]
           /\ LeaseTTL \in Nat /\ LeaseTTL > 0 /\ ex[e].valid \in Nat
  BY TTLAssumption DEF LeaseInv, TypeOK, Execution

\* What is left of a request whose worker has left its loop.
LEMMA LeavesFields ==
    ASSUME LeaseInv, NEW e \in Executions, NEW w \in Workers
    PROVE  /\ Leaves(e, w) \in Execution /\ [Leaves(e, w) EXCEPT !.cancelled = TRUE] \in Execution
           /\ Leaves(e, w).phase = ex[e].phase /\ Leaves(e, w).server = ex[e].server
           /\ Leaves(e, w).cancelled = ex[e].cancelled /\ Leaves(e, w).worker = w
           /\ Leaves(e, w).stop = ex[e].stop /\ Leaves(e, w).valid = 0 /\ Leaves(e, w).slow = FALSE
<1>1. ex[e] \in Execution /\ 0 \in 0 .. LeaseTTL
  BY Facts
<1> QED BY <1>1 DEF Leaves, Execution

LEMMA RegisterStep ==
    ASSUME LeaseInv, NEW e \in Executions, Register(e)
    PROVE  Continues(e)
<1>1. Goes(e)
  BY Facts DEF Register, Goes, Course, Holds, Busy, Home, Early, Execution, Phases, Workers, Answers, Enters, Fails
<1>2. Stays(e)
  BY Facts DEF Register, Stays, Holds, Left, Home, Course, Early, Execution, Workers, Answers, Enters, Fails
<1>3. (sv' = sv \/ Leaving(e)) /\ StoreStays(e)
  BY Facts DEF Register, Leaving, StoreStays, Holds, Course, Home, Execution, Enters, Fails
<1> QED BY <1>1, <1>2, <1>3 DEF Continues

LEMMA InsertRefusedStep ==
    ASSUME LeaseInv, NEW e \in Executions, InsertRefused(e)
    PROVE  Continues(e)
<1>1. /\ ex' \in [Executions -> Execution] /\ \A f \in Executions \ {e} : ex'[f] = ex[f]
      /\ ex'[e].phase = "abandoning" /\ ex'[e].server = ex[e].server /\ ex'[e].cancelled = ex[e].cancelled /\ ex'[e].worker = ex[e].worker
      /\ ex'[e].stop = ex[e].stop /\ ex'[e].valid = ex[e].valid /\ ex'[e].slow = FALSE
      /\ store' = store /\ sv' = sv /\ pend' = pend
  BY Facts DEF InsertRefused, Execution, Phases, Workers
<1>2. ex[e].phase = "claimed"
  BY DEF InsertRefused
<1>3. Course(e)'
  BY <1>1, <1>2, Facts DEF Course, Holds, InTable, Home, Early, Execution, Answers
<1>4. Goes(e)
  BY <1>1, <1>2, <1>3, Facts DEF Goes, Busy, Home, Early, Answers
<1>5. Stays(e)
  BY <1>1, <1>2, Facts DEF Stays, Holds, Left, Course, Early, Answers
<1> QED BY <1>1, <1>4, <1>5 DEF Continues, StoreStays

LEMMA StartStep ==
    ASSUME LeaseInv, NEW e \in Executions, Start(e)
    PROVE  Continues(e)
<1>1. Goes(e)
  BY Facts DEF Start, Goes, Course, Holds, Busy, Home, Early, Execution, Phases, Workers, Answers, Enters, Fails, InTable
<1>2. Stays(e)
  BY Facts DEF Start, Stays, Holds, Left, Home, Course, Early, Execution, Workers, Answers, Enters, Fails, InTable
<1>3. (sv' = sv \/ Leaving(e)) /\ StoreStays(e)
  BY Facts DEF Start, Leaving, StoreStays, Holds, Course, Home, Execution, Enters, Fails, InTable
<1> QED BY <1>1, <1>2, <1>3 DEF Continues

LEMMA PublishStep ==
    ASSUME LeaseInv, NEW e \in Executions, Publish(e)
    PROVE  Continues(e)
<1>1. Goes(e)
  BY Facts DEF Publish, Goes, Course, Holds, Busy, Home, Early, Execution, Phases, Workers, Answers, WasInTable
<1>2. Stays(e)
  BY Facts DEF Publish, Stays, Holds, Left, Home, Course, Early, Execution, Workers, Answers, WasInTable
<1>3. (sv' = sv \/ Leaving(e)) /\ StoreStays(e)
  BY Facts DEF Publish, Leaving, StoreStays, Holds, Course, Home, Execution, WasInTable
<1> QED BY <1>1, <1>2, <1>3 DEF Continues

LEMMA PublishRefusedStep ==
    ASSUME LeaseInv, NEW e \in Executions, PublishRefused(e)
    PROVE  Continues(e)
<1>1. /\ ex' \in [Executions -> Execution] /\ \A f \in Executions \ {e} : ex'[f] = ex[f]
      /\ ex'[e].phase = ex[e].phase /\ ex'[e].server = ex[e].server /\ ex'[e].cancelled = TRUE /\ ex'[e].worker = ex[e].worker
      /\ ex'[e].stop = ex[e].stop /\ ex'[e].valid = ex[e].valid /\ ex'[e].slow = ex[e].slow
      /\ store' = store /\ sv' = sv /\ pend' = pend
  BY Facts DEF PublishRefused, Execution, Phases, Workers
<1>2. InTable(e)
  BY DEF PublishRefused
<1>3. Course(e)'
  BY <1>1, <1>2, Facts DEF Course, Holds, InTable, Home, Early, Execution, Answers
<1>4. Goes(e)
  BY <1>1, <1>2, <1>3, Facts DEF Goes, Busy, Home, Early, Answers
<1>5. Stays(e)
  BY <1>1, <1>2, Facts DEF Stays, Holds, Left, Course, Early, Answers
<1> QED BY <1>1, <1>4, <1>5 DEF Continues, StoreStays

LEMMA ResetEventsStep ==
    ASSUME LeaseInv, NEW e \in Executions, ResetEvents(e)
    PROVE  Continues(e)
<1>1. Goes(e)
  BY Facts DEF ResetEvents, Goes, Course, Holds, Busy, Home, Early, Execution, Phases, Workers, Answers, WasInTable
<1>2. Stays(e)
  BY Facts DEF ResetEvents, Stays, Holds, Left, Home, Course, Early, Execution, Workers, Answers, WasInTable
<1>3. (sv' = sv \/ Leaving(e)) /\ StoreStays(e)
  BY Facts DEF ResetEvents, Leaving, StoreStays, Holds, Course, Home, Execution, WasInTable
<1> QED BY <1>1, <1>2, <1>3 DEF Continues

LEMMA ObserveCancelStep ==
    ASSUME LeaseInv, NEW e \in Executions, ObserveCancel(e)
    PROVE  Continues(e)
<1>1. /\ ex' \in [Executions -> Execution] /\ \A f \in Executions \ {e} : ex'[f] = ex[f]
      /\ ex'[e].phase = ex[e].phase /\ ex'[e].server = ex[e].server /\ ex'[e].cancelled = TRUE /\ ex'[e].worker = ex[e].worker
      /\ ex'[e].stop = ex[e].stop /\ ex'[e].valid = ex[e].valid /\ ex'[e].slow = ex[e].slow
      /\ store' = store /\ sv' = sv /\ pend' = pend
  BY Facts DEF ObserveCancel, Execution, Phases, Workers
<1>2. ex[e].phase = "executing"
  BY DEF ObserveCancel
<1>3. Course(e)'
  BY <1>1, <1>2, Facts DEF Course, Holds, InTable, Home, Early, Execution, Answers
<1>4. Goes(e)
  BY <1>1, <1>2, <1>3, Facts DEF Goes, Busy, Home, Early, Answers
<1>5. Stays(e)
  BY <1>1, <1>2, Facts DEF Stays, Holds, Left, Course, Early, Answers
<1> QED BY <1>1, <1>4, <1>5 DEF Continues, StoreStays

LEMMA RunEndsStep ==
    ASSUME LeaseInv, NEW e \in Executions, RunEnds(e)
    PROVE  Continues(e)
<1>1. Goes(e)
  BY Facts DEF RunEnds, Goes, Course, Holds, Busy, Home, Early, Execution, Phases, Workers, Answers, Enters
<1>2. Stays(e)
  BY Facts DEF RunEnds, Stays, Holds, Left, Home, Course, Early, Execution, Workers, Answers, Enters
<1>3. (sv' = sv \/ Leaving(e)) /\ StoreStays(e)
  BY Facts DEF RunEnds, Leaving, StoreStays, Holds, Course, Home, Execution, Enters
<1> QED BY <1>1, <1>2, <1>3 DEF Continues

LEMMA RenewReturnsStep ==
    ASSUME LeaseInv, NEW e \in Executions, RenewReturns(e)
    PROVE  Continues(e)
<1>1. Goes(e)
  BY Facts DEF RenewReturns, Goes, Course, Holds, Busy, Home, Early, Execution, Phases, Workers, Answers, Tolerated
<1>2. Stays(e)
  BY Facts DEF RenewReturns, Stays, Holds, Left, Home, Course, Early, Execution, Workers, Answers, Tolerated
<1>3. (sv' = sv \/ Leaving(e)) /\ StoreStays(e)
  BY Facts DEF RenewReturns, Leaving, StoreStays, Holds, Course, Home, Execution, Tolerated
<1> QED BY <1>1, <1>2, <1>3 DEF Continues

LEMMA LapseStep ==
    ASSUME LeaseInv, NEW e \in Executions, Lapse(e)
    PROVE  Continues(e)
<1>1. /\ store' = store /\ pend' = pend
      /\ ex[e].worker \in {"no", "error", "idle", "due"}
  BY DEF Lapse
<1>2. CASE InTable(e)
  <2>1. /\ ex' \in [Executions -> Execution] /\ \A f \in Executions \ {e} : ex'[f] = ex[f]
        /\ ex'[e].phase = ex[e].phase /\ ex'[e].server = ex[e].server
        /\ ex'[e].cancelled = TRUE /\ ex'[e].worker = "finalizing" /\ ex'[e].stop = ex[e].stop
        /\ ex'[e].valid = 0 /\ ex'[e].slow = FALSE
        /\ sv' = [sv EXCEPT ![Home(e)].active = None]
    <3>1. /\ "finalizing" \in Workers /\ sv' = [sv EXCEPT ![Home(e)].active = None]
          /\ ex' = [ex EXCEPT ![e] = [Leaves(e, "finalizing") EXCEPT !.cancelled = TRUE]]
      BY <1>2 DEF Lapse, Workers
    <3>2. [Leaves(e, "finalizing") EXCEPT !.cancelled = TRUE].cancelled
      BY <3>1, LeavesFields DEF Execution
    <3> QED BY <3>1, <3>2, LeavesFields, Facts DEF Execution
  <2>2. \A s \in Servers : sv'[s].phase = sv[s].phase
    BY <2>1 DEF LeaseInv, TypeOK, Server
  <2>3. Course(e)'
    BY <1>1, <2>1, <2>2, Facts DEF Course, Holds, Home, Early, Execution, Answers
  <2>4. Goes(e)
    BY <1>1, <2>1, <2>3, Facts DEF Goes, Busy, Home, Early, Answers
  <2>5. Stays(e) /\ Leaving(e)
    BY <1>2, <2>1 DEF Stays, Leaving, Holds
  <2> QED BY <1>1, <2>4, <2>5 DEF Continues, StoreStays
<1>3. CASE ~ InTable(e)
  <2>1. /\ ex' \in [Executions -> Execution] /\ \A f \in Executions \ {e} : ex'[f] = ex[f]
        /\ ex'[e].phase = ex[e].phase /\ ex'[e].server = ex[e].server
        /\ ex'[e].cancelled = ex[e].cancelled /\ ex'[e].worker = "done" /\ ex'[e].stop = ex[e].stop
        /\ ex'[e].valid = 0 /\ ex'[e].slow = FALSE
        /\ sv' = sv
    <3>1. "done" \in Workers /\ sv' = sv /\ ex' = [ex EXCEPT ![e] = Leaves(e, "done")]
      BY <1>3 DEF Lapse, Workers
    <3> QED BY <3>1, LeavesFields, Facts
  <2>2. ~ Holds(e)
    BY <1>1, <1>3, Facts DEF InTable, Home, Course, Holds, Early
  <2>3. Course(e)'
    BY <1>1, <2>1, <2>2, Facts DEF Course, Holds, Home, Early, Execution, Answers
  <2>4. Goes(e)
    BY <1>1, <2>1, <2>3, Facts DEF Goes, Busy, Home, Early, Answers
  <2>5. Stays(e)
    BY <2>1, <2>2 DEF Stays, Holds
  <2> QED BY <1>1, <2>1, <2>4, <2>5 DEF Continues, StoreStays
<1> QED BY <1>2, <1>3

LEMMA WorkerFinalizesStep ==
    ASSUME LeaseInv, NEW e \in Executions, WorkerFinalizes(e)
    PROVE  Continues(e)
<1>1. Goes(e)
  BY Facts DEF WorkerFinalizes, Goes, Course, Holds, Busy, Home, Early, Execution, Phases, Workers, Answers, Completing, Enqueued
<1>2. Stays(e)
  BY Facts DEF WorkerFinalizes, Stays, Holds, Left, Home, Course, Early, Execution, Workers, Answers, Completing, Enqueued
<1>3. (sv' = sv \/ Leaving(e)) /\ StoreStays(e)
  BY Facts DEF WorkerFinalizes, Leaving, StoreStays, Holds, Course, Home, Execution, Completing, Enqueued
<1> QED BY <1>1, <1>2, <1>3 DEF Continues

LEMMA WorkerStopsStep ==
    ASSUME LeaseInv, NEW e \in Executions, WorkerStops(e)
    PROVE  Continues(e)
<1>1. /\ ex' \in [Executions -> Execution] /\ \A f \in Executions \ {e} : ex'[f] = ex[f]
      /\ ex'[e].phase = ex[e].phase /\ ex'[e].server = ex[e].server /\ ex'[e].cancelled = ex[e].cancelled /\ ex'[e].worker = "done"
      /\ ex'[e].stop = ex[e].stop /\ ex'[e].valid = 0 /\ ex'[e].slow = FALSE
      /\ store' = store /\ sv' = sv /\ pend' = pend
  <2>1. /\ "done" \in Workers /\ ex' = [ex EXCEPT ![e] = Leaves(e, "done")]
        /\ store' = store /\ sv' = sv /\ pend' = pend
    BY DEF WorkerStops, Workers
  <2> QED BY <2>1, LeavesFields, Facts
<1>2. ex[e].worker \in {"idle", "due"} /\ ex[e].stop
  BY DEF WorkerStops
<1>3. Course(e)'
  BY <1>1, <1>2, Facts DEF Course, Holds, InTable, Home, Early, Execution, Answers
<1>4. Goes(e)
  BY <1>1, <1>2, <1>3, Facts DEF Goes, Busy, Home, Early, Answers
<1>5. Stays(e)
  BY <1>1, <1>2, Facts DEF Stays, Holds, Left, Course, Early, Answers
<1> QED BY <1>1, <1>4, <1>5 DEF Continues, StoreStays

LEMMA FinishStep ==
    ASSUME LeaseInv, NEW e \in Executions, Finish(e)
    PROVE  Continues(e)
<1>1. /\ store' = store /\ pend' = pend /\ ex[e].phase = "finishing"
      /\ ex' \in [Executions -> Execution] /\ \A f \in Executions \ {e} : ex'[f] = ex[f]
      /\ ex'[e].server = ex[e].server /\ ex'[e].cancelled = ex[e].cancelled
      /\ ex'[e].worker = ex[e].worker /\ ex'[e].valid = ex[e].valid /\ ex'[e].slow = ex[e].slow
      /\ \/ ex'[e].phase = "stopping" /\ InTable(e) /\ sv' = [sv EXCEPT ![Home(e)].active = None]
         \/ ex'[e].phase = "over" /\ sv' = sv
  BY Facts DEF Finish, Enters, Execution, Phases
<1>2. Course(e)'
  BY <1>1, Facts DEF Course, Holds, Early, Execution
<1>3. Goes(e)
  BY <1>1, <1>2, Facts DEF Goes, Busy, Home, Early
<1>4. Stays(e) /\ (sv' = sv \/ Leaving(e))
  BY <1>1 DEF Stays, Leaving, Holds
<1> QED BY <1>1, <1>3, <1>4 DEF Continues, StoreStays

LEMMA WorkerStoppedStep ==
    ASSUME LeaseInv, NEW e \in Executions, WorkerStopped(e)
    PROVE  Continues(e)
<1>1. Goes(e)
  BY Facts DEF WorkerStopped, Goes, Course, Holds, Busy, Home, Early, Execution, Phases, Workers, Answers, Enters
<1>2. Stays(e)
  BY Facts DEF WorkerStopped, Stays, Holds, Left, Home, Course, Early, Execution, Workers, Answers, Enters
<1>3. (sv' = sv \/ Leaving(e)) /\ StoreStays(e)
  BY Facts DEF WorkerStopped, Leaving, StoreStays, Holds, Course, Home, Execution, Enters
<1> QED BY <1>1, <1>2, <1>3 DEF Continues

LEMMA FinishCompletesStep ==
    ASSUME LeaseInv, NEW e \in Executions, FinishCompletes(e)
    PROVE  Continues(e)
<1>1. Goes(e)
  BY Facts DEF FinishCompletes, Goes, Course, Holds, Busy, Home, Early, Execution, Phases, Workers, Answers, Completing, Enqueued, Enters
<1>2. Stays(e)
  BY Facts DEF FinishCompletes, Stays, Holds, Left, Home, Course, Early, Execution, Workers, Answers, Completing, Enqueued, Enters
<1>3. (sv' = sv \/ Leaving(e)) /\ StoreStays(e)
  BY Facts DEF FinishCompletes, Leaving, StoreStays, Holds, Course, Home, Execution, Completing, Enqueued, Enters
<1> QED BY <1>1, <1>2, <1>3 DEF Continues

LEMMA CompleteInBackgroundStep ==
    ASSUME LeaseInv, NEW e \in Executions, CompleteInBackground(e)
    PROVE  Continues(e)
<1>1. Goes(e)
  BY Facts DEF CompleteInBackground, Goes, Course, Holds, Busy, Home, Early, Execution, Phases, Workers, Answers
<1>2. Stays(e)
  BY Facts DEF CompleteInBackground, Stays, Holds, Left, Home, Course, Early, Execution, Workers, Answers
<1>3. (sv' = sv \/ Leaving(e)) /\ StoreStays(e)
  BY Facts DEF CompleteInBackground, Leaving, StoreStays, Holds, Course, Home, Execution
<1> QED BY <1>1, <1>2, <1>3 DEF Continues

LEMMA GiveUpCompletionStep ==
    ASSUME LeaseInv, NEW e \in Executions, GiveUpCompletion(e)
    PROVE  Continues(e)
<1>1. Goes(e)
  BY Facts DEF GiveUpCompletion, Goes, Course, Holds, Busy, Home, Early, Execution, Phases, Workers, Answers
<1>2. Stays(e)
  BY Facts DEF GiveUpCompletion, Stays, Holds, Left, Home, Course, Early, Execution, Workers, Answers
<1>3. (sv' = sv \/ Leaving(e)) /\ StoreStays(e)
  BY Facts DEF GiveUpCompletion, Leaving, StoreStays, Holds, Course, Home, Execution
<1> QED BY <1>1, <1>2, <1>3 DEF Continues

LEMMA LifecycleCancelsStep ==
    ASSUME LeaseInv, NEW e \in Executions, LifecycleCancels(e)
    PROVE  Continues(e)
<1>1. /\ ex' \in [Executions -> Execution] /\ \A f \in Executions \ {e} : ex'[f] = ex[f]
      /\ ex'[e].phase = ex[e].phase /\ ex'[e].server = ex[e].server /\ ex'[e].cancelled = TRUE /\ ex'[e].worker = ex[e].worker
      /\ ex'[e].stop = ex[e].stop /\ ex'[e].valid = ex[e].valid /\ ex'[e].slow = ex[e].slow
      /\ store' = store /\ sv' = sv /\ pend' = pend
  BY Facts DEF LifecycleCancels, Execution, Phases, Workers
<1>2. ex[e].phase \in {"acquired", "claiming", "claimed", "registered", "executing"}
  BY DEF LifecycleCancels, ToBeCancelled
<1>3. Course(e)'
  BY <1>1, <1>2, Facts DEF Course, Holds, InTable, Home, Early, Execution, Answers
<1>4. Goes(e)
  BY <1>1, <1>2, <1>3, Facts DEF Goes, Busy, Home, Early, Answers
<1>5. Stays(e)
  BY <1>1, <1>2, Facts DEF Stays, Holds, Left, Course, Early, Answers
<1> QED BY <1>1, <1>4, <1>5 DEF Continues, StoreStays
-----------------------------------------------------------------------------
(***************************************************************************)
(* What such a step keeps.                                                 *)
(***************************************************************************)

\* The times under which at most one request generates: an ownership that
\* lasts three intervals longer than a lease, and a retention of three
\* (720, 3 and 90 in the code).
KeysOutlive == OwnerTTL >= LeaseTTL + 3 /\ Retention >= 3

AllStay == \A f \in Executions : Stays(f)

\* The lease of a holder is not released.
Released(e) == store.exec = e /\ Holds(e) /\ store'.exec # e

LEMMA ContinuesKeeps ==
    ASSUME LeaseInv, NEW e \in Executions, Continues(e)
    PROVE  LeaseInv' /\ AllStay
<1>1. store' \in Store
  BY ScriptTypes DEF LeaseInv, TypeOK, Continues, StoreStays
<1>2. RetainedByOne'
  BY ScriptsKeepApart DEF LeaseInv, Continues, StoreStays
<1>3. LeaseInv'
  BY <1>1, <1>2, OwnStep DEF Continues
<1>4. ASSUME NEW f \in Executions PROVE Stays(f)
  <2>1. CASE f = e
    BY <2>1 DEF Continues
  <2>2. CASE f # e
    <3>1. ex'[f] = ex[f]
      BY <2>2 DEF Continues, Goes
    <3>2. Left(f)' = Left(f) /\ Left(f) \in Int
      BY <3>1, Facts DEF Left, Execution
    <3> QED BY <3>1, <3>2 DEF Stays, Holds
  <2> QED BY <2>1, <2>2
<1> QED BY <1>3, <1>4 DEF AllStay

LEMMA LeftTyped == ASSUME LeaseInv, NEW e \in Executions PROVE Left(e) \in Nat
  BY Facts DEF Left, Execution

\* While nobody becomes a holder and the store is only completed by others, holders keep their time.
LEMMA StoreStaysKeeps ==
    ASSUME LeaseInv, LeaseInv', AllStay, NEW e \in Executions, StoreStays(e)
    PROVE  /\ \A f \in Executions : ~ Released(f)
           /\ Alone /\ KeysOutlive => Alone'
<1>1. store \in Store /\ None \notin Executions /\ Retention \in Nat
  BY NoneAssumption, TTLAssumption DEF LeaseInv, TypeOK
<1>2. \/ store'.exec = store.exec /\ store'.lease = store.lease /\ store'.owner = store.owner
      \/ /\ ~ Holds(e) /\ store.exec \in {None, e}
         /\ store'.exec = None /\ store'.owner = Retention
  BY <1>1 DEF StoreStays, Completed, CanComplete, Appended, Store
<1>3. ASSUME NEW f \in Executions PROVE ~ Released(f)
  BY <1>1, <1>2 DEF Released
<1>4. ASSUME Alone, KeysOutlive PROVE Alone'
  <2>1. OneHolder'
    BY <1>4 DEF Alone, OneHolder, AllStay, Stays
  <2>2. ASSUME NEW f \in Executions, Holds(f)' PROVE Guarded(f)'
    <3>1. Holds(f) /\ Left(f)' <= Left(f) /\ Guarded(f)
      BY <2>2, <1>4 DEF AllStay, Stays, Alone
    <3>2. Left(f) \in Nat /\ Left(f)' \in Nat
      BY LeftTyped, TTLAssumption DEF LeaseInv, TypeOK, Left, Execution
    <3>3. store.owner \in Nat /\ store.lease \in Nat
      BY <1>1, TTLAssumption DEF Store
    <3>4. CASE store'.exec = store.exec /\ store'.lease = store.lease /\ store'.owner = store.owner
      BY <3>1, <3>2, <3>3, <3>4 DEF Guarded
    <3>5. CASE ~ Holds(e) /\ store.exec \in {None, e} /\ store'.exec = None /\ store'.owner = Retention
      <4>1. store.exec = None
        BY <3>1, <3>5, <1>1 DEF Guarded
      <4>2. Left(f) <= 2
        BY <3>1, <4>1, <1>1 DEF Guarded
      <4>3. store'.owner > Left(f)'
        BY <3>1, <3>2, <3>5, <4>2, <1>1, <1>4 DEF KeysOutlive
      <4> QED BY <3>1, <3>2, <3>5, <4>2, <4>3, <1>1 DEF Guarded
    <3> QED BY <1>2, <3>4, <3>5
  <2> QED BY <2>1, <2>2 DEF Alone, Guarded
<1> QED BY <1>3, <1>4

\* A step of the close of one server.
LEMMA ServerStep ==
    ASSUME LeaseInv, NEW s \in Servers,
           sv' \in [Servers -> Server], \A t \in Servers \ {s} : sv'[t] = sv[t],
           ex' \in [Executions -> Execution], pend' \subseteq Executions,
           \A f \in Executions :
               /\ ex'[f].server = ex[f].server /\ (ex[f].cancelled => ex'[f].cancelled)
               /\ ex[f].phase \notin Early => ex'[f].phase \notin Early
               /\ Busy(f)' => Busy(f)
               /\ f \in pend' => f \in pend \/ sv[Home(f)].phase # "closed"
               /\ Course(f)',
           Stages(s)', store' \in Store, RetainedByOne'
    PROVE  LeaseInv'
<1>1. TypeOK'
  BY DEF TypeOK
<1>2. ASSUME NEW t \in Servers PROVE Stages(t)'
  <2>1. CASE t = s
    BY <2>1
  <2>2. CASE t # s
    <3>1. Stages(t) /\ sv'[t] = sv[t] /\ sv[t] \in Server
      BY <2>2 DEF LeaseInv, TypeOK
    <3>2. At(t)' = At(t)
      BY DEF At, Home
    <3>3. {sv[t].active, sv[t].snap} \ {None} \subseteq Executions
      BY <3>1 DEF Server
    <3> QED BY <3>1, <3>2, <3>3 DEF Stages, At, Home
  <2> QED BY <2>1, <2>2
<1> QED BY <1>1, <1>2 DEF LeaseInv
-----------------------------------------------------------------------------
(***************************************************************************)
(* The other steps of requests.                                            *)
(***************************************************************************)

LEMMA AcquireStep ==
    ASSUME LeaseInv, NEW e \in Executions, NEW s \in Servers, Acquire(e, s)
    PROVE  LeaseInv' /\ AllStay /\ store' = store
<1>1. /\ store' = store /\ sv' = sv /\ pend' = pend /\ sv[s].phase = "open" /\ ex[e].phase = "idle"
      /\ ex' \in [Executions -> Execution] /\ \A f \in Executions \ {e} : ex'[f] = ex[f]
      /\ ex'[e].phase = "acquired" /\ ex'[e].server = s /\ ex'[e].cancelled = ex[e].cancelled
      /\ ex'[e].worker = ex[e].worker /\ ex'[e].stop = ex[e].stop
      /\ ex'[e].valid = ex[e].valid /\ ex'[e].slow = ex[e].slow
  BY Facts DEF Acquire, Execution, Phases
<1>2. TypeOK' /\ RetainedByOne'
  BY <1>1 DEF LeaseInv, TypeOK, RetainedByOne
<1>3. ASSUME NEW f \in Executions PROVE Course(f)' /\ Stays(f)
  <2>1. CASE f = e
    BY <1>1, <2>1, Facts DEF Course, Holds, Early, Stays
  <2>2. CASE f # e
    <3>1. Left(f)' = Left(f) /\ Left(f) \in Int
      BY <1>1, <2>2, Facts DEF Left, Execution
    <3> QED BY <1>1, <2>2, <3>1, Facts DEF Course, Holds, Stays
  <2> QED BY <2>1, <2>2
<1>4. ASSUME NEW t \in Servers PROVE Stages(t)'
  <2>1. Stages(t) /\ sv[t] \in Server
    BY DEF LeaseInv, TypeOK
  <2>2. {sv[t].active, sv[t].snap} \ {None} \subseteq Executions
    BY <2>1 DEF Server
  <2>3. \A f \in Executions : f # e => ex'[f] = ex[f]
    BY <1>1
  <2>4. sv[t].phase = "closed" => \A f \in At(t)' : f # e /\ f \in At(t)
    BY <1>1 DEF At, Home
  <2>5. e \notin {sv[t].active, sv[t].snap} \ {None}
    BY <1>1, <2>1 DEF Stages, Early
  <2>6. \A f \in {sv[t].active, sv[t].snap} \ {None} : ex'[f] = ex[f]
    BY <2>2, <2>3, <2>5
  <2>7. sv[t].phase = "closed" => \A f \in At(t)' : ~ Busy(f)' /\ f \notin pend'
    BY <1>1, <2>1, <2>3, <2>4 DEF Stages, Busy, At
  <2> QED BY <1>1, <2>1, <2>6, <2>7 DEF Stages, Home
<1> QED BY <1>1, <1>2, <1>3, <1>4 DEF LeaseInv, AllStay

LEMMA InsertStep ==
    ASSUME LeaseInv, NEW e \in Executions, Insert(e)
    PROVE  LeaseInv' /\ AllStay /\ store' = store
<1> DEFINE s == Home(e)
<1>1. /\ store' = store /\ pend' = pend /\ ex[e].phase = "claimed"
      /\ ex' \in [Executions -> Execution] /\ \A f \in Executions \ {e} : ex'[f] = ex[f]
      /\ ex'[e].phase = "registered" /\ ex'[e].server = ex[e].server
      /\ ex'[e].cancelled = ex[e].cancelled
      /\ ex'[e].worker = "idle" /\ ex'[e].stop = ex[e].stop
      /\ ex'[e].valid = LeaseTTL /\ ex'[e].slow = FALSE
  <2>1. LeaseTTL \in 0 .. LeaseTTL /\ ex[e] \in Execution
    BY Facts
  <2>2. ex' = [ex EXCEPT ![e] = [ex[e] EXCEPT !.phase = "registered", !.slow = FALSE,
                                             !.worker = "idle", !.valid = LeaseTTL]]
    BY DEF Insert
  <2>3. [ex[e] EXCEPT !.phase = "registered", !.slow = FALSE, !.worker = "idle", !.valid = LeaseTTL]
           \in Execution
    BY <2>1 DEF Execution, Phases, Workers
  <2>4. store' = store /\ pend' = pend /\ ex[e].phase = "claimed"
    BY DEF Insert
  <2> QED BY <2>1, <2>2, <2>3, <2>4, Facts DEF Execution
<1>2. s \in Servers /\ ex[e].server = s
  BY <1>1, Facts DEF Course, Home
<1>3. /\ sv[s].phase = "open" /\ sv[s].active = None
      /\ sv' = [sv EXCEPT ![s].active = e]
  BY DEF Insert
<1> HIDE DEF s
<1>4. /\ sv' \in [Servers -> Server] /\ \A t \in Servers \ {s} : sv'[t] = sv[t]
      /\ sv'[s].phase = "open" /\ sv'[s].active = e /\ sv'[s].snap = sv[s].snap
  BY <1>2, <1>3 DEF LeaseInv, TypeOK, Server
<1>5. TypeOK' /\ RetainedByOne'
  BY <1>1, <1>4 DEF LeaseInv, TypeOK, RetainedByOne
<1>6. ASSUME NEW f \in Executions PROVE Course(f)' /\ Stays(f)
  <2>1. CASE f = e
    <3>1. ~ ex[e].stop /\ Course(e)
      BY <1>1, <1>2, <1>3, Facts DEF Course
    <3>2. Course(e)'
      BY <1>1, <1>2, <1>4, <3>1, Facts DEF Course, Holds, Early
    <3>3. Stays(e)
      BY <1>1, Facts DEF Stays, Holds, Left
    <3> QED BY <2>1, <3>2, <3>3
  <2>2. CASE f # e
    <3>1. ex'[f] = ex[f] /\ Course(f) /\ (Holds(f)' <=> Holds(f))
      BY <1>1, <2>2, Facts DEF Holds
    <3>2. Left(f)' = Left(f) /\ Left(f) \in Int
      BY <3>1, Facts DEF Left, Execution
    <3>3. \A t \in Servers : sv'[t].phase = sv[t].phase /\ (sv[t].active = f => sv'[t].active = f)
      BY <1>3, <1>4, NoneAssumption
    <3>4. Course(f)'
      BY <1>1, <3>1, <3>3 DEF Course, Holds
    <3> QED BY <3>1, <3>2, <3>4 DEF Stays
  <2> QED BY <2>1, <2>2
<1>7. ASSUME NEW t \in Servers PROVE Stages(t)'
  <2>1. Stages(t) /\ sv[t] \in Server
    BY DEF LeaseInv, TypeOK
  <2>2. {sv[t].active, sv[t].snap} \ {None} \subseteq Executions
    BY <2>1 DEF Server
  <2>3. e \notin {sv[t].active, sv[t].snap} \ {None}
    BY <1>1, <2>1 DEF Stages, Early
  <2>4. CASE t = s
    BY <1>1, <1>2, <1>4, <2>1, <2>2, <2>4 DEF Stages, Home, Early
  <2>5. CASE t # s
    <3>1. At(t)' = At(t) /\ (\A f \in At(t) : f # e)
      BY <1>1, <1>2, <2>5 DEF At, Home
    <3> QED BY <1>1, <1>4, <2>1, <2>2, <2>3, <2>5, <3>1 DEF Stages, Home, Busy, At
  <2> QED BY <2>4, <2>5
<1> QED BY <1>1, <1>5, <1>6, <1>7 DEF LeaseInv, AllStay

\* A request that has claimed the lease, or not.
LEMMA ClaimStep ==
    ASSUME LeaseInv, NEW e \in Executions, Claim(e)
    PROVE  LeaseInv'
<1>1. /\ sv' = sv /\ pend' = pend /\ ex[e].phase = "claiming" /\ store' \in {store, Claimed(e)}
      /\ ex' \in [Executions -> Execution] /\ \A f \in Executions \ {e} : ex'[f] = ex[f]
      /\ ex'[e].phase \in {"claimed", "abandoning", "finishing"} /\ ex'[e].server = ex[e].server
      /\ ex[e].cancelled => ex'[e].cancelled
      /\ ex'[e].worker = ex[e].worker /\ ex'[e].stop = ex[e].stop
      /\ ex'[e].valid = ex[e].valid /\ ex'[e].slow = ex[e].slow
  BY Facts DEF Claim, Enters, Fails, Execution, Phases
<1>2. Course(e)'
  BY <1>1, Facts DEF Course, Holds, Early, Answers
<1>3. Goes(e)
  BY <1>1, <1>2, Facts DEF Goes, Early, Busy, Home
<1>4. store' \in Store /\ RetainedByOne'
  BY <1>1, ScriptTypes, ScriptsKeepApart DEF LeaseInv, TypeOK
<1> QED BY <1>1, <1>3, <1>4, OwnStep

LEMMA AbandonStep ==
    ASSUME LeaseInv, NEW e \in Executions, Abandon(e)
    PROVE  LeaseInv' /\ AllStay /\ ~ Holds(e) /\ store' \in {Abandoned(e), store}
<1>1. /\ sv' = sv /\ pend' = pend /\ ex[e].phase = "abandoning" /\ store' \in {Abandoned(e), store}
      /\ ex' \in [Executions -> Execution] /\ \A f \in Executions \ {e} : ex'[f] = ex[f]
      /\ ex'[e].phase = "finishing" /\ ex'[e].server = ex[e].server
      /\ ex'[e].cancelled = TRUE
      /\ ex'[e].worker = ex[e].worker /\ ex'[e].stop = ex[e].stop
      /\ ex'[e].valid = ex[e].valid /\ ex'[e].slow = ex[e].slow
  BY Facts DEF Abandon, Fails, Execution, Phases
<1>2. Course(e)'
  BY <1>1, Facts DEF Course, Holds, Early, Answers
<1>3. Goes(e)
  BY <1>1, <1>2, Facts DEF Goes, Early, Busy, Home
<1>4. store' \in Store /\ RetainedByOne'
  BY <1>1, ScriptTypes, ScriptsKeepApart DEF LeaseInv, TypeOK
<1>5. AllStay
  <2> SUFFICES ASSUME NEW f \in Executions PROVE Stays(f)
    BY DEF AllStay
  <2>1. CASE f = e
    BY <1>1, <2>1 DEF Stays, Holds
  <2>2. CASE f # e
    <3>1. ex'[f] = ex[f]
      BY <1>1, <2>2
    <3>2. Left(f)' = Left(f) /\ Left(f) \in Int
      BY <3>1, Facts DEF Left, Execution
    <3> QED BY <3>1, <3>2 DEF Stays, Holds
  <2> QED BY <2>1, <2>2
<1> QED BY <1>1, <1>3, <1>4, <1>5, OwnStep DEF Holds

LEMMA RenewStep ==
    ASSUME LeaseInv, NEW e \in Executions, Renew(e)
    PROVE  LeaseInv'
<1>1. /\ sv' = sv /\ pend' = pend /\ ex[e].worker = "due" /\ store' \in {store, Renewed(e)}
      /\ ex' \in [Executions -> Execution] /\ \A f \in Executions \ {e} : ex'[f] = ex[f]
      /\ ex'[e].phase = ex[e].phase /\ ex'[e].server = ex[e].server
      /\ ex'[e].cancelled = ex[e].cancelled
      /\ ex'[e].worker \in Answers /\ ex'[e].stop = ex[e].stop
      /\ ex'[e].valid = ex[e].valid /\ ex'[e].slow = FALSE
  BY Facts DEF Renew, Answered, Execution, Workers, Answers
<1>2. Course(e)'
  BY <1>1, Facts DEF Course, Holds, Early, Answers
<1>3. Goes(e)
  BY <1>1, <1>2, Facts DEF Goes, Early, Busy, Home
<1>4. store' \in Store /\ RetainedByOne'
  BY <1>1, ScriptTypes, ScriptsKeepApart DEF LeaseInv, TypeOK
<1> QED BY <1>1, <1>3, <1>4, OwnStep
-----------------------------------------------------------------------------
(***************************************************************************)
(* Cancellation, close, crashes.                                           *)
(***************************************************************************)

\* Nothing of the requests changes.
LEMMA SameRequests ==
    ASSUME LeaseInv, ex' = ex
    PROVE  AllStay
<1> SUFFICES ASSUME NEW f \in Executions PROVE Stays(f)
  BY DEF AllStay
<1>1. Left(f)' = Left(f) /\ Left(f) \in Int
  BY Facts DEF Left, Execution
<1> QED BY <1>1 DEF Stays, Holds

LEMMA CancelStep ==
    ASSUME LeaseInv, NEW s \in Servers, Cancel(s)
    PROVE  \E e \in Executions : Continues(e)
<1>1. /\ sv' = sv /\ pend' = pend /\ store.exec # None
      /\ store' = [store EXCEPT !.cancel = Retention]
  BY DEF Cancel
<1>2. CASE ex' = ex
  <2>1. store.exec \in Executions
    BY <1>1 DEF LeaseInv, TypeOK, Store
  <2>2. Course(store.exec)'
    BY <1>1, <1>2, <2>1, Facts DEF Course, Holds
  <2>3. Goes(store.exec)
    BY <1>1, <1>2, <2>1, <2>2, Facts DEF Goes, Busy, Home
  <2>4. Stays(store.exec)
    BY <1>2, <2>1, SameRequests DEF AllStay
  <2> QED BY <1>1, <2>1, <2>3, <2>4 DEF Continues, StoreStays
<1>3. CASE sv[s].active # None /\ ex' = [ex EXCEPT ![sv[s].active].cancelled = TRUE]
  <2>1. PICK e \in Executions : e = sv[s].active
    BY <1>3 DEF LeaseInv, TypeOK, Server
  <2>2. /\ ex' \in [Executions -> Execution] /\ \A f \in Executions \ {e} : ex'[f] = ex[f]
        /\ ex'[e].phase = ex[e].phase /\ ex'[e].server = ex[e].server /\ ex'[e].cancelled = TRUE
        /\ ex'[e].worker = ex[e].worker /\ ex'[e].stop = ex[e].stop
        /\ ex'[e].valid = ex[e].valid /\ ex'[e].slow = ex[e].slow
    BY <1>3, <2>1, Facts DEF Execution
  <2>3. Course(e)'
    BY <1>1, <2>1, <2>2, Facts DEF Course, Holds
  <2>4. Goes(e)
    BY <1>1, <2>1, <2>2, <2>3, Facts DEF Goes, Busy, Home
  <2>5. Stays(e)
    BY <2>2 DEF Stays, Holds
  <2> QED BY <1>1, <2>1, <2>4, <2>5 DEF Continues, StoreStays
<1> QED BY <1>2, <1>3 DEF Cancel

LEMMA CloseSignalsStep ==
    ASSUME LeaseInv, NEW s \in Servers, CloseSignals(s)
    PROVE  \E e \in Executions : Continues(e)
<1>0. PICK e \in Executions : e = sv[s].snap
  BY DEF LeaseInv, TypeOK, Server, CloseSignals
<1>1. /\ sv' = sv /\ pend' = pend /\ store' = store /\ sv[s].phase = "closing"
      /\ ex' = [ex EXCEPT ![e].stop = TRUE]
  BY <1>0 DEF CloseSignals
<1>2. Home(e) = s /\ ex[e].phase \notin Early
  BY <1>0, NoneAssumption DEF LeaseInv, Stages
<1>3. /\ ex' \in [Executions -> Execution] /\ \A f \in Executions \ {e} : ex'[f] = ex[f]
      /\ ex'[e].phase = ex[e].phase /\ ex'[e].server = ex[e].server /\ ex'[e].cancelled = ex[e].cancelled
      /\ ex'[e].worker = ex[e].worker /\ ex'[e].stop = TRUE
      /\ ex'[e].valid = ex[e].valid /\ ex'[e].slow = ex[e].slow
  BY <1>1, <1>2, Facts DEF Execution
<1>4. Course(e)'
  BY <1>1, <1>2, <1>3, Facts DEF Course, Holds, Home, Early
<1>5. Goes(e)
  BY <1>1, <1>2, <1>3, <1>4, Facts DEF Goes, Busy, Home
<1>6. Stays(e)
  <2>1. Left(e)' = Left(e) /\ Left(e) \in Int
    BY <1>2, <1>3, Facts DEF Left, Execution
  <2> QED BY <1>3, <2>1 DEF Stays, Holds
<1> QED BY <1>1, <1>2, <1>5, <1>6 DEF Continues, StoreStays

LEMMA CloseBeginsStep ==
    ASSUME LeaseInv, NEW s \in Servers, CloseBegins(s)
    PROVE  LeaseInv' /\ AllStay /\ store' = store
<1>1. /\ ex' = ex /\ pend' = pend /\ store' = store /\ sv[s].phase = "open"
      /\ sv' = [sv EXCEPT ![s].phase = "closing", ![s].snap = sv[s].active]
  BY DEF CloseBegins
<1>2. /\ sv' \in [Servers -> Server] /\ \A t \in Servers \ {s} : sv'[t] = sv[t]
      /\ sv'[s].phase = "closing" /\ sv'[s].snap = sv[s].active /\ sv'[s].active = sv[s].active
  BY <1>1 DEF LeaseInv, TypeOK, Server
<1>3. ASSUME NEW f \in Executions PROVE Course(f)'
  <2>1. \A t \in Servers : sv'[t].active = sv[t].active /\ (sv[t].phase # "open" => sv'[t].phase # "open")
    BY <1>1, <1>2
  <2> QED BY <1>1, <2>1, Facts DEF Course, Holds
<1>4. Stages(s)'
  BY <1>1, <1>2 DEF LeaseInv, Stages, Home
<1>5. LeaseInv'
  <2>1. store' \in Store /\ RetainedByOne' /\ ex' \in [Executions -> Execution] /\ pend' \subseteq Executions
    BY <1>1 DEF LeaseInv, TypeOK, RetainedByOne
  <2> QED BY <1>1, <1>2, <1>3, <1>4, <2>1, ServerStep DEF Busy
<1> QED BY <1>1, <1>5, SameRequests

LEMMA CloseStopsStep ==
    ASSUME LeaseInv, NEW s \in Servers, CloseStops(s)
    PROVE  LeaseInv' /\ AllStay /\ store' = store
<1> DEFINE e == sv[s].snap
<1>1. /\ pend' = pend /\ store' = store /\ sv[s].phase = "closing"
      /\ sv' = [sv EXCEPT ![s].phase = "draining", ![s].snap = None]
      /\ \/ e = None /\ ex' = ex
         \/ e # None /\ ex' = [ex EXCEPT ![e].cancelled = TRUE]
  BY DEF CloseStops
<1>2. e # None => e \in Executions
  BY DEF LeaseInv, TypeOK, Server
<1>3. sv[s].active \in {None, e}
  BY <1>1 DEF LeaseInv, Stages
<1> HIDE DEF e
<1>4. /\ sv' \in [Servers -> Server] /\ \A t \in Servers \ {s} : sv'[t] = sv[t]
      /\ sv'[s].phase = "draining" /\ sv'[s].snap = None /\ sv'[s].active = sv[s].active
  BY <1>1 DEF LeaseInv, TypeOK, Server
<1>5. /\ ex' \in [Executions -> Execution]
      /\ \A f \in Executions :
            /\ ex'[f].phase = ex[f].phase /\ ex'[f].server = ex[f].server
            /\ ex'[f].worker = ex[f].worker /\ ex'[f].stop = ex[f].stop
            /\ ex'[f].valid = ex[f].valid /\ ex'[f].slow = ex[f].slow
            /\ ex'[f].cancelled = ex[f].cancelled \/ ex'[f].cancelled = TRUE
            /\ f = e => ex'[f].cancelled = TRUE
  <2>1. CASE e = None
    BY <1>1, <2>1, NoneAssumption DEF LeaseInv, TypeOK
  <2>2. CASE e # None
    <3>1. ex' \in [Executions -> Execution] /\ \A f \in Executions \ {e} : ex'[f] = ex[f]
      BY <1>1, <1>2, <2>2, Facts DEF Execution
    <3>2. /\ ex'[e].phase = ex[e].phase /\ ex'[e].server = ex[e].server /\ ex'[e].cancelled = TRUE
          /\ ex'[e].worker = ex[e].worker /\ ex'[e].stop = ex[e].stop
          /\ ex'[e].valid = ex[e].valid /\ ex'[e].slow = ex[e].slow
      BY <1>1, <1>2, <2>2, Facts DEF Execution
    <3> QED BY <3>1, <3>2
  <2> QED BY <2>1, <2>2
<1>6. ASSUME NEW f \in Executions PROVE Course(f)' /\ Stays(f)
  <2>1. \A t \in Servers : sv'[t].active = sv[t].active /\ (sv[t].phase # "open" => sv'[t].phase # "open")
    BY <1>1, <1>4
  <2>2. Holds(f)' => Holds(f)
    BY <1>5 DEF Holds
  <2>3. Course(f)'
    <3>1. /\ ex'[f].phase = ex[f].phase /\ ex'[f].server = ex[f].server /\ pend' = pend
          /\ ex'[f].worker = ex[f].worker /\ ex'[f].stop = ex[f].stop
          /\ ex'[f].valid = ex[f].valid /\ ex'[f].slow = ex[f].slow
          /\ ex[f].cancelled => ex'[f].cancelled
      BY <1>1, <1>5
    <3>2. Course(f)
      BY Facts
    <3>3. CASE ex[f].phase = "idle"
      BY <3>1, <3>2, <3>3, <2>2 DEF Course, Holds
    <3>4. CASE ex[f].phase # "idle"
      <4>1. ex[f].server \in Servers
        BY <3>2, <3>4 DEF Course
      <4>2. /\ sv'[ex[f].server].active = sv[ex[f].server].active
            /\ sv[ex[f].server].phase # "open" => sv'[ex[f].server].phase # "open"
        BY <4>1, <2>1
      <4> QED BY <3>1, <3>2, <3>4, <4>1, <4>2, <2>2 DEF Course
    <3> QED BY <3>3, <3>4
  <2>4. Left(f)' = Left(f) /\ Left(f) \in Int
    BY <1>5, Facts DEF Left, Execution
  <2> QED BY <2>2, <2>3, <2>4 DEF Stays
<1>7. Stages(s)'
  <2>1. Stages(s) /\ sv[s] \in Server
    BY DEF LeaseInv, TypeOK
  <2> QED BY <1>1, <1>3, <1>4, <1>5, <2>1 DEF Stages, Home, Server
<1>8. LeaseInv'
  <2>1. store' \in Store /\ RetainedByOne' /\ pend' \subseteq Executions
    BY <1>1 DEF LeaseInv, TypeOK, RetainedByOne
  <2> QED BY <1>1, <1>4, <1>5, <1>6, <1>7, <2>1, ServerStep DEF Busy
<1> QED BY <1>1, <1>6, <1>8 DEF AllStay
LEMMA CloseDrainsStep ==
    ASSUME LeaseInv, NEW s \in Servers, CloseDrains(s)
    PROVE  LeaseInv' /\ AllStay /\ store' = store
<1>1. /\ ex' = ex /\ pend' = pend /\ store' = store /\ sv[s].phase = "draining"
      /\ sv' = [sv EXCEPT ![s].phase = "orphans", ![s].snap = sv[s].active, ![s].active = None]
      /\ Registering(s) = {}
  BY DEF CloseDrains
<1>2. /\ sv' \in [Servers -> Server] /\ \A t \in Servers \ {s} : sv'[t] = sv[t]
      /\ sv'[s].phase = "orphans" /\ sv'[s].snap = sv[s].active /\ sv'[s].active = None
  BY <1>1 DEF LeaseInv, TypeOK, Server
<1>3. ASSUME NEW f \in Executions PROVE Course(f)'
  <2>1. \A t \in Servers : sv[t].phase # "open" => sv'[t].phase # "open"
    BY <1>1, <1>2
  <2>2. Course(f) /\ (Holds(f)' <=> Holds(f))
    BY <1>1, Facts DEF Holds
  <2>3. CASE ex[f].phase # "idle" /\ ex[f].server = s /\ Holds(f)
    <3>1. ex[f].phase \notin {"claimed", "registered"}
      BY <1>1, <2>3 DEF Registering, Home
    <3>2. ex[f].phase = "executing" /\ ~ ex[f].cancelled
      BY <2>3, <3>1 DEF Holds
    <3>3. sv[s].active = f
      BY <2>2, <2>3, <3>2 DEF Course
    <3>4. ex[f].cancelled
      BY <1>1, <3>3, NoneAssumption DEF LeaseInv, Stages
    <3> QED BY <3>2, <3>4
  <2>4. CASE ~ (ex[f].phase # "idle" /\ ex[f].server = s /\ Holds(f))
    BY <1>1, <1>2, <2>1, <2>2, <2>4 DEF Course, Holds
  <2> QED BY <2>3, <2>4
<1>4. Stages(s)'
  <2>1. Stages(s)
    BY DEF LeaseInv
  <2> QED BY <1>1, <1>2, <2>1 DEF Stages, Home
<1>5. LeaseInv'
  <2>1. store' \in Store /\ RetainedByOne' /\ ex' \in [Executions -> Execution] /\ pend' \subseteq Executions
    BY <1>1 DEF LeaseInv, TypeOK, RetainedByOne
  <2> QED BY <1>1, <1>2, <1>3, <1>4, <2>1, ServerStep DEF Busy
<1> QED BY <1>1, <1>5, SameRequests

\* What is in the table in the end is completed; its request is cancelled.
LEMMA CloseFinalizesStep ==
    ASSUME LeaseInv, NEW s \in Servers, CloseFinalizes(s)
    PROVE  /\ LeaseInv' /\ AllStay
           /\ store' = store \/ \E e \in Executions : store' = Completed(e) /\ ~ Holds(e)
<1>1. /\ ex' = ex /\ sv[s].phase = "orphans"
      /\ sv' = [sv EXCEPT ![s].phase = "waiting", ![s].snap = None]
  BY DEF CloseFinalizes
<1>2. \/ store' = store /\ pend' = pend
      \/ \E e \in Executions :
            /\ Home(e) = s /\ ex[e].cancelled
            /\ store' \in {store, Completed(e)}
            /\ pend' \subseteq pend \cup {e}
  <2>1. Stages(s) /\ sv[s] \in Server
    BY DEF LeaseInv, TypeOK
  <2>2. CASE sv[s].snap = None
    BY <2>2 DEF CloseFinalizes
  <2>3. CASE sv[s].snap # None
    <3>1. sv[s].snap \in Executions /\ Home(sv[s].snap) = s /\ ex[sv[s].snap].cancelled
      BY <1>1, <2>1, <2>3 DEF Stages, Server
    <3>2. Completing(sv[s].snap)
      BY <2>3 DEF CloseFinalizes
    <3>3. /\ store' \in {store, Completed(sv[s].snap)}
          /\ pend' \subseteq pend \cup {sv[s].snap}
      BY <3>2 DEF Completing, Enqueued
    <3> QED BY <3>1, <3>3
  <2> QED BY <2>2, <2>3
<1>3. /\ sv' \in [Servers -> Server] /\ \A t \in Servers \ {s} : sv'[t] = sv[t]
      /\ sv'[s].phase = "waiting" /\ sv'[s].snap = None /\ sv'[s].active = sv[s].active
  BY <1>1 DEF LeaseInv, TypeOK, Server
<1>4. \A f \in Executions : f \in pend' => f \in pend \/ (ex[f].cancelled /\ Home(f) = s)
  BY <1>2
<1>5. ASSUME NEW f \in Executions PROVE Course(f)'
  <2>1. \A t \in Servers : sv'[t].active = sv[t].active /\ (sv[t].phase # "open" => sv'[t].phase # "open")
    BY <1>1, <1>3
  <2> QED BY <1>1, <1>4, <2>1, Facts DEF Course, Holds
<1>6. Stages(s)'
  <2>1. Stages(s)
    BY DEF LeaseInv
  <2> QED BY <1>1, <1>3, <2>1 DEF Stages, Home
<1>7. store' \in Store /\ RetainedByOne' /\ pend' \subseteq Executions
  BY <1>2, ScriptTypes, ScriptsKeepApart DEF LeaseInv, TypeOK, RetainedByOne
<1>8. LeaseInv'
  <2>1. \A f \in Executions : f \in pend' => f \in pend \/ sv[Home(f)].phase # "closed"
    BY <1>1, <1>4
  <2>2. ex' \in [Executions -> Execution]
    BY <1>1 DEF LeaseInv, TypeOK
  <2> QED BY <1>1, <1>3, <1>5, <1>6, <1>7, <2>1, <2>2, ServerStep DEF Busy
<1> QED BY <1>1, <1>2, <1>8, SameRequests DEF Holds

LEMMA CloseReturnsStep ==
    ASSUME LeaseInv, NEW s \in Servers, CloseReturns(s)
    PROVE  LeaseInv' /\ AllStay /\ store' = store
<1>1. /\ ex' = ex /\ pend' = pend \ At(s) /\ store' = store /\ sv[s].phase = "waiting"
      /\ sv' = [sv EXCEPT ![s].phase = "closed"]
      /\ \A e \in At(s) : ~ Busy(e)
  BY DEF CloseReturns
<1>2. /\ sv' \in [Servers -> Server] /\ \A t \in Servers \ {s} : sv'[t] = sv[t]
      /\ sv'[s].phase = "closed" /\ sv'[s].snap = sv[s].snap /\ sv'[s].active = sv[s].active
  BY <1>1 DEF LeaseInv, TypeOK, Server
<1>3. ASSUME NEW f \in Executions PROVE Course(f)'
  <2>1. \A t \in Servers : sv'[t].active = sv[t].active /\ (sv[t].phase # "open" => sv'[t].phase # "open")
    BY <1>1, <1>2
  <2> QED BY <1>1, <2>1, Facts DEF Course, Holds
<1>4. Stages(s)'
  <2>1. Stages(s)
    BY DEF LeaseInv
  <2> QED BY <1>1, <1>2, <2>1 DEF Stages, Home, Busy, At
<1>5. LeaseInv'
  <2>1. store' \in Store /\ RetainedByOne' /\ ex' \in [Executions -> Execution] /\ pend' \subseteq Executions
    BY <1>1 DEF LeaseInv, TypeOK, RetainedByOne
  <2> QED BY <1>1, <1>2, <1>3, <1>4, <2>1, ServerStep DEF Busy
<1> QED BY <1>1, <1>5, SameRequests

LEMMA CrashStep ==
    ASSUME LeaseInv, NEW s \in Servers, Crash(s)
    PROVE  LeaseInv' /\ AllStay /\ store' = store
<1>1. /\ pend' = pend \ At(s) /\ store' = store
      /\ sv' = [sv EXCEPT ![s] = [NewServer EXCEPT !.phase = "crashed"]]
      /\ ex' = [e \in Executions |->
                   IF e \in At(s) THEN [NewExecution EXCEPT !.phase = "gone", !.server = s] ELSE ex[e]]
  BY DEF Crash
<1>2. /\ sv' \in [Servers -> Server] /\ \A t \in Servers \ {s} : sv'[t] = sv[t]
      /\ sv'[s].phase = "crashed" /\ sv'[s].snap = None /\ sv'[s].active = None
  BY <1>1 DEF LeaseInv, TypeOK, Server, NewServer
<1>3. /\ \A f \in Executions : f \notin At(s) => ex'[f] = ex[f]
      /\ \A f \in At(s) :
            /\ ex'[f].phase = "gone" /\ ex'[f].server = ex[f].server /\ ex'[f].worker = "none"
            /\ ~ ex'[f].stop /\ ~ ex'[f].slow /\ f \notin pend'
            /\ ex[f].server = s
  BY <1>1 DEF NewExecution, At, Home
<1>4. ex' \in [Executions -> Execution]
  <2>1. 0 \in 0 .. LeaseTTL
    BY TTLAssumption
  <2>2. [NewExecution EXCEPT !.phase = "gone", !.server = s] \in Execution
    BY <2>1 DEF NewExecution, Execution, Phases, Workers
  <2> QED BY <1>1, <2>2 DEF LeaseInv, TypeOK
<1>5. ASSUME NEW f \in Executions PROVE Course(f)' /\ Stays(f)
  <2>1. CASE f \in At(s)
    BY <1>3, <2>1 DEF Course, Holds, Early, Stays
  <2>2. CASE f \notin At(s)
    <3>1. ex'[f] = ex[f] /\ ex[f].server # s /\ Course(f) /\ (f \in pend' => f \in pend)
      BY <1>1, <1>3, <2>2, Facts DEF At, Home
    <3>2. Left(f)' = Left(f) /\ Left(f) \in Int
      BY <3>1, Facts DEF Left, Execution
    <3> QED BY <1>2, <3>1, <3>2 DEF Course, Holds, Stays
  <2> QED BY <2>1, <2>2
<1>6. ASSUME NEW t \in Servers PROVE Stages(t)'
  <2>1. CASE t = s
    BY <1>2, <2>1 DEF Stages
  <2>2. CASE t # s
    <3>1. Stages(t) /\ sv'[t] = sv[t] /\ sv[t] \in Server
      BY <1>2, <2>2 DEF LeaseInv, TypeOK
    <3>2. {sv[t].active, sv[t].snap} \ {None} \subseteq Executions
      BY <3>1 DEF Server
    <3>3. \A f \in {sv[t].active, sv[t].snap} \ {None} : f \notin At(s) /\ ex'[f] = ex[f]
      BY <1>3, <2>2, <3>1, <3>2 DEF Stages, At
    <3>4. \A f \in At(t)' : f \in At(t) /\ f \notin At(s) /\ ex'[f] = ex[f] /\ (f \in pend' => f \in pend)
      BY <1>1, <1>3, <2>2 DEF At, Home
    <3> QED BY <3>1, <3>3, <3>4 DEF Stages, Home, Busy
  <2> QED BY <2>1, <2>2
<1>7. TypeOK' /\ RetainedByOne'
  BY <1>1, <1>2, <1>4 DEF LeaseInv, TypeOK, RetainedByOne
<1> QED BY <1>1, <1>5, <1>6, <1>7 DEF LeaseInv, AllStay
\* An interval passes: the deadlines of the store and of the workers come closer.
LEMMA TickStep ==
    ASSUME LeaseInv, Tick
    PROVE  /\ LeaseInv'
           /\ \A e \in Executions : Holds(e)' => Holds(e) /\ Left(e)' + 1 <= Left(e)
           /\ Punctual
<1>1. /\ sv' = sv /\ pend' = pend /\ Punctual
      /\ store' = [exec |-> IF store.lease > 1 THEN store.exec ELSE None,
                   lease |-> Elapsed(store.lease), owner |-> Elapsed(store.owner),
                   cancel |-> Elapsed(store.cancel), kept |-> Elapsed(store.kept),
                   authors |-> IF store.kept > 1 THEN store.authors ELSE {}]
      /\ ex' = [e \in Executions |->
                   [ex[e] EXCEPT !.valid = Elapsed(@), !.slow = InTransit(e),
                                 !.worker = IF @ = "idle" THEN "due" ELSE @]]
  BY DEF Tick
<1>2. ASSUME NEW n \in Nat, NEW m \in 0 .. n PROVE Elapsed(m) \in 0 .. n
  BY DEF Elapsed
<1>3. store' \in Store
  BY <1>1, <1>2, TTLAssumption DEF LeaseInv, TypeOK, Store
<1>4. RetainedByOne'
  BY <1>1 DEF LeaseInv, RetainedByOne
<1>5. ASSUME NEW e \in Executions
      PROVE  /\ ex'[e] \in Execution
             /\ ex'[e].phase = ex[e].phase /\ ex'[e].server = ex[e].server
             /\ ex'[e].cancelled = ex[e].cancelled /\ ex'[e].stop = ex[e].stop
             /\ ex'[e].worker = (IF ex[e].worker = "idle" THEN "due" ELSE ex[e].worker)
             /\ ex'[e].valid = Elapsed(ex[e].valid)
             /\ ex'[e].slow <=> InTransit(e)
  <2>1. Elapsed(ex[e].valid) \in 0 .. LeaseTTL /\ InTransit(e) \in BOOLEAN /\ ex[e] \in Execution
    BY <1>2, Facts DEF Execution, InTransit
  <2>2. /\ ex'[e] \in Execution
        /\ ex'[e].phase = ex[e].phase /\ ex'[e].server = ex[e].server
        /\ ex'[e].cancelled = ex[e].cancelled /\ ex'[e].stop = ex[e].stop
        /\ ex'[e].worker = (IF ex[e].worker = "idle" THEN "due" ELSE ex[e].worker)
        /\ ex'[e].valid = Elapsed(ex[e].valid)
        /\ ex'[e].slow = InTransit(e)
    BY <1>1, <2>1 DEF Execution, Workers
  <2> QED BY <2>2
<1>6. ex' \in [Executions -> Execution]
  BY <1>1, <1>5
<1>7. ASSUME NEW e \in Executions PROVE Course(e)' /\ (Holds(e)' <=> Holds(e))
  <2>1. /\ ex'[e].phase = ex[e].phase /\ ex'[e].server = ex[e].server
        /\ ex'[e].cancelled = ex[e].cancelled /\ ex'[e].stop = ex[e].stop
        /\ ex'[e].worker = (IF ex[e].worker = "idle" THEN "due" ELSE ex[e].worker)
        /\ ex'[e].slow => ex[e].phase = "claimed" \/ ex[e].worker \in Answers
        /\ sv' = sv /\ pend' = pend
    BY <1>1, <1>5 DEF InTransit
  <2>2. Holds(e)' <=> Holds(e)
    BY <2>1 DEF Holds
  <2>3. Course(e)
    BY Facts
  <2> QED BY <2>1, <2>2, <2>3 DEF Course, Answers, Early
<1>8. ASSUME NEW s \in Servers PROVE Stages(s)'
  <2>1. Stages(s) /\ sv'[s] = sv[s] /\ sv[s] \in Server
    BY <1>1 DEF LeaseInv, TypeOK
  <2>2. {sv[s].active, sv[s].snap} \ {None} \subseteq Executions
    BY <2>1 DEF Server
  <2>3. At(s)' = At(s)
    BY <1>5 DEF At, Home
  <2>4. \A e \in At(s) : (Busy(e)' <=> Busy(e)) /\ e \in Executions
    BY <1>5 DEF Busy, At
  <2>5. \A e \in {sv[s].active, sv[s].snap} \ {None} :
          ex'[e].phase = ex[e].phase /\ ex'[e].server = ex[e].server /\ ex'[e].cancelled = ex[e].cancelled
    BY <1>5, <2>2
  <2>6. sv[s].phase = "closed" => \A e \in At(s)' : ~ Busy(e)' /\ e \notin pend'
    BY <1>1, <2>1, <2>3, <2>4 DEF Stages
  <2>7. \A e \in {sv[s].active, sv[s].snap} \ {None} : Home(e)' = s /\ ex'[e].phase \notin Early
    BY <2>1, <2>5 DEF Stages, Home
  <2>8. /\ sv[s].phase = "draining" /\ sv[s].active # None => ex'[sv[s].active].cancelled
        /\ sv[s].phase = "orphans" /\ sv[s].snap # None => ex'[sv[s].snap].cancelled
    BY <2>1, <2>5 DEF Stages
  <2>9. /\ sv[s].phase = "closing" => sv[s].active \in {None, sv[s].snap}
        /\ sv[s].phase \in {"orphans", "waiting", "closed", "crashed"} => sv[s].active = None
    BY <2>1 DEF Stages
  <2> QED BY <1>1, <2>6, <2>7, <2>8, <2>9 DEF Stages
<1>9. LeaseInv'
  BY <1>1, <1>3, <1>4, <1>6, <1>7, <1>8 DEF LeaseInv, TypeOK
<1>10. ASSUME NEW e \in Executions, Holds(e) PROVE Left(e)' + 1 <= Left(e)
  <2>1. /\ ex[e].worker # "due" /\ ~ (InTransit(e) /\ ex[e].slow) /\ ~ ToBeCancelled(e)
        /\ Course(e) /\ ex[e] \in Execution /\ ex[e].valid \in Nat /\ LeaseTTL \in Nat
    BY <1>1, Facts DEF Punctual
  <2>2. ex[e].phase = "claimed" \/ ex[e].worker \in {"idle"} \cup Answers
    <3>1. CASE ex[e].phase # "claimed"
      <4>1. ex[e].phase \in {"registered", "executing"} /\ ~ ex[e].cancelled
        BY <1>10, <3>1 DEF Holds
      <4>2. sv[Home(e)].phase = "open"
        BY <2>1, <4>1 DEF ToBeCancelled
      <4>3. ex[e].worker \notin {"none", "finalizing", "done", "due"}
        BY <1>10, <2>1, <3>1, <4>2 DEF Course, Home
      <4> QED BY <2>1, <4>3 DEF Execution, Workers
    <3> QED BY <3>1
  <2>3. CASE ex[e].phase = "claimed"
    <3>1. ~ ex[e].slow /\ ex'[e].slow /\ ex'[e].phase = "claimed"
      BY <1>5, <2>1, <2>3 DEF InTransit
    <3> QED BY <2>1, <2>3, <3>1 DEF Left
  <2>4. CASE ex[e].phase # "claimed" /\ ex[e].worker = "idle"
    <3>1. ex[e].valid > 0 /\ ~ ex[e].slow
      BY <2>1, <2>4 DEF Course, Answers
    <3>2. ex'[e].valid = ex[e].valid - 1 /\ ex'[e].worker = "due" /\ ~ ex'[e].slow
      BY <1>5, <2>1, <2>4, <3>1 DEF Elapsed, InTransit, Answers
    <3> QED BY <1>5, <2>1, <2>4, <3>1, <3>2 DEF Left
  <2>5. CASE ex[e].phase # "claimed" /\ ex[e].worker \in Answers
    <3>1. ~ ex[e].slow /\ ex'[e].slow /\ ex'[e].worker = ex[e].worker /\ ex'[e].phase # "claimed"
      BY <1>5, <2>1, <2>5 DEF InTransit, Answers
    <3>2. ex'[e].valid = (IF ex[e].valid > 0 THEN ex[e].valid - 1 ELSE 0)
      BY <1>5 DEF Elapsed
    <3> QED BY <2>1, <2>5, <3>1, <3>2 DEF Left
  <2> QED BY <2>2, <2>3, <2>4, <2>5
<1> QED BY <1>1, <1>7, <1>9, <1>10

-----------------------------------------------------------------------------
(***************************************************************************)
(* One holder.                                                             *)
(***************************************************************************)

\* Time takes as much from the holder as from the keys.
LEMMA TickKeepsAlone ==
    ASSUME LeaseInv, Tick, Alone
    PROVE  Alone' /\ \A e \in Executions : Released(e) => store.lease <= 1
<1>1. /\ store'.exec = (IF store.lease > 1 THEN store.exec ELSE None)
      /\ store'.lease = Elapsed(store.lease) /\ store'.owner = Elapsed(store.owner)
      /\ store.lease \in Nat /\ store.owner \in Nat
  <2>1. store' = [exec |-> IF store.lease > 1 THEN store.exec ELSE None,
                  lease |-> Elapsed(store.lease), owner |-> Elapsed(store.owner),
                  cancel |-> Elapsed(store.cancel), kept |-> Elapsed(store.kept),
                  authors |-> IF store.kept > 1 THEN store.authors ELSE {}]
    BY DEF Tick
  <2>2. store.lease \in Nat /\ store.owner \in Nat
    BY TTLAssumption DEF LeaseInv, TypeOK, Store
  <2> QED BY <2>1, <2>2
<1>2. ASSUME NEW e \in Executions, Holds(e)' PROVE Guarded(e)'
  <2>1. Holds(e) /\ Left(e)' + 1 <= Left(e) /\ Guarded(e) /\ Left(e) \in Nat /\ e # None
    BY <1>2, TickStep, LeftTyped, NoneAssumption DEF Alone
  <2>2. Left(e)' \in Nat
    BY TickStep, TTLAssumption DEF LeaseInv, TypeOK, Left, Execution
  <2> QED BY <1>1, <2>1, <2>2 DEF Guarded, Elapsed
<1>3. OneHolder'
  BY TickStep DEF Alone, OneHolder
<1> QED BY <1>1, <1>2, <1>3 DEF Alone, Guarded, Released

\* Nobody can claim while somebody holds.
LEMMA ClaimKeepsAlone ==
    ASSUME LeaseInv, LeaseInv', Alone, KeysOutlive, NEW e \in Executions, Claim(e)
    PROVE  Alone'
<1>0. ~ Holds(e) /\ ~ ex[e].slow
  BY Facts DEF Claim, Holds, Course, Early, Answers
<1>1. /\ \A f \in Executions \ {e} : ex'[f] = ex[f]
      /\ \/ store' = store /\ ex'[e].phase \in {"abandoning", "finishing"}
         \/ CanClaim(e) /\ store' = Claimed(e) /\ ex'[e].phase \in {"claimed", "abandoning"}
      /\ ex'[e].slow = ex[e].slow
  BY Facts DEF Claim, Enters, Fails, Execution
<1>2. ASSUME NEW f \in Executions, f # e
      PROVE  (Holds(f)' <=> Holds(f)) /\ Left(f)' = Left(f)
  BY <1>1, <1>2 DEF Holds, Left
<1>3. CASE ex'[e].phase # "claimed" /\ store' = store
  <2>1. ~ Holds(e)'
    BY <1>1, <1>3 DEF Holds
  <2> QED BY <1>2, <1>3, <2>1 DEF Alone, OneHolder, Guarded
<1>4. CASE CanClaim(e) /\ store' = Claimed(e)
  <2>1. \A f \in Executions \ {e} : ~ Holds(f)
    <3> SUFFICES ASSUME NEW f \in Executions \ {e}, Holds(f) PROVE FALSE
      OBVIOUS
    <3>1. store.exec \in {None, f} /\ store.owner > Left(f) /\ Left(f) \in Nat
      BY LeftTyped DEF Alone, Guarded
    <3>2. store.owner \in Nat
      BY TTLAssumption DEF LeaseInv, TypeOK, Store
    <3> QED BY <1>4, <3>1, <3>2, NoneAssumption DEF CanClaim
  <2>2. store'.exec = e /\ store'.lease = LeaseTTL /\ store'.owner = OwnerTTL
    BY <1>4 DEF Claimed, NoKeys, LeaseInv, TypeOK, Store
  <2>3. ex'[e].phase = "claimed" => Left(e)' = LeaseTTL + 2
    BY <1>0, <1>1 DEF Left
  <2>4. Guarded(e)'
    BY <1>4, <1>1, <2>2, <2>3, TTLAssumption DEF Guarded, KeysOutlive, Holds
  <2> QED BY <1>2, <2>1, <2>4 DEF Alone, OneHolder, Guarded
<1> QED BY <1>1, <1>3, <1>4

\* Only the request itself gives up what it has claimed.
LEMMA AbandonKeepsAlone ==
    ASSUME LeaseInv, LeaseInv', Alone, NEW e \in Executions, Abandon(e)
    PROVE  Alone'
<1>1. AllStay /\ ~ Holds(e) /\ store' \in {Abandoned(e), store}
  BY AbandonStep
<1>2. ASSUME NEW f \in Executions, Holds(f)' PROVE Guarded(f)'
  <2>1. Holds(f) /\ Left(f)' <= Left(f) /\ Guarded(f) /\ f # e
    BY <1>1, <1>2 DEF AllStay, Stays, Alone
  <2>2. store' = store
    BY <1>1, <2>1, NoneAssumption DEF Abandoned, Guarded
  <2>3. Left(f) \in Nat /\ Left(f)' \in Nat /\ store.owner \in Nat /\ store.lease \in Nat
    BY LeftTyped, TTLAssumption DEF LeaseInv, TypeOK, Left, Execution, Store
  <2> QED BY <2>1, <2>2, <2>3 DEF Guarded
<1> QED BY <1>1, <1>2 DEF Alone, OneHolder, Guarded, AllStay, Stays

LEMMA RenewKeepsAlone ==
    ASSUME LeaseInv, LeaseInv', Alone, KeysOutlive, NEW e \in Executions, Renew(e)
    PROVE  Alone'
<1>1. /\ \A f \in Executions \ {e} : ex'[f] = ex[f]
      /\ ex'[e].phase = ex[e].phase /\ ex'[e].cancelled = ex[e].cancelled
      /\ ex'[e].valid = ex[e].valid /\ ~ ex'[e].slow
      /\ \/ store' = store /\ ex'[e].worker \in {"no", "error"}
         \/ store.exec = e /\ store' = Renewed(e)
      /\ ~ ex[e].slow /\ ex[e].worker = "due" /\ ex[e].phase # "claimed"
  BY Facts DEF Renew, Answered, CanRenew, Execution, Course, Early, Answers
<1>2. ASSUME NEW f \in Executions
      PROVE  (Holds(f)' <=> Holds(f)) /\ (f # e => Left(f)' = Left(f))
  BY <1>1 DEF Holds, Left
<1>3. CASE store' = store /\ ex'[e].worker \in {"no", "error"}
  <2>1. Left(e)' = Left(e)
    BY <1>1, <1>3 DEF Left
  <2> QED BY <1>2, <1>3, <2>1 DEF Alone, OneHolder, Guarded
<1>4. CASE store.exec = e /\ store' = Renewed(e)
  <2>1. store'.exec = e /\ store'.lease = LeaseTTL /\ store'.owner = OwnerTTL
    BY <1>4 DEF Renewed, LeaseInv, TypeOK, Store
  <2>2. Left(e)' <= LeaseTTL + 2
    BY <1>1, Facts DEF Left, Execution
  <2>3. Left(e)' \in Nat
    BY TTLAssumption DEF LeaseInv, TypeOK, Left, Execution
  <2>4. Guarded(e)'
    BY <2>1, <2>2, <2>3, TTLAssumption DEF Guarded, KeysOutlive
  <2>5. \A f \in Executions \ {e} : ~ Holds(f)
    BY <1>4, NoneAssumption DEF Alone, Guarded
  <2> QED BY <1>2, <2>4, <2>5 DEF Alone, OneHolder, Guarded
<1> QED BY <1>1, <1>3, <1>4
-----------------------------------------------------------------------------
(***************************************************************************)
(* Every step.                                                             *)
(***************************************************************************)

\* What a step keeps, and whose lease it may release.
Keeps ==
    /\ LeaseInv'
    /\ Alone /\ KeysOutlive => Alone'
    /\ \A e \in Executions : Released(e) => store.lease <= 1

LEMMA AllStayKeeps ==
    ASSUME LeaseInv, LeaseInv', AllStay, store' = store
    PROVE  Keeps
<1>1. CASE Executions = {}
  BY <1>1 DEF Keeps, Alone, OneHolder
<1>2. CASE Executions # {}
  <2>1. PICK e \in Executions : TRUE
    BY <1>2
  <2>2. StoreStays(e)
    BY DEF StoreStays
  <2> QED BY <2>1, <2>2, StoreStaysKeeps DEF Keeps
<1> QED BY <1>1, <1>2

LEMMA ContinuingKeeps ==
    ASSUME LeaseInv, NEW e \in Executions, Continues(e)
    PROVE  Keeps
<1>1. LeaseInv' /\ AllStay /\ StoreStays(e)
  BY ContinuesKeeps DEF Continues
<1> QED BY <1>1, StoreStaysKeeps DEF Keeps

LEMMA RequestKeeps ==
    ASSUME LeaseInv, NEW e \in Executions,
           \/ \E s \in Servers : Acquire(e, s)
           \/ Registration(e) \/ Generating(e) \/ RunEnds(e) \/ Renewing(e) \/ Finishing(e)
           \/ CompleteInBackground(e) \/ GiveUpCompletion(e) \/ LifecycleCancels(e)
    PROVE  Keeps
<1>1. CASE \E s \in Servers : Acquire(e, s)
  BY <1>1, AcquireStep, AllStayKeeps
<1>2. CASE Insert(e)
  BY <1>2, InsertStep, AllStayKeeps
<1>3. CASE Claim(e)
  <2>1. LeaseInv'
    BY <1>3, ClaimStep
  <2>2. Alone /\ KeysOutlive => Alone'
    BY <1>3, <2>1, ClaimKeepsAlone
  <2>3. store' = store \/ store'.exec = e
    BY <1>3 DEF Claim, Claimed, NoKeys, LeaseInv, TypeOK, Store
  <2>4. ~ Holds(e) /\ (store' = store \/ store.exec \in {None, e})
    BY <1>3 DEF Claim, CanClaim, Holds
  <2> QED BY <2>1, <2>2, <2>3, <2>4, NoneAssumption DEF Keeps, Released
<1>4. CASE Abandon(e)
  <2>1. LeaseInv' /\ ~ Holds(e) /\ store' \in {Abandoned(e), store}
    BY <1>4, AbandonStep
  <2>2. Alone /\ KeysOutlive => Alone'
    BY <1>4, <2>1, AbandonKeepsAlone
  <2> QED BY <2>1, <2>2 DEF Keeps, Released, Abandoned
<1>5. CASE Renew(e)
  <2>1. LeaseInv'
    BY <1>5, RenewStep
  <2>2. Alone /\ KeysOutlive => Alone'
    BY <1>5, <2>1, RenewKeepsAlone
  <2>3. store'.exec = store.exec
    BY <1>5 DEF Renew, Renewed, LeaseInv, TypeOK, Store
  <2> QED BY <2>1, <2>2, <2>3 DEF Keeps, Released
<1>6. CASE \/ Register(e) \/ InsertRefused(e) \/ Start(e) \/ Generating(e) \/ RunEnds(e)
           \/ RenewReturns(e) \/ Lapse(e) \/ WorkerFinalizes(e) \/ WorkerStops(e) \/ Finishing(e)
           \/ CompleteInBackground(e) \/ GiveUpCompletion(e) \/ LifecycleCancels(e)
  <2>1. Continues(e)
    BY <1>6, RegisterStep, InsertRefusedStep, StartStep, PublishStep, PublishRefusedStep,
       ResetEventsStep, ObserveCancelStep, RunEndsStep, RenewReturnsStep, LapseStep,
       WorkerFinalizesStep, WorkerStopsStep, FinishStep, WorkerStoppedStep, FinishCompletesStep,
       CompleteInBackgroundStep, GiveUpCompletionStep, LifecycleCancelsStep
       DEF Generating, Finishing
  <2> QED BY <2>1, ContinuingKeeps
<1> QED BY <1>1, <1>2, <1>3, <1>4, <1>5, <1>6 DEF Registration, Renewing

LEMMA ServerKeeps ==
    ASSUME LeaseInv, NEW s \in Servers, Cancel(s) \/ CloseBegins(s) \/ Closing(s) \/ Crash(s)
    PROVE  Keeps
<1>1. CASE Cancel(s) \/ CloseSignals(s)
  BY <1>1, CancelStep, CloseSignalsStep, ContinuingKeeps
<1>2. CASE CloseBegins(s) \/ CloseStops(s) \/ CloseDrains(s) \/ CloseReturns(s) \/ Crash(s)
  BY <1>2, CloseBeginsStep, CloseStopsStep, CloseDrainsStep, CloseReturnsStep, CrashStep, AllStayKeeps
<1>3. CASE CloseFinalizes(s)
  <2>1. LeaseInv' /\ AllStay
    BY <1>3, CloseFinalizesStep
  <2>2. store' = store \/ \E e \in Executions : StoreStays(e)
    BY <1>3, CloseFinalizesStep DEF StoreStays
  <2>3. CASE store' = store
    BY <2>1, <2>3, AllStayKeeps
  <2>4. CASE \E e \in Executions : StoreStays(e)
    BY <2>1, <2>4, StoreStaysKeeps DEF Keeps
  <2> QED BY <2>2, <2>3, <2>4
<1> QED BY <1>1, <1>2, <1>3 DEF Closing

LEMMA NextKeeps ==
    ASSUME LeaseInv, [Next]_vars
    PROVE  Keeps
<1>1. CASE \E e \in Executions :
             \/ \E s \in Servers : Acquire(e, s)
             \/ Registration(e) \/ Generating(e) \/ RunEnds(e) \/ Renewing(e) \/ Finishing(e)
             \/ CompleteInBackground(e) \/ GiveUpCompletion(e) \/ LifecycleCancels(e)
  BY <1>1, RequestKeeps
<1>2. CASE \E s \in Servers : Cancel(s) \/ CloseBegins(s) \/ Closing(s) \/ Crash(s)
  BY <1>2, ServerKeeps
<1>3. CASE Tick
  <2>1. LeaseInv' /\ (Alone => Alone')
    BY <1>3, TickStep, TickKeepsAlone
  <2>2. \A e \in Executions : Released(e) => store.lease <= 1
    <3>1. store'.exec = store.exec \/ ~ (store.lease > 1)
      BY <1>3 DEF Tick
    <3>2. store.lease \in Nat
      BY TTLAssumption DEF LeaseInv, TypeOK, Store
    <3> QED BY <3>1, <3>2 DEF Released
  <2> QED BY <2>1, <2>2 DEF Keeps
<1>4. CASE UNCHANGED vars
  <2>1. store' = store /\ ex' = ex /\ sv' = sv /\ pend' = pend
    BY <1>4 DEF vars
  <2>2. LeaseInv'
    BY <2>1 DEF LeaseInv, TypeOK, RetainedByOne, Course, Stages, Holds, Home, Busy, At
  <2> QED BY <2>1, <2>2, SameRequests, AllStayKeeps
<1> QED BY <1>1, <1>2, <1>3, <1>4 DEF Next

\* Nothing is claimed, no server is closed.
LEMMA InitKeeps == Init => LeaseInv /\ Alone
<1> SUFFICES ASSUME Init PROVE LeaseInv /\ Alone
  OBVIOUS
<1>1. /\ store = NoKeys /\ ex = [e \in Executions |-> NewExecution]
      /\ sv = [s \in Servers |-> NewServer] /\ pend = {}
  BY DEF Init
<1>2. 0 \in 0 .. LeaseTTL /\ 0 \in 0 .. OwnerTTL /\ 0 \in 0 .. Retention
  BY TTLAssumption
<1>3. NoKeys \in Store /\ NewExecution \in Execution /\ NewServer \in Server
  BY <1>2 DEF NoKeys, Store, NewExecution, Execution, Phases, Workers, NewServer, Server
<1>4. TypeOK
  BY <1>1, <1>3 DEF TypeOK
<1>5. RetainedByOne
  BY <1>1 DEF RetainedByOne, NoKeys
<1>6. ASSUME NEW e \in Executions PROVE Course(e) /\ ~ Holds(e)
  BY <1>1 DEF Course, Holds, NewExecution, Early
<1>7. ASSUME NEW s \in Servers PROVE Stages(s)
  BY <1>1 DEF Stages, NewServer
<1> QED BY <1>4, <1>5, <1>6, <1>7 DEF LeaseInv, Alone, OneHolder, Guarded

-----------------------------------------------------------------------------
(***************************************************************************)
(* The theorems.                                                           *)
(***************************************************************************)

\* What the phases of requests and the stages of close say of each other stays
\* true, whatever calls fail and whichever servers crash: the inductive invariant.
THEOREM LeaseInvariant == Spec => []LeaseInv
<1>1. LeaseInv /\ [Next]_vars => LeaseInv'
  BY NextKeeps DEF Keeps
<1> QED BY <1>1, InitKeeps, PTL DEF Spec

\* The retained events are those of one execution, the holder if there is one,
\* and all keys keep their types and times to live (the scripts of infra/cache).
THEOREM StoreStaysRight == Spec => []StoreOK
<1>1. LeaseInv => StoreOK
  BY DEF LeaseInv, StoreOK
<1> QED BY <1>1, LeaseInvariant, PTL

\* Once close has returned, nothing on the server generates, renews, holds a
\* table entry or waits to be completed (generationStreamRegistry.close).
THEOREM ClosedStaysQuiet == Spec => []ClosedIsQuiet
<1>1. LeaseInv => ClosedIsQuiet
  <2> SUFFICES ASSUME LeaseInv, NEW s \in Servers, sv[s].phase = "closed"
               PROVE  /\ sv[s].active = None
                      /\ \A e \in At(s) : ~ Executing(e) /\ ~ Busy(e) /\ e \notin pend
    BY DEF ClosedIsQuiet
  <2>1. sv[s].active = None /\ \A e \in At(s) : ~ Busy(e) /\ e \notin pend
    BY DEF LeaseInv, Stages
  <2>2. ASSUME NEW e \in At(s), Executing(e) PROVE FALSE
    <3>1. e \in Executions /\ ex[e].server = s
      BY DEF At, Home
    <3>2. sv[s].active = e
      BY <2>2, <3>1, Facts DEF Executing, Course, Holds
    <3> QED BY <2>1, <3>1, <3>2, NoneAssumption
  <2> QED BY <2>1, <2>2
<1> QED BY <1>1, LeaseInvariant, PTL

\* The lease of a request that is registering or generating is not released by
\* anybody else, however late completions and abandonments arrive.
THEOREM LeasesAreNotTaken == Spec => OnlyHolderReleases
<1>1. LeaseInv /\ [Next]_vars =>
         [\A e \in Executions :
             store.exec = e /\ Holds(e) /\ store'.exec # e => store.lease <= 1]_vars
  BY NextKeeps DEF Keeps, Released
<1> QED BY <1>1, LeaseInvariant, PTL DEF Spec, OnlyHolderReleases

\* Two requests never generate for the run at the same time, on one server or
\* on two, as long as the keys outlive a lease (runActiveWorker, and the owner
\* key that stays when the lease lapses).
THEOREM AtMostOneGenerates ==
    ASSUME KeysOutlive
    PROVE  Spec => []OneExecution
<1>1. LeaseInv /\ Alone /\ [Next]_vars => (LeaseInv /\ Alone)'
  BY NextKeeps DEF Keeps
<1>2. Alone => OneExecution
  BY DEF Alone, OneHolder, OneExecution, Executing, Holds
<1> QED BY <1>1, <1>2, InitKeeps, PTL DEF Spec
=============================================================================
