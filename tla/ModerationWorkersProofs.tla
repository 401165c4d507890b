----------------------- MODULE ModerationWorkersProofs -----------------------
(***************************************************************************)
(* ModerationWorkers for every number of goroutines, places, tasks and     *)
(* changes of the limits: its accounts are right and no wake-up is lost.   *)
(***************************************************************************)
EXTENDS ModerationWorkers, TLAPS

\* Goroutines are neither created nor lost, so a full wake channel has a token for each.
NoneIsLost ==
    at["idle"] + at["trying"] + at["waiting"] + at["slotted"] + at["running"] + at["leaving"]
      + at["gone"] = Workers

Inv == TypeOK /\ NoneIsLost /\ PrefetchedIsQueued /\ SlotsAreHeld /\ NoLostWakeup

\* The numbers of goroutines after a step of one of them.
LEMMA StepCounts ==
    ASSUME NEW from \in Positions, NEW to \in Positions, from # to, from # "gone", TypeOK, NoneIsLost, Step(from, to)
    PROVE  /\ at' \in [Positions -> Nat] /\ NoneIsLost'
           /\ at'[from] = at[from] - 1 /\ at'[to] = at[to] + 1 /\ at[from] > 0
           /\ \A p \in Positions \ {from, to} : at'[p] = at[p]
<1>1. /\ at'[from] = at[from] - 1 /\ at'[to] = at[to] + 1 /\ at[from] > 0
      /\ \A p \in Positions \ {from, to} : at'[p] = at[p]
  BY DEF Step, TypeOK
<1>2. at' \in [Positions -> Nat]
  BY DEF Step, TypeOK
<1>3. \A p \in Positions : at[p] \in Nat
  BY DEF TypeOK
<1>4. NoneIsLost'
  <2>1. CASE from = "idle"
    BY <2>1, <1>1, <1>3, SMTT(30) DEF NoneIsLost, Positions
  <2>2. CASE from = "trying"
    BY <2>2, <1>1, <1>3, SMTT(30) DEF NoneIsLost, Positions
  <2>3. CASE from = "waiting"
    BY <2>3, <1>1, <1>3, SMTT(30) DEF NoneIsLost, Positions
  <2>4. CASE from = "slotted"
    BY <2>4, <1>1, <1>3, SMTT(30) DEF NoneIsLost, Positions
  <2>5. CASE from = "running"
    BY <2>5, <1>1, <1>3, SMTT(30) DEF NoneIsLost, Positions
  <2>6. CASE from = "leaving"
    BY <2>6, <1>1, <1>3, SMTT(30) DEF NoneIsLost, Positions
  <2> QED BY <2>1, <2>2, <2>3, <2>4, <2>5, <2>6 DEF Positions
<1> QED BY <1>1, <1>2, <1>4

\* Sent fills the wake channel at most.
LEMMA SentBounds ==
    ASSUME TypeOK, NEW tokens \in Nat
    PROVE  /\ Sent(tokens) \in 0 .. Workers /\ Sent(tokens) >= wake
           /\ Sent(tokens) = wake + tokens \/ Sent(tokens) = Workers
  BY PoolAssumption DEF Sent, TypeOK

\* The pool starts with all accounts at zero.
LEMMA InitInv == Init => Inv
<1> SUFFICES ASSUME Init PROVE Inv
  OBVIOUS
<1>1. /\ at \in [Positions -> Nat] /\ at["idle"] = Workers
      /\ \A p \in Positions \ {"idle"} : at[p] = 0
  BY PoolAssumption DEF Init, Positions
<1>2. /\ at["trying"] = 0 /\ at["waiting"] = 0 /\ at["slotted"] = 0 /\ at["running"] = 0
      /\ at["leaving"] = 0 /\ at["gone"] = 0
  BY <1>1 DEF Positions
<1>3. /\ limit \in 1 .. Workers /\ capacity \in 1 .. Places /\ admitted = 0 /\ active = 0
      /\ queue = 0 /\ wake = 0 /\ stopped = FALSE /\ offered = 0 /\ resized = 0
  BY DEF Init
<1>4. TypeOK
  <2>1. stopped \in BOOLEAN
    BY <1>3
  <2>2. wake \in 0 .. Workers /\ queue \in 0 .. Places
    BY <1>3, PoolAssumption
  <2> QED BY <1>1, <1>3, <2>1, <2>2 DEF TypeOK
<1>5. NoneIsLost /\ PrefetchedIsQueued /\ SlotsAreHeld /\ NoLostWakeup
  BY <1>1, <1>2, <1>3, PoolAssumption DEF NoneIsLost, PrefetchedIsQueued, SlotsAreHeld, NoLostWakeup, Stirring
<1> QED
  BY <1>4, <1>5 DEF Inv

\* Every step keeps the accounts, and adds a token or a goroutine under way for each slot it frees.
LEMMA NextInv == Inv /\ [Next]_vars => Inv'
<1> SUFFICES ASSUME Inv, [Next]_vars PROVE Inv'
  OBVIOUS
<1> USE PoolAssumption
<1>t. TypeOK /\ NoneIsLost /\ PrefetchedIsQueued /\ SlotsAreHeld /\ NoLostWakeup
  BY DEF Inv
<1>c. \A p \in Positions : at[p] \in Nat
  BY <1>t DEF TypeOK
<1>n. /\ at["idle"] \in Nat /\ at["trying"] \in Nat /\ at["waiting"] \in Nat /\ at["slotted"] \in Nat
      /\ at["running"] \in Nat /\ at["leaving"] \in Nat /\ at["gone"] \in Nat
  BY <1>c DEF Positions
<1>p. /\ limit \in Nat /\ active \in Nat /\ admitted \in Nat /\ queue \in Nat /\ wake \in Nat
      /\ wake <= Workers /\ limit <= Workers /\ Workers \in Nat
  BY <1>t DEF TypeOK
<1>w. at["waiting"] <= Workers
  BY <1>t, <1>n, <1>p DEF NoneIsLost
<1>1. CASE Enqueue
  <2>1. /\ at' = at /\ active' = active /\ limit' = limit /\ wake' = wake
        /\ \/ queue' = queue + 1 /\ admitted' = admitted + 1 /\ queue < Places
           \/ queue' = queue /\ admitted' = admitted
    BY <1>1 DEF Enqueue, Admits
  <2>2. TypeOK'
    <3>1. queue' \in 0 .. Places /\ admitted' \in Nat /\ offered' \in Nat
      BY <1>1, <2>1, <1>t, <1>p DEF Enqueue, TypeOK
    <3> QED BY <1>1, <2>1, <3>1, <1>t DEF Enqueue, TypeOK
  <2>3. PrefetchedIsQueued'
    BY <2>1, <1>t, <1>n, <1>p DEF PrefetchedIsQueued
  <2> QED BY <2>1, <2>2, <2>3, <1>t DEF Inv, NoneIsLost, SlotsAreHeld, NoLostWakeup, Stirring
<1>2. CASE Take
  <2>1. Step("idle", "trying")
    BY <1>2 DEF Take
  <2>2. /\ at' \in [Positions -> Nat] /\ NoneIsLost' /\ at'["trying"] = at["trying"] + 1
        /\ at'["waiting"] = at["waiting"] /\ at'["slotted"] = at["slotted"]
        /\ at'["running"] = at["running"] /\ at'["leaving"] = at["leaving"]
    BY <2>1, <1>t, StepCounts DEF Positions
  <2> QED
    BY <1>2, <2>2, <1>t, <1>n, <1>p DEF Take, Inv, TypeOK, PrefetchedIsQueued, SlotsAreHeld, NoLostWakeup, Stirring
<1>3. CASE TakeSlot
  <2>1. Step("trying", "slotted")
    BY <1>3 DEF TakeSlot
  <2>2. /\ at' \in [Positions -> Nat] /\ NoneIsLost' /\ at'["trying"] = at["trying"] - 1
        /\ at["trying"] > 0 /\ at'["waiting"] = at["waiting"] /\ at'["slotted"] = at["slotted"] + 1
        /\ at'["running"] = at["running"] /\ at'["leaving"] = at["leaving"]
    BY <2>1, <1>t, StepCounts DEF Positions
  <2>3. active' = active + 1 /\ active < limit /\ UNCHANGED <<limit, admitted, queue, wake>>
    BY <1>3 DEF TakeSlot
  <2>4. TypeOK'
    BY <1>3, <2>2, <2>3, <1>t DEF TakeSlot, TypeOK
  <2>5. PrefetchedIsQueued' /\ SlotsAreHeld'
    BY <2>2, <2>3, <1>t, <1>n, <1>p DEF PrefetchedIsQueued, SlotsAreHeld
  <2>6. NoLostWakeup'
    BY <2>2, <2>3, <1>t, <1>n, <1>p DEF NoLostWakeup, Stirring
  <2> QED BY <2>2, <2>4, <2>5, <2>6 DEF Inv
<1>4. CASE Wait
  <2>1. Step("trying", "waiting")
    BY <1>4 DEF Wait
  <2>2. /\ at' \in [Positions -> Nat] /\ NoneIsLost' /\ at'["trying"] = at["trying"] - 1
        /\ at["trying"] > 0 /\ at'["waiting"] = at["waiting"] + 1 /\ at'["slotted"] = at["slotted"]
        /\ at'["running"] = at["running"] /\ at'["leaving"] = at["leaving"]
    BY <2>1, <1>t, StepCounts DEF Positions
  <2> QED
    BY <1>4, <2>2, <1>t, <1>n, <1>p DEF Wait, Inv, TypeOK, PrefetchedIsQueued, SlotsAreHeld, NoLostWakeup, Stirring
<1>5. CASE Woken
  <2>1. Step("waiting", "trying")
    BY <1>5 DEF Woken
  <2>2. /\ at' \in [Positions -> Nat] /\ NoneIsLost' /\ at'["trying"] = at["trying"] + 1
        /\ at["waiting"] > 0 /\ at'["waiting"] = at["waiting"] - 1 /\ at'["slotted"] = at["slotted"]
        /\ at'["running"] = at["running"] /\ at'["leaving"] = at["leaving"]
    BY <2>1, <1>t, StepCounts DEF Positions
  <2> QED
    BY <1>5, <2>2, <1>t, <1>n, <1>p DEF Woken, Inv, TypeOK, PrefetchedIsQueued, SlotsAreHeld, NoLostWakeup, Stirring
<1>6. CASE Execute
  <2>1. Step("slotted", "running")
    BY <1>6 DEF Execute
  <2>2. /\ at' \in [Positions -> Nat] /\ NoneIsLost' /\ at'["trying"] = at["trying"]
        /\ at["slotted"] > 0 /\ at'["waiting"] = at["waiting"] /\ at'["slotted"] = at["slotted"] - 1
        /\ at'["running"] = at["running"] + 1 /\ at'["leaving"] = at["leaving"]
    BY <2>1, <1>t, StepCounts DEF Positions
  <2>3. admitted' = admitted - 1 /\ admitted > 0 /\ UNCHANGED <<limit, active, queue, wake>>
    BY <1>6, <2>2, <1>t, <1>n, <1>p DEF Execute, PrefetchedIsQueued
  <2>4. TypeOK'
    BY <1>6, <2>2, <2>3, <1>t, <1>p DEF Execute, TypeOK
  <2>5. PrefetchedIsQueued' /\ SlotsAreHeld' /\ NoLostWakeup'
    BY <2>2, <2>3, <1>t, <1>n, <1>p DEF PrefetchedIsQueued, SlotsAreHeld, NoLostWakeup, Stirring
  <2> QED BY <2>2, <2>4, <2>5 DEF Inv
<1>7. CASE GiveBack
  <2>1. Step("running", "leaving")
    BY <1>7 DEF GiveBack
  <2>2. /\ at' \in [Positions -> Nat] /\ NoneIsLost' /\ at'["trying"] = at["trying"]
        /\ at["running"] > 0 /\ at'["waiting"] = at["waiting"] /\ at'["slotted"] = at["slotted"]
        /\ at'["running"] = at["running"] - 1 /\ at'["leaving"] = at["leaving"] + 1
    BY <2>1, <1>t, StepCounts DEF Positions
  <2>3. active' = active - 1 /\ active > 0 /\ UNCHANGED <<limit, admitted, queue, wake>>
    BY <1>7, <2>2, <1>t, <1>n, <1>p DEF GiveBack, SlotsAreHeld
  <2>4. TypeOK'
    BY <1>7, <2>2, <2>3, <1>t, <1>p DEF GiveBack, TypeOK
  <2>5. PrefetchedIsQueued' /\ SlotsAreHeld'
    BY <2>2, <2>3, <1>t, <1>n, <1>p DEF PrefetchedIsQueued, SlotsAreHeld
  <2>6. NoLostWakeup'
    BY <2>2, <2>3, <1>t, <1>n, <1>p DEF NoLostWakeup, Stirring
  <2> QED BY <2>2, <2>4, <2>5, <2>6 DEF Inv
<1>8. CASE Leave
  <2>1. Step("leaving", "idle")
    BY <1>8 DEF Leave
  <2>2. /\ at' \in [Positions -> Nat] /\ NoneIsLost' /\ at'["trying"] = at["trying"]
        /\ at["leaving"] > 0 /\ at'["waiting"] = at["waiting"] /\ at'["slotted"] = at["slotted"]
        /\ at'["running"] = at["running"] /\ at'["leaving"] = at["leaving"] - 1
    BY <2>1, <1>t, StepCounts DEF Positions
  <2>3. Sent(1) \in 0 .. Workers /\ (Sent(1) = wake + 1 \/ Sent(1) = Workers)
    BY <1>t, SentBounds
  <2>4. NoLostWakeup'
    BY <1>8, <2>2, <2>3, <1>t, <1>n, <1>p, <1>w DEF Leave, NoLostWakeup, Stirring
  <2> QED
    BY <1>8, <2>2, <2>3, <2>4, <1>t, <1>n, <1>p DEF Leave, Inv, TypeOK, PrefetchedIsQueued, SlotsAreHeld
<1>9. CASE Resize
  <2>1. PICK slots \in 1 .. Workers : limit' = slots /\ wake' = Tokens(limit, slots)
    BY <1>9 DEF Resize
  <2>2. slots > limit => /\ wake' \in 0 .. Workers
                         /\ wake' = wake + (slots - limit) \/ wake' = Workers
    <3> SUFFICES ASSUME slots > limit PROVE /\ wake' \in 0 .. Workers
                                            /\ wake' = wake + (slots - limit) \/ wake' = Workers
      OBVIOUS
    <3>1. slots - limit \in Nat /\ wake' = Sent(slots - limit)
      BY <2>1, <1>p DEF Tokens
    <3> QED BY <3>1, <1>t, SentBounds
  <2>3. slots <= limit => wake' = wake
    BY <2>1, <1>p DEF Tokens
  <2>4. wake' \in 0 .. Workers
    BY <2>2, <2>3, <1>t, <1>p DEF TypeOK
  <2>5. at' = at /\ active' = active /\ admitted' = admitted /\ queue' = queue
    BY <1>9 DEF Resize
  <2>6. NoLostWakeup'
    BY <2>1, <2>2, <2>3, <2>5, <1>t, <1>n, <1>p, <1>w DEF NoLostWakeup, Stirring
  <2>7. TypeOK'
    BY <1>9, <2>4, <1>t DEF Resize, TypeOK
  <2> QED
    BY <2>5, <2>6, <2>7, <1>t DEF Inv, NoneIsLost, PrefetchedIsQueued, SlotsAreHeld
<1>10. CASE Stop
  BY <1>10, <1>t DEF Stop, Inv, TypeOK, NoneIsLost, PrefetchedIsQueued, SlotsAreHeld, NoLostWakeup, Stirring
<1>11. CASE GiveUp
  <2>1. Step("waiting", "idle")
    BY <1>11 DEF GiveUp
  <2>2. /\ at' \in [Positions -> Nat] /\ NoneIsLost' /\ at'["trying"] = at["trying"]
        /\ at["waiting"] > 0 /\ at'["waiting"] = at["waiting"] - 1 /\ at'["slotted"] = at["slotted"]
        /\ at'["running"] = at["running"] /\ at'["leaving"] = at["leaving"]
    BY <2>1, <1>t, StepCounts DEF Positions
  <2> QED
    BY <1>11, <2>2, <1>t, <1>n, <1>p DEF GiveUp, Inv, TypeOK, PrefetchedIsQueued, SlotsAreHeld, NoLostWakeup, Stirring
<1>12. CASE Return
  <2>1. Step("idle", "gone")
    BY <1>12 DEF Return
  <2>2. /\ at' \in [Positions -> Nat] /\ NoneIsLost' /\ at'["trying"] = at["trying"]
        /\ at'["waiting"] = at["waiting"] /\ at'["slotted"] = at["slotted"]
        /\ at'["running"] = at["running"] /\ at'["leaving"] = at["leaving"]
    BY <2>1, <1>t, StepCounts DEF Positions
  <2> QED
    BY <1>12, <2>2, <1>t, <1>n, <1>p DEF Return, Inv, TypeOK, PrefetchedIsQueued, SlotsAreHeld, NoLostWakeup, Stirring
<1>13. CASE UNCHANGED vars
  BY <1>13, <1>t DEF vars, Inv, TypeOK, NoneIsLost, PrefetchedIsQueued, SlotsAreHeld, NoLostWakeup, Stirring
<1> QED
  BY <1>1, <1>2, <1>3, <1>4, <1>5, <1>6, <1>7, <1>8, <1>9, <1>10, <1>11, <1>12, <1>13 DEF Next, Work

\* The pool's types and its accounts of tasks and of slots (worker.go) are right in every state.
THEOREM AccountsAreRight == Spec => []AccountsAddUp
<1>1. Inv => AccountsAddUp
  BY DEF Inv, AccountsAddUp
<1> QED BY <1>1, InitInv, NextInv, PTL DEF Spec

\* Goroutines that wait while slots are free are being woken (waitLogicalSlot, releaseLogicalSlot
\* and resizeWorker), whatever the limits become and however often they change.
THEOREM WakeupsAreNotLost == Spec => []NoLostWakeup
<1>1. Inv => NoLostWakeup
  BY DEF Inv
<1> QED BY <1>1, InitInv, NextInv, PTL DEF Spec
=============================================================================
