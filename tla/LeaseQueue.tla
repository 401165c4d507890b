----------------------------- MODULE LeaseQueue -----------------------------
(***************************************************************************)
(* The file queue behind repository.FileProcessingQueueRepository: the     *)
(* operators on its state, shared by the extraction and the embedding      *)
(* workers.  A queue is a record:                                          *)
(*   waiting   the messages nobody has read, oldest first;                 *)
(*   leased    the read ones, each with its consumer and whether it has    *)
(*             been idle for fileProcessingMinIdle (45 s);                 *)
(*   dead      the dead letters.                                           *)
(* A message is a record with an id; reclaimed says that its lease has     *)
(* passed to another reader.  The memory and the Redis implementation      *)
(* make each of these operators one atomic step.                           *)
(***************************************************************************)
EXTENDS Sequences, FiniteSets

CONSTANT NoOne    \* the consumer name of a process that is gone

EmptyQueue == [waiting |-> <<>>, leased |-> {}, dead |-> {}]

Held(q, msg) == {l \in q.leased : l.msg.id = msg.id}

Owns(q, w, msg) == \E l \in Held(q, msg) : l.owner = w

Enqueue(q, msg) == [q EXCEPT !.waiting = Append(@, msg)]

\* readFileMessages: the oldest message is leased to its reader.
Read(q, w) ==
  [q EXCEPT !.waiting = Tail(@),
            !.leased = @ \cup {[msg |-> Head(q.waiting), owner |-> w,
                                idle |-> FALSE]}]

\* claimTimedOutFileMessages: an idle lease passes to the claimer.
Passed(l, w) == [msg |-> [l.msg EXCEPT !.reclaimed = TRUE], owner |-> w,
                 idle |-> FALSE]

Claim(q, l, w) == [q EXCEPT !.leased = (@ \ {l}) \cup {Passed(l, w)}]

Renew(q, msg) ==
  [q EXCEPT !.leased = {IF l.msg.id = msg.id THEN [l EXCEPT !.idle = FALSE]
                        ELSE l : l \in @}]

Idle(q, l) == [q EXCEPT !.leased = (@ \ {l}) \cup {[l EXCEPT !.idle = TRUE]}]

Settle(q, msg) == [q EXCEPT !.leased = @ \ Held(q, msg)]

FaultRequeue(q, msg, next) == Settle(q, msg)

\* The next try of a message goes to the end of the queue, in the same step
\* that takes the old message away.
Requeue(q, msg, next) == Enqueue(Settle(q, msg), next)

FaultDeadLetter(q, msg) == [q EXCEPT !.dead = @ \cup {msg}]

DeadLetter(q, msg) == [Settle(q, msg) EXCEPT !.dead = @ \cup {msg}]

\* The leases of a process that died: its name is never used again.
Orphan(q, w) ==
  [q EXCEPT !.leased = {IF l.owner = w THEN [l EXCEPT !.owner = NoOne] ELSE l :
                        l \in @}]

Messages(q) == {q.waiting[i] : i \in DOMAIN q.waiting}
                 \cup {l.msg : l \in q.leased}
=============================================================================
