-------------------------- MODULE GenerationReplay --------------------------
(***************************************************************************)
(* Resuming the stream of a run: the events a generation leaves in the     *)
(* shared store (a bounded window, and checkpoints of the text and of the  *)
(* current round of thinking), and a subscriber that reads the window, the *)
(* checkpoints and then the events that follow, while events are appended, *)
(* trimmed, withdrawn by moderation and let go                             *)
(* (application/conversation/generation_stream.go, infra/cache, and the    *)
(* handler of GET /conversation-runs/{run_id}/stream).                     *)
(*                                                                         *)
(* Subscribers only read the store, so one is modelled, with any number of *)
(* connections.  It asks for snapshots, as the frontend does.  A piece of  *)
(* text or thinking is named by the number of its event; a piece of text   *)
(* whose append failed has none: it stays in the answer and is shown live, *)
(* but the store has nothing of it.                                        *)
(*                                                                         *)
(* The order of the window, of what is replayed and of the records of one  *)
(* read is that of the numbers, so that these are sets; what is shown and  *)
(* the channel between reader and handler are sequences.                   *)
(***************************************************************************)
EXTENDS Integers, Sequences, FiniteSets

CONSTANTS
    Kinds,         \* kinds of events the generation publishes
    MaxEvents,     \* generationStreamMaxEvents: length of the window
    Slack,         \* MAXLEN ~: how many more Redis may keep (0 in memory)
    Buffer,        \* generationStreamSubscriberBuffer
    MaxAppends,    \* bound: events of the run that are stored
    MaxUnstored,   \* bound: pieces of text whose append fails
    MaxConnections \* bound: connections of the subscriber

ASSUME KindsAssumption == Kinds \subseteq {"text", "think", "round", "other"}
ASSUME BoundAssumption == /\ MaxEvents \in Nat \ {0} /\ Slack \in Nat /\ Buffer \in Nat \ {0}
                          /\ MaxAppends \in Nat /\ MaxUnstored \in Nat /\ MaxConnections \in Nat

VARIABLES
    store,   \* the keys of the run in the shared store
    run,     \* the generation: how far it is, and what it has said
    client   \* the subscriber: its connection, and what it shows

vars == <<store, run, client>>

Outcomes  == {"completed", "error"}
Terminals == Outcomes \cup {"moderation_blocked"}
Seqs      == 1 .. MaxAppends
Content   == Seq(Seqs)

\* A piece of the answer that the store never took.
Unstored == 0

Answers == Seq({Unstored} \cup Seqs)

Pieces(said) == {said[i] : i \in 1 .. Len(said)}

\* "round" is thinking of a new round, or one that replaces what was there.
Event == [seq: Seqs, kind: Kinds \cup Terminals]

Thinking == {"think", "round"}

\* What the subscriber is sent: an event, or a checkpoint, which replaces.
Item == [seq: Seqs, kind: Kinds \cup {"text", "think"} \cup Terminals, content: Content,
         replace: BOOLEAN]

ToItem(e) ==
    [seq |-> e.seq, kind |-> e.kind,
     content |-> IF e.kind \in Thinking \cup {"text"} THEN <<e.seq>> ELSE <<>>,
     replace |-> e.kind = "round"]

NoStore == [window |-> {}, seq |-> 0, trimmed |-> 0, text |-> <<>>, textSeq |-> 0,
            think |-> <<>>, thinkSeq |-> 0, active |-> TRUE, owned |-> TRUE]

\* saved: the result is stored with the message; withdrawn: moderation took the answer back;
\* dropped: the events went with it; answer: the text said so far; text, think:
\* what the store has taken of it, and of the current round of thinking.
NewRun == [outcome |-> "none", saved |-> FALSE, withdrawn |-> FALSE, dropped |-> FALSE,
           answer |-> <<>>, text |-> <<>>, think |-> <<>>]

NoPlan == [list |-> {}, text |-> <<>>, textSeq |-> 0, think |-> <<>>, thinkSeq |-> 0]

NewClient ==
    [phase |-> "off", connections |-> 0, resumed |-> FALSE, plan |-> NoPlan, cursor |-> 0, after |-> 0,
     replay |-> {}, reader |-> "none", batch |-> {}, queue |-> <<>>, last |-> 0, got |-> {},
     text |-> <<>>, think |-> <<>>, lagged |-> FALSE, fresh |-> FALSE, told |-> "none"]

Init == store = NoStore /\ run = NewRun /\ client = NewClient

-----------------------------------------------------------------------------
(***************************************************************************)
(* The generation.                                                         *)
(***************************************************************************)

\* The trimming leaves the last kept events.
Gone(s, kept) == IF s.seq + 1 - kept > s.trimmed THEN s.seq + 1 - kept ELSE s.trimmed

Left(s, kind, kept) ==
    {e \in s.window \cup {[seq |-> s.seq + 1, kind |-> kind]} : e.seq > Gone(s, kept)}

Thought(s, kind) ==
    IF kind = "round" THEN <<s.seq + 1>>
    ELSE IF kind = "think" THEN Append(s.think, s.seq + 1) ELSE s.think

\* The number of the text checkpoint stays that of its first piece.
FaultAppended(s, kind, kept) ==
    [s EXCEPT !.seq = @ + 1, !.trimmed = Gone(s, kept), !.window = Left(s, kind, kept),
              !.text = IF kind = "text" THEN Append(@, s.seq + 1) ELSE @,
              !.textSeq = IF kind = "text" /\ @ = 0 THEN s.seq + 1 ELSE @,
              !.think = Thought(s, kind),
              !.thinkSeq = IF kind \in Thinking THEN s.seq + 1 ELSE @]

\* One atomic script: the number, the checkpoint, the event, and the trimming.
Appended(s, kind, kept) ==
    [s EXCEPT !.seq = @ + 1, !.trimmed = Gone(s, kept), !.window = Left(s, kind, kept),
              !.text = IF kind = "text" THEN Append(@, s.seq + 1) ELSE @,
              !.textSeq = IF kind = "text" THEN s.seq + 1 ELSE @,
              !.think = Thought(s, kind),
              !.thinkSeq = IF kind \in Thinking THEN s.seq + 1 ELSE @]

\* Redis drops whole nodes of the stream only.
Stored(kind) == \E kept \in MaxEvents .. MaxEvents + Slack : store' = Appended(store, kind, kept)

PublishStored(kind) ==
    /\ store.active /\ store.seq < MaxAppends - 1
    /\ Stored(kind)
    /\ run' = [run EXCEPT !.answer = IF kind = "text" THEN Append(@, store'.seq) ELSE @,
                          !.text = IF kind = "text" THEN Append(@, store'.seq) ELSE @,
                          !.think = IF kind \in Thinking THEN store'.think ELSE @]

\* The append fails without effect, or is refused.  The piece of text goes to the
\* live client and stays in the answer all the same; of another event nothing is left.
PublishUnstored(kind) ==
    /\ kind = "text" /\ Len(run.answer) < Len(run.text) + MaxUnstored
    /\ run' = [run EXCEPT !.answer = Append(@, Unstored)]
    /\ UNCHANGED store

\* An append that took effect though its answer was lost is PublishStored.
Publish(kind) ==
    /\ run.outcome = "none" /\ ~ run.saved
    /\ PublishStored(kind) \/ PublishUnstored(kind)
    /\ UNCHANGED client

\* The result is stored with the message before the stream is told.
Save ==
    /\ run.outcome = "none" /\ ~ run.saved
    /\ run' = [run EXCEPT !.saved = TRUE]
    /\ UNCHANGED <<store, client>>

\* The terminal event; the error that keeps it out of the store is ignored.
End(kind) ==
    /\ run.saved /\ run.outcome = "none" /\ ~ run.withdrawn
    /\ run' = [run EXCEPT !.outcome = kind]
    /\ \/ store.active /\ store.seq < MaxAppends /\ Stored(kind)
       \/ UNCHANGED store
    /\ UNCHANGED client

\* Only the events are dropped.
FaultCleared(s) == [s EXCEPT !.window = {}]

Cleared(s) ==
    [s EXCEPT !.window = {}, !.text = <<>>, !.textSeq = 0, !.think = <<>>, !.thinkSeq = 0]

\* resetCurrentEvents: nothing is dropped once the server has let the run go, or
\* when the call fails, which is ignored.
Withdraw ==
    /\ ~ run.withdrawn
    /\ run.outcome = "completed" \/ (store.active /\ run.saved)
    /\ \E dropped \in IF store.active THEN BOOLEAN ELSE {FALSE} :
          /\ run' = [run EXCEPT !.withdrawn = TRUE, !.dropped = dropped,
                                !.answer = <<>>, !.text = <<>>, !.think = <<>>]
          /\ store' = IF dropped THEN Cleared(store) ELSE store
    /\ UNCHANGED client

\* notifyBlocked emits after the reset, if the event can be stored.
PublishBlocked ==
    /\ run.withdrawn /\ run.outcome # "moderation_blocked"
    /\ run' = [run EXCEPT !.outcome = "moderation_blocked"]
    /\ \/ store.active /\ store.seq < MaxAppends /\ Stored("moderation_blocked")
       \/ UNCHANGED store
    /\ UNCHANGED client

\* FinishMessageGeneration, after the last event.
Release ==
    /\ store.active /\ run.outcome # "none" /\ (run.withdrawn => run.outcome = "moderation_blocked")
    /\ store' = [store EXCEPT !.active = FALSE]
    /\ UNCHANGED <<run, client>>

\* The server crashed or could not renew: no event says so.
Lapse ==
    /\ store.active
    /\ store' = [store EXCEPT !.active = FALSE]
    /\ UNCHANGED <<run, client>>

\* The retention is over.
Expire ==
    /\ ~ store.active /\ store.owned
    /\ store' = [Cleared(store) EXCEPT !.owned = FALSE]
    /\ UNCHANGED <<run, client>>

-----------------------------------------------------------------------------
(***************************************************************************)
(* The subscription: window, checkpoints, replay, then the live reader.    *)
(***************************************************************************)

IsTerminal(item) == item.kind \in Terminals

Ended(c, told) ==
    [c EXCEPT !.phase = "off", !.plan = NoPlan, !.replay = {}, !.queue = <<>>, !.batch = {},
              !.reader = "none", !.cursor = 0, !.after = 0, !.told = told]

\* The subscription fails, and the handler takes the run for lost: it marks the
\* message interrupted if it is still pending, as Interrupt does.
Refuse ==
    /\ client' = Ended(client, "refused")
    /\ UNCHANGED <<store, run>>

Connect ==
    /\ client.phase = "off" /\ client.told \in {"none", "dropped"}
    /\ client.connections < MaxConnections
    /\ \E after \in {0, client.last} :
          IF store.owned
          THEN /\ client' = [client EXCEPT !.phase = "listing", !.after = after, !.told = "none",
                                           !.resumed = after > 0, !.connections = @ + 1,
                                           !.fresh = run.dropped]
               /\ UNCHANGED <<store, run>>
          ELSE Refuse

\* The newest events of the window.
List ==
    /\ client.phase = "listing"
    /\ client' = [client EXCEPT !.phase = "text",
                  !.plan.list = {e \in store.window : e.seq > store.seq - MaxEvents}]
    /\ UNCHANGED <<store, run>>

ReadText ==
    /\ client.phase = "text"
    /\ client' = [client EXCEPT !.phase = "think", !.plan.text = store.text,
                                !.plan.textSeq = store.textSeq]
    /\ UNCHANGED <<store, run>>

ReadThink ==
    /\ client.phase = "think"
    /\ client' = [client EXCEPT !.phase = "deciding", !.plan.think = store.think,
                                !.plan.thinkSeq = store.thinkSeq]
    /\ UNCHANGED <<store, run>>

CallFails ==
    /\ client.phase \in {"listing", "text", "think", "deciding"}
    /\ Refuse

\* A delta without its checkpoint cannot be replayed once the window was trimmed.
Safe(plan) ==
    \A e \in plan.list :
        /\ e.kind = "text" => plan.textSeq > 0
        /\ e.kind \in Thinking => plan.thinkSeq > 0

\* The delta that ends the checkpoint is sent once more.
FaultUncovered(plan, e) ==
    /\ e.kind = "text" => e.seq >= plan.textSeq
    /\ e.kind \in Thinking => e.seq >= plan.thinkSeq

Uncovered(plan, e) ==
    /\ e.kind = "text" => e.seq > plan.textSeq
    /\ e.kind \in Thinking => e.seq > plan.thinkSeq

Checkpoints(plan) ==
    {c \in {[seq |-> plan.textSeq, kind |-> "text", content |-> plan.text, replace |-> TRUE],
            [seq |-> plan.thinkSeq, kind |-> "think", content |-> plan.think, replace |-> TRUE]} :
        c.seq > 0}

\* retainedStreamEvents: a checkpoint goes before the first event that is newer.
Replay(plan, after) ==
    Checkpoints(plan) \cup
    {ToItem(e) : e \in {d \in plan.list : Uncovered(plan, d) /\ d.seq > after}}

\* The live reader starts one event too late.
FaultEndsAt(list, n) ==
    IF list = {} THEN n = 0 ELSE (\E e \in list : e.seq = n - 1) /\ \A e \in list : e.seq < n

\* Where the live reader starts.
EndsAt(list, n) ==
    IF list = {} THEN n = 0 ELSE (\E e \in list : e.seq = n) /\ \A e \in list : e.seq <= n

\* The reader keeps the numbers of the checkpoints only.
Decide ==
    /\ client.phase = "deciding"
    /\ IF ~ store.owned \/ ~ Safe(client.plan) THEN Refuse
       ELSE /\ \E start \in 0 .. MaxAppends + 1 :
                  /\ EndsAt(client.plan.list, start)
                  /\ client' = [client EXCEPT
                        !.phase = "replaying",
                        !.replay = Replay(client.plan, client.after),
                        !.plan = [NoPlan EXCEPT !.textSeq = client.plan.textSeq,
                                                !.thinkSeq = client.plan.thinkSeq],
                        !.cursor = start,
                        !.reader = IF \E e \in client.plan.list : IsTerminal(e)
                                   THEN "closed" ELSE "open",
                        !.lagged = FALSE]
            /\ UNCHANGED <<store, run>>

\* readStoreEvents reads the next Buffer records, or all there are.
Records(upTo) == {e \in store.window : e.seq \in client.cursor + 1 .. upTo}

Read ==
    /\ client.reader = "open" /\ client.batch = {}
    /\ \/ client' = [client EXCEPT !.reader = "closed"]   \* an error, or nothing retained
       \/ /\ store.owned
          /\ \E upTo \in client.cursor + 1 .. store.seq :
                /\ Records(upTo) # {}
                /\ \/ Cardinality(Records(upTo)) = Buffer
                   \/ Cardinality(Records(upTo)) < Buffer /\ upTo = store.seq
                /\ client' = [client EXCEPT !.batch = Records(upTo),
                                            !.lagged = @ \/ store.trimmed > client.cursor]
    /\ UNCHANGED <<store, run>>

\* It hands them on one by one, and waits while the channel is full.
HandOn ==
    /\ client.reader = "open"
    /\ \E e \in client.batch :
          /\ \A d \in client.batch : e.seq <= d.seq
          /\ LET taken == [client EXCEPT !.batch = @ \ {e}, !.cursor = e.seq]
             IN  IF e.seq > client.after /\ Uncovered(client.plan, e)
                 THEN /\ Len(client.queue) < Buffer
                      /\ client' = [taken EXCEPT
                             !.queue = Append(@, ToItem(e)),
                             !.after = e.seq,
                             !.reader = IF IsTerminal(e) THEN "closed" ELSE @,
                             !.batch = IF IsTerminal(e) THEN {} ELSE @]
                 ELSE client' = taken
    /\ UNCHANGED <<store, run>>

\* The subscriber adds a delta to what it shows and puts a checkpoint in its place.
Put(shown, item, kinds) ==
    IF item.kind \notin kinds THEN shown
    ELSE IF item.replace THEN item.content ELSE shown \o item.content

Shown(c, item) ==
    [c EXCEPT !.last = IF item.seq > @ THEN item.seq ELSE @,
              !.text = IF item.kind = "moderation_blocked" THEN <<>> ELSE Put(@, item, {"text"}),
              !.think = IF item.kind = "moderation_blocked" THEN <<>> ELSE Put(@, item, Thinking),
              !.got = IF item.kind = "other" THEN @ \cup {item.seq} ELSE @,
              !.told = IF IsTerminal(item) THEN item.kind ELSE @]

WriteReplay ==
    /\ client.phase = "replaying"
    /\ \E item \in client.replay :
          /\ \A other \in client.replay : item.seq <= other.seq
          /\ client' = Shown([client EXCEPT !.replay = @ \ {item}], item)
    /\ UNCHANGED <<store, run>>

\* HasActiveMessageGeneration: an error counts as not active.
SeenActive == store.active

\* Only a subscriber whose reader has stopped is told.
FaultInterrupt ==
    /\ client.reader = "closed"
    /\ client' = Ended(client, "interrupted")
    /\ UNCHANGED <<store, run>>

Interrupt ==
    /\ client' = Ended(client, "interrupted")
    /\ UNCHANGED <<store, run>>

Drop ==
    /\ client' = Ended(client, "dropped")
    /\ UNCHANGED <<store, run>>

Replayed ==
    /\ client.phase = "replaying" /\ client.replay = {}
    /\ IF client.told \in Terminals
       THEN client' = Ended(client, client.told) /\ UNCHANGED <<store, run>>
       ELSE \/ Interrupt
            \/ /\ SeenActive
               /\ client' = [client EXCEPT !.phase = "live"]
               /\ UNCHANGED <<store, run>>

WriteLive ==
    /\ client.phase = "live" /\ client.queue # <<>>
    /\ LET c == Shown([client EXCEPT !.queue = Tail(@)], Head(client.queue))
       IN  client' = IF c.told \in Terminals THEN Ended(c, c.told) ELSE c
    /\ UNCHANGED <<store, run>>

\* The ticker fires.
CheckActive == client.phase = "live" /\ Interrupt

ReaderClosed ==
    /\ client.phase = "live" /\ client.reader = "closed" /\ client.queue = <<>>
    /\ Interrupt \/ (SeenActive /\ Drop)

\* The subscriber goes away, or the server shuts down.
Disconnect ==
    /\ client.phase # "off" /\ client.told \notin Terminals
    /\ client' = Ended(client, "none")
    /\ UNCHANGED <<store, run>>

-----------------------------------------------------------------------------
Generation ==
    \/ \E kind \in Kinds : Publish(kind)
    \/ Save \/ (\E kind \in Outcomes : End(kind)) \/ Withdraw \/ PublishBlocked
    \/ Release \/ Lapse \/ Expire

Subscribing == List \/ ReadText \/ ReadThink \/ Decide

Handling == WriteReplay \/ Replayed \/ WriteLive \/ ReaderClosed

Next ==
    \/ Generation
    \/ Connect \/ Subscribing \/ CallFails \/ Read \/ HandOn \/ Handling \/ CheckActive \/ Disconnect

Spec == Init /\ [][Next]_vars

\* The server keeps working on a connection, its ticker keeps firing, and a
\* lease is released or runs out.
FairSpec ==
    /\ Spec
    /\ WF_vars(Subscribing) /\ WF_vars(Read \/ HandOn) /\ WF_vars(Handling) /\ WF_vars(CheckActive)
    /\ WF_vars(Release \/ Lapse)

-----------------------------------------------------------------------------
(***************************************************************************)
(* Properties.                                                             *)
(***************************************************************************)

\* The window and the checkpoints are in the order of their numbers, and the
\* window is bounded.
TypeOK ==
    /\ store.window \subseteq Event /\ store.seq \in 0 .. MaxAppends
    /\ \A e \in store.window : e.seq \in store.seq - (MaxEvents + Slack) + 1 .. store.seq
    /\ \A d, e \in store.window : d.seq = e.seq => d = e
    /\ store.text \in Content /\ store.think \in Content
    /\ store.textSeq \in 0 .. store.seq /\ store.thinkSeq \in 0 .. store.seq
    /\ client.replay \subseteq Item /\ client.queue \in Seq(Item) /\ client.batch \subseteq Event
    /\ client.phase \in {"off", "listing", "text", "think", "deciding", "replaying", "live"}
    /\ client.got \subseteq Seqs /\ client.last \in 0 .. MaxAppends

\* shown is how said begins.
Begins(shown, said) ==
    Len(shown) <= Len(said) /\ \A i \in 1 .. Len(shown) : shown[i] = said[i]

\* What a subscriber shows is what the store has taken of the answer so far, no
\* piece twice and none missing, once the replay is written, whatever was appended
\* or trimmed between its reads, unless the live reader was overtaken by the window
\* (checkpoints and filters of readStoreEvents); and if no append has failed, it is
\* how the answer itself begins.
ShownIsSaid ==
    client.phase = "live" /\ ~ client.lagged /\ ~ run.withdrawn =>
        /\ Begins(client.text, run.text)
        /\ Unstored \notin Pieces(run.answer) => Begins(client.text, run.answer)

\* Who is told the end of a run shows the text and the last round of thinking as
\* they were stored; it lacks no piece of the answer but those whose append
\* failed (publishWithLease), and if none has, it shows the answer.
EndIsWhole ==
    client.told \in Outcomes /\ ~ client.lagged /\ ~ run.withdrawn =>
        /\ client.text = run.text /\ client.think = run.think
        /\ Pieces(client.text) = Pieces(run.answer) \ {Unstored}
        /\ Unstored \notin Pieces(run.answer) => client.text = run.answer

\* What is shown is in the order in which it was said and no piece is there twice,
\* also where the window has overtaken the live reader, which then goes on after a
\* hole, and after moderation has withdrawn the answer (the filters of readStoreEvents).
InOrder ==
    /\ \A i, j \in 1 .. Len(client.text) : i < j => client.text[i] < client.text[j]
    /\ \A i, j \in 1 .. Len(client.think) : i < j => client.think[i] < client.think[j]

\* The reader's view, together with the order of what the store keeps for it.
ViewIsRight == TypeOK /\ ShownIsSaid /\ EndIsWhole /\ InOrder

\* Who is told the end of a run, on a connection that asked for everything, has
\* also had every event that is not content and that the window must still hold.
NothingMissed ==
    client.told \in Outcomes /\ ~ client.lagged /\ ~ client.resumed =>
        \A e \in store.window :
            e.kind = "other" /\ e.seq > store.seq - MaxEvents => e.seq \in client.got

\* A connection that begins after the events were withdrawn is sent nothing of
\* them (the reset before moderation_blocked).
WithdrawnStaysAway ==
    client.fresh => /\ \A item \in client.replay : item.content = <<>>
                    /\ \A i \in 1 .. Len(client.queue) : client.queue[i].content = <<>>

\* A subscription comes to an end: the terminal event, an interruption or a
\* closed channel; it does not wait for a run that is gone.
WatchingEnds == (client.phase # "off") ~> (client.phase = "off")

=============================================================================
