---------------------------- MODULE FileEmbedding ----------------------------
(***************************************************************************)
(* The vector index of uploaded files (application/embedding): a user      *)
(* submits files (SubmitFileEmbeddings), the embedding workers lease the   *)
(* messages, claim the row for the vector space that was configured,       *)
(* replace the chunks and publish the file as ready                        *)
(* (ProcessTargetedJob); uploads and the reindexer run the same pipeline   *)
(* without a message (ProcessFile); and the administrator switches the     *)
(* vector space under all of them (settings handler, MarkEmbeddedFilesStale)*)
(*                                                                         *)
(* A vector space stands for the signature and the endpoint of the         *)
(* embedding model.  A failing write is done or not done.  What has        *)
(* happened is counted in `had': failing calls, writes of a status that    *)
(* fail without anybody making up for them (drops), lapses of live leases  *)
(* (stalls), restarts, submissions, requests that save the space,          *)
(* submissions cut short and runs without a message.  Each element of      *)
(* Events bounds one combination.                                          *)
(***************************************************************************)
EXTENDS LeaseQueue, Naturals

CONSTANTS Files, Spaces, Servers,
          Workers,    \* the queue's workers
          Autos,      \* runs without a message: upload, reindex
          Home,       \* the server of a worker or run
          MaxRetries,
          Events,     \* bounds: how much of what may happen together
          NoSpace

Kinds == {"calls", "drops", "stalls", "restarts", "submits", "changes", "cuts", "autos"}

ASSUME EmbeddingAssumption ==
  /\ Home \in [Workers \cup Autos -> Servers]
  /\ MaxRetries \in Nat /\ Events \subseteq [Kinds -> Nat]
  /\ NoSpace \notin Spaces /\ NoOne \notin Workers \cup Autos
  /\ Workers \cap Autos = {}

VARIABLES row,      \* embed_status and embed_signature of each file; history: the
                    \* spaces it has belonged to, and whether it came back to one
          chunks,   \* the space of the file's chunks, or NoSpace
          queue,    \* the embedding queue
          runtime,  \* each server's configured space
          saved,    \* the settings table's
          admin,    \* the request that saves the space, and whether an
                    \* invalidation failed that no later one has made up for
          submit,   \* the submission under way of each file
          hand,     \* where each worker and each run stands
          had       \* what has happened so far

vars == <<row, chunks, queue, runtime, saved, admin, submit, hand, had>>
dataVars == <<row, chunks>>
userVars == <<runtime, saved, admin, submit>>

Runners == Workers \cup Autos
Statuses == {"none", "queued", "processing", "ready", "failed", "stale", "empty"}
Underway == {"queued", "processing"}
Embedding == {"embed", "publish", "check", "ready", "recheck", "outdated"}
Started == {"begin", "look", "claim"}
Concluding == {"verify", "requeueRow", "requeue", "failRow", "deadLetter",
               "settle"}

NoMessage == [id |-> <<>>]
Resting == [pc |-> "idle", msg |-> NoMessage, file |-> NoSpace,
            space |-> NoSpace, err |-> FALSE]
NoSubmit == [pc |-> "idle", space |-> NoSpace, n |-> 0]

Message(f, s, n, r) ==
  [id |-> <<n, r>>, file |-> f, space |-> s, retry |-> r, reclaimed |-> FALSE]

Init ==
  /\ row = [f \in Files |-> [status |-> "none", space |-> NoSpace, been |-> {},
                          back |-> FALSE]]
  /\ chunks = [f \in Files |-> NoSpace]
  /\ queue = EmptyQueue
  /\ saved \in Spaces
  /\ runtime = [s \in Servers |-> saved]
  /\ admin = [pc |-> "idle", server |-> NoOne, owed |-> FALSE]
  /\ submit = [f \in Files |-> NoSubmit]
  /\ hand = [w \in Runners |-> Resting]
  /\ had = [k \in Kinds |-> 0]

Meets(what) ==
  /\ had' = [had EXCEPT ![what] = @ + 1]
  /\ \E e \in Events : \A k \in Kinds : had'[k] <= e[k]

-----------------------------------------------------------------------------
(* What the statements on the row do.                                      *)

\* UpdateFileObjectEmbedStatus: only while the row belongs to the space.
SetStatus(f, s, status) ==
  row' = IF row[f].space = s THEN [row EXCEPT ![f].status = status] ELSE row

\* The error of the write ends the call, which is made again or reported.
Unanswered(f, s, status) ==
  Meets("calls") /\ (SetStatus(f, s, status) \/ UNCHANGED row)

\* The error of the write is ignored, or logged at most.
Tries(f, s, status, what) ==
  \/ SetStatus(f, s, status) /\ UNCHANGED had
  \/ Meets(what) /\ UNCHANGED row

\* QueueFileEmbedding and ClaimFileEmbedding: unless the space has it already.
Takes(f, s, statuses) == ~(row[f].space = s /\ row[f].status \in statuses)

Give(f, s, status) ==
  row' = [row EXCEPT ![f] = [status |-> status, space |-> s, been |-> @.been \cup {s},
                             back |-> @.back \/ s \in @.been \ {@.space}]]

\* MarkEmbeddedFilesStale: whatever is not indexed in the space that is active.
Invalidate(s) ==
  row' = [f \in Files |->
            IF row[f].status \in Underway \cup {"ready"} /\ chunks[f] # s
            THEN [row[f] EXCEPT !.status = "stale"] ELSE row[f]]

-----------------------------------------------------------------------------
(* The administrator: save, then apply to this server, then invalidate,    *)
(* also when the space is the one that was saved before.                   *)

SaveSpace(v) ==
  /\ admin.pc = "idle"
  /\ saved' \in Spaces
  /\ Meets("changes")
  /\ admin' = [admin EXCEPT !.pc = "apply", !.server = v]
  /\ UNCHANGED <<row, chunks, queue, runtime, submit, hand>>

RequestEnds(owed) == admin' = [pc |-> "idle", server |-> NoOne, owed |-> owed]

\* What was saved stays saved although the request fails.
ApplyTo ==
  /\ admin.pc = "apply"
  /\ \/ /\ runtime' = [runtime EXCEPT ![admin.server] = saved]
        /\ admin' = [admin EXCEPT !.pc = "reconcile"]
     \/ RequestEnds(admin.owed) /\ UNCHANGED runtime
  /\ UNCHANGED <<row, chunks, queue, saved, submit, hand, had>>

ReconcileIndex ==
  /\ admin.pc = "reconcile"
  /\ \/ Invalidate(runtime[admin.server]) /\ RequestEnds(FALSE)
     \/ RequestEnds(TRUE) /\ UNCHANGED row
  /\ UNCHANGED <<chunks, queue, runtime, saved, submit, hand, had>>

-----------------------------------------------------------------------------
(* The user: PlanFiles and QueueTargetedJob, then EnqueueFileEmbedding.    *)

\* A row whose queueing is not answered is skipped.
SubmitFile(f, v) ==
  /\ submit[f].pc = "idle"
  /\ Takes(f, runtime[v], Underway \cup {"ready"})
  /\ Give(f, runtime[v], "queued")
  /\ \/ /\ Meets("submits")
        /\ submit' = [submit EXCEPT ![f] = [pc |-> "enqueue", space |-> runtime[v],
                                            n |-> had'.submits]]
     \/ Meets("drops") /\ UNCHANGED submit
  /\ UNCHANGED <<chunks, queue, runtime, saved, admin, hand>>

EnqueueFile(f) ==
  LET s == submit[f].space
      put == queue' = Enqueue(queue, Message(f, s, submit[f].n, 0))
  IN  /\ submit[f].pc = "enqueue"
      /\ \/ put /\ submit' = [submit EXCEPT ![f] = NoSubmit] /\ UNCHANGED had
         \/ /\ Meets("calls")
            /\ put \/ UNCHANGED queue
            /\ submit' = [submit EXCEPT ![f].pc = "release"]
      /\ UNCHANGED <<row, chunks, runtime, saved, admin, hand>>

\* FailTargetedJob, of a message that could not be queued.
ReleaseRow(f) ==
  /\ submit[f].pc = "release"
  /\ Tries(f, submit[f].space, "failed", "drops")
  /\ submit' = [submit EXCEPT ![f] = NoSubmit]
  /\ UNCHANGED <<chunks, queue, runtime, saved, admin, hand>>

SubmitCrash(f) ==
  /\ submit[f].pc # "idle"
  /\ submit' = [submit EXCEPT ![f] = NoSubmit]
  /\ Meets("cuts")
  /\ UNCHANGED <<row, chunks, queue, runtime, saved, admin, hand>>

\* ListFiles fails what has been processing for six minutes.  A run without a
\* message is cut off at five; the worker of a message is not.
MarkTimedOut(f) ==
  /\ row[f].status = "processing"
  /\ \A a \in Autos : hand[a].pc \in Embedding => hand[a].file # f
  /\ row' = [row EXCEPT ![f].status = "failed"]
  /\ UNCHANGED <<chunks, queue, userVars, hand, had>>

-----------------------------------------------------------------------------
(* Messages and runs start.                                                *)

Handles(w, l) == hand[w].pc # "idle" /\ hand[w].msg.id = l.msg.id /\ l.owner = w

Expire(l) ==
  /\ ~l.idle
  /\ queue' = Idle(queue, l)
  /\ IF \E w \in Workers : Handles(w, l) THEN Meets("stalls") ELSE UNCHANGED had
  /\ UNCHANGED <<dataVars, userVars, hand>>

Start(w, msg) ==
  hand' = [hand EXCEPT ![w] = [pc |-> "begin", msg |-> msg, file |-> msg.file,
                               space |-> msg.space, err |-> FALSE]]

ClaimTimedOut(w) ==
  /\ hand[w].pc = "idle"
  /\ \E l \in queue.leased :
       l.idle /\ queue' = Claim(queue, l, w) /\ Start(w, Passed(l, w).msg)
  /\ UNCHANGED <<dataVars, userVars, had>>

ReadMessage(w) ==
  /\ hand[w].pc = "idle"
  /\ queue.waiting # <<>>
  /\ queue' = Read(queue, w)
  /\ Start(w, Head(queue.waiting))
  /\ UNCHANGED <<dataVars, userVars, had>>

\* ProcessFile, for an upload or for a file that the reindexer listed.
StartAuto(a, f) ==
  /\ hand[a].pc = "idle"
  /\ row[f].status \in {"none", "stale", "failed"}
  /\ hand' = [hand EXCEPT ![a] = [pc |-> "claim", msg |-> NoMessage, file |-> f,
                                  space |-> runtime[Home[a]], err |-> FALSE]]
  /\ Meets("autos")
  /\ UNCHANGED <<dataVars, queue, userVars>>

-----------------------------------------------------------------------------
(* The pipeline.                                                           *)

Go(w, pc) == hand' = [hand EXCEPT ![w].pc = pc]
Rest(w) == hand' = [hand EXCEPT ![w] = Resting]

\* A run without a message has nothing to conclude.
Return(w, err) ==
  IF w \in Autos THEN Rest(w)
  ELSE hand' = [hand EXCEPT ![w].pc = "verify", ![w].err = err]

Current(w) == runtime[Home[w]] = hand[w].space

FaultBegin(w) ==
  /\ hand[w].pc = "begin"
  /\ \/ Current(w) /\ Go(w, "look") /\ UNCHANGED <<row, had>>
     \/ Current(w) /\ Return(w, TRUE) /\ Meets("calls") /\ UNCHANGED row
     \/ ~Current(w) /\ Return(w, FALSE) /\ UNCHANGED <<row, had>>
  /\ UNCHANGED <<chunks, queue, userVars>>

\* ProcessTargetedJob: a job of another space is stale.
Begin(w) ==
  /\ hand[w].pc = "begin"
  /\ \/ Current(w) /\ Go(w, "look") /\ UNCHANGED <<row, had>>
     \/ Current(w) /\ Return(w, TRUE) /\ Meets("calls") /\ UNCHANGED row
     \/ /\ ~Current(w)
        /\ Tries(hand[w].file, hand[w].space, "stale", "drops")
        /\ Return(w, FALSE)
  /\ UNCHANGED <<chunks, queue, userVars>>

\* A row that is already processing for the space is an earlier delivery's.
Look(w) ==
  /\ hand[w].pc = "look"
  /\ \/ /\ IF Takes(hand[w].file, hand[w].space, {"processing"})
           THEN Go(w, "claim") ELSE Go(w, "embed")
        /\ UNCHANGED had
     \/ Return(w, TRUE) /\ Meets("calls")
  /\ UNCHANGED <<dataVars, queue, userVars>>

ClaimRow(w) ==
  /\ hand[w].pc = "claim"
  /\ LET f == hand[w].file
         s == hand[w].space
         can == Takes(f, s, {"processing", "ready"})
     IN  \/ can /\ Give(f, s, "processing") /\ Go(w, "embed") /\ UNCHANGED had
         \/ ~can /\ Return(w, FALSE) /\ UNCHANGED <<row, had>>
         \/ /\ Return(w, TRUE)
            /\ Meets("calls")
            /\ (can /\ Give(f, s, "processing")) \/ UNCHANGED row
  /\ UNCHANGED <<chunks, queue, userVars>>

\* The text is loaded and embedded: vectors, no text, or a failure.
EmbedTexts(w) ==
  LET f == hand[w].file
      s == hand[w].space
  IN  /\ hand[w].pc = "embed"
      /\ \/ Go(w, "publish") /\ UNCHANGED <<row, had>>
         \/ SetStatus(f, s, "empty") /\ Return(w, FALSE) /\ UNCHANGED had
         \/ Unanswered(f, s, "empty") /\ Return(w, TRUE)
         \/ Tries(f, s, "failed", "calls") /\ Return(w, TRUE)
      /\ UNCHANGED <<chunks, queue, userVars>>

FaultPublishable(f, s) == row[f].status = "processing"

\* ReplaceFileChunks: in one transaction, only while the row is still being
\* processed for the space.
Publishable(f, s) == row[f].space = s /\ row[f].status = "processing"

ReplaceFileChunks(w) ==
  /\ hand[w].pc = "publish"
  /\ LET f == hand[w].file
         s == hand[w].space
     IN  \/ /\ Publishable(f, s)
            /\ chunks' = [chunks EXCEPT ![f] = s]
            /\ Go(w, "check")
            /\ UNCHANGED <<row, had>>
         \/ /\ ~Publishable(f, s)
            /\ Return(w, FALSE)
            /\ UNCHANGED <<row, chunks, had>>
         \/ /\ Unanswered(f, s, "failed")
            /\ \/ UNCHANGED chunks
               \/ Publishable(f, s) /\ chunks' = [chunks EXCEPT ![f] = s]
            /\ Return(w, TRUE)
  /\ UNCHANGED <<queue, userVars>>

\* After the count of the chunks is written, completeFileEmbedding compares the
\* configuration before and after it publishes the file.
CheckSpace(w) ==
  /\ hand[w].pc = "check"
  /\ \/ Go(w, IF Current(w) THEN "ready" ELSE "outdated") /\ UNCHANGED had
     \/ Return(w, TRUE) /\ Meets("calls")
  /\ UNCHANGED <<dataVars, queue, userVars>>

PublishReady(w) ==
  /\ hand[w].pc = "ready"
  /\ \/ /\ SetStatus(hand[w].file, hand[w].space, "ready")
        /\ IF row[hand[w].file].space = hand[w].space THEN Go(w, "recheck")
           ELSE Return(w, FALSE)
        /\ UNCHANGED had
     \/ Unanswered(hand[w].file, hand[w].space, "ready") /\ Return(w, TRUE)
  /\ UNCHANGED <<chunks, queue, userVars>>

FaultRecheckSpace(w) ==
  /\ hand[w].pc = "recheck"
  /\ Return(w, FALSE)
  /\ UNCHANGED <<dataVars, queue, userVars, had>>

RecheckSpace(w) ==
  /\ hand[w].pc = "recheck"
  /\ IF Current(w) THEN Return(w, FALSE) ELSE Go(w, "outdated")
  /\ UNCHANGED <<dataVars, queue, userVars, had>>

MarkOutdated(w) ==
  /\ hand[w].pc = "outdated"
  /\ \/ /\ SetStatus(hand[w].file, hand[w].space, "stale")
        /\ Return(w, FALSE)
        /\ UNCHANGED had
     \/ Unanswered(hand[w].file, hand[w].space, "stale") /\ Return(w, TRUE)
  /\ UNCHANGED <<chunks, queue, userVars>>

-----------------------------------------------------------------------------
(* The end of handleEmbeddingMessage.                                      *)

\* A cancelled embedding still tries to write its failure, in a context of its own.
Abandon(w) == SetStatus(hand[w].file, hand[w].space, "failed")

LoseOwnership(w) ==
  /\ hand[w].pc \in Started \cup Embedding
  /\ ~Owns(queue, w, hand[w].msg)
  /\ \/ hand[w].pc \in {"embed", "publish"} /\ Abandon(w)
     \/ UNCHANGED row
  /\ Rest(w)
  /\ UNCHANGED <<chunks, queue, userVars, had>>

FaultAfterVerify(w) ==
  CASE ~hand[w].err -> "settle"
    [] hand[w].err /\ hand[w].msg.retry <= MaxRetries -> "requeueRow"
    [] OTHER -> "failRow"

AfterVerify(w) ==
  CASE ~hand[w].err -> "settle"
    [] hand[w].err /\ hand[w].msg.retry < MaxRetries -> "requeueRow"
    [] OTHER -> "failRow"

Verify(w) ==
  /\ hand[w].pc = "verify"
  /\ \/ /\ Owns(queue, w, hand[w].msg)
        /\ queue' = Renew(queue, hand[w].msg)
        /\ Go(w, AfterVerify(w))
        /\ UNCHANGED had
     \/ ~Owns(queue, w, hand[w].msg) /\ Rest(w) /\ UNCHANGED <<queue, had>>
     \/ Rest(w) /\ Meets("calls") /\ UNCHANGED queue
  /\ UNCHANGED <<dataVars, userVars>>

\* RequeueTargetedJob and FailTargetedJob: the row first, then the message.
RequeueRow(w) ==
  /\ hand[w].pc = "requeueRow"
  /\ \/ /\ SetStatus(hand[w].file, hand[w].space, "queued")
        /\ Go(w, "requeue")
        /\ UNCHANGED had
     \/ Unanswered(hand[w].file, hand[w].space, "queued") /\ Rest(w)
  /\ UNCHANGED <<chunks, queue, userVars>>

FaultFailRow(w) ==
  /\ hand[w].pc = "failRow"
  /\ \/ /\ SetStatus(hand[w].file, hand[w].space, "failed")
        /\ Go(w, "deadLetter")
        /\ UNCHANGED had
     \/ Go(w, "deadLetter") /\ Meets("calls") /\ UNCHANGED row
  /\ UNCHANGED <<chunks, queue, userVars>>

FailRow(w) ==
  /\ hand[w].pc = "failRow"
  /\ \/ /\ SetStatus(hand[w].file, hand[w].space, "failed")
        /\ Go(w, "deadLetter")
        /\ UNCHANGED had
     \/ Unanswered(hand[w].file, hand[w].space, "failed") /\ Rest(w)
  /\ UNCHANGED <<chunks, queue, userVars>>

QueueCall(w, after) ==
  /\ \/ /\ queue' = IF Owns(queue, w, hand[w].msg) THEN after ELSE queue
        /\ UNCHANGED had
     \/ queue' = queue /\ Meets("calls")
  /\ Rest(w)
  /\ UNCHANGED <<dataVars, userVars>>

RequeueMessage(w) ==
  /\ hand[w].pc = "requeue"
  /\ LET msg == hand[w].msg
     IN  QueueCall(w, Requeue(queue, msg, Message(msg.file, msg.space, msg.id[1],
                                                  msg.retry + 1)))

SettleMessage(w) ==
  hand[w].pc = "settle" /\ QueueCall(w, Settle(queue, hand[w].msg))

DeadLetterMessage(w) ==
  hand[w].pc = "deadLetter" /\ QueueCall(w, DeadLetter(queue, hand[w].msg))

\* A server stops and starts again: it reads the settings and reconciles the
\* index before its workers start, which it does also if that fails.
Restart(v) ==
  /\ Meets("restarts")
  /\ hand' = [w \in Runners |-> IF Home[w] = v THEN Resting ELSE hand[w]]
  /\ queue' = [queue EXCEPT !.leased =
                 {IF l.owner \in Workers /\ Home[l.owner] = v
                  THEN [l EXCEPT !.owner = NoOne] ELSE l : l \in @}]
  /\ runtime' = [runtime EXCEPT ![v] = saved]
  /\ \E fails \in BOOLEAN :
       /\ IF admin.server = v THEN RequestEnds(fails)
          ELSE admin' = [admin EXCEPT !.owed = fails]
       /\ IF fails THEN UNCHANGED row ELSE Invalidate(saved)
  /\ UNCHANGED <<chunks, saved, submit>>

Handling(w) ==
  \/ Begin(w) \/ Look(w) \/ ClaimRow(w) \/ EmbedTexts(w) \/ ReplaceFileChunks(w)
  \/ CheckSpace(w) \/ PublishReady(w) \/ RecheckSpace(w) \/ MarkOutdated(w)
  \/ Verify(w) \/ RequeueRow(w) \/ RequeueMessage(w) \/ FailRow(w)
  \/ DeadLetterMessage(w) \/ SettleMessage(w)

Next ==
  \/ \E v \in Servers : SaveSpace(v) \/ Restart(v)
  \/ ApplyTo \/ ReconcileIndex
  \/ \E f \in Files : \/ \E v \in Servers : SubmitFile(f, v)
                      \/ EnqueueFile(f) \/ ReleaseRow(f)
                      \/ SubmitCrash(f) \/ MarkTimedOut(f)
  \/ \E a \in Autos, f \in Files : StartAuto(a, f)
  \/ \E l \in queue.leased : Expire(l)
  \/ \E w \in Workers : ClaimTimedOut(w) \/ ReadMessage(w) \/ LoseOwnership(w)
  \/ \E w \in Runners : Handling(w)

Abandoned == {l \in queue.leased : \A w \in Workers : ~Handles(w, l)}

Spec == Init /\ [][Next]_vars

\* What has begun goes on and abandoned leases run out; nobody has to submit,
\* to switch, to reindex, to list files or to crash.
FairSpec ==
  /\ Spec
  /\ WF_vars(ApplyTo \/ ReconcileIndex)
  /\ \A f \in Files : WF_vars(EnqueueFile(f) \/ ReleaseRow(f))
  /\ \A w \in Runners : WF_vars(Handling(w))
  /\ \A w \in Workers : WF_vars(ClaimTimedOut(w)) /\ SF_vars(ReadMessage(w))
  /\ WF_vars(\E l \in Abandoned : Expire(l))

-----------------------------------------------------------------------------
(* Properties.                                                             *)

SpaceOrNone == Spaces \cup {NoSpace}

\* The type invariant.
TypeOK ==
  /\ row \in [Files -> [status : Statuses, space : SpaceOrNone, been : SUBSET Spaces,
                       back : BOOLEAN]]
  /\ chunks \in [Files -> SpaceOrNone]
  /\ saved \in Spaces /\ runtime \in [Servers -> Spaces]
  /\ admin \in [pc : {"idle", "apply", "reconcile"}, server : Servers \cup {NoOne},
               owed : BOOLEAN]
  /\ submit \in [Files -> [pc : {"idle", "enqueue", "release"}, space : SpaceOrNone,
                           n : Nat]]
  /\ \A w \in Runners :
       /\ hand[w].pc \in {"idle"} \cup Started \cup Embedding \cup Concluding
       /\ hand[w].space \in SpaceOrNone
  /\ \A l \in queue.leased : l.msg.retry \in 0 .. MaxRetries
  /\ had \in [Kinds -> Nat]

\* A file said to be indexed has its chunks in the space it is said to be indexed
\* in: no embedding that a switch, a retry or a second delivery has overtaken puts
\* ready on another one's chunks (ReplaceFileChunks, completeFileEmbedding), as long as
\* the file does not come back to a space it was taken out of: the statements
\* compare the space and do not know that there was another between.
ReadyIsIndexed ==
  \A f \in Files : row[f].status = "ready" /\ ~row[f].back => chunks[f] = row[f].space

\* Nobody was cut off in the middle of a submission, no live worker lost its lease,
\* and no write was dropped: the failed of a message that was refused
\* (SubmitFileEmbeddings), the stale of a job of another space (ProcessTargetedJob),
\* or the queued whose answer got lost.
NothingIsDropped == had.cuts + had.stalls + had.drops = 0

\* No run without a message has met a failing call or a restart: nobody takes up
\* again what it leaves behind.
RunsConclude == had.autos = 0 \/ had.calls + had.restarts = 0

\* A queued file has a message or a submission that will take it out of the
\* queue, whichever call fails on the way (RequeueTargetedJob before
\* RequeueFileProcessingMessage, FailTargetedJob after a refused message), except
\* for what NothingIsDropped names: such a file stays queued, and the next
\* submission is refused (fileVectorizationSkipReason).
QueuedHasMessage ==
  NothingIsDropped => \A f \in Files : row[f].status = "queued" =>
    \/ submit[f].pc # "idle" /\ submit[f].space = row[f].space
    \/ \E m \in Messages(queue) : m.file = f /\ m.space = row[f].space

\* A dead letter's file is not left under way for its space (FailTargetedJob
\* before the dead letter), unless it was a run without a message that took it up
\* again and then died or could not write.
DeadIsSettled ==
  NothingIsDropped /\ RunsConclude =>
    \A m \in queue.dead :
      \/ row[m.file].space # m.space
      \/ row[m.file].status \notin Underway
      \/ submit[m.file].pc # "idle"
      \/ \E k \in Messages(queue) : k.file = m.file
      \/ \E w \in Runners : hand[w].file = m.file

\* The rows, the queue and the index agree on how far a file is.
FilesAgree == TypeOK /\ ReadyIsIndexed /\ QueuedHasMessage /\ DeadIsSettled

\* What was queued is indexed, failed, empty or outdated in the end.
QueuedSettles ==
  \A f \in Files :
    row[f].status = "queued" ~> \/ row[f].status \notin Underway
                                \/ ~(NothingIsDropped /\ RunsConclude)

\* No file stays ready in a space that no server is configured for any more (the
\* other servers learn of a switch when they restart).  A failed invalidation is
\* made up for by the next request that saves the space, even unchanged, or by the
\* next start (settings handler); the run without a message that cannot write is
\* not.
OutdatedIsFound ==
  \A f \in Files : row[f].status = "ready" /\ row[f].space # saved
                     ~> \/ ~(row[f].status = "ready" /\ row[f].space # saved)
                        \/ \E v \in Servers : runtime[v] # saved
                        \/ admin.owed \/ had.drops > 0 \/ ~RunsConclude
=============================================================================
