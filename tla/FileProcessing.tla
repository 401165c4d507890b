--------------------------- MODULE FileProcessing ---------------------------
(***************************************************************************)
(* How an uploaded file gets its text: the upload queues it                *)
(* (InitializeUploadedFile), the one extraction worker of each server      *)
(* leases the message, claims the file row, extracts, embeds and writes    *)
(* the outcome (handleProcessingMessage, processFile), and the queue gives *)
(* the message of a worker that stops renewing its lease to another one.   *)
(*                                                                         *)
(* A claim stamps the row with the attempt, and the attempt writes only    *)
(* while its stamp is there.  The code draws an attempt id for every       *)
(* message it handles; here the stamp is the worker, since a worker writes *)
(* only after its own claim has replaced whatever stamp was there.         *)
(*                                                                         *)
(* What may go wrong is counted in `had': calls that fail, with or without *)
(* their effect; stalls, the leases a working worker loses for want of     *)
(* renewals; crashes of workers; and uploads that end between their two    *)
(* writes.  Each element of Troubles bounds one combination of them.       *)
(***************************************************************************)
EXTENDS LeaseQueue, Naturals

CONSTANTS Files, Workers, MaxRetries,
          Troubles,   \* bounds: how much of what may go wrong together
          NoAttempt

Kinds == {"calls", "stalls", "crashes", "uploads", "deletes"}

ASSUME FileAssumption ==
  /\ MaxRetries \in Nat /\ Troubles \subseteq [Kinds -> Nat]
  /\ NoOne \notin Workers /\ NoAttempt \notin Workers

VARIABLES file,    \* the row: processing status, attempt, rag state, alive
          embed,   \* its embed_status, for the one configured model
          queue,   \* the extraction queue
          upload,  \* where the upload of the file stands
          hand,    \* where each worker stands and with which message
          had      \* what has gone wrong so far

vars == <<file, embed, queue, upload, hand, had>>

Statuses == {"uploaded", "queued", "extracting", "embedding", "ready", "failed"}
Unfinished == {"queued", "extracting", "embedding"}
Finished == {"ready", "failed"}
Working == {"read", "claim", "extract", "save", "fail", "empty", "embed",
            "embedding", "embedFailed", "final"}
Concluding == {"verify", "reset", "requeue", "finalize", "markFailed", "force",
               "deadLetter", "settle"}
Outcomes == {"skip", "done", "lost", "unclaimed", "error"}
EmbedStatuses == {"none", "processing", "ready", "failed", "empty"}

Message(f, n) == [id |-> <<f, n>>, file |-> f, retry |-> n, reclaimed |-> FALSE]
NoMessage == [id |-> <<>>]
Resting == [pc |-> "idle", msg |-> NoMessage, out |-> "skip"]

Init ==
  /\ file = [f \in Files |-> [status |-> "uploaded", attempt |-> NoAttempt,
                              rag |-> "none", alive |-> TRUE]]
  /\ embed = [f \in Files |-> "none"]
  /\ queue = EmptyQueue
  /\ upload = [f \in Files |-> "new"]
  /\ hand = [w \in Workers |-> Resting]
  /\ had = [k \in Kinds |-> 0]

Meets(what) ==
  /\ had' = [had EXCEPT ![what] = @ + 1]
  /\ \E t \in Troubles : \A k \in Kinds : had'[k] <= t[k]

\* rag is the row's rag_reason: "pending" is embedding_pending, which has rag_ready
\* set beside it although nothing is embedded yet; so the properties are about "ready".
Write(f, status, attempt, rag) ==
  file' = [file EXCEPT ![f].status = status, ![f].attempt = attempt,
                       ![f].rag = rag]

\* UpdateFileObjectEmbedStatus: not for a deleted file.
Embedded(f, status) == IF file[f].alive THEN [embed EXCEPT ![f] = status] ELSE embed

-----------------------------------------------------------------------------
(* The upload, and what users do to files.                                 *)

\* InitializeUploadedFile writes the queued state.
MarkQueued(f) ==
  /\ upload[f] = "new"
  /\ \/ /\ Write(f, "queued", file[f].attempt, "none")
        /\ upload' = [upload EXCEPT ![f] = "marked"]
        /\ UNCHANGED had
     \/ /\ upload' = [upload EXCEPT ![f] = "done"]
        /\ Meets("calls")
        /\ UNCHANGED file
  /\ UNCHANGED <<embed, queue, hand>>

\* Then it enqueues; a refused or failed enqueue marks the file failed.
EnqueueFile(f) ==
  /\ upload[f] = "marked"
  /\ \/ /\ queue' = Enqueue(queue, Message(f, 0))
        /\ upload' = [upload EXCEPT ![f] = "done"]
        /\ UNCHANGED had
     \/ /\ Meets("calls")
        /\ queue' \in {queue, Enqueue(queue, Message(f, 0))}
        /\ upload' = [upload EXCEPT ![f] = "refused"]
  /\ UNCHANGED <<file, embed, hand>>

\* markFileProcessingFailed: the write names no attempt and keeps the stamp.
RefuseFile(f) ==
  /\ upload[f] = "refused"
  /\ Write(f, "failed", file[f].attempt, "none")
  /\ upload' = [upload EXCEPT ![f] = "done"]
  /\ UNCHANGED <<embed, queue, hand, had>>

\* The server stops, or the write of a refused upload's failure fails, which is
\* only logged.
UploadCrash(f) ==
  /\ upload[f] \in {"marked", "refused"}
  /\ upload' = [upload EXCEPT ![f] = "done"]
  /\ Meets("uploads")
  /\ UNCHANGED <<file, embed, queue, hand>>

DeleteFile(f) ==
  /\ upload[f] = "done" /\ file[f].alive
  /\ file' = [file EXCEPT ![f].alive = FALSE]
  /\ Meets("deletes")
  /\ UNCHANGED <<embed, queue, upload, hand>>

\* ListFiles fails the embeddings that have been processing for six minutes,
\* longer than any embedding that still runs.
MarkTimedOut(f) ==
  /\ file[f].alive /\ embed[f] = "processing"
  /\ \A w \in Workers : hand[w].pc = "embedding" => hand[w].msg.file # f
  /\ embed' = [embed EXCEPT ![f] = "failed"]
  /\ file' = [file EXCEPT ![f].status = IF @ = "embedding" THEN "ready" ELSE @]
  /\ UNCHANGED <<queue, upload, hand, had>>

-----------------------------------------------------------------------------
(* The queue's side.                                                       *)

Handles(w, l) == hand[w].pc # "idle" /\ hand[w].msg.id = l.msg.id /\ l.owner = w

\* Nobody renewed the lease for 45 seconds: its reader is gone or has had the
\* message, or it is stalled or its renewals fail.
Expire(l) ==
  /\ ~l.idle
  /\ queue' = Idle(queue, l)
  /\ IF \E w \in Workers : Handles(w, l) THEN Meets("stalls") ELSE UNCHANGED had
  /\ UNCHANGED <<file, embed, upload, hand>>

Start(w, msg) == hand' = [hand EXCEPT ![w] = [pc |-> "read", msg |-> msg,
                                              out |-> "skip"]]

\* The worker looks for a timed out lease before it reads a message.
ClaimTimedOut(w) ==
  /\ hand[w].pc = "idle"
  /\ \E l \in queue.leased :
       /\ l.idle
       /\ queue' = Claim(queue, l, w)
       /\ Start(w, Passed(l, w).msg)
  /\ UNCHANGED <<file, embed, upload, had>>

ReadMessage(w) ==
  /\ hand[w].pc = "idle"
  /\ queue.waiting # <<>>
  /\ queue' = Read(queue, w)
  /\ Start(w, Head(queue.waiting))
  /\ UNCHANGED <<file, embed, upload, had>>

-----------------------------------------------------------------------------
(* processFile and processClaimedFile.                                     *)

Go(w, pc) == hand' = [hand EXCEPT ![w].pc = pc]
Conclude(w, out) == hand' = [hand EXCEPT ![w].pc = "verify", ![w].out = out]
File(w) == hand[w].msg.file

\* A deleted file is an error of the lookup (ErrFileNotFound), not a nil row.
ReadFile(w) ==
  /\ hand[w].pc = "read"
  /\ LET row == file[File(w)]
     IN  \/ row.alive /\ row.status \in Finished /\ Conclude(w, "skip")
              /\ UNCHANGED had
         \/ row.alive /\ row.status \notin Finished /\ Go(w, "claim")
              /\ UNCHANGED had
         \/ ~row.alive /\ Conclude(w, "unclaimed") /\ UNCHANGED had
         \/ Conclude(w, "unclaimed") /\ Meets("calls")
  /\ UNCHANGED <<file, embed, queue, upload>>

FaultClaimable(w) == {"queued"}

Claimable(w) ==
  IF hand[w].msg.reclaimed THEN Unfinished ELSE {"queued"}

ClaimFile(w) ==
  /\ hand[w].pc = "claim"
  /\ LET f == File(w)
         stamp == Write(f, "extracting", w, file[f].rag)
         can == file[f].status \in Claimable(w)
     IN  \/ can /\ stamp /\ Go(w, "extract") /\ UNCHANGED had
         \/ ~can /\ Conclude(w, "skip") /\ UNCHANGED <<file, had>>
         \/ /\ Meets("calls")
            /\ Conclude(w, "unclaimed")
            /\ UNCHANGED file \/ (can /\ stamp)
  /\ UNCHANGED <<embed, queue, upload>>

\* Text, no text (or an image without OCR), or a failure or its time limit.
Extract(w) ==
  /\ hand[w].pc = "extract"
  /\ \E next \in {"save", "empty", "fail"} : Go(w, next)
  /\ UNCHANGED <<file, embed, queue, upload, had>>

\* UpdateClaimedFileObjectProcessingState: only under the attempt's stamp, which
\* a final status takes away.
FaultClaimed(f, w) == file[f].attempt \in Workers

Claimed(f, w) == file[f].attempt = w

WriteClaimed(f, w, status, rag) ==
  Write(f, status, IF status \in Finished THEN NoAttempt ELSE w, rag)

\* One write of the attempt w, after which it goes on or concludes.
AttemptWrites(w, status, rag, goOn) ==
  LET f == File(w)
  IN  /\ \/ /\ Claimed(f, w)
            /\ WriteClaimed(f, w, status, rag)
            /\ goOn
            /\ UNCHANGED had
         \/ /\ ~Claimed(f, w)
            /\ Conclude(w, "lost")
            /\ UNCHANGED <<file, had>>
         \/ /\ Meets("calls")
            /\ Conclude(w, "error")
            /\ UNCHANGED file \/ (Claimed(f, w) /\ WriteClaimed(f, w, status, rag))
      /\ UNCHANGED <<queue, upload>>

\* The text is kept and the file is usable, and said to be searchable; the status
\* stays embedding when the upload is to be embedded, and is already final when
\* it is not.
SaveText(w) ==
  /\ hand[w].pc = "save"
  /\ \/ AttemptWrites(w, "embedding", "pending", Go(w, "embed"))
     \/ AttemptWrites(w, "ready", "pending", Go(w, "final"))
  /\ UNCHANGED embed

\* A file without text is never embedded: the same write says so.
WriteEmpty(w) ==
  /\ hand[w].pc = "empty"
  /\ AttemptWrites(w, "ready", "none", Conclude(w, "done"))
  /\ embed' = IF file' = file THEN embed ELSE [embed EXCEPT ![File(w)] = "empty"]

WriteFailed(w) ==
  /\ hand[w].pc = "fail"
  /\ AttemptWrites(w, "failed", "none", Conclude(w, "done"))
  /\ UNCHANGED embed

WriteEmbedFailed(w) ==
  /\ hand[w].pc = "embedFailed"
  /\ AttemptWrites(w, "ready", "failed", Conclude(w, "done"))
  /\ UNCHANGED embed

WriteFinal(w) ==
  /\ hand[w].pc = "final"
  /\ AttemptWrites(w, "ready", "ready", Conclude(w, "done"))
  /\ UNCHANGED embed

\* A claim that fails counts as one that was refused.
FaultClaimEmbedding(w) ==
  /\ hand[w].pc = "embed"
  /\ LET f == File(w)
         can == file[f].alive /\ embed[f] \notin {"processing", "ready"}
     IN  \/ /\ can
            /\ embed' = [embed EXCEPT ![f] = "processing"]
            /\ Go(w, "embedding")
            /\ UNCHANGED had
         \/ ~can /\ Go(w, "final") /\ UNCHANGED <<embed, had>>
         \/ Go(w, "final") /\ Meets("calls") /\ UNCHANGED embed
  /\ UNCHANGED <<file, queue, upload>>

\* ProcessFile waits for a slot, perhaps in vain, and claims the embedding:
\* refused while somebody else's is under way or done, and then the pipeline goes
\* on as if it were embedded.  A claim that fails may have taken effect.
ClaimEmbedding(w) ==
  /\ hand[w].pc = "embed"
  /\ LET f == File(w)
         can == file[f].alive /\ embed[f] \notin {"processing", "ready"}
         claim == embed' = [embed EXCEPT ![f] = "processing"]
     IN  \/ can /\ claim /\ Go(w, "embedding") /\ UNCHANGED had
         \/ ~can /\ Go(w, "final") /\ UNCHANGED <<embed, had>>
         \/ Go(w, "embedFailed") /\ UNCHANGED <<embed, had>>
         \/ can /\ claim /\ Go(w, "embedFailed") /\ Meets("calls")
  /\ UNCHANGED <<file, queue, upload>>

\* The chunks are published, counted and announced while the file is still being
\* embedded, or the text cannot be embedded, and the failure is written.  One
\* call more may fail: the error of the failed write is ignored, one of the count
\* or of the ready write is returned without it, and both leave the status.
EmbedChunks(w) ==
  /\ hand[w].pc = "embedding"
  /\ LET f == File(w)
         published == IF embed[f] = "processing" THEN Embedded(f, "ready") ELSE embed
     IN  \/ embed' = published /\ Go(w, "final") /\ UNCHANGED had
         \/ embed' = Embedded(f, "failed") /\ Go(w, "embedFailed") /\ UNCHANGED had
         \/ /\ Meets("calls")
            /\ embed' \in {embed, published, Embedded(f, "failed")}
            /\ Go(w, "embedFailed")
  /\ UNCHANGED <<file, queue, upload>>

-----------------------------------------------------------------------------
(* The end of handleProcessingMessage.                                     *)

Rest(w) == hand' = [hand EXCEPT ![w] = Resting]

\* A cancelled embedding still writes its failure, in a context of its own, unless
\* it was cancelled in a call whose error is returned at once, or that write fails.
Abandon(w) ==
  \/ UNCHANGED embed
  \/ hand[w].pc = "embedding" /\ embed' = Embedded(File(w), "failed")

\* The renewer finds the lease gone and cancels the work.
LoseOwnership(w) ==
  /\ hand[w].pc \in Working
  /\ ~Owns(queue, w, hand[w].msg)
  /\ Abandon(w)
  /\ Rest(w)
  /\ UNCHANGED <<file, queue, upload, had>>

FaultAfterVerify(w) ==
  LET msg == hand[w].msg
  IN  CASE hand[w].out = "unclaimed" -> "idle"
        [] hand[w].out = "error" -> IF msg.retry <= MaxRetries THEN "reset"
                                    ELSE "finalize"
        [] OTHER -> "settle"

AfterVerify(w) ==
  LET msg == hand[w].msg
  IN  CASE hand[w].out = "unclaimed" -> "idle"
        [] hand[w].out = "error" -> IF msg.retry < MaxRetries THEN "reset"
                                    ELSE "finalize"
        [] hand[w].out = "skip" /\ msg.retry >= MaxRetries
             /\ file[msg.file].status = "failed" -> "deadLetter"
        [] OTHER -> "settle"

\* The lease is renewed once more before anything is concluded.
Verify(w) ==
  /\ hand[w].pc = "verify"
  /\ \/ /\ Owns(queue, w, hand[w].msg)
        /\ queue' = Renew(queue, hand[w].msg)
        /\ IF AfterVerify(w) = "idle" THEN Rest(w) ELSE Go(w, AfterVerify(w))
        /\ UNCHANGED had
     \/ ~Owns(queue, w, hand[w].msg) /\ Rest(w) /\ UNCHANGED <<queue, had>>
     \/ Rest(w) /\ Meets("calls") /\ UNCHANGED queue
  /\ UNCHANGED <<file, embed, upload>>

\* ResetFileObjectProcessingForRetry: only under the attempt's stamp.
Reset(w) ==
  /\ hand[w].pc = "reset"
  /\ LET f == File(w)
         can == Claimed(f, w) /\ file[f].status \in {"extracting", "embedding"}
         reset == Write(f, "queued", NoAttempt, file[f].rag)
     IN  \/ can /\ reset /\ Go(w, "requeue") /\ UNCHANGED had
         \/ ~can /\ Rest(w) /\ UNCHANGED <<file, had>>
         \/ Meets("calls") /\ Rest(w) /\ (UNCHANGED file \/ (can /\ reset))
  /\ UNCHANGED <<embed, queue, upload>>

\* What a consumer does to a message it still owns, in one script.
QueueCall(w, after) ==
  /\ \/ /\ queue' = IF Owns(queue, w, hand[w].msg) THEN after ELSE queue
        /\ UNCHANGED had
     \/ queue' = queue /\ Meets("calls")
  /\ Rest(w)
  /\ UNCHANGED <<file, embed, upload>>

RequeueMessage(w) ==
  /\ hand[w].pc = "requeue"
  /\ LET msg == hand[w].msg
     IN  QueueCall(w, Requeue(queue, msg, Message(msg.file, msg.retry + 1)))

SettleMessage(w) ==
  hand[w].pc = "settle" /\ QueueCall(w, Settle(queue, hand[w].msg))

DeadLetterMessage(w) ==
  hand[w].pc = "deadLetter" /\ QueueCall(w, DeadLetter(queue, hand[w].msg))

\* forceFinalizeFailed looks, writes under its stamp, and without one anyway.
Finalize(w) ==
  /\ hand[w].pc = "finalize"
  /\ LET row == file[File(w)]
     IN  \/ row.alive /\ row.status \in Finished /\ Go(w, "deadLetter")
              /\ UNCHANGED had
         \/ row.alive /\ row.status \notin Finished /\ Go(w, "markFailed")
              /\ UNCHANGED had
         \/ ~row.alive /\ Rest(w) /\ UNCHANGED had
         \/ Rest(w) /\ Meets("calls")
  /\ UNCHANGED <<file, embed, queue, upload>>

FaultMarkFailed(w) ==
  /\ hand[w].pc = "markFailed"
  /\ LET f == File(w)
     IN  \/ /\ Claimed(f, w)
            /\ WriteClaimed(f, w, "failed", "none")
            /\ Go(w, "deadLetter")
            /\ UNCHANGED had
         \/ ~Claimed(f, w) /\ Go(w, "force") /\ UNCHANGED <<file, had>>
         \/ Go(w, "deadLetter") /\ Meets("calls") /\ UNCHANGED file
  /\ UNCHANGED <<embed, queue, upload>>

MarkFailed(w) ==
  /\ hand[w].pc = "markFailed"
  /\ LET f == File(w)
     IN  \/ /\ Claimed(f, w)
            /\ WriteClaimed(f, w, "failed", "none")
            /\ Go(w, "deadLetter")
            /\ UNCHANGED had
         \/ ~Claimed(f, w) /\ Go(w, "force") /\ UNCHANGED <<file, had>>
         \/ Rest(w) /\ Meets("calls") /\ UNCHANGED file
  /\ UNCHANGED <<embed, queue, upload>>

ForceFailed(w) ==
  /\ hand[w].pc = "force"
  /\ \/ /\ Write(File(w), "failed", file[File(w)].attempt, "none")
        /\ Go(w, "deadLetter")
        /\ UNCHANGED had
     \/ Rest(w) /\ Meets("calls") /\ UNCHANGED file
  /\ UNCHANGED <<embed, queue, upload>>

\* The process stops: at once, or by a shutdown that cancels the work.
Crash(w) ==
  /\ hand[w].pc # "idle"
  /\ Meets("crashes")
  /\ Abandon(w)
  /\ Rest(w)
  /\ queue' = Orphan(queue, w)
  /\ UNCHANGED <<file, upload>>

Handling(w) ==
  \/ ReadFile(w) \/ ClaimFile(w) \/ Extract(w) \/ SaveText(w) \/ WriteEmpty(w)
  \/ WriteFailed(w) \/ ClaimEmbedding(w) \/ EmbedChunks(w) \/ WriteEmbedFailed(w)
  \/ WriteFinal(w) \/ Verify(w) \/ Reset(w) \/ RequeueMessage(w)
  \/ SettleMessage(w) \/ Finalize(w) \/ MarkFailed(w) \/ ForceFailed(w)
  \/ DeadLetterMessage(w)

Next ==
  \/ \E f \in Files : \/ MarkQueued(f) \/ EnqueueFile(f) \/ RefuseFile(f)
                      \/ UploadCrash(f) \/ DeleteFile(f) \/ MarkTimedOut(f)
  \/ \E l \in queue.leased : Expire(l)
  \/ \E w \in Workers : \/ ClaimTimedOut(w) \/ ReadMessage(w) \/ Handling(w)
                        \/ LoseOwnership(w) \/ Crash(w)

\* A lease nobody works under runs out, and its worker is back for messages.
Abandoned == {l \in queue.leased : \A w \in Workers : ~Handles(w, l)}

Spec == Init /\ [][Next]_vars

\* Workers keep working, uploads end, abandoned leases run out; nobody has to
\* crash, to stall, to delete or to list files.
FairSpec ==
  /\ Spec
  /\ \A f \in Files : WF_vars(EnqueueFile(f) \/ RefuseFile(f))
  /\ \A w \in Workers : /\ WF_vars(Handling(w))
                        /\ WF_vars(ClaimTimedOut(w))
                        /\ SF_vars(ReadMessage(w))
  /\ WF_vars(\E l \in Abandoned : Expire(l))

-----------------------------------------------------------------------------
(* Properties.                                                             *)

Lease == {l \in [msg : [id : Files \X (0 .. MaxRetries), file : Files,
                        retry : 0 .. MaxRetries, reclaimed : BOOLEAN],
                 owner : Workers \cup {NoOne}, idle : BOOLEAN] :
            l.msg.id = <<l.msg.file, l.msg.retry>>}

\* The type invariant: a retry never passes fileProcessingMaxRetries.
TypeOK ==
  /\ file \in [Files -> [status : Statuses, attempt : Workers \cup {NoAttempt},
                         rag : {"none", "pending", "ready", "failed"},
                         alive : BOOLEAN]]
  /\ embed \in [Files -> EmbedStatuses]
  /\ queue.leased \subseteq Lease
  /\ upload \in [Files -> {"new", "marked", "refused", "done"}]
  /\ \A w \in Workers : /\ hand[w].pc \in {"idle"} \cup Working \cup Concluding
                        /\ hand[w].out \in Outcomes
  /\ had \in [Kinds -> Nat]

Named(f) == {m \in Messages(queue) : m.file = f}

\* A file that still waits for its processing has exactly one message that will
\* bring a worker to it: however a worker dies or loses a call between resetting
\* the row and requeueing the message, nobody settles the message of an
\* unfinished file and no retry leaves two (handleProcessingMessage).  Only a
\* worker that stalls and comes back may finish a file whose message is gone.
UnfinishedIsQueued ==
  had.uploads = 0 /\ had.stalls = 0 =>
    \A f \in Files :
      /\ Cardinality(Named(f)) <= 1
      /\ upload[f] = "done" /\ file[f].status \in Unfinished => Named(f) # {}

\* A stall and another trouble, a second stall included, may leave the row of a
\* file to one worker and its message to another.
Mixed == had.stalls > 0 /\ had.stalls + had.crashes + had.calls > 1

\* A message is given up as a dead letter only once its file has an outcome its
\* owner can see (deadLetterProcessingMessage after forceFinalizeFailed).
DeadIsFinished ==
  ~Mixed => \A m \in queue.dead : file[m.file].status \in Finished

\* A file whose processing ends with "ready" as its rag reason has its index, though a
\* call fails, as long as no worker is replaced while it embeds.  Two calls that
\* fail in one attempt leave a status behind that passes for somebody else's
\* embedding in the next one, as a worker that dies does (the refused claim of
\* ProcessFile before processClaimedFile's last write).
IndexToldIsThere ==
  had.stalls = 0 /\ had.crashes = 0 /\ had.calls <= 1 =>
    \A f \in Files : file[f].alive /\ file[f].rag = "ready" => embed[f] = "ready"

\* The rows, the queue and the index agree on how far a file is.
FilesAgree == TypeOK /\ UnfinishedIsQueued /\ DeadIsFinished /\ IndexToldIsThere

\* An outcome is final as long as no call fails: a worker whose message went to
\* another one, and who wakes up late, does not take a finished file back or
\* change its outcome (the processing_attempt_id condition of every claimed
\* write).
OutcomeIsFinal ==
  [][had'.calls = 0 =>
       \A f \in Files : file[f].status \in Finished
                           => file'[f].status = file[f].status]_vars

\* Every upload that was queued gets an outcome, through crashes, lost leases
\* and failing calls, unless its owner deletes it or the upload itself ends
\* before the message is queued.
FilesFinish ==
  \A f \in Files :
    file[f].status = "queued"
      ~> file[f].status \in Finished \/ ~file[f].alive \/ had.uploads > 0 \/ Mixed

\* Every message of a file that is not deleted leaves the queue in the end.
MessagesLeave ==
  \A f \in Files : Named(f) # {} ~> Named(f) = {} \/ ~file[f].alive
=============================================================================
