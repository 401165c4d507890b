------------------------ MODULE FileProcessingProofs ------------------------
(***************************************************************************)
(* Proofs about FileProcessing, for any files, workers, number of retries  *)
(* and any combination of troubles.                                        *)
(*                                                                         *)
(* A file has at most one message, whatever stalls or fails: the upload    *)
(* enqueues it once, and a worker replaces or takes away only a message it *)
(* still owns (QueueIsSound).  As long as nobody stalls, a worker owns the *)
(* message it handles (WorkIsOwned): so it is alone with the row, and what *)
(* it has seen of the row stays true until it writes it (RowsAreKnown).    *)
(* When workers stall but no call fails it is the stamp that protects the  *)
(* row (OutcomesAreKept).  Embeddings need both (EmbeddingsAreKnown).      *)
(***************************************************************************)
EXTENDS FileProcessing, FiniteSetTheorems, SequenceTheorems, TLAPS

Msg == {m \in [id : Files \X (0 .. MaxRetries), file : Files, retry : 0 .. MaxRetries,
               reclaimed : BOOLEAN] : m.id = <<m.file, m.retry>>}

Row == [status : Statuses, attempt : Workers \cup {NoAttempt},
        rag : {"none", "pending", "ready", "failed"}, alive : BOOLEAN]

Hand == {h \in [pc : {"idle"} \cup Working \cup Concluding, msg : Msg \cup {NoMessage}, out : Outcomes] :
           /\ h.pc # "idle" => h.msg \in Msg
           /\ h.pc \in {"reset", "requeue"} => h.msg.retry < MaxRetries}

Queue == [waiting : Seq(Msg), leased : SUBSET Lease, dead : SUBSET Msg]

Typed ==
  /\ file \in [Files -> Row]
  /\ embed \in [Files -> EmbedStatuses]
  /\ queue \in Queue
  /\ upload \in [Files -> {"new", "marked", "refused", "done"}]
  /\ hand \in [Workers -> Hand]
  /\ had \in [Kinds -> Nat]

Waits(q, f)  == \E i \in DOMAIN q.waiting : q.waiting[i].file = f
Leased(q, f) == \E l \in q.leased : l.msg.file = f
Live(q, f)   == Waits(q, f) \/ Leased(q, f)

\* A file has one message, which no worker has claimed twice before it is read, and none
\* once it has a dead letter.
Sound(q) ==
  /\ \A i, j \in DOMAIN q.waiting : q.waiting[i].file = q.waiting[j].file => i = j
  /\ \A l, k \in q.leased : l.msg.file = k.msg.file => l = k
  /\ \A f \in Files : ~(Waits(q, f) /\ Leased(q, f))
  /\ \A m \in q.dead : ~Live(q, m.file)
  /\ \A i \in DOMAIN q.waiting : ~q.waiting[i].reclaimed

QueueIsSound == Sound(queue)

Busy(w)   == hand[w].pc # "idle"
Knows(f)  == \/ Live(queue, f)
             \/ \E m \in queue.dead : m.file = f
             \/ \E w \in Workers : Busy(w) /\ File(w) = f

\* Before its upload enqueues a file nobody has heard of it.
UploadsAreNews ==
  \A f \in Files :
    /\ upload[f] = "new" => file[f].status = "uploaded"
    /\ upload[f] = "marked" => file[f].status = "queued"
    /\ file[f].status = "uploaded" \/ upload[f] = "marked" => ~Knows(f)

OwnsIt(q, w, msg) == \E l \in q.leased : l.msg = msg /\ l.owner = w /\ ~l.idle

WorkIsOwned ==
  had.stalls = 0 => \A w \in Workers : Busy(w) => OwnsIt(queue, w, hand[w].msg)

Early   == {"extract", "save", "empty", "fail"}
Stamped == Early \cup {"embed", "embedding", "embedFailed"}
Fresh   == {"queued"} \cup Finished

Closes(h) == h.pc \in {"settle", "deadLetter"} \/ (h.pc = "verify" /\ h.out \in {"skip", "done", "lost"})

\* What a worker that nobody disturbs knows of the row of its file.
Undisturbed(w, h, row) ==
  /\ h.pc \in {"read", "claim"} /\ ~h.msg.reclaimed => row.status \in Fresh
  /\ h.pc \in Stamped => row.attempt = w
  /\ h.pc = "final" => row.attempt = w \/ row.status \in Finished
  /\ h.pc = "requeue" => row.status \in Fresh
  /\ Closes(h) => row.status \in Finished

RowsAreKnown ==
  had.stalls = 0 =>
    /\ \A w \in Workers : Busy(w) => Undisturbed(w, hand[w], file[File(w)])
    /\ \A f \in Files : Waits(queue, f) => file[f].status \in Fresh
    /\ \A m \in queue.dead : file[m.file].status \in Finished
    /\ had.uploads = 0 =>
         \A f \in Files : upload[f] = "done" /\ file[f].status \in Unfinished => Live(queue, f)

\* What a worker knows of the row, stalled or not, when no call has failed.
Protected(w, h, row) ==
  /\ h.pc \notin {"reset", "requeue", "finalize", "markFailed", "force"} /\ h.out # "error"
  /\ h.pc \in Early /\ row.attempt = w => row.status = "extracting"
  /\ h.pc = "deadLetter" => row.status \in Finished

OutcomesAreKept ==
  had.calls = 0 =>
    /\ \A w \in Workers : Busy(w) => Protected(w, hand[w], file[File(w)])
    /\ \A f \in Files : file[f].status \in Finished /\ file[f].attempt # NoAttempt
                          => file[f].status = "ready"
    /\ \A f \in Files : upload[f] # "refused"
    /\ \A m \in queue.dead : file[m.file].status \in Finished

Embeds(f) == \E w \in Workers : hand[w].pc = "embedding" /\ File(w) = f

\* What a worker knows of the embedding of its file.
Indexed(w, h, row, state) ==
  /\ h.pc = "embedding" => state = "processing"
  /\ h.pc = "final" /\ row.attempt = w => state = "ready"

\* A worker that has given up its embedding, and then its message.
GivesUp(h) == h.pc = "embedFailed" \/ Closes(h)

\* The embedding that a failing call has left behind: nobody will take the file again.
Left(f) ==
  /\ had.calls > 0 /\ upload[f] \notin {"new", "marked"}
  /\ \/ ~Live(queue, f)
     \/ \E w \in Workers : Busy(w) /\ File(w) = f /\ GivesUp(hand[w])

Calm == had.crashes = 0 /\ had.stalls = 0 /\ had.calls <= 1

EmbeddingsAreKnown ==
  Calm =>
    /\ \A f \in Files : file[f].alive /\ embed[f] = "processing" => Embeds(f) \/ Left(f)
    /\ \A w \in Workers : Busy(w) /\ file[File(w)].alive
                            => Indexed(w, hand[w], file[File(w)], embed[File(w)])
    /\ \A f \in Files : file[f].alive /\ file[f].rag = "ready" => embed[f] = "ready"

Inv == Typed /\ QueueIsSound /\ UploadsAreNews /\ WorkIsOwned /\ RowsAreKnown /\ OutcomesAreKept
       /\ EmbeddingsAreKnown

-----------------------------------------------------------------------------
(***************************************************************************)
(* The operators of the queue, when a worker w uses them on the message of *)
(* a file f: the queue r that comes of q.                                  *)
(***************************************************************************)

Spares(q, r, w, f) ==
  /\ \A g \in Files \ {f} : (Waits(r, g) <=> Waits(q, g)) /\ (Leased(r, g) <=> Leased(q, g))
  /\ \A v \in Workers \ {w} : \A m \in Msg : m.file # f /\ OwnsIt(q, v, m) => OwnsIt(r, v, m)
  /\ \A m \in r.dead : m \in q.dead \/ m.file = f

\* A lease is a message, an owner and whether it is idle.
LEMMA LeaseIsMsg == Lease = [msg : Msg, owner : Workers \cup {NoOne}, idle : BOOLEAN]
BY DEF Lease, Msg

\* The messages of a queue, wherever they are.
LEMMA QueueTypes ==
  ASSUME NEW q \in Queue
  PROVE  /\ q.waiting \in Seq(Msg) /\ q.leased \subseteq Lease /\ q.dead \subseteq Msg
         /\ \A i \in DOMAIN q.waiting : q.waiting[i] \in Msg
         /\ \A l \in q.leased : l.msg \in Msg /\ l.msg.file \in Files
<1>1. q.waiting \in Seq(Msg) /\ q.leased \subseteq Lease /\ q.dead \subseteq Msg
  BY DEF Queue
<1>2. \A i \in DOMAIN q.waiting : q.waiting[i] \in Msg
  BY <1>1, ElementOfSeq, LenProperties
<1>3. \A l \in q.leased : l.msg \in Msg /\ l.msg.file \in Files
  BY <1>1, LeaseIsMsg DEF Msg
<1> QED
  BY <1>1, <1>2, <1>3

\* A message of a file nobody has heard of, at the end of the queue.
LEMMA EnqueueSound ==
  ASSUME NEW q \in Queue, Sound(q), NEW msg \in Msg, ~msg.reclaimed, ~Live(q, msg.file),
         \A m \in q.dead : m.file # msg.file
  PROVE  /\ Enqueue(q, msg) \in Queue /\ Sound(Enqueue(q, msg)) /\ Waits(Enqueue(q, msg), msg.file)
         /\ Enqueue(q, msg).leased = q.leased /\ Enqueue(q, msg).dead = q.dead
         /\ \A g \in Files \ {msg.file} : Waits(Enqueue(q, msg), g) <=> Waits(q, g)
<1> DEFINE r == Enqueue(q, msg)
           n == Len(q.waiting)
<1>1. q.waiting \in Seq(Msg) /\ n \in Nat /\ DOMAIN q.waiting = 1 .. n
  BY QueueTypes, LenProperties
<1>2. /\ r.waiting = Append(q.waiting, msg) /\ r.leased = q.leased /\ r.dead = q.dead
      /\ r \in [waiting : Seq(Msg), leased : SUBSET Lease, dead : SUBSET Msg]
  BY <1>1, AppendProperties DEF Enqueue, Queue
<1>3. /\ r.waiting \in Seq(Msg) /\ Len(r.waiting) = n + 1
      /\ \A i \in 1 .. n : r.waiting[i] = q.waiting[i]
      /\ r.waiting[n + 1] = msg
  BY <1>1, <1>2, AppendProperties
<1> HIDE DEF r
<1>4. DOMAIN r.waiting = 1 .. n + 1
  BY <1>3, LenProperties
<1>5. \A g : Waits(r, g) <=> Waits(q, g) \/ g = msg.file
  <2>1. \A g : Waits(q, g) => Waits(r, g)
    BY <1>1, <1>3, <1>4 DEF Waits
  <2>2. Waits(r, msg.file)
    BY <1>1, <1>3, <1>4 DEF Waits
  <2>3. ASSUME NEW g, Waits(r, g), g # msg.file PROVE Waits(q, g)
    <3>1. PICK i \in 1 .. n + 1 : r.waiting[i].file = g
      BY <1>4, <2>3 DEF Waits
    <3>2. i \in 1 .. n
      BY <1>1, <1>3, <2>3, <3>1
    <3> QED
      BY <1>1, <1>3, <3>1, <3>2 DEF Waits
  <2> QED
    BY <2>1, <2>2, <2>3
<1>6. \A g : Leased(r, g) <=> Leased(q, g)
  BY <1>2 DEF Leased
<1>7. Sound(r)
  <2>1. \A i \in 1 .. n : q.waiting[i].file # msg.file
    BY <1>1 DEF Live, Waits
  <2>2. ASSUME NEW i \in DOMAIN r.waiting, NEW j \in DOMAIN r.waiting,
               r.waiting[i].file = r.waiting[j].file
        PROVE  i = j
    <3>1. CASE i \in 1 .. n /\ j \in 1 .. n
      BY <1>1, <1>3, <2>2, <3>1 DEF Sound
    <3>2. ASSUME NEW k \in 1 .. n, NEW l \in {n + 1},
                 r.waiting[k].file = r.waiting[l].file
          PROVE  FALSE
      BY <1>1, <1>3, <2>1, <3>2, SMTT(30)
    <3> QED
      BY <1>1, <1>4, <2>2, <3>1, <3>2
  <2>3. \A f \in Files : ~(Waits(r, f) /\ Leased(r, f))
    BY <1>5, <1>6 DEF Sound, Live
  <2>4. \A m \in r.dead : ~Live(r, m.file)
    BY <1>2, <1>5, <1>6 DEF Sound, Live
  <2>5. \A i \in DOMAIN r.waiting : ~r.waiting[i].reclaimed
    BY <1>1, <1>3, <1>4 DEF Sound
  <2> QED
    BY <1>2, <2>2, <2>3, <2>4, <2>5 DEF Sound
<1> QED
  BY <1>2, <1>5, <1>7 DEF r, Queue

\* The oldest message is leased to its reader.
LEMMA ReadSound ==
  ASSUME NEW q \in Queue, Sound(q), q.waiting # <<>>, NEW w \in Workers
  PROVE  LET m == Head(q.waiting)
             r == Read(q, w)
         IN  /\ m \in Msg /\ ~m.reclaimed /\ Waits(q, m.file)
             /\ r \in Queue /\ Sound(r) /\ OwnsIt(r, w, m) /\ Spares(q, r, w, m.file) /\ r.dead = q.dead
<1> DEFINE r == Read(q, w)
           m == Head(q.waiting)
           n == Len(q.waiting)
           l0 == [msg |-> m, owner |-> w, idle |-> FALSE]
<1>1. q.waiting \in Seq(Msg) /\ n \in Nat \ {0} /\ DOMAIN q.waiting = 1 .. n
  BY QueueTypes, LenProperties, EmptySeq
<1>2. m = q.waiting[1] /\ m \in Msg /\ ~m.reclaimed /\ Waits(q, m.file)
  <2>1. m = q.waiting[1]
    BY <1>1
  <2> QED
    BY <1>1, <2>1, QueueTypes DEF Waits, Sound
<1>3. l0 \in Lease
  BY <1>2, LeaseIsMsg
<1>4. /\ r.waiting = Tail(q.waiting) /\ r.leased = q.leased \cup {l0} /\ r.dead = q.dead
      /\ r \in Queue
  BY <1>1, <1>3, HeadTailProperties DEF Read, Queue
<1>5. /\ r.waiting \in Seq(Msg) /\ Len(r.waiting) = n - 1
      /\ \A i \in 1 .. Len(r.waiting) : r.waiting[i] = q.waiting[i + 1]
  BY <1>1, <1>4, HeadTailProperties
<1>6. DOMAIN r.waiting = 1 .. n - 1
  BY <1>5, LenProperties
<1>7. l0.msg = m /\ l0.owner = w /\ ~l0.idle
  OBVIOUS
<1> HIDE DEF r, l0
<1>8. \A g : Waits(r, g) <=> Waits(q, g) /\ g # m.file
  <2>1. ASSUME NEW g, Waits(r, g) PROVE Waits(q, g) /\ g # m.file
    <3>1. PICK i \in 1 .. n - 1 : r.waiting[i].file = g
      BY <1>6, <2>1 DEF Waits
    <3>2. i + 1 \in 1 .. n /\ q.waiting[i + 1].file = g /\ i + 1 # 1
      BY <1>1, <1>5, <1>6, <3>1
    <3> QED
      BY <1>1, <1>2, <3>2 DEF Waits, Sound
  <2>2. ASSUME NEW g, Waits(q, g), g # m.file PROVE Waits(r, g)
    <3>1. PICK i \in 1 .. n : q.waiting[i].file = g
      BY <1>1, <2>2 DEF Waits
    <3>2. i - 1 \in 1 .. n - 1 /\ r.waiting[i - 1] = q.waiting[i]
      <4>1. i - 1 \in 1 .. n - 1
        BY <1>1, <1>2, <2>2, <3>1
      <4>2. r.waiting[i - 1] = q.waiting[(i - 1) + 1]
        BY <1>1, <1>5, <4>1
      <4> QED
        BY <1>1, <4>1, <4>2
    <3> QED
      BY <1>6, <3>1, <3>2 DEF Waits
  <2> QED
    BY <2>1, <2>2
<1>9. \A g : Leased(r, g) <=> Leased(q, g) \/ g = m.file
  BY <1>4, <1>7 DEF Leased
<1>10. ~Leased(q, m.file)
  <2>1. m.file \in Files
    BY <1>2 DEF Msg
  <2> QED
    BY <1>2, <2>1 DEF Sound
<1>11. Sound(r)
  <2>1. ASSUME NEW i \in DOMAIN r.waiting, NEW j \in DOMAIN r.waiting,
               r.waiting[i].file = r.waiting[j].file
        PROVE  i = j
    <3>1. i + 1 \in 1 .. n /\ j + 1 \in 1 .. n /\ i \in Nat /\ j \in Nat
      BY <1>1, <1>6
    <3>2. q.waiting[i + 1].file = q.waiting[j + 1].file
      BY <1>5, <1>6, <1>1, <2>1
    <3>3. i + 1 = j + 1
      BY <1>1, <3>1, <3>2 DEF Sound
    <3> QED
      BY <3>1, <3>3
  <2>2. \A l, k \in r.leased : l.msg.file = k.msg.file => l = k
    <3>1. \A l \in q.leased : l.msg.file # m.file
      BY <1>10 DEF Leased
    <3> QED
      BY <1>4, <1>7, <3>1 DEF Sound
  <2>3. \A f \in Files : ~(Waits(r, f) /\ Leased(r, f))
    BY <1>8, <1>9 DEF Sound
  <2>4. \A x \in r.dead : ~Live(r, x.file)
    BY <1>2, <1>4, <1>8, <1>9 DEF Sound, Live
  <2>5. \A i \in DOMAIN r.waiting : ~r.waiting[i].reclaimed
    <3> SUFFICES ASSUME NEW i \in 1 .. n - 1 PROVE ~r.waiting[i].reclaimed
      BY <1>6
    <3>1. i + 1 \in 1 .. n /\ r.waiting[i] = q.waiting[i + 1]
      BY <1>1, <1>5
    <3> QED
      BY <1>1, <3>1 DEF Sound
  <2> QED
    BY <2>1, <2>2, <2>3, <2>4, <2>5 DEF Sound
<1>12. OwnsIt(r, w, m)
  BY <1>4, <1>7 DEF OwnsIt
<1>13. Spares(q, r, w, m.file)
  BY <1>4, <1>8, <1>9 DEF Spares, OwnsIt
<1> QED
  BY <1>2, <1>4, <1>11, <1>12, <1>13 DEF r

\* A step that only changes leases, and brings none to a file that has none.
LEMMA LeasesSound ==
  ASSUME NEW q \in Queue, Sound(q), NEW r \in Queue, r.waiting = q.waiting, r.dead = q.dead,
         \A l, k \in r.leased : l.msg.file = k.msg.file => l = k,
         \A l \in r.leased : Leased(q, l.msg.file)
  PROVE  Sound(r) /\ \A g : (Waits(r, g) <=> Waits(q, g)) /\ (Leased(r, g) => Leased(q, g))
BY DEF Sound, Waits, Leased, Live

\* An idle lease passes to the worker that claims it, and the message says so.
LEMMA ClaimSound ==
  ASSUME NEW q \in Queue, Sound(q), NEW l \in q.leased, NEW w \in Workers
  PROVE  LET m == Passed(l, w).msg
             r == Claim(q, l, w)
         IN  /\ m \in Msg /\ m.file = l.msg.file /\ m.reclaimed
             /\ r \in Queue /\ Sound(r) /\ OwnsIt(r, w, m) /\ Spares(q, r, w, m.file) /\ r.dead = q.dead
             /\ \A g : (Waits(r, g) <=> Waits(q, g)) /\ (Leased(r, g) <=> Leased(q, g))
<1> DEFINE p == Passed(l, w)
           r == Claim(q, l, w)
<1>1. l \in [msg : Msg, owner : Workers \cup {NoOne}, idle : BOOLEAN]
  BY QueueTypes, LeaseIsMsg
<1>2. p \in Lease /\ p.msg \in Msg /\ p.msg.file = l.msg.file /\ p.msg.reclaimed /\ p.owner = w /\ ~p.idle
  <2>1. p.msg = [l.msg EXCEPT !.reclaimed = TRUE] /\ p.owner = w /\ ~p.idle
    BY DEF Passed
  <2>2. p.msg \in Msg /\ p.msg.file = l.msg.file /\ p.msg.reclaimed
    BY <1>1, <2>1 DEF Msg
  <2> QED
    BY <2>1, <2>2, LeaseIsMsg DEF Passed
<1> HIDE DEF p
<1>3. /\ r.waiting = q.waiting /\ r.dead = q.dead /\ r.leased = (q.leased \ {l}) \cup {p}
      /\ r \in Queue
  BY <1>2 DEF Claim, Queue, p
<1> HIDE DEF r
<1>4. \A k \in q.leased : k # l => k.msg.file # l.msg.file
  BY DEF Sound
<1>5. \A k, j \in r.leased : k.msg.file = j.msg.file => k = j
  BY <1>2, <1>3, <1>4 DEF Sound
<1>6. \A k \in r.leased : Leased(q, k.msg.file)
  BY <1>2, <1>3 DEF Leased
<1>7. Sound(r) /\ \A g : (Waits(r, g) <=> Waits(q, g)) /\ (Leased(r, g) => Leased(q, g))
  BY <1>3, <1>5, <1>6, LeasesSound
<1>8. \A g : Leased(q, g) => Leased(r, g)
  BY <1>2, <1>3 DEF Leased
<1>9. OwnsIt(r, w, p.msg)
  BY <1>2, <1>3 DEF OwnsIt
<1>10. Spares(q, r, w, p.msg.file)
  BY <1>2, <1>3, <1>7, <1>8 DEF Spares, OwnsIt
<1> QED
  BY <1>2, <1>3, <1>7, <1>8, <1>9, <1>10 DEF p, r

\* The renewals of a message leave every lease where it is.
LEMMA RenewSound ==
  ASSUME NEW q \in Queue, Sound(q), NEW msg
  PROVE  LET r == Renew(q, msg)
         IN  /\ r \in Queue /\ Sound(r) /\ r.dead = q.dead
             /\ \A g : (Waits(r, g) <=> Waits(q, g)) /\ (Leased(r, g) <=> Leased(q, g))
             /\ \A v, m : OwnsIt(q, v, m) => OwnsIt(r, v, m)
<1> DEFINE r == Renew(q, msg)
           new(l) == IF l.msg.id = msg.id THEN [l EXCEPT !.idle = FALSE] ELSE l
<1>1. ASSUME NEW l \in q.leased
      PROVE  /\ new(l) \in Lease /\ new(l).msg = l.msg /\ new(l).owner = l.owner
             /\ ~l.idle => ~new(l).idle
  <2>1. l \in [msg : Msg, owner : Workers \cup {NoOne}, idle : BOOLEAN]
    BY QueueTypes, LeaseIsMsg
  <2>2. /\ new(l) \in [msg : Msg, owner : Workers \cup {NoOne}, idle : BOOLEAN]
        /\ new(l).msg = l.msg /\ new(l).owner = l.owner
        /\ ~l.idle => ~new(l).idle
    BY <2>1
  <2> QED
    BY <2>2, LeaseIsMsg
<1>2. r.waiting = q.waiting /\ r.dead = q.dead /\ r.leased = {new(l) : l \in q.leased}
  BY DEF Renew, Queue
<1>3. r \in Queue
  BY <1>1 DEF Renew, Queue
<1> HIDE DEF r, new
<1>4. \A k, j \in r.leased : k.msg.file = j.msg.file => k = j
  BY <1>1, <1>2 DEF Sound
<1>5. \A k \in r.leased : Leased(q, k.msg.file)
  BY <1>1, <1>2 DEF Leased
<1>6. Sound(r) /\ \A g : (Waits(r, g) <=> Waits(q, g)) /\ (Leased(r, g) => Leased(q, g))
  BY <1>2, <1>3, <1>4, <1>5, LeasesSound
<1>7. \A g : Leased(q, g) => Leased(r, g)
  BY <1>1, <1>2 DEF Leased
<1>8. \A v, m : OwnsIt(q, v, m) => OwnsIt(r, v, m)
  BY <1>1, <1>2 DEF OwnsIt
<1> QED
  BY <1>2, <1>3, <1>6, <1>7, <1>8 DEF r

\* A lease that runs out is lost to its owner, and no other is.
LEMMA IdleSound ==
  ASSUME NEW q \in Queue, Sound(q), NEW l \in q.leased
  PROVE  LET r == Idle(q, l)
         IN  /\ r \in Queue /\ Sound(r) /\ r.dead = q.dead
             /\ \A g : (Waits(r, g) <=> Waits(q, g)) /\ (Leased(r, g) <=> Leased(q, g))
             /\ \A v, m : OwnsIt(q, v, m) /\ ~(l.msg = m /\ l.owner = v) => OwnsIt(r, v, m)
<1> DEFINE r == Idle(q, l)
           p == [l EXCEPT !.idle = TRUE]
<1>1. p \in Lease /\ p.msg = l.msg
  <2>1. l \in [msg : Msg, owner : Workers \cup {NoOne}, idle : BOOLEAN]
    BY QueueTypes, LeaseIsMsg
  <2>2. p \in [msg : Msg, owner : Workers \cup {NoOne}, idle : BOOLEAN] /\ p.msg = l.msg
    BY <2>1
  <2> QED
    BY <2>2, LeaseIsMsg
<1>2. /\ r.waiting = q.waiting /\ r.dead = q.dead /\ r.leased = (q.leased \ {l}) \cup {p}
      /\ r \in Queue
  BY <1>1 DEF Idle, Queue
<1> HIDE DEF r, p
<1>3. \A k, j \in r.leased : k.msg.file = j.msg.file => k = j
  BY <1>1, <1>2 DEF Sound
<1>4. \A k \in r.leased : Leased(q, k.msg.file)
  BY <1>1, <1>2 DEF Leased
<1>5. Sound(r) /\ \A g : (Waits(r, g) <=> Waits(q, g)) /\ (Leased(r, g) => Leased(q, g))
  BY <1>2, <1>3, <1>4, LeasesSound
<1>6. \A g : Leased(q, g) => Leased(r, g)
  BY <1>1, <1>2 DEF Leased
<1>7. \A v, m : OwnsIt(q, v, m) /\ ~(l.msg = m /\ l.owner = v) => OwnsIt(r, v, m)
  BY <1>2 DEF OwnsIt
<1> QED
  BY <1>2, <1>5, <1>6, <1>7 DEF r

\* The leases of a worker that died are nobody's.
LEMMA OrphanSound ==
  ASSUME NEW q \in Queue, Sound(q), NEW w \in Workers
  PROVE  LET r == Orphan(q, w)
         IN  /\ r \in Queue /\ Sound(r) /\ r.dead = q.dead
             /\ \A g : (Waits(r, g) <=> Waits(q, g)) /\ (Leased(r, g) <=> Leased(q, g))
             /\ \A v, m : v # w /\ OwnsIt(q, v, m) => OwnsIt(r, v, m)
<1> DEFINE r == Orphan(q, w)
           new(l) == IF l.owner = w THEN [l EXCEPT !.owner = NoOne] ELSE l
<1>1. ASSUME NEW l \in q.leased
      PROVE  /\ new(l) \in Lease /\ new(l).msg = l.msg /\ new(l).idle = l.idle
             /\ l.owner # w => new(l) = l
  <2>1. l \in [msg : Msg, owner : Workers \cup {NoOne}, idle : BOOLEAN]
    BY QueueTypes, LeaseIsMsg
  <2>2. /\ new(l) \in [msg : Msg, owner : Workers \cup {NoOne}, idle : BOOLEAN]
        /\ new(l).msg = l.msg
    BY <2>1
  <2>3. new(l).idle = l.idle /\ (l.owner # w => new(l) = l)
    BY <2>1
  <2> QED
    BY <2>2, <2>3, LeaseIsMsg
<1>2. r.waiting = q.waiting /\ r.dead = q.dead /\ r.leased = {new(l) : l \in q.leased}
  BY DEF Orphan, Queue
<1>3. r \in Queue
  BY <1>1 DEF Orphan, Queue
<1> HIDE DEF r, new
<1>4. \A k, j \in r.leased : k.msg.file = j.msg.file => k = j
  BY <1>1, <1>2 DEF Sound
<1>5. \A k \in r.leased : Leased(q, k.msg.file)
  BY <1>1, <1>2 DEF Leased
<1>6. Sound(r) /\ \A g : (Waits(r, g) <=> Waits(q, g)) /\ (Leased(r, g) => Leased(q, g))
  BY <1>2, <1>3, <1>4, <1>5, LeasesSound
<1>7. \A g : Leased(q, g) => Leased(r, g)
  BY <1>1, <1>2 DEF Leased
<1>8. \A v, m : v # w /\ OwnsIt(q, v, m) => OwnsIt(r, v, m)
  BY <1>1, <1>2 DEF OwnsIt
<1> QED
  BY <1>2, <1>3, <1>6, <1>7, <1>8 DEF r

\* A message that is settled is gone, and with it its file's only message.
LEMMA SettleSound ==
  ASSUME NEW q \in Queue, Sound(q), NEW w \in Workers, NEW msg \in Msg, Owns(q, w, msg)
  PROVE  LET r == Settle(q, msg)
         IN  /\ r \in Queue /\ Sound(r) /\ ~Live(r, msg.file) /\ r.dead = q.dead
             /\ \A m \in q.dead : m.file # msg.file
             /\ \A g \in Files \ {msg.file} : (Waits(r, g) <=> Waits(q, g)) /\ (Leased(r, g) <=> Leased(q, g))
             /\ \A v, m : m.file # msg.file /\ OwnsIt(q, v, m) => OwnsIt(r, v, m)
<1> DEFINE r == Settle(q, msg)
<1>1. /\ r.waiting = q.waiting /\ r.dead = q.dead /\ r.leased = q.leased \ Held(q, msg)
      /\ r \in Queue
  BY DEF Settle, Queue
<1> HIDE DEF r
<1>2. \A l \in q.leased : l.msg \in Msg
  BY QueueTypes
<1>3. Held(q, msg) \subseteq q.leased /\ \A l \in Held(q, msg) : l.msg.file = msg.file
  BY <1>2 DEF Held, Msg
<1>4. PICK l0 \in Held(q, msg) : TRUE
  BY DEF Owns
<1>5. \A l \in r.leased : l.msg.file # msg.file
  BY <1>1, <1>3, <1>4 DEF Sound
<1>6. /\ \A k, j \in r.leased : k.msg.file = j.msg.file => k = j
      /\ \A k \in r.leased : Leased(q, k.msg.file)
  BY <1>1 DEF Sound, Leased
<1>7. Sound(r) /\ \A g : (Waits(r, g) <=> Waits(q, g)) /\ (Leased(r, g) => Leased(q, g))
  BY <1>1, <1>6, LeasesSound
<1>8. Leased(q, msg.file) /\ msg.file \in Files
  BY <1>3, <1>4 DEF Leased, Msg
<1>9. ~Live(r, msg.file) /\ \A m \in q.dead : m.file # msg.file
  BY <1>5, <1>7, <1>8 DEF Live, Sound, Leased
<1>10. \A g : g # msg.file /\ Leased(q, g) => Leased(r, g)
  BY <1>1, <1>3 DEF Leased
<1>11. \A v, m : m.file # msg.file /\ OwnsIt(q, v, m) => OwnsIt(r, v, m)
  BY <1>1, <1>3 DEF OwnsIt
<1> QED
  BY <1>1, <1>7, <1>9, <1>10, <1>11 DEF r

\* The next try takes its place ...
LEMMA RequeueSound ==
  ASSUME NEW q \in Queue, Sound(q), NEW w \in Workers, NEW msg \in Msg, Owns(q, w, msg),
         NEW next \in Msg, next.file = msg.file, ~next.reclaimed
  PROVE  LET r == Requeue(q, msg, next)
         IN  r \in Queue /\ Sound(r) /\ Waits(r, msg.file) /\ Spares(q, r, w, msg.file) /\ r.dead = q.dead
<1> DEFINE s == Settle(q, msg)
           r == Enqueue(s, next)
<1>1. /\ s \in Queue /\ Sound(s) /\ ~Live(s, msg.file) /\ s.dead = q.dead
      /\ \A m \in q.dead : m.file # msg.file
      /\ \A g \in Files \ {msg.file} : (Waits(s, g) <=> Waits(q, g)) /\ (Leased(s, g) <=> Leased(q, g))
      /\ \A v, m : m.file # msg.file /\ OwnsIt(q, v, m) => OwnsIt(s, v, m)
  BY SettleSound
<1> HIDE DEF s
<1>2. /\ r \in Queue /\ Sound(r) /\ Waits(r, msg.file) /\ r.leased = s.leased /\ r.dead = s.dead
      /\ \A g \in Files \ {msg.file} : Waits(r, g) <=> Waits(s, g)
  BY <1>1, EnqueueSound
<1> HIDE DEF r
<1>3. Spares(q, r, w, msg.file)
  BY <1>1, <1>2 DEF Spares, OwnsIt, Leased
<1> QED
  BY <1>1, <1>2, <1>3 DEF Requeue, r, s

\* ... or it becomes the file's dead letter.
LEMMA DeadLetterSound ==
  ASSUME NEW q \in Queue, Sound(q), NEW w \in Workers, NEW msg \in Msg, Owns(q, w, msg)
  PROVE  LET r == DeadLetter(q, msg)
         IN  r \in Queue /\ Sound(r) /\ ~Live(r, msg.file) /\ Spares(q, r, w, msg.file)
<1> DEFINE s == Settle(q, msg)
           r == DeadLetter(q, msg)
<1>1. /\ s \in Queue /\ Sound(s) /\ ~Live(s, msg.file) /\ s.dead = q.dead
      /\ \A g \in Files \ {msg.file} : (Waits(s, g) <=> Waits(q, g)) /\ (Leased(s, g) <=> Leased(q, g))
      /\ \A v, m : m.file # msg.file /\ OwnsIt(q, v, m) => OwnsIt(s, v, m)
  BY SettleSound
<1>2. r.waiting = s.waiting /\ r.leased = s.leased /\ r.dead = q.dead \cup {msg} /\ r \in Queue
  BY <1>1 DEF DeadLetter, Queue
<1> HIDE DEF s, r
<1>3. \A g : (Waits(r, g) <=> Waits(s, g)) /\ (Leased(r, g) <=> Leased(s, g)) /\ (Live(r, g) <=> Live(s, g))
  BY <1>2 DEF Waits, Leased, Live
<1>4. Sound(r)
  BY <1>1, <1>2, <1>3 DEF Sound
<1>5. Spares(q, r, w, msg.file)
  BY <1>1, <1>2, <1>3 DEF Spares, OwnsIt
<1> QED
  BY <1>1, <1>2, <1>3, <1>4, <1>5 DEF r

-----------------------------------------------------------------------------
(***************************************************************************)
(* What a step of a worker w on a file f, which it knows, has to preserve. *)
(***************************************************************************)

Grows == had' \in [Kinds -> Nat] /\ \A k \in Kinds : had'[k] >= had[k]

LEMMA TroubleGrows ==
  ASSUME Typed, NEW k \in Kinds, UNCHANGED had \/ Meets(k)
  PROVE  Grows /\ (Meets(k) => had'[k] # 0)
BY DEF Typed, Meets, Grows

LEMMA CalmBefore ==
  ASSUME Typed, Grows, Calm'
  PROVE  Calm /\ had'.stalls = 0 /\ had.calls \in Nat /\ had'.calls \in Nat /\ had'.calls >= had.calls
         /\ (Meets("calls") => had.calls = 0 /\ had'.calls = 1)
<1>1. {"calls", "stalls", "crashes"} \subseteq Kinds
  BY DEF Kinds
<1>2. \A k \in Kinds : had[k] \in Nat /\ had'[k] \in Nat /\ had'[k] >= had[k]
  BY DEF Typed, Grows
<1>3. Meets("calls") => had'.calls = had.calls + 1
  BY <1>1 DEF Typed, Meets
<1> QED
  BY <1>1, <1>2, <1>3 DEF Calm

LEMMA NamedTroubles == {"calls", "stalls", "crashes", "uploads", "deletes"} \subseteq Kinds
BY DEF Kinds

\* The rows that the step may write.
RowStep(w, f) ==
  /\ hand' = [hand EXCEPT ![w] = hand'[w]] /\ hand'[w] \in Hand
  /\ hand'[w].pc # "idle" => hand'[w].msg.file = f
  /\ file' = [file EXCEPT ![f] = file'[f]] /\ file'[f] \in Row /\ file'[f].status # "uploaded"
  /\ embed' = [embed EXCEPT ![f] = embed'[f]] /\ embed'[f] \in EmbedStatuses
  /\ UNCHANGED upload

QueueStep(w, f) ==
  /\ queue' \in Queue /\ Sound(queue') /\ Spares(queue, queue', w, f)
  /\ had'.stalls = 0 /\ hand'[w].pc # "idle" => OwnsIt(queue', w, hand'[w].msg)

\* No other worker handles the file.
Alone(w, f) == \A v \in Workers \ {w} : Busy(v) => File(v) # f

\* What the step has to see to for each of the three groups of facts.
UndisturbedStep(w, f) ==
  had'.stalls = 0 =>
    /\ Alone(w, f)
    /\ hand'[w].pc # "idle" => Undisturbed(w, hand'[w], file'[f])
    /\ Waits(queue', f) => file'[f].status \in Fresh
    /\ \A m \in queue'.dead : m.file = f => file'[f].status \in Finished
    /\ file'[f].status \in Unfinished => Live(queue', f)

ProtectedWrite(w, f) ==
  had'.calls = 0 =>
    /\ hand'[w].pc # "idle" => Protected(w, hand'[w], file'[f])
    /\ file[f].status \in Finished => file'[f].status \in Finished
    /\ file'[f].status \in Finished /\ file'[f].attempt # NoAttempt => file'[f].status = "ready"
    /\ file'[f].attempt \in {w, NoAttempt} \/ (file'[f].status = file[f].status /\ file'[f].attempt = file[f].attempt)

ProtectedStep(w, f) ==
  /\ ProtectedWrite(w, f)
  /\ had'.calls = 0 => \A m \in queue'.dead : m.file = f => file'[f].status \in Finished

IndexedStep(w, f) ==
  Calm' /\ file'[f].alive =>
    /\ embed'[f] = "processing" =>
         \/ hand'[w].pc = "embedding"
         \/ had'.calls > 0 /\ (~Live(queue', f) \/ (hand'[w].pc # "idle" /\ GivesUp(hand'[w])))
    /\ hand'[w].pc # "idle" => Indexed(w, hand'[w], file'[f], embed'[f])
    /\ file'[f].rag = "ready" => embed'[f] = "ready"

\* Before its step the worker handles no other file.
Stays(w, f) == Busy(w) => File(w) = f

LEMMA KnownFile ==
  ASSUME Inv, NEW f \in Files, Knows(f)
  PROVE  file[f].status # "uploaded" /\ upload[f] \notin {"new", "marked"}
BY DEF Inv, Typed, UploadsAreNews

LEMMA BusyWorker ==
  ASSUME Inv, NEW w \in Workers, Busy(w)
  PROVE  hand[w].msg \in Msg /\ File(w) \in Files /\ Knows(File(w))
<1>1. hand[w].msg \in Msg
  BY DEF Inv, Typed, Hand, Busy
<1> QED
  BY <1>1 DEF Msg, File, Knows

LEMMA UploadsStay ==
  ASSUME Inv, NEW w \in Workers, NEW f \in Files, Knows(f), RowStep(w, f), QueueStep(w, f), Stays(w, f)
  PROVE  UploadsAreNews'
<1>1. f \in Files /\ file \in [Files -> Row] /\ hand \in [Workers -> Hand] /\ upload' = upload
  BY DEF Inv, Typed, RowStep
<1>2. \A g \in Files \ {f} : file'[g] = file[g]
  BY <1>1 DEF RowStep
<1>3. file'[f].status # "uploaded" /\ upload[f] \notin {"new", "marked"}
  BY KnownFile DEF RowStep
<1>4. ASSUME NEW g \in Files \ {f}, Knows(g)' PROVE Knows(g)
  <2>1. Live(queue', g) => Live(queue, g)
    BY DEF QueueStep, Spares, Live
  <2>2. ASSUME NEW m \in queue'.dead, m.file = g PROVE Knows(g)
    BY <2>2 DEF QueueStep, Spares, Knows
  <2>3. ASSUME NEW v \in Workers, Busy(v)', File(v)' = g PROVE Knows(g)
    <3>1. v # w
      BY <2>3 DEF RowStep, Busy, File
    <3>2. hand'[v] = hand[v]
      BY <1>1, <3>1 DEF RowStep
    <3> QED
      BY <2>3, <3>2 DEF Busy, File, Knows
  <2> QED
    BY <1>4, <2>1, <2>2, <2>3 DEF Knows
<1>5. ASSUME NEW g \in Files
      PROVE  /\ upload'[g] = "new" => file'[g].status = "uploaded"
             /\ upload'[g] = "marked" => file'[g].status = "queued"
             /\ file'[g].status = "uploaded" \/ upload'[g] = "marked" => ~Knows(g)'
  <2>1. CASE g = f
    BY <1>1, <1>3, <2>1
  <2>2. CASE g # f
    BY <1>1, <1>2, <1>4, <2>2 DEF Inv, UploadsAreNews
  <2> QED
    BY <2>1, <2>2
<1> QED
  BY <1>5 DEF UploadsAreNews

\* The hands of the others, and the rows of other files, stay.
LEMMA OthersStay ==
  ASSUME Typed, NEW w \in Workers, NEW f \in Files, RowStep(w, f)
  PROVE  /\ \A v \in Workers \ {w} : hand'[v] = hand[v] /\ (Busy(v)' <=> Busy(v)) /\ File(v)' = File(v)
         /\ \A g \in Files \ {f} : file'[g] = file[g] /\ embed'[g] = embed[g]
BY DEF Typed, RowStep, Busy, File

LEMMA OwnersStay ==
  ASSUME Inv, NEW w \in Workers, NEW f \in Files, RowStep(w, f), QueueStep(w, f), Grows,
         had'.stalls = 0 => Alone(w, f)
  PROVE  WorkIsOwned'
<1> SUFFICES ASSUME had'.stalls = 0, NEW v \in Workers, Busy(v)'
             PROVE  OwnsIt(queue', v, hand'[v].msg)
  BY DEF WorkIsOwned
<1>1. had.stalls = 0
  BY NamedTroubles DEF Inv, Typed, Grows
<1>2. CASE v = w
  BY <1>2 DEF QueueStep, Busy
<1>3. CASE v # w
  <2>1. hand'[v] = hand[v] /\ Busy(v)
    BY <1>3, OthersStay DEF Inv
  <2>2. File(v) # f /\ hand[v].msg \in Msg
    BY <1>3, <2>1, BusyWorker DEF Alone
  <2>3. OwnsIt(queue, v, hand[v].msg)
    BY <1>1, <2>1 DEF Inv, WorkIsOwned
  <2> QED
    BY <1>3, <2>1, <2>2, <2>3 DEF QueueStep, Spares, File
<1> QED
  BY <1>2, <1>3

LEMMA KnownRowsStay ==
  ASSUME Inv, NEW w \in Workers, NEW f \in Files, RowStep(w, f), QueueStep(w, f), Grows,
         UndisturbedStep(w, f)
  PROVE  RowsAreKnown'
<1> SUFFICES ASSUME had'.stalls = 0 PROVE RowsAreKnown'
  BY DEF RowsAreKnown
<1>1. had.stalls = 0 /\ (had'.uploads = 0 => had.uploads = 0)
  BY NamedTroubles DEF Inv, Typed, Grows
<1>2. ASSUME NEW v \in Workers, Busy(v)' PROVE Undisturbed(v, hand'[v], file'[File(v)'])
  <2>1. CASE v = w
    BY <1>2, <2>1 DEF RowStep, UndisturbedStep, Busy, File
  <2>2. CASE v # w
    <3>1. hand'[v] = hand[v] /\ Busy(v) /\ File(v)' = File(v)
      BY <1>2, <2>2, OthersStay DEF Inv
    <3>2. File(v) # f /\ File(v) \in Files
      BY <2>2, <3>1, BusyWorker DEF UndisturbedStep, Alone
    <3>3. file'[File(v)] = file[File(v)]
      BY <3>2, OthersStay DEF Inv
    <3> QED
      BY <1>1, <3>1, <3>3 DEF Inv, RowsAreKnown
  <2> QED
    BY <2>1, <2>2
<1>3. ASSUME NEW g \in Files, Waits(queue', g) PROVE file'[g].status \in Fresh
  <2>1. CASE g = f
    BY <1>3, <2>1 DEF UndisturbedStep
  <2>2. CASE g # f
    BY <1>1, <1>3, <2>2, OthersStay DEF QueueStep, Spares, Inv, RowsAreKnown
  <2> QED
    BY <2>1, <2>2
<1>4. ASSUME NEW m \in queue'.dead PROVE file'[m.file].status \in Finished
  <2>1. CASE m.file = f
    BY <2>1 DEF UndisturbedStep
  <2>2. CASE m.file # f
    <3>1. m \in queue.dead
      BY <2>2 DEF QueueStep, Spares
    <3>2. m.file \in Files
      BY <3>1, QueueTypes DEF Inv, Typed, Msg
    <3> QED
      BY <1>1, <2>2, <3>1, <3>2, OthersStay DEF Inv, RowsAreKnown
  <2> QED
    BY <2>1, <2>2
<1>5. ASSUME had'.uploads = 0, NEW g \in Files, upload'[g] = "done", file'[g].status \in Unfinished
      PROVE  Live(queue', g)
  <2>1. CASE g = f
    BY <1>5, <2>1 DEF UndisturbedStep
  <2>2. CASE g # f
    <3>1. Live(queue, g)
      BY <1>1, <1>5, <2>2, OthersStay DEF Inv, RowsAreKnown, RowStep
    <3> QED
      BY <2>2, <3>1 DEF QueueStep, Spares, Live
  <2> QED
    BY <2>1, <2>2
<1> QED
  BY <1>2, <1>3, <1>4, <1>5 DEF RowsAreKnown

LEMMA OutcomesStay ==
  ASSUME Inv, NEW w \in Workers, NEW f \in Files, RowStep(w, f), QueueStep(w, f), Grows,
         ProtectedStep(w, f)
  PROVE  OutcomesAreKept'
<1> SUFFICES ASSUME had'.calls = 0 PROVE OutcomesAreKept'
  BY DEF OutcomesAreKept
<1>1. had.calls = 0
  BY NamedTroubles DEF Inv, Typed, Grows
<1>2. ASSUME NEW v \in Workers, Busy(v)' PROVE Protected(v, hand'[v], file'[File(v)'])
  <2>1. CASE v = w
    BY <1>2, <2>1 DEF RowStep, ProtectedStep, ProtectedWrite, Busy, File
  <2>2. CASE v # w
    <3>1. hand'[v] = hand[v] /\ Busy(v) /\ File(v)' = File(v)
      BY <1>2, <2>2, OthersStay DEF Inv
    <3>2. File(v) \in Files /\ Protected(v, hand[v], file[File(v)])
      BY <1>1, <3>1, BusyWorker DEF Inv, OutcomesAreKept
    <3>3. CASE File(v) # f
      BY <3>1, <3>2, <3>3, OthersStay DEF Inv
    <3>4. CASE File(v) = f
      <4>1. v # NoAttempt
        BY FileAssumption
      <4>2. file'[f].attempt # v \/ (file'[f].status = file[f].status /\ file'[f].attempt = file[f].attempt)
        BY <2>2, <4>1 DEF ProtectedStep, ProtectedWrite
      <4> QED
        BY <3>1, <3>2, <3>4, <4>2 DEF Protected, ProtectedStep, ProtectedWrite
    <3> QED
      BY <3>3, <3>4
  <2> QED
    BY <2>1, <2>2
<1>3. \A g \in Files : file'[g].status \in Finished /\ file'[g].attempt # NoAttempt => file'[g].status = "ready"
  BY <1>1, OthersStay DEF Inv, OutcomesAreKept, ProtectedStep, ProtectedWrite
<1>4. \A g \in Files : upload'[g] # "refused"
  BY <1>1 DEF Inv, OutcomesAreKept, RowStep
<1>5. ASSUME NEW m \in queue'.dead PROVE file'[m.file].status \in Finished
  <2>1. CASE m.file = f
    BY <2>1 DEF ProtectedStep
  <2>2. CASE m.file # f
    <3>1. m \in queue.dead
      BY <2>2 DEF QueueStep, Spares
    <3>2. m.file \in Files
      BY <3>1, QueueTypes DEF Inv, Typed, Msg
    <3> QED
      BY <1>1, <2>2, <3>1, <3>2, OthersStay DEF Inv, OutcomesAreKept
  <2> QED
    BY <2>1, <2>2
<1> QED
  BY <1>2, <1>3, <1>4, <1>5 DEF OutcomesAreKept

LEMMA EmbeddingsStay ==
  ASSUME Inv, NEW w \in Workers, NEW f \in Files, Knows(f), RowStep(w, f), QueueStep(w, f),
         Stays(w, f), Grows, had'.stalls = 0 => Alone(w, f), IndexedStep(w, f)
  PROVE  EmbeddingsAreKnown'
<1> SUFFICES ASSUME Calm' PROVE EmbeddingsAreKnown'
  BY DEF EmbeddingsAreKnown
<1>1. Calm /\ had'.stalls = 0 /\ (had.calls > 0 => had'.calls > 0) /\ upload' = upload
  BY CalmBefore DEF Inv, RowStep
<1>2. ASSUME NEW g \in Files, file'[g].alive, embed'[g] = "processing" PROVE Embeds(g)' \/ Left(g)'
  <2>1. CASE g = f
    <3>1. upload'[f] \notin {"new", "marked"}
      BY <1>1, KnownFile
    <3>2. CASE hand'[w].pc = "embedding"
      BY <2>1, <3>2 DEF RowStep, Embeds, File
    <3>3. CASE had'.calls > 0 /\ ~Live(queue', f)
      BY <2>1, <3>1, <3>3 DEF Left
    <3>4. CASE had'.calls > 0 /\ hand'[w].pc # "idle" /\ GivesUp(hand'[w])
      <4>1. Busy(w)' /\ File(w)' = f
        BY <3>4 DEF RowStep, Busy, File
      <4> QED
        BY <2>1, <3>1, <3>4, <4>1 DEF Left
    <3> QED
      BY <1>2, <2>1, <3>2, <3>3, <3>4 DEF IndexedStep
  <2>2. CASE g # f
    <3>1. Embeds(g) \/ Left(g)
      BY <1>1, <1>2, <2>2, OthersStay DEF Inv, EmbeddingsAreKnown
    <3>2. CASE Embeds(g)
      <4>1. PICK v \in Workers : hand[v].pc = "embedding" /\ File(v) = g
        BY <3>2 DEF Embeds
      <4>2. v # w
        BY <2>2, <4>1 DEF Stays, Busy
      <4> QED
        BY <4>1, <4>2, OthersStay DEF Inv, Embeds
    <3>3. CASE Left(g)
      <4>1. Live(queue', g) <=> Live(queue, g)
        BY <2>2 DEF QueueStep, Spares, Live
      <4>2. ASSUME NEW v \in Workers, Busy(v), File(v) = g, GivesUp(hand[v])
            PROVE  Busy(v)' /\ File(v)' = g /\ GivesUp(hand'[v])
        <5>1. v # w
          BY <2>2, <4>2 DEF Stays
        <5> QED
          BY <4>2, <5>1, OthersStay DEF Inv
      <4> QED
        BY <1>1, <3>3, <4>1, <4>2 DEF Left
    <3> QED
      BY <3>1, <3>2, <3>3
  <2> QED
    BY <2>1, <2>2
<1>3. ASSUME NEW v \in Workers, Busy(v)', file'[File(v)'].alive
      PROVE  Indexed(v, hand'[v], file'[File(v)'], embed'[File(v)'])
  <2>1. CASE v = w
    BY <1>3, <2>1 DEF RowStep, IndexedStep, Busy, File
  <2>2. CASE v # w
    <3>1. hand'[v] = hand[v] /\ Busy(v) /\ File(v)' = File(v)
      BY <1>3, <2>2, OthersStay DEF Inv
    <3>2. File(v) # f /\ File(v) \in Files
      BY <1>1, <2>2, <3>1, BusyWorker DEF Alone
    <3>3. file'[File(v)] = file[File(v)] /\ embed'[File(v)] = embed[File(v)]
      BY <3>2, OthersStay DEF Inv
    <3> QED
      BY <1>1, <1>3, <3>1, <3>3 DEF Inv, EmbeddingsAreKnown
  <2> QED
    BY <2>1, <2>2
<1>4. \A g \in Files : file'[g].alive /\ file'[g].rag = "ready" => embed'[g] = "ready"
  BY <1>1, OthersStay DEF Inv, EmbeddingsAreKnown, IndexedStep
<1> QED
  BY <1>2, <1>3, <1>4 DEF EmbeddingsAreKnown

LEMMA WorkKeeps ==
  ASSUME Inv, NEW w \in Workers, NEW f \in Files, Knows(f), Stays(w, f), Grows,
         RowStep(w, f), QueueStep(w, f), UndisturbedStep(w, f), ProtectedStep(w, f), IndexedStep(w, f)
  PROVE  Inv'
<1>1. had'.stalls = 0 => Alone(w, f)
  BY DEF UndisturbedStep
<1>2. Typed'
  BY DEF Inv, Typed, RowStep, QueueStep, Grows
<1>3. QueueIsSound'
  BY DEF QueueIsSound, QueueStep
<1> QED
  BY <1>1, <1>2, <1>3, UploadsStay, OwnersStay, KnownRowsStay, OutcomesStay, EmbeddingsStay DEF Inv

-----------------------------------------------------------------------------
(***************************************************************************)
(* The steps of a worker that leave the queue alone.                       *)
(***************************************************************************)

HandStep(w) ==
  /\ hand' = [hand EXCEPT ![w] = hand'[w]] /\ hand'[w] \in Hand
  /\ hand'[w].pc # "idle" => hand'[w].msg = hand[w].msg

LEMMA Goes ==
  ASSUME Typed, NEW w \in Workers, Busy(w), NEW pc \in Working \cup Concluding, Go(w, pc),
         pc \in {"reset", "requeue"} => hand[w].msg.retry < MaxRetries
  PROVE  HandStep(w) /\ hand'[w].pc = pc /\ hand'[w].out = hand[w].out /\ hand'[w].msg = hand[w].msg
<1>1. hand[w] \in Hand /\ hand[w].msg \in Msg
  BY DEF Typed, Hand, Busy
<1>2. /\ hand' = [hand EXCEPT ![w] = hand'[w]]
      /\ hand'[w] = [hand[w] EXCEPT !.pc = pc]
  BY DEF Typed, Go
<1>3. /\ hand'[w] \in [pc : {"idle"} \cup Working \cup Concluding, msg : Msg \cup {NoMessage}, out : Outcomes]
      /\ hand'[w].pc = pc /\ hand'[w].out = hand[w].out /\ hand'[w].msg = hand[w].msg
  BY <1>1, <1>2 DEF Hand
<1> QED
  BY <1>1, <1>2, <1>3 DEF Hand, HandStep

LEMMA Concludes ==
  ASSUME Typed, NEW w \in Workers, Busy(w), NEW out \in Outcomes, Conclude(w, out)
  PROVE  HandStep(w) /\ hand'[w].pc = "verify" /\ hand'[w].out = out /\ hand'[w].msg = hand[w].msg
<1>1. hand[w] \in Hand /\ hand[w].msg \in Msg
  BY DEF Typed, Hand, Busy
<1>2. /\ hand' = [hand EXCEPT ![w] = hand'[w]]
      /\ hand'[w] = [[hand[w] EXCEPT !.pc = "verify"] EXCEPT !.out = out]
  BY DEF Typed, Conclude
<1>3. /\ hand'[w] \in [pc : {"idle"} \cup Working \cup Concluding, msg : Msg \cup {NoMessage}, out : Outcomes]
      /\ hand'[w].pc = "verify" /\ hand'[w].out = out /\ hand'[w].msg = hand[w].msg
  BY <1>1, <1>2 DEF Hand, Concluding
<1> QED
  BY <1>1, <1>2, <1>3 DEF Hand, HandStep

LEMMA Rests ==
  ASSUME Typed, NEW w \in Workers, Rest(w)
  PROVE  HandStep(w) /\ hand'[w].pc = "idle"
BY DEF Typed, Rest, Resting, HandStep, Hand, Outcomes

FileStep(f) ==
  /\ file' = [file EXCEPT ![f] = file'[f]] /\ file'[f] \in Row /\ file'[f].status # "uploaded"
  /\ file'[f].alive = file[f].alive

EmbedStep(f) ==
  embed' = [embed EXCEPT ![f] = embed'[f]] /\ embed'[f] \in EmbedStatuses

LEMMA Writes ==
  ASSUME Typed, NEW f \in Files, NEW status \in Statuses \ {"uploaded"},
         NEW attempt \in Workers \cup {NoAttempt}, NEW rag \in {"none", "pending", "ready", "failed"},
         Write(f, status, attempt, rag)
  PROVE  /\ FileStep(f) /\ file'[f].status = status /\ file'[f].attempt = attempt
         /\ file'[f].rag = rag /\ file'[f].alive = file[f].alive
<1>1. file[f] \in Row
  BY DEF Typed
<1>2. /\ file' = [file EXCEPT ![f] = file'[f]]
      /\ file'[f] = [[[file[f] EXCEPT !.status = status] EXCEPT !.attempt = attempt] EXCEPT !.rag = rag]
  BY DEF Typed, Write
<1>3. /\ file'[f] \in Row /\ file'[f].status = status /\ file'[f].attempt = attempt
      /\ file'[f].rag = rag /\ file'[f].alive = file[f].alive
  BY <1>1, <1>2 DEF Row
<1> QED
  BY <1>2, <1>3 DEF FileStep

LEMMA RowsStay ==
  ASSUME Inv, NEW f \in Files, Knows(f)
  PROVE  /\ UNCHANGED file => FileStep(f) /\ file'[f] = file[f]
         /\ UNCHANGED embed => EmbedStep(f) /\ embed'[f] = embed[f]
<1>1. file[f].status # "uploaded"
  BY KnownFile
<1> QED
  BY <1>1 DEF Inv, Typed, FileStep, EmbedStep

\* What a worker at work knows, as long as what would invalidate it has not happened.
LEMMA AtWork ==
  ASSUME Inv, NEW w \in Workers, Busy(w), Grows
  PROVE  LET f == File(w)
         IN  /\ hand[w] \in Hand /\ hand[w].msg \in Msg /\ f \in Files /\ file[f] \in Row
             /\ Knows(f) /\ file[f].status # "uploaded"
             /\ had'.stalls = 0 => /\ Alone(w, f) /\ OwnsIt(queue, w, hand[w].msg) /\ Leased(queue, f)
                                   /\ Undisturbed(w, hand[w], file[f])
             /\ had'.calls = 0 => /\ Protected(w, hand[w], file[f])
                                  /\ file[f].status \in Finished /\ file[f].attempt # NoAttempt
                                       => file[f].status = "ready"
             /\ Calm' /\ file[f].alive =>
                  /\ Indexed(w, hand[w], file[f], embed[f])
                  /\ embed[f] = "processing"
                       => hand[w].pc = "embedding" \/ (had'.calls > 0 /\ GivesUp(hand[w]))
                  /\ file[f].rag = "ready" => embed[f] = "ready"
<1> DEFINE f == File(w)
<1>1. hand[w] \in Hand /\ hand[w].msg \in Msg /\ f \in Files /\ file[f] \in Row /\ Knows(f)
  BY BusyWorker DEF Inv, Typed
<1>2. file[f].status # "uploaded"
  BY <1>1, KnownFile
<1>3. \A k \in Kinds : had'[k] = 0 => had[k] = 0
  BY DEF Inv, Typed, Grows
<1>4. ASSUME had'.stalls = 0
      PROVE  Alone(w, f) /\ OwnsIt(queue, w, hand[w].msg) /\ Leased(queue, f)
             /\ Undisturbed(w, hand[w], file[f])
  <2>1. had.stalls = 0
    BY <1>3, <1>4, NamedTroubles
  <2>2. \A v \in Workers : Busy(v) => OwnsIt(queue, v, hand[v].msg)
    BY <2>1 DEF Inv, WorkIsOwned
  <2>3. Alone(w, f)
    BY <2>2 DEF Inv, QueueIsSound, Sound, OwnsIt, Alone, File
  <2>4. Leased(queue, f)
    BY <2>2 DEF OwnsIt, Leased, File
  <2> QED
    BY <2>1, <2>2, <2>3, <2>4 DEF Inv, RowsAreKnown
<1>5. ASSUME had'.calls = 0
      PROVE  /\ Protected(w, hand[w], file[f])
             /\ file[f].status \in Finished /\ file[f].attempt # NoAttempt => file[f].status = "ready"
  BY <1>1, <1>3, <1>5, NamedTroubles DEF Inv, OutcomesAreKept
<1>6. ASSUME Calm', file[f].alive
      PROVE  /\ Indexed(w, hand[w], file[f], embed[f])
             /\ embed[f] = "processing"
                  => hand[w].pc = "embedding" \/ (had'.calls > 0 /\ GivesUp(hand[w]))
             /\ file[f].rag = "ready" => embed[f] = "ready"
  <2>1. Calm /\ had'.stalls = 0 /\ (had.calls > 0 => had'.calls > 0)
    BY <1>6, CalmBefore DEF Inv
  <2>2. ASSUME embed[f] = "processing"
        PROVE  hand[w].pc = "embedding" \/ (had'.calls > 0 /\ GivesUp(hand[w]))
    <3>1. Embeds(f) \/ Left(f)
      BY <1>1, <1>6, <2>1, <2>2 DEF Inv, EmbeddingsAreKnown
    <3>2. \A v \in Workers : Busy(v) /\ File(v) = f => v = w
      BY <1>4, <2>1 DEF Alone
    <3>3. Live(queue, f)
      BY <1>4, <2>1 DEF Live
    <3> QED
      BY <2>1, <3>1, <3>2, <3>3 DEF Embeds, Left, Busy
  <2> QED
    BY <1>1, <1>6, <2>1, <2>2 DEF Inv, EmbeddingsAreKnown
<1> QED
  BY <1>1, <1>2, <1>4, <1>5, <1>6

LEMMA WriteKeeps ==
  ASSUME Inv, NEW w \in Workers, Busy(w), Grows, HandStep(w), FileStep(File(w)), EmbedStep(File(w)),
         UNCHANGED <<queue, upload>>,
         had'.stalls = 0 /\ hand'[w].pc # "idle" => Undisturbed(w, hand'[w], file'[File(w)]),
         ProtectedWrite(w, File(w)), IndexedStep(w, File(w))
  PROVE  Inv'
<1> DEFINE f == File(w)
<1>1. f \in Files /\ Knows(f) /\ Stays(w, f)
  BY AtWork DEF Stays
<1>2. RowStep(w, f)
  BY DEF RowStep, HandStep, FileStep, EmbedStep, File
<1>3. had'.stalls = 0 => Alone(w, f) /\ OwnsIt(queue, w, hand[w].msg) /\ Leased(queue, f)
  BY AtWork
<1>4. QueueStep(w, f)
  BY <1>3 DEF QueueStep, Spares, HandStep, Inv, Typed, QueueIsSound
<1>5. UndisturbedStep(w, f)
  <2>1. Leased(queue, f) => ~Waits(queue, f) /\ Live(queue, f) /\ \A m \in queue.dead : m.file # f
    BY <1>1 DEF Inv, QueueIsSound, Sound, Live
  <2> QED
    BY <1>3, <2>1 DEF UndisturbedStep
<1>6. ProtectedStep(w, f)
  <2> SUFFICES ASSUME had'.calls = 0, NEW m \in queue.dead, m.file = f PROVE file'[f].status \in Finished
    BY DEF ProtectedStep
  <2>1. had.calls = 0
    BY NamedTroubles DEF Inv, Typed, Grows
  <2>2. file[f].status \in Finished
    BY <2>1 DEF Inv, OutcomesAreKept
  <2> QED
    BY <2>2 DEF ProtectedWrite
<1> QED
  BY <1>1, <1>2, <1>4, <1>5, <1>6, WorkKeeps

\* A step that leaves the status of the embedding alone.
LEMMA IndexStays ==
  ASSUME Inv, NEW w \in Workers, Busy(w), Grows, embed'[File(w)] = embed[File(w)],
         file'[File(w)].alive = file[File(w)].alive,
         hand[w].pc # "embedding", hand'[w].pc # "embedding",
         file'[File(w)].rag = "ready" =>
           file[File(w)].rag = "ready" \/ (hand[w].pc = "final" /\ file[File(w)].attempt = w),
         hand'[w].pc # "final" \/ file'[File(w)].attempt # w,
         Calm' /\ GivesUp(hand[w]) =>
           \/ had'.calls = 0 \/ ~Live(queue', File(w))
           \/ hand'[w].pc # "idle" /\ GivesUp(hand'[w])
  PROVE  IndexedStep(w, File(w))
<1> DEFINE f == File(w)
<1> SUFFICES ASSUME Calm', file'[f].alive PROVE IndexedStep(w, f)
  BY DEF IndexedStep
<1>1. /\ Indexed(w, hand[w], file[f], embed[f])
      /\ embed[f] = "processing" => had'.calls > 0 /\ GivesUp(hand[w])
      /\ file[f].rag = "ready" => embed[f] = "ready"
  BY AtWork
<1>2. had'.calls > 0 => had'.calls # 0
  BY CalmBefore DEF Inv
<1>3. file'[f].rag = "ready" => embed[f] = "ready"
  BY <1>1 DEF Indexed
<1>4. hand'[w].pc # "idle" => Indexed(w, hand'[w], file'[f], embed'[f])
  BY DEF Indexed
<1> QED
  BY <1>1, <1>2, <1>3, <1>4 DEF IndexedStep

\* A step that only looks at the row, the index and its lease.
LEMMA LookKeeps ==
  ASSUME Inv, NEW w \in Workers, Busy(w), Grows, HandStep(w), UNCHANGED <<file, embed, queue, upload>>,
         hand[w].pc # "embedding", hand'[w].pc \notin {"embedding", "final"},
         had'.stalls = 0 /\ hand'[w].pc # "idle" => Undisturbed(w, hand'[w], file[File(w)]),
         had'.calls = 0 /\ hand'[w].pc # "idle" => Protected(w, hand'[w], file[File(w)]),
         Calm' /\ GivesUp(hand[w]) => had'.calls = 0 \/ (hand'[w].pc # "idle" /\ GivesUp(hand'[w]))
  PROVE  Inv'
<1> DEFINE f == File(w)
<1>1. f \in Files /\ Knows(f)
  BY AtWork
<1>2. FileStep(f) /\ EmbedStep(f)
  BY <1>1, RowsStay
<1>3. ProtectedWrite(w, f)
  BY AtWork DEF ProtectedWrite
<1>4. IndexedStep(w, f)
  BY IndexStays
<1> QED
  BY <1>2, <1>3, <1>4, WriteKeeps

LEMMA ReadFileKeeps ==
  ASSUME Inv, NEW w \in Workers, ReadFile(w)
  PROVE  Inv'
<1> DEFINE f == File(w)
<1>1. Busy(w) /\ hand[w].pc = "read" /\ UNCHANGED <<file, embed, queue, upload>>
  BY DEF ReadFile, Busy
<1>2. Grows
  BY TroubleGrows, NamedTroubles DEF ReadFile, Inv
<1>3. /\ HandStep(w) /\ hand'[w].msg = hand[w].msg
      /\ \/ hand'[w].pc = "verify" /\ hand'[w].out = "skip" /\ file[f].status \in Finished
         \/ hand'[w].pc = "claim" /\ hand'[w].out = hand[w].out
         \/ hand'[w].pc = "verify" /\ hand'[w].out = "unclaimed"
  <2>1. CASE file[f].status \in Finished /\ Conclude(w, "skip")
    BY <1>1, <2>1, Concludes DEF Inv, Outcomes
  <2>2. CASE Go(w, "claim")
    BY <1>1, <2>2, Goes DEF Inv, Working
  <2>3. CASE Conclude(w, "unclaimed")
    BY <1>1, <2>3, Concludes DEF Inv, Outcomes
  <2> QED
    BY <2>1, <2>2, <2>3 DEF ReadFile
<1>4. had'.stalls = 0 => Undisturbed(w, hand'[w], file[f])
  BY <1>1, <1>2, <1>3, AtWork DEF Undisturbed, Stamped, Early, Closes
<1>5. had'.calls = 0 => Protected(w, hand'[w], file[f])
  BY <1>1, <1>2, <1>3, AtWork DEF Protected, Early
<1>6. ~GivesUp(hand[w])
  BY <1>1 DEF GivesUp, Closes
<1> QED
  BY <1>1, <1>2, <1>3, <1>4, <1>5, <1>6, LookKeeps

LEMMA ClaimFileKeeps ==
  ASSUME Inv, NEW w \in Workers, ClaimFile(w)
  PROVE  Inv'
<1> DEFINE f == File(w)
           stamps == file[f].status \in Claimable(w) /\ Write(f, "extracting", w, file[f].rag)
<1>1. Busy(w) /\ hand[w].pc = "claim" /\ UNCHANGED <<embed, queue, upload>>
  BY DEF ClaimFile, Busy
<1>2. Grows /\ (UNCHANGED had \/ had'.calls # 0)
  BY TroubleGrows, NamedTroubles DEF ClaimFile, Inv
<1>3. f \in Files /\ Knows(f) /\ file[f] \in Row /\ hand[w].msg \in Msg /\ file[f].status # "uploaded"
  BY <1>1, <1>2, AtWork
<1>4. ~GivesUp(hand[w])
  BY <1>1 DEF GivesUp, Closes
<1>5. CASE stamps /\ (Go(w, "extract") \/ (Conclude(w, "unclaimed") /\ Meets("calls")))
  <2>1. /\ FileStep(f) /\ file'[f].status = "extracting" /\ file'[f].attempt = w /\ file'[f].rag = file[f].rag
    BY <1>3, <1>5, Writes DEF Inv, Row, Statuses
  <2>2. file[f].status \notin Finished
    BY <1>5 DEF Claimable, Unfinished, Finished
  <2>3. HandStep(w) /\ hand'[w].msg = hand[w].msg
        /\ \/ hand'[w].pc = "extract" /\ hand'[w].out = hand[w].out
           \/ hand'[w].pc = "verify" /\ hand'[w].out = "unclaimed"
    BY <1>1, <1>5, Goes, Concludes DEF Inv, Working, Outcomes
  <2>4. EmbedStep(f) /\ embed'[f] = embed[f]
    BY <1>1, <1>3, RowsStay
  <2>5. Undisturbed(w, hand'[w], file'[f])
    BY <2>1, <2>3 DEF Undisturbed, Stamped, Early, Closes
  <2>6. ProtectedWrite(w, f)
    BY <1>1, <1>2, <2>1, <2>2, <2>3, AtWork DEF ProtectedWrite, Protected, Finished
  <2>7. IndexedStep(w, f)
    BY <1>1, <1>2, <1>4, <2>1, <2>3, <2>4, IndexStays DEF FileStep
  <2> QED
    BY <1>1, <1>2, <2>1, <2>3, <2>4, <2>5, <2>6, <2>7, WriteKeeps
<1>6. CASE UNCHANGED file /\ (Conclude(w, "unclaimed") \/ (Conclude(w, "skip") /\ file[f].status \notin Claimable(w)))
  <2>1. HandStep(w) /\ hand'[w].msg = hand[w].msg /\ hand'[w].pc = "verify"
        /\ \/ hand'[w].out = "unclaimed"
           \/ hand'[w].out = "skip" /\ file[f].status \notin Claimable(w)
    BY <1>1, <1>6, Concludes DEF Inv, Outcomes
  <2>2. had'.stalls = 0 => Undisturbed(w, hand'[w], file[f])
    <3>1. ASSUME had'.stalls = 0, file[f].status \notin Claimable(w) PROVE file[f].status \in Finished
      <4>1. Undisturbed(w, hand[w], file[f])
        BY <1>1, <1>2, <3>1, AtWork
      <4>2. CASE hand[w].msg.reclaimed
        BY <1>3, <3>1, <4>2 DEF Claimable, Unfinished, Finished, Row, Statuses
      <4>3. CASE ~hand[w].msg.reclaimed
        BY <1>1, <3>1, <4>1, <4>3 DEF Claimable, Undisturbed, Fresh
      <4> QED
        BY <4>2, <4>3
    <3> QED
      BY <2>1, <3>1 DEF Undisturbed, Stamped, Early, Closes
  <2>3. had'.calls = 0 => Protected(w, hand'[w], file[f])
    BY <1>1, <1>2, <2>1, AtWork DEF Protected, Early
  <2> QED
    BY <1>1, <1>2, <1>4, <1>6, <2>1, <2>2, <2>3, LookKeeps
<1> QED
  BY <1>5, <1>6 DEF ClaimFile

LEMMA ExtractKeeps ==
  ASSUME Inv, NEW w \in Workers, Extract(w)
  PROVE  Inv'
<1> DEFINE f == File(w)
<1>1. Busy(w) /\ hand[w].pc = "extract" /\ UNCHANGED <<file, embed, queue, upload, had>>
  BY DEF Extract, Busy
<1>2. Grows
  BY <1>1, TroubleGrows, NamedTroubles DEF Inv
<1>3. /\ HandStep(w) /\ hand'[w].msg = hand[w].msg /\ hand'[w].out = hand[w].out
      /\ hand'[w].pc \in {"save", "empty", "fail"}
  BY <1>1, Goes DEF Inv, Working, Extract
<1>4. had'.stalls = 0 => Undisturbed(w, hand'[w], file[f])
  BY <1>1, <1>2, <1>3, AtWork DEF Undisturbed, Stamped, Early, Closes
<1>5. had'.calls = 0 => Protected(w, hand'[w], file[f])
  BY <1>1, <1>2, <1>3, AtWork DEF Protected, Early
<1>6. ~GivesUp(hand[w])
  BY <1>1 DEF GivesUp, Closes
<1> QED
  BY <1>1, <1>2, <1>3, <1>4, <1>5, <1>6, LookKeeps

\* The writes of an attempt: it may have lost its row, ...
AtWrite == {"save", "empty", "fail", "embedFailed", "final"}

LEMMA LostKeeps ==
  ASSUME Inv, NEW w \in Workers, hand[w].pc \in AtWrite, ~Claimed(File(w), w), Conclude(w, "lost"),
         UNCHANGED <<file, embed, queue, upload, had>>
  PROVE  Inv'
<1> DEFINE f == File(w)
<1>1. Busy(w) /\ hand[w].pc # "embedding"
  BY DEF AtWrite, Busy
<1>2. Grows
  BY TroubleGrows, NamedTroubles DEF Inv
<1>3. HandStep(w) /\ hand'[w].msg = hand[w].msg /\ hand'[w].pc = "verify" /\ hand'[w].out = "lost"
  BY <1>1, Concludes DEF Inv, Outcomes
<1>4. had'.stalls = 0 => file[f].status \in Finished
  BY <1>1, <1>2, AtWork DEF Undisturbed, Stamped, Early, AtWrite, Claimed
<1>5. had'.stalls = 0 => Undisturbed(w, hand'[w], file[f])
  BY <1>3, <1>4 DEF Undisturbed, Stamped, Early, Closes
<1>6. had'.calls = 0 => Protected(w, hand'[w], file[f])
  BY <1>3 DEF Protected, Early
<1>7. GivesUp(hand'[w])
  BY <1>3 DEF GivesUp, Closes
<1> QED
  BY <1>1, <1>2, <1>3, <1>5, <1>6, <1>7, LookKeeps

\* ... its call may fail, before or after it is carried out, ...
EmbedWrite(f, rag) ==
  EmbedStep(f) /\ (embed'[f] = embed[f] \/ (embed'[f] = "empty" /\ rag = "none"))

\* The status of the embedding after a write of the attempt that concludes.
LEMMA IndexWritten ==
  ASSUME Inv, NEW w \in Workers, hand[w].pc \in AtWrite, Grows, FileStep(File(w)), NEW rag,
         rag = "ready" => hand[w].pc = "final", Claimed(File(w), w), EmbedWrite(File(w), rag),
         file'[File(w)].rag = rag, hand'[w].pc = "verify",
         Meets("calls") \/ hand'[w].out = "done"
  PROVE  IndexedStep(w, File(w))
<1> DEFINE f == File(w)
<1>1. Busy(w) /\ hand[w].pc # "embedding"
  BY DEF AtWrite, Busy
<1>2. CASE embed'[f] = embed[f]
  <2>1. Calm' /\ had'.calls > 0 /\ Meets("calls") => ~(embed[f] = "processing" /\ file[f].alive)
    <3> SUFFICES ASSUME Calm', Meets("calls"), embed[f] = "processing", file[f].alive PROVE FALSE
      OBVIOUS
    <3>1. Calm /\ had.calls = 0 /\ had'.stalls = 0
      BY CalmBefore DEF Inv
    <3>2. f \in Files /\ Alone(w, f)
      BY <1>1, <3>1, AtWork
    <3>3. Embeds(f) \/ Left(f)
      BY <3>1, <3>2 DEF Inv, EmbeddingsAreKnown
    <3> QED
      BY <1>1, <3>1, <3>2, <3>3 DEF Embeds, Left, Alone, Busy
  <2>2. /\ Calm' /\ file[f].alive => Indexed(w, hand[w], file[f], embed[f])
        /\ Calm' /\ file[f].alive /\ embed[f] = "processing" => had'.calls > 0
    BY <1>1, AtWork
  <2>3. hand'[w].out = "done" => GivesUp(hand'[w])
    BY DEF GivesUp, Closes
  <2>4. file'[f].alive = file[f].alive
    BY DEF FileStep
  <2>5. Calm' /\ file[f].alive /\ rag = "ready" => embed[f] = "ready"
    BY <2>2 DEF Indexed, Claimed
  <2>6. Indexed(w, hand'[w], file'[f], embed'[f])
    BY DEF Indexed
  <2> QED
    BY <1>2, <2>1, <2>2, <2>3, <2>4, <2>5, <2>6 DEF IndexedStep
<1>3. CASE embed'[f] = "empty" /\ rag = "none"
  BY <1>3 DEF IndexedStep, Indexed
<1> QED
  BY <1>2, <1>3 DEF EmbedWrite

LEMMA ErrorKeeps ==
  ASSUME Inv, NEW w \in Workers, hand[w].pc \in AtWrite, Conclude(w, "error"), Meets("calls"),
         NEW status \in Statuses \ {"uploaded"}, NEW rag \in {"none", "pending", "ready", "failed"},
         rag = "ready" => hand[w].pc = "final",
         \/ UNCHANGED <<file, embed>>
         \/ Claimed(File(w), w) /\ WriteClaimed(File(w), w, status, rag) /\ EmbedWrite(File(w), rag),
         UNCHANGED <<queue, upload>>
  PROVE  Inv'
<1> DEFINE f == File(w)
<1>1. Busy(w) /\ hand[w].pc # "embedding"
  BY DEF AtWrite, Busy
<1>2. Grows /\ had'.calls # 0
  BY TroubleGrows, NamedTroubles DEF Inv
<1>3. HandStep(w) /\ hand'[w].msg = hand[w].msg /\ hand'[w].pc = "verify" /\ hand'[w].out = "error"
  BY <1>1, Concludes DEF Inv, Outcomes
<1>4. f \in Files /\ Knows(f)
  BY <1>1, <1>2, AtWork
<1>5. CASE UNCHANGED <<file, embed>>
  <2>1. Undisturbed(w, hand'[w], file[f])
    BY <1>3 DEF Undisturbed, Stamped, Early, Closes
  <2>2. FileStep(f) /\ EmbedStep(f) /\ file'[f] = file[f] /\ embed'[f] = embed[f]
    BY <1>4, <1>5, RowsStay
  <2>3. ProtectedWrite(w, f)
    BY <1>2 DEF ProtectedWrite
  <2>4. IndexedStep(w, f)
    <3> SUFFICES ASSUME Calm', file[f].alive PROVE IndexedStep(w, f)
      BY <2>2 DEF IndexedStep
    <3>1. Calm /\ had.calls = 0 /\ had'.stalls = 0
      BY <1>2, CalmBefore DEF Inv
    <3>2. Alone(w, f) /\ (file[f].rag = "ready" => embed[f] = "ready")
      BY <1>1, <1>2, <3>1, AtWork
    <3>3. embed[f] # "processing"
      BY <1>1, <1>4, <3>1, <3>2 DEF Inv, EmbeddingsAreKnown, Embeds, Left, Alone, Busy
    <3> QED
      BY <1>3, <2>2, <3>2, <3>3 DEF IndexedStep, Indexed
  <2> QED
    BY <1>1, <1>2, <1>3, <1>5, <2>1, <2>2, <2>3, <2>4, WriteKeeps
<1>6. CASE Claimed(f, w) /\ WriteClaimed(f, w, status, rag) /\ EmbedWrite(f, rag)
  <2>1. FileStep(f) /\ file'[f].rag = rag
    BY <1>4, <1>6, Writes DEF Inv, WriteClaimed
  <2>2. EmbedStep(f)
    BY <1>6 DEF EmbedWrite
  <2>3. Undisturbed(w, hand'[w], file'[f])
    BY <1>3 DEF Undisturbed, Stamped, Early, Closes
  <2>4. ProtectedWrite(w, f)
    BY <1>2 DEF ProtectedWrite
  <2>5. IndexedStep(w, f)
    BY <1>2, <1>3, <1>6, <2>1, IndexWritten
  <2> QED
    BY <1>1, <1>2, <1>3, <2>1, <2>2, <2>3, <2>4, <2>5, WriteKeeps
<1> QED
  BY <1>5, <1>6

\* ... or the outcome is written.
LEMMA DoneKeeps ==
  ASSUME Inv, NEW w \in Workers, hand[w].pc \in AtWrite, Conclude(w, "done"),
         NEW status \in Finished, NEW rag \in {"none", "pending", "ready", "failed"},
         rag = "ready" => hand[w].pc = "final",
         Claimed(File(w), w), WriteClaimed(File(w), w, status, rag), EmbedWrite(File(w), rag),
         UNCHANGED <<queue, upload, had>>
  PROVE  Inv'
<1> DEFINE f == File(w)
<1>1. Busy(w) /\ hand[w].pc # "embedding"
  BY DEF AtWrite, Busy
<1>2. Grows
  BY TroubleGrows, NamedTroubles DEF Inv
<1>3. HandStep(w) /\ hand'[w].msg = hand[w].msg /\ hand'[w].pc = "verify" /\ hand'[w].out = "done"
  BY <1>1, Concludes DEF Inv, Outcomes
<1>4. f \in Files /\ Knows(f)
  BY <1>1, <1>2, AtWork
<1>5. FileStep(f) /\ file'[f].rag = rag /\ file'[f].status = status /\ file'[f].attempt = NoAttempt
  BY <1>4, Writes DEF Inv, WriteClaimed, Finished, Statuses
<1>6. EmbedStep(f)
  BY DEF EmbedWrite
<1>7. Undisturbed(w, hand'[w], file'[f])
  BY <1>3, <1>5 DEF Undisturbed, Stamped, Early, Closes
<1>8. ProtectedWrite(w, f)
  BY <1>3, <1>5 DEF ProtectedWrite, Protected, Early
<1>9. IndexedStep(w, f)
  BY <1>2, <1>3, <1>5, IndexWritten
<1> QED
  BY <1>1, <1>2, <1>3, <1>5, <1>6, <1>7, <1>8, <1>9, WriteKeeps

LEMMA WriteOutcomeKeeps ==
  ASSUME Inv, NEW w \in Workers, hand[w].pc \in AtWrite,
         NEW status \in Finished, NEW rag \in {"none", "pending", "ready", "failed"},
         rag = "ready" => hand[w].pc = "final",
         AttemptWrites(w, status, rag, Conclude(w, "done")),
         \/ UNCHANGED embed
         \/ file' # file /\ rag = "none" /\ embed' = [embed EXCEPT ![File(w)] = "empty"]
  PROVE  Inv'
<1>1. status \in Statuses \ {"uploaded"}
  BY DEF Finished, Statuses
<1>2. UNCHANGED <<queue, upload>>
  BY DEF AttemptWrites
<1>3. \/ Claimed(File(w), w) /\ WriteClaimed(File(w), w, status, rag) /\ Conclude(w, "done") /\ UNCHANGED had
      \/ ~Claimed(File(w), w) /\ Conclude(w, "lost") /\ UNCHANGED <<file, had>>
      \/ /\ Meets("calls") /\ Conclude(w, "error")
         /\ UNCHANGED file \/ (Claimed(File(w), w) /\ WriteClaimed(File(w), w, status, rag))
  BY DEF AttemptWrites
<1>4. EmbedWrite(File(w), rag)
  <2>1. Busy(w)
    BY DEF AtWrite, Busy
  <2>2. File(w) \in Files /\ Knows(File(w))
    BY <2>1, BusyWorker
  <2>3. CASE UNCHANGED embed
    BY <2>2, <2>3, RowsStay DEF EmbedWrite
  <2>4. CASE rag = "none" /\ embed' = [embed EXCEPT ![File(w)] = "empty"]
    BY <2>2, <2>4 DEF EmbedWrite, EmbedStep, EmbedStatuses, Inv, Typed
  <2> QED
    BY <2>3, <2>4
<1>5. UNCHANGED file => UNCHANGED embed
  OBVIOUS
<1> QED
  BY <1>1, <1>2, <1>3, <1>4, <1>5, LostKeeps, ErrorKeeps, DoneKeeps

LEMMA WriteEmptyKeeps ==
  ASSUME Inv, NEW w \in Workers, WriteEmpty(w)
  PROVE  Inv'
BY WriteOutcomeKeeps DEF WriteEmpty, AtWrite, Finished

LEMMA WriteFailedKeeps ==
  ASSUME Inv, NEW w \in Workers, WriteFailed(w)
  PROVE  Inv'
BY WriteOutcomeKeeps DEF WriteFailed, AtWrite, Finished

LEMMA WriteEmbedFailedKeeps ==
  ASSUME Inv, NEW w \in Workers, WriteEmbedFailed(w)
  PROVE  Inv'
BY WriteOutcomeKeeps DEF WriteEmbedFailed, AtWrite, Finished

LEMMA WriteFinalKeeps ==
  ASSUME Inv, NEW w \in Workers, WriteFinal(w)
  PROVE  Inv'
BY WriteOutcomeKeeps DEF WriteFinal, AtWrite, Finished

LEMMA SaveTextKeeps ==
  ASSUME Inv, NEW w \in Workers, SaveText(w)
  PROVE  Inv'
<1> DEFINE f == File(w)
<1>1. /\ Busy(w) /\ hand[w].pc = "save" /\ hand[w].pc \in AtWrite
      /\ UNCHANGED <<embed, queue, upload>>
  BY DEF SaveText, Busy, AtWrite, AttemptWrites
<1>2. PICK status \in {"embedding", "ready"} :
        AttemptWrites(w, status, "pending", Go(w, IF status = "embedding" THEN "embed" ELSE "final"))
  BY DEF SaveText
<1>3. status \in Statuses \ {"uploaded"}
  BY DEF Statuses
<1>4. CASE ~Claimed(f, w) /\ Conclude(w, "lost") /\ UNCHANGED <<file, had>>
  BY <1>1, <1>4, LostKeeps
<1>5. CASE /\ Meets("calls") /\ Conclude(w, "error")
           /\ UNCHANGED file \/ (Claimed(f, w) /\ WriteClaimed(f, w, status, "pending"))
  <2>1. EmbedWrite(f, "pending")
    BY <1>1, BusyWorker, RowsStay DEF EmbedWrite
  <2> QED
    BY <1>1, <1>3, <1>5, <2>1, ErrorKeeps
<1>6. CASE /\ Claimed(f, w) /\ WriteClaimed(f, w, status, "pending") /\ UNCHANGED had
           /\ Go(w, IF status = "embedding" THEN "embed" ELSE "final")
  <2>1. Grows
    BY <1>6, TroubleGrows, NamedTroubles DEF Inv
  <2>2. f \in Files /\ Knows(f)
    BY <1>1, <2>1, AtWork
  <2>3. /\ FileStep(f) /\ file'[f].status = status /\ file'[f].rag = "pending"
        /\ file'[f].attempt = IF status = "ready" THEN NoAttempt ELSE w
    BY <1>3, <1>6, <2>2, Writes DEF Inv, WriteClaimed, Finished
  <2>4. EmbedStep(f) /\ embed'[f] = embed[f]
    BY <1>1, <2>2, RowsStay
  <2>5. /\ HandStep(w) /\ hand'[w].msg = hand[w].msg /\ hand'[w].out = hand[w].out
        /\ hand'[w].pc = IF status = "embedding" THEN "embed" ELSE "final"
    BY <1>1, <1>6, Goes DEF Inv, Working
  <2>6. Undisturbed(w, hand'[w], file'[f])
    BY <1>2, <2>3, <2>5 DEF Undisturbed, Stamped, Early, Closes, Finished
  <2>7. ProtectedWrite(w, f)
    BY <1>1, <1>2, <1>6, <2>1, <2>3, <2>5, AtWork DEF ProtectedWrite, Protected, Early, Finished, Claimed
  <2>8. IndexedStep(w, f)
    <3>1. ~GivesUp(hand[w])
      BY <1>1 DEF GivesUp, Closes
    <3>2. hand'[w].pc # "final" \/ file'[f].attempt # w
      BY <1>2, <2>3, <2>5, FileAssumption
    <3>3. hand'[w].pc # "embedding" /\ file'[f].rag # "ready" /\ file'[f].alive = file[f].alive
      BY <2>3, <2>5 DEF FileStep
    <3> QED
      BY <1>1, <2>1, <2>4, <3>1, <3>2, <3>3, IndexStays
  <2> QED
    BY <1>1, <2>1, <2>3, <2>4, <2>5, <2>6, <2>7, <2>8, WriteKeeps
<1> QED
  BY <1>2, <1>4, <1>5, <1>6 DEF AttemptWrites

\* A step of the embedding, which leaves the row alone.
LEMMA EmbedKeeps ==
  ASSUME Inv, NEW w \in Workers, Busy(w), Grows, HandStep(w), EmbedStep(File(w)),
         UNCHANGED <<file, queue, upload>>,
         had'.stalls = 0 /\ hand'[w].pc # "idle" => Undisturbed(w, hand'[w], file[File(w)]),
         had'.calls = 0 /\ hand'[w].pc # "idle" => Protected(w, hand'[w], file[File(w)]),
         IndexedStep(w, File(w))
  PROVE  Inv'
<1> DEFINE f == File(w)
<1>1. f \in Files /\ Knows(f)
  BY AtWork
<1>2. FileStep(f)
  BY <1>1, RowsStay
<1>3. ProtectedWrite(w, f)
  BY AtWork DEF ProtectedWrite
<1> QED
  BY <1>2, <1>3, WriteKeeps

LEMMA ClaimEmbeddingKeeps ==
  ASSUME Inv, NEW w \in Workers, ClaimEmbedding(w)
  PROVE  Inv'
<1> DEFINE f == File(w)
<1>1. Busy(w) /\ hand[w].pc = "embed" /\ UNCHANGED <<file, queue, upload>>
  BY DEF ClaimEmbedding, Busy
<1>2. Grows
  BY TroubleGrows, NamedTroubles DEF ClaimEmbedding, Inv
<1>3. f \in Files /\ Knows(f)
  BY <1>1, <1>2, AtWork
<1>4. HandStep(w) /\ hand'[w].msg = hand[w].msg /\ hand'[w].out = hand[w].out
      /\ hand'[w].pc \in {"embedding", "final", "embedFailed"}
  BY <1>1, Goes DEF Inv, Working, ClaimEmbedding
<1>5. /\ had'.stalls = 0 => Undisturbed(w, hand'[w], file[f])
      /\ had'.calls = 0 => Protected(w, hand'[w], file[f])
  BY <1>1, <1>2, <1>4, AtWork DEF Undisturbed, Protected, Stamped, Early, Closes
<1>6. Calm' /\ file[f].alive => embed[f] # "processing" /\ (file[f].rag = "ready" => embed[f] = "ready")
  <2>1. ~GivesUp(hand[w])
    BY <1>1 DEF GivesUp, Closes
  <2> QED
    BY <1>1, <1>2, <2>1, AtWork
<1>7. EmbedStep(f) /\ IndexedStep(w, f)
  <2> DEFINE can == file[f].alive /\ embed[f] \notin {"processing", "ready"}
             claim == embed' = [embed EXCEPT ![f] = "processing"]
  <2>1. CASE can /\ claim /\ (Go(w, "embedding") \/ (Go(w, "embedFailed") /\ Meets("calls")))
    <3>1. hand'[w].pc = "embedding" \/ (hand'[w].pc = "embedFailed" /\ Meets("calls"))
      BY <1>1, <2>1, Goes DEF Inv, Working
    <3>2. EmbedStep(f) /\ embed'[f] = "processing"
      BY <1>3, <2>1 DEF EmbedStep, EmbedStatuses, Inv, Typed
    <3>3. Calm' /\ Meets("calls") => had'.calls > 0
      BY <1>2, CalmBefore DEF Inv
    <3>4. hand'[w].pc = "embedFailed" => GivesUp(hand'[w])
      BY DEF GivesUp
    <3>5. Calm' => file[f].rag # "ready"
      BY <1>6, <2>1
    <3> QED
      BY <1>1, <2>1, <3>1, <3>2, <3>3, <3>4, <3>5 DEF IndexedStep, Indexed
  <2>2. CASE ~can /\ Go(w, "final") /\ UNCHANGED embed
    <3>1. EmbedStep(f) /\ embed'[f] = embed[f]
      BY <1>3, <2>2, RowsStay
    <3>2. Calm' /\ file[f].alive => embed'[f] = "ready"
      BY <1>6, <2>2, <3>1
    <3>3. hand'[w].pc = "final"
      BY <1>1, <2>2, Goes DEF Inv, Working
    <3> QED
      BY <1>1, <3>1, <3>2, <3>3 DEF IndexedStep, Indexed
  <2>3. CASE Go(w, "embedFailed") /\ UNCHANGED embed
    <3>1. hand'[w].pc = "embedFailed"
      BY <1>1, <2>3, Goes DEF Inv, Working
    <3>2. EmbedStep(f) /\ embed'[f] = embed[f]
      BY <1>3, <2>3, RowsStay
    <3> QED
      BY <1>1, <1>6, <3>1, <3>2 DEF IndexedStep, Indexed
  <2> QED
    BY <2>1, <2>2, <2>3 DEF ClaimEmbedding
<1> QED
  BY <1>1, <1>2, <1>4, <1>5, <1>7, EmbedKeeps

\* A write of the status, which spares a deleted file.
LEMMA EmbeddedStep ==
  ASSUME Typed, NEW f \in Files, NEW status \in EmbedStatuses, embed' = Embedded(f, status)
  PROVE  EmbedStep(f) /\ embed'[f] = IF file[f].alive THEN status ELSE embed[f]
BY DEF Embedded, EmbedStep, Typed

LEMMA EmbedChunksKeeps ==
  ASSUME Inv, NEW w \in Workers, EmbedChunks(w)
  PROVE  Inv'
<1> DEFINE f == File(w)
           published == IF embed[f] = "processing" THEN Embedded(f, "ready") ELSE embed
<1>1. Busy(w) /\ hand[w].pc = "embedding" /\ UNCHANGED <<file, queue, upload>>
  BY DEF EmbedChunks, Busy
<1>2. Grows
  BY TroubleGrows, NamedTroubles DEF Inv, EmbedChunks
<1>3. f \in Files /\ Knows(f)
  BY <1>1, <1>2, AtWork
<1>4. HandStep(w) /\ hand'[w].msg = hand[w].msg /\ hand'[w].out = hand[w].out
      /\ \/ hand'[w].pc = "final" /\ embed' = published
         \/ hand'[w].pc = "embedFailed" /\ embed' = Embedded(f, "failed")
         \/ hand'[w].pc = "embedFailed" /\ Meets("calls") /\ embed' \in {embed, published, Embedded(f, "failed")}
  BY <1>1, Goes DEF Inv, Working, EmbedChunks
<1>5. /\ had'.stalls = 0 => Undisturbed(w, hand'[w], file[f])
      /\ had'.calls = 0 => Protected(w, hand'[w], file[f])
  BY <1>1, <1>2, <1>4, AtWork DEF Undisturbed, Protected, Stamped, Early, Closes
<1>6. Calm' /\ file[f].alive => embed[f] = "processing" /\ file[f].rag # "ready"
  BY <1>1, <1>2, AtWork DEF Indexed
<1>7. embed' = embed => EmbedStep(f) /\ embed'[f] = embed[f]
  BY <1>3, RowsStay
<1>8. embed' = Embedded(f, "failed") => EmbedStep(f) /\ (file[f].alive => embed'[f] = "failed")
  BY <1>3, EmbeddedStep DEF Inv, EmbedStatuses
<1>9. embed' = published
        => EmbedStep(f) /\ (file[f].alive /\ embed[f] = "processing" => embed'[f] = "ready")
  BY <1>3, <1>7, EmbeddedStep DEF Inv, EmbedStatuses
<1> HIDE DEF published
<1>10. EmbedStep(f)
  BY <1>4, <1>7, <1>8, <1>9
<1>11. IndexedStep(w, f)
  <2> SUFFICES ASSUME Calm', file[f].alive PROVE IndexedStep(w, f)
    BY <1>1 DEF IndexedStep
  <2>1. embed[f] = "processing" /\ file'[f].rag # "ready"
    BY <1>1, <1>6
  <2>2. CASE hand'[w].pc = "final" /\ embed' = published
    BY <1>9, <2>1, <2>2 DEF IndexedStep, Indexed
  <2>3. CASE hand'[w].pc = "embedFailed" /\ embed' = Embedded(f, "failed")
    BY <1>8, <2>1, <2>3 DEF IndexedStep, Indexed
  <2>4. CASE hand'[w].pc = "embedFailed" /\ Meets("calls")
    <3>1. had'.calls > 0
      BY <1>2, <2>4, CalmBefore DEF Inv
    <3>2. GivesUp(hand'[w]) /\ hand'[w].pc # "idle"
      BY <2>4 DEF GivesUp
    <3>3. Indexed(w, hand'[w], file'[f], embed'[f])
      BY <2>4 DEF Indexed
    <3> QED
      BY <2>1, <3>1, <3>2, <3>3 DEF IndexedStep
  <2> QED
    BY <1>4, <2>2, <2>3, <2>4
<1> QED
  BY <1>1, <1>2, <1>4, <1>5, <1>10, <1>11, EmbedKeeps

-----------------------------------------------------------------------------
(***************************************************************************)
(* What follows a failed attempt: only calls that failed lead here.        *)
(***************************************************************************)

AfterError == {"reset", "finalize", "markFailed", "force"}

LEMMA OnlyAfterError ==
  ASSUME Inv, NEW w \in Workers, hand[w].pc \in AfterError, Grows
  PROVE  had'.calls # 0 /\ hand[w].pc # "embedding" /\ ~GivesUp(hand[w])
<1>1. Busy(w) /\ hand[w].pc # "embedding" /\ ~GivesUp(hand[w])
  BY DEF AfterError, Busy, GivesUp, Closes
<1> QED
  BY <1>1, AtWork DEF AfterError, Protected

\* A write that follows one, and announces nothing.
LEMMA AfterErrorKeeps ==
  ASSUME Inv, NEW w \in Workers, hand[w].pc \in AfterError, Grows, HandStep(w),
         UNCHANGED <<embed, queue, upload>>, FileStep(File(w)),
         file'[File(w)].rag = "ready" => file[File(w)].rag = "ready",
         hand'[w].pc \in {"idle", "requeue", "markFailed", "force", "deadLetter"},
         hand'[w].pc = "requeue" => file'[File(w)].status \in Fresh,
         hand'[w].pc = "deadLetter" /\ had'.stalls = 0 => file'[File(w)].status \in Finished
  PROVE  Inv'
<1> DEFINE f == File(w)
<1>1. Busy(w)
  BY DEF AfterError, Busy
<1>2. f \in Files /\ Knows(f)
  BY <1>1, AtWork
<1>3. EmbedStep(f) /\ embed'[f] = embed[f]
  BY <1>2, RowsStay
<1>4. had'.stalls = 0 /\ hand'[w].pc # "idle" => Undisturbed(w, hand'[w], file'[f])
  BY DEF Undisturbed, Stamped, Early, Closes
<1>5. ProtectedWrite(w, f)
  BY OnlyAfterError DEF ProtectedWrite
<1>6. IndexedStep(w, f)
  BY <1>1, <1>3, OnlyAfterError, IndexStays DEF FileStep
<1> QED
  BY <1>1, <1>3, <1>4, <1>5, <1>6, WriteKeeps

LEMMA ResetKeeps ==
  ASSUME Inv, NEW w \in Workers, Reset(w)
  PROVE  Inv'
<1> DEFINE f == File(w)
           can == Claimed(f, w) /\ file[f].status \in {"extracting", "embedding"}
           reset == Write(f, "queued", NoAttempt, file[f].rag)
<1>1. /\ Busy(w) /\ hand[w].pc = "reset" /\ hand[w].pc \in AfterError
      /\ UNCHANGED <<embed, queue, upload>>
  BY DEF Reset, Busy, AfterError
<1>2. Grows
  BY TroubleGrows, NamedTroubles DEF Reset, Inv
<1>3. f \in Files /\ Knows(f) /\ file[f] \in Row /\ hand[w].msg.retry < MaxRetries
  BY <1>1, <1>2, AtWork DEF Hand
<1>4. CASE reset
  <2>1. FileStep(f) /\ file'[f].status = "queued" /\ file'[f].rag = file[f].rag
    BY <1>3, <1>4, Writes DEF Inv, Row, Statuses
  <2>2. HandStep(w) /\ hand'[w].pc \in {"idle", "requeue"}
    BY <1>1, <1>3, Goes, Rests DEF Inv, Concluding, Reset
  <2> QED
    BY <1>1, <1>2, <2>1, <2>2, AfterErrorKeeps DEF Fresh
<1>5. CASE UNCHANGED file /\ Rest(w)
  <2>1. FileStep(f) /\ file'[f] = file[f]
    BY <1>3, <1>5, RowsStay
  <2>2. HandStep(w) /\ hand'[w].pc = "idle"
    BY <1>5, Rests DEF Inv
  <2> QED
    BY <1>1, <1>2, <2>1, <2>2, AfterErrorKeeps
<1> QED
  BY <1>4, <1>5 DEF Reset

LEMMA FinalizeKeeps ==
  ASSUME Inv, NEW w \in Workers, Finalize(w)
  PROVE  Inv'
<1> DEFINE f == File(w)
<1>1. /\ Busy(w) /\ hand[w].pc = "finalize" /\ hand[w].pc \in AfterError
      /\ UNCHANGED <<file, embed, queue, upload>>
  BY DEF Finalize, Busy, AfterError
<1>2. Grows
  BY TroubleGrows, NamedTroubles DEF Finalize, Inv
<1>3. FileStep(f) /\ file'[f] = file[f]
  BY <1>1, <1>2, AtWork, RowsStay
<1>4. HandStep(w) /\ \/ hand'[w].pc \in {"idle", "markFailed"}
                     \/ hand'[w].pc = "deadLetter" /\ file[f].status \in Finished
  BY <1>1, Goes, Rests DEF Inv, Concluding, Finalize
<1> QED
  BY <1>1, <1>2, <1>3, <1>4, AfterErrorKeeps

LEMMA MarkFailedKeeps ==
  ASSUME Inv, NEW w \in Workers, MarkFailed(w)
  PROVE  Inv'
<1> DEFINE f == File(w)
<1>1. /\ Busy(w) /\ hand[w].pc = "markFailed" /\ hand[w].pc \in AfterError
      /\ UNCHANGED <<embed, queue, upload>>
  BY DEF MarkFailed, Busy, AfterError
<1>2. Grows
  BY TroubleGrows, NamedTroubles DEF MarkFailed, Inv
<1>3. f \in Files /\ Knows(f)
  BY <1>1, <1>2, AtWork
<1>4. CASE WriteClaimed(f, w, "failed", "none") /\ Go(w, "deadLetter")
  <2>1. FileStep(f) /\ file'[f].status = "failed" /\ file'[f].rag = "none"
    BY <1>3, <1>4, Writes DEF Inv, WriteClaimed, Statuses
  <2>2. HandStep(w) /\ hand'[w].pc = "deadLetter"
    BY <1>1, <1>4, Goes DEF Inv, Concluding
  <2> QED
    BY <1>1, <1>2, <2>1, <2>2, AfterErrorKeeps DEF Finished
<1>5. CASE UNCHANGED file /\ (Go(w, "force") \/ Rest(w))
  <2>1. FileStep(f) /\ file'[f] = file[f]
    BY <1>3, <1>5, RowsStay
  <2>2. HandStep(w) /\ hand'[w].pc \in {"force", "idle"}
    BY <1>1, <1>5, Goes, Rests DEF Inv, Concluding
  <2> QED
    BY <1>1, <1>2, <2>1, <2>2, AfterErrorKeeps
<1> QED
  BY <1>4, <1>5 DEF MarkFailed

LEMMA ForceFailedKeeps ==
  ASSUME Inv, NEW w \in Workers, ForceFailed(w)
  PROVE  Inv'
<1> DEFINE f == File(w)
<1>1. /\ Busy(w) /\ hand[w].pc = "force" /\ hand[w].pc \in AfterError
      /\ UNCHANGED <<embed, queue, upload>>
  BY DEF ForceFailed, Busy, AfterError
<1>2. Grows
  BY TroubleGrows, NamedTroubles DEF ForceFailed, Inv
<1>3. f \in Files /\ Knows(f) /\ file[f] \in Row
  BY <1>1, <1>2, AtWork
<1>4. CASE Write(f, "failed", file[f].attempt, "none") /\ Go(w, "deadLetter")
  <2>1. FileStep(f) /\ file'[f].status = "failed" /\ file'[f].rag = "none"
    BY <1>3, <1>4, Writes DEF Inv, Row, Statuses
  <2>2. HandStep(w) /\ hand'[w].pc = "deadLetter"
    BY <1>1, <1>4, Goes DEF Inv, Concluding
  <2> QED
    BY <1>1, <1>2, <2>1, <2>2, AfterErrorKeeps DEF Finished
<1>5. CASE UNCHANGED file /\ Rest(w)
  <2>1. FileStep(f) /\ file'[f] = file[f]
    BY <1>3, <1>5, RowsStay
  <2>2. HandStep(w) /\ hand'[w].pc = "idle"
    BY <1>5, Rests DEF Inv
  <2> QED
    BY <1>1, <1>2, <2>1, <2>2, AfterErrorKeeps
<1> QED
  BY <1>4, <1>5 DEF ForceFailed

LEMMA AbandonStep ==
  ASSUME Inv, NEW w \in Workers, Busy(w), Abandon(w)
  PROVE  EmbedStep(File(w))
<1>1. File(w) \in Files /\ Knows(File(w))
  BY BusyWorker
<1>2. CASE UNCHANGED embed
  BY <1>1, <1>2, RowsStay
<1>3. CASE embed' = Embedded(File(w), "failed")
  BY <1>1, <1>3, EmbeddedStep DEF Inv, EmbedStatuses
<1> QED
  BY <1>2, <1>3 DEF Abandon

\* A lease is found gone only where a worker has stalled.
LEMMA LoseOwnershipKeeps ==
  ASSUME Inv, NEW w \in Workers, LoseOwnership(w)
  PROVE  Inv'
<1> DEFINE f == File(w)
<1>1. /\ Busy(w) /\ UNCHANGED <<file, queue, upload, had>> /\ ~Owns(queue, w, hand[w].msg)
      /\ Abandon(w) /\ Rest(w)
  BY DEF LoseOwnership, Busy, Working
<1>2. Grows
  BY <1>1, TroubleGrows, NamedTroubles DEF Inv
<1>3. had'.stalls # 0
  <2>1. ~OwnsIt(queue, w, hand[w].msg)
    BY <1>1 DEF Owns, OwnsIt, Held
  <2> QED
    BY <1>1, <1>2, <2>1, AtWork
<1>4. HandStep(w) /\ hand'[w].pc = "idle"
  BY <1>1, Rests DEF Inv
<1>5. EmbedStep(f)
  BY <1>1, AbandonStep
<1>6. IndexedStep(w, f)
  BY <1>3 DEF IndexedStep, Calm
<1> QED
  BY <1>1, <1>2, <1>3, <1>4, <1>5, <1>6, EmbedKeeps

-----------------------------------------------------------------------------
(***************************************************************************)
(* The steps of a worker that change the queue.                            *)
(***************************************************************************)

LEMMA QueueKeeps ==
  ASSUME Inv, NEW w \in Workers, Busy(w), Grows, HandStep(w), UNCHANGED <<file, upload>>,
         EmbedStep(File(w)), IndexedStep(w, File(w)), QueueStep(w, File(w)),
         had'.stalls = 0 /\ hand'[w].pc # "idle" => Undisturbed(w, hand'[w], file[File(w)]),
         had'.calls = 0 /\ hand'[w].pc # "idle" => Protected(w, hand'[w], file[File(w)]),
         had'.stalls = 0 => (Waits(queue', File(w)) => file[File(w)].status \in Fresh),
         had'.stalls = 0 \/ had'.calls = 0 =>
           \A m \in queue'.dead : m.file = File(w) => file[File(w)].status \in Finished,
         had'.stalls = 0 /\ file[File(w)].status \in Unfinished => Live(queue', File(w))
  PROVE  Inv'
<1> DEFINE f == File(w)
<1>1. f \in Files /\ Knows(f) /\ Stays(w, f)
  BY AtWork DEF Stays
<1>2. FileStep(f) /\ file'[f] = file[f]
  BY <1>1, RowsStay
<1>3. RowStep(w, f)
  BY <1>2 DEF RowStep, HandStep, FileStep, EmbedStep, File
<1>4. UndisturbedStep(w, f)
  BY <1>2, AtWork DEF UndisturbedStep
<1>5. ProtectedStep(w, f)
  BY <1>2, AtWork DEF ProtectedStep, ProtectedWrite
<1> QED
  BY <1>1, <1>3, <1>4, <1>5, WorkKeeps

\* No dead letter is that of a file with a message; without one the outcome is there.
LEMMA DeadOf ==
  ASSUME Inv, NEW w \in Workers, Busy(w), Grows
  PROVE  /\ had'.stalls = 0 \/ had'.calls = 0 =>
              \A m \in queue.dead : m.file = File(w) => file[File(w)].status \in Finished
         /\ had'.stalls = 0 => ~Waits(queue, File(w)) /\ Live(queue, File(w))
<1> DEFINE f == File(w)
<1>1. f \in Files
  BY AtWork
<1>2. Leased(queue, f) => ~Waits(queue, f) /\ Live(queue, f) /\ \A m \in queue.dead : m.file # f
  BY <1>1 DEF Inv, QueueIsSound, Sound, Live
<1>3. had'.stalls = 0 => Leased(queue, f)
  BY AtWork
<1>4. had'.calls = 0 => \A m \in queue.dead : m.file = f => file[f].status \in Finished
  BY NamedTroubles DEF Inv, Typed, Grows, OutcomesAreKept
<1> QED
  BY <1>2, <1>3, <1>4

LEMMA AfterVerifyIs ==
  ASSUME NEW w \in Workers, hand[w] \in Hand
  PROVE  \/ AfterVerify(w) = "idle"
         \/ AfterVerify(w) = "reset" /\ hand[w].out = "error" /\ hand[w].msg.retry < MaxRetries
         \/ AfterVerify(w) = "finalize" /\ hand[w].out = "error"
         \/ /\ AfterVerify(w) = "deadLetter" /\ hand[w].out = "skip"
            /\ file[hand[w].msg.file].status = "failed"
         \/ AfterVerify(w) = "settle" /\ hand[w].out \in {"skip", "done", "lost"}
<1>1. hand[w].out \in Outcomes
  BY DEF Hand
<1> QED
  BY <1>1 DEF AfterVerify, Outcomes

\* A worker whose call fails at the end of a message leaves no embedding behind.
LEMMA FailingRest ==
  ASSUME Inv, NEW w \in Workers, Busy(w), Grows, hand[w].pc # "embedding", hand'[w].pc = "idle",
         file'[File(w)] = file[File(w)], embed'[File(w)] = embed[File(w)],
         Calm' => ~Live(queue, File(w)) \/ Meets("calls")
  PROVE  IndexedStep(w, File(w))
<1> DEFINE f == File(w)
<1> SUFFICES ASSUME Calm', file[f].alive PROVE IndexedStep(w, f)
  BY DEF IndexedStep
<1>1. Calm /\ had'.stalls = 0
  BY CalmBefore DEF Inv
<1>2. Alone(w, f) /\ f \in Files /\ Live(queue, f) /\ (file[f].rag = "ready" => embed[f] = "ready")
  BY <1>1, AtWork DEF Live
<1>3. had.calls = 0
  BY <1>2, CalmBefore DEF Inv
<1>4. embed[f] # "processing"
  BY <1>1, <1>2, <1>3 DEF Inv, EmbeddingsAreKnown, Embeds, Left, Alone, Busy
<1> QED
  BY <1>2, <1>4 DEF IndexedStep

LEMMA VerifyKeeps ==
  ASSUME Inv, NEW w \in Workers, Verify(w)
  PROVE  Inv'
<1> DEFINE f == File(w)
<1>1. /\ Busy(w) /\ hand[w].pc = "verify" /\ UNCHANGED <<file, embed, upload>>
  BY DEF Verify, Busy
<1>2. Grows
  BY TroubleGrows, NamedTroubles DEF Verify, Inv
<1>3. hand[w] \in Hand /\ f \in Files /\ Knows(f)
  BY <1>1, <1>2, AtWork
<1>4. CASE Rest(w) /\ UNCHANGED queue /\ (Meets("calls") \/ ~Owns(queue, w, hand[w].msg))
  <2>1. HandStep(w) /\ hand'[w].pc = "idle"
    BY <1>4, Rests DEF Inv
  <2>2. Calm' => ~Live(queue, f) \/ Meets("calls")
    <3>1. Calm' => had'.stalls = 0
      BY DEF Calm
    <3>2. OwnsIt(queue, w, hand[w].msg) => Owns(queue, w, hand[w].msg)
      BY DEF Owns, OwnsIt, Held
    <3> QED
      BY <1>1, <1>2, <1>4, <3>1, <3>2, AtWork
  <2>3. FileStep(f) /\ EmbedStep(f) /\ file'[f] = file[f] /\ embed'[f] = embed[f]
    BY <1>1, <1>3, RowsStay
  <2>4. ProtectedWrite(w, f)
    BY <1>1, <1>2, <2>1, <2>3, AtWork DEF ProtectedWrite
  <2>5. IndexedStep(w, f)
    BY <1>1, <1>2, <1>3, <1>4, <2>1, <2>2, <2>3, FailingRest
  <2> QED
    BY <1>1, <1>2, <1>4, <2>1, <2>3, <2>4, <2>5, WriteKeeps
<1>5. CASE /\ queue' = Renew(queue, hand[w].msg)
           /\ IF AfterVerify(w) = "idle" THEN Rest(w) ELSE Go(w, AfterVerify(w))
  <2>1. /\ HandStep(w)
        /\ \/ hand'[w].pc = "idle"
           \/ hand'[w].pc = AfterVerify(w) /\ hand'[w].out = hand[w].out /\ hand'[w].msg = hand[w].msg
    <3>1. CASE AfterVerify(w) = "idle"
      BY <1>5, <3>1, Rests DEF Inv
    <3>2. CASE AfterVerify(w) # "idle"
      <4>1. /\ AfterVerify(w) \in Working \cup Concluding
            /\ AfterVerify(w) \in {"reset", "requeue"} => hand[w].msg.retry < MaxRetries
        BY <1>3, <3>2, AfterVerifyIs DEF Concluding
      <4> QED
        BY <1>1, <1>5, <3>2, <4>1, Goes DEF Inv
    <3> QED
      BY <3>1, <3>2
  <2>2. had'.stalls = 0 /\ hand'[w].pc # "idle" => Undisturbed(w, hand'[w], file[f])
    BY <1>1, <1>2, <1>3, <2>1, AfterVerifyIs, AtWork DEF Undisturbed, Stamped, Early, Closes, Finished, File
  <2>3. had'.calls = 0 /\ hand'[w].pc # "idle" => Protected(w, hand'[w], file[f])
    BY <1>1, <1>2, <1>3, <2>1, AfterVerifyIs, AtWork DEF Protected, Early, Finished, File
  <2>4. hand'[w].pc \notin {"embedding", "final"}
    BY <1>3, <2>1, AfterVerifyIs
  <2>5. GivesUp(hand[w]) => hand'[w].pc # "idle" /\ GivesUp(hand'[w])
    <3>1. GivesUp(hand[w]) => hand[w].out \in {"skip", "done", "lost"}
      BY <1>1 DEF GivesUp, Closes
    <3>2. hand[w].out \in {"skip", "done", "lost"} => AfterVerify(w) \in {"deadLetter", "settle"}
      BY DEF AfterVerify
    <3>3. AfterVerify(w) \in {"deadLetter", "settle"} => hand'[w].pc = AfterVerify(w)
      BY <1>1, <1>5, Goes DEF Inv, Concluding
    <3> QED
      BY <3>1, <3>2, <3>3 DEF GivesUp, Closes
  <2>6. EmbedStep(f) /\ IndexedStep(w, f)
    <3>1. EmbedStep(f) /\ embed'[f] = embed[f] /\ file'[f] = file[f]
      BY <1>1, <1>3, RowsStay
    <3> QED
      BY <1>1, <1>2, <2>4, <2>5, <3>1, IndexStays
  <2>7. /\ queue' \in Queue /\ Sound(queue') /\ queue'.dead = queue.dead
        /\ \A g : (Waits(queue', g) <=> Waits(queue, g)) /\ (Leased(queue', g) <=> Leased(queue, g))
        /\ \A v, m : OwnsIt(queue, v, m) => OwnsIt(queue', v, m)
    BY <1>5, RenewSound DEF Inv, Typed, QueueIsSound
  <2>8. QueueStep(w, f)
    <3>1. Spares(queue, queue', w, f)
      BY <2>7 DEF Spares
    <3>2. had'.stalls = 0 /\ hand'[w].pc # "idle" => OwnsIt(queue', w, hand'[w].msg)
      BY <1>1, <1>2, <2>1, <2>7, AtWork
    <3> QED
      BY <2>7, <3>1, <3>2 DEF QueueStep
  <2>9. Live(queue', f) <=> Live(queue, f)
    BY <2>7 DEF Live
  <2> QED
    BY <1>1, <1>2, <2>1, <2>2, <2>3, <2>6, <2>7, <2>8, <2>9, DeadOf, QueueKeeps
<1> QED
  BY <1>4, <1>5 DEF Verify

\* What a call to the queue leaves behind, when the worker still owns the message.
LEMMA QueueCallKeeps ==
  ASSUME Inv, NEW w \in Workers, Busy(w), hand[w].pc # "embedding", NEW after, QueueCall(w, after),
         Owns(queue, w, hand[w].msg) =>
           /\ after \in Queue /\ Sound(after) /\ Spares(queue, after, w, File(w))
           /\ had.stalls = 0 /\ Waits(after, File(w)) => file[File(w)].status \in Fresh
           /\ (had.stalls = 0 \/ had.calls = 0) /\ (\E m \in after.dead : m.file = File(w))
                => file[File(w)].status \in Finished
           /\ had.stalls = 0 /\ file[File(w)].status \in Unfinished => Live(after, File(w))
           /\ GivesUp(hand[w]) => ~Live(after, File(w))
  PROVE  Inv'
<1> DEFINE f == File(w)
<1>1. /\ Rest(w) /\ UNCHANGED <<file, embed, upload>>
      /\ \/ UNCHANGED had /\ Owns(queue, w, hand[w].msg) /\ queue' = after
         \/ UNCHANGED queue /\ (Meets("calls") \/ (UNCHANGED had /\ ~Owns(queue, w, hand[w].msg)))
  BY DEF QueueCall
<1>2. Grows
  BY <1>1, TroubleGrows, NamedTroubles DEF Inv
<1>3. HandStep(w) /\ hand'[w].pc = "idle"
  BY <1>1, Rests DEF Inv
<1>4. CASE UNCHANGED queue /\ (Meets("calls") \/ ~Owns(queue, w, hand[w].msg))
  <2>1. f \in Files /\ Knows(f)
    BY <1>2, AtWork
  <2>2. Calm' => Meets("calls")
    <3>1. Calm' => had'.stalls = 0
      BY DEF Calm
    <3>2. OwnsIt(queue, w, hand[w].msg) => Owns(queue, w, hand[w].msg)
      BY DEF Owns, OwnsIt, Held
    <3> QED
      BY <1>2, <1>4, <3>1, <3>2, AtWork
  <2>3. FileStep(f) /\ EmbedStep(f) /\ file'[f] = file[f] /\ embed'[f] = embed[f]
    BY <1>1, <2>1, RowsStay
  <2>4. ProtectedWrite(w, f)
    BY <1>2, <1>3, <2>3, AtWork DEF ProtectedWrite
  <2>5. IndexedStep(w, f)
    BY <1>2, <1>3, <2>2, <2>3, FailingRest
  <2> QED
    BY <1>1, <1>2, <1>3, <1>4, <2>3, <2>4, <2>5, WriteKeeps
<1>5. CASE UNCHANGED had /\ Owns(queue, w, hand[w].msg) /\ queue' = after
  <2>1. f \in Files /\ Knows(f)
    BY <1>2, AtWork
  <2>2. EmbedStep(f) /\ IndexedStep(w, f)
    <3>1. EmbedStep(f) /\ embed'[f] = embed[f] /\ file'[f] = file[f]
      BY <1>1, <2>1, RowsStay
    <3> QED
      BY <1>2, <1>3, <1>5, <3>1, IndexStays
  <2>3. QueueStep(w, f)
    BY <1>3, <1>5 DEF QueueStep
  <2> QED
    BY <1>1, <1>2, <1>3, <1>5, <2>2, <2>3, QueueKeeps
<1> QED
  BY <1>1, <1>4, <1>5

LEMMA RequeueMessageKeeps ==
  ASSUME Inv, NEW w \in Workers, RequeueMessage(w)
  PROVE  Inv'
<1> DEFINE f == File(w)
           msg == hand[w].msg
           next == Message(msg.file, msg.retry + 1)
           after == Requeue(queue, msg, next)
<1>1. Busy(w) /\ hand[w].pc = "requeue" /\ QueueCall(w, after)
  BY DEF RequeueMessage, Busy
<1>2. /\ msg \in Msg /\ msg.retry < MaxRetries /\ f \in Files /\ msg.file = f
      /\ queue \in Queue /\ Sound(queue)
  <2>1. hand[w] \in Hand
    BY DEF Inv, Typed
  <2> QED
    BY <1>1, <2>1, BusyWorker DEF Hand, Inv, Typed, QueueIsSound, File
<1>3. next \in Msg /\ next.file = msg.file /\ ~next.reclaimed
  <2>1. msg.retry \in 0 .. MaxRetries /\ msg.retry + 1 \in 0 .. MaxRetries
    BY <1>2, FileAssumption DEF Msg
  <2> QED
    BY <1>2, <2>1 DEF Message, Msg
<1> HIDE DEF next, msg
<1>4. ASSUME Owns(queue, w, msg)
      PROVE  after \in Queue /\ Sound(after) /\ Waits(after, f) /\ Spares(queue, after, w, f)
             /\ after.dead = queue.dead
  BY <1>2, <1>3, <1>4, RequeueSound
<1>5. had.stalls = 0 => file[f].status \in Fresh
  BY <1>1 DEF Inv, RowsAreKnown, Undisturbed
<1>6. (had.stalls = 0 \/ had.calls = 0) /\ (\E m \in queue.dead : m.file = f) => file[f].status \in Finished
  BY DEF Inv, RowsAreKnown, OutcomesAreKept
<1>7. ~GivesUp(hand[w])
  BY <1>1 DEF GivesUp, Closes
<1> HIDE DEF after
<1> QED
  BY <1>1, <1>4, <1>5, <1>6, <1>7, QueueCallKeeps DEF Live, msg

LEMMA SettleMessageKeeps ==
  ASSUME Inv, NEW w \in Workers, SettleMessage(w)
  PROVE  Inv'
<1> DEFINE f == File(w)
           msg == hand[w].msg
           after == Settle(queue, msg)
<1>1. Busy(w) /\ hand[w].pc = "settle" /\ QueueCall(w, after)
  BY DEF SettleMessage, Busy
<1>2. msg \in Msg /\ f \in Files /\ msg.file = f /\ queue \in Queue /\ Sound(queue)
  BY <1>1, BusyWorker DEF Inv, Typed, QueueIsSound, File
<1>3. ASSUME Owns(queue, w, msg)
      PROVE  after \in Queue /\ Sound(after) /\ ~Live(after, f) /\ Spares(queue, after, w, f)
             /\ after.dead = queue.dead
  BY <1>2, <1>3, SettleSound DEF Spares
<1>4. had.stalls = 0 => file[f].status \in Finished
  BY <1>1 DEF Inv, RowsAreKnown, Undisturbed, Closes
<1>5. (had.stalls = 0 \/ had.calls = 0) /\ (\E m \in queue.dead : m.file = f) => file[f].status \in Finished
  BY DEF Inv, RowsAreKnown, OutcomesAreKept
<1> HIDE DEF after
<1> QED
  BY <1>1, <1>3, <1>4, <1>5, QueueCallKeeps DEF Live, Unfinished, Finished

LEMMA DeadLetterMessageKeeps ==
  ASSUME Inv, NEW w \in Workers, DeadLetterMessage(w)
  PROVE  Inv'
<1> DEFINE f == File(w)
           msg == hand[w].msg
           after == DeadLetter(queue, msg)
<1>1. Busy(w) /\ hand[w].pc = "deadLetter" /\ QueueCall(w, after)
  BY DEF DeadLetterMessage, Busy
<1>2. msg \in Msg /\ f \in Files /\ msg.file = f /\ queue \in Queue /\ Sound(queue)
  BY <1>1, BusyWorker DEF Inv, Typed, QueueIsSound, File
<1>3. ASSUME Owns(queue, w, msg)
      PROVE  after \in Queue /\ Sound(after) /\ ~Live(after, f) /\ Spares(queue, after, w, f)
  BY <1>2, <1>3, DeadLetterSound
<1>4. had.stalls = 0 \/ had.calls = 0 => file[f].status \in Finished
  BY <1>1 DEF Inv, RowsAreKnown, Undisturbed, Closes, OutcomesAreKept, Protected
<1> HIDE DEF after
<1> QED
  BY <1>1, <1>3, <1>4, QueueCallKeeps DEF Live, Unfinished, Finished

LEMMA CrashKeeps ==
  ASSUME Inv, NEW w \in Workers, Crash(w)
  PROVE  Inv'
<1> DEFINE f == File(w)
<1>1. /\ Busy(w) /\ UNCHANGED <<file, upload>> /\ queue' = Orphan(queue, w) /\ Rest(w)
      /\ Abandon(w)
  BY DEF Crash, Busy
<1>2. Grows /\ had'.crashes # 0
  BY TroubleGrows, NamedTroubles DEF Crash, Inv
<1>3. HandStep(w) /\ hand'[w].pc = "idle"
  BY <1>1, Rests DEF Inv
<1>4. f \in Files /\ Knows(f)
  BY <1>1, <1>2, AtWork
<1>5. EmbedStep(f) /\ IndexedStep(w, f)
  <2>1. EmbedStep(f)
    BY <1>1, AbandonStep
  <2> QED
    BY <1>2, <2>1 DEF IndexedStep, Calm
<1>6. /\ queue' \in Queue /\ Sound(queue') /\ queue'.dead = queue.dead
      /\ \A g : (Waits(queue', g) <=> Waits(queue, g)) /\ (Leased(queue', g) <=> Leased(queue, g))
      /\ \A v, m : v # w /\ OwnsIt(queue, v, m) => OwnsIt(queue', v, m)
  BY <1>1, OrphanSound DEF Inv, Typed, QueueIsSound
<1>7. QueueStep(w, f)
  BY <1>3, <1>6 DEF QueueStep, Spares
<1>8. Live(queue', f) <=> Live(queue, f)
  BY <1>6 DEF Live
<1> QED
  BY <1>1, <1>2, <1>3, <1>5, <1>6, <1>7, <1>8, DeadOf, QueueKeeps

\* An idle worker begins with a message of a file that nobody works at.
LEMMA StartKeeps ==
  ASSUME Inv, NEW w \in Workers, ~Busy(w), NEW msg \in Msg, Start(w, msg), Live(queue, msg.file),
         UNCHANGED <<file, embed, upload, had>>,
         queue' \in Queue, Sound(queue'), Spares(queue, queue', w, msg.file), OwnsIt(queue', w, msg),
         queue'.dead = queue.dead, had.stalls = 0 => Alone(w, msg.file),
         had.stalls = 0 /\ ~msg.reclaimed => file[msg.file].status \in Fresh
  PROVE  Inv'
<1> DEFINE f == msg.file
<1>1. f \in Files
  BY DEF Msg
<1>2. Grows
  BY TroubleGrows, NamedTroubles DEF Inv
<1>3. Knows(f) /\ Stays(w, f)
  BY DEF Knows, Stays
<1>4. /\ hand' = [hand EXCEPT ![w] = hand'[w]] /\ hand'[w] \in Hand
      /\ hand'[w].pc = "read" /\ hand'[w].msg = msg /\ hand'[w].out = "skip"
  BY DEF Start, Inv, Typed, Hand, Working, Outcomes
<1>5. FileStep(f) /\ EmbedStep(f) /\ file'[f] = file[f] /\ embed'[f] = embed[f]
  BY <1>1, <1>3, RowsStay
<1>6. RowStep(w, f)
  BY <1>4, <1>5 DEF RowStep, FileStep, EmbedStep
<1>7. QueueStep(w, f)
  BY <1>4 DEF QueueStep
<1>8. Leased(queue', f) /\ ~Waits(queue', f) /\ Live(queue', f)
  BY <1>1 DEF OwnsIt, Leased, Sound, Live
<1>9. \A m \in queue'.dead : m.file # f
  BY <1>8 DEF Sound
<1>10. UndisturbedStep(w, f)
  BY <1>4, <1>5, <1>8, <1>9 DEF UndisturbedStep, Undisturbed, Stamped, Early, Closes
<1>11. ProtectedStep(w, f)
  BY <1>1, <1>4, <1>5, <1>9 DEF ProtectedStep, ProtectedWrite, Protected, Early, Inv, OutcomesAreKept
<1>12. IndexedStep(w, f)
  <2> SUFFICES ASSUME Calm', file[f].alive PROVE IndexedStep(w, f)
    BY <1>5 DEF IndexedStep
  <2>1. Calm /\ Alone(w, f)
    BY <1>2, CalmBefore DEF Inv, Calm
  <2>2. embed[f] # "processing"
    BY <1>1, <2>1 DEF Inv, EmbeddingsAreKnown, Embeds, Left, Alone, Busy
  <2>3. file[f].rag = "ready" => embed[f] = "ready"
    BY <1>1, <2>1 DEF Inv, EmbeddingsAreKnown
  <2> QED
    BY <1>4, <1>5, <2>2, <2>3 DEF IndexedStep, Indexed
<1> QED
  BY <1>1, <1>2, <1>3, <1>6, <1>7, <1>10, <1>11, <1>12, WorkKeeps

LEMMA ReadMessageKeeps ==
  ASSUME Inv, NEW w \in Workers, ReadMessage(w)
  PROVE  Inv'
<1> DEFINE msg == Head(queue.waiting)
<1>1. /\ ~Busy(w) /\ queue.waiting # <<>> /\ queue' = Read(queue, w) /\ Start(w, msg)
      /\ UNCHANGED <<file, embed, upload, had>>
  BY DEF ReadMessage, Busy
<1>2. /\ msg \in Msg /\ ~msg.reclaimed /\ Waits(queue, msg.file)
      /\ queue' \in Queue /\ Sound(queue') /\ OwnsIt(queue', w, msg)
      /\ Spares(queue, queue', w, msg.file) /\ queue'.dead = queue.dead
  BY <1>1, ReadSound DEF Inv, Typed, QueueIsSound
<1> HIDE DEF msg
<1>3. msg.file \in Files
  BY <1>2 DEF Msg
<1>4. had.stalls = 0 => Alone(w, msg.file)
  <2>1. ~Leased(queue, msg.file)
    BY <1>2, <1>3 DEF Inv, QueueIsSound, Sound
  <2> QED
    BY <2>1 DEF Inv, WorkIsOwned, OwnsIt, Leased, Alone, File
<1>5. had.stalls = 0 => file[msg.file].status \in Fresh
  BY <1>2, <1>3 DEF Inv, RowsAreKnown
<1> QED
  BY <1>1, <1>2, <1>4, <1>5, StartKeeps DEF Live

LEMMA ClaimTimedOutKeeps ==
  ASSUME Inv, NEW w \in Workers, ClaimTimedOut(w)
  PROVE  Inv'
<1>1. ~Busy(w) /\ UNCHANGED <<file, embed, upload, had>>
  BY DEF ClaimTimedOut, Busy
<1>2. PICK l \in queue.leased : l.idle /\ queue' = Claim(queue, l, w) /\ Start(w, Passed(l, w).msg)
  BY DEF ClaimTimedOut
<1> DEFINE msg == Passed(l, w).msg
<1>3. /\ msg \in Msg /\ msg.file = l.msg.file /\ msg.reclaimed
      /\ queue' \in Queue /\ Sound(queue') /\ OwnsIt(queue', w, msg)
      /\ Spares(queue, queue', w, msg.file) /\ queue'.dead = queue.dead
  BY <1>2, ClaimSound DEF Inv, Typed, QueueIsSound
<1>4. Start(w, msg)
  BY <1>2
<1> HIDE DEF msg
<1>5. Live(queue, msg.file)
  BY <1>3 DEF Live, Leased
<1>6. had.stalls = 0 => Alone(w, msg.file)
  <2>1. ASSUME had.stalls = 0, NEW v \in Workers, Busy(v), File(v) = msg.file PROVE FALSE
    <3>1. PICK k \in queue.leased : k.msg = hand[v].msg /\ ~k.idle
      BY <2>1 DEF Inv, WorkIsOwned, OwnsIt
    <3>2. k = l
      BY <1>3, <2>1, <3>1 DEF Inv, QueueIsSound, Sound, File
    <3> QED
      BY <1>2, <3>1, <3>2
  <2> QED
    BY <2>1 DEF Alone
<1> QED
  BY <1>1, <1>3, <1>4, <1>5, <1>6, StartKeeps

-----------------------------------------------------------------------------
(***************************************************************************)
(* The steps of uploads and of users, and leases that run out.             *)
(***************************************************************************)

\* What the step of an upload or of a user on a file f has to see to.
RowAgrees(f) ==
  had'.stalls = 0 =>
    /\ \A w \in Workers : Busy(w) /\ File(w) = f => Undisturbed(w, hand[w], file'[f])
    /\ Waits(queue', f) => file'[f].status \in Fresh
    /\ \A m \in queue.dead : m.file = f => file'[f].status \in Finished
    /\ had'.uploads = 0 /\ upload'[f] = "done" /\ file'[f].status \in Unfinished => Live(queue', f)

OutcomeAgrees(f) ==
  had'.calls = 0 =>
    /\ \A w \in Workers : Busy(w) /\ File(w) = f => Protected(w, hand[w], file'[f])
    /\ file'[f].status \in Finished /\ file'[f].attempt # NoAttempt => file'[f].status = "ready"
    /\ upload'[f] # "refused"
    /\ \A m \in queue.dead : m.file = f => file'[f].status \in Finished

IndexAgrees(f) ==
  Calm' /\ file'[f].alive =>
    /\ embed'[f] = "processing" => Embeds(f) \/ (Left(f) /\ UNCHANGED queue)
    /\ \A w \in Workers : Busy(w) /\ File(w) = f => Indexed(w, hand[w], file'[f], embed'[f])
    /\ file'[f].rag = "ready" => embed'[f] = "ready"

LEMMA UserKeeps ==
  ASSUME Inv, NEW f \in Files, UNCHANGED hand, Grows,
         queue' \in Queue, Sound(queue'), queue'.leased = queue.leased, queue'.dead = queue.dead,
         \A g \in Files \ {f} : Waits(queue', g) <=> Waits(queue, g),
         file' = [file EXCEPT ![f] = file'[f]], file'[f] \in Row,
         embed' = [embed EXCEPT ![f] = embed'[f]], embed'[f] \in EmbedStatuses,
         upload' = [upload EXCEPT ![f] = upload'[f]], upload'[f] \in {"new", "marked", "refused", "done"},
         upload'[f] = "new" => file'[f].status = "uploaded",
         upload'[f] = "marked" => file'[f].status = "queued",
         upload[f] \notin {"new", "marked"} => upload'[f] \notin {"new", "marked"},
         file'[f].status = "uploaded" \/ upload'[f] = "marked" => ~Knows(f) /\ ~Waits(queue', f),
         RowAgrees(f), OutcomeAgrees(f), IndexAgrees(f)
  PROVE  Inv'
<1>1. Typed'
  BY DEF Inv, Typed, Grows
<1>2. \A g \in Files \ {f} : file'[g] = file[g] /\ embed'[g] = embed[g] /\ upload'[g] = upload[g]
  BY DEF Inv, Typed
<1>3. \A g : Leased(queue', g) <=> Leased(queue, g)
  BY DEF Leased
<1>4. \A w : (Busy(w)' <=> Busy(w)) /\ File(w)' = File(w) /\ hand'[w] = hand[w]
  BY DEF Busy, File
<1>5. \A k \in Kinds : had'[k] = 0 => had[k] = 0
  BY DEF Inv, Typed, Grows
<1>6. UploadsAreNews'
  <2>1. ASSUME NEW g \in Files \ {f} PROVE Knows(g)' => Knows(g)
    BY <1>3, <1>4 DEF Knows, Live
  <2>2. Knows(f)' => Knows(f) \/ Waits(queue', f)
    BY <1>3, <1>4 DEF Knows, Live
  <2>3. ASSUME NEW g \in Files
        PROVE  /\ upload'[g] = "new" => file'[g].status = "uploaded"
               /\ upload'[g] = "marked" => file'[g].status = "queued"
               /\ file'[g].status = "uploaded" \/ upload'[g] = "marked" => ~Knows(g)'
    <3>1. CASE g = f
      BY <2>2, <3>1
    <3>2. CASE g # f
      BY <1>2, <2>1, <3>2 DEF Inv, UploadsAreNews
    <3> QED
      BY <3>1, <3>2
  <2> QED
    BY <2>3 DEF UploadsAreNews
<1>7. WorkIsOwned'
  BY <1>4, <1>5, NamedTroubles DEF Inv, WorkIsOwned, OwnsIt
<1>8. ASSUME NEW w \in Workers, Busy(w) PROVE File(w) \in Files
  BY <1>8, BusyWorker
<1>9. ASSUME NEW m \in queue.dead PROVE m.file \in Files
  <2>1. m \in Msg
    BY <1>9, QueueTypes DEF Inv, Typed
  <2> QED
    BY <2>1 DEF Msg
<1>10. RowsAreKnown'
  <2> SUFFICES ASSUME had'.stalls = 0 PROVE RowsAreKnown'
    BY DEF RowsAreKnown
  <2>1. had.stalls = 0 /\ (had'.uploads = 0 => had.uploads = 0)
    BY <1>5, NamedTroubles
  <2>2. ASSUME NEW w \in Workers, Busy(w)' PROVE Undisturbed(w, hand'[w], file'[File(w)'])
    BY <1>2, <1>4, <1>8, <2>1, <2>2 DEF Inv, RowsAreKnown, RowAgrees
  <2>3. \A g \in Files : Waits(queue', g) => file'[g].status \in Fresh
    BY <1>2, <2>1 DEF Inv, RowsAreKnown, RowAgrees
  <2>4. \A m \in queue'.dead : file'[m.file].status \in Finished
    BY <1>2, <1>9, <2>1 DEF Inv, RowsAreKnown, RowAgrees
  <2>5. ASSUME had'.uploads = 0, NEW g \in Files, upload'[g] = "done", file'[g].status \in Unfinished
        PROVE  Live(queue', g)
    BY <1>2, <1>3, <2>1, <2>5 DEF Inv, RowsAreKnown, RowAgrees, Live
  <2> QED
    BY <2>2, <2>3, <2>4, <2>5 DEF RowsAreKnown
<1>11. OutcomesAreKept'
  <2> SUFFICES ASSUME had'.calls = 0 PROVE OutcomesAreKept'
    BY DEF OutcomesAreKept
  <2>1. had.calls = 0
    BY <1>5, NamedTroubles
  <2>2. ASSUME NEW w \in Workers, Busy(w)' PROVE Protected(w, hand'[w], file'[File(w)'])
    BY <1>2, <1>4, <1>8, <2>1, <2>2 DEF Inv, OutcomesAreKept, OutcomeAgrees
  <2>3. /\ \A g \in Files : file'[g].status \in Finished /\ file'[g].attempt # NoAttempt
                              => file'[g].status = "ready"
        /\ \A g \in Files : upload'[g] # "refused"
    BY <1>2, <2>1 DEF Inv, OutcomesAreKept, OutcomeAgrees
  <2>4. \A m \in queue'.dead : file'[m.file].status \in Finished
    BY <1>2, <1>9, <2>1 DEF Inv, OutcomesAreKept, OutcomeAgrees
  <2> QED
    BY <2>2, <2>3, <2>4 DEF OutcomesAreKept
<1>12. EmbeddingsAreKnown'
  <2> SUFFICES ASSUME Calm' PROVE EmbeddingsAreKnown'
    BY DEF EmbeddingsAreKnown
  <2>1. Calm /\ (had.calls > 0 => had'.calls > 0)
    BY CalmBefore DEF Inv
  <2>2. \A g \in Files : Embeds(g)' <=> Embeds(g)
    BY <1>4 DEF Embeds
  <2>3. ASSUME NEW g \in Files, file'[g].alive, embed'[g] = "processing" PROVE Embeds(g)' \/ Left(g)'
    <3>1. CASE g = f
      <4>1. Embeds(f) \/ (Left(f) /\ UNCHANGED queue)
        BY <2>3, <3>1 DEF IndexAgrees
      <4>2. CASE Left(f) /\ UNCHANGED queue
        BY <1>4, <2>1, <3>1, <4>2 DEF Left, Live, Waits, Leased
      <4> QED
        BY <2>2, <3>1, <4>1, <4>2
    <3>2. CASE g # f
      <4>1. Embeds(g) \/ Left(g)
        BY <1>2, <2>1, <2>3, <3>2 DEF Inv, EmbeddingsAreKnown
      <4>2. Live(queue', g) <=> Live(queue, g)
        BY <1>3, <3>2 DEF Live
      <4> QED
        BY <1>2, <1>4, <2>1, <2>2, <3>2, <4>1, <4>2 DEF Left
    <3> QED
      BY <3>1, <3>2
  <2>4. ASSUME NEW w \in Workers, Busy(w)', file'[File(w)'].alive
        PROVE  Indexed(w, hand'[w], file'[File(w)'], embed'[File(w)'])
    BY <1>2, <1>4, <1>8, <2>1, <2>4 DEF Inv, EmbeddingsAreKnown, IndexAgrees
  <2>5. \A g \in Files : file'[g].alive /\ file'[g].rag = "ready" => embed'[g] = "ready"
    BY <1>2, <2>1 DEF Inv, EmbeddingsAreKnown, IndexAgrees
  <2> QED
    BY <2>3, <2>4, <2>5 DEF EmbeddingsAreKnown
<1> QED
  BY <1>1, <1>6, <1>7, <1>10, <1>11, <1>12 DEF Inv, QueueIsSound

\* What holds of a file, whoever looks.
LEMMA RowOf ==
  ASSUME Inv, NEW f \in Files, Grows
  PROVE  /\ file[f] \in Row /\ file = [file EXCEPT ![f] = file[f]]
         /\ embed[f] \in EmbedStatuses /\ embed = [embed EXCEPT ![f] = embed[f]]
         /\ queue \in Queue /\ Sound(queue)
         /\ had'.stalls = 0 =>
              /\ \A w \in Workers : Busy(w) /\ File(w) = f => Undisturbed(w, hand[w], file[f])
              /\ Waits(queue, f) => file[f].status \in Fresh
              /\ \A m \in queue.dead : m.file = f => file[f].status \in Finished
         /\ had'.calls = 0 =>
              /\ \A w \in Workers : Busy(w) /\ File(w) = f => Protected(w, hand[w], file[f])
              /\ file[f].status \in Finished /\ file[f].attempt # NoAttempt => file[f].status = "ready"
              /\ upload[f] # "refused"
              /\ \A m \in queue.dead : m.file = f => file[f].status \in Finished
         /\ Calm' /\ file[f].alive =>
              /\ embed[f] = "processing" => Embeds(f) \/ Left(f)
              /\ \A w \in Workers : Busy(w) /\ File(w) = f => Indexed(w, hand[w], file[f], embed[f])
              /\ file[f].rag = "ready" => embed[f] = "ready"
<1>1. had \in [Kinds -> Nat] /\ had' \in [Kinds -> Nat] /\ \A k \in Kinds : had'[k] >= had[k]
  BY DEF Inv, Typed, Grows
<1>2. /\ had'.stalls = 0 => had.stalls = 0
      /\ had'.calls = 0 => had.calls = 0
  BY <1>1, NamedTroubles
<1>3. /\ file[f] \in Row /\ file = [file EXCEPT ![f] = file[f]]
      /\ embed[f] \in EmbedStatuses /\ embed = [embed EXCEPT ![f] = embed[f]]
      /\ queue \in Queue /\ Sound(queue)
  BY DEF Inv, Typed, QueueIsSound
<1>4. had'.stalls = 0 =>
        /\ \A w \in Workers : Busy(w) /\ File(w) = f => Undisturbed(w, hand[w], file[f])
        /\ Waits(queue, f) => file[f].status \in Fresh
        /\ \A m \in queue.dead : m.file = f => file[f].status \in Finished
  BY <1>2 DEF Inv, RowsAreKnown
<1>5. had'.calls = 0 =>
        /\ \A w \in Workers : Busy(w) /\ File(w) = f => Protected(w, hand[w], file[f])
        /\ file[f].status \in Finished /\ file[f].attempt # NoAttempt => file[f].status = "ready"
        /\ upload[f] # "refused"
        /\ \A m \in queue.dead : m.file = f => file[f].status \in Finished
  BY <1>2 DEF Inv, OutcomesAreKept
<1>6. Calm' /\ file[f].alive =>
        /\ embed[f] = "processing" => Embeds(f) \/ Left(f)
        /\ \A w \in Workers : Busy(w) /\ File(w) = f => Indexed(w, hand[w], file[f], embed[f])
        /\ file[f].rag = "ready" => embed[f] = "ready"
  BY CalmBefore DEF Inv, EmbeddingsAreKnown
<1> QED
  BY <1>3, <1>4, <1>5, <1>6

LEMMA UploadMoves ==
  ASSUME Typed, NEW f \in Files, NEW to \in {"marked", "refused", "done"},
         upload' = [upload EXCEPT ![f] = to]
  PROVE  upload' = [upload EXCEPT ![f] = upload'[f]] /\ upload'[f] = to
BY DEF Typed

LEMMA MarkQueuedKeeps ==
  ASSUME Inv, NEW f \in Files, MarkQueued(f)
  PROVE  Inv'
<1>1. upload[f] = "new" /\ UNCHANGED <<embed, queue, hand>>
  BY DEF MarkQueued
<1>2. Grows /\ (UNCHANGED had \/ had'.calls # 0)
  BY TroubleGrows, NamedTroubles DEF MarkQueued, Inv
<1>3. file[f].status = "uploaded" /\ ~Knows(f)
  BY <1>1 DEF Inv, UploadsAreNews
<1>4. /\ ~Waits(queue, f) /\ \A m \in queue.dead : m.file # f
      /\ \A w \in Workers : ~(Busy(w) /\ File(w) = f)
  BY <1>3 DEF Knows, Live
<1>5. CASE Write(f, "queued", file[f].attempt, "none") /\ upload' = [upload EXCEPT ![f] = "marked"]
  <2>1. FileStep(f) /\ file'[f].status = "queued" /\ file'[f].rag = "none"
    BY <1>2, <1>5, Writes, RowOf DEF Inv, Row, Statuses
  <2>2. upload' = [upload EXCEPT ![f] = upload'[f]] /\ upload'[f] = "marked"
    BY <1>5, UploadMoves DEF Inv
  <2>3. RowAgrees(f) /\ OutcomeAgrees(f)
    BY <1>1, <1>4, <2>1, <2>2 DEF RowAgrees, OutcomeAgrees, Finished
  <2>4. IndexAgrees(f)
    BY <1>1, <1>2, <1>4, <2>1, RowOf DEF IndexAgrees, FileStep
  <2> QED
    BY <1>1, <1>2, <1>3, <1>4, <2>1, <2>2, <2>3, <2>4, RowOf, UserKeeps DEF FileStep
<1>6. CASE UNCHANGED file /\ upload' = [upload EXCEPT ![f] = "done"]
  <2>1. upload' = [upload EXCEPT ![f] = upload'[f]] /\ upload'[f] = "done"
    BY <1>6, UploadMoves DEF Inv
  <2>2. RowAgrees(f) /\ OutcomeAgrees(f)
    BY <1>1, <1>3, <1>4, <1>6, <2>1 DEF RowAgrees, OutcomeAgrees, Finished, Unfinished
  <2>3. IndexAgrees(f)
    BY <1>1, <1>2, <1>4, <1>6, RowOf DEF IndexAgrees
  <2> QED
    BY <1>1, <1>2, <1>3, <1>4, <1>6, <2>1, <2>2, <2>3, RowOf, UserKeeps
<1> QED
  BY <1>5, <1>6 DEF MarkQueued

LEMMA EnqueueFileKeeps ==
  ASSUME Inv, NEW f \in Files, EnqueueFile(f)
  PROVE  Inv'
<1> DEFINE msg == Message(f, 0)
<1>1. upload[f] = "marked" /\ UNCHANGED <<file, embed, hand>>
  BY DEF EnqueueFile
<1>2. Grows /\ (Meets("calls") => had'.calls # 0)
  BY TroubleGrows, NamedTroubles DEF EnqueueFile, Inv
<1>3. file[f].status = "queued" /\ ~Knows(f)
  BY <1>1 DEF Inv, UploadsAreNews
<1>4. /\ ~Live(queue, f) /\ ~Waits(queue, f) /\ \A m \in queue.dead : m.file # f
      /\ \A w \in Workers : ~(Busy(w) /\ File(w) = f)
  BY <1>3 DEF Knows, Live
<1>5. msg \in Msg /\ msg.file = f /\ ~msg.reclaimed
  BY FileAssumption DEF Message, Msg
<1> HIDE DEF msg
<1>6. /\ Enqueue(queue, msg) \in Queue /\ Sound(Enqueue(queue, msg)) /\ Waits(Enqueue(queue, msg), f)
      /\ Enqueue(queue, msg).leased = queue.leased /\ Enqueue(queue, msg).dead = queue.dead
      /\ \A g \in Files \ {f} : Waits(Enqueue(queue, msg), g) <=> Waits(queue, g)
  BY <1>2, <1>4, <1>5, RowOf, EnqueueSound
<1>7. \/ queue' = Enqueue(queue, msg) /\ upload' = [upload EXCEPT ![f] = "done"]
      \/ /\ queue' = queue \/ queue' = Enqueue(queue, msg)
         /\ upload' = [upload EXCEPT ![f] = "refused"] /\ had'.calls # 0
  BY <1>2 DEF EnqueueFile, msg
<1>8. /\ upload' = [upload EXCEPT ![f] = upload'[f]]
      /\ \/ upload'[f] = "done" /\ Live(queue', f)
         \/ upload'[f] = "refused" /\ had'.calls # 0
  BY <1>6, <1>7, UploadMoves DEF Inv, Live
<1>9. /\ queue' \in Queue /\ Sound(queue') /\ queue'.leased = queue.leased /\ queue'.dead = queue.dead
      /\ \A g \in Files \ {f} : Waits(queue', g) <=> Waits(queue, g)
  BY <1>2, <1>6, <1>7, RowOf
<1>10. RowAgrees(f) /\ OutcomeAgrees(f)
  BY <1>1, <1>3, <1>4, <1>8 DEF RowAgrees, OutcomeAgrees, Finished, Fresh
<1>11. IndexAgrees(f)
  <2>1. ~Left(f)
    BY <1>1 DEF Left
  <2> QED
    BY <1>1, <1>2, <1>4, <2>1, RowOf DEF IndexAgrees
<1> QED
  BY <1>1, <1>2, <1>3, <1>8, <1>9, <1>10, <1>11, RowOf, UserKeeps

LEMMA RefuseFileKeeps ==
  ASSUME Inv, NEW f \in Files, RefuseFile(f)
  PROVE  Inv'
<1>1. /\ upload[f] = "refused" /\ UNCHANGED <<embed, queue, hand, had>>
      /\ Write(f, "failed", file[f].attempt, "none")
  BY DEF RefuseFile
<1>2. Grows
  BY <1>1, TroubleGrows, NamedTroubles DEF Inv
<1>3. FileStep(f) /\ file'[f].status = "failed" /\ file'[f].rag = "none" /\ file'[f].attempt = file[f].attempt
  BY <1>1, <1>2, Writes, RowOf DEF Inv, Row, Statuses
<1>4. upload' = [upload EXCEPT ![f] = upload'[f]] /\ upload'[f] = "done"
  BY UploadMoves DEF Inv, RefuseFile
<1>5. RowAgrees(f)
  BY <1>1, <1>2, <1>3, <1>4, RowOf DEF RowAgrees, Undisturbed, Fresh, Finished, Unfinished
<1>6. OutcomeAgrees(f)
  BY <1>1, <1>2, RowOf DEF OutcomeAgrees
<1>7. IndexAgrees(f)
  <2>1. Calm' /\ file[f].alive => /\ embed[f] = "processing" => Embeds(f) \/ Left(f)
                                  /\ \A w \in Workers : Busy(w) /\ File(w) = f
                                                    => Indexed(w, hand[w], file[f], embed[f])
    BY <1>2, RowOf
  <2>2. file'[f].alive = file[f].alive
    BY <1>3 DEF FileStep
  <2> QED
    BY <1>1, <1>3, <2>1, <2>2 DEF IndexAgrees, Indexed
<1> QED
  BY <1>1, <1>2, <1>3, <1>4, <1>5, <1>6, <1>7, RowOf, UserKeeps DEF FileStep

LEMMA UploadCrashKeeps ==
  ASSUME Inv, NEW f \in Files, UploadCrash(f)
  PROVE  Inv'
<1>1. UNCHANGED <<file, embed, queue, hand>> /\ upload[f] \in {"marked", "refused"}
  BY DEF UploadCrash
<1>2. Grows /\ had'.uploads # 0
  BY TroubleGrows, NamedTroubles DEF UploadCrash, Inv
<1>3. upload' = [upload EXCEPT ![f] = upload'[f]] /\ upload'[f] = "done"
  BY UploadMoves DEF Inv, UploadCrash
<1>4. file[f].status = "uploaded" => ~Knows(f) /\ ~Waits(queue, f)
  BY DEF Inv, UploadsAreNews, Knows, Live
<1>5. RowAgrees(f) /\ OutcomeAgrees(f)
  BY <1>1, <1>2, <1>3, RowOf DEF RowAgrees, OutcomeAgrees
<1>6. IndexAgrees(f)
  BY <1>1, <1>2, RowOf DEF IndexAgrees
<1> QED
  BY <1>1, <1>2, <1>3, <1>4, <1>5, <1>6, RowOf, UserKeeps

LEMMA DeleteFileKeeps ==
  ASSUME Inv, NEW f \in Files, DeleteFile(f)
  PROVE  Inv'
<1>1. /\ UNCHANGED <<embed, queue, upload, hand>> /\ upload[f] = "done"
      /\ file' = [file EXCEPT ![f].alive = FALSE]
  BY DEF DeleteFile
<1>2. Grows /\ (had'.uploads = 0 => had.uploads = 0) /\ (had'.stalls = 0 => had.stalls = 0)
  <2>1. Grows
    BY TroubleGrows, NamedTroubles DEF DeleteFile, Inv
  <2> QED
    BY <2>1, NamedTroubles DEF Inv, Typed, Grows
<1>3. /\ file' = [file EXCEPT ![f] = file'[f]] /\ file'[f] \in Row
      /\ file'[f].status = file[f].status /\ file'[f].attempt = file[f].attempt /\ ~file'[f].alive
  <2>1. file'[f] = [file[f] EXCEPT !.alive = FALSE] /\ file' = [file EXCEPT ![f] = file'[f]]
    BY <1>1 DEF Inv, Typed
  <2> QED
    BY <1>2, <2>1, RowOf DEF Row
<1>4. upload' = [upload EXCEPT ![f] = upload'[f]] /\ upload'[f] = "done"
  BY <1>1 DEF Inv, Typed
<1>5. file[f].status = "uploaded" => ~Knows(f) /\ ~Waits(queue, f)
  BY DEF Inv, UploadsAreNews, Knows, Live
<1>6. RowAgrees(f)
  <2>1. had'.stalls = 0 /\ had'.uploads = 0 /\ file[f].status \in Unfinished => Live(queue, f)
    BY <1>1, <1>2 DEF Inv, RowsAreKnown
  <2> QED
    BY <1>1, <1>2, <1>3, <2>1, RowOf DEF RowAgrees, Undisturbed
<1>7. OutcomeAgrees(f)
  BY <1>1, <1>2, <1>3, <1>4, RowOf DEF OutcomeAgrees, Protected
<1>8. IndexAgrees(f)
  BY <1>3 DEF IndexAgrees
<1> QED
  BY <1>1, <1>2, <1>3, <1>4, <1>5, <1>6, <1>7, <1>8, RowOf, UserKeeps

\* The list of files fails an embedding that nobody works at.
LEMMA MarkTimedOutKeeps ==
  ASSUME Inv, NEW f \in Files, MarkTimedOut(f)
  PROVE  Inv'
<1>1. /\ UNCHANGED <<queue, upload, hand, had>> /\ embed[f] = "processing" /\ ~Embeds(f)
      /\ file[f].alive
      /\ embed' = [embed EXCEPT ![f] = "failed"]
      /\ file' = [file EXCEPT ![f].status = IF @ = "embedding" THEN "ready" ELSE @]
  BY DEF MarkTimedOut, Embeds, File
<1>2. Grows
  BY <1>1, TroubleGrows, NamedTroubles DEF Inv
<1>3. /\ file' = [file EXCEPT ![f] = file'[f]] /\ file'[f] \in Row
      /\ file'[f].attempt = file[f].attempt /\ file'[f].rag = file[f].rag /\ file[f].alive
      /\ file'[f].status = IF file[f].status = "embedding" THEN "ready" ELSE file[f].status
  <2>1. /\ file'[f] = [file[f] EXCEPT !.status = IF @ = "embedding" THEN "ready" ELSE @]
        /\ file' = [file EXCEPT ![f] = file'[f]]
    BY <1>1 DEF Inv, Typed
  <2> QED
    BY <1>1, <1>2, <2>1, RowOf DEF Row, Statuses
<1>4. embed' = [embed EXCEPT ![f] = embed'[f]] /\ embed'[f] = "failed" /\ "failed" \in EmbedStatuses
  BY <1>1 DEF Inv, Typed, EmbedStatuses
<1>5. /\ upload' = [upload EXCEPT ![f] = upload'[f]] /\ upload'[f] = upload[f]
      /\ upload[f] \in {"new", "marked", "refused", "done"}
  BY <1>1 DEF Inv, Typed
<1>6. /\ upload'[f] = "new" => file'[f].status = "uploaded"
      /\ upload'[f] = "marked" => file'[f].status = "queued"
      /\ file'[f].status = "uploaded" \/ upload'[f] = "marked" => ~Knows(f) /\ ~Waits(queue', f)
  <2>1. /\ upload[f] = "new" => file[f].status = "uploaded"
        /\ upload[f] = "marked" => file[f].status = "queued"
        /\ file[f].status = "uploaded" \/ upload[f] = "marked" => ~Knows(f) /\ ~Waits(queue, f)
    BY DEF Inv, UploadsAreNews, Knows, Live
  <2> QED
    BY <1>1, <1>3, <1>5, <2>1
<1>7. RowAgrees(f)
  <2>1. had'.stalls = 0 /\ had'.uploads = 0 /\ upload[f] = "done" /\ file[f].status \in Unfinished => Live(queue, f)
    BY <1>1 DEF Inv, RowsAreKnown
  <2> QED
    BY <1>1, <1>2, <1>3, <1>5, <2>1, RowOf DEF RowAgrees, Undisturbed, Fresh, Finished, Unfinished
<1>8. OutcomeAgrees(f)
  BY <1>1, <1>2, <1>3, <1>5, RowOf DEF OutcomeAgrees, Protected, Finished
<1>9. IndexAgrees(f)
  <2> SUFFICES ASSUME Calm' PROVE IndexAgrees(f)
    BY DEF IndexAgrees
  <2>1. /\ file[f].rag # "ready"
        /\ \A w \in Workers : Busy(w) /\ File(w) = f
             => hand[w].pc # "embedding" /\ ~(hand[w].pc = "final" /\ file[f].attempt = w)
    BY <1>1, <1>2, RowOf DEF Embeds, Indexed
  <2> QED
    BY <1>3, <1>4, <2>1 DEF IndexAgrees, Indexed
<1> QED
  BY <1>1, <1>2, <1>3, <1>4, <1>5, <1>6, <1>7, <1>8, <1>9, RowOf, UserKeeps

\* A lease that runs out under a worker is a stall; any other was nobody's work.
LEMMA ExpireKeeps ==
  ASSUME Inv, NEW l \in queue.leased, Expire(l)
  PROVE  Inv'
<1>1. /\ UNCHANGED <<file, embed, upload, hand>> /\ queue' = Idle(queue, l)
      /\ (\E w \in Workers : Handles(w, l)) => Meets("stalls")
      /\ (\A w \in Workers : ~Handles(w, l)) => UNCHANGED had
  BY DEF Expire
<1>2. Grows /\ (had'.stalls = 0 => \A w \in Workers : ~Handles(w, l))
  BY <1>1, TroubleGrows, NamedTroubles DEF Inv
<1>3. \A k \in Kinds : had'[k] = 0 => had[k] = 0
  BY <1>2 DEF Inv, Typed, Grows
<1>4. /\ queue' \in Queue /\ Sound(queue') /\ queue'.dead = queue.dead
      /\ \A g : (Waits(queue', g) <=> Waits(queue, g)) /\ (Leased(queue', g) <=> Leased(queue, g))
      /\ \A v, m : OwnsIt(queue, v, m) /\ ~(l.msg = m /\ l.owner = v) => OwnsIt(queue', v, m)
  BY <1>1, IdleSound DEF Inv, Typed, QueueIsSound
<1>5. \A g : Live(queue', g) <=> Live(queue, g)
  BY <1>4 DEF Live
<1>6. Typed'
  BY <1>1, <1>2, <1>4 DEF Inv, Typed, Grows
<1>7. \A w : (Busy(w)' <=> Busy(w)) /\ File(w)' = File(w)
  BY <1>1 DEF Busy, File
<1>8. UploadsAreNews'
  <2>1. \A g : Knows(g)' <=> Knows(g)
    BY <1>4, <1>5, <1>7 DEF Knows
  <2> QED
    BY <1>1, <2>1 DEF Inv, UploadsAreNews
<1>9. WorkIsOwned'
  <2>1. ASSUME had'.stalls = 0, NEW w \in Workers, Busy(w) PROVE OwnsIt(queue', w, hand[w].msg)
    <3>1. OwnsIt(queue, w, hand[w].msg)
      BY <1>3, <2>1, NamedTroubles DEF Inv, WorkIsOwned
    <3>2. ~(l.msg = hand[w].msg /\ l.owner = w)
      BY <1>2, <2>1 DEF Handles, Busy
    <3> QED
      BY <1>4, <3>1, <3>2
  <2> QED
    BY <1>1, <1>7, <2>1 DEF WorkIsOwned
<1>10. RowsAreKnown'
  BY <1>1, <1>3, <1>4, <1>5, <1>7, NamedTroubles DEF Inv, RowsAreKnown
<1>11. OutcomesAreKept'
  BY <1>1, <1>3, <1>4, <1>7, NamedTroubles DEF Inv, OutcomesAreKept
<1>12. EmbeddingsAreKnown'
  <2> SUFFICES ASSUME Calm' PROVE EmbeddingsAreKnown'
    BY DEF EmbeddingsAreKnown
  <2>1. Calm /\ (had.calls > 0 => had'.calls > 0)
    BY <1>2, CalmBefore DEF Inv
  <2>2. \A g \in Files : (Embeds(g) => Embeds(g)') /\ (Left(g) => Left(g)')
    BY <1>1, <1>5, <1>7, <2>1 DEF Embeds, Left
  <2> QED
    BY <1>1, <1>7, <2>1, <2>2 DEF Inv, EmbeddingsAreKnown
<1> QED
  BY <1>4, <1>6, <1>8, <1>9, <1>10, <1>11, <1>12 DEF Inv, QueueIsSound

-----------------------------------------------------------------------------
(***************************************************************************)
(* The theorems.                                                           *)
(***************************************************************************)

LEMMA InitInv == Init => Inv
<1> SUFFICES ASSUME Init PROVE Inv
  OBVIOUS
<1>1. queue.waiting = <<>> /\ queue.leased = {} /\ queue.dead = {} /\ queue \in Queue
  BY EmptySeq DEF Init, EmptyQueue, Queue
<1>2. DOMAIN queue.waiting = {}
  BY <1>1
<1>3. /\ \A w \in Workers : hand[w].pc = "idle" /\ hand[w] \in Hand
      /\ \A k \in Kinds : had[k] = 0
      /\ \A f \in Files : /\ file[f].status = "uploaded" /\ file[f].rag = "none" /\ upload[f] = "new"
                          /\ embed[f] = "none"
  BY DEF Init, Resting, Hand, Outcomes
<1>4. Typed
  BY <1>1, <1>3 DEF Init, Typed, Row, Statuses, EmbedStatuses
<1>5. QueueIsSound
  BY <1>1, <1>2 DEF QueueIsSound, Sound, Waits, Leased
<1>6. UploadsAreNews
  BY <1>1, <1>2, <1>3 DEF UploadsAreNews, Knows, Live, Waits, Leased, Busy
<1>7. WorkIsOwned /\ RowsAreKnown /\ OutcomesAreKept /\ EmbeddingsAreKnown
  BY <1>1, <1>2, <1>3 DEF WorkIsOwned, RowsAreKnown, OutcomesAreKept, EmbeddingsAreKnown,
                          Busy, Waits, Unfinished, Finished
<1> QED
  BY <1>4, <1>5, <1>6, <1>7 DEF Inv

LEMMA HandlingKeeps ==
  ASSUME Inv, NEW w \in Workers, Handling(w)
  PROVE  Inv'
BY ReadFileKeeps, ClaimFileKeeps, ExtractKeeps, SaveTextKeeps, WriteEmptyKeeps, WriteFailedKeeps,
   ClaimEmbeddingKeeps, EmbedChunksKeeps, WriteEmbedFailedKeeps, WriteFinalKeeps, VerifyKeeps,
   ResetKeeps, RequeueMessageKeeps, SettleMessageKeeps, FinalizeKeeps, MarkFailedKeeps,
   ForceFailedKeeps, DeadLetterMessageKeeps
   DEF Handling

LEMMA NextInv == Inv /\ [Next]_vars => Inv'
<1> SUFFICES ASSUME Inv, [Next]_vars PROVE Inv'
  OBVIOUS
<1>1. CASE \E f \in Files : \/ MarkQueued(f) \/ EnqueueFile(f) \/ RefuseFile(f)
                            \/ UploadCrash(f) \/ DeleteFile(f) \/ MarkTimedOut(f)
  BY <1>1, MarkQueuedKeeps, EnqueueFileKeeps, RefuseFileKeeps, UploadCrashKeeps, DeleteFileKeeps,
     MarkTimedOutKeeps
<1>2. CASE \E l \in queue.leased : Expire(l)
  BY <1>2, ExpireKeeps
<1>3. CASE \E w \in Workers : \/ ClaimTimedOut(w) \/ ReadMessage(w) \/ Handling(w)
                              \/ LoseOwnership(w) \/ Crash(w)
  BY <1>3, ClaimTimedOutKeeps, ReadMessageKeeps, HandlingKeeps, LoseOwnershipKeeps, CrashKeeps
<1>4. CASE UNCHANGED vars
  BY <1>4 DEF vars, Inv, Typed, QueueIsSound, UploadsAreNews, Knows, Live, Busy, File, WorkIsOwned,
              RowsAreKnown, OutcomesAreKept, EmbeddingsAreKnown, Embeds, Calm, Left
<1> QED
  BY <1>1, <1>2, <1>3, <1>4 DEF Next

(***************************************************************************)
(* The inductive invariant.                                                *)
(***************************************************************************)
THEOREM ProcessingInvariant == Spec => []Inv
BY InitInv, NextInv, PTL DEF Spec

(***************************************************************************)
(* Whatever stalls, fails or crashes, a file has at most one message that  *)
(* is waiting or leased, and none once it has a dead letter (the atomic    *)
(* scripts of the queue, and the ownership they check).                    *)
(***************************************************************************)
THEOREM OneMessagePerFile == Spec => []QueueIsSound
<1>1. Inv => QueueIsSound
  BY DEF Inv
<1> QED
  BY <1>1, ProcessingInvariant, PTL

LEMMA OneIsNamed ==
  ASSUME Inv, NEW f \in Files
  PROVE  Cardinality(Named(f)) <= 1 /\ (Live(queue, f) => Named(f) # {})
<1>1. QueueIsSound /\ queue \in Queue
  BY DEF Inv, Typed
<1>2. ASSUME NEW m \in Named(f), NEW n \in Named(f) PROVE m = n
  <2>1. m \in Messages(queue) /\ n \in Messages(queue) /\ m.file = f /\ n.file = f
    BY DEF Named
  <2>2. CASE Waits(queue, f)
    <3>1. \A l \in queue.leased : l.msg.file # f
      BY <1>1, <2>2 DEF QueueIsSound, Sound, Leased
    <3>2. PICK i \in DOMAIN queue.waiting : m = queue.waiting[i]
      BY <2>1, <3>1 DEF Messages
    <3>3. PICK j \in DOMAIN queue.waiting : n = queue.waiting[j]
      BY <2>1, <3>1 DEF Messages
    <3> QED
      BY <1>1, <2>1, <3>2, <3>3 DEF QueueIsSound, Sound
  <2>3. CASE ~Waits(queue, f)
    <3>1. PICK l \in queue.leased : m = l.msg
      BY <2>1, <2>3 DEF Messages, Waits
    <3>2. PICK k \in queue.leased : n = k.msg
      BY <2>1, <2>3 DEF Messages, Waits
    <3> QED
      BY <1>1, <2>1, <3>1, <3>2 DEF QueueIsSound, Sound
  <2> QED
    BY <2>2, <2>3
<1>3. Cardinality(Named(f)) <= 1
  <2>1. CASE Named(f) = {}
    BY <2>1, FS_EmptySet
  <2>2. CASE Named(f) # {}
    <3>1. PICK m \in Named(f) : TRUE
      BY <2>2
    <3>2. Named(f) = {m}
      BY <1>2, <3>1
    <3>3. Cardinality({m}) = 1
      BY FS_Singleton
    <3> QED
      BY <3>2, <3>3
  <2> QED
    BY <2>1, <2>2
<1>4. Live(queue, f) => Named(f) # {}
  BY DEF Live, Waits, Leased, Named, Messages
<1> QED
  BY <1>3, <1>4

(***************************************************************************)
(* The rows, the queue and the index agree on how far a file is.           *)
(***************************************************************************)
THEOREM FilesAlwaysAgree == Spec => []FilesAgree
<1>1. Inv => TypeOK
  BY DEF Inv, Typed, TypeOK, Row, Hand, Queue
<1>2. Inv => UnfinishedIsQueued
  BY OneIsNamed DEF Inv, RowsAreKnown, UnfinishedIsQueued
<1>3. Inv => DeadIsFinished
  <2> SUFFICES ASSUME Inv, ~Mixed, NEW m \in queue.dead PROVE file[m.file].status \in Finished
    BY DEF DeadIsFinished
  <2>1. had.stalls \in Nat /\ had.calls \in Nat /\ had.crashes \in Nat
    BY NamedTroubles DEF Inv, Typed
  <2>2. had.stalls = 0 \/ had.calls = 0
    BY <2>1 DEF Mixed
  <2> QED
    BY <2>2 DEF Inv, RowsAreKnown, OutcomesAreKept
<1>4. Inv => IndexToldIsThere
  BY DEF Inv, EmbeddingsAreKnown, Calm, IndexToldIsThere
<1>5. Inv => FilesAgree
  BY <1>1, <1>2, <1>3, <1>4 DEF FilesAgree
<1> QED
  BY <1>5, ProcessingInvariant, PTL

\* Nobody writes the row of a finished file but its own attempt, which says the same again.
LEMMA FinishedStays ==
  ASSUME Inv, Next, had'.calls = 0, NEW f \in Files, file[f].status \in Finished
  PROVE  file'[f].status = file[f].status
<1> DEFINE Same == file'[f].status = file[f].status
<1>1. /\ file \in [Files -> Row] /\ file[f] \in Row /\ file[f].status \notin {"uploaded", "queued", "extracting"}
      /\ had \in [Kinds -> Nat] /\ "calls" \in Kinds
  BY NamedTroubles DEF Inv, Typed, Finished
<1>2. had.calls = 0
  <2>1. ASSUME NEW k \in Kinds, Meets(k) PROVE had'.calls >= had.calls
    BY <1>1, <2>1 DEF Meets
  <2>2. UNCHANGED had \/ \E k \in Kinds : Meets(k)
    BY NamedTroubles DEF Next, MarkQueued, EnqueueFile, RefuseFile, UploadCrash, DeleteFile, MarkTimedOut,
       Expire, ClaimTimedOut, ReadMessage, Handling, LoseOwnership, Crash, ReadFile, ClaimFile, Extract,
       SaveText, WriteEmpty, WriteFailed, ClaimEmbedding, EmbedChunks, WriteEmbedFailed, WriteFinal,
       Verify, Reset, RequeueMessage, SettleMessage, Finalize, MarkFailed, ForceFailed, DeadLetterMessage,
       AttemptWrites, QueueCall
  <2> QED
    BY <1>1, <2>1, <2>2
<1>3. ~Meets("calls")
  BY <1>1 DEF Meets
<1>4. ASSUME NEW g \in Files, NEW status, NEW attempt, NEW rag, Write(g, status, attempt, rag), g # f PROVE Same
  BY <1>1, <1>4 DEF Write
<1>5. ASSUME NEW g \in Files,
             MarkQueued(g) \/ EnqueueFile(g) \/ RefuseFile(g) \/ UploadCrash(g) \/ DeleteFile(g) \/ MarkTimedOut(g)
      PROVE  Same
  <2>1. CASE MarkQueued(g)
    <3>1. file[g].status = "uploaded"
      BY <2>1 DEF MarkQueued, Inv, UploadsAreNews
    <3> QED
      BY <1>1, <1>4, <2>1, <3>1 DEF MarkQueued
  <2>2. ~RefuseFile(g)
    BY <1>2 DEF RefuseFile, Inv, OutcomesAreKept
  <2>3. CASE DeleteFile(g)
    BY <1>1, <2>3 DEF DeleteFile, Row
  <2>4. CASE MarkTimedOut(g)
    BY <1>1, <2>4 DEF MarkTimedOut, Row, Finished
  <2>5. CASE EnqueueFile(g) \/ UploadCrash(g)
    BY <2>5 DEF EnqueueFile, UploadCrash
  <2> QED
    BY <1>5, <2>1, <2>2, <2>3, <2>4, <2>5
<1>6. ASSUME NEW w \in Workers, Handling(w) PROVE Same
  <2>1. hand[w].pc # "idle"
    BY <1>6 DEF Handling, ReadFile, ClaimFile, Extract, SaveText, WriteEmpty, WriteFailed, ClaimEmbedding,
       EmbedChunks, WriteEmbedFailed, WriteFinal, Verify, Reset, RequeueMessage, SettleMessage, Finalize,
       MarkFailed, ForceFailed, DeadLetterMessage
  <2>2. Busy(w) /\ File(w) \in Files /\ Protected(w, hand[w], file[File(w)])
    BY <1>2, <2>1, BusyWorker DEF Busy, Inv, OutcomesAreKept
  <2>3. ~Reset(w) /\ ~MarkFailed(w) /\ ~ForceFailed(w)
    BY <2>2 DEF Reset, MarkFailed, ForceFailed, Protected
  <2>4. CASE ClaimFile(w)
    <3>1. CASE UNCHANGED file
      BY <3>1
    <3>2. CASE file[File(w)].status \in Claimable(w) /\ Write(File(w), "extracting", w, file[File(w)].rag)
      <4>1. File(w) # f
        BY <3>2 DEF Claimable, Unfinished, Finished
      <4> QED
        BY <1>4, <2>2, <3>2, <4>1
    <3> QED
      BY <2>4, <3>1, <3>2 DEF ClaimFile
  <2>5. ASSUME NEW status \in {"embedding", "ready", "failed"}, NEW rag, Claimed(File(w), w),
               WriteClaimed(File(w), w, status, rag),
               hand[w].pc \in Early \/ status = "ready"
        PROVE  Same
    <3>1. CASE File(w) # f
      BY <1>4, <2>2, <2>5, <3>1 DEF WriteClaimed
    <3>2. CASE File(w) = f
      <4>1. file[f].attempt = w /\ file[f].attempt # NoAttempt
        BY <2>5, <3>2, FileAssumption DEF Claimed
      <4>2. file[f].status = "ready"
        BY <1>2, <4>1 DEF Inv, OutcomesAreKept
      <4>3. status = "ready"
        BY <2>2, <2>5, <3>2, <4>1, <4>2 DEF Protected
      <4> QED
        BY <1>1, <2>5, <3>2, <4>2, <4>3 DEF WriteClaimed, Write, Row
    <3> QED
      BY <3>1, <3>2
  <2>6. CASE SaveText(w)
    BY <1>3, <2>5, <2>6 DEF SaveText, AttemptWrites, Early
  <2>7. CASE WriteEmpty(w) \/ WriteFailed(w)
    BY <1>3, <2>5, <2>7 DEF WriteEmpty, WriteFailed, AttemptWrites, Early
  <2>8. CASE WriteEmbedFailed(w) \/ WriteFinal(w)
    BY <1>3, <2>5, <2>8 DEF WriteEmbedFailed, WriteFinal, AttemptWrites
  <2>9. CASE \/ ReadFile(w) \/ Extract(w) \/ ClaimEmbedding(w) \/ EmbedChunks(w) \/ Verify(w)
             \/ RequeueMessage(w) \/ SettleMessage(w) \/ Finalize(w) \/ DeadLetterMessage(w)
    BY <2>9 DEF ReadFile, Extract, ClaimEmbedding, EmbedChunks, Verify, RequeueMessage, SettleMessage,
                Finalize, DeadLetterMessage, QueueCall
  <2> QED
    BY <1>6, <2>3, <2>4, <2>6, <2>7, <2>8, <2>9 DEF Handling
<1>7. CASE \/ \E l \in queue.leased : Expire(l)
           \/ \E w \in Workers : ClaimTimedOut(w) \/ ReadMessage(w) \/ LoseOwnership(w) \/ Crash(w)
  BY <1>7 DEF Expire, ClaimTimedOut, ReadMessage, LoseOwnership, Crash
<1> QED
  BY <1>5, <1>6, <1>7 DEF Next

(***************************************************************************)
(* An outcome is final as long as no call fails, whatever stalls and       *)
(* crashes (the processing_attempt_id condition of every claimed write).   *)
(***************************************************************************)
THEOREM OutcomesAreFinal == Spec => OutcomeIsFinal
<1> DEFINE Step == had'.calls = 0 =>
                     \A f \in Files : file[f].status \in Finished => file'[f].status = file[f].status
<1>1. Inv /\ [Next]_vars => [Step]_vars
  <2> SUFFICES ASSUME Inv, Next, had'.calls = 0, NEW f \in Files, file[f].status \in Finished
               PROVE  file'[f].status = file[f].status
    OBVIOUS
  <2> QED
    BY FinishedStays
<1>2. Spec => [][Step]_vars
  BY <1>1, ProcessingInvariant, PTL DEF Spec
<1> QED
  BY <1>2 DEF OutcomeIsFinal
=============================================================================
