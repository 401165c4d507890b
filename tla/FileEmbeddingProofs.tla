------------------------ MODULE FileEmbeddingProofs ------------------------
(***************************************************************************)
(* Proofs about FileEmbedding, for any files, vector spaces, servers,      *)
(* workers, runs without a message, number of retries and any combination  *)
(* of what may happen.                                                     *)
(*                                                                         *)
(* Submissions are numbered, and a submission is in one place: not yet     *)
(* queued, one message that waits or is leased, or a dead letter           *)
(* (QueueIsSound, SubmitsAreNew).  As long as nobody stalls a worker owns  *)
(* the message it handles (WorkIsOwned), so that, as long as no write is   *)
(* dropped, what is under way is minded by somebody: a row that says       *)
(* queued or processing has a message of its space whose worker, if it has *)
(* one, is not past the point where it would have to write the row again   *)
(* (QueuedIsMinded, ProcessingIsMinded), though any other call may fail.   *)
(* IndexesAreKnown follows the space of the chunks.                        *)
(***************************************************************************)
EXTENDS FileEmbedding, SequenceTheorems, TLAPS

Job(m) == m.id[1]

Msg == {m \in [id : Nat \X (0 .. MaxRetries), file : Files, space : Spaces,
               retry : 0 .. MaxRetries, reclaimed : BOOLEAN] : m.id[2] = m.retry}

Lease == [msg : Msg, owner : Workers \cup {NoOne}, idle : BOOLEAN]

Queue == [waiting : Seq(Msg), leased : SUBSET Lease, dead : SUBSET Msg]

Row == [status : Statuses, space : SpaceOrNone, been : SUBSET Spaces, back : BOOLEAN]

Admin == [pc : {"idle", "apply", "reconcile"}, server : Servers \cup {NoOne}, owed : BOOLEAN]

Submit == {s \in [pc : {"idle", "enqueue", "release"}, space : SpaceOrNone, n : Nat] :
             s.pc # "idle" => s.space \in Spaces}

Hand == {h \in [pc : {"idle"} \cup Started \cup Embedding \cup Concluding, msg : Msg \cup {NoMessage},
                file : Files \cup {NoSpace}, space : SpaceOrNone, err : BOOLEAN] :
           /\ h.pc # "idle" => h.file \in Files /\ h.space \in Spaces
           /\ h.pc \in {"requeueRow", "requeue"} => h.msg.retry < MaxRetries}

OfWorker(h) == h.pc # "idle" => h.msg \in Msg /\ h.file = h.msg.file /\ h.space = h.msg.space
OfAuto(h)   == h.pc \in {"idle", "claim"} \cup Embedding

Typed ==
  /\ row \in [Files -> Row]
  /\ chunks \in [Files -> SpaceOrNone]
  /\ queue \in Queue
  /\ saved \in Spaces /\ runtime \in [Servers -> Spaces]
  /\ admin \in Admin
  /\ submit \in [Files -> Submit]
  /\ hand \in [Runners -> Hand]
  /\ \A w \in Workers : OfWorker(hand[w])
  /\ \A a \in Autos : OfAuto(hand[a])
  /\ had \in [Kinds -> Nat]

Waits(q, n)  == \E i \in DOMAIN q.waiting : Job(q.waiting[i]) = n
Leased(q, n) == \E l \in q.leased : Job(l.msg) = n
Known(q, n)  == Waits(q, n) \/ Leased(q, n) \/ \E m \in q.dead : Job(m) = n

\* A submission has one message.
Sound(q) ==
  /\ \A i, j \in DOMAIN q.waiting : Job(q.waiting[i]) = Job(q.waiting[j]) => i = j
  /\ \A l, k \in q.leased : Job(l.msg) = Job(k.msg) => l = k
  /\ \A n \in Nat : ~(Waits(q, n) /\ Leased(q, n))

QueueIsSound == Sound(queue)

\* A submission whose message is still to be queued, and one that is under way.
Pending(f) == submit[f].pc = "enqueue"
Asked(f)   == submit[f].pc # "idle"

\* What is still to be queued has no message yet.
SubmitsAreNew ==
  /\ \A n \in Nat : Known(queue, n) => n <= had.submits
  /\ \A f \in Files : Pending(f) =>
        /\ submit[f].n <= had.submits /\ ~Known(queue, submit[f].n)
        /\ \A g \in Files : Pending(g) /\ submit[g].n = submit[f].n => g = f

Busy(w) == hand[w].pc # "idle"

OwnsIt(q, w, msg) == \E l \in q.leased : l.msg = msg /\ l.owner = w /\ ~l.idle

WorkIsOwned ==
  had.stalls = 0 => \A w \in Workers : Busy(w) => OwnsIt(queue, w, hand[w].msg)

AutosAreCounted == had.autos = 0 => \A a \in Autos : ~Busy(a)

\* Whoever stands here will yet write a row of its space that says status, or make sure of it.
Minds(h, status) ==
  \/ h.pc \in {"begin", "look", "requeueRow", "requeue", "failRow"}
  \/ h.pc = "verify" /\ h.err
  \/ status = "queued" /\ h.pc = "claim"
  \/ status = "processing" /\ h.pc \in {"embed", "publish", "check", "ready", "outdated"}

MindedBy(hands, m, status) ==
  \A w \in Workers : hands[w].pc # "idle" /\ hands[w].msg.id = m.id => Minds(hands[w], status)

IsMinded(q, hands, f, s, status) ==
  \E m \in Messages(q) : m.file = f /\ m.space = s /\ MindedBy(hands, m, status)

MindedByAuto(hands, f, s) ==
  \E a \in Autos : hands[a].pc # "idle" /\ hands[a].file = f /\ hands[a].space = s
                    /\ Minds(hands[a], "processing")

QueuedIsMinded ==
  had.cuts = 0 /\ had.stalls = 0 /\ had.drops = 0 =>
    \A f \in Files : row[f].status = "queued" =>
      \/ Asked(f) /\ submit[f].space = row[f].space
      \/ IsMinded(queue, hand, f, row[f].space, "queued")

ProcessingIsMinded ==
  had.stalls = 0 /\ had.drops = 0 /\ (had.autos = 0 \/ (had.calls = 0 /\ had.restarts = 0)) =>
    \A f \in Files : row[f].status = "processing" =>
      \/ MindedByAuto(hand, f, row[f].space)
      \/ IsMinded(queue, hand, f, row[f].space, "processing")

\* Whoever has published chunks knows whose they are, unless the row came back.
Indexed(h, r, space) ==
  h.pc \in {"check", "ready"} =>
    /\ h.space \in r.been
    /\ h.space = r.space /\ ~r.back => space = h.space

IndexesAreKnown ==
  /\ \A f \in Files : row[f].space \in row[f].been \cup {NoSpace}
  /\ \A f \in Files : row[f].status = "ready" /\ ~row[f].back => chunks[f] = row[f].space
  /\ \A w \in Runners : Busy(w) => Indexed(hand[w], row[hand[w].file], chunks[hand[w].file])

Inv == Typed /\ QueueIsSound /\ SubmitsAreNew /\ WorkIsOwned /\ AutosAreCounted
       /\ QueuedIsMinded /\ ProcessingIsMinded /\ IndexesAreKnown

-----------------------------------------------------------------------------
(***************************************************************************)
(* The operators of the queue: the queue r that comes of q.                *)
(***************************************************************************)

Same(k, m) == k.id = m.id /\ k.file = m.file /\ k.space = m.space

\* No message is lost, and none is of a submission that had none.
Kept(q, r) ==
  /\ r \in Queue /\ Sound(r) /\ r.dead = q.dead
  /\ \A n : Known(r, n) => Known(q, n)
  /\ \A m \in Messages(q) : \E k \in Messages(r) : Same(k, m)

\* The messages of a queue, wherever they are.
LEMMA QueueTypes ==
  ASSUME NEW q \in Queue
  PROVE  /\ q.waiting \in Seq(Msg) /\ q.leased \subseteq Lease /\ q.dead \subseteq Msg
         /\ Len(q.waiting) \in Nat /\ DOMAIN q.waiting = 1 .. Len(q.waiting)
         /\ \A i \in DOMAIN q.waiting : q.waiting[i] \in Msg
         /\ \A l \in q.leased : l.msg \in Msg
         /\ Messages(q) \subseteq Msg
<1>1. q.waiting \in Seq(Msg) /\ q.leased \subseteq Lease /\ q.dead \subseteq Msg
  BY DEF Queue
<1>2. Len(q.waiting) \in Nat /\ DOMAIN q.waiting = 1 .. Len(q.waiting)
  BY <1>1, LenProperties
<1>3. \A i \in DOMAIN q.waiting : q.waiting[i] \in Msg
  BY <1>1, <1>2, ElementOfSeq
<1>4. \A l \in q.leased : l.msg \in Msg
  BY <1>1 DEF Lease
<1> QED
  BY <1>1, <1>2, <1>3, <1>4 DEF Messages

LEMMA JobTypes ==
  ASSUME NEW m \in Msg
  PROVE  Job(m) \in Nat /\ m.file \in Files /\ m.space \in Spaces /\ m.retry \in 0 .. MaxRetries
BY DEF Msg, Job

\* A message at the end of the queue, of a submission that has none there.
LEMMA EnqueueSound ==
  ASSUME NEW q \in Queue, Sound(q), NEW msg \in Msg, ~Waits(q, Job(msg)), ~Leased(q, Job(msg))
  PROVE  LET r == Enqueue(q, msg)
         IN  /\ r \in Queue /\ Sound(r) /\ r.leased = q.leased /\ r.dead = q.dead
             /\ \A n : Known(r, n) => Known(q, n) \/ n = Job(msg)
             /\ \A m \in Messages(q) : m \in Messages(r)
             /\ msg \in Messages(r)
<1> DEFINE r == Enqueue(q, msg)
           n == Len(q.waiting)
<1>1. q.waiting \in Seq(Msg) /\ n \in Nat /\ DOMAIN q.waiting = 1 .. n
  BY QueueTypes
<1>2. /\ r.waiting = Append(q.waiting, msg) /\ r.leased = q.leased /\ r.dead = q.dead
      /\ r \in [waiting : Seq(Msg), leased : SUBSET Lease, dead : SUBSET Msg]
  BY <1>1, AppendProperties DEF Enqueue, Queue
<1>3. /\ r.waiting \in Seq(Msg) /\ Len(r.waiting) = n + 1
      /\ \A i \in 1 .. n : r.waiting[i] = q.waiting[i]
      /\ r.waiting[n + 1] = msg
  BY <1>1, <1>2, AppendProperties
<1> HIDE DEF r
<1>4. DOMAIN r.waiting = 1 .. n + 1
  BY <1>3, LenProperties
<1>5. \A j : Waits(r, j) <=> Waits(q, j) \/ j = Job(msg)
  <2>1. \A j : Waits(q, j) => Waits(r, j)
    BY <1>1, <1>3, <1>4 DEF Waits
  <2>2. Waits(r, Job(msg))
    BY <1>1, <1>3, <1>4 DEF Waits
  <2>3. ASSUME NEW j, Waits(r, j), j # Job(msg) PROVE Waits(q, j)
    <3>1. PICK i \in 1 .. n + 1 : Job(r.waiting[i]) = j
      BY <1>4, <2>3 DEF Waits
    <3>2. i \in 1 .. n
      BY <1>1, <1>3, <2>3, <3>1
    <3> QED
      BY <1>1, <1>3, <3>1, <3>2 DEF Waits
  <2> QED
    BY <2>1, <2>2, <2>3
<1>6. \A j : Leased(r, j) <=> Leased(q, j)
  BY <1>2 DEF Leased
<1>7. Sound(r)
  <2>1. \A i \in 1 .. n : Job(q.waiting[i]) # Job(msg)
    BY <1>1 DEF Waits
  <2>2. ASSUME NEW i \in DOMAIN r.waiting, NEW j \in DOMAIN r.waiting,
               Job(r.waiting[i]) = Job(r.waiting[j])
        PROVE  i = j
    <3>1. CASE i \in 1 .. n /\ j \in 1 .. n
      BY <1>1, <1>3, <2>2, <3>1 DEF Sound
    <3>2. ASSUME NEW k \in 1 .. n, NEW l \in {n + 1},
                 Job(r.waiting[k]) = Job(r.waiting[l])
          PROVE  FALSE
      BY <1>1, <1>3, <2>1, <3>2, SMTT(30)
    <3> QED
      BY <1>1, <1>4, <2>2, <3>1, <3>2
  <2>3. \A j \in Nat : ~(Waits(r, j) /\ Leased(r, j))
    BY <1>5, <1>6 DEF Sound
  <2> QED
    BY <1>2, <2>2, <2>3 DEF Sound
<1>8. \A j : Known(r, j) => Known(q, j) \/ j = Job(msg)
  BY <1>2, <1>5, <1>6 DEF Known
<1>9. \A m \in Messages(q) : m \in Messages(r)
  BY <1>1, <1>2, <1>3, <1>4 DEF Messages
<1>10. msg \in Messages(r)
  BY <1>1, <1>3, <1>4 DEF Messages
<1> QED
  BY <1>2, <1>7, <1>8, <1>9, <1>10 DEF r, Queue

\* The oldest message is leased to its reader.
LEMMA ReadSound ==
  ASSUME NEW q \in Queue, Sound(q), q.waiting # <<>>, NEW w \in Workers
  PROVE  LET m == Head(q.waiting)
             r == Read(q, w)
         IN  /\ m \in Msg /\ m \in Messages(q)
             /\ Kept(q, r) /\ OwnsIt(r, w, m) /\ q.leased \subseteq r.leased
<1> DEFINE r == Read(q, w)
           m == Head(q.waiting)
           n == Len(q.waiting)
           l0 == [msg |-> m, owner |-> w, idle |-> FALSE]
<1>1. q.waiting \in Seq(Msg) /\ n \in Nat \ {0} /\ DOMAIN q.waiting = 1 .. n
  BY QueueTypes, EmptySeq
<1>2. m = q.waiting[1] /\ m \in Msg /\ Waits(q, Job(m)) /\ m \in Messages(q)
  <2>1. m = q.waiting[1]
    BY <1>1
  <2> QED
    BY <1>1, <2>1, QueueTypes DEF Waits, Messages
<1>3. l0 \in Lease
  BY <1>2 DEF Lease
<1>4. /\ r.waiting = Tail(q.waiting) /\ r.leased = q.leased \cup {l0} /\ r.dead = q.dead
      /\ r \in Queue
  BY <1>1, <1>3, HeadTailProperties DEF Read, Queue
<1>5. /\ r.waiting \in Seq(Msg) /\ Len(r.waiting) = n - 1
      /\ \A i \in 1 .. Len(r.waiting) : r.waiting[i] = q.waiting[i + 1]
  BY <1>1, <1>4, HeadTailProperties
<1>6. DOMAIN r.waiting = 1 .. n - 1
  BY <1>5, LenProperties
<1>7. l0.msg = m /\ l0.owner = w /\ ~l0.idle
  OBVIOUS
<1> HIDE DEF r, l0
<1>8. \A j : Waits(r, j) => Waits(q, j) /\ j # Job(m)
  <2> SUFFICES ASSUME NEW j, Waits(r, j) PROVE Waits(q, j) /\ j # Job(m)
    OBVIOUS
  <2>1. PICK i \in 1 .. n - 1 : Job(r.waiting[i]) = j
    BY <1>6 DEF Waits
  <2>2. i + 1 \in 1 .. n /\ Job(q.waiting[i + 1]) = j /\ i + 1 # 1
    BY <1>1, <1>5, <1>6, <2>1
  <2> QED
    BY <1>1, <1>2, <2>2 DEF Waits, Sound
<1>9. \A i \in 1 .. n : i # 1 => i - 1 \in 1 .. n - 1 /\ r.waiting[i - 1] = q.waiting[i]
  <2> SUFFICES ASSUME NEW i \in 1 .. n, i # 1
               PROVE  i - 1 \in 1 .. n - 1 /\ r.waiting[i - 1] = q.waiting[i]
    OBVIOUS
  <2>1. i - 1 \in 1 .. n - 1
    BY <1>1
  <2>2. r.waiting[i - 1] = q.waiting[(i - 1) + 1]
    BY <1>1, <1>5, <2>1
  <2> QED
    BY <1>1, <2>1, <2>2
<1>10. \A j : Leased(r, j) <=> Leased(q, j) \/ j = Job(m)
  BY <1>4, <1>7 DEF Leased
<1>11. ~Leased(q, Job(m))
  BY <1>2, JobTypes DEF Sound
<1>12. Sound(r)
  <2>1. ASSUME NEW i \in DOMAIN r.waiting, NEW j \in DOMAIN r.waiting,
               Job(r.waiting[i]) = Job(r.waiting[j])
        PROVE  i = j
    <3>1. i + 1 \in 1 .. n /\ j + 1 \in 1 .. n /\ i \in Nat /\ j \in Nat
      BY <1>1, <1>6
    <3>2. Job(q.waiting[i + 1]) = Job(q.waiting[j + 1])
      BY <1>5, <1>6, <1>1, <2>1
    <3>3. i + 1 = j + 1
      BY <1>1, <3>1, <3>2 DEF Sound
    <3> QED
      BY <3>1, <3>3
  <2>2. \A l, k \in r.leased : Job(l.msg) = Job(k.msg) => l = k
    <3>1. \A l \in q.leased : Job(l.msg) # Job(m)
      BY <1>11 DEF Leased
    <3> QED
      BY <1>4, <1>7, <3>1 DEF Sound
  <2>3. \A j \in Nat : ~(Waits(r, j) /\ Leased(r, j))
    BY <1>8, <1>10 DEF Sound
  <2> QED
    BY <2>1, <2>2, <2>3 DEF Sound
<1>13. \A k \in Messages(q) : k \in Messages(r)
  <2> SUFFICES ASSUME NEW k \in Messages(q) PROVE k \in Messages(r)
    OBVIOUS
  <2>1. CASE \E l \in q.leased : k = l.msg
    BY <1>4, <2>1 DEF Messages
  <2>2. CASE \E i \in DOMAIN q.waiting : k = q.waiting[i]
    <3>1. PICK i \in 1 .. n : k = q.waiting[i]
      BY <1>1, <2>2
    <3>2. CASE i = 1
      BY <1>2, <1>4, <1>7, <3>1, <3>2 DEF Messages
    <3>3. CASE i # 1
      BY <1>6, <1>9, <3>1, <3>3 DEF Messages
    <3> QED
      BY <3>2, <3>3
  <2> QED
    BY <2>1, <2>2 DEF Messages
<1>14. \A j : Known(r, j) => Known(q, j)
  BY <1>2, <1>4, <1>8, <1>10 DEF Known
<1>15. OwnsIt(r, w, m)
  BY <1>4, <1>7 DEF OwnsIt
<1> QED
  BY <1>2, <1>4, <1>12, <1>13, <1>14, <1>15 DEF r, Kept, Same

\* A step that changes leases, each into a lease of the same message.
LEMMA LeasesKept ==
  ASSUME NEW q \in Queue, Sound(q), NEW r, NEW new \in [q.leased -> Lease],
         r = [q EXCEPT !.leased = {new[l] : l \in q.leased}],
         \A l \in q.leased : Same(new[l].msg, l.msg)
  PROVE  Kept(q, r) /\ r.leased = {new[l] : l \in q.leased}
<1>1. /\ r.waiting = q.waiting /\ r.dead = q.dead /\ r.leased = {new[l] : l \in q.leased}
      /\ r \in Queue
  BY DEF Queue
<1>2. \A l \in q.leased : Job(new[l].msg) = Job(l.msg)
  BY DEF Same, Job
<1>3. \A j : (Waits(r, j) <=> Waits(q, j)) /\ (Leased(r, j) <=> Leased(q, j))
  BY <1>1, <1>2 DEF Waits, Leased
<1>4. Sound(r)
  BY <1>1, <1>2, <1>3 DEF Sound
<1>5. \A j : Known(r, j) => Known(q, j)
  BY <1>1, <1>3 DEF Known
<1>6. \A m \in Messages(q) : \E k \in Messages(r) : Same(k, m)
  <2> SUFFICES ASSUME NEW m \in Messages(q) PROVE \E k \in Messages(r) : Same(k, m)
    OBVIOUS
  <2>1. CASE \E l \in q.leased : m = l.msg
    <3>1. PICK l \in q.leased : m = l.msg
      BY <2>1
    <3>2. new[l].msg \in Messages(r) /\ Same(new[l].msg, m)
      BY <1>1, <3>1 DEF Messages
    <3> QED
      BY <3>2
  <2>2. CASE \E i \in DOMAIN q.waiting : m = q.waiting[i]
    BY <1>1, <2>2 DEF Messages, Same
  <2> QED
    BY <2>1, <2>2 DEF Messages
<1> QED
  BY <1>1, <1>4, <1>5, <1>6 DEF Kept

\* An idle lease passes to the worker that claims it, and the message says so.
LEMMA ClaimSound ==
  ASSUME NEW q \in Queue, Sound(q), NEW l \in q.leased, NEW w \in Workers
  PROVE  LET m == Passed(l, w).msg
             r == Claim(q, l, w)
         IN  /\ m \in Msg /\ Same(m, l.msg)
             /\ Kept(q, r) /\ OwnsIt(r, w, m) /\ q.leased \ {l} \subseteq r.leased
<1> DEFINE p == Passed(l, w)
           r == Claim(q, l, w)
           new == [k \in q.leased |-> IF k = l THEN p ELSE k]
<1>1. l.msg \in Msg /\ l \in Lease
  BY QueueTypes
<1>2. p.msg = [l.msg EXCEPT !.reclaimed = TRUE] /\ p.owner = w /\ ~p.idle
  BY DEF Passed
<1>3. p.msg \in Msg /\ Same(p.msg, l.msg)
  BY <1>1, <1>2 DEF Msg, Same
<1>4. p \in Lease
  BY <1>3, <1>2 DEF Lease, Passed
<1>5. \A k \in q.leased : Same(k.msg, k.msg)
  BY DEF Same
<1> HIDE DEF p
<1>6. new \in [q.leased -> Lease] /\ \A k \in q.leased : Same(new[k].msg, k.msg)
  BY <1>3, <1>4, <1>5, QueueTypes
<1>7. {new[k] : k \in q.leased} = (q.leased \ {l}) \cup {p}
  OBVIOUS
<1>8. r = [q EXCEPT !.leased = {new[k] : k \in q.leased}]
  BY <1>7 DEF Claim, p
<1> HIDE DEF r, new
<1>9. Kept(q, r) /\ r.leased = (q.leased \ {l}) \cup {p}
  BY <1>6, <1>7, <1>8, LeasesKept
<1>10. OwnsIt(r, w, p.msg)
  BY <1>2, <1>9 DEF OwnsIt
<1> QED
  BY <1>3, <1>9, <1>10 DEF p, r

\* The renewals of a message leave every lease where it is.
LEMMA RenewSound ==
  ASSUME NEW q \in Queue, Sound(q), NEW msg
  PROVE  Kept(q, Renew(q, msg)) /\ \A v, m : OwnsIt(q, v, m) => OwnsIt(Renew(q, msg), v, m)
<1> DEFINE r == Renew(q, msg)
           new == [l \in q.leased |-> IF l.msg.id = msg.id THEN [l EXCEPT !.idle = FALSE] ELSE l]
<1>1. ASSUME NEW l \in q.leased
      PROVE  /\ new[l] \in Lease /\ new[l].msg = l.msg /\ new[l].owner = l.owner
             /\ ~l.idle => ~new[l].idle
  <2>1. l \in Lease
    BY QueueTypes
  <2> QED
    BY <2>1 DEF Lease
<1>2. r = [q EXCEPT !.leased = {new[l] : l \in q.leased}]
  BY DEF Renew
<1>3. new \in [q.leased -> Lease] /\ \A l \in q.leased : Same(new[l].msg, l.msg)
  BY <1>1 DEF Same
<1> HIDE DEF r, new
<1>4. Kept(q, r) /\ r.leased = {new[l] : l \in q.leased}
  BY <1>2, <1>3, LeasesKept
<1>5. \A v, m : OwnsIt(q, v, m) => OwnsIt(r, v, m)
  BY <1>1, <1>4 DEF OwnsIt
<1> QED
  BY <1>4, <1>5 DEF r

\* A lease that runs out is lost to its owner, and no other is.
LEMMA IdleSound ==
  ASSUME NEW q \in Queue, Sound(q), NEW l \in q.leased
  PROVE  Kept(q, Idle(q, l)) /\ q.leased \ {l} \subseteq Idle(q, l).leased
<1> DEFINE r == Idle(q, l)
           p == [l EXCEPT !.idle = TRUE]
           new == [k \in q.leased |-> IF k = l THEN p ELSE k]
<1>1. p \in Lease /\ p.msg = l.msg
  <2>1. l \in Lease
    BY QueueTypes
  <2> QED
    BY <2>1 DEF Lease
<1> HIDE DEF p
<1>2. \A k \in q.leased : Same(k.msg, k.msg)
  BY DEF Same
<1>3. new \in [q.leased -> Lease] /\ \A k \in q.leased : Same(new[k].msg, k.msg)
  BY <1>1, <1>2, QueueTypes
<1>4. {new[k] : k \in q.leased} = (q.leased \ {l}) \cup {p}
  OBVIOUS
<1>5. r = [q EXCEPT !.leased = {new[k] : k \in q.leased}]
  BY <1>4 DEF Idle, p
<1> HIDE DEF r, new
<1> QED
  BY <1>3, <1>4, <1>5, LeasesKept DEF r

\* The leases of a server that stops are nobody's.
LEMMA RestartSound ==
  ASSUME NEW q \in Queue, Sound(q), NEW v \in Servers, NEW r,
         r = [q EXCEPT !.leased =
                {IF l.owner \in Workers /\ Home[l.owner] = v
                 THEN [l EXCEPT !.owner = NoOne] ELSE l : l \in @}]
  PROVE  /\ Kept(q, r)
         /\ \A w \in Workers : \A m : Home[w] # v /\ OwnsIt(q, w, m) => OwnsIt(r, w, m)
<1> DEFINE new == [l \in q.leased |-> IF l.owner \in Workers /\ Home[l.owner] = v
                                      THEN [l EXCEPT !.owner = NoOne] ELSE l]
<1>1. ASSUME NEW l \in q.leased
      PROVE  /\ new[l] \in Lease /\ new[l].msg = l.msg /\ new[l].idle = l.idle
             /\ ~(l.owner \in Workers /\ Home[l.owner] = v) => new[l] = l
  <2>1. l \in Lease
    BY QueueTypes
  <2> QED
    BY <2>1 DEF Lease
<1>2. r = [q EXCEPT !.leased = {new[l] : l \in q.leased}]
  OBVIOUS
<1>3. new \in [q.leased -> Lease] /\ \A l \in q.leased : Same(new[l].msg, l.msg)
  BY <1>1 DEF Same
<1> HIDE DEF new
<1>4. Kept(q, r) /\ r.leased = {new[l] : l \in q.leased}
  BY ONLY q \in Queue, Sound(q), <1>2, <1>3, LeasesKept
<1>5. \A w \in Workers : \A m : Home[w] # v /\ OwnsIt(q, w, m) => OwnsIt(r, w, m)
  BY <1>1, <1>4 DEF OwnsIt
<1> QED
  BY <1>4, <1>5

\* What a worker that still owns its message makes of the queue: its message may
\* go, the others stay.
Taken(q, r, msg) ==
  /\ r \in Queue /\ Sound(r)
  /\ \A n : Known(r, n) => Known(q, n)
  /\ \A m \in Messages(q) : m.id # msg.id => m \in Messages(r)
  /\ \A v, m : m.id # msg.id /\ OwnsIt(q, v, m) => OwnsIt(r, v, m)
  /\ \A m \in r.dead : m \in q.dead \/ m = msg

LEMMA SettleSound ==
  ASSUME NEW q \in Queue, Sound(q), NEW w \in Workers, NEW msg \in Msg, Owns(q, w, msg)
  PROVE  LET r == Settle(q, msg)
         IN  /\ Taken(q, r, msg) /\ r.dead = q.dead /\ r.leased \subseteq q.leased
             /\ Known(q, Job(msg)) /\ ~Waits(r, Job(msg)) /\ ~Leased(r, Job(msg))
<1> DEFINE r == Settle(q, msg)
<1>1. /\ r.waiting = q.waiting /\ r.dead = q.dead /\ r.leased = q.leased \ Held(q, msg)
      /\ r \in Queue
  BY DEF Settle, Queue
<1> HIDE DEF r
<1>2. Held(q, msg) \subseteq q.leased /\ \A l \in Held(q, msg) : Job(l.msg) = Job(msg)
  BY DEF Held, Job
<1>3. PICK l0 \in Held(q, msg) : TRUE
  BY DEF Owns
<1>4. \A l \in q.leased : Job(l.msg) = Job(msg) => l \in Held(q, msg)
  BY <1>2, <1>3 DEF Sound
<1>5. Leased(q, Job(msg)) /\ ~Leased(r, Job(msg))
  BY <1>1, <1>2, <1>3, <1>4 DEF Leased
<1>6. \A j : (Waits(r, j) <=> Waits(q, j)) /\ (Leased(r, j) => Leased(q, j))
  BY <1>1 DEF Waits, Leased
<1>7. Sound(r)
  BY <1>1, <1>6 DEF Sound
<1>8. ~Waits(r, Job(msg)) /\ Known(q, Job(msg))
  BY <1>5, <1>6, JobTypes DEF Sound, Known
<1>9. \A m \in Messages(q) : m.id # msg.id => m \in Messages(r)
  BY <1>1 DEF Messages, Held
<1>10. \A v, m : m.id # msg.id /\ OwnsIt(q, v, m) => OwnsIt(r, v, m)
  BY <1>1 DEF OwnsIt, Held
<1>11. \A j : Known(r, j) => Known(q, j)
  BY <1>1, <1>6 DEF Known
<1> QED
  BY <1>1, <1>5, <1>7, <1>8, <1>9, <1>10, <1>11 DEF r, Taken

\* The next try takes its place ...
LEMMA RequeueSound ==
  ASSUME NEW q \in Queue, Sound(q), NEW w \in Workers, NEW msg \in Msg, Owns(q, w, msg),
         NEW next \in Msg, Job(next) = Job(msg)
  PROVE  Taken(q, Requeue(q, msg, next), msg) /\ next \in Messages(Requeue(q, msg, next))
<1> DEFINE s == Settle(q, msg)
           r == Enqueue(s, next)
<1>1. /\ Taken(q, s, msg) /\ s.dead = q.dead /\ s.leased \subseteq q.leased
      /\ Known(q, Job(msg)) /\ ~Waits(s, Job(msg)) /\ ~Leased(s, Job(msg))
  BY SettleSound
<1> HIDE DEF s
<1>2. s \in Queue /\ Sound(s)
  BY <1>1 DEF Taken
<1>3. /\ r \in Queue /\ Sound(r) /\ r.leased = s.leased /\ r.dead = s.dead
      /\ \A n : Known(r, n) => Known(s, n) \/ n = Job(next)
      /\ \A m \in Messages(s) : m \in Messages(r)
      /\ next \in Messages(r)
  BY <1>1, <1>2, EnqueueSound
<1> HIDE DEF r
<1>4. \A v, m : OwnsIt(s, v, m) => OwnsIt(r, v, m)
  BY <1>3 DEF OwnsIt
<1>5. Taken(q, r, msg)
  BY <1>1, <1>3, <1>4 DEF Taken
<1> QED
  BY <1>3, <1>5 DEF Requeue, r, s

\* ... or it becomes a dead letter.
LEMMA DeadLetterSound ==
  ASSUME NEW q \in Queue, Sound(q), NEW w \in Workers, NEW msg \in Msg, Owns(q, w, msg)
  PROVE  Taken(q, DeadLetter(q, msg), msg)
<1> DEFINE s == Settle(q, msg)
           r == DeadLetter(q, msg)
<1>1. Taken(q, s, msg) /\ s.dead = q.dead /\ Known(q, Job(msg))
  BY SettleSound
<1>2. s \in Queue
  BY <1>1 DEF Taken
<1>3. r.waiting = s.waiting /\ r.leased = s.leased /\ r.dead = q.dead \cup {msg} /\ r \in Queue
  BY <1>1, <1>2 DEF DeadLetter, Queue
<1> HIDE DEF s, r
<1>4. \A j : (Waits(r, j) <=> Waits(s, j)) /\ (Leased(r, j) <=> Leased(s, j))
  BY <1>3 DEF Waits, Leased
<1>5. Sound(r)
  BY <1>1, <1>3, <1>4 DEF Sound, Taken
<1>6. \A j : Known(r, j) => Known(q, j)
  BY <1>1, <1>3, <1>4 DEF Known, Taken
<1>7. \A m : m \in Messages(s) => m \in Messages(r)
  BY <1>3 DEF Messages
<1>8. \A v, m : OwnsIt(s, v, m) => OwnsIt(r, v, m)
  BY <1>3 DEF OwnsIt
<1> QED
  BY <1>1, <1>3, <1>5, <1>6, <1>7, <1>8 DEF r, Taken

-----------------------------------------------------------------------------
(***************************************************************************)
(* Who handles what.                                                       *)
(***************************************************************************)

Grows == had' \in [Kinds -> Nat] /\ \A k \in Kinds : had'[k] >= had[k]

LEMMA EventGrows ==
  ASSUME Typed, NEW k \in Kinds, UNCHANGED had \/ Meets(k)
  PROVE  /\ Grows /\ (Meets(k) => had'[k] # 0)
         /\ \A j \in Kinds : j # k => had'[j] = had[j]
BY DEF Typed, Meets, Grows

LEMMA NamedKinds ==
  {"calls", "drops", "stalls", "restarts", "submits", "changes", "cuts", "autos"} \subseteq Kinds
BY DEF Kinds

LEMMA HandTypes ==
  ASSUME Typed, NEW w \in Runners, Busy(w)
  PROVE  /\ hand[w] \in Hand /\ hand[w].file \in Files /\ hand[w].space \in Spaces
         /\ row[hand[w].file] \in Row
         /\ w \in Workers => /\ hand[w].msg \in Msg /\ hand[w].file = hand[w].msg.file
                             /\ hand[w].space = hand[w].msg.space
BY DEF Typed, Hand, Busy, OfWorker

LEMMA WorkersAreRunners ==
  /\ Workers \subseteq Runners /\ Autos \subseteq Runners
  /\ \A w \in Runners : w \in Workers \/ w \in Autos
  /\ \A w \in Workers : w \notin Autos /\ w # NoOne
BY EmbeddingAssumption DEF Runners

\* Two messages of a submission are the same.
LEMMA OneMessage ==
  ASSUME NEW q \in Queue, Sound(q), NEW m \in Messages(q), NEW k \in Messages(q), Job(m) = Job(k)
  PROVE  m = k
<1>1. Job(m) \in Nat
  BY QueueTypes, JobTypes
<1>2. CASE (\E l \in q.leased : m = l.msg) /\ \E l \in q.leased : k = l.msg
  BY <1>2 DEF Sound
<1>3. CASE (\E i \in DOMAIN q.waiting : m = q.waiting[i]) /\ \E i \in DOMAIN q.waiting : k = q.waiting[i]
  BY <1>3 DEF Sound
<1>4. CASE (\E l \in q.leased : m = l.msg) /\ \E i \in DOMAIN q.waiting : k = q.waiting[i]
  BY <1>1, <1>4 DEF Sound, Waits, Leased
<1>5. CASE (\E l \in q.leased : k = l.msg) /\ \E i \in DOMAIN q.waiting : m = q.waiting[i]
  BY <1>1, <1>5 DEF Sound, Waits, Leased
<1> QED
  BY <1>2, <1>3, <1>4, <1>5 DEF Messages

\* While nobody stalls a busy worker's message is in the queue, under its name,
\* and nobody else handles the submission.
LEMMA HandledMessage ==
  ASSUME Inv, had.stalls = 0, NEW w \in Workers, Busy(w)
  PROVE  /\ OwnsIt(queue, w, hand[w].msg) /\ hand[w].msg \in Messages(queue)
         /\ Owns(queue, w, hand[w].msg)
         /\ \A m \in Messages(queue) : Job(m) = Job(hand[w].msg) => m = hand[w].msg
         /\ \A v \in Workers : Busy(v) /\ Job(hand[v].msg) = Job(hand[w].msg) => v = w
<1>1. OwnsIt(queue, w, hand[w].msg)
  BY DEF Inv, WorkIsOwned
<1>2. hand[w].msg \in Messages(queue) /\ Owns(queue, w, hand[w].msg)
  BY <1>1 DEF OwnsIt, Messages, Owns, Held
<1>3. \A m \in Messages(queue) : Job(m) = Job(hand[w].msg) => m = hand[w].msg
  BY <1>2, OneMessage DEF Inv, Typed, QueueIsSound
<1>4. ASSUME NEW v \in Workers, Busy(v), Job(hand[v].msg) = Job(hand[w].msg) PROVE v = w
  <2>1. OwnsIt(queue, v, hand[v].msg)
    BY <1>4 DEF Inv, WorkIsOwned
  <2> QED
    BY <1>1, <1>4, <2>1 DEF OwnsIt, Inv, QueueIsSound, Sound
<1> QED
  BY <1>1, <1>2, <1>3, <1>4

\* The same by the id of the message.
LEMMA HandledId ==
  ASSUME Inv, had.stalls = 0, NEW w \in Workers, Busy(w)
  PROVE  /\ \A m \in Messages(queue) : m.id = hand[w].msg.id => m = hand[w].msg
         /\ \A v \in Workers : Busy(v) /\ hand[v].msg.id = hand[w].msg.id => v = w
BY HandledMessage DEF Job

-----------------------------------------------------------------------------
(***************************************************************************)
(* What the steps of the pipeline have to preserve: a step of a runner w,  *)
(* on the row and the chunks of its file f, that leaves the queue alone.   *)
(***************************************************************************)

HandStep(w) ==
  /\ hand' = [hand EXCEPT ![w] = hand'[w]] /\ hand'[w] \in Hand
  /\ hand'[w].pc # "idle" => /\ hand'[w].msg = hand[w].msg
                             /\ hand'[w].file = hand[w].file
                             /\ hand'[w].space = hand[w].space
  /\ w \in Autos => OfAuto(hand'[w])

\* The row t that comes of r keeps its history.
Comes(r, t) ==
  /\ r.been \subseteq t.been /\ t.space \in t.been \cup {NoSpace}
  /\ t.back \/ (t.space = r.space /\ ~r.back) \/ t.space \notin r.been

RowStep(f) ==
  /\ row' = [row EXCEPT ![f] = row'[f]] /\ row'[f] \in Row /\ Comes(row[f], row'[f])
  /\ chunks' = [chunks EXCEPT ![f] = chunks'[f]] /\ chunks'[f] \in {chunks[f], row'[f].space}

IndexedStep(w, f) ==
  /\ row'[f].status = "ready" /\ ~row'[f].back => chunks'[f] = row'[f].space
  /\ hand'[w].pc # "idle" => Indexed(hand'[w], row'[f], chunks'[f])

\* A worker minds the row, or leaves its message to the next; a run only minds it.
StillMinds(w, status) ==
  \/ hand'[w].pc # "idle" /\ Minds(hand'[w], status)
  \/ w \in Workers /\ hand'[w].pc = "idle"

\* Who makes a row queued or processing minds it, ...
TakesUp(w, f) ==
  row'[f] # row[f] /\ row'[f].status \in Underway =>
    /\ row'[f].space = hand[w].space
    /\ (w \in Autos => had'.calls = 0) => StillMinds(w, row'[f].status)
    /\ row'[f].status = "queued" => w \in Workers

\* ... and who minds it goes on.
GoesOn(w, f) ==
  \A status \in Underway :
    /\ Minds(hand[w], status)
    /\ row'[f].status = status /\ row'[f].space = hand[w].space
    /\ w \in Autos => had'.calls = 0
    /\ had'.drops = 0
    => StillMinds(w, status)

QuietStep(w) ==
  /\ HandStep(w) /\ RowStep(hand[w].file) /\ IndexedStep(w, hand[w].file)
  /\ TakesUp(w, hand[w].file) /\ GoesOn(w, hand[w].file)
  /\ UNCHANGED <<queue, userVars>>
  /\ Grows /\ had'.submits = had.submits

LEMMA OthersStay ==
  ASSUME Typed, NEW w \in Runners, NEW f \in Files, HandStep(w), RowStep(f)
  PROVE  /\ \A v \in Runners \ {w} : hand'[v] = hand[v]
         /\ \A g \in Files \ {f} : row'[g] = row[g] /\ chunks'[g] = chunks[g]
BY DEF Typed, HandStep, RowStep

LEMMA QuietTypes ==
  ASSUME Typed, NEW w \in Runners, Busy(w), QuietStep(w)
  PROVE  Typed'
<1>1. hand[w].file \in Files /\ (w \in Workers => OfWorker(hand[w]))
  BY HandTypes DEF Typed
<1>2. \A v \in Runners \ {w} : hand'[v] = hand[v]
  BY <1>1, OthersStay DEF QuietStep
<1>3. hand' \in [Runners -> Hand]
  BY DEF Typed, QuietStep, HandStep
<1>4. \A v \in Workers : OfWorker(hand'[v])
  BY <1>1, <1>2, WorkersAreRunners DEF Typed, QuietStep, HandStep, OfWorker, Busy
<1>5. \A v \in Autos : OfAuto(hand'[v])
  BY <1>2, WorkersAreRunners DEF Typed, QuietStep, HandStep
<1>6. row' \in [Files -> Row]
  BY <1>1 DEF Typed, QuietStep, RowStep
<1>7. chunks' \in [Files -> SpaceOrNone]
  BY <1>1 DEF Typed, QuietStep, RowStep, Row
<1> QED
  BY <1>3, <1>4, <1>5, <1>6, <1>7 DEF Typed, QuietStep, Grows, userVars

LEMMA QuietMinds ==
  ASSUME Inv, NEW w \in Runners, Busy(w), QuietStep(w), had.stalls = 0, had'.drops = 0,
         NEW g \in Files, NEW status \in Underway,
         row'[g].status = status,
         row'[g] = row[g] => IsMinded(queue, hand, g, row[g].space, status),
         w \in Autos => row'[g] = row[g]
  PROVE  IsMinded(queue', hand', g, row'[g].space, status)
<1> DEFINE f == hand[w].file
<1>1. f \in Files /\ Typed
  BY HandTypes DEF Inv
<1>2. \A v \in Runners \ {w} : hand'[v] = hand[v]
  BY <1>1, OthersStay DEF QuietStep
<1>3. \A h \in Files \ {f} : row'[h] = row[h]
  BY <1>1, OthersStay DEF QuietStep
<1>4. queue' = queue
  BY DEF QuietStep
<1>5. hand'[w].pc # "idle" => hand'[w].msg = hand[w].msg
  BY DEF QuietStep, HandStep
<1>6. CASE row'[g] = row[g]
  <2>1. PICK m \in Messages(queue) : m.file = g /\ m.space = row[g].space /\ MindedBy(hand, m, status)
    BY <1>6 DEF IsMinded
  <2>2. ASSUME NEW v \in Workers, hand'[v].pc # "idle", hand'[v].msg.id = m.id
        PROVE  Minds(hand'[v], status)
    <3>1. CASE v # w
      BY <1>2, <2>1, <2>2, <3>1, WorkersAreRunners DEF MindedBy
    <3>2. CASE v = w
      <4>1. hand[w].msg.id = m.id /\ Busy(w) /\ w \in Workers
        BY <1>5, <2>2, <3>2
      <4>2. Minds(hand[w], status)
        BY <2>1, <4>1 DEF MindedBy, Busy
      <4>3. m = hand[w].msg
        BY <4>1, HandledId
      <4>4. m.file = f /\ m.space = hand[w].space
        BY <1>1, <4>1, <4>3, HandTypes
      <4>5. f = g /\ row'[f].status = status /\ row'[f].space = hand[w].space
        BY <1>6, <2>1, <4>4
      <4>6. w \notin Autos
        BY <4>1, WorkersAreRunners
      <4> QED
        BY <2>2, <3>2, <4>2, <4>5, <4>6 DEF QuietStep, GoesOn, StillMinds
    <3> QED
      BY <3>1, <3>2
  <2>3. MindedBy(hand', m, status)
    BY <2>2 DEF MindedBy
  <2> QED
    BY <1>4, <1>6, <2>1, <2>3 DEF IsMinded
<1>7. CASE row'[g] # row[g]
  <2>1. g = f /\ w \in Workers
    BY <1>3, <1>7, WorkersAreRunners
  <2>2. row'[f].space = hand[w].space /\ (hand'[w].pc # "idle" => Minds(hand'[w], status))
    BY <1>7, <2>1, WorkersAreRunners DEF QuietStep, TakesUp, StillMinds
  <2>3. /\ hand[w].msg \in Messages(queue) /\ hand[w].msg.file = f
        /\ hand[w].msg.space = hand[w].space
    BY <1>1, <2>1, HandledMessage, HandTypes
  <2>4. ASSUME NEW v \in Workers, hand'[v].pc # "idle", hand'[v].msg.id = hand[w].msg.id
        PROVE  Minds(hand'[v], status)
    <3>1. CASE v = w
      BY <2>2, <2>4, <3>1
    <3>2. CASE v # w
      <4>1. hand'[v] = hand[v]
        BY <1>2, <3>2, WorkersAreRunners
      <4> QED
        BY <2>1, <2>4, <3>2, <4>1, HandledId DEF Busy
    <3> QED
      BY <3>1, <3>2
  <2>5. MindedBy(hand', hand[w].msg, status)
    BY <2>4 DEF MindedBy
  <2> QED
    BY <1>4, <2>1, <2>2, <2>3, <2>5 DEF IsMinded
<1> QED
  BY <1>6, <1>7

LEMMA QuietQueued ==
  ASSUME Inv, NEW w \in Runners, Busy(w), QuietStep(w)
  PROVE  QueuedIsMinded'
<1> SUFFICES ASSUME had'.cuts = 0, had'.stalls = 0, had'.drops = 0,
                    NEW g \in Files, row'[g].status = "queued",
                    ~(Asked(g)' /\ submit'[g].space = row'[g].space)
             PROVE  IsMinded(queue', hand', g, row'[g].space, "queued")
  BY DEF QueuedIsMinded
<1>1. had.cuts = 0 /\ had.stalls = 0 /\ had.drops = 0
  BY NamedKinds DEF Inv, Typed, QuietStep, Grows
<1>2. submit' = submit
  BY DEF QuietStep, userVars
<1>3. row'[g] = row[g] => IsMinded(queue, hand, g, row[g].space, "queued")
  BY <1>1, <1>2 DEF Inv, QueuedIsMinded, Asked
<1>4. hand[w].file \in Files
  BY HandTypes DEF Inv
<1>5. g # hand[w].file => row'[g] = row[g]
  BY <1>4, OthersStay DEF QuietStep, Inv
<1>6. w \in Autos => row'[g] = row[g]
  BY <1>5, WorkersAreRunners DEF QuietStep, TakesUp, Underway
<1> QED
  BY <1>1, <1>3, <1>6, QuietMinds DEF Underway

LEMMA QuietProcessing ==
  ASSUME Inv, NEW w \in Runners, Busy(w), QuietStep(w), w \in Autos => had.autos # 0
  PROVE  ProcessingIsMinded'
<1> SUFFICES ASSUME had'.stalls = 0, had'.drops = 0,
                    had'.autos = 0 \/ (had'.calls = 0 /\ had'.restarts = 0),
                    NEW g \in Files, row'[g].status = "processing",
                    ~MindedByAuto(hand', g, row'[g].space)
             PROVE  IsMinded(queue', hand', g, row'[g].space, "processing")
  BY DEF ProcessingIsMinded
<1> DEFINE f == hand[w].file
<1>1. /\ had.stalls = 0 /\ had.drops = 0
      /\ (had.autos = 0 \/ (had.calls = 0 /\ had.restarts = 0))
      /\ w \in Autos => had'.calls = 0
  BY NamedKinds DEF Inv, Typed, QuietStep, Grows
<1>2. f \in Files /\ Typed
  BY HandTypes DEF Inv
<1>3. \A v \in Runners \ {w} : hand'[v] = hand[v]
  BY <1>2, OthersStay DEF QuietStep
<1>4. g # f => row'[g] = row[g]
  BY <1>2, OthersStay DEF QuietStep
<1>5. w \in Autos => row'[g] = row[g]
  <2> SUFFICES ASSUME w \in Autos, row'[g] # row[g] PROVE FALSE
    OBVIOUS
  <2>1. g = f
    BY <1>4
  <2>2. /\ row'[f].space = hand[w].space /\ hand'[w].pc # "idle"
        /\ Minds(hand'[w], "processing")
    BY <1>1, <2>1, WorkersAreRunners DEF QuietStep, TakesUp, StillMinds, Underway
  <2>3. hand'[w].file = f /\ hand'[w].space = hand[w].space
    BY <2>2 DEF QuietStep, HandStep
  <2> QED
    BY <2>1, <2>2, <2>3 DEF MindedByAuto
<1>6. ASSUME row'[g] = row[g] PROVE IsMinded(queue, hand, g, row[g].space, "processing")
  <2>1. ~MindedByAuto(hand, g, row[g].space)
    <3> SUFFICES ASSUME NEW a \in Autos, Busy(a), hand[a].file = g, hand[a].space = row[g].space,
                        Minds(hand[a], "processing")
                 PROVE  FALSE
      BY DEF MindedByAuto, Busy
    <3>1. CASE a # w
      BY <1>3, <1>6, <3>1, WorkersAreRunners DEF MindedByAuto, Busy
    <3>2. CASE a = w
      <4>1. hand'[w].pc # "idle" /\ Minds(hand'[w], "processing")
        BY <1>1, <1>6, <3>2, WorkersAreRunners DEF QuietStep, GoesOn, StillMinds, Underway
      <4>2. hand'[w].file = g /\ hand'[w].space = row'[g].space
        BY <1>6, <3>2, <4>1 DEF QuietStep, HandStep
      <4> QED
        BY <3>2, <4>1, <4>2 DEF MindedByAuto
    <3> QED
      BY <3>1, <3>2
  <2> QED
    BY <1>1, <1>6, <2>1 DEF Inv, ProcessingIsMinded
<1> QED
  BY <1>1, <1>5, <1>6, QuietMinds DEF Underway

LEMMA QuietIndexes ==
  ASSUME Inv, NEW w \in Runners, Busy(w), QuietStep(w)
  PROVE  IndexesAreKnown'
<1> DEFINE f == hand[w].file
<1>1. f \in Files /\ Typed
  BY HandTypes DEF Inv
<1>2. \A v \in Runners \ {w} : hand'[v] = hand[v]
  BY <1>1, OthersStay DEF QuietStep
<1>3. \A g \in Files \ {f} : row'[g] = row[g] /\ chunks'[g] = chunks[g]
  BY <1>1, OthersStay DEF QuietStep
<1>4. RowStep(f) /\ IndexedStep(w, f)
  BY DEF QuietStep
<1>5. \A g \in Files : row'[g].space \in row'[g].been \cup {NoSpace}
  BY <1>3, <1>4 DEF Inv, IndexesAreKnown, RowStep, Comes
<1>6. \A g \in Files : row'[g].status = "ready" /\ ~row'[g].back => chunks'[g] = row'[g].space
  BY <1>3, <1>4 DEF Inv, IndexesAreKnown, IndexedStep
<1>7. ASSUME NEW v \in Runners, hand'[v].pc # "idle"
      PROVE  Indexed(hand'[v], row'[hand'[v].file], chunks'[hand'[v].file])
  <2>1. CASE v = w
    BY <1>4, <1>7, <2>1 DEF IndexedStep, QuietStep, HandStep
  <2>2. CASE v # w
    <3>1. hand'[v] = hand[v] /\ Indexed(hand[v], row[hand[v].file], chunks[hand[v].file])
      BY <1>2, <1>7, <2>2 DEF Inv, IndexesAreKnown, Busy
    <3>2. hand[v].file \in Files
      BY <1>1, <1>7, <3>1, HandTypes DEF Busy
    <3>3. CASE hand[v].file # f
      BY <1>3, <3>1, <3>2, <3>3
    <3>4. CASE hand[v].file = f
      BY <1>4, <3>1, <3>4 DEF RowStep, Comes, Indexed
    <3> QED
      BY <3>3, <3>4
  <2> QED
    BY <2>1, <2>2
<1> QED
  BY <1>5, <1>6, <1>7 DEF IndexesAreKnown, Busy

LEMMA QuietKeeps ==
  ASSUME Inv, NEW w \in Runners, Busy(w), QuietStep(w)
  PROVE  Inv'
<1>1. w \in Autos => had.autos # 0
  BY DEF Inv, AutosAreCounted
<1>2. queue' = queue /\ submit' = submit /\ had'.submits = had.submits
  BY DEF QuietStep, userVars
<1>3. \A v \in Runners \ {w} : hand'[v] = hand[v]
  BY HandTypes, OthersStay DEF QuietStep, Inv
<1>4. QueueIsSound' /\ SubmitsAreNew'
  BY <1>2 DEF Inv, QueueIsSound, SubmitsAreNew, Pending
<1>5. WorkIsOwned'
  <2> SUFFICES ASSUME had'.stalls = 0, NEW v \in Workers, hand'[v].pc # "idle"
               PROVE  OwnsIt(queue', v, hand'[v].msg)
    BY DEF WorkIsOwned, Busy
  <2>1. had.stalls = 0
    BY NamedKinds DEF Inv, Typed, QuietStep, Grows
  <2>2. hand'[v].msg = hand[v].msg /\ Busy(v)
    BY <1>3, WorkersAreRunners DEF QuietStep, HandStep, Busy
  <2> QED
    BY <1>2, <2>1, <2>2 DEF Inv, WorkIsOwned
<1>6. AutosAreCounted'
  <2> SUFFICES ASSUME had'.autos = 0, NEW a \in Autos PROVE hand'[a].pc = "idle"
    BY DEF AutosAreCounted, Busy
  <2>1. had.autos = 0
    BY NamedKinds DEF Inv, Typed, QuietStep, Grows
  <2> QED
    BY <1>1, <1>3, <2>1, WorkersAreRunners DEF Inv, AutosAreCounted, Busy
<1> QED
  BY <1>1, <1>4, <1>5, <1>6, QuietTypes, QuietQueued, QuietProcessing, QuietIndexes DEF Inv

-----------------------------------------------------------------------------
(***************************************************************************)
(* The statements on the row, and where the worker goes.                   *)
(***************************************************************************)

\* A row is only written while it is of the space.
LEMMA SetStatusMoves ==
  ASSUME Inv, NEW f \in Files, NEW s, NEW status \in Statuses, SetStatus(f, s, status), UNCHANGED chunks,
         row[f].space = s /\ status = "ready" /\ ~row[f].back => chunks[f] = s
  PROVE  /\ RowStep(f) /\ row'[f].space = row[f].space
         /\ row'[f].been = row[f].been /\ row'[f].back = row[f].back
         /\ row'[f].status = IF row[f].space = s THEN status ELSE row[f].status
         /\ row'[f].status = "ready" /\ ~row'[f].back => chunks'[f] = row'[f].space
         /\ row'[f] = row[f] \/ row'[f].status = status
<1>1. row \in [Files -> Row] /\ row[f] \in Row /\ chunks \in [Files -> SpaceOrNone]
  BY DEF Inv, Typed
<1>2. row[f].space \in row[f].been \cup {NoSpace}
  BY DEF Inv, IndexesAreKnown
<1>3. row[f].status = "ready" /\ ~row[f].back => chunks[f] = row[f].space
  BY DEF Inv, IndexesAreKnown
<1>4. chunks' = [chunks EXCEPT ![f] = chunks'[f]] /\ chunks'[f] = chunks[f]
  BY <1>1
<1>5. CASE row[f].space = s
  <2>1. row' = [row EXCEPT ![f] = row'[f]] /\ row'[f] = [row[f] EXCEPT !.status = status]
    BY <1>1, <1>5 DEF SetStatus
  <2>2. /\ row'[f] \in Row /\ row'[f].space = row[f].space /\ row'[f].status = status
        /\ row'[f].been = row[f].been /\ row'[f].back = row[f].back
    BY <1>1, <2>1 DEF Row
  <2>3. Comes(row[f], row'[f])
    BY <1>1, <1>2, <2>2 DEF Comes, Row
  <2> QED
    BY <1>4, <1>5, <2>1, <2>2, <2>3 DEF RowStep
<1>6. CASE row[f].space # s
  <2>1. row' = row
    BY <1>6 DEF SetStatus
  <2>2. row' = [row EXCEPT ![f] = row'[f]]
    BY <1>1, <2>1
  <2>3. Comes(row[f], row'[f])
    BY <1>1, <1>2, <2>1 DEF Comes, Row
  <2> QED
    BY <1>1, <1>3, <1>4, <1>6, <2>1, <2>2, <2>3 DEF RowStep
<1> QED
  BY <1>5, <1>6

\* Nothing is written.
LEMMA RowStays ==
  ASSUME Inv, NEW f \in Files, UNCHANGED <<row, chunks>>
  PROVE  /\ RowStep(f) /\ row'[f] = row[f] /\ chunks'[f] = chunks[f]
         /\ row'[f].status = "ready" /\ ~row'[f].back => chunks'[f] = row'[f].space
<1>1. row \in [Files -> Row] /\ row[f] \in Row /\ chunks \in [Files -> SpaceOrNone]
  BY DEF Inv, Typed
<1>2. row[f].space \in row[f].been \cup {NoSpace}
  BY DEF Inv, IndexesAreKnown
<1>3. Comes(row[f], row[f])
  BY <1>1, <1>2 DEF Comes, Row
<1> QED
  BY <1>1, <1>3 DEF RowStep, Inv, IndexesAreKnown

\* A row is taken, for the space it belongs to or another.
LEMMA GiveMoves ==
  ASSUME Inv, NEW f \in Files, NEW s \in Spaces, NEW status \in Underway, Give(f, s, status), UNCHANGED chunks
  PROVE  RowStep(f) /\ row'[f].space = s /\ row'[f].status = status /\ row'[f].been = row[f].been \cup {s}
<1>1. row \in [Files -> Row] /\ row[f] \in Row /\ chunks \in [Files -> SpaceOrNone]
  BY DEF Inv, Typed
<1>2. row[f].space \in row[f].been \cup {NoSpace}
  BY DEF Inv, IndexesAreKnown
<1>3. /\ row' = [row EXCEPT ![f] = row'[f]]
      /\ row'[f] = [status |-> status, space |-> s, been |-> row[f].been \cup {s},
                    back |-> row[f].back \/ s \in row[f].been \ {row[f].space}]
  BY <1>1 DEF Give
<1>4. status \in Statuses
  BY DEF Underway, Statuses
<1>5. row'[f] \in Row
  BY <1>1, <1>3, <1>4 DEF Row, SpaceOrNone
<1>6. Comes(row[f], row'[f])
  <2>1. row[f].been \subseteq row'[f].been /\ row'[f].space \in row'[f].been
    BY <1>3
  <2>2. CASE row'[f].back
    BY <2>1, <2>2 DEF Comes
  <2>3. CASE ~row'[f].back
    <3> DEFINE b == row[f].back \/ s \in row[f].been \ {row[f].space}
    <3>1. b \in BOOLEAN /\ row'[f] = [status |-> status, space |-> s, been |-> row[f].been \cup {s}, back |-> b]
      BY <1>3
    <3> HIDE DEF b
    <3>2. row'[f].back = b
      BY <3>1
    <3>3. ~b
      BY <2>3, <3>2
    <3>4. ~row[f].back /\ s \notin row[f].been \ {row[f].space}
      BY <3>3 DEF b
    <3> QED
      BY <1>3, <2>1, <3>4 DEF Comes
  <2> QED
    BY <2>2, <2>3
<1>7. chunks' = [chunks EXCEPT ![f] = chunks'[f]] /\ chunks'[f] = chunks[f]
  BY <1>1
<1> QED
  BY <1>3, <1>5, <1>6, <1>7 DEF RowStep

\* Where the worker goes on, ...
LEMMA GoMoves ==
  ASSUME Inv, NEW w \in Runners, Busy(w), NEW pc \in Started \cup Embedding \cup Concluding, Go(w, pc),
         w \in Autos => pc \in {"claim"} \cup Embedding,
         pc \in {"requeueRow", "requeue"} => hand[w].msg.retry < MaxRetries
  PROVE  /\ HandStep(w) /\ hand'[w].pc = pc /\ hand'[w].err = hand[w].err
         /\ hand'[w].space = hand[w].space /\ hand'[w].file = hand[w].file
<1>1. hand \in [Runners -> Hand] /\ hand[w] \in Hand
  BY DEF Inv, Typed
<1>2. hand' = [hand EXCEPT ![w] = hand'[w]] /\ hand'[w] = [hand[w] EXCEPT !.pc = pc]
  BY <1>1 DEF Go
<1>3. /\ hand'[w].pc = pc /\ hand'[w].msg = hand[w].msg /\ hand'[w].file = hand[w].file
      /\ hand'[w].space = hand[w].space /\ hand'[w].err = hand[w].err
  BY <1>1, <1>2 DEF Hand
<1>4. hand'[w] \in [pc : {"idle"} \cup Started \cup Embedding \cup Concluding, msg : Msg \cup {NoMessage},
                    file : Files \cup {NoSpace}, space : SpaceOrNone, err : BOOLEAN]
  BY <1>1, <1>2 DEF Hand
<1>5. hand'[w] \in Hand
  BY <1>1, <1>3, <1>4 DEF Hand, Busy
<1> QED
  BY <1>2, <1>3, <1>5 DEF HandStep, OfAuto

\* ... or is done with it, ...
LEMMA RestMoves ==
  ASSUME Inv, NEW w \in Runners, Busy(w), Rest(w)
  PROVE  HandStep(w) /\ hand'[w].pc = "idle"
<1>1. hand \in [Runners -> Hand]
  BY DEF Inv, Typed
<1>2. hand' = [hand EXCEPT ![w] = hand'[w]] /\ hand'[w] = Resting
  BY <1>1 DEF Rest
<1>3. Resting \in Hand /\ Resting.pc = "idle"
  BY DEF Resting, Hand, SpaceOrNone
<1> QED
  BY <1>2, <1>3 DEF HandStep, OfAuto

\* ... or has a result to conclude with, if it has a message.
LEMMA ReturnMoves ==
  ASSUME Inv, NEW w \in Runners, Busy(w), NEW err \in BOOLEAN, Return(w, err)
  PROVE  /\ HandStep(w) /\ hand'[w].pc \in {"idle", "verify"}
         /\ w \in Workers => hand'[w].pc = "verify" /\ (hand'[w].err <=> err)
         /\ w \in Autos => hand'[w].pc = "idle"
<1>1. CASE w \in Autos
  BY <1>1, RestMoves, WorkersAreRunners DEF Return
<1>2. CASE w \notin Autos
  <2>1. hand \in [Runners -> Hand] /\ hand[w] \in Hand
    BY DEF Inv, Typed
  <2>2. /\ hand' = [hand EXCEPT ![w] = hand'[w]]
        /\ hand'[w] = [hand[w] EXCEPT !.pc = "verify", !.err = err]
    BY <1>2, <2>1 DEF Return
  <2>3. /\ hand'[w].pc = "verify" /\ hand'[w].msg = hand[w].msg /\ hand'[w].file = hand[w].file
        /\ hand'[w].space = hand[w].space
    BY <2>1, <2>2 DEF Hand
  <2>4. hand'[w].err <=> err
    BY <2>1, <2>2, Zenon DEF Hand
  <2>5. hand'[w] \in [pc : {"idle"} \cup Started \cup Embedding \cup Concluding, msg : Msg \cup {NoMessage},
                      file : Files \cup {NoSpace}, space : SpaceOrNone, err : BOOLEAN]
    BY <2>1, <2>2 DEF Hand, Concluding
  <2>6. hand'[w] \in Hand
    BY <2>1, <2>3, <2>5 DEF Hand, Busy
  <2> QED
    BY <1>2, <2>2, <2>3, <2>4, <2>6 DEF HandStep
<1> QED
  BY <1>1, <1>2

\* A step whose hand has not just published minds nobody's chunks.
LEMMA NothingToIndex ==
  ASSUME NEW w, NEW f, row'[f].status = "ready" /\ ~row'[f].back => chunks'[f] = row'[f].space,
         hand'[w].pc \notin {"check", "ready"}
  PROVE  IndexedStep(w, f)
BY DEF IndexedStep, Indexed

\* A run that fails has no message to say so to.
LEMMA FailedCall ==
  ASSUME Inv, NEW w \in Runners, Busy(w), Return(w, TRUE), Meets("calls")
  PROVE  GoesOn(w, hand[w].file)
<1>1. had'["calls"] # 0
  BY EventGrows, NamedKinds DEF Inv
<1>2. w \in Workers => hand'[w].pc # "idle" /\ Minds(hand'[w], "queued") /\ Minds(hand'[w], "processing")
  BY ReturnMoves DEF Minds
<1> QED
  BY <1>1, <1>2, WorkersAreRunners DEF GoesOn, StillMinds, Underway

\* The steps of the pipeline that leave the queue alone, ...
LEMMA PipelineKeeps ==
  ASSUME Inv, NEW w \in Runners, Busy(w), HandStep(w), RowStep(hand[w].file),
         IndexedStep(w, hand[w].file), TakesUp(w, hand[w].file), GoesOn(w, hand[w].file),
         UNCHANGED <<queue, userVars>>, UNCHANGED had \/ Meets("calls") \/ Meets("drops")
  PROVE  Inv'
<1>1. Grows /\ had'.submits = had.submits
  BY EventGrows, NamedKinds DEF Inv
<1> QED
  BY <1>1, QuietKeeps DEF QuietStep

\* ... those that write nothing, ...
LEMMA LookingKeeps ==
  ASSUME Inv, NEW w \in Runners, Busy(w), HandStep(w), hand'[w].pc \notin {"check", "ready"},
         GoesOn(w, hand[w].file),
         UNCHANGED <<dataVars, queue, userVars>>, UNCHANGED had \/ Meets("calls") \/ Meets("drops")
  PROVE  Inv'
<1> DEFINE f == hand[w].file
<1>1. f \in Files
  BY HandTypes DEF Inv
<1>2. /\ RowStep(f) /\ row'[f] = row[f]
      /\ row'[f].status = "ready" /\ ~row'[f].back => chunks'[f] = row'[f].space
  BY <1>1, RowStays DEF dataVars
<1>3. IndexedStep(w, f) /\ TakesUp(w, f)
  BY <1>2, NothingToIndex DEF TakesUp
<1> QED
  BY <1>2, <1>3, PipelineKeeps

\* ... those that write a row off ...
LEMMA WritingKeeps ==
  ASSUME Inv, NEW w \in Runners, Busy(w), HandStep(w), hand'[w].pc \notin {"check", "ready"},
         NEW status \in {"stale", "empty", "failed"}, SetStatus(hand[w].file, hand[w].space, status),
         UNCHANGED <<chunks, queue, userVars>>, UNCHANGED had \/ Meets("calls") \/ Meets("drops")
  PROVE  Inv'
<1> DEFINE f == hand[w].file
<1>1. f \in Files /\ status \in Statuses /\ status # "ready" /\ status \notin Underway
  BY HandTypes DEF Inv, Statuses, Underway
<1>2. /\ RowStep(f) /\ row'[f].space = row[f].space
      /\ row'[f].status = IF row[f].space = hand[w].space THEN status ELSE row[f].status
      /\ row'[f].status = "ready" /\ ~row'[f].back => chunks'[f] = row'[f].space
      /\ row'[f] = row[f] \/ row'[f].status = status
  BY <1>1, SetStatusMoves
<1>3. IndexedStep(w, f) /\ TakesUp(w, f) /\ GoesOn(w, f)
  BY <1>1, <1>2, NothingToIndex DEF TakesUp, GoesOn
<1> QED
  BY <1>2, <1>3, PipelineKeeps

\* ... and the calls that fail, ...
LEMMA FailingKeeps ==
  ASSUME Inv, NEW w \in Runners, Busy(w), Return(w, TRUE), Meets("calls"),
         UNCHANGED <<dataVars, queue, userVars>>
  PROVE  Inv'
<1>1. HandStep(w) /\ hand'[w].pc \in {"idle", "verify"}
  BY ReturnMoves
<1> QED
  BY <1>1, FailedCall, LookingKeeps

\* ... also those that may have written a row off.
LEMMA UnansweredKeeps ==
  ASSUME Inv, NEW w \in Runners, Busy(w), Return(w, TRUE), NEW status \in {"stale", "empty", "failed"},
         Unanswered(hand[w].file, hand[w].space, status), UNCHANGED <<chunks, queue, userVars>>
  PROVE  Inv'
<1>1. HandStep(w) /\ hand'[w].pc \in {"idle", "verify"}
  BY ReturnMoves
<1>2. CASE SetStatus(hand[w].file, hand[w].space, status)
  BY <1>1, <1>2, WritingKeeps DEF Unanswered
<1>3. CASE UNCHANGED row
  BY <1>3, FailingKeeps DEF Unanswered, dataVars
<1> QED
  BY <1>2, <1>3 DEF Unanswered

LEMMA BeginKeeps ==
  ASSUME Inv, NEW w \in Runners, Begin(w)
  PROVE  Inv'
<1>1. Busy(w) /\ w \notin Autos /\ UNCHANGED <<chunks, queue, userVars>>
  BY DEF Begin, Busy, Inv, Typed, OfAuto, Embedding
<1>2. CASE Go(w, "look") /\ UNCHANGED <<row, had>>
  <2>1. HandStep(w) /\ hand'[w].pc = "look"
    BY <1>1, <1>2, GoMoves DEF Started
  <2>2. GoesOn(w, hand[w].file)
    BY <2>1 DEF GoesOn, StillMinds, Minds
  <2> QED
    BY <1>1, <1>2, <2>1, <2>2, LookingKeeps DEF dataVars
<1>3. CASE SetStatus(hand[w].file, hand[w].space, "stale") /\ Return(w, FALSE) /\ UNCHANGED had
  <2>1. HandStep(w) /\ hand'[w].pc \in {"idle", "verify"}
    BY <1>1, <1>3, ReturnMoves
  <2> QED
    BY <1>1, <1>3, <2>1, WritingKeeps
<1>4. CASE Return(w, TRUE) /\ Meets("calls") /\ UNCHANGED row
  BY <1>1, <1>4, FailingKeeps DEF dataVars
<1>5. CASE Return(w, FALSE) /\ Meets("drops") /\ UNCHANGED row
  <2>1. HandStep(w) /\ hand'[w].pc \in {"idle", "verify"}
    BY <1>1, <1>5, ReturnMoves
  <2>2. had'["drops"] # 0
    BY <1>5, EventGrows, NamedKinds DEF Inv
  <2>3. GoesOn(w, hand[w].file)
    BY <2>2 DEF GoesOn
  <2> QED
    BY <1>1, <1>5, <2>1, <2>3, LookingKeeps DEF dataVars
<1> QED
  BY <1>2, <1>3, <1>4, <1>5 DEF Begin, Tries

LEMMA LookKeeps ==
  ASSUME Inv, NEW w \in Runners, Look(w)
  PROVE  Inv'
<1>1. /\ Busy(w) /\ hand[w].pc = "look" /\ w \notin Autos /\ UNCHANGED <<dataVars, queue, userVars>>
  BY DEF Look, Busy, Inv, Typed, OfAuto, Embedding
<1> DEFINE f == hand[w].file
           takes == Takes(f, hand[w].space, {"processing"})
<1>2. takes <=> ~(row[f].space = hand[w].space /\ row[f].status = "processing")
  BY DEF Takes
<1>3. row' = row
  BY <1>1 DEF dataVars
<1>4. CASE takes /\ Go(w, "claim") /\ UNCHANGED had
  <2>1. HandStep(w) /\ hand'[w].pc = "claim"
    BY <1>1, <1>4, GoMoves DEF Started
  <2>2. GoesOn(w, f)
    BY <1>2, <1>3, <1>4, <2>1 DEF GoesOn, StillMinds, Minds, Underway
  <2> QED
    BY <1>1, <1>4, <2>1, <2>2, LookingKeeps
<1>5. CASE ~takes /\ Go(w, "embed") /\ UNCHANGED had
  <2>1. HandStep(w) /\ hand'[w].pc = "embed"
    BY <1>1, <1>5, GoMoves DEF Embedding
  <2>2. GoesOn(w, f)
    BY <1>2, <1>3, <1>5, <2>1 DEF GoesOn, StillMinds, Minds, Underway
  <2> QED
    BY <1>1, <1>5, <2>1, <2>2, LookingKeeps
<1>6. CASE Return(w, TRUE) /\ Meets("calls")
  BY <1>1, <1>6, FailingKeeps
<1> QED
  BY <1>4, <1>5, <1>6 DEF Look

LEMMA ClaimRowKeeps ==
  ASSUME Inv, NEW w \in Runners, ClaimRow(w)
  PROVE  Inv'
<1>1. Busy(w) /\ hand[w].pc = "claim" /\ UNCHANGED <<chunks, queue, userVars>>
  BY DEF ClaimRow, Busy
<1> DEFINE f == hand[w].file
           s == hand[w].space
           can == Takes(f, s, {"processing", "ready"})
<1>2. f \in Files /\ s \in Spaces
  BY <1>1, HandTypes DEF Inv
<1>3. CASE Give(f, s, "processing") /\ Go(w, "embed") /\ UNCHANGED had
  <2>1. /\ HandStep(w) /\ hand'[w].pc = "embed"
    BY <1>1, <1>3, GoMoves DEF Embedding
  <2>2. RowStep(f) /\ row'[f].space = s /\ row'[f].status = "processing"
    BY <1>1, <1>2, <1>3, GiveMoves DEF Underway
  <2>3. IndexedStep(w, f) /\ TakesUp(w, f) /\ GoesOn(w, f)
    BY <2>1, <2>2, NothingToIndex DEF TakesUp, GoesOn, StillMinds, Minds, Underway
  <2> QED
    BY <1>1, <1>3, <2>1, <2>2, <2>3, PipelineKeeps
<1>4. CASE ~can /\ Return(w, FALSE) /\ UNCHANGED <<row, had>>
  <2>1. HandStep(w) /\ hand'[w].pc \in {"idle", "verify"}
    BY <1>1, <1>4, ReturnMoves
  <2>2. row[f].status \in {"processing", "ready"}
    BY <1>4 DEF Takes
  <2>3. GoesOn(w, f)
    BY <1>1, <1>4, <2>2 DEF GoesOn, StillMinds, Minds, Underway
  <2> QED
    BY <1>1, <1>4, <2>1, <2>3, LookingKeeps DEF dataVars
<1>5. CASE Return(w, TRUE) /\ Meets("calls") /\ UNCHANGED row
  BY <1>1, <1>5, FailingKeeps DEF dataVars
<1>6. CASE Return(w, TRUE) /\ Meets("calls") /\ Give(f, s, "processing")
  <2>1. /\ HandStep(w) /\ hand'[w].pc \in {"idle", "verify"}
        /\ w \in Workers => hand'[w].pc = "verify" /\ hand'[w].err
    BY <1>1, <1>6, ReturnMoves
  <2>2. RowStep(f) /\ row'[f].space = s /\ row'[f].status = "processing"
    BY <1>1, <1>2, <1>6, GiveMoves DEF Underway
  <2>3. had'["calls"] # 0
    BY <1>6, EventGrows, NamedKinds DEF Inv
  <2>4. IndexedStep(w, f) /\ TakesUp(w, f) /\ GoesOn(w, f)
    BY <1>1, <1>6, <2>1, <2>2, <2>3, NothingToIndex, FailedCall, WorkersAreRunners
       DEF TakesUp, StillMinds, Minds
  <2> QED
    BY <1>1, <1>6, <2>1, <2>2, <2>4, PipelineKeeps
<1> QED
  BY <1>3, <1>4, <1>5, <1>6 DEF ClaimRow

LEMMA EmbedTextsKeeps ==
  ASSUME Inv, NEW w \in Runners, EmbedTexts(w)
  PROVE  Inv'
<1>1. Busy(w) /\ hand[w].pc = "embed" /\ UNCHANGED <<chunks, queue, userVars>>
  BY DEF EmbedTexts, Busy
<1>2. CASE Go(w, "publish") /\ UNCHANGED <<row, had>>
  <2>1. HandStep(w) /\ hand'[w].pc = "publish"
    BY <1>1, <1>2, GoMoves DEF Embedding
  <2>2. GoesOn(w, hand[w].file)
    BY <1>1, <2>1 DEF GoesOn, StillMinds, Minds, Underway
  <2> QED
    BY <1>1, <1>2, <2>1, <2>2, LookingKeeps DEF dataVars
<1>3. CASE SetStatus(hand[w].file, hand[w].space, "empty") /\ Return(w, FALSE) /\ UNCHANGED had
  <2>1. HandStep(w) /\ hand'[w].pc \in {"idle", "verify"}
    BY <1>1, <1>3, ReturnMoves
  <2> QED
    BY <1>1, <1>3, <2>1, WritingKeeps
<1>4. CASE SetStatus(hand[w].file, hand[w].space, "failed") /\ Return(w, TRUE) /\ UNCHANGED had
  <2>1. HandStep(w) /\ hand'[w].pc \in {"idle", "verify"}
    BY <1>1, <1>4, ReturnMoves
  <2> QED
    BY <1>1, <1>4, <2>1, WritingKeeps
<1>5. CASE Unanswered(hand[w].file, hand[w].space, "empty") /\ Return(w, TRUE)
  BY <1>1, <1>5, UnansweredKeeps
<1>6. CASE Return(w, TRUE) /\ Meets("calls") /\ UNCHANGED row
  BY <1>1, <1>6, FailingKeeps DEF dataVars
<1> QED
  BY <1>2, <1>3, <1>4, <1>5, <1>6 DEF EmbedTexts, Tries

LEMMA ReplaceFileChunksKeeps ==
  ASSUME Inv, NEW w \in Runners, ReplaceFileChunks(w)
  PROVE  Inv'
<1>1. Busy(w) /\ hand[w].pc = "publish" /\ UNCHANGED <<queue, userVars>>
  BY DEF ReplaceFileChunks, Busy
<1> DEFINE f == hand[w].file
           s == hand[w].space
<1>2. f \in Files /\ s \in Spaces /\ row[f] \in Row
  BY <1>1, HandTypes DEF Inv
<1>3. CASE Publishable(f, s) /\ chunks' = [chunks EXCEPT ![f] = s] /\ Go(w, "check") /\ UNCHANGED <<row, had>>
  <2>1. HandStep(w) /\ hand'[w].pc = "check" /\ hand'[w].space = s
    BY <1>1, <1>3, GoMoves DEF Embedding
  <2>2. row' = row /\ row[f].space = s /\ row[f].status = "processing"
    BY <1>3 DEF Publishable
  <2>3. chunks' = [chunks EXCEPT ![f] = chunks'[f]] /\ chunks'[f] = s
    BY <1>2, <1>3 DEF Inv, Typed
  <2>4. s \in row[f].been
    BY <1>2, <2>2, EmbeddingAssumption DEF Inv, IndexesAreKnown
  <2>5. Comes(row[f], row'[f])
    BY <1>2, <2>2, <2>4 DEF Comes, Row
  <2>6. row' = [row EXCEPT ![f] = row'[f]]
    BY <1>2, <2>2 DEF Inv, Typed
  <2>7. RowStep(f)
    BY <1>2, <2>2, <2>3, <2>5, <2>6 DEF RowStep
  <2>8. IndexedStep(w, f) /\ TakesUp(w, f)
    BY <2>1, <2>2, <2>3, <2>4 DEF IndexedStep, Indexed, TakesUp
  <2>9. GoesOn(w, f)
    BY <1>1, <2>1 DEF GoesOn, StillMinds, Minds, Underway
  <2> QED
    BY <1>1, <1>3, <2>1, <2>7, <2>8, <2>9, PipelineKeeps
<1>4. CASE ~Publishable(f, s) /\ Return(w, FALSE) /\ UNCHANGED <<row, chunks, had>>
  <2>1. HandStep(w) /\ hand'[w].pc \in {"idle", "verify"}
    BY <1>1, <1>4, ReturnMoves
  <2>2. GoesOn(w, f)
    BY <1>1, <1>4 DEF GoesOn, StillMinds, Minds, Underway, Publishable
  <2> QED
    BY <1>1, <1>4, <2>1, <2>2, LookingKeeps DEF dataVars
<1>5. CASE Unanswered(f, s, "failed") /\ Return(w, TRUE) /\ UNCHANGED chunks
  BY <1>1, <1>5, UnansweredKeeps
<1>6. CASE /\ Publishable(f, s) /\ chunks' = [chunks EXCEPT ![f] = s]
           /\ Unanswered(f, s, "failed") /\ Return(w, TRUE)
  <2>1. HandStep(w) /\ hand'[w].pc \in {"idle", "verify"}
    BY <1>1, <1>6, ReturnMoves
  <2>2. row \in [Files -> Row] /\ row[f].space = s /\ row[f].status = "processing"
    BY <1>6 DEF Publishable, Inv, Typed
  <2>3. row' = row \/ row' = [row EXCEPT ![f].status = "failed"]
    BY <1>6, <2>2 DEF Unanswered, SetStatus
  <2>4. /\ row' = [row EXCEPT ![f] = row'[f]] /\ row'[f] \in Row
        /\ row'[f].space = s /\ row'[f].been = row[f].been /\ row'[f].back = row[f].back
        /\ row'[f] = row[f] \/ row'[f].status = "failed"
    BY <1>2, <2>2, <2>3 DEF Row, Statuses
  <2>5. chunks' = [chunks EXCEPT ![f] = chunks'[f]] /\ chunks'[f] = s
    BY <1>2, <1>6 DEF Inv, Typed
  <2>6. Comes(row[f], row'[f])
    BY <1>2, <2>2, <2>4 DEF Comes, Row, Inv, IndexesAreKnown
  <2>7. RowStep(f)
    BY <2>4, <2>5, <2>6 DEF RowStep
  <2>8. IndexedStep(w, f) /\ TakesUp(w, f)
    BY <2>1, <2>2, <2>4, <2>5, NothingToIndex DEF TakesUp, Underway
  <2>9. GoesOn(w, f) /\ Meets("calls")
    BY <1>1, <1>6, FailedCall DEF Unanswered
  <2> QED
    BY <1>1, <2>1, <2>7, <2>8, <2>9, PipelineKeeps
<1> QED
  BY <1>3, <1>4, <1>5, <1>6 DEF ReplaceFileChunks

LEMMA CheckSpaceKeeps ==
  ASSUME Inv, NEW w \in Runners, CheckSpace(w)
  PROVE  Inv'
<1>1. Busy(w) /\ hand[w].pc = "check" /\ UNCHANGED <<dataVars, queue, userVars>>
  BY DEF CheckSpace, Busy
<1> DEFINE f == hand[w].file
           pc == IF Current(w) THEN "ready" ELSE "outdated"
<1>2. f \in Files
  BY <1>1, HandTypes DEF Inv
<1>3. CASE Go(w, pc) /\ UNCHANGED had
  <2>1. pc \in {"ready", "outdated"} /\ Go(w, pc) /\ UNCHANGED had
    BY <1>3
  <2> HIDE DEF pc
  <2>2. pc \in Started \cup Embedding \cup Concluding /\ pc \in Embedding /\ pc \notin {"requeueRow", "requeue"}
    BY <2>1 DEF Embedding
  <2>3. HandStep(w) /\ hand'[w].pc \in {"ready", "outdated"} /\ hand'[w].space = hand[w].space
    BY <1>1, <2>1, <2>2, GoMoves
  <2>4. /\ RowStep(f) /\ row'[f] = row[f] /\ chunks'[f] = chunks[f]
        /\ row'[f].status = "ready" /\ ~row'[f].back => chunks'[f] = row'[f].space
    BY <1>1, <1>2, RowStays DEF dataVars
  <2>5. Indexed(hand[w], row[f], chunks[f])
    BY <1>1 DEF Inv, IndexesAreKnown
  <2>6. IndexedStep(w, f) /\ TakesUp(w, f)
    BY <1>1, <2>3, <2>4, <2>5 DEF IndexedStep, Indexed, TakesUp
  <2>7. GoesOn(w, f)
    BY <1>1, <2>3 DEF GoesOn, StillMinds, Minds, Underway
  <2> QED
    BY <1>1, <2>1, <2>3, <2>4, <2>6, <2>7, PipelineKeeps
<1>4. CASE Return(w, TRUE) /\ Meets("calls")
  BY <1>1, <1>4, FailingKeeps
<1> QED
  BY <1>3, <1>4 DEF CheckSpace

LEMMA PublishReadyKeeps ==
  ASSUME Inv, NEW w \in Runners, PublishReady(w)
  PROVE  Inv'
<1>1. Busy(w) /\ hand[w].pc = "ready" /\ UNCHANGED <<chunks, queue, userVars>>
  BY DEF PublishReady, Busy
<1> DEFINE f == hand[w].file
           s == hand[w].space
<1>2. f \in Files /\ "ready" \in Statuses
  BY <1>1, HandTypes DEF Inv, Statuses
<1>3. CASE SetStatus(f, s, "ready") /\ (IF row[f].space = s THEN Go(w, "recheck") ELSE Return(w, FALSE))
           /\ UNCHANGED had
  <2>1. row[f].space = s /\ ~row[f].back => chunks[f] = s
    BY <1>1 DEF Inv, IndexesAreKnown, Indexed
  <2>2. /\ RowStep(f) /\ row'[f].space = row[f].space
        /\ row'[f].status = IF row[f].space = s THEN "ready" ELSE row[f].status
        /\ row'[f].status = "ready" /\ ~row'[f].back => chunks'[f] = row'[f].space
        /\ row'[f] = row[f] \/ row'[f].status = "ready"
    BY <1>1, <1>2, <1>3, <2>1, SetStatusMoves
  <2>3. HandStep(w) /\ hand'[w].pc \in {"recheck", "idle", "verify"}
    BY <1>1, <1>3, GoMoves, ReturnMoves DEF Embedding
  <2>4. IndexedStep(w, f) /\ TakesUp(w, f) /\ GoesOn(w, f)
    BY <2>2, <2>3, NothingToIndex DEF TakesUp, GoesOn, StillMinds, Underway
  <2> QED
    BY <1>1, <1>3, <2>2, <2>3, <2>4, PipelineKeeps
<1>4. CASE Return(w, TRUE) /\ Meets("calls") /\ UNCHANGED row
  BY <1>1, <1>4, FailingKeeps DEF dataVars
<1>5. CASE Return(w, TRUE) /\ Meets("calls") /\ SetStatus(f, s, "ready")
  <2>1. row[f].space = s /\ ~row[f].back => chunks[f] = s
    BY <1>1 DEF Inv, IndexesAreKnown, Indexed
  <2>2. /\ RowStep(f)
        /\ row'[f].status = "ready" /\ ~row'[f].back => chunks'[f] = row'[f].space
        /\ row'[f] = row[f] \/ row'[f].status = "ready"
    BY <1>1, <1>2, <1>5, <2>1, SetStatusMoves
  <2>3. HandStep(w) /\ hand'[w].pc \in {"idle", "verify"}
    BY <1>1, <1>5, ReturnMoves
  <2>4. IndexedStep(w, f) /\ TakesUp(w, f) /\ GoesOn(w, f)
    BY <1>1, <1>5, <2>2, <2>3, NothingToIndex, FailedCall DEF TakesUp, Underway
  <2> QED
    BY <1>1, <1>5, <2>2, <2>3, <2>4, PipelineKeeps
<1> QED
  BY <1>3, <1>4, <1>5 DEF PublishReady, Unanswered

LEMMA RecheckSpaceKeeps ==
  ASSUME Inv, NEW w \in Runners, RecheckSpace(w)
  PROVE  Inv'
<1>1. Busy(w) /\ hand[w].pc = "recheck" /\ UNCHANGED <<dataVars, queue, userVars, had>>
  BY DEF RecheckSpace, Busy
<1>2. HandStep(w) /\ hand'[w].pc \in {"outdated", "idle", "verify"}
  BY <1>1, GoMoves, ReturnMoves DEF RecheckSpace, Embedding
<1>3. GoesOn(w, hand[w].file)
  BY <1>1 DEF GoesOn, StillMinds, Minds, Underway
<1> QED
  BY <1>1, <1>2, <1>3, LookingKeeps

LEMMA MarkOutdatedKeeps ==
  ASSUME Inv, NEW w \in Runners, MarkOutdated(w)
  PROVE  Inv'
<1>1. Busy(w) /\ UNCHANGED <<chunks, queue, userVars>>
  BY DEF MarkOutdated, Busy
<1>2. CASE SetStatus(hand[w].file, hand[w].space, "stale") /\ Return(w, FALSE) /\ UNCHANGED had
  <2>1. HandStep(w) /\ hand'[w].pc \in {"idle", "verify"}
    BY <1>1, <1>2, ReturnMoves
  <2> QED
    BY <1>1, <1>2, <2>1, WritingKeeps
<1>3. CASE Unanswered(hand[w].file, hand[w].space, "stale") /\ Return(w, TRUE)
  BY <1>1, <1>3, UnansweredKeeps
<1> QED
  BY <1>2, <1>3 DEF MarkOutdated

LEMMA RequeueRowKeeps ==
  ASSUME Inv, NEW w \in Runners, RequeueRow(w)
  PROVE  Inv'
<1>1. /\ Busy(w) /\ hand[w].pc = "requeueRow" /\ w \in Workers /\ w \notin Autos
      /\ UNCHANGED <<chunks, queue, userVars>>
  BY WorkersAreRunners DEF RequeueRow, Busy, Inv, Typed, OfAuto, Embedding
<1> DEFINE f == hand[w].file
           s == hand[w].space
<1>2. f \in Files /\ "queued" \in Statuses
  BY <1>1, HandTypes DEF Inv, Statuses
<1>3. CASE SetStatus(f, s, "queued") /\ Go(w, "requeue") /\ UNCHANGED had
  <2>1. hand[w] \in Hand /\ hand[w].msg.retry < MaxRetries
    BY <1>1 DEF Inv, Typed, Hand
  <2>2. HandStep(w) /\ hand'[w].pc = "requeue"
    BY <1>1, <1>3, <2>1, GoMoves DEF Concluding
  <2>3. /\ RowStep(f) /\ row'[f].space = row[f].space
        /\ row'[f].status = IF row[f].space = s THEN "queued" ELSE row[f].status
        /\ row'[f].status = "ready" /\ ~row'[f].back => chunks'[f] = row'[f].space
    BY <1>1, <1>2, <1>3, SetStatusMoves
  <2>4. row[f].space # s => row' = row
    BY <1>3 DEF SetStatus
  <2>5. IndexedStep(w, f)
    BY <2>2, <2>3, NothingToIndex
  <2>6. TakesUp(w, f) /\ GoesOn(w, f)
    BY <1>1, <2>2, <2>3, <2>4 DEF TakesUp, GoesOn, StillMinds, Minds, Underway
  <2> QED
    BY <1>1, <1>3, <2>2, <2>3, <2>5, <2>6, PipelineKeeps
<1>4. CASE Rest(w) /\ Meets("calls") /\ UNCHANGED row
  <2>1. HandStep(w) /\ hand'[w].pc = "idle"
    BY <1>1, <1>4, RestMoves
  <2>2. GoesOn(w, f)
    BY <1>1, <2>1 DEF GoesOn, StillMinds
  <2> QED
    BY <1>1, <1>4, <2>1, <2>2, LookingKeeps DEF dataVars
<1>5. CASE Rest(w) /\ Meets("calls") /\ SetStatus(f, s, "queued")
  <2>1. HandStep(w) /\ hand'[w].pc = "idle"
    BY <1>1, <1>5, RestMoves
  <2>2. /\ RowStep(f) /\ row'[f].space = row[f].space
        /\ row'[f].status = "ready" /\ ~row'[f].back => chunks'[f] = row'[f].space
    BY <1>1, <1>2, <1>5, SetStatusMoves
  <2>3. row[f].space # s => row' = row
    BY <1>5 DEF SetStatus
  <2>4. IndexedStep(w, f)
    BY <2>1, <2>2, NothingToIndex
  <2>5. TakesUp(w, f) /\ GoesOn(w, f)
    BY <1>1, <2>1, <2>2, <2>3 DEF TakesUp, GoesOn, StillMinds
  <2> QED
    BY <1>1, <1>5, <2>1, <2>2, <2>4, <2>5, PipelineKeeps
<1> QED
  BY <1>3, <1>4, <1>5 DEF RequeueRow, Unanswered

LEMMA FailRowKeeps ==
  ASSUME Inv, NEW w \in Runners, FailRow(w)
  PROVE  Inv'
<1>1. /\ Busy(w) /\ hand[w].pc = "failRow" /\ w \in Workers /\ w \notin Autos
      /\ UNCHANGED <<chunks, queue, userVars>>
  BY WorkersAreRunners DEF FailRow, Busy, Inv, Typed, OfAuto, Embedding
<1>2. CASE SetStatus(hand[w].file, hand[w].space, "failed") /\ Go(w, "deadLetter") /\ UNCHANGED had
  <2>1. HandStep(w) /\ hand'[w].pc = "deadLetter"
    BY <1>1, <1>2, GoMoves DEF Concluding
  <2> QED
    BY <1>1, <1>2, <2>1, WritingKeeps
<1>3. CASE Rest(w) /\ Meets("calls") /\ UNCHANGED row
  <2>1. HandStep(w) /\ hand'[w].pc = "idle"
    BY <1>1, <1>3, RestMoves
  <2>2. GoesOn(w, hand[w].file)
    BY <1>1, <2>1 DEF GoesOn, StillMinds
  <2> QED
    BY <1>1, <1>3, <2>1, <2>2, LookingKeeps DEF dataVars
<1>4. CASE Rest(w) /\ Meets("calls") /\ SetStatus(hand[w].file, hand[w].space, "failed")
  <2>1. HandStep(w) /\ hand'[w].pc = "idle"
    BY <1>1, <1>4, RestMoves
  <2> QED
    BY <1>1, <1>4, <2>1, WritingKeeps
<1> QED
  BY <1>2, <1>3, <1>4 DEF FailRow, Unanswered

LEMMA LoseOwnershipKeeps ==
  ASSUME Inv, NEW w \in Workers, LoseOwnership(w)
  PROVE  Inv'
<1>1. Busy(w) /\ w \in Runners /\ Rest(w) /\ UNCHANGED <<chunks, queue, userVars, had>>
  BY WorkersAreRunners DEF LoseOwnership, Busy, Started, Embedding
<1>2. HandStep(w) /\ hand'[w].pc = "idle"
  BY <1>1, RestMoves
<1>3. CASE Abandon(w)
  BY <1>1, <1>2, <1>3, WritingKeeps DEF Abandon
<1>4. CASE UNCHANGED row
  <2>1. GoesOn(w, hand[w].file)
    BY <1>2 DEF GoesOn, StillMinds
  <2> QED
    BY <1>1, <1>2, <1>4, <2>1, LookingKeeps DEF dataVars
<1> QED
  BY <1>3, <1>4 DEF LoseOwnership

-----------------------------------------------------------------------------
(***************************************************************************)
(* What the other steps have to preserve: rows are only written off,       *)
(* workers start, rest or conclude, and what is minded stays minded.       *)
(***************************************************************************)

WrittenOff(r, t) ==
  /\ t.space = r.space /\ t.been = r.been /\ t.back = r.back
  /\ t.status \in {r.status, "stale", "failed"}

\* Runs without a message are left alone, but for a start or a restart.
AutosStay ==
  \A a \in Autos : \/ hand'[a] = hand[a]
                   \/ hand'[a].pc = "idle" /\ had'.restarts # 0
                   \/ hand[a].pc = "idle" /\ hand'[a].pc = "claim" /\ had'.autos # 0

\* A submission that ends leaves a message behind, or no row that waits for one.
SubmitsEnd ==
  \A f \in Files :
    \/ submit'[f] = submit[f]
    \/ submit'[f].pc # "idle" /\ submit'[f].space = submit[f].space
    \/ had'.cuts # 0 \/ had'.drops # 0
    \/ row'[f].status # "queued" \/ row'[f].space # submit[f].space
    \/ had'.stalls = 0 => IsMinded(queue', hand', f, submit[f].space, "queued")

\* While nobody stalls workers own what they handle, and messages keep their minders.
WorkIsKept ==
  /\ \A w \in Workers : hand'[w].pc # "idle" => OwnsIt(queue', w, hand'[w].msg)
  /\ \A status \in Underway : \A m \in Messages(queue) : MindedBy(hand, m, status) =>
       \E k \in Messages(queue') : k.file = m.file /\ k.space = m.space /\ MindedBy(hand', k, status)

LEMMA StepKeeps ==
  ASSUME Inv, Typed', QueueIsSound', SubmitsAreNew', Grows, UNCHANGED chunks,
         \A f \in Files : WrittenOff(row[f], row'[f]),
         \A w \in Workers : hand'[w] = hand[w] \/ hand'[w].pc \notin {"check", "ready"},
         AutosStay, SubmitsEnd, had'.stalls = 0 => WorkIsKept
  PROVE  Inv'
<1>1. /\ had'.stalls = 0 => had.stalls = 0
      /\ had'.cuts = 0 => had.cuts = 0
      /\ had'.drops = 0 => had.drops = 0
      /\ had'.calls = 0 => had.calls = 0
      /\ had'.restarts = 0 => had.restarts = 0
      /\ had'.autos = 0 => had.autos = 0
  BY NamedKinds DEF Inv, Typed, Grows
<1>2. WorkIsOwned'
  BY DEF WorkIsOwned, WorkIsKept, Busy
<1>3. AutosAreCounted'
  BY <1>1 DEF AutosAreCounted, AutosStay, Inv, Busy
<1>4. ASSUME had'.stalls = 0, NEW g \in Files, NEW status \in Underway,
             IsMinded(queue, hand, g, row[g].space, status)
      PROVE  IsMinded(queue', hand', g, row'[g].space, status)
  BY <1>4 DEF IsMinded, WorkIsKept, WrittenOff
<1>5. \A g \in Files : row'[g].status \in Underway => row'[g].status = row[g].status
  BY DEF WrittenOff, Underway
<1>6. QueuedIsMinded'
  <2> SUFFICES ASSUME had'.cuts = 0, had'.stalls = 0, had'.drops = 0,
                      NEW g \in Files, row'[g].status = "queued",
                      ~(Asked(g)' /\ submit'[g].space = row'[g].space)
               PROVE  IsMinded(queue', hand', g, row'[g].space, "queued")
    BY DEF QueuedIsMinded
  <2>1. row[g].status = "queued" /\ row'[g].space = row[g].space
    BY <1>5 DEF WrittenOff, Underway
  <2>2. CASE Asked(g) /\ submit[g].space = row[g].space
    BY <2>1, <2>2 DEF SubmitsEnd, Asked
  <2>3. CASE IsMinded(queue, hand, g, row[g].space, "queued")
    BY <1>4, <2>3 DEF Underway
  <2> QED
    BY <1>1, <2>1, <2>2, <2>3 DEF Inv, QueuedIsMinded
<1>7. ProcessingIsMinded'
  <2> SUFFICES ASSUME had'.stalls = 0, had'.drops = 0,
                      had'.autos = 0 \/ (had'.calls = 0 /\ had'.restarts = 0),
                      NEW g \in Files, row'[g].status = "processing"
               PROVE  \/ MindedByAuto(hand', g, row'[g].space)
                      \/ IsMinded(queue', hand', g, row'[g].space, "processing")
    BY DEF ProcessingIsMinded
  <2>1. row[g].status = "processing" /\ row'[g].space = row[g].space
    BY <1>5 DEF WrittenOff, Underway
  <2>2. CASE MindedByAuto(hand, g, row[g].space)
    <3>1. PICK a \in Autos : /\ Busy(a) /\ hand[a].file = g /\ hand[a].space = row[g].space
                             /\ Minds(hand[a], "processing")
      BY <2>2 DEF MindedByAuto, Busy
    <3>2. had.autos # 0
      BY <3>1 DEF Inv, AutosAreCounted
    <3>3. hand'[a] = hand[a]
      BY <1>1, <3>1, <3>2 DEF AutosStay, Busy
    <3> QED
      BY <2>1, <3>1, <3>3 DEF MindedByAuto, Busy
  <2>3. CASE IsMinded(queue, hand, g, row[g].space, "processing")
    BY <1>4, <2>3 DEF Underway
  <2> QED
    BY <1>1, <2>1, <2>2, <2>3 DEF Inv, ProcessingIsMinded
<1>8. IndexesAreKnown'
  <2>1. \A g \in Files : row'[g].space \in row'[g].been \cup {NoSpace}
    BY DEF Inv, IndexesAreKnown, WrittenOff
  <2>2. \A g \in Files : row'[g].status = "ready" /\ ~row'[g].back => chunks'[g] = row'[g].space
    BY DEF Inv, IndexesAreKnown, WrittenOff
  <2>3. ASSUME NEW v \in Runners, hand'[v].pc # "idle"
        PROVE  Indexed(hand'[v], row'[hand'[v].file], chunks'[hand'[v].file])
    <3>1. CASE hand'[v] = hand[v]
      <4>1. hand[v].file \in Files /\ Indexed(hand[v], row[hand[v].file], chunks[hand[v].file])
        BY <2>3, <3>1, HandTypes DEF Inv, IndexesAreKnown, Busy
      <4>2. WrittenOff(row[hand[v].file], row'[hand[v].file])
        BY <4>1
      <4> QED
        BY <3>1, <4>1, <4>2 DEF Indexed, WrittenOff
    <3>2. CASE hand'[v] # hand[v]
      <4>1. hand'[v].pc \notin {"check", "ready"}
        BY <2>3, <3>2, WorkersAreRunners DEF AutosStay
      <4> QED
        BY <4>1 DEF Indexed
    <3> QED
      BY <3>1, <3>2
  <2> QED
    BY <2>1, <2>2, <2>3 DEF IndexesAreKnown, Busy
<1> QED
  BY <1>2, <1>3, <1>6, <1>7, <1>8 DEF Inv

\* What is queued already stays new to what is not.
LEMMA NothingNew ==
  ASSUME Inv, \A n : Known(queue', n) => Known(queue, n), UNCHANGED submit, had'.submits = had.submits
  PROVE  SubmitsAreNew'
BY DEF Inv, SubmitsAreNew, Pending

\* A step of a worker that starts, rests or concludes.
LEMMA WorkerKeeps ==
  ASSUME Inv, NEW w \in Workers, hand' = [hand EXCEPT ![w] = hand'[w]], hand'[w] \in Hand,
         OfWorker(hand'[w]), hand'[w].pc \notin {"check", "ready"},
         queue' \in Queue, Sound(queue'), \A n : Known(queue', n) => Known(queue, n),
         UNCHANGED <<dataVars, userVars>>, UNCHANGED had \/ Meets("calls"),
         had'.stalls = 0 => WorkIsKept
  PROVE  Inv'
<1>1. Grows /\ had'.submits = had.submits
  BY EventGrows, NamedKinds DEF Inv
<1>2. \A v \in Runners : v # w => hand'[v] = hand[v]
  BY DEF Inv, Typed
<1>3. hand' \in [Runners -> Hand]
  BY WorkersAreRunners DEF Inv, Typed
<1>4. Typed'
  BY <1>1, <1>2, <1>3, WorkersAreRunners DEF Inv, Typed, Grows, dataVars, userVars
<1>5. SubmitsAreNew' /\ QueueIsSound'
  BY <1>1, NothingNew DEF userVars, QueueIsSound
<1>6. \A f \in Files : WrittenOff(row[f], row'[f])
  BY DEF WrittenOff, dataVars
<1>7. AutosStay
  BY <1>2, WorkersAreRunners DEF AutosStay
<1>8. SubmitsEnd
  BY DEF SubmitsEnd, userVars
<1>9. UNCHANGED chunks
  BY DEF dataVars
<1> QED
  BY <1>1, <1>2, <1>4, <1>5, <1>6, <1>7, <1>8, <1>9, StepKeeps, WorkersAreRunners

\* A worker that rests with its message still there leaves it to the next.
LEMMA RestingKeeps ==
  ASSUME Inv, NEW w \in Workers, Busy(w), Rest(w), UNCHANGED <<dataVars, queue, userVars>>,
         UNCHANGED had \/ Meets("calls") \/ Meets("drops")
  PROVE  Inv'
<1>1. w \in Runners /\ HandStep(w) /\ hand'[w].pc = "idle"
  BY RestMoves, WorkersAreRunners
<1>2. GoesOn(w, hand[w].file)
  BY <1>1 DEF GoesOn, StillMinds
<1> QED
  BY <1>1, <1>2, LookingKeeps

LEMMA VerifyKeeps ==
  ASSUME Inv, NEW w \in Runners, Verify(w)
  PROVE  Inv'
<1>1. /\ Busy(w) /\ hand[w].pc = "verify" /\ w \in Workers /\ w \notin Autos
      /\ UNCHANGED <<dataVars, userVars>>
  BY WorkersAreRunners DEF Verify, Busy, Inv, Typed, OfAuto, Embedding
<1>2. CASE queue' = Renew(queue, hand[w].msg) /\ Go(w, AfterVerify(w)) /\ UNCHANGED had
  <2> DEFINE pc == AfterVerify(w)
  <2>1. hand[w] \in Hand /\ hand[w].err \in BOOLEAN /\ hand[w].msg \in Msg
    BY <1>1, HandTypes DEF Inv, Typed, Hand
  <2>2. /\ pc \in {"settle", "requeueRow", "failRow"}
        /\ pc = "requeueRow" => hand[w].msg.retry < MaxRetries
        /\ hand[w].err => pc # "settle"
    BY <2>1 DEF AfterVerify
  <2> HIDE DEF pc
  <2>3. pc \in Started \cup Embedding \cup Concluding /\ (pc \in {"requeueRow", "requeue"} => hand[w].msg.retry < MaxRetries)
    BY <2>2 DEF Concluding
  <2>4. Go(w, pc)
    BY <1>2 DEF pc
  <2>5. HandStep(w) /\ hand'[w].pc = pc
    BY <1>1, <2>3, <2>4, GoMoves
  <2>6. Kept(queue, queue') /\ \A v, m : OwnsIt(queue, v, m) => OwnsIt(queue', v, m)
    BY <1>2, RenewSound DEF Inv, Typed, QueueIsSound
  <2>7. hand'[w].pc # "idle" /\ hand'[w].msg = hand[w].msg /\ hand'[w].file = hand[w].file /\ hand'[w].space = hand[w].space
    BY <2>2, <2>5 DEF HandStep
  <2>8. hand'[w] \in Hand /\ hand' = [hand EXCEPT ![w] = hand'[w]] /\ OfWorker(hand'[w])
    BY <1>1, <2>5, <2>7, HandTypes DEF HandStep, OfWorker, Inv
  <2>9. \A v \in Workers : v # w => hand'[v] = hand[v]
    BY <2>8, WorkersAreRunners DEF Inv, Typed
  <2>10. ASSUME had'.stalls = 0 PROVE WorkIsKept
    <3>1. had.stalls = 0
      BY <1>2, <2>10
    <3>2. ASSUME NEW v \in Workers, hand'[v].pc # "idle" PROVE OwnsIt(queue', v, hand'[v].msg)
      <4>1. hand'[v].msg = hand[v].msg /\ Busy(v)
        BY <1>1, <2>7, <2>9, <3>2 DEF Busy
      <4> QED
        BY <2>6, <3>1, <4>1 DEF Inv, WorkIsOwned
    <3>3. ASSUME NEW status \in Underway, NEW m \in Messages(queue), MindedBy(hand, m, status)
          PROVE  \E k \in Messages(queue') : k.file = m.file /\ k.space = m.space /\ MindedBy(hand', k, status)
      <4>1. PICK k \in Messages(queue') : Same(k, m)
        BY <2>6 DEF Kept
      <4>2. ASSUME NEW v \in Workers, hand'[v].pc # "idle", hand'[v].msg.id = k.id
            PROVE  Minds(hand'[v], status)
        <5>1. CASE v # w
          BY <2>9, <3>3, <4>1, <4>2, <5>1 DEF MindedBy, Same
        <5>2. CASE v = w
          <6>1. Minds(hand[w], status)
            BY <1>1, <2>7, <3>3, <4>1, <4>2, <5>2 DEF MindedBy, Same, Busy
          <6>2. hand[w].err
            BY <1>1, <6>1 DEF Minds
          <6> QED
            BY <2>2, <2>5, <5>2, <6>2 DEF Minds
        <5> QED
          BY <5>1, <5>2
      <4> QED
        BY <4>1, <4>2 DEF Same, MindedBy
    <3> QED
      BY <3>2, <3>3 DEF WorkIsKept
  <2> QED
    BY <1>1, <1>2, <2>2, <2>5, <2>6, <2>8, <2>10, WorkerKeeps DEF Kept
<1>3. CASE Rest(w) /\ UNCHANGED queue /\ (UNCHANGED had \/ Meets("calls"))
  BY <1>1, <1>3, RestingKeeps
<1> QED
  BY <1>2, <1>3 DEF Verify

\* The last call on the queue: its message may go.
LEMMA QueueCallKeeps ==
  ASSUME Inv, NEW w \in Workers, Busy(w), NEW after, QueueCall(w, after),
         Owns(queue, w, hand[w].msg) =>
           /\ Taken(queue, after, hand[w].msg)
           /\ \/ \A status \in Underway : ~Minds(hand[w], status)
              \/ \E k \in Messages(after) : /\ k.file = hand[w].file /\ k.space = hand[w].space
                                            /\ Job(k) = Job(hand[w].msg)
  PROVE  Inv'
<1>1. /\ w \in Runners /\ Rest(w) /\ UNCHANGED <<dataVars, userVars>>
      /\ UNCHANGED had \/ Meets("calls")
  BY WorkersAreRunners DEF QueueCall
<1>2. CASE queue' = queue
  BY <1>1, <1>2, RestingKeeps
<1>3. CASE queue' # queue
  <2> DEFINE msg == hand[w].msg
  <2>1. Owns(queue, w, msg) /\ queue' = after
    BY <1>3 DEF QueueCall
  <2>2. Taken(queue, queue', msg)
    BY <2>1
  <2>3. HandStep(w) /\ hand'[w].pc = "idle"
    BY <1>1, RestMoves
  <2>4. \A v \in Workers : v # w => hand'[v] = hand[v]
    BY <2>3, WorkersAreRunners DEF HandStep, Inv, Typed
  <2>5. ASSUME had'.stalls = 0 PROVE WorkIsKept
    <3>1. had.stalls = 0
      BY <1>1, <2>5, EventGrows, NamedKinds DEF Inv
    <3>2. ASSUME NEW v \in Workers, hand'[v].pc # "idle" PROVE OwnsIt(queue', v, hand'[v].msg)
      <4>1. v # w /\ hand'[v] = hand[v] /\ Busy(v)
        BY <2>3, <2>4, <3>2 DEF Busy
      <4>2. OwnsIt(queue, v, hand[v].msg)
        BY <3>1, <4>1 DEF Inv, WorkIsOwned
      <4>3. hand[v].msg.id # msg.id
        BY <3>1, <4>1, HandledId
      <4> QED
        BY <2>2, <4>1, <4>2, <4>3 DEF Taken
    <3>3. ASSUME NEW status \in Underway, NEW m \in Messages(queue), MindedBy(hand, m, status)
          PROVE  \E k \in Messages(queue') : k.file = m.file /\ k.space = m.space /\ MindedBy(hand', k, status)
      <4>1. CASE m.id # msg.id
        <5>1. m \in Messages(queue')
          BY <2>2, <4>1 DEF Taken
        <5>2. MindedBy(hand', m, status)
          BY <2>3, <2>4, <3>3 DEF MindedBy
        <5> QED
          BY <5>1, <5>2
      <4>2. CASE m.id = msg.id
        <5>1. m = msg /\ m.file = hand[w].file /\ m.space = hand[w].space
          BY <1>1, <3>1, <4>2, HandledId, HandTypes DEF Inv
        <5>2. Minds(hand[w], status)
          BY <3>3, <5>1 DEF MindedBy, Busy
        <5>3. PICK k \in Messages(queue') : k.file = hand[w].file /\ k.space = hand[w].space /\ Job(k) = Job(msg)
          BY <2>1, <5>2
        <5>4. MindedBy(hand', k, status)
          <6> SUFFICES ASSUME NEW v \in Workers, hand'[v].pc # "idle", hand'[v].msg.id = k.id PROVE FALSE
            BY DEF MindedBy
          <6>1. v # w /\ hand'[v] = hand[v] /\ Busy(v)
            BY <2>3, <2>4 DEF Busy
          <6>2. Job(hand[v].msg) = Job(msg)
            BY <5>3, <6>1 DEF Job
          <6> QED
            BY <3>1, <6>1, <6>2, HandledMessage
        <5> QED
          BY <5>1, <5>3, <5>4
      <4> QED
        BY <4>1, <4>2
    <3> QED
      BY <3>2, <3>3 DEF WorkIsKept
  <2> QED
    BY <1>1, <2>2, <2>3, <2>5, WorkerKeeps DEF Taken, HandStep, OfWorker
<1> QED
  BY <1>2, <1>3

LEMMA RequeueMessageKeeps ==
  ASSUME Inv, NEW w \in Runners, RequeueMessage(w)
  PROVE  Inv'
<1>1. Busy(w) /\ hand[w].pc = "requeue" /\ w \in Workers
  BY WorkersAreRunners DEF RequeueMessage, Busy, Inv, Typed, OfAuto, Embedding
<1> DEFINE msg == hand[w].msg
           next == Message(msg.file, msg.space, msg.id[1], msg.retry + 1)
<1>2. /\ msg \in Msg /\ hand[w].file = msg.file /\ hand[w].space = msg.space
      /\ msg.retry < MaxRetries
  BY <1>1, HandTypes DEF Inv, Typed, Hand
<1>3. next \in Msg /\ Job(next) = Job(msg) /\ next.file = msg.file /\ next.space = msg.space
  <2>1. msg.retry + 1 \in 0 .. MaxRetries /\ msg.id[1] \in Nat /\ msg.file \in Files /\ msg.space \in Spaces
    BY <1>2, JobTypes, EmbeddingAssumption DEF Job
  <2> QED
    BY <2>1 DEF Message, Msg, Job
<1> HIDE DEF next
<1>4. Owns(queue, w, msg) => Taken(queue, Requeue(queue, msg, next), msg) /\ next \in Messages(Requeue(queue, msg, next))
  BY <1>1, <1>2, <1>3, RequeueSound DEF Inv, Typed, QueueIsSound
<1>5. QueueCall(w, Requeue(queue, msg, next))
  BY DEF RequeueMessage, next
<1> QED
  BY <1>1, <1>2, <1>3, <1>4, <1>5, QueueCallKeeps

LEMMA SettleMessageKeeps ==
  ASSUME Inv, NEW w \in Runners, SettleMessage(w)
  PROVE  Inv'
<1>1. Busy(w) /\ hand[w].pc = "settle" /\ w \in Workers
  BY WorkersAreRunners DEF SettleMessage, Busy, Inv, Typed, OfAuto, Embedding
<1>2. \A status \in Underway : ~Minds(hand[w], status)
  BY <1>1 DEF Minds, Underway
<1>3. Owns(queue, w, hand[w].msg) => Taken(queue, Settle(queue, hand[w].msg), hand[w].msg)
  BY <1>1, HandTypes, SettleSound DEF Inv, Typed, QueueIsSound
<1> QED
  BY <1>1, <1>2, <1>3, QueueCallKeeps DEF SettleMessage

LEMMA DeadLetterMessageKeeps ==
  ASSUME Inv, NEW w \in Runners, DeadLetterMessage(w)
  PROVE  Inv'
<1>1. Busy(w) /\ hand[w].pc = "deadLetter" /\ w \in Workers
  BY WorkersAreRunners DEF DeadLetterMessage, Busy, Inv, Typed, OfAuto, Embedding
<1>2. \A status \in Underway : ~Minds(hand[w], status)
  BY <1>1 DEF Minds, Underway
<1>3. Owns(queue, w, hand[w].msg) => Taken(queue, DeadLetter(queue, hand[w].msg), hand[w].msg)
  BY <1>1, HandTypes, DeadLetterSound DEF Inv, Typed, QueueIsSound
<1> QED
  BY <1>1, <1>2, <1>3, QueueCallKeeps DEF DeadLetterMessage

\* A worker begins with a message it has got, in a queue that has kept the others.
LEMMA StartKeeps ==
  ASSUME Inv, NEW w \in Workers, ~Busy(w), NEW msg \in Msg, Start(w, msg), Kept(queue, queue'),
         OwnsIt(queue', w, msg),
         \A l \in queue.leased : ~l.idle => l \in queue'.leased,
         UNCHANGED <<dataVars, userVars, had>>
  PROVE  Inv'
<1> DEFINE h == [pc |-> "begin", msg |-> msg, file |-> msg.file, space |-> msg.space, err |-> FALSE]
<1>1. hand'[w] = h /\ hand' = [hand EXCEPT ![w] = hand'[w]]
  BY WorkersAreRunners DEF Start, Inv, Typed
<1>2. h \in Hand /\ OfWorker(h) /\ h.pc = "begin" /\ h.msg = msg
  BY JobTypes DEF Hand, OfWorker, Started, SpaceOrNone
<1> HIDE DEF h
<1>3. \A v \in Workers : v # w => hand'[v] = hand[v]
  BY <1>1, WorkersAreRunners DEF Inv, Typed
<1>4. ASSUME had'.stalls = 0 PROVE WorkIsKept
  <2>1. ASSUME NEW v \in Workers, hand'[v].pc # "idle" PROVE OwnsIt(queue', v, hand'[v].msg)
    <3>1. CASE v = w
      BY <1>1, <1>2, <3>1
    <3>2. CASE v # w
      BY <1>3, <1>4, <2>1, <3>2 DEF Inv, WorkIsOwned, OwnsIt, Busy
    <3> QED
      BY <3>1, <3>2
  <2>2. ASSUME NEW status \in Underway, NEW m \in Messages(queue), MindedBy(hand, m, status)
        PROVE  \E k \in Messages(queue') : k.file = m.file /\ k.space = m.space /\ MindedBy(hand', k, status)
    <3>1. PICK k \in Messages(queue') : Same(k, m)
      BY DEF Kept
    <3>2. MindedBy(hand', k, status)
      BY <1>1, <1>2, <1>3, <2>2, <3>1 DEF MindedBy, Same, Minds
    <3> QED
      BY <3>1, <3>2 DEF Same
  <2> QED
    BY <2>1, <2>2 DEF WorkIsKept
<1> QED
  BY <1>1, <1>2, <1>4, WorkerKeeps DEF Kept

LEMMA ClaimTimedOutKeeps ==
  ASSUME Inv, NEW w \in Workers, ClaimTimedOut(w)
  PROVE  Inv'
<1>1. ~Busy(w) /\ UNCHANGED <<dataVars, userVars, had>>
  BY DEF ClaimTimedOut, Busy
<1>2. PICK l \in queue.leased : l.idle /\ queue' = Claim(queue, l, w) /\ Start(w, Passed(l, w).msg)
  BY DEF ClaimTimedOut
<1>3. /\ Passed(l, w).msg \in Msg /\ Kept(queue, queue') /\ OwnsIt(queue', w, Passed(l, w).msg)
      /\ queue.leased \ {l} \subseteq queue'.leased
  BY <1>2, ClaimSound DEF Inv, Typed, QueueIsSound
<1> QED
  BY <1>1, <1>2, <1>3, StartKeeps

LEMMA ReadMessageKeeps ==
  ASSUME Inv, NEW w \in Workers, ReadMessage(w)
  PROVE  Inv'
<1>1. /\ ~Busy(w) /\ UNCHANGED <<dataVars, userVars, had>> /\ queue.waiting # <<>>
      /\ queue' = Read(queue, w) /\ Start(w, Head(queue.waiting))
  BY DEF ReadMessage, Busy
<1>2. /\ Head(queue.waiting) \in Msg /\ Kept(queue, queue') /\ OwnsIt(queue', w, Head(queue.waiting))
      /\ queue.leased \subseteq queue'.leased
  BY <1>1, ReadSound DEF Inv, Typed, QueueIsSound
<1> QED
  BY <1>1, <1>2, StartKeeps

LEMMA ExpireKeeps ==
  ASSUME Inv, NEW l \in queue.leased, Expire(l)
  PROVE  Inv'
<1>1. ~l.idle /\ queue' = Idle(queue, l) /\ UNCHANGED <<dataVars, userVars, hand>>
  BY DEF Expire
<1>2. UNCHANGED had \/ Meets("stalls")
  BY DEF Expire
<1>3. Grows /\ had'.submits = had.submits
  BY <1>2, EventGrows, NamedKinds DEF Inv
<1>4. Kept(queue, queue') /\ queue.leased \ {l} \subseteq queue'.leased
  BY <1>1, IdleSound DEF Inv, Typed, QueueIsSound
<1>5. Typed'
  BY <1>1, <1>3, <1>4 DEF Inv, Typed, Grows, Kept, dataVars, userVars
<1>6. SubmitsAreNew' /\ QueueIsSound'
  BY <1>1, <1>3, <1>4, NothingNew DEF Kept, userVars, QueueIsSound
<1>7. ASSUME had'.stalls = 0 PROVE WorkIsKept
  <2>1. UNCHANGED had /\ \A w \in Workers : ~Handles(w, l)
    BY <1>7, EventGrows, NamedKinds DEF Inv, Expire
  <2>2. ASSUME NEW v \in Workers, Busy(v) PROVE OwnsIt(queue', v, hand[v].msg)
    <3>1. PICK k \in queue.leased : k.msg = hand[v].msg /\ k.owner = v /\ ~k.idle
      BY <1>7, <2>1, <2>2 DEF Inv, WorkIsOwned, OwnsIt
    <3>2. k # l
      BY <2>1, <2>2, <3>1 DEF Handles, Busy
    <3> QED
      BY <1>4, <3>1, <3>2 DEF OwnsIt
  <2>3. ASSUME NEW status \in Underway, NEW m \in Messages(queue), MindedBy(hand, m, status)
        PROVE  \E k \in Messages(queue') : k.file = m.file /\ k.space = m.space /\ MindedBy(hand', k, status)
    <3>1. PICK k \in Messages(queue') : Same(k, m)
      BY <1>4 DEF Kept
    <3> QED
      BY <1>1, <2>3, <3>1 DEF MindedBy, Same
  <2> QED
    BY <1>1, <2>2, <2>3 DEF WorkIsKept, Busy
<1>8. \A f \in Files : WrittenOff(row[f], row'[f])
  BY <1>1 DEF WrittenOff, dataVars
<1>9. AutosStay /\ SubmitsEnd /\ UNCHANGED chunks
  BY <1>1 DEF AutosStay, SubmitsEnd, dataVars, userVars
<1> QED
  BY <1>1, <1>3, <1>5, <1>6, <1>7, <1>8, <1>9, StepKeeps

\* What leaves the queue and the hands alone keeps the work.
LEMMA WorkStays ==
  ASSUME Inv, UNCHANGED <<queue, hand>>, Grows
  PROVE  had'.stalls = 0 => WorkIsKept
<1>1. had'.stalls = 0 => had.stalls = 0
  BY NamedKinds DEF Inv, Typed, Grows
<1> QED
  BY <1>1 DEF WorkIsKept, Inv, WorkIsOwned, Busy

LEMMA StartAutoKeeps ==
  ASSUME Inv, NEW a \in Autos, NEW f \in Files, StartAuto(a, f)
  PROVE  Inv'
<1> DEFINE h == [pc |-> "claim", msg |-> NoMessage, file |-> f, space |-> runtime[Home[a]], err |-> FALSE]
<1>1. ~Busy(a) /\ UNCHANGED <<dataVars, queue, userVars>> /\ Meets("autos") /\ a \in Runners
  BY WorkersAreRunners DEF StartAuto, Busy
<1>2. hand'[a] = h /\ hand' = [hand EXCEPT ![a] = hand'[a]]
  BY <1>1 DEF StartAuto, Inv, Typed
<1>3. h \in Hand /\ h.pc = "claim" /\ OfAuto(h)
  BY EmbeddingAssumption DEF Hand, Started, SpaceOrNone, Inv, Typed, OfAuto
<1> HIDE DEF h
<1>4. \A v \in Runners : v # a => hand'[v] = hand[v]
  BY <1>2 DEF Inv, Typed
<1>5. Grows /\ had'.submits = had.submits /\ had'.autos # 0 /\ had'.stalls = had.stalls
  BY <1>1, EventGrows, NamedKinds DEF Inv
<1>6. hand' \in [Runners -> Hand]
  BY <1>2, <1>3 DEF Inv, Typed
<1>7. Typed'
  BY <1>1, <1>2, <1>3, <1>4, <1>5, <1>6, WorkersAreRunners DEF Inv, Typed, Grows, dataVars, userVars
<1>8. SubmitsAreNew' /\ QueueIsSound'
  BY <1>1, <1>5, NothingNew DEF userVars, QueueIsSound, Inv
<1>9. \A w \in Workers : hand'[w] = hand[w]
  BY <1>4, WorkersAreRunners
<1>10. had'.stalls = 0 => WorkIsKept
  BY <1>1, <1>5, <1>9 DEF WorkIsKept, MindedBy, Inv, WorkIsOwned, Busy
<1>11. AutosStay
  BY <1>1, <1>2, <1>3, <1>4, <1>5, WorkersAreRunners DEF AutosStay, Busy
<1>12. (\A g \in Files : WrittenOff(row[g], row'[g])) /\ SubmitsEnd /\ UNCHANGED chunks
  BY <1>1 DEF WrittenOff, SubmitsEnd, dataVars, userVars
<1> QED
  BY <1>5, <1>7, <1>8, <1>9, <1>10, <1>11, <1>12, StepKeeps

\* Rows that are not indexed in a space are said to be stale.
LEMMA InvalidateWritesOff ==
  ASSUME Typed, NEW s, Invalidate(s)
  PROVE  row' \in [Files -> Row] /\ \A f \in Files : WrittenOff(row[f], row'[f])
<1>1. \A f \in Files : row'[f] \in Row /\ WrittenOff(row[f], row'[f])
  <2> SUFFICES ASSUME NEW f \in Files PROVE row'[f] \in Row /\ WrittenOff(row[f], row'[f])
    OBVIOUS
  <2>1. row[f] \in Row
    BY DEF Typed
  <2>2. CASE row'[f] = row[f]
    BY <2>1, <2>2 DEF WrittenOff
  <2>3. CASE row'[f] = [row[f] EXCEPT !.status = "stale"]
    BY <2>1, <2>3 DEF WrittenOff, Row, Statuses
  <2> QED
    BY <2>2, <2>3 DEF Invalidate
<1>2. row' = [f \in Files |-> row'[f]]
  BY DEF Invalidate
<1> QED
  BY <1>1, <1>2

LEMMA RestartKeeps ==
  ASSUME Inv, NEW v \in Servers, Restart(v)
  PROVE  Inv'
<1>1. /\ Meets("restarts") /\ UNCHANGED <<chunks, saved, submit>> /\ (UNCHANGED row \/ Invalidate(saved))
      /\ hand' = [w \in Runners |-> IF Home[w] = v THEN Resting ELSE hand[w]]
      /\ runtime' = [runtime EXCEPT ![v] = saved]
  BY DEF Restart
<1>2. /\ Grows /\ had'.submits = had.submits /\ had'.restarts # 0 /\ had'.stalls = had.stalls
  BY <1>1, EventGrows, NamedKinds DEF Inv
<1>3. /\ Kept(queue, queue')
      /\ \A w \in Workers : \A m : Home[w] # v /\ OwnsIt(queue, w, m) => OwnsIt(queue', w, m)
  BY RestartSound DEF Inv, Typed, QueueIsSound, Restart
<1>4. row' \in [Files -> Row] /\ \A f \in Files : WrittenOff(row[f], row'[f])
  <2>1. CASE UNCHANGED row
    BY <2>1 DEF Inv, Typed, WrittenOff
  <2> QED
    BY <1>1, <2>1, InvalidateWritesOff DEF Inv
<1>5. \A w \in Runners : (hand'[w] = hand[w] /\ Home[w] # v) \/ hand'[w] = Resting
  BY <1>1
<1>6. Resting \in Hand /\ Resting.pc = "idle" /\ OfWorker(Resting) /\ OfAuto(Resting)
  BY DEF Resting, Hand, SpaceOrNone, OfWorker, OfAuto
<1>7. hand' \in [Runners -> Hand]
  BY <1>1, <1>6 DEF Inv, Typed
<1>8. (\A w \in Workers : OfWorker(hand'[w])) /\ \A a \in Autos : OfAuto(hand'[a])
  BY <1>5, <1>6, WorkersAreRunners DEF Inv, Typed
<1>9. admin' \in Admin
  BY DEF Restart, RequestEnds, Inv, Typed, Admin
<1>10. Typed'
  BY <1>1, <1>2, <1>3, <1>4, <1>7, <1>8, <1>9 DEF Inv, Typed, Grows, Kept
<1>11. SubmitsAreNew' /\ QueueIsSound'
  BY <1>1, <1>2, <1>3, NothingNew DEF Kept, QueueIsSound
<1>12. ASSUME had'.stalls = 0 PROVE WorkIsKept
  <2>1. ASSUME NEW w \in Workers, hand'[w].pc # "idle" PROVE OwnsIt(queue', w, hand'[w].msg)
    BY <1>2, <1>3, <1>5, <1>6, <1>12, <2>1, WorkersAreRunners DEF Inv, WorkIsOwned, Busy
  <2>2. ASSUME NEW status \in Underway, NEW m \in Messages(queue), MindedBy(hand, m, status)
        PROVE  \E k \in Messages(queue') : k.file = m.file /\ k.space = m.space /\ MindedBy(hand', k, status)
    <3>1. PICK k \in Messages(queue') : Same(k, m)
      BY <1>3 DEF Kept
    <3> QED
      BY <1>5, <1>6, <2>2, <3>1, WorkersAreRunners DEF MindedBy, Same
  <2> QED
    BY <2>1, <2>2 DEF WorkIsKept
<1>13. AutosStay
  BY <1>2, <1>5, <1>6, WorkersAreRunners DEF AutosStay
<1>14. \A w \in Workers : hand'[w] = hand[w] \/ hand'[w].pc \notin {"check", "ready"}
  BY <1>5, <1>6, WorkersAreRunners
<1>15. SubmitsEnd /\ UNCHANGED chunks
  BY <1>1 DEF SubmitsEnd
<1> QED
  BY <1>2, <1>4, <1>10, <1>11, <1>12, <1>13, <1>14, <1>15, StepKeeps

\* The steps of the administrator and of whoever lists files: rows are written off.
LEMMA WriteOffKeeps ==
  ASSUME Inv, UNCHANGED <<chunks, queue, submit, hand>>,
         saved' \in Spaces, runtime' \in [Servers -> Spaces],
         admin' \in Admin,
         row' \in [Files -> Row], \A f \in Files : WrittenOff(row[f], row'[f]),
         UNCHANGED had \/ Meets("changes")
  PROVE  Inv'
<1>1. Grows /\ had'.submits = had.submits
  BY EventGrows, NamedKinds DEF Inv
<1>2. Typed'
  BY <1>1 DEF Inv, Typed, Grows
<1>3. SubmitsAreNew' /\ QueueIsSound'
  BY <1>1, NothingNew DEF QueueIsSound, Inv
<1>4. AutosStay /\ SubmitsEnd
  BY DEF AutosStay, SubmitsEnd
<1> QED
  BY <1>1, <1>2, <1>3, <1>4, WorkStays, StepKeeps

LEMMA AdminKeeps ==
  ASSUME Inv, (\E v \in Servers : SaveSpace(v)) \/ ApplyTo \/ ReconcileIndex
  PROVE  Inv'
<1>1. UNCHANGED row => row' \in [Files -> Row] /\ \A f \in Files : WrittenOff(row[f], row'[f])
  BY DEF Inv, Typed, WrittenOff
<1>2. ASSUME NEW v \in Servers, SaveSpace(v) PROVE Inv'
  <2>1. admin' \in Admin
    BY <1>2 DEF SaveSpace, Inv, Typed, Admin
  <2>2. saved' \in Spaces /\ runtime' \in [Servers -> Spaces]
    BY <1>2 DEF SaveSpace, Inv, Typed
  <2> QED
    BY <1>1, <1>2, <2>1, <2>2, WriteOffKeeps DEF SaveSpace
<1>3. CASE ApplyTo
  <2>1. admin' \in Admin
    BY <1>3 DEF ApplyTo, RequestEnds, Inv, Typed, Admin
  <2>2. saved' \in Spaces /\ runtime' \in [Servers -> Spaces]
    BY <1>3 DEF ApplyTo, Inv, Typed
  <2> QED
    BY <1>1, <1>3, <2>1, <2>2, WriteOffKeeps DEF ApplyTo
<1>4. CASE ReconcileIndex
  <2>1. row' \in [Files -> Row] /\ \A f \in Files : WrittenOff(row[f], row'[f])
    BY <1>1, <1>4, InvalidateWritesOff DEF ReconcileIndex, Inv
  <2>2. \E b \in BOOLEAN : RequestEnds(b)
    BY <1>4 DEF ReconcileIndex
  <2>3. admin' \in Admin
    BY <2>2 DEF RequestEnds, Admin
  <2> QED
    BY <1>4, <2>1, <2>3, WriteOffKeeps DEF ReconcileIndex, Inv, Typed
<1> QED
  BY <1>2, <1>3, <1>4

LEMMA MarkTimedOutKeeps ==
  ASSUME Inv, NEW f \in Files, MarkTimedOut(f)
  PROVE  Inv'
<1>1. row \in [Files -> Row] /\ row[f] \in Row
  BY DEF Inv, Typed
<1>2. row' = [row EXCEPT ![f] = row'[f]] /\ row'[f] = [row[f] EXCEPT !.status = "failed"]
  BY <1>1 DEF MarkTimedOut
<1>3. row'[f] \in Row /\ WrittenOff(row[f], row'[f])
  BY <1>1, <1>2 DEF Row, Statuses, WrittenOff
<1>4. \A g \in Files : g # f => WrittenOff(row[g], row'[g])
  BY <1>1, <1>2 DEF WrittenOff
<1>5. row' \in [Files -> Row] /\ \A g \in Files : WrittenOff(row[g], row'[g])
  BY <1>1, <1>2, <1>3, <1>4
<1> QED
  BY <1>5, WriteOffKeeps DEF MarkTimedOut, userVars, Inv, Typed

\* A submission is over, or goes on to release its row.
LEMMA SubmitMoves ==
  ASSUME Typed, NEW f \in Files, Asked(f),
         \/ submit' = [submit EXCEPT ![f] = NoSubmit]
         \/ submit' = [submit EXCEPT ![f].pc = "release"]
  PROVE  /\ submit' \in [Files -> Submit] /\ submit'[f].pc # "enqueue"
         /\ submit'[f].pc # "idle" => submit'[f].space = submit[f].space
         /\ \A g \in Files : g # f => submit'[g] = submit[g]
<1>1. NoSubmit \in Submit /\ NoSubmit.pc = "idle"
  BY DEF NoSubmit, Submit, SpaceOrNone
<1>2. submit \in [Files -> Submit] /\ submit[f] \in Submit /\ submit[f].space \in Spaces
  BY DEF Typed, Submit, Asked
<1>3. CASE submit' = [submit EXCEPT ![f] = NoSubmit]
  BY <1>1, <1>2, <1>3
<1>4. CASE submit' = [submit EXCEPT ![f].pc = "release"]
  <2>1. submit'[f] = [submit[f] EXCEPT !.pc = "release"]
    BY <1>2, <1>4
  <2>2. submit'[f] \in Submit /\ submit'[f].pc = "release" /\ submit'[f].space = submit[f].space
    BY <1>2, <2>1 DEF Submit
  <2> QED
    BY <1>2, <1>4, <2>2
<1> QED
  BY <1>3, <1>4

LEMMA SubmitCrashKeeps ==
  ASSUME Inv, NEW f \in Files, SubmitCrash(f)
  PROVE  Inv'
<1>1. /\ submit' = [submit EXCEPT ![f] = NoSubmit] /\ Meets("cuts") /\ Asked(f)
      /\ UNCHANGED <<row, chunks, queue, runtime, saved, admin, hand>>
  BY DEF SubmitCrash, Asked
<1>2. Grows /\ had'.submits = had.submits /\ had'.cuts # 0
  BY <1>1, EventGrows, NamedKinds DEF Inv
<1>3. /\ submit' \in [Files -> Submit] /\ submit'[f].pc # "enqueue"
      /\ \A g \in Files : g # f => submit'[g] = submit[g]
  BY <1>1, SubmitMoves DEF Inv
<1>4. Typed'
  BY <1>1, <1>2, <1>3 DEF Inv, Typed, Grows
<1>5. SubmitsAreNew' /\ QueueIsSound'
  BY <1>1, <1>2, <1>3 DEF Inv, SubmitsAreNew, Pending, QueueIsSound
<1>6. AutosStay /\ SubmitsEnd /\ \A g \in Files : WrittenOff(row[g], row'[g])
  BY <1>1, <1>2 DEF AutosStay, SubmitsEnd, WrittenOff
<1> QED
  BY <1>1, <1>2, <1>4, <1>5, <1>6, WorkStays, StepKeeps

\* What is not queued is still to be released, ...
LEMMA EnqueueFails ==
  ASSUME Inv, NEW f \in Files, Pending(f), Meets("calls"),
         submit' = [submit EXCEPT ![f].pc = "release"],
         UNCHANGED <<row, chunks, queue, runtime, saved, admin, hand>>
  PROVE  Inv'
<1>1. Grows /\ had'.submits = had.submits
  BY EventGrows, NamedKinds DEF Inv
<1>2. /\ submit' \in [Files -> Submit] /\ submit'[f].pc # "enqueue"
      /\ submit'[f].pc # "idle" => submit'[f].space = submit[f].space
      /\ \A g \in Files : g # f => submit'[g] = submit[g]
  BY SubmitMoves DEF Inv, Pending, Asked
<1>3. submit'[f].pc = "release"
  BY DEF Inv, Typed, Submit
<1>4. Typed'
  BY <1>1, <1>2 DEF Inv, Typed, Grows
<1>5. SubmitsAreNew' /\ QueueIsSound'
  BY <1>1, <1>2 DEF Inv, SubmitsAreNew, Pending, QueueIsSound
<1>6. AutosStay /\ SubmitsEnd /\ \A g \in Files : WrittenOff(row[g], row'[g])
  BY <1>2, <1>3 DEF AutosStay, SubmitsEnd, WrittenOff
<1> QED
  BY <1>1, <1>4, <1>5, <1>6, WorkStays, StepKeeps

\* ... which writes the row off or drops the write, ...
LEMMA ReleaseRowKeeps ==
  ASSUME Inv, NEW f \in Files, ReleaseRow(f)
  PROVE  Inv'
<1>1. /\ Asked(f) /\ submit' = [submit EXCEPT ![f] = NoSubmit]
      /\ Tries(f, submit[f].space, "failed", "drops")
      /\ UNCHANGED <<chunks, queue, runtime, saved, admin, hand>>
  BY DEF ReleaseRow, Asked
<1>2. /\ Grows /\ had'.submits = had.submits
      /\ Meets("drops") => had'["drops"] # 0
  BY <1>1, EventGrows, NamedKinds DEF Inv, Tries
<1>3. /\ submit' \in [Files -> Submit] /\ submit'[f].pc # "enqueue"
      /\ \A g \in Files : g # f => submit'[g] = submit[g]
  BY <1>1, SubmitMoves DEF Inv
<1>4. /\ row' \in [Files -> Row] /\ \A g \in Files : WrittenOff(row[g], row'[g])
      /\ had'["drops"] # 0 \/ row'[f].status # "queued" \/ row'[f].space # submit[f].space
  <2>1. CASE SetStatus(f, submit[f].space, "failed")
    <3>1. "failed" \in Statuses
      BY DEF Statuses
    <3>2. /\ RowStep(f) /\ row'[f].space = row[f].space
          /\ row'[f].been = row[f].been /\ row'[f].back = row[f].back
          /\ row'[f].status = IF row[f].space = submit[f].space THEN "failed" ELSE row[f].status
      BY <1>1, <2>1, <3>1, SetStatusMoves
    <3> QED
      BY <3>2 DEF RowStep, Inv, Typed, WrittenOff
  <2>2. CASE Meets("drops") /\ UNCHANGED row
    BY <1>2, <2>2 DEF Inv, Typed, WrittenOff
  <2> QED
    BY <1>1, <2>1, <2>2 DEF Tries
<1>5. Typed'
  BY <1>1, <1>2, <1>3, <1>4 DEF Inv, Typed, Grows
<1>6. SubmitsAreNew' /\ QueueIsSound'
  BY <1>1, <1>2, <1>3 DEF Inv, SubmitsAreNew, Pending, QueueIsSound
<1>7. SubmitsEnd /\ AutosStay
  BY <1>1, <1>3, <1>4 DEF SubmitsEnd, AutosStay
<1> QED
  BY <1>1, <1>2, <1>4, <1>5, <1>6, <1>7, WorkStays, StepKeeps

\* ... and what is queued is a message that nobody has had.
LEMMA EnqueueWorks ==
  ASSUME Inv, NEW f \in Files, Pending(f),
         queue' = Enqueue(queue, Message(f, submit[f].space, submit[f].n, 0)),
         \/ submit' = [submit EXCEPT ![f] = NoSubmit]
         \/ submit' = [submit EXCEPT ![f].pc = "release"],
         UNCHANGED had \/ Meets("calls"),
         UNCHANGED <<row, chunks, runtime, saved, admin, hand>>
  PROVE  Inv'
<1> DEFINE msg == Message(f, submit[f].space, submit[f].n, 0)
<1>1. submit[f] \in Submit /\ submit[f].space \in Spaces /\ submit[f].n \in Nat
  BY DEF Inv, Typed, Submit, Pending
<1>2. msg \in Msg /\ Job(msg) = submit[f].n /\ msg.file = f /\ msg.space = submit[f].space
  <2>1. 0 \in 0 .. MaxRetries
    BY EmbeddingAssumption
  <2> QED
    BY <1>1, <2>1 DEF Message, Msg, Job
<1> HIDE DEF msg
<1>3. queue' = Enqueue(queue, msg)
  BY DEF msg
<1>4. ~Known(queue, Job(msg)) /\ Job(msg) <= had.submits
  BY <1>2 DEF Inv, SubmitsAreNew
<1>5. /\ queue' \in Queue /\ Sound(queue') /\ queue'.leased = queue.leased
      /\ \A n : Known(queue', n) => Known(queue, n) \/ n = Job(msg)
      /\ \A m \in Messages(queue) : m \in Messages(queue')
      /\ msg \in Messages(queue')
  BY <1>2, <1>3, <1>4, EnqueueSound DEF Inv, Typed, QueueIsSound, Known
<1>6. /\ submit' \in [Files -> Submit] /\ submit'[f].pc # "enqueue"
      /\ \A g \in Files : g # f => submit'[g] = submit[g]
  BY SubmitMoves DEF Inv, Pending, Asked
<1>7. /\ Grows /\ had'.submits = had.submits
      /\ had'.stalls = 0 => had.stalls = 0
  BY EventGrows, NamedKinds DEF Inv
<1>8. Typed' /\ QueueIsSound'
  BY <1>5, <1>6, <1>7 DEF Inv, Typed, QueueIsSound, Grows
<1>9. SubmitsAreNew'
  <2>1. \A n \in Nat : Known(queue', n) => n <= had'.submits
    BY <1>4, <1>5, <1>7 DEF Inv, SubmitsAreNew
  <2>2. ASSUME NEW g \in Files, Pending(g)'
        PROVE  /\ submit'[g].n <= had'.submits /\ ~Known(queue', submit'[g].n)
               /\ \A k \in Files : Pending(k)' /\ submit'[k].n = submit'[g].n => k = g
    <3>1. g # f /\ submit'[g] = submit[g] /\ Pending(g)
      BY <1>6, <2>2 DEF Pending
    <3>2. submit[g].n # submit[f].n
      BY <3>1 DEF Inv, SubmitsAreNew
    <3>3. ~Known(queue', submit[g].n) /\ submit[g].n <= had.submits
      BY <1>2, <1>5, <3>1, <3>2 DEF Inv, SubmitsAreNew
    <3>4. \A k \in Files : Pending(k)' => submit'[k] = submit[k] /\ Pending(k)
      BY <1>6 DEF Pending
    <3> QED
      BY <1>7, <3>1, <3>3, <3>4 DEF Inv, SubmitsAreNew
  <2> QED
    BY <2>1, <2>2 DEF SubmitsAreNew
<1>10. had'.stalls = 0 => WorkIsKept
  BY <1>5, <1>7 DEF WorkIsKept, Inv, WorkIsOwned, OwnsIt, MindedBy, Busy
<1>11. had'.stalls = 0 => IsMinded(queue', hand', f, submit[f].space, "queued")
  <2> SUFFICES ASSUME had'.stalls = 0 PROVE MindedBy(hand', msg, "queued")
    BY <1>2, <1>5 DEF IsMinded
  <2> SUFFICES ASSUME NEW v \in Workers, Busy(v), hand[v].msg.id = msg.id PROVE FALSE
    BY DEF MindedBy, Busy
  <2>1. OwnsIt(queue, v, hand[v].msg) /\ Job(hand[v].msg) = Job(msg)
    BY <1>7 DEF Inv, WorkIsOwned, Job
  <2> QED
    BY <1>4, <2>1 DEF OwnsIt, Known, Leased
<1>12. SubmitsEnd
  BY <1>6, <1>11 DEF SubmitsEnd
<1>13. AutosStay /\ \A g \in Files : WrittenOff(row[g], row'[g])
  BY DEF AutosStay, WrittenOff
<1> QED
  BY <1>7, <1>8, <1>9, <1>10, <1>12, <1>13, StepKeeps

LEMMA EnqueueFileKeeps ==
  ASSUME Inv, NEW f \in Files, EnqueueFile(f)
  PROVE  Inv'
<1>1. Pending(f) /\ UNCHANGED <<row, chunks, runtime, saved, admin, hand>>
  BY DEF EnqueueFile, Pending
<1>2. CASE UNCHANGED queue /\ Meets("calls") /\ submit' = [submit EXCEPT ![f].pc = "release"]
  BY <1>1, <1>2, EnqueueFails
<1>3. CASE /\ queue' = Enqueue(queue, Message(f, submit[f].space, submit[f].n, 0))
           /\ UNCHANGED had \/ Meets("calls")
           /\ \/ submit' = [submit EXCEPT ![f] = NoSubmit]
              \/ submit' = [submit EXCEPT ![f].pc = "release"]
  BY <1>1, <1>3, EnqueueWorks
<1> QED
  BY <1>2, <1>3 DEF EnqueueFile

\* A row that is queued again is nobody's index.
LEMMA QueuedIndexes ==
  ASSUME Inv, NEW f \in Files, RowStep(f), row'[f].status = "queued",
         \A g \in Files : g # f => row'[g] = row[g], UNCHANGED <<chunks, hand>>
  PROVE  IndexesAreKnown'
<1>1. \A g \in Files : row'[g].space \in row'[g].been \cup {NoSpace}
  BY DEF Inv, IndexesAreKnown, RowStep, Comes
<1>2. \A g \in Files : row'[g].status = "ready" /\ ~row'[g].back => chunks'[g] = row'[g].space
  BY DEF Inv, IndexesAreKnown
<1>3. ASSUME NEW w \in Runners, Busy(w)
      PROVE  Indexed(hand[w], row'[hand[w].file], chunks[hand[w].file])
  <2>1. Indexed(hand[w], row[hand[w].file], chunks[hand[w].file]) /\ hand[w].file \in Files
    BY <1>3, HandTypes DEF Inv, IndexesAreKnown
  <2>2. CASE hand[w].file # f
    BY <2>1, <2>2
  <2>3. CASE hand[w].file = f
    BY <2>1, <2>3 DEF RowStep, Comes, Indexed
  <2> QED
    BY <2>2, <2>3
<1> QED
  BY <1>1, <1>2, <1>3 DEF IndexesAreKnown, Busy

\* A submission takes a number that no message has, ...
LEMMA SubmittedKeeps ==
  ASSUME Inv, NEW f \in Files, NEW v \in Servers,
         submit[f].pc = "idle", Meets("submits"), Give(f, runtime[v], "queued"),
         submit' = [submit EXCEPT ![f] = [pc |-> "enqueue", space |-> runtime[v], n |-> had'.submits]],
         UNCHANGED <<chunks, queue, runtime, saved, admin, hand>>
  PROVE  Inv'
<1> DEFINE s == runtime[v]
           new == [pc |-> "enqueue", space |-> s, n |-> had'.submits]
<1>1. /\ submit[f].pc = "idle" /\ Meets("submits") /\ Give(f, s, "queued")
      /\ submit' = [submit EXCEPT ![f] = new]
      /\ UNCHANGED <<chunks, queue, runtime, saved, admin, hand>>
  OBVIOUS
<1>2. Grows /\ \A k \in Kinds : k # "submits" => had'[k] = had[k]
  BY <1>1, EventGrows, NamedKinds DEF Inv
<1>3. had'.submits = had.submits + 1 /\ had.submits \in Nat
  BY <1>1, NamedKinds DEF Meets, Inv, Typed
<1>4. s \in Spaces
  BY DEF Inv, Typed
<1>5. RowStep(f) /\ row'[f].space = s /\ row'[f].status = "queued"
  BY <1>1, <1>4, GiveMoves DEF Underway
<1>6. \A g \in Files : g # f => row'[g] = row[g]
  BY <1>5 DEF RowStep, Inv, Typed
<1>7. new \in Submit
  BY <1>3, <1>4 DEF Submit, SpaceOrNone
<1>8. new.pc = "enqueue" /\ new.space = s /\ new.n = had'.submits
  OBVIOUS
<1> HIDE DEF new
<1>9. /\ submit' \in [Files -> Submit] /\ submit'[f] = new
      /\ \A g \in Files : g # f => submit'[g] = submit[g]
  BY <1>1, <1>7 DEF Inv, Typed
<1>10. row' \in [Files -> Row]
  BY <1>5 DEF RowStep, Inv, Typed
<1>11. Typed'
  BY <1>1, <1>2, <1>9, <1>10 DEF Inv, Typed, Grows
<1>12. QueueIsSound' /\ WorkIsOwned' /\ AutosAreCounted'
  BY <1>1, <1>2, NamedKinds DEF Inv, QueueIsSound, WorkIsOwned, AutosAreCounted, Busy
<1>13. SubmitsAreNew'
  <2>1. \A n \in Nat : Known(queue', n) => n <= had'.submits
    BY <1>1, <1>3 DEF Inv, SubmitsAreNew
  <2>2. \A g \in Files : Pending(g)' /\ g # f => submit'[g] = submit[g] /\ Pending(g) /\ submit[g].n \in Nat
    BY <1>9 DEF Pending, Inv, Typed, Submit
  <2>3. ASSUME NEW g \in Files, Pending(g)'
        PROVE  /\ submit'[g].n <= had'.submits /\ ~Known(queue', submit'[g].n)
               /\ \A k \in Files : Pending(k)' /\ submit'[k].n = submit'[g].n => k = g
    <3>1. CASE g = f
      <4>1. submit'[g].n = had'.submits /\ had'.submits \in Nat
        BY <1>3, <1>8, <1>9, <3>1
      <4>2. ~Known(queue', had'.submits)
        BY <1>1, <1>3, <4>1 DEF Inv, SubmitsAreNew
      <4>3. \A k \in Files : Pending(k)' /\ k # f => submit'[k].n <= had.submits
        BY <2>2 DEF Inv, SubmitsAreNew
      <4>4. \A k \in Files : Pending(k)' /\ k # f => submit'[k].n \in Nat
        BY <2>2
      <4>5. \A k \in Files : Pending(k)' /\ k # f => submit'[k].n # had'.submits
        BY <1>3, <4>3, <4>4
      <4> QED
        BY <1>3, <3>1, <4>1, <4>2, <4>5
    <3>2. CASE g # f
      <4>1. submit'[g] = submit[g] /\ Pending(g) /\ submit[g].n \in Nat
        BY <2>2, <2>3, <3>2
      <4>2. submit[g].n <= had.submits /\ ~Known(queue, submit[g].n)
        BY <4>1 DEF Inv, SubmitsAreNew
      <4>3. submit[g].n <= had'.submits /\ submit[g].n # had'.submits
        BY <1>3, <4>1, <4>2
      <4>4. \A k \in Files : Pending(k)' /\ submit'[k].n = submit'[g].n => k # f
        BY <1>8, <1>9, <4>1, <4>3
      <4>5. \A k \in Files : Pending(k)' /\ k # f /\ submit'[k].n = submit'[g].n => k = g
        BY <2>2, <4>1 DEF Inv, SubmitsAreNew
      <4> QED
        BY <1>1, <4>1, <4>2, <4>3, <4>4, <4>5
    <3> QED
      BY <3>1, <3>2
  <2> QED
    BY <2>1, <2>3 DEF SubmitsAreNew
<1>14. QueuedIsMinded'
  <2> SUFFICES ASSUME had.cuts = 0, had.stalls = 0, had.drops = 0,
                      NEW g \in Files, row'[g].status = "queued"
               PROVE  \/ Asked(g)' /\ submit'[g].space = row'[g].space
                      \/ IsMinded(queue', hand', g, row'[g].space, "queued")
    BY <1>2, NamedKinds DEF QueuedIsMinded
  <2>1. CASE g = f
    BY <1>5, <1>8, <1>9, <2>1 DEF Asked
  <2>2. CASE g # f
    BY <1>1, <1>6, <1>9, <2>2 DEF Asked, Inv, QueuedIsMinded
  <2> QED
    BY <2>1, <2>2
<1>15. ProcessingIsMinded'
  <2> SUFFICES ASSUME had.stalls = 0, had.drops = 0, had.autos = 0 \/ (had.calls = 0 /\ had.restarts = 0),
                      NEW g \in Files, row'[g].status = "processing"
               PROVE  \/ MindedByAuto(hand', g, row'[g].space)
                      \/ IsMinded(queue', hand', g, row'[g].space, "processing")
    BY <1>2, NamedKinds DEF ProcessingIsMinded
  <2>1. g # f
    BY <1>5
  <2> QED
    BY <1>1, <1>6, <2>1 DEF Inv, ProcessingIsMinded
<1>16. IndexesAreKnown'
  BY <1>1, <1>5, <1>6, QueuedIndexes
<1> QED
  BY <1>11, <1>12, <1>13, <1>14, <1>15, <1>16 DEF Inv

\* ... unless the answer is lost on the way.
LEMMA UnansweredSubmitKeeps ==
  ASSUME Inv, NEW f \in Files, NEW v \in Servers, Meets("drops"), Give(f, runtime[v], "queued"),
         UNCHANGED <<chunks, queue, runtime, saved, admin, submit, hand>>
  PROVE  Inv'
<1>1. runtime[v] \in Spaces
  BY DEF Inv, Typed
<1>2. /\ Grows /\ had'["drops"] # 0
      /\ \A k \in Kinds : k # "drops" => had'[k] = had[k]
  BY EventGrows, NamedKinds DEF Inv
<1>3. RowStep(f) /\ row'[f].status = "queued"
  BY <1>1, GiveMoves DEF Underway
<1>4. row' \in [Files -> Row] /\ \A g \in Files : g # f => row'[g] = row[g]
  BY <1>3 DEF RowStep, Inv, Typed
<1>5. Typed'
  BY <1>2, <1>4 DEF Inv, Typed, Grows
<1>6. QueueIsSound' /\ WorkIsOwned' /\ AutosAreCounted' /\ SubmitsAreNew'
  BY <1>2, NamedKinds DEF Inv, QueueIsSound, WorkIsOwned, AutosAreCounted, SubmitsAreNew, Pending, Busy
<1>7. QueuedIsMinded' /\ ProcessingIsMinded'
  BY <1>2 DEF QueuedIsMinded, ProcessingIsMinded
<1>8. IndexesAreKnown'
  BY <1>3, <1>4, QueuedIndexes
<1> QED
  BY <1>5, <1>6, <1>7, <1>8 DEF Inv

LEMMA SubmitFileKeeps ==
  ASSUME Inv, NEW f \in Files, NEW v \in Servers, SubmitFile(f, v)
  PROVE  Inv'
BY SubmittedKeeps, UnansweredSubmitKeeps DEF SubmitFile

-----------------------------------------------------------------------------
(***************************************************************************)
(* The theorems.                                                           *)
(***************************************************************************)

LEMMA InitInv == Init => Inv
<1> SUFFICES ASSUME Init PROVE Inv
  OBVIOUS
<1>1. queue = EmptyQueue /\ queue.waiting = <<>> /\ queue.leased = {} /\ queue.dead = {}
  BY DEF Init, EmptyQueue
<1>2. <<>> \in Seq(Msg) /\ DOMAIN <<>> = {}
  BY EmptySeq
<1>3. queue \in Queue
  BY <1>1, <1>2 DEF EmptyQueue, Queue
<1>4. \A n : ~Waits(queue, n) /\ ~Known(queue, n)
  BY <1>1, <1>2 DEF Waits, Leased, Known
<1>5. QueueIsSound
  BY <1>1, <1>2, <1>4 DEF QueueIsSound, Sound
<1>6. Resting \in Hand /\ Resting.pc = "idle"
  BY DEF Resting, Hand, SpaceOrNone
<1>7. NoSubmit \in Submit /\ NoSubmit.pc = "idle"
  BY DEF NoSubmit, Submit, SpaceOrNone
<1>8. [status |-> "none", space |-> NoSpace, been |-> {}, back |-> FALSE] \in Row
  BY DEF Row, Statuses, SpaceOrNone
<1>9. \A w \in Runners : ~Busy(w)
  BY <1>6 DEF Init, Busy
<1>10. Typed
  <2>1. hand \in [Runners -> Hand]
    BY <1>6 DEF Init
  <2>2. (\A w \in Workers : OfWorker(hand[w])) /\ \A a \in Autos : OfAuto(hand[a])
    BY <1>9, WorkersAreRunners DEF OfWorker, OfAuto, Busy
  <2>3. row \in [Files -> Row] /\ chunks \in [Files -> SpaceOrNone]
    BY <1>8 DEF Init, SpaceOrNone
  <2>4. submit \in [Files -> Submit]
    BY <1>7 DEF Init
  <2>5. had \in [Kinds -> Nat]
    BY DEF Init
  <2>6. saved \in Spaces /\ runtime \in [Servers -> Spaces]
    BY DEF Init
  <2>7. admin \in Admin
    BY DEF Init, Admin
  <2> QED
    BY <1>3, <2>1, <2>2, <2>3, <2>4, <2>5, <2>6, <2>7 DEF Typed
<1>11. SubmitsAreNew
  BY <1>4, <1>7 DEF SubmitsAreNew, Init, Pending
<1>12. WorkIsOwned /\ AutosAreCounted
  BY <1>9, WorkersAreRunners DEF WorkIsOwned, AutosAreCounted
<1>13. QueuedIsMinded /\ ProcessingIsMinded
  BY DEF Init, QueuedIsMinded, ProcessingIsMinded
<1>14. IndexesAreKnown
  BY <1>9 DEF Init, IndexesAreKnown
<1> QED
  BY <1>5, <1>10, <1>11, <1>12, <1>13, <1>14 DEF Inv

LEMMA HandlingKeeps ==
  ASSUME Inv, NEW w \in Runners, Handling(w)
  PROVE  Inv'
BY BeginKeeps, LookKeeps, ClaimRowKeeps, EmbedTextsKeeps, ReplaceFileChunksKeeps, CheckSpaceKeeps,
   PublishReadyKeeps, RecheckSpaceKeeps, MarkOutdatedKeeps, VerifyKeeps, RequeueRowKeeps,
   RequeueMessageKeeps, FailRowKeeps, DeadLetterMessageKeeps, SettleMessageKeeps DEF Handling

LEMMA StutterKeeps ==
  ASSUME Inv, UNCHANGED vars
  PROVE  Inv'
BY DEF vars, Inv, Typed, QueueIsSound, SubmitsAreNew, WorkIsOwned, AutosAreCounted, QueuedIsMinded,
       ProcessingIsMinded, IndexesAreKnown, Pending, Asked, Busy

LEMMA NextInv == Inv /\ [Next]_vars => Inv'
<1> SUFFICES ASSUME Inv, [Next]_vars PROVE Inv'
  OBVIOUS
<1>1. CASE (\E v \in Servers : SaveSpace(v)) \/ ApplyTo \/ ReconcileIndex
  BY <1>1, AdminKeeps
<1>2. ASSUME NEW v \in Servers, Restart(v) PROVE Inv'
  BY <1>2, RestartKeeps
<1>3. ASSUME NEW f \in Files, NEW v \in Servers, SubmitFile(f, v) PROVE Inv'
  BY <1>3, SubmitFileKeeps
<1>4. ASSUME NEW f \in Files, EnqueueFile(f) \/ ReleaseRow(f) \/ SubmitCrash(f) \/ MarkTimedOut(f)
      PROVE  Inv'
  BY <1>4, EnqueueFileKeeps, ReleaseRowKeeps, SubmitCrashKeeps, MarkTimedOutKeeps
<1>5. ASSUME NEW a \in Autos, NEW f \in Files, StartAuto(a, f) PROVE Inv'
  BY <1>5, StartAutoKeeps
<1>6. ASSUME NEW l \in queue.leased, Expire(l) PROVE Inv'
  BY <1>6, ExpireKeeps
<1>7. ASSUME NEW w \in Workers, ClaimTimedOut(w) \/ ReadMessage(w) \/ LoseOwnership(w) PROVE Inv'
  BY <1>7, ClaimTimedOutKeeps, ReadMessageKeeps, LoseOwnershipKeeps
<1>8. ASSUME NEW w \in Runners, Handling(w) PROVE Inv'
  BY <1>8, HandlingKeeps
<1>9. CASE UNCHANGED vars
  BY <1>9, StutterKeeps
<1> QED
  BY <1>1, <1>2, <1>3, <1>4, <1>5, <1>6, <1>7, <1>8, <1>9 DEF Next

\* The rows, the queue, the hands and the index keep together what the workers, the
\* runs and the administrator do to them: the inductive invariant.
THEOREM EmbeddingInvariant == Spec => []Inv
BY InitInv, NextInv, PTL DEF Spec

\* Every submission has at most one message, wherever it stalls, is claimed by
\* another worker or is tried again (Requeue in one step, claimTimedOutFileMessages).
THEOREM OneMessagePerSubmission == Spec => []QueueIsSound
<1>1. Inv => QueueIsSound
  BY DEF Inv
<1> QED
  BY <1>1, EmbeddingInvariant, PTL

LEMMA InvAgrees == Inv => FilesAgree
<1> SUFFICES ASSUME Inv PROVE FilesAgree
  OBVIOUS
<1>1. TypeOK
  <2>1. row \in [Files -> [status : Statuses, space : SpaceOrNone, been : SUBSET Spaces, back : BOOLEAN]]
    BY DEF Inv, Typed, Row
  <2>2. submit \in [Files -> [pc : {"idle", "enqueue", "release"}, space : SpaceOrNone, n : Nat]]
    <3>1. \A f \in Files : submit[f] \in [pc : {"idle", "enqueue", "release"}, space : SpaceOrNone, n : Nat]
      BY DEF Inv, Typed, Submit
    <3> QED
      BY <3>1 DEF Inv, Typed
  <2>3. \A w \in Runners : /\ hand[w].pc \in {"idle"} \cup Started \cup Embedding \cup Concluding
                           /\ hand[w].space \in SpaceOrNone
    BY DEF Inv, Typed, Hand
  <2>4. \A l \in queue.leased : l.msg.retry \in 0 .. MaxRetries
    BY QueueTypes, JobTypes DEF Inv, Typed
  <2> QED
    BY <2>1, <2>2, <2>3, <2>4 DEF TypeOK, Inv, Typed, Admin
<1>2. ReadyIsIndexed
  BY DEF ReadyIsIndexed, Inv, IndexesAreKnown
<1>3. NothingIsDropped => had.cuts = 0 /\ had.stalls = 0 /\ had.drops = 0
  BY NamedKinds DEF NothingIsDropped, Inv, Typed
<1>4. RunsConclude => had.autos = 0 \/ (had.calls = 0 /\ had.restarts = 0)
  BY NamedKinds DEF RunsConclude, Inv, Typed
<1>5. QueuedHasMessage
  BY <1>3 DEF QueuedHasMessage, Inv, QueuedIsMinded, Asked, IsMinded
<1>6. DeadIsSettled
  <2> SUFFICES ASSUME NothingIsDropped, RunsConclude,
                      NEW m \in queue.dead, row[m.file].space = m.space,
                      row[m.file].status \in Underway
               PROVE  \/ submit[m.file].pc # "idle"
                      \/ \E k \in Messages(queue) : k.file = m.file
                      \/ \E w \in Runners : hand[w].file = m.file
    BY DEF DeadIsSettled
  <2>4. had.cuts = 0 /\ had.stalls = 0 /\ had.drops = 0 /\ (had.autos = 0 \/ (had.calls = 0 /\ had.restarts = 0))
    BY <1>3, <1>4
  <2>1. m.file \in Files
    BY QueueTypes, JobTypes DEF Inv, Typed
  <2>2. CASE row[m.file].status = "queued"
    BY <2>1, <2>2, <2>4 DEF Inv, QueuedIsMinded, IsMinded, Asked
  <2>3. CASE row[m.file].status = "processing"
    BY <2>1, <2>3, <2>4, WorkersAreRunners DEF Inv, ProcessingIsMinded, IsMinded, MindedByAuto
  <2> QED
    BY <2>2, <2>3 DEF Underway
<1> QED
  BY <1>1, <1>2, <1>5, <1>6 DEF FilesAgree

\* The rows, the queue and the index agree on how far a file is: a ready file has
\* its space's chunks, a queued one has somebody to take it out of the queue and a
\* dead letter's is settled (UpdateFileObjectEmbedStatus, ReplaceFileChunks,
\* RequeueTargetedJob, FailTargetedJob and the queue's steps after them).
THEOREM EmbeddedFilesAgree == Spec => []FilesAgree
BY InvAgrees, EmbeddingInvariant, PTL
=============================================================================
