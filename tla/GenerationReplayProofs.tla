------------------------- MODULE GenerationReplayProofs -------------------------
(***************************************************************************)
(* Resuming a stream for every window, channel, number of events and       *)
(* connections: what a subscriber shows begins what the run has said, who  *)
(* is told the end shows all of it, nothing retained is missed, what was   *)
(* withdrawn is not sent again, and whatever is shown is in order.         *)
(***************************************************************************)
EXTENDS GenerationReplay, SequenceTheorems, TLAPS

-----------------------------------------------------------------------------
(***************************************************************************)
(* The invariant.                                                          *)
(***************************************************************************)

Phases  == {"off", "listing", "text", "think", "deciding", "replaying", "live"}
Reading == {"listing", "text", "think", "deciding"}
Serving == {"replaying", "live"}

StoreType ==
    [window : SUBSET Event, seq : 0 .. MaxAppends, trimmed : 0 .. MaxAppends,
     text : Content, textSeq : 0 .. MaxAppends, think : Content, thinkSeq : 0 .. MaxAppends,
     active : BOOLEAN, owned : BOOLEAN]

RunType ==
    [outcome : {"none"} \cup Terminals, saved : BOOLEAN, withdrawn : BOOLEAN, dropped : BOOLEAN,
     answer : Answers, text : Content, think : Content]

PlanType ==
    [list : SUBSET Event, text : Content, textSeq : 0 .. MaxAppends,
     think : Content, thinkSeq : 0 .. MaxAppends]

ClientType ==
    [phase : Phases, connections : Nat, resumed : BOOLEAN, plan : PlanType,
     cursor : 0 .. MaxAppends, after : 0 .. MaxAppends, replay : SUBSET Item,
     reader : {"none", "open", "closed"}, batch : SUBSET Event, queue : Seq(Item),
     last : 0 .. MaxAppends, got : SUBSET Seqs, text : Content, think : Content,
     lagged : BOOLEAN, fresh : BOOLEAN,
     told : {"none", "refused", "dropped", "interrupted"} \cup Terminals]

TypeInv == store \in StoreType /\ run \in RunType /\ client \in ClientType

\* The events that the server can still hand on, and the items on their way.
Events == store.window \cup client.plan.list \cup client.batch
Items   == client.replay \cup {client.queue[i] : i \in 1 .. Len(client.queue)}

\* The generation goes forward: no event after the end, none after a withdrawal.
RunInv ==
    /\ run.outcome # "none" => run.saved
    /\ run.withdrawn => run.saved
    /\ run.dropped => run.withdrawn
    /\ run.outcome = "moderation_blocked" => run.withdrawn
    /\ run.withdrawn => run.text = <<>> /\ run.think = <<>>
    /\ store.active => store.owned

\* The numbers of the window.
WindowInv ==
    /\ \A e \in store.window : e.seq \in store.trimmed + 1 .. store.seq
    /\ \A d, e \in store.window : d.seq = e.seq => d = e
    /\ store.trimmed <= store.seq /\ (store.seq > 0 => store.trimmed < store.seq)
    /\ store.seq - (MaxEvents + Slack) <= store.trimmed
    /\ store.trimmed <= store.seq - MaxEvents \/ store.trimmed = 0
    /\ store.owned /\ ~ run.dropped =>
          \A n \in store.trimmed + 1 .. store.seq : \E e \in store.window : e.seq = n

\* A checkpoint is numbered after its last piece.
CheckpointOf(content, seq) ==
    /\ content = <<>> <=> seq = 0
    /\ content # <<>> => content[Len(content)] = seq

Increasing(s) == \A i, j \in 1 .. Len(s) : i < j => s[i] < s[j]

CheckpointInv ==
    /\ CheckpointOf(store.text, store.textSeq) /\ CheckpointOf(store.think, store.thinkSeq)
    /\ store.textSeq <= store.seq /\ store.thinkSeq <= store.seq
    /\ store.owned /\ ~ run.withdrawn => store.text = run.text /\ store.think = run.think
    /\ Increasing(run.text) /\ Increasing(run.think)
    /\ \A i \in 1 .. Len(run.text) : run.text[i] <= store.seq
    /\ \A i \in 1 .. Len(run.think) : run.think[i] <= store.seq
    /\ \A i \in 1 .. Len(run.text), j \in 1 .. Len(run.think) : run.text[i] # run.think[j]

\* The store has taken every piece of the answer but those whose append failed.
AnswerInv ==
    /\ Pieces(run.text) = Pieces(run.answer) \ {Unstored}
    /\ Unstored \notin Pieces(run.answer) => run.answer = run.text

\* Whatever is under way is older than the store; a terminal is the end of the run.
Past(e) == e.seq <= store.seq /\ (e.kind \in Terminals => run.outcome # "none")

PastInv ==
    /\ \A e \in Events \cup Items : Past(e)
    /\ client.last <= store.seq /\ client.after <= store.seq /\ client.cursor <= store.seq
    /\ client.plan.textSeq <= store.seq /\ client.plan.thinkSeq <= store.seq
    /\ client.told \in Terminals => run.outcome # "none"

\* Whoever still hands on the event of this number has it as a round that begins.
RoundIn(records, n) == \A d \in records : d.seq = n => d.kind = "round"

RoundAt(n) == RoundIn(store.window \cup client.batch, n)

\* What a record under way says of the run.
TextKnown(e) ==
    /\ e.kind = "text" => \E i \in 1 .. Len(run.text) : run.text[i] = e.seq
    /\ e.kind # "text" => \A i \in 1 .. Len(run.text) : run.text[i] # e.seq

ThinkKnown(e) ==
    /\ e.kind \in Thinking =>
          /\ run.think # <<>> /\ e.seq <= run.think[Len(run.think)]
          /\ IF e.seq < run.think[1] THEN RoundAt(run.think[1])
             ELSE \E i \in 1 .. Len(run.think) : run.think[i] = e.seq
    /\ \A i \in 1 .. Len(run.think) :
          run.think[i] = e.seq => e.kind \in Thinking /\ (i > 1 => e.kind = "think")

EndKnown(e) ==
    /\ e.kind # "moderation_blocked"
    /\ e.kind \in Terminals =>
          /\ e.seq = store.seq
          /\ \A i \in 1 .. Len(run.text) : run.text[i] < e.seq
          /\ \A i \in 1 .. Len(run.think) : run.think[i] < e.seq

Known(e) == TextKnown(e) /\ ThinkKnown(e) /\ EndKnown(e)

KnownInv ==
    ~ run.withdrawn =>
        /\ \A e \in Events \cup Items : Known(e)
        /\ client.text # <<>> => run.text # <<>>
        /\ client.think # <<>> => run.think # <<>>

\* shown begins what was said, and what follows is still to come; or the round
\* that was said is still to begin.
Ahead(said, shown, ahead, queued) ==
    /\ Begins(shown, said)
    /\ \A n \in queued : \E i \in Len(shown) + 1 .. Len(said) : said[i] = n
    /\ \A i \in 1 .. Len(said) : IF i <= Len(shown) THEN said[i] \notin ahead
                                 ELSE said[i] \in ahead \cup queued

Anew(said, ahead, queued, rounds) ==
    /\ said # <<>> /\ said[1] \in rounds
    /\ \A i \in 2 .. Len(said) : said[i] \in ahead \cup queued

Follows(said, shown, ahead, queued, rounds) ==
    Ahead(said, shown, ahead, queued) \/ Anew(said, ahead, queued, rounds)

\* The numbers that come after what has been listed and the checkpoint.
Beyond(seq) ==
    {n \in Seqs : n > seq /\ n > client.after /\ \A e \in client.plan.list : n > e.seq}

\* The state of a subscription that has still to decide.
PlanInv ==
    /\ client.phase \in {"off", "listing"} => client.plan = NoPlan
    /\ client.phase = "text" => client.plan = [NoPlan EXCEPT !.list = client.plan.list]
    /\ client.phase = "think" => client.plan.think = <<>> /\ client.plan.thinkSeq = 0
    /\ client.phase \in Serving => client.plan.list = {}
    /\ client.phase \notin Serving =>
          client.replay = {} /\ client.queue = <<>> /\ client.batch = {} /\ client.cursor = 0
          /\ client.reader = "none"
    /\ client.phase \in Serving => client.reader # "none"
    /\ client.phase \in Reading \cup {"live"} => client.told = "none"
    /\ client.phase = "replaying" => client.told \in {"none"} \cup Terminals
    /\ client.phase = "live" => client.replay = {}
    /\ client.phase \in Reading /\ ~ client.resumed => client.after = 0
    /\ client.phase = "off" => client.after = 0
    /\ \A d, e \in client.plan.list : d.seq = e.seq => d = e

ListInv ==
    client.phase \in {"text", "think", "deciding"} /\ store.owned /\ ~ run.withdrawn /\ client.after > 0 =>
        \E e \in client.plan.list : e.seq >= client.after

TextPlanInv ==
    client.phase \in {"think", "deciding"} /\ store.owned /\ ~ run.withdrawn =>
        /\ CheckpointOf(client.plan.text, client.plan.textSeq)
        /\ \A e \in client.plan.list : e.kind = "text" => e.seq <= client.plan.textSeq
        /\ client.plan.text # <<>> => run.text # <<>>
        /\ client.text # <<>> => client.plan.text # <<>>
        /\ client.plan.textSeq > 0 => \E i \in 1 .. Len(run.text) : run.text[i] = client.plan.textSeq
        /\ Ahead(run.text, client.plan.text, Beyond(client.plan.textSeq), {})

ThinkPlanInv ==
    client.phase = "deciding" /\ store.owned /\ ~ run.withdrawn =>
        /\ CheckpointOf(client.plan.think, client.plan.thinkSeq)
        /\ \A e \in client.plan.list : e.kind \in Thinking => e.seq <= client.plan.thinkSeq
        /\ client.think # <<>> => client.plan.think # <<>>
        /\ client.plan.thinkSeq > 0 =>
              ThinkKnown([seq |-> client.plan.thinkSeq, kind |-> "think"])
              /\ TextKnown([seq |-> client.plan.thinkSeq, kind |-> "think"])
        /\ LET beyond == Beyond(client.plan.thinkSeq)
           IN  Follows(run.think, client.plan.think, beyond, {}, {n \in beyond : RoundAt(n)})

\* The numbers the reader has still to read.
ToRead(seq) == {n \in Seqs : n > client.cursor /\ n > seq}

Queued(kinds) ==
    {client.queue[i].seq : i \in {j \in 1 .. Len(client.queue) : client.queue[j].kind \in kinds}}

\* The records in hand are next, and none between them is missing.
ReaderInv ==
    client.phase \in Serving =>
        /\ client.batch # {} => client.reader = "open"
        /\ \A d, e \in client.batch : d.seq = e.seq => d = e
        /\ \A e \in client.batch : e.seq > client.cursor
        /\ \A i \in 1 .. Len(client.queue) : client.queue[i].seq <= client.cursor
        /\ \A i, j \in 1 .. Len(client.queue) : i < j => client.queue[i].seq < client.queue[j].seq
        /\ \A i \in 1 .. Len(client.queue) :
              \E e \in Event : client.queue[i] = ToItem(e)
        /\ ~ client.lagged => (\A b \in client.batch, e \in store.window :
              e.seq \in client.cursor + 1 .. b.seq => e \in client.batch)
        /\ ~ client.lagged /\ ~ run.withdrawn => (\A b \in client.batch :
              \A n \in client.cursor + 1 .. b.seq : \E d \in client.batch : d.seq = n)
        /\ ~ run.withdrawn => client.after <= client.cursor
        /\ ~ client.resumed => client.after <= client.cursor
        /\ \A item \in client.replay : item.kind \in Terminals =>
              /\ client.reader = "closed" /\ client.queue = <<>> /\ client.batch = {}
              /\ client.cursor >= item.seq
        /\ \A item \in client.replay : item.kind \notin Thinking \cup {"text"} =>
              item.seq <= client.cursor

\* What is shown, once the checkpoint is written, and what is to come.
Leads(said, shown, kinds, seq, rounds) ==
    /\ \A item \in client.replay : item.kind \in kinds =>
          /\ item.replace
          /\ Follows(said, item.content, ToRead(seq), Queued(kinds), rounds)
    /\ (\A item \in client.replay : item.kind \notin kinds) =>
          Follows(said, shown, ToRead(seq), Queued(kinds), rounds)

Rounds ==
    {n \in ToRead(client.plan.thinkSeq) : RoundAt(n)}
    \cup {client.queue[i].seq : i \in {j \in 1 .. Len(client.queue) : client.queue[j].kind = "round"}}

Attending == client.phase \in Serving /\ ~ client.lagged /\ ~ run.withdrawn

TextInv  == Attending => Leads(run.text, client.text, {"text"}, client.plan.textSeq, {})
ThinkInv == Attending => Leads(run.think, client.think, Thinking, client.plan.thinkSeq, Rounds)

\* Who has been told the end shows everything.
EndInv ==
    client.told \in Outcomes /\ ~ client.lagged /\ ~ run.withdrawn =>
        /\ client.text = run.text /\ client.think = run.think
        /\ \A item \in client.replay : item.kind \notin Thinking \cup {"text"}

\* Events that are not content.
MustHold(e) == e.kind = "other" /\ e.seq > store.seq - MaxEvents

OtherInv ==
    /\ \A t \in Events \cup Items : t.kind \in Terminals =>
          \A e \in store.window : e.kind = "other" => e.seq < t.seq
    /\ client.phase \in {"text", "think", "deciding"} /\ ~ client.resumed =>
          \A e \in store.window : MustHold(e) =>
              e \in client.plan.list \/ \A d \in client.plan.list : d.seq < e.seq
    /\ client.phase \in Serving /\ ~ client.resumed /\ ~ client.lagged =>
          \A e \in store.window : MustHold(e) =>
              \/ e.seq \in client.got
              \/ \E item \in Items : item.kind = "other" /\ item.seq = e.seq
              \/ e.seq > client.cursor

\* Once withdrawn, only the announcement is under way.
Bare(e) == e.kind = "moderation_blocked"

DroppedInv ==
    /\ run.dropped => /\ \A e \in store.window : Bare(e)
                      /\ store.textSeq = 0 /\ store.thinkSeq = 0
    /\ client.fresh => /\ run.dropped
                       /\ client.phase # "off" =>
                            /\ \A e \in client.plan.list \cup client.batch : Bare(e)
                            /\ client.plan.textSeq = 0 /\ client.plan.thinkSeq = 0
                            /\ \A item \in Items : item.content = <<>>

Inv ==
    /\ TypeInv /\ RunInv /\ WindowInv /\ CheckpointInv /\ PastInv /\ KnownInv
    /\ PlanInv /\ ListInv /\ TextPlanInv /\ ThinkPlanInv
    /\ ReaderInv /\ TextInv /\ ThinkInv /\ EndInv /\ OtherInv /\ DroppedInv

-----------------------------------------------------------------------------
(***************************************************************************)
(* What is shown, what is said and what is still to come.                  *)
(***************************************************************************)

\* A piece at the end of a sequence.
LEMMA Appending ==
    ASSUME NEW S, NEW s \in Seq(S), NEW x \in S
    PROVE  /\ Append(s, x) \in Seq(S) /\ Append(s, x) # <<>>
           /\ Len(Append(s, x)) = Len(s) + 1 /\ Len(s) \in Nat
           /\ \A i \in 1 .. Len(s) : Append(s, x)[i] = s[i]
           /\ Append(s, x)[Len(s) + 1] = x
  BY AppendProperties

LEMMA AppendingNat ==
    ASSUME NEW s \in Seq(Nat), NEW n \in Nat
    PROVE  /\ Append(s, n) \in Seq(Nat) /\ Append(s, n) # <<>>
           /\ Len(Append(s, n)) = Len(s) + 1 /\ Len(s) \in Nat
           /\ \A i \in 1 .. Len(s) : Append(s, n)[i] = s[i]
           /\ Append(s, n)[Len(s) + 1] = n
  OBVIOUS

\* One more piece of what is said is still to be read.
LEMMA FollowsPiece ==
    ASSUME NEW said \in Seq(Nat), NEW shown \in Seq(Nat), NEW n \in Nat,
           NEW ahead, NEW queued, NEW rounds, NEW rounds2,
           Follows(said, shown, ahead, queued, rounds),
           n \in ahead,
           said # <<>> /\ said[1] \in rounds => said[1] \in rounds2
    PROVE  Follows(Append(said, n), shown, ahead, queued, rounds2)
<1>5. /\ Append(said, n) \in Seq(Nat) /\ Append(said, n) # <<>>
      /\ Len(Append(said, n)) = Len(said) + 1 /\ Len(said) \in Nat
      /\ \A i \in 1 .. Len(said) : Append(said, n)[i] = said[i]
      /\ Append(said, n)[Len(said) + 1] = n
  BY AppendingNat, Zenon
<1> DEFINE more == Append(said, n)
<1>1. /\ more \in Seq(Nat) /\ more # <<>> /\ Len(more) = Len(said) + 1 /\ Len(said) \in Nat
      /\ \A i \in 1 .. Len(said) : more[i] = said[i]
      /\ more[Len(said) + 1] = n
  BY <1>5
<1> HIDE DEF more
<1>2. Len(shown) \in Nat
  OBVIOUS
<1>0. \A i \in 1 .. Len(more) : i \in 1 .. Len(said) \/ i = Len(said) + 1
  BY <1>1
<1>3. CASE Ahead(said, shown, ahead, queued)
  <2>1. Begins(shown, more)
    BY <1>1, <1>2, <1>3 DEF Ahead, Begins
  <2>2. ASSUME NEW k \in queued PROVE \E i \in Len(shown) + 1 .. Len(more) : more[i] = k
    <3>1. PICK i \in Len(shown) + 1 .. Len(said) : said[i] = k
      BY <1>3 DEF Ahead
    <3>2. i \in 1 .. Len(said) /\ i \in Len(shown) + 1 .. Len(more)
      BY <1>1, <1>2
    <3> QED BY <1>1, <3>1, <3>2
  <2>3. ASSUME NEW i \in 1 .. Len(more)
        PROVE  IF i <= Len(shown) THEN more[i] \notin ahead ELSE more[i] \in ahead \cup queued
    <3>1. Len(shown) <= Len(said)
      BY <1>3 DEF Ahead, Begins
    <3>2. CASE i \in 1 .. Len(said)
      <4>1. more[i] = said[i]
        BY <1>1, <3>2
      <4> QED BY <1>3, <3>2, <4>1 DEF Ahead
    <3>3. CASE i = Len(said) + 1
      BY <1>1, <1>2, <3>1, <3>3
    <3> QED BY <1>0, <3>2, <3>3
  <2> QED BY <2>1, <2>2, <2>3 DEF Follows, Ahead, more
<1>4. CASE Anew(said, ahead, queued, rounds)
  <2>1. said # <<>> /\ Len(said) >= 1
    BY <1>1, <1>4, EmptySeq DEF Anew
  <2>2. more[1] = said[1]
    BY <1>1, <2>1
  <2>3. ASSUME NEW i \in 2 .. Len(more) PROVE more[i] \in ahead \cup queued
    <3>1. CASE i = Len(said) + 1
      BY <1>1, <3>1
    <3>2. CASE i # Len(said) + 1
      <4>1. i \in 1 .. Len(said) /\ i \in 2 .. Len(said)
        BY <1>1, <3>2
      <4>2. more[i] = said[i]
        BY <1>1, <4>1
      <4>3. said[i] \in ahead \cup queued
        BY <1>4, <4>1 DEF Anew
      <4> QED BY <4>2, <4>3
    <3> QED BY <3>1, <3>2
  <2> QED BY <1>1, <1>4, <2>2, <2>3 DEF Follows, Anew, more
<1> QED BY <1>3, <1>4 DEF Follows

\* A round that begins is still to be read.
LEMMA FollowsRound ==
    ASSUME NEW n \in Nat, NEW shown, NEW ahead, NEW queued, NEW rounds, n \in rounds
    PROVE  Follows(<<n>>, shown, ahead, queued, rounds)
  BY DEF Follows, Anew

\* What comes may be told by other sets.
LEMMA FollowsSame ==
    ASSUME NEW said, NEW shown, NEW ahead, NEW queued, NEW rounds,
           NEW ahead2, NEW rounds2,
           Follows(said, shown, ahead, queued, rounds),
           \A i \in 1 .. Len(said) : said[i] \in ahead <=> said[i] \in ahead2,
           said # <<>> /\ said[1] \in rounds => said[1] \in rounds2,
           said \in Seq(Nat)
    PROVE  Follows(said, shown, ahead2, queued, rounds2)
<1>1. Len(said) \in Nat
  OBVIOUS
<1>2. CASE Ahead(said, shown, ahead, queued)
  BY <1>1, <1>2 DEF Follows, Ahead
<1>3. CASE Anew(said, ahead, queued, rounds)
  BY <1>1, <1>3 DEF Follows, Anew
<1> QED BY <1>2, <1>3 DEF Follows

\* A piece goes from the store into the channel.
LEMMA FollowsQueued ==
    ASSUME NEW said \in Seq(Nat), NEW shown \in Seq(Nat), NEW m \in Nat,
           NEW ahead, NEW queued, NEW rounds, NEW rounds2,
           Follows(said, shown, ahead, queued, rounds),
           Increasing(said), said # <<>>, m \in ahead,
           \A i \in 1 .. Len(said) : said[i] > m => said[i] \in ahead,
           (\E i \in 1 .. Len(said) : said[i] = m) \/ (m < said[1] /\ said[1] \in rounds2),
           said[1] \in rounds => said[1] \in rounds2
    PROVE  Follows(said, shown, ahead \ {m}, queued \cup {m}, rounds2)
<1> PICK ahead2, queued2 : ahead2 = ahead \ {m} /\ queued2 = queued \cup {m}
  OBVIOUS
<1>1. Len(said) \in Nat /\ Len(shown) \in Nat /\ Len(said) >= 1
  BY EmptySeq
<1>2. CASE Ahead(said, shown, ahead, queued)
  <2>1. CASE \E i \in 1 .. Len(said) : said[i] = m
    <3>1. PICK j \in 1 .. Len(said) : said[j] = m
      BY <2>1
    <3>2. j \in Len(shown) + 1 .. Len(said)
      BY <1>1, <1>2, <3>1 DEF Ahead
    <3>3. \A n \in queued2 : \E i \in Len(shown) + 1 .. Len(said) : said[i] = n
      BY <1>2, <3>1, <3>2 DEF Ahead
    <3> QED BY <1>1, <1>2, <3>3 DEF Follows, Ahead
  <2>2. CASE m < said[1] /\ said[1] \in rounds2
    <3>1. said[1] \in ahead
      BY <1>1, <2>2
    <3>2. Len(shown) = 0
      BY <1>1, <1>2, <3>1 DEF Ahead
    <3>3. \A i \in 2 .. Len(said) : said[i] \in ahead2 \cup queued2
      BY <1>1, <1>2, <3>2 DEF Ahead
    <3> QED BY <2>2, <3>3 DEF Follows, Anew
  <2> QED BY <2>1, <2>2
<1>3. CASE Anew(said, ahead, queued, rounds)
  BY <1>1, <1>3 DEF Follows, Anew
<1> QED BY <1>2, <1>3 DEF Follows

\* m is at the head of the channel, queued2 behind it, and ahead after the channel;
\* shown2 shows m as well.
Heads(said, shown, shown2, m, kind, ahead, queued, rounds, queued2, rounds2) ==
    /\ shown2 = IF kind = "round" THEN <<m>> ELSE Append(shown, m)
    /\ queued = queued2 \cup {m} /\ queued2 \in SUBSET Nat /\ ahead \in SUBSET Nat
    /\ (\A n \in queued2 : m < n) /\ (\A n \in ahead : m < n)
    /\ rounds \subseteq ahead \cup queued
    /\ kind = "round" => \A i \in 1 .. Len(said) : said[i] = m => i = 1
    /\ said # <<>> => \A n \in queued2 : n > said[1] => \E i \in 1 .. Len(said) : said[i] = n
    /\ said # <<>> /\ said[1] = m /\ said[1] \in rounds => kind = "round"
    /\ said # <<>> /\ said[1] # m /\ said[1] \in rounds => said[1] \in rounds2

\* The first item of the channel is written.
LEMMA FollowsWritten ==
    ASSUME NEW said \in Seq(Nat), NEW shown \in Seq(Nat), NEW m \in Nat, NEW kind,
           NEW ahead, NEW queued, NEW rounds, NEW queued2, NEW rounds2, NEW shown2,
           Follows(said, shown, ahead, queued, rounds), Increasing(said),
           Heads(said, shown, shown2, m, kind, ahead, queued, rounds, queued2, rounds2)
    PROVE  Follows(said, shown2, ahead, queued2, rounds2)
<1> USE DEF Heads
<1>1. Len(said) \in Nat /\ Len(shown) \in Nat /\ \A i \in 1 .. Len(said) : said[i] \in Nat
  BY ElementOfSeq
<1>2. CASE Ahead(said, shown, ahead, queued)
  <2> DEFINE k == Len(shown)
  <2>1. PICK j \in k + 1 .. Len(said) : said[j] = m
    BY <1>2 DEF Ahead
  <2>2. j \in 1 .. Len(said) /\ k + 1 \in 1 .. Len(said)
    BY <1>1, <2>1
  <2>3. k + 1 < j => said[k + 1] < m
    BY <1>1, <2>1, <2>2 DEF Increasing
  <2>4. said[k + 1] \in ahead \cup queued
    BY <1>1, <1>2, <2>2 DEF Ahead
  <2>5. said[k + 1] >= m
    BY <1>1, <2>2, <2>4
  <2>6. j = k + 1
    BY <1>1, <2>1, <2>2, <2>3, <2>5
  <2>7. \A i \in 1 .. Len(said) : i # k + 1 => said[i] # m
    BY SMTT(30), <1>1, <2>1, <2>2, <2>6 DEF Increasing
  <2>8. /\ shown2 \in Seq(Nat) /\ Len(shown2) = k + 1
        /\ \A i \in 1 .. k : shown2[i] = shown[i]
        /\ shown2[k + 1] = m
    <3>1. CASE kind = "round"
      <4>1. k = 0
        BY <1>1, <2>1, <2>2, <2>6, <3>1
      <4> QED BY <1>1, <3>1, <4>1
    <3>2. CASE kind # "round"
      BY <3>2, Appending
    <3> QED BY <3>1, <3>2
  <2>9. Begins(shown2, said)
    BY SMTT(30), <1>1, <1>2, <2>1, <2>2, <2>6, <2>8 DEF Ahead, Begins
  <2>10. \A n \in queued2 : \E i \in Len(shown2) + 1 .. Len(said) : said[i] = n
    <3> SUFFICES ASSUME NEW n \in queued2
                 PROVE  \E i \in k + 2 .. Len(said) : said[i] = n
      BY <1>1, <2>8
    <3>1. PICK i \in k + 1 .. Len(said) : said[i] = n
      BY <1>2 DEF Ahead
    <3>2. i # k + 1
      BY <2>1, <2>6, <3>1
    <3> QED BY <1>1, <3>1, <3>2
  <2>11. \A i \in 1 .. Len(said) : IF i <= Len(shown2) THEN said[i] \notin ahead
                                    ELSE said[i] \in ahead \cup queued2
    <3> SUFFICES ASSUME NEW i \in 1 .. Len(said)
                 PROVE  IF i <= k + 1 THEN said[i] \notin ahead ELSE said[i] \in ahead \cup queued2
      BY <2>8
    <3>1. CASE i <= k
      BY <1>1, <1>2, <3>1 DEF Ahead
    <3>2. CASE i = k + 1
      BY <1>1, <2>1, <2>6, <3>2
    <3>3. CASE i > k + 1
      BY SMTT(30), <1>1, <1>2, <2>7, <3>3 DEF Ahead
    <3> QED BY <1>1, <3>1, <3>2, <3>3
  <2> QED BY <2>9, <2>10, <2>11 DEF Follows, Ahead
<1>3. CASE Anew(said, ahead, queued, rounds)
  <2>0. said # <<>> /\ Len(said) >= 1 /\ said[1] \in Nat
    BY <1>1, <1>3, EmptySeq DEF Anew
  <2>1. CASE said[1] = m
    <3>1. kind = "round" /\ shown2 = <<m>>
      BY <1>3, <2>0, <2>1 DEF Anew
    <3>2. Len(shown2) = 1 /\ shown2[1] = m
      BY <3>1
    <3>3. Begins(shown2, said)
      BY <1>1, <2>0, <2>1, <3>2 DEF Begins
    <3>4. \A n \in queued2 : \E i \in 2 .. Len(said) : said[i] = n
      <4> SUFFICES ASSUME NEW n \in queued2
                   PROVE  \E i \in 2 .. Len(said) : said[i] = n
        OBVIOUS
      <4>1. n > said[1] /\ n # m
        BY <2>1
      <4>2. PICK i \in 1 .. Len(said) : said[i] = n
        BY <2>0, <4>1
      <4>3. i # 1
        BY <2>1, <4>1, <4>2
      <4> QED BY <1>1, <4>2, <4>3
    <3>5. \A i \in 2 .. Len(said) : said[i] \in ahead \cup queued2
      BY <1>1, <1>3, <2>0, <2>1 DEF Anew, Increasing
    <3>6. said[1] \notin ahead
      BY <2>1
    <3> QED BY <1>1, <3>2, <3>3, <3>4, <3>5, <3>6 DEF Follows, Ahead
  <2>2. CASE said[1] # m
    <3>1. said[1] > m
      BY <1>3, <2>0, <2>2 DEF Anew
    <3>2. \A i \in 2 .. Len(said) : said[i] # m
      BY <1>1, <2>0, <3>1 DEF Increasing
    <3> QED BY <1>3, <2>0, <2>2, <3>2 DEF Follows, Anew
  <2> QED BY <2>1, <2>2
<1> QED BY <1>2, <1>3 DEF Follows

\* Nothing is left to come: everything is shown.
LEMMA FollowsAll ==
    ASSUME NEW said \in Seq(Nat), NEW shown \in Seq(Nat), NEW ahead, NEW queued, NEW rounds,
           Follows(said, shown, ahead, queued, rounds),
           rounds \subseteq ahead \cup queued,
           \A i \in 1 .. Len(said) : said[i] \notin ahead \cup queued
    PROVE  shown = said
<1>1. Len(said) \in Nat /\ Len(shown) \in Nat
  OBVIOUS
<1>2. CASE Ahead(said, shown, ahead, queued)
  <2>1. Len(said) = Len(shown)
    BY SMTT(30), <1>1, <1>2 DEF Ahead, Begins
  <2> QED BY <1>1, <1>2, <2>1, SeqEqual DEF Ahead, Begins
<1>3. CASE Anew(said, ahead, queued, rounds)
  BY <1>1, <1>3, EmptySeq DEF Anew
<1> QED BY <1>2, <1>3 DEF Follows

\* Nothing is said anew: what is shown begins what is said.
LEMMA FollowsBegins ==
    ASSUME NEW said, NEW shown, NEW ahead, NEW queued, Follows(said, shown, ahead, queued, {})
    PROVE  Begins(shown, said)
  BY DEF Follows, Ahead, Anew

-----------------------------------------------------------------------------
(***************************************************************************)
(* What the steps assign.                                                  *)
(***************************************************************************)

LEMMA ContentIsNat ==
    ASSUME NEW s \in Content
    PROVE  /\ s \in Seq(Nat) /\ Len(s) \in Nat
           /\ \A i \in 1 .. Len(s) : s[i] \in Seqs /\ s[i] \in Nat
           /\ s # <<>> => Len(s) >= 1
           /\ s = <<>> => Len(s) = 0
<1>1. Seqs \subseteq Nat
  BY DEF Seqs
<1>2. s \in Seq(Nat) /\ Len(s) \in Nat
  <2> USE DEF Content
  <2>1. Len(s) \in Nat /\ s \in [1 .. Len(s) -> Seqs]
    OBVIOUS
  <2>2. s \in [1 .. Len(s) -> Nat]
    BY <1>1, <2>1
  <2> QED BY <2>1, <2>2, SeqDef
<1>3. \A i \in 1 .. Len(s) : s[i] \in Seqs
  BY ElementOfSeq DEF Content
<1> QED BY <1>1, <1>2, <1>3, EmptySeq

\* An event is stored: its number, the checkpoints and the window that is left.
LEMMA AppendedFields ==
    ASSUME store \in StoreType, NEW kind \in Kinds \cup Terminals,
           NEW kept \in MaxEvents .. MaxEvents + Slack,
           store.seq < MaxAppends, store.trimmed <= store.seq
    PROVE  LET s == Appended(store, kind, kept)
               n == store.seq + 1
           IN  /\ s \in StoreType
               /\ Gone(store, kept) \in store.trimmed .. store.seq
               /\ Gone(store, kept) >= n - (MaxEvents + Slack)
               /\ Gone(store, kept) <= n - MaxEvents \/ Gone(store, kept) = store.trimmed
               /\ n \in Seqs /\ s.seq = n /\ s.trimmed = Gone(store, kept)
               /\ s.window = Left(store, kind, kept)
               /\ s.text = IF kind = "text" THEN Append(store.text, n) ELSE store.text
               /\ s.textSeq = IF kind = "text" THEN n ELSE store.textSeq
               /\ s.think = Thought(store, kind)
               /\ s.thinkSeq = IF kind \in Thinking THEN n ELSE store.thinkSeq
               /\ s.active = store.active /\ s.owned = store.owned
<1> DEFINE n == store.seq + 1
<1>1. /\ n \in Seqs /\ n \in 0 .. MaxAppends /\ Gone(store, kept) \in store.trimmed .. store.seq
      /\ Gone(store, kept) \in 0 .. MaxAppends /\ Gone(store, kept) >= n - (MaxEvents + Slack)
      /\ Gone(store, kept) <= n - MaxEvents \/ Gone(store, kept) = store.trimmed
  BY BoundAssumption DEF StoreType, Seqs, Gone
<1>2. [seq |-> n, kind |-> kind] \in Event
  BY <1>1 DEF Event
<1>3. Left(store, kind, kept) \in SUBSET Event
  BY <1>2 DEF StoreType, Left
<1>4. Append(store.text, n) \in Content /\ Thought(store, kind) \in Content
  <2>1. store.text \in Seq(Seqs) /\ store.think \in Seq(Seqs)
    BY DEF StoreType, Content
  <2>2. Append(store.text, n) \in Seq(Seqs) /\ Append(store.think, n) \in Seq(Seqs)
    BY <1>1, <2>1, AppendProperties
  <2>3. <<n>> \in Seq(Seqs)
    BY <1>1
  <2> QED BY <2>1, <2>2, <2>3 DEF Content, Thought
<1> QED BY <1>1, <1>3, <1>4 DEF Appended, StoreType

\* The keys are dropped.
LEMMA ClearedFields ==
    ASSUME store \in StoreType
    PROVE  /\ Cleared(store) \in StoreType
           /\ Cleared(store).window = {} /\ Cleared(store).seq = store.seq
           /\ Cleared(store).trimmed = store.trimmed
           /\ Cleared(store).text = <<>> /\ Cleared(store).textSeq = 0
           /\ Cleared(store).think = <<>> /\ Cleared(store).thinkSeq = 0
           /\ Cleared(store).active = store.active /\ Cleared(store).owned = store.owned
<1>1. <<>> \in Content /\ 0 \in 0 .. MaxAppends
  BY EmptySeq, BoundAssumption DEF Content
<1> QED BY <1>1 DEF Cleared, StoreType

\* The end of a connection.
LEMMA EndedFields ==
    ASSUME NEW c \in ClientType,
           NEW told \in {"none", "refused", "dropped", "interrupted"} \cup Terminals
    PROVE  LET d == Ended(c, told)
           IN  /\ d \in ClientType
               /\ d.phase = "off" /\ d.plan = NoPlan /\ d.replay = {} /\ d.queue = <<>>
               /\ d.batch = {} /\ d.reader = "none" /\ d.cursor = 0 /\ d.after = 0 /\ d.told = told
               /\ d.connections = c.connections /\ d.resumed = c.resumed /\ d.last = c.last
               /\ d.got = c.got /\ d.text = c.text /\ d.think = c.think /\ d.lagged = c.lagged
               /\ d.fresh = c.fresh
<1>1. <<>> \in Content /\ 0 \in 0 .. MaxAppends /\ <<>> \in Seq(Item)
  BY EmptySeq, BoundAssumption DEF Content
<1>2. NoPlan \in PlanType
  BY <1>1 DEF NoPlan, PlanType
<1>3. "off" \in Phases
  BY DEF Phases
<1> HIDE DEF NoPlan
<1> QED BY <1>1, <1>2, <1>3 DEF Ended, ClientType

-----------------------------------------------------------------------------
(***************************************************************************)
(* The steps of the subscriber keep the invariant.                         *)
(***************************************************************************)

\* A connection is over.
LEMMA EndedStep ==
    ASSUME Inv, UNCHANGED <<store, run>>,
           NEW told \in {"none", "refused", "dropped", "interrupted"} \cup {client.told},
           client' = Ended(client, told)
    PROVE  Inv'
<1>1. told \in {"none", "refused", "dropped", "interrupted"} \cup Terminals
  BY DEF Inv, TypeInv, ClientType
<1>2. client \in ClientType /\ store' = store /\ run' = run
  BY DEF Inv, TypeInv
<1>3. /\ client' \in ClientType
      /\ client'.phase = "off" /\ client'.plan = NoPlan /\ client'.replay = {} /\ client'.queue = <<>>
      /\ client'.batch = {} /\ client'.reader = "none" /\ client'.cursor = 0 /\ client'.after = 0
      /\ client'.told = told
      /\ client'.connections = client.connections /\ client'.resumed = client.resumed
      /\ client'.last = client.last /\ client'.got = client.got /\ client'.text = client.text
      /\ client'.think = client.think /\ client'.lagged = client.lagged
      /\ client'.fresh = client.fresh
  BY <1>1, <1>2, EndedFields
<1>4. /\ client'.plan.list = {} /\ client'.plan.textSeq = 0 /\ client'.plan.thinkSeq = 0
  BY <1>3 DEF NoPlan
<1>5. Events' = store.window /\ Items' = {}
  BY <1>2, <1>3, <1>4 DEF Events, Items
<1>6. TypeInv'
  BY <1>2, <1>3 DEF Inv, TypeInv
<1>7. RunInv' /\ WindowInv' /\ CheckpointInv'
  BY <1>2 DEF Inv, RunInv, WindowInv, CheckpointInv
<1>8. PastInv'
  BY <1>2, <1>3, <1>4, <1>5 DEF Inv, TypeInv, StoreType, PastInv, Past, Events, Terminals, Outcomes
<1>9. KnownInv'
  <2>1. ASSUME ~ run.withdrawn, NEW e \in store.window PROVE Known(e)'
    BY <1>2, <1>3, <2>1 DEF Inv, KnownInv, Known, TextKnown, ThinkKnown, EndKnown, RoundAt, RoundIn, Events
  <2> QED BY <1>2, <1>3, <1>5, <2>1 DEF Inv, KnownInv
<1>10. PlanInv' /\ ListInv' /\ TextPlanInv' /\ ThinkPlanInv' /\ ReaderInv' /\ TextInv' /\ ThinkInv'
  BY <1>2, <1>3, <1>4 DEF PlanInv, ListInv, TextPlanInv, ThinkPlanInv, ReaderInv, TextInv, ThinkInv,
     Attending, Reading, Serving
<1>11. EndInv'
  BY <1>2, <1>3 DEF Inv, EndInv, Outcomes
<1>12. OtherInv'
  BY <1>2, <1>3, <1>5 DEF Inv, OtherInv, Events, Serving
<1>13. DroppedInv'
  BY <1>2, <1>3 DEF Inv, DroppedInv
<1> QED BY <1>6, <1>7, <1>8, <1>9, <1>10, <1>11, <1>12, <1>13 DEF Inv

-----------------------------------------------------------------------------
(***************************************************************************)
(* The steps of the generation keep the invariant.                         *)
(***************************************************************************)

\* Nothing is added to the store, and the run says nothing more.
LEMMA QuietStep ==
    ASSUME Inv, UNCHANGED client, TypeInv', RunInv',
           run.outcome # "none" => run'.outcome # "none",
           run'.text = run.text, run'.think = run.think,
           run'.withdrawn = run.withdrawn, run'.dropped = run.dropped,
           store'.window \subseteq store.window,
           store'.seq = store.seq, store'.trimmed = store.trimmed,
           \/ /\ store'.text = store.text /\ store'.textSeq = store.textSeq
              /\ store'.think = store.think /\ store'.thinkSeq = store.thinkSeq
           \/ /\ store'.text = <<>> /\ store'.textSeq = 0
              /\ store'.think = <<>> /\ store'.thinkSeq = 0,
           store'.owned => /\ store.owned /\ store'.window = store.window
                           /\ store'.text = store.text /\ store'.think = store.think
    PROVE  Inv'
<1>1. client' = client
  OBVIOUS
<1>2. Events' \subseteq Events /\ Items' = Items
  BY <1>1 DEF Events, Items
<1>3. \A n \in Nat : RoundAt(n) => RoundAt(n)'
  BY <1>1 DEF RoundAt, RoundIn
<1>4. WindowInv'
  BY <1>1 DEF Inv, WindowInv
<1>5. CheckpointInv'
  <2>1. store.textSeq >= 0 /\ store.thinkSeq >= 0 /\ store.seq >= 0
    BY DEF Inv, TypeInv, StoreType
  <2>2. CheckpointOf(store'.text, store'.textSeq) /\ CheckpointOf(store'.think, store'.thinkSeq)
    BY DEF Inv, CheckpointInv, CheckpointOf
  <2> QED BY <2>1, <2>2 DEF Inv, CheckpointInv
<1>6. PastInv'
  BY <1>1, <1>2 DEF Inv, PastInv, Past
<1>7. KnownInv'
  <2>1. ASSUME NEW e, ~ run.withdrawn, e \in Event, Known(e) PROVE Known(e)'
    <3>1. run.think # <<>> => run.think[1] \in Nat
      BY ContentIsNat DEF Inv, TypeInv, RunType
    <3> QED BY <1>3, <2>1, <3>1 DEF Known, TextKnown, ThinkKnown, EndKnown, RoundAt
  <2>2. ASSUME NEW e, ~ run.withdrawn, e \in Item, Known(e) PROVE Known(e)'
    <3>1. run.think # <<>> => run.think[1] \in Nat
      BY ContentIsNat DEF Inv, TypeInv, RunType
    <3> QED BY <1>3, <2>2, <3>1 DEF Known, TextKnown, ThinkKnown, EndKnown, RoundAt
  <2>3. Events \cup Items \subseteq Event \cup Item
    BY DEF Inv, TypeInv, ClientType, PlanType, StoreType, Events, Items
  <2> QED BY <1>1, <1>2, <2>1, <2>2, <2>3 DEF Inv, KnownInv
<1>8. PlanInv' /\ ListInv' /\ ReaderInv' /\ EndInv'
  <2>1. PlanInv' /\ ListInv' /\ EndInv'
    BY <1>1 DEF Inv, PlanInv, ListInv, EndInv
  <2>2. ReaderInv'
    BY <1>1 DEF Inv, ReaderInv
  <2> QED BY <2>1, <2>2
<1>9. TextPlanInv'
  BY <1>1 DEF Inv, TextPlanInv, Beyond
<1>10. ThinkPlanInv'
  <2> SUFFICES ASSUME client.phase = "deciding", store'.owned, ~ run.withdrawn
               PROVE  ThinkPlanInv'
    BY <1>1 DEF ThinkPlanInv
  <2>1. store.owned /\ store'.window = store.window
    OBVIOUS
  <2>2. \A n : RoundAt(n)' = RoundAt(n)
    BY <1>1, <2>1 DEF RoundAt
  <2> QED BY ZenonT(30), <1>1, <2>1, <2>2 DEF Inv, ThinkPlanInv, Beyond, ThinkKnown, TextKnown
<1>11. TextInv'
  BY ZenonT(30), <1>1 DEF Inv, TextInv, Attending, Leads, ToRead, Queued
<1>12. ThinkInv'
  <2> SUFFICES ASSUME Attending PROVE Leads(run.think, client.think, Thinking, client.plan.thinkSeq, Rounds)'
    BY <1>1 DEF ThinkInv, Attending
  <2>1. Rounds \subseteq Rounds'
    BY <1>1, <1>3 DEF Rounds, ToRead, Seqs
  <2>2. run.think \in Seq(Nat)
    BY ContentIsNat DEF Inv, TypeInv, RunType
  <2>3. ASSUME NEW shown, NEW ahead, NEW queued, Follows(run.think, shown, ahead, queued, Rounds)
        PROVE  Follows(run.think, shown, ahead, queued, Rounds')
    BY <2>1, <2>2, <2>3 DEF Follows, Anew
  <2>4. Leads(run.think, client.think, Thinking, client.plan.thinkSeq, Rounds)
    BY DEF Inv, ThinkInv
  <2>5. Leads(run.think, client.think, Thinking, client.plan.thinkSeq, Rounds')
    BY <2>3, <2>4 DEF Leads
  <2> QED BY <1>1, <2>5 DEF Leads, ToRead, Queued
<1>13. OtherInv'
  BY <1>1, <1>2 DEF Inv, OtherInv, MustHold
<1>14. DroppedInv'
  BY <1>1, <1>2 DEF Inv, DroppedInv
<1> QED BY <1>4, <1>5, <1>6, <1>7, <1>8, <1>9, <1>10, <1>11, <1>12, <1>13, <1>14 DEF Inv

LEMMA QuietGeneration ==
    ASSUME Inv,
           Save \/ Release \/ Lapse \/ Expire
             \/ (\E kind \in Outcomes : End(kind) /\ UNCHANGED store)
             \/ (PublishBlocked /\ UNCHANGED store)
    PROVE  Inv'
<1>0. TypeInv /\ RunInv /\ store \in StoreType /\ run \in RunType
  BY DEF Inv, TypeInv
<1>1. CASE Save
  <2>1. /\ UNCHANGED <<store, client>> /\ run' \in RunType /\ run'.saved
        /\ run'.outcome = run.outcome /\ run'.text = run.text /\ run'.think = run.think
        /\ run'.withdrawn = run.withdrawn /\ run'.dropped = run.dropped
    BY <1>0, <1>1 DEF Save, RunType
  <2>2. TypeInv' /\ RunInv'
    BY <1>0, <2>1 DEF TypeInv, RunInv
  <2> QED BY <2>1, <2>2, QuietStep
<1>2. CASE Release \/ Lapse
  <2>1. /\ UNCHANGED <<run, client>> /\ store' = [store EXCEPT !.active = FALSE]
    BY <1>2 DEF Release, Lapse
  <2>2. /\ store' \in StoreType /\ ~ store'.active /\ store'.owned = store.owned
        /\ store'.window = store.window /\ store'.seq = store.seq /\ store'.trimmed = store.trimmed
        /\ store'.text = store.text /\ store'.textSeq = store.textSeq
        /\ store'.think = store.think /\ store'.thinkSeq = store.thinkSeq
    BY <1>0, <2>1 DEF StoreType
  <2>3. TypeInv' /\ RunInv'
    BY <1>0, <2>1, <2>2 DEF TypeInv, RunInv
  <2> QED BY <2>1, <2>2, <2>3, QuietStep
<1>3. CASE Expire
  <2>1. /\ UNCHANGED <<run, client>> /\ store' = [Cleared(store) EXCEPT !.owned = FALSE]
        /\ ~ store.active
    BY <1>3 DEF Expire
  <2>2. /\ store' \in StoreType /\ ~ store'.active /\ ~ store'.owned
        /\ store'.window = {} /\ store'.seq = store.seq /\ store'.trimmed = store.trimmed
        /\ store'.text = <<>> /\ store'.textSeq = 0 /\ store'.think = <<>> /\ store'.thinkSeq = 0
    <3> DEFINE cleared == Cleared(store)
    <3>1. /\ cleared \in StoreType /\ cleared.window = {} /\ cleared.seq = store.seq
          /\ cleared.trimmed = store.trimmed /\ cleared.text = <<>> /\ cleared.textSeq = 0
          /\ cleared.think = <<>> /\ cleared.thinkSeq = 0 /\ cleared.active = store.active
      BY <1>0, ClearedFields
    <3>2. store' = [cleared EXCEPT !.owned = FALSE]
      BY <2>1
    <3> HIDE DEF cleared
    <3> QED BY <2>1, <3>1, <3>2 DEF StoreType
  <2>3. TypeInv' /\ RunInv'
    BY <1>0, <2>1, <2>2 DEF TypeInv, RunInv
  <2> QED BY <2>1, <2>2, <2>3, QuietStep
<1>4. CASE \E kind \in Outcomes : End(kind) /\ UNCHANGED store
  <2>1. PICK kind \in Outcomes : End(kind) /\ UNCHANGED store
    BY <1>4
  <2>2. /\ UNCHANGED <<store, client>> /\ run' \in RunType /\ run'.saved /\ ~ run.withdrawn
        /\ run'.outcome = kind /\ run'.text = run.text /\ run'.think = run.think
        /\ run'.withdrawn = run.withdrawn /\ run'.dropped = run.dropped
        /\ kind \in Terminals /\ kind # "none" /\ kind # "moderation_blocked"
    BY <1>0, <2>1 DEF End, RunType, Outcomes, Terminals
  <2>3. TypeInv' /\ RunInv'
    BY <1>0, <2>2 DEF TypeInv, RunInv
  <2> QED BY <2>2, <2>3, QuietStep
<1>5. CASE PublishBlocked /\ UNCHANGED store
  <2>1. /\ UNCHANGED <<store, client>> /\ run' \in RunType /\ run'.saved = run.saved /\ run.withdrawn
        /\ run'.outcome = "moderation_blocked" /\ run'.text = run.text /\ run'.think = run.think
        /\ run'.withdrawn = run.withdrawn /\ run'.dropped = run.dropped
    BY <1>0, <1>5 DEF PublishBlocked, RunType, Terminals
  <2>2. TypeInv' /\ RunInv'
    BY <1>0, <2>1 DEF TypeInv, RunInv
  <2> QED BY <2>1, <2>2, QuietStep
<1> QED BY <1>1, <1>2, <1>3, <1>4, <1>5

\* Moderation takes the answer back.
LEMMA WithdrawStep ==
    ASSUME Inv, Withdraw
    PROVE  Inv'
<1>0. PICK dropped \in BOOLEAN :
         /\ run' = [run EXCEPT !.withdrawn = TRUE, !.dropped = dropped,
                              !.answer = <<>>, !.text = <<>>, !.think = <<>>]
         /\ store' = IF dropped THEN Cleared(store) ELSE store
  BY DEF Withdraw
<1>1. /\ client' = client /\ run' \in RunType /\ run'.saved = run.saved /\ run'.outcome = run.outcome
      /\ run'.withdrawn /\ run'.dropped = dropped /\ run'.text = <<>> /\ run'.think = <<>>
      /\ ~ run.withdrawn /\ run.saved
  <2>1. <<>> \in Content /\ <<>> \in Answers /\ run \in RunType
    BY EmptySeq DEF Inv, TypeInv, Content, Answers
  <2>2. client' = client /\ ~ run.withdrawn /\ run.saved
    BY DEF Withdraw, Inv, RunInv
  <2> QED BY <1>0, <2>1, <2>2 DEF RunType
<1>2. /\ store' \in StoreType /\ store'.window \subseteq store.window
      /\ store'.seq = store.seq /\ store'.trimmed = store.trimmed
      /\ store'.active = store.active /\ store'.owned = store.owned
      /\ dropped => /\ store'.window = {} /\ store'.text = <<>> /\ store'.think = <<>>
                    /\ store'.textSeq = 0 /\ store'.thinkSeq = 0
      /\ ~ dropped => store' = store
  <2>1. store \in StoreType
    BY DEF Inv, TypeInv
  <2>2. CASE dropped
    <3>1. store' = Cleared(store)
      BY <1>0, <2>2
    <3> QED BY <2>1, <2>2, <3>1, ClearedFields
  <2>3. CASE ~ dropped
    BY <1>0, <2>1, <2>3
  <2> QED BY <2>2, <2>3
<1>3. Events' \subseteq Events /\ Items' = Items
  BY <1>1, <1>2 DEF Events, Items
<1>4. ~ client.fresh
  BY <1>1 DEF Inv, DroppedInv, RunInv
<1>5. TypeInv' /\ RunInv'
  BY <1>1, <1>2 DEF Inv, TypeInv, RunInv
<1>6. WindowInv'
  BY <1>1, <1>2 DEF Inv, WindowInv, RunInv
<1>7. CheckpointInv'
  <2>1. store.textSeq >= 0 /\ store.thinkSeq >= 0 /\ store.seq >= 0
    BY DEF Inv, TypeInv, StoreType
  <2>2. /\ CheckpointOf(store'.text, store'.textSeq) /\ CheckpointOf(store'.think, store'.thinkSeq)
        /\ store'.textSeq <= store'.seq /\ store'.thinkSeq <= store'.seq
    BY <1>2, <2>1 DEF Inv, CheckpointInv, CheckpointOf
  <2> QED BY <1>1, <2>2 DEF CheckpointInv, Increasing
<1>8. PastInv'
  BY <1>1, <1>2, <1>3 DEF Inv, PastInv, Past
<1>9. KnownInv' /\ ListInv' /\ TextPlanInv' /\ ThinkPlanInv' /\ TextInv' /\ ThinkInv' /\ EndInv'
  BY <1>1 DEF KnownInv, ListInv, TextPlanInv, ThinkPlanInv, TextInv, ThinkInv, EndInv, Attending
<1>10. PlanInv'
  BY <1>1 DEF Inv, PlanInv
<1>11. ReaderInv'
  BY <1>1, <1>2 DEF Inv, ReaderInv
<1>12. OtherInv'
  BY <1>1, <1>2, <1>3 DEF Inv, OtherInv, MustHold
<1>13. DroppedInv'
  BY <1>1, <1>2, <1>4 DEF DroppedInv
<1> QED BY <1>5, <1>6, <1>7, <1>8, <1>9, <1>10, <1>11, <1>12, <1>13 DEF Inv

\* What has been said when a piece or a round is added.
LEMMA PieceSaid ==
    ASSUME NEW said \in Seq(Nat), NEW n \in Nat \ {0}, Increasing(said),
           \A i \in 1 .. Len(said) : said[i] < n
    PROVE  LET more == Append(said, n)
           IN  /\ more # <<>> /\ Len(more) = Len(said) + 1 /\ more[Len(said) + 1] = n
               /\ \A i \in 1 .. Len(said) : more[i] = said[i]
               /\ Increasing(more) /\ CheckpointOf(more, n)
               /\ \A i \in 1 .. Len(more) : more[i] <= n
<1>1. /\ Append(said, n) \in Seq(Nat) /\ Append(said, n) # <<>>
      /\ Len(Append(said, n)) = Len(said) + 1 /\ Len(said) \in Nat
      /\ \A i \in 1 .. Len(said) : Append(said, n)[i] = said[i]
      /\ Append(said, n)[Len(said) + 1] = n
  BY AppendingNat, Zenon
<1> DEFINE more == Append(said, n)
<1>2. /\ more # <<>> /\ Len(more) = Len(said) + 1 /\ Len(said) \in Nat
      /\ \A i \in 1 .. Len(said) : more[i] = said[i] /\ said[i] \in Nat
      /\ more[Len(said) + 1] = n
  BY <1>1, ElementOfSeq
<1> HIDE DEF more
<1>3. Increasing(more)
  BY SMTT(30), <1>2 DEF Increasing
<1>4. CheckpointOf(more, n)
  BY <1>2 DEF CheckpointOf
<1>5. \A i \in 1 .. Len(more) : more[i] <= n
  BY <1>2
<1> QED BY <1>2, <1>3, <1>4, <1>5 DEF more

LEMMA RoundSaid ==
    ASSUME NEW n \in Nat \ {0}
    PROVE  /\ Increasing(<<n>>) /\ CheckpointOf(<<n>>, n) /\ <<n>> # <<>> /\ Len(<<n>>) = 1
           /\ \A i \in 1 .. Len(<<n>>) : <<n>>[i] = n
  BY DEF Increasing, CheckpointOf

\* What the run says when an event of this kind is stored.
Says(kind) ==
    /\ run'.text = IF kind = "text" THEN Append(run.text, store.seq + 1) ELSE run.text
    /\ run'.think = IF kind \in Thinking THEN Thought(store, kind) ELSE run.think

\* An event is stored, and the run says what it carries.
LEMMA StoredStep ==
    ASSUME Inv, UNCHANGED client, run' \in RunType, RunInv',
           NEW kind \in Kinds \cup Terminals, Stored(kind), store.seq < MaxAppends, store.active,
           run.outcome = "none" \/ run.withdrawn,
           run.withdrawn <=> kind = "moderation_blocked",
           kind \in Terminals \/ run.outcome # "none" => run'.outcome # "none",
           run'.withdrawn = run.withdrawn, run'.dropped = run.dropped,
           Says(kind)
    PROVE  Inv'
<1>1. client' = client
  OBVIOUS
<1>2. /\ store \in StoreType /\ run \in RunType /\ client \in ClientType /\ store.owned
      /\ store.seq \in Nat /\ store.trimmed <= store.seq
  BY BoundAssumption DEF Inv, TypeInv, RunInv, WindowInv, StoreType
<1> PICK n : n = store.seq + 1
  OBVIOUS
<1> PICK v : v = [seq |-> n, kind |-> kind]
  OBVIOUS
<1>3. PICK kept \in MaxEvents .. MaxEvents + Slack : store' = Appended(store, kind, kept)
  BY DEF Stored
<1> PICK gone : gone = Gone(store, kept)
  OBVIOUS
<1>4. /\ store' \in StoreType
      /\ gone \in store.trimmed .. store.seq
      /\ gone >= n - (MaxEvents + Slack)
      /\ gone <= n - MaxEvents \/ gone = store.trimmed
      /\ n \in Seqs /\ store'.seq = n /\ store'.trimmed = gone
      /\ store'.window = Left(store, kind, kept)
      /\ store'.text = IF kind = "text" THEN Append(store.text, n) ELSE store.text
      /\ store'.textSeq = IF kind = "text" THEN n ELSE store.textSeq
      /\ store'.think = Thought(store, kind)
      /\ store'.thinkSeq = IF kind \in Thinking THEN n ELSE store.thinkSeq
      /\ store'.active = store.active /\ store'.owned = store.owned
  BY <1>2, <1>3, AppendedFields
<1>5. /\ \A e : e \in store'.window <=> (e \in store.window \cup {v} /\ e.seq > gone)
      /\ v.seq = n /\ v.kind = kind
  BY <1>4 DEF Left
<1>6. n \in Nat \ {0} /\ n \in Nat /\ n = store.seq + 1 /\ store.seq < n /\ store.seq \in Nat
  BY <1>2
<1>7. \A e \in Events \cup Items : e.seq \in Nat /\ e.seq <= store.seq
  <2>1. Events \cup Items \subseteq Event \cup Item
    BY SMTT(30), <1>2 DEF ClientType, PlanType, StoreType, Events, Items
  <2>2. \A e \in Event \cup Item : e.seq \in Nat
    BY DEF Event, Item, Seqs
  <2> QED BY <2>1, <2>2 DEF Inv, PastInv, Past
<1>8. /\ v \in store'.window /\ \A e \in store'.window : e \in store.window \/ e = v
      /\ \A e \in store.window \cup client.plan.list \cup client.batch : e.seq < n /\ e.seq \in Nat
  <2>1. n > gone
    BY <1>2, <1>4, <1>6 DEF StoreType
  <2>2. v \in store'.window
    BY <1>5, <2>1
  <2>3. \A e \in store'.window : e \in store.window \/ e = v
    BY <1>5
  <2>4. ASSUME NEW e \in store.window \cup client.plan.list \cup client.batch
        PROVE  e.seq < n /\ e.seq \in Nat
    <3>1. e \in Events
      BY DEF Events
    <3> QED BY <1>2, <1>6, <1>7, <3>1
  <2> QED BY <2>2, <2>3, <2>4
<1>9. Items' = Items /\ \A e \in Events' : e \in Events \/ e = v
  BY <1>1, <1>8 DEF Events, Items
<1>10. /\ ~ run.withdrawn => run'.text = store'.text /\ run'.think = store'.think
       /\ ~ run.withdrawn => run.text = store.text /\ run.think = store.think
  BY <1>2, <1>4, <1>6 DEF Inv, CheckpointInv, Thought, Thinking, Says
<1>11. /\ run.text \in Seq(Nat) /\ Len(run.text) \in Nat /\ Increasing(run.text)
       /\ run.think \in Seq(Nat) /\ Len(run.think) \in Nat /\ Increasing(run.think)
       /\ \A i \in 1 .. Len(run.text) : run.text[i] \in Nat /\ run.text[i] < n
       /\ \A i \in 1 .. Len(run.think) : run.think[i] \in Nat /\ run.think[i] < n
       /\ run.text # <<>> => Len(run.text) >= 1
       /\ run.think # <<>> => Len(run.think) >= 1 /\ run.think[1] \in Nat /\ run.think[1] < n
       /\ run.think = <<>> => Len(run.think) = 0
  <2>1. run.text \in Content /\ run.think \in Content
    BY <1>2 DEF RunType
  <2>2. /\ \A i \in 1 .. Len(run.text) : run.text[i] <= store.seq
        /\ \A i \in 1 .. Len(run.think) : run.think[i] <= store.seq
        /\ Increasing(run.text) /\ Increasing(run.think)
    BY DEF Inv, CheckpointInv
  <2>3. /\ run.text \in Seq(Nat) /\ Len(run.text) \in Nat
        /\ \A i \in 1 .. Len(run.text) : run.text[i] \in Nat
        /\ run.text # <<>> => Len(run.text) >= 1
    BY <2>1, ContentIsNat
  <2>4. /\ run.think \in Seq(Nat) /\ Len(run.think) \in Nat
        /\ \A i \in 1 .. Len(run.think) : run.think[i] \in Nat
        /\ run.think # <<>> => Len(run.think) >= 1
        /\ run.think = <<>> => Len(run.think) = 0
    BY <2>1, ContentIsNat
  <2>5. \A i \in 1 .. Len(run.text) : run.text[i] \in Nat /\ run.text[i] < n
    BY <1>6, <2>2, <2>3
  <2>6. \A i \in 1 .. Len(run.think) : run.think[i] \in Nat /\ run.think[i] < n
    BY <1>6, <2>2, <2>4
  <2> QED BY SMTT(30), <2>2, <2>3, <2>4, <2>5, <2>6
<1>12. /\ kind # "text" => run'.text = run.text
       /\ kind = "text" => /\ run'.text = Append(run.text, n) /\ run'.text # <<>>
                           /\ Len(run'.text) = Len(run.text) + 1 /\ run'.text[Len(run.text) + 1] = n
                           /\ \A i \in 1 .. Len(run.text) : run'.text[i] = run.text[i]
       /\ CheckpointOf(run.text, store.textSeq) /\ ~ run.withdrawn =>
             CheckpointOf(run'.text, store'.textSeq)
       /\ Increasing(run'.text) /\ \A i \in 1 .. Len(run'.text) : run'.text[i] <= n
  <2>1. CASE kind # "text"
    <3>1. run'.text = run.text
      BY <2>1 DEF Says
    <3> QED BY SMTT(30), <1>4, <1>6, <1>11, <2>1, <3>1
  <2>2. CASE kind = "text"
    <3>1. run'.text = Append(run.text, n) /\ store'.textSeq = n
      BY <1>4, <2>2 DEF Says
    <3>2. n \in Nat \ {0}
      BY <1>6
    <3>3. /\ run'.text # <<>> /\ Len(run'.text) = Len(run.text) + 1 /\ run'.text[Len(run.text) + 1] = n
          /\ \A i \in 1 .. Len(run.text) : run'.text[i] = run.text[i]
          /\ Increasing(run'.text) /\ CheckpointOf(run'.text, n)
          /\ \A i \in 1 .. Len(run'.text) : run'.text[i] <= n
      <4>1. LET more == Append(run.text, n)
            IN  /\ more # <<>> /\ Len(more) = Len(run.text) + 1 /\ more[Len(run.text) + 1] = n
                /\ \A i \in 1 .. Len(run.text) : more[i] = run.text[i]
                /\ Increasing(more) /\ CheckpointOf(more, n)
                /\ \A i \in 1 .. Len(more) : more[i] <= n
        BY <1>11, <3>2, PieceSaid, Zenon
      <4> QED BY <3>1, <4>1, Zenon
    <3> QED BY <2>2, <3>1, <3>3
  <2> QED BY <2>1, <2>2
<1>13. /\ kind \notin Thinking => run'.think = run.think
       /\ kind = "round" => run'.think = <<n>> /\ run'.think # <<>> /\ Len(run'.think) = 1
                            /\ run'.think[1] = n
       /\ kind = "think" =>
                           /\ run'.think = Append(run.think, n) /\ run'.think # <<>>
                           /\ Len(run'.think) = Len(run.think) + 1 /\ run'.think[Len(run.think) + 1] = n
                           /\ \A i \in 1 .. Len(run.think) : run'.think[i] = run.think[i]
       /\ CheckpointOf(run.think, store.thinkSeq) /\ ~ run.withdrawn =>
             CheckpointOf(run'.think, store'.thinkSeq)
       /\ Increasing(run'.think) /\ \A i \in 1 .. Len(run'.think) : run'.think[i] <= n
  <2>1. CASE kind \notin Thinking
    <3>1. run'.think = run.think
      BY <2>1 DEF Says
    <3> QED BY SMTT(30), <1>4, <1>6, <1>11, <2>1, <3>1 DEF Thinking
  <2>2. CASE kind = "think"
    <3>1. run'.think = Append(store.think, n) /\ store'.thinkSeq = n
      BY <1>4, <2>2 DEF Says, Thinking, Thought
    <3>2. n \in Nat \ {0} /\ kind \in Thinking /\ kind # "round"
      BY <1>6, <2>2 DEF Thinking
    <3>3. store.think = run.think
      BY <1>2, <2>2 DEF Inv, CheckpointInv
    <3>4. run'.think = Append(run.think, n)
      BY <3>1, <3>3
    <3>5. /\ run'.think # <<>> /\ Len(run'.think) = Len(run.think) + 1 /\ run'.think[Len(run.think) + 1] = n
          /\ \A i \in 1 .. Len(run.think) : run'.think[i] = run.think[i]
          /\ Increasing(run'.think) /\ CheckpointOf(run'.think, n)
          /\ \A i \in 1 .. Len(run'.think) : run'.think[i] <= n
      <4>1. LET more == Append(run.think, n)
            IN  /\ more # <<>> /\ Len(more) = Len(run.think) + 1 /\ more[Len(run.think) + 1] = n
                /\ \A i \in 1 .. Len(run.think) : more[i] = run.think[i]
                /\ Increasing(more) /\ CheckpointOf(more, n)
                /\ \A i \in 1 .. Len(more) : more[i] <= n
        BY <1>11, <3>2, PieceSaid, Zenon
      <4> QED BY <3>4, <4>1, Zenon
    <3> QED BY <2>2, <3>1, <3>2, <3>4, <3>5
  <2>3. CASE kind = "round"
    <3>1. run'.think = <<n>> /\ store'.thinkSeq = n
      BY <1>4, <2>3 DEF Says, Thinking, Thought
    <3>2. n \in Nat \ {0} /\ kind \in Thinking /\ kind # "think"
      BY <1>6, <2>3 DEF Thinking
    <3>3. /\ Increasing(<<n>>) /\ CheckpointOf(<<n>>, n) /\ <<n>> # <<>> /\ Len(<<n>>) = 1
          /\ \A i \in 1 .. Len(<<n>>) : <<n>>[i] = n
      BY <3>2, RoundSaid, Zenon
    <3> QED BY <1>6, <2>3, <3>1, <3>2, <3>3
  <2> QED BY <2>1, <2>2, <2>3 DEF Thinking
<1>14. TypeInv'
  BY <1>1, <1>2, <1>4 DEF TypeInv
<1>15. WindowInv'
  <2>1. \A e \in store'.window : e.seq \in gone + 1 .. n
    <3> SUFFICES ASSUME NEW e \in store'.window PROVE e.seq \in gone + 1 .. n
      OBVIOUS
    <3>1. e.seq > gone /\ e.seq \in Nat /\ e.seq <= n
      BY <1>5, <1>6, <1>8
    <3>2. gone \in Nat
      BY <1>2, <1>4 DEF StoreType
    <3> QED BY <1>6, <3>1, <3>2
  <2>2. \A d, e \in store'.window : d.seq = e.seq => d = e
    BY <1>5, <1>6, <1>8 DEF Inv, WindowInv
  <2>3. ASSUME ~ run.dropped, NEW m \in gone + 1 .. n PROVE \E e \in store'.window : e.seq = m
    <3>1. CASE m = n
      BY <1>5, <1>8, <3>1
    <3>2. CASE m # n
      <4>1. m \in store.trimmed + 1 .. store.seq /\ m > gone
        BY SMTT(30), <1>2, <1>4, <1>6, <3>2 DEF StoreType
      <4>2. PICK e \in store.window : e.seq = m
        BY <1>2, <2>3, <4>1 DEF Inv, WindowInv
      <4> QED BY <1>5, <4>1, <4>2
    <3> QED BY <3>1, <3>2
  <2>4. gone \in Nat /\ gone < n /\ gone >= n - (MaxEvents + Slack) /\ (gone <= n - MaxEvents \/ gone = 0)
    <3>1. /\ store.trimmed \in Nat /\ MaxEvents \in Nat \ {0}
          /\ store.trimmed <= store.seq - MaxEvents \/ store.trimmed = 0
      BY <1>2, BoundAssumption DEF StoreType, Inv, WindowInv
    <3> QED BY <1>4, <1>6, <3>1
  <2> QED BY <1>4, <1>6, <2>1, <2>2, <2>3, <2>4, BoundAssumption DEF WindowInv
<1>16. CheckpointInv'
  <2>0. store'.textSeq <= n /\ store'.thinkSeq <= n
    BY <1>2, <1>4, <1>6 DEF Inv, CheckpointInv, StoreType
  <2>3. \A i \in 1 .. Len(run'.text), j \in 1 .. Len(run'.think) : run'.text[i] # run'.think[j]
    <3>1. \A i \in 1 .. Len(run.text), j \in 1 .. Len(run.think) : run.text[i] # run.think[j]
      BY DEF Inv, CheckpointInv
    <3>2. CASE kind = "text"
      <4> SUFFICES ASSUME NEW i \in 1 .. Len(run'.text), NEW j \in 1 .. Len(run.think)
                   PROVE  run'.text[i] # run.think[j]
        BY <1>13, <3>2 DEF Thinking
      <4>1. CASE i = Len(run.text) + 1
        BY <1>6, <1>11, <1>12, <3>2, <4>1
      <4>2. CASE i # Len(run.text) + 1
        <5>1. i \in 1 .. Len(run.text)
          BY <1>11, <1>12, <3>2, <4>2
        <5> QED BY <1>12, <3>1, <3>2, <5>1
      <4> QED BY <4>1, <4>2
    <3>3. CASE kind = "think"
      <4> SUFFICES ASSUME NEW i \in 1 .. Len(run.text), NEW j \in 1 .. Len(run'.think)
                   PROVE  run.text[i] # run'.think[j]
        BY <1>12, <3>3
      <4>1. CASE j = Len(run.think) + 1
        BY <1>6, <1>11, <1>13, <3>3, <4>1
      <4>2. CASE j # Len(run.think) + 1
        <5>1. j \in 1 .. Len(run.think)
          BY <1>11, <1>13, <3>3, <4>2
        <5> QED BY <1>13, <3>1, <3>3, <5>1
      <4> QED BY <4>1, <4>2
    <3>4. CASE kind = "round"
      <4>1. run'.text = run.text /\ Len(run'.think) = 1 /\ run'.think[1] = n
        BY <1>12, <1>13, <3>4
      <4>2. \A i \in 1 .. Len(run.text) : run.text[i] # n
        BY <1>6, <1>11
      <4> QED BY <4>1, <4>2
    <3>5. CASE kind \notin {"text", "think", "round"}
      BY <1>12, <1>13, <3>1, <3>5 DEF Thinking
    <3> QED BY <3>2, <3>3, <3>4, <3>5
  <2>1. CASE run.withdrawn
    <3>1. /\ store'.text = store.text /\ store'.textSeq = store.textSeq
          /\ store'.think = store.think /\ store'.thinkSeq = store.thinkSeq
      BY <1>4, <2>1 DEF Thought, Thinking
    <3> QED BY <1>4, <1>12, <1>13, <2>0, <2>1, <2>3, <3>1 DEF Inv, CheckpointInv
  <2>2. CASE ~ run.withdrawn
    <3>1. CheckpointOf(run.text, store.textSeq) /\ CheckpointOf(run.think, store.thinkSeq)
      BY <1>10, <2>2 DEF Inv, CheckpointInv
    <3> QED BY <1>4, <1>10, <1>12, <1>13, <2>0, <2>2, <2>3, <3>1 DEF CheckpointInv
  <2> QED BY <2>1, <2>2
<1>17. PastInv'
  <2>1. client.last \in Nat /\ client.after \in Nat /\ client.cursor \in Nat
        /\ client.plan.textSeq \in Nat /\ client.plan.thinkSeq \in Nat
    BY <1>2, BoundAssumption DEF ClientType, PlanType
  <2>2. \A e \in Events' \cup Items' : Past(e)'
    <3>1. Past(v)'
      BY <1>4, <1>5, <1>6 DEF Past
    <3>2. ASSUME NEW e \in Events \cup Items PROVE Past(e)'
      <4>1. Past(e)
        BY DEF Inv, PastInv
      <4> QED BY <1>2, <1>4, <1>6, <1>7, <4>1 DEF Past
    <3> QED BY <1>9, <3>1, <3>2
  <2> QED BY <1>1, <1>2, <1>4, <1>6, <2>1, <2>2 DEF Inv, PastInv
<1>18. /\ \A m \in Nat : m < n /\ RoundAt(m) => RoundIn(store'.window \cup client'.batch, m)
       /\ kind = "round" => RoundIn(store'.window \cup client'.batch, n)
  <2>1. ASSUME NEW m \in Nat, m < n, RoundAt(m) PROVE RoundIn(store'.window \cup client'.batch, m)
    BY <1>1, <1>5, <1>6, <1>8, <2>1 DEF RoundAt, RoundIn
  <2>2. ASSUME kind = "round" PROVE RoundIn(store'.window \cup client'.batch, n)
    BY <1>1, <1>5, <1>6, <1>8, <2>2 DEF RoundAt, RoundIn
  <2> QED BY <2>1, <2>2
<1>19. ASSUME ~ run.withdrawn, NEW e, e.seq \in Nat, e.seq < n, ThinkKnown(e)
       PROVE  ThinkKnown(e)'
  <2>1. CASE kind \notin Thinking
    <3>1. run'.think = run.think
      BY <1>13, <2>1
    <3>2. run.think # <<>> => (RoundAt(run.think[1]) => RoundIn(store'.window \cup client'.batch, run.think[1]))
      BY <1>11, <1>18, <3>1
    <3> QED BY <1>19, <3>1, <3>2 DEF ThinkKnown, RoundAt
  <2>2. CASE kind = "think"
    <3>1. CASE run.think = <<>>
      <4>1. e.kind \notin Thinking
        BY <1>19, <3>1 DEF ThinkKnown, RoundAt
      <4>2. Len(run'.think) = 1 /\ run'.think[1] = n
        BY <1>11, <1>13, <2>2, <3>1
      <4> QED BY <1>19, <1>6, <4>1, <4>2 DEF ThinkKnown, RoundAt
    <3>2. CASE run.think # <<>>
      <4>1. run'.think[1] = run.think[1] /\ run.think[1] \in Nat /\ run.think[1] < n
        BY SMTT(30), <1>11, <1>13, <2>2, <3>2
      <4>2. RoundAt(run.think[1]) => RoundIn(store'.window \cup client'.batch, run'.think[1])
        BY <1>18, <4>1
      <4>3. run'.think[Len(run'.think)] = n /\ run'.think # <<>>
        BY <1>13, <2>2
      <4>4. ASSUME e.kind \in Thinking
            PROVE  IF e.seq < run'.think[1] THEN RoundIn(store'.window \cup client'.batch, run'.think[1])
                   ELSE \E i \in 1 .. Len(run'.think) : run'.think[i] = e.seq
        <5>1. CASE e.seq < run.think[1]
          BY <1>19, <4>1, <4>2, <4>4, <5>1 DEF ThinkKnown, RoundAt
        <5>2. CASE ~ (e.seq < run.think[1])
          <6>1. PICK i \in 1 .. Len(run.think) : run.think[i] = e.seq
            BY <1>19, <4>4, <5>2 DEF ThinkKnown, RoundAt
          <6>2. run'.think[i] = e.seq
            BY <1>13, <2>2, <6>1
          <6>3. i \in 1 .. Len(run'.think)
            BY <1>11, <1>13, <2>2
          <6> QED BY <4>1, <5>2, <6>2, <6>3
        <5> QED BY <5>1, <5>2
      <4>5. ASSUME NEW i \in 1 .. Len(run'.think), run'.think[i] = e.seq
            PROVE  e.kind \in Thinking /\ (i > 1 => e.kind = "think")
        <5>1. i # Len(run.think) + 1
          BY <1>6, <1>13, <1>19, <2>2, <4>5
        <5>2. i \in 1 .. Len(run.think)
          BY <1>11, <1>13, <2>2, <5>1
        <5>3. run.think[i] = e.seq
          BY <1>13, <2>2, <4>5, <5>2
        <5> QED BY <1>19, <5>2, <5>3 DEF ThinkKnown, RoundAt
      <4> QED BY <1>6, <1>19, <4>3, <4>4, <4>5 DEF ThinkKnown, RoundAt
    <3> QED BY <3>1, <3>2
  <2>3. CASE kind = "round"
    <3>1. RoundIn(store'.window \cup client'.batch, run'.think[1])
      BY <1>13, <1>18, <2>3
    <3>2. /\ run'.think # <<>> /\ Len(run'.think) = 1 /\ run'.think[1] = n
          /\ e.seq <= n /\ e.seq # n
      BY <1>6, <1>13, <1>19, <2>3
    <3> QED BY <1>19, <3>1, <3>2 DEF ThinkKnown, RoundAt
  <2> QED BY <2>1, <2>2, <2>3 DEF Thinking
<1>20. ASSUME ~ run.withdrawn, NEW e, e.seq \in Nat, e.seq < n, TextKnown(e)
       PROVE  TextKnown(e)'
  <2>1. CASE kind # "text"
    BY <1>12, <1>20, <2>1 DEF TextKnown
  <2>2. CASE kind = "text"
    <3>1. ASSUME NEW i \in 1 .. Len(run.text), run.text[i] = e.seq
          PROVE  i \in 1 .. Len(run'.text) /\ run'.text[i] = e.seq
      <4>1. run'.text[i] = e.seq
        BY <1>12, <2>2, <3>1
      <4>2. i \in 1 .. Len(run'.text)
        BY <1>11, <1>12, <2>2
      <4> QED BY <4>1, <4>2
    <3>2. ASSUME NEW i \in 1 .. Len(run'.text), run'.text[i] = e.seq
          PROVE  i \in 1 .. Len(run.text) /\ run.text[i] = e.seq
      <4>1. i # Len(run.text) + 1
        BY <1>6, <1>12, <1>20, <2>2, <3>2
      <4>2. i \in 1 .. Len(run.text)
        BY <1>11, <1>12, <2>2, <4>1
      <4> QED BY <1>12, <2>2, <3>2, <4>2
    <3> QED BY <1>20, <3>1, <3>2 DEF TextKnown
  <2> QED BY <2>1, <2>2
<1>21. ASSUME ~ run.withdrawn PROVE Known(v)'
  <2>1. TextKnown(v)'
    <3>1. CASE kind = "text"
      <4>1. Len(run'.text) \in 1 .. Len(run'.text) /\ run'.text[Len(run'.text)] = n
        BY <1>11, <1>12, <3>1
      <4> QED BY <1>5, <3>1, <4>1 DEF TextKnown
    <3>2. CASE kind # "text"
      <4>1. \A i \in 1 .. Len(run'.text) : run'.text[i] # n
        BY SMTT(30), <1>6, <1>11, <1>12, <3>2
      <4> QED BY <1>5, <3>2, <4>1 DEF TextKnown
    <3> QED BY <3>1, <3>2
  <2>2. ThinkKnown(v)'
    <3>1. CASE kind \notin Thinking
      <4>1. \A i \in 1 .. Len(run'.think) : run'.think[i] # n
        BY SMTT(30), <1>6, <1>11, <1>13, <3>1
      <4> QED BY <1>5, <3>1, <4>1 DEF ThinkKnown, RoundAt
    <3>2. CASE kind = "round"
      BY <1>5, <1>6, <1>13, <3>2 DEF ThinkKnown, RoundAt, Thinking
    <3>3. CASE kind = "think"
      <4>1. Len(run'.think) \in 1 .. Len(run'.think) /\ run'.think[Len(run'.think)] = n
            /\ run'.think # <<>>
        BY <1>11, <1>13, <3>3
      <4>2. run'.think[1] <= n
        <5>1. CASE Len(run.think) = 0
          BY <1>6, <1>13, <3>3, <5>1
        <5>2. CASE Len(run.think) >= 1
          BY SMTT(30), <1>6, <1>11, <1>13, <3>3, <5>2
        <5> QED BY <1>11, <5>1, <5>2
      <4>3. ~ (n < run'.think[1]) /\ kind \in Thinking
        <5>1. run'.think[1] \in Nat
          <6>1. run'.think \in Content
            BY DEF RunType
          <6> QED BY <4>1, <6>1, ContentIsNat
        <5> QED BY <1>6, <3>3, <4>2, <5>1 DEF Thinking
      <4> QED BY <1>5, <1>6, <3>3, <4>1, <4>3 DEF ThinkKnown, RoundAt
    <3> QED BY <3>1, <3>2, <3>3 DEF Thinking
  <2>3. EndKnown(v)'
    <3>1. kind # "moderation_blocked"
      BY <1>21
    <3>2. ASSUME kind \in Terminals PROVE kind \notin Thinking /\ kind # "text"
      BY <3>2 DEF Terminals, Outcomes, Thinking
    <3> QED BY <1>4, <1>5, <1>11, <1>12, <1>13, <3>1, <3>2 DEF EndKnown
  <2> QED BY <2>1, <2>2, <2>3 DEF Known
<1>22. KnownInv'
  <2>1. ASSUME ~ run.withdrawn, NEW e \in Events \cup Items PROVE Known(e)'
    <3>1. Known(e) /\ e.seq \in Nat /\ e.seq < n
      BY <1>6, <1>7, <2>1 DEF Inv, KnownInv
    <3>2. TextKnown(e)' /\ ThinkKnown(e)'
      BY <1>19, <1>20, <2>1, <3>1 DEF Known
    <3>3. EndKnown(e)'
      <4>1. e.kind # "moderation_blocked"
        BY <3>1 DEF Known, EndKnown
      <4>2. e.kind \notin Terminals
        BY <2>1 DEF Inv, PastInv, Past
      <4> QED BY <4>1, <4>2 DEF EndKnown
    <3> QED BY <3>2, <3>3 DEF Known
  <2>2. ~ run.withdrawn => /\ client.text # <<>> => run'.text # <<>>
                           /\ client.think # <<>> => run'.think # <<>>
    BY <1>12, <1>13 DEF Inv, KnownInv, Thinking
  <2>3. ~ run.withdrawn => \A e \in (Events \cup Items)' : Known(e)'
    BY <1>9, <1>21, <2>1
  <2> QED BY <1>1, <2>2, <2>3 DEF KnownInv
<1>23. /\ n \in ToRead(client.plan.textSeq) /\ n \in ToRead(client.plan.thinkSeq)
       /\ n \in Beyond(client.plan.textSeq) /\ n \in Beyond(client.plan.thinkSeq)
  <2>1. /\ client.after < n /\ client.cursor < n /\ client.plan.textSeq < n /\ client.plan.thinkSeq < n
        /\ n \in Seqs
    <3>1. /\ client.after \in Nat /\ client.cursor \in Nat
          /\ client.plan.textSeq \in Nat /\ client.plan.thinkSeq \in Nat
      BY <1>2, BoundAssumption DEF ClientType, PlanType
    <3> QED BY <1>4, <1>6, <3>1 DEF Inv, PastInv
  <2>2. \A e \in client.plan.list : n > e.seq
    BY <1>8
  <2> QED BY <2>1, <2>2 DEF ToRead, Beyond
<1>24. ASSUME ~ run.withdrawn, NEW shown \in Content, NEW ahead, NEW queued, n \in ahead,
              Follows(run.text, shown, ahead, queued, {})
       PROVE  Follows(run'.text, shown, ahead, queued, {})
  <2>1. CASE kind # "text"
    BY <1>12, <1>24, <2>1
  <2>2. CASE kind = "text"
    <3>1. shown \in Seq(Nat)
      BY <1>24, ContentIsNat
    <3>2. Follows(Append(run.text, n), shown, ahead, queued, {})
      BY <1>6, <1>11, <1>24, <3>1, FollowsPiece
    <3>3. run'.text = Append(run.text, n)
      BY <1>12, <2>2
    <3> QED BY <3>2, <3>3, Zenon
  <2> QED BY <2>1, <2>2
<1>25. ASSUME ~ run.withdrawn, NEW shown \in Content, NEW ahead, NEW queued, NEW rounds, NEW rounds2,
              n \in ahead, \A m \in Nat : m < n /\ m \in rounds => m \in rounds2,
              kind = "round" => n \in rounds2,
              Follows(run.think, shown, ahead, queued, rounds)
       PROVE  Follows(run'.think, shown, ahead, queued, rounds2)
  <2>0. run.think # <<>> /\ run.think[1] \in rounds => run.think[1] \in rounds2
    BY <1>11, <1>25
  <2>1. CASE kind \notin Thinking
    <3>1. Follows(run.think, shown, ahead, queued, rounds2)
      BY <1>25, <2>0 DEF Follows, Anew
    <3> QED BY <1>13, <2>1, <3>1
  <2>2. CASE kind = "think"
    <3>1. shown \in Seq(Nat)
      BY <1>25, ContentIsNat
    <3>2. Follows(Append(run.think, n), shown, ahead, queued, rounds2)
      BY <1>6, <1>11, <1>25, <2>0, <3>1, FollowsPiece
    <3>3. run'.think = Append(run.think, n)
      BY <1>13, <2>2
    <3> QED BY <3>2, <3>3, Zenon
  <2>3. CASE kind = "round"
    <3>1. Follows(<<n>>, shown, ahead, queued, rounds2)
      BY <1>6, <1>25, <2>3, FollowsRound
    <3> QED BY <1>13, <2>3, <3>1
  <2> QED BY <2>1, <2>2, <2>3 DEF Thinking
<1>26. \A item \in client.replay : item.content \in Content
  BY <1>2 DEF ClientType, Item
<1>27. TextInv'
  <2> SUFFICES ASSUME Attending PROVE TextInv'
    BY <1>1 DEF TextInv, Attending
  <2> DEFINE ahead == ToRead(client.plan.textSeq)
             queued == Queued({"text"})
  <2>1. ~ run.withdrawn
    BY DEF Attending
  <2>2. ahead' = ahead /\ queued' = queued /\ n \in ahead /\ client.text \in Content
    BY <1>1, <1>2, <1>23 DEF ToRead, Queued, ClientType
  <2>3. Leads(run.text, client.text, {"text"}, client.plan.textSeq, {})
    BY DEF Inv, TextInv
  <2>4. ASSUME NEW item \in client.replay, item.kind \in {"text"}
        PROVE  item.replace /\ Follows(run'.text, item.content, ahead, queued, {})
    <3>1. item.replace /\ Follows(run.text, item.content, ahead, queued, {})
      BY <2>3, <2>4 DEF Leads
    <3> HIDE DEF ahead, queued
    <3> QED BY <1>24, <1>26, <2>1, <2>2, <3>1
  <2>5. ASSUME \A item \in client.replay : item.kind \notin {"text"}
        PROVE  Follows(run'.text, client.text, ahead, queued, {})
    <3>1. Follows(run.text, client.text, ahead, queued, {})
      BY <2>3, <2>5 DEF Leads
    <3> HIDE DEF ahead, queued
    <3> QED BY <1>24, <2>1, <2>2, <3>1
  <2> QED BY <1>1, <2>2, <2>4, <2>5 DEF TextInv, Leads
<1>28. ThinkInv'
  <2> SUFFICES ASSUME Attending PROVE ThinkInv'
    BY <1>1 DEF ThinkInv, Attending
  <2> DEFINE ahead == ToRead(client.plan.thinkSeq)
             queued == Queued(Thinking)
  <2>1. ~ run.withdrawn
    BY DEF Attending
  <2>2. ahead' = ahead /\ queued' = queued /\ n \in ahead /\ client.think \in Content
    BY <1>1, <1>2, <1>23 DEF ToRead, Queued, ClientType
  <2>3. Leads(run.think, client.think, Thinking, client.plan.thinkSeq, Rounds)
    BY DEF Inv, ThinkInv
  <2>4. /\ \A m \in Nat : m < n /\ m \in Rounds => m \in Rounds'
        /\ kind = "round" => n \in Rounds'
    <3>1. \A m \in Nat : m < n /\ RoundAt(m) => RoundAt(m)'
      BY <1>18 DEF RoundAt
    <3>2. kind = "round" => RoundAt(n)'
      BY <1>18 DEF RoundAt
    <3> QED BY <1>1, <1>23, <3>1, <3>2 DEF Rounds, ToRead
  <2>5. ASSUME NEW item \in client.replay, item.kind \in Thinking
        PROVE  item.replace /\ Follows(run'.think, item.content, ahead, queued, Rounds')
    <3>1. item.replace /\ Follows(run.think, item.content, ahead, queued, Rounds)
      BY <2>3, <2>5 DEF Leads
    <3> HIDE DEF ahead, queued
    <3> QED BY <1>25, <1>26, <2>1, <2>2, <2>4, <3>1
  <2>6. ASSUME \A item \in client.replay : item.kind \notin Thinking
        PROVE  Follows(run'.think, client.think, ahead, queued, Rounds')
    <3>1. Follows(run.think, client.think, ahead, queued, Rounds)
      BY <2>3, <2>6 DEF Leads
    <3> HIDE DEF ahead, queued
    <3> QED BY <1>25, <2>1, <2>2, <2>4, <3>1
  <2> QED BY <1>1, <2>2, <2>5, <2>6 DEF ThinkInv, Leads
<1>29. PlanInv' /\ ListInv' /\ EndInv'
  <2>1. PlanInv' /\ ListInv'
    BY <1>1, <1>2 DEF Inv, PlanInv, ListInv
  <2>2. EndInv'
    BY <1>1 DEF EndInv, Inv, PastInv, Outcomes, Terminals
  <2> QED BY <2>1, <2>2
<1>30. TextPlanInv'
  <2> SUFFICES ASSUME client.phase \in {"think", "deciding"}, ~ run.withdrawn PROVE TextPlanInv'
    BY <1>1 DEF TextPlanInv
  <2>1. /\ CheckpointOf(client.plan.text, client.plan.textSeq)
        /\ \A e \in client.plan.list : e.kind = "text" => e.seq <= client.plan.textSeq
        /\ client.plan.text # <<>> => run.text # <<>>
        /\ client.text # <<>> => client.plan.text # <<>>
        /\ client.plan.textSeq > 0 => \E i \in 1 .. Len(run.text) : run.text[i] = client.plan.textSeq
        /\ Ahead(run.text, client.plan.text, Beyond(client.plan.textSeq), {})
    BY <1>2 DEF Inv, TextPlanInv
  <2>2. client.plan.text # <<>> => run'.text # <<>>
    BY <1>12, <2>1
  <2>3. client.plan.textSeq > 0 => \E i \in 1 .. Len(run'.text) : run'.text[i] = client.plan.textSeq
    <3> SUFFICES ASSUME client.plan.textSeq > 0
                 PROVE  \E i \in 1 .. Len(run'.text) : run'.text[i] = client.plan.textSeq
      OBVIOUS
    <3>1. PICK i \in 1 .. Len(run.text) : run.text[i] = client.plan.textSeq
      BY <2>1
    <3>2. i \in 1 .. Len(run'.text)
      BY <1>11, <1>12
    <3>3. run'.text[i] = client.plan.textSeq
      BY <1>12, <3>1
    <3> QED BY <3>2, <3>3
  <2>4. Ahead(run'.text, client.plan.text, Beyond(client.plan.textSeq), {})
    <3>1. client.plan.text \in Content
      BY <1>2 DEF ClientType, PlanType
    <3>2. Follows(run.text, client.plan.text, Beyond(client.plan.textSeq), {}, {})
      BY <2>1 DEF Follows
    <3>3. Follows(run'.text, client.plan.text, Beyond(client.plan.textSeq), {}, {})
      BY <1>23, <1>24, <3>1, <3>2
    <3> QED BY <3>3 DEF Follows, Anew
  <2>5. Beyond(client.plan.textSeq)' = Beyond(client.plan.textSeq)
    BY <1>1 DEF Beyond
  <2> QED BY <1>1, <2>1, <2>2, <2>3, <2>4, <2>5 DEF TextPlanInv
<1>31. ThinkPlanInv'
  <2> SUFFICES ASSUME client.phase = "deciding", ~ run.withdrawn PROVE ThinkPlanInv'
    BY <1>1 DEF ThinkPlanInv
  <2> DEFINE beyond == Beyond(client.plan.thinkSeq)
             rounds == {m \in beyond : RoundAt(m)}
  <2>1. /\ CheckpointOf(client.plan.think, client.plan.thinkSeq)
        /\ \A e \in client.plan.list : e.kind \in Thinking => e.seq <= client.plan.thinkSeq
        /\ client.think # <<>> => client.plan.think # <<>>
        /\ client.plan.thinkSeq > 0 =>
              ThinkKnown([seq |-> client.plan.thinkSeq, kind |-> "think"])
              /\ TextKnown([seq |-> client.plan.thinkSeq, kind |-> "think"])
        /\ Follows(run.think, client.plan.think, beyond, {}, rounds)
    BY <1>2 DEF Inv, ThinkPlanInv
  <2>2. beyond' = beyond /\ n \in beyond
    BY <1>1, <1>23 DEF Beyond
  <2>3. /\ \A m \in Nat : m < n /\ m \in rounds => m \in rounds'
        /\ kind = "round" => n \in rounds'
    <3>1. \A m \in Nat : m < n /\ RoundAt(m) => RoundAt(m)'
      BY <1>18 DEF RoundAt
    <3>2. kind = "round" => RoundAt(n)'
      BY <1>18 DEF RoundAt
    <3> HIDE DEF beyond
    <3> QED BY <2>2, <3>1, <3>2
  <2>4. Follows(run'.think, client.plan.think, beyond, {}, rounds')
    <3>1. client.plan.think \in Content
      BY <1>2 DEF ClientType, PlanType
    <3> HIDE DEF beyond, rounds
    <3> QED BY <1>25, <2>1, <2>2, <2>3, <3>1
  <2>5. client.plan.thinkSeq > 0 =>
          ThinkKnown([seq |-> client.plan.thinkSeq, kind |-> "think"])'
          /\ TextKnown([seq |-> client.plan.thinkSeq, kind |-> "think"])'
    <3> SUFFICES ASSUME client.plan.thinkSeq > 0
                 PROVE  ThinkKnown([seq |-> client.plan.thinkSeq, kind |-> "think"])'
                        /\ TextKnown([seq |-> client.plan.thinkSeq, kind |-> "think"])'
      OBVIOUS
    <3> PICK e : e = [seq |-> client.plan.thinkSeq, kind |-> "think"]
      OBVIOUS
    <3>1. e.seq \in Nat /\ e.seq < n
      <4>1. client.plan.thinkSeq \in Nat
        BY <1>2 DEF ClientType, PlanType
      <4> QED BY <1>6, <4>1 DEF Inv, PastInv
    <3>2. ThinkKnown(e) /\ TextKnown(e)
      BY <2>1
    <3>3. ThinkKnown(e)' /\ TextKnown(e)'
      BY <1>19, <1>20, <3>1, <3>2
    <3>4. e = [seq |-> client'.plan.thinkSeq, kind |-> "think"]
      BY <1>1
    <3> QED BY <3>3, <3>4 DEF ThinkKnown, TextKnown
  <2> HIDE DEF beyond
  <2>6. client'.plan.thinkSeq > 0 =>
          ThinkKnown([seq |-> client.plan.thinkSeq, kind |-> "think"])'
          /\ TextKnown([seq |-> client.plan.thinkSeq, kind |-> "think"])'
    BY <1>1, <2>5
  <2>7. Follows(run'.think, client'.plan.think, beyond', {}, rounds')
    BY <1>1, <2>2, <2>4
  <2>8. /\ CheckpointOf(client'.plan.think, client'.plan.thinkSeq)
        /\ \A e \in client'.plan.list : e.kind \in Thinking => e.seq <= client'.plan.thinkSeq
        /\ client'.think # <<>> => client'.plan.think # <<>>
    BY <1>1, <2>1
  <2> HIDE DEF rounds
  <2> QED BY <2>6, <2>7, <2>8 DEF ThinkPlanInv, beyond, rounds
<1>32. ReaderInv'
  <2>1. ~ client.lagged /\ client.phase \in Serving => (\A b \in client.batch, e \in store'.window :
              e.seq \in client.cursor + 1 .. b.seq => e \in client.batch)
    <3> SUFFICES ASSUME ~ client.lagged, client.phase \in Serving,
                        NEW b \in client.batch, NEW e \in store'.window,
                        e.seq \in client.cursor + 1 .. b.seq
                 PROVE  e \in client.batch
      OBVIOUS
    <3>1. b.seq < n /\ b.seq \in Nat /\ client.cursor \in Nat
      BY <1>2, <1>8 DEF ClientType
    <3>2. e # v
      BY <1>5, <1>6, <3>1
    <3> QED BY <1>8, <3>2 DEF Inv, ReaderInv
  <2> QED BY <1>1, <2>1 DEF Inv, ReaderInv
<1>33. OtherInv'
  <2>1. ASSUME NEW t \in Events' \cup Items', t.kind \in Terminals,
               NEW e \in store'.window, e.kind = "other"
        PROVE  e.seq < t.seq
    <3>1. CASE t = v
      <4>1. e # v
        BY <1>5, <2>1, <3>1 DEF Terminals, Outcomes
      <4> QED BY <1>5, <1>8, <3>1, <4>1
    <3>2. CASE t \in Events \cup Items
      <4>1. run.outcome # "none"
        BY <2>1, <3>2 DEF Inv, PastInv, Past
      <4>2. kind = "moderation_blocked"
        BY <4>1
      <4>3. e \in store.window
        BY <1>5, <1>8, <2>1, <4>2
      <4> QED BY <2>1, <3>2, <4>3 DEF Inv, OtherInv
    <3> QED BY <1>9, <3>1, <3>2
  <2>2. ASSUME NEW e \in store.window, MustHold(e)' PROVE MustHold(e)
    BY <1>2, <1>4, <1>6, <1>8, <2>2, BoundAssumption DEF MustHold
  <2>3. client.phase \in {"text", "think", "deciding"} /\ ~ client.resumed =>
          \A e \in store'.window : MustHold(e)' =>
              e \in client.plan.list \/ \A d \in client.plan.list : d.seq < e.seq
    <3> SUFFICES ASSUME client.phase \in {"text", "think", "deciding"}, ~ client.resumed,
                        NEW e \in store'.window, MustHold(e)'
                 PROVE  e \in client.plan.list \/ \A d \in client.plan.list : d.seq < e.seq
      OBVIOUS
    <3>1. CASE e = v
      BY <1>5, <1>8, <3>1
    <3>2. CASE e \in store.window
      BY <2>2, <3>2 DEF Inv, OtherInv
    <3> QED BY <1>8, <3>1, <3>2
  <2>4. client.phase \in Serving /\ ~ client.resumed /\ ~ client.lagged =>
          \A e \in store'.window : MustHold(e)' =>
              \/ e.seq \in client.got
              \/ \E item \in Items : item.kind = "other" /\ item.seq = e.seq
              \/ e.seq > client.cursor
    <3> SUFFICES ASSUME client.phase \in Serving, ~ client.resumed, ~ client.lagged,
                        NEW e \in store'.window, MustHold(e)'
                 PROVE  \/ e.seq \in client.got
                        \/ \E item \in Items : item.kind = "other" /\ item.seq = e.seq
                        \/ e.seq > client.cursor
      OBVIOUS
    <3>1. CASE e = v
      <4>1. client.cursor \in Nat /\ client.cursor <= store.seq
        BY <1>2 DEF ClientType, Inv, PastInv
      <4> QED BY <1>5, <1>6, <3>1, <4>1
    <3>2. CASE e \in store.window
      BY <2>2, <3>2 DEF Inv, OtherInv
    <3> QED BY <1>8, <3>1, <3>2
  <2> QED BY <1>1, <1>9, <2>1, <2>3, <2>4 DEF OtherInv
<1>34. DroppedInv'
  <2>1. run.dropped => kind = "moderation_blocked" /\ store'.textSeq = 0 /\ store'.thinkSeq = 0
    <3> SUFFICES ASSUME run.dropped
                 PROVE  kind = "moderation_blocked" /\ store'.textSeq = 0 /\ store'.thinkSeq = 0
      OBVIOUS
    <3>1. kind = "moderation_blocked"
      BY DEF Inv, RunInv
    <3>2. store'.textSeq = store.textSeq /\ store'.thinkSeq = store.thinkSeq
      BY <1>4, <3>1 DEF Thinking
    <3> QED BY <3>1, <3>2 DEF Inv, DroppedInv
  <2>2. run.dropped => \A e \in store'.window : Bare(e)
    BY <1>5, <1>8, <2>1 DEF Inv, DroppedInv, Bare
  <2> QED BY <1>1, <1>9, <2>1, <2>2 DEF Inv, DroppedInv, Bare
<1> QED BY <1>14, <1>15, <1>16, <1>17, <1>22, <1>27, <1>28, <1>29, <1>30, <1>31, <1>32, <1>33, <1>34 DEF Inv

LEMMA UnstoredStep ==
    ASSUME Inv, NEW kind \in Kinds, Publish(kind), PublishUnstored(kind)
    PROVE  Inv'
<1>1. TypeInv /\ RunInv /\ run \in RunType /\ UNCHANGED <<store, client>>
  BY DEF Inv, TypeInv, Publish, PublishUnstored
<1>2. Append(run.answer, Unstored) \in Answers
  <2>1. run.answer \in Seq({Unstored} \cup Seqs)
    BY <1>1 DEF RunType, Answers
  <2> QED BY <2>1, AppendProperties DEF Answers
<1>3. /\ run' \in RunType /\ run'.saved = run.saved /\ run'.outcome = run.outcome
      /\ run'.text = run.text /\ run'.think = run.think
      /\ run'.withdrawn = run.withdrawn /\ run'.dropped = run.dropped
  BY <1>1, <1>2 DEF PublishUnstored, RunType
<1>4. TypeInv' /\ RunInv'
  BY <1>1, <1>3 DEF TypeInv, RunInv
<1> QED BY <1>1, <1>3, <1>4, QuietStep

LEMMA PublishStep ==
    ASSUME Inv, NEW kind \in Kinds, Publish(kind), PublishStored(kind)
    PROVE  Inv'
<1>1. /\ store \in StoreType /\ run \in RunType /\ RunInv
  BY DEF Inv, TypeInv
<1>2. /\ store.active /\ run.outcome = "none" /\ ~ run.saved /\ store.seq < MaxAppends
      /\ Stored(kind) /\ UNCHANGED client /\ ~ run.withdrawn
  BY <1>1, BoundAssumption DEF Publish, PublishStored, RunInv, StoreType
<1>3. kind \notin Terminals
  BY KindsAssumption DEF Terminals, Outcomes
<1>4. PICK kept \in MaxEvents .. MaxEvents + Slack : store' = Appended(store, kind, kept)
  BY <1>2 DEF Stored
<1>5. /\ store' \in StoreType /\ store'.seq = store.seq + 1 /\ store'.think = Thought(store, kind)
      /\ store.seq + 1 \in Seqs /\ store'.active = store.active /\ store'.owned = store.owned
  <2>1. store.trimmed <= store.seq
    BY DEF Inv, WindowInv
  <2> QED BY <1>1, <1>2, <1>4, <2>1, AppendedFields
<1>6. Append(run.text, store.seq + 1) \in Content
  <2>1. run.text \in Seq(Seqs)
    BY <1>1 DEF RunType, Content
  <2> QED BY <1>5, <2>1, AppendProperties DEF Content
<1>7. Thought(store, kind) \in Content /\ Append(run.answer, store.seq + 1) \in Answers
  <2>1. run.answer \in Seq({Unstored} \cup Seqs)
    BY <1>1 DEF RunType, Answers
  <2> QED BY <1>5, <2>1, AppendProperties DEF StoreType, Answers
<1>8. /\ run' \in RunType /\ run'.outcome = run.outcome /\ run'.saved = run.saved
      /\ run'.withdrawn = run.withdrawn /\ run'.dropped = run.dropped /\ Says(kind)
  <2> DEFINE text  == IF kind = "text" THEN Append(run.text, store.seq + 1) ELSE run.text
             think == IF kind \in Thinking THEN Thought(store, kind) ELSE run.think
             answer == IF kind = "text" THEN Append(run.answer, store.seq + 1) ELSE run.answer
  <2>1. run' = [run EXCEPT !.answer = answer, !.text = text, !.think = think]
    BY <1>5 DEF PublishStored
  <2>2. text \in Content /\ think \in Content /\ answer \in Answers
    BY <1>1, <1>6, <1>7 DEF RunType
  <2>3. /\ run' \in RunType /\ run'.outcome = run.outcome /\ run'.saved = run.saved
        /\ run'.withdrawn = run.withdrawn /\ run'.dropped = run.dropped
        /\ run'.text = text /\ run'.think = think
    <3> HIDE DEF answer, text, think
    <3> QED BY <1>1, <2>1, <2>2 DEF RunType
  <2> QED BY <2>3 DEF Says
<1>9. RunInv'
  BY <1>1, <1>2, <1>5, <1>8 DEF RunInv
<1> QED BY <1>1, <1>2, <1>3, <1>8, <1>9, StoredStep DEF Terminals

\* The terminal event, or what moderation announces.
LEMMA TerminalStep ==
    ASSUME Inv,
           \/ \E kind \in Outcomes : End(kind) /\ store.active /\ store.seq < MaxAppends /\ Stored(kind)
           \/ PublishBlocked /\ store.active /\ store.seq < MaxAppends /\ Stored("moderation_blocked")
    PROVE  Inv'
<1>1. /\ store \in StoreType /\ run \in RunType /\ RunInv
  BY DEF Inv, TypeInv
<1>2. PICK kind \in Terminals :
         /\ store.active /\ store.seq < MaxAppends /\ Stored(kind) /\ UNCHANGED client /\ run.saved
         /\ run' = [run EXCEPT !.outcome = kind] /\ (run.outcome = "none" \/ run.withdrawn)
         /\ run.withdrawn <=> kind = "moderation_blocked"
  <2>1. CASE \E kind \in Outcomes : End(kind) /\ store.active /\ store.seq < MaxAppends /\ Stored(kind)
    BY <2>1 DEF End, Outcomes, Terminals
  <2>2. CASE PublishBlocked /\ store.active /\ store.seq < MaxAppends /\ Stored("moderation_blocked")
    BY <1>1, <2>2 DEF PublishBlocked, Terminals, RunInv
  <2> QED BY <2>1, <2>2
<1>3. /\ run' \in RunType /\ run'.outcome = kind /\ run'.saved = run.saved
      /\ run'.withdrawn = run.withdrawn /\ run'.dropped = run.dropped
      /\ run'.text = run.text /\ run'.think = run.think
  BY <1>1, <1>2 DEF RunType
<1>4. kind # "text" /\ kind \notin Thinking /\ kind # "none"
  BY DEF Terminals, Outcomes, Thinking
<1>5. Says(kind)
  BY <1>3, <1>4 DEF Says
<1>6. store'.active = store.active /\ store'.owned = store.owned
  <2>1. PICK kept \in MaxEvents .. MaxEvents + Slack : store' = Appended(store, kind, kept)
    BY <1>2 DEF Stored
  <2>2. store.trimmed <= store.seq
    BY DEF Inv, WindowInv
  <2> QED BY <1>1, <1>2, <2>1, <2>2, AppendedFields
<1>7. RunInv'
  BY <1>1, <1>2, <1>3, <1>6 DEF RunInv
<1> QED BY <1>2, <1>3, <1>4, <1>5, <1>7, StoredStep

LEMMA GenerationStep ==
    ASSUME Inv, Generation
    PROVE  Inv'
<1>1. CASE \E kind \in Kinds : Publish(kind)
  BY <1>1, PublishStep, UnstoredStep DEF Publish
<1>2. CASE \E kind \in Outcomes : End(kind)
  <2>1. PICK kind \in Outcomes : End(kind)
    BY <1>2
  <2>2. CASE store.active /\ store.seq < MaxAppends /\ Stored(kind)
    BY <2>1, <2>2, TerminalStep
  <2>3. CASE UNCHANGED store
    BY <2>1, <2>3, QuietGeneration
  <2> QED BY <2>1, <2>2, <2>3 DEF End
<1>3. CASE PublishBlocked
  <2>1. CASE store.active /\ store.seq < MaxAppends /\ Stored("moderation_blocked")
    BY <1>3, <2>1, TerminalStep
  <2>2. CASE UNCHANGED store
    BY <1>3, <2>2, QuietGeneration
  <2> QED BY <1>3, <2>1, <2>2 DEF PublishBlocked
<1>4. CASE Withdraw
  BY <1>4, WithdrawStep
<1>5. CASE Save \/ Release \/ Lapse \/ Expire
  BY <1>5, QuietGeneration
<1> QED BY <1>1, <1>2, <1>3, <1>4, <1>5 DEF Generation

\* What a step of the subscriber leaves alone.
LEMMA SubscriberFrame ==
    ASSUME Inv, UNCHANGED <<store, run>>, client' \in ClientType
    PROVE  TypeInv' /\ RunInv' /\ WindowInv' /\ CheckpointInv'
  BY DEF Inv, TypeInv, RunInv, WindowInv, CheckpointInv

\* What is known of a record does not depend on the subscriber, as long as it
\* takes nothing more into its hands.
LEMMA KnownFrame ==
    ASSUME UNCHANGED <<store, run>>, client'.batch \subseteq store.window \cup client.batch
    PROVE  \A e : Known(e) => Known(e)'
<1>1. \A m : RoundAt(m) => RoundIn(store'.window \cup client'.batch, m)
  BY DEF RoundAt, RoundIn
<1> QED BY <1>1 DEF Known, TextKnown, ThinkKnown, EndKnown, RoundAt

LEMMA LastIsLargest ==
    ASSUME NEW said \in Seq(Nat), Increasing(said)
    PROVE  \A i \in 1 .. Len(said) : said[i] <= said[Len(said)]
<1> SUFFICES ASSUME NEW i \in 1 .. Len(said) PROVE said[i] <= said[Len(said)]
  OBVIOUS
<1>1. Len(said) \in 1 .. Len(said) /\ said[i] \in Nat /\ said[Len(said)] \in Nat
  BY ElementOfSeq
<1>2. CASE i = Len(said)
  BY <1>1, <1>2
<1>3. CASE i # Len(said)
  <2>1. i < Len(said)
    BY <1>3
  <2> QED BY <1>1, <2>1 DEF Increasing
<1> QED BY <1>2, <1>3

\* A connection is made.
LEMMA ConnectStep ==
    ASSUME Inv, Connect
    PROVE  Inv'
<1>1. CASE Refuse
  BY <1>1, EndedStep DEF Refuse
<1>2. CASE ~ Refuse
  <2>1. PICK after \in {0, client.last} :
           client' = [client EXCEPT !.phase = "listing", !.after = after, !.told = "none",
                                    !.resumed = after > 0, !.connections = @ + 1,
                                    !.fresh = run.dropped]
           /\ UNCHANGED <<store, run>> /\ client.phase = "off"
    BY <1>2 DEF Connect
  <2>2. store' = store /\ run' = run /\ client \in ClientType /\ run \in RunType /\ after \in 0 .. MaxAppends
        /\ client.phase = "off" /\ store.seq \in Nat
    BY SMTT(30), <2>1, BoundAssumption DEF Inv, TypeInv, ClientType, StoreType
  <2>3. after <= store.seq
    BY <2>1, <2>2 DEF Inv, PastInv
  <2>4. /\ client' \in ClientType /\ client'.phase = "listing" /\ client'.after = after
        /\ client'.told = "none" /\ (client'.resumed \/ after = 0) /\ client'.fresh = run.dropped
        /\ client'.plan = client.plan /\ client'.cursor = client.cursor /\ client'.replay = client.replay
        /\ client'.reader = client.reader /\ client'.batch = client.batch /\ client'.queue = client.queue
        /\ client'.last = client.last /\ client'.got = client.got /\ client'.text = client.text
        /\ client'.think = client.think /\ client'.lagged = client.lagged
    <3> DEFINE resumed == after > 0
               fresh == run.dropped
               connections == client.connections + 1
    <3>1. connections \in Nat /\ resumed \in BOOLEAN /\ fresh \in BOOLEAN /\ "listing" \in Phases /\ (resumed \/ after = 0)
      BY <2>2 DEF RunType, Phases, ClientType
    <3>2. client' = [client EXCEPT !.phase = "listing", !.after = after, !.told = "none",
                                    !.resumed = resumed, !.connections = connections, !.fresh = fresh]
      BY <2>1
    <3>3. fresh = run.dropped
      OBVIOUS
    <3> HIDE DEF resumed, fresh, connections
    <3>4. client' \in ClientType
      BY <2>2, <3>1, <3>2 DEF ClientType
    <3>5. /\ client'.phase = "listing" /\ client'.after = after
          /\ client'.told = "none" /\ client'.resumed = resumed /\ client'.fresh = fresh
          /\ client'.plan = client.plan /\ client'.cursor = client.cursor /\ client'.replay = client.replay
          /\ client'.reader = client.reader /\ client'.batch = client.batch /\ client'.queue = client.queue
          /\ client'.last = client.last /\ client'.got = client.got /\ client'.text = client.text
          /\ client'.think = client.think /\ client'.lagged = client.lagged
      BY <2>2, <3>2 DEF ClientType
    <3> QED BY <3>1, <3>3, <3>4, <3>5
  <2>5. /\ client.plan = NoPlan /\ client.replay = {} /\ client.queue = <<>> /\ client.batch = {}
        /\ client.cursor = 0 /\ client.reader = "none"
        /\ client.plan.list = {} /\ client.plan.textSeq = 0 /\ client.plan.thinkSeq = 0
    BY <2>2 DEF Inv, PlanInv, Serving, NoPlan
  <2>6. Events' = Events /\ Items' = Items /\ Items = {}
    BY <2>2, <2>4, <2>5 DEF Events, Items
  <2>7. TypeInv' /\ RunInv' /\ WindowInv' /\ CheckpointInv'
    BY <2>1, <2>4, SubscriberFrame
  <2>8. PastInv'
    BY <2>2, <2>3, <2>4, <2>6 DEF Inv, PastInv, Past, Terminals, Outcomes
  <2>9. KnownInv'
    <3>1. \A e : Known(e) => Known(e)'
      BY <2>1, <2>4, KnownFrame
    <3> QED BY <2>2, <2>4, <2>6, <3>1 DEF Inv, KnownInv
  <2>10. PlanInv'
    BY <2>4, <2>5 DEF PlanInv, Serving, Reading
  <2>11. ListInv' /\ TextPlanInv' /\ ThinkPlanInv' /\ ReaderInv' /\ TextInv' /\ ThinkInv' /\ EndInv'
    BY <2>4 DEF ListInv, TextPlanInv, ThinkPlanInv, ReaderInv, TextInv, ThinkInv, EndInv,
       Attending, Serving, Outcomes
  <2>12. OtherInv'
    BY <2>2, <2>4, <2>6 DEF Inv, OtherInv, Serving
  <2>13. DroppedInv'
    BY <2>2, <2>4, <2>5, <2>6 DEF Inv, DroppedInv
  <2> QED BY <2>7, <2>8, <2>9, <2>10, <2>11, <2>12, <2>13 DEF Inv
<1> QED BY <1>1, <1>2

\* The fields that change only once the subscription stands.
Kept ==
    /\ client'.cursor = client.cursor /\ client'.replay = client.replay
    /\ client'.reader = client.reader /\ client'.batch = client.batch /\ client'.queue = client.queue
    /\ client'.last = client.last /\ client'.got = client.got /\ client'.text = client.text
    /\ client'.think = client.think /\ client'.lagged = client.lagged
    /\ client'.after = client.after /\ client'.resumed = client.resumed
    /\ client'.fresh = client.fresh /\ client'.told = client.told

\* A read of the store before the subscription stands.
LEMMA ReadingStep ==
    ASSUME Inv, UNCHANGED <<store, run>>, client.phase \in Reading,
           client'.phase \in {"text", "think", "deciding"}, client' \in ClientType, Kept,
           client'.plan.textSeq <= store.seq, client'.plan.thinkSeq <= store.seq,
           client'.plan.list \subseteq store.window \cup client.plan.list,
           client.fresh => client'.plan.textSeq = 0 /\ client'.plan.thinkSeq = 0,
           PlanInv', ListInv', TextPlanInv', ThinkPlanInv',
           ~ client.resumed => \A e \in store.window : MustHold(e) =>
               e \in client'.plan.list \/ \A d \in client'.plan.list : d.seq < e.seq
    PROVE  Inv'
<1>1. store' = store /\ run' = run
  OBVIOUS
<1>2. /\ client.phase # "off" /\ client.phase \notin Serving /\ client'.phase \notin Serving
      /\ client.replay = {} /\ client.queue = <<>> /\ client.batch = {} /\ client.cursor = 0
      /\ client.told = "none"
  BY DEF Inv, PlanInv, Reading, Serving
<1>3. Events' \subseteq Events /\ Items' = Items /\ Items = {}
  BY <1>1, <1>2 DEF Kept, Events, Items
<1>4. TypeInv' /\ RunInv' /\ WindowInv' /\ CheckpointInv'
  BY SubscriberFrame
<1>5. PastInv'
  BY <1>1, <1>3 DEF Inv, PastInv, Past, Kept
<1>6. KnownInv'
  <2>1. \A e : Known(e) => Known(e)'
    BY <1>2, KnownFrame DEF Kept
  <2> QED BY <1>1, <1>3, <2>1 DEF Inv, KnownInv, Kept
<1>7. ReaderInv' /\ TextInv' /\ ThinkInv' /\ EndInv'
  BY <1>2 DEF ReaderInv, TextInv, ThinkInv, EndInv, Attending, Kept, Outcomes
<1>8. OtherInv'
  <2>1. \A e : MustHold(e)' = MustHold(e)
    BY <1>1 DEF MustHold
  <2>2. \A t \in Events \cup Items : t.kind \in Terminals =>
          \A e \in store.window : e.kind = "other" => e.seq < t.seq
    BY DEF Inv, OtherInv
  <2> QED BY <1>1, <1>2, <1>3, <2>1, <2>2 DEF OtherInv, Kept
<1>9. DroppedInv'
  BY <1>1, <1>2, <1>3 DEF Inv, DroppedInv, Kept
<1> QED BY <1>4, <1>5, <1>6, <1>7, <1>8, <1>9 DEF Inv

\* The newest events are listed.
LEMMA ListStep ==
    ASSUME Inv, List
    PROVE  Inv'
<1> DEFINE list == {e \in store.window : e.seq > store.seq - MaxEvents}
<1>1. /\ client \in ClientType /\ store \in StoreType /\ client.phase = "listing"
      /\ client.plan = NoPlan /\ client.told = "none" /\ UNCHANGED <<store, run>>
      /\ store' = store /\ run' = run
  <2>1. client.phase = "listing" /\ UNCHANGED <<store, run>>
    BY DEF List
  <2>2. client.plan = NoPlan /\ client.told = "none"
    BY <2>1 DEF Inv, PlanInv, Reading
  <2> QED BY <2>1, <2>2 DEF Inv, TypeInv
<1>2. list \subseteq store.window /\ list \in SUBSET Event
  BY <1>1 DEF StoreType
<1>3. ~ run.withdrawn /\ store.owned /\ client.after > 0 => \E e \in list : e.seq >= client.after
  <2> SUFFICES ASSUME ~ run.withdrawn, store.owned, client.after > 0
               PROVE  \E e \in list : e.seq >= client.after
    OBVIOUS
  <2>1. /\ store.seq \in Nat /\ store.trimmed \in Nat /\ client.after \in Nat
        /\ client.after <= store.seq /\ ~ run.dropped
    BY <1>1, BoundAssumption DEF StoreType, ClientType, Inv, PastInv, RunInv
  <2>2. store.seq \in store.trimmed + 1 .. store.seq
    BY <2>1 DEF Inv, WindowInv
  <2>3. PICK e \in store.window : e.seq = store.seq
    BY <2>1, <2>2 DEF Inv, WindowInv
  <2> QED BY <2>1, <2>3, BoundAssumption
<1>4. \A e \in store.window : MustHold(e) => e \in list
  BY DEF MustHold
<1>5. client' = [client EXCEPT !.phase = "text", !.plan = [client.plan EXCEPT !.list = list]]
  BY DEF List
<1> HIDE DEF list
<1>6. /\ NoPlan \in PlanType /\ NoPlan.list = {} /\ NoPlan.text = <<>> /\ NoPlan.textSeq = 0
      /\ NoPlan.think = <<>> /\ NoPlan.thinkSeq = 0
  BY <1>1 DEF ClientType, NoPlan
<1>7. [NoPlan EXCEPT !.list = list] \in PlanType
  BY <1>2, <1>6 DEF PlanType
<1>8. /\ client' \in ClientType /\ client'.phase = "text" /\ Kept
      /\ client'.plan = [NoPlan EXCEPT !.list = list]
  <2>1. "text" \in Phases
    BY DEF Phases
  <2> DEFINE plan == [client.plan EXCEPT !.list = list]
  <2>2. client' = [client EXCEPT !.phase = "text", !.plan = plan] /\ plan \in PlanType
    BY <1>1, <1>5, <1>7
  <2>3. plan = [NoPlan EXCEPT !.list = list]
    BY <1>1
  <2> HIDE DEF plan
  <2> QED BY <1>1, <2>1, <2>2, <2>3 DEF ClientType, Kept
<1>9. /\ client'.plan.list = list /\ client'.plan.textSeq = 0 /\ client'.plan.thinkSeq = 0
  BY <1>6, <1>8 DEF PlanType
<1>10. PlanInv'
  <2>1. \A d, e \in list : d.seq = e.seq => d = e
    BY <1>2 DEF Inv, WindowInv
  <2>2. client'.plan = [NoPlan EXCEPT !.list = client'.plan.list]
    BY <1>8, <1>9
  <2> QED BY <1>1, <1>8, <1>9, <2>1, <2>2 DEF Inv, PlanInv, Kept, Reading, Serving
<1>11. ListInv'
  BY <1>1, <1>3, <1>8, <1>9 DEF ListInv, Kept
<1>12. TextPlanInv' /\ ThinkPlanInv'
  BY <1>8 DEF TextPlanInv, ThinkPlanInv
<1>13. client.phase \in Reading /\ store.seq >= 0
  BY <1>1 DEF Reading, StoreType
<1> QED BY <1>1, <1>2, <1>4, <1>8, <1>9, <1>10, <1>11, <1>12, <1>13, ReadingStep

\* The checkpoint of the text is read.
LEMMA ReadTextStep ==
    ASSUME Inv, ReadText
    PROVE  Inv'
<1>1. /\ client \in ClientType /\ store \in StoreType /\ run \in RunType
      /\ client.phase = "text" /\ UNCHANGED <<store, run>> /\ store' = store /\ run' = run
  BY DEF ReadText, Inv, TypeInv
<1>2. /\ client.plan = [NoPlan EXCEPT !.list = client.plan.list] /\ client.plan \in PlanType
      /\ client.plan.think = <<>> /\ client.plan.thinkSeq = 0
  <2>1. client.plan = [NoPlan EXCEPT !.list = client.plan.list]
    BY <1>1 DEF Inv, PlanInv
  <2> QED BY <1>1, <2>1 DEF ClientType, NoPlan
<1>3. /\ client' \in ClientType /\ client'.phase = "think" /\ Kept
      /\ client'.plan.list = client.plan.list /\ client'.plan.text = store.text
      /\ client'.plan.textSeq = store.textSeq /\ client'.plan.think = <<>>
      /\ client'.plan.thinkSeq = 0
  <2> DEFINE plan == [client.plan EXCEPT !.text = store.text, !.textSeq = store.textSeq]
  <2>1. /\ plan \in PlanType /\ plan.list = client.plan.list /\ plan.text = store.text
        /\ plan.textSeq = store.textSeq /\ plan.think = <<>> /\ plan.thinkSeq = 0
    BY <1>1, <1>2 DEF PlanType, StoreType
  <2>2. client' = [client EXCEPT !.phase = "think", !.plan = plan]
    BY DEF ReadText
  <2>3. "think" \in Phases
    BY DEF Phases
  <2> HIDE DEF plan
  <2> QED BY <1>1, <2>1, <2>2, <2>3 DEF ClientType, Kept
<1>4. store.textSeq <= store.seq /\ 0 <= store.seq
  BY <1>1 DEF Inv, CheckpointInv, StoreType
<1>5. client.fresh => store.textSeq = 0
  BY DEF Inv, DroppedInv
<1>6. PlanInv'
  BY <1>1, <1>3 DEF Inv, PlanInv, Kept, Reading, Serving
<1>7. ListInv'
  BY <1>1, <1>3 DEF Inv, ListInv, Kept
<1>8. TextPlanInv'
  <2> SUFFICES ASSUME store.owned, ~ run.withdrawn PROVE TextPlanInv'
    BY <1>1 DEF TextPlanInv
  <2>1. /\ store.text = run.text /\ CheckpointOf(run.text, store.textSeq) /\ Increasing(run.text)
        /\ run.text \in Content
    BY <1>1 DEF Inv, CheckpointInv, RunType
  <2>2. /\ run.text \in Seq(Nat) /\ Len(run.text) \in Nat
        /\ \A i \in 1 .. Len(run.text) : run.text[i] \in Nat
        /\ run.text # <<>> => Len(run.text) >= 1
        /\ run.text = <<>> => Len(run.text) = 0
    BY <2>1, ContentIsNat
  <2>3. \A i \in 1 .. Len(run.text) : run.text[i] <= store.textSeq
    <3>1. \A i \in 1 .. Len(run.text) : run.text[i] <= run.text[Len(run.text)]
      BY <2>1, <2>2, LastIsLargest
    <3> QED BY <2>1, <2>2, <3>1 DEF CheckpointOf
  <2>4. \A e \in client.plan.list : e.kind = "text" => e.seq <= store.textSeq
    <3> SUFFICES ASSUME NEW e \in client.plan.list, e.kind = "text" PROVE e.seq <= store.textSeq
      OBVIOUS
    <3>1. TextKnown(e)
      BY DEF Inv, KnownInv, Known, Events
    <3> QED BY <2>3, <3>1 DEF TextKnown
  <2>5. client.text # <<>> => run.text # <<>>
    BY DEF Inv, KnownInv
  <2>6. store.textSeq > 0 => \E i \in 1 .. Len(run.text) : run.text[i] = store.textSeq
    <3> SUFFICES ASSUME store.textSeq > 0
                 PROVE  \E i \in 1 .. Len(run.text) : run.text[i] = store.textSeq
      OBVIOUS
    <3>1. run.text # <<>> /\ run.text[Len(run.text)] = store.textSeq
      BY <2>1 DEF CheckpointOf
    <3>2. Len(run.text) \in 1 .. Len(run.text)
      BY <2>2, <3>1
    <3> QED BY <3>1, <3>2
  <2>7. Ahead(run.text, run.text, Beyond(store.textSeq)', {})
    <3>1. \A i \in 1 .. Len(run.text) : run.text[i] \notin Beyond(store.textSeq)'
      BY <1>1, <2>2, <2>3 DEF Beyond, StoreType
    <3> QED BY <2>2, <3>1 DEF Ahead, Begins
  <2> QED BY <1>1, <1>3, <2>1, <2>4, <2>5, <2>6, <2>7 DEF TextPlanInv, Kept, Beyond
<1>9. ThinkPlanInv'
  BY <1>3 DEF ThinkPlanInv
<1>10. ~ client.resumed => \A e \in store.window : MustHold(e) =>
               e \in client'.plan.list \/ \A d \in client'.plan.list : d.seq < e.seq
  BY <1>1, <1>3 DEF Inv, OtherInv
<1>11. client.phase \in Reading /\ client'.plan.list \subseteq store.window \cup client.plan.list
  BY <1>1, <1>3 DEF Reading
<1> QED BY <1>1, <1>3, <1>4, <1>5, <1>6, <1>7, <1>8, <1>9, <1>10, <1>11, ReadingStep

\* The checkpoint of the current round of thinking is read.
LEMMA ReadThinkStep ==
    ASSUME Inv, ReadThink
    PROVE  Inv'
<1>1. /\ client \in ClientType /\ store \in StoreType /\ run \in RunType
      /\ client.phase = "think" /\ UNCHANGED <<store, run>> /\ store' = store /\ run' = run
  BY DEF ReadThink, Inv, TypeInv
<1>2. client.plan \in PlanType
  BY <1>1 DEF ClientType
<1>3. /\ client' \in ClientType /\ client'.phase = "deciding" /\ Kept
      /\ client'.plan.list = client.plan.list /\ client'.plan.text = client.plan.text
      /\ client'.plan.textSeq = client.plan.textSeq /\ client'.plan.think = store.think
      /\ client'.plan.thinkSeq = store.thinkSeq
  <2> DEFINE plan == [client.plan EXCEPT !.think = store.think, !.thinkSeq = store.thinkSeq]
  <2>1. /\ plan \in PlanType /\ plan.list = client.plan.list /\ plan.text = client.plan.text
        /\ plan.textSeq = client.plan.textSeq /\ plan.think = store.think
        /\ plan.thinkSeq = store.thinkSeq
    BY <1>1, <1>2 DEF PlanType, StoreType
  <2>2. client' = [client EXCEPT !.phase = "deciding", !.plan = plan]
    BY DEF ReadThink
  <2>3. "deciding" \in Phases
    BY DEF Phases
  <2> HIDE DEF plan
  <2> QED BY <1>1, <2>1, <2>2, <2>3 DEF ClientType, Kept
<1>4. store.thinkSeq <= store.seq /\ client.plan.textSeq <= store.seq
  BY DEF Inv, CheckpointInv, PastInv
<1>5. client.fresh => store.thinkSeq = 0 /\ client.plan.textSeq = 0
  BY <1>1 DEF Inv, DroppedInv
<1>6. PlanInv'
  BY <1>1, <1>3 DEF Inv, PlanInv, Kept, Reading, Serving
<1>7. ListInv'
  BY <1>1, <1>3 DEF Inv, ListInv, Kept
<1>8. TextPlanInv'
  <2>1. Beyond(client.plan.textSeq)' = Beyond(client.plan.textSeq)
    BY <1>3 DEF Beyond, Kept
  <2> QED BY <1>1, <1>3, <2>1 DEF Inv, TextPlanInv, Kept
<1>9. ThinkPlanInv'
  <2> SUFFICES ASSUME store.owned, ~ run.withdrawn PROVE ThinkPlanInv'
    BY <1>1 DEF ThinkPlanInv
  <2>1. /\ store.think = run.think /\ CheckpointOf(run.think, store.thinkSeq) /\ Increasing(run.think)
        /\ run.think \in Content
    BY <1>1 DEF Inv, CheckpointInv, RunType
  <2>2. /\ run.think \in Seq(Nat) /\ Len(run.think) \in Nat
        /\ \A i \in 1 .. Len(run.think) : run.think[i] \in Nat
        /\ run.think # <<>> => Len(run.think) >= 1
        /\ run.think = <<>> => Len(run.think) = 0
    BY <2>1, ContentIsNat
  <2>3. \A i \in 1 .. Len(run.think) : run.think[i] <= store.thinkSeq
    <3>1. \A i \in 1 .. Len(run.think) : run.think[i] <= run.think[Len(run.think)]
      BY <2>1, <2>2, LastIsLargest
    <3> QED BY <2>1, <2>2, <3>1 DEF CheckpointOf
  <2>4. \A e \in client.plan.list : e.kind \in Thinking => e.seq <= store.thinkSeq
    <3> SUFFICES ASSUME NEW e \in client.plan.list, e.kind \in Thinking PROVE e.seq <= store.thinkSeq
      OBVIOUS
    <3>1. ThinkKnown(e)
      BY DEF Inv, KnownInv, Known, Events
    <3> QED BY <2>1, <3>1 DEF ThinkKnown, CheckpointOf
  <2>5. client.think # <<>> => run.think # <<>>
    BY DEF Inv, KnownInv
  <2>6. ASSUME store.thinkSeq > 0
        PROVE  /\ run.think # <<>> /\ run.think[Len(run.think)] = store.thinkSeq
               /\ Len(run.think) \in 1 .. Len(run.think)
    <3>1. run.think # <<>> /\ run.think[Len(run.think)] = store.thinkSeq
      BY <2>1, <2>6 DEF CheckpointOf
    <3> QED BY <2>2, <3>1
  <2>7. store.thinkSeq > 0 => /\ ThinkKnown([seq |-> store.thinkSeq, kind |-> "think"])'
                              /\ TextKnown([seq |-> store.thinkSeq, kind |-> "think"])'
    <3> SUFFICES ASSUME store.thinkSeq > 0
                 PROVE  /\ ThinkKnown([seq |-> store.thinkSeq, kind |-> "think"])'
                        /\ TextKnown([seq |-> store.thinkSeq, kind |-> "think"])'
      OBVIOUS
    <3> PICK e : e = [seq |-> store.thinkSeq, kind |-> "think"]
      OBVIOUS
    <3>1. e.seq = store.thinkSeq /\ e.kind = "think" /\ e = [seq |-> store'.thinkSeq, kind |-> "think"]
      BY <1>1
    <3>2. run.think[1] <= store.thinkSeq /\ run.think[1] \in Nat /\ store.thinkSeq \in Nat
      BY <2>2, <2>3, <2>6 
    <3>3. TextKnown(e)'
      <4>1. \A i \in 1 .. Len(run.text), j \in 1 .. Len(run.think) : run.text[i] # run.think[j]
        BY DEF Inv, CheckpointInv
      <4>2. \A i \in 1 .. Len(run.text) : run.text[i] # store.thinkSeq
        BY <2>6, <4>1
      <4> QED BY <1>1, <3>1, <4>2 DEF TextKnown
    <3>4. ThinkKnown(e)'
      BY <1>1, <2>6, <3>1, <3>2 DEF ThinkKnown, Thinking
    <3> QED BY <3>1, <3>3, <3>4 DEF ThinkKnown, TextKnown
  <2>8. Ahead(run.think, run.think, Beyond(store.thinkSeq)', {})
    <3>1. \A i \in 1 .. Len(run.think) : run.think[i] \notin Beyond(store.thinkSeq)'
      BY <1>1, <2>2, <2>3 DEF Beyond, StoreType
    <3> QED BY <2>2, <3>1 DEF Ahead, Begins
  <2>9. \A rounds : Follows(run.think, run.think, Beyond(store.thinkSeq)', {}, rounds)
    BY <2>8 DEF Follows
  <2>10. Beyond(client.plan.thinkSeq)' = Beyond(store.thinkSeq)'
    BY <1>1, <1>3 DEF Beyond
  <2>11. client'.plan.thinkSeq > 0 => /\ ThinkKnown([seq |-> client.plan.thinkSeq, kind |-> "think"])'
                                      /\ TextKnown([seq |-> client.plan.thinkSeq, kind |-> "think"])'
    BY <1>1, <1>3, <2>7 DEF ThinkKnown, TextKnown
  <2> QED BY <1>1, <1>3, <2>1, <2>4, <2>5, <2>9, <2>10, <2>11 DEF ThinkPlanInv, Kept
<1>10. ~ client.resumed => \A e \in store.window : MustHold(e) =>
               e \in client'.plan.list \/ \A d \in client'.plan.list : d.seq < e.seq
  BY <1>1, <1>3 DEF Inv, OtherInv
<1>11. client.phase \in Reading /\ client'.plan.list \subseteq store.window \cup client.plan.list
  BY <1>1, <1>3 DEF Reading
<1> QED BY <1>1, <1>3, <1>4, <1>5, <1>6, <1>7, <1>8, <1>9, <1>10, <1>11, ReadingStep

\* What is sent of an event.
LEMMA ToItemFields ==
    ASSUME NEW e \in Event
    PROVE  /\ ToItem(e) \in Item /\ ToItem(e).seq = e.seq /\ ToItem(e).kind = e.kind
           /\ e.kind \in Thinking \cup {"text"} => ToItem(e).content = <<e.seq>>
           /\ e.kind \notin Thinking \cup {"text"} => ToItem(e).content = <<>>
           /\ e.kind = "round" => ToItem(e).replace
           /\ e.kind # "round" => ~ ToItem(e).replace
<1> DEFINE content == IF e.kind \in Thinking \cup {"text"} THEN <<e.seq>> ELSE <<>>
           replace == e.kind = "round"
<1>1. content \in Content /\ replace \in BOOLEAN /\ e.seq \in Seqs /\ e.kind \in Kinds \cup Terminals
  BY EmptySeq DEF Event, Content
<1>2. ToItem(e) = [seq |-> e.seq, kind |-> e.kind, content |-> content, replace |-> replace]
  BY DEF ToItem
<1>3. /\ e.kind \in Thinking \cup {"text"} => content = <<e.seq>>
      /\ e.kind \notin Thinking \cup {"text"} => content = <<>>
      /\ e.kind = "round" => replace
      /\ e.kind # "round" => ~ replace
  OBVIOUS
<1> HIDE DEF content, replace
<1> QED BY <1>1, <1>2, <1>3 DEF Item

\* What is replayed: the checkpoints, and the events that no checkpoint covers.
LEMMA ReplayItems ==
    ASSUME NEW plan \in PlanType, NEW after \in Nat
    PROVE  /\ \A item \in Replay(plan, after) :
                \/ /\ plan.textSeq > 0 /\ item.seq = plan.textSeq /\ item.kind = "text"
                   /\ item.content = plan.text /\ item.replace
                \/ /\ plan.thinkSeq > 0 /\ item.seq = plan.thinkSeq /\ item.kind = "think"
                   /\ item.content = plan.think /\ item.replace
                \/ \E e \in plan.list : Uncovered(plan, e) /\ e.seq > after /\ item = ToItem(e)
           /\ plan.textSeq > 0 => \E item \in Replay(plan, after) : item.kind = "text"
           /\ plan.thinkSeq > 0 => \E item \in Replay(plan, after) : item.kind = "think"
           /\ \A e \in plan.list : Uncovered(plan, e) /\ e.seq > after => ToItem(e) \in Replay(plan, after)
           /\ Replay(plan, after) \subseteq Item
<1> DEFINE text  == [seq |-> plan.textSeq, kind |-> "text", content |-> plan.text, replace |-> TRUE]
           think == [seq |-> plan.thinkSeq, kind |-> "think", content |-> plan.think, replace |-> TRUE]
<1>1. /\ text.seq = plan.textSeq /\ text.kind = "text" /\ text.content = plan.text /\ text.replace
      /\ think.seq = plan.thinkSeq /\ think.kind = "think" /\ think.content = plan.think /\ think.replace
  OBVIOUS
<1>2. /\ plan.textSeq > 0 => text \in Item
      /\ plan.thinkSeq > 0 => think \in Item
  BY BoundAssumption DEF PlanType, Item, Seqs
<1>3. Checkpoints(plan) = {c \in {text, think} : c.seq > 0}
  BY DEF Checkpoints
<1> HIDE DEF text, think
<1>4. \A item : item \in Replay(plan, after) <=>
         \/ item = text /\ plan.textSeq > 0
         \/ item = think /\ plan.thinkSeq > 0
         \/ \E e \in plan.list : Uncovered(plan, e) /\ e.seq > after /\ item = ToItem(e)
  BY <1>1, <1>3 DEF Replay
<1>5. \A e \in plan.list : ToItem(e) \in Item
  BY ToItemFields DEF PlanType
<1> QED BY <1>1, <1>2, <1>4, <1>5

\* The subscription stands: what is replayed, and where the live reader starts.
LEMMA DecideStep ==
    ASSUME Inv, Decide
    PROVE  Inv'
<1>1. CASE ~ store.owned \/ ~ Safe(client.plan)
  BY <1>1, EndedStep DEF Decide, Refuse
<1>2. CASE store.owned /\ Safe(client.plan)
  <2> PICK p : p = client.plan
    OBVIOUS
  <2> PICK after : after = client.after
    OBVIOUS
  <2>a. PICK replay : replay = Replay(p, after)
    OBVIOUS
  <2>b. PICK plan : plan = [NoPlan EXCEPT !.textSeq = p.textSeq, !.thinkSeq = p.thinkSeq]
    OBVIOUS
  <2>c. PICK reader : reader = IF \E e \in p.list : IsTerminal(e) THEN "closed" ELSE "open"
    OBVIOUS
  <2>1. PICK start \in 0 .. MaxAppends + 1 :
           /\ EndsAt(p.list, start)
           /\ client' = [client EXCEPT !.phase = "replaying", !.replay = replay, !.plan = plan,
                                       !.cursor = start, !.reader = reader, !.lagged = FALSE]
           /\ UNCHANGED <<store, run>> /\ client.phase = "deciding"
    BY <1>2, <2>a, <2>b, <2>c DEF Decide
  <2>2. /\ store' = store /\ run' = run /\ client \in ClientType /\ store \in StoreType /\ run \in RunType
        /\ client.phase = "deciding" /\ store.owned /\ p \in PlanType /\ after \in Nat
        /\ client.told = "none" /\ client.batch = {} /\ client.queue = <<>>
        /\ store.seq \in Nat /\ store.seq <= MaxAppends
    <3>1. client.phase = "deciding" /\ store' = store /\ run' = run
      BY <2>1
    <3>2. client \in ClientType /\ store \in StoreType /\ run \in RunType
      BY DEF Inv, TypeInv
    <3>3. client.told = "none" /\ client.batch = {} /\ client.queue = <<>>
      BY <3>1 DEF Inv, PlanInv, Reading, Serving
    <3> QED BY <1>2, <3>1, <3>2, <3>3, BoundAssumption DEF ClientType, StoreType
  <2>3. /\ \A e \in p.list : e \in Event /\ e \in Events /\ e.seq \in Nat /\ e.seq >= 1
                             /\ e.seq <= store.seq
    <3>1. \A e \in p.list : e \in Event /\ e \in Events
      BY <2>2 DEF PlanType, Events
    <3>2. \A e \in Event : e.seq \in Nat /\ e.seq >= 1
      BY DEF Event, Seqs
    <3> QED BY <3>1, <3>2 DEF Inv, PastInv, Past
  <2>4. /\ start \in Nat /\ start <= store.seq /\ \A e \in p.list : e.seq <= start
        /\ p.list = {} => start = 0
        /\ p.list # {} => \E e \in p.list : e.seq = start
    BY <2>1, <2>2, <2>3 DEF EndsAt
  <2>5. /\ \A item \in replay :
                \/ /\ p.textSeq > 0 /\ item.seq = p.textSeq /\ item.kind = "text"
                   /\ item.content = p.text /\ item.replace
                \/ /\ p.thinkSeq > 0 /\ item.seq = p.thinkSeq /\ item.kind = "think"
                   /\ item.content = p.think /\ item.replace
                \/ \E e \in p.list : Uncovered(p, e) /\ e.seq > after /\ item = ToItem(e)
        /\ p.textSeq > 0 => \E item \in replay : item.kind = "text"
        /\ p.thinkSeq > 0 => \E item \in replay : item.kind = "think"
        /\ \A e \in p.list : Uncovered(p, e) /\ e.seq > after => ToItem(e) \in replay
        /\ replay \subseteq Item
    BY <2>2, <2>a, ReplayItems
  <2>6. /\ plan.list = {} /\ plan.textSeq = p.textSeq /\ plan.thinkSeq = p.thinkSeq
        /\ plan \in PlanType
    <3>1. <<>> \in Content
      BY EmptySeq DEF Content
    <3> QED BY <2>2, <2>b, <3>1, BoundAssumption DEF NoPlan, PlanType
  <2>7. /\ reader \in {"open", "closed"}
        /\ \A e \in p.list : e.kind \in Terminals => reader = "closed"
    BY <2>c DEF IsTerminal
  <2>8. /\ client' \in ClientType /\ client'.phase = "replaying" /\ client'.replay = replay
        /\ client'.plan = plan /\ client'.cursor = start /\ client'.reader = reader
        /\ ~ client'.lagged
        /\ client'.batch = {} /\ client'.queue = <<>> /\ client'.last = client.last
        /\ client'.got = client.got /\ client'.text = client.text /\ client'.think = client.think
        /\ client'.after = after /\ client'.resumed = client.resumed /\ client'.fresh = client.fresh
        /\ client'.told = "none"
    <3>1. "replaying" \in Phases
      BY DEF Phases
    <3>2. start \in 0 .. MaxAppends
      BY <2>2, <2>4, BoundAssumption
    <3>3. client' = [client EXCEPT !.phase = "replaying", !.replay = replay, !.plan = plan,
                                   !.cursor = start, !.reader = reader, !.lagged = FALSE]
      BY <2>1
    <3>4. reader \in {"none", "open", "closed"}
      BY <2>7
    <3>5. client' \in ClientType
      <4>1. client \in ClientType /\ replay \in SUBSET Item /\ plan \in PlanType
        BY <2>2, <2>5, <2>6
      <4> QED BY <3>1, <3>2, <3>3, <3>4, <4>1 DEF ClientType
    <3>6. /\ client'.phase = "replaying" /\ client'.replay = replay
          /\ client'.plan = plan /\ client'.cursor = start /\ client'.reader = reader
          /\ ~ client'.lagged
      BY <2>2, <3>3 DEF ClientType
    <3>7. /\ client'.batch = client.batch /\ client'.queue = client.queue /\ client'.last = client.last
          /\ client'.got = client.got /\ client'.text = client.text /\ client'.think = client.think
          /\ client'.after = client.after /\ client'.resumed = client.resumed
          /\ client'.fresh = client.fresh /\ client'.told = client.told
      BY <2>2, <3>3 DEF ClientType
    <3> QED BY <2>2, <3>5, <3>6, <3>7
  <2>9. /\ client'.plan.list = {} /\ client'.plan.textSeq = p.textSeq
        /\ client'.plan.thinkSeq = p.thinkSeq
    BY <2>6, <2>8
  <2>10. Events' \subseteq Events /\ Items' = replay
    BY <2>2, <2>8, <2>9 DEF Events, Items
  <2>11. TypeInv' /\ RunInv' /\ WindowInv' /\ CheckpointInv'
    BY <2>1, <2>8, SubscriberFrame
  <2>12. PastInv'
    <3>1. \A e \in p.list : Past(e)
      BY <2>3 DEF Inv, PastInv
    <3>2. p.textSeq <= store.seq /\ p.thinkSeq <= store.seq
      BY DEF Inv, PastInv
    <3>3. ASSUME NEW item \in replay PROVE Past(item)
      <4>1. CASE \E e \in p.list : item = ToItem(e)
        BY <2>3, <3>1, <4>1, ToItemFields DEF Past
      <4>2. CASE item.seq \in {p.textSeq, p.thinkSeq} /\ item.kind \in {"text", "think"}
        BY <3>2, <4>2 DEF Past, Terminals, Outcomes
      <4> QED BY <2>5, <4>1, <4>2
    <3>4. ASSUME NEW e \in Events' \cup Items' PROVE Past(e)'
      <4>1. Past(e)
        BY <2>10, <3>3 DEF Inv, PastInv
      <4> QED BY <2>2, <4>1 DEF Past
    <3> QED BY <2>2, <2>4, <2>8, <2>9, <3>2, <3>4 DEF Inv, PastInv, Terminals, Outcomes
  <2>13. after > 0 /\ ~ run.withdrawn => after <= start
    <3> SUFFICES ASSUME after > 0, ~ run.withdrawn PROVE after <= start
      OBVIOUS
    <3>1. PICK e \in p.list : e.seq >= after
      BY <2>2 DEF Inv, ListInv
    <3> QED BY <2>2, <2>3, <2>4, <3>1
  <2>14. ~ client.resumed => after = 0
    BY <2>2 DEF Inv, PlanInv, Reading
  <2>15. ASSUME ~ run.withdrawn
         PROVE  /\ CheckpointOf(p.text, p.textSeq)
                /\ \A e \in p.list : e.kind = "text" => e.seq <= p.textSeq
                /\ client.text # <<>> => p.text # <<>>
                /\ p.textSeq > 0 => \E i \in 1 .. Len(run.text) : run.text[i] = p.textSeq
                /\ Ahead(run.text, p.text, ToRead(p.textSeq)', {})
    <3>1. ToRead(p.textSeq)' = Beyond(p.textSeq)
      BY <2>2, <2>3, <2>4, <2>8, <2>13, <2>15 DEF ToRead, Beyond, Seqs
    <3> QED BY <2>2, <2>15, <3>1 DEF Inv, TextPlanInv
  <2>16. ASSUME ~ run.withdrawn
         PROVE  /\ CheckpointOf(p.think, p.thinkSeq)
                /\ \A e \in p.list : e.kind \in Thinking => e.seq <= p.thinkSeq
                /\ client.think # <<>> => p.think # <<>>
                /\ p.thinkSeq > 0 => /\ ThinkKnown([seq |-> p.thinkSeq, kind |-> "think"])
                                     /\ TextKnown([seq |-> p.thinkSeq, kind |-> "think"])
                /\ Follows(run.think, p.think, ToRead(p.thinkSeq)', {}, Rounds')
    <3>1. ToRead(p.thinkSeq)' = Beyond(p.thinkSeq)
      BY <2>2, <2>3, <2>4, <2>8, <2>13, <2>16 DEF ToRead, Beyond, Seqs
    <3>2. \A m : RoundAt(m)' = RoundAt(m)
      BY <2>2, <2>8 DEF RoundAt
    <3>3. Rounds' = {m \in Beyond(p.thinkSeq) : RoundAt(m)}
      <4>1. Rounds' = {m \in ToRead(p.thinkSeq)' : RoundAt(m)'}
        BY <2>8, <2>9 DEF Rounds, ToRead
      <4> QED BY <3>1, <3>2, <4>1
    <3>4. LET beyond == Beyond(p.thinkSeq)
          IN  Follows(run.think, p.think, beyond, {}, {n \in beyond : RoundAt(n)})
      BY <2>2, <2>16 DEF Inv, ThinkPlanInv
    <3>5. Follows(run.think, p.think, ToRead(p.thinkSeq)', {}, Rounds')
      BY <3>1, <3>3, <3>4
    <3> QED BY <2>2, <2>16, <3>5 DEF Inv, ThinkPlanInv
  <2>17. ASSUME ~ run.withdrawn, NEW item \in replay
         PROVE  /\ Known(item)'
                /\ item.kind = "text" => item.replace /\ item.content = p.text
                /\ item.kind \in Thinking => item.replace /\ item.content = p.think
    <3>1. CASE /\ p.textSeq > 0 /\ item.seq = p.textSeq /\ item.kind = "text"
               /\ item.content = p.text /\ item.replace
      <4>1. item.kind \notin Thinking /\ item.kind \notin Terminals /\ item.kind # "moderation_blocked"
        BY <3>1 DEF Thinking, Terminals, Outcomes
      <4>2. PICK i \in 1 .. Len(run.text) : run.text[i] = item.seq
        BY <2>15, <2>17, <3>1
      <4>3. \A j \in 1 .. Len(run.think) : run.think[j] # item.seq
        BY <4>2 DEF Inv, CheckpointInv
      <4>4. TextKnown(item)' /\ ThinkKnown(item)' /\ EndKnown(item)'
        BY <2>2, <3>1, <4>1, <4>2, <4>3 DEF TextKnown, ThinkKnown, EndKnown
      <4> QED BY <3>1, <4>1, <4>4 DEF Known
    <3>2. CASE /\ p.thinkSeq > 0 /\ item.seq = p.thinkSeq /\ item.kind = "think"
               /\ item.content = p.think /\ item.replace
      <4> PICK e : e = [seq |-> p.thinkSeq, kind |-> "think"]
        OBVIOUS
      <4>1. e.seq = item.seq /\ e.kind = item.kind /\ ThinkKnown(e) /\ TextKnown(e)
        BY <2>16, <2>17, <3>2
      <4>2. item.kind # "text" /\ item.kind \notin Terminals /\ item.kind # "moderation_blocked"
        BY <3>2 DEF Terminals, Outcomes
      <4>3. TextKnown(item)' /\ EndKnown(item)'
        BY <2>2, <4>1, <4>2 DEF TextKnown, EndKnown
      <4>4. ThinkKnown(item)'
        BY <2>2, <2>8, <4>1 DEF ThinkKnown, RoundAt
      <4> QED BY <3>2, <4>2, <4>3, <4>4 DEF Known
    <3>3. CASE \E e \in p.list : Uncovered(p, e) /\ e.seq > after /\ item = ToItem(e)
      <4>1. PICK e \in p.list : Uncovered(p, e) /\ e.seq > after /\ item = ToItem(e)
        BY <3>3
      <4>2. e.kind \notin Thinking /\ e.kind # "text"
        BY <2>3, <2>15, <2>16, <2>17, <2>2, <4>1, BoundAssumption DEF Uncovered, PlanType
      <4>3. item.kind = e.kind /\ item.seq = e.seq
        BY <2>3, <4>1, ToItemFields
      <4>4. Known(e)
        BY <2>3, <2>17 DEF Inv, KnownInv
      <4>5. Known(item)'
        BY <2>2, <2>8, <4>2, <4>3, <4>4 DEF Known, TextKnown, ThinkKnown, EndKnown
      <4> QED BY <4>2, <4>3, <4>5
    <3> QED BY <2>5, <3>1, <3>2, <3>3
  <2>18. KnownInv'
    <3>1. \A e : Known(e) => Known(e)'
      BY <2>1, <2>2, <2>8, KnownFrame
    <3> QED BY <2>2, <2>8, <2>10, <2>17, <3>1 DEF Inv, KnownInv
  <2>19. PlanInv' /\ ListInv' /\ TextPlanInv' /\ ThinkPlanInv' /\ EndInv'
    <3>1. PlanInv'
      BY <2>7, <2>8, <2>9 DEF PlanInv, Reading, Serving
    <3> QED BY <2>8, <3>1 DEF ListInv, TextPlanInv, ThinkPlanInv, EndInv, Outcomes
  <2>20. ReaderInv'
    <3>1. ASSUME NEW item \in replay, item.kind \notin Thinking \cup {"text"}
          PROVE  /\ item.seq <= start
                 /\ item.kind \in Terminals => reader = "closed" /\ start >= item.seq
      <4>1. PICK e \in p.list : item = ToItem(e)
        BY <2>5, <3>1 DEF Thinking
      <4> QED BY <2>3, <2>4, <2>7, <4>1, ToItemFields
    <3>2. \A kind \in Terminals : kind \notin Thinking \cup {"text"}
      BY DEF Terminals, Outcomes, Thinking
    <3>3. (~ run.withdrawn \/ ~ client.resumed) => after <= start
      BY <2>2, <2>4, <2>13, <2>14
    <3> QED BY <2>2, <2>8, <3>1, <3>2, <3>3 DEF ReaderInv
  <2>21. TextInv'
    <3> SUFFICES ASSUME ~ run.withdrawn
                 PROVE  Leads(run.text, client.text, {"text"}, client.plan.textSeq, {})'
      BY <2>2 DEF TextInv, Attending
    <3>1. Queued({"text"})' = {}
      BY <2>8 DEF Queued
    <3>2. Follows(run.text, p.text, ToRead(p.textSeq)', {}, {})
      BY <2>15 DEF Follows
    <3>3. ASSUME \A item \in replay : item.kind \notin {"text"} PROVE client.text = p.text
      <4>1. ~ (p.textSeq > 0)
        BY <2>5, <3>3
      <4>2. p.textSeq = 0
        BY <2>2, <4>1, BoundAssumption DEF PlanType
      <4> QED BY <2>15, <4>2 DEF CheckpointOf
    <3>4. ToRead(client.plan.textSeq)' = ToRead(p.textSeq)'
      BY <2>9 DEF ToRead
    <3> QED BY <2>2, <2>8, <2>17, <3>1, <3>2, <3>3, <3>4 DEF Leads
  <2>22. ThinkInv'
    <3> SUFFICES ASSUME ~ run.withdrawn
                 PROVE  Leads(run.think, client.think, Thinking, client.plan.thinkSeq, Rounds)'
      BY <2>2 DEF ThinkInv, Attending
    <3>1. Queued(Thinking)' = {}
      BY <2>8 DEF Queued
    <3>2. Follows(run.think, p.think, ToRead(p.thinkSeq)', {}, Rounds')
      BY <2>16
    <3>3. ASSUME \A item \in replay : item.kind \notin Thinking PROVE client.think = p.think
      <4>1. ~ (p.thinkSeq > 0)
        BY <2>5, <3>3 DEF Thinking
      <4>2. p.thinkSeq = 0
        BY <2>2, <4>1, BoundAssumption DEF PlanType
      <4> QED BY <2>16, <4>2 DEF CheckpointOf
    <3>4. ToRead(client.plan.thinkSeq)' = ToRead(p.thinkSeq)'
      BY <2>9 DEF ToRead
    <3> QED BY <2>2, <2>8, <2>17, <3>1, <3>2, <3>3, <3>4 DEF Leads
  <2>23. OtherInv'
    <3>1. ASSUME NEW t \in Events' \cup Items', t.kind \in Terminals,
                 NEW e \in store.window, e.kind = "other"
          PROVE  e.seq < t.seq
      <4>1. CASE t \in Events
        BY <3>1, <4>1 DEF Inv, OtherInv
      <4>2. CASE t \in replay
        <5>1. t.kind \notin {"text", "think"}
          BY <3>1 DEF Terminals, Outcomes
        <5>2. PICK d \in p.list : t = ToItem(d)
          BY <2>5, <4>2, <5>1
        <5>3. d \in Events /\ d.kind = t.kind /\ d.seq = t.seq
          BY <2>3, <5>2, ToItemFields
        <5> QED BY <3>1, <5>3 DEF Inv, OtherInv
      <4> QED BY <2>10, <4>1, <4>2
    <3>2. ASSUME ~ client.resumed, NEW e \in store.window, MustHold(e)
          PROVE  \/ \E item \in replay : item.kind = "other" /\ item.seq = e.seq
                 \/ e.seq > start
      <4>1. e.seq \in Nat /\ e.seq >= 1
        BY <2>2 DEF StoreType, Event, Seqs
      <4>2. CASE e \in p.list
        <5>1. Uncovered(p, e)
          BY <3>2 DEF MustHold, Uncovered, Thinking
        <5>2. e.seq > after
          BY <2>14, <3>2, <4>1
        <5>3. ToItem(e) \in replay /\ ToItem(e).kind = "other" /\ ToItem(e).seq = e.seq
          BY <2>3, <2>5, <3>2, <4>2, <5>1, <5>2, ToItemFields DEF MustHold
        <5> QED BY <5>3
      <4>3. CASE \A d \in p.list : d.seq < e.seq
        BY <2>4, <4>1, <4>3
      <4> QED BY <2>2, <3>2, <4>2, <4>3 DEF Inv, OtherInv
    <3>3. \A e : MustHold(e)' = MustHold(e)
      BY <2>2 DEF MustHold
    <3> QED BY <2>2, <2>8, <2>10, <3>1, <3>2, <3>3 DEF OtherInv
  <2>24. DroppedInv'
    <3>1. client.fresh => /\ p.textSeq = 0 /\ p.thinkSeq = 0
                          /\ \A item \in replay : item.content = <<>>
      <4> SUFFICES ASSUME client.fresh
                   PROVE  /\ p.textSeq = 0 /\ p.thinkSeq = 0
                          /\ \A item \in replay : item.content = <<>>
        OBVIOUS
      <4>1. /\ p.textSeq = 0 /\ p.thinkSeq = 0 /\ \A e \in p.list : Bare(e)
        BY <2>2 DEF Inv, DroppedInv
      <4>2. ASSUME NEW item \in replay PROVE item.content = <<>>
        <5>1. PICK e \in p.list : item = ToItem(e)
          BY <2>5, <4>1
        <5>2. e.kind \notin Thinking \cup {"text"}
          BY <4>1 DEF Bare, Thinking
        <5> QED BY <2>3, <5>1, <5>2, ToItemFields
      <4> QED BY <4>1, <4>2
    <3> QED BY <2>2, <2>8, <2>9, <2>10, <3>1 DEF Inv, DroppedInv
  <2> QED BY <2>11, <2>12, <2>18, <2>19, <2>20, <2>21, <2>22, <2>23, <2>24 DEF Inv
<1> QED BY <1>1, <1>2

\* More rounds may begin.
LEMMA FollowsRounds ==
    ASSUME NEW said, NEW shown, NEW ahead, NEW queued, NEW rounds, NEW rounds2,
           Follows(said, shown, ahead, queued, rounds), rounds \subseteq rounds2
    PROVE  Follows(said, shown, ahead, queued, rounds2)
  BY DEF Follows, Anew

\* The reader takes the next records, or stops.
LEMMA ReadStep ==
    ASSUME Inv, Read
    PROVE  Inv'
<1>1. /\ client.reader = "open" /\ client.batch = {} /\ store' = store /\ run' = run
      /\ UNCHANGED <<store, run>>
      /\ \/ client' = [client EXCEPT !.reader = "closed"]
         \/ /\ store.owned
            /\ \E upTo \in client.cursor + 1 .. store.seq :
                  client' = [client EXCEPT !.batch = Records(upTo),
                                           !.lagged = @ \/ store.trimmed > client.cursor]
  BY DEF Read
<1>2. /\ client \in ClientType /\ store \in StoreType /\ client.phase \in Serving
      /\ client.plan.list = {} /\ client.cursor \in Nat /\ store.seq \in Nat /\ store.trimmed \in Nat
      /\ \A e \in store.window : e.seq \in Nat
  <2>1. client \in ClientType /\ store \in StoreType
    BY DEF Inv, TypeInv
  <2>2. client.phase \in Serving /\ client.plan.list = {}
    BY <1>1 DEF Inv, PlanInv
  <2>3. \A e \in store.window : e.seq \in Nat
    BY <2>1 DEF StoreType, Event, Seqs
  <2> QED BY <2>1, <2>2, <2>3, BoundAssumption DEF ClientType, StoreType
<1>3. /\ client' \in ClientType /\ client'.batch \subseteq store.window
      /\ client'.lagged \/ ~ client.lagged
      /\ client'.reader \in {"open", "closed"} /\ (client'.reader = "closed" => client'.batch = {})
      /\ client'.batch # {} =>
            \E upTo \in client.cursor + 1 .. store.seq :
               /\ store.owned /\ client'.batch = {e \in store.window : e.seq \in client.cursor + 1 .. upTo}
               /\ client'.lagged \/ store.trimmed <= client.cursor
      /\ client'.phase = client.phase /\ client'.plan = client.plan /\ client'.cursor = client.cursor
      /\ client'.replay = client.replay /\ client'.queue = client.queue /\ client'.last = client.last
      /\ client'.got = client.got /\ client'.text = client.text /\ client'.think = client.think
      /\ client'.after = client.after /\ client'.resumed = client.resumed
      /\ client'.fresh = client.fresh /\ client'.told = client.told
  <2>1. CASE client' = [client EXCEPT !.reader = "closed"]
    <3>1. /\ client' \in ClientType /\ client'.batch = {} /\ client'.reader = "closed"
          /\ client'.lagged = client.lagged
      BY <1>1, <1>2, <2>1 DEF ClientType
    <3> QED BY <1>2, <2>1, <3>1 DEF ClientType
  <2>2. CASE /\ store.owned
             /\ \E upTo \in client.cursor + 1 .. store.seq :
                  client' = [client EXCEPT !.batch = Records(upTo),
                                           !.lagged = @ \/ store.trimmed > client.cursor]
    <3>1. PICK upTo \in client.cursor + 1 .. store.seq :
                  client' = [client EXCEPT !.batch = Records(upTo),
                                           !.lagged = @ \/ store.trimmed > client.cursor]
      BY <2>2
    <3> DEFINE batch == Records(upTo)
               lagged == client.lagged \/ store.trimmed > client.cursor
    <3>2. batch = {e \in store.window : e.seq \in client.cursor + 1 .. upTo}
      BY DEF Records
    <3>3. /\ lagged \in BOOLEAN /\ (client.lagged => lagged)
          /\ lagged \/ store.trimmed <= client.cursor
      BY <1>2
    <3>4. batch \subseteq store.window /\ batch \in SUBSET Event
      BY <1>2, <3>2 DEF StoreType
    <3>5. client' = [client EXCEPT !.batch = batch, !.lagged = lagged]
      BY <3>1
    <3> HIDE DEF batch, lagged
    <3>6. client' \in ClientType
      BY <1>2, <3>3, <3>4, <3>5 DEF ClientType
    <3>7. client'.batch = batch /\ client'.lagged = lagged /\ client'.reader = "open"
      BY <1>1, <1>2, <3>5 DEF ClientType
    <3>8. /\ client'.phase = client.phase /\ client'.plan = client.plan /\ client'.cursor = client.cursor
          /\ client'.replay = client.replay /\ client'.queue = client.queue /\ client'.last = client.last
          /\ client'.got = client.got /\ client'.text = client.text /\ client'.think = client.think
          /\ client'.after = client.after /\ client'.resumed = client.resumed
          /\ client'.fresh = client.fresh /\ client'.told = client.told
      BY <1>2, <3>5 DEF ClientType
    <3>9. /\ client'.lagged \/ ~ client.lagged
          /\ client'.lagged \/ store.trimmed <= client.cursor
      BY <3>3, <3>7
    <3> QED BY <2>2, <3>2, <3>4, <3>6, <3>7, <3>8, <3>9
  <2> QED BY <1>1, <2>1, <2>2
<1>b. client.batch = {} /\ client.reader = "open" /\ store' = store /\ run' = run
  BY <1>1
<1>a. /\ client'.batch \subseteq store.window /\ (client'.lagged \/ ~ client.lagged)
      /\ client'.phase = client.phase /\ client'.plan = client.plan /\ client'.cursor = client.cursor
      /\ client'.replay = client.replay /\ client'.queue = client.queue /\ client'.text = client.text
      /\ client'.think = client.think
      /\ client'.after = client.after /\ client'.resumed = client.resumed
  BY <1>3
<1>4. Events' \subseteq Events /\ Items' = Items
  <2>1. Items' = Items
    BY <1>a DEF Items
  <2>2. \A e \in Events' : e \in store'.window \/ e \in client'.plan.list \/ e \in client'.batch
    BY DEF Events
  <2>3. \A e : e \in store.window \/ e \in client.plan.list => e \in Events
    BY DEF Events
  <2>4. \A e \in Events' : e \in store.window \/ e \in client.plan.list
    <3>1. client'.plan.list = client.plan.list /\ store'.window = store.window
      BY <1>a, <1>b
    <3>2. \A e \in client'.batch : e \in store.window
      BY <1>a
    <3> QED BY <2>2, <3>1, <3>2, Zenon
  <2> QED BY <2>1, <2>3, <2>4
<1>5. TypeInv' /\ RunInv' /\ WindowInv' /\ CheckpointInv'
  BY <1>1, <1>3, SubscriberFrame
<1>6. PastInv'
  BY <1>1, <1>3, <1>4 DEF Inv, PastInv, Past
<1>7. KnownInv'
  <2>1. \A e : Known(e) => Known(e)'
    BY <1>1, <1>3, KnownFrame
  <2> QED BY <1>1, <1>3, <1>4, <2>1 DEF Inv, KnownInv
<1>8. PlanInv' /\ ListInv' /\ TextPlanInv' /\ ThinkPlanInv'
  <2>1. PlanInv'
    BY <1>2, <1>3 DEF Inv, PlanInv
  <2> QED BY <1>2, <1>3, <2>1 DEF ListInv, TextPlanInv, ThinkPlanInv, Serving
<1>9. ReaderInv'
  <2>1. /\ \A d, e \in client'.batch : d.seq = e.seq => d = e
        /\ \A e \in client'.batch : e.seq > client.cursor
        /\ client'.batch # {} => client'.reader = "open"
    <3>1. \A e \in client'.batch : e.seq > client.cursor
      BY <1>2, <1>3
    <3> QED BY <1>3, <3>1 DEF Inv, WindowInv
  <2>2. ASSUME NEW b \in client'.batch, NEW e \in store.window, e.seq \in client.cursor + 1 .. b.seq
        PROVE  e \in client'.batch
    <3>1. PICK upTo \in client.cursor + 1 .. store.seq :
             client'.batch = {d \in store.window : d.seq \in client.cursor + 1 .. upTo}
      BY <1>3
    <3>2. e.seq \in client.cursor + 1 .. upTo
      BY <1>2, <2>2, <3>1
    <3> QED BY <3>1, <3>2
  <2>3. ASSUME ~ client'.lagged, ~ run.withdrawn, NEW b \in client'.batch,
               NEW m \in client.cursor + 1 .. b.seq
        PROVE  \E d \in client'.batch : d.seq = m
    <3>1. b \in store.window /\ store.owned /\ store.trimmed <= client.cursor
      BY <1>3, <2>3
    <3>2. b.seq <= store.seq /\ ~ run.dropped /\ b.seq \in Nat
      BY <1>2, <2>3, <3>1 DEF Inv, WindowInv, RunInv
    <3>3. m \in store.trimmed + 1 .. store.seq
      BY <1>2, <3>1, <3>2
    <3>4. PICK d \in store.window : d.seq = m
      BY <3>1, <3>2, <3>3 DEF Inv, WindowInv
    <3> QED BY <2>2, <3>4
  <2>4. \A item \in client.replay : item.kind \notin Terminals
    BY <1>1, <1>2 DEF Inv, ReaderInv
  <2>5. /\ \A i \in 1 .. Len(client.queue) : client.queue[i].seq <= client.cursor
        /\ \A i, j \in 1 .. Len(client.queue) : i < j => client.queue[i].seq < client.queue[j].seq
        /\ \A i \in 1 .. Len(client.queue) : \E e \in Event : client.queue[i] = ToItem(e)
        /\ ~ run.withdrawn => client.after <= client.cursor
        /\ ~ client.resumed => client.after <= client.cursor
        /\ \A item \in client.replay : item.kind \notin Thinking \cup {"text"} =>
              item.seq <= client.cursor
    BY <1>2 DEF Inv, ReaderInv
  <2> QED BY <1>a, <1>b, <2>1, <2>2, <2>3, <2>4, <2>5 DEF ReaderInv
<1>10. TextInv'
  <2> SUFFICES ASSUME Attending
               PROVE  Leads(run.text, client.text, {"text"}, client.plan.textSeq, {})'
    BY <1>1, <1>a DEF TextInv, Attending
  <2>1. Leads(run.text, client.text, {"text"}, client.plan.textSeq, {})
    BY DEF Inv, TextInv
  <2>2. /\ ToRead(client.plan.textSeq)' = ToRead(client.plan.textSeq)
        /\ Queued({"text"})' = Queued({"text"})
    BY <1>a DEF ToRead, Queued
  <2> QED BY <1>1, <1>a, <2>1, <2>2 DEF Leads
<1>11. ThinkInv'
  <2> SUFFICES ASSUME Attending
               PROVE  Leads(run.think, client.think, Thinking, client.plan.thinkSeq, Rounds)'
    BY <1>1, <1>a DEF ThinkInv, Attending
  <2>1. Leads(run.think, client.think, Thinking, client.plan.thinkSeq, Rounds)
    BY DEF Inv, ThinkInv
  <2>2. \A m : RoundAt(m) => RoundAt(m)'
    BY <1>1, <1>3 DEF RoundAt, RoundIn
  <2>3. Rounds \subseteq Rounds'
    BY <1>a, <2>2 DEF Rounds, ToRead
  <2>4. Leads(run.think, client.think, Thinking, client.plan.thinkSeq, Rounds')
    BY <2>1, <2>3, FollowsRounds DEF Leads
  <2>5. /\ ToRead(client.plan.thinkSeq)' = ToRead(client.plan.thinkSeq)
        /\ Queued(Thinking)' = Queued(Thinking)
    BY <1>a DEF ToRead, Queued
  <2> QED BY <1>1, <1>a, <2>4, <2>5 DEF Leads
<1>12. EndInv'
  BY <1>1, <1>3 DEF Inv, EndInv
<1>13. OtherInv'
  BY <1>1, <1>3, <1>4 DEF Inv, OtherInv, MustHold
<1>14. DroppedInv'
  BY <1>1, <1>2, <1>3, <1>4 DEF Inv, DroppedInv
<1> QED BY <1>5, <1>6, <1>7, <1>8, <1>9, <1>10, <1>11, <1>12, <1>13, <1>14 DEF Inv

\* An item at the end of the channel.
LEMMA AppendingItem ==
    ASSUME NEW q \in Seq(Item), NEW x \in Item
    PROVE  /\ Append(q, x) \in Seq(Item)
           /\ Len(Append(q, x)) = Len(q) + 1 /\ Len(q) \in Nat
           /\ \A i \in 1 .. Len(q) : Append(q, x)[i] = q[i]
           /\ Append(q, x)[Len(q) + 1] = x
  OBVIOUS

\* What a record in hand leaves as it is when the reader has done with it.
Moved(e) ==
    /\ client'.cursor = e.seq
    /\ client'.phase = client.phase /\ client'.plan = client.plan /\ client'.replay = client.replay
    /\ client'.last = client.last /\ client'.got = client.got /\ client'.text = client.text
    /\ client'.think = client.think /\ client'.lagged = client.lagged
    /\ client'.resumed = client.resumed /\ client'.fresh = client.fresh /\ client'.told = client.told

\* The first record in hand goes into the channel, or is covered already.
LEMMA HandOnFields ==
    ASSUME Inv, HandOn
    PROVE  \E e \in client.batch :
              /\ \A d \in client.batch : e.seq <= d.seq
              /\ client' \in ClientType /\ Moved(e)
              /\ client'.reader \in {"open", "closed"}
              /\ client'.batch # {} => client'.batch = client.batch \ {e} /\ client'.reader = "open"
              /\ client'.batch \subseteq client.batch
              /\ IF e.seq > client.after /\ Uncovered(client.plan, e)
                 THEN client'.queue = Append(client.queue, ToItem(e)) /\ client'.after = e.seq
                 ELSE client'.queue = client.queue /\ client'.after = client.after
<1>1. client \in ClientType /\ client.batch \in SUBSET Event /\ client.reader = "open"
  BY DEF HandOn, Inv, TypeInv, ClientType
<1>2. PICK e \in client.batch :
         /\ \A d \in client.batch : e.seq <= d.seq
         /\ LET taken == [client EXCEPT !.batch = @ \ {e}, !.cursor = e.seq]
            IN  IF e.seq > client.after /\ Uncovered(client.plan, e)
                THEN client' = [taken EXCEPT !.queue = Append(@, ToItem(e)),
                                             !.after = e.seq,
                                             !.reader = IF IsTerminal(e) THEN "closed" ELSE @,
                                             !.batch = IF IsTerminal(e) THEN {} ELSE @]
                ELSE client' = taken
  BY DEF HandOn
<1>3. e \in Event /\ e.seq \in 0 .. MaxAppends
  BY <1>1, BoundAssumption DEF Event, Seqs
<1> PICK m : m = e.seq
  OBVIOUS
<1>4. CASE ~ (e.seq > client.after /\ Uncovered(client.plan, e))
  <2> PICK batch : batch = client.batch \ {e}
    OBVIOUS
  <2>1. client' = [client EXCEPT !.batch = batch, !.cursor = m]
    BY <1>2, <1>4
  <2>2. batch \in SUBSET Event /\ m \in 0 .. MaxAppends
    BY <1>1, <1>3
  <2>3. client' \in ClientType /\ Moved(e)
    BY <1>1, <2>1, <2>2 DEF ClientType, Moved
  <2>4. /\ client'.batch = batch /\ client'.reader = client.reader /\ client'.queue = client.queue
        /\ client'.after = client.after
    BY <1>1, <2>1 DEF ClientType
  <2> QED BY <1>1, <1>2, <1>4, <2>3, <2>4
<1>5. CASE e.seq > client.after /\ Uncovered(client.plan, e)
  <2> PICK batch : batch = IF IsTerminal(e) THEN {} ELSE client.batch \ {e}
    OBVIOUS
  <2> PICK reader : reader = IF IsTerminal(e) THEN "closed" ELSE "open"
    OBVIOUS
  <2>a. PICK queue : queue = Append(client.queue, ToItem(e))
    OBVIOUS
  <2>1. client' = [client EXCEPT !.batch = batch, !.cursor = m, !.queue = queue, !.after = m,
                                 !.reader = reader]
    <3> PICK taken : taken = [client EXCEPT !.batch = client.batch \ {e}, !.cursor = m]
      OBVIOUS
    <3>1. client' = [taken EXCEPT !.queue = Append(taken.queue, ToItem(e)), !.after = m,
                                  !.reader = IF IsTerminal(e) THEN "closed" ELSE taken.reader,
                                  !.batch = IF IsTerminal(e) THEN {} ELSE taken.batch]
      BY <1>2, <1>5
    <3>2. taken.queue = client.queue /\ taken.reader = "open" /\ taken.batch = client.batch \ {e}
      BY <1>1 DEF ClientType
    <3>3. client' = [taken EXCEPT !.queue = queue, !.after = m, !.reader = reader, !.batch = batch]
      BY <2>a, <3>1, <3>2
    <3> QED BY <1>1, <3>3 DEF ClientType
  <2>2. /\ batch \in SUBSET Event /\ m \in 0 .. MaxAppends /\ reader \in {"open", "closed"}
        /\ batch # {} => batch = client.batch \ {e} /\ reader = "open"
        /\ batch \subseteq client.batch
    BY <1>1, <1>3
  <2>3. queue \in Seq(Item)
    <3>1. ToItem(e) \in Item
      BY <1>3, ToItemFields
    <3>2. client.queue \in Seq(Item)
      BY <1>1 DEF ClientType
    <3>3. Append(client.queue, ToItem(e)) \in Seq(Item)
      BY <3>1, <3>2, AppendingItem, Zenon
    <3> QED BY <2>a, <3>3
  <2>4. client' \in ClientType /\ Moved(e)
    <3>1. reader \in {"none", "open", "closed"}
      BY <2>2
    <3> QED BY ZenonT(30), <1>1, <2>1, <2>2, <2>3, <3>1 DEF ClientType, Moved
  <2>5. /\ client'.batch = batch /\ client'.reader = reader /\ client'.queue = queue
        /\ client'.after = m
    BY <1>1, <2>1 DEF ClientType
  <2> QED BY <1>2, <1>5, <2>a, <2>2, <2>4, <2>5
<1> QED BY <1>4, <1>5

\* A record in hand is handed on, or left out.
LEMMA HandOnStep ==
    ASSUME Inv, HandOn
    PROVE  Inv'
<1>a. PICK e \in client.batch :
         /\ \A d \in client.batch : e.seq <= d.seq
         /\ client' \in ClientType /\ Moved(e)
         /\ client'.reader \in {"open", "closed"}
         /\ client'.batch # {} => client'.batch = client.batch \ {e} /\ client'.reader = "open"
         /\ client'.batch \subseteq client.batch
         /\ IF e.seq > client.after /\ Uncovered(client.plan, e)
            THEN client'.queue = Append(client.queue, ToItem(e)) /\ client'.after = e.seq
            ELSE client'.queue = client.queue /\ client'.after = client.after
  BY HandOnFields
<1> PICK m : m = e.seq
  OBVIOUS
<1>b. PICK x : x = ToItem(e)
  OBVIOUS
<1>c. PICK handed \in BOOLEAN : handed <=> (m > client.after /\ Uncovered(client.plan, e))
  OBVIOUS
<1>1. store' = store /\ run' = run /\ UNCHANGED <<store, run>>
  BY DEF HandOn
<1>2. /\ client \in ClientType /\ store \in StoreType /\ run \in RunType /\ client.queue \in Seq(Item)
      /\ client.plan \in PlanType /\ client.cursor \in Nat /\ client.after \in Nat
      /\ client.plan.textSeq \in Nat /\ client.plan.thinkSeq \in Nat
      /\ store.seq \in Nat /\ \A d \in client.batch : d \in Event
  <2>1. client \in ClientType /\ store \in StoreType /\ run \in RunType
    BY DEF Inv, TypeInv
  <2> QED BY SMTT(30), <2>1, BoundAssumption DEF ClientType, StoreType, PlanType
<1>3. e \in Event /\ m \in Nat /\ m \in Seqs /\ m \in 0 .. MaxAppends
      /\ \A d \in client.batch : d.seq \in Nat /\ m <= d.seq
  <2>1. e \in Event /\ \A d \in client.batch : m <= d.seq
    BY <1>a, <1>2
  <2> QED BY <1>2, <2>1, BoundAssumption DEF Event, Seqs
<1>4. client.reader = "open" /\ client.phase \in Serving /\ client.plan.list = {}
  BY DEF HandOn, Inv, PlanInv
<1>5. /\ m > client.cursor
      /\ \A d \in client.batch : d.seq = m => d = e
      /\ \A i \in 1 .. Len(client.queue) : client.queue[i].seq <= client.cursor
      /\ \A i, j \in 1 .. Len(client.queue) : i < j => client.queue[i].seq < client.queue[j].seq
      /\ \A i \in 1 .. Len(client.queue) : \E d \in Event : client.queue[i] = ToItem(d)
      /\ ~ run.withdrawn \/ ~ client.resumed => client.after <= client.cursor
      /\ \A item \in client.replay : item.kind \notin Terminals
      /\ \A item \in client.replay : item.kind \notin Thinking \cup {"text"} =>
              item.seq <= client.cursor
  BY <1>4 DEF Inv, ReaderInv
<1>6. ~ client.lagged =>
         \A b \in client.batch, r \in store.window :
              r.seq \in client.cursor + 1 .. b.seq => r \in client.batch
  BY <1>4 DEF Inv, ReaderInv
<1>7. ~ client.lagged /\ ~ run.withdrawn =>
         \A b \in client.batch :
              \A n \in client.cursor + 1 .. b.seq : \E d \in client.batch : d.seq = n
  BY <1>4 DEF Inv, ReaderInv
<1>8. e \in Events /\ Past(e) /\ m <= store.seq
  <2>1. e \in Events
    BY DEF Events
  <2> QED BY <2>1 DEF Inv, PastInv, Past
<1>9. /\ x \in Item /\ x.seq = m /\ x.kind = e.kind
      /\ e.kind \notin Thinking \cup {"text"} => x.content = <<>>
  BY <1>b, <1>3, ToItemFields
<1>10. /\ client' \in ClientType /\ client'.cursor = m
       /\ client'.phase = client.phase /\ client'.plan = client.plan /\ client'.replay = client.replay
       /\ client'.last = client.last /\ client'.got = client.got /\ client'.text = client.text
       /\ client'.think = client.think /\ client'.lagged = client.lagged
       /\ client'.resumed = client.resumed /\ client'.fresh = client.fresh
       /\ client'.told = client.told
  BY <1>a DEF Moved
<1>11. /\ client'.reader \in {"open", "closed"} /\ client'.batch \subseteq client.batch
       /\ client'.batch # {} => client'.batch = client.batch \ {e} /\ client'.reader = "open"
       /\ client'.after \in {client.after, m} /\ client'.after \in Nat
       /\ handed => client'.after = m
       /\ ~ handed => client'.after = client.after
  BY <1>a, <1>c, <1>2, <1>3
<1>12. /\ Len(client.queue) \in Nat
       /\ handed => /\ Len(client'.queue) = Len(client.queue) + 1
                    /\ \A i \in 1 .. Len(client.queue) : client'.queue[i] = client.queue[i]
                    /\ client'.queue[Len(client.queue) + 1] = x
       /\ ~ handed => client'.queue = client.queue
  <2>1. CASE handed
    <3>1. client'.queue = Append(client.queue, x)
      BY <1>a, <1>b, <1>c, <2>1
    <3>2. /\ Len(Append(client.queue, x)) = Len(client.queue) + 1 /\ Len(client.queue) \in Nat
          /\ \A i \in 1 .. Len(client.queue) : Append(client.queue, x)[i] = client.queue[i]
          /\ Append(client.queue, x)[Len(client.queue) + 1] = x
      BY <1>2, <1>9, AppendingItem, Zenon
    <3> QED BY <2>1, <3>1, <3>2, Zenon
  <2>2. CASE ~ handed
    <3>1. Len(client.queue) \in Nat
      BY <1>2
    <3> QED BY <1>a, <1>c, <2>2, <3>1
  <2> QED BY <2>1, <2>2
<1>13. /\ \A i \in 1 .. Len(client.queue) :
             i \in 1 .. Len(client'.queue) /\ client'.queue[i] = client.queue[i]
       /\ \A i \in 1 .. Len(client'.queue) :
             \/ i \in 1 .. Len(client.queue) /\ client'.queue[i] = client.queue[i]
             \/ handed /\ i = Len(client.queue) + 1 /\ client'.queue[i] = x
       /\ handed => Len(client.queue) + 1 \in 1 .. Len(client'.queue)
                    /\ client'.queue[Len(client.queue) + 1] = x
  <2>1. CASE handed
    <3>1. \A i \in 1 .. Len(client'.queue) : i \in 1 .. Len(client.queue) \/ i = Len(client.queue) + 1
      BY <1>12, <2>1
    <3>2. \A i \in 1 .. Len(client.queue) : i \in 1 .. Len(client'.queue)
      BY <1>12, <2>1
    <3>3. Len(client.queue) + 1 \in 1 .. Len(client'.queue)
      BY <1>12, <2>1
    <3> QED BY <1>12, <2>1, <3>1, <3>2, <3>3
  <2>2. CASE ~ handed
    BY <1>12, <2>2
  <2> QED BY <2>1, <2>2
<1>14. /\ \A item \in Items : item \in Items'
       /\ \A item \in Items' : item \in Items \/ (handed /\ item = x)
       /\ handed => x \in Items'
  BY <1>10, <1>13 DEF Items
<1>15. \A d \in Events' : d \in Events
  <2>1. /\ \A d \in Events' : d \in store'.window \/ d \in client'.plan.list \/ d \in client'.batch
        /\ \A d : d \in store.window \/ d \in client.plan.list \/ d \in client.batch => d \in Events
    BY DEF Events
  <2>2. /\ store'.window = store.window /\ client'.plan.list = client.plan.list
        /\ \A d \in client'.batch : d \in client.batch
    BY <1>1, <1>10, <1>11
  <2> QED BY <2>1, <2>2
<1>16. \A d \in client'.batch : d \in client.batch /\ d.seq > m
  <2> SUFFICES ASSUME NEW d \in client'.batch PROVE d \in client.batch /\ d.seq > m
    OBVIOUS
  <2>1. d \in client.batch /\ d # e
    BY <1>11
  <2>2. d.seq # m /\ d.seq \in Nat /\ m <= d.seq
    BY <1>3, <1>5, <2>1
  <2> QED BY <1>3, <2>1, <2>2
<1>17. TypeInv' /\ RunInv' /\ WindowInv' /\ CheckpointInv'
  BY <1>1, <1>10, SubscriberFrame
<1>18. PastInv'
  <2>1. Past(x)
    BY <1>8, <1>9 DEF Past
  <2>2. \A d \in Events' \cup Items' : Past(d)'
    BY <1>1, <1>14, <1>15, <2>1 DEF Inv, PastInv, Past
  <2> QED BY <1>1, <1>8, <1>10, <1>11, <2>2 DEF Inv, PastInv
<1>19. KnownInv'
  <2>1. \A d : Known(d) => Known(d)'
    <3>1. client'.batch \subseteq store.window \cup client.batch
      BY <1>11
    <3> QED BY <1>1, <3>1, KnownFrame
  <2>2. Known(e) => Known(x)
    BY <1>9 DEF Known, TextKnown, ThinkKnown, EndKnown
  <2> QED BY <1>1, <1>8, <1>10, <1>14, <1>15, <2>1, <2>2 DEF Inv, KnownInv
<1>20. PlanInv' /\ ListInv' /\ TextPlanInv' /\ ThinkPlanInv'
  <2>1. PlanInv'
    BY <1>4, <1>10, <1>11 DEF Inv, PlanInv, Serving, Reading
  <2> QED BY <1>4, <1>10, <2>1 DEF ListInv, TextPlanInv, ThinkPlanInv, Serving
<1>21. EndInv'
  BY <1>1, <1>10 DEF Inv, EndInv
<1>22. DroppedInv'
  <2>1. client.fresh => e.kind \notin Thinking \cup {"text"}
    BY <1>4 DEF Inv, DroppedInv, Bare, Serving, Thinking
  <2>2. client.fresh => \A item \in Items' : item.content = <<>>
    BY <1>4, <1>9, <1>14, <2>1 DEF Inv, DroppedInv, Serving
  <2>3. \A d \in client'.batch : d \in client.batch
    BY <1>11
  <2> QED BY <1>1, <1>4, <1>10, <2>2, <2>3 DEF Inv, DroppedInv, Serving
<1>24. \A i \in 1 .. Len(client.queue) : client.queue[i].seq \in Nat
  <2>1. \A i \in 1 .. Len(client.queue) : client.queue[i] \in Item
    BY <1>2, ElementOfSeq
  <2>2. \A y \in Item : y.seq \in Nat
    BY DEF Item, Seqs
  <2> QED BY <2>1, <2>2
<1>23. ReaderInv'
  <2>1. /\ client'.batch # {} => client'.reader = "open"
        /\ \A d, c \in client'.batch : d.seq = c.seq => d = c
        /\ \A d \in client'.batch : d.seq > m
    BY <1>4, <1>11, <1>16 DEF Inv, ReaderInv
  <2>2. \A i \in 1 .. Len(client'.queue) :
           client'.queue[i].seq <= m /\ \E d \in Event : client'.queue[i] = ToItem(d)
    <3> SUFFICES ASSUME NEW i \in 1 .. Len(client'.queue)
                 PROVE  client'.queue[i].seq <= m /\ \E d \in Event : client'.queue[i] = ToItem(d)
      OBVIOUS
    <3>1. CASE i \in 1 .. Len(client.queue) /\ client'.queue[i] = client.queue[i]
      <4>1. client.queue[i].seq <= client.cursor /\ client.queue[i].seq \in Nat
        BY <1>5, <1>24, <3>1
      <4> QED BY <1>2, <1>3, <1>5, <3>1, <4>1
    <3>2. CASE client'.queue[i] = x
      BY <1>b, <1>3, <1>9, <3>2
    <3> QED BY <1>13, <3>1, <3>2
  <2>3. ASSUME NEW i \in 1 .. Len(client'.queue), NEW j \in 1 .. Len(client'.queue), i < j
        PROVE  client'.queue[i].seq < client'.queue[j].seq
    <3>1. i \in 1 .. Len(client.queue) /\ client'.queue[i] = client.queue[i]
      BY <1>12, <1>13, <2>3
    <3>2. client.queue[i].seq <= client.cursor /\ client.queue[i].seq \in Nat
      BY <1>5, <1>24, <3>1
    <3>3. CASE j \in 1 .. Len(client.queue) /\ client'.queue[j] = client.queue[j]
      BY <1>5, <2>3, <3>1, <3>3
    <3>4. CASE client'.queue[j] = x
      BY <1>2, <1>3, <1>5, <1>9, <3>1, <3>2, <3>4
    <3> QED BY <1>13, <3>3, <3>4
  <2>4. ASSUME ~ client.lagged, NEW b \in client'.batch, NEW r \in store.window,
               r.seq \in m + 1 .. b.seq
        PROVE  r \in client'.batch
    <3>1. b \in client.batch /\ b.seq \in Nat /\ client'.batch = client.batch \ {e}
      BY <1>3, <1>11, <1>16
    <3>2. r.seq \in client.cursor + 1 .. b.seq /\ r # e
      BY <1>2, <1>3, <1>5, <2>4, <3>1
    <3>3. r \in client.batch
      BY <1>6, <2>4, <3>1, <3>2
    <3> QED BY <3>1, <3>2, <3>3
  <2>5. ASSUME ~ client.lagged, ~ run.withdrawn, NEW b \in client'.batch, NEW n \in m + 1 .. b.seq
        PROVE  \E d \in client'.batch : d.seq = n
    <3>1. b \in client.batch /\ b.seq \in Nat /\ client'.batch = client.batch \ {e}
      BY <1>3, <1>11, <1>16
    <3>2. n \in client.cursor + 1 .. b.seq /\ n # m
      BY <1>2, <1>3, <1>5, <2>5, <3>1
    <3>3. PICK d \in client.batch : d.seq = n
      BY <1>7, <2>5, <3>1, <3>2
    <3>4. d # e
      BY <3>2, <3>3
    <3> QED BY <3>1, <3>3, <3>4
  <2>6. ~ run.withdrawn \/ ~ client.resumed => client'.after <= m
    BY <1>2, <1>3, <1>5, <1>11
  <2>7. \A item \in client.replay : item.kind \notin Thinking \cup {"text"} => item.seq <= m
    <3>1. \A item \in client.replay : item.seq \in Nat
      BY <1>2 DEF ClientType, Item, Seqs
    <3> QED BY <1>2, <1>3, <1>5, <3>1
  <2> QED BY <1>1, <1>5, <1>10, <2>1, <2>2, <2>3, <2>4, <2>5, <2>6, <2>7 DEF ReaderInv
<1>25. OtherInv'
  <2>1. ASSUME NEW t \in Events' \cup Items', t.kind \in Terminals,
               NEW r \in store.window, r.kind = "other"
        PROVE  r.seq < t.seq
    <3>1. CASE t \in Events \cup Items
      BY <2>1, <3>1 DEF Inv, OtherInv
    <3>2. CASE t = x
      BY <1>8, <1>9, <2>1, <3>2 DEF Inv, OtherInv
    <3> QED BY <1>14, <1>15, <3>1, <3>2
  <2>2. ASSUME ~ client.resumed, ~ client.lagged, NEW r \in store.window, MustHold(r)
        PROVE  \/ r.seq \in client.got
               \/ \E item \in Items' : item.kind = "other" /\ item.seq = r.seq
               \/ r.seq > m
    <3>1. CASE r.seq \in client.got
      BY <3>1
    <3>2. CASE \E item \in Items : item.kind = "other" /\ item.seq = r.seq
      BY <1>14, <3>2
    <3>3. CASE r.seq > client.cursor
      <4> SUFFICES ASSUME ~ (r.seq > m)
                   PROVE  \E item \in Items' : item.kind = "other" /\ item.seq = r.seq
        OBVIOUS
      <4>1. r.seq \in Nat
        BY <1>2 DEF StoreType, Event, Seqs
      <4>2. r.seq \in client.cursor + 1 .. m
        BY <1>2, <1>3, <3>3, <4>1
      <4>3. r \in client.batch
        BY <1>6, <2>2, <4>2
      <4>4. r = e
        BY <1>3, <1>5, <4>1, <4>3
      <4>5. e.kind = "other" /\ Uncovered(client.plan, e)
        BY <2>2, <4>4 DEF MustHold, Uncovered, Thinking
      <4>6. m > client.after
        BY <1>2, <1>3, <1>5, <2>2
      <4> QED BY <1>c, <1>9, <1>14, <4>4, <4>5, <4>6
    <3> QED BY <1>4, <2>2, <3>1, <3>2, <3>3 DEF Inv, OtherInv
  <2>3. \A r : MustHold(r)' = MustHold(r)
    BY <1>1 DEF MustHold
  <2>4. client'.phase \notin {"text", "think", "deciding"}
    BY <1>4, <1>10 DEF Serving
  <2> QED BY <1>1, <1>10, <2>1, <2>2, <2>3, <2>4 DEF OtherInv
<1>26. ~ client.lagged /\ ~ run.withdrawn => m = client.cursor + 1
  <2> SUFFICES ASSUME ~ client.lagged, ~ run.withdrawn, m # client.cursor + 1
               PROVE  FALSE
    OBVIOUS
  <2>1. client.cursor + 1 \in client.cursor + 1 .. m /\ client.cursor + 1 < m
    BY <1>2, <1>3, <1>5
  <2>2. PICK d \in client.batch : d.seq = client.cursor + 1
    BY <1>7, <2>1
  <2> QED BY <1>2, <1>3, <2>1, <2>2
<1>27. ~ client.lagged /\ ~ run.withdrawn =>
         \A seq \in Nat : ToRead(seq)' = ToRead(seq) \ {m}
  BY <1>2, <1>3, <1>10, <1>26 DEF ToRead, Seqs
<1>28. ~ run.withdrawn /\ ~ handed =>
         /\ e.kind = "text" => m <= client.plan.textSeq
         /\ e.kind \in Thinking => m <= client.plan.thinkSeq
  <2> SUFFICES ASSUME ~ run.withdrawn, ~ handed
               PROVE  /\ e.kind = "text" => m <= client.plan.textSeq
                      /\ e.kind \in Thinking => m <= client.plan.thinkSeq
    OBVIOUS
  <2>1. m > client.after
    BY <1>2, <1>3, <1>5
  <2>2. ~ Uncovered(client.plan, e)
    BY <1>c, <2>1
  <2>3. e.kind = "text" => e.kind \notin Thinking
    BY DEF Thinking
  <2> QED BY <1>2, <1>3, <2>2, <2>3 DEF Uncovered
<1>29. \A kinds :
         /\ handed /\ e.kind \in kinds => Queued(kinds)' = Queued(kinds) \cup {m}
         /\ ~ handed \/ e.kind \notin kinds => Queued(kinds)' = Queued(kinds)
  <2> SUFFICES ASSUME NEW kinds
               PROVE  /\ handed /\ e.kind \in kinds => Queued(kinds)' = Queued(kinds) \cup {m}
                      /\ ~ handed \/ e.kind \notin kinds => Queued(kinds)' = Queued(kinds)
    OBVIOUS
  <2>1. ASSUME NEW n
        PROVE  n \in Queued(kinds)' <=>
                  n \in Queued(kinds) \/ (handed /\ e.kind \in kinds /\ n = m)
    <3>1. ASSUME n \in Queued(kinds)'
          PROVE  n \in Queued(kinds) \/ (handed /\ e.kind \in kinds /\ n = m)
      <4>1. PICK i \in 1 .. Len(client'.queue) : client'.queue[i].kind \in kinds /\ client'.queue[i].seq = n
        BY <3>1 DEF Queued
      <4> QED BY <1>9, <1>13, <4>1 DEF Queued
    <3>2. ASSUME n \in Queued(kinds) PROVE n \in Queued(kinds)'
      <4>1. PICK i \in 1 .. Len(client.queue) : client.queue[i].kind \in kinds /\ client.queue[i].seq = n
        BY <3>2 DEF Queued
      <4> QED BY <1>13, <4>1 DEF Queued
    <3>3. ASSUME handed, e.kind \in kinds PROVE m \in Queued(kinds)'
      BY <1>9, <1>13, <3>3 DEF Queued
    <3> QED BY <3>1, <3>2, <3>3
  <2> QED BY <2>1
<1>30. /\ run.text \in Seq(Nat) /\ Increasing(run.text) /\ Len(run.text) \in Nat
       /\ \A i \in 1 .. Len(run.text) : run.text[i] \in Seqs /\ run.text[i] \in Nat
       /\ run.think \in Seq(Nat) /\ Increasing(run.think) /\ Len(run.think) \in Nat
       /\ \A i \in 1 .. Len(run.think) : run.think[i] \in Seqs /\ run.think[i] \in Nat
       /\ run.think # <<>> => 1 \in 1 .. Len(run.think)
  <2>1. run.text \in Content /\ run.think \in Content
    BY <1>2 DEF RunType
  <2>2. /\ run.text \in Seq(Nat) /\ Len(run.text) \in Nat
        /\ \A i \in 1 .. Len(run.text) : run.text[i] \in Seqs /\ run.text[i] \in Nat
    BY <2>1, ContentIsNat
  <2>3. /\ run.think \in Seq(Nat) /\ Len(run.think) \in Nat
        /\ \A i \in 1 .. Len(run.think) : run.think[i] \in Seqs /\ run.think[i] \in Nat
        /\ run.think # <<>> => Len(run.think) >= 1
    BY <2>1, ContentIsNat
  <2>4. run.think # <<>> => 1 \in 1 .. Len(run.think)
    BY <2>3
  <2>5. Increasing(run.text) /\ Increasing(run.think)
    BY DEF Inv, CheckpointInv
  <2> QED BY <2>2, <2>3, <2>4, <2>5
<1>31. /\ client.text \in Seq(Nat) /\ client.think \in Seq(Nat)
       /\ \A item \in client.replay : item.content \in Seq(Nat)
  <2>1. /\ client.text \in Content /\ client.think \in Content
        /\ \A item \in client.replay : item.content \in Content
    BY <1>2 DEF ClientType, Item
  <2> QED BY <2>1, ContentIsNat
<1>32. ~ run.withdrawn => Known(e)
  BY <1>8 DEF Inv, KnownInv
<1>33. TextInv'
  <2> SUFFICES ASSUME Attending
               PROVE  Leads(run.text, client.text, {"text"}, client.plan.textSeq, {})'
    BY <1>1, <1>10 DEF TextInv, Attending
  <2>1. ~ client.lagged /\ ~ run.withdrawn
    BY DEF Attending
  <2> PICK seq \in Nat : seq = client.plan.textSeq
    BY <1>2
  <2>2. ToRead(seq)' = ToRead(seq) \ {m}
    BY <1>27, <2>1
  <2>3. ASSUME NEW shown \in Seq(Nat),
               Follows(run.text, shown, ToRead(seq), Queued({"text"}), {})
        PROVE  Follows(run.text, shown, ToRead(seq)', Queued({"text"})', {})
    <3>1. CASE handed /\ e.kind = "text"
      <4>1. Queued({"text"})' = Queued({"text"}) \cup {m}
        BY <1>29, <3>1
      <4>2. m \in ToRead(seq)
        BY <1>c, <1>3, <1>5, <3>1 DEF ToRead, Uncovered
      <4>3. PICK i \in 1 .. Len(run.text) : run.text[i] = m
        BY <1>32, <2>1, <3>1 DEF Known, TextKnown
      <4>4. run.text # <<>>
        BY <1>30, <4>3
      <4>5. \A j \in 1 .. Len(run.text) : run.text[j] > m => run.text[j] \in ToRead(seq)
        <5>1. \A n \in Seqs : n > m => n \in ToRead(seq)
          BY <1>2, <1>3, <4>2 DEF ToRead, Seqs
        <5> QED BY <1>30, <5>1
      <4>6. (\E j \in 1 .. Len(run.text) : run.text[j] = m) \/ (m < run.text[1] /\ run.text[1] \in {})
        BY <4>3
      <4>7. run.text[1] \in {} => run.text[1] \in {}
        OBVIOUS
      <4>8. run.text \in Seq(Nat) /\ Increasing(run.text)
        BY <1>30
      <4>9. Follows(run.text, shown, ToRead(seq) \ {m}, Queued({"text"}) \cup {m}, {})
        <5>1. m \in Nat
          BY <1>3
        <5> QED BY <2>3, <4>2, <4>4, <4>5, <4>6, <4>7, <4>8, <5>1, FollowsQueued, Zenon
      <4> QED BY <2>2, <4>1, <4>9
    <3>2. CASE ~ (handed /\ e.kind = "text")
      <4>1. Queued({"text"})' = Queued({"text"})
        BY <1>29, <3>2
      <4>2. \A i \in 1 .. Len(run.text) : run.text[i] \in ToRead(seq) <=> run.text[i] \in ToRead(seq)'
        <5>1. CASE e.kind = "text"
          <6>1. m <= seq
            BY <1>28, <2>1, <3>2, <5>1
          <6>2. m \notin ToRead(seq)
            BY <1>3, <6>1 DEF ToRead
          <6> QED BY <2>2, <6>2
        <5>2. CASE e.kind # "text"
          <6>1. \A i \in 1 .. Len(run.text) : run.text[i] # m
            BY <1>32, <2>1, <5>2 DEF Known, TextKnown
          <6> QED BY <2>2, <6>1
        <5> QED BY <5>1, <5>2
      <4>3. Follows(run.text, shown, ToRead(seq)', Queued({"text"}), {})
        <5>1. run.text # <<>> /\ run.text[1] \in {} => run.text[1] \in {}
          OBVIOUS
        <5>2. run.text \in Seq(Nat)
          BY <1>30
        <5> QED BY <2>3, <4>2, <5>1, <5>2, FollowsSame, Zenon
      <4> QED BY <4>1, <4>3
    <3> QED BY <3>1, <3>2
  <2>4. Leads(run.text, client.text, {"text"}, seq, {})
    BY DEF Inv, TextInv
  <2>5. /\ \A item \in client.replay : item.kind \in {"text"} =>
             item.replace /\ Follows(run.text, item.content, ToRead(seq)', Queued({"text"})', {})
        /\ (\A item \in client.replay : item.kind \notin {"text"}) =>
             Follows(run.text, client.text, ToRead(seq)', Queued({"text"})', {})
    BY <1>31, <2>3, <2>4 DEF Leads
  <2>6. ToRead(client.plan.textSeq)' = ToRead(seq)'
    BY <1>10 DEF ToRead
  <2> QED BY <1>1, <1>10, <2>5, <2>6 DEF Leads
<1>34. ThinkInv'
  <2> SUFFICES ASSUME Attending
               PROVE  Leads(run.think, client.think, Thinking, client.plan.thinkSeq, Rounds)'
    BY <1>1, <1>10 DEF ThinkInv, Attending
  <2>1. ~ client.lagged /\ ~ run.withdrawn
    BY DEF Attending
  <2> PICK seq \in Nat : seq = client.plan.thinkSeq
    BY <1>2
  <2>2. ToRead(seq)' = ToRead(seq) \ {m}
    BY <1>27, <2>1
  <2>3. ToRead(client.plan.thinkSeq)' = ToRead(seq)'
    BY <1>10 DEF ToRead
  <2>4. \A n : RoundAt(n) => RoundAt(n)'
    BY <1>1, <1>11 DEF RoundAt, RoundIn
  <2>5. \A n \in ToRead(seq)' : RoundAt(n)' => n \in Rounds'
    BY <2>3 DEF Rounds
  <2>6. ASSUME NEW n \in Rounds PROVE (n # m => n \in Rounds') /\ (handed => n \in Rounds')
    <3>1. CASE n \in ToRead(seq) /\ RoundAt(n)
      <4>1. n # m => n \in Rounds'
        BY <2>2, <2>4, <2>5, <3>1
      <4>2. CASE handed /\ n = m
        <5>1. e.kind = "round"
          BY <3>1, <4>2 DEF RoundAt, RoundIn
        <5>2. /\ Len(client.queue) + 1 \in 1 .. Len(client'.queue)
              /\ client'.queue[Len(client.queue) + 1].kind = "round"
              /\ client'.queue[Len(client.queue) + 1].seq = m
          BY <1>9, <1>13, <4>2, <5>1
        <5> QED BY <4>2, <5>2 DEF Rounds
      <4> QED BY <4>1, <4>2
    <3>2. CASE \E i \in 1 .. Len(client.queue) : client.queue[i].kind = "round" /\ client.queue[i].seq = n
      <4>1. PICK i \in 1 .. Len(client'.queue) : client'.queue[i].kind = "round" /\ client'.queue[i].seq = n
        BY <1>13, <3>2
      <4> QED BY <4>1 DEF Rounds
    <3> QED BY <3>1, <3>2 DEF Rounds
  <2>7. ASSUME NEW shown \in Seq(Nat),
               Follows(run.think, shown, ToRead(seq), Queued(Thinking), Rounds)
        PROVE  Follows(run.think, shown, ToRead(seq)', Queued(Thinking)', Rounds')
    <3>1. CASE handed /\ e.kind \in Thinking
      <4>1. Queued(Thinking)' = Queued(Thinking) \cup {m}
        BY <1>29, <3>1
      <4>2. m \in ToRead(seq)
        BY <1>c, <1>3, <1>5, <3>1 DEF ToRead, Uncovered
      <4>3. /\ run.think # <<>>
            /\ IF m < run.think[1] THEN RoundAt(run.think[1])
               ELSE \E i \in 1 .. Len(run.think) : run.think[i] = m
        BY <1>32, <2>1, <3>1 DEF Known, ThinkKnown
      <4>4. \A j \in 1 .. Len(run.think) : run.think[j] > m => run.think[j] \in ToRead(seq)
        <5>1. \A n \in Seqs : n > m => n \in ToRead(seq)
          BY <1>2, <1>3, <4>2 DEF ToRead, Seqs
        <5> QED BY <1>30, <5>1
      <4>5. (\E i \in 1 .. Len(run.think) : run.think[i] = m)
            \/ (m < run.think[1] /\ run.think[1] \in Rounds')
        <5>1. CASE m < run.think[1]
          <6>1. run.think[1] \in ToRead(seq) /\ run.think[1] # m
            BY <1>3, <1>30, <4>3, <4>4, <5>1
          <6>2. run.think[1] \in Rounds'
            BY <2>2, <2>4, <2>5, <4>3, <5>1, <6>1
          <6> QED BY <5>1, <6>2
        <5> QED BY <4>3, <5>1
      <4>6. run.think[1] \in Rounds => run.think[1] \in Rounds'
        BY <2>6, <3>1
      <4>7. run.think \in Seq(Nat) /\ Increasing(run.think)
        BY <1>30
      <4>8. Follows(run.think, shown, ToRead(seq) \ {m}, Queued(Thinking) \cup {m}, Rounds')
        <5>1. m \in Nat /\ run.think # <<>>
          BY <1>3, <4>3
        <5> QED BY <2>7, <4>2, <4>4, <4>5, <4>6, <4>7, <5>1, FollowsQueued, Zenon
      <4> QED BY <2>2, <4>1, <4>8
    <3>2. CASE ~ (handed /\ e.kind \in Thinking)
      <4>1. Queued(Thinking)' = Queued(Thinking)
        BY <1>29, <3>2
      <4>2. CASE e.kind \in Thinking
        <5>1. m <= seq /\ ~ handed
          BY <1>28, <2>1, <3>2, <4>2
        <5>2. m \notin ToRead(seq)
          BY <1>3, <5>1 DEF ToRead
        <5>3. \A n \in Rounds : n # m
          <6> SUFFICES ASSUME m \in Rounds PROVE FALSE
            OBVIOUS
          <6>1. PICK i \in 1 .. Len(client.queue) : client.queue[i].seq = m
            BY <5>2 DEF Rounds
          <6> QED BY <1>2, <1>3, <1>5, <6>1
        <5>4. \A i \in 1 .. Len(run.think) : run.think[i] \in ToRead(seq) <=> run.think[i] \in ToRead(seq)'
          BY <2>2, <5>2
        <5>5. run.think # <<>> /\ run.think[1] \in Rounds => run.think[1] \in Rounds'
          BY <2>6, <5>3
        <5>6. run.think \in Seq(Nat)
          BY <1>30
        <5>7. Follows(run.think, shown, ToRead(seq)', Queued(Thinking), Rounds')
          BY <2>7, <5>4, <5>5, <5>6, FollowsSame, Zenon
        <5> QED BY <4>1, <5>7
      <4>3. CASE e.kind \notin Thinking
        <5>1. \A i \in 1 .. Len(run.think) : run.think[i] # m
          BY <1>32, <2>1, <4>3 DEF Known, ThinkKnown
        <5>2. \A i \in 1 .. Len(run.think) : run.think[i] \in ToRead(seq) <=> run.think[i] \in ToRead(seq)'
          BY <2>2, <5>1
        <5>3. run.think # <<>> /\ run.think[1] \in Rounds => run.think[1] \in Rounds'
          BY <1>30, <2>6, <5>1
        <5>4. run.think \in Seq(Nat)
          BY <1>30
        <5>5. Follows(run.think, shown, ToRead(seq)', Queued(Thinking), Rounds')
          BY <2>7, <5>2, <5>3, <5>4, FollowsSame, Zenon
        <5> QED BY <4>1, <5>5
      <4> QED BY <4>2, <4>3
    <3> QED BY <3>1, <3>2
  <2>8. Leads(run.think, client.think, Thinking, seq, Rounds)
    BY DEF Inv, ThinkInv
  <2>9. /\ \A item \in client.replay : item.kind \in Thinking =>
             item.replace /\ Follows(run.think, item.content, ToRead(seq)', Queued(Thinking)', Rounds')
        /\ (\A item \in client.replay : item.kind \notin Thinking) =>
             Follows(run.think, client.think, ToRead(seq)', Queued(Thinking)', Rounds')
    BY <1>31, <2>7, <2>8 DEF Leads
  <2> QED BY <1>1, <1>10, <2>3, <2>9 DEF Leads
<1> QED BY <1>17, <1>18, <1>19, <1>20, <1>21, <1>22, <1>23, <1>25, <1>33, <1>34 DEF Inv

\* What is shown when an item is put to it.
LEMMA PutFields ==
    ASSUME NEW shown \in Content, NEW item \in Item, NEW kinds
    PROVE  /\ Put(shown, item, kinds) \in Content
           /\ item.kind \notin kinds => Put(shown, item, kinds) = shown
           /\ item.kind \in kinds /\ item.replace => Put(shown, item, kinds) = item.content
           /\ item.kind \in kinds /\ ~ item.replace =>
                 \A n \in Seqs : item.content = <<n>> => Put(shown, item, kinds) = Append(shown, n)
<1>1. shown \in Seq(Seqs) /\ item.content \in Seq(Seqs)
  BY DEF Content, Item
<1>2. shown \o item.content \in Seq(Seqs)
  BY <1>1, ConcatProperties
<1>3. \A n \in Seqs : shown \o <<n>> = Append(shown, n)
  BY <1>1, AppendIsConcat
<1> QED BY <1>1, <1>2, <1>3 DEF Put, Content

LEMMA ShownFields ==
    ASSUME NEW c \in ClientType, NEW item \in Item
    PROVE  LET d == Shown(c, item)
           IN  /\ d \in ClientType
               /\ d.last = IF item.seq > c.last THEN item.seq ELSE c.last
               /\ d.text = IF item.kind = "moderation_blocked" THEN <<>> ELSE Put(c.text, item, {"text"})
               /\ d.think = IF item.kind = "moderation_blocked" THEN <<>> ELSE Put(c.think, item, Thinking)
               /\ d.got = IF item.kind = "other" THEN c.got \cup {item.seq} ELSE c.got
               /\ d.told = IF item.kind \in Terminals THEN item.kind ELSE c.told
               /\ d.phase = c.phase /\ d.connections = c.connections /\ d.resumed = c.resumed
               /\ d.plan = c.plan /\ d.cursor = c.cursor /\ d.after = c.after /\ d.replay = c.replay
               /\ d.reader = c.reader /\ d.batch = c.batch /\ d.queue = c.queue
               /\ d.lagged = c.lagged /\ d.fresh = c.fresh
<1> PICK last : last = IF item.seq > c.last THEN item.seq ELSE c.last
  OBVIOUS
<1> PICK text : text = IF item.kind = "moderation_blocked" THEN <<>> ELSE Put(c.text, item, {"text"})
  OBVIOUS
<1> PICK think : think = IF item.kind = "moderation_blocked" THEN <<>> ELSE Put(c.think, item, Thinking)
  OBVIOUS
<1> PICK got : got = IF item.kind = "other" THEN c.got \cup {item.seq} ELSE c.got
  OBVIOUS
<1> PICK told : told = IF item.kind \in Terminals THEN item.kind ELSE c.told
  OBVIOUS
<1>1. c.text \in Content /\ c.think \in Content /\ <<>> \in Content
  BY EmptySeq DEF ClientType, Content
<1>2. text \in Content /\ think \in Content
  BY <1>1, PutFields
<1>3. last \in 0 .. MaxAppends
  <2>1. item.seq \in 0 .. MaxAppends
    BY BoundAssumption DEF Item, Seqs
  <2> QED BY <2>1 DEF ClientType
<1>4. got \in SUBSET Seqs
  BY DEF ClientType, Item
<1>5. told \in {"none", "refused", "dropped", "interrupted"} \cup Terminals
  BY DEF ClientType
<1>6. Shown(c, item) = [c EXCEPT !.last = last, !.text = text, !.think = think, !.got = got,
                                 !.told = told]
  BY DEF Shown, IsTerminal, ClientType
<1>7. Shown(c, item) \in ClientType
  BY ZenonT(30), <1>2, <1>3, <1>4, <1>5, <1>6 DEF ClientType
<1> PICK d : d = Shown(c, item)
  OBVIOUS
<1>8. /\ d.last = last /\ d.text = text /\ d.think = think /\ d.got = got /\ d.told = told
      /\ d.phase = c.phase /\ d.connections = c.connections /\ d.resumed = c.resumed
      /\ d.plan = c.plan /\ d.cursor = c.cursor /\ d.after = c.after /\ d.replay = c.replay
      /\ d.reader = c.reader /\ d.batch = c.batch /\ d.queue = c.queue
      /\ d.lagged = c.lagged /\ d.fresh = c.fresh
  BY <1>6 DEF ClientType
<1> QED BY <1>7, <1>8

\* What an item that is written changes, and what it leaves as it is.
Wrote(d, item) ==
    /\ d.last = IF item.seq > client.last THEN item.seq ELSE client.last
    /\ d.text = IF item.kind = "moderation_blocked" THEN <<>> ELSE Put(client.text, item, {"text"})
    /\ d.think = IF item.kind = "moderation_blocked" THEN <<>> ELSE Put(client.think, item, Thinking)
    /\ d.got = IF item.kind = "other" THEN client.got \cup {item.seq} ELSE client.got
    /\ d.told = IF item.kind \in Terminals THEN item.kind ELSE client.told
    /\ d.phase = client.phase /\ d.resumed = client.resumed /\ d.plan = client.plan
    /\ d.cursor = client.cursor /\ d.after = client.after /\ d.reader = client.reader
    /\ d.batch = client.batch /\ d.lagged = client.lagged /\ d.fresh = client.fresh

LEMMA WriteReplayFields ==
    ASSUME Inv, WriteReplay
    PROVE  \E item \in client.replay :
              /\ \A other \in client.replay : item.seq <= other.seq
              /\ client' \in ClientType /\ Wrote(client', item)
              /\ client'.replay = client.replay \ {item} /\ client'.queue = client.queue
<1>1. client \in ClientType /\ client.replay \in SUBSET Item
  BY DEF Inv, TypeInv, ClientType
<1>2. PICK item \in client.replay :
         /\ \A other \in client.replay : item.seq <= other.seq
         /\ client' = Shown([client EXCEPT !.replay = client.replay \ {item}], item)
  BY DEF WriteReplay
<1> PICK replay : replay = client.replay \ {item}
  OBVIOUS
<1>a. PICK c : c = [client EXCEPT !.replay = replay]
  OBVIOUS
<1>3. c \in ClientType
  BY <1>1, <1>a DEF ClientType
<1>4. /\ c.replay = replay /\ c.queue = client.queue /\ c.last = client.last /\ c.text = client.text
      /\ c.think = client.think /\ c.got = client.got /\ c.told = client.told
      /\ c.phase = client.phase /\ c.resumed = client.resumed /\ c.plan = client.plan
      /\ c.cursor = client.cursor /\ c.after = client.after /\ c.reader = client.reader
      /\ c.batch = client.batch /\ c.lagged = client.lagged /\ c.fresh = client.fresh
  BY <1>1, <1>a DEF ClientType
<1>5. client' = Shown(c, item) /\ item \in Item
  BY <1>1, <1>2, <1>a
<1>b. PICK d : d = Shown(c, item)
  OBVIOUS
<1>6. /\ d \in ClientType
      /\ d.last = IF item.seq > c.last THEN item.seq ELSE c.last
      /\ d.text = IF item.kind = "moderation_blocked" THEN <<>> ELSE Put(c.text, item, {"text"})
      /\ d.think = IF item.kind = "moderation_blocked" THEN <<>> ELSE Put(c.think, item, Thinking)
      /\ d.got = IF item.kind = "other" THEN c.got \cup {item.seq} ELSE c.got
      /\ d.told = IF item.kind \in Terminals THEN item.kind ELSE c.told
      /\ d.phase = c.phase /\ d.resumed = c.resumed /\ d.plan = c.plan
      /\ d.cursor = c.cursor /\ d.after = c.after /\ d.reader = c.reader
      /\ d.batch = c.batch /\ d.lagged = c.lagged /\ d.fresh = c.fresh
      /\ d.replay = c.replay /\ d.queue = c.queue
  BY <1>3, <1>5, <1>b, ShownFields
<1>7. Wrote(d, item) /\ d.replay = replay /\ d.queue = client.queue
  BY <1>4, <1>6 DEF Wrote
<1> QED BY <1>2, <1>5, <1>6, <1>7, <1>b

LEMMA WriteLiveFields ==
    ASSUME Inv, WriteLive
    PROVE  \E c \in ClientType :
              /\ Wrote(c, client.queue[1]) /\ c.replay = client.replay
              /\ c.queue \in Seq(Item) /\ Len(client.queue) \in Nat
              /\ Len(client.queue) = Len(c.queue) + 1
              /\ \A i \in 1 .. Len(c.queue) : c.queue[i] = client.queue[i + 1]
              /\ client' = IF client.queue[1].kind \in Terminals THEN Ended(c, client.queue[1].kind)
                           ELSE c
<1>1. client \in ClientType /\ client.queue \in Seq(Item) /\ client.queue # <<>>
      /\ client.phase = "live" /\ client.told = "none"
  BY DEF Inv, TypeInv, ClientType, WriteLive, PlanInv
<1> PICK queue : queue = Tail(client.queue)
  OBVIOUS
<1> PICK h : h = Head(client.queue)
  OBVIOUS
<1>2. /\ h \in Item /\ queue \in Seq(Item) /\ Len(queue) = Len(client.queue) - 1
      /\ \A i \in 1 .. Len(queue) : queue[i] = client.queue[i + 1]
  BY <1>1, HeadTailProperties
<1>3. h = client.queue[1] /\ Len(client.queue) \in Nat
  BY <1>1
<1>a. PICK b : b = [client EXCEPT !.queue = queue]
  OBVIOUS
<1>4. b \in ClientType
  BY <1>1, <1>2, <1>a DEF ClientType
<1>5. /\ b.replay = client.replay /\ b.queue = queue /\ b.last = client.last /\ b.text = client.text
      /\ b.think = client.think /\ b.got = client.got /\ b.told = client.told
      /\ b.phase = client.phase /\ b.resumed = client.resumed /\ b.plan = client.plan
      /\ b.cursor = client.cursor /\ b.after = client.after /\ b.reader = client.reader
      /\ b.batch = client.batch /\ b.lagged = client.lagged /\ b.fresh = client.fresh
  BY <1>1, <1>a DEF ClientType
<1>6. LET c == Shown(b, h)
      IN  client' = IF c.told \in Terminals THEN Ended(c, c.told) ELSE c
  BY <1>a DEF WriteLive
<1>b. PICK c : c = Shown(b, h)
  OBVIOUS
<1>7. /\ c \in ClientType
      /\ c.last = IF h.seq > b.last THEN h.seq ELSE b.last
      /\ c.text = IF h.kind = "moderation_blocked" THEN <<>> ELSE Put(b.text, h, {"text"})
      /\ c.think = IF h.kind = "moderation_blocked" THEN <<>> ELSE Put(b.think, h, Thinking)
      /\ c.got = IF h.kind = "other" THEN b.got \cup {h.seq} ELSE b.got
      /\ c.told = IF h.kind \in Terminals THEN h.kind ELSE b.told
      /\ c.phase = b.phase /\ c.resumed = b.resumed /\ c.plan = b.plan
      /\ c.cursor = b.cursor /\ c.after = b.after /\ c.reader = b.reader
      /\ c.batch = b.batch /\ c.lagged = b.lagged /\ c.fresh = b.fresh
      /\ c.replay = b.replay /\ c.queue = b.queue
  BY ZenonT(30), <1>2, <1>4, <1>b, ShownFields
<1>8. c \in ClientType /\ Wrote(c, h) /\ c.replay = client.replay /\ c.queue = queue
  BY <1>5, <1>7 DEF Wrote
<1>9. client' = IF c.told \in Terminals THEN Ended(c, c.told) ELSE c
  BY <1>6, <1>b
<1>10. c.told = IF h.kind \in Terminals THEN h.kind ELSE "none"
  BY <1>1, <1>8 DEF Wrote
<1>11. client' = IF h.kind \in Terminals THEN Ended(c, h.kind) ELSE c
  BY <1>9, <1>10 DEF Terminals, Outcomes
<1>12. Len(client.queue) = Len(queue) + 1 /\ Len(queue) \in Nat
  BY <1>2, <1>3
<1> QED BY <1>2, <1>3, <1>8, <1>11, <1>12

\* What is known of an item that is written.
LEMMA WrittenKnown ==
    ASSUME Inv, NEW item \in Items, NEW d \in ClientType, Wrote(d, item)
    PROVE  /\ item \in Item /\ item.seq \in Nat /\ item.seq <= store.seq
           /\ item.kind \in Terminals => run.outcome # "none"
           /\ ~ run.withdrawn => Known(item) /\ item.kind # "moderation_blocked"
           /\ d.last <= store.seq
           /\ ~ run.withdrawn => /\ d.text # <<>> => run.text # <<>>
                                 /\ d.think # <<>> => run.think # <<>>
                                 /\ item.kind # "text" => d.text = client.text
                                 /\ item.kind \notin Thinking => d.think = client.think
                                 /\ item.kind = "text" /\ item.replace => d.text = item.content
                                 /\ item.kind \in Thinking /\ item.replace => d.think = item.content
                                 /\ item.kind = "text" /\ ~ item.replace =>
                                       \A n \in Seqs : item.content = <<n>> => d.text = Append(client.text, n)
                                 /\ item.kind \in Thinking /\ ~ item.replace =>
                                       \A n \in Seqs : item.content = <<n>> => d.think = Append(client.think, n)
<1>1. client \in ClientType /\ run \in RunType /\ item \in Item
  <2>1. client \in ClientType /\ run \in RunType
    BY DEF Inv, TypeInv
  <2>2. \A i \in 1 .. Len(client.queue) : client.queue[i] \in Item
    BY <2>1, ElementOfSeq DEF ClientType
  <2> QED BY <2>1, <2>2 DEF Items, ClientType
<1>2. Past(item) /\ item.seq \in Nat
  BY <1>1 DEF Inv, PastInv, Item, Seqs
<1>3. d.last <= store.seq
  BY <1>2 DEF Wrote, Past, Inv, PastInv
<1>4. ~ run.withdrawn => Known(item) /\ item.kind # "moderation_blocked"
  BY DEF Inv, KnownInv, Known, EndKnown
<1>5. client.text \in Content /\ client.think \in Content
  BY <1>1 DEF ClientType
<1>6. ASSUME ~ run.withdrawn
      PROVE  /\ item.kind # "text" => d.text = client.text
             /\ item.kind \notin Thinking => d.think = client.think
             /\ item.kind = "text" /\ item.replace => d.text = item.content
             /\ item.kind \in Thinking /\ item.replace => d.think = item.content
             /\ item.kind = "text" /\ ~ item.replace =>
                    \A n \in Seqs : item.content = <<n>> => d.text = Append(client.text, n)
             /\ item.kind \in Thinking /\ ~ item.replace =>
                    \A n \in Seqs : item.content = <<n>> => d.think = Append(client.think, n)
  <2>1. d.text = Put(client.text, item, {"text"}) /\ d.think = Put(client.think, item, Thinking)
    BY <1>4, <1>6 DEF Wrote
  <2>2. \A kinds, shown : shown \in Content =>
           /\ item.kind \notin kinds => Put(shown, item, kinds) = shown
           /\ item.kind \in kinds /\ item.replace => Put(shown, item, kinds) = item.content
           /\ item.kind \in kinds /\ ~ item.replace =>
                 \A n \in Seqs : item.content = <<n>> => Put(shown, item, kinds) = Append(shown, n)
    BY <1>1, PutFields
  <2>3. /\ item.kind \notin {"text"} => Put(client.text, item, {"text"}) = client.text
        /\ item.kind \in {"text"} /\ item.replace => Put(client.text, item, {"text"}) = item.content
        /\ item.kind \in {"text"} /\ ~ item.replace =>
              \A n \in Seqs : item.content = <<n>> =>
                 Put(client.text, item, {"text"}) = Append(client.text, n)
    BY <1>5, <2>2, Zenon
  <2>4. /\ item.kind \notin Thinking => Put(client.think, item, Thinking) = client.think
        /\ item.kind \in Thinking /\ item.replace => Put(client.think, item, Thinking) = item.content
        /\ item.kind \in Thinking /\ ~ item.replace =>
              \A n \in Seqs : item.content = <<n>> =>
                 Put(client.think, item, Thinking) = Append(client.think, n)
    BY <1>5, <2>2, Zenon
  <2>5. item.kind \in {"text"} <=> item.kind = "text"
    OBVIOUS
  <2> QED BY <2>1, <2>3, <2>4, <2>5, Zenon
<1>7. ASSUME ~ run.withdrawn
      PROVE  (d.text # <<>> => run.text # <<>>) /\ (d.think # <<>> => run.think # <<>>)
  <2>1. item.kind = "text" => run.text # <<>>
    <3> SUFFICES ASSUME item.kind = "text" PROVE run.text # <<>>
      OBVIOUS
    <3>1. PICK i \in 1 .. Len(run.text) : run.text[i] = item.seq
      BY <1>4, <1>7 DEF Known, TextKnown
    <3>2. run.text \in Content
      BY <1>1 DEF RunType
    <3> QED BY <3>1, <3>2, ContentIsNat
  <2>2. item.kind \in Thinking => run.think # <<>>
    BY <1>4, <1>7 DEF Known, ThinkKnown
  <2>3. (client.text # <<>> => run.text # <<>>) /\ (client.think # <<>> => run.think # <<>>)
    BY <1>7 DEF Inv, KnownInv
  <2> QED BY <1>6, <1>7, <2>1, <2>2, <2>3
<1> QED BY <1>1, <1>2, <1>3, <1>4, <1>6, <1>7 DEF Past

\* Once the last event is about to be written, nothing is left to come.
LEMMA EndShows ==
    ASSUME Inv, Attending, NEW item \in Items, item.kind \in Terminals,
           client.cursor >= item.seq,
           \A other \in client.replay : item.seq <= other.seq,
           \A n \in Queued({"text"}) \cup Queued(Thinking) : item.seq <= n
    PROVE  /\ client.text = run.text /\ client.think = run.think
           /\ \A other \in client.replay : other.kind \notin Thinking \cup {"text"}
<1>1. /\ ~ run.withdrawn /\ client \in ClientType /\ run \in RunType /\ item.seq = store.seq
      /\ store.seq \in Nat /\ client.cursor \in Nat
      /\ \A i \in 1 .. Len(run.text) : run.text[i] < item.seq
      /\ \A i \in 1 .. Len(run.think) : run.think[i] < item.seq
  <2>1. ~ run.withdrawn /\ client \in ClientType /\ run \in RunType /\ store \in StoreType
    BY DEF Attending, Inv, TypeInv
  <2>2. EndKnown(item)
    BY <2>1 DEF Inv, KnownInv, Known
  <2> QED BY <2>1, <2>2, BoundAssumption DEF EndKnown, StoreType, ClientType
<1>2. /\ run.text \in Seq(Nat) /\ \A i \in 1 .. Len(run.text) : run.text[i] \in Nat
      /\ run.think \in Seq(Nat) /\ \A i \in 1 .. Len(run.think) : run.think[i] \in Nat
      /\ run.think # <<>> => Len(run.think) \in 1 .. Len(run.think)
      /\ client.text \in Seq(Nat) /\ client.think \in Seq(Nat)
  <2>1. run.text \in Content /\ run.think \in Content /\ client.text \in Content /\ client.think \in Content
    BY <1>1 DEF RunType, ClientType
  <2>2. /\ run.text \in Seq(Nat) /\ \A i \in 1 .. Len(run.text) : run.text[i] \in Nat
        /\ client.text \in Seq(Nat) /\ client.think \in Seq(Nat)
    BY <2>1, ContentIsNat
  <2>3. /\ run.think \in Seq(Nat) /\ \A i \in 1 .. Len(run.think) : run.think[i] \in Nat
        /\ Len(run.think) \in Nat /\ run.think # <<>> => Len(run.think) >= 1
    BY <2>1, ContentIsNat
  <2> QED BY <2>2, <2>3
<1>3. ASSUME NEW other \in client.replay PROVE other.kind \notin Thinking \cup {"text"}
  <2>1. Known(other) /\ item.seq <= other.seq /\ other.seq \in Nat
    BY <1>1 DEF Inv, KnownInv, Items, ClientType, Item, Seqs
  <2>2. other.kind # "text"
    BY <1>1, <1>2, <2>1 DEF Known, TextKnown
  <2>3. other.kind \notin Thinking
    <3> SUFFICES ASSUME other.kind \in Thinking PROVE FALSE
      OBVIOUS
    <3>1. run.think # <<>> /\ other.seq <= run.think[Len(run.think)]
      BY <2>1 DEF Known, ThinkKnown
    <3> PICK n : n = run.think[Len(run.think)]
      OBVIOUS
    <3>2. n < item.seq /\ n \in Nat /\ other.seq <= n
      BY <1>1, <1>2, <3>1
    <3>3. item.seq \in Nat
      BY <1>1
    <3> QED BY <2>1, <3>2, <3>3
  <2> QED BY <2>2, <2>3
<1>4. ASSUME NEW seq \in Nat
      PROVE  /\ \A i \in 1 .. Len(run.text) : run.text[i] \notin ToRead(seq) \cup Queued({"text"})
             /\ \A i \in 1 .. Len(run.think) : run.think[i] \notin ToRead(seq) \cup Queued(Thinking)
  <2>1. \A n \in Nat : n < item.seq => n \notin ToRead(seq)
    BY <1>1 DEF ToRead
  <2>2. \A n \in Nat : n < item.seq => n \notin Queued({"text"}) /\ n \notin Queued(Thinking)
    BY <1>1
  <2>3. \A i \in 1 .. Len(run.text) : run.text[i] \notin ToRead(seq) \cup Queued({"text"})
    BY <1>1, <1>2, <2>1, <2>2
  <2>4. \A i \in 1 .. Len(run.think) : run.think[i] \notin ToRead(seq) \cup Queued(Thinking)
    BY <1>1, <1>2, <2>1, <2>2
  <2> QED BY <2>3, <2>4
<1>5. client.text = run.text
  <2> PICK seq \in Nat : seq = client.plan.textSeq
    BY <1>1, BoundAssumption DEF ClientType, PlanType
  <2>1. Follows(run.text, client.text, ToRead(seq), Queued({"text"}), {})
    <3>1. Leads(run.text, client.text, {"text"}, seq, {})
      BY DEF Inv, TextInv
    <3>2. \A other \in client.replay : other.kind \notin {"text"}
      BY <1>3
    <3> QED BY <3>1, <3>2 DEF Leads
  <2>2. {} \subseteq ToRead(seq) \cup Queued({"text"})
    OBVIOUS
  <2>3. \A i \in 1 .. Len(run.text) : run.text[i] \notin ToRead(seq) \cup Queued({"text"})
    BY <1>4
  <2>4. run.text \in Seq(Nat) /\ client.text \in Seq(Nat)
    BY <1>2
  <2> QED BY SMTT(30), <2>1, <2>2, <2>3, <2>4, FollowsAll
<1>6. client.think = run.think
  <2> PICK seq \in Nat : seq = client.plan.thinkSeq
    BY <1>1, BoundAssumption DEF ClientType, PlanType
  <2>1. Follows(run.think, client.think, ToRead(seq), Queued(Thinking), Rounds)
    <3>1. Leads(run.think, client.think, Thinking, seq, Rounds)
      BY DEF Inv, ThinkInv
    <3>2. \A other \in client.replay : other.kind \notin Thinking
      BY <1>3
    <3> QED BY <3>1, <3>2 DEF Leads
  <2>2. Rounds \subseteq ToRead(seq) \cup Queued(Thinking)
    BY DEF Rounds, Queued, Thinking
  <2>3. \A i \in 1 .. Len(run.think) : run.think[i] \notin ToRead(seq) \cup Queued(Thinking)
    BY <1>4
  <2>4. run.think \in Seq(Nat) /\ client.think \in Seq(Nat)
    BY <1>2
  <2> QED BY <2>1, <2>2, <2>3, <2>4, FollowsAll
<1> QED BY <1>3, <1>5, <1>6

\* An item that is replayed is written.
LEMMA WriteReplayStep ==
    ASSUME Inv, WriteReplay
    PROVE  Inv'
<1>1. PICK item \in client.replay :
         /\ \A other \in client.replay : item.seq <= other.seq
         /\ client' \in ClientType /\ Wrote(client', item)
         /\ client'.replay = client.replay \ {item} /\ client'.queue = client.queue
  BY WriteReplayFields
<1>2. store' = store /\ run' = run /\ UNCHANGED <<store, run>> /\ client.phase = "replaying"
  BY DEF WriteReplay
<1>3. /\ client'.phase = client.phase /\ client'.resumed = client.resumed /\ client'.plan = client.plan
      /\ client'.cursor = client.cursor /\ client'.after = client.after /\ client'.reader = client.reader
      /\ client'.batch = client.batch /\ client'.lagged = client.lagged /\ client'.fresh = client.fresh
      /\ client'.queue = client.queue /\ client'.replay = client.replay \ {item}
      /\ client'.got = IF item.kind = "other" THEN client.got \cup {item.seq} ELSE client.got
      /\ client'.told = IF item.kind \in Terminals THEN item.kind ELSE client.told
  BY <1>1 DEF Wrote
<1>4. item \in Items
  BY DEF Items
<1>5. /\ item.seq \in Nat /\ item.seq <= store.seq
      /\ item.kind \in Terminals => run.outcome # "none"
      /\ ~ run.withdrawn => Known(item) /\ item.kind # "moderation_blocked"
      /\ client'.last <= store.seq
      /\ ~ run.withdrawn => /\ client'.text # <<>> => run.text # <<>>
                            /\ client'.think # <<>> => run.think # <<>>
                            /\ item.kind # "text" => client'.text = client.text
                            /\ item.kind \notin Thinking => client'.think = client.think
                            /\ item.kind = "text" /\ item.replace => client'.text = item.content
                            /\ item.kind \in Thinking /\ item.replace => client'.think = item.content
  BY <1>1, <1>4, WrittenKnown
<1>6. Events' = Events /\ Items' \subseteq Items /\ \A i \in Items : i \in Items' \/ i = item
  BY <1>2, <1>3 DEF Events, Items
<1>7. TypeInv' /\ RunInv' /\ WindowInv' /\ CheckpointInv'
  BY <1>1, <1>2, SubscriberFrame
<1>8. PastInv'
  <2>1. \A e \in Events' \cup Items' : Past(e)'
    BY <1>2, <1>6 DEF Inv, PastInv, Past
  <2>2. client'.told \in Terminals => run.outcome # "none"
    BY <1>3, <1>5 DEF Inv, PastInv
  <2> QED BY <1>2, <1>3, <1>5, <2>1, <2>2 DEF Inv, PastInv
<1>9. KnownInv'
  <2>1. \A e : Known(e) => Known(e)'
    <3>1. client'.batch \subseteq store.window \cup client.batch
      BY <1>3
    <3> QED BY <1>2, <3>1, KnownFrame
  <2> QED BY <1>2, <1>5, <1>6, <2>1 DEF Inv, KnownInv
<1>10. PlanInv' /\ ListInv' /\ TextPlanInv' /\ ThinkPlanInv'
  <2>1. PlanInv'
    BY <1>2, <1>3 DEF Inv, PlanInv, Reading, Serving
  <2> QED BY <1>2, <1>3, <2>1 DEF ListInv, TextPlanInv, ThinkPlanInv
<1>11. ReaderInv'
  <2>1. /\ \A i \in client'.replay : i \in client.replay
        /\ client.phase \in Serving
    BY <1>2, <1>3 DEF Serving
  <2> QED BY <1>2, <1>3, <2>1 DEF Inv, ReaderInv
<1>12. TextInv'
  <2> SUFFICES ASSUME Attending
               PROVE  Leads(run.text, client.text, {"text"}, client.plan.textSeq, {})'
    BY <1>2, <1>3 DEF TextInv, Attending
  <2>1. ~ run.withdrawn
    BY DEF Attending
  <2>2. Leads(run.text, client.text, {"text"}, client.plan.textSeq, {})
    BY DEF Inv, TextInv
  <2>3. /\ ToRead(client.plan.textSeq)' = ToRead(client.plan.textSeq)
        /\ Queued({"text"})' = Queued({"text"})
    BY <1>3 DEF ToRead, Queued
  <2>4. /\ \A i \in client'.replay : i \in client.replay
        /\ \A i \in client.replay : i \in client'.replay \/ i = item
    BY <1>3
  <2>5. (\A i \in client'.replay : i.kind \notin {"text"}) =>
           Follows(run.text, client'.text, ToRead(client.plan.textSeq), Queued({"text"}), {})
    <3>1. CASE item.kind = "text"
      BY <1>5, <2>1, <2>2, <3>1 DEF Leads
    <3>2. CASE item.kind # "text"
      BY <1>5, <2>1, <2>2, <2>4, <3>2 DEF Leads
    <3> QED BY <3>1, <3>2
  <2>6. \A i \in client'.replay : i.kind \in {"text"} =>
           /\ i.replace
           /\ Follows(run.text, i.content, ToRead(client.plan.textSeq), Queued({"text"}), {})
    BY <2>2, <2>4 DEF Leads
  <2> QED BY <1>2, <2>3, <2>5, <2>6 DEF Leads
<1>13. ThinkInv'
  <2> SUFFICES ASSUME Attending
               PROVE  Leads(run.think, client.think, Thinking, client.plan.thinkSeq, Rounds)'
    BY <1>2, <1>3 DEF ThinkInv, Attending
  <2>1. ~ run.withdrawn
    BY DEF Attending
  <2>2. Leads(run.think, client.think, Thinking, client.plan.thinkSeq, Rounds)
    BY DEF Inv, ThinkInv
  <2>3. /\ ToRead(client.plan.thinkSeq)' = ToRead(client.plan.thinkSeq)
        /\ Queued(Thinking)' = Queued(Thinking)
    BY <1>3 DEF ToRead, Queued
  <2>a. Rounds' = Rounds
    <3>1. \A n : RoundAt(n)' = RoundAt(n)
      BY <1>2, <1>3 DEF RoundAt
    <3> QED BY <1>3, <2>3, <3>1 DEF Rounds
  <2>4. /\ \A i \in client'.replay : i \in client.replay
        /\ \A i \in client.replay : i \in client'.replay \/ i = item
    BY <1>3
  <2>5. (\A i \in client'.replay : i.kind \notin Thinking) =>
           Follows(run.think, client'.think, ToRead(client.plan.thinkSeq), Queued(Thinking), Rounds)
    <3>1. CASE item.kind \in Thinking
      BY <1>5, <2>1, <2>2, <3>1 DEF Leads
    <3>2. CASE item.kind \notin Thinking
      BY <1>5, <2>1, <2>2, <2>4, <3>2 DEF Leads
    <3> QED BY <3>1, <3>2
  <2>6. \A i \in client'.replay : i.kind \in Thinking =>
           /\ i.replace
           /\ Follows(run.think, i.content, ToRead(client.plan.thinkSeq), Queued(Thinking), Rounds)
    BY <2>2, <2>4 DEF Leads
  <2> QED BY <1>2, <2>3, <2>5, <2>6, <2>a DEF Leads
<1>14. EndInv'
  <2> SUFFICES ASSUME client'.told \in Outcomes, ~ client.lagged, ~ run.withdrawn
               PROVE  /\ client'.text = run.text /\ client'.think = run.think
                      /\ \A i \in client'.replay : i.kind \notin Thinking \cup {"text"}
    BY <1>2, <1>3 DEF EndInv
  <2>1. /\ client.text = run.text /\ client.think = run.think
        /\ \A i \in client.replay : i.kind \notin Thinking \cup {"text"}
    <3>1. CASE item.kind \in Terminals
      <4>1. Attending
        BY <1>2 DEF Attending, Serving
      <4>2. client.queue = <<>> /\ client.cursor >= item.seq
        BY <1>2, <3>1 DEF Inv, ReaderInv, Serving
      <4>3. \A n \in Queued({"text"}) \cup Queued(Thinking) : item.seq <= n
        BY <4>2 DEF Queued
      <4> QED BY <1>1, <1>4, <3>1, <4>1, <4>2, <4>3, EndShows
    <3>2. CASE item.kind \notin Terminals
      <4>1. client.told \in Outcomes
        BY <1>3, <3>2
      <4> QED BY <4>1 DEF Inv, EndInv
    <3> QED BY <3>1, <3>2
  <2>2. item.kind # "text" /\ item.kind \notin Thinking
    BY <2>1
  <2> QED BY <1>3, <1>5, <2>1, <2>2
<1>15. OtherInv'
  <2>1. \A t \in Events' \cup Items' : t.kind \in Terminals =>
          \A e \in store.window : e.kind = "other" => e.seq < t.seq
    BY <1>6 DEF Inv, OtherInv
  <2>2. ASSUME ~ client.resumed, ~ client.lagged, NEW e \in store.window, MustHold(e)
        PROVE  \/ e.seq \in client'.got
               \/ \E i \in Items' : i.kind = "other" /\ i.seq = e.seq
               \/ e.seq > client.cursor
    <3>1. \/ e.seq \in client.got
          \/ \E i \in Items : i.kind = "other" /\ i.seq = e.seq
          \/ e.seq > client.cursor
      BY <1>2, <2>2 DEF Inv, OtherInv, Serving
    <3> QED BY <1>3, <1>6, <3>1
  <2>3. \A e : MustHold(e)' = MustHold(e)
    BY <1>2 DEF MustHold
  <2> QED BY <1>2, <1>3, <2>1, <2>2, <2>3 DEF OtherInv
<1>16. DroppedInv'
  BY <1>2, <1>3, <1>6 DEF Inv, DroppedInv
<1> QED BY <1>7, <1>8, <1>9, <1>10, <1>11, <1>12, <1>13, <1>14, <1>15, <1>16 DEF Inv

\* The replay is written.
LEMMA ReplayedStep ==
    ASSUME Inv, Replayed
    PROVE  Inv'
<1>1. CASE client' = Ended(client, client.told) /\ UNCHANGED <<store, run>>
  BY <1>1, EndedStep
<1>2. CASE Interrupt
  BY <1>2, EndedStep DEF Interrupt
<1>3. CASE /\ client.phase = "replaying" /\ client.replay = {} /\ client.told \notin Terminals
           /\ client' = [client EXCEPT !.phase = "live"] /\ UNCHANGED <<store, run>>
  <2>1. /\ store' = store /\ run' = run /\ client \in ClientType /\ client.phase = "replaying"
        /\ client.replay = {} /\ client.told = "none"
    BY <1>3 DEF Inv, TypeInv, PlanInv
  <2>2. /\ client' \in ClientType /\ client'.phase = "live"
        /\ client'.resumed = client.resumed /\ client'.plan = client.plan
        /\ client'.cursor = client.cursor /\ client'.after = client.after /\ client'.reader = client.reader
        /\ client'.batch = client.batch /\ client'.lagged = client.lagged /\ client'.fresh = client.fresh
        /\ client'.queue = client.queue /\ client'.replay = client.replay /\ client'.last = client.last
        /\ client'.got = client.got /\ client'.told = client.told /\ client'.text = client.text
        /\ client'.think = client.think
    <3>1. "live" \in Phases
      BY DEF Phases
    <3> QED BY <1>3, <2>1, <3>1 DEF ClientType
  <2>3. client.phase \in Serving /\ client'.phase \in Serving
    BY <2>1, <2>2 DEF Serving
  <2>4. Events' = Events /\ Items' = Items
    BY <2>1, <2>2 DEF Events, Items
  <2>5. \A e : Known(e) => Known(e)'
    <3>1. client'.batch \subseteq store.window \cup client.batch
      BY <2>2
    <3> QED BY <2>1, <3>1, KnownFrame
  <2>6. TypeInv' /\ RunInv' /\ WindowInv' /\ CheckpointInv'
    BY <2>1, <2>2, SubscriberFrame
  <2>7. PastInv' /\ KnownInv'
    BY <2>1, <2>2, <2>4, <2>5 DEF Inv, PastInv, Past, KnownInv
  <2>8. PlanInv' /\ ListInv' /\ TextPlanInv' /\ ThinkPlanInv' /\ EndInv'
    <3>1. PlanInv'
      BY <2>1, <2>2 DEF Inv, PlanInv, Reading, Serving
    <3> QED BY <2>1, <2>2, <3>1 DEF ListInv, TextPlanInv, ThinkPlanInv, EndInv, Outcomes
  <2>9. ReaderInv'
    BY <2>1, <2>2, <2>3 DEF Inv, ReaderInv
  <2>10. \A seq, kinds : ToRead(seq)' = ToRead(seq) /\ Queued(kinds)' = Queued(kinds)
    BY <2>2 DEF ToRead, Queued
  <2>11. Rounds' = Rounds
    <3>1. \A n : RoundAt(n)' = RoundAt(n)
      BY <2>1, <2>2 DEF RoundAt
    <3> QED BY <2>2, <2>10, <3>1 DEF Rounds
  <2>12. TextInv' /\ ThinkInv'
    <3>1. Attending' => Attending
      BY <2>1, <2>2, <2>3 DEF Attending
    <3> QED BY <2>1, <2>2, <2>10, <2>11, <3>1 DEF Inv, TextInv, ThinkInv, Leads
  <2>13. OtherInv'
    BY <2>1, <2>2, <2>3, <2>4 DEF Inv, OtherInv, MustHold
  <2>14. DroppedInv'
    BY <2>1, <2>2, <2>4 DEF Inv, DroppedInv
  <2> QED BY <2>6, <2>7, <2>8, <2>9, <2>12, <2>13, <2>14 DEF Inv
<1> QED BY <1>1, <1>2, <1>3 DEF Replayed

\* What is at the head of the channel when it is written.
LEMMA WriteLiveHead ==
    ASSUME Inv, WriteLive
    PROVE  \E c \in ClientType, h \in Items :
              /\ Wrote(c, h) /\ c.replay = client.replay
              /\ client' = IF h.kind \in Terminals THEN Ended(c, h.kind) ELSE c
              /\ h.seq \in Seqs /\ h.seq <= client.cursor
              /\ h.kind \in Thinking \cup {"text"} => h.content = <<h.seq>>
              /\ h.replace <=> h.kind = "round"
              /\ 1 \in 1 .. Len(client.queue) /\ client.queue[1] = h
              /\ Len(c.queue) \in Nat
              /\ \A i \in 1 .. Len(client.queue) : i = 1 \/ \E j \in 1 .. Len(c.queue) :
                    j + 1 = i /\ c.queue[j] = client.queue[i]
              /\ \A j \in 1 .. Len(c.queue) :
                    /\ j + 1 \in 1 .. Len(client.queue) /\ c.queue[j] = client.queue[j + 1]
                    /\ h.seq < c.queue[j].seq
<1>1. PICK c \in ClientType :
         /\ Wrote(c, client.queue[1]) /\ c.replay = client.replay
         /\ c.queue \in Seq(Item) /\ Len(client.queue) \in Nat
         /\ Len(client.queue) = Len(c.queue) + 1
         /\ \A i \in 1 .. Len(c.queue) : c.queue[i] = client.queue[i + 1]
         /\ client' = IF client.queue[1].kind \in Terminals THEN Ended(c, client.queue[1].kind)
                      ELSE c
  BY WriteLiveFields
<1> PICK h : h = client.queue[1]
  OBVIOUS
<1>2. Len(c.queue) \in Nat
  BY <1>1
<1>3. 1 \in 1 .. Len(client.queue) /\ h \in Items
  <2>1. 1 \in 1 .. Len(client.queue)
    BY <1>1, <1>2
  <2> QED BY <2>1 DEF Items
<1>4. client.phase \in Serving
  BY DEF WriteLive, Serving
<1>5. /\ h.seq <= client.cursor
      /\ \A i, j \in 1 .. Len(client.queue) : i < j => client.queue[i].seq < client.queue[j].seq
      /\ \E e \in Event : h = ToItem(e)
  BY <1>3, <1>4 DEF Inv, ReaderInv
<1>6. /\ h.seq \in Seqs
      /\ h.kind \in Thinking \cup {"text"} => h.content = <<h.seq>>
      /\ h.replace <=> h.kind = "round"
  <2>1. PICK e \in Event : h = ToItem(e)
    BY <1>5
  <2> QED BY <2>1, ToItemFields DEF Event
<1>7. \A i \in 1 .. Len(client.queue) : i = 1 \/ \E j \in 1 .. Len(c.queue) :
         j + 1 = i /\ c.queue[j] = client.queue[i]
  <2> SUFFICES ASSUME NEW i \in 1 .. Len(client.queue), i # 1
               PROVE  \E j \in 1 .. Len(c.queue) : j + 1 = i /\ c.queue[j] = client.queue[i]
    OBVIOUS
  <2> PICK j : j = i - 1
    OBVIOUS
  <2>1. j \in 1 .. Len(c.queue) /\ j + 1 = i
    BY <1>1, <1>2
  <2> QED BY <1>1, <2>1
<1>8. ASSUME NEW j \in 1 .. Len(c.queue)
      PROVE  /\ j + 1 \in 1 .. Len(client.queue) /\ c.queue[j] = client.queue[j + 1]
             /\ h.seq < c.queue[j].seq
  <2>1. j + 1 \in 1 .. Len(client.queue) /\ 1 < j + 1
    BY <1>1, <1>2
  <2>2. c.queue[j] = client.queue[j + 1]
    BY <1>1
  <2> QED BY <1>3, <1>5, <2>1, <2>2
<1> QED BY <1>1, <1>2, <1>3, <1>5, <1>6, <1>7, <1>8

\* The last event is written, and the connection ends.
LEMMA WriteEndStep ==
    ASSUME Inv, WriteLive, client'.phase = "off"
    PROVE  Inv'
<1>1. PICK c \in ClientType, h \in Items :
              /\ Wrote(c, h) /\ c.replay = client.replay
              /\ client' = IF h.kind \in Terminals THEN Ended(c, h.kind) ELSE c
              /\ h.seq \in Seqs /\ h.seq <= client.cursor
              /\ h.kind \in Thinking \cup {"text"} => h.content = <<h.seq>>
              /\ h.replace <=> h.kind = "round"
              /\ 1 \in 1 .. Len(client.queue) /\ client.queue[1] = h
              /\ Len(c.queue) \in Nat
              /\ \A i \in 1 .. Len(client.queue) : i = 1 \/ \E j \in 1 .. Len(c.queue) :
                    j + 1 = i /\ c.queue[j] = client.queue[i]
              /\ \A j \in 1 .. Len(c.queue) :
                    /\ j + 1 \in 1 .. Len(client.queue) /\ c.queue[j] = client.queue[j + 1]
                    /\ h.seq < c.queue[j].seq
  BY WriteLiveHead
<1>2. /\ store' = store /\ run' = run /\ UNCHANGED <<store, run>> /\ client.phase = "live"
      /\ client.replay = {}
  BY DEF WriteLive, Inv, PlanInv
<1>3. h.kind \in Terminals /\ client' = Ended(c, h.kind)
  BY <1>1, <1>2 DEF Wrote
<1>4. /\ client' \in ClientType
      /\ client'.phase = "off" /\ client'.plan = NoPlan /\ client'.replay = {} /\ client'.queue = <<>>
      /\ client'.batch = {} /\ client'.reader = "none" /\ client'.cursor = 0 /\ client'.after = 0
      /\ client'.told = h.kind /\ client'.last = c.last
      /\ client'.text = c.text /\ client'.think = c.think /\ client'.lagged = c.lagged
      /\ client'.fresh = c.fresh
  <2>1. h.kind \in {"none", "refused", "dropped", "interrupted"} \cup Terminals
    BY <1>3
  <2> QED BY ZenonT(30), <1>3, <2>1, EndedFields
<1>5. client'.plan.list = {} /\ client'.plan.textSeq = 0 /\ client'.plan.thinkSeq = 0
  BY <1>4 DEF NoPlan
<1>6. Events' = store.window /\ Items' = {}
  BY <1>2, <1>4, <1>5 DEF Events, Items
<1>7. /\ run.outcome # "none" /\ c.last <= store.seq /\ c.lagged = client.lagged
      /\ c.fresh = client.fresh
      /\ ~ run.withdrawn => /\ c.text # <<>> => run.text # <<>>
                            /\ c.think # <<>> => run.think # <<>>
                            /\ h.kind # "text" => c.text = client.text
                            /\ h.kind \notin Thinking => c.think = client.think
  <2>1. c.lagged = client.lagged /\ c.fresh = client.fresh
    BY <1>1 DEF Wrote
  <2> QED BY <1>1, <1>3, <2>1, WrittenKnown
<1>8. TypeInv' /\ RunInv' /\ WindowInv' /\ CheckpointInv'
  BY <1>2, <1>4, SubscriberFrame
<1>9. PastInv'
  <2>1. store.seq \in Nat
    BY BoundAssumption DEF Inv, TypeInv, StoreType
  <2>2. \A e \in store.window : Past(e)
    BY DEF Inv, PastInv, Events
  <2> QED BY <1>2, <1>4, <1>5, <1>6, <1>7, <2>1, <2>2 DEF PastInv, Past
<1>10. KnownInv'
  <2>1. \A e : Known(e) => Known(e)'
    <3>1. client'.batch \subseteq store.window \cup client.batch
      BY <1>4
    <3> QED BY <1>2, <3>1, KnownFrame
  <2>2. ~ run.withdrawn => \A e \in store.window : Known(e)
    BY DEF Inv, KnownInv, Events
  <2> QED BY <1>2, <1>4, <1>6, <1>7, <2>1, <2>2 DEF KnownInv
<1>11. PlanInv' /\ ListInv' /\ TextPlanInv' /\ ThinkPlanInv' /\ ReaderInv' /\ TextInv' /\ ThinkInv'
  BY <1>2, <1>4, <1>5 DEF PlanInv, ListInv, TextPlanInv, ThinkPlanInv, ReaderInv, TextInv, ThinkInv,
     Attending, Reading, Serving
<1>12. EndInv'
  <2> SUFFICES ASSUME ~ client.lagged, ~ run.withdrawn
               PROVE  client'.text = run.text /\ client'.think = run.think
    BY <1>2, <1>4, <1>7 DEF EndInv
  <2>1. Attending
    BY <1>2 DEF Attending, Serving
  <2>2. client.cursor >= h.seq
    <3>1. client.cursor \in Nat /\ h.seq \in Nat
      BY <1>1, BoundAssumption DEF Inv, TypeInv, ClientType, Seqs
    <3> QED BY <1>1, <3>1
  <2>3. \A n \in Queued({"text"}) \cup Queued(Thinking) : h.seq <= n
    <3> SUFFICES ASSUME NEW n \in Queued({"text"}) \cup Queued(Thinking) PROVE h.seq <= n
      OBVIOUS
    <3>1. PICK i \in 1 .. Len(client.queue) : n = client.queue[i].seq
      BY DEF Queued
    <3>2. h.seq \in Nat /\ n \in Nat
      <4>1. client.queue[i] \in Item
        BY ElementOfSeq DEF Inv, TypeInv, ClientType
      <4> QED BY <1>1, <3>1, <4>1 DEF Seqs, Item
    <3>3. CASE i = 1
      <4>1. h = client.queue[1]
        BY <1>1
      <4> QED BY ONLY <3>1, <3>2, <3>3, <4>1
    <3>4. CASE i # 1
      <4>1. PICK j \in 1 .. Len(c.queue) : c.queue[j] = client.queue[i]
        BY <1>1, <3>4
      <4>2. h.seq < c.queue[j].seq
        BY <1>1
      <4> QED BY ONLY <3>1, <3>2, <4>1, <4>2
    <3> QED BY <3>3, <3>4
  <2>4. client.text = run.text /\ client.think = run.think
    BY <1>2, <1>3, <2>1, <2>2, <2>3, EndShows
  <2>5. h.kind # "text" /\ h.kind \notin Thinking
    BY <1>3 DEF Terminals, Outcomes, Thinking
  <2> QED BY <1>4, <1>7, <2>4, <2>5
<1>13. OtherInv'
  <2>1. \A t \in store.window : t.kind \in Terminals =>
           \A e \in store.window : e.kind = "other" => e.seq < t.seq
    BY DEF Inv, OtherInv, Events
  <2> QED BY <1>2, <1>4, <1>6, <2>1 DEF OtherInv, Serving
<1>14. DroppedInv'
  BY <1>2, <1>4, <1>7 DEF Inv, DroppedInv
<1> QED BY <1>8, <1>9, <1>10, <1>11, <1>12, <1>13, <1>14 DEF Inv

\* An item of the channel is written, and the connection goes on.
LEMMA WriteOnStep ==
    ASSUME Inv, WriteLive, client'.phase # "off"
    PROVE  Inv'
<1>a. PICK c \in ClientType, h \in Items :
              /\ Wrote(c, h) /\ c.replay = client.replay
              /\ client' = IF h.kind \in Terminals THEN Ended(c, h.kind) ELSE c
              /\ h.seq \in Seqs /\ h.seq <= client.cursor
              /\ h.kind \in Thinking \cup {"text"} => h.content = <<h.seq>>
              /\ h.replace <=> h.kind = "round"
              /\ 1 \in 1 .. Len(client.queue) /\ client.queue[1] = h
              /\ Len(c.queue) \in Nat
              /\ \A i \in 1 .. Len(client.queue) : i = 1 \/ \E j \in 1 .. Len(c.queue) :
                    j + 1 = i /\ c.queue[j] = client.queue[i]
              /\ \A j \in 1 .. Len(c.queue) :
                    /\ j + 1 \in 1 .. Len(client.queue) /\ c.queue[j] = client.queue[j + 1]
                    /\ h.seq < c.queue[j].seq
  BY WriteLiveHead
<1> PICK m : m = h.seq
  OBVIOUS
<1>1. /\ store' = store /\ run' = run /\ UNCHANGED <<store, run>> /\ client.phase = "live"
      /\ client.replay = {} /\ client.told = "none"
  BY DEF WriteLive, Inv, PlanInv
<1>2. h.kind \notin Terminals /\ client' = c
  <2>1. CASE h.kind \in Terminals
    <3>1. h.kind \in {"none", "refused", "dropped", "interrupted"} \cup Terminals
      BY <2>1
    <3>2. client'.phase = "off"
      BY <1>a, <2>1, <3>1, EndedFields
    <3> QED BY <3>2
  <2>2. CASE h.kind \notin Terminals
    BY <1>a, <2>2
  <2> QED BY <2>1, <2>2
<1>3. /\ client' \in ClientType /\ Wrote(client', h) /\ client'.replay = {}
      /\ m \in Seqs /\ m \in Nat /\ m <= client.cursor
      /\ h.kind \in Thinking \cup {"text"} => h.content = <<m>>
      /\ h.replace <=> h.kind = "round"
      /\ 1 \in 1 .. Len(client.queue) /\ client.queue[1] = h
  BY <1>a, <1>1, <1>2 DEF Seqs
<1>4. /\ \A i \in 1 .. Len(client.queue) : i = 1 \/ \E j \in 1 .. Len(client'.queue) :
            j + 1 = i /\ client'.queue[j] = client.queue[i]
      /\ \A j \in 1 .. Len(client'.queue) :
            /\ j + 1 \in 1 .. Len(client.queue) /\ client'.queue[j] = client.queue[j + 1]
            /\ m < client'.queue[j].seq
  BY <1>a, <1>2
<1>5. /\ client'.phase = client.phase /\ client'.resumed = client.resumed /\ client'.plan = client.plan
      /\ client'.cursor = client.cursor /\ client'.after = client.after /\ client'.reader = client.reader
      /\ client'.batch = client.batch /\ client'.lagged = client.lagged /\ client'.fresh = client.fresh
      /\ client'.got = IF h.kind = "other" THEN client.got \cup {m} ELSE client.got
      /\ client'.told = "none"
  BY <1>1, <1>2, <1>3 DEF Wrote
<1>6. /\ h \in Item /\ client'.last <= store.seq
      /\ ~ run.withdrawn => Known(h) /\ h.kind # "moderation_blocked"
      /\ ~ run.withdrawn => /\ client'.text # <<>> => run.text # <<>>
                            /\ client'.think # <<>> => run.think # <<>>
                            /\ h.kind # "text" => client'.text = client.text
                            /\ h.kind \notin Thinking => client'.think = client.think
                            /\ h.kind = "text" => client'.text = Append(client.text, m)
                            /\ h.kind = "think" => client'.think = Append(client.think, m)
                            /\ h.kind = "round" => client'.think = <<m>>
  <2>1. /\ h \in Item /\ client'.last <= store.seq
        /\ ~ run.withdrawn => Known(h) /\ h.kind # "moderation_blocked"
        /\ ~ run.withdrawn => /\ client'.text # <<>> => run.text # <<>>
                              /\ client'.think # <<>> => run.think # <<>>
                              /\ h.kind # "text" => client'.text = client.text
                              /\ h.kind \notin Thinking => client'.think = client.think
                              /\ h.kind \in Thinking /\ h.replace => client'.think = h.content
                              /\ h.kind = "text" /\ ~ h.replace =>
                                    \A n \in Seqs : h.content = <<n>> => client'.text = Append(client.text, n)
                              /\ h.kind \in Thinking /\ ~ h.replace =>
                                    \A n \in Seqs : h.content = <<n>> => client'.think = Append(client.think, n)
    BY <1>3, WrittenKnown
  <2>2. /\ h.kind = "text" => h.kind \in Thinking \cup {"text"} /\ h.kind # "round"
        /\ h.kind = "think" => h.kind \in Thinking \cup {"text"} /\ h.kind \in Thinking /\ h.kind # "round"
        /\ h.kind = "round" => h.kind \in Thinking \cup {"text"} /\ h.kind \in Thinking
    BY DEF Thinking
  <2> QED BY <1>3, <2>1, <2>2, Zenon
<1>7. Events' = Events /\ Items' \subseteq Items /\ \A i \in Items : i \in Items' \/ i = h
  <2>1. Events' = Events
    BY <1>1, <1>5 DEF Events
  <2>2. \A i \in Items' : \E j \in 1 .. Len(client'.queue) : i = client'.queue[j]
    BY <1>3 DEF Items
  <2>3. \A i \in Items : \E j \in 1 .. Len(client.queue) : i = client.queue[j]
    BY <1>1 DEF Items
  <2>4. /\ \A j \in 1 .. Len(client'.queue) : client'.queue[j] \in Items'
        /\ \A j \in 1 .. Len(client.queue) : client.queue[j] \in Items
    BY DEF Items
  <2>5. ASSUME NEW i \in Items' PROVE i \in Items
    <3>1. PICK j \in 1 .. Len(client'.queue) : i = client'.queue[j]
      BY <2>2
    <3>2. j + 1 \in 1 .. Len(client.queue) /\ i = client.queue[j + 1]
      BY <1>4, <3>1
    <3> QED BY <2>4, <3>2
  <2>6. ASSUME NEW i \in Items PROVE i \in Items' \/ i = h
    <3>1. PICK k \in 1 .. Len(client.queue) : i = client.queue[k]
      BY <2>3
    <3>2. CASE k = 1
      BY <1>3, <3>1, <3>2
    <3>3. CASE k # 1
      <4>1. PICK j \in 1 .. Len(client'.queue) : client'.queue[j] = client.queue[k]
        BY <1>4, <3>3
      <4> QED BY <2>4, <3>1, <4>1
    <3> QED BY <3>2, <3>3
  <2> QED BY <2>1, <2>5, <2>6
<1>8. TypeInv' /\ RunInv' /\ WindowInv' /\ CheckpointInv'
  BY <1>1, <1>3, SubscriberFrame
<1>9. PastInv'
  <2>1. \A e \in Events' \cup Items' : Past(e)'
    BY <1>1, <1>7 DEF Inv, PastInv, Past
  <2> QED BY <1>1, <1>5, <1>6, <2>1 DEF Inv, PastInv, Terminals, Outcomes
<1>10. KnownInv'
  <2>1. \A e : Known(e) => Known(e)'
    <3>1. client'.batch \subseteq store.window \cup client.batch
      BY <1>5
    <3> QED BY <1>1, <3>1, KnownFrame
  <2> QED BY <1>1, <1>6, <1>7, <2>1 DEF Inv, KnownInv
<1>11. PlanInv' /\ ListInv' /\ TextPlanInv' /\ ThinkPlanInv' /\ EndInv'
  <2>1. PlanInv'
    BY <1>1, <1>3, <1>5 DEF Inv, PlanInv, Reading, Serving
  <2> QED BY <1>1, <1>5, <2>1 DEF ListInv, TextPlanInv, ThinkPlanInv, EndInv, Outcomes
<1>12. client.phase \in Serving
  BY <1>1 DEF Serving
<1>13. ReaderInv'
  <2>1. /\ \A i \in 1 .. Len(client.queue) : client.queue[i].seq <= client.cursor
        /\ \A i, j \in 1 .. Len(client.queue) : i < j => client.queue[i].seq < client.queue[j].seq
        /\ \A i \in 1 .. Len(client.queue) : \E e \in Event : client.queue[i] = ToItem(e)
    BY <1>12 DEF Inv, ReaderInv
  <2>2. /\ \A i \in 1 .. Len(client'.queue) : client'.queue[i].seq <= client.cursor
        /\ \A i \in 1 .. Len(client'.queue) : \E e \in Event : client'.queue[i] = ToItem(e)
    BY ZenonT(30), <1>4, <2>1
  <2>3. \A i, j \in 1 .. Len(client'.queue) : i < j => client'.queue[i].seq < client'.queue[j].seq
    <3> SUFFICES ASSUME NEW i \in 1 .. Len(client'.queue), NEW j \in 1 .. Len(client'.queue), i < j
                 PROVE  client'.queue[i].seq < client'.queue[j].seq
      OBVIOUS
    <3>1. /\ i + 1 \in 1 .. Len(client.queue) /\ client'.queue[i] = client.queue[i + 1]
          /\ j + 1 \in 1 .. Len(client.queue) /\ client'.queue[j] = client.queue[j + 1]
      BY <1>4
    <3>2. i + 1 < j + 1
      OBVIOUS
    <3> QED BY <2>1, <3>1, <3>2
  <2> QED BY <1>1, <1>3, <1>5, <1>12, <2>2, <2>3 DEF Inv, ReaderInv
<1>14. OtherInv'
  <2>1. \A t \in Events' \cup Items' : t.kind \in Terminals =>
          \A e \in store.window : e.kind = "other" => e.seq < t.seq
    BY <1>7 DEF Inv, OtherInv
  <2>2. ASSUME ~ client.resumed, ~ client.lagged, NEW e \in store.window, MustHold(e)
        PROVE  \/ e.seq \in client'.got
               \/ \E i \in Items' : i.kind = "other" /\ i.seq = e.seq
               \/ e.seq > client.cursor
    <3>1. \/ e.seq \in client.got
          \/ \E i \in Items : i.kind = "other" /\ i.seq = e.seq
          \/ e.seq > client.cursor
      BY <1>12, <2>2 DEF Inv, OtherInv
    <3> QED BY <1>5, <1>7, <3>1
  <2>3. \A e : MustHold(e)' = MustHold(e)
    BY <1>1 DEF MustHold
  <2> QED BY <1>1, <1>5, <2>1, <2>2, <2>3 DEF OtherInv
<1>15. DroppedInv'
  BY <1>1, <1>5, <1>7 DEF Inv, DroppedInv
<1>16. /\ run.text \in Seq(Nat) /\ Increasing(run.text) /\ client.text \in Seq(Nat)
       /\ run.think \in Seq(Nat) /\ Increasing(run.think) /\ client.think \in Seq(Nat)
       /\ client.cursor \in Nat /\ client.plan.textSeq \in Nat /\ client.plan.thinkSeq \in Nat
       /\ \A i \in 1 .. Len(client.queue) : client.queue[i] \in Items /\ client.queue[i].seq \in Nat
  <2>1. run \in RunType /\ client \in ClientType
    BY DEF Inv, TypeInv
  <2>2. run.text \in Content /\ run.think \in Content /\ client.text \in Content /\ client.think \in Content
    BY <2>1 DEF RunType, ClientType
  <2>3. /\ run.text \in Seq(Nat) /\ client.text \in Seq(Nat)
        /\ run.think \in Seq(Nat) /\ client.think \in Seq(Nat)
    BY <2>2, ContentIsNat
  <2>4. \A i \in 1 .. Len(client.queue) : client.queue[i] \in Items /\ client.queue[i].seq \in Nat
    <3>1. \A i \in 1 .. Len(client.queue) : client.queue[i] \in Item
      BY <2>1, ElementOfSeq DEF ClientType
    <3>2. \A y \in Item : y.seq \in Nat
      BY DEF Item, Seqs
    <3> QED BY <3>1, <3>2 DEF Items
  <2>5. client.cursor \in Nat /\ client.plan.textSeq \in Nat /\ client.plan.thinkSeq \in Nat
    BY SMTT(30), <2>1, BoundAssumption DEF ClientType, PlanType
  <2>6. Increasing(run.text) /\ Increasing(run.think)
    BY DEF Inv, CheckpointInv
  <2> QED BY <2>3, <2>4, <2>5, <2>6
<1>17. \A kinds :
         /\ h.kind \in kinds => Queued(kinds) = Queued(kinds)' \cup {m}
         /\ h.kind \notin kinds => Queued(kinds)' = Queued(kinds)
         /\ \A n \in Queued(kinds)' : n \in Nat /\ m < n
         /\ \A n \in Queued(kinds)' : \E i \in Items : i.kind \in kinds /\ i.seq = n
  <2> SUFFICES ASSUME NEW kinds
               PROVE  /\ h.kind \in kinds => Queued(kinds) = Queued(kinds)' \cup {m}
                      /\ h.kind \notin kinds => Queued(kinds)' = Queued(kinds)
                      /\ \A n \in Queued(kinds)' : n \in Nat /\ m < n
                      /\ \A n \in Queued(kinds)' : \E i \in Items : i.kind \in kinds /\ i.seq = n
    OBVIOUS
  <2>1. ASSUME NEW n \in Queued(kinds)'
        PROVE  n \in Queued(kinds) /\ n \in Nat /\ m < n /\ \E i \in Items : i.kind \in kinds /\ i.seq = n
    <3>1. PICK j \in 1 .. Len(client'.queue) : client'.queue[j].kind \in kinds /\ n = client'.queue[j].seq
      BY DEF Queued
    <3> PICK k : k = j + 1
      OBVIOUS
    <3>2. k \in 1 .. Len(client.queue) /\ client'.queue[j] = client.queue[k] /\ m < client'.queue[j].seq
      BY <1>4
    <3>3. client.queue[k].kind \in kinds /\ n = client.queue[k].seq
      BY <3>1, <3>2
    <3>4. n \in Queued(kinds)
      BY <3>2, <3>3 DEF Queued
    <3> QED BY <1>16, <3>1, <3>2, <3>3, <3>4
  <2>2. ASSUME NEW n \in Queued(kinds)
        PROVE  n \in Queued(kinds)' \/ (n = m /\ h.kind \in kinds)
    <3>1. PICK k \in 1 .. Len(client.queue) : client.queue[k].kind \in kinds /\ n = client.queue[k].seq
      BY DEF Queued
    <3>2. CASE k = 1
      BY <1>3, <3>1, <3>2
    <3>3. CASE k # 1
      <4>1. PICK j \in 1 .. Len(client'.queue) : client'.queue[j] = client.queue[k]
        BY <1>4, <3>3
      <4> QED BY <3>1, <4>1 DEF Queued
    <3> QED BY <3>2, <3>3
  <2>3. h.kind \in kinds => m \in Queued(kinds)
    BY <1>3 DEF Queued
  <2> QED BY <2>1, <2>2, <2>3
<1>18. \A seq : ToRead(seq)' = ToRead(seq) /\ \A n \in ToRead(seq) : n \in Nat /\ m < n
  <2>1. \A seq : ToRead(seq)' = ToRead(seq)
    BY <1>5 DEF ToRead
  <2>2. \A seq : \A n \in ToRead(seq) : n \in Nat /\ m < n
    BY <1>3, <1>16 DEF ToRead, Seqs
  <2> QED BY <2>1, <2>2
<1>19. TextInv'
  <2> SUFFICES ASSUME Attending
               PROVE  Leads(run.text, client.text, {"text"}, client.plan.textSeq, {})'
    BY <1>1, <1>5 DEF TextInv, Attending
  <2>1. ~ run.withdrawn
    BY DEF Attending
  <2> PICK seq : seq = client.plan.textSeq
    OBVIOUS
  <2>2. Follows(run.text, client.text, ToRead(seq), Queued({"text"}), {})
    <3>1. Leads(run.text, client.text, {"text"}, seq, {})
      BY DEF Inv, TextInv
    <3> QED BY <1>1, <3>1 DEF Leads
  <2>3. Follows(run.text, client'.text, ToRead(seq), Queued({"text"})', {})
    <3>1. CASE h.kind # "text"
      BY <1>6, <1>17, <2>1, <2>2, <3>1
    <3>2. CASE h.kind = "text"
      <4>1. h.kind # "round"
        BY <3>2
      <4>2. client'.text = IF h.kind = "round" THEN <<m>> ELSE Append(client.text, m)
        BY <1>6, <2>1, <3>2, <4>1
      <4>3. /\ Queued({"text"}) = Queued({"text"})' \cup {m} /\ Queued({"text"})' \in SUBSET Nat
            /\ \A n \in Queued({"text"})' : m < n
        BY <1>17, <3>2
      <4>4. ToRead(seq) \in SUBSET Nat /\ \A n \in ToRead(seq) : m < n
        BY <1>18
      <4>5. \A n \in Queued({"text"})' : \E i \in 1 .. Len(run.text) : run.text[i] = n
        <5> SUFFICES ASSUME NEW n \in Queued({"text"})'
                     PROVE  \E i \in 1 .. Len(run.text) : run.text[i] = n
          OBVIOUS
        <5>1. PICK item \in Items : item.kind \in {"text"} /\ item.seq = n
          BY <1>17
        <5>2. TextKnown(item)
          BY <2>1 DEF Inv, KnownInv, Known
        <5> QED BY <5>1, <5>2 DEF TextKnown
      <4>6. /\ {} \subseteq ToRead(seq) \cup Queued({"text"})
            /\ h.kind = "round" => \A i \in 1 .. Len(run.text) : run.text[i] = m => i = 1
            /\ run.text # <<>> => \A n \in Queued({"text"})' : n > run.text[1] =>
                  \E i \in 1 .. Len(run.text) : run.text[i] = n
            /\ run.text # <<>> /\ run.text[1] = m /\ run.text[1] \in {} => h.kind = "round"
            /\ run.text # <<>> /\ run.text[1] # m /\ run.text[1] \in {} => run.text[1] \in {}
        BY <4>1, <4>5
      <4>7. Heads(run.text, client.text, client'.text, m, h.kind, ToRead(seq), Queued({"text"}), {},
                  Queued({"text"})', {})
        BY <4>2, <4>3, <4>4, <4>6 DEF Heads
      <4>8. run.text \in Seq(Nat) /\ client.text \in Seq(Nat) /\ m \in Nat /\ Increasing(run.text)
        BY <1>3, <1>16
      <4> QED BY <2>2, <4>7, <4>8, FollowsWritten, Zenon
    <3> QED BY <3>1, <3>2
  <2>4. client'.plan.textSeq = seq /\ ToRead(seq)' = ToRead(seq)
    BY <1>5, <1>18
  <2> QED BY <1>1, <1>3, <2>3, <2>4 DEF Leads
<1>20. ThinkInv'
  <2> SUFFICES ASSUME Attending
               PROVE  Leads(run.think, client.think, Thinking, client.plan.thinkSeq, Rounds)'
    BY <1>1, <1>5 DEF ThinkInv, Attending
  <2>1. ~ run.withdrawn
    BY DEF Attending
  <2> PICK seq : seq = client.plan.thinkSeq
    OBVIOUS
  <2>2. Follows(run.think, client.think, ToRead(seq), Queued(Thinking), Rounds)
    <3>1. Leads(run.think, client.think, Thinking, seq, Rounds)
      BY DEF Inv, ThinkInv
    <3> QED BY <1>1, <3>1 DEF Leads
  <2>3. client'.plan.thinkSeq = seq /\ ToRead(seq)' = ToRead(seq)
    BY <1>5, <1>18
  <2>4. \A n : RoundAt(n)' = RoundAt(n)
    BY <1>1, <1>5 DEF RoundAt
  <2>5. ASSUME NEW n \in Rounds PROVE n \in Rounds' \/ (n = m /\ h.kind = "round")
    <3>1. CASE n \in ToRead(seq) /\ RoundAt(n)
      BY <2>3, <2>4, <3>1 DEF Rounds
    <3>2. CASE \E i \in 1 .. Len(client.queue) : client.queue[i].kind = "round" /\ client.queue[i].seq = n
      <4>1. PICK k \in 1 .. Len(client.queue) : client.queue[k].kind = "round" /\ client.queue[k].seq = n
        BY <3>2
      <4>2. CASE k = 1
        BY <1>3, <4>1, <4>2
      <4>3. CASE k # 1
        <5>1. PICK j \in 1 .. Len(client'.queue) : client'.queue[j] = client.queue[k]
          BY <1>4, <4>3
        <5> QED BY <4>1, <5>1 DEF Rounds
      <4> QED BY <4>2, <4>3
    <3> QED BY <3>1, <3>2 DEF Rounds
  <2>6. Follows(run.think, client'.think, ToRead(seq), Queued(Thinking)', Rounds')
    <3>1. CASE h.kind \notin Thinking
      <4>1. h.kind # "round"
        BY <3>1 DEF Thinking
      <4>2. Rounds \subseteq Rounds'
        BY <2>5, <4>1
      <4>3. Follows(run.think, client.think, ToRead(seq), Queued(Thinking), Rounds')
        BY <2>2, <4>2, FollowsRounds, Zenon
      <4> QED BY <1>6, <1>17, <2>1, <3>1, <4>3
    <3>2. CASE h.kind \in Thinking
      <4>1. client'.think = IF h.kind = "round" THEN <<m>> ELSE Append(client.think, m)
        BY <1>6, <2>1, <3>2 DEF Thinking
      <4>2. /\ Queued(Thinking) = Queued(Thinking)' \cup {m} /\ Queued(Thinking)' \in SUBSET Nat
            /\ \A n \in Queued(Thinking)' : m < n
        BY <1>17, <3>2
      <4>3. ToRead(seq) \in SUBSET Nat /\ \A n \in ToRead(seq) : m < n
        BY <1>18
      <4>4. Rounds \subseteq ToRead(seq) \cup Queued(Thinking)
        BY DEF Rounds, Queued, Thinking
      <4>5. h.kind = "round" => \A i \in 1 .. Len(run.think) : run.think[i] = m => i = 1
        <5>1. ThinkKnown(h) /\ Len(run.think) \in Nat
          BY <1>6, <1>16, <2>1 DEF Known
        <5> QED BY <5>1 DEF ThinkKnown
      <4>6. \A n \in Queued(Thinking)' : n > run.think[1] => \E i \in 1 .. Len(run.think) : run.think[i] = n
        <5> SUFFICES ASSUME NEW n \in Queued(Thinking)', n > run.think[1]
                     PROVE  \E i \in 1 .. Len(run.think) : run.think[i] = n
          OBVIOUS
        <5>1. PICK item \in Items : item.kind \in Thinking /\ item.seq = n
          BY <1>17
        <5>2. ThinkKnown(item)
          BY <2>1 DEF Inv, KnownInv, Known
        <5>3. run.think[1] \in Nat /\ n \in Nat
          <6>1. run.think # <<>>
            BY <5>1, <5>2 DEF ThinkKnown
          <6>2. 1 \in 1 .. Len(run.think)
            BY <1>16, <6>1, EmptySeq
          <6> QED BY <1>16, <1>17, <6>2, ElementOfSeq
        <5>4. ~ (n < run.think[1])
          BY <5>3
        <5> QED BY <5>1, <5>2, <5>4 DEF ThinkKnown
      <4>7. m \in Rounds => h.kind = "round"
        <5> SUFFICES ASSUME m \in Rounds PROVE h.kind = "round"
          OBVIOUS
        <5>1. m \notin ToRead(seq)
          BY <1>3, <4>3
        <5>2. PICK k \in 1 .. Len(client.queue) : client.queue[k].kind = "round" /\ client.queue[k].seq = m
          BY <5>1 DEF Rounds
        <5>3. CASE k = 1
          BY <1>3, <5>2, <5>3
        <5>4. CASE k # 1
          <6>1. PICK j \in 1 .. Len(client'.queue) : client'.queue[j] = client.queue[k]
            BY <1>4, <5>4
          <6>2. m < m
            BY <1>4, <5>2, <6>1
          <6> QED BY <1>3, <6>2
        <5> QED BY <5>3, <5>4
      <4>8. Heads(run.think, client.think, client'.think, m, h.kind, ToRead(seq), Queued(Thinking),
                  Rounds, Queued(Thinking)', Rounds')
        BY <2>5, <4>1, <4>2, <4>3, <4>4, <4>5, <4>6, <4>7 DEF Heads
      <4>9. run.think \in Seq(Nat) /\ client.think \in Seq(Nat) /\ m \in Nat /\ Increasing(run.think)
        BY <1>3, <1>16
      <4> QED BY <2>2, <4>8, <4>9, FollowsWritten, Zenon
    <3> QED BY <3>1, <3>2
  <2> QED BY <1>1, <1>3, <2>3, <2>6 DEF Leads
<1> QED BY <1>8, <1>9, <1>10, <1>11, <1>13, <1>14, <1>15, <1>19, <1>20 DEF Inv

\* No step at all.
LEMMA StutterStep ==
    ASSUME Inv, UNCHANGED vars
    PROVE  Inv'
<1>1. store' = store /\ run' = run /\ client' = client
  BY DEF vars
<1>2. TypeInv' /\ RunInv' /\ WindowInv' /\ CheckpointInv'
  BY <1>1, SubscriberFrame DEF Inv, TypeInv
<1>3. \A e : Known(e) => Known(e)'
  BY <1>1, KnownFrame
<1>4. Events' = Events /\ Items' = Items
  BY <1>1 DEF Events, Items
<1>5. PastInv' /\ KnownInv'
  BY <1>1, <1>3, <1>4 DEF Inv, PastInv, Past, KnownInv
<1>6. PlanInv' /\ ListInv'
  BY <1>1 DEF Inv, PlanInv, ListInv
<1>7. TextPlanInv'
  BY <1>1 DEF Inv, TextPlanInv, Beyond
<1>8. ThinkPlanInv'
  BY <1>1 DEF Inv, ThinkPlanInv, Beyond, ThinkKnown, TextKnown, RoundAt
<1>9. ReaderInv'
  BY <1>1 DEF Inv, ReaderInv
<1>10. TextInv' /\ ThinkInv'
  BY <1>1 DEF Inv, TextInv, ThinkInv, Attending, Leads, ToRead, Queued, Rounds, RoundAt
<1>11. EndInv' /\ OtherInv' /\ DroppedInv'
  BY <1>1, <1>4 DEF Inv, EndInv, OtherInv, MustHold, DroppedInv
<1> QED BY <1>2, <1>5, <1>6, <1>7, <1>8, <1>9, <1>10, <1>11 DEF Inv

-----------------------------------------------------------------------------
(***************************************************************************)
(* The invariant holds throughout.                                         *)
(***************************************************************************)

LEMMA InitInv ==
    ASSUME Init
    PROVE  Inv
<1>1. store = NoStore /\ run = NewRun /\ client = NewClient
  BY DEF Init
<1>2. <<>> \in Content /\ 0 \in 0 .. MaxAppends /\ <<>> \in Seq(Item)
  BY EmptySeq, BoundAssumption DEF Content
<1>3. NoPlan \in PlanType /\ NoPlan.list = {} /\ NoPlan.text = <<>> /\ NoPlan.textSeq = 0
      /\ NoPlan.think = <<>> /\ NoPlan.thinkSeq = 0
  BY <1>2 DEF NoPlan, PlanType
<1>4. /\ store \in StoreType /\ store.window = {} /\ store.seq = 0 /\ store.trimmed = 0
      /\ store.text = <<>> /\ store.textSeq = 0 /\ store.think = <<>> /\ store.thinkSeq = 0
      /\ store.owned
  BY <1>1, <1>2 DEF NoStore, StoreType
<1>5. /\ run \in RunType /\ run.outcome = "none" /\ ~ run.saved /\ ~ run.withdrawn /\ ~ run.dropped
      /\ run.text = <<>> /\ run.think = <<>>
  <2>1. <<>> \in Answers
    BY EmptySeq DEF Answers
  <2> QED BY <1>1, <1>2, <2>1 DEF NewRun, RunType
<1>6. /\ client \in ClientType /\ client.phase = "off" /\ client.plan = NoPlan
      /\ client.replay = {} /\ client.batch = {} /\ client.queue = <<>> /\ client.cursor = 0
      /\ client.after = 0 /\ client.reader = "none" /\ client.last = 0
      /\ client.text = <<>> /\ client.think = <<>> /\ client.told = "none" /\ ~ client.fresh
  <2>1. "off" \in Phases /\ 0 \in Nat
    BY DEF Phases
  <2> HIDE DEF NoPlan
  <2> QED BY <1>1, <1>2, <1>3, <2>1 DEF NewClient, ClientType
<1>7. Events = {} /\ Items = {}
  BY <1>3, <1>4, <1>6 DEF Events, Items
<1>8. TypeInv
  BY <1>4, <1>5, <1>6 DEF TypeInv
<1>9. RunInv
  BY <1>4, <1>5 DEF RunInv
<1>10. WindowInv
  BY <1>4, BoundAssumption DEF WindowInv
<1>11. CheckpointInv
  BY <1>4, <1>5 DEF CheckpointInv, CheckpointOf, Increasing
<1>12. PastInv
  BY <1>3, <1>4, <1>6, <1>7 DEF PastInv, Terminals, Outcomes
<1>13. KnownInv
  BY <1>6, <1>7 DEF KnownInv
<1>14. PlanInv /\ ListInv /\ TextPlanInv /\ ThinkPlanInv
  BY <1>3, <1>6 DEF PlanInv, ListInv, TextPlanInv, ThinkPlanInv, Reading, Serving
<1>15. ReaderInv /\ TextInv /\ ThinkInv
  BY <1>6 DEF ReaderInv, TextInv, ThinkInv, Attending, Serving
<1>16. EndInv /\ OtherInv /\ DroppedInv
  BY <1>5, <1>6, <1>7 DEF EndInv, OtherInv, DroppedInv, Outcomes, Serving
<1> QED BY <1>8, <1>9, <1>10, <1>11, <1>12, <1>13, <1>14, <1>15, <1>16 DEF Inv

LEMMA NextStep ==
    ASSUME Inv, [Next]_vars
    PROVE  Inv'
<1>1. CASE Generation
  BY <1>1, GenerationStep
<1>2. CASE Connect
  BY <1>2, ConnectStep
<1>3. CASE Subscribing
  BY <1>3, ListStep, ReadTextStep, ReadThinkStep, DecideStep DEF Subscribing
<1>4. CASE CallFails
  BY <1>4, EndedStep DEF CallFails, Refuse
<1>5. CASE Read \/ HandOn
  BY <1>5, ReadStep, HandOnStep
<1>6. CASE WriteReplay \/ Replayed
  BY <1>6, WriteReplayStep, ReplayedStep
<1>7. CASE WriteLive
  BY <1>7, WriteEndStep, WriteOnStep
<1>8. CASE ReaderClosed \/ CheckActive
  BY <1>8, EndedStep DEF ReaderClosed, CheckActive, Interrupt, Drop
<1>9. CASE Disconnect
  BY <1>9, EndedStep DEF Disconnect
<1>10. CASE UNCHANGED vars
  BY <1>10, StutterStep
<1> QED BY <1>1, <1>2, <1>3, <1>4, <1>5, <1>6, <1>7, <1>8, <1>9, <1>10 DEF Next, Handling

\* The state of the store, of the run and of a subscriber stay in step, whatever
\* is appended, trimmed, withdrawn or let go between the reads of a subscription.
THEOREM ReplayInvariant == Spec => []Inv
<1>1. Init => Inv
  BY InitInv
<1>2. Inv /\ [Next]_vars => Inv'
  BY NextStep
<1> QED BY <1>1, <1>2, PTL DEF Spec

\* One more piece of a sequence.
LEMMA PiecesAppended ==
    ASSUME NEW S, NEW s \in Seq(S), NEW x \in S
    PROVE  Pieces(Append(s, x)) = Pieces(s) \cup {x}
<1>1. /\ Len(Append(s, x)) = Len(s) + 1 /\ Len(s) \in Nat
      /\ \A i \in 1 .. Len(s) : Append(s, x)[i] = s[i]
      /\ Append(s, x)[Len(s) + 1] = x
  BY Appending
<1>2. 1 .. Len(s) + 1 = (1 .. Len(s)) \cup {Len(s) + 1}
  BY <1>1
<1> QED BY <1>1, <1>2 DEF Pieces

LEMMA NoPieces == Pieces(<<>>) = {}
  BY DEF Pieces

\* Only an append adds to what the store has taken.
LEMMA AnswerStep ==
    ASSUME Inv, AnswerInv, [Next]_vars
    PROVE  AnswerInv'
<1>1. store \in StoreType /\ run \in RunType
  BY DEF Inv, TypeInv
<1>2. CASE run'.answer = run.answer /\ run'.text = run.text
  BY <1>2 DEF AnswerInv, Pieces
<1>3. CASE run'.answer = <<>> /\ run'.text = <<>>
  BY <1>3, NoPieces DEF AnswerInv, Pieces
<1>4. ASSUME NEW kind \in Kinds, Publish(kind), PublishStored(kind), kind = "text"
      PROVE  AnswerInv'
  <2> DEFINE n == store.seq + 1
  <2>1. n \in Seqs /\ n # Unstored /\ store'.seq = n
    <3>1. PICK kept \in MaxEvents .. MaxEvents + Slack : store' = Appended(store, kind, kept)
      BY <1>4 DEF PublishStored, Stored
    <3>2. store.trimmed <= store.seq /\ store.seq < MaxAppends
      BY <1>1, <1>4, BoundAssumption DEF Inv, WindowInv, PublishStored, StoreType
    <3>3. store'.seq = n /\ n \in Seqs
      BY <1>1, <3>1, <3>2, AppendedFields
    <3> QED BY <3>3 DEF Seqs, Unstored
  <2>2. run'.answer = Append(run.answer, n) /\ run'.text = Append(run.text, n)
    BY <1>1, <1>4, <2>1 DEF PublishStored, RunType
  <2>3. run.answer \in Seq({Unstored} \cup Seqs) /\ run.text \in Seq(Seqs)
    BY <1>1 DEF RunType, Answers, Content
  <2>4. /\ Pieces(Append(run.answer, n)) = Pieces(run.answer) \cup {n}
        /\ Pieces(Append(run.text, n)) = Pieces(run.text) \cup {n}
    BY <2>1, <2>3, PiecesAppended
  <2>5. /\ Pieces(Append(run.text, n)) = Pieces(Append(run.answer, n)) \ {Unstored}
        /\ Unstored \notin Pieces(Append(run.answer, n)) => Append(run.answer, n) = Append(run.text, n)
    BY <2>1, <2>4 DEF AnswerInv
  <2>6. /\ Pieces(run'.text) = Pieces(run'.answer) \ {Unstored}
        /\ Unstored \notin Pieces(run'.answer) => run'.answer = run'.text
    BY <2>2, <2>5, Zenon
  <2> QED BY <2>6, Zenon DEF AnswerInv
<1>5. ASSUME NEW kind \in Kinds, PublishUnstored(kind)
      PROVE  AnswerInv'
  <2>1. run'.answer = Append(run.answer, Unstored) /\ run'.text = run.text
    BY <1>1, <1>5 DEF PublishUnstored, RunType
  <2>2. run.answer \in Seq({Unstored} \cup Seqs)
    BY <1>1 DEF RunType, Answers
  <2>3. Pieces(Append(run.answer, Unstored)) = Pieces(run.answer) \cup {Unstored}
    BY <2>2, PiecesAppended
  <2>4. /\ Pieces(run.text) = Pieces(Append(run.answer, Unstored)) \ {Unstored}
        /\ Unstored \in Pieces(Append(run.answer, Unstored))
    BY <2>3 DEF AnswerInv
  <2>5. Pieces(run'.text) = Pieces(run'.answer) \ {Unstored} /\ Unstored \in Pieces(run'.answer)
    BY <2>1, <2>4, Zenon
  <2> QED BY <2>5, Zenon DEF AnswerInv
<1>6. CASE Generation
  <2>1. CASE \E kind \in Kinds : Publish(kind)
    <3>1. PICK kind \in Kinds : Publish(kind)
      BY <2>1
    <3>2. CASE PublishStored(kind) /\ kind # "text"
      BY <1>1, <1>2, <3>2 DEF PublishStored, RunType
    <3> QED BY <1>4, <1>5, <3>1, <3>2 DEF Publish
  <2>2. CASE Withdraw
    <3>1. run'.answer = <<>> /\ run'.text = <<>>
      BY <1>1, <2>2 DEF Withdraw, RunType
    <3> QED BY <1>3, <3>1
  <2>3. CASE ~ (\E kind \in Kinds : Publish(kind)) /\ ~ Withdraw
    <3>1. run'.answer = run.answer /\ run'.text = run.text
      BY <1>1, <1>6, <2>3 DEF Generation, Save, End, PublishBlocked, Release, Lapse, Expire, RunType
    <3> QED BY <1>2, <3>1
  <2> QED BY <2>1, <2>2, <2>3
<1>7. CASE run' = run
  BY <1>2, <1>7
<1>8. CASE ~ Generation
  <2>1. run' = run
    BY <1>8 DEF Next, vars, Connect, Refuse, CallFails, Subscribing, List, ReadText, ReadThink,
       Decide, Read, HandOn, Handling, WriteReplay, Replayed, WriteLive, ReaderClosed, Interrupt,
       Drop, CheckActive, Disconnect
  <2> QED BY SMTT(30), <1>7, <2>1
<1> QED BY <1>6, <1>8

\* The store has taken every piece of the answer but those whose append failed,
\* and nothing else (publishWithLease).
THEOREM AnswerHolds == Spec => []AnswerInv
<1>1. Init => AnswerInv
  BY NoPieces DEF Init, NewRun, AnswerInv
<1>2. Inv /\ AnswerInv /\ [Next]_vars => AnswerInv'
  BY AnswerStep
<1> QED BY <1>1, <1>2, ReplayInvariant, PTL DEF Spec

\* What a subscriber shows, and in what order the store keeps the run for it.
LEMMA InvView ==
    ASSUME Inv, AnswerInv
    PROVE  TypeOK /\ ShownIsSaid /\ EndIsWhole
<1>1. store \in StoreType /\ run \in RunType /\ client \in ClientType
  BY DEF Inv, TypeInv
<1>2. TypeOK
  <2>1. /\ \A e \in store.window : e.seq \in store.seq - (MaxEvents + Slack) + 1 .. store.seq
        /\ \A d, e \in store.window : d.seq = e.seq => d = e
    <3>1. /\ store.seq - (MaxEvents + Slack) <= store.trimmed
          /\ \A e \in store.window : e.seq \in store.trimmed + 1 .. store.seq
          /\ \A d, e \in store.window : d.seq = e.seq => d = e
      BY DEF Inv, WindowInv
    <3>2. store.seq \in Int /\ store.trimmed \in Int /\ MaxEvents \in Int /\ Slack \in Int
      BY <1>1, BoundAssumption DEF StoreType
    <3> QED BY <3>1, <3>2
  <2>2. store.textSeq \in 0 .. store.seq /\ store.thinkSeq \in 0 .. store.seq
    BY <1>1 DEF Inv, CheckpointInv, StoreType
  <2>3. /\ store.window \subseteq Event /\ store.seq \in 0 .. MaxAppends
        /\ store.text \in Content /\ store.think \in Content
    BY <1>1 DEF StoreType
  <2>4. /\ client.replay \subseteq Item /\ client.queue \in Seq(Item) /\ client.batch \subseteq Event
        /\ client.phase \in Phases /\ client.got \subseteq Seqs /\ client.last \in 0 .. MaxAppends
    BY <1>1 DEF ClientType
  <2> QED BY <2>1, <2>2, <2>3, <2>4 DEF TypeOK, Phases
<1>3. ShownIsSaid
  <2> SUFFICES ASSUME client.phase = "live", ~ client.lagged, ~ run.withdrawn
               PROVE  Begins(client.text, run.text)
    BY DEF ShownIsSaid, AnswerInv
  <2>1. client.replay = {} /\ Leads(run.text, client.text, {"text"}, client.plan.textSeq, {})
    BY DEF Inv, PlanInv, TextInv, Attending, Serving
  <2>2. Follows(run.text, client.text, ToRead(client.plan.textSeq), Queued({"text"}), {})
    BY <2>1 DEF Leads
  <2> QED BY <2>2, FollowsBegins
<1>4. EndIsWhole
  BY DEF Inv, EndInv, EndIsWhole, AnswerInv
<1> QED BY <1>2, <1>3, <1>4

\* Nothing of what was withdrawn is on its way to a connection made since.
LEMMA InvWithdrawnStaysAway ==
    ASSUME Inv
    PROVE  WithdrawnStaysAway
<1> SUFFICES ASSUME client.fresh
             PROVE  \A item \in Items : item.content = <<>>
  BY DEF WithdrawnStaysAway, Items
<1>1. CASE client.phase = "off"
  BY <1>1 DEF Inv, PlanInv, Items, Serving
<1>2. CASE client.phase # "off"
  BY <1>2 DEF Inv, DroppedInv
<1> QED BY <1>1, <1>2

\* The events that are not content: who was told the end keeps what was had.
LEMMA MissedFrame ==
    ASSUME NothingMissed, UNCHANGED <<store, run>>,
           \/ client'.told \notin Outcomes
           \/ /\ client'.told = client.told /\ client.got \subseteq client'.got
              /\ client'.resumed = client.resumed
              /\ client.lagged => client'.lagged
    PROVE  NothingMissed'
  BY DEF NothingMissed

LEMMA MissedGeneration ==
    ASSUME Inv, NothingMissed, Generation
    PROVE  NothingMissed'
<1> SUFFICES ASSUME client.told \in Outcomes, ~ client.lagged, ~ client.resumed, client' = client,
                    NEW e \in store'.window, e.kind = "other", e.seq > store'.seq - MaxEvents
             PROVE  e.seq \in client.got
  BY DEF NothingMissed, Generation, Publish, Save, End, Withdraw, PublishBlocked, Release, Lapse,
     Expire
<1>1. store \in StoreType /\ run.outcome # "none" /\ MaxEvents \in Int /\ store.seq \in Int
  BY BoundAssumption DEF Inv, TypeInv, PastInv, Terminals, StoreType
<1>2. CASE store'.window \subseteq store.window /\ store'.seq = store.seq
  BY <1>2 DEF NothingMissed
<1>3. CASE store.active /\ store.seq < MaxAppends /\ Stored("moderation_blocked")
  <2>1. PICK kept \in MaxEvents .. MaxEvents + Slack :
           store' = Appended(store, "moderation_blocked", kept)
    BY <1>3 DEF Stored
  <2>2. store'.seq = store.seq + 1 /\ store'.window = Left(store, "moderation_blocked", kept)
    BY <1>1, <2>1 DEF Appended, StoreType
  <2>3. e \in store.window
    BY <2>2 DEF Left
  <2>4. e.seq > store.seq - MaxEvents
    <3>1. e.seq \in Int
      BY <1>1, <2>3 DEF StoreType, Event, Seqs
    <3> QED BY <1>1, <2>2, <3>1
  <2> QED BY <2>3, <2>4 DEF NothingMissed
<1>4. store' = store \/ store' = Cleared(store) =>
         store'.window \subseteq store.window /\ store'.seq = store.seq
  BY <1>1, ClearedFields
<1>5. CASE \E kind \in Kinds : Publish(kind)
  BY <1>1, <1>5 DEF Publish
<1>6. CASE Save \/ \E kind \in Outcomes : End(kind)
  BY <1>1, <1>2, <1>6 DEF Save, End
<1>7. CASE Withdraw
  BY <1>2, <1>4, <1>7 DEF Withdraw
<1>8. CASE PublishBlocked
  BY <1>2, <1>3, <1>8 DEF PublishBlocked
<1>9. CASE Release \/ Lapse
  BY <1>1, <1>2, <1>9 DEF Release, Lapse, StoreType
<1>10. CASE Expire
  <2>1. store'.window = {}
    BY <1>1, <1>10 DEF Expire, Cleared, StoreType
  <2> QED BY <2>1
<1> QED BY <1>5, <1>6, <1>7, <1>8, <1>9, <1>10 DEF Generation

\* The end is written: what must still be held comes before it in the window,
\* so that it has been handed on, and was written before.
LEMMA MissedEnd ==
    ASSUME Inv, client.phase \in Serving, NEW t \in Items, t.kind \in Terminals,
           t.seq <= client.cursor, ~ client.lagged, ~ client.resumed,
           \A item \in Items : t.seq <= item.seq,
           NEW e \in store.window, MustHold(e)
    PROVE  e.seq \in client.got
<1>1. e.seq < t.seq
  BY DEF Inv, OtherInv, MustHold
<1>2. \/ e.seq \in client.got
      \/ \E item \in Items : item.kind = "other" /\ item.seq = e.seq
      \/ e.seq > client.cursor
  BY DEF Inv, OtherInv
<1>3. e.seq \in Int /\ client.cursor \in Int /\ t.seq \in Int
  <2>1. /\ store.window \in SUBSET Event /\ client.cursor \in 0 .. MaxAppends
        /\ client.replay \in SUBSET Item /\ client.queue \in Seq(Item)
    BY DEF Inv, TypeInv, StoreType, ClientType
  <2>2. Items \subseteq Item
    BY <2>1 DEF Items
  <2> QED BY <2>1, <2>2 DEF Event, Item, Seqs
<1>4. ~ \E item \in Items : item.kind = "other" /\ item.seq = e.seq
  BY <1>1, <1>3
<1>5. ~ e.seq > client.cursor
  BY <1>1, <1>3
<1> QED BY <1>2, <1>4, <1>5

LEMMA MissedReplay ==
    ASSUME Inv, NothingMissed, WriteReplay
    PROVE  NothingMissed'
<1>1. PICK item \in client.replay :
         /\ \A other \in client.replay : item.seq <= other.seq
         /\ Wrote(client', item)
  BY WriteReplayFields
<1>2. /\ UNCHANGED <<store, run>> /\ client.phase \in Serving
      /\ client'.resumed = client.resumed /\ client'.lagged = client.lagged
      /\ client.got \subseteq client'.got
      /\ client'.told = IF item.kind \in Terminals THEN item.kind ELSE client.told
  BY <1>1 DEF WriteReplay, Wrote, Serving
<1>3. CASE item.kind \in Terminals
  <2>1. /\ client.queue = <<>> /\ client.cursor >= item.seq
    BY <1>2, <1>3 DEF Inv, ReaderInv
  <2>2. Items = client.replay /\ item \in Items
    BY <2>1 DEF Items
  <2>3. ASSUME ~ client.lagged, ~ client.resumed, NEW e \in store.window, MustHold(e)
        PROVE  e.seq \in client'.got
    <3>1. item.seq <= client.cursor
      <4>1. item.seq \in Int /\ client.cursor \in Int
        <5>1. client.replay \in SUBSET Item /\ client.cursor \in 0 .. MaxAppends
          BY DEF Inv, TypeInv, ClientType
        <5> QED BY <5>1 DEF Item, Seqs
      <4> QED BY <2>1, <4>1
    <3>2. e.seq \in client.got
      BY <1>1, <1>2, <1>3, <2>2, <2>3, <3>1, MissedEnd
    <3> QED BY <1>2, <3>2
  <2> QED BY <1>2, <2>3 DEF NothingMissed, MustHold
<1>4. CASE item.kind \notin Terminals
  BY <1>2, <1>4, MissedFrame
<1> QED BY <1>3, <1>4

LEMMA MissedLive ==
    ASSUME Inv, NothingMissed, WriteLive
    PROVE  NothingMissed'
<1>1. PICK c \in ClientType, h \in Items :
              /\ Wrote(c, h) /\ c.replay = client.replay
              /\ client' = IF h.kind \in Terminals THEN Ended(c, h.kind) ELSE c
              /\ h.seq \in Seqs /\ h.seq <= client.cursor
              /\ h.kind \in Thinking \cup {"text"} => h.content = <<h.seq>>
              /\ h.replace <=> h.kind = "round"
              /\ 1 \in 1 .. Len(client.queue) /\ client.queue[1] = h
              /\ Len(c.queue) \in Nat
              /\ \A i \in 1 .. Len(client.queue) : i = 1 \/ \E j \in 1 .. Len(c.queue) :
                    j + 1 = i /\ c.queue[j] = client.queue[i]
              /\ \A j \in 1 .. Len(c.queue) :
                    /\ j + 1 \in 1 .. Len(client.queue) /\ c.queue[j] = client.queue[j + 1]
                    /\ h.seq < c.queue[j].seq
  BY WriteLiveHead
<1>2. /\ UNCHANGED <<store, run>> /\ client.phase \in Serving /\ client.replay = {}
      /\ client.told = "none"
  BY DEF WriteLive, Inv, PlanInv, Serving, Reading
<1>3. c.lagged = client.lagged /\ c.resumed = client.resumed /\ client.got \subseteq c.got
      /\ c.told = IF h.kind \in Terminals THEN h.kind ELSE client.told
  BY <1>1 DEF Wrote
<1>4. CASE h.kind \in Terminals
  <2>1. client' = Ended(c, h.kind)
    BY <1>1, <1>4
  <2>2. /\ client'.got = c.got /\ client'.lagged = c.lagged /\ client'.resumed = c.resumed
    <3>1. h.kind \in {"none", "refused", "dropped", "interrupted"} \cup Terminals
      BY <1>4
    <3> QED BY <2>1, <3>1, EndedFields
  <2>3. \A item \in Items : h.seq <= item.seq
    <3> SUFFICES ASSUME NEW i \in 1 .. Len(client.queue) PROVE h.seq <= client.queue[i].seq
      BY <1>2 DEF Items
    <3>1. CASE i = 1
      BY <1>1, <3>1 DEF Seqs
    <3>2. CASE i # 1
      <4>1. h.seq < client.queue[i].seq
        BY <1>1, <3>2
      <4>2. client.queue[i].seq \in Int /\ h.seq \in Int
        <5>1. client.queue \in Seq(Item)
          BY DEF Inv, TypeInv, ClientType
        <5>2. client.queue[i] \in Item
          BY <5>1, ElementOfSeq
        <5> QED BY <1>1, <5>2 DEF Item, Seqs
      <4> QED BY <4>1, <4>2
    <3> QED BY <3>1, <3>2
  <2>4. ASSUME ~ client.lagged, ~ client.resumed, NEW e \in store.window, MustHold(e)
        PROVE  e.seq \in client.got
    BY <1>1, <1>2, <1>4, <2>3, <2>4, MissedEnd
  <2> QED BY <1>2, <1>3, <2>2, <2>4 DEF NothingMissed, MustHold
<1>5. CASE h.kind \notin Terminals
  <2>1. client'.told = "none"
    BY <1>1, <1>2, <1>3, <1>5
  <2> QED BY <1>2, <2>1, MissedFrame DEF Outcomes
<1> QED BY <1>4, <1>5

LEMMA MissedStep ==
    ASSUME Inv, NothingMissed, [Next]_vars
    PROVE  NothingMissed'
<1>1. client \in ClientType
  BY DEF Inv, TypeInv
<1>2. ASSUME UNCHANGED <<store, run>>,
             NEW told \in {"none", "refused", "dropped", "interrupted"} \cup {client.told},
             client' = Ended(client, told)
      PROVE  NothingMissed'
  <2>1. told \in {"none", "refused", "dropped", "interrupted"} \cup Terminals
    BY <1>1 DEF ClientType
  <2>2. /\ client'.told = told /\ client'.got = client.got /\ client'.resumed = client.resumed
        /\ client'.lagged = client.lagged
    BY <1>1, <1>2, <2>1, EndedFields
  <2> QED BY <1>2, <2>2, MissedFrame DEF Outcomes
<1>3. CASE Generation
  BY <1>3, MissedGeneration
<1>4. CASE Connect
  <2>1. CASE Refuse
    BY <1>2, <2>1 DEF Refuse
  <2>2. CASE ~ Refuse
    <3>1. client'.told = "none" /\ UNCHANGED <<store, run>>
      BY <1>1, <1>4, <2>2 DEF Connect, ClientType
    <3> QED BY <3>1, MissedFrame DEF Outcomes
  <2> QED BY <2>1, <2>2
<1>5. CASE List \/ ReadText \/ ReadThink
  <2>1. /\ client'.told = client.told /\ client'.got = client.got
        /\ client'.resumed = client.resumed /\ client'.lagged = client.lagged
        /\ UNCHANGED <<store, run>>
    BY <1>1, <1>5 DEF List, ReadText, ReadThink, ClientType
  <2> QED BY <2>1, MissedFrame
<1>6. CASE Decide
  <2>1. CASE Refuse
    BY <1>2, <2>1 DEF Refuse
  <2>2. CASE ~ Refuse
    <3>1. client.told = "none"
      BY <1>6 DEF Decide, Inv, PlanInv, Reading
    <3>2. client'.told = client.told /\ UNCHANGED <<store, run>>
      BY ZenonT(30), <1>1, <1>6, <2>2 DEF Decide, ClientType
    <3> QED BY <3>1, <3>2, MissedFrame DEF Outcomes
  <2> QED BY <2>1, <2>2
<1>7. CASE CallFails
  BY <1>2, <1>7 DEF CallFails, Refuse
<1>8. CASE Read
  <2>1. client'.told = client.told /\ client'.got = client.got /\ client'.resumed = client.resumed
    BY <1>1, <1>8 DEF Read, ClientType
  <2>2. (client.lagged => client'.lagged) /\ UNCHANGED <<store, run>>
    BY <1>1, <1>8 DEF Read, ClientType
  <2> QED BY <2>1, <2>2, MissedFrame
<1>9. CASE HandOn
  <2>1. /\ client'.told = client.told /\ client'.got = client.got
        /\ client'.resumed = client.resumed /\ client'.lagged = client.lagged
        /\ UNCHANGED <<store, run>>
    BY ZenonT(30), <1>1, <1>9 DEF HandOn, ClientType
  <2> QED BY <2>1, MissedFrame
<1>10. CASE WriteReplay \/ WriteLive
  BY <1>10, MissedReplay, MissedLive
<1>11. CASE Replayed
  <2>1. CASE client' = [client EXCEPT !.phase = "live"] /\ UNCHANGED <<store, run>>
    <3>1. client'.told = client.told /\ client'.got = client.got
          /\ client'.resumed = client.resumed /\ client'.lagged = client.lagged
      BY <1>1, <2>1 DEF ClientType
    <3> QED BY <2>1, <3>1, MissedFrame
  <2> QED BY <1>2, <1>11, <2>1 DEF Replayed, Interrupt
<1>12. CASE ReaderClosed \/ CheckActive
  BY <1>2, <1>12 DEF ReaderClosed, CheckActive, Interrupt, Drop
<1>13. CASE Disconnect
  BY <1>2, <1>13 DEF Disconnect
<1>14. CASE UNCHANGED vars
  BY <1>14 DEF vars, NothingMissed
<1> QED BY <1>3, <1>4, <1>5, <1>6, <1>7, <1>8, <1>9, <1>10, <1>11, <1>12, <1>13, <1>14
    DEF Next, Subscribing, Handling

\* Nobody who asked for everything is told that the run ended before having had
\* each event that the window must still hold (the order in which
\* readStoreEvents hands on, and where the live reader starts).
THEOREM NothingMissedHolds == Spec => []NothingMissed
<1>1. Init => NothingMissed
  BY DEF Init, NewClient, NothingMissed, Outcomes
<1>2. Inv /\ NothingMissed /\ [Next]_vars => NothingMissed'
  BY MissedStep
<1> QED BY <1>1, <1>2, ReplayInvariant, PTL DEF Spec

\* What moderation took back is not sent to a connection made after that: the
\* checkpoints go with the events (resetCurrentEvents).
THEOREM WithdrawnStaysAwayHolds == Spec => []WithdrawnStaysAway
<1>1. Inv => WithdrawnStaysAway
  BY InvWithdrawnStaysAway
<1> QED BY <1>1, ReplayInvariant, PTL

-----------------------------------------------------------------------------
(***************************************************************************)
(* The order of what is shown, whether or not the reader was overtaken.    *)
(***************************************************************************)

AtMost(content, n) == \A i \in 1 .. Len(content) : content[i] <= n

\* A checkpoint is at least as new as the window's events of its kind.
StoreOrder(content, seq, kinds) ==
    /\ Increasing(content)
    /\ \A e \in store.window : e.kind \in kinds => e.seq <= seq

ListOrder(seq, kinds) ==
    seq # 0 => \A e \in client.plan.list : e.kind \in kinds => e.seq <= seq

\* A checkpoint that was read, or there is none because there is nothing to show
\* or because nothing will follow.
PlanOrder(content, seq, shown, kinds) ==
    /\ Increasing(content) /\ CheckpointOf(content, seq) /\ ListOrder(seq, kinds)
    /\ seq = 0 /\ shown # <<>> =>
          /\ run.withdrawn \/ ~ store.owned
          /\ \A e \in store.window : e.kind \notin kinds

\* What is still to come to the handler.
Coming(kinds, seq) ==
    Queued(kinds) \cup
    {e.seq : e \in {d \in store.window \cup client.batch :
                       d.kind \in kinds /\ d.seq > client.cursor /\ d.seq > seq}}

ServeOrder(shown, kinds, seq) ==
    /\ \A item \in client.replay : item.kind \in kinds =>
          item.replace /\ Increasing(item.content) /\ AtMost(item.content, seq)
    /\ \A n \in Queued(kinds) : n > seq
    /\ (\A item \in client.replay : item.kind \notin kinds) =>
          \A i \in 1 .. Len(shown) : \A n \in Coming(kinds, seq) : shown[i] < n

OrderInv ==
    /\ Increasing(client.text) /\ AtMost(client.text, store.seq)
    /\ Increasing(client.think) /\ AtMost(client.think, store.seq)
    /\ StoreOrder(store.text, store.textSeq, {"text"})
    /\ StoreOrder(store.think, store.thinkSeq, Thinking)
    /\ client.phase = "text" => ListOrder(store.textSeq, {"text"})
    /\ client.phase \in {"text", "think"} => ListOrder(store.thinkSeq, Thinking)
    /\ client.phase \in {"think", "deciding"} =>
          PlanOrder(client.plan.text, client.plan.textSeq, client.text, {"text"})
    /\ client.phase = "deciding" =>
          PlanOrder(client.plan.think, client.plan.thinkSeq, client.think, Thinking)
    /\ client.phase \in Serving => ServeOrder(client.text, {"text"}, client.plan.textSeq)
    /\ client.phase \in Serving => ServeOrder(client.think, Thinking, client.plan.thinkSeq)

\* What the numbers are.
LEMMA OrderTypes ==
    ASSUME Inv
    PROVE  /\ store.seq \in Nat /\ store.textSeq \in Nat /\ store.thinkSeq \in Nat
           /\ store.textSeq <= store.seq /\ store.thinkSeq <= store.seq
           /\ client.text \in Content /\ client.think \in Content
           /\ client.plan.textSeq \in Nat /\ client.plan.thinkSeq \in Nat /\ client.cursor \in Nat
           /\ store.text \in Content /\ store.think \in Content
           /\ client.plan.text \in Content /\ client.plan.think \in Content
           /\ \A e \in store.window \cup client.batch \cup client.plan.list :
                 e \in Event /\ e.seq \in Nat /\ e.seq >= 1 /\ e.seq <= store.seq
           /\ \A item \in Items : item \in Item /\ item.seq \in Nat /\ item.seq <= store.seq
           /\ \A kinds : \A n \in Queued(kinds) : n \in Nat /\ n <= store.seq
<1>1. store \in StoreType /\ client \in ClientType
  BY DEF Inv, TypeInv
<1>2. \A e \in store.window \cup client.batch \cup client.plan.list : e \in Event /\ e \in Events
  BY <1>1 DEF StoreType, ClientType, PlanType, Events
<1>3. \A item \in Items : item \in Item
  BY <1>1, ElementOfSeq DEF ClientType, Items
<1>4. \A e \in Events \cup Items : e.seq <= store.seq
  BY DEF Inv, PastInv, Past
<1>5. \A e \in Event \cup Item : e.seq \in Nat /\ e.seq >= 1
  BY DEF Event, Item, Seqs
<1>6. \A kinds : \A n \in Queued(kinds) : n \in Nat /\ n <= store.seq
  <2> SUFFICES ASSUME NEW kinds, NEW i \in 1 .. Len(client.queue)
               PROVE  client.queue[i].seq \in Nat /\ client.queue[i].seq <= store.seq
    BY DEF Queued
  <2>1. client.queue[i] \in Items
    BY DEF Items
  <2> QED BY <1>3, <1>4, <1>5, <2>1
<1>7. /\ store.seq \in Nat /\ store.textSeq \in Nat /\ store.thinkSeq \in Nat
      /\ client.plan.textSeq \in Nat /\ client.plan.thinkSeq \in Nat /\ client.cursor \in Nat
  BY <1>1, BoundAssumption DEF StoreType, ClientType, PlanType
<1>8. /\ client.text \in Content /\ client.think \in Content
      /\ store.text \in Content /\ store.think \in Content
      /\ client.plan.text \in Content /\ client.plan.think \in Content
  BY <1>1 DEF StoreType, ClientType, PlanType
<1>9. store.textSeq <= store.seq /\ store.thinkSeq <= store.seq
  BY DEF Inv, CheckpointInv
<1> QED BY <1>2, <1>3, <1>4, <1>5, <1>6, <1>7, <1>8, <1>9

\* A connection is over, or has not begun to read.
LEMMA OrderOff ==
    ASSUME OrderInv, store' = store, client'.phase \in {"off", "listing"},
           Increasing(client'.text), AtMost(client'.text, store.seq),
           Increasing(client'.think), AtMost(client'.think, store.seq)
    PROVE  OrderInv'
BY DEF OrderInv, StoreOrder, Serving

\* Less is to come.
LEMMA ServeLess ==
    ASSUME NEW kinds, NEW seq, NEW shown, ServeOrder(shown, kinds, seq),
           client'.replay = client.replay, Queued(kinds)' \subseteq Queued(kinds),
           (store.window \cup client.batch)' \subseteq store.window \cup client.batch,
           client'.cursor = client.cursor
    PROVE  ServeOrder(shown, kinds, seq)'
<1>1. Coming(kinds, seq)' \subseteq Coming(kinds, seq)
  BY DEF Coming
<1> QED BY <1>1 DEF ServeOrder

\* The window is trimmed or dropped, and nothing is added to the store.
LEMMA OrderQuiet ==
    ASSUME OrderInv, client' = client, store'.seq = store.seq,
           run.withdrawn => run'.withdrawn, store'.owned => store.owned,
           \/ /\ store'.window = store.window
              /\ store'.text = store.text /\ store'.textSeq = store.textSeq
              /\ store'.think = store.think /\ store'.thinkSeq = store.thinkSeq
           \/ /\ store'.window = {}
              /\ store'.text = <<>> /\ store'.textSeq = 0
              /\ store'.think = <<>> /\ store'.thinkSeq = 0
    PROVE  OrderInv'
<1>1. store'.window \subseteq store.window
  OBVIOUS
<1>2. /\ StoreOrder(store.text, store.textSeq, {"text"})'
      /\ StoreOrder(store.think, store.thinkSeq, Thinking)'
  BY DEF OrderInv, StoreOrder, Increasing
<1>3. /\ (client.phase = "text" => ListOrder(store.textSeq, {"text"}))'
      /\ (client.phase \in {"text", "think"} => ListOrder(store.thinkSeq, Thinking))'
  BY DEF OrderInv, ListOrder
<1>4. ASSUME NEW content, NEW seq, NEW shown, NEW kinds, PlanOrder(content, seq, shown, kinds)
      PROVE  PlanOrder(content, seq, shown, kinds)'
  BY <1>1, <1>4 DEF PlanOrder, ListOrder
<1>5. ASSUME NEW shown, NEW kinds, NEW seq, ServeOrder(shown, kinds, seq)
      PROVE  ServeOrder(shown, kinds, seq)'
  <2>1. Queued(kinds)' \subseteq Queued(kinds)
    BY DEF Queued
  <2> QED BY <1>1, <1>5, <2>1, ServeLess
<1>6. /\ Increasing(client.text)' /\ AtMost(client.text, store.seq)'
      /\ Increasing(client.think)' /\ AtMost(client.think, store.seq)'
  BY DEF OrderInv
<1>7. (client.phase \in {"think", "deciding"} =>
         PlanOrder(client.plan.text, client.plan.textSeq, client.text, {"text"}))'
  BY <1>4 DEF OrderInv
<1>8. (client.phase = "deciding" =>
         PlanOrder(client.plan.think, client.plan.thinkSeq, client.think, Thinking))'
  BY <1>4 DEF OrderInv
<1>9. (client.phase \in Serving => ServeOrder(client.text, {"text"}, client.plan.textSeq))'
  BY <1>5 DEF OrderInv
<1>10. (client.phase \in Serving => ServeOrder(client.think, Thinking, client.plan.thinkSeq))'
  BY <1>5 DEF OrderInv
<1> QED BY <1>2, <1>3, <1>6, <1>7, <1>8, <1>9, <1>10 DEF OrderInv

\* A checkpoint's pieces are no newer than its number.
LEMMA OrderCheckpoint ==
    ASSUME NEW content \in Content, NEW seq \in Nat, Increasing(content), CheckpointOf(content, seq)
    PROVE  AtMost(content, seq)
<1>1. content \in Seq(Nat) /\ (content = <<>> => Len(content) = 0)
  BY ContentIsNat
<1>2. \A i \in 1 .. Len(content) : content[i] <= content[Len(content)]
  BY <1>1, LastIsLargest
<1> QED BY <1>1, <1>2 DEF AtMost, CheckpointOf

LEMMA OrderPiece ==
    ASSUME NEW content \in Content, NEW seq \in Nat, Increasing(content), CheckpointOf(content, seq),
           NEW n \in Nat \ {0}, seq < n
    PROVE  Increasing(Append(content, n))
<1>1. AtMost(content, seq)
  BY OrderCheckpoint
<1>2. content \in Seq(Nat) /\ \A i \in 1 .. Len(content) : content[i] \in Nat
  BY ContentIsNat
<1>3. \A i \in 1 .. Len(content) : content[i] < n
  BY <1>1, <1>2 DEF AtMost
<1> QED BY <1>2, <1>3, PieceSaid, Zenon

\* An event is stored.
LEMMA OrderStored ==
    ASSUME Inv, OrderInv, client' = client,
           NEW kind \in Kinds \cup Terminals, Stored(kind), store.seq < MaxAppends,
           kind \in Thinking \cup {"text"} => ~ run.withdrawn /\ store.owned,
           run'.withdrawn = run.withdrawn
    PROVE  OrderInv'
<1> PICK n : n = store.seq + 1
  OBVIOUS
<1>1. /\ store.seq \in Nat /\ n \in Nat \ {0} /\ n > store.seq
      /\ store.textSeq \in Nat /\ store.thinkSeq \in Nat
      /\ store.textSeq < n /\ store.thinkSeq < n
      /\ store.text \in Content /\ store.think \in Content
      /\ client.text \in Content /\ client.think \in Content
      /\ \A e \in store.window \cup client.batch \cup client.plan.list : e.seq \in Nat /\ e.seq < n
  BY OrderTypes
<1>2. CheckpointOf(store.text, store.textSeq) /\ CheckpointOf(store.think, store.thinkSeq)
      /\ store.trimmed <= store.seq /\ store \in StoreType
  BY DEF Inv, CheckpointInv, WindowInv, TypeInv
<1>3. /\ store'.seq = n /\ store'.owned = store.owned
      /\ \A e \in store'.window : e \in store.window \/ (e.seq = n /\ e.kind = kind)
      /\ store'.text = IF kind = "text" THEN Append(store.text, n) ELSE store.text
      /\ store'.textSeq = IF kind = "text" THEN n ELSE store.textSeq
      /\ store'.think = Thought(store, kind)
      /\ store'.thinkSeq = IF kind \in Thinking THEN n ELSE store.thinkSeq
  <2>1. PICK kept \in MaxEvents .. MaxEvents + Slack : store' = Appended(store, kind, kept)
    BY DEF Stored
  <2>2. /\ store'.seq = n /\ store'.owned = store.owned
        /\ store'.window = Left(store, kind, kept)
        /\ store'.text = IF kind = "text" THEN Append(store.text, n) ELSE store.text
        /\ store'.textSeq = IF kind = "text" THEN n ELSE store.textSeq
        /\ store'.think = Thought(store, kind)
        /\ store'.thinkSeq = IF kind \in Thinking THEN n ELSE store.thinkSeq
    BY <1>2, <2>1, AppendedFields
  <2>3. \A e \in Left(store, kind, kept) : e \in store.window \/ (e.seq = n /\ e.kind = kind)
    BY DEF Left
  <2> QED BY <2>2, <2>3
<1>4. "text" \notin Thinking
  BY DEF Thinking
<1>5. /\ Increasing(store.text) /\ Increasing(store.think)
      /\ \A e \in store.window : e.kind = "text" => e.seq <= store.textSeq
      /\ \A e \in store.window : e.kind \in Thinking => e.seq <= store.thinkSeq
  BY DEF OrderInv, StoreOrder
<1>6. StoreOrder(store.text, store.textSeq, {"text"})'
  <2>1. Increasing(store'.text)
    BY <1>1, <1>2, <1>3, <1>5, OrderPiece
  <2>2. \A e \in store'.window : e.kind = "text" => e.seq <= store'.textSeq
    BY <1>1, <1>3, <1>5
  <2> QED BY <2>1, <2>2 DEF StoreOrder
<1>7. StoreOrder(store.think, store.thinkSeq, Thinking)'
  <2>1. Increasing(store'.think)
    <3>1. CASE kind = "round"
      <4>1. store'.think = <<n>>
        BY <1>3, <3>1 DEF Thought
      <4> QED BY <1>1, <4>1, RoundSaid
    <3>2. CASE kind = "think"
      <4>1. store'.think = Append(store.think, n)
        BY <1>3, <3>2 DEF Thought
      <4> QED BY <1>1, <1>2, <1>5, <4>1, OrderPiece
    <3>3. CASE kind \notin Thinking
      BY <1>3, <1>5, <3>3 DEF Thought, Thinking
    <3> QED BY <3>1, <3>2, <3>3 DEF Thinking
  <2>2. \A e \in store'.window : e.kind \in Thinking => e.seq <= store'.thinkSeq
    BY <1>1, <1>3, <1>5
  <2> QED BY <2>1, <2>2 DEF StoreOrder
<1>8. /\ (client.phase = "text" => ListOrder(store.textSeq, {"text"}))'
      /\ (client.phase \in {"text", "think"} => ListOrder(store.thinkSeq, Thinking))'
  <2>1. ASSUME NEW kinds, NEW seq, ListOrder(seq, kinds) PROVE ListOrder(seq, kinds)'
    BY <2>1 DEF ListOrder
  <2>2. \A kinds : ListOrder(n, kinds)'
    BY <1>1 DEF ListOrder
  <2>3. (client.phase = "text" => ListOrder(store.textSeq, {"text"}))'
    BY <1>3, <2>1, <2>2 DEF OrderInv
  <2>4. (client.phase \in {"text", "think"} => ListOrder(store.thinkSeq, Thinking))'
    BY <1>3, <2>1, <2>2 DEF OrderInv
  <2> QED BY <2>3, <2>4
<1>9. ASSUME NEW content, NEW seq, NEW shown, NEW kinds, kinds \subseteq Thinking \cup {"text"},
             PlanOrder(content, seq, shown, kinds)
      PROVE  PlanOrder(content, seq, shown, kinds)'
  <2>1. ListOrder(seq, kinds)'
    BY <1>9 DEF PlanOrder, ListOrder
  <2>2. ASSUME seq = 0, shown # <<>>, NEW e \in store'.window PROVE e.kind \notin kinds
    BY <1>3, <1>9, <2>2 DEF PlanOrder
  <2> QED BY <1>3, <1>9, <2>1, <2>2 DEF PlanOrder
<1>10. ASSUME NEW shown \in Content, AtMost(shown, store.seq), NEW kinds, NEW seq,
              ServeOrder(shown, kinds, seq)
       PROVE  ServeOrder(shown, kinds, seq)'
  <2>1. Queued(kinds)' = Queued(kinds)
    BY DEF Queued
  <2>2. Coming(kinds, seq)' \subseteq Coming(kinds, seq) \cup {n}
    BY <1>3, <2>1 DEF Coming
  <2>3. \A i \in 1 .. Len(shown) : shown[i] < n
    <3>1. \A i \in 1 .. Len(shown) : shown[i] \in Nat
      BY ContentIsNat
    <3> QED BY <1>1, <1>10, <3>1 DEF AtMost
  <2> QED BY <1>10, <2>1, <2>2, <2>3 DEF ServeOrder
<1>11. /\ Increasing(client.text)' /\ AtMost(client.text, store.seq)'
       /\ Increasing(client.think)' /\ AtMost(client.think, store.seq)'
  <2>1. ASSUME NEW shown \in Content, AtMost(shown, store.seq) PROVE AtMost(shown, store'.seq)
    <3>1. \A i \in 1 .. Len(shown) : shown[i] \in Nat
      BY ContentIsNat
    <3> QED BY <1>1, <1>3, <2>1, <3>1 DEF AtMost
  <2>2. /\ Increasing(client.text) /\ AtMost(client.text, store.seq)
        /\ Increasing(client.think) /\ AtMost(client.think, store.seq)
    BY DEF OrderInv
  <2>3. AtMost(client.text, store'.seq) /\ AtMost(client.think, store'.seq)
    BY <1>1, <2>1, <2>2
  <2> QED BY <2>2, <2>3
<1>12. (client.phase \in {"think", "deciding"} =>
          PlanOrder(client.plan.text, client.plan.textSeq, client.text, {"text"}))'
  BY <1>9 DEF OrderInv
<1>13. (client.phase = "deciding" =>
          PlanOrder(client.plan.think, client.plan.thinkSeq, client.think, Thinking))'
  BY <1>9 DEF OrderInv
<1>14. (client.phase \in Serving => ServeOrder(client.text, {"text"}, client.plan.textSeq))'
  BY <1>1, <1>10 DEF OrderInv
<1>15. (client.phase \in Serving => ServeOrder(client.think, Thinking, client.plan.thinkSeq))'
  BY <1>1, <1>10 DEF OrderInv
<1> QED BY <1>6, <1>7, <1>8, <1>11, <1>12, <1>13, <1>14, <1>15 DEF OrderInv

LEMMA OrderGeneration ==
    ASSUME Inv, OrderInv, Generation
    PROVE  OrderInv'
<1>1. /\ store \in StoreType /\ run \in RunType
      /\ run.withdrawn => run.saved
      /\ store.active => store.owned
  BY DEF Inv, TypeInv, RunInv
<1>2. CASE \E kind \in Kinds : Publish(kind)
  <2>1. PICK kind \in Kinds : Publish(kind)
    BY <1>2
  <2>2. client' = client /\ ~ run.withdrawn
    BY <1>1, <2>1 DEF Publish
  <2>3. run'.withdrawn = run.withdrawn
    BY <1>1, <2>1 DEF Publish, PublishStored, PublishUnstored, RunType
  <2>4. CASE PublishStored(kind)
    <3>1. /\ kind \in Kinds \cup Terminals /\ Stored(kind)
          /\ store.owned /\ store.seq < MaxAppends
      BY <1>1, <2>4, BoundAssumption DEF PublishStored, StoreType
    <3> QED BY <2>2, <2>3, <3>1, OrderStored
  <2>5. CASE PublishUnstored(kind)
    <3>1. store' = store
      BY <2>5 DEF PublishUnstored
    <3> QED BY <2>2, <2>3, <3>1, OrderQuiet
  <2> QED BY <2>1, <2>4, <2>5 DEF Publish
<1>3. ASSUME NEW kind \in Terminals, client' = client, run'.withdrawn = run.withdrawn,
             (store.seq < MaxAppends /\ Stored(kind)) \/ UNCHANGED store
      PROVE  OrderInv'
  <2>1. CASE store.seq < MaxAppends /\ Stored(kind)
    <3>1. kind \in Kinds \cup Terminals /\ kind \notin Thinking \cup {"text"}
      BY DEF Terminals, Outcomes, Thinking
    <3> QED BY <1>3, <2>1, <3>1, OrderStored
  <2>2. CASE UNCHANGED store
    BY <1>3, <2>2, OrderQuiet
  <2> QED BY <1>3, <2>1, <2>2
<1>4. CASE \E kind \in Outcomes : End(kind)
  <2>1. PICK kind \in Outcomes : End(kind)
    BY <1>4
  <2>2. /\ client' = client /\ kind \in Terminals
        /\ (store.seq < MaxAppends /\ Stored(kind)) \/ UNCHANGED store
    BY <2>1 DEF End, Terminals
  <2>3. run'.withdrawn = run.withdrawn
    BY <1>1, <2>1 DEF End, RunType
  <2> QED BY <1>3, <2>2, <2>3
<1>5. CASE PublishBlocked
  <2>1. /\ client' = client /\ "moderation_blocked" \in Terminals
        /\ (store.seq < MaxAppends /\ Stored("moderation_blocked")) \/ UNCHANGED store
    BY <1>5 DEF PublishBlocked, Terminals
  <2>2. run'.withdrawn = run.withdrawn
    BY <1>1, <1>5 DEF PublishBlocked, RunType
  <2> QED BY <1>3, <2>1, <2>2
<1>6. CASE Withdraw
  <2>1. /\ client' = client /\ (store' = store \/ store' = Cleared(store))
    BY <1>6 DEF Withdraw
  <2>2. run'.withdrawn
    BY <1>1, <1>6 DEF Withdraw, RunType
  <2> QED BY <1>1, <2>1, <2>2, ClearedFields, OrderQuiet
<1>7. CASE Save
  <2>1. client' = client /\ store' = store /\ run'.withdrawn = run.withdrawn
    BY <1>1, <1>7 DEF Save, RunType
  <2> QED BY <2>1, OrderQuiet
<1>8. CASE Release \/ Lapse
  <2>1. /\ client' = client /\ run' = run /\ store' = [store EXCEPT !.active = FALSE]
    BY <1>8 DEF Release, Lapse
  <2>2. /\ store'.seq = store.seq /\ store'.owned = store.owned /\ store'.window = store.window
        /\ store'.text = store.text /\ store'.textSeq = store.textSeq
        /\ store'.think = store.think /\ store'.thinkSeq = store.thinkSeq
    BY <1>1, <2>1 DEF StoreType
  <2> QED BY <2>1, <2>2, OrderQuiet
<1>9. CASE Expire
  <2>1. /\ client' = client /\ run' = run /\ store' = [Cleared(store) EXCEPT !.owned = FALSE]
    BY <1>9 DEF Expire
  <2>2. /\ store'.seq = store.seq /\ ~ store'.owned /\ store'.window = {}
        /\ store'.text = <<>> /\ store'.textSeq = 0 /\ store'.think = <<>> /\ store'.thinkSeq = 0
    BY <1>1, <2>1, ClearedFields DEF StoreType
  <2> QED BY <2>1, <2>2, OrderQuiet
<1> QED BY <1>2, <1>4, <1>5, <1>6, <1>7, <1>8, <1>9 DEF Generation

\* A subscription is over, or begins.
LEMMA OrderEnded ==
    ASSUME Inv, OrderInv, UNCHANGED <<store, run>>,
           NEW told \in {"none", "refused", "dropped", "interrupted"} \cup Terminals,
           client' = Ended(client, told)
    PROVE  OrderInv'
<1>1. client \in ClientType
  BY DEF Inv, TypeInv
<1>2. client'.phase = "off" /\ client'.text = client.text /\ client'.think = client.think
  BY <1>1, EndedFields
<1> QED BY <1>2, OrderOff DEF OrderInv

LEMMA OrderConnect ==
    ASSUME Inv, OrderInv, Connect
    PROVE  OrderInv'
<1>1. CASE Refuse
  BY <1>1, OrderEnded DEF Refuse
<1>2. CASE ~ Refuse
  <2>1. client \in ClientType
    BY DEF Inv, TypeInv
  <2>2. /\ client'.phase = "listing" /\ client'.text = client.text /\ client'.think = client.think
        /\ store' = store
    BY ZenonT(30), <1>2, <2>1 DEF Connect, ClientType
  <2> QED BY <2>2, OrderOff DEF OrderInv
<1> QED BY <1>1, <1>2

\* The events are listed before the checkpoints are read.
LEMMA OrderList ==
    ASSUME Inv, OrderInv, List
    PROVE  OrderInv'
<1>1. client \in ClientType /\ client.plan \in PlanType
  BY DEF Inv, TypeInv, ClientType
<1>2. PICK list : list = {e \in store.window : e.seq > store.seq - MaxEvents}
  OBVIOUS
<1>3. store' = store /\ client' = [client EXCEPT !.phase = "text", !.plan.list = list]
  BY <1>2 DEF List
<1>4. /\ client'.phase = "text" /\ client'.text = client.text /\ client'.think = client.think
      /\ client'.plan.list = list
  BY <1>1, <1>3 DEF ClientType, PlanType
<1>5. list \subseteq store.window
  BY <1>2
<1>6. ListOrder(store.textSeq, {"text"})' /\ ListOrder(store.thinkSeq, Thinking)'
  BY <1>3, <1>4, <1>5 DEF OrderInv, StoreOrder, ListOrder
<1>7. /\ StoreOrder(store.text, store.textSeq, {"text"})'
      /\ StoreOrder(store.think, store.thinkSeq, Thinking)'
  BY <1>3 DEF OrderInv, StoreOrder
<1> QED BY <1>3, <1>4, <1>6, <1>7 DEF OrderInv, Serving

\* There is no checkpoint where nothing was said, or nothing is said any more.
LEMMA OrderRead ==
    ASSUME Inv, OrderInv
    PROVE  /\ client.phase = "text" =>
                 PlanOrder(store.text, store.textSeq, client.text, {"text"})
           /\ client.phase = "think" =>
                 PlanOrder(store.think, store.thinkSeq, client.think, Thinking)
<1>1. CheckpointOf(store.text, store.textSeq) /\ CheckpointOf(store.think, store.thinkSeq)
  BY DEF Inv, CheckpointInv
<1>2. \A e \in store.window : e.seq \in Nat /\ e.seq >= 1
  BY OrderTypes
<1>3. store.owned /\ ~ run.withdrawn => store.text = run.text /\ store.think = run.think
  BY DEF Inv, CheckpointInv
<1>4. ~ run.withdrawn => (client.text # <<>> => run.text # <<>>)
                         /\ (client.think # <<>> => run.think # <<>>)
  BY DEF Inv, KnownInv
<1>5. client.phase = "text" => PlanOrder(store.text, store.textSeq, client.text, {"text"})
  BY <1>1, <1>2, <1>3, <1>4 DEF OrderInv, StoreOrder, PlanOrder, CheckpointOf
<1>6. client.phase = "think" => PlanOrder(store.think, store.thinkSeq, client.think, Thinking)
  BY <1>1, <1>2, <1>3, <1>4 DEF OrderInv, StoreOrder, PlanOrder, CheckpointOf
<1> QED BY <1>5, <1>6

LEMMA OrderReadText ==
    ASSUME Inv, OrderInv, ReadText
    PROVE  OrderInv'
<1>1. client \in ClientType /\ client.plan \in PlanType
  BY DEF Inv, TypeInv, ClientType
<1>2. /\ store' = store /\ run' = run /\ client.phase = "text"
      /\ client' = [client EXCEPT !.phase = "think", !.plan.text = store.text,
                                  !.plan.textSeq = store.textSeq]
  BY DEF ReadText
<1>3. /\ client'.phase = "think" /\ client'.text = client.text /\ client'.think = client.think
      /\ client'.plan.list = client.plan.list /\ client'.plan.text = store.text
      /\ client'.plan.textSeq = store.textSeq
  BY <1>1, <1>2 DEF ClientType, PlanType
<1>4. PlanOrder(client.plan.text, client.plan.textSeq, client.text, {"text"})'
  BY <1>2, <1>3, OrderRead DEF PlanOrder, ListOrder
<1>5. ListOrder(store.thinkSeq, Thinking)'
  BY <1>2, <1>3 DEF OrderInv, ListOrder
<1>6. /\ StoreOrder(store.text, store.textSeq, {"text"})'
      /\ StoreOrder(store.think, store.thinkSeq, Thinking)'
  BY <1>2 DEF OrderInv, StoreOrder
<1> QED BY <1>2, <1>3, <1>4, <1>5, <1>6 DEF OrderInv, Serving

LEMMA OrderReadThink ==
    ASSUME Inv, OrderInv, ReadThink
    PROVE  OrderInv'
<1>1. client \in ClientType /\ client.plan \in PlanType
  BY DEF Inv, TypeInv, ClientType
<1>2. /\ store' = store /\ run' = run /\ client.phase = "think"
      /\ client' = [client EXCEPT !.phase = "deciding", !.plan.think = store.think,
                                  !.plan.thinkSeq = store.thinkSeq]
  BY DEF ReadThink
<1>3. /\ client'.phase = "deciding" /\ client'.text = client.text /\ client'.think = client.think
      /\ client'.plan.list = client.plan.list /\ client'.plan.text = client.plan.text
      /\ client'.plan.textSeq = client.plan.textSeq
      /\ client'.plan.think = store.think /\ client'.plan.thinkSeq = store.thinkSeq
  BY <1>1, <1>2 DEF ClientType, PlanType
<1>4. PlanOrder(client.plan.think, client.plan.thinkSeq, client.think, Thinking)'
  BY <1>2, <1>3, OrderRead DEF PlanOrder, ListOrder
<1>5. PlanOrder(client.plan.text, client.plan.textSeq, client.text, {"text"})'
  BY <1>2, <1>3 DEF OrderInv, PlanOrder, ListOrder
<1>6. /\ StoreOrder(store.text, store.textSeq, {"text"})'
      /\ StoreOrder(store.think, store.thinkSeq, Thinking)'
  BY <1>2 DEF OrderInv, StoreOrder
<1> QED BY <1>2, <1>3, <1>4, <1>5, <1>6 DEF OrderInv, Serving

\* The subscription stands: a checkpoint goes first and covers what was listed.
LEMMA OrderDecide ==
    ASSUME Inv, OrderInv, Decide
    PROVE  OrderInv'
<1>1. CASE ~ store.owned \/ ~ Safe(client.plan)
  BY <1>1, OrderEnded DEF Decide, Refuse
<1>2. CASE store.owned /\ Safe(client.plan)
  <2> PICK p : p = client.plan
    OBVIOUS
  <2> PICK replay : replay = Replay(p, client.after)
    OBVIOUS
  <2>1. /\ client \in ClientType /\ p \in PlanType /\ client.after \in Nat /\ client.phase = "deciding"
        /\ client.batch = {} /\ client.queue = <<>>
    <3>1. client.phase = "deciding"
      BY DEF Decide
    <3> QED BY <3>1, BoundAssumption DEF Inv, TypeInv, ClientType, PlanInv, Serving
  <2>2. /\ store' = store /\ client'.phase = "replaying" /\ client'.replay = replay
        /\ client'.plan.textSeq = p.textSeq /\ client'.plan.thinkSeq = p.thinkSeq
        /\ client'.text = client.text /\ client'.think = client.think
        /\ client'.batch = {} /\ client'.queue = <<>>
    <3>1. PICK plan : plan = [NoPlan EXCEPT !.textSeq = p.textSeq, !.thinkSeq = p.thinkSeq]
      OBVIOUS
    <3>2. plan.textSeq = p.textSeq /\ plan.thinkSeq = p.thinkSeq
      BY <3>1 DEF NoPlan
    <3>3. PICK start, reader : client' = [client EXCEPT !.phase = "replaying", !.replay = replay,
                                   !.plan = plan, !.cursor = start, !.reader = reader, !.lagged = FALSE]
      BY <1>2, <3>1 DEF Decide
    <3>4. store' = store
      BY <1>2 DEF Decide
    <3> QED BY <2>1, <3>2, <3>3, <3>4 DEF ClientType
  <2>3. /\ \A item \in replay :
              \/ /\ p.textSeq > 0 /\ item.seq = p.textSeq /\ item.kind = "text"
                 /\ item.content = p.text /\ item.replace
              \/ /\ p.thinkSeq > 0 /\ item.seq = p.thinkSeq /\ item.kind = "think"
                 /\ item.content = p.think /\ item.replace
              \/ \E e \in p.list : Uncovered(p, e) /\ e.seq > client.after /\ item = ToItem(e)
        /\ p.textSeq > 0 => \E item \in replay : item.kind = "text"
        /\ p.thinkSeq > 0 => \E item \in replay : item.kind = "think"
    BY <2>1, ReplayItems
  <2>4. ASSUME NEW content \in Content, NEW seq \in Nat, NEW shown \in Content, NEW kinds,
               PlanOrder(content, seq, shown, kinds),
               \A item \in replay : item.kind \in kinds =>
                  item.replace /\ item.content = content,
               seq > 0 => \E item \in replay : item.kind \in kinds
        PROVE  ServeOrder(shown, kinds, seq)'
    <3>1. \A item \in replay : item.kind \in kinds =>
             item.replace /\ Increasing(item.content) /\ AtMost(item.content, seq)
      BY <2>4, OrderCheckpoint DEF PlanOrder
    <3>2. Queued(kinds)' = {}
      BY <2>2, EmptySeq DEF Queued
    <3>3. ASSUME \A item \in replay : item.kind \notin kinds,
                 NEW i \in 1 .. Len(shown), NEW n \in Coming(kinds, seq)'
          PROVE  shown[i] < n
      <4>1. seq = 0 /\ shown # <<>>
        BY <2>4, <3>3, ContentIsNat
      <4>2. \A e \in store.window : e.kind \notin kinds
        BY <2>4, <4>1 DEF PlanOrder
      <4> QED BY <2>2, <3>2, <3>3, <4>2 DEF Coming
    <3> QED BY <2>2, <3>1, <3>2, <3>3 DEF ServeOrder
  <2>5. \A e \in p.list : /\ e.kind = "text" => ~ Uncovered(p, e)
                          /\ e.kind \in Thinking => ~ Uncovered(p, e)
    <3>1. /\ ListOrder(p.textSeq, {"text"}) /\ ListOrder(p.thinkSeq, Thinking)
      BY <2>1 DEF OrderInv, PlanOrder
    <3>2. \A e \in p.list : e.seq \in Nat
      BY OrderTypes
    <3> QED BY <1>2, <2>1, <3>1, <3>2, BoundAssumption DEF ListOrder, Safe, Uncovered, PlanType
  <2>6. \A item \in replay :
           /\ item.kind = "text" => item.replace /\ item.content = p.text
           /\ item.kind \in Thinking => item.replace /\ item.content = p.think
    <3>1. \A e \in p.list : ToItem(e).kind = e.kind
      BY DEF ToItem
    <3> QED BY <2>3, <2>5, <3>1 DEF Thinking
  <2>7. /\ PlanOrder(p.text, p.textSeq, client.text, {"text"})
        /\ PlanOrder(p.think, p.thinkSeq, client.think, Thinking)
        /\ p.textSeq \in Nat /\ p.thinkSeq \in Nat /\ p.text \in Content /\ p.think \in Content
        /\ client.text \in Content /\ client.think \in Content
    BY <2>1, OrderTypes DEF OrderInv
  <2>8. ServeOrder(client.text, {"text"}, client.plan.textSeq)'
    BY <2>2, <2>3, <2>4, <2>6, <2>7
  <2>9. ServeOrder(client.think, Thinking, client.plan.thinkSeq)'
    <3>1. "think" \in Thinking
      BY DEF Thinking
    <3> QED BY <2>2, <2>3, <2>4, <2>6, <2>7, <3>1
  <2>10. /\ StoreOrder(store.text, store.textSeq, {"text"})'
         /\ StoreOrder(store.think, store.thinkSeq, Thinking)'
    BY <2>2 DEF OrderInv, StoreOrder
  <2> QED BY <2>2, <2>8, <2>9, <2>10 DEF OrderInv
<1> QED BY <1>1, <1>2

\* The server goes on with a connection and shows nothing.
LEMMA OrderServing ==
    ASSUME OrderInv, store' = store, client.phase \in Serving, client'.phase \in Serving,
           client'.text = client.text, client'.think = client.think,
           client'.plan.textSeq = client.plan.textSeq, client'.plan.thinkSeq = client.plan.thinkSeq,
           client'.replay = client.replay,
           \A n \in Queued({"text"})' : n > client.plan.textSeq,
           \A n \in Queued(Thinking)' : n > client.plan.thinkSeq,
           Coming({"text"}, client.plan.textSeq)' \subseteq Coming({"text"}, client.plan.textSeq),
           Coming(Thinking, client.plan.thinkSeq)' \subseteq Coming(Thinking, client.plan.thinkSeq)
    PROVE  OrderInv'
<1>1. /\ ServeOrder(client.text, {"text"}, client.plan.textSeq)
      /\ ServeOrder(client.think, Thinking, client.plan.thinkSeq)
  BY DEF OrderInv
<1>2. ServeOrder(client.text, {"text"}, client.plan.textSeq)'
  BY <1>1 DEF ServeOrder
<1>3. ServeOrder(client.think, Thinking, client.plan.thinkSeq)'
  BY <1>1 DEF ServeOrder
<1>4. /\ StoreOrder(store.text, store.textSeq, {"text"})'
      /\ StoreOrder(store.think, store.thinkSeq, Thinking)'
  BY DEF OrderInv, StoreOrder
<1> QED BY <1>2, <1>3, <1>4 DEF OrderInv, Serving

\* The same, when no more is to come than was.
LEMMA OrderLess ==
    ASSUME Inv, OrderInv, store' = store, client.phase \in Serving, client'.phase \in Serving,
           client'.text = client.text, client'.think = client.think, client'.plan = client.plan,
           client'.replay = client.replay, client'.queue = client.queue,
           client'.batch \subseteq store.window \cup client.batch, client'.cursor = client.cursor
    PROVE  OrderInv'
<1>1. \A kinds : Queued(kinds)' = Queued(kinds)
  BY DEF Queued
<1>2. \A kinds, seq : Coming(kinds, seq)' \subseteq Coming(kinds, seq)
  BY <1>1 DEF Coming
<1>3. /\ \A n \in Queued({"text"}) : n > client.plan.textSeq
      /\ \A n \in Queued(Thinking) : n > client.plan.thinkSeq
  BY DEF OrderInv, ServeOrder
<1> QED BY <1>1, <1>2, <1>3, OrderServing

LEMMA OrderReader ==
    ASSUME Inv, OrderInv, Read
    PROVE  OrderInv'
<1>1. /\ client \in ClientType /\ client.phase \in Serving /\ client.batch = {} /\ store' = store
      /\ client.reader = "open"
  BY DEF Read, Inv, TypeInv, PlanInv
<1>2. PICK batch, lagged, reader :
         /\ batch \subseteq store.window
         /\ client' = [client EXCEPT !.batch = batch, !.lagged = lagged, !.reader = reader]
  <2>1. CASE client' = [client EXCEPT !.reader = "closed"]
    <3>1. client' = [client EXCEPT !.batch = client.batch, !.lagged = client.lagged, !.reader = "closed"]
      BY <1>1, <2>1 DEF ClientType
    <3> QED BY <1>1, <3>1
  <2>2. ASSUME NEW upTo, client' = [client EXCEPT !.batch = Records(upTo),
                                      !.lagged = client.lagged \/ store.trimmed > client.cursor]
        PROVE  \E batch, lagged, reader :
                  /\ batch \subseteq store.window
                  /\ client' = [client EXCEPT !.batch = batch, !.lagged = lagged, !.reader = reader]
    <3> DEFINE lagged == client.lagged \/ store.trimmed > client.cursor
    <3>1. Records(upTo) \subseteq store.window
      BY DEF Records
    <3>2. client' = [client EXCEPT !.batch = Records(upTo), !.lagged = lagged]
      BY <2>2
    <3> HIDE DEF lagged
    <3>3. client' = [client EXCEPT !.batch = Records(upTo), !.lagged = lagged,
                                   !.reader = client.reader]
      BY <1>1, <3>2 DEF ClientType
    <3> QED BY <3>1, <3>3
  <2> QED BY <2>1, <2>2 DEF Read
<1>3. /\ client'.phase = client.phase /\ client'.text = client.text /\ client'.think = client.think
      /\ client'.plan = client.plan /\ client'.replay = client.replay
      /\ client'.queue = client.queue /\ client'.batch = batch /\ client'.cursor = client.cursor
  BY <1>1, <1>2 DEF ClientType
<1> QED BY <1>1, <1>2, <1>3, OrderLess

\* What is handed on is newer than the checkpoint, and was to come.
LEMMA OrderHandOn ==
    ASSUME Inv, OrderInv, HandOn
    PROVE  OrderInv'
<1>1. PICK e \in client.batch :
              /\ \A d \in client.batch : e.seq <= d.seq
              /\ client' \in ClientType /\ Moved(e)
              /\ client'.reader \in {"open", "closed"}
              /\ client'.batch # {} => client'.batch = client.batch \ {e} /\ client'.reader = "open"
              /\ client'.batch \subseteq client.batch
              /\ IF e.seq > client.after /\ Uncovered(client.plan, e)
                 THEN client'.queue = Append(client.queue, ToItem(e)) /\ client'.after = e.seq
                 ELSE client'.queue = client.queue /\ client'.after = client.after
  BY HandOnFields
<1>2. /\ store' = store /\ client.reader = "open" /\ client.phase \in Serving /\ client \in ClientType
      /\ e \in Event /\ e.seq \in Nat /\ client.cursor \in Nat /\ client.queue \in Seq(Item)
      /\ client.plan.textSeq \in Nat /\ client.plan.thinkSeq \in Nat
  <2>1. store' = store /\ client.reader = "open" /\ client \in ClientType
    BY DEF HandOn, Inv, TypeInv
  <2>2. client.phase \in Serving
    BY <2>1 DEF Inv, PlanInv
  <2> QED BY <2>1, <2>2, OrderTypes DEF ClientType
<1>3. e.seq > client.cursor
  BY <1>2 DEF Inv, ReaderInv
<1>4. ASSUME NEW kinds
      PROVE  /\ client'.queue = client.queue => Queued(kinds)' = Queued(kinds)
             /\ Queued(kinds)' \subseteq Queued(kinds) \cup {e.seq}
             /\ e.kind \notin kinds => Queued(kinds)' \subseteq Queued(kinds)
  <2>1. client'.queue = client.queue => Queued(kinds)' = Queued(kinds)
    BY DEF Queued
  <2>2. CASE client'.queue = Append(client.queue, ToItem(e))
    <3>1. /\ Len(client'.queue) = Len(client.queue) + 1 /\ Len(client.queue) \in Nat
          /\ \A i \in 1 .. Len(client.queue) : client'.queue[i] = client.queue[i]
          /\ client'.queue[Len(client.queue) + 1] = ToItem(e)
          /\ ToItem(e).seq = e.seq /\ ToItem(e).kind = e.kind
      BY <1>2, <2>2, AppendingItem, ToItemFields
    <3>2. \A i \in 1 .. Len(client'.queue) :
             i \in 1 .. Len(client.queue) \/ client'.queue[i] = ToItem(e)
      BY <3>1
    <3>3. ASSUME NEW i \in 1 .. Len(client'.queue), client'.queue[i].kind \in kinds
          PROVE  \/ client'.queue[i].seq \in Queued(kinds)
                 \/ client'.queue[i].seq = e.seq /\ e.kind \in kinds
      BY <3>1, <3>2, <3>3 DEF Queued
    <3> QED BY <2>1, <3>3 DEF Queued
  <2> QED BY <1>1, <2>1, <2>2
<1>5. ASSUME NEW kinds, NEW seq \in Nat, \A n \in Queued(kinds) : n > seq,
             e.kind \in kinds /\ client'.queue # client.queue => e.seq > seq
      PROVE  (\A n \in Queued(kinds)' : n > seq) /\ Coming(kinds, seq)' \subseteq Coming(kinds, seq)
  <2>1. Queued(kinds)' \subseteq Queued(kinds) \cup {e.seq}
    BY <1>1, <1>4
  <2>2. e.seq \in Queued(kinds)' => e.seq \in Queued(kinds) \/ (e.kind \in kinds /\ e.seq > seq)
    BY <1>1, <1>4, <1>5
  <2>3. \A d \in store.window \cup client.batch : d.seq \in Nat
    BY OrderTypes
  <2>4. \A d \in (store.window \cup client.batch)' :
           d.seq > client'.cursor => d \in store.window \cup client.batch /\ d.seq > client.cursor
    BY <1>1, <1>2, <1>3, <2>3 DEF Moved
  <2>5. Coming(kinds, seq)' \subseteq Coming(kinds, seq) \cup Queued(kinds)'
    BY <2>4 DEF Coming
  <2>6. e.kind \in kinds /\ e.seq > seq => e.seq \in Coming(kinds, seq)
    BY <1>1, <1>3 DEF Coming
  <2>7. Queued(kinds) \subseteq Coming(kinds, seq)
    BY DEF Coming
  <2> QED BY <1>5, <2>1, <2>2, <2>5, <2>6, <2>7
<1>6. client'.queue # client.queue => Uncovered(client.plan, e)
  BY <1>1
<1>7. /\ \A n \in Queued({"text"}) : n > client.plan.textSeq
      /\ \A n \in Queued(Thinking) : n > client.plan.thinkSeq
  BY <1>2 DEF OrderInv, ServeOrder
<1>8. /\ \A n \in Queued({"text"})' : n > client.plan.textSeq
      /\ Coming({"text"}, client.plan.textSeq)' \subseteq Coming({"text"}, client.plan.textSeq)
  <2>1. PICK seq \in Nat : seq = client.plan.textSeq
    BY <1>2
  <2>2. (\A n \in Queued({"text"})' : n > seq) /\ Coming({"text"}, seq)' \subseteq Coming({"text"}, seq)
    BY <1>5, <1>6, <1>7, <2>1 DEF Uncovered
  <2> QED BY <1>1, <2>1, <2>2 DEF Moved, Coming
<1>9. /\ \A n \in Queued(Thinking)' : n > client.plan.thinkSeq
      /\ Coming(Thinking, client.plan.thinkSeq)' \subseteq Coming(Thinking, client.plan.thinkSeq)
  <2>1. PICK seq \in Nat : seq = client.plan.thinkSeq
    BY <1>2
  <2>2. (\A n \in Queued(Thinking)' : n > seq) /\ Coming(Thinking, seq)' \subseteq Coming(Thinking, seq)
    BY <1>5, <1>6, <1>7, <2>1 DEF Uncovered
  <2> QED BY <1>1, <2>1, <2>2 DEF Moved, Coming
<1> QED BY <1>1, <1>2, <1>8, <1>9, OrderServing DEF Moved

\* A checkpoint, or an event that is not content, is written.
LEMMA OrderWriteReplay ==
    ASSUME Inv, OrderInv, WriteReplay
    PROVE  OrderInv'
<1>1. PICK item \in client.replay :
              /\ \A other \in client.replay : item.seq <= other.seq
              /\ client' \in ClientType /\ Wrote(client', item)
              /\ client'.replay = client.replay \ {item} /\ client'.queue = client.queue
  BY WriteReplayFields
<1>2. /\ store' = store /\ client.phase \in Serving /\ client'.phase \in Serving
      /\ client'.plan = client.plan /\ client'.batch = client.batch /\ client'.cursor = client.cursor
      /\ store.seq \in Nat /\ item \in Item /\ item.content \in Content
  <2>1. item \in Items
    BY DEF Items
  <2>2. item \in Item
    BY <2>1, OrderTypes
  <2> QED BY <1>1, <2>2, OrderTypes DEF WriteReplay, Wrote, Serving, Item
<1>3. ASSUME NEW kinds, NEW seq \in Nat, seq <= store.seq, NEW shown \in Content, NEW later,
             ServeOrder(shown, kinds, seq), Increasing(shown), AtMost(shown, store.seq),
             \/ later = <<>> /\ item.kind \notin kinds
             \/ later = shown /\ item.kind \notin kinds
             \/ later = item.content /\ item.kind \in kinds
      PROVE  ServeOrder(later, kinds, seq)' /\ Increasing(later) /\ AtMost(later, store.seq)
  <2>1. \A n \in Coming(kinds, seq) : n > seq /\ n \in Nat
    BY <1>3, OrderTypes DEF Coming, ServeOrder
  <2>2. Queued(kinds)' = Queued(kinds) /\ Coming(kinds, seq)' = Coming(kinds, seq)
    BY <1>1, <1>2 DEF Queued, Coming
  <2>3. item.kind \in kinds => Increasing(item.content) /\ AtMost(item.content, seq)
    BY <1>3 DEF ServeOrder
  <2>4. \A s \in Content : \A i \in 1 .. Len(s) : s[i] \in Nat
    BY ContentIsNat
  <2>5. Increasing(later) /\ AtMost(later, store.seq)
    <3>1. CASE later = <<>>
      BY <3>1 DEF Increasing, AtMost
    <3>2. CASE later = shown
      BY <1>3, <3>2
    <3>3. CASE later = item.content /\ item.kind \in kinds
      BY <1>2, <1>3, <2>3, <2>4, <3>3 DEF AtMost
    <3> QED BY <1>3, <3>1, <3>2, <3>3
  <2>6. ASSUME \A other \in client'.replay : other.kind \notin kinds,
               NEW i \in 1 .. Len(later), NEW n \in Coming(kinds, seq)
        PROVE  later[i] < n
    <3>1. CASE later = item.content /\ item.kind \in kinds
      BY <1>2, <2>1, <2>3, <2>4, <2>6, <3>1 DEF AtMost
    <3>2. CASE later = shown /\ item.kind \notin kinds
      <4>1. \A other \in client.replay : other.kind \notin kinds
        BY <1>1, <2>6, <3>2
      <4> QED BY <1>3, <2>6, <3>2, <4>1 DEF ServeOrder
    <3>3. CASE later = <<>>
      BY <2>6, <3>3
    <3> QED BY <1>3, <3>1, <3>2, <3>3
  <2>7. /\ \A other \in client'.replay : other.kind \in kinds =>
              other.replace /\ Increasing(other.content) /\ AtMost(other.content, seq)
        /\ \A n \in Queued(kinds) : n > seq
    BY <1>1, <1>3 DEF ServeOrder
  <2> QED BY <2>2, <2>5, <2>6, <2>7 DEF ServeOrder
<1>4. ASSUME NEW kinds, NEW seq, NEW shown, NEW later, ServeOrder(shown, kinds, seq),
             "moderation_blocked" \notin kinds,
             later = IF item.kind = "moderation_blocked" THEN <<>> ELSE Put(shown, item, kinds)
      PROVE  \/ later = <<>> /\ item.kind \notin kinds
             \/ later = shown /\ item.kind \notin kinds
             \/ later = item.content /\ item.kind \in kinds
  BY <1>4 DEF Put, ServeOrder
<1>5. /\ ServeOrder(client.text, {"text"}, client.plan.textSeq)
      /\ ServeOrder(client.think, Thinking, client.plan.thinkSeq)
      /\ Increasing(client.text) /\ AtMost(client.text, store.seq)
      /\ Increasing(client.think) /\ AtMost(client.think, store.seq)
  BY <1>2 DEF OrderInv
<1>6. /\ client.plan.textSeq \in Nat /\ client.plan.textSeq <= store.seq
      /\ client.plan.thinkSeq \in Nat /\ client.plan.thinkSeq <= store.seq
      /\ client.text \in Content /\ client.think \in Content
  BY OrderTypes DEF Inv, PastInv
<1>7. /\ ServeOrder(client.text, {"text"}, client.plan.textSeq)'
      /\ Increasing(client.text)' /\ AtMost(client.text, store.seq)'
  <2> PICK later : later = client'.text
    OBVIOUS
  <2>1. later = IF item.kind = "moderation_blocked" THEN <<>> ELSE Put(client.text, item, {"text"})
    BY <1>1 DEF Wrote
  <2>2. \/ later = <<>> /\ item.kind \notin {"text"}
        \/ later = client.text /\ item.kind \notin {"text"}
        \/ later = item.content /\ item.kind \in {"text"}
    BY <1>4, <1>5, <2>1
  <2>3. PICK seq : seq = client.plan.textSeq
    OBVIOUS
  <2>4. ServeOrder(later, {"text"}, seq)' /\ Increasing(later) /\ AtMost(later, store.seq)
    BY <1>3, <1>5, <1>6, <2>2, <2>3
  <2> QED BY <1>2, <2>3, <2>4
<1>8. /\ ServeOrder(client.think, Thinking, client.plan.thinkSeq)'
      /\ Increasing(client.think)' /\ AtMost(client.think, store.seq)'
  <2> PICK later : later = client'.think
    OBVIOUS
  <2>1. later = IF item.kind = "moderation_blocked" THEN <<>> ELSE Put(client.think, item, Thinking)
    BY <1>1 DEF Wrote
  <2>2. \/ later = <<>> /\ item.kind \notin Thinking
        \/ later = client.think /\ item.kind \notin Thinking
        \/ later = item.content /\ item.kind \in Thinking
    BY <1>4, <1>5, <2>1 DEF Thinking
  <2>3. PICK seq : seq = client.plan.thinkSeq
    OBVIOUS
  <2>4. ServeOrder(later, Thinking, seq)' /\ Increasing(later) /\ AtMost(later, store.seq)
    BY <1>3, <1>5, <1>6, <2>2, <2>3
  <2> QED BY <1>2, <2>3, <2>4
<1>9. /\ StoreOrder(store.text, store.textSeq, {"text"})'
      /\ StoreOrder(store.think, store.thinkSeq, Thinking)'
  BY <1>2 DEF OrderInv, StoreOrder
<1> QED BY <1>2, <1>7, <1>8, <1>9 DEF OrderInv, Serving

\* The piece at the head of the channel is written: what is shown is older, and
\* what is still to come is newer.
LEMMA OrderWriteLive ==
    ASSUME Inv, OrderInv, WriteLive
    PROVE  OrderInv'
<1>1. PICK c \in ClientType, h \in Items :
              /\ Wrote(c, h) /\ c.replay = client.replay
              /\ client' = IF h.kind \in Terminals THEN Ended(c, h.kind) ELSE c
              /\ h.seq \in Seqs /\ h.seq <= client.cursor
              /\ h.kind \in Thinking \cup {"text"} => h.content = <<h.seq>>
              /\ h.replace <=> h.kind = "round"
              /\ 1 \in 1 .. Len(client.queue) /\ client.queue[1] = h
              /\ Len(c.queue) \in Nat
              /\ \A i \in 1 .. Len(client.queue) : i = 1 \/ \E j \in 1 .. Len(c.queue) :
                    j + 1 = i /\ c.queue[j] = client.queue[i]
              /\ \A j \in 1 .. Len(c.queue) :
                    /\ j + 1 \in 1 .. Len(client.queue) /\ c.queue[j] = client.queue[j + 1]
                    /\ h.seq < c.queue[j].seq
  BY WriteLiveHead
<1>2. /\ store' = store /\ client.phase = "live" /\ client.phase \in Serving /\ client.replay = {}
      /\ h \in Item /\ h.seq \in Nat \ {0} /\ h.seq <= store.seq /\ store.seq \in Nat
      /\ client.cursor \in Nat
      /\ client.text \in Content /\ client.think \in Content
      /\ client.plan.textSeq \in Nat /\ client.plan.thinkSeq \in Nat
  <2>1. store' = store /\ client.phase = "live"
    BY DEF WriteLive
  <2>2. client.replay = {}
    BY <2>1 DEF Inv, PlanInv
  <2>3. h.seq \in Nat \ {0}
    BY <1>1 DEF Seqs
  <2> QED BY <1>1, <2>1, <2>2, <2>3, OrderTypes DEF Serving
<1>a. \A kinds, shown : shown \in Content =>
         /\ h.kind \notin kinds => Put(shown, h, kinds) = shown
         /\ h.kind \in kinds /\ h.replace => Put(shown, h, kinds) = h.content
         /\ h.kind \in kinds /\ ~ h.replace =>
               \A n \in Seqs : h.content = <<n>> => Put(shown, h, kinds) = Append(shown, n)
  <2>1. h \in Item
    BY <1>2
  <2> QED BY <2>1, PutFields
<1>3. /\ c.phase = client.phase /\ c.plan = client.plan /\ c.batch = client.batch
      /\ c.cursor = client.cursor
      /\ c.text = IF h.kind = "moderation_blocked" THEN <<>> ELSE Put(client.text, h, {"text"})
      /\ c.think = IF h.kind = "moderation_blocked" THEN <<>> ELSE Put(client.think, h, Thinking)
  BY <1>1 DEF Wrote
<1>4. ASSUME NEW kinds \in {{"text"}, Thinking}, NEW seq \in Nat, NEW shown \in Content, NEW later,
             ServeOrder(shown, kinds, seq), Increasing(shown), AtMost(shown, store.seq),
             later = IF h.kind = "moderation_blocked" THEN <<>> ELSE Put(shown, h, kinds)
      PROVE  /\ Increasing(later) /\ AtMost(later, store.seq)
             /\ client' = c => ServeOrder(later, kinds, seq)'
  <2>1. shown \in Seq(Nat) /\ \A i \in 1 .. Len(shown) : shown[i] \in Nat
    BY ContentIsNat
  <2>2. /\ \A i \in 1 .. Len(shown) : \A n \in Coming(kinds, seq) : shown[i] < n
        /\ \A n \in Queued(kinds) : n > seq
    BY <1>2, <1>4 DEF ServeOrder
  <2>3. h.kind \in kinds => h.seq \in Coming(kinds, seq)
    BY <1>1 DEF Coming, Queued
  <2>4. h.kind \in kinds => \A i \in 1 .. Len(shown) : shown[i] < h.seq
    BY <2>2, <2>3
  <2>5. \/ later = <<>> \/ later = shown
        \/ later = <<h.seq>> /\ h.kind \in kinds
        \/ later = Append(shown, h.seq) /\ h.kind \in kinds
    <3>1. h.kind \in kinds => h.content = <<h.seq>>
      BY <1>1
    <3>2. /\ h.kind \notin kinds => Put(shown, h, kinds) = shown
          /\ h.kind \in kinds /\ h.replace => Put(shown, h, kinds) = h.content
          /\ h.kind \in kinds /\ ~ h.replace =>
                \A n \in Seqs : h.content = <<n>> => Put(shown, h, kinds) = Append(shown, n)
      BY <1>4, <1>a, Zenon
    <3> QED BY <1>1, <1>4, <3>1, <3>2
  <2>6. h.kind \in kinds =>
           LET more == Append(shown, h.seq)
           IN  /\ more # <<>> /\ Len(more) = Len(shown) + 1 /\ more[Len(shown) + 1] = h.seq
               /\ \A i \in 1 .. Len(shown) : more[i] = shown[i]
               /\ Increasing(more) /\ CheckpointOf(more, h.seq)
               /\ \A i \in 1 .. Len(more) : more[i] <= h.seq
    BY <1>2, <1>4, <2>1, <2>4, PieceSaid
  <2>7. Increasing(<<h.seq>>) /\ \A i \in 1 .. Len(<<h.seq>>) : <<h.seq>>[i] = h.seq
    BY <1>2, RoundSaid
  <2>8. Increasing(later)
    <3>1. CASE later = <<>>
      BY <3>1 DEF Increasing
    <3> QED BY <1>4, <2>5, <2>6, <2>7, <3>1
  <2>9. \A i \in 1 .. Len(later) :
           \/ \E j \in 1 .. Len(shown) : later[i] = shown[j]
           \/ h.kind \in kinds /\ later[i] = h.seq
    <3>1. CASE later = Append(shown, h.seq) /\ h.kind \in kinds
      BY <2>1, <2>6, <3>1
    <3> QED BY <2>5, <2>7, <3>1
  <2>10. AtMost(later, store.seq)
    BY <1>2, <1>4, <2>9 DEF AtMost
  <2>11. ASSUME client' = c
         PROVE  ServeOrder(later, kinds, seq)'
    <3>1. Queued(kinds)' \subseteq Queued(kinds) /\ \A n \in Queued(kinds)' : h.seq < n
      <4> SUFFICES ASSUME NEW j \in 1 .. Len(client'.queue), client'.queue[j].kind \in kinds
                   PROVE  client'.queue[j].seq \in Queued(kinds) /\ h.seq < client'.queue[j].seq
        BY DEF Queued
      <4>1. /\ j + 1 \in 1 .. Len(client.queue) /\ client'.queue[j] = client.queue[j + 1]
            /\ h.seq < client'.queue[j].seq
        BY <1>1, <2>11
      <4> QED BY <4>1 DEF Queued
    <3>2. Coming(kinds, seq)' \subseteq Coming(kinds, seq)
      BY <1>2, <1>3, <2>11, <3>1 DEF Coming
    <3>3. \A e \in store.window \cup client.batch : e.seq \in Nat
      BY OrderTypes
    <3>4. \A n \in Coming(kinds, seq)' : h.seq < n
      BY <1>1, <1>2, <1>3, <2>11, <3>1, <3>3 DEF Coming
    <3>5. \A i \in 1 .. Len(later) : \A n \in Coming(kinds, seq)' : later[i] < n
      BY <2>2, <2>9, <3>2, <3>4
    <3>6. client'.replay = {}
      BY <1>1, <1>2, <2>11
    <3> QED BY <2>2, <3>1, <3>5, <3>6 DEF ServeOrder
  <2> QED BY <2>8, <2>10, <2>11
<1>5. /\ ServeOrder(client.text, {"text"}, client.plan.textSeq)
      /\ ServeOrder(client.think, Thinking, client.plan.thinkSeq)
      /\ Increasing(client.text) /\ AtMost(client.text, store.seq)
      /\ Increasing(client.think) /\ AtMost(client.think, store.seq)
  BY <1>2 DEF OrderInv
<1>6. PICK text, think, textSeq, thinkSeq :
         text = c.text /\ think = c.think
         /\ textSeq = client.plan.textSeq /\ thinkSeq = client.plan.thinkSeq
  OBVIOUS
<1>7. /\ Increasing(text) /\ AtMost(text, store.seq)
      /\ client' = c => ServeOrder(text, {"text"}, textSeq)'
  BY <1>2, <1>3, <1>4, <1>5, <1>6
<1>8. /\ Increasing(think) /\ AtMost(think, store.seq)
      /\ client' = c => ServeOrder(think, Thinking, thinkSeq)'
  BY <1>2, <1>3, <1>4, <1>5, <1>6
<1>9. CASE h.kind \in Terminals
  <2>1. client' = Ended(c, h.kind)
    BY <1>1, <1>9
  <2>2. client'.phase = "off" /\ client'.text = c.text /\ client'.think = c.think
    <3>1. h.kind \in {"none", "refused", "dropped", "interrupted"} \cup Terminals
      BY <1>9
    <3> QED BY <2>1, <3>1, EndedFields, ZenonT(30)
  <2>3. /\ Increasing(client'.text) /\ AtMost(client'.text, store.seq)
        /\ Increasing(client'.think) /\ AtMost(client'.think, store.seq)
    BY <1>6, <1>7, <1>8, <2>2
  <2> QED BY <1>2, <2>2, <2>3, OrderOff
<1>10. CASE h.kind \notin Terminals
  <2>1. client' = c
    BY <1>1, <1>10
  <2>2. /\ ServeOrder(client.text, {"text"}, client.plan.textSeq)'
        /\ ServeOrder(client.think, Thinking, client.plan.thinkSeq)'
    BY <1>3, <1>6, <1>7, <1>8, <2>1
  <2>3. /\ StoreOrder(store.text, store.textSeq, {"text"})'
        /\ StoreOrder(store.think, store.thinkSeq, Thinking)'
    BY <1>2 DEF OrderInv, StoreOrder
  <2>4. client'.phase = "live"
    BY <1>2, <1>3, <2>1
  <2> QED BY <1>2, <1>6, <1>7, <1>8, <2>1, <2>2, <2>3, <2>4 DEF OrderInv, Serving
<1> QED BY <1>9, <1>10

LEMMA OrderStep ==
    ASSUME Inv, OrderInv, [Next]_vars
    PROVE  OrderInv'
<1>1. client \in ClientType
  BY DEF Inv, TypeInv
<1>2. ASSUME UNCHANGED <<store, run>>,
             NEW told \in {"none", "refused", "dropped", "interrupted"} \cup {client.told},
             client' = Ended(client, told)
      PROVE  OrderInv'
  <2>1. told \in {"none", "refused", "dropped", "interrupted"} \cup Terminals
    BY <1>1 DEF ClientType
  <2> QED BY <1>2, <2>1, OrderEnded
<1>3. CASE Generation
  BY <1>3, OrderGeneration
<1>4. CASE Connect \/ Subscribing
  BY <1>4, OrderConnect, OrderList, OrderReadText, OrderReadThink, OrderDecide DEF Subscribing
<1>5. CASE CallFails
  BY <1>2, <1>5 DEF CallFails, Refuse
<1>6. CASE Read \/ HandOn
  BY <1>6, OrderReader, OrderHandOn
<1>7. CASE WriteReplay \/ WriteLive
  BY <1>7, OrderWriteReplay, OrderWriteLive
<1>8. CASE Replayed
  <2>1. CASE client' = [client EXCEPT !.phase = "live"] /\ UNCHANGED <<store, run>>
    <3>1. /\ store' = store /\ client.phase \in Serving
      BY <1>8, <2>1 DEF Replayed, Serving
    <3>2. /\ client'.phase \in Serving
          /\ client'.text = client.text /\ client'.think = client.think /\ client'.plan = client.plan
          /\ client'.replay = client.replay /\ client'.queue = client.queue
          /\ client'.batch = client.batch /\ client'.cursor = client.cursor
      BY <1>1, <2>1 DEF ClientType, Serving
    <3> QED BY <3>1, <3>2, OrderLess
  <2> QED BY <1>2, <1>8, <2>1 DEF Replayed, Interrupt
<1>9. CASE ReaderClosed \/ CheckActive
  BY <1>2, <1>9 DEF ReaderClosed, CheckActive, Interrupt, Drop
<1>10. CASE Disconnect
  BY <1>2, <1>10 DEF Disconnect
<1>11. CASE UNCHANGED vars
  <2>1. client' = client /\ store' = store /\ run' = run
    BY <1>11 DEF vars
  <2> QED BY <2>1, OrderQuiet
<1> QED BY <1>3, <1>4, <1>5, <1>6, <1>7, <1>8, <1>9, <1>10, <1>11 DEF Next, Handling

LEMMA InitOrder == Init => OrderInv
<1> SUFFICES ASSUME Init PROVE OrderInv
  OBVIOUS
<1>1. /\ client.phase = "off" /\ client.text = <<>> /\ client.think = <<>>
      /\ store.text = <<>> /\ store.think = <<>> /\ store.window = {}
  BY DEF Init, NewClient, NoStore
<1>2. Increasing(<<>>) /\ \A n : AtMost(<<>>, n)
  BY EmptySeq DEF Increasing, AtMost
<1> QED BY <1>1, <1>2 DEF OrderInv, StoreOrder, Serving

\* What is shown stays in the order in which it was said and no piece is shown
\* twice, for every window and channel, also where the reader was overtaken by
\* the window or moderation withdrew the answer (the filters of readStoreEvents).
THEOREM InOrderHolds == Spec => []InOrder
<1>1. Init => OrderInv
  BY InitOrder
<1>2. Inv /\ OrderInv /\ [Next]_vars => OrderInv'
  BY OrderStep
<1>3. OrderInv => InOrder
  BY DEF OrderInv, InOrder, Increasing
<1> QED BY <1>1, <1>2, <1>3, ReplayInvariant, PTL DEF Spec

\* A subscriber shows what the store has taken of the answer, no piece twice and
\* none missing, once its checkpoints are written; who is told the end of the run
\* lacks only the pieces whose append failed; and what is shown is in order, for
\* every window and channel, whatever the store trims and whichever appends fail
\* (publishWithLease, retainedStreamEvents and readStoreEvents).
THEOREM ViewIsRightHolds == Spec => []ViewIsRight
<1>1. Inv /\ AnswerInv /\ InOrder => ViewIsRight
  BY InvView DEF ViewIsRight
<1> QED BY <1>1, ReplayInvariant, AnswerHolds, InOrderHolds, PTL
=============================================================================
