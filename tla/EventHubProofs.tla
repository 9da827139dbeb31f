--------------------------- MODULE EventHubProofs ---------------------------
(***************************************************************************)
(* What a reader of the event hub gets, for any number of readers, events  *)
(* and clearings, and for queues of any size.                              *)
(***************************************************************************)
EXTENDS EventHub, SequenceTheorems, TLAPS

(* The n-th event of a generation has number n; the present one has as many as were
   numbered, a later one none *)
Histories ==
  /\ \A g \in Generation, n \in Nat : n \in 1 .. Len(history[g]) => history[g][n] = <<g, n>>
  /\ Len(history[gen]) = lastSeq
  /\ \A g \in Generation : g > gen => history[g] = <<>>

(* A queue is in the list of the generation its reader holds, as long as the reader
   is there *)
Lists ==
  /\ \A g \in Generation : \A r \in streams[g] : reads[r] = g /\ phase[r] # "off"
  /\ \A r \in Reader : phase[r] \in {"replay", "live"} => r \in streams[reads[r]]
  /\ \A r \in Reader : reads[r] <= gen

(* A reader that has not begun has nothing *)
Fresh ==
  \A r \in Reader : phase[r] = "off" =>
    out[r] = <<>> /\ queue[r] = <<>> /\ cursor[r] = 0 /\ dropped[r] = {}

(* What is sent and what is queued is of the generation that is read *)
Told(r, e) == e[1] = reads[r] /\ e[2] <= Len(history[reads[r]])
OfItsOwn(r) ==
  /\ \A i \in 1 .. Len(out[r]) : Told(r, out[r][i])
  /\ \A i \in 1 .. Len(queue[r]) : Told(r, queue[r][i])
  /\ \A e \in dropped[r] : Told(r, e)

(* First comes the history, as far as it has been replayed, ... *)
Replayed(r) ==
  /\ cursor[r] <= Len(out[r]) /\ cursor[r] <= Len(history[reads[r]])
  /\ \A i \in 1 .. cursor[r] : out[r][i][2] = i
  /\ phase[r] = "replay" => Len(out[r]) = cursor[r]

(* ... then the queue, which is in order and behind everything live that was sent *)
Queued(r) ==
  /\ \A i, j \in 1 .. Len(queue[r]) : i < j => queue[r][i][2] < queue[r][j][2]
  /\ \A i \in 1 .. Len(out[r]), j \in 1 .. Len(queue[r]) :
       out[r][i][2] <= cursor[r] \/ out[r][i][2] < queue[r][j][2]

(* No number is missing *)
Sent(r, n) == \E i \in 1 .. Len(out[r]) : out[r][i][2] = n
Waits(r, n) == \E i \in 1 .. Len(queue[r]) : queue[r][i][2] = n
Complete(r) ==
  phase[r] \in {"replay", "live"} =>
    \A n \in 1 .. Len(history[reads[r]]) :
      \/ Sent(r, n) \/ Waits(r, n)
      \/ phase[r] = "replay" /\ n > cursor[r]
      \/ <<reads[r], n>> \in dropped[r]

(* What goes back is a repeat of what was replayed *)
Repeats(r) ==
  \A i, j \in 1 .. Len(out[r]) :
    i < j /\ out[r][j][2] <= out[r][i][2] => out[r][j][2] <= cursor[r]

HubInv ==
  /\ HubTypeOK /\ Histories /\ Lists /\ Fresh
  /\ \A r \in Reader : OfItsOwn(r) /\ Replayed(r) /\ Queued(r) /\ Complete(r) /\ Repeats(r)

(* An event is known by its generation and its number. *)
LEMMA EventIsPair == \A e \in Event : e = <<e[1], e[2]>> /\ e[1] \in Generation /\ e[2] \in 1 .. MaxEvents
  BY DEF Event

(* No history is longer than a generation may be. *)
LEMMA HistoryIsShort ==
  ASSUME HubTypeOK, Histories, NEW g \in Generation
  PROVE  Len(history[g]) \in 0 .. MaxEvents
<1>1. history[g] \in Seq(Event) /\ Len(history[g]) \in Nat
  BY DEF HubTypeOK
<1>2. CASE Len(history[g]) = 0
  BY <1>2, HubAssumption
<1>3. CASE Len(history[g]) > 0
  <2>1. Len(history[g]) \in 1 .. Len(history[g])
    BY <1>1, <1>3
  <2>2. history[g][Len(history[g])] = <<g, Len(history[g])>>
    BY <1>1, <2>1 DEF Histories
  <2>3. history[g][Len(history[g])] \in Event
    BY <1>1, <2>1, ElementOfSeq
  <2> QED
    BY <2>2, <2>3 DEF Event
<1> QED
  BY <1>1, <1>2, <1>3

(* At first nobody has anything. *)
LEMMA HubInitInv == HubInit => HubInv
<1> SUFFICES ASSUME HubInit PROVE HubInv
  OBVIOUS
<1> USE HubAssumption
<1>1. HubTypeOK
  BY DEF HubInit, HubTypeOK, Generation, Event
<1>2. Histories /\ Lists /\ Fresh
  BY DEF HubInit, Histories, Lists, Fresh, Generation
<1>3. ASSUME NEW r \in Reader
      PROVE  OfItsOwn(r) /\ Replayed(r) /\ Queued(r) /\ Complete(r) /\ Repeats(r)
  BY DEF HubInit, OfItsOwn, Replayed, Queued, Complete, Repeats, Generation
<1> QED
  BY <1>1, <1>2, <1>3 DEF HubInv

(* A reader nothing happens to keeps what it has, while its history may grow, as long
   as it is not there to read it. *)
LEMMA BystanderKeeps ==
  ASSUME HubTypeOK, HubTypeOK', NEW r \in Reader,
         OfItsOwn(r), Replayed(r), Queued(r), Complete(r), Repeats(r),
         phase'[r] = phase[r], reads'[r] = reads[r], cursor'[r] = cursor[r],
         queue'[r] = queue[r], out'[r] = out[r], dropped'[r] = dropped[r],
         Len(history[reads[r]]) <= Len(history'[reads[r]]),
         phase[r] \in {"replay", "live"} => Len(history'[reads[r]]) = Len(history[reads[r]])
  PROVE  (OfItsOwn(r) /\ Replayed(r) /\ Queued(r) /\ Complete(r) /\ Repeats(r))'
<1> DEFINE old == Len(history[reads[r]])
           new == Len(history'[reads[r]])
<1>1. old \in Nat /\ new \in Nat
  BY DEF HubTypeOK
<1>2. cursor[r] \in Nat /\ Len(out[r]) \in Nat /\ Len(queue[r]) \in Nat
  BY DEF HubTypeOK
<1>3. /\ \A i \in 1 .. Len(out[r]) : out[r][i] \in Event
      /\ \A i \in 1 .. Len(queue[r]) : queue[r][i] \in Event
      /\ \A e \in dropped[r] : e \in Event
  BY ElementOfSeq DEF HubTypeOK
<1>4. \A e \in Event : Told(r, e) => Told(r, e)'
  BY <1>1, EventIsPair, HubAssumption DEF Told
<1>5. OfItsOwn(r)'
  BY <1>3, <1>4 DEF OfItsOwn
<1>6. Replayed(r)'
  BY <1>1, <1>2 DEF Replayed
<1>7. Queued(r)' /\ Repeats(r)'
  BY DEF Queued, Repeats
<1>8. Complete(r)'
  BY DEF Complete, Sent, Waits
<1> QED
  BY <1>5, <1>6, <1>7, <1>8

(* A push reaches every queue in the list: it is put in, or the reader's loss is known. *)
LEMMA PushKeepsInv ==
  ASSUME HubInv, PushEvent
  PROVE  HubInv'
<1> DEFINE e == <<gen, lastSeq + 1>>
<1> USE HubAssumption
<1>1. HubTypeOK /\ Histories /\ Lists /\ Fresh
  BY DEF HubInv
<1>2. gen \in Generation /\ lastSeq \in Nat /\ lastSeq + 1 \in 1 .. MaxEvents /\ e \in Event
  BY <1>1 DEF HubTypeOK, PushEvent, Event
<1>3. /\ history' = [history EXCEPT ![gen] = Append(history[gen], e)]
      /\ UNCHANGED <<gen, streams, phase, reads, cursor, out>>
  BY DEF PushEvent
<1>4. /\ history[gen] \in Seq(Event) /\ Len(history[gen]) = lastSeq
      /\ history'[gen] = Append(history[gen], e)
      /\ Len(history'[gen]) = lastSeq + 1
      /\ history' \in [Generation -> Seq(Event)]
  BY <1>1, <1>2, <1>3 DEF HubTypeOK, Histories
<1>5. \A r \in Reader : r \in Fed(gen) <=> r \in streams[gen] /\ Len(queue[r]) # QueueSize
  BY <1>1, <1>2 DEF Fed, HubTypeOK
<1>6. ASSUME NEW r \in Reader
      PROVE  /\ r \in Fed(gen) => queue'[r] = Append(queue[r], e) /\ dropped'[r] = dropped[r]
             /\ r \notin Fed(gen) => queue'[r] = queue[r]
             /\ r \in streams[gen] /\ r \notin Fed(gen) => dropped'[r] = dropped[r] \cup {e}
             /\ r \notin streams[gen] => r \notin Fed(gen) /\ dropped'[r] = dropped[r]
  BY <1>5 DEF PushEvent
<1>7. HubTypeOK'
  <2>1. ASSUME NEW r \in Reader
        PROVE  queue'[r] \in Seq(Event) /\ Len(queue'[r]) <= QueueSize
    <3>0. queue[r] \in Seq(Event) /\ Len(queue[r]) \in Nat /\ Len(queue[r]) <= QueueSize
      BY <1>1 DEF HubTypeOK
    <3>1. CASE r \in Fed(gen)
      <4>1. Len(queue[r]) < QueueSize
        BY <3>1 DEF Fed
      <4>2. queue'[r] = Append(queue[r], e)
        BY <1>6, <3>1
      <4> QED
        BY <1>2, <3>0, <4>1, <4>2, AppendProperties
    <3>2. CASE r \notin Fed(gen)
      BY <1>6, <3>0, <3>2
    <3> QED
      BY <3>1, <3>2
  <2>2. queue' \in [Reader -> Seq(Event)]
    BY <2>1 DEF PushEvent
  <2>3. dropped' \in [Reader -> SUBSET Event]
    BY <1>1, <1>2 DEF PushEvent, HubTypeOK
  <2>4. lastSeq' \in 0 .. MaxEvents
    BY <1>2 DEF PushEvent
  <2> HIDE DEF e
  <2> QED
    BY <1>1, <1>3, <1>4, <2>1, <2>2, <2>3, <2>4 DEF HubTypeOK
<1>8. Histories'
  <2>1. ASSUME NEW g \in Generation, NEW n \in Nat, n \in 1 .. Len(history'[g])
        PROVE  history'[g][n] = <<g, n>>
    <3>1. CASE g = gen
      BY <1>1, <1>2, <1>4, <2>1, <3>1 DEF Histories
    <3>2. CASE g # gen
      BY <1>1, <1>3, <2>1, <3>2 DEF Histories, HubTypeOK
    <3> QED
      BY <3>1, <3>2
  <2>2. lastSeq' = lastSeq + 1
    BY DEF PushEvent
  <2>3. \A g \in Generation : g > gen => history'[g] = <<>>
    BY <1>1, <1>2, <1>3 DEF Histories, HubTypeOK, Generation
  <2> QED
    BY <1>3, <1>4, <2>1, <2>2, <2>3 DEF Histories
<1>9. Lists' /\ Fresh'
  BY <1>1, <1>2, <1>3, <1>6 DEF Lists, Fresh
<1>10. ASSUME NEW r \in Reader
       PROVE  (OfItsOwn(r) /\ Replayed(r) /\ Queued(r) /\ Complete(r) /\ Repeats(r))'
  <2>1. OfItsOwn(r) /\ Replayed(r) /\ Queued(r) /\ Complete(r) /\ Repeats(r)
    BY DEF HubInv
  <2>2. CASE r \notin streams[gen]
    <3>1. Len(history[reads[r]]) <= Len(history'[reads[r]])
      BY <1>1, <1>2, <1>3, <1>4 DEF HubTypeOK
    <3>2. phase[r] \in {"replay", "live"} => Len(history'[reads[r]]) = Len(history[reads[r]])
      BY <1>1, <1>3, <2>2 DEF HubTypeOK, Lists
    <3> QED
      BY <1>1, <1>3, <1>6, <1>7, <2>1, <2>2, <3>1, <3>2, BystanderKeeps
  <2>3. CASE r \in streams[gen]
    <3>1. reads[r] = gen /\ reads'[r] = gen /\ phase'[r] = phase[r] /\ out'[r] = out[r] /\ cursor'[r] = cursor[r]
      BY <1>1, <1>2, <1>3, <2>3 DEF Lists
    <3>2. /\ cursor[r] \in Nat /\ Len(out[r]) \in Nat /\ Len(queue[r]) \in Nat /\ queue[r] \in Seq(Event)
          /\ out[r] \in Seq(Event) /\ dropped[r] \subseteq Event
      BY <1>1 DEF HubTypeOK
    <3>3. /\ \A i \in 1 .. Len(out[r]) : out[r][i] \in Event
          /\ \A i \in 1 .. Len(queue[r]) : queue[r][i] \in Event
      BY <3>2, ElementOfSeq
    <3>4. /\ \A i \in 1 .. Len(out[r]) : out[r][i][1] = gen /\ out[r][i][2] \in 1 .. lastSeq
          /\ \A i \in 1 .. Len(queue[r]) : queue[r][i][1] = gen /\ queue[r][i][2] \in 1 .. lastSeq
          /\ \A d \in dropped[r] : d[1] = gen /\ d[2] \in 1 .. lastSeq
      <4>1. \A d \in Event : Told(r, d) => d[1] = gen /\ d[2] \in 1 .. lastSeq
        BY <1>2, <1>4, <3>1, EventIsPair DEF Told
      <4> QED
        BY <2>1, <3>2, <3>3, <4>1 DEF OfItsOwn
    <3>5. Replayed(r)' /\ Repeats(r)'
      <4>1. Repeats(r)'
        BY <2>1, <3>1 DEF Repeats
      <4>2. cursor[r] <= lastSeq + 1
        BY <1>2, <1>4, <2>1, <3>1, <3>2 DEF Replayed
      <4> QED
        BY <1>4, <2>1, <3>1, <4>1, <4>2 DEF Replayed
    <3>6. CASE r \in Fed(gen)
      <4>1. /\ queue'[r] = Append(queue[r], e) /\ dropped'[r] = dropped[r]
            /\ Len(queue'[r]) = Len(queue[r]) + 1
            /\ \A i \in 1 .. Len(queue[r]) : queue'[r][i] = queue[r][i]
            /\ queue'[r][Len(queue[r]) + 1] = e
        BY <1>2, <1>6, <3>2, <3>6
      <4>2. OfItsOwn(r)'
        <5>1. e[1] = gen /\ e[2] = lastSeq + 1 /\ Len(history'[gen]) = lastSeq + 1
          BY <1>4
        <5>2. ASSUME NEW i \in 1 .. Len(queue'[r])
              PROVE  queue'[r][i][1] = gen /\ queue'[r][i][2] <= lastSeq + 1
          <6>1. CASE i \in 1 .. Len(queue[r])
            BY <1>2, <3>4, <4>1, <6>1
          <6>2. CASE i = Len(queue[r]) + 1
            BY <1>2, <4>1, <5>1, <6>2
          <6> QED
            BY <3>2, <4>1, <6>1, <6>2
        <5>3. \A i \in 1 .. Len(out[r]) : out[r][i][1] = gen /\ out[r][i][2] <= lastSeq + 1
          BY <1>2, <3>4
        <5>4. \A d \in dropped[r] : d[1] = gen /\ d[2] <= lastSeq + 1
          BY <1>2, <3>4
        <5> QED
          BY <3>1, <4>1, <5>1, <5>2, <5>3, <5>4 DEF OfItsOwn, Told
      <4>3. Queued(r)'
        <5>1. e[2] = lastSeq + 1
          OBVIOUS
        <5>2. ASSUME NEW i \in 1 .. Len(queue'[r]), NEW j \in 1 .. Len(queue'[r]), i < j
              PROVE  queue'[r][i][2] < queue'[r][j][2]
          <6>1. i \in 1 .. Len(queue[r]) /\ queue'[r][i] = queue[r][i] /\ queue[r][i][2] \in 1 .. lastSeq
            BY <3>2, <3>4, <4>1, <5>2
          <6>2. CASE j = Len(queue[r]) + 1
            BY <1>2, <4>1, <5>1, <6>1, <6>2
          <6>3. CASE j \in 1 .. Len(queue[r])
            BY <2>1, <4>1, <5>2, <6>1, <6>3 DEF Queued
          <6> QED
            BY <3>2, <4>1, <6>2, <6>3
        <5>3. ASSUME NEW i \in 1 .. Len(out[r]), NEW j \in 1 .. Len(queue'[r])
              PROVE  out[r][i][2] <= cursor[r] \/ out[r][i][2] < queue'[r][j][2]
          <6>1. CASE j = Len(queue[r]) + 1
            BY <1>2, <3>4, <4>1, <5>1, <6>1
          <6>2. CASE j \in 1 .. Len(queue[r])
            BY <2>1, <4>1, <6>2 DEF Queued
          <6> QED
            BY <3>2, <4>1, <6>1, <6>2
        <5> QED
          BY <3>1, <5>2, <5>3 DEF Queued
      <4>4. Complete(r)'
        <5> SUFFICES ASSUME phase[r] \in {"replay", "live"}, NEW n \in 1 .. lastSeq + 1
                     PROVE  \/ Sent(r, n)' \/ Waits(r, n)'
                            \/ phase[r] = "replay" /\ n > cursor[r]
                            \/ <<gen, n>> \in dropped'[r]
          BY <1>4, <3>1 DEF Complete
        <5>1. CASE n = lastSeq + 1
          <6>1. Len(queue[r]) + 1 \in 1 .. Len(queue'[r]) /\ queue'[r][Len(queue[r]) + 1][2] = n
            BY <3>2, <4>1, <5>1
          <6> QED
            BY <6>1 DEF Waits
        <5>2. CASE n \in 1 .. lastSeq
          <6>1. \/ Sent(r, n) \/ Waits(r, n)
                \/ phase[r] = "replay" /\ n > cursor[r]
                \/ <<gen, n>> \in dropped[r]
            <7>1. n \in 1 .. Len(history[reads[r]])
              BY <1>4, <3>1, <5>2
            <7> QED
              BY <2>1, <3>1, <7>1 DEF Complete
          <6>2. Sent(r, n) => Sent(r, n)'
            BY <3>1 DEF Sent
          <6>3. Waits(r, n) => Waits(r, n)'
            BY <3>2, <4>1 DEF Waits
          <6> QED
            BY <4>1, <6>1, <6>2, <6>3
        <5> QED
          BY <1>2, <5>1, <5>2
      <4> QED
        BY <3>5, <4>2, <4>3, <4>4
    <3>7. CASE r \notin Fed(gen)
      <4>1. queue'[r] = queue[r] /\ dropped'[r] = dropped[r] \cup {e}
        BY <1>6, <2>3, <3>7
      <4>2. OfItsOwn(r)'
        BY <1>2, <1>4, <3>1, <3>2, <3>4, <4>1 DEF OfItsOwn, Told
      <4>3. Queued(r)'
        BY <2>1, <3>1, <4>1 DEF Queued
      <4>4. Complete(r)'
        <5> SUFFICES ASSUME phase[r] \in {"replay", "live"}, NEW n \in 1 .. lastSeq + 1
                     PROVE  \/ Sent(r, n)' \/ Waits(r, n)'
                            \/ phase[r] = "replay" /\ n > cursor[r]
                            \/ <<gen, n>> \in dropped'[r]
          BY <1>4, <3>1 DEF Complete
        <5>1. CASE n = lastSeq + 1
          BY <4>1, <5>1
        <5>2. CASE n \in 1 .. lastSeq
          <6>1. n \in 1 .. Len(history[reads[r]])
            BY <1>4, <3>1, <5>2
          <6> QED
            BY <2>1, <3>1, <4>1, <6>1 DEF Complete, Sent, Waits
        <5> QED
          BY <1>2, <5>1, <5>2
      <4> QED
        BY <3>5, <4>2, <4>3, <4>4
    <3> QED
      BY <3>6, <3>7
  <2> QED
    BY <2>2, <2>3
<1> QED
  BY <1>7, <1>8, <1>9, <1>10 DEF HubInv

(* What a reader does with its own things is nothing to the others, and adds nothing to
   a history. *)
LEMMA OthersKeep ==
  ASSUME HubInv, NEW r \in Reader, HubTypeOK',
         UNCHANGED <<gen, lastSeq, history>>,
         \A q \in Reader \ {r} :
           /\ phase'[q] = phase[q] /\ reads'[q] = reads[q] /\ cursor'[q] = cursor[q]
           /\ queue'[q] = queue[q] /\ out'[q] = out[q] /\ dropped'[q] = dropped[q],
         Lists', Fresh',
         (OfItsOwn(r) /\ Replayed(r) /\ Queued(r) /\ Complete(r) /\ Repeats(r))'
  PROVE  HubInv'
<1>1. HubTypeOK /\ Histories'
  BY DEF HubInv, Histories
<1>2. ASSUME NEW q \in Reader \ {r}
      PROVE  (OfItsOwn(q) /\ Replayed(q) /\ Queued(q) /\ Complete(q) /\ Repeats(q))'
  <2>1. reads'[q] = reads[q] /\ history'[reads'[q]] = history[reads[q]]
    OBVIOUS
  <2>2. Len(history[reads[q]]) \in Nat
    BY <1>1 DEF HubTypeOK
  <2>3. OfItsOwn(q) /\ Replayed(q) /\ Queued(q) /\ Complete(q) /\ Repeats(q)
    BY DEF HubInv
  <2>4. Len(history[reads[q]]) <= Len(history'[reads[q]]) /\ Len(history'[reads[q]]) = Len(history[reads[q]])
    BY <2>1, <2>2
  <2> QED
    BY <1>1, <2>3, <2>4, BystanderKeeps
<1> QED
  BY <1>1, <1>2 DEF HubInv

(* The queue is entered before the first of the history is sent: nothing falls between. *)
LEMMA SubscribeKeepsInv ==
  ASSUME HubInv, NEW r \in Reader, SubscribeEvents(r)
  PROVE  HubInv'
<1> USE HubAssumption
<1>1. HubTypeOK /\ Histories /\ Lists /\ Fresh
  BY DEF HubInv
<1>2. /\ phase[r] = "off" /\ out[r] = <<>> /\ queue[r] = <<>> /\ cursor[r] = 0 /\ dropped[r] = {}
  BY <1>1 DEF SubscribeEvents, Fresh
<1>3. /\ gen \in Generation /\ history[gen] \in Seq(Event) /\ Len(history[gen]) \in 0 .. MaxEvents
      /\ phase \in [Reader -> {"off", "replay", "live", "closed", "raised"}]
      /\ reads \in [Reader -> Generation] /\ cursor \in [Reader -> 0 .. MaxEvents]
      /\ out \in [Reader -> Seq(Event)] /\ streams \in [Generation -> SUBSET Reader]
  BY <1>1, HistoryIsShort DEF HubTypeOK
<1>4. /\ streams' = [streams EXCEPT ![gen] = @ \cup {r}]
      /\ reads' = [reads EXCEPT ![r] = gen]
      /\ UNCHANGED <<gen, lastSeq, history, queue, dropped>>
  BY DEF SubscribeEvents
<1>5. ASSUME NEW p \in {"replay", "live"}, phase' = [phase EXCEPT ![r] = p],
             \/ history[gen] = <<>> /\ p = "live" /\ UNCHANGED <<out, cursor>>
             \/ /\ history[gen] # <<>> /\ p = "replay"
                /\ out' = [out EXCEPT ![r] = <<history[gen][1]>>]
                /\ cursor' = [cursor EXCEPT ![r] = 1]
      PROVE HubInv'
  <2>1. /\ phase' \in [Reader -> {"off", "replay", "live", "closed", "raised"}]
        /\ reads' \in [Reader -> Generation] /\ streams' \in [Generation -> SUBSET Reader]
    BY <1>3, <1>4, <1>5
  <2>2. history[gen] # <<>> => /\ Len(history[gen]) >= 1 /\ 1 \in 1 .. Len(history[gen])
                               /\ history[gen][1] = <<gen, 1>> /\ history[gen][1] \in Event
    BY <1>1, <1>3, ElementOfSeq, EmptySeq DEF Histories
  <2>3. cursor' \in [Reader -> 0 .. MaxEvents] /\ out' \in [Reader -> Seq(Event)]
    <3>1. CASE history[gen] = <<>>
      BY <1>3, <1>5, <3>1
    <3>2. CASE history[gen] # <<>>
      <4>1. 1 \in 0 .. MaxEvents
        BY <1>3, <2>2, <3>2
      <4>2. <<history[gen][1]>> \in Seq(Event)
        BY <2>2, <3>2
      <4> QED
        BY <1>3, <1>5, <3>2, <4>1, <4>2
    <3> QED
      BY <3>1, <3>2
  <2>4. HubTypeOK'
    BY <1>1, <1>4, <2>1, <2>3 DEF HubTypeOK
  <2>5. \A q \in Reader \ {r} :
           /\ phase'[q] = phase[q] /\ reads'[q] = reads[q] /\ cursor'[q] = cursor[q]
           /\ queue'[q] = queue[q] /\ out'[q] = out[q] /\ dropped'[q] = dropped[q]
    BY <1>3, <1>4, <1>5
  <2>6. /\ phase'[r] = p /\ reads'[r] = gen /\ queue'[r] = <<>> /\ dropped'[r] = {}
        /\ history' = history
    BY <1>2, <1>3, <1>4, <1>5
  <2>7. Lists'
    <3>1. ASSUME NEW g \in Generation, NEW q \in streams'[g] PROVE reads'[q] = g /\ phase'[q] # "off"
      <4>1. CASE q \in streams[g]
        <5>1. q # r /\ q \in Reader
          BY <1>1, <1>2, <1>3, <4>1 DEF Lists
        <5> QED
          BY <1>1, <2>5, <4>1, <5>1 DEF Lists
      <4>2. CASE q \notin streams[g]
        <5>1. q = r /\ g = gen
          BY <1>3, <1>4, <3>1, <4>2
        <5> QED
          BY <2>6, <5>1
      <4> QED
        BY <4>1, <4>2
    <3>2. ASSUME NEW q \in Reader, phase'[q] \in {"replay", "live"} PROVE q \in streams'[reads'[q]]
      BY <1>1, <1>3, <1>4, <2>5, <2>6, <3>2 DEF Lists
    <3>3. ASSUME NEW q \in Reader PROVE reads'[q] <= gen
      <4>1. CASE q = r
        BY <1>3, <2>6, <4>1 DEF Generation
      <4>2. CASE q # r
        BY <1>1, <2>5, <4>2 DEF Lists
      <4> QED
        BY <4>1, <4>2
    <3> QED
      BY <1>4, <3>1, <3>2, <3>3 DEF Lists
  <2>8. Fresh'
    BY <1>1, <2>5, <2>6 DEF Fresh
  <2>9. CASE history[gen] = <<>>
    <3>1. out'[r] = <<>> /\ cursor'[r] = 0 /\ Len(history[gen]) = 0 /\ p = "live"
      BY <1>2, <1>5, <2>9
    <3>2. (OfItsOwn(r) /\ Replayed(r) /\ Queued(r) /\ Complete(r) /\ Repeats(r))'
      BY <2>6, <3>1 DEF OfItsOwn, Replayed, Queued, Complete, Repeats
    <3> QED
      BY <1>4, <2>4, <2>5, <2>7, <2>8, <3>2, OthersKeep
  <2>10. CASE history[gen] # <<>>
    <3>1. /\ out'[r] = << <<gen, 1>> >> /\ cursor'[r] = 1 /\ p = "replay"
          /\ Len(history[gen]) \in Nat /\ Len(history[gen]) >= 1
      <4>1. out'[r] = <<history[gen][1]>> /\ cursor'[r] = 1 /\ p = "replay"
        BY <1>3, <1>5, <2>10
      <4> QED
        BY <1>3, <2>2, <2>10, <4>1
    <3>2. Len(out'[r]) = 1 /\ \A i \in 1 .. Len(out'[r]) : out'[r][i][1] = gen /\ out'[r][i][2] = 1 /\ i = 1
      BY <3>1
    <3>3. OfItsOwn(r)' /\ Replayed(r)' /\ Queued(r)' /\ Repeats(r)'
      BY <2>6, <3>1, <3>2 DEF OfItsOwn, Told, Replayed, Queued, Repeats
    <3>4. Complete(r)'
      <4>1. ASSUME NEW n \in 1 .. Len(history[gen]) PROVE Sent(r, n)' \/ n > 1
        BY <3>1, <3>2 DEF Sent
      <4> QED
        BY <2>6, <3>1, <4>1 DEF Complete
    <3> QED
      BY <1>4, <2>4, <2>5, <2>7, <2>8, <3>3, <3>4, OthersKeep
  <2> QED
    BY <2>9, <2>10
<1>6. CASE history[gen] = <<>>
  BY <1>5, <1>6 DEF SubscribeEvents
<1>7. CASE history[gen] # <<>>
  BY <1>5, <1>7 DEF SubscribeEvents
<1> QED
  BY <1>6, <1>7

(* The next of the history is sent; a reader that has seen all of it goes on to its queue. *)
LEMMA ReplayKeepsInv ==
  ASSUME HubInv, NEW r \in Reader, Replay(r)
  PROVE  HubInv'
<1> USE HubAssumption
<1> DEFINE g == reads[r]
           past == history[g]
           c == cursor[r]
<1>1. HubTypeOK /\ Histories /\ Lists /\ Fresh
      /\ OfItsOwn(r) /\ Replayed(r) /\ Queued(r) /\ Complete(r) /\ Repeats(r)
  BY DEF HubInv
<1>2. /\ g \in Generation /\ past \in Seq(Event) /\ Len(past) \in 0 .. MaxEvents
      /\ out[r] \in Seq(Event) /\ queue[r] \in Seq(Event) /\ c \in Nat
      /\ phase[r] = "replay" /\ c <= Len(past) /\ Len(out[r]) = c
  BY <1>1, HistoryIsShort DEF HubTypeOK, Replay, Replayed
<1>3. UNCHANGED <<gen, lastSeq, history, streams, reads, queue, dropped>>
  BY DEF Replay
<1>4. CASE c < Len(past)
  <2>1. /\ out' = [out EXCEPT ![r] = Append(@, past[c + 1])]
        /\ cursor' = [cursor EXCEPT ![r] = @ + 1]
        /\ phase' = phase
    BY <1>4 DEF Replay
  <2>2. c + 1 \in 1 .. Len(past) /\ past[c + 1] = <<g, c + 1>> /\ past[c + 1] \in Event
    BY <1>1, <1>2, <1>4, ElementOfSeq DEF Histories
  <2>3. out' \in [Reader -> Seq(Event)] /\ cursor' \in [Reader -> 0 .. MaxEvents]
    <3>1. Append(out[r], past[c + 1]) \in Seq(Event)
      BY <1>2, <2>2, AppendProperties
    <3>2. c + 1 \in 0 .. MaxEvents
      BY <1>2, <2>2
    <3> QED
      BY <1>1, <2>1, <3>1, <3>2 DEF HubTypeOK
  <2>4. HubTypeOK'
    BY <1>1, <1>3, <2>1, <2>3 DEF HubTypeOK
  <2>5. /\ out'[r] = Append(out[r], past[c + 1]) /\ cursor'[r] = c + 1
        /\ \A q \in Reader \ {r} : out'[q] = out[q] /\ cursor'[q] = cursor[q]
    BY <1>1, <2>1 DEF HubTypeOK
  <2>6. /\ Len(out'[r]) = c + 1
        /\ \A i \in 1 .. c : i \in 1 .. Len(out[r]) /\ out'[r][i] = out[r][i] /\ out[r][i][2] = i
        /\ out'[r][c + 1] = <<g, c + 1>>
    BY <1>1, <1>2, <2>2, <2>5 DEF Replayed
  <2>7. \A i \in 1 .. c + 1 : out'[r][i][2] = i
    <3>1. \A i \in 1 .. c + 1 : i \in 1 .. c \/ i = c + 1
      BY <1>2
    <3> QED
      BY <2>6, <3>1
  <2>8. Lists' /\ Fresh'
    BY <1>1, <1>2, <1>3, <2>1, <2>5 DEF Lists, Fresh
  <2>9. OfItsOwn(r)'
    <3>1. \A i \in 1 .. c : Told(r, out[r][i])
      BY <1>1, <1>2 DEF OfItsOwn
    <3>2. ASSUME NEW i \in 1 .. c + 1 PROVE Told(r, out'[r][i])
      <4>1. CASE i \in 1 .. c
        BY <2>6, <3>1, <4>1
      <4>2. CASE i = c + 1
        BY <1>2, <2>2, <2>6, <4>2 DEF Told
      <4> QED
        BY <1>2, <4>1, <4>2
    <3>3. \A i \in 1 .. Len(out'[r]) : out'[r][i][1] = reads[r] /\ out'[r][i][2] <= Len(history[reads[r]])
      BY <2>6, <3>2 DEF Told
    <3> QED
      BY <1>1, <1>3, <3>3 DEF OfItsOwn, Told
  <2>10. Replayed(r)'
    BY <1>2, <1>3, <2>2, <2>5, <2>6, <2>7 DEF Replayed
  <2>11. Queued(r)' /\ Repeats(r)'
    <3>1. ASSUME NEW i \in 1 .. Len(out'[r]) PROVE out'[r][i][2] <= cursor'[r]
      <4>1. i \in 1 .. c + 1 /\ out'[r][i][2] = i
        BY <2>6, <2>7
      <4> QED
        BY <1>2, <2>5, <4>1
    <3>2. \A i, j \in 1 .. Len(queue'[r]) : i < j => queue'[r][i][2] < queue'[r][j][2]
      BY <1>1, <1>3 DEF Queued
    <3> QED
      BY <3>1, <3>2 DEF Queued, Repeats
  <2>12. Complete(r)'
    <3> SUFFICES ASSUME NEW n \in 1 .. Len(past)
                 PROVE  Sent(r, n)' \/ Waits(r, n) \/ n > c + 1 \/ <<g, n>> \in dropped[r]
      BY <1>2, <1>3, <2>1, <2>5 DEF Complete, Waits
    <3>1. Sent(r, n) \/ Waits(r, n) \/ n > c \/ <<g, n>> \in dropped[r]
      BY <1>1, <1>2 DEF Complete
    <3>2. ASSUME Sent(r, n) PROVE Sent(r, n)'
      <4>1. PICK i \in 1 .. c : out[r][i][2] = n
        BY <1>2, <3>2 DEF Sent
      <4>2. i \in 1 .. Len(out'[r]) /\ out'[r][i][2] = n
        BY <1>2, <2>6, <4>1
      <4> QED
        BY <4>2 DEF Sent
    <3>3. CASE n = c + 1
      <4>1. n \in 1 .. Len(out'[r]) /\ out'[r][n][2] = n
        BY <1>2, <2>6, <2>7, <3>3
      <4> QED
        BY <4>1 DEF Sent
    <3> QED
      BY <1>2, <3>1, <3>2, <3>3
  <2> QED
    BY <1>3, <2>1, <2>4, <2>5, <2>8, <2>9, <2>10, <2>11, <2>12, OthersKeep
<1>5. CASE ~ (c < Len(past))
  <2>1. phase' = [phase EXCEPT ![r] = "live"] /\ UNCHANGED <<out, cursor>>
    BY <1>5 DEF Replay
  <2>2. phase'[r] = "live" /\ \A q \in Reader \ {r} : phase'[q] = phase[q]
    BY <1>1, <2>1 DEF HubTypeOK
  <2>3. HubTypeOK'
    BY <1>1, <1>3, <2>1 DEF HubTypeOK
  <2>4. Lists' /\ Fresh'
    BY <1>1, <1>2, <1>3, <2>1, <2>2 DEF Lists, Fresh
  <2>5. OfItsOwn(r)' /\ Replayed(r)' /\ Queued(r)' /\ Repeats(r)'
    BY <1>1, <1>3, <2>1, <2>2 DEF OfItsOwn, Told, Replayed, Queued, Repeats
  <2>6. Complete(r)'
    <3>1. \A n \in 1 .. Len(past) : ~ (n > c)
      BY <1>2, <1>5
    <3> QED
      BY <1>1, <1>2, <1>3, <2>1, <2>2, <3>1 DEF Complete, Sent, Waits
  <2> QED
    BY <1>3, <2>1, <2>2, <2>3, <2>4, <2>5, <2>6, OthersKeep
<1> QED
  BY <1>4, <1>5

(* The head of the queue is sent: newer than all that was sent live, or a repeat. *)
LEMMA DeliverKeepsInv ==
  ASSUME HubInv, NEW r \in Reader, Deliver(r)
  PROVE  HubInv'
<1> USE HubAssumption
<1> DEFINE o == out[r]
           q == queue[r]
           L == Len(history[reads[r]])
<1>1. HubTypeOK /\ Histories /\ Lists /\ Fresh
      /\ OfItsOwn(r) /\ Replayed(r) /\ Queued(r) /\ Complete(r) /\ Repeats(r)
  BY DEF HubInv
<1>2. /\ o \in Seq(Event) /\ q \in Seq(Event) /\ Len(o) \in Nat /\ Len(q) \in Nat /\ cursor[r] \in Nat
      /\ Len(q) <= QueueSize /\ phase[r] = "live" /\ q # <<>>
  BY <1>1 DEF HubTypeOK, Deliver
<1>3. /\ UNCHANGED <<gen, lastSeq, history, streams, phase, reads, cursor, dropped>>
      /\ out' = [out EXCEPT ![r] = Append(@, Head(queue[r]))]
      /\ queue' = [queue EXCEPT ![r] = Tail(@)]
  BY DEF Deliver
<1>4. /\ out'[r] = Append(o, Head(q)) /\ queue'[r] = Tail(q)
      /\ \A p \in Reader \ {r} : out'[p] = out[p] /\ queue'[p] = queue[p]
  BY <1>1, <1>3 DEF HubTypeOK
<1>5. /\ Len(q) >= 1 /\ 1 \in 1 .. Len(q) /\ Head(q) = q[1] /\ q[1] \in Event
      /\ Tail(q) \in Seq(Event) /\ Len(Tail(q)) = Len(q) - 1
      /\ \A i \in 1 .. Len(q) - 1 : Tail(q)[i] = q[i + 1]
  BY <1>2
<1>6. /\ Len(out'[r]) = Len(o) + 1 /\ out'[r][Len(o) + 1] = q[1]
      /\ \A i \in 1 .. Len(o) : out'[r][i] = o[i]
      /\ Len(queue'[r]) = Len(q) - 1 /\ \A i \in 1 .. Len(q) - 1 : queue'[r][i] = q[i + 1]
  BY <1>2, <1>4, <1>5
<1> HIDE DEF o, q
<1>7. HubTypeOK'
  <2>1. Append(o, Head(q)) \in Seq(Event) /\ Tail(q) \in Seq(Event) /\ Len(Tail(q)) <= QueueSize
    BY <1>2, <1>5, AppendProperties
  <2>2. out' \in [Reader -> Seq(Event)] /\ queue' \in [Reader -> Seq(Event)]
    BY <1>1, <1>3, <2>1 DEF HubTypeOK, o, q
  <2>3. \A p \in Reader : Len(queue'[p]) <= QueueSize
    BY <1>1, <1>4, <2>1 DEF HubTypeOK
  <2> QED
    BY <1>1, <1>3, <2>2, <2>3 DEF HubTypeOK
<1>8. Lists' /\ Fresh'
  BY <1>1, <1>2, <1>3, <1>4 DEF Lists, Fresh
<1>9. \A i \in 1 .. Len(o) + 1 : i \in 1 .. Len(o) \/ i = Len(o) + 1
  BY <1>2
<1>10. /\ \A i \in 1 .. Len(o) : o[i] \in Event /\ o[i][1] = reads[r] /\ o[i][2] \in Nat /\ o[i][2] <= L
       /\ \A i \in 1 .. Len(q) : q[i] \in Event /\ q[i][1] = reads[r] /\ q[i][2] \in Nat /\ q[i][2] <= L
  <2>1. (\A i \in 1 .. Len(o) : o[i] \in Event) /\ (\A i \in 1 .. Len(q) : q[i] \in Event)
    BY <1>2, ElementOfSeq
  <2> QED
    BY <1>1, <2>1, EventIsPair DEF OfItsOwn, Told, o, q
<1>11. \A i \in 1 .. Len(q) - 1 : i + 1 \in 1 .. Len(q)
  BY <1>2
<1>12. OfItsOwn(r)'
  <2>1. ASSUME NEW i \in 1 .. Len(out'[r]) PROVE out'[r][i][1] = reads[r] /\ out'[r][i][2] <= L
    <3>1. CASE i \in 1 .. Len(o)
      <4>1. out'[r][i] = o[i]
        BY <1>6, <3>1
      <4>2. o[i][1] = reads[r] /\ o[i][2] <= L
        BY <1>10, <3>1, Zenon
      <4> QED
        BY <4>1, <4>2
    <3>2. CASE i = Len(o) + 1
      BY <1>5, <1>6, <1>10, <3>2, Zenon
    <3> QED
      BY <1>6, <1>9, <3>1, <3>2
  <2>2. ASSUME NEW i \in 1 .. Len(queue'[r]) PROVE queue'[r][i][1] = reads[r] /\ queue'[r][i][2] <= L
    <3>1. i + 1 \in 1 .. Len(q) /\ queue'[r][i] = q[i + 1]
      BY <1>2, <1>6, <1>11
    <3> HIDE DEF L
    <3> QED
      BY <1>10, <3>1
  <2> QED
    BY <1>1, <1>3, <2>1, <2>2 DEF OfItsOwn, Told
<1>13. Replayed(r)'
  <2>1. cursor[r] <= Len(o) /\ cursor[r] <= L /\ \A i \in 1 .. cursor[r] : o[i][2] = i
    BY <1>1 DEF Replayed, o
  <2>2. \A i \in 1 .. cursor[r] : out'[r][i][2] = i
    <3>1. \A i \in 1 .. cursor[r] : i \in 1 .. Len(o)
      BY <1>2, <2>1
    <3> QED
      BY <1>6, <2>1, <3>1
  <2>3. cursor[r] <= Len(out'[r])
    BY <1>2, <1>6, <2>1
  <2>4. phase'[r] = "live"
    BY <1>2, <1>3
  <2> QED
    BY <1>3, <2>1, <2>2, <2>3, <2>4 DEF Replayed
<1>14. \A i, j \in 1 .. Len(q) : i < j => q[i][2] < q[j][2]
  BY <1>1 DEF Queued, q
<1>15. \A i \in 1 .. Len(o), j \in 1 .. Len(q) : o[i][2] <= cursor[r] \/ o[i][2] < q[j][2]
  BY <1>1 DEF Queued, o, q
<1>16. Queued(r)'
  <2>1. ASSUME NEW i \in 1 .. Len(queue'[r]), NEW j \in 1 .. Len(queue'[r]), i < j
        PROVE  queue'[r][i][2] < queue'[r][j][2]
    <3>1. i + 1 \in 1 .. Len(q) /\ j + 1 \in 1 .. Len(q) /\ i + 1 < j + 1
      BY <1>2, <1>6, <2>1
    <3>2. queue'[r][i] = q[i + 1] /\ queue'[r][j] = q[j + 1]
      BY <1>6
    <3> QED
      BY <1>14, <3>1, <3>2
  <2>2. ASSUME NEW i \in 1 .. Len(out'[r]), NEW j \in 1 .. Len(queue'[r])
        PROVE  out'[r][i][2] <= cursor[r] \/ out'[r][i][2] < queue'[r][j][2]
    <3>1. j + 1 \in 1 .. Len(q) /\ 1 < j + 1 /\ queue'[r][j] = q[j + 1]
      BY <1>2, <1>6, <1>11, <2>2
    <3>2. CASE i \in 1 .. Len(o)
      <4>1. out'[r][i] = o[i]
        BY <1>6, <3>2
      <4>2. o[i][2] <= cursor[r] \/ o[i][2] < q[j + 1][2]
        BY <1>15, <3>1, <3>2, Zenon
      <4> QED
        BY <3>1, <4>1, <4>2
    <3>3. CASE i = Len(o) + 1
      BY <1>5, <1>6, <1>14, <3>1, <3>3, Zenon
    <3> QED
      BY <1>6, <1>9, <3>2, <3>3
  <2> QED
    BY <1>3, <2>1, <2>2 DEF Queued
<1>17. Repeats(r)'
  <2> SUFFICES ASSUME NEW i \in 1 .. Len(out'[r]), NEW j \in 1 .. Len(out'[r]),
                      i < j, out'[r][j][2] <= out'[r][i][2]
               PROVE  out'[r][j][2] <= cursor[r]
    BY <1>3 DEF Repeats
  <2>1. i \in 1 .. Len(o) /\ out'[r][i] = o[i]
    BY <1>2, <1>6
  <2>2. CASE j \in 1 .. Len(o)
    BY <1>1, <1>6, <2>1, <2>2 DEF Repeats, o
  <2>3. CASE j = Len(o) + 1
    <3>1. q[1][2] <= o[i][2] /\ out'[r][j] = q[1]
      BY <1>6, <2>1, <2>3
    <3>2. o[i][2] <= cursor[r] \/ o[i][2] < q[1][2]
      BY <1>5, <1>15, <2>1
    <3>3. o[i][2] \in Nat /\ q[1][2] \in Nat
      BY <1>5, <1>10, <2>1
    <3> QED
      BY <1>2, <3>1, <3>2, <3>3
  <2> QED
    BY <1>6, <1>9, <2>2, <2>3
<1>18. Complete(r)'
  <2> SUFFICES ASSUME NEW n \in 1 .. L
               PROVE  Sent(r, n)' \/ Waits(r, n)' \/ <<reads[r], n>> \in dropped[r]
    BY <1>3 DEF Complete
  <2>1. Sent(r, n) \/ Waits(r, n) \/ <<reads[r], n>> \in dropped[r]
    BY <1>1, <1>2 DEF Complete
  <2>2. ASSUME Sent(r, n) PROVE Sent(r, n)'
    <3>1. PICK i \in 1 .. Len(o) : o[i][2] = n
      BY <2>2 DEF Sent, o
    <3>2. i \in 1 .. Len(out'[r]) /\ out'[r][i] = o[i]
      BY <1>2, <1>6
    <3> QED
      BY <3>1, <3>2 DEF Sent
  <2>3. ASSUME Waits(r, n) PROVE Sent(r, n)' \/ Waits(r, n)'
    <3>1. PICK i \in 1 .. Len(q) : q[i][2] = n
      BY <2>3 DEF Waits, q
    <3>2. CASE i = 1
      <4>1. Len(o) + 1 \in 1 .. Len(out'[r]) /\ out'[r][Len(o) + 1][2] = n
        BY <1>2, <1>6, <3>1, <3>2
      <4> QED
        BY <4>1 DEF Sent
    <3>3. CASE i # 1
      <4>1. i - 1 \in 1 .. Len(queue'[r]) /\ queue'[r][i - 1][2] = n
        BY <1>2, <1>6, <3>1, <3>3
      <4> QED
        BY <4>1 DEF Waits
    <3> QED
      BY <3>2, <3>3
  <2> QED
    BY <2>1, <2>2, <2>3
<1> QED
  BY <1>3, <1>4, <1>7, <1>8, <1>12, <1>13, <1>16, <1>17, <1>18, OthersKeep

(* A reader that leaves keeps what it has; it stays in a list nobody writes to any more,
   or in none. *)
LEMMA LeaveKeepsInv ==
  ASSUME HubInv, NEW r \in Reader, Leave(r)
  PROVE  HubInv'
<1>1. HubTypeOK /\ Histories /\ Lists /\ Fresh
      /\ OfItsOwn(r) /\ Replayed(r) /\ Queued(r) /\ Complete(r) /\ Repeats(r)
  BY DEF HubInv
<1>2. PICK p \in {"closed", "raised"} : phase' = [phase EXCEPT ![r] = p]
  BY DEF Leave
<1>3. /\ phase[r] \in {"replay", "live"}
      /\ streams' = [streams EXCEPT ![gen] = @ \ {r}]
      /\ UNCHANGED <<gen, lastSeq, history, reads, cursor, queue, out, dropped>>
  BY DEF Leave
<1>4. phase'[r] = p /\ \A q \in Reader \ {r} : phase'[q] = phase[q]
  BY <1>1, <1>2 DEF HubTypeOK
<1>5. HubTypeOK'
  BY <1>1, <1>2, <1>3 DEF HubTypeOK
<1>6. Lists'
  <2>1. gen \in Generation /\ streams \in [Generation -> SUBSET Reader] /\ reads \in [Reader -> Generation]
    BY <1>1 DEF HubTypeOK
  <2>2. ASSUME NEW g \in Generation, NEW q \in streams'[g] PROVE reads'[q] = g /\ phase'[q] # "off"
    <3>1. q \in streams[g] /\ q \in Reader
      BY <1>3, <2>1, <2>2
    <3> QED
      BY <1>1, <1>3, <1>4, <3>1 DEF Lists
  <2>3. ASSUME NEW q \in Reader, phase'[q] \in {"replay", "live"} PROVE q \in streams'[reads'[q]]
    <3>1. q # r /\ q \in streams[reads[q]]
      BY <1>1, <1>4, <2>3 DEF Lists
    <3> QED
      BY <1>3, <2>1, <3>1
  <2> QED
    BY <1>1, <1>3, <2>2, <2>3 DEF Lists
<1>7. Fresh'
  BY <1>1, <1>3, <1>4 DEF Fresh
<1>8. (OfItsOwn(r) /\ Replayed(r) /\ Queued(r) /\ Complete(r) /\ Repeats(r))'
  BY <1>1, <1>3, <1>4 DEF OfItsOwn, Told, Replayed, Queued, Complete, Repeats
<1> QED
  BY <1>3, <1>4, <1>5, <1>6, <1>7, <1>8, OthersKeep

(* A clearing begins a generation that has nothing yet, and takes nothing from anybody. *)
LEMMA ClearKeepsInv ==
  ASSUME HubInv, ClearEvents
  PROVE  HubInv'
<1> USE HubAssumption
<1>1. HubTypeOK /\ Histories /\ Lists /\ Fresh
  BY DEF HubInv
<1>2. /\ gen' = gen + 1 /\ lastSeq' = 0
      /\ UNCHANGED <<history, streams, phase, reads, cursor, queue, out, dropped>>
  BY DEF ClearEvents
<1>3. gen \in Nat /\ gen' \in Generation /\ gen' > gen
  BY <1>1, <1>2 DEF HubTypeOK, ClearEvents, Generation
<1>4. HubTypeOK'
  BY <1>1, <1>2, <1>3 DEF HubTypeOK
<1>5. Histories'
  <2>1. Len(history[gen']) = 0
    BY <1>1, <1>3 DEF Histories
  <2>2. \A g \in Generation : g > gen' => g > gen
    BY <1>2, <1>3 DEF Generation
  <2> QED
    BY <1>1, <1>2, <2>1, <2>2 DEF Histories
<1>6. Lists'
  <2>1. ASSUME NEW r \in Reader PROVE reads[r] <= gen'
    <3>1. reads[r] \in Nat /\ reads[r] <= gen
      BY <1>1 DEF HubTypeOK, Lists, Generation
    <3> QED
      BY <1>2, <1>3, <3>1
  <2> QED
    BY <1>1, <1>2, <2>1 DEF Lists
<1>7. Fresh'
  BY <1>1, <1>2 DEF Fresh
<1>8. ASSUME NEW r \in Reader
      PROVE  (OfItsOwn(r) /\ Replayed(r) /\ Queued(r) /\ Complete(r) /\ Repeats(r))'
  BY <1>2 DEF HubInv, OfItsOwn, Told, Replayed, Queued, Complete, Sent, Waits, Repeats
<1> QED
  BY <1>4, <1>5, <1>6, <1>7, <1>8 DEF HubInv

(* No step of a publisher or a reader breaks it. *)
LEMMA HubNextInv == HubInv /\ [HubNext]_hubVars => HubInv'
<1> SUFFICES ASSUME HubInv, [HubNext]_hubVars PROVE HubInv'
  OBVIOUS
<1>1. CASE UNCHANGED hubVars
  <2>1. HubTypeOK' /\ Histories' /\ Lists' /\ Fresh'
    BY <1>1 DEF hubVars, HubInv, HubTypeOK, Histories, Lists, Fresh
  <2>2. ASSUME NEW r \in Reader
        PROVE  (OfItsOwn(r) /\ Replayed(r) /\ Queued(r) /\ Complete(r) /\ Repeats(r))'
    BY <1>1 DEF hubVars, HubInv, OfItsOwn, Told, Replayed, Queued, Complete, Sent, Waits, Repeats
  <2> QED
    BY <2>1, <2>2 DEF HubInv
<1> QED
  BY <1>1, PushKeepsInv, ClearKeepsInv, SubscribeKeepsInv, ReplayKeepsInv, DeliverKeepsInv,
     LeaveKeepsInv DEF HubNext

(* Every history is numbered without gaps, and every reader is somewhere between its
   history and its queue, for any number of readers, events and clearings. *)
THEOREM HubInvariant == HubSpec => []HubInv
  BY HubInitInv, HubNextInv, PTL DEF HubSpec

(* What is replayed, queued and delivered leaves nothing out *)
LEMMA ReaderFindsAll == HubInv => ReaderMissesNothing
<1> SUFFICES ASSUME HubInv, NEW r \in Reader
             PROVE  /\ phase[r] \in {"replay", "live"} =>
                         ToSet(history[reads[r]]) = ToSet(out[r]) \cup Pending(r) \cup dropped[r]
                    /\ \A i, j \in 1 .. Len(out[r]) :
                         i < j /\ out[r][j][2] <= out[r][i][2] =>
                           \E k \in 1 .. i : out[r][k] = out[r][j]
  BY DEF ReaderMissesNothing
<1> DEFINE g == reads[r]
           past == history[g]
<1>1. HubTypeOK /\ Histories
      /\ OfItsOwn(r) /\ Replayed(r) /\ Queued(r) /\ Complete(r) /\ Repeats(r)
  BY DEF HubInv
<1>2. /\ g \in Generation /\ past \in Seq(Event) /\ Len(past) \in Nat /\ cursor[r] \in Nat
      /\ out[r] \in Seq(Event) /\ queue[r] \in Seq(Event)
      /\ Len(out[r]) \in Nat /\ Len(queue[r]) \in Nat
      /\ dropped[r] \subseteq Event
  BY <1>1 DEF HubTypeOK
<1>3. /\ \A i \in 1 .. Len(out[r]) : out[r][i] \in Event
      /\ \A i \in 1 .. Len(queue[r]) : queue[r][i] \in Event
  BY <1>2, ElementOfSeq
<1>4. \A n \in 1 .. Len(past) : past[n] = <<g, n>>
  BY <1>1, <1>2 DEF Histories
<1>5. ASSUME NEW e \in Event, Told(r, e)
      PROVE  e[2] \in 1 .. Len(past) /\ e = <<g, e[2]>> /\ e = past[e[2]]
  <2>1. e = <<e[1], e[2]>> /\ e[2] \in 1 .. MaxEvents
    BY EventIsPair
  <2>2. e[1] = g /\ e[2] <= Len(past)
    BY <1>5 DEF Told
  <2>3. e[2] \in 1 .. Len(past)
    BY <1>2, <2>1, <2>2, HubAssumption
  <2> QED
    BY <1>4, <2>1, <2>2, <2>3
<1>6. /\ ToSet(past) = {past[n] : n \in 1 .. Len(past)}
      /\ ToSet(out[r]) = {out[r][n] : n \in 1 .. Len(out[r])}
      /\ ToSet(queue[r]) = {queue[r][n] : n \in 1 .. Len(queue[r])}
  <2>1. /\ DOMAIN past = 1 .. Len(past) /\ DOMAIN out[r] = 1 .. Len(out[r])
        /\ DOMAIN queue[r] = 1 .. Len(queue[r])
    BY <1>2
  <2> QED
    BY <2>1 DEF ToSet
<1>7. ASSUME phase[r] \in {"replay", "live"}
      PROVE  ToSet(past) = ToSet(out[r]) \cup Pending(r) \cup dropped[r]
  <2>1. ASSUME NEW n \in 1 .. Len(past)
        PROVE  past[n] \in ToSet(out[r]) \cup Pending(r) \cup dropped[r]
    <3>1. CASE Sent(r, n)
      <4>1. PICK i \in 1 .. Len(out[r]) : out[r][i][2] = n
        BY <3>1 DEF Sent
      <4>2. Told(r, out[r][i])
        BY <1>1 DEF OfItsOwn
      <4> QED
        BY <1>3, <1>5, <1>6, <4>1, <4>2
    <3>2. CASE Waits(r, n)
      <4>1. PICK i \in 1 .. Len(queue[r]) : queue[r][i][2] = n
        BY <3>2 DEF Waits
      <4>2. Told(r, queue[r][i])
        BY <1>1 DEF OfItsOwn
      <4> QED
        BY <1>3, <1>5, <1>6, <4>1, <4>2 DEF Pending
    <3>3. CASE phase[r] = "replay" /\ n > cursor[r]
      <4>1. n \in cursor[r] + 1 .. Len(past)
        BY <1>2, <3>3
      <4> QED
        BY <3>3, <4>1 DEF Pending
    <3>4. CASE <<g, n>> \in dropped[r]
      BY <1>4, <3>4
    <3> QED
      BY <1>1, <1>7, <3>1, <3>2, <3>3, <3>4 DEF Complete
  <2>2. ToSet(out[r]) \subseteq ToSet(past)
    BY <1>1, <1>3, <1>5, <1>6 DEF OfItsOwn
  <2>3. dropped[r] \subseteq ToSet(past)
    BY <1>1, <1>2, <1>5, <1>6 DEF OfItsOwn
  <2>4. Pending(r) \subseteq ToSet(past)
    <3>1. ToSet(queue[r]) \subseteq ToSet(past)
      BY <1>1, <1>3, <1>5, <1>6 DEF OfItsOwn
    <3>2. cursor[r] + 1 .. Len(past) \subseteq 1 .. Len(past)
      BY <1>2
    <3> QED
      BY <1>6, <3>1, <3>2 DEF Pending
  <2> QED
    BY <1>6, <2>1, <2>2, <2>3, <2>4
<1>8. ASSUME NEW i \in 1 .. Len(out[r]), NEW j \in 1 .. Len(out[r]),
             i < j, out[r][j][2] <= out[r][i][2]
      PROVE  \E k \in 1 .. i : out[r][k] = out[r][j]
  <2> DEFINE n == out[r][j][2]
  <2>1. n <= cursor[r]
    BY <1>1, <1>8 DEF Repeats
  <2>2. Told(r, out[r][j]) /\ n \in 1 .. Len(past) /\ out[r][j] = <<g, n>>
    BY <1>1, <1>3, <1>5 DEF OfItsOwn
  <2>3. n \in 1 .. cursor[r] /\ n \in 1 .. Len(out[r]) /\ out[r][n][2] = n
    BY <1>1, <1>2, <2>1, <2>2 DEF Replayed
  <2>4. out[r][n] = <<g, n>>
    BY <1>1, <1>3, <1>5, <2>3 DEF OfItsOwn
  <2>5. n <= i
    <3>1. CASE i <= cursor[r]
      <4>1. out[r][i][2] = i
        BY <1>1, <1>2, <3>1 DEF Replayed
      <4> QED
        BY <1>8, <4>1
    <3>2. CASE i > cursor[r]
      BY <1>2, <2>1, <2>2, <3>2
    <3> QED
      BY <1>2, <3>1, <3>2
  <2> HIDE DEF n
  <2>6. n \in 1 .. i
    BY <2>2, <2>5
  <2> QED
    BY <2>2, <2>4, <2>6
<1> QED
  BY <1>7, <1>8

(* Replay and live delivery leave no gap between them, a queue that was full is the only
   way to miss an event, and what comes out of order has been sent before
   (subscribe_events, push_event, clear_events). *)
THEOREM NoGaps == HubSpec => []ReaderMissesNothing
<1>1. HubInv => ReaderMissesNothing
  BY ReaderFindsAll
<1> QED
  BY <1>1, HubInvariant, PTL
=============================================================================
