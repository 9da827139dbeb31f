----------------------------- MODULE EventHub -----------------------------
(***************************************************************************)
(* cafe/events.py: events of one request, pushed to the readers that       *)
(* subscribe to it.  Publishers and readers share an event loop: a step    *)
(* runs until its reader's generator yields.  Clearing a request throws    *)
(* its lists away; whoever holds one keeps it, and the next push starts    *)
(* new ones, so the lists of generation g belong to the g-th life of the   *)
(* request.  An event is <<g, its sequence number>>.                       *)
(***************************************************************************)
EXTENDS Naturals, Sequences, SequencesExt

CONSTANTS
  Reader,
  QueueSize,   \* asyncio.Queue(maxsize=100)
  MaxEvents,   \* bound: events per generation
  MaxClears    \* bound: generations - 1

ASSUME HubAssumption ==
  /\ QueueSize \in Nat \ {0}
  /\ MaxEvents \in Nat /\ MaxClears \in Nat

VARIABLES
  gen,       \* the generation that push_event writes to
  lastSeq,   \* _event_seq: events of this generation
  history,   \* history[g]: _event_history, the list of generation g
  streams,   \* streams[g]: _event_streams, the readers whose queue is in the list
  phase,     \* phase[r]: where the generator of r is suspended
  reads,     \* reads[r]: the generation whose lists r holds
  cursor,    \* cursor[r]: how much of the history r has replayed
  queue,     \* queue[r]: its queue
  out,       \* out[r]: what r was sent
  dropped    \* history: the events that found the queue of r full

hubVars == <<gen, lastSeq, history, streams, phase, reads, cursor, queue, out, dropped>>

Generation == 0 .. MaxClears
Event == Generation \X (1 .. MaxEvents)

HubTypeOK ==
  /\ gen \in Generation
  /\ lastSeq \in 0 .. MaxEvents
  /\ history \in [Generation -> Seq(Event)]
  /\ streams \in [Generation -> SUBSET Reader]
  /\ phase \in [Reader -> {"off", "replay", "live", "closed", "raised"}]
  /\ reads \in [Reader -> Generation]
  /\ cursor \in [Reader -> 0 .. MaxEvents]
  /\ queue \in [Reader -> Seq(Event)]
  /\ \A r \in Reader : Len(queue[r]) <= QueueSize
  /\ out \in [Reader -> Seq(Event)]
  /\ dropped \in [Reader -> SUBSET Event]

HubInit ==
  /\ gen = 0 /\ lastSeq = 0
  /\ history = [g \in Generation |-> <<>>]
  /\ streams = [g \in Generation |-> {}]
  /\ phase = [r \in Reader |-> "off"]
  /\ reads = [r \in Reader |-> 0]
  /\ cursor = [r \in Reader |-> 0]
  /\ queue = [r \in Reader |-> <<>>]
  /\ out = [r \in Reader |-> <<>>]
  /\ dropped = [r \in Reader |-> {}]

(* Who gets an event: a full queue is passed over.  Slip: it ends the loop *)
FedUntilFull(g) ==
  IF \E r \in streams[g] : Len(queue[r]) = QueueSize THEN {} ELSE streams[g]
Fed(g) == {r \in streams[g] : Len(queue[r]) < QueueSize}

(* push_event: numbered, kept, and put into every queue that has room *)
PushEvent ==
  LET e == <<gen, lastSeq + 1>> IN
  /\ lastSeq < MaxEvents
  /\ lastSeq' = lastSeq + 1
  /\ history' = [history EXCEPT ![gen] = Append(@, e)]
  /\ queue' = [r \in Reader |-> IF r \in Fed(gen) THEN Append(queue[r], e) ELSE queue[r]]
  /\ dropped' = [r \in Reader |-> IF r \in streams[gen] /\ Len(queue[r]) = QueueSize
                                    THEN dropped[r] \cup {e} ELSE dropped[r]]
  /\ UNCHANGED <<gen, streams, phase, reads, cursor, out>>

(* The generator begins: its queue is entered, then the first event of the
   history is sent.  A request without history gives it a list of its own, and
   what comes later reaches it through the queue alone *)
SubscribeEvents(r) ==
  LET past == history[gen] IN
  /\ phase[r] = "off"
  /\ streams' = [streams EXCEPT ![gen] = @ \cup {r}]
  /\ reads' = [reads EXCEPT ![r] = gen]
  /\ IF past = <<>>
       THEN phase' = [phase EXCEPT ![r] = "live"] /\ UNCHANGED <<out, cursor>>
       ELSE /\ phase' = [phase EXCEPT ![r] = "replay"]
            /\ out' = [out EXCEPT ![r] = <<past[1]>>]
            /\ cursor' = [cursor EXCEPT ![r] = 1]
  /\ UNCHANGED <<gen, lastSeq, history, queue, dropped>>

(* The next event of the history, a list that may grow while it is read *)
Replay(r) ==
  LET past == history[reads[r]] IN
  /\ phase[r] = "replay"
  /\ IF cursor[r] < Len(past)
       THEN /\ out' = [out EXCEPT ![r] = Append(@, past[cursor[r] + 1])]
            /\ cursor' = [cursor EXCEPT ![r] = @ + 1]
            /\ UNCHANGED phase
       ELSE phase' = [phase EXCEPT ![r] = "live"] /\ UNCHANGED <<out, cursor>>
  /\ UNCHANGED <<gen, lastSeq, history, streams, reads, queue, dropped>>

(* One event of the queue; when there is none for long, a heartbeat *)
Deliver(r) ==
  /\ phase[r] = "live"
  /\ queue[r] # <<>>
  /\ out' = [out EXCEPT ![r] = Append(@, Head(queue[r]))]
  /\ queue' = [queue EXCEPT ![r] = Tail(@)]
  /\ UNCHANGED <<gen, lastSeq, history, streams, phase, reads, cursor, dropped>>

(* The client leaves: the finally removes the queue from the list that is there
   now, and raises if that is another one *)
Leave(r) ==
  /\ phase[r] \in {"replay", "live"}
  /\ streams' = [streams EXCEPT ![gen] = @ \ {r}]
  /\ phase' = [phase EXCEPT ![r] = IF r \in streams[gen] THEN "closed" ELSE "raised"]
  /\ UNCHANGED <<gen, lastSeq, history, reads, cursor, queue, out, dropped>>

(* clear_events *)
ClearEvents ==
  /\ gen < MaxClears
  /\ gen' = gen + 1
  /\ lastSeq' = 0
  /\ UNCHANGED <<history, streams, phase, reads, cursor, queue, out, dropped>>

HubNext ==
  \/ PushEvent \/ ClearEvents
  \/ \E r \in Reader : SubscribeEvents(r) \/ Replay(r) \/ Deliver(r) \/ Leave(r)

HubSpec == HubInit /\ [][HubNext]_hubVars
-----------------------------------------------------------------------------
(* What a reader has yet to see of its generation's history: the part it has
   not replayed, its queue *)
Pending(r) ==
  ToSet(queue[r]) \cup
    (IF phase[r] = "replay"
       THEN {history[reads[r]][n] : n \in cursor[r] + 1 .. Len(history[reads[r]])} ELSE {})

(* While a reader is there, every event pushed before or since is one it was
   sent, will be sent, or had no room for, and what comes out of order is a
   repeat: replay and live delivery overlap, they never leave a gap between
   them (subscribe_events) *)
ReaderMissesNothing ==
  \A r \in Reader :
    /\ phase[r] \in {"replay", "live"} =>
         ToSet(history[reads[r]]) = ToSet(out[r]) \cup Pending(r) \cup dropped[r]
    /\ \A i, j \in 1 .. Len(out[r]) :
         i < j /\ out[r][j][2] <= out[r][i][2] =>
           \E k \in 1 .. i : out[r][k] = out[r][j]

(* latest_seq promises a reader that resumes "no repeats".  It fails: what is
   pushed during a replay is in the list that is replayed and in the queue *)
SentOnce == \A r \in Reader : IsInjective(out[r])
=============================================================================
