----------------------------- MODULE TaskJournal -----------------------------
(***************************************************************************)
(* geotask/store.py: the journal of one task, in memory and in the file of *)
(* a JsonTaskStore.  A store call changes the memory under the lock and    *)
(* flushes with every event it appends; most calls flush once more when    *)
(* they have released the lock.  A flush reads the tasks, then the events, *)
(* writes a temporary file and renames it, and there is one temporary name *)
(* for all threads and processes.  The command line (geonexus task         *)
(* reconcile) is a second process that loads the file, reconciles its copy *)
(* and flushes it.  A process may die anywhere.                            *)
(*                                                                         *)
(* Of a task its state is kept, of an event its number and what it says: a *)
(* state for state_changed, its name for the others.                       *)
(***************************************************************************)
EXTENDS TaskMachine, Sequences, SequencesExt

CONSTANTS
  Thread,       \* the threads of the service that call the store
  Operator,     \* the command line, a process of its own
  Crews,        \* bound: which of them use the file in one behaviour
  Retention,    \* event_retention
  MaxEvents,    \* bound: events
  MaxCalls,     \* bound: calls that change the task or flush it
  MaxDeaths     \* bound: crashes of the service

Flusher == Thread \cup {Operator}
Nobody == "nobody"

ASSUME JournalAssumption ==
  /\ Operator \notin Thread /\ Nobody \notin Thread /\ Crews \subseteq SUBSET Flusher
  /\ Retention \in Nat \ {0} /\ MaxEvents \in Nat \ 0 .. 3
  /\ MaxCalls \in Nat /\ MaxDeaths \in Nat

VARIABLES
  memory,   \* memory[p]: what the service and the command line hold of the task
  file,     \* the state file
  spare,    \* the temporary file
  alive,    \* the service runs
  deaths,
  calls,
  holder,   \* who holds the lock of the service
  at,       \* at[h]: where h is in a call of the store
  todo,     \* todo[h]: what is left of that call after the flush h is in
  payload,  \* payload[h]: what h is about to write
  handle,   \* handle[h]: which file the one h has opened has become
  cursor,   \* the reader has seen the events up to this number
  skipped,  \* history: the reader was given events after a gap
  exposed   \* history: two flushes at once, two processes on the file, or a removal

journalVars ==
  <<memory, file, spare, alive, deaths, calls, holder, at, todo, payload, handle, cursor, skipped,
    exposed>>

Content(s) == [state |-> s, hist |-> <<>>]
Absent == Content("absent")      \* a store, or a file, without the task
Missing == Content("no file")
Torn == Content("torn")          \* nothing that json.loads accepts

Event == [seq : 1 .. MaxEvents, says : State \cup
            {"task.created", "task.failed", "task.cancelled", "task.progress"}]
Holds(c) == c.state \in State
Latest(c) == IF c.hist = <<>> THEN 0 ELSE Last(c.hist).seq

Copy == [state : State \cup {"absent", "no file", "torn"}, hist : Seq(Event)]
JournalTypeOK ==
  /\ memory \in [{"service", "operator"} -> Copy]
  /\ file \in Copy /\ spare \in Copy
  /\ alive \in BOOLEAN /\ deaths \in 0 .. MaxDeaths /\ calls \in 0 .. MaxCalls
  /\ holder \in Thread \cup {Nobody}
  /\ at \in [Flusher -> {"idle", "next", "reading", "opening", "writing", "replacing", "raised", "away"}]
  /\ todo \in [Flusher -> Seq({"task.failed", "task.cancelled", "unlock", "flush"})]
  /\ payload \in [Flusher -> Copy]
  /\ handle \in [Flusher -> {"spare", "file", "lost"}]
  /\ cursor \in 0 .. MaxEvents
  /\ skipped \in {"nothing", "the start", "the middle"}
  /\ exposed \in BOOLEAN

(* Slip: nothing is ever cut off.  append_event keeps the last of them *)
KeptAll(hist) == hist
Kept(hist) == IF Len(hist) > Retention THEN Tail(hist) ELSE hist

(* The service has just loaded a file with a task under way, or with none *)
UnderWay == [state |-> "running", hist |-> Kept(<<[seq |-> 3, says |-> "scheduled"],
                                                  [seq |-> 4, says |-> "running"]>>)]
JournalInit ==
  /\ file \in {UnderWay, Missing} /\ spare = Missing
  /\ memory = [p \in {"service", "operator"} |->
                 IF p = "service" /\ file = UnderWay THEN UnderWay ELSE Absent]
  /\ alive = TRUE /\ deaths = 0 /\ calls = 0
  /\ holder = Nobody
  /\ \E crew \in Crews : at = [h \in Flusher |-> IF h \in crew THEN "idle" ELSE "away"]
  /\ todo = [h \in Flusher |-> <<>>]
  /\ payload = [h \in Flusher |-> Absent]
  /\ handle = [h \in Flusher |-> "lost"]
  /\ cursor = 0 /\ skipped = "nothing" /\ exposed = FALSE
-----------------------------------------------------------------------------
ProcessOf(h) == IF h = Operator THEN "operator" ELSE "service"
Mine(h) == memory[ProcessOf(h)]

(* The lock is held from the call's start to its "unlock"; nobody else asks for the operator's *)
Locks(h) == IF h = Operator THEN UNCHANGED holder ELSE holder = Nobody /\ holder' = h
Unlocks(h) == holder' = IF holder = h THEN Nobody ELSE holder

(* append_event: the next number, into the history; _on_event then flushes.
   The lock is held, so what is written is what the memory holds now *)
Appended(c, says) ==
  [c EXCEPT !.hist = Kept(Append(@, [seq |-> Latest(c) + 1, says |-> says]))]

Flushing == {"reading", "opening", "writing", "replacing"}
Alone(h) == \A g \in Flusher \ {h} : at[g] \notin Flushing

(* h changes its copy to c and flushes it before it does anything else *)
ChangeAndFlush(h, c) ==
  /\ memory' = [memory EXCEPT ![ProcessOf(h)] = c]
  /\ payload' = [payload EXCEPT ![h] = c]
  /\ at' = [at EXCEPT ![h] = "opening"]
  /\ exposed' = (exposed \/ ~ Alone(h))

Counted == calls < MaxCalls /\ calls' = calls + 1
Room(h) == Latest(Mine(h)) < MaxEvents

Untouched == <<file, spare, alive, deaths, handle, cursor, skipped>>

(* A store call that appends an event to c, and what it does after the flush *)
StoreCall(h, c, says, rest) ==
  /\ at[h] = "idle" /\ Room(h) /\ Counted
  /\ Locks(h)
  /\ ChangeAndFlush(h, Appended(c, says))
  /\ todo' = [todo EXCEPT ![h] = rest]
  /\ UNCHANGED Untouched

(* put of a task the store does not hold *)
Put(h) ==
  /\ alive /\ Mine(h) = Absent
  /\ StoreCall(h, Content("created"), "task.created", <<"unlock", "flush">>)

(* put of one it holds, which it returns as it is, and set_lease: both flush *)
SetLease(h) ==
  /\ alive /\ at[h] = "idle" /\ Holds(Mine(h)) /\ holder = Nobody /\ Counted
  /\ at' = [at EXCEPT ![h] = "next"] /\ todo' = [todo EXCEPT ![h] = <<"flush">>]
  /\ UNCHANGED <<memory, payload, holder, exposed, Untouched>>

(* What follows the state_changed event *)
Explanation(to) ==
  CASE to = "failed" -> <<"task.failed">> [] to = "cancelled" -> <<"task.cancelled">> [] OTHER -> <<>>

(* transition, asked for by a client of the store, and within request_cancel and
   reconcile, which hold the lock until the last flush *)
Transition(h, to, within) ==
  /\ CanTransition(Mine(h).state, to)
  /\ StoreCall(h, [Mine(h) EXCEPT !.state = to], to,
          Explanation(to) \o IF within THEN <<"flush", "unlock">> ELSE <<"unlock", "flush">>)

MoveOn(h) == alive /\ \E to \in State : Transition(h, to, FALSE)

(* request_cancel of a task that has not started (else it raises a flag only) *)
CancelBeforeStart(h) == alive /\ Mine(h).state \in Runnable /\ Transition(h, "cancelled", TRUE)

(* reconcile of a task whose lease has run out, with and without an attempt left *)
Reconcile(h) ==
  /\ h = Operator \/ alive
  /\ Mine(h).state \in {"scheduled", "running"}
  /\ \E to \in {"queued", "failed"} : Transition(h, to, TRUE)

(* report_progress: no flush but the event's *)
Progressed(h) ==
  /\ alive /\ Mine(h).state = "running"
  /\ StoreCall(h, Mine(h), "task.progress", <<"unlock">>)

(* remove: in memory only, the number of the last event included *)
RemoveTask ==
  /\ alive /\ holder = Nobody /\ Holds(memory["service"])
  /\ memory' = [memory EXCEPT !["service"] = Absent]
  /\ exposed' = TRUE
  /\ UNCHANGED <<calls, holder, at, todo, payload, Untouched>>
-----------------------------------------------------------------------------
(* The call goes on: task.failed or task.cancelled, the lock, the last flush.  That
   one reads the tasks, and later the events, whoever holds the lock *)
Explain(h) ==
  /\ at[h] = "next" /\ Head(todo[h]) \in {"task.failed", "task.cancelled"} /\ Room(h)
  /\ ChangeAndFlush(h, Appended(Mine(h), Head(todo[h])))
  /\ todo' = [todo EXCEPT ![h] = Tail(@)]
  /\ UNCHANGED <<calls, holder, Untouched>>

Unlock(h) ==
  /\ at[h] = "next" /\ Head(todo[h]) = "unlock"
  /\ Unlocks(h)
  /\ todo' = [todo EXCEPT ![h] = Tail(@)]
  /\ at' = [at EXCEPT ![h] = IF Tail(todo[h]) = <<>> THEN "idle" ELSE "next"]
  /\ UNCHANGED <<calls, memory, payload, exposed, Untouched>>

ReadTasks(h) ==
  /\ at[h] = "next" /\ Head(todo[h]) = "flush"
  /\ payload' = [payload EXCEPT ![h] = Content(Mine(h).state)]
  /\ todo' = [todo EXCEPT ![h] = Tail(@)]
  /\ at' = [at EXCEPT ![h] = "reading"]
  /\ exposed' = (exposed \/ ~ Alone(h))
  /\ UNCHANGED <<calls, memory, holder, Untouched>>

ReadEvents(h) ==
  /\ at[h] = "reading"
  /\ payload' = [payload EXCEPT ![h].hist = Mine(h).hist]
  /\ at' = [at EXCEPT ![h] = "opening"]
  /\ UNCHANGED <<calls, memory, holder, todo, exposed, Untouched>>

(* write_text empties the temporary file, then fills it *)
Open(h) ==
  /\ at[h] = "opening"
  /\ spare' = Torn
  /\ handle' = [handle EXCEPT ![h] = "spare"]
  /\ at' = [at EXCEPT ![h] = "writing"]
  /\ UNCHANGED <<calls, memory, file, alive, deaths, holder, todo, payload, cursor, skipped, exposed>>

(* Over what another has written since, of another length, no JSON comes out *)
Filled(c, new) == IF c = Torn THEN {new} ELSE {new, Torn}
Fill(h) ==
  /\ at[h] = "writing"
  /\ IF handle[h] = "spare" THEN spare' \in Filled(spare, payload[h]) ELSE UNCHANGED spare
  /\ IF handle[h] = "file" THEN file' \in Filled(file, payload[h]) ELSE UNCHANGED file
  /\ at' = [at EXCEPT ![h] = "replacing"]
  /\ UNCHANGED <<calls, memory, alive, deaths, holder, todo, payload, handle, cursor, skipped, exposed>>

(* os.replace: raises out of the store's call when another has taken the file away *)
Replace(h) ==
  /\ at[h] = "replacing"
  /\ IF spare = Missing
       THEN /\ at' = [at EXCEPT ![h] = "raised"] /\ todo' = [todo EXCEPT ![h] = <<>>]
            /\ Unlocks(h)
            /\ UNCHANGED <<file, spare, handle>>
       ELSE /\ file' = spare /\ spare' = Missing
            /\ handle' = [g \in Flusher |-> IF g # h /\ handle[g] = "spare" THEN "file" ELSE "lost"]
            /\ at' = [at EXCEPT ![h] = IF todo[h] = <<>> THEN "idle" ELSE "next"]
            /\ UNCHANGED <<holder, todo>>
  /\ payload' = [payload EXCEPT ![h] = Absent]
  /\ UNCHANGED <<calls, memory, alive, deaths, cursor, skipped, exposed>>
-----------------------------------------------------------------------------
(* _load: no file, or one that cannot be read, is an empty store *)
Loaded == IF file \in {Missing, Torn} THEN Absent ELSE file

(* The service dies with its threads *)
Die ==
  /\ alive /\ deaths < MaxDeaths
  /\ alive' = FALSE /\ deaths' = deaths + 1
  /\ holder' = Nobody
  /\ at' = [h \in Flusher |-> IF h = Operator \/ at[h] = "away" THEN at[h] ELSE "idle"]
  /\ todo' = [h \in Flusher |-> IF h = Operator THEN todo[h] ELSE <<>>]
  /\ handle' = [h \in Flusher |-> IF h = Operator THEN handle[h] ELSE "lost"]
  /\ payload' = [h \in Flusher |-> IF h = Operator THEN payload[h] ELSE Absent]
  /\ memory' = [memory EXCEPT !["service"] = Absent]
  /\ UNCHANGED <<calls, file, spare, cursor, skipped, exposed>>

ComeUp ==
  /\ ~ alive
  /\ alive' = TRUE
  /\ memory' = [memory EXCEPT !["service"] = Loaded]
  /\ exposed' = (exposed \/ at[Operator] # "idle" \/ memory["operator"] # Absent)
  /\ UNCHANGED <<calls, file, spare, deaths, holder, at, todo, payload, handle, cursor, skipped>>

(* The command line opens the store, once, and exits again *)
OpenStore ==
  /\ at[Operator] = "idle" /\ memory["operator"] = Absent /\ file # Missing /\ Holds(Loaded)
  /\ memory' = [memory EXCEPT !["operator"] = Loaded]
  /\ exposed' = (exposed \/ alive)
  /\ UNCHANGED <<calls, holder, at, todo, payload, Untouched>>

CommandEnds ==
  /\ at[Operator] = "idle" /\ memory["operator"] # Absent
  /\ memory' = [memory EXCEPT !["operator"] = Absent]
  /\ UNCHANGED <<calls, holder, at, todo, payload, exposed, Untouched>>

(* Slip: a reader that misses just one event is not told *)
GoneLate(hist, since) == hist # <<>> /\ since # 0 /\ since + 1 < hist[1].seq - 1
Gone(hist, since) == hist # <<>> /\ since # 0 /\ since < hist[1].seq - 1

(* events_since, by a reader that resumes where it was.  Told that its history
   is gone, it takes up what there is *)
EventsSince ==
  LET hist == memory["service"].hist IN
  /\ alive /\ holder = Nobody
  /\ hist # <<>> /\ Latest(memory["service"]) > cursor
  /\ IF Gone(hist, cursor)
       THEN cursor' = hist[1].seq - 1 /\ UNCHANGED skipped
       ELSE /\ cursor' = Latest(memory["service"])
            /\ skipped' = IF hist[1].seq <= cursor + 1 THEN skipped
                          ELSE IF cursor = 0 THEN "the start" ELSE "the middle"
  /\ UNCHANGED <<calls, memory, file, spare, alive, deaths, holder, at, todo, payload, handle, exposed>>

(* Nobody calls the store any more *)
Quiet == calls = MaxCalls /\ UNCHANGED journalVars

JournalNext ==
  \/ Quiet
  \/ Die \/ ComeUp \/ OpenStore \/ CommandEnds \/ RemoveTask \/ EventsSince
  \/ \E h \in Thread : Put(h) \/ SetLease(h) \/ MoveOn(h) \/ CancelBeforeStart(h) \/ Progressed(h)
  \/ \E h \in Flusher : \/ Reconcile(h) \/ Explain(h) \/ Unlock(h) \/ ReadTasks(h) \/ ReadEvents(h)
                       \/ Open(h) \/ Fill(h) \/ Replace(h)

JournalSpec == JournalInit /\ [][JournalNext]_journalVars
-----------------------------------------------------------------------------
AtRest == \A h \in Flusher : at[h] \in {"idle", "away"}

Consecutive(hist) == \A i \in 1 .. Len(hist) - 1 : hist[i + 1].seq = hist[i].seq + 1

(* What a journal says last of the task is what the task is *)
Agrees(c) ==
  \A i \in DOMAIN c.hist :
    c.hist[i].says \in State /\ (\A j \in i + 1 .. Len(c.hist) : c.hist[j].says \notin State)
      => c.state = c.hist[i].says

(* append_event, _flush, _load and events_since together: numbers have no holes,
   whoever wrote.  As long as one flush follows another, a death at any point
   leaves a file that can be read, that agrees with itself and reaches at least as
   far as any reader has seen; and a store call that has returned is in it *)
JournalIsKept ==
  /\ \A c \in {memory["service"], memory["operator"], file} :
       Consecutive(c.hist) /\ Len(c.hist) <= Retention
  /\ skipped # "the middle"
  /\ ~ exposed =>
       /\ file # Torn /\ Agrees(file)
       /\ alive => cursor <= Latest(memory["service"])
       /\ cursor <= Latest(file)
       /\ \A h \in Flusher : at[h] # "raised"
       /\ alive /\ Holds(memory["service"]) /\ AtRest => file = memory["service"]

(* The comment in _flush: whoever is killed while writing leaves no half a JSON.
   It fails: the last flush of a call is outside the lock, so two threads fill
   the one temporary file at once *)
FileIsReadable == file # Torn

(* A task that has failed or was cancelled says why (task.failed, docs/GEOTASK.md).
   It fails: state_changed is flushed first, and the process may die in between *)
EndIsExplained ==
  file.state = "failed" /\ alive /\ AtRest =>
    \E i \in 1 .. Len(file.hist) : file.hist[i].says = "task.failed"

(* docs/GEOTASK.md: beyond the window the answer is 410, never a silent start
   over.  It fails for a reader that starts from 0 *)
NeverSkips == skipped = "nothing"

(* reconcile leaves ended tasks alone.  It fails: the command line works on the
   copy it has loaded, and writes it over what the service has ended since *)
EndsStay ==
  [][file.state \in Terminal /\ file'.state \in State => file'.state = file.state]_journalVars
=============================================================================
