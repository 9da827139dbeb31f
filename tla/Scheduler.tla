----------------------------- MODULE Scheduler -----------------------------
(***************************************************************************)
(* The scheduler's order: priority first, then the owners of one priority  *)
(* in turn, then arrival; every candidate in that order gets a reservation *)
(* if it fits beside what is reserved already.  GeoTask leaves the order   *)
(* open and only says which sets an admission may yield (its Admissible);  *)
(* here the order is the code's.                                           *)
(*                                                                         *)
(* Around the scheduler stands the loop of TaskRunner.run: one admission,  *)
(* the launches of its round, one completion, and so on, with retries and  *)
(* backoff.  A task that was admitted may still fall away before it runs:  *)
(* a client cancelled it, or the backend would not take it.  GeoTask has   *)
(* the steps of one launch; here the tasks of a round are launched in any  *)
(* order and one step each.                                                *)
(***************************************************************************)
EXTENDS Naturals, FiniteSets, FiniteSetsExt

CONSTANTS
  Task,
  Position,   \* Position[t]: place of t in the graph's order, in which ready() lists tasks
  Deps,       \* Deps[t]: the tasks t depends on
  Priority,   \* Priority[t]: higher goes first
  Owner,      \* Owner[t]: owner, or tenant, or the default
  Need,       \* Need[t]: what t reserves
  Capacity,   \* what the node has
  Limit,      \* max_concurrent
  Retries,    \* Retries[t]: how often t may fail and be retried
  BacksOff    \* tasks that back off before a retry

ASSUME SchedulerAssumption ==
  /\ IsFiniteSet(Task)
  /\ Position \in [Task -> Nat]
  /\ \A t, u \in Task : Position[t] = Position[u] => t = u
  /\ Deps \in [Task -> SUBSET Task]
  /\ Priority \in [Task -> Nat]
  /\ Need \in [Task -> Nat]
  /\ Capacity \in Nat
  /\ Limit \in Nat \ {0}
  /\ Retries \in [Task -> Nat]
  /\ BacksOff \subseteq Task
  /\ \A t \in Task : Need[t] <= Capacity

VARIABLES
  done,      \* tasks that succeeded
  lost,      \* tasks cancelled or failed for good
  retried,   \* retried[t]: retries of t so far
  seq,       \* _seq: arrival number of every task seen, from 1; 0 for the others
  cursor,    \* _cursor[p]: where the rotation of priority p starts next time
  deferred,  \* tasks whose _not_before lies ahead
  held,      \* Occupancy: tasks with a reservation
  launching, \* tasks of this round that the runner has still to launch
  pc,        \* "admit", "launch", "run" or "over": where the runner's loop stands
  turn,      \* history: per priority, owners served and passed over in its last round
  dropped    \* history: tasks of this round that fell away before they ran

queueVars == <<seq, cursor, turn>>
vars == <<done, lost, retried, seq, cursor, deferred, held, launching, pc, turn, dropped>>

Level == {Priority[t] : t \in Task}
Owners == {Owner[t] : t \in Task}

SchedulerTypeOK ==
  /\ done \subseteq Task
  /\ lost \subseteq Task
  /\ retried \in [Task -> Nat]
  /\ seq \in [Task -> 0 .. Cardinality(Task)]
  /\ cursor \in [Level -> Nat]
  /\ deferred \subseteq Task
  /\ held \subseteq Task
  /\ launching \subseteq held
  /\ pc \in {"admit", "launch", "run", "over"}
  /\ dropped \subseteq Task
  /\ turn \in [Level -> [served : SUBSET Owners, passed : SUBSET Owners]]

-----------------------------------------------------------------------------
(* Tasks the graph offers for admission *)
Ready == {t \in Task \ (held \cup done \cup lost) : Deps[t] \subseteq done}

(* fits_within the remaining capacity, and a place left under the concurrency limit *)
Fits(S) == MapThenSumSet(LAMBDA t : Need[t], S) <= Capacity /\ Cardinality(S) <= Limit

(* Slip: every candidate gets a fresh number, in every round *)
NumberFresh(C) ==
  [t \in Task |-> IF t \in C
                  THEN Max({seq[u] : u \in Task})
                       + Cardinality({u \in C : Position[u] <= Position[t]})
                  ELSE seq[t]]

(* enqueue_seq: a number for every candidate seen for the first time *)
Number(C) ==
  LET new == {t \in C : seq[t] = 0}
  IN  [t \in Task |->
         IF t \in new
         THEN Cardinality({u \in Task : seq[u] > 0})
              + Cardinality({u \in new : Position[u] <= Position[t]})
         ELSE seq[t]]

-----------------------------------------------------------------------------
(***************************************************************************)
(* _fair_order of candidates C numbered by num.  Within one priority, the  *)
(* owners stand in the order of their oldest candidate, rotated by the     *)
(* cursor, and are asked for one task each, round and round.               *)
(***************************************************************************)
OwnersAt(C, p) == {Owner[t] : t \in {u \in C : Priority[u] = p}}

Oldest(C, num, p, o) ==
  Min({num[t] : t \in {u \in C : Priority[u] = p /\ Owner[u] = o}})

(* Place of owner o at priority p after the rotation *)
Place(C, num, p, o) ==
  LET owners == OwnersAt(C, p)
      k      == Cardinality(owners)
      place  == Cardinality({w \in owners : Oldest(C, num, p, w) < Oldest(C, num, p, o)})
  IN  ((place + k) - (cursor[p] % k)) % k

(* How many tasks of the same owner and priority are asked for before t *)
Depth(C, num, t) ==
  Cardinality({u \in C : /\ Priority[u] = Priority[t]
                         /\ Owner[u] = Owner[t]
                         /\ num[u] < num[t]})

(* Slip: the lowest priority goes first *)
PrecedesAscending(C, num, t, u) ==
  \/ Priority[t] < Priority[u]
  \/ /\ Priority[t] = Priority[u]
     /\ \/ Depth(C, num, t) < Depth(C, num, u)
        \/ /\ Depth(C, num, t) = Depth(C, num, u)
           /\ Place(C, num, Priority[t], Owner[t]) < Place(C, num, Priority[u], Owner[u])

Precedes(C, num, t, u) ==
  \/ Priority[t] > Priority[u]
  \/ /\ Priority[t] = Priority[u]
     /\ \/ Depth(C, num, t) < Depth(C, num, u)
        \/ /\ Depth(C, num, t) = Depth(C, num, u)
           /\ Place(C, num, Priority[t], Owner[t]) < Place(C, num, Priority[u], Owner[u])

(* A is what is admitted when the candidates are tried in that order *)
Greedy(C, num, A) ==
  /\ A \subseteq C
  /\ \A t \in C :
       t \in A <=> Fits(held \cup {u \in A : Precedes(C, num, u, t)} \cup {t})

-----------------------------------------------------------------------------
Init ==
  /\ done = {}
  /\ lost = {}
  /\ retried = [t \in Task |-> 0]
  /\ seq = [t \in Task |-> 0]
  /\ cursor = [p \in Level |-> 0]
  /\ deferred = {}
  /\ held = {}
  /\ launching = {}
  /\ dropped = {}
  /\ pc = "admit"
  /\ turn = [p \in Level |-> [served |-> {}, passed |-> {}]]

(* Scheduler.admit *)
Admit ==
  /\ pc = "admit"
  /\ LET C   == Ready \ deferred
         num == Number(C)
     IN  \E A \in SUBSET C :
           /\ Greedy(C, num, A)
           /\ held' = held \cup A
           /\ launching' = A
           /\ seq' = num
           /\ cursor' = [p \in Level |->
                           IF OwnersAt(C, p) = {} THEN cursor[p]
                           ELSE (cursor[p] + 1) % Cardinality(OwnersAt(C, p))]
           /\ turn' = [p \in Level |->
                         IF OwnersAt(A, p) = {} THEN turn[p]
                         ELSE [served |-> OwnersAt(A, p),
                               passed |-> OwnersAt(C, p) \ OwnersAt(A, p)]]
  /\ dropped' = {}
  /\ pc' = "launch"
  /\ UNCHANGED <<done, lost, retried, deferred>>

(* A task of the round is submitted and runs *)
Launch(t) ==
  /\ pc = "launch"
  /\ t \in launching \ lost
  /\ launching' = launching \ {t}
  /\ UNCHANGED <<done, lost, retried, deferred, held, pc, dropped, queueVars>>

(* The task leaves the runner's hands and its reservation is released *)
Release(t) ==
  /\ held' = held \ {t}
  /\ launching' = launching \ {t}

(* It was cancelled after its admission: release it instead *)
Skip(t) ==
  /\ pc = "launch"
  /\ t \in launching \cap lost
  /\ Release(t)
  /\ dropped' = dropped \cup {t}
  /\ UNCHANGED <<done, lost, retried, deferred, pc, queueVars>>

(* A failure that may be retried, with a backoff or without, and one that may not *)
Again(t) ==
  /\ retried[t] < Retries[t]
  /\ retried' = [retried EXCEPT ![t] = @ + 1]
  /\ deferred' = IF t \in BacksOff THEN deferred \cup {t} ELSE deferred
  /\ UNCHANGED lost

GiveUp(t) ==
  /\ retried[t] >= Retries[t]
  /\ lost' = lost \cup {t}
  /\ UNCHANGED <<retried, deferred>>

(* backend.submit raised: release the task and treat it as failed *)
SubmitRaises(t) ==
  /\ pc = "launch"
  /\ t \in launching \ lost
  /\ Release(t)
  /\ Again(t) \/ GiveUp(t)
  /\ dropped' = dropped \cup {t}
  /\ UNCHANGED <<done, pc, queueVars>>

(* All of the round is launched or gone *)
RoundDone ==
  /\ pc = "launch"
  /\ launching = {}
  /\ pc' = "run"
  /\ UNCHANGED <<done, lost, retried, deferred, held, launching, dropped, queueVars>>

(* Slip: the reservation is not released *)
CompleteHoldingOn(t) ==
  /\ pc = "run"
  /\ t \in held
  /\ \/ done' = done \cup {t} /\ UNCHANGED lost
     \/ lost' = lost \cup {t} /\ UNCHANGED done
  /\ pc' = "admit"
  /\ UNCHANGED <<retried, deferred, held, launching, dropped, queueVars>>

(* A task completes for good: release, and admit again *)
Complete(t) ==
  /\ pc = "run"
  /\ t \in held
  /\ Release(t)
  /\ \/ done' = done \cup {t} /\ UNCHANGED lost
     \/ lost' = lost \cup {t} /\ UNCHANGED done
  /\ pc' = "admit"
  /\ UNCHANGED <<retried, deferred, dropped, queueVars>>

(* A task fails and may be tried again: release, defer, and admit again *)
Retry(t) ==
  /\ pc = "run"
  /\ t \in held
  /\ Release(t)
  /\ Again(t)
  /\ pc' = "admit"
  /\ UNCHANGED <<done, dropped, queueVars>>

(* A client cancels a task that waits, or is admitted and not yet launched *)
Withdraw(t) ==
  /\ t \in Task \ (done \cup lost)
  /\ t \in held => t \in launching
  /\ lost' = lost \cup {t}
  /\ UNCHANGED <<done, retried, deferred, held, launching, pc, dropped, queueVars>>

(* _not_before passes *)
Wake(t) ==
  /\ t \in deferred
  /\ deferred' = deferred \ {t}
  /\ UNCHANGED <<done, lost, retried, held, launching, pc, dropped, queueVars>>

(* Nothing runs: sleep and admit again while somebody backs off, otherwise the run is over *)
Idle ==
  /\ pc = "run"
  /\ held = {}
  /\ pc' = IF deferred = {} THEN "over" ELSE "admit"
  /\ UNCHANGED <<done, lost, retried, deferred, held, launching, dropped, queueVars>>

Over == pc = "over" /\ UNCHANGED vars

Launches(t) == Launch(t) \/ Skip(t) \/ SubmitRaises(t)

Next ==
  \/ Admit
  \/ RoundDone
  \/ Idle
  \/ \E t \in Task : Launches(t) \/ Complete(t) \/ Retry(t) \/ Withdraw(t) \/ Wake(t)
  \/ Over

(* Rounds go on, whatever is executed comes to an end, and time passes *)
Fairness ==
  /\ WF_vars(Admit)
  /\ WF_vars(RoundDone)
  /\ WF_vars(Idle)
  /\ WF_vars(\E t \in Task : Launches(t))
  /\ WF_vars(\E t \in Task : Complete(t) \/ Retry(t))
  /\ \A t \in Task : WF_vars(Wake(t))

Spec == Init /\ [][Next]_vars /\ Fairness

-----------------------------------------------------------------------------
Candidates == Ready \ deferred
Admitted == held' \ held

(* What a round admits fits beside what is reserved, and every candidate it leaves behind
   would not have fitted any more: no head-of-line blocking, and exactly what GeoTask
   assumes of an admission (Scheduler.admit).  More than that, it did not fit even beside
   only those of its own and of higher priority: no room was given to a lower priority
   that it could have used (_fair_order). *)
Admits == pc = "admit" /\ pc' = "launch"
LeftBehind == Candidates \ Admitted
NoHeadOfLine == Admits => Fits(held') /\ \A t \in LeftBehind : ~ Fits(held' \cup {t})
NoInversion ==
  Admits => \A t \in LeftBehind :
              ~ Fits(held \cup {u \in Admitted : Priority[u] >= Priority[t]} \cup {t})
(* Arrival numbers are assigned once and are all different: a retry does not lose its
   place in the queue and does not jump it either (enqueue_seq). *)
NumbersAreStable ==
  \A t \in Task :
    /\ seq[t] > 0 => seq'[t] = seq[t]
    /\ \A u \in Task \ {t} : seq'[t] > 0 => seq'[u] # seq'[t]

(* Of two equal candidates of one owner the one that came first is admitted first,
   retried or not (_fair_order). *)
OldestFirst ==
  Admits =>
    \A t, u \in Candidates :
      /\ Owner[t] = Owner[u] /\ Priority[t] = Priority[u] /\ Need[t] = Need[u]
      /\ seq'[t] < seq'[u]
      /\ u \in Admitted
      => t \in Admitted

(* Every round admits as many and the right ones, and a place in the queue is kept and
   counts (admit, _fair_order, enqueue_seq). *)
AdmissionIsRight == [][NoHeadOfLine /\ NoInversion /\ NumbersAreStable /\ OldestFirst]_vars

(* A ready task that is never put off is admitted sooner or later, or given up; or the run
   ended without it, and then for one reason only: of the last round something fell away
   before it ran and nothing else was running, so that nobody's end would have started
   another round (TaskRunner.run, "if not in_flight"; NothingStarved of GeoTask is what
   one would have wished). *)
EveryoneIsServed ==
  \A t \in Task \ BacksOff :
    t \in Ready ~> t \in held \cup lost \/ (pc = "over" /\ dropped # {})

(* Owners of one priority take turns: none is served twice in a row while another one,
   passed over the first time, is passed over again with a task no larger
   (_fair_order, "each owner takes one in turn"). *)
OwnersTakeTurns ==
  [][Admits =>
       \A p \in Level, w \in Owners :
         w \in (turn[p].passed \cap OwnersAt(Candidates, p)) \ OwnersAt(Admitted, p) =>
           turn[p].served \cap OwnersAt(Admitted, p) = {}]_vars
=============================================================================
