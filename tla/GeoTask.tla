------------------------------ MODULE GeoTask ------------------------------
(***************************************************************************)
(* TaskRunner driving one TaskGraph over a TaskStore, a Scheduler and an   *)
(* ExecutionBackend, with a client that may request cancellation of any    *)
(* task at any moment.                                                     *)
(*                                                                         *)
(* The runner is one thread; pc is where it stands in run().  The bodies   *)
(* run on the backend's threads, the cancelling client on its own: their   *)
(* steps fall between any two steps of the runner.  Every store method     *)
(* holds the store's lock, so one store call is the grain of interleaving; *)
(* consecutive calls are merged only where no other thread's step between  *)
(* them changes what happens.                                              *)
(***************************************************************************)
EXTENDS TaskMachine, FiniteSets

CONSTANTS
  Task,         \* the tasks of the graph
  NoTask,       \* no task is being launched or collected
  Deps,         \* Deps[t]: the tasks t depends on (depends_on)
  MaxAttempts,  \* MaxAttempts[t]: RetryPolicy.max_attempts
  BacksOff,     \* tasks whose retry policy has a positive backoff
  Unhandled,    \* tasks no handler of the backend is registered for
  Fits(_),      \* Fits(S): the reservations of S fit capacity and max_concurrent (at least 1)
  Flaky         \* TRUE for a remote backend, whose submit and poll may raise

ASSUME GraphAssumption ==
  /\ NoTask \notin Task
  /\ Deps \in [Task -> SUBSET Task]

ASSUME PolicyAssumption ==
  /\ MaxAttempts \in [Task -> Nat \ {0}]
  /\ BacksOff \subseteq Task
  /\ Unhandled \subseteq Task
  /\ Flaky \in BOOLEAN

(* Reservations are sums of non-negative requirements: part of what fits, fits. *)
ASSUME FitsAssumption ==
  /\ \A S \in SUBSET Task : Fits(S) \in BOOLEAN
  /\ Fits({})
  /\ \A S, T \in SUBSET Task : T \subseteq S /\ Fits(S) => Fits(T)

VARIABLES
  state,      \* TaskStore: state of every task
  attempt,    \* TaskStore: attempts used, from 0
  cancelReq,  \* TaskStore: cancel_requested
  error,      \* TaskStore: code of task.error, or "none"
  leased,     \* TaskStore: tasks whose lease was last written into the future
  held,       \* Occupancy: tasks holding a reservation
  deferred,   \* Scheduler: tasks whose not_before still lies ahead
  pc,         \* where run() stands
  refused,    \* rejected this round, not yet marked as failed
  round,      \* admitted this round, not yet launched
  current,    \* the task run() is launching or collecting
  inFlight,   \* in_flight: launched and not collected
  body,       \* the execution behind the task's current handle
  orphans     \* executions still going whose handle was dropped

storeVars == <<state, attempt, cancelReq, error, leased>>
runnerVars == <<held, deferred, pc, refused, round, current, inFlight>>
backendVars == <<body, orphans>>
vars == <<storeVars, runnerVars, backendVars>>

Pc == {"admit", "refuse", "launch", "submit", "schedule", "run", "idle", "wait",
       "collect", "done", "stopped"}

Body == {"none", "running", "ok", "cancelled", "error", "badspec"}

TypeOK ==
  /\ state \in [Task -> State]
  /\ attempt \in [Task -> Nat]
  /\ cancelReq \in [Task -> BOOLEAN]
  /\ error \in [Task -> Code \cup {"none"}]
  /\ leased \subseteq Task
  /\ held \subseteq Task
  /\ deferred \subseteq Task
  /\ pc \in Pc
  /\ refused \subseteq Task
  /\ round \subseteq Task
  /\ current \in Task \cup {NoTask}
  /\ inFlight \subseteq Task
  /\ body \in [Task -> Body]
  /\ orphans \in [Task -> Nat]

-----------------------------------------------------------------------------
(***************************************************************************)
(* The graph.                                                              *)
(***************************************************************************)
Dependents(t) == {d \in Task : t \in Deps[d]}

DepsSatisfied(t) == \A d \in Deps[t] : state[d] \in Satisfied

(* Slip: a dependency that ended in any way counts as satisfied *)
ReadyOnceEnded ==
  {t \in Task : state[t] \in Runnable /\ \A d \in Deps[t] : state[d] \in Terminal}

Ready == {t \in Task : state[t] \in Runnable /\ DepsSatisfied(t)}

(* Slip: only the direct dependents *)
DirectOnly(S) == {d \in Task : state[d] \notin Satisfied /\ Deps[d] \cap S # {}}

(***************************************************************************)
(* _cascade: the breadth-first search from the tasks of S along dependents *)
(* does not enter a satisfied task, and goes on through every other one.   *)
(* What it visits is the least set closed under that step.                 *)
(***************************************************************************)
Closed(S, D) ==
  \A d \in Task :
     state[d] \notin Satisfied /\ Deps[d] \cap (S \cup D) # {} => d \in D

Downstream(S) == {d \in Task : \A D \in SUBSET Task : Closed(S, D) => d \in D}

(* What the cascade from S turns into failed(upstream_failed) *)
Sunk(S) == {d \in Downstream(S) : state[d] \notin Terminal}

(* mark_failed for every task of S, with its cascade *)
Fail(S, code) ==
  LET failing == {t \in S : state[t] \notin Terminal}
      sunk    == Sunk(S) \ failing
  IN  /\ state' = [t \in Task |-> IF t \in failing \cup sunk THEN "failed" ELSE state[t]]
      /\ error' = [t \in Task |-> IF t \in failing THEN code
                                  ELSE IF t \in sunk THEN "upstream_failed"
                                  ELSE error[t]]

(* Slip: the cancellation does not cascade *)
CancelAlone(t) ==
  /\ state' = [state EXCEPT ![t] = IF @ \in Terminal THEN @ ELSE "cancelled"]
  /\ UNCHANGED error

(* Slip: the reason of the cancellation is written where the error code belongs *)
CancelWithReason(t) ==
  /\ state' = [state EXCEPT ![t] = IF @ \in Terminal THEN @ ELSE "cancelled"]
  /\ error' = [error EXCEPT ![t] = "user_requested"]

(* mark_cancelled: nothing on a terminal task, otherwise cancelled and cascade *)
Cancel(t) ==
  IF state[t] \in Terminal
  THEN UNCHANGED <<state, error>>
  ELSE /\ state' = [d \in Task |-> IF d = t THEN "cancelled"
                                   ELSE IF d \in Sunk({t}) THEN "failed"
                                   ELSE state[d]]
       /\ error' = [d \in Task |-> IF d \in Sunk({t}) \ {t} THEN "upstream_failed"
                                   ELSE error[d]]

-----------------------------------------------------------------------------
(***************************************************************************)
(* The graph as run() finds it: fresh tasks, and tasks the agent settled   *)
(* beforehand (_preload_settled marks done and skipped plan steps).  A     *)
(* step that was done had its own dependencies satisfied then.             *)
(***************************************************************************)
Init ==
  /\ state \in [Task -> {"created"} \cup Satisfied]
  /\ \A t \in Task : state[t] = "succeeded" => DepsSatisfied(t)
  /\ attempt = [t \in Task |-> 0]
  /\ cancelReq = [t \in Task |-> FALSE]
  /\ error = [t \in Task |-> "none"]
  /\ leased = {}
  /\ held = {}
  /\ deferred = {}
  /\ pc = "admit"
  /\ refused = {}
  /\ round = {}
  /\ current = NoTask
  /\ inFlight = {}
  /\ body = [t \in Task |-> "none"]
  /\ orphans = [t \in Task |-> 0]

-----------------------------------------------------------------------------
(***************************************************************************)
(* The runner.                                                             *)
(***************************************************************************)

(* Tasks that would not fit the node even when it is empty *)
Rejected == {t \in Ready : ~ Fits({t})}

Candidates == (Ready \ Rejected) \ deferred

(***************************************************************************)
(* Greedy admission in some order takes a set that fits next to what is    *)
(* held and leaves no candidate that would still fit.                      *)
(***************************************************************************)
Admissible(A) ==
  /\ A \subseteq Candidates
  /\ Fits(held \cup A)
  /\ \A c \in Candidates \ A : ~ Fits(held \cup A \cup {c})

(* _admit: reserve for what is admitted, block what must wait, and name the impossible *)
Admit ==
  /\ pc = "admit"
  /\ \E A \in SUBSET Candidates :
       /\ Admissible(A)
       /\ state' = [t \in Task |-> IF t \in (Ready \ Rejected) \ A
                                  THEN EnsureBlocked(state[t]) ELSE state[t]]
       /\ held' = held \cup A
       /\ round' = A
  /\ refused' = Rejected
  /\ pc' = "refuse"
  /\ UNCHANGED <<attempt, cancelReq, error, leased, deferred, current, inFlight, backendVars>>

(* _admit: fail the impossible; a client may have cancelled some of it since *)
Refuse ==
  /\ pc = "refuse"
  /\ Fail(refused, "no_compatible_compute")
  /\ deferred' = deferred \ refused
  /\ refused' = {}
  /\ pc' = "launch"
  /\ UNCHANGED <<attempt, cancelReq, leased, held, round, current, inFlight, backendVars>>

(* should_stop(): run() leaves its loop without settling anything *)
Stop ==
  /\ pc = "admit"
  /\ pc' = "stopped"
  /\ UNCHANGED <<storeVars, held, deferred, refused, round, current, inFlight, backendVars>>

(* Slip: the reservation is not released *)
LaunchCancelledLeaks(t) ==
  /\ pc = "launch"
  /\ t \in round
  /\ cancelReq[t]
  /\ Cancel(t)
  /\ round' = round \ {t}
  /\ UNCHANGED <<attempt, cancelReq, leased, held, deferred, pc, refused, current, inFlight,
                 backendVars>>

(* The flag was raised after admission: cancel instead of launching *)
LaunchCancelled(t) ==
  /\ pc = "launch"
  /\ t \in round
  /\ cancelReq[t]
  /\ Cancel(t)
  /\ held' = held \ {t}
  /\ round' = round \ {t}
  /\ UNCHANGED <<attempt, cancelReq, leased, deferred, pc, refused, current, inFlight,
                 backendVars>>

(* The flag is down: write the lease and go on to submit *)
Claim(t) ==
  /\ pc = "launch"
  /\ t \in round
  /\ ~ cancelReq[t]
  /\ leased' = leased \cup {t}
  /\ current' = t
  /\ pc' = "submit"
  /\ UNCHANGED <<state, attempt, cancelReq, error, held, deferred, refused, round, inFlight,
                 backendVars>>

(* backend.submit: without a handler the result is already there *)
Submit(t) ==
  /\ pc = "submit"
  /\ t = current
  /\ body' = [body EXCEPT ![t] = IF t \in Unhandled THEN "badspec" ELSE "running"]
  /\ pc' = "schedule"
  /\ UNCHANGED <<storeVars, held, deferred, refused, round, current, inFlight, orphans>>

(***************************************************************************)
(* _apply of a failure: one more attempt if the code and the policy allow, *)
(* otherwise failed with the cascade.  From running the way back to queued *)
(* also clears the error and the cancel flag.                              *)
(***************************************************************************)
MayRetry(t, code) ==
  code \in RetryableCode /\ AllowsAnotherAttempt(attempt[t], MaxAttempts[t])

(* Slip: the attempt is not counted *)
RetryForFree(t) ==
  /\ state' = [state EXCEPT ![t] = Move(@, "queued")]
  /\ deferred' = IF t \in BacksOff THEN deferred \cup {t} ELSE deferred
  /\ leased' = leased \ {t}
  /\ UNCHANGED <<attempt, cancelReq, error>>

Retry(t) ==
  /\ attempt' = [attempt EXCEPT ![t] = @ + 1]
  /\ state' = [state EXCEPT ![t] = Move(@, "queued")]
  /\ IF state[t] = "running"
     THEN /\ error' = [error EXCEPT ![t] = "none"]
          /\ cancelReq' = [cancelReq EXCEPT ![t] = FALSE]
     ELSE UNCHANGED <<error, cancelReq>>
  /\ leased' = leased \ {t}
  /\ deferred' = IF t \in BacksOff THEN deferred \cup {t} ELSE deferred

GiveUp(t, code) ==
  /\ Fail({t}, code)
  /\ deferred' = deferred \ {t}
  /\ UNCHANGED <<attempt, cancelReq, leased>>

ApplyFailure(t, code) ==
  \/ MayRetry(t, code) /\ Retry(t)
  \/ ~ MayRetry(t, code) /\ GiveUp(t, code)

(* backend.submit raised: release and treat it as a failed execution *)
SubmitRaises(t) ==
  /\ Flaky
  /\ pc = "submit"
  /\ t = current
  /\ ApplyFailure(t, "execution_error")
  /\ held' = held \ {t}
  /\ round' = round \ {t}
  /\ current' = NoTask
  /\ pc' = "launch"
  /\ UNCHANGED <<refused, inFlight, backendVars>>

(* Slip: a blocked or new task is not queued first *)
MarkScheduledAtOnce(t) ==
  /\ pc = "schedule"
  /\ t = current
  /\ state' = [state EXCEPT ![t] = Move(@, "scheduled")]
  /\ pc' = "run"
  /\ UNCHANGED <<attempt, cancelReq, error, leased, held, deferred, refused, round, current,
                 inFlight, backendVars>>

(* mark_running, first move: the execution is already submitted *)
MarkScheduled(t) ==
  /\ pc = "schedule"
  /\ t = current
  /\ state' = [state EXCEPT ![t] = Move(EnsureQueued(@), "scheduled")]
  /\ pc' = "run"
  /\ UNCHANGED <<attempt, cancelReq, error, leased, held, deferred, round, current,
                 inFlight, backendVars, refused>>

(* mark_running, second move, and the bookkeeping of in_flight *)
MarkRunning(t) ==
  /\ pc = "run"
  /\ t = current
  /\ state' = [state EXCEPT ![t] = Move(@, "running")]
  /\ inFlight' = inFlight \cup {t}
  /\ round' = round \ {t}
  /\ current' = NoTask
  /\ pc' = "launch"
  /\ UNCHANGED <<attempt, cancelReq, error, leased, held, deferred, refused, backendVars>>

(* Slip: what was launched in earlier rounds is forgotten *)
EndsWithRound ==
  /\ pc = "launch"
  /\ round = {}
  /\ pc' = "idle"
  /\ UNCHANGED <<storeVars, held, deferred, refused, round, current, inFlight, backendVars>>

(* The round is launched: wait for a completion if anything is in flight *)
RoundDone ==
  /\ pc = "launch"
  /\ round = {}
  /\ pc' = IF inFlight = {} THEN "idle" ELSE "wait"
  /\ UNCHANGED <<storeVars, held, deferred, refused, round, current, inFlight, backendVars>>

(* _wait_for_backoff: sleep and admit again, or nobody is deferred and run() ends *)
Idle ==
  /\ pc = "idle"
  /\ pc' = IF deferred = {} THEN "done" ELSE "admit"
  /\ UNCHANGED <<storeVars, held, deferred, refused, round, current, inFlight, backendVars>>

(* Slip: whatever was submitted is collected without looking *)
WaitForNothing(t) ==
  /\ pc = "wait"
  /\ t \in inFlight
  /\ current' = t
  /\ pc' = "collect"
  /\ UNCHANGED <<storeVars, held, deferred, refused, round, inFlight, backendVars>>

(* _wait_any returns the first task whose poll is not RUNNING, or raised *)
WaitAny(t) ==
  /\ pc = "wait"
  /\ t \in inFlight
  /\ body[t] # "running" \/ Flaky
  /\ current' = t
  /\ pc' = "collect"
  /\ UNCHANGED <<storeVars, held, deferred, refused, round, inFlight, backendVars>>

(***************************************************************************)
(* run() polls that task a second time and applies what this poll says.    *)
(* The handle is gone afterwards: an execution still going is orphaned.    *)
(***************************************************************************)
Collect(t) ==
  /\ pc = "collect"
  /\ t = current
  /\ held' = held \ {t}
  /\ inFlight' = inFlight \ {t}
  /\ current' = NoTask
  /\ body' = [body EXCEPT ![t] = "none"]
  /\ orphans' = [orphans EXCEPT ![t] = IF body[t] = "running" THEN @ + 1 ELSE @]
  /\ pc' = "admit"
  /\ UNCHANGED <<refused, round>>

CollectSuccess(t) ==
  /\ Collect(t)
  /\ body[t] = "ok"
  /\ state' = [state EXCEPT ![t] = Move(@, "succeeded")]
  /\ UNCHANGED <<attempt, cancelReq, error, leased, deferred>>

CollectCancelled(t) ==
  /\ Collect(t)
  /\ body[t] = "cancelled"
  /\ Cancel(t)
  /\ UNCHANGED <<attempt, cancelReq, leased, deferred>>

CollectFailure(t) ==
  /\ Collect(t)
  /\ \/ body[t] = "error" /\ ApplyFailure(t, "execution_error")
     \/ body[t] = "badspec" /\ ApplyFailure(t, "invalid_spec")
     \/ Flaky /\ ApplyFailure(t, "executor_lost")

(* The first poll raised, the second answers RUNNING: an outcome without an error *)
CollectUnsettled(t) ==
  /\ Collect(t)
  /\ body[t] = "running"
  /\ GiveUp(t, "execution_error")

-----------------------------------------------------------------------------
(***************************************************************************)
(* The other threads.                                                      *)
(***************************************************************************)

(* TaskStore.request_cancel: refused on a terminal task, at once on one not started *)
RequestCancel(t) ==
  /\ state[t] \notin Terminal
  /\ cancelReq' = [cancelReq EXCEPT ![t] = TRUE]
  /\ state' = [state EXCEPT ![t] = IF @ \in Runnable THEN "cancelled" ELSE @]
  /\ UNCHANGED <<attempt, error, leased, runnerVars, backendVars>>

(* LocalBackend._run: the handler returned; a raised flag turns it into cancelled *)
BodyReturns(t) ==
  /\ body[t] = "running"
  /\ body' = [body EXCEPT ![t] = IF cancelReq[t] THEN "cancelled" ELSE "ok"]
  /\ UNCHANGED <<storeVars, runnerVars, orphans>>

(* LocalBackend._run: the handler raised *)
BodyRaises(t) ==
  /\ body[t] = "running"
  /\ body' = [body EXCEPT ![t] = "error"]
  /\ UNCHANGED <<storeVars, runnerVars, orphans>>

(* An execution nobody polls any more comes to its end *)
OrphanEnds(t) ==
  /\ orphans[t] > 0
  /\ orphans' = [orphans EXCEPT ![t] = @ - 1]
  /\ UNCHANGED <<storeVars, runnerVars, body>>

(* The backoff of a task runs out *)
BackoffElapses(t) ==
  /\ t \in deferred
  /\ deferred' = deferred \ {t}
  /\ UNCHANGED <<storeVars, held, pc, refused, round, current, inFlight, backendVars>>

(* run() has returned *)
Returned ==
  /\ pc \in {"done", "stopped"}
  /\ UNCHANGED vars

-----------------------------------------------------------------------------
Launch(t) ==
  \/ LaunchCancelled(t)
  \/ Claim(t)
  \/ Submit(t)
  \/ SubmitRaises(t)
  \/ MarkScheduled(t)
  \/ MarkRunning(t)

Settle(t) ==
  \/ WaitAny(t)
  \/ CollectSuccess(t)
  \/ CollectCancelled(t)
  \/ CollectFailure(t)
  \/ CollectUnsettled(t)

Runner == Admit \/ Refuse \/ RoundDone \/ Idle \/ \E t \in Task : Launch(t) \/ Settle(t)

BodyEnds(t) == BodyReturns(t) \/ BodyRaises(t)

Environment ==
  \E t \in Task :
     RequestCancel(t) \/ BodyEnds(t) \/ OrphanEnds(t) \/ BackoffElapses(t)

Next == Runner \/ Stop \/ Environment \/ Returned

(* The runner's thread keeps running, every body ends, and time passes.  No one
   has to cancel or to stop anything. *)
Fairness ==
  /\ WF_vars(Runner)
  /\ \A t \in Task : WF_vars(BodyEnds(t)) /\ WF_vars(BackoffElapses(t))

Spec == Init /\ [][Next]_vars

FairSpec == Spec /\ Fairness

-----------------------------------------------------------------------------
(***************************************************************************)
(* Properties.                                                             *)
(***************************************************************************)

(* The runner has decided to execute t, is executing it, or has its product *)
Started(t) ==
  \/ state[t] \in {"scheduled", "running", "succeeded"}
  \/ t \in round \cup inFlight

(* A task is launched, runs and succeeds only on satisfied dependencies, whatever
   retries, cancellations and cascades happen meanwhile (graph.ready, runner._admit). *)
DependenciesFirst == \A t \in Task : Started(t) => DepsSatisfied(t)

(* The reservations are exactly those of the tasks being launched or in flight: none
   leaks, none is released early (runner._release, "otherwise capacity leaks to 0"). *)
LedgerExact == held = round \cup inFlight

(* What is reserved fits the node's capacity and the concurrency limit (Scheduler.admit). *)
CapacityRespected == Fits(held)

(* Both: nothing leaks out of the ledger, and nothing is lent that is not there *)
LedgerIsRight == LedgerExact /\ CapacityRespected

(* Fail-fast: once a task has failed, no dependent of it stays open (graph._cascade). *)
FailFast ==
  \A t \in Task : state[t] = "failed" => \A d \in Dependents(t) : state[d] \in Terminal

(* upstream_failed is said only of a task one of whose own dependencies failed or was
   cancelled (graph._cascade). *)
BlameIsTrue ==
  \A t \in Task : error[t] = "upstream_failed" =>
     /\ state[t] = "failed"
     /\ \E d \in Deps[t] : state[d] \in {"failed", "cancelled"}

(* Both: what fails takes down all that is behind it, and nothing else is blamed on it *)
CascadeIsRight == FailFast /\ BlameIsTrue

(* No task uses more attempts than its policy grants (RetryPolicy.allows_another_attempt). *)
AttemptsBounded == \A t \in Task : attempt[t] < MaxAttempts[t]

(* The states in which run() asks for a move on its current task: every move it asks
   for is legal or falls on a terminal task, so IllegalTransition never leaves run(). *)
NeverRaises ==
  LET ok(s) == state[current] \in s \cup Terminal
  IN  /\ \A t \in refused : state[t] \in Runnable \cup Terminal
      /\ pc \in {"submit", "schedule"} => ok(Runnable)
      /\ pc = "run" => ok({"scheduled"})
      /\ pc = "collect" => ok({"running"})

(* With a backend whose polls do not raise, no task is ever executed twice at the same
   time: a handle is dropped only when its execution has ended (runner._wait_any). *)
OneExecutionAtATime == ~ Flaky => \A t \in Task : orphans[t] = 0

(* run() drives its graph until every task has ended, and stops on an empty in_flight only
   because nothing is left to run or to back off (runner.py says so): what it leaves ready
   was at least tried once. *)
NothingStarved == pc = "done" => \A t \in Ready : attempt[t] > 0

(* Tasks that have not ended *)
LeftOpen == {t \in Task : state[t] \notin Terminal}

(* t has failed before and had to wait before its next attempt *)
BackedOff(t) == t \in BacksOff /\ attempt[t] > 0

(* The backend's calls do not raise, and no client has cancelled a task *)
Undisturbed == ~ Flaky /\ \A t \in Task : state[t] # "cancelled"

(* "Drives a TaskGraph until all of it is terminal" (TaskRunner): when run() is over, what
   it leaves open is a retried task that had to back off, or is behind something open. *)
RunIsComplete ==
  pc = "done" /\ Undisturbed =>
    \A t \in LeftOpen : BackedOff(t) \/ Deps[t] \cap LeftOpen # {}

(* The same without the exception: "sleep until the nearest backed-off task may go again;
   False means that nobody waits" (runner._wait_for_backoff).  A backoff that runs out
   between admit's and next_wakeup's reading of the clock is waited for by nobody. *)
BackoffIsWaitedFor == pc = "done" /\ Undisturbed => Ready = {}

(* Below a cancelled task nothing stays open once run() is over: a cancelled upstream
   fails its dependents, recursively (GEOTASK.md 5.3). *)
CancelCascades ==
  pc = "done" =>
    \A t \in Task : state[t] = "cancelled" => \A d \in Dependents(t) : state[d] \in Terminal

(* A cancellation that was accepted stays requested until the task has ended: it is the
   state machine that settles it, once the body is back (GEOTASK.md 3.4). *)
PendingCancelKept ==
  [][\A t \in Task : cancelReq[t] /\ state[t] \notin Terminal => cancelReq'[t]]_vars

(* Where each task stands while run() is at pc: what the runner holds in its hands has
   the state its last step gave it, unless a client cancelled it in between, and an
   execution exists only for a task in flight or being launched. *)
Positions ==
  /\ pc # "refuse" => refused = {}
  /\ pc \notin {"refuse", "launch", "submit", "schedule", "run"} => round = {}
  /\ pc \in {"submit", "schedule", "run"} => current \in round
  /\ pc = "collect" => current \in inFlight
  /\ round \cap inFlight = {}
  /\ refused \cap (round \cup inFlight) = {}
  /\ \A t \in refused : state[t] \in Runnable \cup {"cancelled"}
  /\ \A t \in round :
       state[t] \in IF pc = "run" /\ t = current THEN {"scheduled", "cancelled"}
                    ELSE Runnable \cup {"cancelled"}
  /\ \A t \in inFlight : state[t] \in {"running", "cancelled"}
  /\ \A t \in Task : body[t] # "none" =>
       t \in inFlight \/ (pc \in {"schedule", "run"} /\ t = current)
  /\ ~ Flaky /\ pc = "collect" => body[current] # "running"

(* Tasks that are scheduled or running without being in the runner's hands *)
Strays ==
  {t \in Task : state[t] \in {"scheduled", "running"} /\ t \notin round \cup inFlight}

(* What is inductive wherever run() starts from, on a graph that was reconciled too. *)
Core ==
  /\ TypeOK
  /\ Positions
  /\ DependenciesFirst
  /\ LedgerExact
  /\ CapacityRespected
  /\ BlameIsTrue
  /\ AttemptsBounded
  /\ OneExecutionAtATime

(* All safety invariants together are inductive: on a graph that is fresh no failure
   leaves a dependent open, and nothing strays. *)
IInv == Core /\ FailFast /\ Strays = {}

(* What RunIsComplete needs besides, from the admission of a round on: with nothing being
   launched or in flight, whatever is ready is about to be refused or has backed off. *)
Remembered ==
  /\ pc \in {"idle", "done"} => inFlight = {}
  /\ \A t \in deferred : BackedOff(t)
  /\ Undisturbed /\ pc \notin {"admit", "wait", "collect", "stopped"} /\ round \cup inFlight = {} =>
       \A t \in Ready : t \in refused \/ BackedOff(t)

(* run() comes to its end if every body does. *)
RunEnds == <>(pc \in {"done", "stopped"})

(* A terminal state is never left (machine.TERMINAL_STATES, "absorbing"). *)
TerminalAbsorbs == [][\A t \in Task : state[t] \in Terminal => state'[t] = state[t]]_vars

-----------------------------------------------------------------------------
(***************************************************************************)
(* The abstract contract, and what the runner's states mean to it.         *)
(***************************************************************************)
Phase(s) ==
  CASE s \in Runnable -> "waiting"
    [] s \in {"scheduled", "running"} -> "active"
    [] OTHER -> s

Contract == INSTANCE TaskContract WITH
  phase <- [t \in Task |-> Phase(state[t])],
  tries <- attempt

(* The runner, the store, the scheduler and the backend together keep the contract. *)
KeepsContract == Contract!Spec
=============================================================================
