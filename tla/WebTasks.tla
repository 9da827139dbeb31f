----------------------------- MODULE WebTasks -----------------------------
(***************************************************************************)
(* web/tasks.py: TaskManager.  HTTP threads submit and cancel, a thread    *)
(* pool executes, a callback receives a view of the task after each change *)
(* of state.  There are two locks: the manager's, held by a submission and *)
(* by the sections of an execution before and after its body, and the      *)
(* store's, held for one store call.  A cancellation takes the second one  *)
(* only, and so falls between any two steps of an execution.               *)
(*                                                                         *)
(* <<t, n>> is the job that the n-th submission of id t gave to the pool.  *)
(* A view is its status; progress and messages are left out.               *)
(***************************************************************************)
EXTENDS TaskMachine, FiniteSets

CONSTANTS
  Id,           \* task ids a client chooses
  MaxSubmits,   \* bound: submissions per id
  PoolSize      \* max_workers

ASSUME WebAssumption ==
  /\ IsFiniteSet(Id)
  /\ MaxSubmits \in Nat \ {0}
  /\ PoolSize \in Nat \ {0}

VARIABLES
  web,        \* web[t]: the store's state of t, or "absent"
  webFlag,    \* webFlag[t]: cancel_requested
  entry,      \* entry[t]: _callables, the submission whose callable is kept; 0: none
  submits,    \* submits[t]: submissions so far
  at,         \* at[j]: where job j stands
  manager,    \* the job inside a section of the manager's lock, or "free"
  saw,        \* saw[j]: what should_cancel() answered before j was settled
  clerk,      \* clerk[t]: a cancel() of t: "idle", "accepted", "holding" a view
  seen,       \* seen[t]: the view that cancel() holds
  saved,      \* saved[t]: the view the callback received last
  overtaken,  \* history: a cancel of t was accepted between saw and the settling
  restarted   \* history: t was submitted again while running

webVars == <<web, webFlag, entry, submits, at, manager, saw, clerk, seen,
             saved, overtaken, restarted>>

Job == Id \X (1 .. MaxSubmits)

(* The words of the web API, with "none" before the first view *)
Word == {"none", "queued", "running", "done", "failed", "cancelled"}

(* STATE_TO_WEB *)
ToWeb(s) ==
  CASE s \in {"absent"} -> "none"
    [] s \in Runnable \cup {"scheduled"} -> "queued"
    [] s = "running" -> "running"
    [] s = "succeeded" -> "done"
    [] s = "failed" -> "failed"
    [] s \in {"cancelled", "skipped"} -> "cancelled"

Place == {"none", "pooled", "begin", "moving", "body", "returned", "raised",
             "dropping", "judging", "settling", "ended"}
Busy == Place \ {"none", "pooled", "ended"}

WebTypeOK ==
  /\ web \in [Id -> State \cup {"absent"}]
  /\ webFlag \in [Id -> BOOLEAN]
  /\ entry \in [Id -> 0 .. MaxSubmits]
  /\ submits \in [Id -> 0 .. MaxSubmits]
  /\ at \in [Job -> Place]
  /\ manager \in Job \cup {<<>>}
  /\ saw \in [Job -> BOOLEAN]
  /\ clerk \in [Id -> {"idle", "accepted", "holding"}]
  /\ seen \in [Id -> Word]
  /\ saved \in [Id -> Word]
  /\ overtaken \in [Id -> BOOLEAN]
  /\ restarted \in [Id -> BOOLEAN]

Free == manager = <<>>

WebInit ==
  /\ web = [t \in Id |-> "absent"]
  /\ webFlag = [t \in Id |-> FALSE]
  /\ entry = [t \in Id |-> 0]
  /\ submits = [t \in Id |-> 0]
  /\ at = [j \in Job |-> "none"]
  /\ manager = <<>>
  /\ saw = [j \in Job |-> FALSE]
  /\ clerk = [t \in Id |-> "idle"]
  /\ seen = [t \in Id |-> "none"]
  /\ saved = [t \in Id |-> "none"]
  /\ overtaken = [t \in Id |-> FALSE]
  /\ restarted = [t \in Id |-> FALSE]

(* store.transition and the view that follows it; an illegal move raises
   before anything is written *)
Reach(t, s) ==
  /\ web' = [web EXCEPT ![t] = s]
  /\ saved' = [saved EXCEPT ![t] = ToWeb(s)]

Raise == UNCHANGED <<web, saved>>

Goes(j, p) == at' = [at EXCEPT ![j] = p]

(***************************************************************************)
(* submit: the callable is kept first; put() returns the old task if the   *)
(* id is known; the move to queued is legal for a new task and, as that of *)
(* a retry, for a running one.                                             *)
(***************************************************************************)
Submit(t) ==
  LET n == submits[t] + 1
      s == IF web[t] = "absent" THEN "created" ELSE web[t]
      legal == CanTransition(s, "queued") IN
  /\ Free
  /\ submits[t] < MaxSubmits
  /\ submits' = [submits EXCEPT ![t] = n]
  /\ entry' = [entry EXCEPT ![t] = n]
  /\ IF legal
       THEN /\ Reach(t, "queued")
            /\ Goes(<<t, n>>, "pooled")
            /\ webFlag' = [webFlag EXCEPT ![t] = FALSE]
            /\ restarted' = [restarted EXCEPT ![t] = @ \/ s = "running"]
       ELSE Raise /\ UNCHANGED <<at, webFlag, restarted>>
  /\ UNCHANGED <<manager, saw, clerk, seen, overtaken>>

(* A thread of the pool takes the job *)
TakeUp(j) ==
  /\ at[j] = "pooled"
  /\ Cardinality({k \in Job : at[k] \in Busy}) < PoolSize
  /\ Goes(j, "begin")
  /\ UNCHANGED <<web, webFlag, entry, submits, manager, saw, clerk, seen, saved,
                 overtaken, restarted>>

(* _worker, first section: look the callable up, read the state *)
Look(j) ==
  LET t == j[1]
      settled == web[t] \in {"cancelled", "succeeded", "failed"} IN
  /\ at[j] = "begin"
  /\ Free
  /\ entry' = [entry EXCEPT ![t] = IF settled THEN 0 ELSE @]
  /\ IF settled \/ entry[t] = 0
       THEN Goes(j, "ended") /\ UNCHANGED manager
       ELSE Goes(j, "moving") /\ manager' = j
  /\ UNCHANGED <<web, webFlag, submits, saw, clerk, seen, saved, overtaken, restarted>>

(* Slip: the state that was read before is trusted *)
Trusted(t) == TRUE
MayBegin(t) == web[t] \in {"queued", "scheduled"}

(* The moves to scheduled and running; a cancel may have come since the look,
   and then the first of them raises out of _worker, past its finally *)
Begin(j) ==
  LET t == j[1] IN
  /\ at[j] = "moving"
  /\ manager' = <<>>
  /\ IF MayBegin(t)
       THEN Reach(t, "running") /\ Goes(j, "body")
       ELSE Raise /\ Goes(j, "ended")
  /\ UNCHANGED <<webFlag, entry, submits, saw, clerk, seen, overtaken, restarted>>

BodyEnds(j) ==
  /\ at[j] = "body"
  /\ \E p \in {"returned", "raised"} : Goes(j, p)
  /\ UNCHANGED <<web, webFlag, entry, submits, manager, saw, clerk, seen, saved,
                 overtaken, restarted>>

(* The body raised: the task fails, then finally drops the callable *)
Fail(j) ==
  LET t == j[1] IN
  /\ at[j] = "raised"
  /\ Free
  /\ IF CanTransition(web[t], "failed") THEN Reach(t, "failed") ELSE Raise
  /\ Goes(j, "dropping")
  /\ UNCHANGED <<webFlag, entry, submits, manager, saw, clerk, seen, overtaken, restarted>>

(* finally: of a failed job, and of a returned one before it is settled *)
Drop(j) ==
  /\ at[j] \in {"dropping", "returned"}
  /\ Free
  /\ entry' = [entry EXCEPT ![j[1]] = 0]
  /\ Goes(j, IF at[j] = "returned" THEN "judging" ELSE "ended")
  /\ UNCHANGED <<web, webFlag, submits, manager, saw, clerk, seen, saved, overtaken, restarted>>

(* should_cancel().  Slip: it is not asked *)
NeverAsked(t) == FALSE
ShouldCancel(t) == webFlag[t]

(* _worker, last section: should_cancel() ... *)
Judge(j) ==
  /\ at[j] = "judging"
  /\ Free
  /\ saw' = [saw EXCEPT ![j] = ShouldCancel(j[1])]
  /\ manager' = j
  /\ Goes(j, "settling")
  /\ UNCHANGED <<web, webFlag, entry, submits, clerk, seen, saved, overtaken, restarted>>

(* Slip: a task that was told to stop counts as skipped *)
VerdictSkipped(j) == IF saw[j] THEN "skipped" ELSE "succeeded"
Verdict(j) == IF saw[j] THEN "cancelled" ELSE "succeeded"

(* ... and the move it decides *)
SettleJob(j) ==
  LET t == j[1] IN
  /\ at[j] = "settling"
  /\ IF CanTransition(web[t], Verdict(j)) THEN Reach(t, Verdict(j)) ELSE Raise
  /\ manager' = <<>>
  /\ Goes(j, "ended")
  /\ UNCHANGED <<webFlag, entry, submits, saw, clerk, seen, overtaken, restarted>>

(* cancel(): request_cancel, under the store's lock alone; a task that has
   ended, or an unknown one, is refused and nothing changes *)
AcceptCancel(t) ==
  /\ clerk[t] = "idle"
  /\ web[t] \notin Terminal \cup {"absent"}
  /\ webFlag' = [webFlag EXCEPT ![t] = TRUE]
  /\ web' = [web EXCEPT ![t] = IF @ \in Runnable THEN "cancelled" ELSE @]
  /\ clerk' = [clerk EXCEPT ![t] = "accepted"]
  /\ overtaken' = [overtaken EXCEPT ![t] = @ \/ \E j \in Job : j[1] = t /\ at[j] = "settling"]
  /\ UNCHANGED <<entry, submits, at, manager, saw, seen, saved, restarted>>

(* get_view.  Slip: the view says what was asked for *)
ViewAsked(t) == "cancelled"
ViewOf(t) == ToWeb(web[t])

(* cancel(): _persist_view reads the view, then hands it to the callback *)
TakeView(t) ==
  /\ clerk[t] = "accepted"
  /\ seen' = [seen EXCEPT ![t] = ViewOf(t)]
  /\ clerk' = [clerk EXCEPT ![t] = "holding"]
  /\ UNCHANGED <<web, webFlag, entry, submits, at, manager, saw, saved, overtaken, restarted>>

HandView(t) ==
  /\ clerk[t] = "holding"
  /\ saved' = [saved EXCEPT ![t] = seen[t]]
  /\ seen' = [seen EXCEPT ![t] = "none"]
  /\ clerk' = [clerk EXCEPT ![t] = "idle"]
  /\ UNCHANGED <<web, webFlag, entry, submits, at, manager, saw, overtaken, restarted>>

JobStep(j) ==
  TakeUp(j) \/ Look(j) \/ Begin(j) \/ BodyEnds(j) \/ Fail(j) \/ Drop(j) \/ Judge(j) \/ SettleJob(j)

WebNext ==
  \/ \E t \in Id : Submit(t) \/ AcceptCancel(t) \/ TakeView(t) \/ HandView(t)
  \/ \E j \in Job : JobStep(j)

(* Threads of the pool run, and a body ends; nobody has to submit or cancel *)
WebFairness ==
  /\ \A j \in Job : WF_webVars(JobStep(j))
  /\ \A t \in Id : WF_webVars(TakeView(t) \/ HandView(t))

WebSpec == WebInit /\ [][WebNext]_webVars /\ WebFairness
-----------------------------------------------------------------------------
(* A task that is settled while its job waits, or while its job is between
   reading the state and moving it, never has its body run (_worker) *)
SettledNeverRuns ==
  \A j \in Job : at[j] # "body" /\ at'[j] = "body" => web[j[1]] \notin Terminal

(* A cancel accepted while the body could still be judged is honoured: the task
   does not succeed, unless the cancel came between the judgement and the move
   or the id was submitted again while it ran, which withdraws the request *)
CancelIsHonoured ==
  \A t \in Id : web[t] = "succeeded" /\ webFlag[t] => overtaken[t] \/ restarted[t]

(* The persisted view may lag, it never tells of what has not happened: it says
   running or an outcome only of a task that got there (_persist_view) *)
ViewIsNeverAhead ==
  \A t \in Id :
    ~restarted[t] =>
      /\ saved[t] = "running" => web[t] \notin {"absent", "created", "queued"}
      /\ saved[t] \in {"done", "failed", "cancelled"} => saved[t] = ToWeb(web[t])

(* Both: what has become of a task is what was asked for, and what is told of it *)
OutcomesAreHonest == CancelIsHonoured /\ ViewIsNeverAhead

(* A submission is settled, whoever cancels it and whenever; not so an id that
   was submitted again while it ran *)
SubmissionSettles ==
  \A t \in Id : web[t] = "queued" ~> web[t] \in Terminal \/ restarted[t]

(* In every step: the body of a submission no longer starts once it is settled, and
   what is said of it is honest *)
SubmissionsAreSound == [][SettledNeverRuns /\ OutcomesAreHonest']_webVars

(* GEOTASK.md 5.4: submitting an id again neither creates nor restarts anything,
   so one id is executed by one body at a time.  It fails: a running task goes
   back to queued, and its second job starts beside the first *)
OneBodyPerId ==
  \A j, k \in Job : j[1] = k[1] /\ at[j] = "body" /\ at[k] = "body" => j = k
=============================================================================
