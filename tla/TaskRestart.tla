---------------------------- MODULE TaskRestart ----------------------------
(***************************************************************************)
(* A runner over a JsonTaskStore whose process may die at any moment and   *)
(* is started again: load the file, reconcile, run the graph.              *)
(*                                                                         *)
(* Every transition and every lease is flushed before the store's method   *)
(* returns.  A step of GeoTask stands for several such calls; here the     *)
(* file follows it task by task, in the order the code makes the calls,    *)
(* and the process may die between two of them.                            *)
(***************************************************************************)
EXTENDS GeoTask

CONSTANT MaxCrashes  \* bound on the number of crashes

ASSUME CrashAssumption == MaxCrashes \in Nat

VARIABLES
  disk,     \* disk[t]: what the file says of task t
  up,       \* the process is alive
  crashes   \* crashes so far

restartVars == <<vars, disk, up, crashes>>

Row == [state : State, attempt : Nat, cancelReq : BOOLEAN,
        error : Code \cup {"none"}, leased : BOOLEAN]

RestartTypeOK ==
  /\ TypeOK
  /\ disk \in [Task -> Row]
  /\ up \in BOOLEAN
  /\ crashes \in 0 .. MaxCrashes

-----------------------------------------------------------------------------
(* What _flush writes for t *)
RowOf(t) == [state |-> state[t], attempt |-> attempt[t], cancelReq |-> cancelReq[t],
             error |-> error[t], leased |-> t \in leased]

(* A flag raised on a started task is in memory only until something else is flushed *)
Written(t) == [RowOf(t) EXCEPT !.cancelReq = disk[t].cancelReq] = disk[t]

Synced == \A t \in Task : Written(t)

(* Slip: a cascade writes a dependent before the task that took it down *)
WritableInAnyOrder(t) == ~ Written(t)

(* mark_failed and mark_cancelled write their task first, _cascade each dependent after
   the one it was reached from *)
Writable(t) ==
  /\ ~ Written(t)
  /\ error[t] = "upstream_failed" =>
       \E d \in Deps[t] : disk[d].state \in {"failed", "cancelled"}

(* One transition reaches the file, and with it every flag raised meanwhile *)
Write(t) ==
  /\ up
  /\ Writable(t)
  /\ disk' = [d \in Task |-> IF d = t THEN RowOf(t)
                             ELSE [disk[d] EXCEPT !.cancelReq = cancelReq[d]]]
  /\ UNCHANGED <<vars, up, crashes>>

(* A body reports progress: the event flushes everything *)
ReportProgress(t) ==
  /\ up
  /\ Synced
  /\ body[t] = "running"
  /\ disk' = [d \in Task |-> RowOf(d)]
  /\ UNCHANGED <<vars, up, crashes>>

(* The process runs as in GeoTask; a store call waits until the one before it is written *)
Live ==
  /\ up
  /\ \/ Synced /\ (Runner \/ Stop \/ \E t \in Task : RequestCancel(t))
     \/ \E t \in Task : BodyEnds(t) \/ OrphanEnds(t) \/ BackoffElapses(t)
     \/ Returned
  /\ UNCHANGED <<disk, up, crashes>>

-----------------------------------------------------------------------------
(***************************************************************************)
(* The process dies.  Threads die with it; an execution on a remote        *)
(* backend goes on, and nobody holds its handle any more.  What the        *)
(* memory held is void until the restart.                                  *)
(***************************************************************************)
Crash ==
  /\ up
  /\ crashes < MaxCrashes
  /\ up' = FALSE
  /\ crashes' = crashes + 1
  /\ body' = [t \in Task |-> "none"]
  /\ orphans' = [t \in Task |->
                   IF Flaky /\ body[t] = "running" THEN orphans[t] + 1 ELSE orphans[t]]
  /\ held' = {}
  /\ deferred' = {}
  /\ pc' = "admit"
  /\ refused' = {}
  /\ round' = {}
  /\ current' = NoTask
  /\ inFlight' = {}
  /\ UNCHANGED <<storeVars, disk>>

(* reconcile: one more attempt for a task whose executor is lost *)
Requeued(row) ==
  [row EXCEPT !.attempt = @ + 1,
              !.state = Move(@, "queued"),
              !.error = IF row.state = "running" THEN "none" ELSE @,
              !.cancelReq = IF row.state = "running" THEN FALSE ELSE @]

(* Slip: the reason of the transition is written where the error code belongs *)
LostWithReason(row) == [row EXCEPT !.state = Move(@, "failed"), !.error = "lease_expired"]

(* reconcile: the attempts are used up *)
Lost(row) == [row EXCEPT !.state = Move(@, "failed"), !.error = "executor_lost"]

(* Slip: whatever has no valid lease is taken for lost, ended or not *)
ReconcileEverything(t, valid) ==
  IF t \in valid THEN disk[t]
  ELSE IF AllowsAnotherAttempt(disk[t].attempt, MaxAttempts[t])
       THEN [disk[t] EXCEPT !.attempt = @ + 1, !.state = "queued"]
       ELSE disk[t]

(* Slip: the policy is not asked *)
ReconcileGenerously(t, valid) ==
  IF disk[t].state \notin {"scheduled", "running"} \/ t \in valid THEN disk[t]
  ELSE Requeued(disk[t])

(* reconcile for one task, given whose leases have not run out *)
Reconciled(t, valid) ==
  IF disk[t].state \notin {"scheduled", "running"} \/ t \in valid THEN disk[t]
  ELSE IF AllowsAnotherAttempt(disk[t].attempt, MaxAttempts[t])
       THEN Requeued(disk[t])
       ELSE Lost(disk[t])

(***************************************************************************)
(* The file is loaded and reconciled.  Leases are never renewed and the    *)
(* restart may come at any time, so any lease written into the future may  *)
(* have run out by now.  The guarantees of GeoTask that must survive this  *)
(* are in RestartKeepsGraph.                                               *)
(***************************************************************************)
Restart ==
  /\ ~ up
  /\ up' = TRUE
  /\ \E valid \in SUBSET {t \in Task : disk[t].leased} :
       LET row == [t \in Task |-> Reconciled(t, valid)]
       IN  /\ state' = [t \in Task |-> row[t].state]
           /\ attempt' = [t \in Task |-> row[t].attempt]
           /\ cancelReq' = [t \in Task |-> row[t].cancelReq]
           /\ error' = [t \in Task |-> row[t].error]
           /\ leased' = {t \in Task : row[t].leased}
  /\ UNCHANGED <<runnerVars, backendVars, disk, crashes>>

-----------------------------------------------------------------------------
RestartInit ==
  /\ Init
  /\ disk = [t \in Task |-> RowOf(t)]
  /\ up = TRUE
  /\ crashes = 0

RestartNext ==
  \/ Live
  \/ \E t \in Task : Write(t) \/ ReportProgress(t)
  \/ Crash
  \/ Restart

RestartSpec == RestartInit /\ [][RestartNext]_restartVars

-----------------------------------------------------------------------------
(* Whatever is executing has its lease in the file: a reconcile can always tell it from
   a task nobody executes (runner.run writes the lease before it submits). *)
ExecutionsAreLeased == up => \A t \in Task : body[t] = "running" => disk[t].leased

(* Whatever was in memory and whatever was written when the process died, what comes
   back from the file is a graph in which nothing started before what it depends on,
   whoever failed for another's sake has somebody to blame, and nobody has more attempts
   than the policy gives him; and while the process lives the file knows of every
   execution (store.reconcile, _flush, runner.run). *)
RestartKeepsGraph == DependenciesFirst /\ BlameIsTrue /\ AttemptsBounded /\ ExecutionsAreLeased

(* What the file says has ended stays so, through crashes, lost leases and reconciles:
   no product is made twice and no failure is undone (store.reconcile). *)
EndedStays == \A t \in Task : disk[t].state \in Terminal => disk'[t].state = disk[t].state

(* Both: what a restart finds is whole, and what it does undoes nothing. *)
RestartIsSound == [][RestartKeepsGraph' /\ EndedStays]_restartVars

(* When run() is over after a restart, no task is reported as running that nobody executes
   (GEOTASK.md 6.2, "never report as running what no one executes"). *)
NoGhosts ==
  up /\ pc = "done" => \A t \in Task : state[t] \notin {"scheduled", "running"}

-----------------------------------------------------------------------------
(* The file is a graph by itself, whenever it is read: what restarts from it is sound. *)
FileIsAGraph ==
  \A t \in Task :
    /\ disk[t].attempt < MaxAttempts[t]
    /\ disk[t].state \in {"scheduled", "running", "succeeded"} =>
         \A d \in Deps[t] : disk[d].state \in Satisfied
    /\ disk[t].error = "upstream_failed" =>
         /\ disk[t].state = "failed"
         /\ \E d \in Deps[t] : disk[d].state \in {"failed", "cancelled"}

(* The memory is ahead of the file by one store call at most: no end is only in the
   file, and what somebody runs on is already there. *)
FileFollows ==
  \A t \in Task :
    /\ disk[t].state \in Terminal => state[t] = disk[t].state
    /\ Started(t) => \A d \in Deps[t] : disk[d].state \in Satisfied

(* A lease is written before the execution it is for begins, and kept as long. *)
LeasesCover ==
  /\ pc = "submit" => current \in leased
  /\ \A t \in Task : body[t] = "running" => t \in leased /\ disk[t].leased

(* Nobody runs anything while the process is down. *)
NobodyHome ==
  ~ up => /\ pc = "admit"
          /\ held = {} /\ refused = {} /\ round = {} /\ inFlight = {}

(* Together they are inductive. *)
RInv == RestartTypeOK /\ Core /\ FileIsAGraph /\ FileFollows /\ LeasesCover /\ NobodyHome
=============================================================================
