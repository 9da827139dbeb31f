------------------------- MODULE TaskRestartProofs -------------------------
(***************************************************************************)
(* Theorems about TaskRestart for every graph, every retry policy, every   *)
(* notion of capacity, both kinds of backend and any number of crashes.    *)
(* What GeoTaskProofs shows of one run is used here for each life of the   *)
(* process: Core is kept by every step of GeoTask from wherever it starts. *)
(* Then about TaskJournal, for any threads, any retention and any bounds:  *)
(* what a call holds the lock for, and what keeps the file with the memory *)
(* as long as one flush follows another.                                   *)
(***************************************************************************)
EXTENDS MCTaskRestart, GeoTaskProofs, SequenceTheorems

-----------------------------------------------------------------------------
(***************************************************************************)
(* The file and the memory.                                                *)
(***************************************************************************)

(* What is written is as in memory, up to a flag raised since. *)
LEMMA WrittenAgrees ==
  ASSUME NEW t \in Task, Written(t)
  PROVE  /\ disk[t].state = state[t]
         /\ disk[t].attempt = attempt[t]
         /\ disk[t].error = error[t]
         /\ disk[t].leased = (t \in leased)
  BY DEF Written, RowOf

(* A row says what the memory says. *)
LEMMA RowAgrees ==
  ASSUME NEW t \in Task, TypeOK
  PROVE  /\ RowOf(t) \in Row
         /\ RowOf(t).state = state[t]
         /\ RowOf(t).attempt = attempt[t]
         /\ RowOf(t).error = error[t]
         /\ RowOf(t).leased = (t \in leased)
  BY DEF RowOf, Row, TypeOK

(* The file after one transition was written. *)
LEMMA WriteEffect ==
  ASSUME RestartTypeOK, NEW t \in Task, Write(t)
  PROVE  /\ disk' \in [Task -> Row]
         /\ disk'[t] = RowOf(t)
         /\ \A d \in Task \ {t} : /\ disk'[d].state = disk[d].state
                                  /\ disk'[d].attempt = disk[d].attempt
                                  /\ disk'[d].error = disk[d].error
                                  /\ disk'[d].leased = disk[d].leased
<1>1. disk' = [d \in Task |-> IF d = t THEN RowOf(t)
                              ELSE [disk[d] EXCEPT !.cancelReq = cancelReq[d]]]
  BY DEF Write
<1>2. disk \in [Task -> Row] /\ TypeOK
  BY DEF RestartTypeOK
<1>3. \A d \in Task : [disk[d] EXCEPT !.cancelReq = cancelReq[d]] \in Row
  BY <1>2 DEF Row, TypeOK
<1>4. disk' \in [Task -> Row]
  BY <1>1, <1>2, <1>3, RowAgrees
<1>5. ASSUME NEW d \in Task \ {t}
      PROVE  /\ disk'[d].state = disk[d].state
             /\ disk'[d].attempt = disk[d].attempt
             /\ disk'[d].error = disk[d].error
             /\ disk'[d].leased = disk[d].leased
  <2>1. disk'[d] = [disk[d] EXCEPT !.cancelReq = cancelReq[d]]
    BY <1>1
  <2>2. disk[d] \in Row
    BY <1>2
  <2> QED
    BY <2>1, <2>2 DEF Row
<1> QED
  BY <1>1, <1>4, <1>5

-----------------------------------------------------------------------------
(***************************************************************************)
(* The inductive invariant, step by step.                                  *)
(***************************************************************************)

LEMMA RestartInitKeeps == RestartInit => RInv
<1> SUFFICES ASSUME RestartInit PROVE RInv
  OBVIOUS
<1>1. Core /\ Init
  BY InitKeeps DEF RestartInit, IInv
<1>2. TypeOK /\ AttemptsBounded /\ BlameIsTrue /\ DependenciesFirst
  BY <1>1 DEF Core
<1>3. disk = [t \in Task |-> RowOf(t)] /\ up = TRUE /\ crashes = 0
  BY DEF RestartInit
<1>4. \A t \in Task : /\ disk[t] \in Row
                      /\ disk[t].state = state[t]
                      /\ disk[t].attempt = attempt[t]
                      /\ disk[t].error = error[t]
  BY <1>2, <1>3, RowAgrees
<1>5. RestartTypeOK
  BY <1>2, <1>3, <1>4, CrashAssumption DEF RestartTypeOK
<1>6. FileIsAGraph
  BY <1>2, <1>4, GraphAssumption
     DEF FileIsAGraph, AttemptsBounded, BlameIsTrue, DependenciesFirst, DepsSatisfied, Started
<1>7. FileFollows
  BY <1>2, <1>4, GraphAssumption DEF FileFollows, DependenciesFirst, DepsSatisfied
<1>8. LeasesCover
  BY <1>1 DEF Init, LeasesCover
<1> QED
  BY <1>1, <1>3, <1>5, <1>6, <1>7, <1>8 DEF RInv, NobodyHome

(* One transition reaches the file. *)
LEMMA WriteKeeps ==
  ASSUME RInv, NEW t \in Task, Write(t)
  PROVE  RInv' /\ EndedStays
<1>1. /\ RestartTypeOK /\ Core /\ FileIsAGraph /\ FileFollows /\ LeasesCover /\ NobodyHome
      /\ TypeOK /\ AttemptsBounded /\ BlameIsTrue
  BY DEF RInv, Core
<1>2. /\ UNCHANGED <<state, attempt, cancelReq, error, leased, held, deferred, pc, refused,
                     round, current, inFlight, body, orphans>>
      /\ UNCHANGED <<up, crashes>>
  BY DEF Write, vars, storeVars, runnerVars, backendVars
<1>3. /\ disk' \in [Task -> Row]
      /\ disk'[t].state = state[t]
      /\ disk'[t].attempt = attempt[t]
      /\ disk'[t].error = error[t]
      /\ disk'[t].leased = (t \in leased)
      /\ \A d \in Task \ {t} : /\ disk'[d].state = disk[d].state
                               /\ disk'[d].attempt = disk[d].attempt
                               /\ disk'[d].error = disk[d].error
                               /\ disk'[d].leased = disk[d].leased
  BY <1>1, WriteEffect, RowAgrees
<1>4. EndedStays
  BY <1>1, <1>3 DEF EndedStays, FileFollows
<1>5. RestartTypeOK' /\ Core' /\ NobodyHome'
  <2>1. TypeOK' /\ RestartTypeOK'
    BY <1>1, <1>2, <1>3 DEF TypeOK, RestartTypeOK
  <2>2. UNCHANGED vars
    BY <1>2 DEF vars, storeVars, runnerVars, backendVars
  <2>3. Core'
    BY <1>1, <2>2, NextKeeps
  <2> QED
    BY <1>1, <1>2, <2>1, <2>3 DEF NobodyHome
<1>6. FileFollows'
  <2>1. \A d \in Task : disk'[d].state \in Terminal => state[d] = disk'[d].state
    BY <1>1, <1>3 DEF FileFollows
  <2>2. ASSUME NEW x \in Task, Started(x), NEW d \in Deps[x]
        PROVE  disk'[d].state \in Satisfied
    <3>1. d \in Task /\ disk[d].state \in Satisfied
      BY <1>1, <2>2, GraphAssumption DEF FileFollows
    <3> QED
      BY <3>1, <1>4 DEF EndedStays, Satisfied, Terminal
  <2>3. \A x \in Task : Started(x)' = Started(x)
    BY <1>2 DEF Started
  <2> QED
    BY <1>2, <2>1, <2>2, <2>3 DEF FileFollows
<1>7. FileIsAGraph'
  <2> SUFFICES ASSUME NEW x \in Task
               PROVE  /\ disk'[x].attempt < MaxAttempts[x]
                      /\ disk'[x].state \in {"scheduled", "running", "succeeded"} =>
                           \A d \in Deps[x] : disk'[d].state \in Satisfied
                      /\ disk'[x].error = "upstream_failed" =>
                           /\ disk'[x].state = "failed"
                           /\ \E d \in Deps[x] : disk'[d].state \in {"failed", "cancelled"}
    BY DEF FileIsAGraph
  <2>1. disk'[x].attempt < MaxAttempts[x]
    BY <1>1, <1>3 DEF AttemptsBounded, FileIsAGraph
  <2>2. ASSUME disk'[x].state \in {"scheduled", "running", "succeeded"}, NEW d \in Deps[x]
        PROVE  disk'[d].state \in Satisfied
    <3>1. d \in Task
      BY GraphAssumption
    <3>2. disk[d].state \in Satisfied
      BY <1>1, <1>3, <2>2 DEF FileIsAGraph, FileFollows, Started
    <3> QED
      BY <3>1, <3>2, <1>4 DEF EndedStays, Satisfied, Terminal
  <2>3. ASSUME disk'[x].error = "upstream_failed"
        PROVE  /\ disk'[x].state = "failed"
               /\ \E d \in Deps[x] : disk'[d].state \in {"failed", "cancelled"}
    <3>1. /\ disk'[x].state = "failed"
          /\ \E d \in Deps[x] : disk[d].state \in {"failed", "cancelled"}
      <4>1. CASE x = t
        BY <1>1, <1>3, <2>3, <4>1 DEF BlameIsTrue, Write, Writable
      <4>2. CASE x # t
        BY <1>1, <1>3, <2>3, <4>2 DEF FileIsAGraph
      <4> QED
        BY <4>1, <4>2
    <3>2. PICK d \in Deps[x] : disk[d].state \in {"failed", "cancelled"}
      BY <3>1
    <3>3. d \in Task /\ disk'[d].state = disk[d].state
      BY <3>2, <1>4, GraphAssumption DEF EndedStays, Terminal
    <3> QED
      BY <3>1, <3>2, <3>3
  <2> QED
    BY <2>1, <2>2, <2>3
<1>8. LeasesCover'
  <2>1. \A d \in Task : body[d] = "running" => d \in leased /\ disk'[d].leased
    BY <1>1, <1>3 DEF LeasesCover
  <2> QED
    BY <1>1, <1>2, <2>1 DEF LeasesCover
<1> QED
  BY <1>4, <1>5, <1>6, <1>7, <1>8 DEF RInv

(* A progress report flushes everything, and everything was written but for flags. *)
LEMMA ReportKeeps ==
  ASSUME RInv, NEW t \in Task, ReportProgress(t)
  PROVE  RInv' /\ EndedStays
<1>1. /\ RestartTypeOK /\ Core /\ FileIsAGraph /\ FileFollows /\ LeasesCover /\ NobodyHome
      /\ TypeOK
  BY DEF RInv, Core
<1>2. /\ UNCHANGED <<state, attempt, cancelReq, error, leased, held, deferred, pc, refused,
                     round, current, inFlight, body, orphans>>
      /\ UNCHANGED <<up, crashes>>
  BY DEF ReportProgress, vars, storeVars, runnerVars, backendVars
<1>3. disk' = [d \in Task |-> RowOf(d)] /\ \A d \in Task : Written(d)
  BY DEF ReportProgress, Synced
<1>4. \A d \in Task : /\ disk'[d] \in Row
                      /\ disk'[d].state = disk[d].state
                      /\ disk'[d].attempt = disk[d].attempt
                      /\ disk'[d].error = disk[d].error
                      /\ disk'[d].leased = disk[d].leased
  BY <1>1, <1>3, RowAgrees, WrittenAgrees
<1>5. RestartTypeOK'
  BY <1>1, <1>2, <1>3, <1>4 DEF TypeOK, RestartTypeOK
<1>6. Core' /\ NobodyHome'
  <2>1. UNCHANGED vars
    BY <1>2 DEF vars, storeVars, runnerVars, backendVars
  <2> QED
    BY <1>1, <1>2, <2>1, NextKeeps DEF NobodyHome
<1>7. FileIsAGraph'
  BY <1>1, <1>4, GraphAssumption DEF FileIsAGraph
<1>8. FileFollows'
  BY <1>1, <1>2, <1>4, GraphAssumption DEF FileFollows, Started
<1>9. LeasesCover'
  BY <1>1, <1>2, <1>4 DEF LeasesCover
<1> QED
  BY <1>4, <1>5, <1>6, <1>7, <1>8, <1>9 DEF RInv, EndedStays

(* What a failure applied to t does to the leases. *)
LEMMA FailureLeases ==
  ASSUME NEW t \in Task, NEW code, ApplyFailure(t, code) \/ GiveUp(t, code)
  PROVE  leased' \in {leased, leased \ {t}}
  BY DEF ApplyFailure, Retry, GiveUp

(* A step of the runner keeps the leases of what executes, and starts only what has one. *)
LEMMA RunnerLeases ==
  ASSUME Core, LeasesCover, Runner \/ Stop \/ \E t \in Task : RequestCancel(t)
  PROVE  /\ pc' = "submit" => current' \in leased'
         /\ \A d \in Task : body'[d] = "running" => d \in leased /\ d \in leased'
<1>1. TypeOK /\ Positions
  BY DEF Core
<1>2. CASE Admit \/ Refuse \/ RoundDone \/ Idle \/ Stop \/ \E t \in Task : RequestCancel(t)
  <2>1. UNCHANGED <<leased, body, current>>
    BY <1>2 DEF Admit, Refuse, RoundDone, Idle, Stop, RequestCancel, storeVars, backendVars,
                runnerVars
  <2>2. pc' = "submit" => pc = "submit"
    BY <1>2 DEF Admit, Refuse, RoundDone, Idle, Stop, RequestCancel, runnerVars
  <2> QED
    BY <2>1, <2>2 DEF LeasesCover
<1>3. ASSUME NEW t \in Task, Launch(t)
      PROVE  /\ pc' = "submit" => current' \in leased'
             /\ \A d \in Task : body'[d] = "running" => d \in leased /\ d \in leased'
  <2>1. CASE LaunchCancelled(t)
    BY <2>1 DEF LaunchCancelled, backendVars, LeasesCover
  <2>2. CASE Claim(t)
    BY <2>2 DEF Claim, backendVars, LeasesCover
  <2>3. CASE Submit(t)
    <3>1. pc = "submit" /\ t = current /\ leased' = leased /\ pc' = "schedule"
      BY <2>3 DEF Submit, storeVars
    <3>2. \A d \in Task \ {t} : body'[d] = body[d]
      BY <2>3, <1>1 DEF Submit, TypeOK
    <3> QED
      BY <3>1, <3>2 DEF LeasesCover
  <2>4. CASE SubmitRaises(t)
    <3>1. /\ pc = "submit" /\ t = current /\ pc' = "launch" /\ body' = body
          /\ ApplyFailure(t, "execution_error")
      BY <2>4 DEF SubmitRaises, backendVars
    <3>2. body[t] = "none"
      BY <3>1, <1>1 DEF Positions
    <3>3. leased' \in {leased, leased \ {t}}
      BY <3>1, FailureLeases
    <3> QED
      BY <3>1, <3>2, <3>3 DEF LeasesCover
  <2>5. CASE MarkScheduled(t) \/ MarkRunning(t)
    BY <2>5 DEF MarkScheduled, MarkRunning, backendVars, LeasesCover
  <2> QED
    BY <1>3, <2>1, <2>2, <2>3, <2>4, <2>5 DEF Launch
<1>4. ASSUME NEW t \in Task, Settle(t)
      PROVE  /\ pc' = "submit" => current' \in leased'
             /\ \A d \in Task : body'[d] = "running" => d \in leased /\ d \in leased'
  <2>1. CASE WaitAny(t)
    BY <2>1 DEF WaitAny, storeVars, backendVars, LeasesCover
  <2>2. CASE Collect(t) /\ leased' \in {leased, leased \ {t}}
    <3>1. pc' = "admit" /\ body' = [body EXCEPT ![t] = "none"]
      BY <2>2 DEF Collect
    <3> QED
      BY <2>2, <3>1, <1>1 DEF LeasesCover, TypeOK
  <2>3. CollectSuccess(t) \/ CollectCancelled(t) => Collect(t) /\ leased' = leased
    BY DEF CollectSuccess, CollectCancelled
  <2>4. CollectFailure(t) \/ CollectUnsettled(t) =>
          Collect(t) /\ leased' \in {leased, leased \ {t}}
    BY FailureLeases DEF CollectFailure, CollectUnsettled
  <2> QED
    BY <1>4, <2>1, <2>2, <2>3, <2>4 DEF Settle
<1> QED
  BY <1>2, <1>3, <1>4 DEF Runner

(* The process lives on: a store call when the one before it is written, or a step of
   another thread. *)
LEMMA LiveKeeps ==
  ASSUME RInv, Live
  PROVE  RInv' /\ EndedStays
<1>1. /\ RestartTypeOK /\ Core /\ FileIsAGraph /\ FileFollows /\ LeasesCover
      /\ disk \in [Task -> Row]
  BY DEF RInv, RestartTypeOK
<1>2. up /\ UNCHANGED <<disk, up, crashes>>
  BY DEF Live
<1>3. [Next]_vars
  BY DEF Live, Next, Environment
<1>4. GoodStep /\ Core'
  BY <1>1, <1>3, NextKeeps
<1>5. RestartTypeOK'
  BY <1>1, <1>2, <1>4 DEF Core, RestartTypeOK
<1>6. FileIsAGraph' /\ NobodyHome' /\ EndedStays
  BY <1>1, <1>2 DEF FileIsAGraph, NobodyHome, EndedStays
<1>7. \A t \in Task : disk'[t].state \in Terminal => state'[t] = disk'[t].state
  BY <1>1, <1>2, <1>4 DEF FileFollows, GoodStep, StoreStep
<1>8. CASE Synced /\ (Runner \/ Stop \/ \E t \in Task : RequestCancel(t))
  <2>1. \A t \in Task : disk[t].state = state[t] /\ disk[t].leased = (t \in leased)
    BY <1>8, WrittenAgrees DEF Synced
  <2>2. FileFollows'
    <3> SUFFICES ASSUME NEW t \in Task, Started(t)', NEW d \in Deps[t]
                 PROVE  disk'[d].state \in Satisfied
      BY <1>7 DEF FileFollows
    <3>1. state[d] \in Satisfied
      BY <1>4 DEF GoodStep, StartsSupplied, DepsSatisfied
    <3>2. d \in Task
      BY GraphAssumption
    <3> QED
      BY <1>2, <2>1, <3>1, <3>2
  <2>3. /\ pc' = "submit" => current' \in leased'
        /\ \A t \in Task : body'[t] = "running" => t \in leased /\ t \in leased'
    BY <1>1, <1>8, RunnerLeases
  <2>4. LeasesCover'
    BY <1>2, <2>1, <2>3 DEF LeasesCover
  <2> QED
    BY <1>4, <1>5, <1>6, <2>2, <2>4 DEF RInv
<1>9. CASE (\E t \in Task : BodyEnds(t) \/ OrphanEnds(t) \/ BackoffElapses(t)) \/ Returned
  <2>1. UNCHANGED <<state, leased, pc, round, current, inFlight>>
    BY <1>9 DEF BodyEnds, BodyReturns, BodyRaises, OrphanEnds, BackoffElapses, Returned, vars,
                storeVars, runnerVars
  <2>2. \A t \in Task : body'[t] = "running" => body[t] = "running"
    BY <1>1, <1>9 DEF BodyEnds, BodyReturns, BodyRaises, OrphanEnds, BackoffElapses, Returned,
                      vars, backendVars, Core, TypeOK
  <2>3. FileFollows'
    BY <1>1, <1>2, <2>1 DEF FileFollows, Started
  <2>4. LeasesCover'
    BY <1>1, <1>2, <2>1, <2>2 DEF LeasesCover
  <2> QED
    BY <1>4, <1>5, <1>6, <2>3, <2>4 DEF RInv
<1> QED
  BY <1>8, <1>9 DEF Live

(* A crash empties the runner's hands and leaves memory and file as they were. *)
LEMMA CrashKeeps ==
  ASSUME RInv, Crash
  PROVE  RInv' /\ EndedStays
<1>1. /\ RestartTypeOK /\ Core /\ FileIsAGraph /\ FileFollows
      /\ TypeOK /\ DependenciesFirst /\ BlameIsTrue /\ AttemptsBounded /\ OneExecutionAtATime
  BY DEF RInv, Core
<1>2. /\ UNCHANGED <<state, attempt, cancelReq, error, leased, disk>>
      /\ up' = FALSE /\ crashes' = crashes + 1 /\ crashes < MaxCrashes
      /\ body' = [t \in Task |-> "none"]
      /\ orphans' = [t \in Task |->
                       IF Flaky /\ body[t] = "running" THEN orphans[t] + 1 ELSE orphans[t]]
      /\ held' = {} /\ deferred' = {} /\ pc' = "admit" /\ refused' = {} /\ round' = {}
      /\ current' = NoTask /\ inFlight' = {}
  BY DEF Crash, storeVars
<1>3. TypeOK' /\ RestartTypeOK'
  <2>1. TypeOK'
    BY <1>1, <1>2 DEF TypeOK, Pc, Body
  <2>2. crashes' \in 0 .. MaxCrashes
    BY <1>1, <1>2, CrashAssumption DEF RestartTypeOK
  <2>3. disk' \in [Task -> Row] /\ up' \in BOOLEAN
    BY <1>1, <1>2 DEF RestartTypeOK
  <2> QED
    BY <2>1, <2>2, <2>3 DEF RestartTypeOK
<1>4. Positions'
  BY <1>2 DEF Positions
<1>5. DependenciesFirst' /\ BlameIsTrue' /\ AttemptsBounded'
  BY <1>1, <1>2 DEF DependenciesFirst, Started, DepsSatisfied, BlameIsTrue, AttemptsBounded
<1>6. LedgerExact' /\ CapacityRespected'
  BY <1>2, FitsAssumption DEF LedgerExact, CapacityRespected
<1>7. OneExecutionAtATime'
  BY <1>1, <1>2 DEF OneExecutionAtATime
<1>8. FileIsAGraph' /\ FileFollows'
  BY <1>1, <1>2 DEF FileIsAGraph, FileFollows, Started
<1>9. LeasesCover' /\ NobodyHome'
  BY <1>2 DEF LeasesCover, NobodyHome
<1> QED
  BY <1>2, <1>3, <1>4, <1>5, <1>6, <1>7, <1>8, <1>9 DEF RInv, Core, EndedStays

(* What reconcile makes of one task: ended and waiting tasks stay, of the others some are
   put back and some are failed, for no fault upstream. *)
LEMMA ReconcileEffect ==
  ASSUME RestartTypeOK, FileIsAGraph, NEW t \in Task, NEW valid
  PROVE  /\ Reconciled(t, valid) \in Row
         /\ Reconciled(t, valid).attempt < MaxAttempts[t]
         /\ \/ Reconciled(t, valid) = disk[t]
            \/ /\ disk[t].state \in {"scheduled", "running"}
               /\ Reconciled(t, valid).state \in {"queued", "failed"}
               /\ Reconciled(t, valid).error # "upstream_failed"
<1> DEFINE row == disk[t]
<1>1. /\ row \in Row
      /\ row.attempt < MaxAttempts[t]
      /\ row.state \in {"scheduled", "running"} => row.error # "upstream_failed"
  BY DEF RestartTypeOK, FileIsAGraph
<1>2. CASE row.state \notin {"scheduled", "running"} \/ t \in valid
  BY <1>1, <1>2 DEF Reconciled
<1>3. CASE /\ row.state \in {"scheduled", "running"} /\ t \notin valid
           /\ AllowsAnotherAttempt(row.attempt, MaxAttempts[t])
  <2>1. Reconciled(t, valid) = Requeued(row)
    BY <1>3 DEF Reconciled
  <2>2. Move(row.state, "queued") = "queued"
    BY <1>3 DEF Move, CanTransition, Transitions
  <2>3. Requeued(row) = [row EXCEPT
            !.attempt = @ + 1,
            !.state = "queued",
            !.error = IF row.state = "running" THEN "none" ELSE @,
            !.cancelReq = IF row.state = "running" THEN FALSE ELSE @]
    BY <2>2 DEF Requeued
  <2> HIDE DEF row
  <2>4. /\ Requeued(row).state = "queued"
        /\ Requeued(row).attempt = row.attempt + 1
        /\ Requeued(row).error \in {row.error, "none"}
    BY <1>1, <2>3 DEF Row
  <2>5. Requeued(row) \in Row
    <3>1. row.attempt + 1 \in Nat /\ "queued" \in State
      BY <1>1 DEF Row, State
    <3>2. (IF row.state = "running" THEN "none" ELSE row.error) \in Code \cup {"none"}
      BY <1>1 DEF Row
    <3>3. row.cancelReq \in BOOLEAN
      BY <1>1 DEF Row
    <3>4. (IF row.state = "running" THEN FALSE ELSE row.cancelReq) \in BOOLEAN
      BY <3>3
    <3> QED
      BY <1>1, <2>3, <3>1, <3>2, <3>4 DEF Row
  <2> QED
    BY <1>1, <1>3, <2>1, <2>4, <2>5 DEF AllowsAnotherAttempt, row
<1>4. CASE /\ row.state \in {"scheduled", "running"} /\ t \notin valid
           /\ ~ AllowsAnotherAttempt(row.attempt, MaxAttempts[t])
  <2>1. Reconciled(t, valid) = Lost(row)
    BY <1>4 DEF Reconciled
  <2>2. Move(row.state, "failed") = "failed"
    BY <1>4 DEF Move, CanTransition, Transitions
  <2>3. /\ Lost(row) \in Row
        /\ Lost(row).state = "failed"
        /\ Lost(row).attempt = row.attempt
        /\ Lost(row).error = "executor_lost"
    BY <1>1, <2>2 DEF Lost, Row, State, Code
  <2> QED
    BY <1>1, <1>4, <2>1, <2>3
<1> QED
  BY <1>2, <1>3, <1>4

(* The file is loaded and reconciled. *)
LEMMA RestartKeeps ==
  ASSUME RInv, Restart
  PROVE  RInv' /\ EndedStays
<1>1. /\ RestartTypeOK /\ Core /\ FileIsAGraph /\ NobodyHome
      /\ TypeOK /\ Positions /\ LedgerExact /\ CapacityRespected /\ OneExecutionAtATime
  BY DEF RInv, Core
<1>2. /\ up = FALSE /\ up' = TRUE
      /\ UNCHANGED <<held, deferred, pc, refused, round, current, inFlight, body, orphans,
                     disk, crashes>>
  BY <1>1 DEF Restart, runnerVars, backendVars, RestartTypeOK
<1>3. PICK valid : LET row == [t \in Task |-> Reconciled(t, valid)]
                   IN  /\ state' = [t \in Task |-> row[t].state]
                       /\ attempt' = [t \in Task |-> row[t].attempt]
                       /\ cancelReq' = [t \in Task |-> row[t].cancelReq]
                       /\ error' = [t \in Task |-> row[t].error]
                       /\ leased' = {t \in Task : row[t].leased}
  BY DEF Restart
<1>4. \A t \in Task : Reconciled(t, valid) \in Row
  BY <1>1, ReconcileEffect
<1>5. TypeOK'
  <2>1. /\ state' \in [Task -> State] /\ attempt' \in [Task -> Nat]
        /\ cancelReq' \in [Task -> BOOLEAN] /\ error' \in [Task -> Code \cup {"none"}]
        /\ leased' \in SUBSET Task
    BY <1>3, <1>4 DEF Row
  <2> QED
    BY <1>1, <1>2, <2>1 DEF TypeOK
<1>6. ASSUME NEW t \in Task
      PROVE  /\ attempt'[t] < MaxAttempts[t]
             /\ \/ state'[t] = disk[t].state /\ error'[t] = disk[t].error
                \/ /\ disk[t].state \in {"scheduled", "running"}
                   /\ state'[t] \in {"queued", "failed"}
                   /\ error'[t] # "upstream_failed"
  <2>1. /\ state'[t] = Reconciled(t, valid).state
        /\ attempt'[t] = Reconciled(t, valid).attempt
        /\ error'[t] = Reconciled(t, valid).error
    BY <1>3
  <2> QED
    BY <1>1, <2>1, ReconcileEffect
<1>7. \A t \in Task : disk[t].state \in Terminal => state'[t] = disk[t].state
  BY <1>6 DEF Terminal
<1>8. pc = "admit" /\ held = {} /\ refused = {} /\ round = {} /\ inFlight = {}
  BY <1>1, <1>2 DEF NobodyHome
<1>9. \A t \in Task : body[t] = "none"
  BY <1>1, <1>8 DEF Positions
<1>10. Positions'
  BY <1>2, <1>8, <1>9 DEF Positions
<1>11. ASSUME NEW t \in Task, Started(t)', NEW d \in Deps[t]
       PROVE  d \in Task /\ disk[d].state \in Satisfied /\ state'[d] \in Satisfied
  <2>1. disk[t].state \in {"scheduled", "running", "succeeded"}
    BY <1>2, <1>6, <1>8, <1>11 DEF Started
  <2>2. d \in Task /\ disk[d].state \in Satisfied
    BY <1>1, <2>1, GraphAssumption DEF FileIsAGraph
  <2> QED
    BY <1>7, <2>2 DEF Satisfied, Terminal
<1>12. DependenciesFirst'
  BY <1>11 DEF DependenciesFirst, DepsSatisfied
<1>13. BlameIsTrue'
  <2> SUFFICES ASSUME NEW t \in Task, error'[t] = "upstream_failed"
               PROVE  /\ state'[t] = "failed"
                      /\ \E d \in Deps[t] : state'[d] \in {"failed", "cancelled"}
    BY DEF BlameIsTrue
  <2>1. state'[t] = disk[t].state /\ disk[t].error = "upstream_failed"
    BY <1>6
  <2>2. PICK d \in Deps[t] : disk[d].state \in {"failed", "cancelled"}
    BY <1>1, <2>1 DEF FileIsAGraph
  <2>3. state'[d] = disk[d].state
    BY <1>7, <2>2, GraphAssumption DEF Terminal
  <2> QED
    BY <1>1, <2>1, <2>2, <2>3 DEF FileIsAGraph
<1>14. AttemptsBounded' /\ LedgerExact' /\ CapacityRespected' /\ OneExecutionAtATime'
  BY <1>1, <1>2, <1>6
     DEF AttemptsBounded, LedgerExact, CapacityRespected, OneExecutionAtATime
<1>15. Core'
  BY <1>5, <1>10, <1>12, <1>13, <1>14 DEF Core
<1>16. RestartTypeOK'
  BY <1>1, <1>2, <1>5 DEF RestartTypeOK
<1>17. FileIsAGraph' /\ EndedStays
  BY <1>1, <1>2 DEF FileIsAGraph, EndedStays
<1>18. FileFollows'
  BY <1>2, <1>7, <1>11 DEF FileFollows
<1>19. LeasesCover' /\ NobodyHome'
  BY <1>2, <1>8, <1>9 DEF LeasesCover, NobodyHome
<1> QED
  BY <1>15, <1>16, <1>17, <1>18, <1>19 DEF RInv

(* Every step keeps the invariant and the ends that are in the file. *)
LEMMA RestartNextKeeps ==
  ASSUME RInv, [RestartNext]_restartVars
  PROVE  RInv' /\ EndedStays
<1>1. CASE UNCHANGED restartVars
  <2>1. UNCHANGED <<vars, disk, up, crashes>>
    BY <1>1 DEF restartVars
  <2>2. UNCHANGED <<state, attempt, cancelReq, error, leased, held, deferred, pc, refused,
                    round, current, inFlight, body, orphans>>
    BY <2>1 DEF vars, storeVars, runnerVars, backendVars
  <2>3. Core' /\ TypeOK'
    BY <2>1, NextKeeps DEF RInv, Core
  <2>4. RestartTypeOK' /\ FileIsAGraph' /\ FileFollows' /\ LeasesCover' /\ NobodyHome'
    BY <2>1, <2>2, <2>3
       DEF RInv, RestartTypeOK, FileIsAGraph, FileFollows, Started, LeasesCover, NobodyHome
  <2> QED
    BY <2>1, <2>3, <2>4 DEF RInv, EndedStays
<1> QED
  BY <1>1, LiveKeeps, WriteKeeps, ReportKeeps, CrashKeeps, RestartKeeps DEF RestartNext

-----------------------------------------------------------------------------
(***************************************************************************)
(* The theorems.                                                           *)
(***************************************************************************)

(* File and memory keep together through crashes and reconciles (store.py, _flush,
   _load, reconcile). *)
THEOREM RestartInvariant == RestartSpec => []RInv
<1>1. RInv /\ [RestartNext]_restartVars => RInv'
  BY RestartNextKeeps
<1> QED
  BY RestartInitKeeps, <1>1, PTL DEF RestartSpec

(* The values of the file and of the memory (store.py, JsonTaskStore). *)
THEOREM RestartTypeCorrect == RestartSpec => []RestartTypeOK
<1>1. RInv => RestartTypeOK
  BY DEF RInv
<1> QED
  BY RestartInvariant, <1>1, PTL

(* What comes back from the file is a sound graph however often and wherever the process
   dies, every execution has its lease there, and no end in it is undone (store.reconcile,
   _flush, runner.run). *)
THEOREM RestartsAreSound == RestartSpec => RestartIsSound
<1>1. RInv /\ RInv' /\ [RestartNext]_restartVars => [RestartKeepsGraph' /\ EndedStays]_restartVars
  <2> SUFFICES ASSUME RInv, RInv', [RestartNext]_restartVars
               PROVE  RestartKeepsGraph' /\ EndedStays
    OBVIOUS
  <2>1. RestartKeepsGraph'
    BY DEF RInv, Core, LeasesCover, RestartKeepsGraph, ExecutionsAreLeased
  <2> QED
    BY <2>1, RestartNextKeeps
<1> QED
  BY RestartInvariant, <1>1, PTL DEF RestartSpec, RestartIsSound
-----------------------------------------------------------------------------
(***************************************************************************)
(* The journal and its flushes.                                            *)
(***************************************************************************)

(* What is left of a call: words to append, a flush, the release of the lock *)
Words == {"task.failed", "task.cancelled"}
Errands ==
  {<<>>, <<"flush">>, <<"unlock">>, <<"unlock", "flush">>, <<"flush", "unlock">>}
  \cup {<<w, "unlock", "flush">> : w \in Words} \cup {<<w, "flush", "unlock">> : w \in Words}
HoldsLock(e) == e \in Errands \ {<<>>, <<"flush">>}

LEMMA ErrandFacts ==
  ASSUME NEW e \in Errands, e # <<>>
  PROVE  /\ Tail(e) \in Errands
         /\ Head(e) \in Words \cup {"unlock", "flush"}
         /\ Head(e) \in Words => HoldsLock(Tail(e)) /\ HoldsLock(e)
         /\ Head(e) = "unlock" => ~ HoldsLock(Tail(e)) /\ HoldsLock(e)
         /\ Head(e) = "flush" => (HoldsLock(Tail(e)) => HoldsLock(e))
<1>1. CASE e = <<"flush">>
  <2>1. Tail(e) = <<>> /\ Head(e) = "flush"
    BY <1>1
  <2> QED
    BY <2>1 DEF Errands, HoldsLock, Words
<1>8. CASE e = <<"unlock">>
  <2>1. Tail(e) = <<>> /\ Head(e) = "unlock" /\ e # <<"flush">>
    BY <1>8
  <2> QED
    BY <2>1 DEF Errands, HoldsLock, Words
<1>2. CASE e = <<"unlock", "flush">>
  BY <1>2 DEF Errands, HoldsLock, Words
<1>3. CASE e = <<"flush", "unlock">>
  BY <1>3 DEF Errands, HoldsLock, Words
<1>4. ASSUME NEW w \in Words, e = <<w, "unlock", "flush">>
      PROVE  Tail(e) = <<"unlock", "flush">> /\ Head(e) = w
  BY <1>4
<1>5. ASSUME NEW w \in Words, e = <<w, "flush", "unlock">>
      PROVE  Tail(e) = <<"flush", "unlock">> /\ Head(e) = w
  BY <1>5
<1>6. CASE \E w \in Words : e = <<w, "unlock", "flush">>
  BY <1>4, <1>6 DEF Errands, HoldsLock, Words
<1>7. CASE \E w \in Words : e = <<w, "flush", "unlock">>
  BY <1>5, <1>7 DEF Errands, HoldsLock, Words
<1> QED
  BY <1>1, <1>2, <1>3, <1>6, <1>7, <1>8 DEF Errands

LEMMA ThreeWords ==
  ASSUME NEW x, NEW y, NEW z
  PROVE  <<x>> \o <<y, z>> = <<x, y, z>>
<1> DEFINE s == <<x>> \o <<y, z>>
           S == {x, y, z}
<1>1. s \in Seq(S) /\ Len(s) = 3 /\ s[1] = x /\ s[2] = y /\ s[3] = z
  OBVIOUS
<1>2. <<x, y, z>> \in Seq(S) /\ Len(<<x, y, z>>) = 3
  OBVIOUS
<1>3. \A i \in 1 .. Len(s) : s[i] = <<x, y, z>>[i]
  BY <1>1
<1> QED
  BY <1>1, <1>2, <1>3, SeqEqual

LEMMA ErrandsOfMoves ==
  ASSUME NEW to \in State, NEW rest \in {<<"flush", "unlock">>, <<"unlock", "flush">>}
  PROVE  HoldsLock(Explanation(to) \o rest)
<1>1. <<>> \o rest = rest
  OBVIOUS
<1>2. \A w \in Words : <<w>> \o rest \in Errands /\ <<w>> \o rest # <<>> /\ <<w>> \o rest # <<"flush">>
  <2>1. \A w \in Words, x, y \in {"flush", "unlock"} :
           <<w>> \o <<x, y>> = <<w, x, y>> /\ <<w, x, y>> # <<>> /\ <<w, x, y>> # <<"flush">>
    BY ThreeWords
  <2> QED
    BY <2>1 DEF Errands
<1>3. rest \in Errands /\ rest # <<>> /\ rest # <<"flush">>
  BY DEF Errands
<1> QED
  BY <1>1, <1>2, <1>3 DEF Explanation, HoldsLock, Words

-----------------------------------------------------------------------------
(* Journals without holes *)
Tidy(c) ==
  /\ Len(c.hist) <= Retention
  /\ \A i \in 1 .. Len(c.hist) : c.hist[i].seq = c.hist[1].seq + (i - 1)

LEMMA CopyFacts ==
  ASSUME NEW c \in Copy
  PROVE  /\ c.hist \in Seq(Event) /\ Len(c.hist) \in Nat /\ DOMAIN c.hist = 1 .. Len(c.hist)
         /\ \A i \in 1 .. Len(c.hist) : c.hist[i] \in Event /\ c.hist[i].seq \in 1 .. MaxEvents
         /\ c = [state |-> c.state, hist |-> c.hist]
         /\ Latest(c) \in 0 .. MaxEvents
         /\ c.hist # <<>> => Len(c.hist) > 0 /\ Latest(c) = c.hist[Len(c.hist)].seq
<1>1. c.hist \in Seq(Event) /\ c = [state |-> c.state, hist |-> c.hist]
  BY DEF Copy
<1>2. Len(c.hist) \in Nat /\ DOMAIN c.hist = 1 .. Len(c.hist)
  BY <1>1
<1>3. \A i \in 1 .. Len(c.hist) : c.hist[i] \in Event /\ c.hist[i].seq \in 1 .. MaxEvents
  <2>1. \A i \in 1 .. Len(c.hist) : c.hist[i] \in Event
    BY <1>1, <1>2
  <2>2. \A v \in Event : v.seq \in 1 .. MaxEvents
    BY DEF Event
  <2> QED
    BY <2>1, <2>2
<1>4. c.hist # <<>> => Len(c.hist) > 0 /\ Latest(c) = c.hist[Len(c.hist)].seq
  BY <1>1, <1>2 DEF Latest, Last
<1>5. MaxEvents \in Nat /\ (c.hist = <<>> => Latest(c) = 0)
  BY JournalAssumption DEF Latest
<1> QED
  BY <1>1, <1>2, <1>3, <1>4, <1>5

LEMMA ContentFacts ==
  \A s \in {"absent", "no file", "torn"} \cup State :
    Content(s) \in Copy /\ Tidy(Content(s)) /\ Agrees(Content(s)) /\ Latest(Content(s)) = 0
    /\ Content(s).hist = <<>> /\ Content(s).state = s
<1>1. \A s : Content(s).hist = <<>> /\ Content(s).state = s
  BY DEF Content
<1>2. Len(<<>>) = 0 /\ DOMAIN <<>> = {} /\ Retention \in Nat /\ <<>> \in Seq(Event)
  BY JournalAssumption
<1>3. \A s \in {"absent", "no file", "torn"} \cup State : Content(s) \in Copy
  BY <1>2 DEF Content, Copy
<1>4. \A s : Tidy(Content(s)) /\ Latest(Content(s)) = 0
  BY <1>1, <1>2 DEF Tidy, Latest
<1>5. \A s : Agrees(Content(s))
  BY <1>1, <1>2 DEF Agrees
<1> QED
  BY <1>1, <1>3, <1>4, <1>5

LEMMA AppendedFacts ==
  ASSUME NEW c \in Copy, Tidy(c), Latest(c) < MaxEvents,
         NEW says \in State \cup {"task.created", "task.failed", "task.cancelled", "task.progress"}
  PROVE  /\ Appended(c, says) \in Copy /\ Tidy(Appended(c, says))
         /\ Appended(c, says).state = c.state
         /\ Latest(Appended(c, says)) = Latest(c) + 1
         /\ (IF says \in State THEN c.state = says ELSE Agrees(c)) => Agrees(Appended(c, says))
<1> DEFINE e == [seq |-> Latest(c) + 1, says |-> says]
           long == Append(c.hist, e)
           kept == Kept(long)
           n == Len(c.hist)
<1>1. /\ c.hist \in Seq(Event) /\ n \in Nat /\ Latest(c) \in 0 .. MaxEvents
      /\ MaxEvents \in Nat /\ Retention \in Nat \ {0} /\ n <= Retention
  BY CopyFacts, JournalAssumption DEF Tidy
<1>2. e \in Event /\ e.seq = Latest(c) + 1 /\ e.says = says
  BY <1>1 DEF Event
<1> HIDE DEF e
<1>3. /\ long \in Seq(Event) /\ Len(long) = n + 1
      /\ long[n + 1] = e /\ \A i \in 1 .. n : long[i] = c.hist[i]
  BY <1>1, <1>2
<1> HIDE DEF long, n
<1>4. /\ n > 0 => Latest(c) = c.hist[1].seq + (n - 1) /\ c.hist[1].seq \in Nat
      /\ n = 0 => Latest(c) = 0
  <2>1. CASE n > 0
    <3>1. c.hist # <<>> /\ n \in 1 .. n /\ 1 \in 1 .. n
      BY <1>1, <2>1 DEF n
    <3>2. Latest(c) = c.hist[n].seq /\ c.hist[1].seq \in 1 .. MaxEvents
      BY <3>1, CopyFacts DEF n
    <3>3. c.hist[n].seq = c.hist[1].seq + (n - 1)
      BY <3>1 DEF Tidy, n
    <3> QED
      BY <1>1, <2>1, <3>2, <3>3
  <2>2. CASE n = 0
    BY <1>1, <2>2 DEF Latest, n
  <2> QED
    BY <1>1, <2>1, <2>2
<1>5. \A i \in 1 .. n + 1 : long[i].seq = Latest(c) + 1 - (n + 1 - i)
  <2>1. \A i \in 1 .. n : c.hist[i].seq = c.hist[1].seq + (i - 1)
    BY DEF Tidy, n
  <2> SUFFICES ASSUME NEW i \in 1 .. n + 1
               PROVE  long[i].seq = Latest(c) + 1 - (n + 1 - i)
    OBVIOUS
  <2>2. CASE i = n + 1
    BY <1>1, <1>2, <1>3, <2>2
  <2>3. CASE i < n + 1
    <3>1. i \in 1 .. n /\ n > 0
      BY <1>1, <2>3
    <3>2. long[i].seq = c.hist[1].seq + (i - 1)
      BY <1>3, <2>1, <3>1
    <3> QED
      BY <1>1, <1>4, <3>1, <3>2
  <2> QED
    BY <1>1, <2>2, <2>3
<1>6. PICK d \in {0, 1} : /\ kept \in Seq(Event) /\ Len(kept) = n + 1 - d /\ n + 1 - d > 0 /\ n + 1 - d <= Retention
                         /\ \A i \in 1 .. n + 1 - d : kept[i] = long[i + d]
  <2>1. CASE n + 1 > Retention
    <3>1. kept = Tail(long) /\ n + 1 > 1
      BY <1>1, <1>3, <2>1 DEF Kept
    <3>2. Tail(long) \in Seq(Event) /\ Len(Tail(long)) = n /\ \A i \in 1 .. n : Tail(long)[i] = long[i + 1]
      BY <1>1, <1>3, <3>1
    <3> QED
      BY <1>1, <2>1, <3>1, <3>2
  <2>2. CASE n + 1 <= Retention
    <3>1. kept = long
      BY <1>1, <1>3, <2>2 DEF Kept
    <3> QED
      BY <1>1, <1>3, <2>2, <3>1
  <2> QED
    BY <1>1, <2>1, <2>2
<1> HIDE DEF kept
<1> DEFINE new == Appended(c, says)
<1>7. new = [state |-> c.state, hist |-> kept]
  <2>1. c = [state |-> c.state, hist |-> c.hist]
    BY CopyFacts
  <2> QED
    BY <2>1 DEF Appended, kept, long, e
<1>8. new.state = c.state /\ new.hist = kept
  BY <1>7
<1>9. new \in Copy
  <2>1. [state |-> c.state, hist |-> kept] \in Copy
    BY <1>6 DEF Copy
  <2> QED
    BY <1>7, <2>1
<1> HIDE DEF new
<1>10. \A i \in 1 .. Len(kept) : kept[i].seq = Latest(c) + 1 - (n + 1 - d - i)
  <2> SUFFICES ASSUME NEW i \in 1 .. Len(kept)
               PROVE  kept[i].seq = Latest(c) + 1 - (n + 1 - d - i)
    OBVIOUS
  <2>1. i \in 1 .. n + 1 - d /\ i + d \in 1 .. n + 1 /\ i \in Nat /\ kept[i] = long[i + d]
    BY <1>1, <1>6
  <2>2. long[i + d].seq = Latest(c) + 1 - (n + 1 - (i + d))
    BY <1>5, <2>1
  <2> QED
    BY <1>1, <2>1, <2>2
<1>11. Tidy(new)
  <2>1. 1 \in 1 .. Len(kept)
    BY <1>1, <1>6
  <2>2. \A i \in 1 .. Len(kept) : kept[i].seq = kept[1].seq + (i - 1)
    <3>1. kept[1].seq = Latest(c) + 1 - (n + 1 - d - 1)
      BY <1>10, <2>1
    <3> SUFFICES ASSUME NEW i \in 1 .. Len(kept)
                 PROVE  kept[i].seq = kept[1].seq + (i - 1)
      OBVIOUS
    <3>2. kept[i].seq = Latest(c) + 1 - (n + 1 - d - i) /\ i \in Nat
      BY <1>1, <1>6, <1>10
    <3> QED
      BY <1>1, <3>1, <3>2
  <2> QED
    BY <1>6, <1>8, <2>2 DEF Tidy
<1>12. Latest(new) = Latest(c) + 1
  <2>1. kept # <<>> /\ Len(kept) \in 1 .. Len(kept)
    BY <1>1, <1>6
  <2>2. Latest(new) = kept[Len(kept)].seq
    BY <1>8, <2>1 DEF Latest, Last
  <2>3. kept[Len(kept)].seq = Latest(c) + 1 - (n + 1 - d - Len(kept)) /\ Len(kept) = n + 1 - d
    BY <1>6, <1>10, <2>1
  <2> QED
    BY <1>1, <2>2, <2>3
<1>13. ASSUME IF says \in State THEN c.state = says ELSE Agrees(c)
       PROVE  Agrees(new)
  <2> SUFFICES ASSUME NEW i \in 1 .. Len(kept), kept[i].says \in State,
                      \A j \in i + 1 .. Len(kept) : kept[j].says \notin State
               PROVE  c.state = kept[i].says
    BY <1>6, <1>8 DEF Agrees
  <2>1. kept[Len(kept)] = e /\ Len(kept) = n + 1 - d /\ i \in Nat
    BY <1>1, <1>3, <1>6
  <2>2. CASE i = Len(kept)
    BY <1>2, <1>13, <2>1, <2>2
  <2>3. CASE i < Len(kept)
    <3>1. says \notin State
      BY <1>1, <1>2, <1>6, <2>1, <2>3
    <3>2. i + d \in 1 .. n /\ c.hist[i + d] = kept[i]
      <4>1. i + d \in 1 .. n /\ i \in 1 .. n + 1 - d
        BY <1>1, <2>1, <2>3
      <4>2. kept[i] = long[i + d] /\ long[i + d] = c.hist[i + d]
        BY <1>3, <1>6, <4>1
      <4> QED
        BY <4>1, <4>2
    <3>3. ASSUME NEW j \in i + d + 1 .. n
          PROVE  c.hist[j].says \notin State
      <4>1. j \in Nat /\ j - d \in i + 1 .. n + 1 - d /\ j - d \in 1 .. n + 1 - d /\ j \in 1 .. n /\ (j - d) + d = j
        BY <1>1, <2>1, <3>3
      <4>2. kept[j - d] = long[(j - d) + d]
        BY <1>6, <4>1
      <4>3. kept[j - d] = c.hist[j]
        BY <1>3, <4>1, <4>2
      <4> QED
        BY <2>1, <4>1, <4>3
    <3> QED
      BY <1>13, <3>1, <3>2, <3>3, CopyFacts DEF Agrees, n
  <2> QED
    BY <1>6, <2>1, <2>2, <2>3
<1> QED
  BY <1>8, <1>9, <1>11, <1>12, <1>13 DEF new

-----------------------------------------------------------------------------
(* As long as nothing is exposed: one flush at a time, by the one process that is
   there; it writes what that process holds, and what the process holds is in the
   file, or about to be by the call that has the lock *)
OneFlush == \A g, h \in Flusher : at[g] \in Flushing /\ at[h] \in Flushing => g = h
OneProcess ==
  /\ alive => memory["operator"] = Absent /\ at[Operator] \in {"idle", "away"}
  /\ ~ alive => memory["service"] = Absent /\ \A h \in Thread : at[h] \in {"idle", "away"}
HasTask == \A h \in Flusher : at[h] # "raised" /\ (at[h] \notin {"idle", "away"} => Holds(Mine(h)))
Late == {"opening", "writing", "replacing"}
WritesMine ==
  \A h \in Flusher :
    /\ at[h] = "reading" => payload[h].state = Mine(h).state
    /\ at[h] \in Late => payload[h] = Mine(h)
    /\ at[h] = "writing" => handle[h] = "spare" /\ spare = Torn
    /\ at[h] = "replacing" => spare = payload[h]
MemoryIsAhead ==
  \A p \in {"service", "operator"} :
    \/ memory[p] = Absent
    \/ Holds(memory[p]) /\ Agrees(memory[p]) /\ Latest(file) <= Latest(memory[p])
FileIsWhole ==
  /\ file = Missing \/ (Holds(file) /\ Agrees(file))
  /\ alive /\ memory["service"] = Absent => file = Missing
  /\ cursor <= Latest(file)
InTheFile ==
  alive /\ Holds(memory["service"]) /\ file # memory["service"] =>
    \E h \in Thread : holder = h /\ at[h] \in Late
Orderly ==
  OneFlush /\ OneProcess /\ HasTask /\ WritesMine /\ MemoryIsAhead /\ FileIsWhole /\ InTheFile

AllTidy ==
  /\ Tidy(memory["service"]) /\ Tidy(memory["operator"]) /\ Tidy(file) /\ Tidy(spare)
  /\ \A h \in Flusher : Tidy(payload[h])
LockIsHeld ==
  \A h \in Flusher :
    /\ todo[h] \in Errands
    /\ at[h] = "next" => todo[h] # <<>>
    /\ h \in Thread /\ HoldsLock(todo[h]) => holder = h

JournalInv ==
  /\ JournalTypeOK /\ skipped # "the middle"
  /\ AllTidy /\ LockIsHeld
  /\ ~ exposed => Orderly

LEMMA ErrandsAreTyped == Errands \subseteq Seq({"task.failed", "task.cancelled", "unlock", "flush"})
<1>1. \A w, x, y \in {"task.failed", "task.cancelled", "unlock", "flush"} :
        {<<>>, <<w>>, <<w, x>>, <<w, x, y>>} \subseteq Seq({"task.failed", "task.cancelled", "unlock", "flush"})
  OBVIOUS
<1> QED
  BY <1>1 DEF Errands, Words

LEMMA ProcessFacts ==
  /\ \A h \in Flusher : ProcessOf(h) \in {"service", "operator"}
  /\ \A h \in Thread : h # Operator /\ ProcessOf(h) = "service" /\ h \in Flusher
  /\ ProcessOf(Operator) = "operator" /\ Operator \in Flusher /\ "service" # "operator"
BY JournalAssumption DEF ProcessOf, Flusher

LEMMA StateFacts ==
  /\ ~ Holds(Absent) /\ ~ Holds(Missing) /\ ~ Holds(Torn)
  /\ Absent # Missing /\ Absent # Torn /\ Missing # Torn
  /\ Latest(Absent) = 0 /\ Latest(Missing) = 0
  /\ {Absent, Missing, Torn} \subseteq Copy
  /\ Tidy(Absent) /\ Tidy(Missing) /\ Tidy(Torn)
<1>1. Absent.state = "absent" /\ Missing.state = "no file" /\ Torn.state = "torn"
  BY DEF Content, Absent, Missing, Torn
<1>2. ~ Holds(Absent) /\ ~ Holds(Missing) /\ ~ Holds(Torn)
  BY <1>1 DEF Holds, State
<1>3. Absent # Missing /\ Absent # Torn /\ Missing # Torn
  BY <1>1
<1>4. /\ Latest(Absent) = 0 /\ Latest(Missing) = 0 /\ {Absent, Missing, Torn} \subseteq Copy
      /\ Tidy(Absent) /\ Tidy(Missing) /\ Tidy(Torn)
  BY ContentFacts DEF Absent, Missing, Torn
<1> QED
  BY <1>2, <1>3, <1>4

(* A call appends to what its process holds and begins a flush *)
LEMMA ChangeKeeps ==
  ASSUME JournalInv, NEW h \in Flusher, NEW c \in Copy, NEW says, NEW rest,
         Tidy(c), Latest(c) < MaxEvents,
         ~ exposed => Holds(c) /\ IF Mine(h) = Absent THEN h \in Thread ELSE Latest(c) = Latest(Mine(h)),
         says \in State \cup {"task.created", "task.failed", "task.cancelled", "task.progress"},
         ~ exposed => IF says \in State THEN c.state = says ELSE Agrees(c),
         HoldsLock(rest), at[h] \in {"idle", "next"}, at[h] = "next" => HoldsLock(todo[h]),
         ~ exposed => (alive <=> h \in Thread),
         h \in Thread => holder \in {Nobody, h} /\ holder' = h, h \notin Thread => holder' = holder,
         calls' \in 0 .. MaxCalls, ChangeAndFlush(h, Appended(c, says)),
         todo' = [todo EXCEPT ![h] = rest], UNCHANGED Untouched
  PROVE  JournalInv'
<1> DEFINE new == Appended(c, says)
           p == ProcessOf(h)
<1>1. /\ new \in Copy /\ Tidy(new) /\ Latest(new) = Latest(c) + 1
      /\ ~ exposed => Holds(new) /\ Agrees(new)
  BY AppendedFacts DEF Holds
<1> HIDE DEF new
<1>2. /\ memory' = [memory EXCEPT ![p] = new] /\ payload' = [payload EXCEPT ![h] = new]
      /\ at' = [at EXCEPT ![h] = "opening"] /\ exposed' = (exposed \/ ~ Alone(h))
      /\ UNCHANGED <<file, spare, alive, deaths, handle, cursor, skipped>>
  BY DEF ChangeAndFlush, new, Untouched
<1>3. JournalTypeOK
  BY DEF JournalInv
<1>4. p \in {"service", "operator"}
  BY ProcessFacts
<1>5. /\ memory' \in [{"service", "operator"} -> Copy] /\ memory'[p] = new
      /\ \A q \in {"service", "operator"} : q # p => memory'[q] = memory[q]
  BY <1>1, <1>2, <1>3, <1>4 DEF JournalTypeOK
<1>6. /\ payload' \in [Flusher -> Copy] /\ payload'[h] = new
      /\ \A g \in Flusher : g # h => payload'[g] = payload[g]
  BY <1>1, <1>2, <1>3 DEF JournalTypeOK
<1>7. /\ at'[h] = "opening" /\ \A g \in Flusher : g # h => at'[g] = at[g]
      /\ at' \in [Flusher -> {"idle", "next", "reading", "opening", "writing", "replacing", "raised", "away"}]
  BY <1>2, <1>3 DEF JournalTypeOK
<1>8. /\ rest \in Errands /\ todo'[h] = rest /\ \A g \in Flusher : g # h => todo'[g] = todo[g]
      /\ todo' \in [Flusher -> Seq({"task.failed", "task.cancelled", "unlock", "flush"})]
  BY <1>3, ErrandsAreTyped DEF JournalTypeOK, HoldsLock
<1>9. holder' \in Thread \cup {Nobody}
  BY <1>3 DEF JournalTypeOK
<1>10. exposed \in BOOLEAN /\ exposed' \in BOOLEAN
  BY <1>2, <1>3 DEF JournalTypeOK
<1>11. JournalTypeOK'
  BY <1>2, <1>3, <1>5, <1>6, <1>7, <1>8, <1>9, <1>10 DEF JournalTypeOK
<1>12. AllTidy'
  BY <1>1, <1>2, <1>4, <1>5, <1>6 DEF JournalInv, AllTidy
<1>13. LockIsHeld'
  <2> SUFFICES ASSUME NEW g \in Flusher
               PROVE  /\ todo'[g] \in Errands
                      /\ at'[g] = "next" => todo'[g] # <<>>
                      /\ g \in Thread /\ HoldsLock(todo'[g]) => holder' = g
    BY DEF LockIsHeld, HoldsLock
  <2>1. CASE g = h
    BY <1>7, <1>8, <2>1
  <2>2. CASE g # h
    <3>1. g \in Thread /\ HoldsLock(todo[g]) => holder = g
      BY DEF JournalInv, LockIsHeld
    <3> QED
      BY <1>7, <1>8, <2>2, <3>1, JournalAssumption DEF JournalInv, LockIsHeld
  <2> QED
    BY <2>1, <2>2
<1>14. ASSUME ~ exposed'
       PROVE  Orderly'
  <2>1. ~ exposed /\ Alone(h) /\ Orderly
    BY <1>2, <1>10, <1>14 DEF JournalInv
  <2>2. \A g \in Flusher : g # h => at'[g] = at[g] /\ at[g] \notin Flushing
    BY <1>7, <2>1 DEF Alone
  <2>3. OneFlush'
    BY <2>2 DEF OneFlush, Flushing
  <2>4. OneProcess'
    BY <1>2, <1>5, <1>7, <2>1, ProcessFacts DEF Orderly, OneProcess, Flusher
  <2>5. HasTask'
    <3> SUFFICES ASSUME NEW g \in Flusher
                 PROVE  at'[g] # "raised" /\ (at'[g] \notin {"idle", "away"} => Holds(memory'[ProcessOf(g)]))
      BY DEF HasTask, Mine, ProcessOf
    <3>1. CASE ProcessOf(g) = p
      BY <1>1, <1>5, <1>7, <2>1, <3>1 DEF Orderly, HasTask
    <3>2. CASE ProcessOf(g) # p
      <4>1. g # h /\ memory'[ProcessOf(g)] = memory[ProcessOf(g)]
        BY <1>5, <3>2, ProcessFacts
      <4> QED
        BY <1>7, <2>1, <4>1 DEF Orderly, HasTask, Mine
    <3> QED
      BY <3>1, <3>2
  <2>6. WritesMine'
    <3>1. \A g \in Flusher : at'[g] \in Flushing => g = h
      BY <2>2
    <3> QED
      BY <1>5, <1>6, <1>7, <3>1 DEF WritesMine, Mine, ProcessOf, Flushing, Late
  <2>7. MemoryIsAhead'
    <3>1. Latest(file) <= Latest(new)
      <4>1. CASE Mine(h) = Absent
        <5>1. file = Missing
          BY <2>1, <4>1, ProcessFacts DEF Orderly, FileIsWhole, Mine
        <5> QED
          BY <1>1, <5>1, StateFacts, CopyFacts
      <4>2. CASE Mine(h) # Absent
        <5>1. Latest(file) <= Latest(Mine(h)) /\ Latest(c) = Latest(Mine(h))
          BY <1>4, <2>1, <4>2 DEF Orderly, MemoryIsAhead, Mine
        <5>2. file \in Copy
          BY <1>3 DEF JournalTypeOK
        <5> QED
          BY <1>1, <5>1, <5>2, CopyFacts
      <4> QED
        BY <4>1, <4>2
    <3> QED
      BY <1>1, <1>2, <1>4, <1>5, <2>1, <3>1 DEF Orderly, MemoryIsAhead
  <2>8. FileIsWhole'
    <3>1. alive /\ memory'["service"] = Absent => memory["service"] = Absent
      BY <1>1, <1>4, <1>5, <2>1, StateFacts
    <3> QED
      BY <1>2, <2>1, <3>1 DEF Orderly, FileIsWhole
  <2>9. InTheFile'
    BY <1>2, <1>7, <2>1 DEF InTheFile, Late
  <2> QED
    BY <2>3, <2>4, <2>5, <2>6, <2>7, <2>8, <2>9 DEF Orderly
<1> QED
  BY <1>2, <1>11, <1>12, <1>13, <1>14 DEF JournalInv

LEMMA StoreCallKeeps ==
  ASSUME JournalInv, NEW h \in Flusher, NEW c \in Copy, NEW says, NEW rest,
         Tidy(c), Holds(c), Latest(c) = Latest(Mine(h)),
         says \in State \cup {"task.created", "task.failed", "task.cancelled", "task.progress"},
         ~ exposed => IF says \in State THEN c.state = says ELSE Agrees(c),
         HoldsLock(rest), IF h = Operator THEN Mine(h) # Absent ELSE alive,
         StoreCall(h, c, says, rest)
  PROVE  JournalInv'
<1>1. /\ at[h] = "idle" /\ Latest(c) < MaxEvents /\ calls' \in 0 .. MaxCalls
      /\ ChangeAndFlush(h, Appended(c, says)) /\ todo' = [todo EXCEPT ![h] = rest] /\ UNCHANGED Untouched
  <2>1. calls \in 0 .. MaxCalls /\ MaxCalls \in Nat
    BY JournalAssumption DEF JournalInv, JournalTypeOK
  <2> QED
    BY <2>1 DEF StoreCall, Room, Counted
<1>2. /\ h \in Thread => holder \in {Nobody, h} /\ holder' = h
      /\ h \notin Thread => holder' = holder
  BY ProcessFacts DEF StoreCall, Locks, Flusher
<1>3. ~ exposed => (alive <=> h \in Thread)
  BY ProcessFacts DEF JournalInv, Orderly, OneProcess, Mine, Flusher
<1>4. IF Mine(h) = Absent THEN h \in Thread ELSE Latest(c) = Latest(Mine(h))
  BY DEF Flusher
<1> QED
  BY <1>1, <1>2, <1>3, <1>4, ChangeKeeps

LEMMA MineFacts ==
  ASSUME JournalInv, NEW h \in Flusher
  PROVE  /\ Mine(h) \in Copy /\ Tidy(Mine(h))
         /\ ~ exposed /\ Holds(Mine(h)) => Agrees(Mine(h)) /\ Latest(file) <= Latest(Mine(h))
         /\ Holds(Mine(h)) => Mine(h) # Absent
BY ProcessFacts, StateFacts DEF JournalInv, JournalTypeOK, AllTidy, Orderly, MemoryIsAhead, Mine

LEMMA PutKeeps ==
  ASSUME JournalInv, NEW h \in Thread, Put(h)
  PROVE  JournalInv'
<1>1. /\ alive /\ Mine(h) = Absent
      /\ StoreCall(h, Content("created"), "task.created", <<"unlock", "flush">>)
  BY DEF Put
<1>2. /\ Content("created") \in Copy /\ Tidy(Content("created")) /\ Holds(Content("created"))
      /\ Agrees(Content("created")) /\ Latest(Content("created")) = Latest(Mine(h))
  BY <1>1, ContentFacts, StateFacts DEF State, Holds
<1>3. "task.created" \notin State /\ HoldsLock(<<"unlock", "flush">>)
  BY DEF State, HoldsLock, Errands
<1> QED
  BY <1>1, <1>2, <1>3, StoreCallKeeps, ProcessFacts

LEMMA TransitionKeeps ==
  ASSUME JournalInv, NEW h \in Flusher, NEW to \in State, NEW within \in BOOLEAN,
         IF h = Operator THEN TRUE ELSE alive, Transition(h, to, within)
  PROVE  JournalInv'
<1> DEFINE c == [Mine(h) EXCEPT !.state = to]
           rest == Explanation(to) \o IF within THEN <<"flush", "unlock">> ELSE <<"unlock", "flush">>
<1>1. Mine(h) \in Copy /\ Tidy(Mine(h)) /\ Holds(Mine(h)) /\ Mine(h) # Absent
  <2>1. Mine(h).state \in State
    BY DEF Transition, CanTransition, Transitions, State
  <2> QED
    BY <2>1, MineFacts DEF Holds
<1>2. c \in Copy /\ c.hist = Mine(h).hist /\ c.state = to
  BY <1>1 DEF Copy
<1>3. StoreCall(h, c, to, rest)
  BY DEF Transition
<1>4. HoldsLock(rest)
  BY ErrandsOfMoves
<1> HIDE DEF c, rest
<1>5. Tidy(c) /\ Holds(c) /\ Latest(c) = Latest(Mine(h))
  BY <1>1, <1>2 DEF Tidy, Holds, Latest
<1> QED
  BY <1>1, <1>2, <1>3, <1>4, <1>5, StoreCallKeeps

LEMMA ProgressedKeeps ==
  ASSUME JournalInv, NEW h \in Thread, Progressed(h)
  PROVE  JournalInv'
<1>1. alive /\ Mine(h).state = "running" /\ StoreCall(h, Mine(h), "task.progress", <<"unlock">>)
  BY DEF Progressed
<1>2. Holds(Mine(h)) /\ "task.progress" \notin State /\ HoldsLock(<<"unlock">>)
  BY <1>1 DEF Holds, State, HoldsLock, Errands
<1> QED
  BY <1>1, <1>2, MineFacts, StoreCallKeeps, ProcessFacts

LEMMA ExplainKeeps ==
  ASSUME JournalInv, NEW h \in Flusher, Explain(h)
  PROVE  JournalInv'
<1> DEFINE word == Head(todo[h])
           rest == Tail(todo[h])
<1>1. /\ at[h] = "next" /\ word \in Words /\ Latest(Mine(h)) < MaxEvents
      /\ ChangeAndFlush(h, Appended(Mine(h), word))
      /\ todo' = [todo EXCEPT ![h] = rest] /\ UNCHANGED <<calls, holder>> /\ UNCHANGED Untouched
  BY DEF Explain, Room, Words
<1>2. HoldsLock(rest) /\ HoldsLock(todo[h])
  BY <1>1, ErrandFacts DEF JournalInv, LockIsHeld
<1>3. word \notin State /\ word \in {"task.failed", "task.cancelled"}
  BY <1>1 DEF Words, State
<1>4. ~ exposed => /\ Holds(Mine(h)) /\ Agrees(Mine(h)) /\ Mine(h) # Absent
                   /\ alive <=> h \in Thread
  BY <1>1, MineFacts, ProcessFacts DEF JournalInv, Orderly, HasTask, OneProcess, Flusher
<1>5. calls' \in 0 .. MaxCalls /\ (h \in Thread => holder \in {Nobody, h} /\ holder' = h)
  BY <1>1, <1>2 DEF JournalInv, JournalTypeOK, LockIsHeld
<1> HIDE DEF word, rest
<1> QED
  BY <1>1, <1>2, <1>3, <1>4, <1>5, MineFacts, ChangeKeeps

-----------------------------------------------------------------------------
(* What h does in its call when it changes nothing but its own place in it, and at
   most reads the tasks or the events for its flush *)
LEMMA UnlockKeeps ==
  ASSUME JournalInv, NEW h \in Flusher, Unlock(h)
  PROVE  JournalInv'
<1> DEFINE rest == Tail(todo[h])
<1>1. /\ at[h] = "next" /\ Head(todo[h]) = "unlock"
      /\ holder' = IF holder = h THEN Nobody ELSE holder
      /\ todo' = [todo EXCEPT ![h] = rest]
      /\ at' = [at EXCEPT ![h] = IF rest = <<>> THEN "idle" ELSE "next"]
      /\ UNCHANGED <<calls, memory, payload, exposed, file, spare, alive, deaths, handle, cursor, skipped>>
  BY DEF Unlock, Unlocks, Untouched
<1>2. rest \in Errands /\ ~ HoldsLock(rest) /\ HoldsLock(todo[h])
  BY <1>1, ErrandFacts DEF JournalInv, LockIsHeld
<1> HIDE DEF rest
<1>3. JournalTypeOK
  BY DEF JournalInv
<1>4. /\ at'[h] \in {"idle", "next"} /\ (at'[h] = "next" => rest # <<>>)
      /\ \A g \in Flusher : g # h => at'[g] = at[g]
      /\ at' \in [Flusher -> {"idle", "next", "reading", "opening", "writing", "replacing", "raised", "away"}]
  BY <1>1, <1>3 DEF JournalTypeOK
<1>5. /\ todo'[h] = rest /\ \A g \in Flusher : g # h => todo'[g] = todo[g]
      /\ todo' \in [Flusher -> Seq({"task.failed", "task.cancelled", "unlock", "flush"})]
  BY <1>1, <1>2, <1>3, ErrandsAreTyped DEF JournalTypeOK
<1>6. holder' \in Thread \cup {Nobody}
  BY <1>1, <1>3 DEF JournalTypeOK
<1>7. JournalTypeOK'
  BY <1>1, <1>3, <1>4, <1>5, <1>6 DEF JournalTypeOK
<1>8. AllTidy'
  BY <1>1 DEF JournalInv, AllTidy
<1>9. LockIsHeld'
  <2> SUFFICES ASSUME NEW g \in Flusher
               PROVE  /\ todo'[g] \in Errands
                      /\ at'[g] = "next" => todo'[g] # <<>>
                      /\ g \in Thread /\ HoldsLock(todo'[g]) => holder' = g
    BY DEF LockIsHeld, HoldsLock
  <2>1. CASE g = h
    BY <1>2, <1>4, <1>5, <2>1
  <2>2. CASE g # h
    BY <1>1, <1>4, <1>5, <2>2 DEF JournalInv, LockIsHeld
  <2> QED
    BY <2>1, <2>2
<1>10. ASSUME ~ exposed'
       PROVE  Orderly'
  <2>1. Orderly /\ ~ exposed
    BY <1>1, <1>10 DEF JournalInv
  <2>2. OneFlush'
    BY <1>4, <2>1 DEF Orderly, OneFlush, Flushing
  <2>3. OneProcess'
    <3>1. h = Operator => ~ alive
      BY <1>1, <2>1 DEF Orderly, OneProcess
    <3>2. h \in Thread => alive
      BY <1>1, <2>1 DEF Orderly, OneProcess
    <3> QED
      BY <1>1, <1>4, <2>1, <3>1, <3>2, ProcessFacts DEF Orderly, OneProcess, Flusher
  <2>4. HasTask'
    BY <1>1, <1>4, <2>1 DEF Orderly, HasTask, Mine, ProcessOf
  <2>5. WritesMine'
    BY <1>1, <1>4, <2>1 DEF Orderly, WritesMine, Mine, ProcessOf, Late
  <2>6. MemoryIsAhead' /\ FileIsWhole'
    BY <1>1, <2>1 DEF Orderly, MemoryIsAhead, FileIsWhole
  <2>7. InTheFile'
    BY <1>1, <1>4, <2>1 DEF Orderly, InTheFile, Late
  <2> QED
    BY <2>2, <2>3, <2>4, <2>5, <2>6, <2>7 DEF Orderly
<1> QED
  BY <1>1, <1>7, <1>8, <1>9, <1>10 DEF JournalInv

LEMMA ReadTasksKeeps ==
  ASSUME JournalInv, NEW h \in Flusher, ReadTasks(h)
  PROVE  JournalInv'
<1> DEFINE rest == Tail(todo[h])
           read == Content(Mine(h).state)
<1>1. /\ at[h] = "next" /\ Head(todo[h]) = "flush"
      /\ payload' = [payload EXCEPT ![h] = read]
      /\ todo' = [todo EXCEPT ![h] = rest]
      /\ at' = [at EXCEPT ![h] = "reading"]
      /\ exposed' = (exposed \/ ~ Alone(h))
      /\ UNCHANGED <<calls, memory, holder, file, spare, alive, deaths, handle, cursor, skipped>>
  BY DEF ReadTasks, Untouched
<1>2. rest \in Errands /\ (HoldsLock(rest) => HoldsLock(todo[h]))
  BY <1>1, ErrandFacts DEF JournalInv, LockIsHeld
<1>3. JournalTypeOK
  BY DEF JournalInv
<1>4. read \in Copy /\ Tidy(read) /\ read.state = Mine(h).state
  <2>1. Mine(h).state \in {"absent", "no file", "torn"} \cup State
    BY MineFacts DEF Copy
  <2> QED
    BY <2>1, ContentFacts
<1> HIDE DEF rest, read
<1>5. /\ at'[h] = "reading" /\ \A g \in Flusher : g # h => at'[g] = at[g]
      /\ at' \in [Flusher -> {"idle", "next", "reading", "opening", "writing", "replacing", "raised", "away"}]
  BY <1>1, <1>3 DEF JournalTypeOK
<1>6. /\ todo'[h] = rest /\ \A g \in Flusher : g # h => todo'[g] = todo[g]
      /\ todo' \in [Flusher -> Seq({"task.failed", "task.cancelled", "unlock", "flush"})]
  BY <1>1, <1>2, <1>3, ErrandsAreTyped DEF JournalTypeOK
<1>7. /\ payload' \in [Flusher -> Copy] /\ payload'[h] = read
      /\ \A g \in Flusher : g # h => payload'[g] = payload[g]
  BY <1>1, <1>3, <1>4 DEF JournalTypeOK
<1>8. JournalTypeOK'
  BY <1>1, <1>3, <1>5, <1>6, <1>7 DEF JournalTypeOK
<1>9. AllTidy'
  BY <1>1, <1>4, <1>7 DEF JournalInv, AllTidy
<1>10. LockIsHeld'
  <2> SUFFICES ASSUME NEW g \in Flusher
               PROVE  /\ todo'[g] \in Errands
                      /\ at'[g] = "next" => todo'[g] # <<>>
                      /\ g \in Thread /\ HoldsLock(todo'[g]) => holder' = g
    BY DEF LockIsHeld, HoldsLock
  <2> QED
    BY <1>1, <1>2, <1>5, <1>6 DEF JournalInv, LockIsHeld
<1>11. ASSUME ~ exposed'
       PROVE  Orderly'
  <2>1. ~ exposed /\ Alone(h) /\ Orderly
    BY <1>1, <1>3, <1>11 DEF JournalInv, JournalTypeOK
  <2>2. \A g \in Flusher : g # h => at'[g] = at[g] /\ at[g] \notin Flushing
    BY <1>5, <2>1 DEF Alone
  <2>3. OneFlush'
    BY <2>2 DEF OneFlush, Flushing
  <2>4. OneProcess'
    <3>1. h = Operator => ~ alive
      BY <1>1, <2>1 DEF Orderly, OneProcess
    <3>2. h \in Thread => alive
      BY <1>1, <2>1 DEF Orderly, OneProcess
    <3> QED
      BY <1>1, <1>5, <2>1, <3>1, <3>2, ProcessFacts DEF Orderly, OneProcess, Flusher
  <2>5. HasTask'
    BY <1>1, <1>5, <2>1 DEF Orderly, HasTask, Mine, ProcessOf
  <2>6. WritesMine'
    <3>1. \A g \in Flusher : at'[g] \in Flushing => g = h
      BY <2>2
    <3> QED
      BY <1>1, <1>4, <1>5, <1>7, <3>1 DEF WritesMine, Mine, ProcessOf, Flushing, Late
  <2>7. MemoryIsAhead' /\ FileIsWhole'
    BY <1>1, <2>1 DEF Orderly, MemoryIsAhead, FileIsWhole
  <2>8. InTheFile'
    BY <1>1, <1>5, <2>1 DEF Orderly, InTheFile, Late
  <2> QED
    BY <2>3, <2>4, <2>5, <2>6, <2>7, <2>8 DEF Orderly
<1> QED
  BY <1>1, <1>8, <1>9, <1>10, <1>11 DEF JournalInv

LEMMA ReadEventsKeeps ==
  ASSUME JournalInv, NEW h \in Flusher, ReadEvents(h)
  PROVE  JournalInv'
<1> DEFINE read == [payload[h] EXCEPT !.hist = Mine(h).hist]
<1>1. /\ at[h] = "reading"
      /\ payload' = [payload EXCEPT ![h] = read]
      /\ at' = [at EXCEPT ![h] = "opening"]
      /\ UNCHANGED <<calls, memory, holder, todo, exposed, file, spare, alive, deaths, handle, cursor, skipped>>
  <2>1. JournalTypeOK
    BY DEF JournalInv
  <2> QED
    BY <2>1 DEF ReadEvents, Untouched, JournalTypeOK
<1>2. JournalTypeOK
  BY DEF JournalInv
<1>3. read \in Copy /\ read.hist = Mine(h).hist /\ read.state = payload[h].state
  BY <1>2, MineFacts DEF JournalTypeOK, Copy
<1>4. Tidy(read)
  BY <1>3, MineFacts DEF Tidy
<1>5. ~ exposed => read = Mine(h)
  <2>1. ~ exposed => payload[h].state = Mine(h).state
    BY <1>1 DEF JournalInv, Orderly, WritesMine
  <2>2. read = [state |-> read.state, hist |-> read.hist]
    BY <1>3, CopyFacts
  <2>3. Mine(h) = [state |-> Mine(h).state, hist |-> Mine(h).hist]
    BY MineFacts, CopyFacts
  <2> QED
    BY <1>3, <2>1, <2>2, <2>3
<1> HIDE DEF read
<1>6. /\ at'[h] = "opening" /\ \A g \in Flusher : g # h => at'[g] = at[g]
      /\ at' \in [Flusher -> {"idle", "next", "reading", "opening", "writing", "replacing", "raised", "away"}]
  BY <1>1, <1>2 DEF JournalTypeOK
<1>7. /\ payload' \in [Flusher -> Copy] /\ payload'[h] = read
      /\ \A g \in Flusher : g # h => payload'[g] = payload[g]
  BY <1>1, <1>2, <1>3 DEF JournalTypeOK
<1>8. JournalTypeOK'
  BY <1>1, <1>2, <1>6, <1>7 DEF JournalTypeOK
<1>9. AllTidy'
  BY <1>1, <1>4, <1>7 DEF JournalInv, AllTidy
<1>10. LockIsHeld'
  BY <1>1, <1>6 DEF JournalInv, LockIsHeld, HoldsLock
<1>11. ASSUME ~ exposed'
       PROVE  Orderly'
  <2>1. ~ exposed /\ Orderly
    BY <1>1, <1>11 DEF JournalInv
  <2>2. \A g \in Flusher : g # h => at'[g] = at[g] /\ at[g] \notin Flushing
    BY <1>1, <1>6, <2>1 DEF Orderly, OneFlush, Flushing
  <2>3. OneFlush'
    BY <2>2 DEF OneFlush, Flushing
  <2>4. OneProcess'
    <3>1. h = Operator => ~ alive
      BY <1>1, <2>1 DEF Orderly, OneProcess
    <3>2. h \in Thread => alive
      BY <1>1, <2>1 DEF Orderly, OneProcess
    <3> QED
      BY <1>1, <1>6, <2>1, <3>1, <3>2, ProcessFacts DEF Orderly, OneProcess, Flusher
  <2>5. HasTask'
    BY <1>1, <1>6, <2>1 DEF Orderly, HasTask, Mine, ProcessOf
  <2>6. WritesMine'
    <3>1. \A g \in Flusher : at'[g] \in Flushing => g = h
      BY <2>2
    <3> QED
      BY <1>1, <1>5, <1>6, <1>7, <2>1, <3>1 DEF WritesMine, Mine, ProcessOf, Flushing, Late
  <2>7. MemoryIsAhead' /\ FileIsWhole'
    BY <1>1, <2>1 DEF Orderly, MemoryIsAhead, FileIsWhole
  <2>8. InTheFile'
    BY <1>1, <1>6, <2>1 DEF Orderly, InTheFile, Late
  <2> QED
    BY <2>3, <2>4, <2>5, <2>6, <2>7, <2>8 DEF Orderly
<1> QED
  BY <1>1, <1>8, <1>9, <1>10, <1>11 DEF JournalInv

LEMMA OpenKeeps ==
  ASSUME JournalInv, NEW h \in Flusher, Open(h)
  PROVE  JournalInv'
<1>1. /\ at[h] = "opening" /\ spare' = Torn
      /\ handle' = [handle EXCEPT ![h] = "spare"]
      /\ at' = [at EXCEPT ![h] = "writing"]
      /\ UNCHANGED <<calls, memory, file, alive, deaths, holder, todo, payload, cursor, skipped, exposed>>
  BY DEF Open
<1>2. JournalTypeOK
  BY DEF JournalInv
<1>3. /\ at'[h] = "writing" /\ \A g \in Flusher : g # h => at'[g] = at[g]
      /\ at' \in [Flusher -> {"idle", "next", "reading", "opening", "writing", "replacing", "raised", "away"}]
  BY <1>1, <1>2 DEF JournalTypeOK
<1>4. handle' \in [Flusher -> {"spare", "file", "lost"}] /\ handle'[h] = "spare"
  BY <1>1, <1>2 DEF JournalTypeOK
<1>5. JournalTypeOK'
  BY <1>1, <1>2, <1>3, <1>4, StateFacts DEF JournalTypeOK
<1>6. AllTidy'
  BY <1>1, StateFacts DEF JournalInv, AllTidy
<1>7. LockIsHeld'
  BY <1>1, <1>3 DEF JournalInv, LockIsHeld, HoldsLock
<1>8. ASSUME ~ exposed'
      PROVE  Orderly'
  <2>1. ~ exposed /\ Orderly
    BY <1>1, <1>8 DEF JournalInv
  <2>2. \A g \in Flusher : g # h => at'[g] = at[g] /\ at[g] \notin Flushing
    BY <1>1, <1>3, <2>1 DEF Orderly, OneFlush, Flushing
  <2>3. OneFlush'
    BY <2>2 DEF OneFlush, Flushing
  <2>4. OneProcess'
    <3>1. (h = Operator => ~ alive) /\ (h \in Thread => alive)
      BY <1>1, <2>1 DEF Orderly, OneProcess
    <3> QED
      BY <1>1, <1>3, <2>1, <3>1, ProcessFacts DEF Orderly, OneProcess, Flusher
  <2>5. HasTask'
    BY <1>1, <1>3, <2>1 DEF Orderly, HasTask, Mine, ProcessOf
  <2>6. WritesMine'
    <3>1. \A g \in Flusher : at'[g] \in Flushing => g = h
      BY <2>2
    <3>2. payload[h] = Mine(h)
      BY <1>1, <2>1 DEF Orderly, WritesMine, Late
    <3> QED
      BY <1>1, <1>3, <1>4, <3>1, <3>2 DEF WritesMine, Mine, ProcessOf, Flushing, Late
  <2>7. MemoryIsAhead' /\ FileIsWhole'
    BY <1>1, <2>1 DEF Orderly, MemoryIsAhead, FileIsWhole
  <2>8. InTheFile'
    BY <1>1, <1>3, <2>1 DEF Orderly, InTheFile, Late
  <2> QED
    BY <2>3, <2>4, <2>5, <2>6, <2>7, <2>8 DEF Orderly
<1> QED
  BY <1>1, <1>5, <1>6, <1>7, <1>8 DEF JournalInv

(* Alone, h fills the temporary file it has emptied itself *)
LEMMA FillKeeps ==
  ASSUME JournalInv, NEW h \in Flusher, Fill(h)
  PROVE  JournalInv'
<1>1. /\ at[h] = "writing"
      /\ IF handle[h] = "spare" THEN spare' \in Filled(spare, payload[h]) ELSE UNCHANGED spare
      /\ IF handle[h] = "file" THEN file' \in Filled(file, payload[h]) ELSE UNCHANGED file
      /\ at' = [at EXCEPT ![h] = "replacing"]
      /\ UNCHANGED <<calls, memory, alive, deaths, holder, todo, payload, handle, cursor, skipped, exposed>>
  BY DEF Fill
<1>2. JournalTypeOK
  BY DEF JournalInv
<1>3. /\ at'[h] = "replacing" /\ \A g \in Flusher : g # h => at'[g] = at[g]
      /\ at' \in [Flusher -> {"idle", "next", "reading", "opening", "writing", "replacing", "raised", "away"}]
  BY <1>1, <1>2 DEF JournalTypeOK
<1>4. spare' \in {spare, payload[h], Torn} /\ file' \in {file, payload[h], Torn}
  BY <1>1 DEF Filled
<1>5. JournalTypeOK'
  <2>1. spare' \in Copy /\ file' \in Copy
    BY <1>2, <1>4, StateFacts DEF JournalTypeOK
  <2> QED
    BY <1>1, <1>2, <1>3, <2>1 DEF JournalTypeOK
<1>6. AllTidy'
  <2>1. Tidy(spare') /\ Tidy(file')
    BY <1>4, StateFacts DEF JournalInv, AllTidy
  <2> QED
    BY <1>1, <2>1 DEF JournalInv, AllTidy, Tidy
<1>7. LockIsHeld'
  BY <1>1, <1>3 DEF JournalInv, LockIsHeld, HoldsLock
<1>8. ASSUME ~ exposed'
      PROVE  Orderly'
  <2>1. ~ exposed /\ Orderly
    BY <1>1, <1>8 DEF JournalInv
  <2>2. \A g \in Flusher : g # h => at'[g] = at[g] /\ at[g] \notin Flushing
    BY <1>1, <1>3, <2>1 DEF Orderly, OneFlush, Flushing
  <2>3. spare' = payload[h] /\ UNCHANGED file /\ payload[h] = Mine(h)
    BY <1>1, <2>1 DEF Orderly, WritesMine, Late, Filled
  <2>4. OneFlush'
    BY <2>2 DEF OneFlush, Flushing
  <2>5. OneProcess'
    <3>1. (h = Operator => ~ alive) /\ (h \in Thread => alive)
      BY <1>1, <2>1 DEF Orderly, OneProcess
    <3> QED
      BY <1>1, <1>3, <2>1, <3>1, ProcessFacts DEF Orderly, OneProcess, Flusher
  <2>6. HasTask'
    BY <1>1, <1>3, <2>1 DEF Orderly, HasTask, Mine, ProcessOf
  <2>7. WritesMine'
    <3>1. \A g \in Flusher : at'[g] \in Flushing => g = h
      BY <2>2
    <3> QED
      BY <1>1, <1>3, <2>3, <3>1 DEF WritesMine, Mine, ProcessOf, Flushing, Late
  <2>8. MemoryIsAhead' /\ FileIsWhole'
    BY <1>1, <2>1, <2>3 DEF Orderly, MemoryIsAhead, FileIsWhole
  <2>9. InTheFile'
    BY <1>1, <1>3, <2>1, <2>3 DEF Orderly, InTheFile, Late
  <2> QED
    BY <2>4, <2>5, <2>6, <2>7, <2>8, <2>9 DEF Orderly
<1> QED
  BY <1>1, <1>5, <1>6, <1>7, <1>8 DEF JournalInv

(* The file is now what the process of h holds *)
LEMMA ReplaceKeeps ==
  ASSUME JournalInv, NEW h \in Flusher, Replace(h)
  PROVE  JournalInv'
<1>1. /\ at[h] = "replacing"
      /\ payload' = [payload EXCEPT ![h] = Absent]
      /\ UNCHANGED <<calls, memory, alive, deaths, cursor, skipped, exposed>>
  BY DEF Replace
<1>2. \/ /\ spare = Missing
         /\ at' = [at EXCEPT ![h] = "raised"] /\ todo' = [todo EXCEPT ![h] = <<>>]
         /\ holder' = IF holder = h THEN Nobody ELSE holder
         /\ UNCHANGED <<file, spare, handle>>
      \/ /\ file' = spare /\ spare' = Missing
         /\ handle' = [g \in Flusher |-> IF g # h /\ handle[g] = "spare" THEN "file" ELSE "lost"]
         /\ at' = [at EXCEPT ![h] = IF todo[h] = <<>> THEN "idle" ELSE "next"]
         /\ UNCHANGED <<holder, todo>>
  BY DEF Replace, Unlocks
<1>3. JournalTypeOK
  BY DEF JournalInv
<1>4. /\ at'[h] \in {"raised", "idle", "next"} /\ \A g \in Flusher : g # h => at'[g] = at[g]
      /\ at' \in [Flusher -> {"idle", "next", "reading", "opening", "writing", "replacing", "raised", "away"}]
  BY <1>2, <1>3 DEF JournalTypeOK
<1>5. payload' \in [Flusher -> Copy] /\ \A g \in Flusher : payload'[g] \in {payload[g], Absent}
  BY <1>1, <1>3, StateFacts DEF JournalTypeOK
<1>6. todo' \in [Flusher -> Seq({"task.failed", "task.cancelled", "unlock", "flush"})]
  <2>1. <<>> \in Seq({"task.failed", "task.cancelled", "unlock", "flush"})
    OBVIOUS
  <2> QED
    BY <1>2, <1>3, <2>1 DEF JournalTypeOK
<1>7. /\ handle' \in [Flusher -> {"spare", "file", "lost"}] /\ holder' \in Thread \cup {Nobody}
      /\ file' \in Copy /\ spare' \in Copy
  BY <1>2, <1>3, StateFacts DEF JournalTypeOK
<1>8. JournalTypeOK'
  BY <1>1, <1>3, <1>4, <1>5, <1>6, <1>7 DEF JournalTypeOK
<1>9. AllTidy'
  <2>1. Tidy(file') /\ Tidy(spare')
    BY <1>2, StateFacts DEF JournalInv, AllTidy
  <2>2. \A g \in Flusher : Tidy(payload'[g])
    BY <1>5, StateFacts DEF JournalInv, AllTidy
  <2> QED
    BY <1>1, <2>1, <2>2 DEF JournalInv, AllTidy, Tidy
<1>10. LockIsHeld'
  <2> SUFFICES ASSUME NEW g \in Flusher
               PROVE  /\ todo'[g] \in Errands
                      /\ at'[g] = "next" => todo'[g] # <<>>
                      /\ g \in Thread /\ HoldsLock(todo'[g]) => holder' = g
    BY DEF LockIsHeld, HoldsLock
  <2>1. <<>> \in Errands /\ ~ HoldsLock(<<>>)
    BY DEF Errands, HoldsLock
  <2>2. CASE g = h
    BY <1>2, <1>3, <2>1, <2>2 DEF JournalInv, LockIsHeld, JournalTypeOK
  <2>3. CASE g # h
    BY <1>2, <1>3, <1>4, <2>3 DEF JournalInv, LockIsHeld, JournalTypeOK
  <2> QED
    BY <2>2, <2>3
<1>11. ASSUME ~ exposed'
       PROVE  Orderly'
  <2>1. ~ exposed /\ Orderly
    BY <1>1, <1>11 DEF JournalInv
  <2>2. \A g \in Flusher : g # h => at'[g] = at[g] /\ at[g] \notin Flushing
    BY <1>1, <1>4, <2>1 DEF Orderly, OneFlush, Flushing
  <2>3. spare = Mine(h) /\ Holds(Mine(h)) /\ Agrees(Mine(h)) /\ Latest(file) <= Latest(Mine(h))
    <3>1. spare = Mine(h) /\ Holds(Mine(h))
      BY <1>1, <2>1 DEF Orderly, WritesMine, HasTask, Late
    <3> QED
      BY <2>1, <3>1, MineFacts
  <2>4. file' = Mine(h) /\ at'[h] \in {"idle", "next"}
    BY <1>2, <1>3, <2>3, StateFacts DEF JournalTypeOK
  <2>5. /\ h = Operator => ~ alive
        /\ h \in Thread => alive
    BY <1>1, <2>1 DEF Orderly, OneProcess
  <2>6. OneFlush'
    BY <2>2, <2>4 DEF OneFlush, Flushing
  <2>7. OneProcess'
    BY <1>1, <2>1, <2>2, <2>5, ProcessFacts DEF Orderly, OneProcess, Flusher
  <2>8. HasTask'
    BY <1>1, <2>1, <2>2, <2>3, <2>4 DEF Orderly, HasTask, Mine, ProcessOf
  <2>9. WritesMine'
    BY <2>2, <2>4 DEF WritesMine, Flushing, Late
  <2>10. MemoryIsAhead'
    <3> SUFFICES ASSUME NEW p \in {"service", "operator"}, memory[p] # Absent
                 PROVE  Holds(memory[p]) /\ Agrees(memory[p]) /\ Latest(file') <= Latest(memory[p])
      BY <1>1 DEF MemoryIsAhead
    <3>1. p = ProcessOf(h)
      BY <2>1, <2>5, ProcessFacts DEF Orderly, OneProcess, Flusher
    <3>2. Latest(Mine(h)) \in Nat
      BY MineFacts, CopyFacts, JournalAssumption
    <3> QED
      BY <2>3, <2>4, <3>1, <3>2 DEF Mine
  <2>11. FileIsWhole'
    <3>1. cursor <= Latest(file')
      <4>1. cursor <= Latest(file)
        BY <2>1 DEF Orderly, FileIsWhole
      <4>2. cursor \in Nat /\ MaxEvents \in Nat
        <5>1. cursor \in 0 .. MaxEvents
          BY <1>3 DEF JournalTypeOK
        <5>2. MaxEvents \in Nat
          BY JournalAssumption
        <5> QED
          BY <5>1, <5>2
      <4>3. file \in Copy /\ Mine(h) \in Copy
        BY <1>3, MineFacts DEF JournalTypeOK
      <4>4. Latest(file) \in Nat /\ Latest(Mine(h)) \in Nat
        BY <4>2, <4>3, CopyFacts
      <4> QED
        BY <2>3, <2>4, <4>1, <4>2, <4>4
    <3>2. alive => memory["service"] # Absent
      BY <2>3, <2>5, MineFacts, ProcessFacts DEF Mine, Flusher
    <3> QED
      BY <1>1, <2>3, <2>4, <3>1, <3>2 DEF FileIsWhole
  <2>12. InTheFile'
    <3>1. alive => file' = memory["service"]
      BY <2>4, <2>5, ProcessFacts DEF Mine, Flusher
    <3> QED
      BY <1>1, <3>1 DEF InTheFile
  <2> QED
    BY <2>6, <2>7, <2>8, <2>9, <2>10, <2>11, <2>12 DEF Orderly
<1> QED
  BY <1>1, <1>8, <1>9, <1>10, <1>11 DEF JournalInv

LEMMA SetLeaseKeeps ==
  ASSUME JournalInv, NEW h \in Thread, SetLease(h)
  PROVE  JournalInv'
<1>1. /\ alive /\ at[h] = "idle" /\ Holds(Mine(h)) /\ calls' = calls + 1 /\ calls < MaxCalls
      /\ at' = [at EXCEPT ![h] = "next"] /\ todo' = [todo EXCEPT ![h] = <<"flush">>]
      /\ UNCHANGED <<memory, payload, holder, exposed, file, spare, alive, deaths, handle, cursor, skipped>>
  BY DEF SetLease, Counted, Untouched
<1>2. JournalTypeOK
  BY DEF JournalInv
<1>3. h \in Flusher /\ ProcessOf(h) = "service" /\ h # Operator
  BY ProcessFacts
<1>4. <<"flush">> \in Errands /\ ~ HoldsLock(<<"flush">>) /\ <<"flush">> # <<>>
  BY DEF Errands, HoldsLock
<1>5. /\ at'[h] = "next" /\ \A g \in Flusher : g # h => at'[g] = at[g]
      /\ at' \in [Flusher -> {"idle", "next", "reading", "opening", "writing", "replacing", "raised", "away"}]
  BY <1>1, <1>2, <1>3 DEF JournalTypeOK
<1>6. /\ todo'[h] = <<"flush">> /\ \A g \in Flusher : g # h => todo'[g] = todo[g]
      /\ todo' \in [Flusher -> Seq({"task.failed", "task.cancelled", "unlock", "flush"})]
  <2>1. <<"flush">> \in Seq({"task.failed", "task.cancelled", "unlock", "flush"})
    OBVIOUS
  <2> QED
    BY <1>1, <1>2, <1>3, <2>1 DEF JournalTypeOK
<1>7. calls' \in 0 .. MaxCalls
  <2>1. calls \in 0 .. MaxCalls /\ MaxCalls \in Nat
    BY <1>2, JournalAssumption DEF JournalTypeOK
  <2> QED
    BY <1>1, <2>1
<1>8. JournalTypeOK'
  BY <1>1, <1>2, <1>5, <1>6, <1>7 DEF JournalTypeOK
<1>9. AllTidy'
  BY <1>1 DEF JournalInv, AllTidy
<1>10. LockIsHeld'
  <2> SUFFICES ASSUME NEW g \in Flusher
               PROVE  /\ todo'[g] \in Errands
                      /\ at'[g] = "next" => todo'[g] # <<>>
                      /\ g \in Thread /\ HoldsLock(todo'[g]) => holder' = g
    BY DEF LockIsHeld, HoldsLock
  <2> QED
    BY <1>1, <1>4, <1>5, <1>6 DEF JournalInv, LockIsHeld
<1>11. ASSUME ~ exposed'
       PROVE  Orderly'
  <2>1. Orderly
    BY <1>1, <1>11 DEF JournalInv
  <2>2. OneFlush' /\ WritesMine'
    BY <1>1, <1>5, <2>1 DEF Orderly, OneFlush, WritesMine, Flushing, Late, Mine, ProcessOf
  <2>3. OneProcess'
    BY <1>1, <1>3, <1>5, <2>1 DEF Orderly, OneProcess, Flusher
  <2>4. HasTask'
    BY <1>1, <1>5, <2>1 DEF Orderly, HasTask, Mine, ProcessOf
  <2>5. MemoryIsAhead' /\ FileIsWhole'
    BY <1>1, <2>1 DEF Orderly, MemoryIsAhead, FileIsWhole
  <2>6. InTheFile'
    BY <1>1, <1>5, <2>1 DEF Orderly, InTheFile, Late
  <2> QED
    BY <2>2, <2>3, <2>4, <2>5, <2>6 DEF Orderly
<1> QED
  BY <1>1, <1>8, <1>9, <1>10, <1>11 DEF JournalInv

LEMMA RemoveTaskKeeps ==
  ASSUME JournalInv, RemoveTask
  PROVE  JournalInv'
<1>1. /\ memory' = [memory EXCEPT !["service"] = Absent] /\ exposed' = TRUE
      /\ UNCHANGED <<calls, holder, at, todo, payload, file, spare, alive, deaths, handle, cursor, skipped>>
  BY DEF RemoveTask, Untouched
<1>2. JournalTypeOK'
  BY <1>1, StateFacts DEF JournalInv, JournalTypeOK
<1>3. AllTidy'
  <2>1. memory'["service"] = Absent /\ memory'["operator"] = memory["operator"]
    BY <1>1 DEF JournalInv, JournalTypeOK
  <2> QED
    BY <1>1, <2>1, StateFacts DEF JournalInv, AllTidy, Tidy
<1>4. LockIsHeld'
  BY <1>1 DEF JournalInv, LockIsHeld
<1> QED
  BY <1>1, <1>2, <1>3, <1>4 DEF JournalInv

-----------------------------------------------------------------------------
(* The processes come and go *)
LEMMA DieKeeps ==
  ASSUME JournalInv, Die
  PROVE  JournalInv'
<1>1. /\ alive /\ deaths < MaxDeaths /\ alive' = FALSE /\ deaths' = deaths + 1 /\ holder' = Nobody
      /\ at' = [h \in Flusher |-> IF h = Operator \/ at[h] = "away" THEN at[h] ELSE "idle"]
      /\ todo' = [h \in Flusher |-> IF h = Operator THEN todo[h] ELSE <<>>]
      /\ handle' = [h \in Flusher |-> IF h = Operator THEN handle[h] ELSE "lost"]
      /\ payload' = [h \in Flusher |-> IF h = Operator THEN payload[h] ELSE Absent]
      /\ memory' = [memory EXCEPT !["service"] = Absent]
      /\ UNCHANGED <<calls, file, spare, cursor, skipped, exposed>>
  BY DEF Die
<1>2. JournalTypeOK
  BY DEF JournalInv
<1>3. /\ memory' \in [{"service", "operator"} -> Copy]
      /\ memory'["service"] = Absent /\ memory'["operator"] = memory["operator"]
  BY <1>1, <1>2, StateFacts DEF JournalTypeOK
<1>4. JournalTypeOK'
  <2>1. deaths' \in 0 .. MaxDeaths
    <3>1. deaths \in 0 .. MaxDeaths /\ MaxDeaths \in Nat
      BY <1>2, JournalAssumption DEF JournalTypeOK
    <3> QED
      BY <1>1, <3>1
  <2>2. at' \in [Flusher -> {"idle", "next", "reading", "opening", "writing", "replacing", "raised", "away"}]
    BY <1>1, <1>2 DEF JournalTypeOK
  <2>3. todo' \in [Flusher -> Seq({"task.failed", "task.cancelled", "unlock", "flush"})]
    <3>1. <<>> \in Seq({"task.failed", "task.cancelled", "unlock", "flush"})
      OBVIOUS
    <3> QED
      BY <1>1, <1>2, <3>1 DEF JournalTypeOK
  <2>4. handle' \in [Flusher -> {"spare", "file", "lost"}] /\ payload' \in [Flusher -> Copy]
    BY <1>1, <1>2, StateFacts DEF JournalTypeOK
  <2> QED
    BY <1>1, <1>2, <1>3, <2>1, <2>2, <2>3, <2>4 DEF JournalTypeOK
<1>5. AllTidy'
  <2>1. \A h \in Flusher : payload'[h] \in {payload[h], Absent}
    BY <1>1
  <2>2. \A h \in Flusher : Tidy(payload'[h])
    BY <2>1, StateFacts DEF JournalInv, AllTidy
  <2> QED
    BY <1>1, <1>3, <2>2, StateFacts DEF JournalInv, AllTidy, Tidy
<1>6. LockIsHeld'
  <2> SUFFICES ASSUME NEW g \in Flusher
               PROVE  /\ todo'[g] \in Errands
                      /\ at'[g] = "next" => todo'[g] # <<>>
                      /\ g \in Thread /\ HoldsLock(todo'[g]) => holder' = g
    BY DEF LockIsHeld, HoldsLock
  <2>1. <<>> \in Errands /\ ~ HoldsLock(<<>>)
    BY DEF Errands, HoldsLock
  <2> QED
    BY <1>1, <2>1, ProcessFacts DEF JournalInv, LockIsHeld
<1>7. ASSUME ~ exposed'
      PROVE  Orderly'
  <2>1. Orderly
    BY <1>1, <1>7 DEF JournalInv
  <2>2. \A h \in Flusher : at'[h] \in {"idle", "away"}
    BY <1>1, <2>1 DEF Orderly, OneProcess
  <2>3. OneFlush' /\ HasTask' /\ WritesMine'
    BY <2>2 DEF OneFlush, HasTask, WritesMine, Flushing, Late
  <2>4. OneProcess'
    BY <1>1, <1>3, <2>2, ProcessFacts DEF OneProcess
  <2>5. MemoryIsAhead'
    BY <1>1, <1>3, <2>1 DEF Orderly, MemoryIsAhead
  <2>6. FileIsWhole' /\ InTheFile'
    BY <1>1, <2>1 DEF Orderly, FileIsWhole, InTheFile
  <2> QED
    BY <2>3, <2>4, <2>5, <2>6 DEF Orderly
<1> QED
  BY <1>1, <1>4, <1>5, <1>6, <1>7 DEF JournalInv

LEMMA LoadedFacts ==
  ASSUME JournalInv
  PROVE  /\ Loaded \in Copy /\ Tidy(Loaded) /\ Loaded \in {Absent, file}
         /\ ~ exposed => IF file = Missing THEN Loaded = Absent
                         ELSE Loaded = file /\ Holds(Loaded) /\ Agrees(Loaded)
<1>1. Loaded \in {Absent, file} /\ (file \notin {Missing, Torn} => Loaded = file) /\ (file = Missing => Loaded = Absent)
  BY DEF Loaded
<1>2. ~ exposed => file = Missing \/ (file # Torn /\ Holds(file) /\ Agrees(file))
  BY StateFacts DEF JournalInv, Orderly, FileIsWhole
<1> QED
  BY <1>1, <1>2, StateFacts DEF JournalInv, JournalTypeOK, AllTidy

LEMMA ComeUpKeeps ==
  ASSUME JournalInv, ComeUp
  PROVE  JournalInv'
<1>1. /\ ~ alive /\ alive' = TRUE
      /\ memory' = [memory EXCEPT !["service"] = Loaded]
      /\ exposed' = (exposed \/ at[Operator] # "idle" \/ memory["operator"] # Absent)
      /\ UNCHANGED <<calls, file, spare, deaths, holder, at, todo, payload, handle, cursor, skipped>>
  BY DEF ComeUp
<1>2. JournalTypeOK
  BY DEF JournalInv
<1>3. /\ memory' \in [{"service", "operator"} -> Copy]
      /\ memory'["service"] = Loaded /\ memory'["operator"] = memory["operator"]
  BY <1>1, <1>2, LoadedFacts DEF JournalTypeOK
<1>4. exposed' \in BOOLEAN /\ (~ exposed' => ~ exposed /\ at[Operator] = "idle" /\ memory["operator"] = Absent)
  BY <1>1, <1>2 DEF JournalTypeOK
<1>5. JournalTypeOK'
  BY <1>1, <1>2, <1>3, <1>4 DEF JournalTypeOK
<1>6. AllTidy'
  BY <1>1, <1>3, LoadedFacts DEF JournalInv, AllTidy, Tidy
<1>7. LockIsHeld'
  BY <1>1 DEF JournalInv, LockIsHeld
<1>8. ASSUME ~ exposed'
      PROVE  Orderly'
  <2>1. Orderly /\ ~ exposed /\ at[Operator] = "idle" /\ memory["operator"] = Absent
    BY <1>4, <1>8 DEF JournalInv
  <2>2. \A h \in Flusher : at'[h] \in {"idle", "away"}
    BY <1>1, <2>1, ProcessFacts DEF Orderly, OneProcess, Flusher
  <2>3. OneFlush' /\ HasTask' /\ WritesMine'
    BY <2>2 DEF OneFlush, HasTask, WritesMine, Flushing, Late
  <2>4. OneProcess'
    BY <1>1, <1>3, <2>1, <2>2, ProcessFacts DEF OneProcess
  <2>5. Latest(Loaded) \in Nat
    BY LoadedFacts, CopyFacts, JournalAssumption
  <2>6. MemoryIsAhead'
    BY <1>1, <1>3, <2>1, <2>5, LoadedFacts DEF MemoryIsAhead
  <2>7. FileIsWhole' /\ InTheFile'
    BY <1>1, <1>3, <2>1, LoadedFacts, StateFacts DEF Orderly, FileIsWhole, InTheFile
  <2> QED
    BY <2>3, <2>4, <2>6, <2>7 DEF Orderly
<1> QED
  BY <1>1, <1>5, <1>6, <1>7, <1>8 DEF JournalInv

LEMMA OpenStoreKeeps ==
  ASSUME JournalInv, OpenStore
  PROVE  JournalInv'
<1>1. /\ at[Operator] = "idle" /\ file # Missing
      /\ memory' = [memory EXCEPT !["operator"] = Loaded]
      /\ exposed' = (exposed \/ alive)
      /\ UNCHANGED <<calls, holder, at, todo, payload, file, spare, alive, deaths, handle, cursor, skipped>>
  BY DEF OpenStore, Untouched
<1>2. JournalTypeOK
  BY DEF JournalInv
<1>3. /\ memory' \in [{"service", "operator"} -> Copy]
      /\ memory'["operator"] = Loaded /\ memory'["service"] = memory["service"]
  BY <1>1, <1>2, LoadedFacts DEF JournalTypeOK
<1>4. exposed' \in BOOLEAN /\ (~ exposed' => ~ exposed /\ ~ alive)
  BY <1>1, <1>2 DEF JournalTypeOK
<1>5. JournalTypeOK'
  BY <1>1, <1>2, <1>3, <1>4 DEF JournalTypeOK
<1>6. AllTidy'
  BY <1>1, <1>3, LoadedFacts DEF JournalInv, AllTidy, Tidy
<1>7. LockIsHeld'
  BY <1>1 DEF JournalInv, LockIsHeld
<1>8. ASSUME ~ exposed'
      PROVE  Orderly'
  <2>1. Orderly /\ ~ exposed /\ ~ alive
    BY <1>4, <1>8 DEF JournalInv
  <2>2. \A h \in Flusher : at'[h] \in {"idle", "away"}
    BY <1>1, <2>1 DEF Orderly, OneProcess, Flusher
  <2>3. OneFlush' /\ HasTask' /\ WritesMine'
    BY <2>2 DEF OneFlush, HasTask, WritesMine, Flushing, Late
  <2>4. OneProcess'
    BY <1>1, <1>3, <2>1, <2>2, ProcessFacts DEF Orderly, OneProcess
  <2>5. Latest(Loaded) \in Nat
    BY LoadedFacts, CopyFacts, JournalAssumption
  <2>6. MemoryIsAhead'
    BY <1>1, <1>3, <2>1, <2>5, LoadedFacts DEF Orderly, MemoryIsAhead
  <2>7. FileIsWhole' /\ InTheFile'
    BY <1>1, <2>1 DEF Orderly, FileIsWhole, InTheFile
  <2> QED
    BY <2>3, <2>4, <2>6, <2>7 DEF Orderly
<1> QED
  BY <1>1, <1>5, <1>6, <1>7, <1>8 DEF JournalInv

LEMMA CommandEndsKeeps ==
  ASSUME JournalInv, CommandEnds
  PROVE  JournalInv'
<1>1. /\ at[Operator] = "idle"
      /\ memory' = [memory EXCEPT !["operator"] = Absent]
      /\ UNCHANGED <<calls, holder, at, todo, payload, exposed, file, spare, alive, deaths, handle, cursor, skipped>>
  BY DEF CommandEnds, Untouched
<1>2. JournalTypeOK
  BY DEF JournalInv
<1>3. /\ memory' \in [{"service", "operator"} -> Copy]
      /\ memory'["operator"] = Absent /\ memory'["service"] = memory["service"]
  BY <1>1, <1>2, StateFacts DEF JournalTypeOK
<1>4. JournalTypeOK'
  BY <1>1, <1>2, <1>3 DEF JournalTypeOK
<1>5. AllTidy'
  BY <1>1, <1>3, StateFacts DEF JournalInv, AllTidy, Tidy
<1>6. LockIsHeld'
  BY <1>1 DEF JournalInv, LockIsHeld
<1>7. ASSUME ~ exposed'
      PROVE  Orderly'
  <2>1. Orderly
    BY <1>1, <1>7 DEF JournalInv
  <2>2. \A h \in Flusher : h # Operator => memory'[ProcessOf(h)] = memory[ProcessOf(h)]
    BY <1>3 DEF ProcessOf
  <2>3. OneFlush' /\ OneProcess'
    BY <1>1, <1>3, <2>1 DEF Orderly, OneFlush, OneProcess
  <2>4. HasTask' /\ WritesMine'
    BY <1>1, <2>1, <2>2 DEF Orderly, HasTask, WritesMine, Late, Mine
  <2>5. MemoryIsAhead' /\ FileIsWhole' /\ InTheFile'
    BY <1>1, <1>3, <2>1 DEF Orderly, MemoryIsAhead, FileIsWhole, InTheFile
  <2> QED
    BY <2>3, <2>4, <2>5 DEF Orderly
<1> QED
  BY <1>1, <1>4, <1>5, <1>6, <1>7 DEF JournalInv

-----------------------------------------------------------------------------
(* What a journal without holes tells a reader *)
LEMMA FirstAndLast ==
  ASSUME NEW c \in Copy, Tidy(c), c.hist # <<>>
  PROVE  /\ c.hist[1].seq \in 1 .. MaxEvents /\ Latest(c) \in 1 .. MaxEvents
         /\ c.hist[1].seq <= Latest(c)
<1> DEFINE n == Len(c.hist)
<1>1. n \in Nat /\ n > 0 /\ Latest(c) = c.hist[n].seq
  BY CopyFacts
<1>2. 1 \in 1 .. n /\ n \in 1 .. n
  BY <1>1
<1>3. c.hist[1].seq \in 1 .. MaxEvents /\ c.hist[n].seq \in 1 .. MaxEvents
  BY <1>2, CopyFacts
<1>4. c.hist[n].seq = c.hist[1].seq + (n - 1)
  BY <1>2 DEF Tidy
<1>5. MaxEvents \in Nat
  BY JournalAssumption
<1> QED
  BY <1>1, <1>3, <1>4, <1>5

LEMMA TidyIsConsecutive ==
  ASSUME NEW c \in Copy, Tidy(c)
  PROVE  Consecutive(c.hist) /\ Len(c.hist) <= Retention
<1> SUFFICES ASSUME NEW i \in 1 .. Len(c.hist) - 1
             PROVE  c.hist[i + 1].seq = c.hist[i].seq + 1
  BY DEF Consecutive, Tidy
<1>1. Len(c.hist) \in Nat /\ i \in Nat /\ 1 \in 1 .. Len(c.hist) /\ i \in 1 .. Len(c.hist) /\ i + 1 \in 1 .. Len(c.hist)
  BY CopyFacts
<1>2. c.hist[1].seq \in Int
  BY <1>1, CopyFacts, JournalAssumption
<1>3. c.hist[i].seq = c.hist[1].seq + (i - 1) /\ c.hist[i + 1].seq = c.hist[1].seq + ((i + 1) - 1)
  BY <1>1 DEF Tidy
<1>4. \A f \in Int : f + ((i + 1) - 1) = (f + (i - 1)) + 1
  BY <1>1
<1> QED
  BY <1>2, <1>3, <1>4

(* The reader is given events by a service whose lock is free: they are in the file *)
LEMMA EventsSinceKeeps ==
  ASSUME JournalInv, EventsSince
  PROVE  JournalInv'
<1> DEFINE mem == memory["service"]
           first == mem.hist[1].seq
<1>1. /\ alive /\ holder = Nobody /\ mem.hist # <<>> /\ Latest(mem) > cursor
      /\ IF Gone(mem.hist, cursor)
           THEN cursor' = first - 1 /\ UNCHANGED skipped
           ELSE /\ cursor' = Latest(mem)
                /\ skipped' = IF first <= cursor + 1 THEN skipped
                              ELSE IF cursor = 0 THEN "the start" ELSE "the middle"
      /\ UNCHANGED <<calls, memory, file, spare, alive, deaths, holder, at, todo, payload, handle, exposed>>
  BY DEF EventsSince
<1>2. JournalTypeOK
  BY DEF JournalInv
<1>3. mem \in Copy /\ Tidy(mem)
  BY <1>2 DEF JournalInv, JournalTypeOK, AllTidy
<1>4. cursor \in 0 .. MaxEvents /\ skipped \in {"nothing", "the start", "the middle"}
  BY <1>2 DEF JournalTypeOK
<1>5. MaxEvents \in Nat
  BY JournalAssumption
<1>6. first \in 1 .. MaxEvents /\ Latest(mem) \in 1 .. MaxEvents /\ first <= Latest(mem)
  BY <1>1, <1>3, FirstAndLast
<1>7. Gone(mem.hist, cursor) <=> cursor # 0 /\ cursor < first - 1
  BY <1>1 DEF Gone
<1> HIDE DEF mem, first
<1>8. cursor' \in 0 .. MaxEvents /\ cursor' <= Latest(mem)
  <2>1. cursor' = first - 1 \/ cursor' = Latest(mem)
    BY <1>1
  <2> QED
    BY <1>5, <1>6, <2>1
<1>9. skipped' \in {"nothing", "the start", "the middle"} /\ skipped' # "the middle"
  <2>1. skipped # "the middle"
    BY DEF JournalInv
  <2>2. cursor # 0 /\ ~ Gone(mem.hist, cursor) => first <= cursor + 1
    <3>1. cursor # 0 /\ ~ Gone(mem.hist, cursor) => ~ (cursor < first - 1)
      BY <1>7
    <3>2. cursor \in Int
      <4>1. cursor \in 0 .. MaxEvents
        BY <1>4
      <4>2. \A k \in 0 .. MaxEvents : k \in Int
        BY <1>5
      <4> QED
        BY <4>1, <4>2
    <3>3. first \in Int
      BY <1>6
    <3> QED
      BY <3>1, <3>2, <3>3
  <2> QED
    BY <1>1, <1>4, <2>1, <2>2
<1>10. JournalTypeOK'
  BY <1>1, <1>2, <1>8, <1>9 DEF JournalTypeOK
<1>11. AllTidy' /\ LockIsHeld'
  BY <1>1 DEF JournalInv, AllTidy, LockIsHeld
<1>12. ASSUME ~ exposed'
       PROVE  Orderly'
  <2>1. Orderly
    BY <1>1, <1>12 DEF JournalInv
  <2>2. OneFlush' /\ OneProcess' /\ HasTask' /\ WritesMine' /\ MemoryIsAhead' /\ InTheFile'
    BY <1>1, <2>1 DEF Orderly, OneFlush, OneProcess, HasTask, WritesMine, MemoryIsAhead, InTheFile, Mine
  <2>3. Holds(mem)
    <3>1. Absent.hist = <<>>
      BY DEF Absent, Content
    <3> QED
      BY <1>1, <2>1, <3>1 DEF Orderly, MemoryIsAhead, mem
  <2>4. file = mem
    BY <1>1, <2>1, <2>3, JournalAssumption DEF Orderly, InTheFile, mem
  <2>5. FileIsWhole'
    BY <1>1, <1>8, <2>1, <2>4 DEF Orderly, FileIsWhole
  <2> QED
    BY <2>2, <2>5 DEF Orderly
<1> QED
  BY <1>9, <1>10, <1>11, <1>12 DEF JournalInv

-----------------------------------------------------------------------------
LEMMA UnderWayFacts ==
  UnderWay \in Copy /\ Tidy(UnderWay) /\ Holds(UnderWay) /\ Agrees(UnderWay) /\ UnderWay # Missing
<1> DEFINE e == [seq |-> 3, says |-> "scheduled"]
           f == [seq |-> 4, says |-> "running"]
           long == <<e, f>>
           hist == Kept(long)
<1>1. e \in Event /\ f \in Event /\ e.seq = 3 /\ f.seq = 4 /\ f.says = "running" /\ e.says = "scheduled"
  <2>1. 3 \in 1 .. MaxEvents /\ 4 \in 1 .. MaxEvents
    BY JournalAssumption
  <2> QED
    BY <2>1 DEF Event, State
<1> HIDE DEF e, f
<1>2. UnderWay = [state |-> "running", hist |-> hist]
  BY DEF UnderWay, e, f
<1>3. \/ hist = long /\ Retention >= 2
      \/ hist = <<f>>
  BY JournalAssumption DEF Kept
<1>4. hist \in Seq(Event) /\ Len(hist) <= Retention
  <2>1. long \in Seq(Event) /\ Len(long) = 2
    BY <1>1
  <2>2. <<f>> \in Seq(Event) /\ Len(<<f>>) = 1
    BY <1>1
  <2>3. Retention \in Nat \ {0}
    BY JournalAssumption
  <2>4. CASE hist = long /\ Retention >= 2
    BY <2>1, <2>4
  <2>5. CASE hist = <<f>>
    BY <2>2, <2>3, <2>5
  <2> QED
    BY <1>3, <2>4, <2>5
<1>5. \A i \in 1 .. Len(hist) : hist[i].seq = hist[1].seq + (i - 1)
  BY <1>1, <1>3
<1>6. /\ UnderWay.state = "running" /\ UnderWay.hist = hist /\ UnderWay \in Copy
  <2>1. [state |-> "running", hist |-> hist] \in Copy
    BY <1>4 DEF Copy, State
  <2> QED
    BY <1>2, <2>1
<1>7. Agrees(UnderWay)
  <2> SUFFICES ASSUME NEW i \in DOMAIN hist, hist[i].says \in State,
                      \A j \in i + 1 .. Len(hist) : hist[j].says \notin State
               PROVE  hist[i].says = "running"
    BY <1>6 DEF Agrees
  <2>1. "running" \in State /\ "scheduled" \in State
    BY DEF State
  <2>2. CASE hist = long
    <3>1. DOMAIN hist = {1, 2} /\ Len(hist) = 2 /\ hist[1] = e /\ hist[2] = f
      BY <2>2
    <3>2. CASE i = 2
      BY <1>1, <3>1, <3>2
    <3>3. CASE i = 1
      <4>1. 2 \in i + 1 .. Len(hist)
        BY <3>1, <3>3
      <4> QED
        BY <1>1, <2>1, <3>1, <4>1
    <3> QED
      BY <3>1, <3>2, <3>3
  <2>3. CASE hist = <<f>>
    BY <1>1, <2>3
  <2> QED
    BY <1>3, <2>2, <2>3
<1> HIDE DEF hist
<1>8. Tidy(UnderWay) /\ Holds(UnderWay)
  BY <1>4, <1>5, <1>6 DEF Tidy, Holds, State
<1> QED
  BY <1>6, <1>7, <1>8, StateFacts

LEMMA JournalInitHolds == JournalInit => JournalInv
<1> SUFFICES ASSUME JournalInit
             PROVE  JournalInv
  OBVIOUS
<1>1. /\ file \in {UnderWay, Missing} /\ spare = Missing
      /\ alive = TRUE /\ deaths = 0 /\ calls = 0 /\ holder = Nobody
      /\ cursor = 0 /\ skipped = "nothing" /\ exposed = FALSE
      /\ handle = [h \in Flusher |-> "lost"]
  BY DEF JournalInit
<1>2. /\ memory \in [{"service", "operator"} -> Copy] /\ memory["operator"] = Absent
      /\ memory["service"] = IF file = UnderWay THEN UnderWay ELSE Absent
  BY UnderWayFacts, StateFacts DEF JournalInit
<1>3. \A h \in Flusher : at[h] \in {"idle", "away"} /\ todo[h] = <<>> /\ payload[h] = Absent
  BY DEF JournalInit
<1>4. at \in [Flusher -> {"idle", "next", "reading", "opening", "writing", "replacing", "raised", "away"}]
  BY DEF JournalInit
<1>5. todo \in [Flusher -> Seq({"task.failed", "task.cancelled", "unlock", "flush"})]
  <2>1. <<>> \in Seq({"task.failed", "task.cancelled", "unlock", "flush"})
    OBVIOUS
  <2> QED
    BY <2>1 DEF JournalInit
<1>6. payload \in [Flusher -> Copy] /\ handle \in [Flusher -> {"spare", "file", "lost"}]
  BY StateFacts DEF JournalInit
<1>7. 0 \in 0 .. MaxEvents /\ 0 \in 0 .. MaxCalls /\ 0 \in 0 .. MaxDeaths
  BY JournalAssumption
<1>8. JournalTypeOK
  BY <1>1, <1>2, <1>4, <1>5, <1>6, <1>7, UnderWayFacts, StateFacts DEF JournalTypeOK
<1>9. AllTidy
  BY <1>1, <1>2, <1>3, UnderWayFacts, StateFacts DEF AllTidy, Tidy
<1>10. LockIsHeld
  BY <1>3 DEF LockIsHeld, Errands, HoldsLock
<1>11. OneFlush /\ HasTask /\ WritesMine
  BY <1>3 DEF OneFlush, HasTask, WritesMine, Flushing, Late
<1>12. OneProcess
  BY <1>1, <1>2, <1>3, ProcessFacts DEF OneProcess
<1>13. Latest(file) \in Nat
  <2>1. file \in Copy
    BY <1>8 DEF JournalTypeOK
  <2>2. Latest(file) \in 0 .. MaxEvents /\ MaxEvents \in Nat
    BY <2>1, CopyFacts, JournalAssumption
  <2> QED
    BY <2>2
<1>14. MemoryIsAhead
  BY <1>2, <1>13, UnderWayFacts DEF MemoryIsAhead
<1>15. FileIsWhole /\ InTheFile
  BY <1>1, <1>2, <1>13, UnderWayFacts, StateFacts DEF FileIsWhole, InTheFile
<1> QED
  BY <1>1, <1>8, <1>9, <1>10, <1>11, <1>12, <1>14, <1>15 DEF JournalInv, Orderly

LEMMA JournalStepKeeps == JournalInv /\ [JournalNext]_journalVars => JournalInv'
<1> SUFFICES ASSUME JournalInv, [JournalNext]_journalVars
             PROVE  JournalInv'
  OBVIOUS
<1>1. ASSUME UNCHANGED journalVars
      PROVE  JournalInv'
  <2>1. UNCHANGED <<memory, file, spare, alive, deaths, calls, holder, at, todo, payload, handle, cursor,
                    skipped, exposed>>
    BY <1>1 DEF journalVars
  <2>2. JournalTypeOK' /\ skipped' # "the middle"
    BY <2>1 DEF JournalInv, JournalTypeOK
  <2>3. AllTidy' /\ LockIsHeld'
    BY <2>1 DEF JournalInv, AllTidy, LockIsHeld
  <2>4. ~ exposed' => Orderly'
    BY <2>1 DEF JournalInv, Orderly, OneFlush, OneProcess, HasTask, WritesMine, MemoryIsAhead,
                FileIsWhole, InTheFile, Mine
  <2> QED
    BY <2>2, <2>3, <2>4 DEF JournalInv
<1>2. CASE Quiet
  BY <1>1, <1>2 DEF Quiet
<1>3. CASE Die \/ ComeUp \/ OpenStore \/ CommandEnds \/ RemoveTask \/ EventsSince
  BY <1>3, DieKeeps, ComeUpKeeps, OpenStoreKeeps, CommandEndsKeeps, RemoveTaskKeeps, EventsSinceKeeps
<1>4. ASSUME NEW h \in Thread, Put(h) \/ SetLease(h) \/ Progressed(h)
      PROVE  JournalInv'
  BY <1>4, PutKeeps, SetLeaseKeeps, ProgressedKeeps
<1>5. ASSUME NEW h \in Thread, MoveOn(h) \/ CancelBeforeStart(h)
      PROVE  JournalInv'
  <2>1. alive /\ h \in Flusher /\ "cancelled" \in State
    BY <1>5, ProcessFacts DEF MoveOn, CancelBeforeStart, State
  <2>2. PICK to \in State, within \in BOOLEAN : Transition(h, to, within)
    BY <1>5, <2>1 DEF MoveOn, CancelBeforeStart
  <2> QED
    BY <2>1, <2>2, TransitionKeeps
<1>6. ASSUME NEW h \in Flusher, Reconcile(h)
      PROVE  JournalInv'
  <2>1. {"queued", "failed"} \subseteq State
    BY DEF State
  <2>2. PICK to \in State : Transition(h, to, TRUE)
    BY <1>6, <2>1 DEF Reconcile
  <2>3. IF h = Operator THEN TRUE ELSE alive
    BY <1>6 DEF Reconcile
  <2> QED
    BY <2>2, <2>3, TransitionKeeps
<1>7. ASSUME NEW h \in Flusher, Explain(h) \/ Unlock(h) \/ ReadTasks(h) \/ ReadEvents(h)
      PROVE  JournalInv'
  BY <1>7, ExplainKeeps, UnlockKeeps, ReadTasksKeeps, ReadEventsKeeps
<1>8. ASSUME NEW h \in Flusher, Open(h) \/ Fill(h) \/ Replace(h)
      PROVE  JournalInv'
  BY <1>8, OpenKeeps, FillKeeps, ReplaceKeeps
<1> QED
  BY <1>1, <1>2, <1>3, <1>4, <1>5, <1>6, <1>7, <1>8 DEF JournalNext

(* The invariant of the store: whatever order the threads, the command line and the
   deaths come in, every copy of the journal is without holes, the lock is held as
   the calls suppose, and as long as no two flushes have met the file follows the
   memory of the one process that runs *)
THEOREM JournalInvariant == JournalSpec => []JournalInv
<1> QED
  BY JournalInitHolds, JournalStepKeeps, PTL DEF JournalSpec

(* append_event, _flush, _load and events_since together: numbers have no holes,
   no reader loses an event of the middle unawares, and as long as one flush follows
   another a death anywhere leaves a file that can be read, agrees with itself and
   reaches as far as any reader has seen *)
THEOREM JournalKept == JournalSpec => []JournalIsKept
<1>1. JournalInv => JournalIsKept
  <2> SUFFICES ASSUME JournalInv
               PROVE  JournalIsKept
    OBVIOUS
  <2>1. \A c \in {memory["service"], memory["operator"], file} :
          Consecutive(c.hist) /\ Len(c.hist) <= Retention
    BY TidyIsConsecutive DEF JournalInv, JournalTypeOK, AllTidy
  <2>2. ASSUME ~ exposed
        PROVE  /\ file # Torn /\ Agrees(file)
               /\ alive => cursor <= Latest(memory["service"])
               /\ cursor <= Latest(file)
               /\ \A h \in Flusher : at[h] # "raised"
               /\ alive /\ Holds(memory["service"]) /\ AtRest => file = memory["service"]
    <3>1. Orderly
      BY <2>2 DEF JournalInv
    <3>2. file # Torn /\ Agrees(file)
      <4>1. Agrees(Missing)
        BY ContentFacts DEF Missing
      <4> QED
        BY <3>1, <4>1, StateFacts DEF Orderly, FileIsWhole
    <3>3. cursor <= Latest(file)
      BY <3>1 DEF Orderly, FileIsWhole
    <3>4. alive => Latest(file) <= Latest(memory["service"])
      <4>1. memory["service"] = Absent /\ alive => file = Missing
        BY <3>1 DEF Orderly, FileIsWhole
      <4> QED
        BY <3>1, <4>1, StateFacts DEF Orderly, MemoryIsAhead
    <3>5. alive => cursor <= Latest(memory["service"])
      <4>1. cursor \in 0 .. MaxEvents /\ file \in Copy /\ memory["service"] \in Copy
        BY DEF JournalInv, JournalTypeOK
      <4>2. Latest(file) \in 0 .. MaxEvents /\ Latest(memory["service"]) \in 0 .. MaxEvents /\ MaxEvents \in Nat
        BY <4>1, CopyFacts, JournalAssumption
      <4> QED
        BY <3>3, <3>4, <4>1, <4>2
    <3>6. alive /\ Holds(memory["service"]) /\ AtRest => file = memory["service"]
      BY <3>1, ProcessFacts DEF Orderly, InTheFile, AtRest, Late
    <3>7. \A h \in Flusher : at[h] # "raised"
      BY <3>1 DEF Orderly, HasTask
    <3> QED
      BY <3>2, <3>3, <3>5, <3>6, <3>7
  <2> QED
    BY <2>1, <2>2 DEF JournalInv, JournalIsKept
<1> QED
  BY <1>1, JournalInvariant, PTL

-----------------------------------------------------------------------------
(* A behaviour of the two parts side by side is one of each *)
LEMMA FileIsBoth == FileSpec => RestartSpec /\ JournalSpec
<1>1. FileInit => RestartInit /\ JournalInit
  BY DEF FileInit
<1>2. [FileNext]_<<focus, restartVars, journalVars>> =>
        [RestartNext]_restartVars /\ [JournalNext]_journalVars
  BY DEF FileNext
<1> QED
  BY <1>1, <1>2, PTL DEF FileSpec, RestartSpec, JournalSpec

(* The values of the state file, of the memory and of every call of the store that is
   under way (store.py, JsonTaskStore). *)
THEOREM FileTypeCorrect == FileSpec => []FileTypeOK
<1>1. JournalInv => JournalTypeOK
  BY DEF JournalInv
<1> QED
  BY <1>1, FileIsBoth, RestartTypeCorrect, JournalInvariant, PTL DEF FileTypeOK
=============================================================================
