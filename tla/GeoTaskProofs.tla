--------------------------- MODULE GeoTaskProofs ---------------------------
(***************************************************************************)
(* Theorems about GeoTask for every graph, every retry policy, every       *)
(* notion of capacity and both kinds of backend.                           *)
(***************************************************************************)
EXTENDS GeoTask, StepByStep

-----------------------------------------------------------------------------
(***************************************************************************)
(* The cascade.                                                            *)
(***************************************************************************)

(* What the cascade visits is itself closed under the step of the search. *)
LEMMA DownstreamClosed ==
  ASSUME NEW S \in SUBSET Task
  PROVE  Closed(S, Downstream(S))
<1> SUFFICES ASSUME NEW d \in Task,
                    state[d] \notin Satisfied,
                    Deps[d] \cap (S \cup Downstream(S)) # {},
                    NEW D \in SUBSET Task, Closed(S, D)
             PROVE  d \in D
  BY DEF Closed, Downstream
<1>1. Downstream(S) \subseteq D
  BY DEF Downstream
<1>2. Deps[d] \cap (S \cup D) # {}
  BY <1>1
<1> QED
  BY <1>2 DEF Closed

(* Whatever the cascade visits is unsatisfied and stands behind a source or behind
   something else the cascade visits. *)
LEMMA DownstreamBehind ==
  ASSUME NEW S \in SUBSET Task, NEW d \in Downstream(S)
  PROVE  /\ d \in Task
         /\ state[d] \notin Satisfied
         /\ Deps[d] \cap (S \cup Downstream(S)) # {}
<1> DEFINE behind(x) == /\ state[x] \notin Satisfied
                        /\ Deps[x] \cap (S \cup Downstream(S)) # {}
           D == {x \in Downstream(S) : behind(x)}
<1>1. Downstream(S) \subseteq Task
  BY DEF Downstream
<1>2. Closed(S, D)
  <2> SUFFICES ASSUME NEW x \in Task,
                      state[x] \notin Satisfied,
                      Deps[x] \cap (S \cup D) # {}
               PROVE  x \in D
    BY DEF Closed
  <2>1. behind(x)
    OBVIOUS
  <2>2. x \in Downstream(S)
    BY <2>1, DownstreamClosed DEF Closed
  <2> QED
    BY <2>1, <2>2
<1>3. D \in SUBSET Task
  BY <1>1
<1>4. d \in D
  BY <1>2, <1>3 DEF Downstream
<1> QED
  BY <1>1, <1>4

(* A task whose dependencies are all satisfied is out of reach of any cascade that
   starts from unsatisfied tasks. *)
LEMMA SuppliedOutOfReach ==
  ASSUME NEW S \in SUBSET Task, \A s \in S : state[s] \notin Satisfied,
         NEW t \in Task, DepsSatisfied(t)
  PROVE  t \notin Downstream(S)
  BY DownstreamBehind DEF DepsSatisfied

-----------------------------------------------------------------------------
(***************************************************************************)
(* What one step may do to the states and errors of the tasks.             *)
(***************************************************************************)

(* Ended tasks stay as they are, a task that newly fails leaves no dependent open, and
   whoever is blamed on an upstream has a lost one. *)
StoreStep ==
  /\ state' \in [Task -> State]
  /\ error' \in [Task -> Code \cup {"none"}]
  /\ \A t \in Task : state[t] \in Terminal => state'[t] = state[t]
  /\ \A t \in Task : state'[t] = "failed" /\ state[t] # "failed" =>
       \A d \in Dependents(t) : state'[d] \in Terminal
  /\ \A t \in Task : error'[t] = "upstream_failed" =>
       \/ error[t] = "upstream_failed"
       \/ /\ state'[t] = "failed"
          /\ \E d \in Deps[t] : state'[d] \in {"failed", "cancelled"}

(* The effect of mark_failed on the tasks of S: it fails what is still open of them and
   behind them, and leaves every task with complete inputs outside S alone. *)
LEMMA FailEffect ==
  ASSUME TypeOK,
         NEW S \in SUBSET Task, \A s \in S : state[s] \notin Satisfied,
         NEW code \in Code \ {"upstream_failed"},
         Fail(S, code)
  PROVE  /\ StoreStep
         /\ \A t \in Task : state'[t] \in {state[t], "failed"}
         /\ \A t \in Task \ S : DepsSatisfied(t) => state'[t] = state[t]
         /\ \A t \in S : state'[t] \in {"failed", "cancelled"}
         /\ \A t \in Task \ S : state'[t] # state[t] =>
              \E d \in Deps[t] : state'[d] \in {"failed", "cancelled"}
<1> DEFINE failing == {t \in S : state[t] \notin Terminal}
           sunk == Sunk(S) \ failing
<1>1. /\ state' = [t \in Task |-> IF t \in failing \cup sunk THEN "failed" ELSE state[t]]
      /\ error' = [t \in Task |-> IF t \in failing THEN code
                                  ELSE IF t \in sunk THEN "upstream_failed"
                                  ELSE error[t]]
  BY DEF Fail
<1>2. \A t \in failing \cup sunk : t \in Task /\ state[t] \notin Terminal
  BY DEF Sunk, Downstream
<1> HIDE DEF failing, sunk
<1>3. /\ state' \in [Task -> State]
      /\ error' \in [Task -> Code \cup {"none"}]
  BY <1>1 DEF TypeOK, State, Code
<1>4. \A t \in Task : state[t] \in Terminal => state'[t] = state[t]
  BY <1>1, <1>2
<1>5. \A t \in Task : state'[t] \in {state[t], "failed"}
  BY <1>1
<1>6. \A t \in Task \ S : DepsSatisfied(t) => state'[t] = state[t]
  BY <1>1, SuppliedOutOfReach DEF failing, sunk, Sunk
<1>7. \A t \in S \cup Downstream(S) : state'[t] \in {"failed", "cancelled"}
  <2> TAKE t \in S \cup Downstream(S)
  <2>1. t \in Task /\ state[t] \in State /\ state[t] \notin Satisfied
    BY DownstreamBehind DEF TypeOK
  <2>2. CASE state[t] \in Terminal
    BY <1>4, <2>1, <2>2 DEF Terminal, Satisfied
  <2>3. CASE state[t] \notin Terminal
    <3>1. t \in failing \cup sunk
      BY <2>1, <2>3 DEF failing, sunk, Sunk
    <3> QED
      BY <3>1, <2>1, <1>1
  <2> QED
    BY <2>2, <2>3
<1>8. ASSUME NEW t \in Task, state'[t] # state[t], NEW d \in Dependents(t)
      PROVE  state'[d] \in Terminal
  <2>1. t \in S \cup Downstream(S)
    BY <1>1, <1>8 DEF failing, sunk, Sunk
  <2>2. d \in Task /\ t \in Deps[d]
    BY DEF Dependents
  <2>3. CASE state[d] \in Satisfied
    BY <1>4, <2>2, <2>3 DEF Satisfied, Terminal
  <2>4. CASE state[d] \notin Satisfied
    <3>1. d \in Downstream(S)
      BY <2>1, <2>2, <2>4, DownstreamClosed DEF Closed
    <3> QED
      BY <3>1, <1>7 DEF Terminal
  <2> QED
    BY <2>3, <2>4
<1>9. ASSUME NEW t \in sunk
      PROVE  \E d \in Deps[t] : state'[d] \in {"failed", "cancelled"}
  <2>1. t \in Downstream(S)
    BY DEF sunk, Sunk
  <2>2. PICK d \in Deps[t] : d \in S \cup Downstream(S)
    BY <2>1, DownstreamBehind
  <2> QED
    BY <2>2, <1>7
<1>10. \A t \in Task \ S : state'[t] # state[t] =>
         \E d \in Deps[t] : state'[d] \in {"failed", "cancelled"}
  BY <1>1, <1>9 DEF failing
<1>11. StoreStep
  <2>1. \A t \in Task : error'[t] = "upstream_failed" =>
          \/ error[t] = "upstream_failed"
          \/ /\ state'[t] = "failed"
             /\ \E d \in Deps[t] : state'[d] \in {"failed", "cancelled"}
    BY <1>1, <1>9
  <2> QED
    BY <1>3, <1>4, <1>8, <2>1 DEF StoreStep
<1> QED
  BY <1>5, <1>6, <1>7, <1>10, <1>11

(* The effect of mark_cancelled on an unsatisfied task, said the same way. *)
LEMMA CancelEffect ==
  ASSUME TypeOK, NEW t \in Task, state[t] \notin Satisfied, Cancel(t)
  PROVE  /\ StoreStep
         /\ \A d \in Task \ {t} : state'[d] \in {state[d], "failed"}
         /\ \A d \in Task \ {t} : DepsSatisfied(d) => state'[d] = state[d]
         /\ state'[t] \in {"failed", "cancelled"}
         /\ \A d \in Task \ {t} : state'[d] # state[d] =>
              \E e \in Deps[d] : state'[e] \in {"failed", "cancelled"}
         /\ \A d \in Task : state'[d] # state[d] =>
              \A e \in Dependents(d) : state'[e] \in Terminal
<1>1. CASE state[t] \in Terminal
  BY <1>1 DEF Cancel, TypeOK, Satisfied, Terminal, StoreStep
<1>2. CASE state[t] \notin Terminal
  <2> DEFINE sunk == Sunk({t})
  <2>1. /\ state' = [d \in Task |-> IF d = t THEN "cancelled"
                                    ELSE IF d \in sunk THEN "failed" ELSE state[d]]
        /\ error' = [d \in Task |-> IF d \in sunk \ {t} THEN "upstream_failed" ELSE error[d]]
    BY <1>2 DEF Cancel
  <2>2. \A d \in sunk : d \in Task /\ d \in Downstream({t}) /\ state[d] \notin Terminal
    BY DEF Sunk, Downstream
  <2>3. \A d \in Downstream({t}) : state[d] \notin Terminal => d \in sunk
    BY DEF Sunk
  <2> HIDE DEF sunk
  <2>4. \A d \in Task : state[d] \in Terminal => state'[d] = state[d]
    BY <1>2, <2>1, <2>2
  <2>5. \A d \in {t} \cup Downstream({t}) : state'[d] \in {"failed", "cancelled"}
    <3> TAKE d \in {t} \cup Downstream({t})
    <3>1. d \in Task /\ state[d] \in State /\ state[d] \notin Satisfied
      BY DownstreamBehind DEF TypeOK
    <3>2. CASE d = t
      BY <3>2, <2>1
    <3>3. CASE d # t /\ state[d] \in Terminal
      BY <2>4, <3>1, <3>3 DEF Terminal, Satisfied
    <3>4. CASE d # t /\ state[d] \notin Terminal
      BY <2>1, <2>3, <3>1, <3>4
    <3> QED
      BY <3>2, <3>3, <3>4
  <2>6. ASSUME NEW d \in Task, state'[d] # state[d], NEW e \in Dependents(d)
        PROVE  state'[e] \in Terminal
    <3>1. d \in {t} \cup Downstream({t})
      BY <2>1, <2>2, <2>6
    <3>2. e \in Task /\ d \in Deps[e]
      BY DEF Dependents
    <3>3. CASE state[e] \in Satisfied
      BY <2>4, <3>2, <3>3 DEF Satisfied, Terminal
    <3>4. CASE state[e] \notin Satisfied
      <4>1. e \in Downstream({t})
        BY <3>1, <3>2, <3>4, DownstreamClosed DEF Closed
      <4> QED
        BY <4>1, <2>5 DEF Terminal
    <3> QED
      BY <3>3, <3>4
  <2>7. \A d \in Task \ {t} : DepsSatisfied(d) => state'[d] = state[d]
    <3> TAKE d \in Task \ {t}
    <3> HAVE DepsSatisfied(d)
    <3>1. d \notin Downstream({t})
      BY SuppliedOutOfReach
    <3> QED
      BY <3>1, <2>1, <2>2
  <2>8. ASSUME NEW d \in sunk \ {t}
        PROVE  \E e \in Deps[d] : state'[e] \in {"failed", "cancelled"}
    <3>1. PICK e \in Deps[d] : e \in {t} \cup Downstream({t})
      BY <2>2, DownstreamBehind
    <3> QED
      BY <3>1, <2>5
  <2>9. StoreStep
    <3>1. /\ state' \in [Task -> State]
          /\ error' \in [Task -> Code \cup {"none"}]
      BY <2>1 DEF TypeOK, State, Code
    <3>2. \A d \in Task : error'[d] = "upstream_failed" =>
            \/ error[d] = "upstream_failed"
            \/ /\ state'[d] = "failed"
               /\ \E e \in Deps[d] : state'[e] \in {"failed", "cancelled"}
      BY <2>1, <2>8
    <3> QED
      BY <3>1, <3>2, <2>4, <2>6 DEF StoreStep
  <2>10. /\ \A d \in Task \ {t} : state'[d] \in {state[d], "failed"}
         /\ \A d \in Task \ {t} : state'[d] # state[d] => d \in sunk \ {t}
    BY <2>1
  <2> QED
    BY <2>1, <2>6, <2>7, <2>8, <2>9, <2>10
<1> QED
  BY <1>1, <1>2

(* A step that moves single tasks without failing any and that blames nobody anew. *)
LEMMA PlainStep ==
  ASSUME state' \in [Task -> State],
         error' \in [Task -> Code \cup {"none"}],
         \A t \in Task : state[t] \in Terminal => state'[t] = state[t],
         \A t \in Task : state'[t] = "failed" => state[t] = "failed",
         \A t \in Task : error'[t] \in {error[t], "none"}
  PROVE  StoreStep
  BY DEF StoreStep

(* What a store step leaves true. *)
LEMMA StoreStepKeeps ==
  ASSUME TypeOK, BlameIsTrue, StoreStep
  PROVE  /\ FailFast => FailFast'
         /\ BlameIsTrue'
         /\ \A t \in Task : DepsSatisfied(t) => DepsSatisfied(t)'
<1>1. FailFast => FailFast'
  <2> SUFFICES ASSUME FailFast, NEW t \in Task, state'[t] = "failed", NEW d \in Dependents(t)
               PROVE  state'[d] \in Terminal
    BY DEF FailFast, Dependents
  <2>1. CASE state[t] = "failed"
    BY <2>1 DEF FailFast, StoreStep, Dependents
  <2>2. CASE state[t] # "failed"
    BY <2>2 DEF StoreStep
  <2> QED
    BY <2>1, <2>2
<1>2. BlameIsTrue'
  <2> SUFFICES ASSUME NEW t \in Task, error'[t] = "upstream_failed"
               PROVE  /\ state'[t] = "failed"
                      /\ \E d \in Deps[t] : state'[d] \in {"failed", "cancelled"}
    BY DEF BlameIsTrue
  <2>1. CASE error[t] = "upstream_failed"
    <3>1. PICK d \in Deps[t] : state[d] \in {"failed", "cancelled"}
      BY <2>1 DEF BlameIsTrue
    <3>2. d \in Task
      BY GraphAssumption
    <3> QED
      BY <2>1, <3>1, <3>2 DEF BlameIsTrue, StoreStep, Terminal
  <2>2. CASE error[t] # "upstream_failed"
    BY <2>2 DEF StoreStep
  <2> QED
    BY <2>1, <2>2
<1>3. \A t \in Task : DepsSatisfied(t) => DepsSatisfied(t)'
  BY GraphAssumption DEF DepsSatisfied, StoreStep, Satisfied, Terminal
<1> QED
  BY <1>1, <1>2, <1>3

(* The moves the runner asks for, on the states it may find. *)
LEMMA Moves ==
  /\ \A s \in Runnable : EnsureQueued(s) = "queued" /\ EnsureBlocked(s) = "blocked"
  /\ \A s \in Terminal : EnsureQueued(s) = s
  /\ \A s \in Terminal, to \in State : Move(s, to) = s
  /\ \A s \in Runnable \cup {"running"} : Move(s, "queued") = "queued"
  /\ Move("queued", "scheduled") = "scheduled"
  /\ Move("scheduled", "running") = "running"
  /\ Move("running", "succeeded") = "succeeded"
<1>1. \A s \in Terminal, to \in State : ~ CanTransition(s, to)
  BY DEF Terminal, State, CanTransition, Transitions
<1>2. /\ CanTransition("created", "queued")
      /\ CanTransition("blocked", "queued")
      /\ CanTransition("queued", "blocked")
      /\ CanTransition("running", "queued")
      /\ CanTransition("queued", "scheduled")
      /\ CanTransition("scheduled", "running")
      /\ CanTransition("running", "succeeded")
  BY DEF CanTransition, Transitions
<1>3. Move("queued", "queued") = "queued"
  BY DEF Move
<1>4. \A s \in Terminal, to \in State : Move(s, to) = s
  BY <1>1 DEF Move
<1>5. \A s \in Runnable \cup {"running"} : Move(s, "queued") = "queued"
  BY <1>2, <1>3 DEF Move, Runnable
<1>6. \A s \in Runnable : EnsureQueued(s) = "queued"
  BY <1>5 DEF EnsureQueued, Runnable
<1>7. \A s \in Runnable : EnsureBlocked(s) = "blocked"
  BY <1>2, <1>6 DEF EnsureBlocked, Move
<1> QED
  BY <1>2, <1>4, <1>5, <1>6, <1>7 DEF Move, EnsureQueued, Terminal

(* What giving up on t leaves behind. *)
LEMMA GiveUpEffect ==
  ASSUME TypeOK, AttemptsBounded,
         NEW t \in Task, state[t] \in Runnable \cup {"running", "cancelled"},
         NEW code \in Code \ {"upstream_failed"},
         GiveUp(t, code)
  PROVE  /\ StoreStep
         /\ attempt' \in [Task -> Nat]
         /\ AttemptsBounded'
         /\ cancelReq' \in [Task -> BOOLEAN]
         /\ leased' \subseteq Task
         /\ deferred' \subseteq Task
         /\ state'[t] \in {"failed", "cancelled"}
         /\ \A d \in Task \ {t} : state'[d] \in {state[d], "failed"}
         /\ \A d \in Task \ {t} : DepsSatisfied(d) => state'[d] = state[d]
<1>1. Fail({t}, code) /\ UNCHANGED <<attempt, cancelReq, leased>> /\ deferred' = deferred \ {t}
  BY DEF GiveUp
<1>2. \A s \in {t} : state[s] \notin Satisfied
  BY DEF Satisfied, Runnable
<1>3. /\ StoreStep
      /\ \A d \in Task : state'[d] \in {state[d], "failed"}
      /\ \A d \in Task \ {t} : DepsSatisfied(d) => state'[d] = state[d]
      /\ state'[t] \in {"failed", "cancelled"}
  BY <1>1, <1>2, FailEffect
<1>4. /\ attempt' \in [Task -> Nat]
      /\ AttemptsBounded'
      /\ cancelReq' \in [Task -> BOOLEAN]
      /\ leased' \subseteq Task
      /\ deferred' \subseteq Task
  BY <1>1 DEF TypeOK, AttemptsBounded
<1> QED
  BY <1>3, <1>4

(* What applying a failed outcome to t leaves behind. *)
LEMMA ApplyFailureEffect ==
  ASSUME TypeOK, AttemptsBounded,
         NEW t \in Task, state[t] \in Runnable \cup {"running", "cancelled"},
         NEW code \in Code \ {"upstream_failed"},
         ApplyFailure(t, code)
  PROVE  /\ StoreStep
         /\ attempt' \in [Task -> Nat]
         /\ AttemptsBounded'
         /\ cancelReq' \in [Task -> BOOLEAN]
         /\ leased' \subseteq Task
         /\ deferred' \subseteq Task
         /\ state'[t] \in {"queued", "failed", "cancelled"}
         /\ \A d \in Task \ {t} : state'[d] \in {state[d], "failed"}
         /\ \A d \in Task \ {t} : DepsSatisfied(d) => state'[d] = state[d]
<1>1. CASE MayRetry(t, code) /\ Retry(t)
  <2>1. state' = [state EXCEPT ![t] = Move(@, "queued")]
    BY <1>1 DEF Retry
  <2>2. /\ state[t] = "cancelled" => state'[t] = "cancelled"
        /\ state[t] # "cancelled" => state'[t] = "queued"
    BY <2>1, Moves DEF TypeOK, Terminal, State
  <2>3. error' \in [Task -> Code \cup {"none"}] /\ cancelReq' \in [Task -> BOOLEAN]
    BY <1>1 DEF Retry, TypeOK
  <2>4. \A d \in Task : error'[d] \in {error[d], "none"}
    BY <1>1 DEF Retry, TypeOK
  <2>5. state' \in [Task -> State]
    BY <2>1, <2>2 DEF TypeOK, State
  <2>6. StoreStep
    <3>1. \A d \in Task : state[d] \in Terminal => state'[d] = state[d]
      BY <2>1, <2>2 DEF TypeOK, Terminal, Runnable
    <3>2. \A d \in Task : state'[d] = "failed" => state[d] = "failed"
      BY <2>1, <2>2 DEF TypeOK
    <3> QED
      BY <2>3, <2>4, <2>5, <3>1, <3>2, PlainStep
  <2>7. attempt' \in [Task -> Nat] /\ AttemptsBounded'
    BY <1>1, PolicyAssumption
       DEF Retry, MayRetry, AllowsAnotherAttempt, AttemptsBounded, TypeOK
  <2>8. leased' \subseteq Task /\ deferred' \subseteq Task
    BY <1>1 DEF Retry, TypeOK
  <2> QED
    BY <2>1, <2>2, <2>3, <2>6, <2>7, <2>8 DEF TypeOK
<1>2. CASE GiveUp(t, code)
  BY <1>2, GiveUpEffect
<1> QED
  BY <1>1, <1>2 DEF ApplyFailure

(* What is started after a step was supplied before it. *)
StartsSupplied == \A t \in Task : Started(t)' => DepsSatisfied(t)

(* What every step of every thread is; it lets no task stray that did not. *)
GoodStep == StoreStep /\ StartsSupplied /\ Strays' \subseteq Strays

(* The parts that make up the next instance of the inductive invariant. *)
LEMMA Assemble ==
  ASSUME Core, StoreStep, Strays' \subseteq Strays, TypeOK', Positions',
         \A t \in Task : Started(t)' => DepsSatisfied(t),
         LedgerExact', CapacityRespected', AttemptsBounded', OneExecutionAtATime'
  PROVE  GoodStep /\ Core'
  BY StoreStepKeeps DEF Core, DependenciesFirst, GoodStep, StartsSupplied

-----------------------------------------------------------------------------
(***************************************************************************)
(* The inductive invariant, action by action.                              *)
(***************************************************************************)

LEMMA InitKeeps == Init => IInv
<1> SUFFICES ASSUME Init PROVE IInv
  OBVIOUS
<1>1. TypeOK
  BY DEF Init, TypeOK, State, Satisfied, Pc, Body
<1>2. Positions
  BY DEF Init, Positions, Satisfied
<1>3. DependenciesFirst
  BY DEF Init, DependenciesFirst, Started, Satisfied
<1>4. LedgerExact /\ CapacityRespected
  BY FitsAssumption DEF Init, LedgerExact, CapacityRespected
<1>5. FailFast /\ BlameIsTrue
  BY DEF Init, FailFast, BlameIsTrue, Satisfied
<1>6. AttemptsBounded /\ OneExecutionAtATime
  BY PolicyAssumption DEF Init, AttemptsBounded, OneExecutionAtATime
<1>7. Strays = {}
  BY DEF Init, Strays, Satisfied
<1> QED
  BY <1>1, <1>2, <1>3, <1>4, <1>5, <1>6, <1>7 DEF IInv, Core

LEMMA AdmitKeeps ==
  ASSUME Core, Admit
  PROVE  GoodStep /\ Core'
<1>1. PICK A \in SUBSET Candidates :
        /\ Admissible(A)
        /\ state' = [t \in Task |-> IF t \in (Ready \ Rejected) \ A
                                   THEN EnsureBlocked(state[t]) ELSE state[t]]
        /\ held' = held \cup A
        /\ round' = A
  BY DEF Admit
<1>2. /\ pc = "admit"
      /\ refused' = Rejected
      /\ pc' = "refuse"
      /\ UNCHANGED <<attempt, cancelReq, error, leased, deferred, current, inFlight, body, orphans>>
  BY DEF Admit, backendVars
<1>3. TypeOK /\ Positions /\ LedgerExact /\ AttemptsBounded /\ OneExecutionAtATime
      /\ DependenciesFirst
  BY DEF Core
<1>4. /\ A \subseteq Ready /\ Rejected \subseteq Ready /\ A \cap Rejected = {}
      /\ \A t \in Ready : t \in Task /\ state[t] \in Runnable /\ DepsSatisfied(t)
  BY DEF Candidates, Rejected, Ready
<1>5. \A t \in Task : \/ state'[t] = state[t]
                      \/ state[t] \in Runnable /\ state'[t] = "blocked"
  BY <1>1, <1>4, Moves
<1>6. state' \in [Task -> State]
  BY <1>1, <1>3, <1>5 DEF TypeOK, State
<1>7. StoreStep
  BY <1>2, <1>3, <1>5, <1>6, PlainStep DEF TypeOK, Terminal, Runnable
<1>8. TypeOK'
  BY <1>1, <1>2, <1>3, <1>4, <1>6 DEF TypeOK, Pc
<1>9. round = {}
  BY <1>2, <1>3 DEF Positions
<1>10. Positions'
  <2>1. \A t \in A \cup Rejected : t \notin inFlight /\ state'[t] \in Runnable
    BY <1>3, <1>4, <1>5 DEF Positions, Runnable
  <2>2. \A t \in inFlight : state'[t] \in {"running", "cancelled"}
    BY <1>3, <1>5 DEF Positions, Runnable, TypeOK
  <2>3. \A t \in Task : body[t] # "none" => t \in inFlight
    BY <1>2, <1>3 DEF Positions
  <2> QED
    BY <1>1, <1>2, <1>4, <2>1, <2>2, <2>3 DEF Positions
<1>11. \A t \in Task : Started(t)' => DepsSatisfied(t)
  BY <1>1, <1>2, <1>3, <1>4, <1>5 DEF Started, DependenciesFirst
<1>12. LedgerExact' /\ CapacityRespected'
  BY <1>1, <1>2, <1>3, <1>9 DEF LedgerExact, CapacityRespected, Admissible
<1>13. AttemptsBounded' /\ OneExecutionAtATime'
  BY <1>2, <1>3 DEF AttemptsBounded, OneExecutionAtATime
<1>14. Strays' \subseteq Strays
  BY <1>1, <1>2, <1>4, <1>5, <1>9 DEF Strays
<1> QED
  BY <1>7, <1>8, <1>10, <1>11, <1>12, <1>13, <1>14, Assemble

LEMMA RefuseKeeps ==
  ASSUME Core, Refuse
  PROVE  GoodStep /\ Core'
<1>1. /\ pc = "refuse"
      /\ Fail(refused, "no_compatible_compute")
      /\ deferred' = deferred \ refused
      /\ refused' = {}
      /\ pc' = "launch"
      /\ UNCHANGED <<attempt, cancelReq, leased, held, round, current, inFlight, body, orphans>>
  BY DEF Refuse, backendVars
<1>2. TypeOK /\ Positions /\ LedgerExact /\ AttemptsBounded /\ OneExecutionAtATime
      /\ DependenciesFirst /\ CapacityRespected
  BY DEF Core
<1>3. /\ refused \subseteq Task
      /\ \A s \in refused : state[s] \notin Satisfied
      /\ "no_compatible_compute" \in Code \ {"upstream_failed"}
  BY <1>2 DEF TypeOK, Positions, Satisfied, Runnable, Code
<1>4. /\ StoreStep
      /\ \A t \in Task : state'[t] \in {state[t], "failed"}
      /\ \A t \in Task \ refused : DepsSatisfied(t) => state'[t] = state[t]
  BY <1>1, <1>2, <1>3, FailEffect
<1>5. \A t \in round \cup inFlight : state'[t] = state[t]
  BY <1>1, <1>2, <1>4 DEF Positions, DependenciesFirst, Started, TypeOK
<1>6. TypeOK'
  BY <1>1, <1>2, <1>4 DEF TypeOK, StoreStep, Pc
<1>7. Positions'
  BY <1>1, <1>2, <1>4, <1>5 DEF Positions, TypeOK
<1>8. \A t \in Task : Started(t)' => DepsSatisfied(t)
  BY <1>1, <1>2, <1>4 DEF Started, DependenciesFirst
<1>9. LedgerExact' /\ CapacityRespected' /\ AttemptsBounded' /\ OneExecutionAtATime'
  BY <1>1, <1>2 DEF LedgerExact, CapacityRespected, AttemptsBounded, OneExecutionAtATime
<1>10. Strays' \subseteq Strays
  BY <1>1, <1>4 DEF Strays
<1> QED
  BY <1>4, <1>6, <1>7, <1>8, <1>9, <1>10, Assemble

LEMMA LaunchCancelledKeeps ==
  ASSUME Core, NEW t \in Task, LaunchCancelled(t)
  PROVE  GoodStep /\ Core'
<1>1. /\ pc = "launch"
      /\ t \in round
      /\ Cancel(t)
      /\ held' = held \ {t}
      /\ round' = round \ {t}
      /\ UNCHANGED <<attempt, cancelReq, leased, deferred, pc, refused, current, inFlight,
                     body, orphans>>
  BY DEF LaunchCancelled, backendVars
<1>2. TypeOK /\ Positions /\ LedgerExact /\ AttemptsBounded /\ OneExecutionAtATime
      /\ DependenciesFirst /\ CapacityRespected
  BY DEF Core
<1>3. state[t] \in Runnable \cup {"cancelled"} /\ refused = {} /\ t \notin inFlight
  BY <1>1, <1>2 DEF Positions
<1>4. state[t] \notin Satisfied
  BY <1>3 DEF Satisfied, Runnable
<1>5. /\ StoreStep
      /\ \A d \in Task \ {t} : state'[d] \in {state[d], "failed"}
      /\ \A d \in Task \ {t} : DepsSatisfied(d) => state'[d] = state[d]
      /\ state'[t] \in {"failed", "cancelled"}
  BY <1>1, <1>2, <1>4, CancelEffect
<1>6. \A d \in (round \cup inFlight) \ {t} : state'[d] = state[d]
  BY <1>2, <1>5 DEF DependenciesFirst, Started, TypeOK
<1>7. TypeOK'
  BY <1>1, <1>2, <1>5 DEF TypeOK, StoreStep
<1>8. Positions'
  BY <1>1, <1>2, <1>3, <1>5, <1>6 DEF Positions, TypeOK
<1>9. \A d \in Task : Started(d)' => DepsSatisfied(d)
  BY <1>1, <1>2, <1>5 DEF Started, DependenciesFirst
<1>10. LedgerExact' /\ CapacityRespected'
  BY <1>1, <1>2, <1>3, FitsAssumption DEF LedgerExact, CapacityRespected, TypeOK
<1>11. AttemptsBounded' /\ OneExecutionAtATime'
  BY <1>1, <1>2 DEF AttemptsBounded, OneExecutionAtATime
<1>12. Strays' \subseteq Strays
  BY <1>1, <1>5 DEF Strays
<1> QED
  BY <1>5, <1>7, <1>8, <1>9, <1>10, <1>11, <1>12, Assemble

(* A step that touches neither the tasks nor the reservations keeps whatever is only
   about them. *)
LEMMA QuietStep ==
  ASSUME Core, UNCHANGED <<state, error, attempt, held, orphans>>,
         TypeOK', Positions', round' \cup inFlight' = round \cup inFlight
  PROVE  GoodStep /\ Core'
<1>1. StoreStep
  BY PlainStep DEF Core, TypeOK
<1>2. \A t \in Task : Started(t)' => DepsSatisfied(t)
  BY DEF Core, DependenciesFirst, Started
<1>3. LedgerExact' /\ CapacityRespected' /\ AttemptsBounded' /\ OneExecutionAtATime'
  BY DEF Core, LedgerExact, CapacityRespected, AttemptsBounded, OneExecutionAtATime
<1>4. Strays' \subseteq Strays
  BY DEF Strays
<1> QED
  BY <1>1, <1>2, <1>3, <1>4, Assemble

(* The steps of run() that only look: should_stop, the end of a round, the idle check. *)
LEMMA LookingKeeps ==
  ASSUME Core, Stop \/ RoundDone \/ Idle
  PROVE  GoodStep /\ Core'
<1>1. UNCHANGED <<state, attempt, cancelReq, error, leased, held, deferred, refused, round,
                  current, inFlight, body, orphans>>
  BY DEF Stop, RoundDone, Idle, storeVars, backendVars
<1>2. TypeOK /\ Positions
  BY DEF Core
<1>3. TypeOK'
  BY <1>1, <1>2 DEF TypeOK, Pc, Stop, RoundDone, Idle
<1>4. Positions'
  <2>1. /\ pc \in {"admit", "launch", "idle"} /\ round = {}
        /\ pc' \in {"stopped", "idle", "wait", "done", "admit"}
    BY <1>2 DEF Stop, RoundDone, Idle, Positions
  <2>2. refused = {}
    BY <1>2, <2>1 DEF Positions
  <2>3. \A d \in Task : body[d] # "none" => d \in inFlight
    BY <1>2, <2>1 DEF Positions
  <2> QED
    BY <1>1, <1>2, <2>1, <2>2, <2>3 DEF Positions
<1> QED
  BY <1>1, <1>3, <1>4, QuietStep

(* The poll that finds something to collect. *)
LEMMA WaitAnyKeeps ==
  ASSUME Core, NEW t \in Task, WaitAny(t)
  PROVE  GoodStep /\ Core'
<1>1. /\ pc = "wait" /\ t \in inFlight /\ (body[t] # "running" \/ Flaky)
      /\ current' = t /\ pc' = "collect"
      /\ UNCHANGED <<state, attempt, cancelReq, error, leased, held, deferred, refused, round,
                     inFlight, body, orphans>>
  BY DEF WaitAny, storeVars, backendVars
<1>2. TypeOK /\ Positions
  BY DEF Core
<1>3. TypeOK'
  BY <1>1, <1>2 DEF TypeOK, Pc
<1>4. Positions'
  <2>1. refused = {} /\ round = {}
    BY <1>1, <1>2 DEF Positions
  <2>2. \A d \in Task : body[d] # "none" => d \in inFlight
    BY <1>1, <1>2 DEF Positions
  <2> QED
    BY <1>1, <1>2, <2>1, <2>2 DEF Positions
<1> QED
  BY <1>1, <1>3, <1>4, QuietStep

LEMMA ClaimKeeps ==
  ASSUME Core, NEW t \in Task, Claim(t)
  PROVE  GoodStep /\ Core'
<1>1. /\ pc = "launch" /\ t \in round
      /\ leased' = leased \cup {t} /\ current' = t /\ pc' = "submit"
      /\ UNCHANGED <<state, attempt, cancelReq, error, held, deferred, refused, round,
                     inFlight, body, orphans>>
  BY DEF Claim, backendVars
<1>2. TypeOK /\ Positions
  BY DEF Core
<1>3. TypeOK'
  BY <1>1, <1>2 DEF TypeOK, Pc
<1>4. Positions'
  BY <1>1, <1>2 DEF Positions
<1> QED
  BY <1>1, <1>3, <1>4, QuietStep

LEMMA SubmitKeeps ==
  ASSUME Core, NEW t \in Task, Submit(t)
  PROVE  GoodStep /\ Core'
<1>1. /\ pc = "submit" /\ t = current /\ pc' = "schedule"
      /\ body' = [body EXCEPT ![t] = IF t \in Unhandled THEN "badspec" ELSE "running"]
      /\ UNCHANGED <<state, attempt, cancelReq, error, leased, held, deferred, refused, round,
                     current, inFlight, orphans>>
  BY DEF Submit, storeVars
<1>2. TypeOK /\ Positions
  BY DEF Core
<1>3. TypeOK'
  BY <1>1, <1>2 DEF TypeOK, Pc, Body
<1>4. Positions'
  <2>1. \A d \in Task : body'[d] # "none" => d \in inFlight \/ d = current
    BY <1>1, <1>2 DEF Positions, TypeOK
  <2> QED
    BY <1>1, <1>2, <2>1 DEF Positions
<1> QED
  BY <1>1, <1>3, <1>4, QuietStep

LEMMA SubmitRaisesKeeps ==
  ASSUME Core, NEW t \in Task, SubmitRaises(t)
  PROVE  GoodStep /\ Core'
<1>1. /\ Flaky /\ pc = "submit" /\ t = current
      /\ ApplyFailure(t, "execution_error")
      /\ held' = held \ {t} /\ round' = round \ {t}
      /\ current' = NoTask /\ pc' = "launch"
      /\ UNCHANGED <<refused, inFlight, body, orphans>>
  BY DEF SubmitRaises, backendVars
<1>2. TypeOK /\ Positions /\ LedgerExact /\ AttemptsBounded /\ OneExecutionAtATime
      /\ DependenciesFirst /\ CapacityRespected
  BY DEF Core
<1>3. /\ t \in round /\ t \notin inFlight /\ refused = {}
      /\ state[t] \in Runnable \cup {"cancelled"}
      /\ "execution_error" \in Code \ {"upstream_failed"}
  BY <1>1, <1>2 DEF Positions, Code
<1>4. /\ StoreStep
      /\ attempt' \in [Task -> Nat]
      /\ AttemptsBounded'
      /\ cancelReq' \in [Task -> BOOLEAN]
      /\ leased' \subseteq Task
      /\ deferred' \subseteq Task
      /\ state'[t] \in {"queued", "failed", "cancelled"}
      /\ \A d \in Task \ {t} : state'[d] \in {state[d], "failed"}
      /\ \A d \in Task \ {t} : DepsSatisfied(d) => state'[d] = state[d]
  BY <1>1, <1>2, <1>3, ApplyFailureEffect
<1>5. \A d \in (round \cup inFlight) \ {t} : state'[d] = state[d]
  BY <1>2, <1>4 DEF DependenciesFirst, Started, TypeOK
<1>6. TypeOK'
  BY <1>1, <1>2, <1>4 DEF TypeOK, StoreStep, Pc
<1>7. Positions'
  <2>1. \A d \in round \ {t} : state'[d] \in Runnable \cup {"cancelled"}
    BY <1>1, <1>2, <1>5 DEF Positions
  <2>2. \A d \in inFlight : state'[d] \in {"running", "cancelled"}
    BY <1>2, <1>3, <1>5 DEF Positions
  <2>3. \A d \in Task : body[d] # "none" => d \in inFlight
    BY <1>1, <1>2 DEF Positions
  <2> QED
    BY <1>1, <1>2, <1>3, <2>1, <2>2, <2>3 DEF Positions
<1>8. \A d \in Task : Started(d)' => DepsSatisfied(d)
  BY <1>1, <1>2, <1>4 DEF Started, DependenciesFirst
<1>9. LedgerExact' /\ CapacityRespected'
  BY <1>1, <1>2, <1>3, FitsAssumption DEF LedgerExact, CapacityRespected, TypeOK
<1>10. OneExecutionAtATime'
  BY <1>1 DEF OneExecutionAtATime
<1>11. Strays' \subseteq Strays
  BY <1>1, <1>4 DEF Strays
<1> QED
  BY <1>4, <1>6, <1>7, <1>8, <1>9, <1>10, <1>11, Assemble

LEMMA MarkScheduledKeeps ==
  ASSUME Core, NEW t \in Task, MarkScheduled(t)
  PROVE  GoodStep /\ Core'
<1>1. /\ pc = "schedule" /\ t = current /\ pc' = "run"
      /\ state' = [state EXCEPT ![t] = Move(EnsureQueued(@), "scheduled")]
      /\ UNCHANGED <<attempt, cancelReq, error, leased, held, deferred, refused, round,
                     current, inFlight, body, orphans>>
  BY DEF MarkScheduled, backendVars
<1>2. TypeOK /\ Positions /\ LedgerExact /\ AttemptsBounded /\ OneExecutionAtATime
      /\ DependenciesFirst /\ CapacityRespected
  BY DEF Core
<1>3. /\ t \in round /\ t \notin inFlight /\ refused = {}
      /\ state[t] \in Runnable \cup {"cancelled"}
  BY <1>1, <1>2 DEF Positions
<1>4. /\ state[t] \in Runnable => state'[t] = "scheduled"
      /\ state[t] = "cancelled" => state'[t] = "cancelled"
      /\ \A d \in Task \ {t} : state'[d] = state[d]
  BY <1>1, <1>2, Moves DEF TypeOK, Terminal, State
<1>5. state' \in [Task -> State]
  BY <1>1, <1>2, <1>3, <1>4 DEF TypeOK, State
<1>6. StoreStep
  BY <1>1, <1>2, <1>3, <1>4, <1>5, PlainStep DEF TypeOK, Terminal, Runnable
<1>7. TypeOK'
  BY <1>1, <1>2, <1>5 DEF TypeOK, Pc
<1>8. Positions'
  <2>1. \A d \in round : state'[d] \in IF d = t THEN {"scheduled", "cancelled"}
                                       ELSE Runnable \cup {"cancelled"}
    BY <1>1, <1>2, <1>3, <1>4 DEF Positions, TypeOK
  <2>2. \A d \in inFlight : state'[d] \in {"running", "cancelled"}
    BY <1>2, <1>3, <1>4 DEF Positions, TypeOK
  <2> QED
    BY <1>1, <1>2, <1>3, <2>1, <2>2 DEF Positions
<1>9. \A d \in Task : Started(d)' => DepsSatisfied(d)
  BY <1>1, <1>2, <1>3, <1>4 DEF Started, DependenciesFirst
<1>10. LedgerExact' /\ CapacityRespected' /\ AttemptsBounded' /\ OneExecutionAtATime'
  BY <1>1, <1>2 DEF LedgerExact, CapacityRespected, AttemptsBounded, OneExecutionAtATime
<1>11. Strays' \subseteq Strays
  BY <1>1, <1>3, <1>4 DEF Strays
<1> QED
  BY <1>6, <1>7, <1>8, <1>9, <1>10, <1>11, Assemble

LEMMA MarkRunningKeeps ==
  ASSUME Core, NEW t \in Task, MarkRunning(t)
  PROVE  GoodStep /\ Core'
<1>1. /\ pc = "run" /\ t = current /\ pc' = "launch" /\ current' = NoTask
      /\ state' = [state EXCEPT ![t] = Move(@, "running")]
      /\ inFlight' = inFlight \cup {t} /\ round' = round \ {t}
      /\ UNCHANGED <<attempt, cancelReq, error, leased, held, deferred, refused, body, orphans>>
  BY DEF MarkRunning, backendVars
<1>2. TypeOK /\ Positions /\ LedgerExact /\ AttemptsBounded /\ OneExecutionAtATime
      /\ DependenciesFirst /\ CapacityRespected
  BY DEF Core
<1>3. /\ t \in round /\ refused = {}
      /\ state[t] \in {"scheduled", "cancelled"}
  BY <1>1, <1>2 DEF Positions
<1>4. /\ state[t] = "scheduled" => state'[t] = "running"
      /\ state[t] = "cancelled" => state'[t] = "cancelled"
      /\ \A d \in Task \ {t} : state'[d] = state[d]
  BY <1>1, <1>2, Moves DEF TypeOK, Terminal, State
<1>5. state' \in [Task -> State]
  BY <1>1, <1>2, <1>3, <1>4 DEF TypeOK, State
<1>6. StoreStep
  BY <1>1, <1>2, <1>3, <1>4, <1>5, PlainStep DEF TypeOK, Terminal
<1>7. TypeOK'
  BY <1>1, <1>2, <1>5 DEF TypeOK, Pc
<1>8. Positions'
  <2>1. \A d \in round' : state'[d] \in Runnable \cup {"cancelled"}
    BY <1>1, <1>2, <1>4 DEF Positions, TypeOK
  <2>2. \A d \in inFlight' : state'[d] \in {"running", "cancelled"}
    BY <1>1, <1>2, <1>3, <1>4 DEF Positions, TypeOK
  <2>3. \A d \in Task : body[d] # "none" => d \in inFlight'
    BY <1>1, <1>2 DEF Positions
  <2> QED
    BY <1>1, <1>2, <1>3, <2>1, <2>2, <2>3 DEF Positions
<1>9. \A d \in Task : Started(d)' => DepsSatisfied(d)
  BY <1>1, <1>2, <1>3, <1>4 DEF Started, DependenciesFirst
<1>10. LedgerExact' /\ CapacityRespected' /\ AttemptsBounded' /\ OneExecutionAtATime'
  BY <1>1, <1>2, <1>3 DEF LedgerExact, CapacityRespected, AttemptsBounded, OneExecutionAtATime
<1>11. Strays' \subseteq Strays
  BY <1>1, <1>3, <1>4 DEF Strays
<1> QED
  BY <1>6, <1>7, <1>8, <1>9, <1>10, <1>11, Assemble

(* What every way of collecting t does besides settling it. *)
LEMMA CollectKeeps ==
  ASSUME Core, NEW t \in Task, Collect(t),
         StoreStep,
         attempt' \in [Task -> Nat], AttemptsBounded',
         cancelReq' \in [Task -> BOOLEAN],
         leased' \subseteq Task, deferred' \subseteq Task,
         state'[t] \notin {"scheduled", "running"},
         state'[t] = "succeeded" => state[t] = "running",
         \A d \in Task \ {t} : state'[d] \in {state[d], "failed"},
         \A d \in Task \ {t} : DepsSatisfied(d) => state'[d] = state[d]
  PROVE  GoodStep /\ Core'
<1>1. /\ pc = "collect" /\ t = current /\ pc' = "admit" /\ current' = NoTask
      /\ held' = held \ {t} /\ inFlight' = inFlight \ {t}
      /\ body' = [body EXCEPT ![t] = "none"]
      /\ orphans' = [orphans EXCEPT ![t] = IF body[t] = "running" THEN @ + 1 ELSE @]
      /\ UNCHANGED <<refused, round>>
  BY DEF Collect
<1>2. TypeOK /\ Positions /\ LedgerExact /\ OneExecutionAtATime
      /\ DependenciesFirst /\ CapacityRespected
  BY DEF Core
<1>3. /\ t \in inFlight /\ round = {} /\ refused = {}
      /\ ~ Flaky => body[t] # "running"
  BY <1>1, <1>2 DEF Positions
<1>4. TypeOK'
  BY <1>1, <1>2 DEF TypeOK, StoreStep, Pc, Body
<1>5. Positions'
  <2>1. \A d \in inFlight' : state'[d] \in {"running", "cancelled"}
    <3> TAKE d \in inFlight'
    <3>1. d \in inFlight \ {t} /\ d \in Task
      BY <1>1, <1>2 DEF TypeOK
    <3>2. DepsSatisfied(d)
      BY <1>2, <3>1 DEF DependenciesFirst, Started
    <3> QED
      BY <1>2, <3>1, <3>2 DEF Positions
  <2>2. \A d \in Task : body'[d] # "none" => d \in inFlight'
    BY <1>1, <1>2 DEF Positions, TypeOK
  <2> QED
    BY <1>1, <1>2, <1>3, <2>1, <2>2 DEF Positions
<1>6. \A d \in Task : Started(d)' => DepsSatisfied(d)
  <2> TAKE d \in Task
  <2> HAVE Started(d)'
  <2>1. CASE d = t
    BY <1>2, <1>3, <2>1 DEF DependenciesFirst, Started
  <2>2. CASE d # t
    BY <1>1, <1>2, <2>2 DEF DependenciesFirst, Started
  <2> QED
    BY <2>1, <2>2
<1>7. LedgerExact' /\ CapacityRespected'
  BY <1>1, <1>2, <1>3, FitsAssumption DEF LedgerExact, CapacityRespected, TypeOK
<1>8. OneExecutionAtATime'
  BY <1>1, <1>2, <1>3 DEF OneExecutionAtATime, TypeOK
<1>9. Strays' \subseteq Strays
  BY <1>1, <1>3 DEF Strays
<1> QED
  BY <1>4, <1>5, <1>6, <1>7, <1>8, <1>9, Assemble

LEMMA CollectSuccessKeeps ==
  ASSUME Core, NEW t \in Task, CollectSuccess(t)
  PROVE  GoodStep /\ Core'
<1>1. /\ Collect(t)
      /\ state' = [state EXCEPT ![t] = Move(@, "succeeded")]
      /\ UNCHANGED <<attempt, cancelReq, error, leased, deferred>>
  BY DEF CollectSuccess
<1>2. TypeOK /\ Positions /\ AttemptsBounded
  BY DEF Core
<1>3. state[t] \in {"running", "cancelled"}
  BY <1>1, <1>2 DEF Collect, Positions
<1>4. /\ state[t] = "running" => state'[t] = "succeeded"
      /\ state[t] = "cancelled" => state'[t] = "cancelled"
      /\ \A d \in Task \ {t} : state'[d] = state[d]
  BY <1>1, <1>2, Moves DEF TypeOK, Terminal, State
<1>5. state' \in [Task -> State]
  BY <1>1, <1>2, <1>3, <1>4 DEF TypeOK, State
<1>6. StoreStep
  BY <1>1, <1>2, <1>3, <1>4, <1>5, PlainStep DEF TypeOK, Terminal
<1>7. /\ attempt' \in [Task -> Nat] /\ AttemptsBounded'
      /\ cancelReq' \in [Task -> BOOLEAN]
      /\ leased' \subseteq Task /\ deferred' \subseteq Task
  BY <1>1, <1>2 DEF TypeOK, AttemptsBounded
<1> QED
  BY <1>1, <1>3, <1>4, <1>6, <1>7, CollectKeeps

LEMMA CollectCancelledKeeps ==
  ASSUME Core, NEW t \in Task, CollectCancelled(t)
  PROVE  GoodStep /\ Core'
<1>1. /\ Collect(t) /\ Cancel(t)
      /\ UNCHANGED <<attempt, cancelReq, leased, deferred>>
  BY DEF CollectCancelled
<1>2. TypeOK /\ Positions /\ AttemptsBounded
  BY DEF Core
<1>3. state[t] \in {"running", "cancelled"}
  BY <1>1, <1>2 DEF Collect, Positions
<1>4. state[t] \notin Satisfied
  BY <1>3 DEF Satisfied
<1>5. /\ StoreStep
      /\ \A d \in Task \ {t} : state'[d] \in {state[d], "failed"}
      /\ \A d \in Task \ {t} : DepsSatisfied(d) => state'[d] = state[d]
      /\ state'[t] \in {"failed", "cancelled"}
  BY <1>1, <1>2, <1>4, CancelEffect
<1>6. /\ attempt' \in [Task -> Nat] /\ AttemptsBounded'
      /\ cancelReq' \in [Task -> BOOLEAN]
      /\ leased' \subseteq Task /\ deferred' \subseteq Task
  BY <1>1, <1>2 DEF TypeOK, AttemptsBounded
<1> QED
  BY <1>1, <1>5, <1>6, CollectKeeps

LEMMA CollectFailureKeeps ==
  ASSUME Core, NEW t \in Task, CollectFailure(t) \/ CollectUnsettled(t)
  PROVE  GoodStep /\ Core'
<1>1. Collect(t)
  BY DEF CollectFailure, CollectUnsettled
<1>2. PICK code \in Code \ {"upstream_failed"} : ApplyFailure(t, code) \/ GiveUp(t, code)
  BY DEF CollectFailure, CollectUnsettled, Code
<1>3. TypeOK /\ Positions /\ AttemptsBounded
  BY DEF Core
<1>4. state[t] \in {"running", "cancelled"}
  BY <1>1, <1>3 DEF Collect, Positions
<1>5. /\ StoreStep
      /\ attempt' \in [Task -> Nat]
      /\ AttemptsBounded'
      /\ cancelReq' \in [Task -> BOOLEAN]
      /\ leased' \subseteq Task
      /\ deferred' \subseteq Task
      /\ state'[t] \in {"queued", "failed", "cancelled"}
      /\ \A d \in Task \ {t} : state'[d] \in {state[d], "failed"}
      /\ \A d \in Task \ {t} : DepsSatisfied(d) => state'[d] = state[d]
  <2>1. CASE ApplyFailure(t, code)
    BY <1>3, <1>4, <2>1, ApplyFailureEffect
  <2>2. CASE GiveUp(t, code)
    BY <1>3, <1>4, <2>2, GiveUpEffect
  <2> QED
    BY <1>2, <2>1, <2>2
<1> QED
  BY <1>1, <1>5, CollectKeeps

(* The steps of the other threads that change a task's record. *)
LEMMA RequestCancelKeeps ==
  ASSUME Core, NEW t \in Task, RequestCancel(t)
  PROVE  GoodStep /\ Core'
<1>1. /\ state[t] \notin Terminal
      /\ cancelReq' = [cancelReq EXCEPT ![t] = TRUE]
      /\ state' = [state EXCEPT ![t] = IF @ \in Runnable THEN "cancelled" ELSE @]
      /\ UNCHANGED <<attempt, error, leased, held, deferred, pc, refused, round, current,
                     inFlight, body, orphans>>
  BY DEF RequestCancel, runnerVars, backendVars
<1>2. TypeOK /\ Positions /\ LedgerExact /\ AttemptsBounded /\ OneExecutionAtATime
      /\ DependenciesFirst /\ CapacityRespected
  BY DEF Core
<1>3. \A d \in Task : \/ state'[d] = state[d]
                      \/ state[d] \in Runnable /\ state'[d] = "cancelled"
  BY <1>1, <1>2 DEF TypeOK
<1>4. state' \in [Task -> State]
  BY <1>1, <1>2 DEF TypeOK, State
<1>5. StoreStep
  BY <1>1, <1>2, <1>3, <1>4, PlainStep DEF TypeOK, Terminal, Runnable
<1>6. TypeOK'
  BY <1>1, <1>2, <1>4 DEF TypeOK
<1>7. Positions'
  <2>1. \A d \in refused \cup round \cup inFlight : d \in Task
    BY <1>2 DEF TypeOK
  <2>2. \A d \in refused : state'[d] \in Runnable \cup {"cancelled"}
    BY <1>2, <1>3, <2>1 DEF Positions
  <2>3. \A d \in round : state'[d] \in IF pc = "run" /\ d = current
                                       THEN {"scheduled", "cancelled"}
                                       ELSE Runnable \cup {"cancelled"}
    BY <1>2, <1>3, <2>1 DEF Positions
  <2>4. \A d \in inFlight : state'[d] \in {"running", "cancelled"}
    BY <1>2, <1>3, <2>1 DEF Positions
  <2> QED
    BY <1>1, <1>2, <2>2, <2>3, <2>4 DEF Positions
<1>8. \A d \in Task : Started(d)' => DepsSatisfied(d)
  BY <1>1, <1>2, <1>3 DEF Started, DependenciesFirst
<1>9. LedgerExact' /\ CapacityRespected' /\ AttemptsBounded' /\ OneExecutionAtATime'
  BY <1>1, <1>2 DEF LedgerExact, CapacityRespected, AttemptsBounded, OneExecutionAtATime
<1>10. Strays' \subseteq Strays
  BY <1>1, <1>3 DEF Strays
<1> QED
  BY <1>5, <1>6, <1>7, <1>8, <1>9, <1>10, Assemble

(* The steps of the other threads that leave the tasks alone. *)
LEMMA BackgroundKeeps ==
  ASSUME Core, NEW t \in Task, BodyEnds(t) \/ OrphanEnds(t) \/ BackoffElapses(t)
  PROVE  GoodStep /\ Core'
<1>1. TypeOK /\ Positions /\ LedgerExact /\ AttemptsBounded /\ OneExecutionAtATime
      /\ DependenciesFirst /\ CapacityRespected
  BY DEF Core
<1>2. UNCHANGED <<state, attempt, cancelReq, error, leased, held, pc, refused, round, current,
                  inFlight>>
  BY DEF BodyEnds, BodyReturns, BodyRaises, OrphanEnds, BackoffElapses, storeVars, runnerVars
<1>3. \A d \in Task : \/ body'[d] = body[d]
                      \/ body[d] = "running" /\ body'[d] \in {"ok", "cancelled", "error"}
  BY <1>1 DEF BodyEnds, BodyReturns, BodyRaises, OrphanEnds, BackoffElapses, backendVars, TypeOK
<1>4. TypeOK'
  <2>1. body' \in [Task -> Body] /\ deferred' \subseteq Task
    BY <1>1 DEF BodyEnds, BodyReturns, BodyRaises, OrphanEnds, BackoffElapses, backendVars,
                runnerVars, TypeOK, Body
  <2>2. orphans' \in [Task -> Nat]
    BY <1>1 DEF BodyEnds, BodyReturns, BodyRaises, OrphanEnds, BackoffElapses, backendVars, TypeOK
  <2> QED
    BY <1>1, <1>2, <2>1, <2>2 DEF TypeOK
<1>5. Positions'
  <2>1. \A d \in Task : body'[d] # "none" => body[d] # "none"
    BY <1>3
  <2>2. \A d \in Task : body'[d] = "running" => body[d] = "running"
    BY <1>3
  <2>3. pc = "collect" => current \in Task
    BY <1>1 DEF Positions, TypeOK
  <2> QED
    BY <1>1, <1>2, <2>1, <2>2, <2>3 DEF Positions
<1>6. StoreStep
  BY <1>1, <1>2, PlainStep DEF TypeOK
<1>7. \A d \in Task : Started(d)' => DepsSatisfied(d)
  BY <1>1, <1>2 DEF Started, DependenciesFirst
<1>8. LedgerExact' /\ CapacityRespected' /\ AttemptsBounded'
  BY <1>1, <1>2 DEF LedgerExact, CapacityRespected, AttemptsBounded
<1>9. OneExecutionAtATime'
  BY <1>1 DEF BodyEnds, BodyReturns, BodyRaises, OrphanEnds, BackoffElapses, backendVars,
              OneExecutionAtATime, TypeOK
<1>10. Strays' \subseteq Strays
  BY <1>2 DEF Strays
<1> QED
  BY <1>4, <1>5, <1>6, <1>7, <1>8, <1>9, <1>10, Assemble

(* Every step keeps the invariant and is a step the store allows. *)
LEMMA NextKeeps ==
  ASSUME Core, [Next]_vars
  PROVE  GoodStep /\ Core'
<1>1. ASSUME NEW t \in Task, Launch(t)
      PROVE  GoodStep /\ Core'
  BY <1>1, LaunchCancelledKeeps, ClaimKeeps, SubmitKeeps, SubmitRaisesKeeps,
     MarkScheduledKeeps, MarkRunningKeeps DEF Launch
<1>2. ASSUME NEW t \in Task, Settle(t)
      PROVE  GoodStep /\ Core'
  BY <1>2, WaitAnyKeeps, CollectSuccessKeeps, CollectCancelledKeeps, CollectFailureKeeps
     DEF Settle
<1>3. CASE Runner
  BY <1>1, <1>2, <1>3, AdmitKeeps, RefuseKeeps, LookingKeeps DEF Runner
<1>4. CASE Stop
  BY <1>4, LookingKeeps
<1>5. CASE Environment
  BY <1>5, RequestCancelKeeps, BackgroundKeeps DEF Environment
<1>6. CASE UNCHANGED vars
  <2>1. UNCHANGED <<state, attempt, cancelReq, error, leased, held, deferred, pc, refused,
                    round, current, inFlight, body, orphans>>
    BY <1>6 DEF vars, storeVars, runnerVars, backendVars
  <2>2. TypeOK' /\ Positions'
    BY <2>1 DEF Core, TypeOK, Positions
  <2> QED
    BY <2>1, <2>2, QuietStep
<1> QED
  BY <1>3, <1>4, <1>5, <1>6 DEF Next, Returned

-----------------------------------------------------------------------------
(***************************************************************************)
(* The theorems.                                                           *)
(***************************************************************************)

(* The inductive invariant holds in every reachable state, for every graph, policy,
   capacity and backend: the types of runner.py's and store.py's state among it. *)
THEOREM Invariant == Spec => []IInv
<1>1. IInv /\ [Next]_vars => IInv'
  <2> SUFFICES ASSUME IInv, [Next]_vars PROVE IInv'
    OBVIOUS
  <2>1. Core /\ FailFast /\ Strays = {}
    BY DEF IInv
  <2>2. StoreStep /\ Core' /\ Strays' \subseteq Strays
    BY <2>1, NextKeeps DEF GoodStep
  <2>3. FailFast'
    BY <2>1, <2>2, StoreStepKeeps DEF Core
  <2> QED
    BY <2>1, <2>2, <2>3 DEF IInv
<1> QED
  BY InitKeeps, <1>1, PTL DEF Spec

(* The values of the runner's, the store's, the scheduler's and the backend's state. *)
THEOREM TypeCorrect == Spec => []TypeOK
<1>1. IInv => TypeOK
  BY DEF IInv, Core
<1> QED
  BY Invariant, <1>1, PTL

(* No task is decided on, launched or finished with success before its dependencies
   hold (graph.ready, runner._admit). *)
THEOREM ExecutionNeedsInputs == Spec => []DependenciesFirst
<1>1. IInv => DependenciesFirst
  BY DEF IInv, Core
<1> QED
  BY Invariant, <1>1, PTL

(* The scheduler's reservations are exactly the tasks being launched or in flight, and
   fit the node and the concurrency limit, whatever is admitted in whatever order
   (runner._release, Occupancy, Scheduler.admit). *)
THEOREM LedgerIsKept == Spec => []LedgerIsRight
<1>1. IInv => LedgerIsRight
  BY DEF IInv, Core, LedgerIsRight
<1> QED
  BY Invariant, <1>1, PTL

(* No task stays open behind a failed dependency (graph._cascade). *)
THEOREM FailuresReachDependents == Spec => []FailFast
<1>1. IInv => FailFast
  BY DEF IInv, Core
<1> QED
  BY Invariant, <1>1, PTL

(* upstream_failed is written only where a dependency was lost (graph._cascade). *)
THEOREM UpstreamBlameIsTrue == Spec => []BlameIsTrue
<1>1. IInv => BlameIsTrue
  BY DEF IInv, Core
<1> QED
  BY Invariant, <1>1, PTL

(* Both together: a failure takes down everything behind it, and nothing else is blamed on
   it (graph._cascade). *)
THEOREM CascadeRight == Spec => []CascadeIsRight
<1>1. FailFast /\ BlameIsTrue => CascadeIsRight
  BY DEF CascadeIsRight
<1> QED
  BY FailuresReachDependents, UpstreamBlameIsTrue, <1>1, PTL

(* No task uses more attempts than its retry policy grants (runner._apply). *)
THEOREM AttemptsAreBounded == Spec => []AttemptsBounded
<1>1. IInv => AttemptsBounded
  BY DEF IInv, Core
<1> QED
  BY Invariant, <1>1, PTL

(* With a backend whose polls do not raise, run() never drops the handle of an execution
   that is still going (runner._wait_any). *)
THEOREM NoDoubleExecution == Spec => []OneExecutionAtATime
<1>1. IInv => OneExecutionAtATime
  BY DEF IInv, Core
<1> QED
  BY Invariant, <1>1, PTL

(* No move run() asks for is one the table of machine.py refuses on a live task. *)
THEOREM RunNeverRaises == Spec => []NeverRaises
<1>1. ASSUME IInv
      PROVE  NeverRaises
  <2>1. TypeOK /\ Positions
    BY <1>1 DEF IInv, Core
  <2>2. /\ \A t \in refused : state[t] \in Runnable \cup Terminal
        /\ pc \in {"submit", "schedule"} => state[current] \in Runnable \cup Terminal
        /\ pc = "run" => state[current] \in {"scheduled"} \cup Terminal
        /\ pc = "collect" => state[current] \in {"running"} \cup Terminal
    BY <2>1 DEF Positions, Terminal
  <2> QED
    BY <2>2 DEF NeverRaises
<1> QED
  BY Invariant, <1>1, PTL

(* Terminal states absorb: no step of any thread takes a task out of one (store.transition
   is the only way to a new state, and machine.py gives it no move from there). *)
THEOREM TerminalIsFinal == Spec => TerminalAbsorbs
<1>1. IInv /\ [Next]_vars => [\A t \in Task : state[t] \in Terminal => state'[t] = state[t]]_vars
  BY NextKeeps DEF IInv, GoodStep, StoreStep
<1> QED
  BY Invariant, <1>1, PTL DEF Spec, TerminalAbsorbs

-----------------------------------------------------------------------------
(***************************************************************************)
(* Nothing is left behind.                                                 *)
(***************************************************************************)

(* Cancelling what has not ended cancels it. *)
LEMMA CancelDisturbs ==
  ASSUME TypeOK, NEW t \in Task, state[t] \in Runnable \cup {"running", "cancelled"}, Cancel(t)
  PROVE  ~ Undisturbed'
<1>1. CASE state[t] = "cancelled"
  BY <1>1 DEF Cancel, Terminal, Undisturbed
<1>2. CASE state[t] # "cancelled"
  <2>1. state[t] \notin Terminal
    BY <1>2 DEF Terminal, Runnable
  <2>2. state'[t] = "cancelled"
    BY <2>1 DEF Cancel
  <2> QED
    BY <2>2 DEF Undisturbed
<1> QED
  BY <1>1, <1>2

(* A step that makes nothing ready and launches or collects nothing forgets nothing. *)
LEMMA ForgetsNothing ==
  ASSUME Remembered, StoreStep,
         \A t \in Task : state'[t] \in Satisfied => state[t] \in Satisfied,
         \A t \in Task : state'[t] \in Runnable => state[t] \in Runnable,
         pc \notin {"admit", "wait", "collect", "stopped"} \/ pc' \in {"wait", "collect"},
         pc' \in {"idle", "done"} => inFlight' = {},
         deferred' \subseteq deferred,
         attempt' = attempt, refused' = refused,
         round' \cup inFlight' = round \cup inFlight
  PROVE  Remembered'
<1>1. Ready' \subseteq Ready
  BY GraphAssumption DEF Ready, DepsSatisfied
<1>2. Undisturbed' => Undisturbed
  BY DEF Undisturbed, StoreStep, Terminal
<1>3. \A t : BackedOff(t) => BackedOff(t)'
  BY DEF BackedOff
<1>4. \A t \in deferred' : BackedOff(t)'
  BY <1>3 DEF Remembered
<1>5. ASSUME Undisturbed', pc' \notin {"admit", "wait", "collect", "stopped"},
             round' \cup inFlight' = {}
      PROVE  \A t \in Ready' : t \in refused' \/ BackedOff(t)'
  BY <1>1, <1>2, <1>3, <1>5 DEF Remembered
<1> QED
  BY <1>4, <1>5 DEF Remembered

(* Nor does a step that leads back to the admission. *)
LEMMA BackToAdmission ==
  ASSUME pc' = "admit", \A t \in deferred' : BackedOff(t)'
  PROVE  Remembered'
  BY DEF Remembered

(* The tasks that are deferred after a failed outcome have backed off. *)
LEMMA FailureBacksOff ==
  ASSUME TypeOK, Remembered, NEW t \in Task, NEW code, ApplyFailure(t, code) \/ GiveUp(t, code)
  PROVE  \A d \in deferred' : BackedOff(d)'
<1>1. CASE Retry(t)
  <2>1. /\ attempt' = [attempt EXCEPT ![t] = @ + 1]
        /\ deferred' = IF t \in BacksOff THEN deferred \cup {t} ELSE deferred
    BY <1>1 DEF Retry
  <2>2. attempt'[t] > 0 /\ \A d \in Task : attempt[d] > 0 => attempt'[d] > 0
    BY <2>1 DEF TypeOK
  <2>3. \A d \in deferred : d \in Task /\ d \in BacksOff /\ attempt[d] > 0
    BY DEF Remembered, BackedOff, TypeOK
  <2> QED
    BY <2>1, <2>2, <2>3 DEF BackedOff
<1>2. CASE GiveUp(t, code)
  BY <1>2 DEF GiveUp, Remembered, BackedOff
<1> QED
  BY <1>1, <1>2 DEF ApplyFailure

(* With nothing reserved, an admission that takes nothing leaves only what is refused or
   still backing off. *)
LEMMA AdmitRemembers ==
  ASSUME Core, Remembered, Admit
  PROVE  Remembered'
<1>1. PICK A \in SUBSET Candidates :
        /\ Admissible(A)
        /\ state' = [t \in Task |-> IF t \in (Ready \ Rejected) \ A
                                   THEN EnsureBlocked(state[t]) ELSE state[t]]
        /\ round' = A
  BY DEF Admit
<1>2. /\ pc = "admit" /\ pc' = "refuse" /\ refused' = Rejected
      /\ UNCHANGED <<attempt, deferred, inFlight>>
  BY DEF Admit
<1>3. \A t \in Task : \/ state'[t] = state[t]
                      \/ state[t] \in Runnable /\ state'[t] = "blocked"
  BY <1>1, Moves DEF Ready
<1>4. Ready' \subseteq Ready
  BY <1>3, GraphAssumption DEF Ready, DepsSatisfied, Satisfied, Runnable
<1>5. \A t \in deferred : BackedOff(t) /\ BackedOff(t)'
  BY <1>2 DEF Remembered, BackedOff
<1>6. ASSUME round' \cup inFlight' = {}, NEW t \in Ready
      PROVE  t \in Rejected \/ t \in deferred
  <2>1. A = {} /\ held = {}
    BY <1>1, <1>2, <1>6 DEF Core, LedgerExact, Positions
  <2>2. \A c \in Candidates : ~ Fits({c})
    BY <1>1, <2>1 DEF Admissible
  <2> QED
    BY <2>2 DEF Candidates, Rejected
<1> QED
  BY <1>2, <1>4, <1>5, <1>6 DEF Remembered

(* What was refused has ended with the round. *)
LEMMA RefuseRemembers ==
  ASSUME Core, Remembered, Refuse
  PROVE  Remembered'
<1>1. /\ pc = "refuse" /\ pc' = "launch"
      /\ Fail(refused, "no_compatible_compute")
      /\ deferred' \subseteq deferred
      /\ UNCHANGED <<attempt, round, inFlight>>
  BY DEF Refuse
<1>2. /\ refused \in SUBSET Task
      /\ \A s \in refused : state[s] \notin Satisfied
      /\ "no_compatible_compute" \in Code \ {"upstream_failed"}
  BY DEF Core, TypeOK, Positions, Satisfied, Runnable, Code
<1>3. /\ StoreStep
      /\ \A t \in Task : state'[t] \in {state[t], "failed"}
      /\ \A t \in refused : state'[t] \in {"failed", "cancelled"}
  BY <1>1, <1>2, FailEffect DEF Core
<1>4. /\ Ready' \subseteq Ready
      /\ Ready' \cap refused = {}
  BY <1>3, GraphAssumption DEF Ready, DepsSatisfied, Satisfied, Runnable
<1>5. Undisturbed' => Undisturbed
  BY <1>3 DEF Undisturbed, StoreStep, Terminal
<1>6. \A t : BackedOff(t) => BackedOff(t)'
  BY <1>1 DEF BackedOff
<1> QED
  BY <1>1, <1>4, <1>5, <1>6 DEF Remembered

(* Launching moves tasks from the round into flight; one that is cancelled or cannot be
   submitted has disturbed the run. *)
LEMMA LaunchRemembers ==
  ASSUME Core, Remembered, StoreStep, NEW t \in Task, Launch(t)
  PROVE  Remembered'
<1>1. TypeOK /\ Positions
  BY DEF Core
<1>2. CASE LaunchCancelled(t)
  <2>1. /\ pc' = pc /\ pc = "launch" /\ UNCHANGED <<attempt, deferred, inFlight>>
        /\ t \in round /\ Cancel(t)
    BY <1>2 DEF LaunchCancelled
  <2>2. state[t] \in Runnable \cup {"running", "cancelled"}
    BY <1>1, <2>1 DEF Positions
  <2>3. ~ Undisturbed'
    BY <1>1, <2>1, <2>2, CancelDisturbs
  <2> QED
    BY <2>1, <2>3 DEF Remembered, BackedOff
<1>3. CASE Claim(t) \/ Submit(t)
  <2>1. /\ UNCHANGED <<state, attempt, deferred, refused, round, inFlight>>
        /\ pc \in {"launch", "submit"} /\ pc' \in {"submit", "schedule"}
    BY <1>3 DEF Claim, Submit, storeVars
  <2> QED
    BY <2>1, ForgetsNothing
<1>4. CASE SubmitRaises(t)
  <2>1. Flaky /\ pc' = "launch" /\ ApplyFailure(t, "execution_error")
    BY <1>4 DEF SubmitRaises
  <2>2. ~ Undisturbed'
    BY <2>1 DEF Undisturbed
  <2>3. \A d \in deferred' : BackedOff(d)'
    BY <1>1, <2>1, FailureBacksOff
  <2> QED
    BY <2>1, <2>2, <2>3 DEF Remembered
<1>5. CASE MarkScheduled(t)
  <2>1. /\ UNCHANGED <<attempt, deferred, refused, round, inFlight>>
        /\ pc = "schedule" /\ pc' = "run" /\ t \in round
        /\ state' = [state EXCEPT ![t] = Move(EnsureQueued(@), "scheduled")]
    BY <1>1, <1>5 DEF MarkScheduled, Positions
  <2>2. state[t] \in Runnable \cup {"cancelled"}
    BY <1>1, <2>1 DEF Positions
  <2>3. state'[t] \in {"scheduled", "cancelled"} /\ \A d \in Task \ {t} : state'[d] = state[d]
    BY <1>1, <2>1, <2>2, Moves DEF TypeOK, Terminal, State
  <2>4. /\ \A d \in Task : state'[d] \in Satisfied => state[d] \in Satisfied
        /\ \A d \in Task : state'[d] \in Runnable => state[d] \in Runnable
    BY <2>3 DEF Satisfied, Runnable
  <2> QED
    BY <2>1, <2>4, ForgetsNothing
<1>6. CASE MarkRunning(t)
  <2>1. /\ UNCHANGED <<attempt, deferred, refused>>
        /\ pc = "run" /\ pc' = "launch" /\ t \in round /\ t = current
        /\ round' = round \ {t} /\ inFlight' = inFlight \cup {t}
        /\ state' = [state EXCEPT ![t] = Move(@, "running")]
    BY <1>1, <1>6 DEF MarkRunning, Positions
  <2>2. state[t] \in {"scheduled", "cancelled"}
    BY <1>1, <2>1 DEF Positions
  <2>3. state'[t] \in {"running", "cancelled"} /\ \A d \in Task \ {t} : state'[d] = state[d]
    BY <1>1, <2>1, <2>2, Moves DEF TypeOK, Terminal, State
  <2>4. /\ \A d \in Task : state'[d] \in Satisfied => state[d] \in Satisfied
        /\ \A d \in Task : state'[d] \in Runnable => state[d] \in Runnable
    BY <2>3 DEF Satisfied, Runnable
  <2> QED
    BY <2>1, <2>4, ForgetsNothing
<1> QED
  BY <1>2, <1>3, <1>4, <1>5, <1>6 DEF Launch

(* Waiting and collecting lead to the admission of the next round. *)
LEMMA SettleRemembers ==
  ASSUME Core, Remembered, StoreStep, NEW t \in Task, Settle(t)
  PROVE  Remembered'
<1>1. CASE WaitAny(t)
  BY <1>1 DEF WaitAny, storeVars, Remembered, BackedOff
<1>2. CASE CollectSuccess(t) \/ CollectCancelled(t)
  <2>1. pc' = "admit" /\ UNCHANGED <<attempt, deferred>>
    BY <1>2 DEF CollectSuccess, CollectCancelled, Collect
  <2> QED
    BY <2>1 DEF Remembered, BackedOff
<1>3. CASE CollectFailure(t) \/ CollectUnsettled(t)
  <2>1. /\ pc' = "admit"
        /\ \E code \in Code : ApplyFailure(t, code) \/ GiveUp(t, code)
    BY <1>3 DEF CollectFailure, CollectUnsettled, Collect, Code
  <2> QED
    BY <2>1, FailureBacksOff, BackToAdmission DEF Core
<1> QED
  BY <1>1, <1>2, <1>3 DEF Settle

(* The end of a round and the idle check only look; the other threads make nothing ready. *)
LEMMA OthersRemember ==
  ASSUME Core, Remembered, StoreStep, RoundDone \/ Idle \/ Stop \/ Environment \/ UNCHANGED vars
  PROVE  Remembered'
<1>1. CASE RoundDone \/ Idle \/ Stop
  <2>1. UNCHANGED <<state, attempt, deferred, refused, round, inFlight>>
    BY <1>1 DEF RoundDone, Idle, Stop, storeVars
  <2>2. CASE pc' \in {"stopped", "admit"}
    BY <2>1, <2>2 DEF Remembered, BackedOff
  <2>3. CASE pc' \notin {"stopped", "admit"}
    <3>1. /\ pc \in {"launch", "idle"}
          /\ pc' \in {"idle", "done"} => inFlight' = {}
      BY <1>1, <2>1, <2>3 DEF RoundDone, Idle, Stop, Remembered
    <3> QED
      BY <2>1, <3>1, ForgetsNothing
  <2> QED
    BY <2>2, <2>3
<1>2. CASE Environment \/ UNCHANGED vars
  <2>1. UNCHANGED <<attempt, pc, refused, round, inFlight>> /\ deferred' \subseteq deferred
    BY <1>2 DEF Environment, RequestCancel, BodyEnds, BodyReturns, BodyRaises, OrphanEnds,
                BackoffElapses, vars, storeVars, runnerVars
  <2>2. \A d \in Task : state'[d] = state[d] \/ state'[d] = "cancelled"
    BY <1>2 DEF Environment, RequestCancel, BodyEnds, BodyReturns, BodyRaises, OrphanEnds,
                BackoffElapses, vars, storeVars, Core, TypeOK
  <2>3. /\ \A d \in Task : state'[d] \in Satisfied => state[d] \in Satisfied
        /\ \A d \in Task : state'[d] \in Runnable => state[d] \in Runnable
    BY <2>2 DEF Satisfied, Runnable
  <2>4. CASE pc \in {"admit", "wait", "collect", "stopped"}
    BY <2>1, <2>4 DEF Remembered, BackedOff
  <2>5. CASE pc \notin {"admit", "wait", "collect", "stopped"}
    <3>1. pc' \in {"idle", "done"} => inFlight' = {}
      BY <2>1 DEF Remembered
    <3> QED
      BY <2>1, <2>3, <2>5, <3>1, ForgetsNothing
  <2> QED
    BY <2>4, <2>5
<1> QED
  BY <1>1, <1>2

(* No step of any thread forgets a task. *)
LEMMA NextRemembers ==
  ASSUME Core, Remembered, [Next]_vars
  PROVE  Remembered'
<1>1. StoreStep
  BY NextKeeps DEF GoodStep
<1>2. CASE Runner
  BY <1>1, <1>2, AdmitRemembers, RefuseRemembers, LaunchRemembers, SettleRemembers, OthersRemember
     DEF Runner
<1>3. CASE Stop \/ Environment \/ UNCHANGED vars
  BY <1>1, <1>3, OthersRemember
<1> QED
  BY <1>2, <1>3 DEF Next, Returned

(* Nothing ready is forgotten between the admission of a round and the end of run(). *)
THEOREM NothingIsForgotten == Spec => []Remembered
<1>1. Init => Remembered
  BY DEF Init, Remembered
<1>2. IInv /\ Remembered /\ [Next]_vars => Remembered'
  BY NextRemembers DEF IInv
<1> QED
  BY Invariant, <1>1, <1>2, PTL DEF Spec

(* When run() is over and nothing disturbed it, an open task whose dependencies have ended
   is one that was retried and had to back off (TaskRunner, "until all of it is terminal"). *)
THEOREM RunCompletes == Spec => []RunIsComplete
<1>1. ASSUME IInv, Remembered
      PROVE  RunIsComplete
  <2> SUFFICES ASSUME pc = "done", Undisturbed, NEW t \in LeftOpen, Deps[t] \cap LeftOpen = {}
               PROVE  BackedOff(t)
    BY DEF RunIsComplete
  <2>1. /\ TypeOK /\ Positions /\ FailFast /\ Strays = {}
        /\ t \in Task /\ state[t] \notin Terminal
    BY <1>1 DEF IInv, Core, LeftOpen
  <2>2. round = {} /\ inFlight = {} /\ refused = {}
    BY <1>1, <2>1 DEF Positions, Remembered
  <2>3. DepsSatisfied(t)
    <3> SUFFICES ASSUME NEW d \in Deps[t]
                 PROVE  state[d] \in Satisfied
      BY DEF DepsSatisfied
    <3>1. d \in Task /\ t \in Dependents(d)
      BY <2>1, GraphAssumption DEF Dependents
    <3>2. state[d] \in Terminal /\ state[d] # "cancelled"
      BY <3>1 DEF LeftOpen, Undisturbed
    <3>3. state[d] # "failed"
      BY <2>1, <3>1 DEF FailFast
    <3> QED
      BY <3>2, <3>3 DEF Terminal, Satisfied
  <2>4. state[t] \in Runnable
    BY <2>1, <2>2 DEF Strays, TypeOK, State, Terminal, Runnable
  <2>5. t \in Ready
    BY <2>1, <2>3, <2>4 DEF Ready
  <2> QED
    BY <1>1, <2>2, <2>5 DEF Remembered
<1> QED
  BY Invariant, NothingIsForgotten, <1>1, PTL

(* On a graph without cycles (graph._topological_order), in the order that rank gives it: if run()
   is over and leaves anything open, some task among it was retried and had to back off.
   Where no policy backs off, everything has ended. *)
THEOREM NothingLeftOpen ==
  ASSUME NEW rank \in [Task -> Nat],
         \A t \in Task : \A d \in Deps[t] : rank[d] < rank[t]
  PROVE  Spec => [](pc = "done" /\ Undisturbed =>
                      /\ LeftOpen = {} \/ \E t \in LeftOpen : BackedOff(t)
                      /\ BacksOff = {} => LeftOpen = {})
<1>1. ASSUME RunIsComplete, pc = "done", Undisturbed, LeftOpen # {}
      PROVE  \E t \in LeftOpen : BackedOff(t)
  <2> DEFINE ranks == {rank[t] : t \in LeftOpen}
  <2>1. LeftOpen \subseteq Task
    BY DEF LeftOpen
  <2>2. ranks \subseteq Nat /\ ranks # {}
    BY <1>1, <2>1
  <2>3. PICK n \in ranks : \A m \in ranks : n <= m
    <3> HIDE DEF ranks
    <3> QED
      BY <2>2, LeastMember
  <2>4. PICK t \in LeftOpen : n = rank[t]
    BY <2>3
  <2>5. Deps[t] \cap LeftOpen = {}
    <3> SUFFICES ASSUME NEW d \in Deps[t], d \in LeftOpen
                 PROVE  FALSE
      OBVIOUS
    <3>1. rank[d] \in Nat /\ rank[t] \in Nat /\ rank[d] < rank[t]
      BY <2>1, <2>4
    <3>2. rank[t] <= rank[d]
      BY <2>3, <2>4
    <3> HIDE DEF ranks
    <3> QED
      BY <3>1, <3>2
  <2> QED
    BY <1>1, <2>4, <2>5 DEF RunIsComplete
<1>2. RunIsComplete =>
        (pc = "done" /\ Undisturbed =>
           /\ LeftOpen = {} \/ \E t \in LeftOpen : BackedOff(t)
           /\ BacksOff = {} => LeftOpen = {})
  BY <1>1 DEF BackedOff
<1> QED
  BY RunCompletes, <1>2, PTL

-----------------------------------------------------------------------------
(***************************************************************************)
(* The runner implements the contract.                                     *)
(***************************************************************************)

phase == [t \in Task |-> Phase(state[t])]

LEMMA Phases ==
  /\ \A s \in Runnable : Phase(s) = "waiting"
  /\ \A s \in {"scheduled", "running"} : Phase(s) = "active"
  /\ \A s \in Terminal : Phase(s) = s
  /\ State = Runnable \cup {"scheduled", "running"} \cup Terminal
<1>1. \A s \in Runnable : Phase(s) = "waiting"
  BY DEF Phase, Runnable
<1>2. \A s \in {"scheduled", "running"} : Phase(s) = "active"
  BY DEF Phase, Runnable
<1>3. \A s \in Terminal : Phase(s) = s
  BY DEF Phase, Runnable, Terminal
<1>4. State = Runnable \cup {"scheduled", "running"} \cup Terminal
  BY DEF State, Runnable, Terminal
<1> QED
  BY <1>1, <1>2, <1>3, <1>4

(* A step that changes no phase and no attempt is a stutter of the contract. *)
LEMMA Stutter ==
  ASSUME \A t \in Task : Phase(state'[t]) = Phase(state[t]), attempt' = attempt
  PROVE  UNCHANGED Contract!vars
<1>1. phase' = phase
  BY DEF phase
<1> QED
  BY <1>1 DEF Contract!vars, phase

(* Failures and cancellations of the tasks of S with their cascade are one collapse. *)
LEMMA CollapseStep ==
  ASSUME TypeOK, DependenciesFirst, StoreStep, NEW S \in SUBSET Task,
         attempt' = attempt,
         \A t \in S : state'[t] \in {state[t], "failed", "cancelled"},
         \A t \in Task \ S : state'[t] \in {state[t], "failed"},
         \A t \in Task \ S : DepsSatisfied(t) => state'[t] = state[t],
         \A t \in Task \ S : state'[t] # state[t] =>
           \E d \in Deps[t] : state'[d] \in {"failed", "cancelled"},
         \A t \in Task : state'[t] = "cancelled" /\ state'[t] # state[t] =>
           \A d \in Dependents(t) : state'[d] \in Terminal
  PROVE  Contract!Collapse(S)
<1>1. /\ state \in [Task -> State] /\ state' \in [Task -> State]
      /\ \A t \in Task : state[t] \in Terminal => state'[t] = state[t]
  BY DEF TypeOK, StoreStep
<1>2. /\ phase \in [Task -> {"waiting", "active"} \cup Terminal]
      /\ phase' \in [Task -> {"waiting", "active"} \cup Terminal]
  BY <1>1, Phases DEF phase
<1>3. \A t \in Task : phase'[t] = Phase(state'[t]) /\ phase[t] = Phase(state[t])
  BY DEF phase
<1>4. \A t \in Task : /\ state'[t] \in {"failed", "cancelled"} <=> phase'[t] \in {"failed", "cancelled"}
                      /\ state'[t] \in Terminal => phase'[t] = state'[t]
                      /\ state'[t] = state[t] => phase'[t] = phase[t]
                      /\ state[t] \in Runnable => phase[t] = "waiting"
                      /\ state[t] \notin Terminal => phase[t] \in {"waiting", "active"}
  BY <1>1, <1>3, Phases DEF Terminal
<1>5. ASSUME NEW t \in Task
      PROVE  \/ phase'[t] = phase[t]
             \/ /\ t \in S /\ phase[t] \in {"waiting", "active"}
                /\ phase'[t] \in {"failed", "cancelled"}
             \/ /\ phase[t] = "waiting" /\ phase'[t] = "failed"
                /\ \E d \in Deps[t] : phase'[d] \in {"failed", "cancelled"}
  <2>1. CASE state'[t] = state[t]
    BY <2>1, <1>4
  <2>2. CASE state'[t] # state[t] /\ t \in S
    BY <2>2, <1>1, <1>4
  <2>3. CASE state'[t] # state[t] /\ t \notin S
    <3>1. PICK d \in Deps[t] : state'[d] \in {"failed", "cancelled"}
      BY <2>3
    <3>2. d \in Task
      BY GraphAssumption
    <3>3. state[t] \notin {"scheduled", "running"}
      BY <2>3 DEF DependenciesFirst, Started
    <3>4. state[t] \in Runnable
      BY <2>3, <3>3, <1>1, Phases
    <3>5. phase[t] = "waiting" /\ phase'[t] = "failed"
      BY <2>3, <3>4, <1>4 DEF Terminal
    <3> QED
      BY <3>1, <3>2, <3>5, <1>4
  <2> QED
    BY <2>1, <2>2, <2>3
<1>6. ASSUME NEW t \in Task, phase'[t] \in {"failed", "cancelled"}, phase'[t] # phase[t],
             NEW d \in Task, t \in Deps[d]
      PROVE  phase'[d] \in Terminal
  <2>1. state'[t] \in {"failed", "cancelled"} /\ state'[t] # state[t]
    BY <1>4, <1>6
  <2>2. state'[d] \in Terminal
    BY <2>1, <1>6 DEF StoreStep, Dependents
  <2> QED
    BY <2>2, <1>4
<1>7. Terminal = Contract!Ended /\ Contract!Lost = {"failed", "cancelled"}
  BY DEF Terminal, Contract!Ended, Contract!Lost
<1> QED
  BY <1>2, <1>5, <1>6, <1>7 DEF Contract!Collapse, phase

LEMMA InitImplements == Init => Contract!Init
<1> SUFFICES ASSUME Init PROVE Contract!Init
  OBVIOUS
<1>1. \A t \in Task : Phase(state[t]) \in {"waiting", "succeeded", "skipped"}
  BY Phases DEF Init, Runnable, Satisfied, Terminal
<1> QED
  BY <1>1 DEF Init, Contract!Init, Contract!Settled

(* mark_failed and mark_cancelled on a task of the graph are collapses. *)
LEMMA FailCollapses ==
  ASSUME IInv, NEW S \in SUBSET Task, \A s \in S : state[s] \notin Satisfied,
         NEW code \in Code \ {"upstream_failed"}, Fail(S, code), attempt' = attempt
  PROVE  Contract!Collapse(S)
<1>1. TypeOK /\ DependenciesFirst
  BY DEF IInv, Core
<1>2. /\ StoreStep
      /\ \A t \in Task : state'[t] \in {state[t], "failed"}
      /\ \A t \in Task \ S : DepsSatisfied(t) => state'[t] = state[t]
      /\ \A t \in Task \ S : state'[t] # state[t] =>
           \E d \in Deps[t] : state'[d] \in {"failed", "cancelled"}
  BY <1>1, FailEffect
<1> QED
  BY <1>1, <1>2, CollapseStep

LEMMA CancelCollapses ==
  ASSUME IInv, NEW t \in Task, state[t] \notin Satisfied, Cancel(t), attempt' = attempt
  PROVE  Contract!Collapse({t})
<1>1. TypeOK /\ DependenciesFirst
  BY DEF IInv, Core
<1>2. /\ StoreStep
      /\ \A d \in Task \ {t} : state'[d] \in {state[d], "failed"}
      /\ \A d \in Task \ {t} : DepsSatisfied(d) => state'[d] = state[d]
      /\ state'[t] \in {"failed", "cancelled"}
      /\ \A d \in Task \ {t} : state'[d] # state[d] =>
           \E e \in Deps[d] : state'[e] \in {"failed", "cancelled"}
      /\ \A d \in Task : state'[d] # state[d] =>
           \A e \in Dependents(d) : state'[e] \in Terminal
  BY <1>1, CancelEffect
<1> QED
  BY <1>1, <1>2, CollapseStep

(* A failed outcome is one more try or a collapse. *)
LEMMA ApplyFailureImplements ==
  ASSUME IInv, NEW t \in Task, state[t] \in Runnable \cup {"running", "cancelled"},
         NEW code \in Code \ {"upstream_failed"},
         ApplyFailure(t, code) \/ GiveUp(t, code)
  PROVE  Contract!Next
<1>1. TypeOK
  BY DEF IInv, Core
<1>2. CASE GiveUp(t, code)
  <2>1. Contract!Collapse({t})
    BY <1>2, FailCollapses DEF GiveUp, Satisfied, Runnable
  <2> QED
    BY <2>1 DEF Contract!Next
<1>3. CASE MayRetry(t, code) /\ Retry(t)
  <2>1. /\ attempt[t] + 1 < MaxAttempts[t]
        /\ attempt' = [attempt EXCEPT ![t] = @ + 1]
        /\ state' = [state EXCEPT ![t] = Move(@, "queued")]
    BY <1>3 DEF MayRetry, AllowsAnotherAttempt, Retry
  <2>2. /\ state[t] = "cancelled" => state'[t] = "cancelled"
        /\ state[t] # "cancelled" => state'[t] = "queued"
    BY <1>1, <2>1, Moves DEF TypeOK, Terminal, State
  <2>3. /\ phase[t] \in {"waiting", "active", "cancelled"}
        /\ Phase(state'[t]) = IF phase[t] = "active" THEN "waiting" ELSE phase[t]
    BY <1>1, <2>2, Phases DEF phase, Terminal, Runnable, TypeOK
  <2>4. phase' = [phase EXCEPT ![t] = IF @ = "active" THEN "waiting" ELSE @]
    BY <1>1, <2>1, <2>3 DEF phase, TypeOK
  <2>5. Contract!TryAgain(t)
    BY <2>1, <2>3, <2>4 DEF Contract!TryAgain, phase
  <2> QED
    BY <2>5 DEF Contract!Next
<1> QED
  BY <1>2, <1>3 DEF ApplyFailure

(* A launch step is a collapse, one more try, the begin of the task or a stutter. *)
LEMMA LaunchImplements ==
  ASSUME IInv, NEW t \in Task, Launch(t)
  PROVE  Contract!Next \/ UNCHANGED Contract!vars
<1>1. TypeOK /\ Positions /\ DependenciesFirst
  BY DEF IInv, Core
<1>2. CASE LaunchCancelled(t)
  <2>1. state[t] \notin Satisfied
    BY <1>1, <1>2 DEF LaunchCancelled, Positions, Satisfied, Runnable
  <2>2. Contract!Collapse({t})
    BY <1>2, <2>1, CancelCollapses DEF LaunchCancelled
  <2> QED
    BY <2>2 DEF Contract!Next
<1>3. CASE Claim(t) \/ Submit(t)
  <2>1. UNCHANGED <<state, attempt>>
    BY <1>3 DEF Claim, Submit, storeVars
  <2> QED
    BY <2>1, Stutter
<1>4. CASE SubmitRaises(t)
  <2>1. state[t] \in Runnable \cup {"cancelled"} /\ "execution_error" \in Code \ {"upstream_failed"}
    BY <1>1, <1>4 DEF SubmitRaises, Positions, Code
  <2> QED
    BY <1>4, <2>1, ApplyFailureImplements DEF SubmitRaises
<1>5. CASE MarkScheduled(t)
  <2>1. /\ t \in round /\ state[t] \in Runnable \cup {"cancelled"}
        /\ state' = [state EXCEPT ![t] = Move(EnsureQueued(@), "scheduled")]
        /\ attempt' = attempt
    BY <1>1, <1>5 DEF MarkScheduled, Positions
  <2>2. CASE state[t] = "cancelled"
    <3>1. state' = state
      BY <1>1, <2>1, <2>2, Moves DEF TypeOK, Terminal, State
    <3> QED
      BY <2>1, <3>1, Stutter
  <2>3. CASE state[t] \in Runnable
    <3>1. phase[t] = "waiting" /\ phase' = [phase EXCEPT ![t] = "active"]
      <4>1. state' = [state EXCEPT ![t] = "scheduled"]
        BY <1>1, <2>1, <2>3, Moves DEF TypeOK
      <4> QED
        BY <1>1, <4>1, <2>3, Phases DEF phase, TypeOK
    <3>2. \A d \in Deps[t] : phase[d] \in {"succeeded", "skipped"}
      BY <1>1, <2>1, GraphAssumption, Phases
         DEF phase, DependenciesFirst, Started, DepsSatisfied, Satisfied, Terminal
    <3>3. Contract!Begin(t)
      BY <2>1, <3>1, <3>2
         DEF Contract!Begin, Contract!Supplied, Contract!Settled, phase
    <3> QED
      BY <3>3 DEF Contract!Next
  <2> QED
    BY <2>1, <2>2, <2>3
<1>6. CASE MarkRunning(t)
  <2>1. /\ state[t] \in {"scheduled", "cancelled"}
        /\ state' = [state EXCEPT ![t] = Move(@, "running")]
        /\ attempt' = attempt
    BY <1>1, <1>6 DEF MarkRunning, Positions
  <2>2. \A d \in Task : Phase(state'[d]) = Phase(state[d])
    BY <1>1, <2>1, Moves, Phases DEF TypeOK, Terminal, State
  <2> QED
    BY <2>1, <2>2, Stutter
<1> QED
  BY <1>2, <1>3, <1>4, <1>5, <1>6 DEF Launch

(* A settling step is a success, a collapse, one more try or a stutter. *)
LEMMA SettleImplements ==
  ASSUME IInv, NEW t \in Task, Settle(t)
  PROVE  Contract!Next \/ UNCHANGED Contract!vars
<1>1. TypeOK /\ Positions
  BY DEF IInv, Core
<1>2. CASE WaitAny(t)
  <2>1. UNCHANGED <<state, attempt>>
    BY <1>2 DEF WaitAny, storeVars
  <2> QED
    BY <2>1, Stutter
<1>3. Collect(t) => state[t] \in {"running", "cancelled"}
  BY <1>1 DEF Collect, Positions
<1>4. CASE CollectSuccess(t)
  <2>1. /\ state[t] \in {"running", "cancelled"}
        /\ state' = [state EXCEPT ![t] = Move(@, "succeeded")]
        /\ attempt' = attempt
    BY <1>3, <1>4 DEF CollectSuccess
  <2>2. CASE state[t] = "cancelled"
    <3>1. state' = state
      BY <1>1, <2>1, <2>2, Moves DEF TypeOK, Terminal, State
    <3> QED
      BY <2>1, <3>1, Stutter
  <2>3. CASE state[t] = "running"
    <3>1. phase[t] = "active" /\ phase' = [phase EXCEPT ![t] = "succeeded"]
      <4>1. state' = [state EXCEPT ![t] = "succeeded"]
        BY <2>1, <2>3, Moves
      <4>2. Phase("running") = "active" /\ Phase("succeeded") = "succeeded"
        BY Phases DEF Terminal
      <4>3. state \in [Task -> State]
        BY <1>1 DEF TypeOK
      <4> QED
        BY <2>3, <4>1, <4>2, <4>3 DEF phase
    <3>2. Contract!Succeed(t)
      BY <2>1, <3>1 DEF Contract!Succeed, phase
    <3> QED
      BY <3>2 DEF Contract!Next
  <2> QED
    BY <2>1, <2>2, <2>3
<1>5. CASE CollectCancelled(t)
  <2>1. Contract!Collapse({t})
    BY <1>3, <1>5, CancelCollapses DEF CollectCancelled, Satisfied
  <2> QED
    BY <2>1 DEF Contract!Next
<1>6. CASE CollectFailure(t) \/ CollectUnsettled(t)
  <2>1. PICK code \in Code \ {"upstream_failed"} : ApplyFailure(t, code) \/ GiveUp(t, code)
    BY <1>6 DEF CollectFailure, CollectUnsettled, Code
  <2>2. state[t] \in {"running", "cancelled"}
    BY <1>3, <1>6 DEF CollectFailure, CollectUnsettled
  <2> QED
    BY <2>1, <2>2, ApplyFailureImplements
<1> QED
  BY <1>2, <1>4, <1>5, <1>6 DEF Settle

(* Every step of the system is a step of the contract or changes nothing it speaks of. *)
LEMMA NextImplements ==
  ASSUME IInv, [Next]_vars
  PROVE  Contract!Next \/ UNCHANGED Contract!vars
<1>1. TypeOK /\ Positions
  BY DEF IInv, Core
<1>2. CASE Admit
  <2>1. \A t \in Task : \/ state'[t] = state[t]
                        \/ state[t] \in Runnable /\ state'[t] = "blocked"
    BY <1>2, Moves DEF Admit, Ready
  <2>2. \A t \in Task : Phase(state'[t]) = Phase(state[t])
    BY <2>1, Phases DEF Runnable
  <2> QED
    BY <1>2, <2>2, Stutter DEF Admit
<1>3. CASE Refuse
  <2>1. /\ refused \in SUBSET Task
        /\ \A s \in refused : state[s] \notin Satisfied
        /\ "no_compatible_compute" \in Code \ {"upstream_failed"}
    BY <1>1 DEF TypeOK, Positions, Satisfied, Runnable, Code
  <2>2. Contract!Collapse(refused)
    BY <1>3, <2>1, FailCollapses DEF Refuse
  <2> QED
    BY <2>1, <2>2 DEF Contract!Next
<1>4. CASE Environment
  <2>1. PICK t \in Task : RequestCancel(t) \/ BodyEnds(t) \/ OrphanEnds(t) \/ BackoffElapses(t)
    BY <1>4 DEF Environment
  <2>2. CASE RequestCancel(t)
    <3>1. CASE state[t] \in Runnable
      <4>1. phase[t] = "waiting" /\ phase' = [phase EXCEPT ![t] = "cancelled"]
        BY <1>1, <2>2, <3>1, Phases DEF RequestCancel, phase, TypeOK, Terminal
      <4>2. Contract!Withdraw(t)
        BY <2>2, <4>1 DEF Contract!Withdraw, phase, RequestCancel
      <4> QED
        BY <4>2 DEF Contract!Next
    <3>2. CASE state[t] \notin Runnable
      <4>1. \A d \in Task : state'[d] = state[d]
        BY <1>1, <2>2, <3>2 DEF RequestCancel, TypeOK
      <4> QED
        BY <2>2, <4>1, Stutter DEF RequestCancel
    <3> QED
      BY <3>1, <3>2
  <2>3. CASE BodyEnds(t) \/ OrphanEnds(t) \/ BackoffElapses(t)
    <3>1. UNCHANGED <<state, attempt>>
      BY <2>3 DEF BodyEnds, BodyReturns, BodyRaises, OrphanEnds, BackoffElapses, storeVars
    <3> QED
      BY <3>1, Stutter
  <2> QED
    BY <2>1, <2>2, <2>3
<1>5. CASE RoundDone \/ Idle \/ Stop \/ UNCHANGED vars
  <2>1. UNCHANGED <<state, attempt>>
    BY <1>5 DEF RoundDone, Idle, Stop, vars, storeVars
  <2> QED
    BY <2>1, Stutter
<1> QED
  BY <1>2, <1>3, <1>4, <1>5, LaunchImplements, SettleImplements DEF Next, Runner, Returned

(* The runner over the graph, the store, the scheduler and the backend implements the
   contract: whatever the threads do, its clients see only what TaskContract allows. *)
THEOREM Implements == Spec => KeepsContract
<1>1. IInv /\ [Next]_vars => [Contract!Next]_(Contract!vars)
  BY NextImplements
<1> QED
  BY InitImplements, Invariant, <1>1, PTL DEF Spec, KeepsContract, Contract!Spec
=============================================================================
