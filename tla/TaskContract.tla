---------------------------- MODULE TaskContract ----------------------------
(***************************************************************************)
(* What a graph of GeoTasks promises its clients, without runner, backend, *)
(* scheduler or threads: when a task may begin, how it may end, how many   *)
(* attempts it has and what its failure does to the tasks behind it.       *)
(***************************************************************************)
EXTENDS Naturals

CONSTANTS
  Task,        \* the tasks of the graph
  Deps,        \* Deps[t]: the tasks t depends on
  MaxAttempts  \* MaxAttempts[t]: attempts t is granted

VARIABLES
  phase,  \* phase[t]: waiting, active or how t ended
  tries   \* tries[t]: attempts given up so far

vars == <<phase, tries>>

Ended == {"succeeded", "failed", "cancelled", "skipped"}

Settled == {"succeeded", "skipped"}

Lost == {"failed", "cancelled"}

(* The dependencies of t are there *)
Supplied(t) == \A d \in Deps[t] : phase[d] \in Settled

Init ==
  /\ phase \in [Task -> {"waiting"} \cup Settled]
  /\ tries = [t \in Task |-> 0]

(* Execution of t begins; only ever on complete inputs *)
Begin(t) ==
  /\ phase[t] = "waiting"
  /\ Supplied(t)
  /\ phase' = [phase EXCEPT ![t] = "active"]
  /\ UNCHANGED tries

Succeed(t) ==
  /\ phase[t] = "active"
  /\ phase' = [phase EXCEPT ![t] = "succeeded"]
  /\ UNCHANGED tries

(* An attempt is used up; another one is left, and t waits for it unless it ended meanwhile *)
TryAgain(t) ==
  /\ phase[t] \in {"waiting", "active", "cancelled"}
  /\ tries[t] + 1 < MaxAttempts[t]
  /\ tries' = [tries EXCEPT ![t] = @ + 1]
  /\ phase' = [phase EXCEPT ![t] = IF @ = "active" THEN "waiting" ELSE @]

(* A client cancels a task that has not begun *)
Withdraw(t) ==
  /\ phase[t] = "waiting"
  /\ phase' = [phase EXCEPT ![t] = "cancelled"]
  /\ UNCHANGED tries

(***************************************************************************)
(* The tasks of S end without a product.  A waiting task goes down with    *)
(* them only behind a lost dependency of its own, and no task behind one   *)
(* that is lost in this step stays open.                                   *)
(***************************************************************************)
Collapse(S) ==
  /\ phase' \in [Task -> {"waiting", "active"} \cup Ended]
  /\ \A t \in Task :
       \/ phase'[t] = phase[t]
       \/ t \in S /\ phase[t] \in {"waiting", "active"} /\ phase'[t] \in Lost
       \/ /\ phase[t] = "waiting"
          /\ phase'[t] = "failed"
          /\ \E d \in Deps[t] : phase'[d] \in Lost
  /\ \A t \in Task : phase'[t] \in Lost /\ phase'[t] # phase[t] =>
       \A d \in Task : t \in Deps[d] => phase'[d] \in Ended
  /\ UNCHANGED tries

Next ==
  \/ \E t \in Task : Begin(t) \/ Succeed(t) \/ TryAgain(t) \/ Withdraw(t)
  \/ \E S \in SUBSET Task : Collapse(S)

Spec == Init /\ [][Next]_vars
=============================================================================
