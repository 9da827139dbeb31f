---------------------------- MODULE MCScheduler ----------------------------
(***************************************************************************)
(* Five tasks of two owners on two cores.  "x" and "y" belong to Ann, the  *)
(* others to Bob; "z" needs both cores, "u" is urgent and waits for "x".   *)
(***************************************************************************)
EXTENDS Scheduler

MixedTasks == {"x", "y", "z", "u", "v"}
MixedPosition == [t \in MixedTasks |->
  CASE t = "x" -> 1 [] t = "z" -> 2 [] t = "y" -> 3 [] t = "v" -> 4 [] t = "u" -> 5]
MixedDeps == [t \in MixedTasks |-> IF t = "u" THEN {"x"} ELSE {}]
MixedPriority == [t \in MixedTasks |-> IF t = "u" THEN 1 ELSE 0]
MixedOwner == [t \in MixedTasks |-> IF t \in {"x", "y"} THEN "Ann" ELSE "Bob"]
MixedNeed == [t \in MixedTasks |-> IF t = "z" THEN 2 ELSE 1]
MixedRetries == [t \in MixedTasks |-> IF t \in {"x", "v"} THEN 1 ELSE 0]

(* The order of arrival alternates between the owners, one task runs at a time *)
TurnsTasks == {"a1", "b1", "a2", "b2"}
TurnsPosition == [t \in TurnsTasks |->
  CASE t = "a1" -> 1 [] t = "b1" -> 2 [] t = "a2" -> 3 [] t = "b2" -> 4]
TurnsOwner == [t \in TurnsTasks |-> IF t \in {"a1", "a2"} THEN "Ann" ELSE "Bob"]
NoDeps == [t \in Task |-> {}]
OneLevel == [t \in Task |-> 0]
OneCore == [t \in Task |-> 1]
NoRetries == [t \in Task |-> 0]
=============================================================================
