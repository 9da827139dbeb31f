----------------------------- MODULE MCGeoTask -----------------------------
(***************************************************************************)
(* Small graphs for GeoTask: "a" feeds "b" and "c" waits for nothing, or   *)
(* the diamond a -> b, c -> d.                                             *)
(***************************************************************************)
EXTENDS GeoTask, FiniteSetsExt

ForkTasks == {"a", "b", "c"}
ForkDeps == [t \in ForkTasks |-> IF t = "b" THEN {"a"} ELSE {}]

DiamondTasks == {"a", "b", "c", "d"}
DiamondDeps == [t \in DiamondTasks |-> CASE t = "a" -> {}
                                         [] t \in {"b", "c"} -> {"a"}
                                         [] t = "d" -> {"b", "c"}]

(* Two attempts for "a" and "c", one for the others *)
Attempts == [t \in Task |-> IF t \in {"a", "c"} THEN 2 ELSE 1]

(* Every task needs one core of two, "c" needs both; at most two at a time *)
Need(t) == IF t = "c" THEN 2 ELSE 1
FitsTwoCores(S) == MapThenSumSet(Need, S) <= 2 /\ Cardinality(S) <= 2

(* One core only: "c" fits nowhere and is rejected *)
FitsOneCore(S) == MapThenSumSet(Need, S) <= 1
=============================================================================
