---------------------------- MODULE TaskMachine ----------------------------
(***************************************************************************)
(* The vocabulary of a GeoTask: its states, the table of legal moves, the  *)
(* error codes and the retry rule.  Pure definitions, shared by every      *)
(* module that follows a task through its life.                            *)
(***************************************************************************)
EXTENDS Naturals

State == {"created", "queued", "blocked", "scheduled", "running",
          "succeeded", "failed", "cancelled", "skipped"}

Terminal == {"succeeded", "failed", "cancelled", "skipped"}

(* Not started yet: what ready() may offer and what a cancel settles at once *)
Runnable == {"created", "queued", "blocked"}

(* A dependency in one of these states no longer holds its dependents back *)
Satisfied == {"succeeded", "skipped"}

Transitions ==
  {<<"created", "queued">>,      <<"created", "cancelled">>,
   <<"queued", "scheduled">>,    <<"queued", "blocked">>,
   <<"queued", "cancelled">>,    <<"blocked", "queued">>,
   <<"blocked", "failed">>,      <<"blocked", "skipped">>,
   <<"blocked", "cancelled">>,   <<"scheduled", "running">>,
   <<"scheduled", "queued">>,    <<"scheduled", "failed">>,
   <<"scheduled", "cancelled">>, <<"running", "succeeded">>,
   <<"running", "failed">>,      <<"running", "cancelled">>,
   <<"running", "queued">>}

CanTransition(src, dst) == <<src, dst>> \in Transitions

(***************************************************************************)
(* The graph drives a task with short chains of moves (ensure_queued, then *)
(* scheduled ...).  A move the table refuses is dropped when the task is   *)
(* terminal; on a live task it would raise IllegalTransition.              *)
(***************************************************************************)
Move(s, to) == IF CanTransition(s, to) THEN to ELSE s

EnsureQueued(s) == IF s \in {"created", "blocked"} THEN Move(s, "queued") ELSE s

EnsureBlocked(s) ==
  IF s = "blocked" THEN s ELSE Move(EnsureQueued(s), "blocked")

(* Error codes the local execution path produces, and which of them a retry may follow *)
Code == {"input_missing", "invalid_spec", "no_compatible_compute",
         "resource_unavailable", "executor_lost", "timeout",
         "execution_error", "upstream_failed", "cancelled"}

RetryableCode ==
  {"resource_unavailable", "executor_lost", "timeout", "execution_error"}

(* attempt counts from 0, max is the total number of attempts allowed *)
AllowsAnotherAttempt(attempt, max) == attempt + 1 < max
=============================================================================
