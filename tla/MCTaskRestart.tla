--------------------------- MODULE MCTaskRestart ---------------------------
(***************************************************************************)
(* The state file from two sides: a graph of three tasks whose runner dies *)
(* and is started again ("a" feeds "b" and "b" feeds "c", so a cascade is  *)
(* written in three steps; "a" has two attempts), and the journal of one   *)
(* task with its flushes.  A behaviour is about one of them, the focus.    *)
(***************************************************************************)
EXTENDS TaskRestart, TaskJournal

VARIABLE focus

ChainTasks == {"a", "b", "c"}
ChainDeps == [t \in ChainTasks |-> CASE t = "a" -> {} [] t = "b" -> {"a"} [] t = "c" -> {"b"}]

TwoForA == [t \in Task |-> IF t = "a" THEN 2 ELSE 1]

(* A runner without a scheduler admits everything *)
FitsAlways(S) == TRUE

(* Two threads of the service, or one and the command line *)
TwoAtATime == {{"h1", "h2"}, {"h1", "operator"}}

(* The part a behaviour is not about has one first state *)
FileInit ==
  /\ RestartInit /\ JournalInit
  /\ \/ focus = "graph" /\ file = Missing /\ at["operator"] = "away"
     \/ focus = "journal" /\ (\A t \in Task : state[t] = "created")

FileNext ==
  /\ UNCHANGED focus
  /\ \/ focus = "graph" /\ RestartNext /\ UNCHANGED journalVars
     \/ focus = "journal" /\ JournalNext /\ UNCHANGED restartVars

FileSpec == FileInit /\ [][FileNext]_<<focus, restartVars, journalVars>>

FileTypeOK == RestartTypeOK /\ JournalTypeOK
=============================================================================
