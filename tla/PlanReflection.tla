--------------------------- MODULE PlanReflection ---------------------------
(***************************************************************************)
(* agent/planner.py and agent/reflective.py: executing a plan of steps and *)
(* repairing it.  A first pass runs the ready steps in parallel, as tasks  *)
(* of a graph (GeoTask; here only what the plan sees of it: a step runs    *)
(* when all its dependencies are settled well, and fails when one fails).  *)
(* Then ReflectiveExecutor asks an advisor about one failed step at a time *)
(* and follows the advice, for a bounded number of rounds.                 *)
(*                                                                         *)
(* A step may name what it depends on, and may use the output of another   *)
(* one in a template without naming it.                                    *)
(***************************************************************************)
EXTENDS Naturals, FiniteSets

CONSTANTS
  Step,            \* the step ids, numbered by their place in the plan
  DependsOn,       \* DependsOn[s]: depends_on
  Uses,            \* Uses[s]: the steps whose output a template of s asks for
  MaxReflections,  \* max_reflections
  MaxRuns          \* bound: how often the plan is run

ASSUME PlanAssumption ==
  /\ Step \subseteq Nat \ {0} /\ IsFiniteSet(Step)
  /\ DependsOn \in [Step -> SUBSET Nat] /\ Uses \in [Step -> SUBSET Nat]
  /\ MaxReflections \in Nat /\ MaxRuns \in Nat

VARIABLES
  status,      \* status[s]: the step's status
  has,         \* has[s]: it has a result
  uses,        \* uses[s]: Uses[s], until the advisor gives other params
  settled,     \* the steps of this pass whose task has ended
  phase,       \* "idle", "first pass", "reflecting"
  rounds,      \* reflections_used
  runs,        \* how often the plan was run
  called,      \* history: the step whose skill the last action of the plan called
  filled       \* history: every run of a step found the outputs its templates ask for

planVars == <<status, has, uses, settled, phase, rounds, runs, called, filled>>

PlanTypeOK ==
  /\ status \in [Step -> {"pending", "done", "failed", "skipped"}]
  /\ has \in [Step -> BOOLEAN]
  /\ uses \in [Step -> SUBSET Nat]
  /\ settled \subseteq Step
  /\ phase \in {"idle", "first pass", "reflecting"}
  /\ rounds \in 0 .. MaxReflections /\ runs \in 0 .. MaxRuns
  /\ called \subseteq Step /\ filled \in BOOLEAN

PlanInit ==
  /\ status = [s \in Step |-> "pending"]
  /\ has = [s \in Step |-> FALSE]
  /\ uses = Uses
  /\ settled = {} /\ phase = "idle" /\ rounds = 0 /\ runs = 0
  /\ called = {} /\ filled = TRUE

-----------------------------------------------------------------------------
(* _effective_deps: what is named, and what the templates ask for.  Slip: only
   what is named, as the serial executor of old could afford *)
NamedDeps(s) == DependsOn[s] \cap Step
EffectiveDeps(s) == (DependsOn[s] \cup (uses[s] \ {s})) \cap Step

(* TaskGraph refuses a cycle; the templates may make one *)
Below[n \in Nat] ==
  [s \in Step |-> {s} \cup IF n = 0 THEN {} ELSE UNION {Below[n - 1][d] : d \in EffectiveDeps(s)}]
Acyclic == \A s \in Step : \A d \in EffectiveDeps(s) : s \notin Below[Cardinality(Step)][d]

(* run: what is done or skipped is not run again (_preload_settled).  Slip: all of it is *)
AllOpen == {}
Preloaded == {s \in Step : status[s] \in {"done", "skipped"}}
StartPlan ==
  /\ phase = "idle" /\ runs < MaxRuns /\ Acyclic
  /\ runs' = runs + 1 /\ rounds' = 0
  /\ phase' = "first pass"
  /\ settled' = Preloaded
  /\ called' = {}
  /\ UNCHANGED <<status, has, uses, filled>>

(* _run_step: templates are resolved now; one without an output is sent as it is *)
CallSkill(s) ==
  /\ called' = {s}
  /\ \/ status' = [status EXCEPT ![s] = "done"] /\ has' = [has EXCEPT ![s] = TRUE]
     \/ status' = [status EXCEPT ![s] = "failed"] /\ UNCHANGED has
RunStep(s) ==
  /\ CallSkill(s)
  /\ filled' = (filled /\ \A d \in uses[s] \cap Step : has[d])

RunReady(s) ==
  /\ phase = "first pass" /\ s \in Step \ settled
  /\ \A d \in EffectiveDeps(s) : d \in settled /\ status[d] \in {"done", "skipped"}
  /\ RunStep(s)
  /\ settled' = settled \cup {s}
  /\ UNCHANGED <<uses, phase, rounds, runs>>

(* _project_plan: "a dependency step failed" *)
FailBlocked(s) ==
  /\ phase = "first pass" /\ s \in Step \ settled
  /\ \E d \in EffectiveDeps(s) : d \in settled /\ status[d] = "failed"
  /\ status' = [status EXCEPT ![s] = "failed"]
  /\ settled' = settled \cup {s}
  /\ called' = {}
  /\ UNCHANGED <<has, uses, phase, rounds, runs, filled>>

EndFirstPass ==
  /\ phase = "first pass" /\ settled = Step
  /\ phase' = "reflecting"
  /\ called' = {}
  /\ UNCHANGED <<status, has, uses, settled, rounds, runs, filled>>

-----------------------------------------------------------------------------
(* The failed steps that no failed step blocks; the first one is next *)
Repairable ==
  {s \in Step : status[s] = "failed" /\ \A d \in DependsOn[s] \cap Step : status[d] # "failed"}
First(S) == {s \in S : \A t \in S : s <= t}

EndRun ==
  /\ phase = "reflecting" /\ (Repairable = {} \/ rounds = MaxReflections)
  /\ phase' = "idle"
  /\ called' = {}
  /\ UNCHANGED <<status, has, uses, settled, rounds, runs, filled>>

(* One round; an advisor that fails is taken to advise an abort *)
Reflect(s) ==
  /\ phase = "reflecting" /\ rounds < MaxReflections /\ s \in First(Repairable)
  /\ rounds' = rounds + 1
  /\ \/ phase' = "idle" /\ called' = {} /\ UNCHANGED <<status, has, uses, filled>>
     \/ /\ status' = [status EXCEPT ![s] = "skipped"] /\ called' = {}
        /\ UNCHANGED <<has, uses, phase, filled>>
     \/ /\ RunStep(s)
        /\ UNCHANGED <<uses, phase>>
     \/ /\ uses' = [uses EXCEPT ![s] = {}]   \* new params in place of the templates
        /\ CallSkill(s)
        /\ UNCHANGED <<phase, filled>>
  /\ UNCHANGED <<settled, runs>>

PlanStepAction ==
  \/ \E s \in Step : RunReady(s) \/ FailBlocked(s) \/ Reflect(s)
  \/ EndFirstPass \/ EndRun
PlanNext == StartPlan \/ PlanStepAction

(* The executor goes on by itself once it is started *)
PlanSpec == PlanInit /\ [][PlanNext]_planVars /\ WF_planVars(PlanStepAction)
-----------------------------------------------------------------------------
(* No skill is called, in the first pass or in a repair, whether it succeeds or fails,
   while a step that its step names as a dependency has failed or not run, nor for a step
   that is done or was skipped; and what is done stays done, over as many runs of the plan
   as there are (planner.py: _preload_settled; reflective.py: the step to repair) *)
RepairKeepsOrder ==
  /\ \A s \in called' :
       /\ status[s] \notin {"done", "skipped"}
       /\ \A d \in DependsOn[s] \cap Step : status[d] \in {"done", "skipped"}
  /\ \A s \in Step : status[s] = "done" => status'[s] = "done"

(* The first pass keeps the promise of planner.py: "the ready set guarantees
   that the referenced step has finished", so templates are filled *)
FirstPassFills == runs <= 1 /\ phase = "first pass" => filled

(* No pass is stuck: as long as a step has not settled, there is one that can run or
   has to fail, as all it depends on has settled (planner.py hands the steps to a
   TaskGraph, which takes no cycle) *)
SomeStepCanGo ==
  phase = "first pass" /\ settled # Step =>
    \E s \in Step \ settled : EffectiveDeps(s) \subseteq settled

(* run ends, whatever the steps and the advisor do *)
RunIsOver == phase # "idle" ~> phase = "idle"

(* What a plan may rely on: order, filled templates in the first pass, and a step that can go *)
PlanIsSound == [][RepairKeepsOrder /\ FirstPassFills' /\ SomeStepCanGo']_planVars

(* The same promise for the whole run.  It fails: a repair runs a step whose
   template's source has failed or was skipped, and sends the template as text *)
TemplatesAreFilled == filled
=============================================================================
