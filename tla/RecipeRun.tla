----------------------------- MODULE RecipeRun ------------------------------
(***************************************************************************)
(* A recipe from its document to its deliverables: the document is         *)
(* validated (recipe/model.py), materialised with the caller's parameters  *)
(* into tasks (recipe/materialize.py), and the tasks are run.  A document  *)
(* is data, and drawn from a set; what matters of it is who depends on     *)
(* whom, who reads whose output, what is delivered, and one parameter.     *)
(***************************************************************************)
EXTENDS Naturals, Sequences, FiniteSets, SequencesExt

CONSTANTS
  Steps,     \* the steps of a document are 1 .. Steps; 0 is an id no step has
  Document,  \* the documents considered
  Given,     \* what the caller may give for the parameter
  Extra      \* max_attempts of a step: tries beyond the first

RStep == 1 .. Steps
Known == 0 .. Steps

(* depends and reads: steps; declares: whether a step declares the output that is
   read and delivered, others, or none; the parameter, and where its template is *)
IsDocument(r) ==
  /\ \A s \in RStep : r.depends[s] \in Seq(Known) /\ r.reads[s] \subseteq Known
  /\ r.declares \in [RStep -> {"it", "others", "nothing"}]
  /\ r.delivers \subseteq Known /\ r.entry \subseteq Known /\ Cardinality(r.entry) <= 1
  /\ r.type \in {"number", "string"} /\ r.scope \in {"reusable", "fixed"}
  /\ r.default \in {"null", "in", "text"} /\ r.required \in BOOLEAN
  /\ r.template \in {"none", "params", "input", "foreign"}

ASSUME RecipeRunAssumption ==
  /\ Steps \in Nat \ {0} /\ Extra \in Nat
  /\ \A r \in Document : IsDocument(r)
  /\ Given \subseteq {"absent", "null", "below", "in", "above", "nan", "text", "unknown"}

VARIABLES
  doc,      \* the document
  standing,    \* where it stands
  value,    \* the value the parameter was resolved to
  task,     \* task[s]: the state of the step's task
  tries     \* tries[s]: attempts of it

runVars == <<doc, standing, value, task, tries>>

Phases == {"draft", "rejected", "accepted", "param_missing", "param_unknown", "param_invalid_type",
           "param_out_of_range", "param_fixed", "error", "crashed", "running", "delivered"}

RunTypeOK ==
  /\ IsDocument(doc) /\ standing \in Phases
  /\ value \in {"null", "below", "in", "above", "nan", "text"}
  /\ task \in [RStep -> {"open", "running", "done", "failed"}]
  /\ tries \in [RStep -> 0 .. 1 + Extra]

RunInit ==
  /\ doc \in Document /\ standing = "draft" /\ value = "null"
  /\ task = [s \in RStep |-> "open"] /\ tries = [s \in RStep |-> 0]

-----------------------------------------------------------------------------
(* Kahn's algorithm takes a step once as many different steps are out before it
   as it lists.  Slip: one of them is enough *)
OutAny(r, taken, s) ==
  r.depends[s] = <<>> \/ ToSet(r.depends[s]) \cap taken # {}
Out(r, taken, s) == Cardinality(ToSet(r.depends[s]) \cap taken) = Len(r.depends[s])
Taken(r) ==
  LET rounds[n \in 0 .. Steps] ==
        IF n = 0 THEN {} ELSE {s \in RStep : Out(r, rounds[n - 1], s)}
  IN  rounds[Steps]

(* What is wrong with a document (_graph_is_sound) *)
DependsWell(r) == \A s \in RStep : ToSet(r.depends[s]) \subseteq RStep \ {s}
NoCycle(r) == Taken(r) = RStep
EntryIsStep(r) == r.entry \subseteq RStep
Gives(r, s) == s \in RStep /\ r.declares[s] # "others"
OutputsExist(r) == \A s \in r.delivers : Gives(r, s)
ReadsExist(r) == \A s \in RStep : \A t \in r.reads[s] : Gives(r, t)

Validate ==
  /\ standing = "draft"
  /\ standing' = IF DependsWell(doc) /\ NoCycle(doc) /\ EntryIsStep(doc)
                 /\ OutputsExist(doc) /\ ReadsExist(doc)
              THEN "accepted" ELSE "rejected"
  /\ UNCHANGED <<doc, value, task, tries>>

(* A parameter's value: the author's if it is fixed, else what was given, made a
   number and measured, else the default *)
Coerces(r, v) == r.type = "number" => v # "text"
TooFar(r, v) == r.type = "number" /\ v \in {"below", "above"}

(* Slip: a fixed parameter takes what is given *)
MayNotChangeNever(r, v) == FALSE
MayNotChange(r, v) == r.scope = "fixed" /\ v \notin {"absent", "unknown", r.default}

Refusal(r, v) ==
  CASE v = "unknown" -> "param_unknown"
    [] MayNotChange(r, v) -> "param_fixed"
    [] r.scope = "reusable" /\ v \in {"absent", "null"} /\ r.default = "null" /\ r.required -> "param_missing"
    [] r.scope = "reusable" /\ v \notin {"absent", "null"} /\ ~Coerces(r, v) -> "param_invalid_type"
    [] r.scope = "reusable" /\ v \notin {"absent", "null"} /\ TooFar(r, v) -> "param_out_of_range"
    [] OTHER -> "none"
Resolved(r, v) == IF v \in {"absent", "null"} THEN r.default ELSE v

(* An input is taken for a text, whatever its template made of it *)
InputBreaks(r, v) == r.template = "input" /\ (r.type = "number" \/ Resolved(r, v) = "null")

Materialize(v) ==
  /\ standing = "accepted"
  /\ standing' = CASE Refusal(doc, v) # "none" -> Refusal(doc, v)
                [] Refusal(doc, v) = "none" /\ doc.template = "foreign" -> "error"
                [] Refusal(doc, v) = "none" /\ InputBreaks(doc, v) -> "crashed"
                [] OTHER -> "running"
  /\ value' = IF standing' = "running" THEN Resolved(doc, v) ELSE value
  /\ UNCHANGED <<doc, task, tries>>

-----------------------------------------------------------------------------
(* The run: a task starts when what it depends on is done; reading an output is
   no dependency *)
Before(s) == ToSet(doc.depends[s])
StartTask(s) ==
  /\ standing = "running" /\ task[s] = "open"
  /\ \A t \in Before(s) : task[t] = "done"
  /\ task' = [task EXCEPT ![s] = "running"] /\ tries' = [tries EXCEPT ![s] = @ + 1]
  /\ UNCHANGED <<doc, standing, value>>

TaskDone(s) ==
  /\ task[s] = "running"
  /\ task' = [task EXCEPT ![s] = "done"]
  /\ UNCHANGED <<doc, standing, value, tries>>

(* max_attempts of a step comes on top of the first try *)
TriesLeft(s) == tries[s] < 1 + Extra

(* All that needs the task is failed with it *)
Needs(s) ==
  LET within[n \in 0 .. Steps] ==
        IF n = 0 THEN {s} ELSE within[n - 1] \cup {t \in RStep : Before(t) \cap within[n - 1] # {}}
  IN  within[Steps]
TaskFails(s) ==
  /\ task[s] = "running"
  /\ \/ TriesLeft(s) /\ task' = [task EXCEPT ![s] = "open"]
     \/ task' = [t \in RStep |-> IF t \in Needs(s) THEN "failed" ELSE task[t]]
  /\ UNCHANGED <<doc, standing, value, tries>>

Deliver ==
  /\ standing = "running" /\ \A s \in RStep : task[s] \in {"done", "failed"}
  /\ standing' = "delivered"
  /\ UNCHANGED <<doc, value, task, tries>>

TaskStep == Deliver \/ \E s \in RStep : StartTask(s) \/ TaskDone(s) \/ TaskFails(s)
RunNext == Validate \/ (\E v \in Given : Materialize(v)) \/ TaskStep
RunSpec == RunInit /\ [][RunNext]_runVars /\ WF_runVars(TaskStep)
-----------------------------------------------------------------------------
(* A set of steps in which each one waits for another of the set *)
Circle(r) == \E S \in SUBSET RStep : S # {} /\ \A s \in S : ToSet(r.depends[s]) \cap S # {}
Sound(r) ==
  ~Circle(r) /\ DependsWell(r) /\ EntryIsStep(r) /\ OutputsExist(r) /\ ReadsExist(r)
Repeats(r) == \E s \in RStep : ~IsInjective(r.depends[s])

(* A document is accepted only if its steps can be put in an order, and whatever it
   delivers or reads has a step; and one that is sound is not turned down, unless
   it lists a dependency twice (_graph_is_sound) *)
OnlySoundAccepted ==
  /\ standing = "accepted" => Sound(doc)
  /\ standing = "rejected" => ~Sound(doc) \/ Repeats(doc)

(* What a run goes by is what the contract of the parameter allows, "nan" apart; a
   fixed one is the author's (resolve_params) *)
ContractKept ==
  standing \in {"running", "delivered"} =>
    /\ doc.scope = "fixed" => value = doc.default
    /\ doc.scope = "reusable" /\ doc.required /\ doc.default = "null" => value # "null"
    /\ doc.scope = "reusable" /\ value # doc.default /\ doc.type = "number" => value \in {"in", "nan"}

(* A run comes to its end; everything has been done then, unless a step failed, and
   a step fails only with one before it or after all its tries or for good *)
DoneOrBlamed ==
  standing = "delivered" =>
    \A s \in RStep : task[s] = "failed" => tries[s] > 0 \/ \E t \in Before(s) : task[t] = "failed"
RunsDeliver == standing = "running" ~> standing = "delivered"

(* From the document to the end of the run *)
RecipesRunSoundly == OnlySoundAccepted /\ ContractKept /\ DoneOrBlamed

(* RECIPE.md, and what does not hold of it: rejected are "Unknown, self, or cyclic
   references" (a repeated one is as well) *)
RepeatIsNoCycle == standing = "rejected" => ~Sound(doc)
(* an input may "consume an upstream result" (of a step that has not run) *)
InputsAreThere == \A s \in RStep : task[s] = "running" => \A t \in doc.reads[s] : task[t] = "done"
(* the step a deliverable comes from "must actually declare that output" *)
DeliveriesDeclared == standing = "accepted" => \A s \in doc.delivers : doc.declares[s] = "it"
(* a value outside the bounds is refused (not "nan") *)
BoundsHold == standing = "running" /\ doc.type = "number" => value # "nan"
(* the failures of parameters "carry a machine-readable field and code" (not a
   number, or nothing, as an input) *)
NeverCrashes == standing # "crashed"
=============================================================================
