----------------------------- MODULE MCRequests -----------------------------
(***************************************************************************)
(* What a request for something meets before it is an answer, small: a     *)
(* catalogue of recipes, the run of one, a goal on its way to a plan, a    *)
(* plan and its repair, jobs at a service elsewhere, a registry and its    *)
(* client, a knowledge graph.  A behaviour is about one of them, the       *)
(* focus, of the jobs about one kind of call, of the registry about one    *)
(* kind of entry; the others stay as they were at first.                   *)
(***************************************************************************)
EXTENDS RecipeCatalogue, RecipeRun, PlanReflection, RemoteJobs, AgentPlanning, KnowledgeGraph,
        RegistryApi, TLC

VARIABLE focus   \* the part this behaviour is about

(* A recipe and the address of its fork; the fork of that is itself *)
OwnSlug(a) == a
OnlyVersion(a) == 1
Forked(a) == "fork"

(* Step 1 names step 2; a template of step 3 uses step 1 without naming it *)
Named == 1 :> {2} @@ 2 :> {} @@ 3 :> {}
Used == 1 :> {} @@ 2 :> {} @@ 3 :> {1}

Same(c) == c

(* Documents of three steps: every graph of a kind, with cycles and repetitions;
   every step that reads another; every deliverable; every parameter *)
Plain ==
  [depends |-> <<<<>>, <<1>>, <<2>>>>, reads |-> [s \in RStep |-> {}],
   declares |-> [s \in RStep |-> "it"], delivers |-> {3}, entry |-> {}, type |-> "number",
   scope |-> "reusable", default |-> "in", required |-> FALSE, template |-> "params"]
Lists == {<<>>, <<1>>, <<2>>, <<3>>, <<1, 2>>, <<1, 1>>, <<2, 3>>, <<0>>}
Graphs == {[Plain EXCEPT !.depends = d] : d \in [RStep -> Lists]}
Readers ==
  {[Plain EXCEPT !.depends[3] = l, !.reads[s] = {t}, !.declares[t] = w] :
     l \in {<<>>, <<1>>}, s \in RStep, t \in RStep, w \in {"it", "others", "nothing"}}
Deliveries ==
  {[Plain EXCEPT !.delivers = d, !.declares[1] = w, !.entry = e] :
     d \in SUBSET Known, w \in {"it", "others", "nothing"}, e \in {{}, {0}, {2}}}
Parameters ==
  {[Plain EXCEPT !.type = y, !.scope = c, !.default = d, !.required = q, !.template = t] :
     y \in {"number", "string"}, c \in {"reusable", "fixed"}, d \in {"null", "in"},
     q \in BOOLEAN, t \in {"none", "params", "input", "foreign"}}
Documents == Graphs \cup Readers \cup Deliveries \cup Parameters
AnyDocument == doc = Plain
AnyStore == store = NoStore("json")

OneEachAsset == [a \in Asset |-> IF a \in {"s1", "c1"} THEN "h1" ELSE "h2"]

(* Goals for a skill, for whatever is able, and pipelines: a chain with two cards of
   different nodes, one with a template that goes backwards, one that names what
   comes later *)
GoalStep(s, c, d, u) == [skill |-> s, cards |-> c, depends |-> d, uses |-> u]
SomeGoals ==
  {[skill |-> k, steps |-> <<>>] : k \in {"any", "s1"}} \cup
  {[skill |-> "any", steps |-> <<GoalStep("s1", <<"c1", "c2">>, {}, u), GoalStep("s2", <<>>, d, {})>>] :
     u \in {{}, {2}}, d \in {{1}, {2}}}

(* One contract that needs another, which is listed later *)
ListedContracts == <<"e1", "e2">>
FirstNeedsSecond == [e \in Entity |-> IF e = "e1" THEN <<"e2">> ELSE <<>>]

(* What a client of the registry asks about, and what the keys may do *)
Family == [cards |-> {"card"}, skills |-> {"skill"}, plugins |-> {"plugin"},
           versions |-> Versions \cup {"r"}]
KeyScopes == [k \in Key |->
  CASE k = "author" -> {"submit"} [] k = "judge" -> {"review"} [] k = "keeper" -> {"write"}]

(* What a behaviour may be about, besides a kind of call *)
Part == {"catalogue", "recipe", "plan", "goal", "code", "graph"} \cup DOMAIN Family

ASSUME FocusAssumption == Call \cap Part = {}

vars == <<focus, catVars, runVars, planVars, jobVars, agentVars, graphVars, raVars>>

Init ==
  /\ CatInit /\ RunInit /\ PlanInit /\ JobInit /\ AgentInit /\ GraphInit /\ RegistryApiInit
  /\ \/ focus = "recipe" /\ AnyStore /\ public
     \/ focus = "graph" /\ AnyDocument /\ public
     \/ focus \in DOMAIN Family /\ AnyDocument /\ AnyStore
     \/ focus \in {"catalogue", "plan", "goal", "code"} \cup Call /\ AnyDocument /\ AnyStore /\ public

OtherVars(part) ==
  /\ part # "catalogue" => UNCHANGED catVars
  /\ part # "recipe" => UNCHANGED runVars
  /\ part # "plan" => UNCHANGED planVars
  /\ part \notin Call => UNCHANGED jobVars
  /\ part \notin {"goal", "code"} => UNCHANGED agentVars
  /\ part # "graph" => UNCHANGED graphVars
  /\ part \notin DOMAIN Family => UNCHANGED raVars

Next ==
  /\ UNCHANGED focus
  /\ \/ focus = "catalogue" /\ CatNext
     \/ focus = "recipe" /\ RunNext
     \/ focus = "plan" /\ PlanNext
     \/ focus \in Call /\ JobStep({focus})
     \/ focus = "goal" /\ GoalNext
     \/ focus = "code" /\ CodeNext
     \/ focus = "graph" /\ GraphNext
     \/ focus \in DOMAIN Family /\ ClientNext(Family[focus])
     \/ focus = "skills" /\ Watching
  /\ OtherVars(focus)

(* The fairness of the parts, for the one that moves *)
Fairness ==
  /\ WF_runVars(focus = "recipe" /\ TaskStep)
  /\ WF_planVars(focus = "plan" /\ PlanStepAction)
  /\ WF_agentVars(focus = "goal" /\ RequestStep) /\ WF_agentVars(focus = "code" /\ TryCode)
  /\ \A c \in Call : WF_jobVars(focus = c /\ CallStep(c))
  /\ \A c \in Client, f \in DOMAIN Family : WF_raVars(focus = f /\ ClientStep(c, Family[f]))

Spec == Init /\ [][Next]_vars /\ Fairness

(* Whatever is begun comes to an end: the run of a plan, a job elsewhere, the run of a
   recipe, the way from a request to a plan, a call of the registry *)
EverythingEnds == RunIsOver /\ CallEnds /\ RunsDeliver /\ AgentsEnd /\ CallReturns

TypeOK == CatTypeOK /\ RunTypeOK /\ PlanTypeOK /\ JobTypeOK /\ AgentTypeOK /\ GraphTypeOK
          /\ RegistryApiTypeOK
=============================================================================
