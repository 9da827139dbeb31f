--------------------------- MODULE AgentPlanning ---------------------------
(***************************************************************************)
(* agent/: from a request to a plan.  A language model translates a text   *)
(* into a goal, with one repair; GeoAgentPlanner looks up, request by      *)
(* request, what the goal needs at a registry that goes on changing, and   *)
(* what it plans is handed to the executor (PlanReflection, FederatedQuery *)
(* have what comes then).  And CodeAgent, which runs a piece of code,      *)
(* repairs it and runs it again.                                           *)
(***************************************************************************)
EXTENDS Naturals, Sequences, FiniteSets, SequencesExt

CONSTANTS
  Host,         \* the addresses of nodes
  Asset,        \* the names of skills and cards
  FirstHost,        \* FirstHost[a]: where it is registered at first
  Goals,        \* the goals a model or a caller may come up with (IsGoal)
  Able,         \* the skills with the capability of the goals
  Matching,     \* the cards that match the goals
  MaxRequests,  \* bound: requests for a plan
  MaxEvents,    \* bound: changes at the registry
  MaxRetries,   \* CodeAgent.max_retries
  Defect        \* what may be wrong with a piece of code

(* Goal and GoalStep.  depends: depends_on; uses: the steps its templates name *)
GoalSteps == [skill : Asset, cards : Seq(Asset), depends : SUBSET Nat, uses : SUBSET Nat]
IsGoal(g) == g.skill \in Asset \cup {"any"} /\ g.steps \in Seq(GoalSteps)

ASSUME AgentAssumption ==
  /\ Goals # {} /\ \A g \in Goals : IsGoal(g)
  /\ IsFiniteSet(Asset)
  /\ FirstHost \in [Asset -> Host] /\ Able \subseteq Asset /\ Matching \subseteq Asset
  /\ MaxRequests \in Nat /\ MaxEvents \in Nat /\ MaxRetries \in Nat

VARIABLES
  home,     \* home[a]: the address an asset is registered at, or "nowhere"
  held,     \* history: what was registered where, since this request began
  planning, \* where this request is
  goal,     \* its goal
  asked,    \* how often the model was asked
  offered,  \* the skills the model was told of
  got,      \* what was read from the registry and not used yet
  plan,     \* the steps so far
  count,    \* requests and changes so far
  code      \* CodeAgent: what it runs, and what it reports

agentVars == <<home, held, planning, goal, asked, offered, got, plan, count, code>>
requestVars == <<planning, goal, asked, offered, got, plan>>

Registered == {a \in Asset : home[a] # "nowhere"}
Resting == {"idle", "launched", "refused", "crashed"}
PlanPhases == Resting \cup {"grounding", "asking", "repairing", "skills", "cards", "step", "owners", "ready"}

NoCode == [phase |-> "idle", faults |-> {}, ran |-> {}, attempts |-> 0, error |-> "none", model |-> FALSE]

AgentInit ==
  /\ home = FirstHost
  /\ held = {} /\ planning = "idle" /\ goal = CHOOSE g \in Goals : TRUE
  /\ asked = 0 /\ offered = {} /\ got = <<>> /\ plan = <<>>
  /\ count = [requests |-> 0, events |-> 0]
  /\ code = NoCode

-----------------------------------------------------------------------------
(* The registry goes on: an asset is taken out, or is registered again, maybe by
   another node *)
RegistryMoves(a) ==
  /\ count.events < MaxEvents
  /\ \E h \in Host \cup {"nowhere"} :
       /\ h # home[a] /\ "nowhere" \in {h, home[a]}
       /\ home' = [home EXCEPT ![a] = h]
       /\ held' = held \cup {<<a, h>>}
  /\ count' = [count EXCEPT !.events = @ + 1]
  /\ UNCHANGED <<requestVars, code>>

(* cmd_agent_run has a goal; cmd_agent_ask and plan_from_text_with_registry a text *)
Request(p, g) ==
  /\ planning \in Resting /\ count.requests < MaxRequests
  /\ planning' = p /\ goal' = g
  /\ held' = {<<a, home[a]>> : a \in Registered}
  /\ asked' = 0 /\ offered' = {} /\ got' = <<>> /\ plan' = <<>>
  /\ count' = [count EXCEPT !.requests = @ + 1]
  /\ UNCHANGED <<home, code>>
GiveGoal == \E g \in Goals : Request(IF g.steps = <<>> THEN "skills" ELSE "step", g)
GiveText == Request("grounding", goal)

MovesOn(p) == planning' = p /\ UNCHANGED <<home, held, goal, asked, offered, got, plan, count, code>>

(* list_skills for the prompt.  The command goes on without it, the function does
   not *)
Ground ==
  /\ planning = "grounding"
  /\ \/ /\ planning' = "asking" /\ offered' = Registered
        /\ UNCHANGED <<home, held, goal, asked, got, plan, count, code>>
     \/ MovesOn("asking")
     \/ MovesOn("refused")

(* _complete: a goal, or not; an answer without the shape, or an error, is an
   ExecutionError at once *)
AfterInvalid == IF planning = "asking" THEN "repairing" ELSE "refused"
AskModel ==
  /\ planning \in {"asking", "repairing"}
  /\ asked' = asked + 1
  /\ \/ \E g \in Goals : goal' = g /\ planning' = IF g.steps = <<>> THEN "skills" ELSE "step"
     \/ planning' = AfterInvalid /\ UNCHANGED goal
     \/ planning' = "refused" /\ UNCHANGED goal
  /\ UNCHANGED <<home, held, offered, got, plan, count, code>>

-----------------------------------------------------------------------------
(* plan: the skills with the name, or the capability *)
Fitting == {a \in Registered : IF goal.skill = "any" THEN a \in Able ELSE a = goal.skill}
FindSkills ==
  /\ planning = "skills"
  /\ \/ /\ Fitting # {}
        /\ got' = <<{<<a, home[a]>> : a \in Fitting}>> /\ planning' = "cards"
        /\ UNCHANGED <<home, held, goal, asked, offered, plan, count, code>>
     \/ MovesOn("refused")       \* none, or RegistryClientError

(* A step per skill and card, at the card's node; without cards a step per skill, at
   the skill's.  The windows of time multiply them *)
PlanStep(kind, skill, node, cards) ==
  [kind |-> kind, skill |-> skill, node |-> node, cards |-> cards, depends |-> {}, uses |-> {}]
Expanded(skills, cards) ==
  IF cards = {} THEN {PlanStep("skill-only", s[1], s[2], <<>>) : s \in skills}
  ELSE {PlanStep("card-skill", q[1][1], home[q[2]], <<q[2]>>) : q \in skills \X cards}
FindCards ==
  /\ planning = "cards"
  /\ \/ /\ plan' = SetToSeq(Expanded(got[1], Matching \cap Registered))
        /\ got' = <<>> /\ planning' = "ready"
        /\ UNCHANGED <<home, held, goal, asked, offered, count, code>>
     \/ MovesOn("refused")

-----------------------------------------------------------------------------
(* plan_pipeline: what is named must come earlier *)
Forward == \A i \in DOMAIN goal.steps : goal.steps[i].depends \subseteq 1 .. (i - 1)

Current == goal.steps[Len(plan) + 1]
AddStep(node) ==
  /\ plan' = Append(plan,
       [kind |-> IF Current.cards = <<>> THEN "skill-only" ELSE "card-skill",
        skill |-> Current.skill, node |-> node, cards |-> Current.cards,
        depends |-> Current.depends, uses |-> Current.uses])
  /\ planning' = IF Len(plan) + 1 = Len(goal.steps) THEN "ready" ELSE "step"
  /\ got' = <<>>
  /\ UNCHANGED <<home, held, goal, asked, offered, count, code>>

(* get_skill: a 404 or another error is no ExecutionError here.  got: the node of the
   skill, then the owners of the cards *)
ResolveSkill ==
  /\ planning = "step"
  /\ IF ~Forward THEN MovesOn("refused")
     ELSE \/ /\ Current.skill \in Registered /\ Current.cards = <<>>
             /\ AddStep(home[Current.skill])
          \/ /\ Current.skill \in Registered /\ Current.cards # <<>>
             /\ got' = <<home[Current.skill], "ask">> /\ planning' = "owners"
             /\ UNCHANGED <<home, held, goal, asked, offered, plan, count, code>>
          \/ MovesOn("crashed")

(* owners: every card is asked for twice, once whether it has a node and once for
   the node; the step gets the node of the first.  Slip: that of the skill *)
Card == Current.cards[Len(got) - 1]
NodeOf(owners) == owners[2]
NodeOfSkill(owners) == owners[1]
StepNode(owners) == NodeOf(owners)
ResolveOwner ==
  /\ planning = "owners"
  /\ \/ /\ Card \in Registered /\ got[Len(got)] = "ask"
        /\ got' = [got EXCEPT ![Len(got)] = "have"]
        /\ UNCHANGED <<home, held, planning, goal, asked, offered, plan, count, code>>
     \/ /\ Card \in Registered /\ got[Len(got)] = "have"
        /\ LET owners == [got EXCEPT ![Len(got)] = home[Card]]
           IN IF Len(owners) > Len(Current.cards) THEN AddStep(StepNode(owners))
              ELSE /\ got' = Append(owners, "ask")
                   /\ UNCHANGED <<home, held, planning, goal, asked, offered, plan, count, code>>
     \/ MovesOn("crashed")

(* PlanExecutor.run: from_tasks refuses a graph with a cycle *)
Edges(i) == {d \in plan[i].depends \cup plan[i].uses : d \in DOMAIN plan /\ d # i}
Precede[n \in Nat, i \in Nat] ==
  IF n = 0 THEN Edges(i) ELSE Edges(i) \cup UNION {Precede[n - 1, d] : d \in Edges(i)}
InCycle(i) == i \in Precede[Len(plan), i]
Launch ==
  /\ planning = "ready"
  /\ MovesOn(IF \E i \in DOMAIN plan : InCycle(i) THEN "crashed" ELSE "launched")

-----------------------------------------------------------------------------
(* CodeAgent.run, of code with any faults *)
WriteCode ==
  /\ code.phase = "idle"
  /\ \E f \in SUBSET Defect, m \in BOOLEAN :
       code' = [NoCode EXCEPT !.phase = "trying", !.faults = f, !.model = m]
  /\ UNCHANGED <<home, held, requestVars, count>>

(* _repair: by the model, to any code, or by FIX_HINTS, which add an import that is
   missing and nothing else *)
Mended(e) == IF code.model THEN SUBSET Defect ELSE {code.faults \ ({e} \cap {"import"})}

(* One attempt; the sandbox may time out whatever the code *)
TryCode ==
  /\ code.phase = "trying"
  /\ LET n == code.attempts + 1
         tried == [code EXCEPT !.attempts = n, !.ran = code.faults]
     IN \/ code.faults = {} /\ code' = [tried EXCEPT !.phase = "succeeded"]
        \/ \E e \in code.faults \cup {"timeout"} :
             IF n > MaxRetries THEN code' = [tried EXCEPT !.error = e, !.phase = "failed"]
             ELSE \E f \in Mended(e) : code' = [tried EXCEPT !.error = e, !.faults = f]
  /\ UNCHANGED <<home, held, requestVars, count>>

-----------------------------------------------------------------------------
RequestStep ==
  Ground \/ AskModel \/ FindSkills \/ FindCards \/ ResolveSkill \/ ResolveOwner \/ Launch
GoalNext == GiveGoal \/ GiveText \/ RequestStep \/ \E a \in Asset : RegistryMoves(a)
CodeNext == WriteCode \/ TryCode
AgentNext == GoalNext \/ CodeNext

(* A command goes on by itself; every request to the registry or the model has a
   timeout *)
AgentFairness == WF_agentVars(RequestStep) /\ WF_agentVars(TryCode)
AgentSpec == AgentInit /\ [][AgentNext]_agentVars /\ AgentFairness

PlannedStep == [kind : {"skill-only", "card-skill"}, skill : Asset, node : Host, cards : Seq(Asset),
                depends : SUBSET Nat, uses : SUBSET Nat]
AgentTypeOK ==
  /\ home \in [Asset -> Host \cup {"nowhere"}]
  /\ held \subseteq Asset \X (Host \cup {"nowhere"})
  /\ planning \in PlanPhases /\ goal \in Goals
  /\ asked \in Nat /\ offered \subseteq Asset
  /\ plan \in Seq(PlannedStep)
  /\ count \in [requests : 0 .. MaxRequests, events : 0 .. MaxEvents]
  /\ code \in [phase : {"idle", "trying", "succeeded", "failed"}, faults : SUBSET Defect, ran : SUBSET Defect,
               attempts : 0 .. MaxRetries + 1, error : Defect \cup {"none", "timeout"}, model : BOOLEAN]
-----------------------------------------------------------------------------
(* What is launched has an order, and each of its steps is for a node that offered
   its first card, or, without cards, its skill, at some moment while it was planned,
   however the registry changed between the requests *)
PlannedWasThere ==
  \A i \in DOMAIN plan :
    LET step == plan[i] IN
    /\ <<IF step.cards = <<>> THEN step.skill ELSE step.cards[1], step.node>> \in held
    /\ \E h \in Host : <<step.skill, h>> \in held
    /\ planning = "launched" => ~InCycle(i)

(* The model is asked twice at most for a request *)
AskedTwice == asked <= 2

(* What the code agent reports is what it ran last, and it succeeded only if that has
   no fault *)
ReportIsOfTheRun ==
  code.phase \in {"succeeded", "failed"} =>
    /\ code.faults = code.ran
    /\ code.phase = "succeeded" => code.ran = {}
    /\ code.phase = "failed" => code.attempts = MaxRetries + 1

(* Every request gets its answer, and so does every piece of code *)
AgentsEnd ==
  /\ planning \notin Resting ~> planning \in Resting
  /\ code.phase = "trying" ~> code.phase # "trying"

(* What may be relied on, from the text to the launch *)
PlanningIsSound == PlannedWasThere /\ AskedTwice /\ ReportIsOfTheRun

(* docs/AGENT.md says of a pipeline that cycles are rejected at plan time.  They are
   not when a template makes them; this fails *)
CyclesRejected ==
  planning = "ready" => \A i \in DOMAIN plan : ~InCycle(i)

(* A goal that cannot be planned is an ExecutionError, says that class.  What the
   registry does not have is another error for a pipeline; this fails *)
CannotBePlanned == planning = "crashed" => \E i \in DOMAIN plan : InCycle(i)

(* "the step executes where the card lives", of every card it names.  Only the first
   is looked at; this fails even when nothing moves *)
CardsLiveThere ==
  count.events = 0 => \A i \in DOMAIN plan : \A k \in DOMAIN plan[i].cards :
    home[plan[i].cards[k]] = plan[i].node

(* "the LLM can only select real, deployable skills".  Nothing compares its answer
   with what it was offered; this fails *)
SelectsWhatIsOffered ==
  asked > 0 /\ planning \in {"skills", "step"} /\ offered # {} /\ goal.skill # "any" => goal.skill \in offered

(* A result that succeeded reports no error.  That of an earlier attempt stays; this
   fails *)
SuccessHasNoError == code.phase = "succeeded" => code.error = "none"
=============================================================================
