-------------------------- MODULE FederatedQuery --------------------------
(***************************************************************************)
(* federation/client.py: FederatedGeoMCPClient.execute over a registry and *)
(* the nodes.  The call looks the owner of each card up, groups the cards  *)
(* by node, drops the nodes the registry believes to be unhealthy and      *)
(* pushes the rest down, one node after the other.  Owners change and      *)
(* nodes fail meanwhile; the registry's belief is a cache                  *)
(* (registry/server.py: nodes, _probe_node).                               *)
(***************************************************************************)
EXTENDS Naturals, FiniteSets

CONSTANTS
  Asked,         \* the cards of the call
  Node,
  Probes,        \* health_probe
  SkipUnhealthy, \* skip_unhealthy
  MaxMoves       \* bound: registrations and failures around the call

Nowhere == "no node"

ASSUME QueryAssumption ==
  /\ IsFiniteSet(Asked) /\ Asked # {}
  /\ Nowhere \notin Node
  /\ Probes \in BOOLEAN /\ SkipUnhealthy \in BOOLEAN
  /\ MaxMoves \in Nat

VARIABLES
  owner,     \* owner[c]: the node_url the registry has for c, or Nowhere
  up,        \* the nodes whose /health answers ok and that execute
  belief,    \* belief[n]: _health_cache: "unknown", "up" or "down"
  moves,     \* changes of the surroundings so far
  stage,     \* where the call stands
  located,   \* located[c]: resolve_nodes, the owner found for c
  plan,      \* the nodes that are left to be asked
  skipped,   \* the nodes that were dropped as unhealthy
  ran        \* the <<node, cards>> executed, in a set

queryVars == <<owner, up, belief, moves, stage, located, plan, skipped, ran>>

QueryTypeOK ==
  /\ owner \in [Asked -> Node \cup {Nowhere}]
  /\ up \subseteq Node
  /\ belief \in [Node -> {"unknown", "up", "down"}]
  /\ moves \in 0 .. MaxMoves
  /\ stage \in {"resolving", "filtering", "pushing", "ok", "raised"}
  /\ located \in [Asked -> Node \cup {Nowhere}]
  /\ plan \subseteq Node /\ skipped \subseteq Node
  /\ ran \subseteq Node \X SUBSET Asked

QueryInit ==
  /\ owner \in [Asked -> Node \cup {Nowhere}]
  /\ up = Node
  /\ belief = [n \in Node |-> "unknown"]
  /\ moves = 0
  /\ stage = "resolving"
  /\ located = [c \in Asked |-> Nowhere]
  /\ plan = {} /\ skipped = {} /\ ran = {}

CardsOf(n) == {c \in Asked : located[c] = n}

(* The surroundings: a card is registered anew, a node fails or comes back *)
Reregister(c) ==
  /\ moves < MaxMoves /\ moves' = moves + 1
  /\ \E n \in Node : owner' = [owner EXCEPT ![c] = n]
  /\ UNCHANGED <<up, belief, stage, located, plan, skipped, ran>>

Flip(n) ==
  /\ moves < MaxMoves /\ moves' = moves + 1
  /\ up' = IF n \in up THEN up \ {n} ELSE up \cup {n}
  /\ UNCHANGED <<owner, belief, stage, located, plan, skipped, ran>>

(* _probe_node's entry is too old *)
Forget(n) ==
  /\ belief[n] # "unknown"
  /\ belief' = [belief EXCEPT ![n] = "unknown"]
  /\ UNCHANGED <<owner, up, moves, stage, located, plan, skipped, ran>>

(* resolve_nodes: one lookup per card; an unknown card raises *)
Resolve(c) ==
  /\ stage = "resolving" /\ located[c] = Nowhere
  /\ IF owner[c] = Nowhere
       THEN stage' = "raised" /\ UNCHANGED <<located, plan>>
       ELSE /\ located' = [located EXCEPT ![c] = owner[c]]
            /\ plan' = plan \cup {owner[c]}
            /\ stage' = IF \A d \in Asked : located'[d] # Nowhere THEN "filtering" ELSE stage
  /\ UNCHANGED <<owner, up, belief, moves, skipped, ran>>

(* nodes(): a fresh probe, or the cached answer *)
Healthy(n) ==
  IF ~Probes THEN TRUE ELSE IF belief[n] = "unknown" THEN n \in up ELSE belief[n] = "up"

(* _filter_healthy: the view has the nodes with a card, of this call or not; a
   node outside it stays.  get_nodes may fail, then nobody is dropped; it raises
   if nobody is left *)
FilterHealthy ==
  /\ stage = "filtering"
  /\ \/ /\ SkipUnhealthy
        /\ \E view \in SUBSET Node :
             /\ \A c \in Asked : owner[c] # Nowhere => owner[c] \in view
             /\ belief' = [n \in Node |->
                  IF ~Probes \/ n \notin view THEN belief[n]
                  ELSE IF Healthy(n) THEN "up" ELSE "down"]
             /\ plan' = {n \in plan : n \notin view \/ Healthy(n)}
        /\ skipped' = plan \ plan'
        /\ stage' = IF plan' = {} THEN "raised" ELSE "pushing"
     \/ stage' = "pushing" /\ UNCHANGED <<belief, plan, skipped>>
  /\ UNCHANGED <<owner, up, moves, located, ran>>

(* Slip: the node of the registry's present answer *)
TargetNow(n) == {c \in Asked : owner[c] = n}
Target(n) == CardsOf(n)

(* _dispatch through CentralServer.dispatch_to: one node at a time, no retry; a
   node that is down or refuses raises, and what the others returned is gone *)
PushDown(n) ==
  /\ stage = "pushing" /\ n \in plan
  /\ \/ /\ n \in up
        /\ ran' = ran \cup {<<n, Target(n)>>}
        /\ plan' = plan \ {n}
        /\ stage' = IF plan = {n} THEN "ok" ELSE stage
     \/ stage' = "raised" /\ UNCHANGED <<ran, plan>>
  /\ UNCHANGED <<owner, up, belief, moves, located, skipped>>

QueryStep ==
  \/ \E c \in Asked : Resolve(c)
  \/ FilterHealthy
  \/ \E n \in Node : PushDown(n)

QueryNext ==
  \/ \E c \in Asked : Reregister(c)
  \/ \E n \in Node : Flip(n) \/ Forget(n)
  \/ QueryStep

QuerySpec == QueryInit /\ [][QueryNext]_queryVars /\ WF_queryVars(QueryStep)
-----------------------------------------------------------------------------
(* No card is executed twice in one call, however the owners change under it,
   and an answer leaves a card out only with a node the registry called
   unhealthy *)
EachCardOnce ==
  /\ \A x, y \in ran : x[2] \cap y[2] # {} => x = y
  /\ stage = "ok" =>
       \A c \in Asked : \/ \E x \in ran : c \in x[2]
                        \/ \E n \in skipped : c \in CardsOf(n)

(* The docstring of execute: if that "leaves no node for a card", the call
   raises.  It fails: it raises only when no node is left at all, and the
   answer of the others does not say what is missing *)
AnswersEveryCard ==
  stage = "ok" => \A c \in Asked : \E x \in ran : c \in x[2]
=============================================================================
