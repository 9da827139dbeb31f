----------------------------- MODULE NodeServer -----------------------------
(***************************************************************************)
(* geomcp/server.py: geo.execute on nodes that are bound to a registry.    *)
(* A node runs the skill itself, or hands the request over to the node     *)
(* that owns the data: because it lacks a card (delegation), or because    *)
(* computing there is cheaper (pushdown).  The endpoint dispatches on the  *)
(* server's event loop: a node serves one request at a time, and answers   *)
(* nobody while it waits for the node it delegated to.                     *)
(*                                                                         *)
(* A request is served at most twice, at the node the client calls (hop 1) *)
(* and, with the marker __geonode_delegate, at the owner (hop 2).          *)
(***************************************************************************)
EXTENDS Integers, Sequences, FiniteSets, SequencesExt

CONSTANTS
  Node,
  Request,      \* the requests, one from each client
  Holds(_, _),  \* Holds(n, c): card c is in the registry of node n
  Bound,        \* the nodes with a registry_url
  Owner0,       \* Owner0[c]: the node_url the registry starts with
  MaxMoves,     \* bound: how often an owner changes
  Entry(_),     \* Entry(q): the node the client calls
  Cards(_),     \* Cards(q): geocards
  Source(_),    \* Source(q): federated_sources, as <<card, owner>>; owner Nowhere: refused
  Pushdown(_),  \* Pushdown(q): pushdown_spec, [strategy, bytes, bandwidth, queue]; -1: not said
  Defaults,     \* pushdown_defaults of the nodes, but for the strategy
  Binding(_),   \* Binding(q): it declares a contract_binding
  Gate(_, _),   \* Gate(n, q): node n has the contract, and the request passes it
  Fits(_, _)    \* Fits(q, c): card c satisfies the request's region and time

Nowhere == "no node"
Card == DOMAIN Owner0
ASSUME NodeAssumption ==
  /\ Bound \subseteq Node /\ Nowhere \notin Node /\ MaxMoves \in Nat
  /\ Owner0 \in [Card -> Node \cup {Nowhere}]
  /\ \A q \in Request :
       /\ Entry(q) \in Node /\ Cards(q) \in Seq(Card)
       /\ Source(q) \subseteq Card \X (Node \cup {Nowhere})
       /\ Pushdown(q).strategy \in {"none", "local", "migrate", "push", "auto", "other"}
  /\ \A k \in {"bytes", "bandwidth", "queue"} :
       Defaults[k] \in Nat \cup {-1} /\ \A q \in Request : Pushdown(q)[k] \in Nat \cup {-1}

VARIABLES
  owner,     \* owner[c]: the node_url of the card at the registry, or Nowhere
  moved,     \* how often owners have changed
  call,      \* call[q][h]: hop h of q: the node it is sent to, and where it stands
  busy,      \* busy[n]: the <<request, hop>> node n is serving, or Free
  ran,       \* history: the <<request, node>> the engine has executed, in a bag
  verified   \* history: the requests some ContractGate has passed

nodeVars == <<owner, moved, call, busy, ran, verified>>

Free == <<>>
Hop == {1, 2}
NotSent == [to |-> Nowhere, state |-> "none"]

Call ==
  [to : Node \cup {Nowhere},
   state : {"none", "sent", "serving", "waiting", "given up", "ok", "error"}]
NodeTypeOK ==
  /\ owner \in [Card -> Node \cup {Nowhere}]
  /\ moved \in 0 .. MaxMoves
  /\ call \in [Request -> [Hop -> Call]]
  /\ busy \in [Node -> {Free} \cup (Request \X Hop)]
  /\ ran \in [Request -> [Node -> 0 .. 2]]
  /\ verified \subseteq Request

NodeInit ==
  /\ owner = Owner0 /\ moved = 0
  /\ call = [q \in Request |-> [h \in Hop |-> NotSent]]
  /\ busy = [n \in Node |-> Free]
  /\ ran = [q \in Request |-> [n \in Node |-> 0]]
  /\ verified = {}

-----------------------------------------------------------------------------
Lacks(n, q) == {c \in ToSet(Cards(q)) : ~Holds(n, c)}
FirstLacking(n, q) == Cards(q)[Min({i \in DOMAIN Cards(q) : Cards(q)[i] \in Lacks(n, q)})]
Sources(q, h) == IF h = 1 THEN Source(q) ELSE {}

(* _decide_pushdown: what the request does not say the node assumes, and without the
   estimates "auto" stays here.  A bandwidth of 0 counts as none *)
Estimate(q, k) == IF Pushdown(q)[k] # -1 THEN Pushdown(q)[k] ELSE Defaults[k]
PushIsCheaper(q) ==
  /\ Estimate(q, "bytes") # -1 /\ Estimate(q, "bandwidth") > 0 /\ Estimate(q, "queue") # -1
  /\ Estimate(q, "queue") < Estimate(q, "bytes") \div Estimate(q, "bandwidth")
Decision(q) ==
  CASE Pushdown(q).strategy \in {"local", "migrate"} -> "local"
    [] Pushdown(q).strategy = "auto" -> IF PushIsCheaper(q) THEN "push" ELSE "local"
    [] Pushdown(q).strategy = "other" -> "invalid"
    [] OTHER -> Pushdown(q).strategy
PushSpec(q, h) == IF h = 1 THEN Decision(q) ELSE "none"

Declares(q, h) == h = 1 /\ Binding(q)   \* client.execute does not forward it

(* Step 0 of execute: an unknown card, a registry, and not handed over already *)
Delegates(n, q, h) == h = 1 /\ Lacks(n, q) # {} /\ n \in Bound

(* Steps 1 to 2: every card is found, every source resolves, every card fits.
   Slip: the owner takes the cards of a request with the marker for granted *)
Involved(q, h) == ToSet(Cards(q)) \cup {s[1] : s \in Sources(q, h)}
AdmitsMarked(n, q, h) ==
  /\ h = 2 \/ Lacks(n, q) = {}
  /\ \A s \in Sources(q, h) : s[2] # Nowhere
  /\ \A c \in Involved(q, h) : Fits(q, c)
Admits(n, q, h) ==
  /\ Lacks(n, q) = {}
  /\ \A s \in Sources(q, h) : s[2] # Nowhere
  /\ \A c \in Involved(q, h) : Fits(q, c)

(* _delegate: the owner of the first unknown card, if all of them have one *)
DelegateTarget(n, q) ==
  IF \A c \in Lacks(n, q) : owner[c] # Nowhere THEN owner[FirstLacking(n, q)] ELSE Nowhere

(* _delegate_to_owner: one node must own everything; what the registry knows of
   a federated card goes before what its source said *)
OwnersOf(n, q) ==
  {owner[c] : c \in ToSet(Cards(q))} \cup
  {IF owner[s[1]] # Nowhere THEN owner[s[1]] ELSE s[2] : s \in Source(q)}

(* ... but then _delegate goes by the first card this node lacks, if there is
   one, and there what the source said goes before the registry *)
PushTargets(n, q) ==
  LET lacking == {s \in Source(q) : ~Holds(n, s[1])} IN
  IF n \notin Bound \/ Nowhere \in OwnersOf(n, q) \/ Cardinality(OwnersOf(n, q)) # 1
    THEN {Nowhere}
    ELSE IF lacking # {} THEN {s[2] : s \in lacking} ELSE OwnersOf(n, q)

Answer(q, h, outcome) == [call EXCEPT ![q][h].state = outcome]

(* The caller of a hop: the client, or the node that waits for it *)
Return(n, q, h, outcome) ==
  /\ busy' = [busy EXCEPT ![n] = Free]
  /\ call' = IF call[q][h].state = "given up" THEN call ELSE Answer(q, h, outcome)

HandOver(n, q, to) ==
  IF to = Nowhere THEN Return(n, q, 1, "error")
  ELSE /\ call' = [call EXCEPT ![q] = [@ EXCEPT ![1].state = "waiting",
                                                ![2] = [to |-> to, state |-> "sent"]]]
       /\ UNCHANGED busy

(* The gate and the run (2b and 3) *)
Run(n, q, h) ==
  IF Declares(q, h) /\ ~Gate(n, q)
    THEN Return(n, q, h, "error") /\ UNCHANGED <<ran, verified>>
    ELSE /\ verified' = IF Declares(q, h) THEN verified \cup {q} ELSE verified
         /\ \/ Return(n, q, h, "ok") /\ ran' = [ran EXCEPT ![q][n] = @ + 1]
            \/ Return(n, q, h, "error") /\ UNCHANGED ran

-----------------------------------------------------------------------------
(* The registry gives a card another owner, or none *)
Move(c) ==
  /\ moved < MaxMoves /\ moved' = moved + 1
  /\ \E n \in Node \cup {Nowhere} : owner' = [owner EXCEPT ![c] = n]
  /\ UNCHANGED <<call, busy, ran, verified>>

Send(q) ==
  /\ call[q][1] = NotSent
  /\ call' = [call EXCEPT ![q][1] = [to |-> Entry(q), state |-> "sent"]]
  /\ UNCHANGED <<owner, moved, busy, ran, verified>>

(* The event loop takes the next request, also one whose sender has given up *)
Take(n, q, h) ==
  /\ busy[n] = Free /\ call[q][h].to = n
  /\ call[q][h].state \in {"sent", "given up"}
  /\ busy' = [busy EXCEPT ![n] = <<q, h>>]
  /\ call' = IF call[q][h].state = "sent" THEN Answer(q, h, "serving")
             ELSE [call EXCEPT ![q][h].to = Nowhere]
  /\ UNCHANGED <<owner, moved, ran, verified>>

(* execute, up to the answer or to the request to the owner; a registry it needs
   may be out of reach *)
Execute(n) ==
  /\ busy[n] # Free
  /\ LET q == busy[n][1]
         h == busy[n][2]
         push == Admits(n, q, h) /\ PushSpec(q, h) = "push" IN
     /\ call[q][h].state \in {"serving", "given up"}
     /\ IF Delegates(n, q, h) \/ push
          THEN /\ \/ \E to \in IF push THEN PushTargets(n, q) ELSE {DelegateTarget(n, q)} :
                       HandOver(n, q, to)
                  \/ Return(n, q, h, "error")
               /\ UNCHANGED <<ran, verified>>
          ELSE \/ /\ ~Admits(n, q, h) \/ PushSpec(q, h) = "invalid" \/ Sources(q, h) # {}
                  /\ Return(n, q, h, "error") /\ UNCHANGED <<ran, verified>>
               \/ /\ Admits(n, q, h) /\ PushSpec(q, h) # "invalid"
                  /\ Run(n, q, h)
  /\ UNCHANGED <<owner, moved>>

(* The owner's answer is relayed *)
Relay(n) ==
  /\ busy[n] # Free
  /\ LET q == busy[n][1] IN
     /\ call[q][1].state = "waiting" /\ call[q][2].state \in {"ok", "error"}
     /\ Return(n, q, 1, call[q][2].state)
  /\ UNCHANGED <<owner, moved, ran, verified>>

(* forward_timeout: the request to the owner is given up, and stays there.
   Slip: the node waits for as long as it takes *)
WaitsOn(q) == FALSE
MayGiveUp(q) == call[q][1].state = "waiting"
Timeout(n) ==
  /\ busy[n] # Free
  /\ LET q == busy[n][1] IN
     /\ MayGiveUp(q) /\ busy[n][2] = 1 /\ call[q][2].state \in {"sent", "serving"}
     /\ busy' = [busy EXCEPT ![n] = Free]
     /\ call' = [call EXCEPT ![q] =
          [@ EXCEPT ![1].state = "error",
                    ![2] = [to |-> IF call[q][2].state = "sent" THEN call[q][2].to ELSE Nowhere,
                            state |-> "given up"]]]
  /\ UNCHANGED <<owner, moved, ran, verified>>

NodeStep(n) ==
  \/ \E q \in Request, h \in Hop : Take(n, q, h)
  \/ Execute(n) \/ Relay(n) \/ Timeout(n)

NodeNext ==
  \/ \E c \in Card : Move(c)
  \/ \E q \in Request : Send(q)
  \/ \E n \in Node : NodeStep(n)

(* A server that can go on does *)
NodeFairness == \A n \in Node : WF_nodeVars(NodeStep(n))

NodeSpec == NodeInit /\ [][NodeNext]_nodeVars /\ NodeFairness
-----------------------------------------------------------------------------
(* An answer "ok" stands for one execution, at a node that has the request's
   cards, however owners move and requests are given up meanwhile; a request
   that is handed over is never run by two nodes *)
AnswerIsTrue ==
  \A q \in Request :
    /\ \A n \in Node : ran[q][n] > 0 => ran[q][n] = 1 /\ Lacks(n, q) = {}
    /\ Cardinality({n \in Node : ran[q][n] > 0}) <= 1
    /\ call[q][1].state = "ok" => \E n \in Node : ran[q][n] = 1

(* Every request is answered, though nodes block while they wait for one
   another (geo.execute) *)
EveryCallAnswered ==
  \A q \in Request : call[q][1].state = "sent" ~> call[q][1].state \in {"ok", "error"}

(* server.py, execute: the binding, "when declared, it MUST verify".  It fails:
   a request that is handed over is neither checked here nor, since the binding
   is not forwarded, there *)
BindingVerified ==
  \A q \in Request, n \in Node : Binding(q) /\ ran[q][n] > 0 => q \in verified
=============================================================================
