----------------------------- MODULE MCPlatform -----------------------------
(***************************************************************************)
(* The parts of the platform that serve many clients at once, small: the   *)
(* web task manager, the backends of the web API, the dispatcher, the      *)
(* event hub, registries that pull from one another, a federated query.    *)
(* They share no state, so a behaviour is about one of them, the focus;    *)
(* the others stay as they were at first.                                  *)
(***************************************************************************)
EXTENDS WebTasks, Cafe, EventHub, Registry, FederatedQuery, WebApi

VARIABLE focus   \* the part this behaviour is about

(* Two callers and two nodes; the first caller's data is at the second node,
   and the second caller asks for the region of the first.  Both dispatch the
   same task *)
OneTask == [c \in Caller |-> "k"]
Skills == [c \in Caller |-> "skill"]
AnyNode == [c \in Caller |-> Worker]
DataAtSecond == [c \in Caller |-> [w \in Worker |-> IF w = "w2" /\ c = "c1" THEN 1 ELSE 0]]
RegionOfFirst == [c \in Caller |-> IF c = "c2" THEN {"w1"} ELSE {}]
BothNodes == <<"w1", "w2">>

(* Two registries, each the other's peer *)
EachOther == [r \in Reg |-> IF r = "ra" THEN <<"rb">> ELSE <<"ra">>]

(* Four backends: with a secret, with the same secret and a public key besides, with
   a key pair, and with its public half.  Nodes with keys of their own *)
Config(secret, private, public) ==
  [secret |-> secret, private |-> private, public |-> public, algorithm |-> "none",
   issuer |-> "none", audience |-> "none"]
Backends == [s \in Server |->
  CASE s = "hs" -> Config("secret", "none", "none")
    [] s = "both" -> Config("secret", "none", "pair")
    [] s = "rs" -> Config("none", "pair", "pair")
    [] s = "verifier" -> Config("none", "none", "pair")]
Keys == [h \in Host |-> h]

(* The backends that serve together: those with the secret, those of the pair *)
Together == [shared |-> {"hs", "both"}, issued |-> {"rs", "verifier"}]

(* What the registry part is about: a card, a skill or a plugin *)
Part == {"web", "shared", "issued", "cafe", "hub", "query"}
Focus == Part \cup Item

ASSUME FocusAssumption ==
  /\ Item \cap Part = {}
  /\ \A part \in DOMAIN Together : Together[part] \subseteq Server

vars == <<focus, webVars, cafeVars, hubVars, regVars, queryVars, apiVars>>

Init ==
  /\ WebInit /\ CafeInit /\ HubInit /\ RegInit /\ QueryInit /\ WebApiInit
  /\ \/ focus = "query"
     \/ focus \in Focus \ {"query"} /\ \A c \in Asked : owner[c] = Nowhere

OtherVars(part) ==
  /\ part # "web" => UNCHANGED webVars
  /\ part \notin DOMAIN Together => UNCHANGED apiVars
  /\ part # "cafe" => UNCHANGED cafeVars
  /\ part # "hub" => UNCHANGED hubVars
  /\ part # "query" => UNCHANGED queryVars
  /\ part \notin Item => UNCHANGED regVars

Next ==
  /\ UNCHANGED focus
  /\ \/ focus = "web" /\ WebNext
     \/ focus \in DOMAIN Together /\ WebApiStep(Together[focus])
     \/ focus = "cafe" /\ CafeNext
     \/ focus = "hub" /\ HubNext
     \/ focus = "query" /\ QueryNext
     \/ \E x \in Item : focus = x /\ RegStep({x})
  /\ OtherVars(focus)

(* The fairness of the parts, for the one that moves *)
Fairness ==
  /\ \A j \in Job : WF_webVars(focus = "web" /\ JobStep(j))
  /\ \A t \in Id : WF_webVars(focus = "web" /\ (TakeView(t) \/ HandView(t)))
  /\ \A k \in Task : WF_apiVars(focus \in DOMAIN Together /\ (Take(k) \/ Finish(k)))
  /\ \A k \in Task : WF_apiVars(focus \in DOMAIN Together /\ Turn(k))
  /\ \A c \in Caller : WF_cafeVars(focus = "cafe" /\ DispatchStep(c))
  /\ \A r \in Reg, x \in Item : WF_regVars(focus = x /\ SyncStep(r))

Spec == Init /\ [][Next]_vars /\ Fairness

(* Whatever is begun comes to an end: a submission, a stream, a dispatch, a sync *)
EverythingEnds == SubmissionSettles /\ StreamEnds /\ DispatchEnds /\ SyncEnds

TypeOK == WebTypeOK /\ CafeTypeOK /\ HubTypeOK /\ RegTypeOK /\ QueryTypeOK /\ WebApiTypeOK
=============================================================================
