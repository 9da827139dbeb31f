------------------------------ MODULE NodeLife ------------------------------
(***************************************************************************)
(* How a node comes up, what it tells a registry of itself, and how the    *)
(* health service (GGIHS) sees all nodes through all registries.  At its   *)
(* start a node loads packages: plugins, its own assets, an OGC process,   *)
(* tools of an MCP server.  It advertises what it has, then serves.  It    *)
(* may come up again at another address; nothing it has advertised is      *)
(* taken back.                                                             *)
(***************************************************************************)
EXTENDS Naturals, Sequences, FiniteSets, SequencesExt, Functions

CONSTANTS
  Site,        \* nodes
  Good,        \* cards and skills, by their ids and names
  Skills,      \* those that are skills
  Package,     \* what is loaded at a start
  Vital,       \* those whose failure ends the process; the failure of others is noted
  Brings,      \* Brings[k]: the goods of a package, in the order they are registered
  Loads,       \* Loads[n]: the packages of a node, in order
  Directory,   \* the registries, in the order GGIHS asks them
  Advertises,  \* Advertises[n]: the registry the node is told of
  MaxStarts,   \* bound: starts of a node, and of all nodes together
  MaxMishaps   \* bound: registries that fail or lose an answer, entries taken out

Registries == ToSet(Directory)

ASSUME NodeLifeAssumption ==
  /\ Brings \in [Package -> Seq(Good)] /\ Loads \in [Site -> Seq(Package)]
  /\ Skills \subseteq Good /\ Vital \subseteq Package
  /\ Directory \in Seq(Registries) /\ IsInjective(Directory) /\ Advertises \in [Site -> Registries]
  /\ MaxStarts \in Nat /\ MaxMishaps \in Nat

VARIABLES
  life,      \* life[n]: "down", "loading", "advertising" or "serving"
  start,     \* start[n]: starts so far; an address is a node and a start
  toLoad,    \* toLoad[n]: packages still to be loaded
  loaded,    \* loaded[n]: the packages reported as loaded
  held,      \* held[n]: the goods in the node's registries, in the order they got there
  toTell,    \* toTell[n]: goods still to be advertised
  bound,     \* bound[n]: the node has its registry, and delegates through it
  entry,     \* entry[d][x]: the address of good x in registry d, a set of at most one
  gone,      \* history: what was taken out of a registry
  round,     \* GGIHS: the registries still to be asked, what it asks for next, and the
             \* answers so far of the one it is asking
  sight,     \* GGIHS: the nodes and the goods it has seen, and the registries that failed
  steady,    \* history: what was in a registry through the whole round
  during,    \* history: what was in one at some time of the round
  mishaps

nodeLifeVars == <<life, start, toLoad, loaded, held, toTell, bound, entry, gone, round, sight,
                  steady, during, mishaps>>

Place == Site \X (1 .. MaxStarts)
Here(n) == <<n, start[n]>>
NoRound == [on |-> FALSE, asking |-> <<>>, part |-> "nodes", nodes |-> {}, cards |-> {}]
NothingSeen == [nodes |-> {}, goods |-> {}, failed |-> {}]

NodeLifeTypeOK ==
  /\ life \in [Site -> {"down", "loading", "advertising", "serving"}]
  /\ start \in [Site -> 0 .. MaxStarts] /\ bound \in [Site -> BOOLEAN]
  /\ toLoad \in [Site -> Seq(Package)] /\ toTell \in [Site -> Seq(Good)]
  /\ loaded \in [Site -> SUBSET Package] /\ held \in [Site -> Seq(Good)]
  /\ entry \in [Registries -> [Good -> SUBSET Place]]
  /\ \A d \in Registries, x \in Good : Cardinality(entry[d][x]) <= 1
  /\ gone \subseteq Registries \X Good
  /\ round \in [on : BOOLEAN, asking : Seq(Registries), part : {"nodes", "cards", "skills"},
               nodes : SUBSET Place, cards : SUBSET (Good \X Place)]
  /\ sight \in [nodes : SUBSET Place, goods : SUBSET (Good \X Place), failed : SUBSET Registries]
  /\ steady \subseteq Registries \X Good \X Place /\ during \subseteq Registries \X Good \X Place
  /\ mishaps \in 0 .. MaxMishaps

NodeLifeInit ==
  /\ life = [n \in Site |-> "down"] /\ start = [n \in Site |-> 0]
  /\ toLoad = [n \in Site |-> <<>>] /\ loaded = [n \in Site |-> {}]
  /\ held = [n \in Site |-> <<>>] /\ toTell = [n \in Site |-> <<>>]
  /\ bound = [n \in Site |-> FALSE]
  /\ entry = [d \in Registries |-> [x \in Good |-> {}]] /\ gone = {}
  /\ round = NoRound
  /\ sight = NothingSeen /\ steady = {} /\ during = {} /\ mishaps = 0

(* An entry comes into a registry, or out of it; the round may be on *)
Enter(d, x, a) ==
  /\ entry' = [entry EXCEPT ![d][x] = @ \cup {a}]
  /\ during' = IF round.on THEN during \cup {<<d, x, a>>} ELSE during
(* The registry refuses an id it has.  Slip: it does not *)
RefusesNothing(d, x) == FALSE
Refuses(d, x) == entry[d][x] # {}
Leave(d, x) ==
  /\ entry' = [entry EXCEPT ![d][x] = {}]
  /\ gone' = gone \cup {<<d, x>>}
  /\ steady' = IF round.on THEN {s \in steady : s[1] # d \/ s[2] # x} ELSE steady

Mishap == mishaps < MaxMishaps /\ mishaps' = mishaps + 1
Entries == {s \in Registries \X Good \X Place : s[3] \in entry[s[1]][s[2]]}
Stock(n) == ToSet(held[n])

-----------------------------------------------------------------------------
(* The node *)

Boot(n) ==
  /\ life[n] = "down" /\ start[n] < MaxStarts /\ SumFunction(start) < MaxStarts
  /\ start' = [start EXCEPT ![n] = @ + 1]
  /\ life' = [life EXCEPT ![n] = "loading"]
  /\ toLoad' = [toLoad EXCEPT ![n] = Loads[n]]
  /\ UNCHANGED <<loaded, held, toTell, bound, entry, gone, round, sight, steady, during, mishaps>>

(* The process ends; its registries were in memory *)
Die(n) ==
  /\ life' = [life EXCEPT ![n] = "down"] /\ bound' = [bound EXCEPT ![n] = FALSE]
  /\ toTell' = [toTell EXCEPT ![n] = <<>>] /\ toLoad' = [toLoad EXCEPT ![n] = <<>>]
  /\ loaded' = [loaded EXCEPT ![n] = {}] /\ held' = [held EXCEPT ![n] = <<>>]

(* One package: its goods are registered one by one, until the end, a name that
   is taken, or an error of its own; what was registered stays.  A list of
   tools is read page by page before any of them is registered *)
Registered(k, i) == {Brings[k][j] : j \in 1 .. i}
MayStopAt(n, k, i) ==
  /\ Stock(n) \cap Registered(k, i) = {}
  /\ IsInjective(SubSeq(Brings[k], 1, i))
  /\ k \in Vital /\ i < Len(Brings[k]) => Brings[k][i + 1] \in Stock(n) \cup Registered(k, i)
LoadPackage(n) ==
  /\ life[n] = "loading" /\ toLoad[n] # <<>>
  /\ LET k == Head(toLoad[n])
     IN  \E i \in 0 .. Len(Brings[k]) :
           /\ MayStopAt(n, k, i)
           /\ IF k \in Vital /\ i < Len(Brings[k]) THEN Die(n)
              ELSE /\ held' = [held EXCEPT ![n] = @ \o SubSeq(Brings[k], 1, i)]
                   /\ loaded' = [loaded EXCEPT ![n] = IF i = Len(Brings[k]) THEN @ \cup {k} ELSE @]
                   /\ toLoad' = [toLoad EXCEPT ![n] = Tail(@)]
                   /\ UNCHANGED <<life, toTell, bound>>
  /\ UNCHANGED <<start, entry, gone, round, sight, steady, during, mishaps>>

(* Then what it has is advertised: the cards, then the skills, each in the order
   they were registered *)
Among(s, S) ==
  LET upTo[i \in 0 .. Len(s)] ==
        IF i = 0 THEN <<>> ELSE IF s[i] \in S THEN Append(upTo[i - 1], s[i]) ELSE upTo[i - 1]
  IN  upTo[Len(s)]
ToAdvertise(n) == Among(held[n], Good \ Skills) \o Among(held[n], Skills)
Advertise(n) ==
  /\ life[n] = "loading" /\ toLoad[n] = <<>>
  /\ life' = [life EXCEPT ![n] = "advertising"]
  /\ toTell' = [toTell EXCEPT ![n] = ToAdvertise(n)]
  /\ UNCHANGED <<start, toLoad, loaded, held, bound, entry, gone, round, sight, steady, during, mishaps>>

(* One good: an id the registry has is taken for advertised, whoever and
   wherever it is of *)
Tell(n) ==
  /\ life[n] = "advertising" /\ toTell[n] # <<>>
  /\ LET d == Advertises[n]
         x == Head(toTell[n])
     IN  IF Refuses(d, x) THEN UNCHANGED <<entry, during>> ELSE Enter(d, x, Here(n))
  /\ toTell' = [toTell EXCEPT ![n] = Tail(@)]
  /\ UNCHANGED <<life, start, toLoad, loaded, held, bound, gone, round, sight, steady, mishaps>>

(* The registry does not answer, or its answer is lost: the rest is not
   advertised and the registry not bound, but the node serves.  Slip: it goes
   on with the next *)
GoOn(n) == toTell' = [toTell EXCEPT ![n] = Tail(@)] /\ UNCHANGED life
GiveUp(n) == life' = [life EXCEPT ![n] = "serving"] /\ toTell' = [toTell EXCEPT ![n] = <<>>]
TellFails(n) ==
  /\ life[n] = "advertising" /\ toTell[n] # <<>> /\ Mishap
  /\ LET d == Advertises[n]
         x == Head(toTell[n])
     IN  \/ UNCHANGED <<entry, during>>
         \/ ~Refuses(d, x) /\ Enter(d, x, Here(n))
  /\ GiveUp(n)
  /\ UNCHANGED <<start, toLoad, loaded, held, bound, gone, round, sight, steady>>

BindRegistry(n) ==
  /\ life[n] = "advertising" /\ toTell[n] = <<>>
  /\ life' = [life EXCEPT ![n] = "serving"] /\ bound' = [bound EXCEPT ![n] = TRUE]
  /\ UNCHANGED <<start, toLoad, loaded, held, toTell, entry, gone, round, sight, steady, during, mishaps>>

(* A stop or a crash, at any time *)
Stop(n) ==
  /\ life[n] # "down"
  /\ Die(n)
  /\ UNCHANGED <<start, entry, gone, round, sight, steady, during, mishaps>>

(* An operator takes an entry out of a registry *)
TakeOut(d, x) ==
  /\ entry[d][x] # {} /\ Mishap
  /\ Leave(d, x)
  /\ UNCHANGED <<life, start, toLoad, loaded, held, toTell, bound, round, sight, during>>

-----------------------------------------------------------------------------
(* GGIHS: every registry in turn, its nodes, its cards, its skills; what an
   earlier one had of a good stands *)
Others == <<life, start, toLoad, loaded, held, toTell, bound, entry, gone>>
StartRound ==
  /\ ~round.on
  /\ round' = [NoRound EXCEPT !.on = TRUE, !.asking = Directory]
  /\ sight' = NothingSeen /\ steady' = Entries /\ during' = Entries
  /\ UNCHANGED <<Others, mishaps>>

AddressesIn(d) == UNION {entry[d][x] : x \in Good}
Listed(d, G) == {g \in G \X Place : g[2] \in entry[d][g[1]]}
Unseen(L) == {e \in L : \A s \in sight.goods : s[1] # e[1]}
NextRegistry == [NoRound EXCEPT !.on = TRUE, !.asking = Tail(round.asking)]

AskNodes ==
  /\ round.asking # <<>> /\ round.part = "nodes"
  /\ round' = [round EXCEPT !.part = "cards", !.nodes = AddressesIn(Head(round.asking))]
  /\ UNCHANGED <<Others, sight, steady, during, mishaps>>
AskCards ==
  /\ round.asking # <<>> /\ round.part = "cards"
  /\ round' = [round EXCEPT !.part = "skills", !.cards = Listed(Head(round.asking), Good \ Skills)]
  /\ UNCHANGED <<Others, sight, steady, during, mishaps>>
AskSkills ==
  /\ round.asking # <<>> /\ round.part = "skills"
  /\ round' = NextRegistry
  /\ sight' = [sight EXCEPT
       !.nodes = @ \cup round.nodes,
       !.goods = @ \cup Unseen(round.cards \cup Listed(Head(round.asking), Skills))]
  /\ UNCHANGED <<Others, steady, during, mishaps>>

(* A registry that fails is noted, whatever it had answered, and the next one
   asked.  Slip: the round ends there *)
RoundOver == [NextRegistry EXCEPT !.asking = <<>>]
AfterFailure == NextRegistry
AskFails ==
  /\ round.asking # <<>> /\ Mishap
  /\ sight' = [sight EXCEPT !.failed = @ \cup {Head(round.asking)}]
  /\ round' = AfterFailure
  /\ UNCHANGED <<Others, steady, during>>

Present ==
  /\ round.on /\ round.asking = <<>>
  /\ round' = NoRound
  /\ sight' = NothingSeen /\ steady' = {} /\ during' = {}
  /\ UNCHANGED <<Others, mishaps>>

-----------------------------------------------------------------------------
SiteStep(n) == LoadPackage(n) \/ Advertise(n) \/ Tell(n) \/ TellFails(n) \/ BindRegistry(n)
RoundStep == AskNodes \/ AskCards \/ AskSkills \/ AskFails \/ Present

NodeLifeNext ==
  \/ \E n \in Site : Boot(n) \/ SiteStep(n) \/ Stop(n)
  \/ \E d \in Registries, x \in Good : TakeOut(d, x)
  \/ StartRound \/ RoundStep

(* A start runs to its end, and so does a request to GGIHS: all their calls have
   timeouts *)
NodeLifeFairness ==
  /\ \A n \in Site : WF_nodeLifeVars(SiteStep(n))
  /\ WF_nodeLifeVars(RoundStep)

NodeLifeSpec == NodeLifeInit /\ [][NodeLifeNext]_nodeLifeVars /\ NodeLifeFairness
-----------------------------------------------------------------------------
(* A node that delegates through a registry has everything it holds in there,
   unless an operator took it out: by itself or, for a name that was taken, by
   somebody else; and what it told of this start it holds *)
BoundIsAdvertised ==
  \A n \in Site, x \in Good :
    bound[n] /\ x \in Stock(n) =>
      entry[Advertises[n]][x] # {} \/ <<Advertises[n], x>> \in gone
ToldIsHeld ==
  \A n \in Site, d \in Registries, x \in Good :
    life[n] # "down" /\ Here(n) \in entry[d][x] => x \in Stock(n)

(* What GGIHS presents was registered there during the round, each good once; and
   what was registered through the whole round, at a registry that answered, is
   presented, and its node known, whatever else came and went *)
CatalogueIsTrue ==
  round.on /\ round.asking = <<>> =>
    /\ \A g \in sight.goods : \E d \in Registries : <<d, g[1], g[2]>> \in during
    /\ \A g, h \in sight.goods : g[1] = h[1] => g = h
    /\ \A s \in steady : s[1] \notin sight.failed =>
         s[3] \in sight.nodes /\ \E g \in sight.goods : g[1] = s[2]

(* A start and a round of GGIHS come to an end *)
StartsEnd == \A n \in Site : life[n] = "loading" ~> life[n] \in {"serving", "down"}
RoundsEnd == round.on ~> ~round.on

(* What a node and GGIHS say of themselves *)
NodeLifeIsSound == BoundIsAdvertised /\ ToldIsHeld /\ CatalogueIsTrue

(* What is said and does not hold: that a good a node finds "already advertised"
   leads to that node (advertise: another node has the name, or the address is
   that of an earlier start); that a bad plugin harms nobody but itself
   (load_plugins: what it has registered stays, and its names are taken: the
   node's own assets raise, and the node does not come up) *)
AdvertisedLeadsHere ==
  \A n \in Site, x \in Good :
    bound[n] /\ x \in Stock(n) => entry[Advertises[n]][x] \subseteq {Here(n)}
BadPluginHarmsItself ==
  \A n \in Site :
    life[n] = "loading" /\ toLoad[n] # <<>> =>
      \A x \in Stock(n) \cap ToSet(Brings[Head(toLoad[n])]) :
        \E k \in loaded[n] : x \in ToSet(Brings[k])
=============================================================================
