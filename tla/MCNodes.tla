------------------------------ MODULE MCNodes ------------------------------
(***************************************************************************)
(* What goes on between nodes and registries, small: nodes that come up    *)
(* and tell a registry of themselves, nodes that hand requests over and    *)
(* what comes to their doors, an asset on its way into a registry, a       *)
(* contract to bind, a card to judge.  A behaviour is about one of them,   *)
(* the focus; the others stay as they were at first.                       *)
(***************************************************************************)
EXTENDS NodeServer, Onboarding, ContractRegistry, NodeLife, CardRules, GeoMcp, TLC

VARIABLE focus   \* the part this behaviour is about

(* Node A holds card "a", B holds "b".  Request 1 asks A for "b", with a
   contract only A knows, 2 asks B for "a", so that each node waits for the
   other; 3 is cheaper where the data is, and has a federated source *)
HoldsOwn(n, c) == <<n, c>> \in {<<"A", "a">>, <<"B", "b">>}
Owners == [c \in {"a", "b"} |-> IF c = "a" THEN "A" ELSE "B"]
EntryOf(q) == IF q = 2 THEN "B" ELSE "A"
CardsOfRequest(q) == IF q = 1 THEN <<"b">> ELSE <<"a">>
SourceOf(q) == IF q = 3 THEN {<<"b", "B">>} ELSE {}
PushdownOf(q) ==
  [strategy |-> CASE q = 3 -> "auto" [] q = 2 -> "migrate" [] OTHER -> "none",
   bytes |-> 6, bandwidth |-> 2, queue |-> -1]
NodeDefaults == [bytes |-> 9, bandwidth |-> -1, queue |-> 1]
BindsContract(q) == q = 1
KnowsContract(n, q) == n = "A"
AllFit(q, c) == TRUE

(* Two contracts that are as close to every intent as one another, if they have an
   embedding; one agrees with the second intent only *)
EquallyClose == [c \in Contract |-> 2]
OneAgrees == [i \in Intent |-> IF i = "q1" THEN {"ca"} ELSE Contract]

(* Node n1 loads a plugin before its own assets, and the two have a name in
   common; n2 has only a process elsewhere *)
BroughtBy ==
  [k \in Package |-> CASE k = "plugin" -> <<"card", "skill">> [] k = "own" -> <<"card">> [] k = "process" -> <<"skill">>]
LoadedBy == [n \in Site |-> IF n = "n1" THEN <<"plugin", "own">> ELSE <<"process">>]
TwoRegistries == <<"d1", "d2">>
OneEach == [n \in Site |-> IF n = "n1" THEN "d1" ELSE "d2"]

(* A card with two spellings of a band, at most a box with a height; two requests
   a contract can be made of, one a registry only is asked, with half a box, and
   one with a date nobody can read.  Three nodes, of which one says nothing *)
SmallLetters(b) == "b4"
SameCrs(a, b) == a = b
AnyRequest == [crs |-> "none", box |-> <<>>, time |-> <<0, 0>>, bands |-> {}, units |-> "none",
               res |-> -1, home |-> "home", exports |-> FALSE]
FourRequests ==
  {[AnyRequest EXCEPT !.crs = "wgs", !.box = <<2, 0, 4, 1>>, !.time = <<1, 2>>, !.bands = {"b4"},
                      !.units = "dn", !.res = 2, !.exports = TRUE],
   [AnyRequest EXCEPT !.crs = "wgs", !.box = <<0, 0, 2, 2>>, !.time = <<2, 3>>],
   [AnyRequest EXCEPT !.box = <<0, 0>>, !.bands = {"B4"}],
   [AnyRequest EXCEPT !.crs = "utm", !.time = <<99, 3>>]}
CardPlaces ==
  {[box |-> b, crs |-> "wgs", res |-> 2] : b \in {<<0, 0, 1, 1>>, <<1, 0, 3, 2>>, <<0, 0, 4, 1, 1, 4>>}}
  \cup {[box |-> <<1, 0, 3, 2>>, crs |-> "utm", res |-> 4], [box |-> <<>>, crs |-> "wgs", res |-> -1],
        [box |-> <<1, 0, 3, 2>>, crs |-> "none", res |-> 2]}
CardBands == {[name |-> n, units |-> "dn"] : n \in {"B4", "b4"}} \cup {[name |-> "b4", units |-> "none"]}
CardTimes == {<<0, 0>>, <<1, 2>>, <<3, 3>>, <<1, 99>>}
CardPolicies ==
  {[home |-> "none", restrictions |-> {}, level |-> l] : l \in {"public", "secret"}}
  \cup {[home |-> "home", restrictions |-> r, level |-> "public"] : r \in SUBSET {"no-export"}}
ModelRuntimes ==
  {[cpu |-> c, memory |-> m, gpu |-> g] : c, m \in {-1, 2}, g \in {"none", "cuda"}}
ThreeNodes ==
  << [cpu |-> 1, memory |-> -1, gpu |-> "none"], [cpu |-> -1, memory |-> -1, gpu |-> "unknown"],
     [cpu |-> 4, memory |-> 4, gpu |-> "cuda-a"] >>
SameFamily(a, b) == a = b \/ {a, b} = {"cuda", "cuda-a"}

(* One who has the key and one who has none; the second sends few of the letters.
   A node with a key and an engine but no model backend, one with neither key nor
   engine nor recipes, but with a backend *)
WithKey(c) == c = "owner"
OneCall(m, a) == <<[method |-> m, asset |-> a]>>
Posted(b, m, a) == [door |-> "http", body |-> b, chunks |-> 1, calls |-> OneCall(m, a)]
Batch == OneCall("describe", "s") \o OneCall("execute", "s")
ByMcp(d, n, s) == [door |-> d, body |-> "calls", chunks |-> n, calls |-> s]
Huge == ByMcp("stream", 2, OneCall("execute", "s"))
HugeOnes == {Huge}
GuestLetters ==
  {Posted("calls", "execute", "s"), ByMcp("stream", 2, Batch), ByMcp("stdio", 1, OneCall("invoke", "m"))}
OwnerLetters ==
  GuestLetters \cup {Huge, [Huge EXCEPT !.body = "no json", !.chunks = 1]}
  \cup {Posted("get", "artifact", a) : a \in {"outside", "gone"}} \cup {Posted("get", "health", "any")}
  \cup {Posted(b, "execute", "s") : b \in {"no json", "no object", "no request"}}
  \cup {Posted("calls", "describe", a) : a \in {"s", "m", "r", NoAsset}}
  \cup {Posted("calls", "plan", a) : a \in {"r", NoAsset}}
  \cup {Posted("calls", "invoke", "m"), Posted("calls", "forecast", "s")}
LettersOf(c) == IF c = "owner" THEN OwnerLetters ELSE GuestLetters
TwoSetups ==
  {[guarded |-> TRUE, backend |-> FALSE, plans |-> TRUE, engine |-> TRUE],
   [guarded |-> FALSE, backend |-> TRUE, plans |-> FALSE, engine |-> FALSE]}
SortOfAsset(a) == CASE a = "s" -> "skill" [] a = "m" -> "card" [] a = "r" -> "recipe"

(* Any way into a registry, for behaviours about something else *)
AnyTrip == [road |-> "wizard", profile |-> "open", key |-> {}, of |-> "service", suffix |-> ".tif",
            extent |-> "none"]

vars == <<focus, nodeVars, onboardVars, contractVars, nodeLifeVars, cardVars, doorVars>>

Init ==
  /\ NodeInit /\ OnboardInit /\ ContractInit /\ NodeLifeInit /\ CardInit /\ DoorInit
  /\ \/ focus = "onboarding"
     \/ focus \in {"requests", "contracts", "life", "cards", "doors"} /\ trip = AnyTrip
  /\ focus # "doors" => setup.guarded /\ bridge.at = "off"
  /\ focus # "cards" => bench = "file" /\ \A p \in Part : catalogue[p] = "absent"

OtherVars(part) ==
  /\ part # "requests" => UNCHANGED nodeVars
  /\ part # "onboarding" => UNCHANGED onboardVars
  /\ part # "contracts" => UNCHANGED contractVars
  /\ part # "life" => UNCHANGED nodeLifeVars
  /\ part # "cards" => UNCHANGED cardVars
  /\ part # "doors" => UNCHANGED doorVars

Next ==
  /\ UNCHANGED focus
  /\ \/ focus = "requests" /\ NodeNext
     \/ focus = "onboarding" /\ OnboardNext
     \/ focus = "contracts" /\ ContractNext
     \/ focus = "life" /\ NodeLifeNext
     \/ focus = "cards" /\ CardNext
     \/ focus = "doors" /\ DoorNext
  /\ OtherVars(focus)

(* The fairness of the parts, for the one that moves *)
Fairness ==
  /\ \A n \in Node : WF_nodeVars(focus = "requests" /\ NodeStep(n))
  /\ \A n \in Site : WF_nodeLifeVars(focus = "life" /\ SiteStep(n))
  /\ WF_nodeLifeVars(focus = "life" /\ RoundStep)
  /\ \A c \in Caller : WF_doorVars(focus = "doors" /\ LoopStep(c))
  /\ WF_doorVars(focus = "doors" /\ BridgeStep)

Spec == Init /\ [][Next]_vars /\ Fairness

(* Whatever is begun comes to an end: a request, the start of a node, a round of GGIHS,
   a letter at a door and a listing of tools *)
EverythingEnds == EveryCallAnswered /\ StartsEnd /\ RoundsEnd /\ LettersAreAnswered

TypeOK == NodeTypeOK /\ OnboardTypeOK /\ ContractTypeOK /\ NodeLifeTypeOK /\ CardTypeOK /\ DoorTypeOK
=============================================================================
