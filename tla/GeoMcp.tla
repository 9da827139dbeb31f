------------------------------- MODULE GeoMcp -------------------------------
(***************************************************************************)
(* The doors of a node: how a request comes to geomcp/server.py, and how   *)
(* the answer goes back.                                                   *)
(*   "http"    POST /geomcp with a JSON-RPC envelope, and a few GETs       *)
(*             (create_app, protocol.py), mostly from client.py            *)
(*   "stream"  MCP over HTTP: in chunks, perhaps a batch of calls, behind  *)
(*             _ExecutionAuthApp (mcp_adapter.py)                          *)
(*   "stdio"   MCP on the standard input, with a key in the environment    *)
(* A handler holds the event loop of its door.  How nodes share the work   *)
(* of geo.execute is NodeServer's; here the node does it itself.           *)
(* The other way round, a node takes the tools of a foreign MCP server in  *)
(* as skills of its own (mcp_client.py): the bridge.                       *)
(***************************************************************************)
EXTENDS Naturals, Sequences, FiniteSets, SequencesExt

CONSTANTS
  Caller,
  HasKey(_),   \* HasKey(c): c sends, or starts the bridge with, a key of the node
  Sends(_),    \* Sends(c): the letters c may send: [door, body, chunks, calls]
  Setup,       \* how a node may be made: [guarded, backend, plans, engine]
  Asset,
  AssetKind(_),   \* AssetKind(a): "skill", "card" or "recipe"
  Shared,      \* the recipes approved at the registry the node is bound to
  BigLetters,  \* the letters above 4 MiB, among them
  Tool,        \* what a foreign server may offer
  Native,      \* the tools whose name a skill of the node has already
  Cursor,
  MaxCursors,  \* bound: 1000 in the code
  MaxAssets,   \* bound: the assets that come while the node serves
  MaxTools     \* bound: the tools a foreign server lists

Reads == {"capabilities", "health", "describe", "plan"}
Writes == {"execute", "invoke"}
NoAsset == "malformed params"
(* The name in a call is looked up among the assets of one sort; the body of geo.describe
   has a place for each sort.  A name the node does not know is an absent asset *)
OfSort(s) == {a \in Asset : AssetKind(a) = s}
Named ==
  [describe |-> Asset, execute |-> OfSort("skill"), invoke |-> OfSort("card"), plan |-> OfSort("recipe")]
Gets == {"artifact", "health"}
AnyCall ==
  {k \in [method : STRING, asset : STRING] :
     k.method \in DOMAIN Named => k.asset \in Named[k.method] \cup {NoAsset}}
KindStates == [skill |-> {"registered"}, card |-> {"data", "model"}, recipe |-> {"pending", "approved"}]
Letter == UNION {Sends(c) : c \in Caller}

ASSUME GeoMcpAssumption ==
  /\ BigLetters \subseteq Letter /\ Native \subseteq Tool /\ Shared \subseteq Asset
  /\ MaxCursors \in Nat /\ MaxAssets \in Nat /\ MaxTools \in Nat
  /\ \A l \in Letter :
       /\ l.door \in {"http", "stream", "stdio"} /\ l.chunks \in Nat \ {0}
       /\ l.body \in {"get", "calls", "no json", "no object", "no request"}
       /\ l.calls # <<>>
       /\ l.door = "http" => Len(l.calls) = 1
       /\ l.body = "get" => l.door = "http" /\ \A i \in DOMAIN l.calls : l.calls[i].method \in Gets
       /\ l.calls \in Seq(AnyCall)
  /\ \A a \in Asset : AssetKind(a) \in DOMAIN KindStates
  /\ \A s \in Setup : {s.guarded, s.backend, s.plans, s.engine} \subseteq BOOLEAN

VARIABLES
  setup,    \* the node's configuration
  has,      \* has[a]: what the node knows of asset a
  stand,    \* stand[c]: where the letter of c is
  letter,   \* letter[c]: what c has sent
  chunk,    \* chunk[c]: the chunks the guard of the stream door has received
  waits,    \* waits[c]: c still waits for the answer
  log,      \* log[c]: for each call of the letter: what is said, and whether work was done
  known,    \* history: the skills and cards an answer to geo.describe has shown
  bridge,   \* the listing of a foreign server: [at, cursor, seen, tools]
  imported  \* the tools that are skills of the node

(* Why a letter or a call is refused, and whatever else is said of one *)
Refusals ==
  {"PARSE_ERROR", "500", "401", "403", "404", "INVALID_REQUEST", "METHOD_NOT_FOUND", "INTERNAL_ERROR",
   "INVALID_PARAMS", "SKILL_NOT_FOUND", "GEOCARD_NOT_FOUND", "RECIPE_NOT_FOUND", "INVALID_ARGUMENT"}
Answers ==
  Refusals \cup {"result", "EXECUTION_FAILED", "RECIPE_PARAM_INVALID", "413", "stray", "tool error"}

doorVars == <<setup, has, stand, letter, chunk, waits, log, known, bridge, imported>>

Nothing == "nothing"
NoLetter == [door |-> "none", body |-> "get", chunks |-> 1, calls |-> <<>>]

DoorTypeOK ==
  /\ setup \in Setup
  /\ has \in [Asset -> {"absent"} \cup UNION {KindStates[s] : s \in DOMAIN KindStates}]
  /\ \A a \in Asset : has[a] \in {"absent"} \cup KindStates[AssetKind(a)]
  /\ stand \in [Caller -> {"off", "idle", "arriving", "queued", "inside", "over"}]
  /\ letter \in [Caller -> Letter \cup {NoLetter}]
  /\ chunk \in [Caller -> Nat] /\ \A c \in Caller : chunk[c] \in 0 .. letter[c].chunks
  /\ waits \in [Caller -> BOOLEAN]
  /\ log \in [Caller -> Seq([says : Answers, worked : BOOLEAN])]
  /\ known \subseteq Asset
  /\ bridge \in [at : {"off", "idle", "listing", "registering", "done", "failed"},
                 cursor : Cursor \cup {Nothing}, seen : SUBSET Cursor, tools : Seq(Tool)]
  /\ imported \subseteq Tool \ Native

(* The doors and the bridge have nothing to do with each other: a behaviour is
   about one of them *)
DoorInit ==
  /\ setup \in Setup
  /\ has = [a \in Asset |-> "absent"]
  /\ letter = [c \in Caller |-> NoLetter]
  /\ chunk = [c \in Caller |-> 0]
  /\ waits = [c \in Caller |-> FALSE]
  /\ log = [c \in Caller |-> <<>>]
  /\ known = {}
  /\ imported = {}
  /\ \E doors \in BOOLEAN :
       /\ stand = [c \in Caller |-> IF doors THEN "idle" ELSE "off"]
       /\ bridge = [at |-> IF doors THEN "off" ELSE "idle", cursor |-> Nothing,
                    seen |-> {}, tools |-> <<>>]

bridgeVars == <<bridge, imported>>
-----------------------------------------------------------------------------
(* A check that fails has a code; of the codes of some checks the first one counts *)
Fails(failed, code) == IF failed THEN code ELSE "none"
FirstOf(codes) ==
  LET failed == {i \in DOMAIN codes : codes[i] # "none"} IN
  IF failed = {} THEN "none" ELSE codes[CHOOSE i \in failed : \A j \in failed : i <= j]

Locked(c) == setup.guarded /\ ~HasKey(c)

(* Slip: only the first message of a batch is looked at *)
WritesFirst(l) == l.calls[1].method \in Writes
HasWrites(l) == \E i \in 1 .. Len(l.calls) : l.calls[i].method \in Writes

(* What stops a letter before any call of it is looked at.  The MCP side reads
   the envelopes of its doors itself *)
AtTheDoor(c) ==
  LET l == letter[c] IN
  CASE l.body = "get" -> "none"
    [] l.body # "get" /\ l.door = "http" -> FirstOf(<<
         Fails(l.body = "no json", "PARSE_ERROR"),
         Fails(l.body = "no object" /\ setup.guarded, "500"),   \* payload.get
         Fails(HasWrites(l) /\ Locked(c), "401"),
         Fails(l.body # "calls", "INVALID_REQUEST"),
         Fails(l.calls[1].method \notin Reads \cup Writes, "METHOD_NOT_FOUND") >>)
    [] l.body # "get" /\ l.door # "http" -> FirstOf(<<
         Fails(l.door = "stream" /\ l.body = "calls" /\ HasWrites(l) /\ Locked(c), "401"),
         Fails(l.body # "calls", "PARSE_ERROR") >>)

(* A recipe is looked up in the catalogue, as it is on disk by now, and else at the
   registry; only approved ones count *)
Resolves(a) == has[a] = "approved" \/ a \in Shared

(* The engine runs the skills of the registry; a server without one its own tools,
   which geo.describe does not list *)
Describes(a) ==
  CASE AssetKind(a) = "skill" -> setup.engine /\ has[a] = "registered"
    [] AssetKind(a) = "card" -> has[a] # "absent"
    [] AssetKind(a) = "recipe" -> Resolves(a)
MissingCode == [skill |-> "SKILL_NOT_FOUND", card |-> "GEOCARD_NOT_FOUND", recipe |-> "RECIPE_NOT_FOUND"]

(* What is looked up, and what for *)
Lookups(m, a) ==
  CASE m = "describe" -> <<Fails(~Describes(a), MissingCode[AssetKind(a)])>>
    [] m = "execute" -> <<Fails(has[a] # "registered", "SKILL_NOT_FOUND")>>
    [] m = "invoke" -> <<
         Fails(~setup.backend, "INVALID_ARGUMENT"),
         Fails(has[a] = "absent", "GEOCARD_NOT_FOUND"),
         Fails(has[a] # "model", "INVALID_ARGUMENT") >>
    [] m = "plan" -> <<Fails(~setup.plans \/ ~Resolves(a), "RECIPE_NOT_FOUND")>>
    [] OTHER -> <<Fails(m \notin Reads \cup Gets, "METHOD_NOT_FOUND")>>

(* What a handler checks, in its order: the key at a door that has no guard of its
   own, the parameters, and what they name *)
NeedsKey(c, m) == m \in Writes /\ letter[c].door = "stdio" /\ Locked(c)
Checks(c, m, a) ==
  CASE NeedsKey(c, m) -> <<"401">>
    [] ~NeedsKey(c, m) /\ m # "artifact" /\ a = NoAsset ->
         <<IF m = "describe" THEN "INTERNAL_ERROR" ELSE "INVALID_PARAMS">>
    [] ~NeedsKey(c, m) /\ m = "artifact" -> <<
         Fails(Locked(c), "401"), Fails(a = "outside", "403"), Fails(a = "gone", "404") >>
    [] OTHER -> Lookups(m, a)

(* What may come of it then: the work can break, or give what is no JSON (a date,
   a NaN), with which the reply itself breaks *)
Results(m) ==
  CASE m = "execute" -> {"result", "EXECUTION_FAILED", "500"}
    [] m = "invoke" -> {"result", "INTERNAL_ERROR", "500"}
    [] m = "plan" -> {"result", "RECIPE_PARAM_INVALID"}
    [] OTHER -> {"result"}

(* MCP has one kind of error for all of them *)
Said(c, code) ==
  IF letter[c].door = "http" \/ code = "result" THEN code ELSE "tool error"

Record(c, says, worked) ==
  log' = [log EXCEPT ![c] = Append(@, [says |-> says, worked |-> worked])]
Goto(c, place) == stand' = [stand EXCEPT ![c] = place]

-----------------------------------------------------------------------------
(* Assets come while the node serves.  A second card of one name is refused by the
   node's registry; without one it replaces the first.  A recipe is approved *)
Register(a) ==
  /\ \E s \in KindStates[AssetKind(a)] :
       /\ \/ has[a] = "absent" /\ Cardinality({b \in Asset : has[b] # "absent"}) < MaxAssets
          \/ AssetKind(a) = "card" /\ ~setup.engine
          \/ has[a] = "pending" /\ s = "approved"
       /\ has' = [has EXCEPT ![a] = s]
  /\ UNCHANGED <<setup, stand, letter, chunk, waits, log, known, bridgeVars>>

Ask(c) ==
  /\ stand[c] = "idle"
  /\ \E l \in Sends(c) :
       /\ letter' = [letter EXCEPT ![c] = l]
       /\ Goto(c, IF l.door = "stream" /\ setup.guarded THEN "arriving" ELSE "queued")
  /\ waits' = [waits EXCEPT ![c] = TRUE]
  /\ UNCHANGED <<setup, has, chunk, log, known, bridgeVars>>

(* The guard of the stream door collects the letter before it judges it *)
Arrive(c) ==
  /\ stand[c] = "arriving" /\ waits[c]
  /\ chunk' = [chunk EXCEPT ![c] = @ + 1]
  /\ \/ letter[c] \in BigLetters /\ Goto(c, "over") /\ Record(c, "413", FALSE)
     \/ chunk'[c] < letter[c].chunks /\ UNCHANGED <<stand, log>>
     \/ /\ chunk'[c] = letter[c].chunks /\ letter[c] \notin BigLetters
        /\ Goto(c, "queued") /\ UNCHANGED log
  /\ UNCHANGED <<setup, has, letter, waits, known, bridgeVars>>

(* The caller's timeout, or his end.  What has arrived is served all the same *)
StopWaiting(c) ==
  /\ waits[c] /\ stand[c] # "over"
  /\ waits' = [waits EXCEPT ![c] = FALSE]
  /\ IF stand[c] = "arriving" THEN Goto(c, "over") ELSE UNCHANGED stand
  /\ UNCHANGED <<setup, has, letter, chunk, log, known, bridgeVars>>

(* Something else answers at that address, or nobody: whatever is not the envelope
   of this very request, with an object for a result, client.py makes an error of *)
Stray(c) ==
  /\ stand[c] = "queued" /\ letter[c].door = "http" /\ waits[c]
  /\ Goto(c, "over") /\ Record(c, "stray", FALSE)
  /\ UNCHANGED <<setup, has, letter, chunk, waits, known, bridgeVars>>

GoInside(c) ==
  /\ stand[c] = "queued"
  /\ \A d \in Caller : stand[d] = "inside" => letter[d].door # letter[c].door
  /\ LET refusal == AtTheDoor(c) IN
     IF refusal = "none" THEN Goto(c, "inside") /\ UNCHANGED log
     ELSE Goto(c, "over") /\ Record(c, refusal, FALSE)
  /\ UNCHANGED <<setup, has, letter, chunk, waits, known, bridgeVars>>

(* The next call of the letter *)
Perform(c) ==
  /\ stand[c] = "inside"
  /\ LET i == Len(log[c]) + 1
         m == letter[c].calls[i].method
         a == letter[c].calls[i].asset
         refusal == FirstOf(Checks(c, m, a)) IN
     /\ IF refusal # "none" THEN Record(c, Said(c, refusal), FALSE) /\ UNCHANGED known
        ELSE \E r \in Results(m) :
               /\ Record(c, Said(c, r), m \in Writes)
               /\ known' = IF m = "describe" THEN known \cup {a} ELSE known
     /\ IF i = Len(letter[c].calls) THEN Goto(c, "over") ELSE UNCHANGED stand
  /\ UNCHANGED <<setup, has, letter, chunk, waits, bridgeVars>>

-----------------------------------------------------------------------------
theDoors == <<setup, has, stand, letter, chunk, waits, log, known>>

List == bridge.at = "idle" /\ bridge' = [bridge EXCEPT !.at = "listing"]
        /\ UNCHANGED <<imported, theDoors>>

(* A page, and whether the next cursor is one to go on with *)
GoodCursor(n) == n \notin bridge.seen /\ Cardinality(bridge.seen) < MaxCursors
Page ==
  /\ bridge.at = "listing"
  /\ \E page \in {<<>>} \cup {<<t>> : t \in Tool}, n \in Cursor \cup {Nothing} :
       LET found == [bridge EXCEPT !.tools = @ \o page] IN
       /\ Len(found.tools) <= MaxTools
       /\ bridge' =
            CASE n = Nothing -> [found EXCEPT !.at = "registering"]
              [] n # Nothing /\ GoodCursor(n) -> [found EXCEPT !.cursor = n, !.seen = @ \cup {n}]
              [] OTHER -> [bridge EXCEPT !.at = "failed"]
  /\ UNCHANGED <<imported, theDoors>>

(* The session breaks, or the timeout for the whole listing is over *)
ListFails ==
  /\ bridge.at = "listing" /\ bridge' = [bridge EXCEPT !.at = "failed"]
  /\ UNCHANGED <<imported, theDoors>>

(* register_into: one skill after the other, until a name is in use already *)
TakeIn ==
  /\ bridge.at = "registering"
  /\ IF bridge.tools = <<>> THEN bridge' = [bridge EXCEPT !.at = "done"] /\ UNCHANGED imported
     ELSE LET t == Head(bridge.tools) IN
          IF t \in Native \cup imported
            THEN bridge' = [bridge EXCEPT !.at = "failed"] /\ UNCHANGED imported
            ELSE /\ imported' = imported \cup {t}
                 /\ bridge' = [bridge EXCEPT !.tools = Tail(@)]
  /\ UNCHANGED theDoors

-----------------------------------------------------------------------------
LoopStep(c) == GoInside(c) \/ Perform(c)
BridgeStep == Page \/ TakeIn
DoorNext ==
  \/ \E a \in Asset : stand # [c \in Caller |-> "off"] /\ Register(a)
  \/ \E c \in Caller : Ask(c) \/ Arrive(c) \/ StopWaiting(c) \/ Stray(c) \/ LoopStep(c)
  \/ List \/ BridgeStep \/ ListFails

(* An event loop goes on with what is there; a foreign server answers, or the
   session times out *)
DoorFairness == (\A c \in Caller : WF_doorVars(LoopStep(c))) /\ WF_doorVars(BridgeStep)

DoorSpec == DoorInit /\ [][DoorNext]_doorVars /\ DoorFairness
-----------------------------------------------------------------------------
(* Whoever has no key has nothing done for him, at no door and hidden in no batch;
   an answer other than these two means that nothing was done, unless MCP keeps the
   reason for itself; a result of a write means it was done *)
MayHideWork == {"result", "EXECUTION_FAILED", "INTERNAL_ERROR", "500", "tool error"}
AnswersMeanWork ==
  \A c \in Caller : \A i \in 1 .. Len(log[c]) :
    LET e == log[c][i] IN
    /\ e.worked => ~Locked(c) /\ letter[c].calls[i].method \in Writes
    /\ e.says \notin MayHideWork => ~e.worked
    /\ e.says = "result" /\ letter[c].calls[i].method \in Writes => e.worked

(* What geo.describe has shown to anybody is not missing later, to him or to others *)
ShownIsThere ==
  \A c \in Caller :
    stand[c] = "inside" /\ Len(log'[c]) > Len(log[c]) =>
      LET a == letter[c].calls[Len(log'[c])].asset IN
      a \in known /\ AssetKind(a) # "recipe" =>
        log'[c][Len(log'[c])].says \notin {"SKILL_NOT_FOUND", "GEOCARD_NOT_FOUND"}

(* A letter that has arrived is answered, whoever else asks or gives up; a listing ends
   whatever cursors the other side makes up *)
LettersAreAnswered ==
  /\ \A c \in Caller : stand[c] = "queued" ~> stand[c] = "over"
  /\ bridge.at = "listing" ~> bridge.at \in {"done", "failed"}

(* What a caller is told is what has happened, at every step *)
DoorsAreSound == [][AnswersMeanWork' /\ ShownIsThere]_doorVars

(* docs/GEOMCP.md: 200 for valid JSON-RPC, 400 with a parse error for the rest; and
   _json_safe, lest the node answer 500 and the caller get no JSON-RPC error.  It
   fails in both places *)
EveryAnswerIsAnEnvelope == \A c \in Caller : \A i \in 1 .. Len(log[c]) : log[c][i].says # "500"

(* docs/GEOMCP.md: -32602 stands for invalid params.  It fails for geo.describe *)
BadParamsAreNamed ==
  \A c \in Caller : \A i \in 1 .. Len(log[c]) :
    letter[c].door = "http" /\ letter[c].body = "calls" /\ letter[c].calls[i].asset = NoAsset =>
      log[c][i].says \in {"INVALID_PARAMS", "401", "stray"}
=============================================================================
