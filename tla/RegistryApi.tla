---------------------------- MODULE RegistryApi ----------------------------
(***************************************************************************)
(* registry/server.py and registry/client.py: what a client of a registry   *)
(* may do and what it is told.  Handlers run one at a time on the event     *)
(* loop, so a request is answered in one step; on the way there and back it *)
(* may be lost.  The entries are a card, a skill, a plugin, and two         *)
(* versions of a recipe; what they say is left out.  The file is Registry's *)
(* and RecipeCatalogue's subject: here a save succeeds or raises.  A sync   *)
(* brings what the peers list, which may be anything.                       *)
(***************************************************************************)
EXTENDS Naturals, FiniteSets

CONSTANTS
  Client,
  Key,          \* api_keys; none: everybody may do everything
  Scopes,       \* Scopes[k]: the scopes of k's principal, {"plain"} for a key without one
  Modes,        \* the values of public_submissions a registry is started with
  Gn,           \* node_url of the entries
  CacheTtl,     \* health_cache_ttl
  MaxClock      \* bound: the clock

Versions == {"r1", "r2"}
Reviewed == {"card", "plugin"} \cup Versions
Entries == Reviewed \cup {"skill"}
Addresses == Entries \cup {"r"}      \* "r": the recipe without a version

ASSUME RegistryApiAssumption ==
  /\ Scopes \in [Key -> SUBSET {"submit", "write", "review", "admin", "plain"}]
  /\ Modes \subseteq BOOLEAN
  /\ TRUE \in Modes => Key # {} /\ \A k \in Key : "plain" \notin Scopes[k]
  /\ CacheTtl \in Nat /\ MaxClock \in Nat

VARIABLES
  public,     \* public_submissions
  state,      \* state[e]: "absent", a review status, or another word
  submitter,  \* submitter[e]: whom the entry names as its submitter
  sender,     \* history: sender[e]: the key that e was registered with
  judge,      \* history: judge[e]: the key of the review that e's status is from
  puller,     \* history: puller[e]: the key of the sync that e's status is from
  call,       \* call[c]: where c's request is, and the answer
  clock,      \* time.monotonic()
  alive,      \* alive[n]: does the node answer its /health?
  probed,     \* probed[n]: _health_cache: when, and what was found
  lastAlive,  \* history: lastAlive[n]: when n was alive last
  view        \* view[n]: what /nodes said last of n, and when

raVars == <<public, state, submitter, sender, judge, puller, call, clock, alive, probed, lastAlive, view>>
entryVars == <<state, submitter, sender, judge, puller>>
nodeVars == <<public, clock, alive, probed, lastAlive, view>>

StatusGiven == {"none", "approved", "odd"}        \* the status in a body
Body == {"fit", "unfit", "broken"}          \* as it should be, JSON that is not, no JSON
NoCall == [at |-> "idle", op |-> "none", code |-> 0, changed |-> FALSE]
Unprobed == [at |-> MaxClock, healthy |-> FALSE, known |-> FALSE]

RegistryApiInit ==
  /\ public \in Modes
  /\ state = [e \in Entries |-> "absent"]
  /\ submitter = [e \in Entries |-> "none"]
  /\ sender = [e \in Entries |-> "none"]
  /\ judge = [e \in Entries |-> "none"]
  /\ puller = [e \in Entries |-> "none"]
  /\ call = [c \in Client |-> NoCall]
  /\ clock = 0
  /\ alive = [n \in Gn |-> TRUE]
  /\ probed = [n \in Gn |-> Unprobed]
  /\ lastAlive = [n \in Gn |-> 0]
  /\ view = [n \in Gn |-> Unprobed]

Present(e) == state[e] # "absent"
Writing == {"register", "replace", "fork", "approve", "reject", "remove", "sync"}
Operation == Writing \cup {"get", "search"}
Fits(op, a) ==
  CASE op \in {"approve", "reject"} -> a \notin {"skill"}
    [] op \in {"register"} -> a # "r"
    [] op \in {"replace", "fork"} -> a \in Versions
    [] op \in {"search", "sync"} -> a = "card"
    [] OTHER -> TRUE

Codes == {0, 200, 201, 400, 401, 403, 404, 409, 422, 500}
Finding == [at : 0 .. MaxClock, healthy : BOOLEAN, known : BOOLEAN]
RegistryApiTypeOK ==
  /\ public \in Modes
  /\ state \in [Entries -> {"absent", "pending", "approved", "rejected", "odd"}]
  /\ submitter \in [Entries -> Key \cup {"none", "someone"}]
  /\ sender \in [Entries -> Key \cup {"none"}] /\ judge \in [Entries -> Key \cup {"none"}]
  /\ puller \in [Entries -> Key \cup {"none"}]
  /\ call \in [Client -> [at : {"idle", "sent", "answered", "late"}, op : Operation \cup {"none"},
                          code : Codes, changed : BOOLEAN]]
  /\ clock \in 0 .. MaxClock /\ lastAlive \in [Gn -> 0 .. MaxClock]
  /\ alive \in [Gn -> BOOLEAN]
  /\ probed \in [Gn -> Finding] /\ view \in [Gn -> Finding]

(* RegistryClient: a method for each operation, what it sends *)
Asking == [op : Operation, addr : Addresses, key : Key \cup {"none"}, body : Body, status : StatusGiven]
Requests == {q \in Asking : Fits(q.op, q.addr) /\ (q.op \notin {"register", "replace"} => q.status = "none")}
-----------------------------------------------------------------------------
(* The scope an endpoint asks for *)
ScopeFor(op, a) ==
  CASE op \in {"register", "replace"} -> IF a = "skill" THEN "write" ELSE "submit"
    [] op \in {"approve", "reject"} -> "review"
    [] op = "remove" -> IF a = "plugin" THEN "review" ELSE "write"
    [] op = "get" -> IF a = "plugin" /\ state[a] \notin {"absent", "approved"} THEN "review" ELSE "nothing"
    [] op = "search" -> "nothing"
    [] OTHER -> "write"

(* _require_key: 0 when the request may go on *)
KeyRefused(k, scope) ==
  IF Key = {} \/ scope = "nothing" THEN 0
  ELSE IF k \notin Key THEN 401
  ELSE IF Scopes[k] \cap {scope, "admin", "plain"} = {} THEN 403
  ELSE 0

(* _entry_for_review: an address without a version has to leave no choice *)
Meant(a) == IF a = "r" THEN {v \in Versions : Present(v)} ELSE {a} \cap {e \in Entries : Present(e)}

(* The status a new entry gets.  Slip: the one it comes with *)
AsGiven(e, s) == IF s = "none" THEN "approved" ELSE s
FirstStatus(e, s) ==
  IF e = "skill" THEN "approved"
  ELSE IF e = "plugin" \/ public THEN "pending"
  ELSE IF s # "none" THEN s
  ELSE IF e = "card" THEN "approved" ELSE "pending"

(* The answers, in the order in which the handlers find out.  500 is an
   exception that no handler catches *)
CodeOfEntry(q) ==
  IF q.body = "broken" THEN 400
  ELSE IF q.body = "unfit" \/ (q.addr \in Versions /\ FirstStatus(q.addr, q.status) = "odd") THEN 422
  ELSE IF Present(q.addr) /\ ~(q.op = "replace" /\ ~public) THEN 409
  ELSE 201
CodeOfFork(q) ==
  IF q.body = "broken" THEN 400 ELSE IF q.body = "unfit" THEN 422
  ELSE IF ~Present(q.addr) THEN 404
  ELSE IF \A v \in Versions : Present(v) THEN 422 ELSE 201
CodeOfReview(q) ==
  IF q.body # "fit" THEN 500
  ELSE IF Meant(q.addr) = {} THEN 404
  ELSE IF Cardinality(Meant(q.addr)) > 1 THEN 409 ELSE 200
CodeOfRemoval(q) ==
  IF Meant(q.addr) = {} THEN 404
  ELSE IF Cardinality(Meant(q.addr)) > 1 THEN 500 ELSE 200
CodeOf(q) ==
  CASE q.op \in {"register", "replace"} -> CodeOfEntry(q)
    [] q.op = "fork" -> CodeOfFork(q)
    [] q.op \in {"approve", "reject"} -> CodeOfReview(q)
    [] q.op = "remove" -> CodeOfRemoval(q)
    [] q.op = "get" -> IF Meant(q.addr) = {} THEN 404 ELSE 200
    [] q.op = "sync" -> 200
    [] q.op = "search" -> IF q.body = "fit" THEN 200 ELSE 500

(* Registered and reviewed as asked.  The submitter is the caller; a plugin has
   none until a review, whose body names one *)
Enters(e, s, k) ==
  /\ state' = [state EXCEPT ![e] = s]
  /\ submitter' = [submitter EXCEPT ![e] = IF e \in {"plugin", "skill"} THEN "none" ELSE k]
  /\ sender' = [sender EXCEPT ![e] = k]
  /\ judge' = [judge EXCEPT ![e] = "none"]
  /\ puller' = [puller EXCEPT ![e] = "none"]
Reviews(e, s, k) ==
  /\ state' = [state EXCEPT ![e] = s]
  /\ submitter' = [submitter EXCEPT ![e] = IF e = "plugin" /\ @ = "none" THEN "someone" ELSE @]
  /\ judge' = [judge EXCEPT ![e] = k]
  /\ puller' = [puller EXCEPT ![e] = "none"]
  /\ UNCHANGED sender

(* sync_peers: what a peer lists is taken over what is here, as an entry that
   nobody submitted, with the status a new one has by default *)
Listed == {"card", "skill"}
Pulls(brought, k) ==
  /\ state' = [e \in Entries |-> IF e \in brought THEN "approved" ELSE state[e]]
  /\ submitter' = [e \in Entries |-> IF e \in brought THEN "none" ELSE submitter[e]]
  /\ sender' = [e \in Entries |-> IF e \in brought THEN "none" ELSE sender[e]]
  /\ judge' = [e \in Entries |-> IF e \in brought THEN "none" ELSE judge[e]]
  /\ puller' = [e \in Entries |-> IF e \in brought THEN k ELSE puller[e]]

Applies(q) ==
  \/ q.op \in {"register", "replace"} /\ Enters(q.addr, FirstStatus(q.addr, q.status), q.key)
  \/ q.op = "fork" /\ \E v \in Versions : ~Present(v) /\ Enters(v, "pending", "none")
  \/ q.op = "approve" /\ \E e \in Meant(q.addr) : Reviews(e, "approved", q.key)
  \/ q.op = "reject" /\ \E e \in Meant(q.addr) : Reviews(e, "rejected", q.key)
  \/ q.op = "remove" /\ \E e \in Meant(q.addr) : Enters(e, "absent", "none")
  \/ q.op = "sync" /\ \E brought \in SUBSET Listed : Pulls(brought, q.key)

(* When the save fails the change is already in memory; register_skill takes
   the error for one of the payload.  A sync has then brought some of it *)
Answers(c, q, code, change) ==
  call' = [call EXCEPT ![c] =
    IF @.at = "late" THEN NoCall ELSE [at |-> "answered", op |-> q.op, code |-> code, changed |-> change]]
Serve(c, A) ==
  /\ call[c].at \in {"sent", "late"}
  /\ \E q \in {r \in Requests : r.addr \in A} :
       LET refused == KeyRefused(q.key, ScopeFor(q.op, q.addr))
           code == IF refused # 0 THEN refused ELSE CodeOf(q) IN
       IF q.op \in Writing /\ code \in {200, 201}
         THEN /\ Applies(q)
              /\ \/ Answers(c, q, code, TRUE)
                 \/ Answers(c, q, IF q.addr = "skill" /\ q.op = "register" THEN 422 ELSE 500, TRUE)
         ELSE Answers(c, q, code, FALSE) /\ UNCHANGED entryVars
  /\ UNCHANGED nodeVars

(* _call: it returns or raises with the answer; after a timeout it raises
   whether or not the request still gets there *)
Turns(c, at) == call' = [call EXCEPT ![c] = [NoCall EXCEPT !.at = at]] /\ UNCHANGED <<entryVars, nodeVars>>
Ask(c) == call[c].at = "idle" /\ Turns(c, "sent")
GiveUp(c) == call[c].at = "sent" /\ Turns(c, "late")
Lost(c) == call[c].at \in {"sent", "late", "answered"} /\ Turns(c, "idle")
-----------------------------------------------------------------------------
StillGood(n) == probed[n].known /\ clock - probed[n].at < CacheTtl

(* _probe_node: an answer in time from a node that is alive; it may be slow *)
Probe(n, ok) ==
  /\ ok => alive[n]
  /\ probed' = [probed EXCEPT ![n] = [at |-> clock, healthy |-> ok, known |-> TRUE]]

(* nodes: of a node with entries *)
ViewNode(n) ==
  /\ \E e \in {"card", "skill"} : Present(e)
  /\ IF StillGood(n) THEN UNCHANGED probed ELSE \E ok \in BOOLEAN : Probe(n, ok)
  /\ view' = [view EXCEPT ![n] = [at |-> clock, healthy |-> probed'[n].healthy, known |-> TRUE]]
  /\ UNCHANGED <<public, entryVars, call, clock, alive, lastAlive>>

Passes ==
  /\ clock < MaxClock
  /\ clock' = clock + 1
  /\ lastAlive' = [n \in Gn |-> IF alive[n] THEN clock + 1 ELSE lastAlive[n]]
  /\ UNCHANGED <<public, entryVars, call, alive, probed, view>>
NodeFlips(n) ==
  /\ alive' = [alive EXCEPT ![n] = ~@]
  /\ lastAlive' = [lastAlive EXCEPT ![n] = clock]
  /\ UNCHANGED <<public, entryVars, call, clock, probed, view>>

(* Calls about the addresses in A *)
ClientStep(c, A) == Serve(c, A) \/ GiveUp(c) \/ Lost(c)
ClientNext(A) == \E c \in Client : Ask(c) \/ ClientStep(c, A)
Watching == Passes \/ \E n \in Gn : ViewNode(n) \/ NodeFlips(n)
RegistryApiNext == ClientNext(Addresses) \/ Watching

(* A call has a timeout *)
RegistryApiFairness == \A c \in Client : WF_raVars(ClientStep(c, Addresses))
RegistryApiSpec == RegistryApiInit /\ [][RegistryApiNext]_raVars /\ RegistryApiFairness
-----------------------------------------------------------------------------
(* k is a key, and may do what takes the scope *)
Holds(k, scope) == k \in Key /\ Scopes[k] \cap {scope, "admin"} # {}

(* A registry that takes submissions from the public shows nothing that nobody
   with the scope of a reviewer approved, whatever is submitted, removed, forked
   and submitted again (server.py: register), but for a card that a sync brought
   (sync_peers): that took the scope of a writer *)
OnlyReviewedShows ==
  public =>
    \A e \in Reviewed : state[e] = "approved" =>
      Holds(judge[e], "review") \/ (e = "card" /\ Holds(puller[e], "write"))

(* A node is called healthy only if it was alive not longer ago than an answer
   is kept (server.py: _probe_node) *)
HealthIsRecent ==
  \A n \in Gn : view[n].healthy => view[n].at - lastAlive[n] < CacheTtl \/ lastAlive[n] >= view[n].at

(* A call comes to an end *)
CallReturns == \A c \in Client : call[c].at = "sent" ~> call[c].at # "sent"

(* What a registry says of its entries and of its nodes *)
RegistryAnswers == OnlyReviewedShows /\ HealthIsRecent

(* ONBOARDING.md:32: in the public mode only those who review hold registry:review,
   and what is submitted is pending.  It fails: who may write syncs, and every
   card of a peer is shown, one that was rejected here too *)
ShownWasReviewed ==
  public => \A e \in Reviewed : state[e] = "approved" => Holds(judge[e], "review")

(* server.py:265: "Invalid skill payload" says that nothing was registered.  It
   fails when the file cannot be written: the skill is there, and the client is
   told that its payload is wrong *)
RefusedChangesNothing ==
  \A c \in Client : call[c].code \in 400 .. 499 => ~call[c].changed

(* models.py:39: a card's status is "pending | approved | rejected".  It fails:
   any word in the body becomes the status of a card *)
StatusIsKnown == \A e \in Entries : state[e] # "odd"

(* server.py:370: an address without a version that fits several is answered
   409.  It fails for a removal, where the exception is caught nowhere *)
AmbiguityIsToldApart ==
  \A c \in Client : call[c].op = "remove" /\ call[c].code = 500 => call[c].changed

(* models.py:117: submitted_by is who submitted.  It fails for plugins: nobody is
   recorded at first, and then whoever the body of a review names *)
SubmitterIsTheSender ==
  \A e \in Reviewed : submitter[e] # "none" => submitter[e] = sender[e]
=============================================================================
