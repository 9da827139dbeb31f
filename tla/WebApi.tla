------------------------------- MODULE WebApi -------------------------------
(***************************************************************************)
(* web/router.py and web/auth.py: several backends behind one address, each *)
(* with its own JWTConfig and its own TaskManager in memory.  A client logs *)
(* in at one of them and sends each request to any.  The tasks of a manager *)
(* are those of WebTasks, seen through the words of get(): what happens     *)
(* inside a move is left to that module.  Signatures are the name of the    *)
(* key; a pair of keys has one name.  All servers read one clock.           *)
(***************************************************************************)
EXTENDS Naturals, FiniteSets

CONSTANTS
  Server,      \* backends
  Jwt,         \* Jwt[s]: [secret, private, public, algorithm, issuer, audience], "none" where unset
  HasModel,    \* servers whose LLMConfig is configured
  Ttl,         \* ttl_seconds
  Task,        \* tasks a client can ask for
  Host,        \* node addresses
  KeyOf,       \* KeyOf[h]: node_api_keys.get(h), or "none"
  Default,     \* default_node_url, or "none"
  FirstKeyed,  \* the first node of node_api_keys
  MaxTime,     \* bound: the clock
  MaxLogins    \* bound: tokens

(* JWTConfig.__post_init__ *)
Algorithm(c) ==
  IF c.algorithm # "none" THEN c.algorithm
  ELSE IF c.secret # "none" THEN "HS256" ELSE "RS256"
Usable(c) ==
  IF Algorithm(c) = "HS256" THEN c.secret # "none" ELSE c.public # "none"

ASSUME WebApiAssumption ==
  /\ IsFiniteSet(Server)
  /\ \A s \in Server : Usable(Jwt[s])
  /\ HasModel \subseteq Server
  /\ Ttl \in Nat \ {0} /\ MaxTime \in Nat /\ MaxLogins \in Nat
  /\ Default \in Host \cup {"none"}

VARIABLES
  time,       \* the clock the servers read
  tokens,     \* tokens handed to the clients
  job,        \* job[k]: the request behind k: kind, home, host, budget
  word,       \* word[k]: status of k at its home
  flag,       \* flag[k]: cancel_requested
  stream,     \* stream[k]: "none", "open", "ended", or "broken" by a restart
  shown,      \* shown[k]: the status the stream sent last
  counted,    \* a tasks_list between its two calls of list(): server and count, or <<>>
  reply       \* the answer under way: operation, server, task, status, what it says

apiVars == <<time, tokens, job, word, flag, stream, shown, counted, reply>>
taskVars == <<job, word, flag, stream, shown>>

TaskWord == {"absent", "queued", "running", "done", "failed", "cancelled"}
NoJob == [kind |-> "none", home |-> "none", host |-> "none", budget |-> 0]
Unset == 99       \* max_reflections that is not given

WebApiTypeOK ==
  /\ time \in 0 .. MaxTime
  /\ \A t \in tokens : t.by \in Server /\ t.exp <= MaxTime + Ttl
  /\ \A k \in Task : job[k].home \in Server \cup {"none"}
  /\ word \in [Task -> TaskWord]
  /\ flag \in [Task -> BOOLEAN]
  /\ stream \in [Task -> {"none", "open", "ended", "broken"}]
  /\ shown \in [Task -> TaskWord]
  /\ counted # <<>> => counted \in Server \X Nat
  /\ reply.status \in {0, 200, 202, 400, 401, 404, 409, 500}

(* One answer is under way at a time; the rest goes on meanwhile *)
Nothing == [op |-> "none", server |-> "none", task |-> "none", status |-> 0, says |-> 0]
Replies(op, s, k, status, says) ==
  /\ reply = Nothing
  /\ reply' = [op |-> op, server |-> s, task |-> k, status |-> status, says |-> says]

WebApiInit ==
  /\ time = 0
  /\ tokens = {}
  /\ job = [k \in Task |-> NoJob]
  /\ word = [k \in Task |-> "absent"]
  /\ flag = [k \in Task |-> FALSE]
  /\ stream = [k \in Task |-> "none"]
  /\ shown = [k \in Task |-> "absent"]
  /\ counted = <<>>
  /\ reply = Nothing
-----------------------------------------------------------------------------
(* _signing_key *)
SigningKey(c) == IF Algorithm(c) = "HS256" THEN c.secret ELSE c.private

(* create_token; the claim is there when the config names it *)
TokenOf(s) ==
  [by |-> s, alg |-> Algorithm(Jwt[s]), key |-> SigningKey(Jwt[s]),
   iss |-> Jwt[s].issuer, aud |-> Jwt[s].audience, exp |-> time + Ttl]

(* decode_token: the public key comes first, whatever the algorithm *)
VerifyingKey(c) == IF c.public # "none" THEN c.public ELSE c.secret

(* Slip: the expiry is not verified *)
Timeless(t) == TRUE
InTime(t) == time < t.exp

(* jwt.decode: an audience in the token has to be the expected one, and one
   that is expected has to be there *)
Verifies(s, t) ==
  LET c == Jwt[s] IN
  /\ t.alg = Algorithm(c)
  /\ t.key = VerifyingKey(c)
  /\ InTime(t)
  /\ c.issuer # "none" => t.iss = c.issuer
  /\ t.aud = c.audience

Arrives ==
  /\ reply # Nothing
  /\ reply' = Nothing
  /\ UNCHANGED <<time, tokens, taskVars, counted>>

(* BearerAuth: without a token that is accepted, or without any, the handler is
   not entered *)
Authorised(s) == \E t \in tokens : Verifies(s, t)
TurnsAway(op, s, k) ==
  /\ Replies(op, s, k, 401, 0)
  /\ UNCHANGED <<time, tokens, taskVars, counted>>

(* login: a wrong password, a token, or an instance that cannot sign: the
   AuthError of create_token is caught nowhere *)
Login(s) ==
  /\ \/ Replies("login", s, "none", 401, 0) /\ UNCHANGED tokens
     \/ /\ SigningKey(Jwt[s]) # "none"
        /\ Cardinality(tokens \cup {TokenOf(s)}) <= MaxLogins
        /\ tokens' = tokens \cup {TokenOf(s)}
        /\ Replies("login", s, "none", 200, 0)
     \/ /\ SigningKey(Jwt[s]) = "none"
        /\ Replies("login", s, "none", 500, 0)
        /\ UNCHANGED tokens
  /\ UNCHANGED <<time, taskVars, counted>>

(* cards, skills, nodes: one entry is found; the count of a search is a literal,
   a box that cannot be read is refused, and the error of a registry that does
   not answer is caught nowhere *)
Discover(s) ==
  /\ Authorised(s)
  /\ \/ \E count \in {0, 1} : Replies("discover", s, "none", 200, <<1, count>>)
     \/ \E code \in {400, 500} : Replies("discover", s, "none", code, 0)
  /\ UNCHANGED <<time, tokens, taskVars, counted>>

(* TaskManager.submit under a fresh id, and the 202 *)
Accept(s, k, j) ==
  /\ job[k] = NoJob
  /\ job' = [job EXCEPT ![k] = j]
  /\ word' = [word EXCEPT ![k] = "queued"]
  /\ Replies(j.kind, s, k, 202, 0)
  /\ UNCHANGED <<time, tokens, flag, stream, shown, counted>>

(* execute: the node of the request or the default one *)
Execute(s, k) ==
  /\ Authorised(s)
  /\ \E asked \in Host \cup {"none"} :
       LET h == IF asked # "none" THEN asked ELSE Default IN
       IF h = "none"
         THEN /\ Replies("execute", s, "none", 400, 0)
              /\ UNCHANGED <<time, tokens, taskVars, counted>>
         ELSE Accept(s, k, [kind |-> "execute", home |-> s, host |-> h, budget |-> Unset])

(* goals *)
Goal(s, k) ==
  /\ Authorised(s)
  /\ \E m \in {Unset, 0} :
       Accept(s, k, [kind |-> "goals", home |-> s, host |-> "none", budget |-> m])

(* _job: the reflections a goal has, and the key that goes with a call to h;
   all the steps of a goal share one key *)
Budget(k) == IF job[k].budget \in {Unset, 0} THEN 3 ELSE job[k].budget
GoalKey ==
  IF Default # "none" /\ KeyOf[Default] # "none" THEN KeyOf[Default] ELSE KeyOf[FirstKeyed]
SentKey(k, h) == IF job[k].kind = "execute" THEN KeyOf[h] ELSE GoalKey
Visits(k) == IF job[k].kind = "execute" THEN {job[k].host} ELSE Host

(* A task at its home: a thread takes it, the body ends; a goal without a
   language model raises *)
Moves(k, s) ==
  /\ word' = [word EXCEPT ![k] = s]
  /\ UNCHANGED <<time, tokens, job, flag, stream, shown, counted, reply>>
Take(k) == word[k] = "queued" /\ Moves(k, "running")
Finish(k) ==
  /\ word[k] = "running"
  /\ \/ Moves(k, "failed")
     \/ /\ job[k].kind = "execute" \/ job[k].home \in HasModel
        /\ Moves(k, IF flag[k] THEN "cancelled" ELSE "done")

(* TaskManager.get at s *)
Has(s, k) == job[k].home = s /\ word[k] # "absent"

Poll(s, k) ==
  /\ Authorised(s)
  /\ job[k] # NoJob
  /\ IF Has(s, k) THEN Replies("poll", s, k, 200, 0) ELSE Replies("poll", s, k, 404, 0)
  /\ UNCHANGED <<time, tokens, taskVars, counted>>

(* tasks_list: list() is called for the count, and again for the tasks *)
Held(s) == {k \in Task : Has(s, k)}
Count(s) ==
  /\ Authorised(s)
  /\ counted = <<>>
  /\ counted' = <<s, Cardinality(Held(s))>>
  /\ UNCHANGED <<time, tokens, taskVars, reply>>
List ==
  /\ counted # <<>>
  /\ LET s == counted[1] IN
       Replies("list", s, "none", 200, <<Cardinality(Held(s)), counted[2]>>)
  /\ counted' = <<>>
  /\ UNCHANGED <<time, tokens, taskVars>>

(* task_cancel *)
Cancel(s, k) ==
  /\ Authorised(s)
  /\ job[k] # NoJob
  /\ IF ~Has(s, k) THEN Replies("cancel", s, k, 404, 0) /\ UNCHANGED <<word, flag>>
     ELSE IF word[k] \in {"queued", "running"}
       THEN /\ flag' = [flag EXCEPT ![k] = TRUE]
            /\ word' = [word EXCEPT ![k] = IF @ = "queued" THEN "cancelled" ELSE @]
            /\ Replies("cancel", s, k, 200, 0)
       ELSE Replies("cancel", s, k, 409, 0) /\ UNCHANGED <<word, flag>>
  /\ UNCHANGED <<time, tokens, job, stream, shown, counted>>

(* task_stream: the token is asked for once, when the stream is opened *)
OpenStream(s, k) ==
  /\ Authorised(s)
  /\ job[k] # NoJob
  /\ stream[k] = "none"
  /\ IF Has(s, k)
       THEN stream' = [stream EXCEPT ![k] = "open"] /\ Replies("stream", s, k, 200, 0)
       ELSE UNCHANGED stream /\ Replies("stream", s, k, 404, 0)
  /\ UNCHANGED <<time, tokens, job, word, flag, shown, counted>>

(* _events.  Slip: a cancelled task does not end its stream *)
FinalButCancelled == {"done", "failed"}
Final == {"done", "failed", "cancelled"}

(* One turn of the loop, every half second, whether or not the state changed *)
Turn(k) ==
  /\ stream[k] = "open"
  /\ shown' = [shown EXCEPT ![k] = word[k]]
  /\ stream' = [stream EXCEPT ![k] = IF word[k] \in Final THEN "ended" ELSE @]
  /\ UNCHANGED <<time, tokens, job, word, flag, counted, reply>>

(* A server stops and comes up again: its tasks and streams are gone *)
ServerRestarts(s) ==
  /\ Held(s) # {}
  /\ word' = [k \in Task |-> IF Has(s, k) THEN "absent" ELSE word[k]]
  /\ stream' = [k \in Task |-> IF Has(s, k) /\ stream[k] = "open" THEN "broken" ELSE stream[k]]
  /\ counted' = IF counted # <<>> /\ counted[1] = s THEN <<>> ELSE counted
  /\ UNCHANGED <<time, tokens, job, flag, shown, reply>>

Tick ==
  /\ time < MaxTime
  /\ time' = time + 1
  /\ UNCHANGED <<tokens, taskVars, counted, reply>>

TaskRequest(s, k) ==
  \/ Execute(s, k) \/ Goal(s, k) \/ Poll(s, k) \/ Cancel(s, k) \/ OpenStream(s, k)
  \/ job[k] # NoJob /\ TurnsAway("poll", s, k)

(* What the backends of S and their clients do *)
WebApiStep(S) ==
  \/ \E s \in S : Login(s) \/ Discover(s) \/ Count(s) \/ ServerRestarts(s)
  \/ \E s \in S, k \in Task : TaskRequest(s, k)
  \/ \E k \in Task : Take(k) \/ Finish(k) \/ Turn(k)
  \/ Tick \/ List \/ Arrives

WebApiNext == WebApiStep(Server)

(* The pool's threads run, a body ends, and an open stream is turned *)
WebApiFairness ==
  \A k \in Task : WF_apiVars(Take(k) \/ Finish(k)) /\ WF_apiVars(Turn(k))

WebApiSpec == WebApiInit /\ [][WebApiNext]_apiVars /\ WebApiFairness
-----------------------------------------------------------------------------
(* Whatever a client learns or moves, a backend of the trust domain vouched for
   it, and the token it gave is not past its time (auth.py: decode_token) *)
OnlyByToken ==
  reply'.status \in {200, 202, 404, 409} /\ reply'.op # "login" /\ reply' # reply
    /\ counted' = counted
    => \E t \in tokens :
         /\ time < t.exp
         /\ SigningKey(Jwt[t.by]) = VerifyingKey(Jwt[reply'.server])

(* A stream tells a task's story in its order, and its last word is the task's
   last word (router.py: _events) *)
Order(w) == CASE w = "absent" -> 0 [] w = "queued" -> 1 [] w = "running" -> 2 [] OTHER -> 3
StreamTellsTheStory ==
  \A k \in Task :
    /\ Order(shown'[k]) >= Order(shown[k])
    /\ Order(shown[k]) = 3 => shown'[k] = shown[k]
    /\ stream[k] = "open" /\ stream'[k] = "ended" => Order(word[k]) = 3 /\ shown'[k] = word[k]

(* A stream ends by itself, whoever cancels the task and however it ends *)
StreamEnds == \A k \in Task : stream[k] = "open" ~> stream[k] # "open"

(* Both, in every step *)
WebAnswersAreSound == [][OnlyByToken /\ StreamTellsTheStory]_apiVars

(* auth.py:12 and WEB.md:78: any backend can serve any client, as tokens are
   stateless.  It fails: a task lives in the memory of the one that took it, and
   the next request about it may reach another *)
AnyBackendServes ==
  reply.op \in {"poll", "cancel", "stream"} /\ reply.status = 404
    => word[reply.task] = "absent"

(* auth.py:46: "When `secret` is provided it wins".  It fails when a public key
   is configured as well: the instance refuses the tokens it has just issued *)
OwnTokensAreGood ==
  \A t \in tokens : time < t.exp => Verifies(t.by, t)

(* auth.py:55: an instance that cannot issue tokens answers a login, as one that
   refuses it.  It fails: the AuthError is caught nowhere *)
LoginIsAnswered == reply.op = "login" => reply.status # 500

(* router.py: what is counted is what is listed.  It fails for a search, whose
   count is 0, and for a list of tasks with a submission between its two reads *)
CountIsOfCards == reply.op = "discover" /\ reply.status = 200 => reply.says[1] = reply.says[2]
CountIsOfTasks == reply.op = "list" => reply.says[1] = reply.says[2]

(* router.py:127: the budget of reflections is the one that was asked for.  It
   fails for 0, which counts as not given *)
BudgetIsAsked ==
  \A k \in Task : job[k].kind = "goals" /\ job[k].budget # Unset => Budget(k) = job[k].budget

(* router.py:60: each node gets its own key.  It fails for a goal, whose steps
   all carry one key *)
EachNodeItsKey ==
  \A k \in Task : job[k] # NoJob =>
    \A h \in Visits(k) : KeyOf[h] # "none" => SentKey(k, h) = KeyOf[h]
=============================================================================
