------------------------------- MODULE Cafe -------------------------------
(***************************************************************************)
(* cafe/central.py with worker.py and remote.py: callers dispatch tasks to *)
(* workers, each from a thread of its own, and nothing is locked.  A       *)
(* dispatch tries one worker after the other; to route around those it has *)
(* tried it takes them out of the table that all callers share, one by     *)
(* one, and puts them back afterwards.                                     *)
(*                                                                         *)
(* One dispatch per caller.  Clocks are left out: a lease, or a worker's   *)
(* time in disgrace, may run out at any moment.                            *)
(***************************************************************************)
EXTENDS Integers, Sequences, FiniteSets, SequencesExt

CONSTANTS
  Caller, Worker, Pushdown,
  TaskOf,    \* TaskOf[c]: the task id c dispatches
  Kind,      \* Kind[c]: the payload of c's request, "code" or "skill"
  Remote,    \* the workers that are remote nodes; the others are local
  Fits,      \* Fits[c]: the workers with the resources c's request declares
  Near,      \* Near[c][w]: how many of its inputs w holds
  Home,      \* Home[c]: the workers whose region tag is the one asked for
  Starters   \* the workers registered at first, in order

NoWorker == "no worker"

ASSUME CafeAssumption ==
  /\ TaskOf \in [Caller -> Pushdown]
  /\ Kind \in [Caller -> {"code", "skill"}]
  /\ Remote \subseteq Worker
  /\ Fits \in [Caller -> SUBSET Worker]
  /\ Near \in [Caller -> [Worker -> Nat]]
  /\ Home \in [Caller -> SUBSET Worker]
  /\ Starters \in Seq(Worker) /\ IsInjective(Starters)
  /\ NoWorker \notin Worker

VARIABLES
  table,      \* workers: a dict, so a sequence of ids in order of insertion
  known,      \* history: the workers ever registered
  sick,       \* _unhealthy_until, the entries that have not run out
  lease,      \* lease[k]: the worker on the lease of task k
  pc,         \* pc[c]: where c's call stands
  tried,      \* tried[c]: attempted
  left,       \* left[c]: rounds of the loop that are left, the one that runs included
  toTake,     \* toTake[c]: the tried workers c has still to take out of the table
  spotted,    \* spotted[c]: one of these that c has found in the table, or NoWorker
  withdrawn,  \* saved: withdrawn[c]: the workers c has taken out; a call that raised
              \* before it put them back takes them with it
  size,       \* size[c]: the length of the table when c began to iterate over it, then 0
  chosen,     \* chosen[c]: the worker routed to
  answer,     \* answer[c]: what the call returns, from when it is decided
  disturbed   \* history: another thread has changed the table under c's dispatch

takingVars == <<toTake, spotted, withdrawn>>
cafeVars == <<table, known, sick, lease, pc, tried, left, size, chosen, answer, disturbed,
              takingVars>>

Answers == {"none", "succeeded", "failed", "exhausted", "refused", "raised"}

CafeTypeOK ==
  /\ table \in Seq(Worker) /\ IsInjective(table)
  /\ known \subseteq Worker
  /\ sick \subseteq Worker
  /\ lease \in [Pushdown -> Worker \cup {NoWorker}]
  /\ pc \in [Caller -> {"idle", "routing", "looking", "explaining", "restoring",
                        "sending", "executing", "direct", "done"}]
  /\ tried \in [Caller -> SUBSET Worker]
  /\ left \in [Caller -> Nat]
  /\ toTake \in [Caller -> SUBSET Worker]
  /\ spotted \in [Caller -> Worker \cup {NoWorker}]
  /\ withdrawn \in [Caller -> SUBSET Worker]
  /\ size \in [Caller -> Nat]
  /\ chosen \in [Caller -> Worker \cup {NoWorker}]
  /\ answer \in [Caller -> Answers]
  /\ disturbed \in [Caller -> BOOLEAN]

CafeInit ==
  /\ table = Starters
  /\ known = ToSet(Starters)
  /\ sick = {}
  /\ lease = [k \in Pushdown |-> NoWorker]
  /\ pc = [c \in Caller |-> "idle"]
  /\ tried = [c \in Caller |-> {}]
  /\ left = [c \in Caller |-> 0]
  /\ toTake = [c \in Caller |-> {}]
  /\ spotted = [c \in Caller |-> NoWorker]
  /\ withdrawn = [c \in Caller |-> {}]
  /\ size = [c \in Caller |-> 0]
  /\ chosen = [c \in Caller |-> NoWorker]
  /\ answer = [c \in Caller |-> "none"]
  /\ disturbed = [c \in Caller |-> FALSE]

-----------------------------------------------------------------------------
(* WorkerCapabilities.accepts and _capacity_ok *)
Accepts(w, c) == Kind[c] = (IF w \in Remote THEN "skill" ELSE "code")
Suits(w, c) == Accepts(w, c) /\ w \in Fits[c]

(* route: of the healthy workers that suit, the first of those that hold most
   inputs; if none holds any, the first of the region; else the first *)
Route(c) ==
  LET fit == {i \in DOMAIN table : Suits(table[i], c) /\ table[i] \notin sick}
      near(i) == Near[c][table[i]]
      nearest == {i \in fit : \A j \in fit : near(j) <= near(i)}
      home == {i \in fit : table[i] \in Home[c]} IN
  CASE fit = {} -> NoWorker
    [] fit # {} /\ near(Min(nearest)) > 0 -> table[Min(nearest)]
    [] fit # {} /\ near(Min(nearest)) = 0 -> table[Min(IF home = {} THEN fit ELSE home)]

Active(c) == pc[c] \notin {"idle", "done"}
Disturb(c) == disturbed' = [d \in Caller |-> disturbed[d] \/ (d # c /\ Active(d))]
Ends(c, a) ==
  /\ answer' = [answer EXCEPT ![c] = a]
  /\ pc' = [pc EXCEPT ![c] = "done"]

(* register_worker: a new key goes to the end of the dict, a known one keeps
   its place *)
RegisterWorker(w) ==
  /\ w \notin ToSet(table)
  /\ table' = Append(table, w)
  /\ known' = known \cup {w}
  /\ disturbed' = [d \in Caller |-> disturbed[d] \/ Active(d)]
  /\ UNCHANGED <<sick, lease, pc, tried, left, size, chosen, answer, takingVars>>

(* mark_unhealthy's time has passed (is_healthy drops the entry) *)
Recover(w) ==
  /\ w \in sick
  /\ sick' = sick \ {w}
  /\ UNCHANGED <<table, known, lease, pc, tried, left, size, chosen, answer, disturbed, takingVars>>

(* reclaim_expired *)
Reclaim(k) ==
  /\ lease[k] # NoWorker
  /\ lease' = [lease EXCEPT ![k] = NoWorker]
  /\ UNCHANGED <<table, known, sick, pc, tried, left, size, chosen, answer, disturbed, takingVars>>

(* dispatch_to: no routing, no lease, no second worker *)
DispatchTo(c, w) ==
  /\ pc[c] = "idle"
  /\ IF w \in ToSet(table)
       THEN /\ pc' = [pc EXCEPT ![c] = "direct"]
            /\ chosen' = [chosen EXCEPT ![c] = w]
            /\ UNCHANGED answer
       ELSE Ends(c, "refused") /\ UNCHANGED chosen
  /\ UNCHANGED <<table, known, sick, lease, tried, left, size, disturbed, takingVars>>

(* dispatch with retries=None: one round more than there are workers *)
Dispatch(c) ==
  /\ pc[c] = "idle"
  /\ left' = [left EXCEPT ![c] = Len(table) + 1]
  /\ pc' = [pc EXCEPT ![c] = "routing"]
  /\ disturbed' = [disturbed EXCEPT ![c] = \E d \in Caller : withdrawn[d] # {}]
  /\ UNCHANGED <<table, known, sick, lease, tried, size, chosen, answer, takingVars>>

(* _route_excluding: those tried so far are to leave the table, in no order.  "if wid in
   self.workers": one that is not there is passed over *)
Check(c) ==
  /\ pc[c] = "routing" /\ spotted[c] = NoWorker
  /\ \E w \in toTake[c] :
       IF w \in ToSet(table)
         THEN spotted' = [spotted EXCEPT ![c] = w] /\ UNCHANGED toTake
         ELSE toTake' = [toTake EXCEPT ![c] = @ \ {w}] /\ UNCHANGED spotted
  /\ UNCHANGED <<table, known, sick, lease, pc, tried, left, withdrawn, size, chosen, answer,
                 disturbed>>

(* What is left of a dict keeps its order *)
KeepsOrder(s, t) ==
  \A i, j \in DOMAIN s : i < j => \E k, l \in DOMAIN t : k < l /\ t[k] = s[i] /\ t[l] = s[j]

(* "self.workers.pop(wid)": the one that was there a moment ago *)
Pop(c) ==
  LET w == spotted[c] IN
  /\ pc[c] = "routing" /\ w \in ToSet(table)
  /\ \E rest \in SetToSeqs(ToSet(table) \ {w}) : KeepsOrder(rest, table) /\ table' = rest
  /\ withdrawn' = [withdrawn EXCEPT ![c] = @ \cup {w}]
  /\ toTake' = [toTake EXCEPT ![c] = @ \ {w}]
  /\ spotted' = [spotted EXCEPT ![c] = NoWorker]
  /\ Disturb(c)
  /\ UNCHANGED <<known, sick, lease, pc, tried, left, size, chosen, answer>>

(* It is gone: KeyError, outside the try, so that nothing is put back *)
PopFails(c) ==
  /\ pc[c] = "routing" /\ spotted[c] \notin ToSet(table) \cup {NoWorker}
  /\ Ends(c, "raised")
  /\ spotted' = [spotted EXCEPT ![c] = NoWorker]
  /\ UNCHANGED <<table, known, sick, lease, tried, left, toTake, withdrawn, size, chosen,
                 disturbed>>

(* route begins to iterate over the table *)
Iterate(c) ==
  /\ pc[c] = "routing" /\ spotted[c] = NoWorker /\ toTake[c] = {}
  /\ size' = [size EXCEPT ![c] = Len(table)]
  /\ pc' = [pc EXCEPT ![c] = "looking"]
  /\ UNCHANGED <<table, known, sick, lease, tried, left, chosen, answer, disturbed, takingVars>>

(* route: iterating over a dict that has changed its size raises; so does asking for the
   tags of a worker that left it after that, which is as if it had left before.  With nobody
   tried there is no try, and no route to anybody is asked for once more *)
Choose(c) ==
  LET still == Len(table) = size[c]
      w == IF still THEN Route(c) ELSE NoWorker IN
  /\ pc[c] = "looking"
  /\ chosen' = [chosen EXCEPT ![c] = w]
  /\ answer' = [answer EXCEPT ![c] =
       CASE ~ still -> "raised"
         [] still /\ w # NoWorker -> "none"
         [] still /\ w = NoWorker -> IF tried[c] = {} THEN "refused" ELSE "exhausted"]
  /\ pc' = [pc EXCEPT ![c] =
       CASE tried[c] # {} -> "restoring"
         [] tried[c] = {} /\ w # NoWorker -> "sending"
         [] tried[c] = {} /\ w = NoWorker -> IF still THEN "explaining" ELSE "done"]
  /\ size' = [size EXCEPT ![c] = IF pc'[c] = "explaining" THEN @ ELSE 0]
  /\ UNCHANGED <<table, known, sick, lease, tried, left, disturbed, takingVars>>

(* dispatch: the reason of the refusal comes from a second route, which may raise; whoever it
   chooses, nobody is sent anything *)
Explain(c) ==
  /\ pc[c] = "explaining"
  /\ \E a \in {"refused", "raised"} : (a = "raised" => Len(table) # size[c]) /\ Ends(c, a)
  /\ size' = [size EXCEPT ![c] = 0]
  /\ UNCHANGED <<table, known, sick, lease, tried, left, chosen, disturbed, takingVars>>

(* workers.update(saved): the keys that are not there again.  Slips: a key that is there again
   is added; no finally, so that an exception or a route to nobody skips it *)
BackTwice(c) == withdrawn[c]
BackIfChosen(c) == IF chosen[c] = NoWorker THEN {} ELSE withdrawn[c] \ ToSet(table)
Back(c) == withdrawn[c] \ ToSet(table)

(* The finally of _route_excluding; in the order in which they were taken, that is in any.
   With no worker chosen, or an exception on its way, the call is over *)
Restore(c) ==
  /\ pc[c] = "restoring"
  /\ \E s \in SetToSeqs(Back(c)) : table' = table \o s
  /\ withdrawn' = [withdrawn EXCEPT ![c] = {}]
  /\ IF withdrawn[c] = {} THEN UNCHANGED disturbed ELSE Disturb(c)
  /\ pc' = [pc EXCEPT ![c] = IF chosen[c] = NoWorker THEN "done" ELSE "sending"]
  /\ UNCHANGED <<known, sick, lease, tried, left, toTake, spotted, size, chosen, answer>>

(* self.workers[chosen], the lease, worker.execute; the key may be gone *)
Send(c) ==
  LET w == chosen[c] IN
  /\ pc[c] = "sending"
  /\ IF w \notin ToSet(table)
       THEN Ends(c, "raised") /\ UNCHANGED <<tried, lease>>
       ELSE /\ tried' = [tried EXCEPT ![c] = @ \cup {w}]
            /\ lease' = [lease EXCEPT ![TaskOf[c]] = w]
            /\ pc' = [pc EXCEPT ![c] = "executing"]
            /\ UNCHANGED answer
  /\ UNCHANGED <<table, known, sick, left, size, chosen, disturbed, takingVars>>

(* The lease of the task is dropped, whoever holds it by now *)
Dropped(c) == [lease EXCEPT ![TaskOf[c]] = NoWorker]

(* The worker's failure is worth another worker: only a remote one says so,
   for a transport error or a business code *)
TryAnother(c) ==
  /\ pc[c] = "executing" /\ chosen[c] \in Remote
  /\ lease' = Dropped(c)
  /\ sick' = sick \cup {chosen[c]}
  /\ left' = [left EXCEPT ![c] = @ - 1]
  /\ IF left[c] > 1
       THEN /\ pc' = [pc EXCEPT ![c] = "routing"]
            /\ toTake' = [toTake EXCEPT ![c] = tried[c]]
            /\ chosen' = [chosen EXCEPT ![c] = NoWorker]
            /\ UNCHANGED answer
       ELSE Ends(c, "exhausted") /\ UNCHANGED <<toTake, chosen>>   \* the last failure is returned
  /\ UNCHANGED <<table, known, tried, size, disturbed, spotted, withdrawn>>

(* The worker succeeds, or fails for good *)
Answer(c) ==
  /\ pc[c] \in {"executing", "direct"}
  /\ lease' = IF pc[c] = "direct" THEN lease ELSE Dropped(c)
  /\ \E a \in {"succeeded", "failed"} : Ends(c, a)
  /\ UNCHANGED <<table, known, sick, tried, left, size, chosen, disturbed, takingVars>>

(* execute raises (a script too long for a command line): the lease stays *)
Blow(c) ==
  /\ pc[c] \in {"executing", "direct"}
  /\ Ends(c, "raised")
  /\ UNCHANGED <<table, known, sick, lease, tried, left, size, chosen, disturbed, takingVars>>

DispatchStep(c) ==
  \/ Check(c) \/ Pop(c) \/ PopFails(c) \/ Iterate(c)
  \/ Choose(c) \/ Explain(c) \/ Restore(c) \/ Send(c)
  \/ TryAnother(c) \/ Answer(c) \/ Blow(c)

CafeNext ==
  \/ \E w \in Worker : RegisterWorker(w) \/ Recover(w)
  \/ \E k \in Pushdown : Reclaim(k)
  \/ \E c \in Caller : Dispatch(c) \/ DispatchStep(c)
  \/ \E c \in Caller, w \in Worker : DispatchTo(c, w)

(* A worker's execute ends: it has a timeout *)
CafeFairness == \A c \in Caller : WF_cafeVars(DispatchStep(c))

CafeSpec == CafeInit /\ [][CafeNext]_cafeVars /\ CafeFairness
-----------------------------------------------------------------------------
(* A registered worker is in the table or was taken out by some failover.  One that is out
   will be put back, whatever raises meanwhile, but for one case: the call ended between its
   look and its pop, and that only because another caller, which has tried the same worker,
   took that one out first (_route_excluding) *)
WorkersAccountedFor ==
  /\ known = ToSet(table) \cup UNION {withdrawn[c] : c \in Caller}
  /\ \A c \in Caller :
       /\ withdrawn[c] \cap ToSet(table) # {} => disturbed[c]
       /\ withdrawn[c] # {} /\ ~ Active(c) =>
            /\ answer[c] = "raised"
            /\ \E d \in Caller \ {c} : tried[c] \cap tried[d] # {}

(* The same without that case, an INVARIANT that fails: two failovers that meet lose a worker
   for good ("route, but skip those tried", the docstring of _route_excluding) *)
NoWorkerLost ==
  known = ToSet(table) \cup UNION {withdrawn[c] : c \in {d \in Caller : Active(d)}}

(* A lease stands for an execution in progress, or for one that raised *)
LeaseIsAlive ==
  \A k \in Pushdown :
    lease[k] # NoWorker =>
      \E c \in Caller : /\ TaskOf[c] = k /\ chosen[c] = lease[k]
                        /\ pc[c] = "executing" \/ answer[c] = "raised"

(* What a failover does to workers and leases is accounted for (_route_excluding, dispatch) *)
FailoverIsSafe == WorkersAccountedFor /\ LeaseIsAlive

(* Every dispatch ends, however the table changes under it: there are as many
   rounds as there were workers, and one more *)
DispatchEnds == \A c \in Caller : Active(c) ~> pc[c] = "done"

(* A dispatch that nobody disturbs never gives a worker a second try, and ends
   in failure only when it has tried every healthy worker that suits (dispatch:
   retries=None) *)
Passes(c) ==
  /\ pc[c] # "executing" /\ pc'[c] = "executing" => chosen'[c] \notin tried[c]
  /\ answer[c] = "none" /\ answer'[c] \in {"exhausted", "refused"} /\ pc[c] # "idle" =>
       \A w \in known \ sick : Suits(w, c) => w \in tried[c]

UndisturbedPasses == \A c \in Caller : disturbed[c] \/ Passes(c)

(* What holds in every step, whatever the others do: a worker is lost only where two failovers
   meet, and a call that nobody disturbs passes nobody over (_route_excluding, dispatch) *)
DispatchIsSound == [][FailoverIsSafe' /\ UndisturbedPasses]_cafeVars

(* The docstring of dispatch without that proviso: it fails, a failover of
   another caller hides the healthy worker *)
EveryCandidateTried == [][\A c \in Caller : Passes(c)]_cafeVars
=============================================================================
