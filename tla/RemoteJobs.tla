----------------------------- MODULE RemoteJobs -----------------------------
(***************************************************************************)
(* Work that runs at a service elsewhere.  A call of a model goes through  *)
(* the compute gate; any call is submitted, and, unless the service        *)
(* answers at once, polled until a deadline:                               *)
(*   "inference"  one request, one answer  (model/inference.py)            *)
(*   "batch"      submit, poll, collect    (model/batch.py)                *)
(*   "oge"        the same at OGE, with two credentials that expire        *)
(*                (adapters/oge_executor.py, oge_credential.py)            *)
(*   "ogc"        an OGC process, answered at once or polled               *)
(*                (adapters/ogc_exec.py)                                   *)
(*   "mcp"        a tool of an MCP server, in a session of its own with a  *)
(*                timeout (mcp_client.py)                                  *)
(* The service and the network fail at any time; a request that fails may  *)
(* have been accepted all the same.  A model call is a task's attempt, and *)
(* a retryable failure is tried again (geotask).                           *)
(***************************************************************************)
EXTENDS Naturals, Sequences, FiniteSets, SequencesExt

CONSTANTS
  Call,
  Kind(_),       \* Kind(c): one of the kinds above
  MaxAttempts,   \* the task's max_attempts
  MaxFlips       \* bound: how often the service stops or starts to answer

Models == {"inference", "batch"}     \* reached by invoke_model; the others are skills
Polled == {"batch", "oge", "ogc"}
AtOnce == {"inference", "ogc", "mcp"}

ASSUME JobsAssumption ==
  /\ \A c \in Call : Kind(c) \in Models \cup Polled \cup AtOnce
  /\ MaxAttempts \in Nat \ {0} /\ MaxFlips \in Nat

VARIABLES
  stage,    \* stage[c]: where the call stands
  attempt,  \* attempt[c]: attempts begun
  jobs,     \* jobs[c]: what the service runs or has run for it
  result,   \* result[c]: the last outcome, and whether it may be tried again
  saw,      \* saw[c]: history: a poll of this attempt has seen the job succeed
  tk,       \* OGE's app key, as the credential manager has it: "none", "good", "expired"
  renewed,  \* renewed[c]: the key was renewed for this call after a 401
  audited,  \* audited[c]: the executor has written its audit entry
  answers,  \* the service answers
  flips

jobVars == <<stage, attempt, jobs, result, saw, tk, renewed, audited, answers, flips>>

None == [status |-> "none", retryable |-> FALSE]
Success == [status |-> "succeeded", retryable |-> FALSE]
Failure(retryable) == [status |-> "failed", retryable |-> retryable]

JobTypeOK ==
  /\ stage \in [Call -> {"idle", "gate", "submit", "poll", "collect", "ended"}]
  /\ attempt \in [Call -> 0 .. MaxAttempts]
  /\ jobs \in [Call -> Seq({"open", "succeeded", "failed", "dismissed"})]
  /\ result \in [Call -> {None, Success, Failure(TRUE), Failure(FALSE)}]
  /\ saw \in [Call -> BOOLEAN] /\ renewed \in [Call -> BOOLEAN] /\ audited \in [Call -> BOOLEAN]
  /\ tk \in {"none", "good", "expired"}
  /\ answers \in BOOLEAN /\ flips \in 0 .. MaxFlips

JobInit ==
  /\ stage = [c \in Call |-> "idle"]
  /\ attempt = [c \in Call |-> 0]
  /\ jobs = [c \in Call |-> <<>>]
  /\ result = [c \in Call |-> None]
  /\ saw = [c \in Call |-> FALSE]
  /\ tk = "none" /\ renewed = [c \in Call |-> FALSE] /\ audited = [c \in Call |-> FALSE]
  /\ answers = TRUE /\ flips = 0

-----------------------------------------------------------------------------
(* The service: it finishes jobs or, an OGC one, dismisses them, fails to
   answer, and lets a key expire *)
Finish(c, i) ==
  /\ jobs[c][i] = "open"
  /\ \E s \in {"succeeded", "failed", "dismissed"} :
       /\ s = "dismissed" => Kind(c) = "ogc"
       /\ jobs' = [jobs EXCEPT ![c][i] = s]
  /\ UNCHANGED <<stage, attempt, result, saw, tk, renewed, audited, answers, flips>>

Flip ==
  /\ flips < MaxFlips /\ flips' = flips + 1
  /\ answers' = ~answers
  /\ UNCHANGED <<stage, attempt, jobs, result, saw, tk, renewed, audited>>

Expire ==
  /\ flips < MaxFlips /\ flips' = flips + 1
  /\ tk = "good" /\ tk' = "expired"
  /\ UNCHANGED <<stage, attempt, jobs, result, saw, renewed, audited, answers>>

-----------------------------------------------------------------------------
Goto(c, s) == stage' = [stage EXCEPT ![c] = s]

(* An attempt ends: an exception out of a model call is a retryable failure,
   one out of a skill fails it *)
End(c, outcome) ==
  /\ Goto(c, "ended")
  /\ result' = [result EXCEPT ![c] = outcome]
Raise(c) == End(c, Failure(Kind(c) \in Models))
Audited(c) == [audited EXCEPT ![c] = audited[c] \/ Kind(c) = "oge"]

(* The task's retry rule.  Slip: attempts are not counted *)
RetriesForever(c) == result[c].retryable
MayRetry(c) == result[c].retryable /\ attempt[c] < MaxAttempts

(* The first attempt, or one more after a retryable failure *)
Begin(c) ==
  /\ stage[c] = "idle" \/ (stage[c] = "ended" /\ MayRetry(c))
  /\ attempt' = [attempt EXCEPT ![c] = @ + 1]
  /\ saw' = [saw EXCEPT ![c] = FALSE]
  /\ renewed' = [renewed EXCEPT ![c] = FALSE]
  /\ Goto(c, IF Kind(c) \in Models THEN "gate" ELSE "submit")
  /\ UNCHANGED <<jobs, result, tk, audited, answers, flips>>

(* invoke_model: inputs, compute node and provider; any of them may refuse *)
PassGate(c) ==
  /\ stage[c] = "gate"
  /\ \/ Goto(c, "submit") /\ UNCHANGED result
     \/ End(c, Failure(FALSE))
  /\ UNCHANGED <<attempt, jobs, saw, tk, renewed, audited, answers, flips>>

(* ensure_app_key: the cached key, whatever the service thinks of it, or a new one *)
EnsureKey(c) ==
  /\ stage[c] = "submit" /\ Kind(c) = "oge" /\ tk = "none"
  /\ \/ answers /\ tk' = "good" /\ UNCHANGED <<stage, result>>
     \/ Raise(c) /\ UNCHANGED tk
  /\ UNCHANGED <<attempt, jobs, saw, renewed, audited, answers, flips>>

(* A 401 when submitting: the cache is emptied and the operator is tried once more *)
Renew(c) ==
  /\ stage[c] = "submit" /\ Kind(c) = "oge" /\ tk = "expired"
  /\ IF renewed[c] \/ ~answers THEN Raise(c) /\ UNCHANGED <<tk, renewed>>
     ELSE tk' = "none" /\ renewed' = [renewed EXCEPT ![c] = TRUE] /\ UNCHANGED <<stage, result>>
  /\ UNCHANGED <<attempt, jobs, saw, audited, answers, flips>>

Accepted(c, state) == jobs' = [jobs EXCEPT ![c] = Append(@, state)]

(* The request arrives or not, and is answered or not *)
Submit(c) ==
  /\ stage[c] = "submit" /\ (Kind(c) = "oge" => tk = "good")
  /\ \/ answers /\ Accepted(c, "open") /\ Goto(c, "poll") /\ Kind(c) \in Polled /\ UNCHANGED result
     \/ answers /\ Accepted(c, "succeeded") /\ End(c, Success) /\ Kind(c) \in AtOnce
     \/ answers /\ Accepted(c, "failed") /\ End(c, Failure(FALSE)) /\ Kind(c) = "mcp"
     \/ Accepted(c, "open") /\ Raise(c)
     \/ Raise(c) /\ UNCHANGED jobs
     \/ End(c, Failure(FALSE)) /\ UNCHANGED jobs   \* refused, or an answer that makes no sense
  /\ UNCHANGED <<attempt, saw, tk, renewed, audited, answers, flips>>

(* A poll sees the end of the job.  The batch provider asks again for the
   result, the others fetch it, an OGC one that was dismissed as well.  Slip:
   the state is not looked at *)
SeesAny(c) == Last(jobs[c])
Sees(c) == IF Last(jobs[c]) = "open" THEN "nothing" ELSE Last(jobs[c])
Poll(c) ==
  /\ stage[c] = "poll" /\ answers /\ Sees(c) # "nothing"
  /\ (Kind(c) = "oge" => tk = "good")    \* a 401 is one of the errors that are polled over
  /\ saw' = [saw EXCEPT ![c] = Sees(c) # "failed"]
  /\ IF Kind(c) \in {"oge", "ogc"} /\ Sees(c) = "failed"
       THEN End(c, Failure(FALSE)) /\ audited' = Audited(c)
       ELSE Goto(c, "collect") /\ UNCHANGED <<result, audited>>
  /\ UNCHANGED <<attempt, jobs, tk, renewed, answers, flips>>

(* The deadline.  Slip: looked at only after a poll that was answered *)
MayTimeOutAnswered(c) == stage[c] = "poll" /\ answers
MayTimeOut(c) == stage[c] = "poll"
TimeOut(c) ==
  /\ MayTimeOut(c)
  /\ End(c, Failure(Kind(c) = "batch"))
  /\ audited' = Audited(c)
  /\ UNCHANGED <<attempt, jobs, saw, tk, renewed, answers, flips>>

(* In the poll loops of the skills an error of the transport is not caught *)
PollBreaks(c) ==
  /\ stage[c] = "poll" /\ Kind(c) \in {"oge", "ogc"} /\ ~answers
  /\ Raise(c)
  /\ UNCHANGED <<attempt, jobs, saw, tk, renewed, audited, answers, flips>>

(* The result; a batch job's state is read once more, and one that the service has
   cancelled or given up may be tried again; an OGE result that is refused is left
   out, an OGC result that cannot be had as well.  The outputs may miss what the
   card requires *)
Collect(c) ==
  /\ stage[c] = "collect"
  /\ \/ /\ answers \/ Kind(c) = "ogc"
        /\ \E again \in {FALSE, Kind(c) = "batch"} :
             End(c, IF saw[c] THEN Success ELSE Failure(again))
        /\ audited' = Audited(c)
     \/ ~answers /\ Kind(c) # "ogc" /\ Raise(c) /\ UNCHANGED audited
     \/ Kind(c) = "batch" /\ answers /\ End(c, Failure(FALSE)) /\ UNCHANGED audited
  /\ UNCHANGED <<attempt, jobs, saw, tk, renewed, answers, flips>>

CallStep(c) ==
  \/ Begin(c) \/ PassGate(c) \/ EnsureKey(c) \/ Renew(c) \/ Submit(c)
  \/ Poll(c) \/ TimeOut(c) \/ PollBreaks(c) \/ Collect(c)

(* What happens to the calls in C *)
JobStep(C) ==
  \/ Flip \/ Expire
  \/ \E c \in C : CallStep(c) \/ \E i \in DOMAIN jobs[c] : Finish(c, i)

JobNext == JobStep(Call)

JobFairness == \A c \in Call : WF_jobVars(CallStep(c))

JobSpec == JobInit /\ [][JobNext]_jobVars /\ JobFairness
-----------------------------------------------------------------------------
(* A call reports success only if the job it submitted last has succeeded, and
   not merely because a poll was answered; not so an OGC job that was dismissed *)
OutcomeIsBacked ==
  \A c \in Call : stage[c] = "ended" /\ result[c] = Success =>
    /\ jobs[c] # <<>>
    /\ Last(jobs[c]) = "succeeded" \/ (Kind(c) = "ogc" /\ Last(jobs[c]) = "dismissed")

(* Every call ends, though the service may never answer again *)
CallEnds ==
  \A c \in Call : stage[c] # "idle" ~> stage[c] = "ended" /\ (~result[c].retryable \/ attempt[c] = MaxAttempts)

(* The head of oge_executor.py: an execution ends with "6. write the audit log".
   It fails: an exception, for instance in a poll, leaves without one *)
EndsAudited ==
  \A c \in Call : Kind(c) = "oge" /\ stage[c] = "ended" /\ jobs[c] # <<>> => audited[c]

(* No call is run again at the service once its job has been seen to succeed.
   It fails: batch.py asks a second time, and takes an error for a lost attempt *)
SuccessIsKept == \A c \in Call : saw[c] /\ stage[c] = "ended" => ~result[c].retryable

(* The head of ogc_exec.py: the handler "fetches the results and returns them".
   They fail: a job that was dismissed, and one whose results could not be
   fetched, count as done *)
DismissedIsNoSuccess ==
  \A c \in Call : stage[c] = "ended" /\ result[c] = Success => Last(jobs[c]) # "dismissed"
ResultsAreReturned ==
  [][\A c \in Call :
       stage[c] = "collect" /\ stage'[c] = "ended" /\ result'[c] = Success => answers]_jobVars
=============================================================================
