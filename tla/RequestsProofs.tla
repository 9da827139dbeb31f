--------------------------- MODULE RequestsProofs ---------------------------
(***************************************************************************)
(* Proofs about what a request meets before it is an answer.               *)
(*                                                                         *)
(* The catalogue of recipes (RecipeCatalogue): a status of "approved" may  *)
(* sit in a copy in memory, in the file, or in the temporary file.  The    *)
(* invariant says of all three that it sits there only for what has been   *)
(* approved, so it does not matter which of them is copied over which.     *)
(*                                                                         *)
(* The registry's interface (RegistryApi): what it shows was approved by   *)
(* somebody who may review, and what it says of a node is as old as it     *)
(* says, because a probe finds a node well only while it is alive.         *)
(*                                                                         *)
(* Jobs elsewhere (RemoteJobs): what a call's stage says of the job it     *)
(* submitted last, and of nothing before it, so that a job accepted        *)
(* without an answer and submitted again cannot make a success.            *)
(*                                                                         *)
(* Plans (PlanReflection): what is over has been settled, and in the first *)
(* pass of the first run nobody has given advice yet.                      *)
(*                                                                         *)
(* Planning at the agent (AgentPlanning): each step of a plan was offered  *)
(* by the node it is for, from the first search to the last step, and what *)
(* was launched has no cycle.                                              *)
(*                                                                         *)
(* The knowledge graph (KnowledgeGraph): what a file gives when it is read *)
(* line by line, and what an append adds to that.                          *)
(*                                                                         *)
(* The run of a recipe (RecipeRun): which documents are accepted, from     *)
(* what Kahn's algorithm takes in each round.                              *)
(***************************************************************************)
EXTENDS MCRequests, StepByStep, FiniteSetTheorems, SequenceTheorems

(* A catalogue in memory or on disk that approves only what was approved *)
Vouches(holds, approved) == \A a \in Address : holds[a] = "approved" => a \in approved

(* Of every copy, whole or torn, and of what was planned *)
ApprovalsAreKept ==
  /\ \A p \in Process : Vouches(copy[p], blessed)
  /\ Vouches(file.holds, blessed)
  /\ Vouches(tmp, blessed)

CatInv == CatTypeOK /\ ApprovalsAreKept /\ PlannedWereApproved

-----------------------------------------------------------------------------
(* An empty catalogue, and a file that is torn or not there, approve nothing *)
LEMMA NothingIsApproved ==
  /\ Empty \in Shelf
  /\ \A S : Vouches(Empty, S) /\ Vouches(Torn, S) /\ Vouches(Missing, S)
BY DEF Empty, Torn, Missing, Shelf, Vouches, Unregistered

(* What planning finds for a wish was approved *)
LEMMA FoundIsApproved ==
  ASSUME NEW p \in Process, NEW wish \in Wishes, CatInv
  PROVE  Found(p, wish) \subseteq blessed
<1>1. wish \subseteq Address
  BY DEF Wishes
<1> QED
  BY <1>1 DEF Found, Newest, CatInv, ApprovalsAreKept, Vouches

(* A change in memory, of one address *)
LEMMA ChangeKeeps ==
  ASSUME CatInv, NEW p \in Process, NEW a \in Address,
         NEW mark \in {Unregistered, "pending", "approved", "rejected"}, NEW approvals,
         approvals \subseteq Address, mark = "approved" => a \in approvals,
         NEW new, new = [copy[p] EXCEPT ![a] = mark], Change(p, new, approvals)
  PROVE  CatInv'
<1> USE CatalogueAssumption DEF Change, CatInv
<1>1. new \in Shelf
  BY DEF CatTypeOK, Shelf
<1>2. CatTypeOK'
  <2>1. copy' \in [Process -> Shelf]
    BY <1>1 DEF CatTypeOK
  <2>3. changes' \in 0 .. MaxChanges
    <3>1. changes \in 0 .. MaxChanges /\ changes < MaxChanges /\ changes' = changes + 1
      BY DEF CatTypeOK
    <3>2. MaxChanges \in Nat
      OBVIOUS
    <3> HIDE DEF Change, CatInv
    <3> QED
      BY <3>1, <3>2
  <2>2. at' \in [Process -> {"idle", "opening", "writing", "writing the file",
                             "writing a lost file", "replacing", "loading", "stamping"}]
    BY DEF CatTypeOK
  <2> QED
    BY <2>1, <2>2, <2>3 DEF CatTypeOK
<1>3. Vouches(new, blessed')
  BY DEF CatTypeOK, Shelf, ApprovalsAreKept, Vouches
<1>4. ApprovalsAreKept'
  <2>1. \A q \in Process : Vouches(copy'[q], blessed')
    BY <1>3 DEF CatTypeOK, ApprovalsAreKept, Vouches
  <2> QED
    BY <2>1 DEF ApprovalsAreKept, Vouches
<1>5. PlannedWereApproved'
  BY DEF PlannedWereApproved
<1> QED
  BY <1>2, <1>4, <1>5

(* The file after a write of it *)
LEMMA WrittenHolds ==
  ASSUME CatTypeOK, NEW x \in Shelf \cup {Torn}
  PROVE  Written(x) \in [stamp : Nat, holds : Shelf \cup {Torn}] /\ Written(x).holds = x
<1>1. file.stamp \in Nat
  BY DEF CatTypeOK
<1>2. \A n \in Nat : n + 1 \in Nat
  OBVIOUS
<1> QED
  BY <1>1, <1>2 DEF Written

LEMMA SaveKeeps ==
  ASSUME CatInv, NEW p \in Process, Save(p)
  PROVE  CatInv'
<1> USE DEF Save, CatInv
<1>1. copy[p] \in Shelf \cup {Torn}
  BY DEF CatTypeOK
<1>2. /\ tmp' \in {tmp, Torn, copy[p]}
      /\ file' \in {file, Written(copy[p])}
  OBVIOUS
<1>3. at' \in [Process -> {"idle", "opening", "writing", "writing the file",
                           "writing a lost file", "replacing", "loading", "stamping"}]
  BY DEF CatTypeOK, Goes
<1>4. CatTypeOK'
  <2>1. file' \in [stamp : Nat, holds : Shelf \cup {Torn}]
    <3>1. Written(copy[p]) \in [stamp : Nat, holds : Shelf \cup {Torn}]
      BY <1>1, WrittenHolds
    <3>2. file \in [stamp : Nat, holds : Shelf \cup {Torn}]
      BY DEF CatTypeOK
    <3> QED
      BY <1>2, <3>1, <3>2
  <2>2. tmp' \in Shelf \cup {Torn, Missing}
    BY <1>1, <1>2 DEF CatTypeOK
  <2> QED
    BY <2>1, <2>2, <1>3 DEF CatTypeOK
<1>5. Vouches(tmp', blessed') /\ Vouches(file'.holds, blessed')
  BY <1>1, <1>2, WrittenHolds, NothingIsApproved DEF ApprovalsAreKept
<1>6. ApprovalsAreKept'
  BY <1>5 DEF ApprovalsAreKept
<1> QED
  BY <1>4, <1>6 DEF PlannedWereApproved

LEMMA ReplaceKeeps ==
  ASSUME CatInv, NEW p \in Process, Replace(p)
  PROVE  CatInv'
<1> USE DEF Replace, CatInv
<1>1. /\ tmp' \in {tmp, Missing}
      /\ file' = file \/ (tmp \in Shelf \cup {Torn} /\ file' = Written(tmp))
  BY DEF CatTypeOK
<1>2. at' \in [Process -> {"idle", "opening", "writing", "writing the file",
                           "writing a lost file", "replacing", "loading", "stamping"}]
  <2>1. at \in [Process -> {"idle", "opening", "writing", "writing the file",
                           "writing a lost file", "replacing", "loading", "stamping"}]
    BY DEF CatTypeOK
  <2>2. CASE at' = [at EXCEPT ![p] = "idle"]
    BY <2>1, <2>2
  <2>3. CASE at' = [q \in Process |->
                      CASE q = p -> "stamping"
                        [] at[q] = "writing" -> "writing the file"
                        [] at[q] = "writing the file" -> "writing a lost file"
                        [] OTHER -> at[q]]
    BY <2>1, <2>3
  <2> QED
    BY <2>2, <2>3
<1>3. CatTypeOK'
  <2>1. tmp' \in Shelf \cup {Torn, Missing}
    BY <1>1 DEF CatTypeOK
  <2>2. file' \in [stamp : Nat, holds : Shelf \cup {Torn}]
    <3>1. file \in [stamp : Nat, holds : Shelf \cup {Torn}]
      BY DEF CatTypeOK
    <3>2. tmp \in Shelf \cup {Torn} => Written(tmp) \in [stamp : Nat, holds : Shelf \cup {Torn}]
      BY WrittenHolds
    <3> QED
      BY <1>1, <3>1, <3>2
  <2> QED
    BY <1>2, <2>1, <2>2 DEF CatTypeOK
<1>4. Vouches(tmp', blessed') /\ Vouches(file'.holds, blessed')
  BY <1>1, WrittenHolds, NothingIsApproved DEF ApprovalsAreKept
<1>5. ApprovalsAreKept'
  BY <1>4 DEF ApprovalsAreKept
<1> QED
  BY <1>3, <1>5 DEF PlannedWereApproved

LEMMA StampKeeps ==
  ASSUME CatInv, NEW p \in Process, Stamp(p)
  PROVE  CatInv'
BY DEF Stamp, Goes, CatInv, CatTypeOK, ApprovalsAreKept, Vouches, PlannedWereApproved

LEMMA ReloadKeeps ==
  ASSUME CatInv, NEW p \in Process, Reload(p)
  PROVE  CatInv'
<1> USE NothingIsApproved DEF Reload, Goes, CatInv
<1>1. CatTypeOK'
  BY DEF CatTypeOK
<1>2. ApprovalsAreKept'
  BY DEF ApprovalsAreKept, Vouches, CatTypeOK
<1> QED
  BY <1>1, <1>2 DEF PlannedWereApproved

LEMMA LoadKeeps ==
  ASSUME CatInv, NEW p \in Process, Load(p)
  PROVE  CatInv'
<1> USE DEF Load, Goes, CatInv
<1>1. CatTypeOK'
  BY DEF CatTypeOK
<1>2. ApprovalsAreKept'
  BY DEF ApprovalsAreKept, Vouches, CatTypeOK
<1> QED
  BY <1>1, <1>2 DEF PlannedWereApproved

LEMMA RestartKeeps ==
  ASSUME CatInv, NEW p \in Process, Restart(p)
  PROVE  CatInv'
<1> USE DEF Restart, CatInv
<1>1. CatTypeOK'
  BY DEF CatTypeOK
<1>2. ApprovalsAreKept'
  BY DEF ApprovalsAreKept, Vouches, CatTypeOK
<1> QED
  BY <1>1, <1>2 DEF PlannedWereApproved

LEMMA PlanRecipeKeeps ==
  ASSUME CatInv, NEW p \in Process, NEW wish \in Wishes, PlanRecipe(p, wish)
  PROVE  CatInv'
<1>1. Found(p, wish) \subseteq blessed /\ Found(Central, wish) \subseteq blessed
  BY FoundIsApproved, CatalogueAssumption
<1>2. PlannedWereApproved'
  BY <1>1 DEF PlanRecipe, CatInv, PlannedWereApproved
<1> QED
  BY <1>2 DEF PlanRecipe, CatInv, CatTypeOK, ApprovalsAreKept, Vouches, PlannedWereApproved

LEMMA CatNextKeeps ==
  ASSUME CatInv, [CatNext]_catVars
  PROVE  CatInv'
<1>1. CASE UNCHANGED catVars
  BY <1>1 DEF catVars, CatInv, CatTypeOK, ApprovalsAreKept, Vouches, PlannedWereApproved
<1>2. ASSUME NEW p \in Process, NEW a \in Address,
             NEW s \in {"pending", "approved", "rejected"}, NEW b \in BOOLEAN, Register(p, a, s, b)
      PROVE  CatInv'
  <2>1. Change(p, [copy[p] EXCEPT ![a] = s], Approvals(a, s))
    BY <1>2 DEF Register
  <2>2. Approvals(a, s) \subseteq Address /\ (s = "approved" => a \in Approvals(a, s))
    BY DEF Approvals
  <2> QED
    BY <2>1, <2>2, ChangeKeeps
<1>3. ASSUME NEW p \in Process, NEW a \in Address, Fork(p, a)
      PROVE  CatInv'
  <2>1. Change(p, [copy[p] EXCEPT ![ForkOf(a)] = "pending"], {}) /\ ForkOf(a) \in Address
    BY <1>3, CatalogueAssumption DEF Fork, ForkStatus
  <2> QED
    BY <2>1, ChangeKeeps
<1>4. ASSUME NEW p \in Process, NEW wish \in Wishes, RemoveRecipe(p, wish)
      PROVE  CatInv'
  <2>1. wish \subseteq Address
    BY DEF Wishes
  <2>2. PICK a \in wish : Change(p, [copy[p] EXCEPT ![a] = Unregistered], {})
    BY <1>4 DEF RemoveRecipe, Target
  <2>3. Unregistered # "approved"
    BY DEF Unregistered
  <2> QED
    BY <2>1, <2>2, <2>3, ChangeKeeps
<1>5. ASSUME NEW p \in Process, NEW wish \in Wishes, NEW v \in Verdict, ReviewRecipe(p, wish, v)
      PROVE  CatInv'
  <2>1. wish \subseteq Address
    BY DEF Wishes
  <2>2. PICK a \in wish : Change(p, [copy[p] EXCEPT ![a] = v], Approvals(a, v))
    BY <1>5 DEF ReviewRecipe, Target
  <2>3. Approvals(a, v) \subseteq Address /\ (v = "approved" => a \in Approvals(a, v))
    BY <2>1 DEF Approvals
  <2>4. v \in {Unregistered, "pending", "approved", "rejected"}
    BY DEF Verdict
  <2> QED
    BY <2>1, <2>2, <2>3, <2>4, ChangeKeeps
<1> QED
  BY <1>1, <1>2, <1>3, <1>4, <1>5, SaveKeeps, ReplaceKeeps, StampKeeps, ReloadKeeps, LoadKeeps,
     RestartKeeps, PlanRecipeKeeps DEF CatNext

LEMMA CatStart == CatInit => CatInv
<1> SUFFICES ASSUME CatInit PROVE CatInv
  OBVIOUS
<1>1. CatTypeOK
  BY NothingIsApproved, CatalogueAssumption DEF CatInit, CatTypeOK, NoFile
<1>2. ApprovalsAreKept
  BY NothingIsApproved DEF CatInit, ApprovalsAreKept, NoFile
<1>3. PlannedWereApproved
  BY DEF CatInit, PlannedWereApproved
<1> QED
  BY <1>1, <1>2, <1>3 DEF CatInv

(* The invariant of the catalogue (recipe/registry.py): types, and no approval
   anywhere that nobody gave *)
THEOREM CatInvariant == CatSpec => []CatInv
<1>2. CatInv /\ [CatNext]_catVars => CatInv'
  BY CatNextKeeps
<1> QED
  BY CatStart, <1>2, PTL DEF CatSpec

(* A node materialises a recipe only under an address that somebody approved,
   whichever copies are stale, torn, lost or replaced (geomcp/server.py,
   _resolve_recipe; recipe/registry.py, reload_if_changed and fork) *)
THEOREM RecipesWereApproved == CatSpec => []PlannedWereApproved
BY CatInvariant, PTL DEF CatInv

-----------------------------------------------------------------------------
(* A node is known to be well only from a probe it answered; what a probe found is as
   old as it says *)
SeenAlive ==
  \A n \in Gn :
    /\ lastAlive[n] <= clock /\ (alive[n] => lastAlive[n] = clock)
    /\ probed[n].known /\ probed[n].healthy => probed[n].at <= lastAlive[n]

ApiInv == RegistryApiTypeOK /\ OnlyReviewedShows /\ SeenAlive /\ HealthIsRecent

LEMMA ClockFacts == CacheTtl \in Nat /\ MaxClock \in Nat /\ \A k \in 0 .. MaxClock : k \in Nat
BY RegistryApiAssumption

(* What the handlers write is a status, and every code they answer is one *)
LEMMA StatusesAre ==
  ASSUME NEW e \in Entries, NEW s \in StatusGiven
  PROVE  /\ FirstStatus(e, s) \in {"pending", "approved", "odd"}
         /\ public /\ e \in Reviewed => FirstStatus(e, s) = "pending"
BY DEF FirstStatus, StatusGiven, Reviewed, Entries, Versions

LEMMA CodesAre ==
  ASSUME NEW q \in Requests
  PROVE  CodeOf(q) \in Codes /\ KeyRefused(q.key, ScopeFor(q.op, q.addr)) \in Codes
<1>1. q.op \in Operation
  BY DEF Requests, Asking
<1>2. KeyRefused(q.key, ScopeFor(q.op, q.addr)) \in {0, 401, 403}
  BY DEF KeyRefused
<1>3. /\ CodeOfEntry(q) \in Codes /\ CodeOfFork(q) \in Codes /\ CodeOfReview(q) \in Codes
      /\ CodeOfRemoval(q) \in Codes
  BY DEF CodeOfEntry, CodeOfFork, CodeOfReview, CodeOfRemoval, Codes
<1>4. CodeOf(q) \in Codes
  BY <1>1, <1>3 DEF CodeOf, Codes, Operation, Writing
<1> QED
  BY <1>2, <1>4 DEF Codes

(* Where the public may submit it takes the scope that is asked for *)
LEMMA HoldersMay ==
  ASSUME public, public \in Modes, NEW k, NEW scope \in {"review", "write"}, KeyRefused(k, scope) = 0
  PROVE  Holds(k, scope)
<1>1. TRUE \in Modes
  BY RegistryApiAssumption
<1>2. Key # {} /\ \A j \in Key : "plain" \notin Scopes[j]
  BY <1>1, RegistryApiAssumption
<1>3. k \in Key /\ Scopes[k] \cap {scope, "admin", "plain"} # {}
  BY <1>2 DEF KeyRefused
<1> QED
  BY <1>2, <1>3 DEF Holds

LEMMA EntersFacts ==
  ASSUME RegistryApiTypeOK, NEW e \in Entries, NEW s, NEW k \in Key \cup {"none"}, Enters(e, s, k),
         s \in {"absent", "pending", "approved", "rejected", "odd"},
         public /\ e \in Reviewed => s # "approved", OnlyReviewedShows
  PROVE  /\ state' \in [Entries -> {"absent", "pending", "approved", "rejected", "odd"}]
         /\ submitter' \in [Entries -> Key \cup {"none", "someone"}]
         /\ sender' \in [Entries -> Key \cup {"none"}] /\ judge' \in [Entries -> Key \cup {"none"}]
         /\ puller' \in [Entries -> Key \cup {"none"}]
         /\ UNCHANGED public => OnlyReviewedShows'
<1>1. /\ state' = [state EXCEPT ![e] = s]
      /\ submitter' = [submitter EXCEPT ![e] = IF e \in {"plugin", "skill"} THEN "none" ELSE k]
      /\ sender' = [sender EXCEPT ![e] = k] /\ judge' = [judge EXCEPT ![e] = "none"]
      /\ puller' = [puller EXCEPT ![e] = "none"]
  BY DEF Enters
<1>2. /\ state' \in [Entries -> {"absent", "pending", "approved", "rejected", "odd"}]
      /\ submitter' \in [Entries -> Key \cup {"none", "someone"}]
      /\ sender' \in [Entries -> Key \cup {"none"}] /\ judge' \in [Entries -> Key \cup {"none"}]
      /\ puller' \in [Entries -> Key \cup {"none"}]
  BY <1>1 DEF RegistryApiTypeOK
<1>3. /\ state'[e] = s
      /\ \A d \in Entries : d # e =>
           state'[d] = state[d] /\ judge'[d] = judge[d] /\ puller'[d] = puller[d]
  BY <1>1 DEF RegistryApiTypeOK
<1>4. Reviewed \subseteq Entries
  BY DEF Entries
<1> QED
  BY <1>2, <1>3, <1>4 DEF OnlyReviewedShows, Holds

LEMMA ReviewsFacts ==
  ASSUME RegistryApiTypeOK, NEW e \in Entries, NEW s \in {"approved", "rejected"},
         NEW k \in Key \cup {"none"}, Reviews(e, s, k),
         public => s = "rejected" \/ Holds(k, "review"),
         OnlyReviewedShows
  PROVE  /\ state' \in [Entries -> {"absent", "pending", "approved", "rejected", "odd"}]
         /\ submitter' \in [Entries -> Key \cup {"none", "someone"}]
         /\ sender' \in [Entries -> Key \cup {"none"}] /\ judge' \in [Entries -> Key \cup {"none"}]
         /\ puller' \in [Entries -> Key \cup {"none"}]
         /\ UNCHANGED public => OnlyReviewedShows'
<1>1. /\ state' = [state EXCEPT ![e] = s]
      /\ submitter' = [submitter EXCEPT ![e] = IF e = "plugin" /\ @ = "none" THEN "someone" ELSE @]
      /\ judge' = [judge EXCEPT ![e] = k] /\ sender' = sender
      /\ puller' = [puller EXCEPT ![e] = "none"]
  BY DEF Reviews
<1>2. /\ state' \in [Entries -> {"absent", "pending", "approved", "rejected", "odd"}]
      /\ submitter' \in [Entries -> Key \cup {"none", "someone"}]
      /\ sender' \in [Entries -> Key \cup {"none"}] /\ judge' \in [Entries -> Key \cup {"none"}]
      /\ puller' \in [Entries -> Key \cup {"none"}]
  BY <1>1 DEF RegistryApiTypeOK
<1>3. /\ state'[e] = s /\ judge'[e] = k
      /\ \A d \in Entries : d # e =>
           state'[d] = state[d] /\ judge'[d] = judge[d] /\ puller'[d] = puller[d]
  BY <1>1 DEF RegistryApiTypeOK
<1>4. Reviewed \subseteq Entries
  BY DEF Entries
<1> QED
  BY <1>2, <1>3, <1>4 DEF OnlyReviewedShows, Holds

LEMMA PullsFacts ==
  ASSUME RegistryApiTypeOK, NEW brought \in SUBSET Listed, NEW k \in Key \cup {"none"}, Pulls(brought, k),
         public => Holds(k, "write"), OnlyReviewedShows
  PROVE  /\ state' \in [Entries -> {"absent", "pending", "approved", "rejected", "odd"}]
         /\ submitter' \in [Entries -> Key \cup {"none", "someone"}]
         /\ sender' \in [Entries -> Key \cup {"none"}] /\ judge' \in [Entries -> Key \cup {"none"}]
         /\ puller' \in [Entries -> Key \cup {"none"}]
         /\ UNCHANGED public => OnlyReviewedShows'
<1>1. /\ state' = [e \in Entries |-> IF e \in brought THEN "approved" ELSE state[e]]
      /\ submitter' = [e \in Entries |-> IF e \in brought THEN "none" ELSE submitter[e]]
      /\ sender' = [e \in Entries |-> IF e \in brought THEN "none" ELSE sender[e]]
      /\ judge' = [e \in Entries |-> IF e \in brought THEN "none" ELSE judge[e]]
      /\ puller' = [e \in Entries |-> IF e \in brought THEN k ELSE puller[e]]
  BY DEF Pulls
<1>2. /\ state' \in [Entries -> {"absent", "pending", "approved", "rejected", "odd"}]
      /\ submitter' \in [Entries -> Key \cup {"none", "someone"}]
      /\ sender' \in [Entries -> Key \cup {"none"}] /\ judge' \in [Entries -> Key \cup {"none"}]
      /\ puller' \in [Entries -> Key \cup {"none"}]
  BY <1>1 DEF RegistryApiTypeOK
<1>3. \A e \in Entries :
        IF e \in brought THEN puller'[e] = k
        ELSE state'[e] = state[e] /\ judge'[e] = judge[e] /\ puller'[e] = puller[e]
  BY <1>1
<1>4. Reviewed \subseteq Entries /\ \A e \in Reviewed \cap brought : e = "card"
  BY DEF Entries, Reviewed, Versions, Listed
<1> QED
  BY <1>2, <1>3, <1>4 DEF OnlyReviewedShows, Holds

LEMMA AppliesFacts ==
  ASSUME ApiInv, NEW q \in Requests, Applies(q), KeyRefused(q.key, ScopeFor(q.op, q.addr)) = 0
  PROVE  /\ state' \in [Entries -> {"absent", "pending", "approved", "rejected", "odd"}]
         /\ submitter' \in [Entries -> Key \cup {"none", "someone"}]
         /\ sender' \in [Entries -> Key \cup {"none"}] /\ judge' \in [Entries -> Key \cup {"none"}]
         /\ puller' \in [Entries -> Key \cup {"none"}]
         /\ UNCHANGED public => OnlyReviewedShows'
<1>1. /\ q.key \in Key \cup {"none"} /\ q.addr \in Addresses /\ q.status \in StatusGiven
      /\ Fits(q.op, q.addr)
  BY DEF Requests, Asking
<1>2. Meant(q.addr) \subseteq Entries /\ Versions \subseteq Entries
  BY DEF Meant, Entries, Reviewed
<1>3. RegistryApiTypeOK /\ OnlyReviewedShows
  BY DEF ApiInv
<1>4. CASE q.op \in {"register", "replace"} /\ Enters(q.addr, FirstStatus(q.addr, q.status), q.key)
  <2>1. q.addr \in Entries
    BY <1>1, <1>4 DEF Fits, Addresses, Entries, Reviewed, Versions
  <2>2. /\ FirstStatus(q.addr, q.status) \in {"absent", "pending", "approved", "rejected", "odd"}
        /\ public /\ q.addr \in Reviewed => FirstStatus(q.addr, q.status) # "approved"
    BY <1>1, <2>1, StatusesAre
  <2> QED
    BY <1>1, <1>3, <1>4, <2>1, <2>2, EntersFacts
<1>5. CASE q.op = "fork" /\ \E v \in Versions : ~ Present(v) /\ Enters(v, "pending", "none")
  BY <1>2, <1>3, <1>5, EntersFacts
<1>6. CASE q.op = "approve" /\ \E e \in Meant(q.addr) : Reviews(e, "approved", q.key)
  <2>1. ScopeFor(q.op, q.addr) = "review"
    BY <1>6 DEF ScopeFor
  <2>2. public => Holds(q.key, "review")
    BY <1>3, <2>1, HoldersMay DEF RegistryApiTypeOK
  <2> QED
    BY <1>1, <1>2, <1>3, <1>6, <2>2, ReviewsFacts
<1>7. CASE q.op = "reject" /\ \E e \in Meant(q.addr) : Reviews(e, "rejected", q.key)
  BY <1>1, <1>2, <1>3, <1>7, ReviewsFacts
<1>8. CASE q.op = "remove" /\ \E e \in Meant(q.addr) : Enters(e, "absent", "none")
  BY <1>2, <1>3, <1>8, EntersFacts
<1>9. CASE q.op = "sync" /\ \E brought \in SUBSET Listed : Pulls(brought, q.key)
  <2>1. ScopeFor(q.op, q.addr) = "write"
    BY <1>9 DEF ScopeFor
  <2>2. public => Holds(q.key, "write")
    BY <1>3, <2>1, HoldersMay DEF RegistryApiTypeOK
  <2> QED
    BY <1>1, <1>3, <1>9, <2>2, PullsFacts
<1> QED
  BY <1>4, <1>5, <1>6, <1>7, <1>8, <1>9 DEF Applies

(* A call is a call, whatever it is told *)
CallOK ==
  call' \in [Client -> [at : {"idle", "sent", "answered", "late"}, op : Operation \cup {"none"},
                        code : Codes, changed : BOOLEAN]]

LEMMA AnswersFacts ==
  ASSUME RegistryApiTypeOK, NEW c \in Client, NEW q \in Requests, NEW answer \in Codes,
         NEW change \in BOOLEAN, Answers(c, q, answer, change)
  PROVE  CallOK
<1>1. q.op \in Operation
  BY DEF Requests, Asking
<1>2. 0 \in Codes
  BY DEF Codes
<1> QED
  BY <1>1, <1>2 DEF Answers, CallOK, RegistryApiTypeOK, NoCall

LEMMA TypesAfterCall ==
  ASSUME ApiInv, UNCHANGED nodeVars, CallOK,
         state' \in [Entries -> {"absent", "pending", "approved", "rejected", "odd"}],
         submitter' \in [Entries -> Key \cup {"none", "someone"}],
         sender' \in [Entries -> Key \cup {"none"}], judge' \in [Entries -> Key \cup {"none"}],
         puller' \in [Entries -> Key \cup {"none"}],
         UNCHANGED public => OnlyReviewedShows'
  PROVE  ApiInv'
<1>1. UNCHANGED <<public, clock, alive, probed, lastAlive, view>>
  BY DEF nodeVars
<1>2. RegistryApiTypeOK'
  BY <1>1 DEF ApiInv, RegistryApiTypeOK, CallOK
<1>3. SeenAlive' /\ HealthIsRecent'
  BY <1>1 DEF ApiInv, SeenAlive, HealthIsRecent
<1> QED
  BY <1>1, <1>2, <1>3 DEF ApiInv

LEMMA EntriesStay ==
  ASSUME ApiInv, UNCHANGED entryVars
  PROVE  /\ state' \in [Entries -> {"absent", "pending", "approved", "rejected", "odd"}]
         /\ submitter' \in [Entries -> Key \cup {"none", "someone"}]
         /\ sender' \in [Entries -> Key \cup {"none"}] /\ judge' \in [Entries -> Key \cup {"none"}]
         /\ puller' \in [Entries -> Key \cup {"none"}]
         /\ UNCHANGED public => OnlyReviewedShows'
BY DEF ApiInv, RegistryApiTypeOK, entryVars, OnlyReviewedShows, Holds

LEMMA ServeKeeps ==
  ASSUME ApiInv, NEW c \in Client, NEW A, Serve(c, A)
  PROVE  ApiInv'
<1>1. RegistryApiTypeOK
  BY DEF ApiInv
<1>2. UNCHANGED nodeVars
  BY DEF Serve
<1> DEFINE refused(q) == KeyRefused(q.key, ScopeFor(q.op, q.addr))
           answer(q) == IF refused(q) # 0 THEN refused(q) ELSE CodeOf(q)
<1>3. PICK q \in Requests :
        IF q.op \in Writing /\ answer(q) \in {200, 201}
          THEN /\ Applies(q)
               /\ \/ Answers(c, q, answer(q), TRUE)
                  \/ Answers(c, q, IF q.addr = "skill" /\ q.op = "register" THEN 422 ELSE 500, TRUE)
          ELSE Answers(c, q, answer(q), FALSE) /\ UNCHANGED entryVars
  BY DEF Serve
<1>4. answer(q) \in Codes
  BY CodesAre
<1>5. 422 \in Codes /\ 500 \in Codes
  BY DEF Codes
<1>6. refused(q) \in {0, 401, 403}
  BY DEF KeyRefused
<1>7. CallOK
  <2> DEFINE failed == IF q.addr = "skill" /\ q.op = "register" THEN 422 ELSE 500
  <2>1. failed \in Codes
    BY <1>5
  <2>2. \/ Answers(c, q, answer(q), TRUE) \/ Answers(c, q, answer(q), FALSE)
        \/ Answers(c, q, failed, TRUE)
    BY <1>3
  <2> HIDE DEF answer, failed
  <2> QED
    BY <1>1, <1>4, <2>1, <2>2, AnswersFacts
<1>8. CASE q.op \in Writing /\ answer(q) \in {200, 201}
  <2>1. refused(q) = 0 /\ Applies(q)
    BY <1>3, <1>6, <1>8
  <2> QED
    BY <1>2, <1>7, <2>1, AppliesFacts, TypesAfterCall
<1>9. CASE ~ (q.op \in Writing /\ answer(q) \in {200, 201})
  <2>1. UNCHANGED entryVars
    BY <1>3, <1>9
  <2> QED
    BY <1>2, <1>7, <2>1, EntriesStay, TypesAfterCall
<1> QED
  BY <1>8, <1>9

LEMMA TurnsKeep ==
  ASSUME ApiInv, NEW c \in Client, NEW to \in {"idle", "sent", "late"}, Turns(c, to)
  PROVE  ApiInv'
<1>1. CallOK
  <2>1. [NoCall EXCEPT !.at = to] \in [at : {"idle", "sent", "answered", "late"},
                                     op : Operation \cup {"none"}, code : Codes, changed : BOOLEAN]
    <3> DEFINE kinds == [at : {"idle", "sent", "answered", "late"}, op : Operation \cup {"none"},
                         code : Codes, changed : BOOLEAN]
    <3>1. NoCall \in kinds
      BY DEF NoCall, Codes
    <3> QED
      BY <3>1
  <2> QED
    BY <2>1 DEF Turns, CallOK, ApiInv, RegistryApiTypeOK
<1>2. UNCHANGED <<entryVars, nodeVars>>
  BY DEF Turns
<1> QED
  BY <1>1, <1>2, EntriesStay, TypesAfterCall

LEMMA PassesKeeps == ASSUME ApiInv, Passes PROVE ApiInv'
<1>1. /\ clock < MaxClock /\ clock' = clock + 1
      /\ lastAlive' = [n \in Gn |-> IF alive[n] THEN clock + 1 ELSE lastAlive[n]]
      /\ UNCHANGED <<public, entryVars, call, alive, probed, view>>
  BY DEF Passes
<1>2. RegistryApiTypeOK
  BY DEF ApiInv
<1>3. clock \in Nat /\ clock + 1 \in 0 .. MaxClock
  BY <1>1, <1>2, ClockFacts DEF RegistryApiTypeOK
<1>4. \A n \in Gn : /\ lastAlive[n] \in Nat /\ probed[n].at \in Nat /\ view[n].at \in Nat
                    /\ alive[n] \in BOOLEAN
  BY <1>2, ClockFacts DEF RegistryApiTypeOK, Finding
<1>5. \A n \in Gn : lastAlive[n] <= lastAlive'[n] /\ lastAlive'[n] \in 0 .. MaxClock
  <2> SUFFICES ASSUME NEW n \in Gn
               PROVE  lastAlive[n] <= lastAlive'[n] /\ lastAlive'[n] \in 0 .. MaxClock
    OBVIOUS
  <2>1. lastAlive'[n] = IF alive[n] THEN clock + 1 ELSE lastAlive[n]
    BY <1>1
  <2>2. lastAlive[n] <= clock
    BY DEF ApiInv, SeenAlive
  <2>3. lastAlive[n] \in 0 .. MaxClock
    BY <1>2 DEF RegistryApiTypeOK
  <2> QED
    BY <1>3, <1>4, <2>1, <2>2, <2>3
<1>6. RegistryApiTypeOK'
  BY <1>1, <1>2, <1>3, <1>5 DEF RegistryApiTypeOK, entryVars
<1>7. SeenAlive'
  <2> SUFFICES ASSUME NEW n \in Gn
               PROVE  /\ lastAlive'[n] <= clock' /\ (alive[n] => lastAlive'[n] = clock')
                      /\ probed[n].known /\ probed[n].healthy => probed[n].at <= lastAlive'[n]
    BY <1>1 DEF SeenAlive
  <2>1. lastAlive'[n] = IF alive[n] THEN clock + 1 ELSE lastAlive[n]
    BY <1>1
  <2>2. lastAlive[n] <= clock /\ (probed[n].known /\ probed[n].healthy => probed[n].at <= lastAlive[n])
    BY DEF ApiInv, SeenAlive
  <2>3. lastAlive'[n] \in Nat
    BY <1>5, ClockFacts
  <2> QED
    BY <1>1, <1>3, <1>4, <1>5, <2>1, <2>2, <2>3
<1>8. HealthIsRecent'
  <2> SUFFICES ASSUME NEW n \in Gn, view[n].healthy
               PROVE  view[n].at - lastAlive'[n] < CacheTtl \/ lastAlive'[n] >= view[n].at
    BY <1>1 DEF HealthIsRecent
  <2>1. view[n].at - lastAlive[n] < CacheTtl \/ lastAlive[n] >= view[n].at
    BY DEF ApiInv, HealthIsRecent
  <2>2. lastAlive'[n] \in Nat
    BY <1>5, ClockFacts
  <2> QED
    BY <1>4, <1>5, <2>1, <2>2, ClockFacts
<1>9. OnlyReviewedShows'
  BY <1>1 DEF ApiInv, OnlyReviewedShows, Holds, entryVars
<1> QED
  BY <1>6, <1>7, <1>8, <1>9 DEF ApiInv

LEMMA FlipsKeeps == ASSUME ApiInv, NEW n \in Gn, NodeFlips(n) PROVE ApiInv'
<1>1. /\ alive' = [alive EXCEPT ![n] = ~ alive[n]] /\ lastAlive' = [lastAlive EXCEPT ![n] = clock]
      /\ UNCHANGED <<public, entryVars, call, clock, probed, view>>
  BY DEF NodeFlips
<1>2. RegistryApiTypeOK
  BY DEF ApiInv
<1>3. clock \in Nat /\ clock \in 0 .. MaxClock
  BY <1>2, ClockFacts DEF RegistryApiTypeOK
<1>4. \A m \in Gn : lastAlive[m] \in Nat /\ probed[m].at \in Nat /\ view[m].at \in Nat
  BY <1>2, ClockFacts DEF RegistryApiTypeOK, Finding
<1>5. RegistryApiTypeOK'
  <2>1. alive' \in [Gn -> BOOLEAN]
    BY <1>1, <1>2 DEF RegistryApiTypeOK
  <2>2. lastAlive' \in [Gn -> 0 .. MaxClock]
    BY <1>1, <1>2, <1>3 DEF RegistryApiTypeOK
  <2> QED
    BY <1>1, <1>2, <2>1, <2>2 DEF RegistryApiTypeOK, entryVars
<1>6. \A m \in Gn : /\ lastAlive'[m] = IF m = n THEN clock ELSE lastAlive[m]
                    /\ m # n => alive'[m] = alive[m]
                    /\ lastAlive[m] <= clock
  BY <1>1, <1>2 DEF RegistryApiTypeOK, ApiInv, SeenAlive
<1>7. SeenAlive'
  <2> SUFFICES ASSUME NEW m \in Gn
               PROVE  /\ lastAlive'[m] <= clock /\ (alive'[m] => lastAlive'[m] = clock)
                      /\ probed[m].known /\ probed[m].healthy => probed[m].at <= lastAlive'[m]
    BY <1>1 DEF SeenAlive
  <2>1. /\ lastAlive[m] <= clock /\ (alive[m] => lastAlive[m] = clock)
        /\ probed[m].known /\ probed[m].healthy => probed[m].at <= lastAlive[m]
    BY DEF ApiInv, SeenAlive
  <2> QED
    BY <1>3, <1>4, <1>6, <2>1
<1>8. HealthIsRecent'
  <2> SUFFICES ASSUME NEW m \in Gn, view[m].healthy
               PROVE  view[m].at - lastAlive'[m] < CacheTtl \/ lastAlive'[m] >= view[m].at
    BY <1>1 DEF HealthIsRecent
  <2>1. view[m].at - lastAlive[m] < CacheTtl \/ lastAlive[m] >= view[m].at
    BY DEF ApiInv, HealthIsRecent
  <2> QED
    BY <1>3, <1>4, <1>6, <2>1, ClockFacts
<1>9. OnlyReviewedShows'
  BY <1>1 DEF ApiInv, OnlyReviewedShows, Holds, entryVars
<1> QED
  BY <1>5, <1>7, <1>8, <1>9 DEF ApiInv

LEMMA ViewKeeps == ASSUME ApiInv, NEW n \in Gn, ViewNode(n) PROVE ApiInv'
<1>1. /\ view' = [view EXCEPT ![n] = [at |-> clock, healthy |-> probed'[n].healthy, known |-> TRUE]]
      /\ UNCHANGED <<public, entryVars, call, clock, alive, lastAlive>>
  BY DEF ViewNode
<1>2. RegistryApiTypeOK
  BY DEF ApiInv
<1>3. clock \in Nat /\ clock \in 0 .. MaxClock
  BY <1>2, ClockFacts DEF RegistryApiTypeOK
<1>4. \A m \in Gn : lastAlive[m] \in Nat /\ probed[m].at \in Nat /\ view[m].at \in Nat
  BY <1>2, ClockFacts DEF RegistryApiTypeOK, Finding
<1>5. /\ probed' \in [Gn -> Finding] /\ \A m \in Gn : m # n => probed'[m] = probed[m]
      /\ \/ StillGood(n) /\ probed'[n] = probed[n]
         \/ probed'[n].at = clock /\ probed'[n].known /\ (probed'[n].healthy => alive[n])
  <2>1. CASE StillGood(n) /\ UNCHANGED probed
    BY <1>2, <2>1 DEF RegistryApiTypeOK
  <2>2. ASSUME NEW ok \in BOOLEAN, Probe(n, ok)
        PROVE  /\ probed' \in [Gn -> Finding] /\ \A m \in Gn : m # n => probed'[m] = probed[m]
               /\ probed'[n].at = clock /\ probed'[n].known /\ (probed'[n].healthy => alive[n])
    <3>1. [at |-> clock, healthy |-> ok, known |-> TRUE] \in Finding
      BY <1>3 DEF Finding
    <3> QED
      BY <1>2, <2>2, <3>1 DEF Probe, RegistryApiTypeOK
  <2> QED
    BY <2>1, <2>2 DEF ViewNode
<1>6. view' \in [Gn -> Finding]
  <2>1. probed'[n].healthy \in BOOLEAN
    BY <1>5 DEF Finding
  <2>2. [at |-> clock, healthy |-> probed'[n].healthy, known |-> TRUE] \in Finding
    BY <1>3, <2>1 DEF Finding
  <2> QED
    BY <1>1, <1>2, <2>2 DEF RegistryApiTypeOK
<1>7. RegistryApiTypeOK'
  BY <1>1, <1>2, <1>5, <1>6 DEF RegistryApiTypeOK, entryVars
<1>8. SeenAlive'
  <2> SUFFICES ASSUME NEW m \in Gn
               PROVE  probed'[m].known /\ probed'[m].healthy => probed'[m].at <= lastAlive[m]
    BY <1>1 DEF ApiInv, SeenAlive
  <2>1. /\ probed[m].known /\ probed[m].healthy => probed[m].at <= lastAlive[m]
        /\ alive[m] => lastAlive[m] = clock
    BY DEF ApiInv, SeenAlive
  <2> QED
    BY <1>3, <1>5, <2>1
<1>9. HealthIsRecent'
  <2> SUFFICES ASSUME NEW m \in Gn, view'[m].healthy
               PROVE  view'[m].at - lastAlive[m] < CacheTtl \/ lastAlive[m] >= view'[m].at
    BY <1>1 DEF HealthIsRecent
  <2>1. CASE m # n
    BY <1>1, <1>2, <2>1 DEF ApiInv, HealthIsRecent, RegistryApiTypeOK
  <2>2. CASE m = n
    <3>1. view'[n].at = clock /\ probed'[n].healthy
      BY <1>1, <1>2, <2>2 DEF RegistryApiTypeOK
    <3>2. CASE StillGood(n) /\ probed'[n] = probed[n]
      <4>1. clock - probed[n].at < CacheTtl /\ probed[n].at <= lastAlive[n]
        BY <3>1, <3>2 DEF StillGood, ApiInv, SeenAlive
      <4> QED
        BY <1>3, <1>4, <2>2, <3>1, <4>1, ClockFacts
    <3>3. CASE probed'[n].at = clock /\ (probed'[n].healthy => alive[n])
      BY <1>3, <2>2, <3>1, <3>3 DEF ApiInv, SeenAlive
    <3> QED
      BY <1>5, <3>2, <3>3
  <2> QED
    BY <2>1, <2>2
<1>10. OnlyReviewedShows'
  BY <1>1 DEF ApiInv, OnlyReviewedShows, Holds, entryVars
<1> QED
  BY <1>7, <1>8, <1>9, <1>10 DEF ApiInv

LEMMA ApiStart == RegistryApiInit => ApiInv
<1> SUFFICES ASSUME RegistryApiInit
             PROVE  ApiInv
  OBVIOUS
<1>1. RegistryApiTypeOK
  <2>1. NoCall \in [at : {"idle", "sent", "answered", "late"}, op : Operation \cup {"none"},
                    code : Codes, changed : BOOLEAN]
    BY DEF NoCall, Codes
  <2>2. Unprobed \in Finding /\ 0 \in 0 .. MaxClock
    BY ClockFacts DEF Unprobed, Finding
  <2> QED
    BY <2>1, <2>2 DEF RegistryApiInit, RegistryApiTypeOK
<1>2. OnlyReviewedShows
  BY DEF RegistryApiInit, OnlyReviewedShows, Holds, Entries
<1>3. SeenAlive /\ HealthIsRecent
  BY DEF RegistryApiInit, SeenAlive, HealthIsRecent, Unprobed
<1> QED
  BY <1>1, <1>2, <1>3 DEF ApiInv

LEMMA ApiStepKeeps == ApiInv /\ [RegistryApiNext]_raVars => ApiInv'
<1> SUFFICES ASSUME ApiInv, [RegistryApiNext]_raVars
             PROVE  ApiInv'
  OBVIOUS
<1>1. ASSUME NEW c \in Client, Ask(c) \/ GiveUp(c) \/ Lost(c)
      PROVE  ApiInv'
  BY <1>1, TurnsKeep DEF Ask, GiveUp, Lost
<1>2. ASSUME NEW c \in Client, Serve(c, Addresses)
      PROVE  ApiInv'
  BY <1>2, ServeKeeps
<1>3. CASE Watching
  BY <1>3, PassesKeeps, ViewKeeps, FlipsKeeps DEF Watching
<1>4. CASE UNCHANGED raVars
  <2>1. UNCHANGED <<public, state, submitter, sender, judge, puller, call, clock, alive, probed, lastAlive, view>>
    BY <1>4 DEF raVars
  <2> QED
    BY <2>1 DEF ApiInv, RegistryApiTypeOK, OnlyReviewedShows, Holds, SeenAlive, HealthIsRecent
<1> QED
  BY <1>1, <1>2, <1>3, <1>4 DEF RegistryApiNext, ClientNext, ClientStep

(* What a registry shows and says of its nodes (registry/server.py) *)
THEOREM ApiInvariant == RegistryApiSpec => []ApiInv
BY ApiStart, ApiStepKeeps, PTL DEF RegistryApiSpec

(* A registry that takes submissions from the public shows nothing that nobody with the
   scope of a reviewer approved, but cards that somebody with the scope of a writer
   pulled from the peers, whatever is submitted, forked, replaced, reviewed, synced and
   removed in whatever order; and a node it calls healthy was alive not longer ago than
   an answer is kept (server.py, register, review, sync_peers, nodes, _probe_node) *)
THEOREM RegistryAnswersWell == RegistryApiSpec => []RegistryAnswers
<1>1. ApiInv => RegistryAnswers
  BY DEF ApiInv, RegistryAnswers
<1> QED
  BY <1>1, ApiInvariant, PTL
-----------------------------------------------------------------------------
(***************************************************************************)
(* Jobs at a service elsewhere, for any number of calls of each kind       *)
(***************************************************************************)
JobStates == {"open", "succeeded", "failed", "dismissed"}
Outcomes == {None, Success, Failure(TRUE), Failure(FALSE)}

(* Of one call: one that polls or collects has a job; what one that collects has seen of
   it is what became of it; and a success has a job behind it *)
DismissedIsOgc(c) == \A i \in 1 .. Len(jobs[c]) : jobs[c][i] = "dismissed" => Kind(c) = "ogc"
CallFits(c) ==
  /\ stage[c] = "idle" => attempt[c] = 0
  /\ stage[c] \in {"poll", "collect"} => jobs[c] # <<>>
  /\ stage[c] = "collect" => jobs[c][Len(jobs[c])] # "open"
  /\ stage[c] = "collect" /\ saw[c] => jobs[c][Len(jobs[c])] # "failed"
  /\ stage[c] = "ended" /\ result[c] = Success =>
       jobs[c] # <<>> /\ jobs[c][Len(jobs[c])] \in {"succeeded", "dismissed"}
  /\ DismissedIsOgc(c)

JobInv == JobTypeOK /\ \A c \in Call : CallFits(c)

LEMMA LastIs ==
  ASSUME NEW s \in Seq(JobStates), s # <<>>
  PROVE  /\ Len(s) \in 1 .. Len(s) /\ Last(s) = s[Len(s)] /\ s[Len(s)] \in JobStates
BY DEF Last

LEMMA AppendIs ==
  ASSUME NEW s \in Seq(JobStates), NEW x \in JobStates
  PROVE  /\ Append(s, x) \in Seq(JobStates) /\ Append(s, x) # <<>>
         /\ Append(s, x)[Len(Append(s, x))] = x
         /\ \A i \in 1 .. Len(Append(s, x)) : Append(s, x)[i] = x \/ (i \in 1 .. Len(s) /\ Append(s, x)[i] = s[i])
OBVIOUS

LEMMA ExceptIs ==
  ASSUME NEW s \in Seq(JobStates), NEW i \in DOMAIN s, NEW x \in JobStates
  PROVE  /\ [s EXCEPT ![i] = x] \in Seq(JobStates) /\ Len([s EXCEPT ![i] = x]) = Len(s)
         /\ s # <<>> /\ [s EXCEPT ![i] = x] # <<>>
         /\ \A j \in 1 .. Len(s) : [s EXCEPT ![i] = x][j] = IF j = i THEN x ELSE s[j]
OBVIOUS

LEMMA OutcomesDiffer ==
  /\ Failure(TRUE) # Success /\ Failure(FALSE) # Success /\ None # Success
  /\ Success.retryable = FALSE
BY DEF Failure, Success, None

LEMMA FailureIs ==
  ASSUME NEW P \in BOOLEAN
  PROVE  Failure(P) \in Outcomes /\ Failure(P) # Success
<1>1. CASE P = TRUE
  <2>1. Failure(P) = Failure(TRUE)
    BY <1>1
  <2> QED
    BY <2>1, OutcomesDiffer DEF Outcomes
<1>2. CASE P = FALSE
  <2>1. Failure(P) = Failure(FALSE)
    BY <1>2
  <2> QED
    BY <2>1, OutcomesDiffer DEF Outcomes
<1> QED
  BY <1>1, <1>2

(* A call that goes on, while the others stay where they are *)
LEMMA OneCallMoves ==
  ASSUME JobInv, NEW c \in Call,
         NEW st \in {"idle", "gate", "submit", "poll", "collect", "ended"}, stage' = [stage EXCEPT ![c] = st],
         NEW r \in Outcomes, result' = [result EXCEPT ![c] = r],
         NEW s \in BOOLEAN, saw' = [saw EXCEPT ![c] = s],
         jobs' \in [Call -> Seq(JobStates)], \A d \in Call \ {c} : jobs'[d] = jobs[d],
         NEW a \in 0 .. MaxAttempts, attempt' = [attempt EXCEPT ![c] = a],
         renewed' \in [Call -> BOOLEAN], audited' \in [Call -> BOOLEAN],
         tk' \in {"none", "good", "expired"}, answers' \in BOOLEAN, flips' \in 0 .. MaxFlips,
         CallFits(c)'
  PROVE  JobInv'
<1>1. JobTypeOK'
  BY DEF JobInv, JobTypeOK, JobStates, Outcomes
<1>2. ASSUME NEW d \in Call, d # c
      PROVE  CallFits(d)'
  <2>1. /\ stage'[d] = stage[d] /\ result'[d] = result[d] /\ saw'[d] = saw[d] /\ jobs'[d] = jobs[d]
         /\ attempt'[d] = attempt[d]
    BY <1>2 DEF JobInv, JobTypeOK
  <2> QED
    BY <2>1 DEF JobInv, CallFits, DismissedIsOgc
<1> QED
  BY <1>1, <1>2 DEF JobInv

LEMMA TypesOfCall ==
  ASSUME JobInv, NEW c \in Call
  PROVE  /\ stage[c] \in {"idle", "gate", "submit", "poll", "collect", "ended"}
         /\ result[c] \in Outcomes /\ saw[c] \in BOOLEAN /\ attempt[c] \in 0 .. MaxAttempts
         /\ jobs[c] \in Seq(JobStates) /\ jobs \in [Call -> Seq(JobStates)]
         /\ stage = [stage EXCEPT ![c] = stage[c]] /\ result = [result EXCEPT ![c] = result[c]]
         /\ saw = [saw EXCEPT ![c] = saw[c]] /\ attempt = [attempt EXCEPT ![c] = attempt[c]]
         /\ Audited(c) \in [Call -> BOOLEAN] /\ audited \in [Call -> BOOLEAN]
         /\ renewed \in [Call -> BOOLEAN]
         /\ tk \in {"none", "good", "expired"} /\ answers \in BOOLEAN /\ flips \in 0 .. MaxFlips
         /\ CallFits(c)
<1>1. /\ stage \in [Call -> {"idle", "gate", "submit", "poll", "collect", "ended"}]
      /\ result \in [Call -> Outcomes] /\ saw \in [Call -> BOOLEAN]
      /\ attempt \in [Call -> 0 .. MaxAttempts]
  BY DEF JobInv, JobTypeOK, Outcomes
<1>2. jobs \in [Call -> Seq(JobStates)]
  BY DEF JobInv, JobTypeOK, JobStates
<1>3. audited \in [Call -> BOOLEAN] /\ renewed \in [Call -> BOOLEAN]
  BY DEF JobInv, JobTypeOK
<1>4. Audited(c) \in [Call -> BOOLEAN]
  BY <1>3 DEF Audited
<1>5. tk \in {"none", "good", "expired"} /\ answers \in BOOLEAN /\ flips \in 0 .. MaxFlips
  BY DEF JobInv, JobTypeOK
<1>6. CallFits(c)
  BY DEF JobInv
<1> QED
  BY <1>1, <1>2, <1>3, <1>4, <1>5, <1>6

LEMMA BeginKeeps == ASSUME JobInv, NEW c \in Call, Begin(c) PROVE JobInv'
<1> DEFINE st == IF Kind(c) \in Models THEN "gate" ELSE "submit"
           a == attempt[c] + 1
<1>1. a \in 0 .. MaxAttempts
  <2>1. attempt[c] \in 0 .. MaxAttempts /\ MaxAttempts \in Nat \ {0}
    BY TypesOfCall, JobsAssumption
  <2>2. attempt[c] = 0 \/ attempt[c] < MaxAttempts
    BY TypesOfCall DEF Begin, MayRetry, CallFits
  <2> QED
    BY <2>1, <2>2
<1>2. st \in {"gate", "submit"}
  OBVIOUS
<1>3. /\ attempt' = [attempt EXCEPT ![c] = a] /\ stage' = [stage EXCEPT ![c] = st]
      /\ saw' = [saw EXCEPT ![c] = FALSE] /\ renewed' = [renewed EXCEPT ![c] = FALSE]
      /\ UNCHANGED <<jobs, result, tk, audited, answers, flips>>
  BY DEF Begin, Goto
<1> HIDE DEF st, a
<1>4. renewed' \in [Call -> BOOLEAN]
  BY <1>3, TypesOfCall
<1>5. stage'[c] = st
  BY <1>3 DEF JobInv, JobTypeOK
<1>6. CallFits(c)'
  BY <1>2, <1>3, <1>5, TypesOfCall DEF CallFits, DismissedIsOgc
<1> QED
  BY <1>1, <1>2, <1>3, <1>4, <1>6, TypesOfCall, OneCallMoves

(* The ends of an attempt: with a failure, or with a success that the job backs *)
LEMMA FailingKeeps ==
  ASSUME JobInv, NEW c \in Call, NEW P \in BOOLEAN, stage[c] # "idle", End(c, Failure(P)),
         UNCHANGED <<attempt, jobs, tk, answers, flips>>,
         NEW s \in BOOLEAN, saw' = [saw EXCEPT ![c] = s],
         renewed' \in [Call -> BOOLEAN], audited' \in [Call -> BOOLEAN]
  PROVE  JobInv'
<1>1. stage' = [stage EXCEPT ![c] = "ended"] /\ result' = [result EXCEPT ![c] = Failure(P)]
  BY DEF End, Goto
<1>2. Failure(P) \in Outcomes /\ Failure(P) # Success
  BY FailureIs
<1>3. stage'[c] = "ended" /\ result'[c] # Success
  BY <1>1, <1>2 DEF JobInv, JobTypeOK
<1>4. CallFits(c)'
  BY <1>3, TypesOfCall DEF CallFits, DismissedIsOgc
<1> QED
  BY <1>1, <1>2, <1>4, TypesOfCall, OneCallMoves

(* What an exception makes of an attempt depends on the kind of the call *)
LEMMA RaisedIs ==
  ASSUME NEW c \in Call
  PROVE  \E P \in BOOLEAN : Failure(Kind(c) \in Models) = Failure(P)
<1>1. CASE Kind(c) \in Models
  <2>1. (Kind(c) \in Models) = TRUE
    BY <1>1
  <2>2. Failure(Kind(c) \in Models) = Failure(TRUE)
    BY <2>1
  <2> QED
    BY <2>2
<1>2. CASE ~(Kind(c) \in Models)
  <2>1. (Kind(c) \in Models) = FALSE
    BY <1>2
  <2>2. Failure(Kind(c) \in Models) = Failure(FALSE)
    BY <2>1
  <2> QED
    BY <2>2
<1> QED
  BY <1>1, <1>2

LEMMA RaisingKeeps ==
  ASSUME JobInv, NEW c \in Call, stage[c] # "idle", Raise(c), UNCHANGED <<attempt, jobs, saw, tk, answers, flips>>,
         renewed' \in [Call -> BOOLEAN], audited' \in [Call -> BOOLEAN]
  PROVE  JobInv'
<1>1. saw' = [saw EXCEPT ![c] = saw[c]] /\ saw[c] \in BOOLEAN
  BY TypesOfCall
<1>2. PICK P \in BOOLEAN : Failure(Kind(c) \in Models) = Failure(P)
  BY RaisedIs
<1>3. End(c, Failure(P))
  BY <1>2 DEF Raise
<1> QED
  BY <1>1, <1>3, FailingKeeps

LEMMA PassGateKeeps == ASSUME JobInv, NEW c \in Call, PassGate(c) PROVE JobInv'
<1>1. CASE Goto(c, "submit") /\ UNCHANGED result
  <2>1. stage' = [stage EXCEPT ![c] = "submit"] /\ UNCHANGED <<result, attempt, jobs, saw, tk, renewed, audited, answers, flips>>
    BY <1>1 DEF PassGate, Goto
  <2>2. stage'[c] = "submit"
    BY <2>1 DEF JobInv, JobTypeOK
  <2>3. CallFits(c)'
    BY <2>1, <2>2, TypesOfCall DEF CallFits, DismissedIsOgc
  <2> QED
    BY <2>1, <2>3, TypesOfCall, OneCallMoves
<1>2. CASE End(c, Failure(FALSE))
  <2>1. saw' = [saw EXCEPT ![c] = saw[c]] /\ saw[c] \in BOOLEAN /\ UNCHANGED <<attempt, jobs, tk, answers, flips>>
        /\ renewed' \in [Call -> BOOLEAN] /\ audited' \in [Call -> BOOLEAN] /\ stage[c] # "idle"
    BY TypesOfCall DEF PassGate
  <2> QED
    BY <1>2, <2>1, FailingKeeps
<1> QED
  BY <1>1, <1>2 DEF PassGate

(* A step that leaves the call where it is *)
LEMMA StayingKeeps ==
  ASSUME JobInv, UNCHANGED <<stage, result, attempt, jobs, saw, audited>>,
         renewed' \in [Call -> BOOLEAN],
         tk' \in {"none", "good", "expired"}, answers' \in BOOLEAN, flips' \in 0 .. MaxFlips
  PROVE  JobInv'
<1>1. JobTypeOK'
  BY DEF JobInv, JobTypeOK
<1>2. \A d \in Call : CallFits(d)'
  BY DEF JobInv, CallFits, DismissedIsOgc
<1> QED
  BY <1>1, <1>2 DEF JobInv

LEMMA EnsureKeyKeeps == ASSUME JobInv, NEW c \in Call, EnsureKey(c) PROVE JobInv'
<1>1. /\ UNCHANGED <<attempt, jobs, saw, renewed, audited, answers, flips>>
      /\ renewed' \in [Call -> BOOLEAN] /\ audited' \in [Call -> BOOLEAN]
      /\ answers' \in BOOLEAN /\ flips' \in 0 .. MaxFlips /\ stage[c] # "idle"
  BY TypesOfCall DEF EnsureKey
<1>2. CASE tk' = "good" /\ UNCHANGED <<stage, result>>
  BY <1>1, <1>2, StayingKeeps
<1>3. CASE Raise(c) /\ UNCHANGED tk
  BY <1>1, <1>3, RaisingKeeps
<1> QED
  BY <1>2, <1>3 DEF EnsureKey

LEMMA RenewKeeps == ASSUME JobInv, NEW c \in Call, Renew(c) PROVE JobInv'
<1>1. /\ UNCHANGED <<attempt, jobs, saw, audited, answers, flips>> /\ audited' \in [Call -> BOOLEAN]
      /\ answers' \in BOOLEAN /\ flips' \in 0 .. MaxFlips /\ stage[c] # "idle"
  BY TypesOfCall DEF Renew
<1>2. CASE renewed[c] \/ ~answers
  <2>1. Raise(c) /\ UNCHANGED <<tk, renewed>> /\ renewed' \in [Call -> BOOLEAN]
    BY <1>2, TypesOfCall DEF Renew
  <2> QED
    BY <1>1, <2>1, RaisingKeeps
<1>3. CASE ~(renewed[c] \/ ~answers)
  <2>1. tk' = "none" /\ UNCHANGED <<stage, result>> /\ renewed' \in [Call -> BOOLEAN]
    BY <1>3, TypesOfCall DEF Renew
  <2> QED
    BY <1>1, <2>1, StayingKeeps
<1> QED
  BY <1>2, <1>3

(* A job is accepted, and the call goes on or ends *)
LEMMA AcceptedKeeps ==
  ASSUME JobInv, NEW c \in Call, NEW x \in {"open", "succeeded", "failed"}, Accepted(c, x),
         NEW st \in {"poll", "ended"}, stage' = [stage EXCEPT ![c] = st],
         NEW r \in Outcomes, result' = [result EXCEPT ![c] = r],
         r = Success /\ st = "ended" => x = "succeeded",
         UNCHANGED <<attempt, saw, tk, renewed, audited, answers, flips>>
  PROVE  JobInv'
<1> DEFINE js == Append(jobs[c], x)
<1>1. /\ jobs[c] \in Seq(JobStates) /\ x \in JobStates /\ jobs \in [Call -> Seq(JobStates)]
  BY TypesOfCall DEF JobStates
<1>2. /\ js \in Seq(JobStates) /\ js # <<>> /\ js[Len(js)] = x
      /\ \A i \in 1 .. Len(js) : js[i] = x \/ (i \in 1 .. Len(jobs[c]) /\ js[i] = jobs[c][i])
  BY <1>1, AppendIs
<1>3. jobs' = [jobs EXCEPT ![c] = js]
  BY <1>1 DEF Accepted
<1> HIDE DEF js
<1>4. /\ jobs' \in [Call -> Seq(JobStates)] /\ jobs'[c] = js /\ \A d \in Call \ {c} : jobs'[d] = jobs[d]
  BY <1>1, <1>2, <1>3
<1>5. stage'[c] = st /\ result'[c] = r
  BY DEF JobInv, JobTypeOK
<1>6. /\ stage'[c] # "idle" /\ stage'[c] # "collect" /\ jobs'[c] # <<>>
      /\ stage'[c] = "ended" /\ result'[c] = Success => jobs'[c][Len(jobs'[c])] = "succeeded"
  BY <1>2, <1>4, <1>5
<1>7. DismissedIsOgc(c)'
  <2>1. DismissedIsOgc(c)
    BY TypesOfCall DEF CallFits
  <2> QED
    BY <1>2, <1>4, <2>1 DEF DismissedIsOgc
<1>8. CallFits(c)'
  BY <1>6, <1>7 DEF CallFits
<1> QED
  BY <1>4, <1>8, TypesOfCall, OneCallMoves

LEMMA SubmitKeeps == ASSUME JobInv, NEW c \in Call, Submit(c) PROVE JobInv'
<1>1. /\ UNCHANGED <<attempt, saw, tk, renewed, audited, answers, flips>> /\ audited' \in [Call -> BOOLEAN]
      /\ renewed' \in [Call -> BOOLEAN] /\ saw' = [saw EXCEPT ![c] = saw[c]] /\ saw[c] \in BOOLEAN
      /\ result[c] \in Outcomes /\ result = [result EXCEPT ![c] = result[c]] /\ stage[c] # "idle"
  BY TypesOfCall DEF Submit
<1>2. Success \in Outcomes /\ Failure(FALSE) \in Outcomes /\ Failure(FALSE) # Success
  BY FailureIs DEF Outcomes
<1>3. CASE Accepted(c, "open") /\ Goto(c, "poll") /\ UNCHANGED result
  BY <1>1, <1>3, AcceptedKeeps DEF Goto
<1>4. CASE Accepted(c, "succeeded") /\ End(c, Success)
  BY <1>1, <1>2, <1>4, AcceptedKeeps DEF Goto, End
<1>5. CASE Accepted(c, "failed") /\ End(c, Failure(FALSE))
  BY <1>1, <1>2, <1>5, AcceptedKeeps DEF Goto, End
<1>6. CASE Accepted(c, "open") /\ Raise(c)
  <2> DEFINE r == Failure(Kind(c) \in Models)
  <2>1. r \in Outcomes /\ r # Success
    BY RaisedIs, FailureIs
  <2>2. result' = [result EXCEPT ![c] = r] /\ stage' = [stage EXCEPT ![c] = "ended"]
    BY <1>6 DEF Raise, End, Goto
  <2> HIDE DEF r
  <2> QED
    BY <1>1, <1>6, <2>1, <2>2, AcceptedKeeps
<1>7. CASE Raise(c) /\ UNCHANGED jobs
  BY <1>1, <1>7, RaisingKeeps
<1>8. CASE End(c, Failure(FALSE)) /\ UNCHANGED jobs
  BY <1>1, <1>8, FailingKeeps
<1> QED
  BY <1>3, <1>4, <1>5, <1>6, <1>7, <1>8 DEF Submit

LEMMA SeesIs ==
  ASSUME JobInv, NEW c \in Call, stage[c] \in {"poll", "collect"}
  PROVE  /\ jobs[c] # <<>> /\ Last(jobs[c]) = jobs[c][Len(jobs[c])]
         /\ Sees(c) # "nothing" => Sees(c) = jobs[c][Len(jobs[c])] /\ jobs[c][Len(jobs[c])] # "open"
<1>1. jobs[c] \in Seq(JobStates) /\ jobs[c] # <<>>
  BY TypesOfCall DEF CallFits, DismissedIsOgc
<1>2. Last(jobs[c]) = jobs[c][Len(jobs[c])]
  BY <1>1, LastIs
<1> QED
  BY <1>1, <1>2 DEF Sees

LEMMA PollKeeps == ASSUME JobInv, NEW c \in Call, Poll(c) PROVE JobInv'
<1> DEFINE s == Sees(c) # "failed"
<1>1. s \in BOOLEAN /\ saw' = [saw EXCEPT ![c] = s]
  BY DEF Poll
<1>2. /\ UNCHANGED <<attempt, jobs, tk, renewed, answers, flips>> /\ renewed' \in [Call -> BOOLEAN] /\ stage[c] # "idle"
      /\ result[c] \in Outcomes /\ result = [result EXCEPT ![c] = result[c]]
  BY TypesOfCall DEF Poll
<1>3. CASE Kind(c) \in {"oge", "ogc"} /\ Sees(c) = "failed"
  <2>1. End(c, Failure(FALSE)) /\ audited' \in [Call -> BOOLEAN]
    BY <1>3, TypesOfCall DEF Poll
  <2> HIDE DEF s
  <2> QED
    BY <1>1, <1>2, <2>1, FailingKeeps
<1>4. CASE ~(Kind(c) \in {"oge", "ogc"} /\ Sees(c) = "failed")
  <2>1. stage' = [stage EXCEPT ![c] = "collect"] /\ UNCHANGED <<result, audited>>
    BY <1>4 DEF Poll, Goto
  <2>2. /\ jobs[c] # <<>> /\ jobs[c][Len(jobs[c])] # "open"
        /\ s => jobs[c][Len(jobs[c])] # "failed"
    BY SeesIs DEF Poll
  <2> HIDE DEF s
  <2>3. stage'[c] = "collect" /\ saw'[c] = s
    BY <1>1, <2>1 DEF JobInv, JobTypeOK
  <2>4. CallFits(c)'
    BY <1>2, <2>2, <2>3, TypesOfCall DEF CallFits, DismissedIsOgc
  <2>5. audited' \in [Call -> BOOLEAN]
    BY <2>1, TypesOfCall
  <2> QED
    BY <1>1, <1>2, <2>1, <2>4, <2>5, TypesOfCall, OneCallMoves
<1> QED
  BY <1>3, <1>4

LEMMA TimeOutKeeps == ASSUME JobInv, NEW c \in Call, TimeOut(c) PROVE JobInv'
<1>1. /\ UNCHANGED <<attempt, jobs, tk, renewed, answers, flips>> /\ audited' \in [Call -> BOOLEAN]
      /\ renewed' \in [Call -> BOOLEAN] /\ saw' = [saw EXCEPT ![c] = saw[c]] /\ saw[c] \in BOOLEAN
      /\ stage[c] # "idle"
  BY TypesOfCall DEF TimeOut, MayTimeOut
<1>2. End(c, Failure(Kind(c) = "batch")) /\ (Kind(c) = "batch") \in BOOLEAN
  BY DEF TimeOut
<1> QED
  BY <1>1, <1>2, FailingKeeps

LEMMA PollBreaksKeeps == ASSUME JobInv, NEW c \in Call, PollBreaks(c) PROVE JobInv'
<1>1. /\ UNCHANGED <<attempt, jobs, saw, tk, answers, flips>> /\ stage[c] # "idle" /\ Raise(c)
      /\ renewed' \in [Call -> BOOLEAN] /\ audited' \in [Call -> BOOLEAN]
  BY TypesOfCall DEF PollBreaks
<1> QED
  BY <1>1, RaisingKeeps

LEMMA CollectKeeps == ASSUME JobInv, NEW c \in Call, Collect(c) PROVE JobInv'
<1>1. /\ UNCHANGED <<attempt, jobs, saw, tk, renewed, answers, flips>> /\ stage[c] = "collect"
      /\ renewed' \in [Call -> BOOLEAN] /\ saw' = [saw EXCEPT ![c] = saw[c]] /\ saw[c] \in BOOLEAN
      /\ audited' \in [Call -> BOOLEAN]
  BY TypesOfCall DEF Collect
<1>2. CASE saw[c] /\ \E again \in {FALSE, Kind(c) = "batch"} :
             End(c, IF saw[c] THEN Success ELSE Failure(again))
  <2>1. stage' = [stage EXCEPT ![c] = "ended"] /\ result' = [result EXCEPT ![c] = Success] /\ Success \in Outcomes
    BY <1>2 DEF End, Goto, Outcomes
  <2>2. jobs[c] \in Seq(JobStates) /\ jobs[c] # <<>> /\ jobs[c][Len(jobs[c])] \in JobStates
    BY <1>1, TypesOfCall, LastIs DEF CallFits, DismissedIsOgc
  <2>3. jobs[c][Len(jobs[c])] \in {"succeeded", "dismissed"}
    BY <1>1, <1>2, <2>2, TypesOfCall DEF CallFits, JobStates
  <2>4. stage'[c] = "ended"
    BY <2>1 DEF JobInv, JobTypeOK
  <2>5. DismissedIsOgc(c)'
    <3>1. DismissedIsOgc(c)
      BY TypesOfCall DEF CallFits
    <3> QED
      BY <1>1, <3>1 DEF DismissedIsOgc
  <2>6. CallFits(c)'
    BY <1>1, <2>2, <2>3, <2>4, <2>5 DEF CallFits
  <2> QED
    BY <1>1, <2>1, <2>6, TypesOfCall, OneCallMoves
<1>3. CASE ~saw[c] /\ \E again \in {FALSE, Kind(c) = "batch"} :
             End(c, IF saw[c] THEN Success ELSE Failure(again))
  <2>1. PICK again \in {FALSE, Kind(c) = "batch"} : End(c, Failure(again))
    BY <1>3
  <2>2. again \in BOOLEAN
    BY <2>1
  <2> QED
    BY <1>1, <2>1, <2>2, FailingKeeps
<1>4. CASE Raise(c)
  BY <1>1, <1>4, RaisingKeeps
<1>5. CASE End(c, Failure(FALSE))
  BY <1>1, <1>5, FailingKeeps
<1> QED
  BY <1>2, <1>3, <1>4, <1>5 DEF Collect

LEMMA FinishKeeps ==
  ASSUME JobInv, NEW c \in Call, NEW i \in DOMAIN jobs[c], Finish(c, i)
  PROVE  JobInv'
<1>1. PICK x \in {"succeeded", "failed", "dismissed"} :
        (x = "dismissed" => Kind(c) = "ogc") /\ jobs' = [jobs EXCEPT ![c][i] = x]
  BY DEF Finish
<1> DEFINE js == [jobs[c] EXCEPT ![i] = x]
<1>2. /\ jobs[c] \in Seq(JobStates) /\ x \in JobStates /\ jobs \in [Call -> Seq(JobStates)]
      /\ jobs[c][i] = "open" /\ UNCHANGED <<stage, attempt, result, saw, tk, renewed, audited, answers, flips>>
  BY TypesOfCall DEF JobStates, Finish
<1>3. /\ js \in Seq(JobStates) /\ Len(js) = Len(jobs[c]) /\ jobs[c] # <<>> /\ js # <<>>
      /\ \A j \in 1 .. Len(jobs[c]) : js[j] = IF j = i THEN x ELSE jobs[c][j]
  BY <1>2, ExceptIs
<1>4. jobs' = [jobs EXCEPT ![c] = js]
  BY <1>1, <1>2
<1> HIDE DEF js
<1>5. /\ jobs' \in [Call -> Seq(JobStates)] /\ jobs'[c] = js /\ \A d \in Call \ {c} : jobs'[d] = jobs[d]
  BY <1>2, <1>3, <1>4
<1>6. Len(jobs[c]) \in 1 .. Len(jobs[c])
  BY <1>2, <1>3, LastIs
<1>7. jobs[c][Len(jobs[c])] # "open" => js[Len(js)] = jobs[c][Len(jobs[c])]
  BY <1>2, <1>3, <1>6
<1>8. CallFits(c)'
  <2>1. /\ stage'[c] = "idle" => attempt'[c] = 0
        /\ stage'[c] \in {"poll", "collect"} => jobs'[c] # <<>>
    BY <1>2, <1>3, <1>5, TypesOfCall DEF CallFits, DismissedIsOgc
  <2>2. /\ stage'[c] = "collect" => jobs'[c][Len(jobs'[c])] # "open"
        /\ stage'[c] = "collect" /\ saw'[c] => jobs'[c][Len(jobs'[c])] # "failed"
    BY <1>2, <1>5, <1>7, TypesOfCall DEF CallFits, DismissedIsOgc
  <2>3. stage'[c] = "ended" /\ result'[c] = Success =>
          jobs'[c] # <<>> /\ jobs'[c][Len(jobs'[c])] \in {"succeeded", "dismissed"}
    BY <1>2, <1>3, <1>5, <1>7, TypesOfCall DEF CallFits, DismissedIsOgc
  <2>4. DismissedIsOgc(c)'
    <3>1. DismissedIsOgc(c)
      BY TypesOfCall DEF CallFits
    <3> QED
      BY <1>1, <1>3, <1>5, <3>1 DEF DismissedIsOgc
  <2> QED
    BY <2>1, <2>2, <2>3, <2>4 DEF CallFits
<1>9. /\ stage[c] \in {"idle", "gate", "submit", "poll", "collect", "ended"} /\ stage' = [stage EXCEPT ![c] = stage[c]]
      /\ result[c] \in Outcomes /\ result' = [result EXCEPT ![c] = result[c]]
      /\ saw[c] \in BOOLEAN /\ saw' = [saw EXCEPT ![c] = saw[c]]
      /\ attempt[c] \in 0 .. MaxAttempts /\ attempt' = [attempt EXCEPT ![c] = attempt[c]]
  BY <1>2, TypesOfCall
<1>10. /\ renewed' \in [Call -> BOOLEAN] /\ audited' \in [Call -> BOOLEAN]
       /\ tk' \in {"none", "good", "expired"} /\ answers' \in BOOLEAN /\ flips' \in 0 .. MaxFlips
  BY <1>2, TypesOfCall
<1> QED
  BY <1>5, <1>8, <1>9, <1>10, OneCallMoves

LEMMA ServiceKeeps == ASSUME JobInv, Flip \/ Expire PROVE JobInv'
<1>1. flips \in 0 .. MaxFlips /\ flips < MaxFlips /\ MaxFlips \in Nat /\ flips' = flips + 1
  BY JobsAssumption DEF JobInv, JobTypeOK, Flip, Expire
<1>2. flips' \in 0 .. MaxFlips
  BY <1>1
<1>3. /\ UNCHANGED <<stage, result, attempt, jobs, saw, audited>> /\ renewed' \in [Call -> BOOLEAN]
      /\ tk' \in {"none", "good", "expired"} /\ answers' \in BOOLEAN
  BY DEF JobInv, JobTypeOK, Flip, Expire
<1> QED
  BY <1>2, <1>3, StayingKeeps

LEMMA JobStart == JobInit => JobInv
<1> SUFFICES ASSUME JobInit PROVE JobInv
  OBVIOUS
<1>1. MaxAttempts \in Nat \ {0} /\ MaxFlips \in Nat
  BY JobsAssumption
<1>2. <<>> \in Seq(JobStates) /\ Len(<<>>) = 0
  OBVIOUS
<1>3. JobTypeOK
  BY <1>1, <1>2 DEF JobInit, JobTypeOK, JobStates
<1>4. \A c \in Call : CallFits(c)
  BY <1>2 DEF JobInit, CallFits, DismissedIsOgc
<1> QED
  BY <1>3, <1>4 DEF JobInv

LEMMA JobStepKeeps == ASSUME JobInv, [JobNext]_jobVars PROVE JobInv'
<1>1. CASE UNCHANGED jobVars
  <2>1. JobTypeOK'
    BY <1>1 DEF JobInv, JobTypeOK, jobVars
  <2>2. \A c \in Call : CallFits(c)'
    BY <1>1 DEF JobInv, CallFits, DismissedIsOgc, jobVars
  <2> QED
    BY <2>1, <2>2 DEF JobInv
<1>2. ASSUME NEW c \in Call, CallStep(c) PROVE JobInv'
  BY <1>2, BeginKeeps, PassGateKeeps, EnsureKeyKeeps, RenewKeeps, SubmitKeeps, PollKeeps, TimeOutKeeps,
     PollBreaksKeeps, CollectKeeps DEF CallStep
<1>3. ASSUME NEW c \in Call, NEW i \in DOMAIN jobs[c], Finish(c, i) PROVE JobInv'
  BY <1>3, FinishKeeps
<1> QED
  BY <1>1, <1>2, <1>3, ServiceKeeps DEF JobNext, JobStep

(* JobInv holds of every run of the calls: the types, and what a call's stage says of
   its last job *)
THEOREM JobInvariant == JobSpec => []JobInv
<1>1. JobInv /\ [JobNext]_jobVars => JobInv'
  BY JobStepKeeps
<1> QED
  BY <1>1, JobStart, PTL DEF JobSpec

(* What a call reports has a job behind it *)
LEMMA BackedOutcomes == JobInv => OutcomeIsBacked
<1> SUFFICES ASSUME JobInv, NEW c \in Call, stage[c] = "ended", result[c] = Success
             PROVE  /\ jobs[c] # <<>>
                    /\ Last(jobs[c]) = "succeeded" \/ (Kind(c) = "ogc" /\ Last(jobs[c]) = "dismissed")
  BY DEF OutcomeIsBacked
<1>1. jobs[c] \in Seq(JobStates) /\ jobs[c] # <<>> /\ jobs[c][Len(jobs[c])] \in {"succeeded", "dismissed"}
  BY TypesOfCall DEF CallFits, DismissedIsOgc
<1>2. Last(jobs[c]) = jobs[c][Len(jobs[c])] /\ Len(jobs[c]) \in 1 .. Len(jobs[c])
  BY <1>1, LastIs
<1>3. DismissedIsOgc(c)
  BY TypesOfCall DEF CallFits
<1> QED
  BY <1>1, <1>2, <1>3 DEF DismissedIsOgc

(* A call reports success only if the job it submitted last has succeeded, or, at an
   OGC service, was dismissed: however often the task's retry rule submitted the same
   work before, and whatever was accepted and never answered
   (model/batch.py, oge_executor.py, ogc_exec.py) *)
THEOREM OutcomesAreBacked == JobSpec => []OutcomeIsBacked
<1>1. JobInv => OutcomeIsBacked
  BY BackedOutcomes
<1> QED
  BY <1>1, JobInvariant, PTL

-----------------------------------------------------------------------------
(***************************************************************************)
(* A plan and its repair, for any steps, dependencies and advice           *)
(***************************************************************************)
(* What is over has been settled, and what is settled is no longer pending *)
SettledFits ==
  /\ phase = "first pass" =>
       \A s \in Step : /\ status[s] \in {"done", "skipped"} => s \in settled
                       /\ s \in settled => status[s] # "pending"
  /\ phase = "reflecting" => \A s \in Step : status[s] # "pending"

PlanInv == PlanTypeOK /\ SettledFits

(* Of the first pass of the first run: nobody has given advice yet *)
NoAdvice == uses = Uses /\ filled /\ \A s \in Step : status[s] # "skipped" /\ (status[s] = "done" => has[s])
FirstRun ==
  /\ runs = 0 => phase = "idle" /\ NoAdvice /\ \A s \in Step : status[s] = "pending"
  /\ runs <= 1 /\ phase = "first pass" => NoAdvice

(* A template asks for the output of other steps only *)
NoSelfTemplates == \A s \in Step : s \notin Uses[s]

LEMMA PlanStart == PlanInit => PlanInv /\ FirstRun
<1> SUFFICES ASSUME PlanInit PROVE PlanInv /\ FirstRun
  OBVIOUS
<1>1. MaxReflections \in Nat /\ MaxRuns \in Nat /\ Uses \in [Step -> SUBSET Nat]
  BY PlanAssumption
<1>2. PlanTypeOK
  BY <1>1 DEF PlanInit, PlanTypeOK
<1> QED
  BY <1>2 DEF PlanInit, PlanInv, SettledFits, FirstRun, NoAdvice

(* A step's run leaves a status and, if it went well, a result *)
LEMMA CallIs ==
  ASSUME PlanTypeOK, NEW s \in Step, CallSkill(s)
  PROVE  /\ status' \in [Step -> {"pending", "done", "failed", "skipped"}] /\ has' \in [Step -> BOOLEAN]
         /\ called' = {s} /\ called' \subseteq Step
         /\ status'[s] \in {"done", "failed"} /\ \A t \in Step : t # s => status'[t] = status[t] /\ has'[t] = has[t]
         /\ status'[s] = "done" => has'[s]
BY DEF CallSkill, PlanTypeOK

LEMMA RunStepIs ==
  ASSUME PlanTypeOK, NEW s \in Step, RunStep(s)
  PROVE  /\ status' \in [Step -> {"pending", "done", "failed", "skipped"}] /\ has' \in [Step -> BOOLEAN]
         /\ filled' \in BOOLEAN /\ called' = {s} /\ called' \subseteq Step
         /\ status'[s] \in {"done", "failed"} /\ \A t \in Step : t # s => status'[t] = status[t] /\ has'[t] = has[t]
         /\ status'[s] = "done" => has'[s]
<1>1. filled' \in BOOLEAN /\ CallSkill(s)
  BY DEF RunStep, PlanTypeOK
<1> QED
  BY <1>1, CallIs

LEMMA StartPlanKeeps == ASSUME PlanInv, StartPlan PROVE PlanInv'
<1>1. runs \in 0 .. MaxRuns /\ MaxRuns \in Nat /\ MaxReflections \in Nat /\ runs < MaxRuns
      /\ runs' = runs + 1 /\ rounds' = 0
  <2>1. runs < MaxRuns /\ runs' = runs + 1 /\ rounds' = 0
    BY DEF StartPlan
  <2> QED
    BY <2>1, PlanAssumption DEF PlanInv, PlanTypeOK
<1>2. runs' \in 0 .. MaxRuns /\ rounds' \in 0 .. MaxReflections
  BY <1>1
<1>3. PlanTypeOK'
  BY <1>2 DEF PlanInv, PlanTypeOK, StartPlan, Preloaded
<1>4. SettledFits'
  BY DEF StartPlan, SettledFits, Preloaded
<1> QED
  BY <1>3, <1>4 DEF PlanInv

LEMMA RunReadyKeeps == ASSUME PlanInv, NEW s \in Step, RunReady(s) PROVE PlanInv'
<1>1. PlanTypeOK'
  BY RunStepIs DEF PlanInv, PlanTypeOK, RunReady
<1>2. SettledFits'
  BY RunStepIs DEF PlanInv, SettledFits, RunReady
<1> QED
  BY <1>1, <1>2 DEF PlanInv

LEMMA FailBlockedKeeps == ASSUME PlanInv, NEW s \in Step, FailBlocked(s) PROVE PlanInv'
<1>1. PlanTypeOK'
  BY DEF PlanInv, PlanTypeOK, FailBlocked
<1>2. SettledFits'
  BY DEF PlanInv, PlanTypeOK, SettledFits, FailBlocked
<1> QED
  BY <1>1, <1>2 DEF PlanInv

LEMMA EndsKeep == ASSUME PlanInv, EndFirstPass \/ EndRun PROVE PlanInv'
<1>1. PlanTypeOK'
  BY DEF PlanInv, PlanTypeOK, EndFirstPass, EndRun
<1>2. SettledFits'
  BY DEF PlanInv, PlanTypeOK, SettledFits, EndFirstPass, EndRun
<1> QED
  BY <1>1, <1>2 DEF PlanInv

LEMMA ReflectKeeps == ASSUME PlanInv, NEW s \in Step, Reflect(s) PROVE PlanInv'
<1>1. rounds' \in 0 .. MaxReflections /\ UNCHANGED <<settled, runs>> /\ phase = "reflecting"
  <2>1. rounds \in 0 .. MaxReflections /\ rounds < MaxReflections /\ MaxReflections \in Nat /\ rounds' = rounds + 1
    BY PlanAssumption DEF PlanInv, PlanTypeOK, Reflect
  <2> QED
    BY <2>1 DEF Reflect
<1>2. CASE phase' = "idle" /\ called' = {} /\ UNCHANGED <<status, has, uses, filled>>
  BY <1>1, <1>2 DEF PlanInv, PlanTypeOK, SettledFits
<1>3. CASE status' = [status EXCEPT ![s] = "skipped"] /\ called' = {} /\ UNCHANGED <<has, uses, phase, filled>>
  BY <1>1, <1>3 DEF PlanInv, PlanTypeOK, SettledFits
<1>4. CASE RunStep(s) /\ UNCHANGED <<uses, phase>>
  BY <1>1, <1>4, RunStepIs DEF PlanInv, PlanTypeOK, SettledFits
<1>5. CASE uses' = [uses EXCEPT ![s] = {}] /\ CallSkill(s) /\ UNCHANGED <<phase, filled>>
  BY <1>1, <1>5, CallIs DEF PlanInv, PlanTypeOK, SettledFits
<1> QED
  BY <1>2, <1>3, <1>4, <1>5 DEF Reflect

LEMMA PlanStepKeeps == ASSUME PlanInv, [PlanNext]_planVars PROVE PlanInv'
<1>1. CASE UNCHANGED planVars
  BY <1>1 DEF PlanInv, PlanTypeOK, SettledFits, planVars
<1> QED
  BY <1>1, StartPlanKeeps, RunReadyKeeps, FailBlockedKeeps, EndsKeep, ReflectKeeps DEF PlanNext, PlanStepAction

(* PlanInv holds of every run of a plan: types, and what a status says of the pass *)
THEOREM PlanInvariant == PlanSpec => []PlanInv
<1>1. PlanInv /\ [PlanNext]_planVars => PlanInv'
  BY PlanStepKeeps
<1> QED
  BY <1>1, PlanStart, PTL DEF PlanSpec

(* Whatever is called, is called in order, and once it is done nothing undoes it *)
LEMMA OrderIsKept == ASSUME PlanInv, [PlanNext]_planVars PROVE [RepairKeepsOrder]_planVars
<1> SUFFICES ASSUME PlanNext PROVE RepairKeepsOrder
  OBVIOUS
<1>1. ASSUME NEW s \in Step, status[s] \notin {"done", "skipped"}, called' = {s},
             \A d \in DependsOn[s] \cap Step : status[d] \in {"done", "skipped"},
             \A t \in Step : t # s => status'[t] = status[t]
      PROVE  RepairKeepsOrder
  BY <1>1 DEF RepairKeepsOrder
<1>2. ASSUME NEW s \in Step, called' = {}, status[s] # "done", \A t \in Step : t # s => status'[t] = status[t]
      PROVE  RepairKeepsOrder
  BY <1>2 DEF RepairKeepsOrder
<1>3. ASSUME NEW s \in Step, RunReady(s) PROVE RepairKeepsOrder
  <2>1. /\ s \notin settled /\ phase = "first pass" /\ RunStep(s)
        /\ \A d \in EffectiveDeps(s) : status[d] \in {"done", "skipped"}
    BY <1>3 DEF RunReady
  <2>2. DependsOn[s] \cap Step \subseteq EffectiveDeps(s)
    BY DEF EffectiveDeps
  <2>3. status[s] \notin {"done", "skipped"}
    BY <2>1 DEF PlanInv, SettledFits
  <2> QED
    BY <1>1, <2>1, <2>2, <2>3, RunStepIs DEF PlanInv
<1>4. ASSUME NEW s \in Step, Reflect(s) PROVE RepairKeepsOrder
  <2>1. phase = "reflecting" /\ s \in Repairable
    BY <1>4 DEF Reflect, First
  <2>2. status[s] = "failed" /\ \A d \in DependsOn[s] \cap Step : status[d] \in {"done", "skipped"}
    BY <2>1 DEF Repairable, PlanInv, PlanTypeOK, SettledFits
  <2>3. CASE CallSkill(s)
    BY <1>1, <2>2, <2>3, CallIs DEF PlanInv
  <2>4. CASE called' = {} /\ (status' = status \/ status' = [status EXCEPT ![s] = "skipped"])
    BY <1>2, <2>2, <2>4 DEF PlanInv, PlanTypeOK
  <2> QED
    BY <1>4, <2>3, <2>4 DEF Reflect, RunStep
<1>5. ASSUME NEW s \in Step, FailBlocked(s) PROVE RepairKeepsOrder
  <2>1. s \notin settled /\ phase = "first pass" /\ status' = [status EXCEPT ![s] = "failed"] /\ called' = {}
    BY <1>5 DEF FailBlocked
  <2>2. status[s] # "done"
    BY <2>1 DEF PlanInv, SettledFits
  <2> QED
    BY <1>2, <2>1, <2>2 DEF PlanInv, PlanTypeOK
<1>6. CASE StartPlan \/ EndFirstPass \/ EndRun
  <2>1. called' = {} /\ status' = status
    BY <1>6 DEF StartPlan, EndFirstPass, EndRun
  <2> QED
    BY <2>1 DEF RepairKeepsOrder
<1> QED
  BY <1>3, <1>4, <1>5, <1>6 DEF PlanNext, PlanStepAction

(* In the first pass of the first run a step finds what its templates ask for *)
LEMMA FirstRunKeeps == ASSUME NoSelfTemplates, PlanInv, FirstRun, [PlanNext]_planVars PROVE FirstRun'
<1>1. CASE StartPlan
  <2>1. runs' = runs + 1 /\ UNCHANGED <<status, has, uses, filled>>
    BY <1>1 DEF StartPlan
  <2>2. runs \in Nat
    <3>1. runs \in 0 .. MaxRuns /\ MaxRuns \in Nat
      BY PlanAssumption DEF PlanInv, PlanTypeOK
    <3> QED
      BY <3>1
  <2>3. runs' # 0 /\ (runs' <= 1 => runs = 0)
    BY <2>1, <2>2
  <2>4. NoAdvice => NoAdvice'
    BY <2>1 DEF NoAdvice
  <2> QED
    BY <2>3, <2>4 DEF FirstRun
<1>2. ASSUME NEW s \in Step, RunReady(s) PROVE FirstRun'
  <2>1. UNCHANGED <<uses, phase, runs>> /\ RunStep(s) /\ phase = "first pass"
    BY <1>2 DEF RunReady
  <2>2. ASSUME runs <= 1 PROVE NoAdvice'
    <3>1. NoAdvice
      BY <2>1, <2>2 DEF FirstRun
    <3>2. \A d \in uses[s] \cap Step : has[d]
      <4>1. uses[s] \cap Step \subseteq EffectiveDeps(s) /\ EffectiveDeps(s) \subseteq Step
        BY <3>1 DEF EffectiveDeps, NoSelfTemplates, NoAdvice
      <4> QED
        BY <1>2, <3>1, <4>1 DEF RunReady, NoAdvice
    <3>3. filled'
      BY <2>1, <3>1, <3>2 DEF RunStep, NoAdvice
    <3>4. \A t \in Step : status'[t] # "skipped" /\ (status'[t] = "done" => has'[t])
      BY <2>1, <3>1, RunStepIs DEF NoAdvice, PlanInv
    <3> QED
      BY <2>1, <3>1, <3>3, <3>4 DEF NoAdvice
  <2> QED
    BY <2>1, <2>2 DEF FirstRun
<1>3. ASSUME NEW s \in Step, FailBlocked(s) PROVE FirstRun'
  <2>1. UNCHANGED <<uses, phase, runs, has, filled>> /\ phase = "first pass" /\ status' = [status EXCEPT ![s] = "failed"]
    BY <1>3 DEF FailBlocked
  <2> QED
    BY <2>1 DEF FirstRun, NoAdvice, PlanInv, PlanTypeOK
<1>4. CASE EndFirstPass \/ EndRun
  BY <1>4 DEF EndFirstPass, EndRun, FirstRun
<1>5. ASSUME NEW s \in Step, Reflect(s) PROVE FirstRun'
  <2>1. phase = "reflecting" /\ runs' = runs /\ phase' \in {"idle", "reflecting"}
    BY <1>5 DEF Reflect
  <2> QED
    BY <2>1 DEF FirstRun
<1>6. CASE UNCHANGED planVars
  BY <1>6 DEF FirstRun, NoAdvice, planVars
<1> QED
  BY <1>1, <1>2, <1>3, <1>4, <1>5, <1>6 DEF PlanNext, PlanStepAction

(* What Below is: the table after n steps follows from the one before *)
BelowFn ==
  CHOOSE f : f = [n \in Nat |->
    [s \in Step |-> {s} \cup IF n = 0 THEN {} ELSE UNION {f[n - 1][d] : d \in EffectiveDeps(s)}]]

LEMMA BelowIs == Below = BelowFn
BY DEF Below, BelowFn

(* The dependencies of n + 1 steps are those of n steps of each dependency *)
LEMMA BelowSteps ==
  /\ \A s \in Step : Below[0][s] = {s}
  /\ \A n \in Nat : \A s \in Step :
       Below[n + 1][s] = {s} \cup UNION {Below[n][d] : d \in EffectiveDeps(s)}
<1> DEFINE V == [Step -> SUBSET Step]
           On(v, s) == {s} \cup UNION {v[d] : d \in EffectiveDeps(s)}
           F == [v \in V |-> [s \in Step |-> On(v, s)]]
           b == [s \in Step |-> {s}]
           f == BelowFn
<1>1. \A s \in Step : EffectiveDeps(s) \subseteq Step
  BY DEF EffectiveDeps
<1>2. b \in V /\ F \in [V -> V]
  <2>1. \A v \in V, s \in Step : On(v, s) \in SUBSET Step
    BY <1>1
  <2> HIDE DEF On
  <2> QED
    BY <2>1
<1>3. PICK g \in [Nat -> V] : g[0] = b /\ \A i \in Nat : g[i + 1] = F[g[i]]
  <2> HIDE DEF V, F, b
  <2> QED
    BY <1>2, RepeatsExist
<1>4. \A n \in Nat : g[n] = [s \in Step |-> {s} \cup
                               IF n = 0 THEN {} ELSE UNION {g[n - 1][d] : d \in EffectiveDeps(s)}]
  <2> SUFFICES ASSUME NEW n \in Nat
               PROVE  g[n] = [s \in Step |-> {s} \cup
                                IF n = 0 THEN {} ELSE UNION {g[n - 1][d] : d \in EffectiveDeps(s)}]
    OBVIOUS
  <2>1. CASE n = 0
    BY <1>3, <2>1
  <2>2. CASE n # 0
    <3>1. n - 1 \in Nat /\ (n - 1) + 1 = n
      BY <2>2
    <3>2. g[n] = F[g[n - 1]] /\ g[n - 1] \in V
      <4> HIDE DEF V, F, b
      <4> QED
        BY <1>3, <3>1
    <3>3. F[g[n - 1]] = [t \in Step |-> On(g[n - 1], t)]
      <4> HIDE DEF V, On
      <4> QED
        BY <3>2
    <3> HIDE DEF F, V, b
    <3> QED
      BY <2>2, <3>2, <3>3
  <2> QED
    BY <2>1, <2>2
<1> HIDE DEF V, F, b, f
<1>5. g = [n \in Nat |-> [s \in Step |-> {s} \cup
             IF n = 0 THEN {} ELSE UNION {g[n - 1][d] : d \in EffectiveDeps(s)}]]
  BY <1>3, <1>4
<1>6. f = [n \in Nat |-> [s \in Step |-> {s} \cup
             IF n = 0 THEN {} ELSE UNION {f[n - 1][d] : d \in EffectiveDeps(s)}]]
  <2> DEFINE P(h) == h = [n \in Nat |-> [s \in Step |-> {s} \cup
                            IF n = 0 THEN {} ELSE UNION {h[n - 1][d] : d \in EffectiveDeps(s)}]]
  <2>1. f = CHOOSE h : P(h)
    BY DEF f, BelowFn
  <2>2. P(g)
    BY <1>5
  <2> HIDE DEF P
  <2>3. P(f)
    BY <2>1, <2>2
  <2> QED
    BY <2>3 DEF P
<1>7. \A n \in Nat : \A s \in Step :
        f[n][s] = {s} \cup IF n = 0 THEN {} ELSE UNION {f[n - 1][d] : d \in EffectiveDeps(s)}
  <2> DEFINE Row(n) == [s \in Step |-> {s} \cup
                          IF n = 0 THEN {} ELSE UNION {f[n - 1][d] : d \in EffectiveDeps(s)}]
  <2>1. \A n \in Nat : f[n] = Row(n)
    <3>1. f = [n \in Nat |-> Row(n)]
      BY <1>6
    <3> HIDE DEF Row
    <3> QED
      BY <3>1
  <2> QED
    BY <2>1
<1>8. \A n \in Nat : n + 1 \in Nat /\ n + 1 # 0 /\ (n + 1) - 1 = n
  OBVIOUS
<1>9. /\ \A s \in Step : f[0][s] = {s}
      /\ \A n \in Nat : \A s \in Step :
           f[n + 1][s] = {s} \cup UNION {f[n][d] : d \in EffectiveDeps(s)}
  BY <1>7, <1>8
<1> QED
  BY <1>9, BelowIs DEF f

(* More steps lead to more *)
LEMMA BelowGrows ==
  ASSUME NEW n \in Nat
  PROVE  \A m \in Nat : n <= m => \A s \in Step : Below[n][s] \subseteq Below[m][s]
<1> DEFINE D == {k \in Nat : \A s \in Step : Below[k][s] \subseteq Below[k + 1][s]}
           M == {k \in Nat : \A s \in Step : Below[n][s] \subseteq Below[n + k][s]}
<1>1. \A s \in Step : EffectiveDeps(s) \subseteq Step
  BY DEF EffectiveDeps
<1>2. 0 \in D
  <2>1. \A s \in Step : Below[0][s] = {s} /\ s \in Below[0 + 1][s]
    BY BelowSteps
  <2> QED
    BY <2>1
<1>3. ASSUME NEW k \in Nat, k \in D PROVE k + 1 \in D
  <2> SUFFICES ASSUME NEW s \in Step PROVE Below[k + 1][s] \subseteq Below[(k + 1) + 1][s]
    OBVIOUS
  <2>1. k + 1 \in Nat
    OBVIOUS
  <2>2. /\ Below[k + 1][s] = {s} \cup UNION {Below[k][d] : d \in EffectiveDeps(s)}
        /\ Below[(k + 1) + 1][s] = {s} \cup UNION {Below[k + 1][d] : d \in EffectiveDeps(s)}
    BY <2>1, BelowSteps
  <2>3. \A d \in EffectiveDeps(s) : Below[k][d] \subseteq Below[k + 1][d]
    BY <1>1, <1>3
  <2> QED
    BY <2>2, <2>3
<1>4. Nat \subseteq D
  <2> HIDE DEF D
  <2> QED
    BY <1>2, <1>3, Counting
<1>5. Nat \subseteq M
  <2>1. 0 \in M
    BY DEF M
  <2>2. ASSUME NEW k \in Nat, k \in M PROVE k + 1 \in M
    <3>1. n + k \in D /\ n + (k + 1) = (n + k) + 1
      BY <1>4
    <3> QED
      BY <2>2, <3>1
  <2> HIDE DEF M
  <2> QED
    BY <2>1, <2>2, Counting
<1> SUFFICES ASSUME NEW m \in Nat, n <= m, NEW s \in Step PROVE Below[n][s] \subseteq Below[m][s]
  OBVIOUS
<1>6. m - n \in M /\ n + (m - n) = m
  BY <1>5
<1> QED
  BY <1>6

(* A way down the dependencies stays below where it began *)
LEMMA WaysDown ==
  ASSUME NEW N \in Nat, NEW g \in [0 .. N -> Step],
         \A i \in 1 .. N : g[i] \in EffectiveDeps(g[i - 1]),
         NEW i \in 0 .. N
  PROVE  \A j \in 0 .. N : i <= j => g[j] \in Below[j - i][g[i]]
<1> DEFINE D == {k \in Nat : \A e \in 0 .. N : e + k <= N => g[e + k] \in Below[k][g[e]]}
<1>1. 0 \in D
  <2>1. \A e \in 0 .. N : g[e] \in Below[0][g[e]] /\ e + 0 = e
    BY BelowSteps
  <2> QED
    BY <2>1
<1>2. ASSUME NEW k \in Nat, k \in D PROVE k + 1 \in D
  <2> SUFFICES ASSUME NEW e \in 0 .. N, e + (k + 1) <= N
               PROVE  g[e + (k + 1)] \in Below[k + 1][g[e]]
    OBVIOUS
  <2>1. e + 1 \in 0 .. N /\ e + 1 \in 1 .. N /\ (e + 1) - 1 = e /\ (e + 1) + k = e + (k + 1)
    OBVIOUS
  <2>2. g[e + 1] \in EffectiveDeps(g[e]) /\ g[e] \in Step
    BY <2>1
  <2>3. g[e + (k + 1)] \in Below[k][g[e + 1]]
    BY <1>2, <2>1
  <2>4. Below[k + 1][g[e]] = {g[e]} \cup UNION {Below[k][d] : d \in EffectiveDeps(g[e])}
    BY <2>2, BelowSteps
  <2> QED
    BY <2>2, <2>3, <2>4
<1>3. Nat \subseteq D
  <2> HIDE DEF D
  <2> QED
    BY <1>1, <1>2, Counting
<1> SUFFICES ASSUME NEW j \in 0 .. N, i <= j PROVE g[j] \in Below[j - i][g[i]]
  OBVIOUS
<1>4. j - i \in D /\ i + (j - i) = j
  BY <1>3
<1> QED
  BY <1>4

(* Each set of steps has one that depends on none of them *)
Grounded ==
  \A S \in SUBSET Step : S # {} => \E s \in S : EffectiveDeps(s) \cap S = {}

(* That is what the search for cycles ensures: a walk down through a set that has no such
   step, as long as the plan, comes somewhere twice *)
LEMMA AcyclicIsGrounded ==
  ASSUME Acyclic
  PROVE  Grounded
<1> SUFFICES ASSUME NEW S \in SUBSET Step, S # {}, \A s \in S : EffectiveDeps(s) \cap S # {}
             PROVE  FALSE
  BY DEF Grounded
<1> DEFINE N == Cardinality(Step)
           down(s) == CHOOSE d \in EffectiveDeps(s) : d \in S
           F == [p \in (1 .. N) \X S |-> down(p[2])]
<1>1. N \in Nat /\ IsFiniteSet(Step)
  BY PlanAssumption, FS_CardinalityType
<1>2. \A s \in S : down(s) \in S /\ down(s) \in EffectiveDeps(s)
  OBVIOUS
<1> HIDE DEF down, N
<1>3. F \in [(1 .. N) \X S -> S]
  BY <1>2
<1>4. PICK b \in S : TRUE
  OBVIOUS
<1>5. PICK g \in [0 .. N -> S] : Walks(g, b, N, F)
  <2> HIDE DEF F
  <2> QED
    BY <1>1, <1>3, <1>4, WalksExist
<1>6. \A i \in 1 .. N : i - 1 \in 0 .. N /\ i \in 0 .. N
  BY <1>1
<1>7. \A i \in 1 .. N : g[i] \in EffectiveDeps(g[i - 1])
  <2> TAKE i \in 1 .. N
  <2>1. g[i] = F[<<i, g[i - 1]>>] /\ g[i - 1] \in S
    <3> HIDE DEF F
    <3> QED
      BY <1>5, <1>6 DEF Walks
  <2>2. F[<<i, g[i - 1]>>] = down(g[i - 1])
    BY <2>1
  <2> QED
    BY <1>2, <2>1, <2>2
<1> HIDE DEF F
<1>8. g \in [0 .. N -> Step]
  BY <1>5
<1>9. \E x, y \in 0 .. N : x # y /\ g[x] = g[y]
  <2>1. IsFiniteSet(0 .. N) /\ Cardinality(0 .. N) = N + 1
    BY <1>1, FS_Interval
  <2>2. Cardinality(Step) < Cardinality(0 .. N)
    BY <1>1, <2>1 DEF N
  <2> QED
    BY <1>1, <1>8, <2>1, <2>2, FS_PigeonHole
<1>10. PICK i \in 0 .. N, j \in 0 .. N : i < j /\ g[i] = g[j]
  <2>1. PICK x \in 0 .. N, y \in 0 .. N : x # y /\ g[x] = g[y]
    BY <1>9
  <2>2. x < y \/ y < x
    BY <1>1, <2>1
  <2> QED
    BY <2>1, <2>2
<1>11. /\ i + 1 \in 0 .. N /\ i + 1 \in 1 .. N /\ (i + 1) - 1 = i /\ i + 1 <= j
       /\ j - (i + 1) \in Nat /\ j - (i + 1) <= N
  BY <1>1, <1>10
<1>12. g[i] \in Step /\ g[i + 1] \in EffectiveDeps(g[i]) /\ g[i + 1] \in Step
  BY <1>7, <1>8, <1>11
<1>13. g[j] \in Below[j - (i + 1)][g[i + 1]]
  BY <1>1, <1>7, <1>8, <1>11, WaysDown
<1>14. g[j] \in Below[N][g[i + 1]]
  BY <1>1, <1>11, <1>12, <1>13, BelowGrows
<1> QED
  BY <1>10, <1>12, <1>14 DEF Acyclic, N

(* A pass is only begun on such a plan, and its templates stay until the advisor is asked *)
PassIsGrounded == phase = "first pass" => Grounded
LEMMA PassStaysGrounded == ASSUME PassIsGrounded, [PlanNext]_planVars PROVE PassIsGrounded'
<1>1. CASE StartPlan
  <2>1. Grounded /\ uses' = uses
    BY <1>1, AcyclicIsGrounded DEF StartPlan
  <2> QED
    BY <2>1 DEF PassIsGrounded, Grounded, EffectiveDeps
<1>2. CASE phase' = phase /\ (uses' = uses \/ phase = "reflecting")
  BY <1>2 DEF PassIsGrounded, Grounded, EffectiveDeps
<1>3. CASE phase' \in {"idle", "reflecting"}
  BY <1>3 DEF PassIsGrounded
<1>4. ASSUME NEW s \in Step, RunReady(s) \/ FailBlocked(s) \/ Reflect(s) PROVE PassIsGrounded'
  BY <1>2, <1>3, <1>4 DEF RunReady, FailBlocked, Reflect
<1>5. CASE EndFirstPass \/ EndRun \/ UNCHANGED planVars
  BY <1>2, <1>3, <1>5 DEF EndFirstPass, EndRun, planVars
<1> QED
  BY <1>1, <1>4, <1>5 DEF PlanNext, PlanStepAction

(* Of the steps that have not settled one depends on none of them *)
LEMMA GroundedCanGo == ASSUME PlanInv, PassIsGrounded PROVE SomeStepCanGo
<1> SUFFICES ASSUME phase = "first pass", settled # Step
             PROVE  \E s \in Step \ settled : EffectiveDeps(s) \subseteq settled
  BY DEF SomeStepCanGo
<1>1. Step \ settled # {}
  BY DEF PlanInv, PlanTypeOK
<1>2. PICK s \in Step \ settled : EffectiveDeps(s) \cap (Step \ settled) = {}
  BY <1>1 DEF PassIsGrounded, Grounded
<1>3. EffectiveDeps(s) \subseteq Step
  BY DEF EffectiveDeps
<1> QED
  BY <1>2, <1>3

(* No step is run, in the first pass or in a repair, while a step it names as a
   dependency has failed or not run, and none that is done or was skipped is run again,
   whatever the advisor says and however often the plan is run (planner.py, reflective.py) *)
THEOREM RepairsKeepOrder == PlanSpec => [][RepairKeepsOrder]_planVars
<1>1. PlanInv /\ [PlanNext]_planVars => [RepairKeepsOrder]_planVars
  BY OrderIsKept
<1> QED
  BY <1>1, PlanInvariant, PTL DEF PlanSpec

(* No pass is stuck: while a step has not settled, some step can run or has to fail,
   whatever the templates add to the dependencies (planner.py, TaskGraph) *)
THEOREM PassesAreNeverStuck == PlanSpec => []SomeStepCanGo
<1>1. PlanInit => PassIsGrounded
  BY DEF PlanInit, PassIsGrounded
<1>2. PassIsGrounded /\ [PlanNext]_planVars => PassIsGrounded'
  BY PassStaysGrounded
<1>3. PlanInv /\ PassIsGrounded => SomeStepCanGo
  BY GroundedCanGo
<1> QED
  BY <1>1, <1>2, <1>3, PlanInvariant, PTL DEF PlanSpec

(* And in the first pass a step finds the outputs its templates ask for, though it need
   not name their steps, as long as none asks for its own (planner.py, _effective_deps) *)
THEOREM PlansAreSound == ASSUME NoSelfTemplates PROVE PlanSpec => PlanIsSound
<1>1. PlanInv /\ FirstRun /\ [PlanNext]_planVars => FirstRun'
  BY FirstRunKeeps
<1>2. FirstRun => FirstPassFills
  BY DEF FirstRun, FirstPassFills, NoAdvice
<1>3. PlanInv /\ [PlanNext]_planVars => [RepairKeepsOrder]_planVars
  BY OrderIsKept
<1> QED
  BY <1>1, <1>2, <1>3, PlanStart, PlanInvariant, PassesAreNeverStuck, PTL DEF PlanSpec, PlanIsSound

-----------------------------------------------------------------------------
(***************************************************************************)
(* Planning at the agent (AgentPlanning): the invariant carries, from one  *)
(* phase of a request to the next, that what was found is what some node   *)
(* once registered, so the plan that is put together from it can be no     *)
(* other, whatever was registered or lost meanwhile.                       *)
(***************************************************************************)
(* A step is for a node that offered its first card, or its skill *)
Backed(step) ==
  /\ <<IF step.cards = <<>> THEN step.skill ELSE step.cards[1], step.node>> \in held
  /\ \E h \in Host : <<step.skill, h>> \in held
Offers(S) ==
  /\ IsFiniteSet(S)
  /\ \A s \in S : s[1] \in Asset /\ s[2] \in Host /\ <<s[1], s[2]>> \in held

(* What the history has: what is registered now, once there was a request *)
HistoryFits == planning # "idle" => \A a \in Registered : <<a, home[a]>> \in held
(* How far the plan is, and how often the model was asked *)
PlaceFits ==
  /\ planning \in {"grounding", "asking", "repairing", "skills", "cards"} => plan = <<>>
  /\ planning \in {"step", "owners"} => Len(plan) < Len(goal.steps)
  /\ asked \in 0 .. 2
  /\ planning \in {"grounding", "asking"} => asked = 0
  /\ planning = "repairing" => asked <= 1
(* The skills that were found, or the node of the skill and the owners so far *)
GotFits ==
  /\ planning = "cards" => Offers(got[1])
  /\ planning = "owners" =>
       /\ got \in Seq(Host \cup {"ask", "have"}) /\ Len(got) \in 2 .. Len(Current.cards) + 1
       /\ got[1] \in Host /\ <<Current.skill, got[1]>> \in held
       /\ \A j \in 2 .. Len(got) - 1 : got[j] \in Host /\ <<Current.cards[j - 1], got[j]>> \in held
PlanIsBacked == \A i \in DOMAIN plan : Backed(plan[i])
LaunchedInOrder == planning = "launched" => \A i \in DOMAIN plan : ~InCycle(i)
CodeFits ==
  /\ code.phase = "trying" => code.attempts <= MaxRetries
  /\ ReportIsOfTheRun

GoalTypes ==
  /\ home \in [Asset -> Host \cup {"nowhere"}] /\ held \subseteq Asset \X (Host \cup {"nowhere"})
  /\ planning \in PlanPhases /\ goal \in Goals /\ offered \subseteq Asset /\ plan \in Seq(PlannedStep)
  /\ count \in [requests : 0 .. MaxRequests, events : 0 .. MaxEvents]
CodeTypes ==
  code \in [phase : {"idle", "trying", "succeeded", "failed"}, faults : SUBSET Defect, ran : SUBSET Defect,
            attempts : 0 .. MaxRetries + 1, error : Defect \cup {"none", "timeout"}, model : BOOLEAN]

GoalInv == GoalTypes /\ HistoryFits /\ PlaceFits /\ GotFits /\ PlanIsBacked /\ LaunchedInOrder
CodeInv == CodeTypes /\ CodeFits
AgentInv == GoalInv /\ CodeInv

-----------------------------------------------------------------------------
LEMMA TheGoal ==
  ASSUME NEW g \in Goals
  PROVE  /\ g.skill \in Asset \cup {"any"} /\ g.steps \in Seq(GoalSteps) /\ Len(g.steps) \in Nat
         /\ \A i \in 1 .. Len(g.steps) : g.steps[i] \in GoalSteps
<1>1. g.steps \in Seq(GoalSteps) /\ g.skill \in Asset \cup {"any"}
  BY AgentAssumption DEF IsGoal
<1> QED
  BY <1>1

LEMMA TheCurrent ==
  ASSUME GoalInv, planning \in {"step", "owners"}
  PROVE  /\ Len(plan) \in Nat /\ Len(goal.steps) \in Nat /\ Len(plan) < Len(goal.steps)
         /\ Current \in GoalSteps /\ Current.skill \in Asset /\ Current.cards \in Seq(Asset)
<1>1. goal \in Goals /\ plan \in Seq(PlannedStep) /\ Len(plan) < Len(goal.steps)
  BY DEF GoalInv, GoalTypes, PlaceFits
<1>2. Len(plan) \in Nat /\ Len(goal.steps) \in Nat /\ \A i \in 1 .. Len(goal.steps) : goal.steps[i] \in GoalSteps
  BY <1>1, TheGoal
<1>3. Len(plan) + 1 \in 1 .. Len(goal.steps)
  BY <1>1, <1>2
<1>4. Current \in GoalSteps
  BY <1>2, <1>3 DEF Current
<1> QED
  BY <1>1, <1>2, <1>4 DEF GoalSteps

(* Listing a finite set loses nothing and adds nothing *)
LEMMA ListingIs ==
  ASSUME NEW S, IsFiniteSet(S)
  PROVE  /\ SetToSeq(S) \in Seq(S) /\ \A i \in DOMAIN SetToSeq(S) : SetToSeq(S)[i] \in S
<1>1. Cardinality(S) \in Nat /\ ExistsBijection(1 .. Cardinality(S), S)
  BY FS_CardinalityType
<1>2. PICK f \in [1 .. Cardinality(S) -> S] : IsInjective(f)
  BY <1>1 DEF ExistsBijection, Bijection, Injection
<1>3. SetToSeq(S) \in [1 .. Cardinality(S) -> S]
  BY <1>2 DEF SetToSeq
<1> QED
  BY <1>1, <1>3

LEMMA RegisteredIs ==
  ASSUME GoalTypes
  PROVE  Registered \subseteq Asset /\ IsFiniteSet(Registered) /\ \A a \in Registered : home[a] \in Host
<1>1. Registered \subseteq Asset /\ \A a \in Registered : home[a] \in Host
  BY DEF GoalTypes, Registered
<1>2. IsFiniteSet(Registered)
  BY <1>1, FS_Subset, AgentAssumption
<1> QED
  BY <1>1, <1>2

-----------------------------------------------------------------------------
(* A move to another place with nothing else changed *)
LEMMA MoveKeeps ==
  ASSUME GoalInv, NEW p \in PlanPhases \ {"idle", "launched", "cards", "owners", "step", "repairing", "grounding"}, MovesOn(p),
         planning # "idle",
         p = "asking" => planning \in {"grounding"}, p # "skills"
  PROVE  GoalInv'
<1>1. planning' = p /\ UNCHANGED <<home, held, goal, asked, offered, got, plan, count>>
  BY DEF MovesOn
<1>2. GoalTypes'
  BY <1>1 DEF GoalInv, GoalTypes
<1>3. HistoryFits' /\ PlaceFits' /\ GotFits' /\ PlanIsBacked' /\ LaunchedInOrder'
  BY <1>1 DEF GoalInv, HistoryFits, Registered, PlaceFits, GotFits, PlanIsBacked, Backed, LaunchedInOrder
<1> QED
  BY <1>2, <1>3 DEF GoalInv

LEMMA GroundKeeps == ASSUME GoalInv, Ground PROVE GoalInv'
<1>1. CASE /\ planning' = "asking" /\ offered' = Registered
           /\ UNCHANGED <<home, held, goal, asked, got, plan, count, code>>
  <2>1. planning = "grounding"
    BY DEF Ground
  <2>2. GoalTypes'
    BY <1>1, RegisteredIs DEF GoalInv, GoalTypes, PlanPhases, Resting
  <2>3. HistoryFits' /\ PlaceFits' /\ GotFits' /\ PlanIsBacked' /\ LaunchedInOrder'
    BY <1>1, <2>1 DEF GoalInv, HistoryFits, Registered, PlaceFits, GotFits, PlanIsBacked, Backed, LaunchedInOrder
  <2> QED
    BY <2>2, <2>3 DEF GoalInv
<1>2. CASE MovesOn("asking") \/ MovesOn("refused")
  <2>1. planning = "grounding"
    BY DEF Ground
  <2> QED
    BY <1>2, <2>1, MoveKeeps DEF PlanPhases, Resting
<1> QED
  BY <1>1, <1>2 DEF Ground

LEMMA AskModelKeeps == ASSUME GoalInv, AskModel PROVE GoalInv'
<1>1. /\ planning \in {"asking", "repairing"} /\ asked' = asked + 1
      /\ UNCHANGED <<home, held, offered, got, plan, count>>
  BY DEF AskModel
<1>2. plan = <<>> /\ asked \in 0 .. 2 /\ (planning = "asking" => asked = 0) /\ (planning = "repairing" => asked <= 1)
  BY <1>1 DEF GoalInv, PlaceFits
<1>3. asked' \in 0 .. 2 /\ (planning = "asking" => asked' = 1)
  BY <1>1, <1>2
<1>4. \/ goal' \in Goals /\ planning' = (IF goal'.steps = <<>> THEN "skills" ELSE "step")
      \/ goal' = goal /\ planning' = "refused"
      \/ goal' = goal /\ planning' = "repairing" /\ planning = "asking"
  BY <1>1 DEF AskModel, AfterInvalid
<1>5. goal' \in Goals
  BY <1>4 DEF GoalInv, GoalTypes
<1>6. planning' = "step" => 0 < Len(goal'.steps)
  <2> SUFFICES ASSUME planning' = "step" PROVE 0 < Len(goal'.steps)
    OBVIOUS
  <2>1. goal'.steps # <<>> /\ goal'.steps \in Seq(GoalSteps)
    BY <1>4, <1>5, TheGoal
  <2> QED
    BY <2>1
<1>7. GoalTypes'
  BY <1>1, <1>4, <1>5 DEF GoalInv, GoalTypes, PlanPhases, Resting
<1>8. PlaceFits'
  BY <1>1, <1>2, <1>3, <1>4, <1>6 DEF PlaceFits
<1>9. HistoryFits' /\ GotFits' /\ PlanIsBacked' /\ LaunchedInOrder'
  BY <1>1, <1>4 DEF GoalInv, HistoryFits, Registered, GotFits, PlanIsBacked, Backed, LaunchedInOrder
<1> QED
  BY <1>7, <1>8, <1>9 DEF GoalInv

LEMMA FindSkillsKeeps == ASSUME GoalInv, FindSkills PROVE GoalInv'
<1>1. CASE MovesOn("refused")
  BY <1>1, MoveKeeps DEF FindSkills, PlanPhases, Resting
<1>2. CASE /\ got' = <<{<<a, home[a]>> : a \in Fitting}>> /\ planning' = "cards"
           /\ UNCHANGED <<home, held, goal, asked, offered, plan, count, code>>
  <2> DEFINE S == {<<a, home[a]>> : a \in Fitting}
             f == [a \in Fitting |-> <<a, home[a]>>]
  <2>1. planning = "skills" /\ got'[1] = S
    BY <1>2 DEF FindSkills
  <2>2. Fitting \subseteq Registered
    BY DEF Fitting
  <2>3. IsFiniteSet(Fitting)
    BY <2>2, RegisteredIs, FS_Subset DEF GoalInv
  <2>4. f \in Surjection(Fitting, S)
    BY DEF Surjection
  <2>5. IsFiniteSet(S)
    BY <2>3, <2>4, FS_Surjection
  <2>6. \A s \in S : s[1] \in Asset /\ s[2] \in Host /\ <<s[1], s[2]>> \in held
    BY <2>1, <2>2, RegisteredIs DEF GoalInv, HistoryFits
  <2> HIDE DEF S
  <2>7. Offers(got[1])'
    BY <1>2, <2>1, <2>5, <2>6 DEF Offers
  <2>8. GoalTypes'
    BY <1>2 DEF GoalInv, GoalTypes, PlanPhases, Resting
  <2>9. HistoryFits' /\ PlaceFits' /\ GotFits' /\ PlanIsBacked' /\ LaunchedInOrder'
    BY <1>2, <2>1, <2>7 DEF GoalInv, HistoryFits, Registered, PlaceFits, GotFits, PlanIsBacked, Backed, LaunchedInOrder
  <2> QED
    BY <2>8, <2>9 DEF GoalInv
<1> QED
  BY <1>1, <1>2 DEF FindSkills

(* The plan for a goal without steps: every skill with every card, each at a node of now *)
LEMMA ExpandedIs ==
  ASSUME GoalInv, planning = "cards", NEW cards, cards \subseteq Registered
  PROVE  /\ IsFiniteSet(Expanded(got[1], cards)) /\ Expanded(got[1], cards) \subseteq PlannedStep
         /\ \A e \in Expanded(got[1], cards) : Backed(e)
<1> DEFINE skills == got[1]
<1>1. /\ IsFiniteSet(skills) /\ \A s \in skills : s[1] \in Asset /\ s[2] \in Host /\ <<s[1], s[2]>> \in held
  BY DEF GoalInv, GotFits, Offers
<1>2. /\ IsFiniteSet(cards) /\ \A c \in cards : c \in Asset /\ home[c] \in Host /\ <<c, home[c]>> \in held
  BY RegisteredIs, FS_Subset DEF GoalInv, HistoryFits
<1> HIDE DEF skills
<1>3. CASE cards = {}
  <2> DEFINE E == {PlanStep("skill-only", s[1], s[2], <<>>) : s \in skills}
             f == [s \in skills |-> PlanStep("skill-only", s[1], s[2], <<>>)]
  <2>1. Expanded(skills, cards) = E
    BY <1>3 DEF Expanded
  <2>2. f \in Surjection(skills, E)
    BY DEF Surjection
  <2>3. IsFiniteSet(E)
    BY <1>1, <2>2, FS_Surjection
  <2>4. ASSUME NEW s \in skills
        PROVE  PlanStep("skill-only", s[1], s[2], <<>>) \in PlannedStep /\ Backed(PlanStep("skill-only", s[1], s[2], <<>>))
    <3>1. <<>> \in Seq(Asset)
      OBVIOUS
    <3> QED
      BY <1>1, <3>1 DEF PlanStep, PlannedStep, Backed
  <2>5. E \subseteq PlannedStep /\ \A e \in E : Backed(e)
    BY <2>4
  <2> HIDE DEF E
  <2> QED
    BY <2>1, <2>3, <2>5 DEF skills
<1>4. CASE cards # {}
  <2> DEFINE Step2(q) == PlanStep("card-skill", q[1][1], home[q[2]], <<q[2]>>)
             E == {Step2(q) : q \in skills \X cards}
             f == [q \in skills \X cards |-> Step2(q)]
  <2>1. Expanded(skills, cards) = E
    BY <1>4 DEF Expanded
  <2>2. f \in Surjection(skills \X cards, E)
    <3> HIDE DEF Step2
    <3> QED
      BY DEF Surjection
  <2>3. IsFiniteSet(E)
    <3>1. IsFiniteSet(skills \X cards)
      BY <1>1, <1>2, FS_Product
    <3> HIDE DEF f, E
    <3> QED
      BY <2>2, <3>1, FS_Surjection
  <2>4. ASSUME NEW q \in skills \X cards PROVE Step2(q) \in PlannedStep /\ Backed(Step2(q))
    <3>1. q[1] \in skills /\ q[2] \in cards
      OBVIOUS
    <3>2. q[2] \in Asset /\ home[q[2]] \in Host /\ <<q[2], home[q[2]]>> \in held
      BY <1>2, <3>1
    <3>3. q[1][1] \in Asset /\ \E h \in Host : <<q[1][1], h>> \in held
      BY <1>1, <3>1
    <3>4. <<q[2]>> \in Seq(Asset) /\ <<q[2]>> # <<>> /\ <<q[2]>>[1] = q[2]
      BY <3>2
    <3>5. Step2(q) \in PlannedStep
      BY <3>2, <3>3, <3>4 DEF PlanStep, PlannedStep
    <3>6. Backed(Step2(q))
      BY <3>2, <3>3, <3>4 DEF PlanStep, Backed
    <3> QED
      BY <3>5, <3>6
  <2>5. E \subseteq PlannedStep /\ \A e \in E : Backed(e)
    <3> HIDE DEF Step2
    <3> QED
      BY <2>4
  <2> HIDE DEF E
  <2> QED
    BY <2>1, <2>3, <2>5 DEF skills
<1> QED
  BY <1>3, <1>4

LEMMA FindCardsKeeps == ASSUME GoalInv, FindCards PROVE GoalInv'
<1>1. CASE MovesOn("refused")
  BY <1>1, MoveKeeps DEF FindCards, PlanPhases, Resting
<1>2. CASE /\ plan' = SetToSeq(Expanded(got[1], Matching \cap Registered))
           /\ got' = <<>> /\ planning' = "ready"
           /\ UNCHANGED <<home, held, goal, asked, offered, count, code>>
  <2> DEFINE E == Expanded(got[1], Matching \cap Registered)
  <2>1. planning = "cards"
    BY DEF FindCards
  <2>2. IsFiniteSet(E) /\ E \subseteq PlannedStep /\ \A e \in E : Backed(e)
    BY <2>1, ExpandedIs
  <2>3. plan' = SetToSeq(E)
    BY <1>2
  <2> HIDE DEF E
  <2>4. plan' \in Seq(E) /\ \A i \in DOMAIN plan' : plan'[i] \in E
    BY <2>2, <2>3, ListingIs
  <2>5. plan' \in Seq(PlannedStep)
    BY <2>2, <2>4
  <2>6. PlanIsBacked'
    BY <1>2, <2>2, <2>4 DEF PlanIsBacked, Backed
  <2>7. GoalTypes'
    BY <1>2, <2>5 DEF GoalInv, GoalTypes, PlanPhases, Resting
  <2>8. HistoryFits' /\ PlaceFits' /\ GotFits' /\ LaunchedInOrder'
    BY <1>2, <2>1 DEF GoalInv, HistoryFits, Registered, PlaceFits, GotFits, LaunchedInOrder
  <2> QED
    BY <2>6, <2>7, <2>8 DEF GoalInv
<1> QED
  BY <1>1, <1>2 DEF FindCards

-----------------------------------------------------------------------------
(* A step that is backed joins the plan *)
LEMMA AddStepKeeps ==
  ASSUME GoalInv, planning \in {"step", "owners"}, NEW node \in Host, AddStep(node),
         <<IF Current.cards = <<>> THEN Current.skill ELSE Current.cards[1], node>> \in held,
         \E h \in Host : <<Current.skill, h>> \in held
  PROVE  GoalInv'
<1> DEFINE step == [kind |-> IF Current.cards = <<>> THEN "skill-only" ELSE "card-skill",
                    skill |-> Current.skill, node |-> node, cards |-> Current.cards,
                    depends |-> Current.depends, uses |-> Current.uses]
<1>1. Current \in GoalSteps /\ Len(plan) \in Nat /\ Len(goal.steps) \in Nat /\ Len(plan) < Len(goal.steps)
  BY TheCurrent
<1>2. step \in PlannedStep
  BY <1>1 DEF GoalSteps, PlannedStep
<1>3. Backed(step)
  BY DEF Backed
<1>4. /\ plan' = Append(plan, step) /\ got' = <<>>
      /\ planning' = IF Len(plan) + 1 = Len(goal.steps) THEN "ready" ELSE "step"
      /\ UNCHANGED <<home, held, goal, asked, offered, count, code>>
  BY DEF AddStep
<1> HIDE DEF step
<1>5. plan \in Seq(PlannedStep)
  BY DEF GoalInv, GoalTypes
<1>6. /\ plan' \in Seq(PlannedStep) /\ Len(plan') = Len(plan) + 1
      /\ \A i \in DOMAIN plan' : plan'[i] = step \/ (i \in DOMAIN plan /\ plan'[i] = plan[i])
  BY <1>2, <1>4, <1>5
<1>7. PlanIsBacked'
  BY <1>3, <1>4, <1>6 DEF GoalInv, PlanIsBacked, Backed
<1>8. GoalTypes'
  BY <1>4, <1>6 DEF GoalInv, GoalTypes, PlanPhases, Resting
<1>9. planning' = "step" => Len(plan') < Len(goal'.steps)
  BY <1>1, <1>4, <1>6
<1>10. planning' \in {"ready", "step"}
  BY <1>4
<1>11. PlaceFits'
  BY <1>4, <1>9, <1>10 DEF GoalInv, PlaceFits
<1>12. HistoryFits' /\ GotFits' /\ LaunchedInOrder'
  BY <1>4, <1>10 DEF GoalInv, HistoryFits, Registered, GotFits, LaunchedInOrder
<1> QED
  BY <1>7, <1>8, <1>11, <1>12 DEF GoalInv

LEMMA ResolveSkillKeeps == ASSUME GoalInv, ResolveSkill PROVE GoalInv'
<1>1. planning = "step"
  BY DEF ResolveSkill
<1>2. CASE MovesOn("refused") \/ MovesOn("crashed")
  BY <1>1, <1>2, MoveKeeps DEF PlanPhases, Resting
<1>3. ASSUME Current.skill \in Registered
      PROVE  home[Current.skill] \in Host /\ <<Current.skill, home[Current.skill]>> \in held
  BY <1>1, <1>3, RegisteredIs DEF GoalInv, HistoryFits
<1>4. CASE Current.skill \in Registered /\ Current.cards = <<>> /\ AddStep(home[Current.skill])
  BY <1>1, <1>3, <1>4, AddStepKeeps
<1>5. CASE /\ Current.skill \in Registered /\ Current.cards # <<>>
           /\ got' = <<home[Current.skill], "ask">> /\ planning' = "owners"
           /\ UNCHANGED <<home, held, goal, asked, offered, plan, count, code>>
  <2>1. /\ got' \in Seq(Host \cup {"ask", "have"}) /\ Len(got') = 2 /\ got'[1] = home[Current.skill]
    BY <1>3, <1>5
  <2>2. Current' = Current
    BY <1>5 DEF Current
  <2>3. Len(Current.cards) \in Nat /\ Len(Current.cards) # 0
    BY <1>1, <1>5, TheCurrent
  <2>4. Len(got') \in 2 .. Len(Current.cards) + 1 /\ 2 .. Len(got') - 1 = {}
    BY <2>1, <2>3
  <2>5. GotFits'
    BY <1>3, <1>5, <2>1, <2>2, <2>4 DEF GotFits
  <2>6. GoalTypes'
    BY <1>5 DEF GoalInv, GoalTypes, PlanPhases, Resting
  <2>7. HistoryFits' /\ PlaceFits' /\ PlanIsBacked' /\ LaunchedInOrder'
    BY <1>1, <1>5 DEF GoalInv, HistoryFits, Registered, PlaceFits, PlanIsBacked, Backed, LaunchedInOrder
  <2> QED
    BY <2>5, <2>6, <2>7 DEF GoalInv
<1> QED
  BY <1>2, <1>4, <1>5 DEF ResolveSkill

LEMMA ResolveOwnerKeeps == ASSUME GoalInv, ResolveOwner PROVE GoalInv'
<1>1. planning = "owners"
  BY DEF ResolveOwner
<1>2. CASE MovesOn("crashed")
  BY <1>1, <1>2, MoveKeeps DEF PlanPhases, Resting
<1> DEFINE V == Host \cup {"ask", "have"}
           n == Len(got)
<1>3. /\ got \in Seq(V) /\ n \in 2 .. Len(Current.cards) + 1 /\ got[1] \in Host /\ <<Current.skill, got[1]>> \in held
      /\ \A j \in 2 .. n - 1 : got[j] \in Host /\ <<Current.cards[j - 1], got[j]>> \in held
  BY <1>1 DEF GoalInv, GotFits
<1>4. Current.cards \in Seq(Asset) /\ Len(Current.cards) \in Nat
  BY <1>1, TheCurrent
<1>5. n \in Nat /\ n \in 1 .. n /\ n - 1 \in 1 .. Len(Current.cards) /\ Current.cards # <<>>
  BY <1>3, <1>4
<1>6. CASE /\ Card \in Registered /\ got[n] = "ask" /\ got' = [got EXCEPT ![n] = "have"]
           /\ UNCHANGED <<home, held, planning, goal, asked, offered, plan, count, code>>
  <2>1. /\ got' \in Seq(V) /\ Len(got') = n /\ \A j \in 1 .. n - 1 : got'[j] = got[j]
    BY <1>3, <1>5, <1>6
  <2>2. Current' = Current
    BY <1>6 DEF Current
  <2>3. /\ got'[1] = got[1] /\ \A j \in 2 .. n - 1 : got'[j] = got[j]
    BY <1>3, <1>5, <2>1
  <2>4. GotFits'
    <3>1. planning' = "owners" /\ held' = held /\ Len(got') = n
      BY <1>1, <1>6, <2>1
    <3>2. \A j \in 2 .. Len(got') - 1 : got'[j] \in Host /\ <<Current'.cards[j - 1], got'[j]>> \in held'
      BY <1>3, <2>2, <2>3, <3>1
    <3>3. /\ got' \in Seq(V) /\ Len(got') \in 2 .. Len(Current'.cards) + 1
          /\ got'[1] \in Host /\ <<Current'.skill, got'[1]>> \in held'
      BY <1>3, <2>1, <2>2, <2>3, <3>1
    <3> QED
      BY <3>1, <3>2, <3>3 DEF GotFits
  <2>5. GoalTypes' /\ HistoryFits' /\ PlaceFits' /\ PlanIsBacked' /\ LaunchedInOrder'
    BY <1>1, <1>6 DEF GoalInv, GoalTypes, HistoryFits, Registered, PlaceFits, PlanIsBacked, Backed, LaunchedInOrder
  <2> QED
    BY <2>4, <2>5 DEF GoalInv
<1>7. CASE /\ Card \in Registered /\ got[n] = "have"
           /\ LET owners == [got EXCEPT ![n] = home[Card]]
              IN IF Len(owners) > Len(Current.cards) THEN AddStep(StepNode(owners))
                 ELSE /\ got' = Append(owners, "ask")
                      /\ UNCHANGED <<home, held, planning, goal, asked, offered, plan, count, code>>
  <2> DEFINE owners == [got EXCEPT ![n] = home[Card]]
  <2>1. home[Card] \in Host /\ <<Current.cards[n - 1], home[Card]>> \in held
    BY <1>1, <1>7, RegisteredIs DEF GoalInv, HistoryFits, Card
  <2>2. owners \in Seq(V) /\ Len(owners) = n /\ owners[n] = home[Card] /\ \A j \in 1 .. n - 1 : owners[j] = got[j]
    BY <1>3, <1>5, <2>1
  <2>3. \/ Len(owners) > Len(Current.cards) /\ AddStep(StepNode(owners))
        \/ /\ ~(Len(owners) > Len(Current.cards)) /\ got' = Append(owners, "ask")
           /\ UNCHANGED <<home, held, planning, goal, asked, offered, plan, count, code>>
    BY <1>7
  <2> HIDE DEF owners
  <2>4. \A j \in 2 .. n : owners[j] \in Host /\ <<Current.cards[j - 1], owners[j]>> \in held
    <3> SUFFICES ASSUME NEW j \in 2 .. n PROVE owners[j] \in Host /\ <<Current.cards[j - 1], owners[j]>> \in held
      OBVIOUS
    <3>1. CASE j = n
      BY <2>1, <2>2, <3>1
    <3>2. CASE j # n
      <4>1. j \in 2 .. n - 1 /\ j \in 1 .. n - 1
        BY <1>5, <3>2
      <4> QED
        BY <1>3, <2>2, <4>1
    <3> QED
      BY <3>1, <3>2
  <2>5. CASE Len(owners) > Len(Current.cards) /\ AddStep(StepNode(owners))
    <3>1. 2 \in 2 .. n
      BY <1>3, <1>5
    <3>2. StepNode(owners) \in Host /\ <<Current.cards[1], StepNode(owners)>> \in held
      <4>1. owners[2] \in Host /\ <<Current.cards[2 - 1], owners[2]>> \in held
        BY <2>4, <3>1
      <4>2. 2 - 1 = 1
        OBVIOUS
      <4> QED
        BY <4>1, <4>2 DEF StepNode, NodeOf
    <3>3. \E h \in Host : <<Current.skill, h>> \in held
      BY <1>3
    <3> QED
      BY <1>1, <1>5, <2>5, <3>2, <3>3, AddStepKeeps
  <2>6. CASE /\ ~(Len(owners) > Len(Current.cards)) /\ got' = Append(owners, "ask")
             /\ UNCHANGED <<home, held, planning, goal, asked, offered, plan, count, code>>
    <3>1. /\ got' \in Seq(V) /\ Len(got') = n + 1 /\ \A j \in 1 .. n : got'[j] = owners[j]
      BY <1>5, <2>2, <2>6
    <3>2. n + 1 \in 2 .. Len(Current.cards) + 1 /\ (n + 1) - 1 = n
      BY <1>3, <1>4, <1>5, <2>2, <2>6
    <3>3. Current' = Current
      BY <2>6 DEF Current
    <3>4. got'[1] = got[1]
      <4>1. 1 \in 1 .. n - 1 /\ 1 \in 1 .. n
        BY <1>3, <1>5
      <4> QED
        BY <2>2, <3>1, <4>1
    <3>5. \A j \in 2 .. n : got'[j] = owners[j]
      BY <1>5, <3>1
    <3>6. \A j \in 2 .. Len(got') - 1 : got'[j] \in Host /\ <<Current.cards[j - 1], got'[j]>> \in held
      BY <2>4, <3>1, <3>2, <3>5
    <3>7. GotFits'
      BY <1>1, <1>3, <2>6, <3>1, <3>2, <3>3, <3>4, <3>6 DEF GotFits
    <3>8. GoalTypes' /\ HistoryFits' /\ PlaceFits' /\ PlanIsBacked' /\ LaunchedInOrder'
      BY <1>1, <2>6 DEF GoalInv, GoalTypes, HistoryFits, Registered, PlaceFits, PlanIsBacked, Backed, LaunchedInOrder
    <3> QED
      BY <3>7, <3>8 DEF GoalInv
  <2> QED
    BY <2>3, <2>5, <2>6
<1> QED
  BY <1>2, <1>6, <1>7 DEF ResolveOwner

-----------------------------------------------------------------------------
(* What comes before what is a matter of the plan *)
LEMMA CyclesStay == ASSUME plan' = plan PROVE \A i : InCycle(i)' <=> InCycle(i)
BY DEF InCycle, Precede, Edges

LEMMA LaunchKeeps == ASSUME GoalInv, Launch PROVE GoalInv'
<1>1. CASE MovesOn("crashed")
  BY <1>1, MoveKeeps DEF Launch, PlanPhases, Resting
<1>2. CASE MovesOn("launched") /\ \A i \in DOMAIN plan : ~InCycle(i)
  <2>1. planning' = "launched" /\ UNCHANGED <<home, held, goal, asked, offered, got, plan, count>> /\ planning = "ready"
    BY <1>2 DEF MovesOn, Launch
  <2>2. LaunchedInOrder'
    BY <1>2, <2>1, CyclesStay DEF LaunchedInOrder
  <2>3. GoalTypes'
    BY <2>1 DEF GoalInv, GoalTypes, PlanPhases, Resting
  <2>4. HistoryFits' /\ PlaceFits' /\ GotFits' /\ PlanIsBacked'
    BY <2>1 DEF GoalInv, HistoryFits, Registered, PlaceFits, GotFits, PlanIsBacked, Backed
  <2> QED
    BY <2>2, <2>3, <2>4 DEF GoalInv
<1> QED
  BY <1>1, <1>2 DEF Launch

LEMMA RegistryMovesKeeps == ASSUME GoalInv, NEW a \in Asset, RegistryMoves(a) PROVE GoalInv'
<1>1. PICK h \in Host \cup {"nowhere"} : home' = [home EXCEPT ![a] = h] /\ held' = held \cup {<<a, h>>}
  BY DEF RegistryMoves
<1>2. /\ UNCHANGED <<planning, goal, asked, offered, got, plan>> /\ count' = [count EXCEPT !.events = @ + 1]
      /\ count.events < MaxEvents
  BY DEF RegistryMoves, requestVars
<1>3. count' \in [requests : 0 .. MaxRequests, events : 0 .. MaxEvents]
  <2>1. count \in [requests : 0 .. MaxRequests, events : 0 .. MaxEvents] /\ MaxEvents \in Nat
    BY AgentAssumption DEF GoalInv, GoalTypes
  <2>2. count.events + 1 \in 0 .. MaxEvents
    BY <1>2, <2>1
  <2> QED
    BY <1>2, <2>1, <2>2
<1>4. GoalTypes'
  BY <1>1, <1>2, <1>3 DEF GoalInv, GoalTypes
<1>5. HistoryFits'
  BY <1>1, <1>2 DEF GoalInv, GoalTypes, HistoryFits, Registered
<1>6. PlaceFits'
  BY <1>2 DEF GoalInv, PlaceFits
<1>7. GotFits'
  <2>1. Current' = Current
    BY <1>2 DEF Current
  <2>2. \A S : Offers(S) => Offers(S)'
    BY <1>1 DEF Offers
  <2> QED
    BY <1>1, <1>2, <2>1, <2>2 DEF GoalInv, GotFits
<1>8. PlanIsBacked'
  BY <1>1, <1>2 DEF GoalInv, PlanIsBacked, Backed
<1>9. LaunchedInOrder'
  BY <1>2, CyclesStay DEF GoalInv, LaunchedInOrder
<1> QED
  BY <1>4, <1>5, <1>6, <1>7, <1>8, <1>9 DEF GoalInv

LEMMA RequestKeeps ==
  ASSUME GoalInv, NEW p \in {"grounding", "skills", "step"}, NEW g \in Goals, p = "step" => g.steps # <<>>, Request(p, g)
  PROVE  GoalInv'
<1>1. /\ planning' = p /\ goal' = g /\ held' = {<<a, home[a]>> : a \in Registered}
      /\ asked' = 0 /\ offered' = {} /\ got' = <<>> /\ plan' = <<>>
      /\ count' = [count EXCEPT !.requests = @ + 1] /\ count.requests < MaxRequests /\ home' = home
  BY DEF Request
<1>2. count' \in [requests : 0 .. MaxRequests, events : 0 .. MaxEvents]
  <2>1. count \in [requests : 0 .. MaxRequests, events : 0 .. MaxEvents] /\ MaxRequests \in Nat
    BY AgentAssumption DEF GoalInv, GoalTypes
  <2>2. count.requests + 1 \in 0 .. MaxRequests
    BY <1>1, <2>1
  <2> QED
    BY <1>1, <2>1, <2>2
<1>3. held' \subseteq Asset \X (Host \cup {"nowhere"})
  BY <1>1, RegisteredIs DEF GoalInv
<1>4. plan' \in Seq(PlannedStep) /\ Len(plan') = 0 /\ DOMAIN plan' = {}
  BY <1>1
<1>5. GoalTypes'
  BY <1>1, <1>2, <1>3, <1>4 DEF GoalInv, GoalTypes, PlanPhases, Resting
<1>6. HistoryFits'
  BY <1>1 DEF HistoryFits, Registered
<1>7. p = "step" => 0 < Len(g.steps)
  <2>1. g.steps \in Seq(GoalSteps)
    BY TheGoal
  <2> QED
    BY <2>1
<1>8. PlaceFits'
  BY <1>1, <1>4, <1>7 DEF PlaceFits
<1>9. GotFits' /\ PlanIsBacked' /\ LaunchedInOrder'
  BY <1>1, <1>4 DEF GotFits, PlanIsBacked, LaunchedInOrder
<1> QED
  BY <1>5, <1>6, <1>8, <1>9 DEF GoalInv

-----------------------------------------------------------------------------
LEMMA WriteCodeKeeps == ASSUME CodeInv, WriteCode PROVE CodeInv'
<1>1. PICK f \in SUBSET Defect, m \in BOOLEAN :
        code' = [NoCode EXCEPT !.phase = "trying", !.faults = f, !.model = m]
  BY DEF WriteCode
<1>2. MaxRetries \in Nat
  BY AgentAssumption
<1>3. code' = [phase |-> "trying", faults |-> f, ran |-> {}, attempts |-> 0, error |-> "none", model |-> m]
  BY <1>1 DEF NoCode
<1>4. CodeTypes'
  BY <1>2, <1>3 DEF CodeTypes
<1>5. CodeFits'
  BY <1>2, <1>3 DEF CodeFits, ReportIsOfTheRun
<1> QED
  BY <1>4, <1>5 DEF CodeInv

LEMMA TryCodeKeeps == ASSUME CodeInv, TryCode PROVE CodeInv'
<1> DEFINE n == code.attempts + 1
           tried == [code EXCEPT !.attempts = n, !.ran = code.faults]
<1>1. MaxRetries \in Nat /\ code.attempts \in 0 .. MaxRetries + 1 /\ code.attempts <= MaxRetries /\ code.faults \subseteq Defect
  BY AgentAssumption DEF TryCode, CodeInv, CodeTypes, CodeFits
<1>2. n \in 0 .. MaxRetries + 1 /\ (n > MaxRetries => n = MaxRetries + 1) /\ (~(n > MaxRetries) => n <= MaxRetries)
  BY <1>1
<1> HIDE DEF n
<1>3. /\ CodeTypes' => TRUE
      /\ tried \in [phase : {"idle", "trying", "succeeded", "failed"}, faults : SUBSET Defect, ran : SUBSET Defect,
            attempts : 0 .. MaxRetries + 1, error : Defect \cup {"none", "timeout"}, model : BOOLEAN]
      /\ tried.attempts = n /\ tried.ran = code.faults /\ tried.faults = code.faults /\ tried.phase = "trying"
  BY <1>2 DEF CodeInv, CodeTypes, TryCode
<1>4. CASE code.faults = {} /\ code' = [tried EXCEPT !.phase = "succeeded"]
  <2> HIDE DEF tried
  <2> QED
    BY <1>3, <1>4 DEF CodeInv, CodeTypes, CodeFits, ReportIsOfTheRun
<1>5. ASSUME NEW e \in code.faults \cup {"timeout"}, n > MaxRetries,
             code' = [tried EXCEPT !.error = e, !.phase = "failed"]
      PROVE  CodeInv'
  <2>1. e \in Defect \cup {"none", "timeout"} /\ n = MaxRetries + 1
    BY <1>1, <1>2, <1>5
  <2> HIDE DEF tried
  <2> QED
    BY <1>3, <1>5, <2>1 DEF CodeInv, CodeTypes, CodeFits, ReportIsOfTheRun
<1>6. ASSUME NEW e \in code.faults \cup {"timeout"}, ~(n > MaxRetries), NEW f \in Mended(e),
             code' = [tried EXCEPT !.error = e, !.faults = f]
      PROVE  CodeInv'
  <2>1. e \in Defect \cup {"none", "timeout"} /\ n <= MaxRetries
    BY <1>1, <1>2, <1>6
  <2>2. f \subseteq Defect
    BY <1>1, <1>6 DEF Mended
  <2> HIDE DEF tried
  <2> QED
    BY <1>3, <1>6, <2>1, <2>2 DEF CodeInv, CodeTypes, CodeFits, ReportIsOfTheRun
<1>7. \/ code.faults = {} /\ code' = [tried EXCEPT !.phase = "succeeded"]
      \/ \E e \in code.faults \cup {"timeout"} :
           IF n > MaxRetries THEN code' = [tried EXCEPT !.error = e, !.phase = "failed"]
           ELSE \E f \in Mended(e) : code' = [tried EXCEPT !.error = e, !.faults = f]
  BY DEF TryCode, n
<1> HIDE DEF tried
<1> QED
  BY <1>4, <1>5, <1>6, <1>7

-----------------------------------------------------------------------------
LEMMA AgentStart == AgentInit => AgentInv
<1> SUFFICES ASSUME AgentInit PROVE AgentInv
  OBVIOUS
<1>1. (CHOOSE g \in Goals : TRUE) \in Goals /\ MaxRetries \in Nat /\ MaxRequests \in Nat /\ MaxEvents \in Nat
      /\ FirstHost \in [Asset -> Host]
  BY AgentAssumption
<1>2. plan \in Seq(PlannedStep) /\ DOMAIN plan = {} /\ goal \in Goals
  BY <1>1 DEF AgentInit
<1>3. GoalTypes
  BY <1>1, <1>2 DEF AgentInit, GoalTypes, PlanPhases, Resting
<1>4. HistoryFits /\ PlaceFits /\ GotFits /\ PlanIsBacked /\ LaunchedInOrder
  BY <1>2 DEF AgentInit, HistoryFits, PlaceFits, GotFits, PlanIsBacked, LaunchedInOrder
<1>5. CodeInv
  BY <1>1 DEF AgentInit, NoCode, CodeInv, CodeTypes, CodeFits, ReportIsOfTheRun
<1> QED
  BY <1>3, <1>4, <1>5 DEF AgentInv, GoalInv

LEMMA GoalStays == ASSUME GoalInv, UNCHANGED <<home, held, requestVars, count>> PROVE GoalInv'
<1>1. UNCHANGED <<home, held, planning, goal, asked, offered, got, plan, count>>
  BY DEF requestVars
<1>2. LaunchedInOrder'
  BY <1>1, CyclesStay DEF GoalInv, LaunchedInOrder
<1>3. GoalTypes' /\ HistoryFits' /\ PlaceFits' /\ PlanIsBacked'
  BY <1>1 DEF GoalInv, GoalTypes, HistoryFits, Registered, PlaceFits, PlanIsBacked, Backed
<1>4. GotFits'
  BY <1>1 DEF GoalInv, GotFits, Offers, Current
<1> QED
  BY <1>2, <1>3, <1>4 DEF GoalInv

LEMMA CodeStays == ASSUME CodeInv, UNCHANGED code PROVE CodeInv'
BY DEF CodeInv, CodeTypes, CodeFits, ReportIsOfTheRun

LEMMA AgentStepKeeps == ASSUME AgentInv, [AgentNext]_agentVars PROVE AgentInv'
<1>1. GoalInv /\ CodeInv
  BY DEF AgentInv
<1>2. CASE UNCHANGED agentVars
  BY <1>1, <1>2, GoalStays, CodeStays DEF agentVars, requestVars, AgentInv
<1>3. CASE WriteCode \/ TryCode
  <2>1. UNCHANGED <<home, held, requestVars, count>>
    BY <1>3 DEF WriteCode, TryCode
  <2> QED
    BY <1>1, <1>3, <2>1, GoalStays, WriteCodeKeeps, TryCodeKeeps DEF AgentInv
<1>4. CASE RequestStep
  <2>1. UNCHANGED code
    BY <1>4 DEF RequestStep, Ground, AskModel, FindSkills, FindCards, ResolveSkill, ResolveOwner, Launch, MovesOn, AddStep
  <2>2. GoalInv'
    BY <1>1, <1>4, GroundKeeps, AskModelKeeps, FindSkillsKeeps, FindCardsKeeps, ResolveSkillKeeps, ResolveOwnerKeeps,
       LaunchKeeps DEF RequestStep
  <2> QED
    BY <1>1, <2>1, <2>2, CodeStays DEF AgentInv
<1>5. CASE GiveGoal \/ GiveText
  <2>1. UNCHANGED code
    BY <1>5 DEF GiveGoal, GiveText, Request
  <2>2. CASE GiveGoal
    <3>1. PICK g \in Goals : Request(IF g.steps = <<>> THEN "skills" ELSE "step", g)
      BY <2>2 DEF GiveGoal
    <3>2. (g.steps = <<>> /\ Request("skills", g)) \/ (g.steps # <<>> /\ Request("step", g))
      BY <3>1
    <3>3. GoalInv'
      BY <1>1, <3>2, RequestKeeps
    <3> QED
      BY <1>1, <2>1, <3>3, CodeStays DEF AgentInv
  <2>3. CASE GiveText
    <3>1. goal \in Goals
      BY <1>1 DEF GoalInv, GoalTypes
    <3>2. GoalInv'
      BY <1>1, <2>3, <3>1, RequestKeeps DEF GiveText
    <3> QED
      BY <1>1, <2>1, <3>2, CodeStays DEF AgentInv
  <2> QED
    BY <1>5, <2>2, <2>3
<1>6. ASSUME NEW a \in Asset, RegistryMoves(a) PROVE AgentInv'
  BY <1>1, <1>6, RegistryMovesKeeps, CodeStays DEF RegistryMoves, AgentInv
<1> QED
  BY <1>2, <1>3, <1>4, <1>5, <1>6 DEF AgentNext, GoalNext, CodeNext

(* AgentInv holds of every run of the agents: types, how far a request is, what it has
   found out so far and who offered it, and what a piece of code has been through *)
THEOREM AgentInvariant == AgentSpec => []AgentInv
<1>1. AgentInv /\ [AgentNext]_agentVars => AgentInv'
  BY AgentStepKeeps
<1> QED
  BY <1>1, AgentStart, PTL DEF AgentSpec

(* A plan is what was found, and what was found was there *)
LEMMA PlansAreBacked == AgentInv => PlanningIsSound
<1> SUFFICES ASSUME AgentInv PROVE PlanningIsSound
  OBVIOUS
<1>1. PlanIsBacked /\ LaunchedInOrder /\ PlaceFits /\ ReportIsOfTheRun
  BY DEF AgentInv, GoalInv, CodeInv, CodeFits
<1>2. PlannedWasThere
  BY <1>1 DEF PlannedWasThere, PlanIsBacked, Backed, LaunchedInOrder
<1>3. AskedTwice
  BY <1>1 DEF AskedTwice, PlaceFits
<1> QED
  BY <1>1, <1>2, <1>3 DEF PlanningIsSound

(* Each step of a plan is for a node that offered its first card, or, without cards, its
   skill, at some moment while it was planned, however the registry changes between the
   requests; what is launched has an order; the model is asked twice at most; and the code
   agent reports what it ran last (agent/planner.py, pipeline.py, code_agent.py) *)
THEOREM PlanningSound == AgentSpec => []PlanningIsSound
<1>1. AgentInv => PlanningIsSound
  BY PlansAreBacked
<1> QED
  BY <1>1, AgentInvariant, PTL

-----------------------------------------------------------------------------
(***************************************************************************)
(* The knowledge graph and its file (KnowledgeGraph), for any entities and *)
(* contracts, any order of calls and any write that is cut off.  What is   *)
(* read is line by line what was given, by counting; as long as nothing in *)
(* the file was given again, it is what the cursor says is synced.         *)
(***************************************************************************)
(* Lists of entities, each there once; relations; graphs of them *)
EntRec == [id : Entity, version : {0, 1}]
Apart(ents) == \A i, j \in 1 .. Len(ents) : ents[i].id = ents[j].id => i = j
Ents == {s \in Seq(EntRec) : Apart(s)}
Rels == Seq(Entity \X Entity)
AGraph == [ents : Ents, rels : Rels]

LEMMA LengthsOf == ASSUME NEW g \in AGraph PROVE Len(g.ents) \in Nat /\ Len(g.rels) \in Nat
<1>1. g.ents \in Seq(EntRec) /\ g.rels \in Seq(Entity \X Entity)
  BY DEF AGraph, Ents, Rels
<1> QED
  BY <1>1

(* What is given goes to its place, or to the end *)
LEMMA PlacedFacts ==
  ASSUME NEW s \in Seq(EntRec), NEW e \in Entity, NEW v \in {0, 1}
  PROVE  /\ Placed(s, e, v) \in Seq(EntRec) /\ Len(s) <= Len(Placed(s, e, v))
         /\ s \in Ents => Placed(s, e, v) \in Ents
         /\ \A i \in 1 .. Len(s) : i \notin Position(s, e) => Placed(s, e, v)[i] = s[i]
<1> DEFINE r == [id |-> e, version |-> v]
           N == Len(s)
           h == [i \in DOMAIN s |-> IF s[i].id = e THEN r ELSE s[i]]
<1>1. r \in EntRec /\ r.id = e /\ N \in Nat /\ DOMAIN s = 1 .. N /\ \A i \in 1 .. N : s[i] \in EntRec
  <2>1. r \in EntRec /\ r.id = e
    BY DEF EntRec
  <2>2. N \in Nat /\ DOMAIN s = 1 .. N /\ \A i \in 1 .. N : s[i] \in EntRec
    OBVIOUS
  <2> QED
    BY <2>1, <2>2
<1>2. Position(s, e) = {i \in 1 .. N : s[i].id = e}
  BY <1>1 DEF Position
<1>3. CASE Position(s, e) = {}
  <2>1. Placed(s, e, v) = Append(s, r)
    BY <1>3 DEF Placed
  <2>2. /\ Append(s, r) \in Seq(EntRec) /\ Len(Append(s, r)) = N + 1
        /\ \A i \in 1 .. N : Append(s, r)[i] = s[i]
        /\ Append(s, r)[N + 1] = r
    <3> HIDE DEF r
    <3> QED
      BY <1>1
  <2>3. ASSUME s \in Ents PROVE Apart(Append(s, r))
    <3> SUFFICES ASSUME NEW i \in 1 .. N + 1, NEW j \in 1 .. N + 1, Append(s, r)[i].id = Append(s, r)[j].id
                 PROVE  i = j
      BY <2>2 DEF Apart
    <3>1. \A k \in 1 .. N : Append(s, r)[k].id # e
      BY <1>2, <1>3, <2>2
    <3> HIDE DEF r, N
    <3>2. CASE i = N + 1
      BY <1>1, <2>2, <3>1, <3>2
    <3>3. CASE j = N + 1
      BY <1>1, <2>2, <3>1, <3>3
    <3>4. CASE i # N + 1 /\ j # N + 1
      <4>1. i \in 1 .. N /\ j \in 1 .. N
        BY <1>1, <3>4
      <4> QED
        BY <2>2, <2>3, <4>1 DEF Ents, Apart, N
    <3> QED
      BY <3>2, <3>3, <3>4
  <2> HIDE DEF r
  <2> QED
    BY <1>1, <2>1, <2>2, <2>3 DEF Ents
<1>4. CASE Position(s, e) # {}
  <2>1. Placed(s, e, v) = h
    BY <1>4 DEF Placed
  <2>2. h \in [1 .. N -> EntRec] /\ \A i \in 1 .. N : h[i].id = s[i].id
    BY <1>1
  <2>3. h \in Seq(EntRec) /\ Len(h) = N
    <3> HIDE DEF h, N
    <3> QED
      BY <1>1, <2>2, SeqDef, LenProperties
  <2>4. \A i \in 1 .. N : i \notin Position(s, e) => h[i] = s[i]
    BY <1>1, <1>2
  <2> HIDE DEF h
  <2>5. ASSUME s \in Ents PROVE Apart(h)
    BY <2>2, <2>3, <2>5 DEF Apart, Ents
  <2> QED
    BY <1>1, <2>1, <2>3, <2>4, <2>5 DEF Ents
<1> QED
  BY <1>3, <1>4

(* A graph that has become more: entities at their places, relations as they were *)
Grown(g, h) ==
  /\ Len(g.ents) <= Len(h.ents) /\ Len(g.rels) <= Len(h.rels)
  /\ \A i \in 1 .. Len(g.rels) : h.rels[i] = g.rels[i]

(* The dependencies of a contract, one after the other *)
Linked(c, h) ==
  CHOOSE f : f = [k \in 0 .. Len(Requires[c]) |->
        IF k = 0 THEN h.rels
        ELSE IF Has(h, Requires[c][k]) THEN Append(f[k - 1], <<c, Requires[c][k]>>)
        ELSE f[k - 1]]

LEMMA WithContractIs ==
  ASSUME NEW g, NEW c, NEW h, h = WithEntity(g, c, 0)
  PROVE  WithContract(g, c) = [h EXCEPT !.rels = Linked(c, h)[Len(Requires[c])]]
BY DEF WithContract, Linked

LEMMA LinkedFacts ==
  ASSUME NEW c \in Entity, NEW h, h.rels \in Rels
  PROVE  LET r == Linked(c, h)[Len(Requires[c])] IN
         /\ r \in Rels /\ Len(h.rels) <= Len(r)
         /\ \A i \in 1 .. Len(h.rels) : r[i] = h.rels[i]
<1> DEFINE N == Len(Requires[c])
           R == Requires[c]
           V == Rels
           b == h.rels
           On(k, x) == IF Has(h, R[k]) THEN Append(x, <<c, R[k]>>) ELSE x
           F == [p \in (1 .. N) \X V |-> On(p[1], p[2])]
           f == Linked(c, h)
<1>1. N \in Nat /\ b \in V /\ \A k \in 1 .. N : R[k] \in Entity
  BY GraphAssumption
<1>2. ASSUME NEW k \in 1 .. N, NEW x \in V
      PROVE  On(k, x) \in V /\ Len(x) <= Len(On(k, x)) /\ \A i \in 1 .. Len(x) : On(k, x)[i] = x[i]
  BY <1>1, <1>2 DEF Rels
<1>3. F \in [(1 .. N) \X V -> V]
  <2> HIDE DEF N, V, On
  <2> QED
    BY <1>2
<1>4. PICK g \in [0 .. N -> V] : Walks(g, b, N, F)
  <2> HIDE DEF N, V, F, b
  <2> QED
    BY <1>1, <1>3, WalksExist
<1>5. g[0] = b /\ \A k \in 1 .. N : g[k] = On(k, g[k - 1])
  <2> HIDE DEF On
  <2>1. \A k \in 1 .. N : k - 1 \in 0 .. N /\ <<k, g[k - 1]>> \in (1 .. N) \X V
    <3> HIDE DEF V, N
    <3> QED
      BY <1>1, <1>4
  <2> HIDE DEF N, V
  <2> QED
    BY <1>4, <2>1 DEF Walks
<1>6. g = [k \in 0 .. N |-> IF k = 0 THEN h.rels
        ELSE IF Has(h, Requires[c][k]) THEN Append(g[k - 1], <<c, Requires[c][k]>>)
        ELSE g[k - 1]]
  <2>1. \A k \in 0 .. N : k # 0 => k \in 1 .. N
    BY <1>1
  <2> HIDE DEF N, V, F
  <2> QED
    BY <1>4, <1>5, <2>1
<1>7. f = [k \in 0 .. N |-> IF k = 0 THEN h.rels
        ELSE IF Has(h, Requires[c][k]) THEN Append(f[k - 1], <<c, Requires[c][k]>>)
        ELSE f[k - 1]]
  BY <1>6 DEF Linked
<1>8. f[0] = b /\ \A k \in 1 .. N : f[k] = On(k, f[k - 1])
  <2>1. 0 \in 0 .. N /\ \A k \in 1 .. N : k \in 0 .. N /\ k # 0
    BY <1>1
  <2> HIDE DEF N, f
  <2> QED
    BY <1>7, <2>1
<1> DEFINE D == {n \in Nat : n <= N => f[n] \in V /\ Len(b) <= Len(f[n])
                                          /\ \A i \in 1 .. Len(b) : f[n][i] = b[i]}
<1> HIDE DEF f
<1>9. 0 \in D
  BY <1>1, <1>8 DEF Rels
<1>10. ASSUME NEW n \in Nat, n \in D PROVE n + 1 \in D
  <2> SUFFICES ASSUME n + 1 <= N
               PROVE  f[n + 1] \in V /\ Len(b) <= Len(f[n + 1]) /\ \A i \in 1 .. Len(b) : f[n + 1][i] = b[i]
    OBVIOUS
  <2>1. n + 1 \in 1 .. N /\ (n + 1) - 1 = n
    BY <1>1
  <2>2. f[n] \in V /\ Len(b) <= Len(f[n]) /\ \A i \in 1 .. Len(b) : f[n][i] = b[i]
    BY <1>1, <1>10
  <2>3. f[n + 1] = On(n + 1, f[n])
    BY <1>8, <2>1
  <2> HIDE DEF On
  <2>4. /\ f[n + 1] \in V /\ Len(f[n]) <= Len(f[n + 1])
        /\ \A i \in 1 .. Len(f[n]) : f[n + 1][i] = f[n][i]
    BY <1>2, <2>1, <2>2, <2>3
  <2> QED
    BY <1>1, <2>2, <2>4 DEF Rels
<1>11. N \in D
  <2> HIDE DEF D, N
  <2> QED
    BY <1>1, <1>9, <1>10, Counting
<1>12. f[N] \in V /\ Len(b) <= Len(f[N]) /\ \A i \in 1 .. Len(b) : f[N][i] = b[i]
  BY <1>1, <1>11
<1> QED
  BY <1>12 DEF f

LEMMA WithContractFacts ==
  ASSUME NEW g \in AGraph, NEW c \in Entity
  PROVE  WithContract(g, c) \in AGraph /\ Grown(g, WithContract(g, c))
<1> DEFINE h == WithEntity(g, c, 0)
           r == Linked(c, h)[Len(Requires[c])]
<1>1. g.ents \in Ents /\ g.rels \in Rels /\ g.ents \in Seq(EntRec) /\ g = [ents |-> g.ents, rels |-> g.rels]
  BY DEF AGraph, Ents
<1>2. h = [ents |-> Placed(g.ents, c, 0), rels |-> g.rels]
  BY <1>1 DEF WithEntity
<1>3. Placed(g.ents, c, 0) \in Ents /\ Len(g.ents) <= Len(Placed(g.ents, c, 0))
  BY <1>1, PlacedFacts
<1>4. h.rels = g.rels /\ h.ents = Placed(g.ents, c, 0)
  BY <1>2
<1>5. r \in Rels /\ Len(g.rels) <= Len(r) /\ \A i \in 1 .. Len(g.rels) : r[i] = g.rels[i]
  <2> HIDE DEF h
  <2> QED
    BY <1>1, <1>4, LinkedFacts
<1>6. WithContract(g, c) = [h EXCEPT !.rels = r]
  <2> DEFINE hh == h
  <2>1. hh = WithEntity(g, c, 0)
    OBVIOUS
  <2> HIDE DEF hh
  <2>2. WithContract(g, c) = [hh EXCEPT !.rels = Linked(c, hh)[Len(Requires[c])]]
    BY <2>1, WithContractIs
  <2> QED
    BY <2>2 DEF hh
<1>7. WithContract(g, c) = [ents |-> Placed(g.ents, c, 0), rels |-> r]
  <2> HIDE DEF r, h
  <2> QED
    BY <1>2, <1>6
<1> HIDE DEF r, h
<1> QED
  BY <1>3, <1>5, <1>7 DEF AGraph, Grown

(* The contracts, one after the other *)
Importing(g) ==
  CHOOSE f : f = [n \in 0 .. Len(Contracts) |->
        IF n = 0 THEN g ELSE WithContract(f[n - 1], Contracts[n])]

LEMMA ImportedIs == ASSUME NEW g PROVE Imported(g) = Importing(g)[Len(Contracts)]
BY DEF Imported, Importing

LEMMA ImportedFacts ==
  ASSUME NEW g \in AGraph
  PROVE  Imported(g) \in AGraph /\ Grown(g, Imported(g))
<1> DEFINE N == Len(Contracts)
           V == AGraph
           F == [p \in (1 .. N) \X V |-> WithContract(p[2], Contracts[p[1]])]
           f == Importing(g)
<1>1. N \in Nat /\ \A k \in 1 .. N : Contracts[k] \in Entity
  BY GraphAssumption
<1>2. \A k \in 1 .. N, x \in V : WithContract(x, Contracts[k]) \in V /\ Grown(x, WithContract(x, Contracts[k]))
  BY <1>1, WithContractFacts
<1>3. F \in [(1 .. N) \X V -> V]
  <2> HIDE DEF N, V
  <2> QED
    BY <1>2
<1>4. PICK w \in [0 .. N -> V] : Walks(w, g, N, F)
  <2> HIDE DEF N, V, F
  <2>1. g \in V
    BY DEF V
  <2> QED
    BY <1>1, <1>3, <2>1, WalksExist
<1>5. w[0] = g /\ \A k \in 1 .. N : w[k] = WithContract(w[k - 1], Contracts[k])
  <2>1. \A k \in 1 .. N : k - 1 \in 0 .. N /\ <<k, w[k - 1]>> \in (1 .. N) \X V
    <3> HIDE DEF V, N
    <3> QED
      BY <1>1, <1>4
  <2> HIDE DEF N, V
  <2> QED
    BY <1>4, <2>1 DEF Walks
<1>6. w = [n \in 0 .. N |-> IF n = 0 THEN g ELSE WithContract(w[n - 1], Contracts[n])]
  <2>1. \A k \in 0 .. N : k # 0 => k \in 1 .. N
    BY <1>1
  <2> HIDE DEF N, V, F
  <2> QED
    BY <1>4, <1>5, <2>1
<1>7. f = [n \in 0 .. N |-> IF n = 0 THEN g ELSE WithContract(f[n - 1], Contracts[n])]
  BY <1>6 DEF Importing
<1>8. f[0] = g /\ \A k \in 1 .. N : f[k] = WithContract(f[k - 1], Contracts[k])
  <2>1. 0 \in 0 .. N /\ \A k \in 1 .. N : k \in 0 .. N /\ k # 0
    BY <1>1
  <2> HIDE DEF N, f
  <2> QED
    BY <1>7, <2>1
<1> DEFINE D == {n \in Nat : n <= N => f[n] \in V /\ Grown(g, f[n])}
<1> HIDE DEF f
<1>9. 0 \in D
  BY <1>1, <1>8 DEF Grown, AGraph, Ents, Rels
<1>10. ASSUME NEW n \in Nat, n \in D PROVE n + 1 \in D
  <2> SUFFICES ASSUME n + 1 <= N
               PROVE  f[n + 1] \in V /\ Grown(g, f[n + 1])
    OBVIOUS
  <2>1. n + 1 \in 1 .. N /\ (n + 1) - 1 = n
    BY <1>1
  <2>2. f[n] \in V /\ Grown(g, f[n])
    BY <1>1, <1>10
  <2>3. f[n + 1] \in V /\ Grown(f[n], f[n + 1])
    BY <1>2, <1>8, <2>1, <2>2
  <2>4. Grown(g, f[n + 1])
    <3>1. /\ Len(g.ents) \in Nat /\ Len(g.rels) \in Nat /\ Len(f[n].ents) \in Nat /\ Len(f[n].rels) \in Nat
          /\ Len(f[n + 1].ents) \in Nat /\ Len(f[n + 1].rels) \in Nat
      BY <1>2, <2>2, <2>3, LengthsOf
    <3>2. 1 .. Len(g.rels) \subseteq 1 .. Len(f[n].rels)
      BY <2>2, <3>1 DEF Grown
    <3>3. Len(g.ents) <= Len(f[n + 1].ents) /\ Len(g.rels) <= Len(f[n + 1].rels)
      <4>1. Len(g.ents) <= Len(f[n].ents) /\ Len(g.rels) <= Len(f[n].rels)
        BY <2>2 DEF Grown
      <4>2. Len(f[n].ents) <= Len(f[n + 1].ents) /\ Len(f[n].rels) <= Len(f[n + 1].rels)
        BY <2>3 DEF Grown
      <4>3. \A a, b, c \in Nat : a <= b /\ b <= c => a <= c
        OBVIOUS
      <4> QED
        BY <3>1, <4>1, <4>2, <4>3
    <3>4. \A i \in 1 .. Len(g.rels) : f[n + 1].rels[i] = g.rels[i]
      <4> TAKE i \in 1 .. Len(g.rels)
      <4>1. i \in 1 .. Len(f[n].rels)
        BY <3>2
      <4>2. f[n].rels[i] = g.rels[i]
        BY <2>2 DEF Grown
      <4>3. f[n + 1].rels[i] = f[n].rels[i]
        BY <2>3, <4>1 DEF Grown
      <4> QED
        BY <4>2, <4>3
    <3> QED
      BY <3>3, <3>4 DEF Grown
  <2> QED
    BY <2>3, <2>4
<1>11. N \in D
  <2> HIDE DEF D, N
  <2> QED
    BY <1>1, <1>9, <1>10, Counting
<1>12. f[N] \in V /\ Grown(g, f[N])
  BY <1>1, <1>11
<1> QED
  BY <1>12, ImportedIs DEF f

(* The lines of a file, one after the other *)
Reading(lines) ==
  CHOOSE f : f = [n \in 0 .. Len(lines) |->
        IF n = 0 THEN <<>> ELSE Placed(f[n - 1], lines[n].id, lines[n].version)]

LEMMA ReadIs == ASSUME NEW lines PROVE Read(lines) = Reading(lines)[Len(lines)]
BY DEF Read, Reading

LEMMA ReadingSteps ==
  ASSUME NEW lines \in Seq(EntRec), NEW f, f = Reading(lines)
  PROVE  /\ f[0] = <<>>
         /\ \A n \in 1 .. Len(lines) : f[n] = Placed(f[n - 1], lines[n].id, lines[n].version)
         /\ \A n \in 0 .. Len(lines) : f[n] \in Ents
<1> DEFINE N == Len(lines)
           V == Ents
           F == [p \in (1 .. N) \X V |-> Placed(p[2], lines[p[1]].id, lines[p[1]].version)]
           b == <<>>
<1>1. N \in Nat /\ \A k \in 1 .. N : lines[k].id \in Entity /\ lines[k].version \in {0, 1}
  <2>1. N \in Nat /\ \A k \in 1 .. N : lines[k] \in EntRec
    OBVIOUS
  <2> QED
    BY <2>1 DEF EntRec
<1>2. \A k \in 1 .. N, x \in V : Placed(x, lines[k].id, lines[k].version) \in V
  BY <1>1, PlacedFacts DEF Ents
<1>3. F \in [(1 .. N) \X V -> V]
  <2> HIDE DEF N, V
  <2> QED
    BY <1>2
<1>b. b \in V
  <2>1. b \in Seq(EntRec) /\ Len(b) = 0
    OBVIOUS
  <2> HIDE DEF b
  <2> QED
    BY <2>1 DEF Ents, Apart
<1>4. PICK w \in [0 .. N -> V] : Walks(w, b, N, F)
  <2> HIDE DEF N, V, F, b
  <2> QED
    BY <1>1, <1>3, <1>b, WalksExist
<1>5. w[0] = b /\ \A k \in 1 .. N : w[k] = Placed(w[k - 1], lines[k].id, lines[k].version)
  <2>1. \A k \in 1 .. N : k - 1 \in 0 .. N /\ <<k, w[k - 1]>> \in (1 .. N) \X V
    <3> HIDE DEF V, N
    <3> QED
      BY <1>1, <1>4
  <2> HIDE DEF N, V
  <2> QED
    BY <1>4, <2>1 DEF Walks
<1>6. w = [n \in 0 .. N |-> IF n = 0 THEN <<>> ELSE Placed(w[n - 1], lines[n].id, lines[n].version)]
  <2>1. \A k \in 0 .. N : k # 0 => k \in 1 .. N
    BY <1>1
  <2> HIDE DEF N, V, F
  <2> QED
    BY <1>4, <1>5, <2>1
<1>7. f = [n \in 0 .. N |-> IF n = 0 THEN <<>> ELSE Placed(f[n - 1], lines[n].id, lines[n].version)]
  BY <1>6 DEF Reading
<1>8. f[0] = b /\ \A k \in 1 .. N : f[k] = Placed(f[k - 1], lines[k].id, lines[k].version)
  <2>1. 0 \in 0 .. N /\ \A k \in 1 .. N : k \in 0 .. N /\ k # 0
    BY <1>1
  <2> HIDE DEF N
  <2> QED
    BY <1>7, <2>1
<1> DEFINE D == {n \in Nat : n <= N => f[n] \in V}
<1>9. 0 \in D
  BY <1>b, <1>8
<1>10. ASSUME NEW n \in Nat, n \in D PROVE n + 1 \in D
  <2> SUFFICES ASSUME n + 1 <= N
               PROVE  f[n + 1] \in V
    OBVIOUS
  <2>1. n + 1 \in 1 .. N /\ (n + 1) - 1 = n
    BY <1>1
  <2>2. f[n] \in V
    BY <1>1, <1>10
  <2> HIDE DEF N, V
  <2> QED
    BY <1>2, <1>8, <2>1, <2>2
<1>11. \A n \in 0 .. N : n \in D
  <2> HIDE DEF D, N
  <2> QED
    BY <1>1, <1>9, <1>10, Counting
<1>12. \A n \in 0 .. N : f[n] \in V
  BY <1>1, <1>11
<1> QED
  BY <1>8, <1>12

LEMMA ReadType == ASSUME NEW lines \in Seq(EntRec) PROVE Read(lines) \in Ents
<1>1. Len(lines) \in 0 .. Len(lines)
  OBVIOUS
<1> QED
  BY <1>1, ReadIs, ReadingSteps

LEMMA ReadNothing == Read(<<>>) = <<>>
<1> DEFINE none == <<>>
<1>1. none \in Seq(EntRec) /\ Len(none) = 0
  OBVIOUS
<1>2. Read(none) = Reading(none)[0]
  BY <1>1, ReadIs
<1>3. Reading(none)[0] = <<>>
  <2> HIDE DEF none
  <2> QED
    BY <1>1, ReadingSteps
<1> QED
  BY <1>2, <1>3

(* One list with the first n elements of another behind it: the read file while
   its last lines come in *)
Beginning(s, u, n) == s \o SubSeq(u, 1, n)

(* It starts as the first list, ends as the whole, and grows by an element *)
LEMMA BeginningEnds ==
  ASSUME NEW S, NEW s \in Seq(S), NEW u \in Seq(S)
  PROVE  Beginning(s, u, 0) = s /\ Beginning(s, u, Len(u)) = s \o u
<1> DEFINE none == <<>>
<1>1. SubSeq(u, 1, 0) = none /\ none \in Seq(S)
  OBVIOUS
<1>2. SubSeq(u, 1, Len(u)) = u
  OBVIOUS
<1>3. s \o <<>> = s
  BY ConcatEmptySeq
<1>4. Beginning(s, u, 0) = s \o SubSeq(u, 1, 0) /\ Beginning(s, u, Len(u)) = s \o SubSeq(u, 1, Len(u))
  BY Zenon DEF Beginning
<1> QED
  BY <1>1, <1>2, <1>3, <1>4, Zenon

LEMMA BeginningGrows ==
  ASSUME NEW S, NEW s \in Seq(S), NEW u \in Seq(S), NEW n \in Nat, n + 1 <= Len(u)
  PROVE  Beginning(s, u, n + 1) = Append(Beginning(s, u, n), u[n + 1])
<1> DEFINE cut == SubSeq(u, 1, n)
           m == u[n + 1]
           one == <<m>>
<1>1. cut \in Seq(S) /\ m \in S /\ one \in Seq(S)
  BY LenProperties
<1>2. SubSeq(u, 1, n + 1) = Append(cut, m)
  BY LenProperties
<1>3. Beginning(s, u, n + 1) = s \o SubSeq(u, 1, n + 1) /\ Beginning(s, u, n) = s \o cut
  BY Zenon DEF Beginning
<1> HIDE DEF cut
<1>4. s \o cut \in Seq(S)
  BY <1>1, ConcatProperties
<1>5. Append(s \o cut, m) = (s \o cut) \o one /\ Append(cut, m) = cut \o one
  BY <1>1, <1>4, AppendIsConcat
<1> HIDE DEF one, m
<1>6. (s \o cut) \o one = s \o (cut \o one)
  <2>1. one \in Seq(S) /\ cut \in Seq(S)
    BY <1>1
  <2> QED
    BY <2>1, ConcatAssociative
<1>7. Append(Beginning(s, u, n), m) = Beginning(s, u, n + 1)
  BY <1>2, <1>3, <1>5, <1>6, Zenon
<1> QED
  BY <1>7, Zenon DEF m

(* What comes in later changes nothing of what is there *)
LEMMA BeginningStays ==
  ASSUME NEW S, NEW s \in Seq(S), NEW u \in Seq(S), NEW n \in Nat, n <= Len(u)
  PROVE  /\ DOMAIN Beginning(s, u, n) = 1 .. Len(s) + n
         /\ \A j \in 1 .. Len(s) + n : Beginning(s, u, n)[j] = Beginning(s, u, Len(u))[j]
         /\ n + 1 <= Len(u) => Beginning(s, u, Len(u))[Len(s) + (n + 1)] = u[n + 1]
<1> DEFINE cut == SubSeq(u, 1, n)
<1>1. Len(s) \in Nat /\ Len(u) \in Nat
  BY LenProperties
<1>2. cut \in Seq(S) /\ Len(cut) = n /\ \A j \in 1 .. n : cut[j] = u[j]
  BY <1>1
<1>0. Beginning(s, u, n) = s \o cut /\ Beginning(s, u, Len(u)) = s \o u
  BY BeginningEnds, Zenon DEF Beginning
<1> HIDE DEF cut
<1>3. /\ Len(s \o u) = Len(s) + Len(u) /\ Len(s \o cut) = Len(s) + n /\ s \o cut \in Seq(S)
      /\ \A j \in 1 .. Len(s) + n : (s \o cut)[j] = IF j <= Len(s) THEN s[j] ELSE cut[j - Len(s)]
      /\ \A j \in 1 .. Len(s) + Len(u) : (s \o u)[j] = IF j <= Len(s) THEN s[j] ELSE u[j - Len(s)]
  BY <1>1, <1>2, ConcatProperties
<1>4. DOMAIN (s \o cut) = 1 .. Len(s) + n
  BY <1>3
<1>5. ASSUME NEW j \in 1 .. Len(s) + n
      PROVE  (s \o cut)[j] = (s \o u)[j]
  <2>1. j \in 1 .. Len(s) + Len(u) /\ (~ j <= Len(s) => j - Len(s) \in 1 .. n)
    BY <1>1
  <2> QED
    BY <1>2, <1>3, <2>1
<1>6. ASSUME n + 1 <= Len(u)
      PROVE  (s \o u)[Len(s) + (n + 1)] = u[n + 1]
  <2>1. /\ Len(s) + (n + 1) \in 1 .. Len(s) + Len(u) /\ ~ Len(s) + (n + 1) <= Len(s)
        /\ (Len(s) + (n + 1)) - Len(s) = n + 1
    BY <1>1, <1>6
  <2> QED
    BY <1>3, <2>1
<1> QED
  BY <1>0, <1>4, <1>5, <1>6, Zenon

(* A line of a new id is written behind what was read so far *)
LEMMA NextLine ==
  ASSUME NEW r \in Seq(EntRec), NEW more \in Seq(EntRec), Beginning(r, more, Len(more)) \in Ents,
         NEW n \in Nat, n + 1 <= Len(more)
  PROVE  Placed(Beginning(r, more, n), more[n + 1].id, more[n + 1].version) = Beginning(r, more, n + 1)
<1> DEFINE K == Len(r)
           s == Beginning(r, more, n)
           t == Beginning(r, more, Len(more))
           m == more[n + 1]
<1>1. K \in Nat /\ Len(more) \in Nat /\ n <= Len(more) /\ m \in EntRec
  BY LenProperties
<1>2. /\ DOMAIN s = 1 .. K + n /\ DOMAIN t = 1 .. K + Len(more)
      /\ \A j \in 1 .. K + n : s[j] = t[j]
      /\ t[K + (n + 1)] = m
  <2>1. Len(more) <= Len(more)
    BY <1>1
  <2>2. DOMAIN t = 1 .. K + Len(more)
    BY <2>1, BeginningStays
  <2>5. n <= Len(more)
    BY <1>1
  <2>3. /\ DOMAIN s = 1 .. K + n
        /\ \A j \in 1 .. K + n : s[j] = t[j]
    BY <2>5, BeginningStays
  <2>4. t[K + (n + 1)] = m
    BY <2>5, BeginningStays
  <2> QED
    BY <2>2, <2>3, <2>4, Zenon
<1>3. Beginning(r, more, n + 1) = Append(s, m)
  BY BeginningGrows, Zenon
<1>4. t \in Ents
  OBVIOUS
<1>5. K + (n + 1) \in 1 .. K + Len(more) /\ \A i \in 1 .. K + n : i \in 1 .. K + Len(more) /\ i # K + (n + 1)
  BY <1>1
<1> HIDE DEF s, t, m, K
<1>6. m = [id |-> m.id, version |-> m.version]
  BY <1>1 DEF EntRec
<1>7. Position(s, m.id) = {}
  <2> SUFFICES ASSUME NEW i \in DOMAIN s, s[i].id = m.id PROVE FALSE
    BY DEF Position
  <2>1. i \in DOMAIN t /\ K + (n + 1) \in DOMAIN t /\ i # K + (n + 1) /\ t[i].id = t[K + (n + 1)].id
    BY <1>2, <1>5
  <2>2. Apart(t)
    BY <1>4, Zenon DEF Ents
  <2>3. DOMAIN t = 1 .. Len(t)
    BY <1>4 DEF Ents
  <2> QED
    BY <2>1, <2>2, <2>3, Zenon DEF Apart
<1>8. Placed(s, m.id, m.version) = Append(s, m)
  BY <1>6, <1>7 DEF Placed
<1> QED
  BY <1>3, <1>8 DEF s, m

(* Lines that bring nothing that was given before come to the end as they are *)
LEMMA ReadOn ==
  ASSUME NEW lines \in Seq(EntRec), NEW more \in Seq(EntRec), Read(lines) \o more \in Ents
  PROVE  Read(lines \o more) = Read(lines) \o more
<1> DEFINE N == Len(lines)
           M == Len(more)
           all == lines \o more
           f == Reading(lines)
           h == Reading(all)
           r == Read(lines)
<1>1. /\ N \in Nat /\ M \in Nat /\ all \in Seq(EntRec) /\ Len(all) = N + M
      /\ \A i \in 1 .. N : all[i] = lines[i]
      /\ \A i \in 1 .. M : all[N + i] = more[i]
  OBVIOUS
<1>2. /\ f[0] = <<>> /\ \A n \in 1 .. N : f[n] = Placed(f[n - 1], lines[n].id, lines[n].version)
      /\ f[N] = r /\ r \in Ents
  BY ReadingSteps, ReadIs, ReadType
<1>3. /\ h[0] = <<>> /\ \A n \in 1 .. N + M : h[n] = Placed(h[n - 1], all[n].id, all[n].version)
      /\ h[N + M] = Read(all)
  <2> DEFINE g == Reading(all)
             L == Len(all)
  <2> HIDE DEF all
  <2>1. g[0] = <<>> /\ \A n \in 1 .. L : g[n] = Placed(g[n - 1], all[n].id, all[n].version)
    <3> HIDE DEF L
    <3>1. g = Reading(all)
      OBVIOUS
    <3> HIDE DEF g
    <3> QED
      BY <1>1, <3>1, ReadingSteps DEF L
  <2>2. g[L] = Read(all)
    BY ReadIs
  <2>3. L = N + M
    BY <1>1
  <2> HIDE DEF L
  <2> QED
    BY <2>1, <2>2, <2>3
<1> HIDE DEF f, h, all, r
<1> DEFINE D == {n \in Nat : n <= N => h[n] = f[n]}
<1>4. 0 \in D
  BY <1>2, <1>3
<1>5. ASSUME NEW n \in Nat, n \in D PROVE n + 1 \in D
  <2> SUFFICES ASSUME n + 1 <= N PROVE h[n + 1] = f[n + 1]
    OBVIOUS
  <2>1. n + 1 \in 1 .. N /\ n + 1 \in 1 .. N + M /\ (n + 1) - 1 = n /\ h[n] = f[n]
    BY <1>1, <1>5
  <2> HIDE DEF N, M
  <2>2. h[n + 1] = Placed(h[n], all[n + 1].id, all[n + 1].version)
    BY <1>3, <2>1
  <2>3. f[n + 1] = Placed(f[n], lines[n + 1].id, lines[n + 1].version)
    BY <1>2, <2>1
  <2>4. all[n + 1] = lines[n + 1]
    BY <1>1, <2>1
  <2> QED
    BY <2>1, <2>2, <2>3, <2>4
<1>6. h[N] = r
  <2>1. N \in D
    <3> HIDE DEF D, N
    <3> QED
      BY <1>1, <1>4, <1>5, Counting
  <2> QED
    BY <1>1, <1>2, <2>1
<1> DEFINE E == {n \in Nat : n <= M => h[N + n] = Beginning(r, more, n)}
<1>12. r \in Seq(EntRec)
  BY <1>2 DEF Ents
<1>13. Beginning(r, more, 0) = r /\ Beginning(r, more, M) = r \o more
  BY <1>12, BeginningEnds, Zenon
<1>14. Beginning(r, more, M) \in Ents
  BY <1>13, Zenon DEF r
<1>7. 0 \in E
  <2>1. N + 0 = N
    BY <1>1
  <2> QED
    BY <1>6, <1>13, <2>1
<1>8. ASSUME NEW n \in Nat, n \in E PROVE n + 1 \in E
  <2> SUFFICES ASSUME n + 1 <= M PROVE h[N + (n + 1)] = Beginning(r, more, n + 1)
    OBVIOUS
  <2> DEFINE s == Beginning(r, more, n)
             m == more[n + 1]
  <2>1. N + (n + 1) \in 1 .. N + M /\ (N + (n + 1)) - 1 = N + n /\ h[N + n] = s /\ n + 1 \in 1 .. M
    BY <1>1, <1>8
  <2>2. h[N + (n + 1)] = Placed(s, m.id, m.version)
    <3>1. all[N + (n + 1)] = m
      BY <1>1, <2>1
    <3> HIDE DEF s, m, N, M
    <3> QED
      BY <1>3, <2>1, <3>1
  <2>3. Placed(s, m.id, m.version) = Beginning(r, more, n + 1)
    BY <1>12, <1>14, NextLine, Zenon
  <2> QED
    BY <2>2, <2>3, Zenon
<1>9. M \in E
  <2> HIDE DEF E, M
  <2> QED
    BY <1>1, <1>7, <1>8, Counting
<1>10. h[N + M] = Beginning(r, more, M)
  <2> HIDE DEF M, N
  <2> QED
    BY <1>1, <1>9
<1> QED
  BY <1>3, <1>10, <1>13, Zenon DEF all, r

(* A list without repetition is read as it is *)
LEMMA ReadAll == ASSUME NEW s \in Ents PROVE Read(s) = s
<1> DEFINE none == <<>>
<1>1. s \in Seq(EntRec) /\ none \in Seq(EntRec) /\ none \o s = s /\ Read(none) = none
  BY ReadNothing DEF Ents
<1> HIDE DEF none
<1>2. Read(none) \o s \in Ents
  BY <1>1
<1> QED
  BY <1>1, <1>2, ReadOn

(* What is in a file, where an entity may be twice, and the file *)
ALines == [ents : Seq(EntRec), rels : Rels]
AStore == [format : Formats, there : BOOLEAN, sound : BOOLEAN, lines : ALines]

(* The first n of a list *)
Upto(s, n) == SubSeq(s, 1, n)

(* A file that is of this graph and can be read has what the cursor says *)
KeptInv ==
  /\ graph \in AGraph /\ store \in AStore
  /\ synced \in [ents : Nat, rels : Nat]
  /\ synced.ents <= Len(graph.ents) /\ synced.rels <= Len(graph.rels)
  /\ link \in {"current", "behind", "apart"}
  /\ revised \in BOOLEAN /\ dropped \in BOOLEAN /\ calls \in 0 .. MaxCalls
  /\ ~store.there => synced = NoneSynced /\ store.lines = NoGraph
  /\ link = "current" => synced.ents = Len(graph.ents) /\ synced.rels = Len(graph.rels)
  /\ link # "apart" /\ store.sound /\ ~revised =>
       /\ Read(store.lines.ents) = Upto(graph.ents, synced.ents)
       /\ store.lines.rels = Upto(graph.rels, synced.rels)

LEMMA NothingIsAGraph ==
  /\ NoGraph \in AGraph /\ NoGraph \in ALines /\ Len(NoGraph.ents) = 0 /\ Len(NoGraph.rels) = 0
  /\ NoGraph.ents = <<>> /\ NoGraph.rels = <<>>
<1>1. \A S : <<>> \in Seq(S)
  BY EmptySeq
<1>2. <<>> \in Ents
  BY <1>1 DEF Ents, Apart
<1> QED
  BY <1>1, <1>2 DEF NoGraph, AGraph, ALines, Rels

LEMMA GraphFacts ==
  ASSUME NEW g \in AGraph
  PROVE  /\ g.ents \in Ents /\ g.ents \in Seq(EntRec) /\ g.rels \in Rels /\ g.rels \in Seq(Entity \X Entity)
         /\ Len(g.ents) \in Nat /\ Len(g.rels) \in Nat
         /\ g \in ALines /\ g = [ents |-> g.ents, rels |-> g.rels]
BY DEF AGraph, Ents, Rels, ALines

LEMMA KeptAtFirst == GraphInit => KeptInv
<1> SUFFICES ASSUME GraphInit PROVE KeptInv
  OBVIOUS
<1>1. PICK f \in Formats : store = NoStore(f)
  BY DEF GraphInit
<1>2. store \in AStore /\ store.lines = NoGraph
  BY <1>1, NothingIsAGraph DEF NoStore, AStore
<1>3. synced \in [ents : Nat, rels : Nat] /\ synced.ents = 0 /\ synced.rels = 0
  BY DEF GraphInit, NoneSynced
<1>4. revised \in BOOLEAN /\ dropped \in BOOLEAN
  BY DEF GraphInit
<1>5. calls \in 0 .. MaxCalls
  BY GraphAssumption DEF GraphInit
<1> QED
  BY <1>2, <1>3, <1>4, <1>5, NothingIsAGraph DEF GraphInit, KeptInv

(* A first part is that of whatever goes on in the same way *)
LEMMA SameBeginning ==
  ASSUME NEW S, NEW s \in Seq(S), NEW t \in Seq(S), NEW n \in 0 .. Len(s), Len(s) <= Len(t),
         \A i \in 1 .. n : t[i] = s[i]
  PROVE  Upto(t, n) = Upto(s, n)
<1> DEFINE a == Upto(s, n)
           b == Upto(t, n)
<1>1. a \in Seq(S) /\ Len(a) = n /\ b \in Seq(S) /\ Len(b) = n
  BY DEF Upto
<1>2. \A i \in 1 .. n : a[i] = s[i] /\ b[i] = t[i]
  BY DEF Upto
<1> HIDE DEF a, b
<1>3. \A i \in 1 .. Len(b) : b[i] = a[i]
  BY <1>1, <1>2
<1>4. b = a
  BY <1>1, <1>3, SeqEqual
<1> QED
  BY <1>4 DEF a, b

(* The graph grows where the file does not reach *)
LEMMA GrowthKeeps ==
  ASSUME KeptInv, graph' \in AGraph, Grown(graph, graph'), Changed, Calls,
         revised' \in BOOLEAN, dropped' \in BOOLEAN, revised => revised',
         ~revised' => \A i \in 1 .. synced.ents : graph'.ents[i] = graph.ents[i],
         UNCHANGED <<synced, store>>
  PROVE  KeptInv'
<1>1. /\ graph.ents \in Seq(EntRec) /\ graph.rels \in Seq(Entity \X Entity)
      /\ graph'.ents \in Seq(EntRec) /\ graph'.rels \in Seq(Entity \X Entity)
      /\ Len(graph.ents) \in Nat /\ Len(graph.rels) \in Nat /\ Len(graph'.ents) \in Nat /\ Len(graph'.rels) \in Nat
  BY GraphFacts DEF KeptInv
<1>2. /\ synced.ents \in Nat /\ synced.rels \in Nat
      /\ synced.ents <= Len(graph.ents) /\ synced.rels <= Len(graph.rels)
  BY DEF KeptInv
<1>3. Len(graph.ents) <= Len(graph'.ents) /\ Len(graph.rels) <= Len(graph'.rels)
      /\ \A i \in 1 .. Len(graph.rels) : graph'.rels[i] = graph.rels[i]
  BY DEF Grown
<1>4. synced.ents <= Len(graph'.ents) /\ synced.rels <= Len(graph'.rels)
  BY <1>1, <1>2, <1>3
<1>5. Upto(graph'.rels, synced.rels) = Upto(graph.rels, synced.rels)
  <2>1. synced.rels \in 0 .. Len(graph.rels) /\ \A i \in 1 .. synced.rels : graph'.rels[i] = graph.rels[i]
    BY <1>1, <1>2, <1>3
  <2> QED
    BY <1>1, <1>3, <2>1, SameBeginning
<1>6. ASSUME ~revised' PROVE Upto(graph'.ents, synced.ents) = Upto(graph.ents, synced.ents)
  <2>1. synced.ents \in 0 .. Len(graph.ents)
    BY <1>1, <1>2
  <2> QED
    BY <1>1, <1>3, <1>6, <2>1, SameBeginning
<1>7. link' # "current" /\ link' \in {"current", "behind", "apart"} /\ (link' # "apart" => link # "apart")
  BY DEF Changed, KeptInv
<1>8. calls' \in 0 .. MaxCalls
  BY GraphAssumption DEF Calls, KeptInv
<1> QED
  BY <1>4, <1>5, <1>6, <1>7, <1>8 DEF KeptInv

LEMMA AddEntityKeeps == ASSUME KeptInv, NEW e \in Entity, AddEntity(e) PROVE KeptInv'
<1>1. PICK v \in {0, 1} : graph' = WithEntity(graph, e, v)
  BY DEF AddEntity
<1> DEFINE s == graph.ents
<1>2. graph \in AGraph /\ s \in Ents /\ s \in Seq(EntRec) /\ graph = [ents |-> s, rels |-> graph.rels]
  BY GraphFacts DEF KeptInv
<1>3. graph' = [ents |-> Placed(s, e, v), rels |-> graph.rels]
  BY <1>1, <1>2 DEF WithEntity
<1>4. /\ Placed(s, e, v) \in Ents /\ Len(s) <= Len(Placed(s, e, v))
      /\ \A i \in 1 .. Len(s) : i \notin Position(s, e) => Placed(s, e, v)[i] = s[i]
  BY <1>2, PlacedFacts
<1>5. graph'.ents = Placed(s, e, v) /\ graph'.rels = graph.rels
  BY <1>3
<1>6. graph' \in AGraph /\ Grown(graph, graph')
  BY <1>2, <1>3, <1>4, <1>5, GraphFacts DEF AGraph, Grown
<1>7. revised' \in BOOLEAN /\ (revised => revised') /\ dropped' \in BOOLEAN
      /\ (~revised' => \A i \in Position(s, e) : ~ (i <= synced.ents))
  BY DEF AddEntity, KeptInv
<1>8. ASSUME ~revised', NEW i \in 1 .. synced.ents PROVE graph'.ents[i] = graph.ents[i]
  <2>1. i \in 1 .. Len(s) /\ i <= synced.ents
    BY GraphFacts DEF KeptInv
  <2> QED
    BY <1>4, <1>5, <1>7, <1>8, <2>1
<1> QED
  BY <1>6, <1>7, <1>8, GrowthKeeps DEF AddEntity

LEMMA AddRelationKeeps == ASSUME KeptInv, NEW s \in Entity, NEW t \in Entity, AddRelation(s, t) PROVE KeptInv'
<1>1. graph \in AGraph /\ graph.rels \in Rels /\ graph.ents \in Ents /\ graph = [ents |-> graph.ents, rels |-> graph.rels]
  BY GraphFacts DEF KeptInv
<1> DEFINE r == Append(graph.rels, <<s, t>>)
<1>2. graph' = [ents |-> graph.ents, rels |-> r]
  BY <1>1 DEF AddRelation, WithRelation
<1>3. r \in Rels /\ Len(graph.rels) <= Len(r) /\ \A i \in 1 .. Len(graph.rels) : r[i] = graph.rels[i]
  BY <1>1 DEF Rels
<1>4. Len(graph.ents) \in Nat
  BY <1>1, GraphFacts
<1> HIDE DEF r
<1>5. graph' \in AGraph /\ Grown(graph, graph') /\ graph'.ents = graph.ents
  BY <1>1, <1>2, <1>3, <1>4 DEF AGraph, Grown
<1>6. revised' \in BOOLEAN /\ dropped' \in BOOLEAN /\ (revised => revised')
  BY DEF AddRelation, KeptInv
<1> QED
  BY <1>5, <1>6, GrowthKeeps DEF AddRelation

LEMMA ImportKeeps == ASSUME KeptInv, ImportContracts PROVE KeptInv'
<1>1. graph' = Imported(graph) /\ Changed /\ Calls /\ UNCHANGED <<synced, store>>
  BY DEF ImportContracts
<1>2. graph' \in AGraph /\ Grown(graph, graph')
  BY <1>1, ImportedFacts DEF KeptInv
<1>3. revised' \in BOOLEAN /\ dropped' \in BOOLEAN /\ (revised => revised')
      /\ (~revised' => \A i \in 1 .. synced.ents : graph'.ents[i] = graph.ents[i])
  BY DEF ImportContracts, KeptInv
<1> QED
  BY <1>1, <1>2, <1>3, GrowthKeeps

LEMMA CallsCount == ASSUME KeptInv, Calls PROVE calls' \in 0 .. MaxCalls
BY GraphAssumption DEF KeptInv, Calls

LEMMA SaveGraphKeeps == ASSUME KeptInv, SaveGraph PROVE KeptInv'
<1>1. graph \in AGraph /\ graph' = graph
  BY DEF KeptInv, SaveGraph
<1>2. /\ Len(graph.ents) \in Nat /\ Len(graph.rels) \in Nat /\ graph \in ALines /\ graph.ents \in Ents
      /\ graph.ents \in Seq(EntRec) /\ graph.rels \in Seq(Entity \X Entity)
  BY <1>1, GraphFacts
<1>3. store' \in AStore /\ store'.there /\ store'.lines = graph
  BY <1>2 DEF KeptInv, SaveGraph, AStore
<1>4. synced' = [ents |-> Len(graph.ents), rels |-> Len(graph.rels)] /\ synced' \in [ents : Nat, rels : Nat]
  BY <1>2 DEF SaveGraph, AllSynced
<1>5. Read(graph.ents) = graph.ents
  BY <1>2, ReadAll
<1>6. Upto(graph.ents, Len(graph.ents)) = graph.ents /\ Upto(graph.rels, Len(graph.rels)) = graph.rels
  BY <1>2, SubSeqFull DEF Upto
<1>7. calls' \in 0 .. MaxCalls
  BY CallsCount DEF SaveGraph
<1>8. revised' \in BOOLEAN /\ dropped' \in BOOLEAN
  BY DEF KeptInv, SaveGraph
<1> QED
  BY <1>1, <1>2, <1>3, <1>4, <1>5, <1>6, <1>7, <1>8 DEF KeptInv, SaveGraph

(* What the cursor splits *)
LEMMA Split ==
  ASSUME NEW S, NEW s \in Seq(S), NEW n \in Nat, n <= Len(s)
  PROVE  /\ SubSeq(s, n + 1, Len(s)) \in Seq(S)
         /\ Upto(s, n) \o SubSeq(s, n + 1, Len(s)) = s
         /\ n = Len(s) => SubSeq(s, n + 1, Len(s)) = <<>>
<1>1. Len(s) \in Nat /\ 1 \in 1 .. Len(s) + 1 /\ n \in 1 - 1 .. Len(s) /\ Len(s) \in n .. Len(s)
  BY LenProperties
<1>2. SubSeq(s, 1, n) \o SubSeq(s, n + 1, Len(s)) = SubSeq(s, 1, Len(s))
  BY <1>1, ConcatAdjacentSubSeq
<1>3. SubSeq(s, n + 1, Len(s)) \in Seq(S)
  BY <1>1
<1>4. n = Len(s) => SubSeq(s, n + 1, Len(s)) = <<>>
  BY <1>1, SubSeqEmpty
<1> QED
  BY <1>2, <1>3, <1>4, SubSeqFull DEF Upto

(* What is new and what is synced are the graph *)
LEMMA NewFacts ==
  ASSUME KeptInv
  PROVE  /\ New \in ALines
         /\ Upto(graph.ents, synced.ents) \o New.ents = graph.ents
         /\ Upto(graph.rels, synced.rels) \o New.rels = graph.rels
         /\ link = "current" => New = NoGraph
<1>1. /\ graph.ents \in Seq(EntRec) /\ graph.rels \in Seq(Entity \X Entity)
      /\ synced.ents \in Nat /\ synced.rels \in Nat
      /\ synced.ents <= Len(graph.ents) /\ synced.rels <= Len(graph.rels)
  BY GraphFacts DEF KeptInv
<1> DEFINE a == SubSeq(graph.ents, synced.ents + 1, Len(graph.ents))
           b == SubSeq(graph.rels, synced.rels + 1, Len(graph.rels))
<1>2. a \in Seq(EntRec) /\ Upto(graph.ents, synced.ents) \o a = graph.ents
      /\ (synced.ents = Len(graph.ents) => a = <<>>)
  BY <1>1, Split
<1>3. b \in Seq(Entity \X Entity) /\ Upto(graph.rels, synced.rels) \o b = graph.rels
      /\ (synced.rels = Len(graph.rels) => b = <<>>)
  BY <1>1, Split
<1>4. New = [ents |-> a, rels |-> b]
  BY DEF New
<1> HIDE DEF a, b
<1> QED
  BY <1>2, <1>3, <1>4 DEF ALines, Rels, NoGraph, KeptInv

LEMMA AppendKeeps == ASSUME KeptInv, AppendNew PROVE KeptInv'
<1> DEFINE L == store.lines
<1>1. graph \in AGraph /\ graph' = graph /\ store \in AStore /\ revised' = revised /\ dropped' = dropped
  BY DEF KeptInv, AppendNew
<1>2. /\ Len(graph.ents) \in Nat /\ Len(graph.rels) \in Nat /\ graph.ents \in Ents
      /\ graph.ents \in Seq(EntRec) /\ graph.rels \in Seq(Entity \X Entity)
  BY <1>1, GraphFacts
<1>3. L \in ALines /\ L.ents \in Seq(EntRec) /\ L.rels \in Seq(Entity \X Entity)
  BY <1>1 DEF AStore, ALines, Rels
<1>n. New \in ALines /\ New.ents \in Seq(EntRec) /\ New.rels \in Seq(Entity \X Entity)
  BY NewFacts DEF ALines, Rels
<1>4. Longer(L, New) \in ALines /\ Longer(L, New).ents = L.ents \o New.ents /\ Longer(L, New).rels = L.rels \o New.rels
  BY <1>3, <1>n, ConcatProperties DEF Longer, ALines, Rels
<1>5. Readable \in BOOLEAN
  BY <1>1 DEF Readable, AStore
<1>6. store' = [format |-> store.format, there |-> TRUE, sound |-> Readable, lines |-> Longer(L, New)]
  BY <1>1 DEF AppendNew, AStore
<1>7. store' \in AStore /\ store'.there = TRUE /\ store'.sound = Readable /\ store'.lines = Longer(L, New)
  BY <1>1, <1>4, <1>5, <1>6 DEF AStore
<1>8. synced' = [ents |-> Len(graph.ents), rels |-> Len(graph.rels)] /\ synced' \in [ents : Nat, rels : Nat]
  BY <1>2 DEF AppendNew, AllSynced
<1>9. calls' \in 0 .. MaxCalls
  BY CallsCount DEF AppendNew
<1>10. ASSUME link' # "apart", store'.sound, ~revised
       PROVE  Read(store'.lines.ents) = graph.ents /\ store'.lines.rels = graph.rels
  <2>1. store.sound /\ (link # "apart" \/ ~store.there)
    BY <1>7, <1>10 DEF AppendNew, Readable
  <2>2. Read(L.ents) = Upto(graph.ents, synced.ents) /\ L.rels = Upto(graph.rels, synced.rels)
    <3>1. CASE link # "apart"
      BY <1>10, <2>1, <3>1 DEF KeptInv
    <3>2. CASE ~store.there
      <4>1. L.ents = <<>> /\ L.rels = <<>> /\ synced.ents = 0 /\ synced.rels = 0
        BY <3>2, NothingIsAGraph DEF KeptInv, NoneSynced
      <4>2. Upto(graph.ents, 0) = <<>> /\ Upto(graph.rels, 0) = <<>>
        BY SubSeqEmpty DEF Upto
      <4> QED
        BY <4>1, <4>2, ReadNothing
    <3> QED
      BY <2>1, <3>1, <3>2
  <2>3. Read(L.ents) \o New.ents = graph.ents
    BY <2>2, NewFacts
  <2>4. Read(L.ents \o New.ents) = Read(L.ents) \o New.ents
    <3> HIDE DEF L
    <3>1. Read(L.ents) \o New.ents \in Ents
      BY <1>2, <2>3
    <3> QED
      BY <1>3, <1>n, <3>1, ReadOn
  <2>5. L.rels \o New.rels = graph.rels
    BY <2>2, NewFacts
  <2> QED
    BY <1>4, <1>7, <2>3, <2>4, <2>5
<1>11. Upto(graph.ents, Len(graph.ents)) = graph.ents /\ Upto(graph.rels, Len(graph.rels)) = graph.rels
  BY <1>2, SubSeqFull DEF Upto
<1>12. link' \in {"current", "behind", "apart"}
  BY DEF AppendNew
<1>13. synced'.ents = Len(graph.ents) /\ synced'.rels = Len(graph.rels)
  BY <1>8
<1> QED
  BY <1>1, <1>2, <1>7, <1>8, <1>9, <1>10, <1>11, <1>12, <1>13 DEF KeptInv

(* What of a list of lines a write leaves is one *)
LEMMA LinesOf == ASSUME NEW g \in ALines, NEW h \in Lines(g) PROVE h \in ALines
<1>1. g.ents \in Seq(EntRec) /\ g.rels \in Seq(Entity \X Entity) /\ g = [ents |-> g.ents, rels |-> g.rels]
  BY DEF ALines, Rels
<1>2. ASSUME NEW i \in 0 .. Len(g.ents), h = [ents |-> SubSeq(g.ents, 1, i), rels |-> <<>>] PROVE h \in ALines
  <2>1. SubSeq(g.ents, 1, i) \in Seq(EntRec)
    BY <1>1
  <2>2. <<>> \in Rels
    BY DEF Rels
  <2> QED
    BY <1>2, <2>1, <2>2 DEF ALines
<1>3. ASSUME NEW i \in 0 .. Len(g.rels), h = [g EXCEPT !.rels = SubSeq(@, 1, i)] PROVE h \in ALines
  <2>1. SubSeq(g.rels, 1, i) \in Rels
    BY <1>1 DEF Rels
  <2>2. h = [ents |-> g.ents, rels |-> SubSeq(g.rels, 1, i)]
    BY <1>1, <1>3
  <2> QED
    BY <1>1, <2>1, <2>2 DEF ALines
<1> QED
  BY <1>2, <1>3 DEF Lines

LEMMA CutOffKeeps == ASSUME KeptInv, WriteCutOff PROVE KeptInv'
<1>1. graph \in AGraph /\ graph \in ALines /\ store \in AStore /\ store.lines \in ALines /\ New \in ALines
  BY GraphFacts, NewFacts DEF KeptInv, AStore
<1>2. ASSUME NEW g \in ALines PROVE CutOff(store, g) \in AStore /\ CutOff(store, g).there
  BY <1>1 DEF CutOff, AStore
<1>3. store' \in AStore /\ store'.there
  <2>1. CASE \E g \in Lines(graph) : store' = CutOff(store, g)
    BY <1>1, <1>2, <2>1, LinesOf
  <2>2. ASSUME NEW g \in Lines(New),
               store' = [CutOff(store, Longer(store.lines, g)) EXCEPT !.sound = ~store.there /\ store.format = "ndjson"]
        PROVE  store' \in AStore /\ store'.there
    <3>1. g \in ALines
      BY <1>1, LinesOf
    <3>2. Longer(store.lines, g) \in ALines
      <4>1. store.lines.ents \in Seq(EntRec) /\ store.lines.rels \in Rels /\ g.ents \in Seq(EntRec) /\ g.rels \in Rels
        BY <1>1, <3>1 DEF ALines
      <4>2. store.lines.ents \o g.ents \in Seq(EntRec) /\ store.lines.rels \o g.rels \in Rels
        BY <4>1, ConcatProperties DEF Rels
      <4> QED
        BY <4>2 DEF Longer, ALines
    <3> DEFINE c == CutOff(store, Longer(store.lines, g))
               b == ~store.there /\ store.format = "ndjson"
    <3>3. c \in AStore /\ c.there /\ store' = [c EXCEPT !.sound = b] /\ b \in BOOLEAN
      BY <1>2, <2>2, <3>2
    <3> HIDE DEF c, b
    <3> QED
      BY <3>3 DEF AStore
  <2> QED
    BY <2>1, <2>2 DEF WriteCutOff
<1>4. calls' \in 0 .. MaxCalls
  BY CallsCount DEF WriteCutOff
<1>5. CASE UNCHANGED <<graph, synced>>
  BY <1>3, <1>4, <1>5 DEF KeptInv, WriteCutOff
<1>6. CASE graph' = NoGraph /\ synced' = NoneSynced
  <2>1. synced' \in [ents : Nat, rels : Nat] /\ synced'.ents = 0 /\ synced'.rels = 0
    BY <1>6 DEF NoneSynced
  <2> QED
    BY <1>3, <1>4, <1>6, <2>1, NothingIsAGraph DEF KeptInv, WriteCutOff
<1> QED
  BY <1>5, <1>6 DEF WriteCutOff

LEMMA LoadGraphKeeps == ASSUME KeptInv, LoadGraph PROVE KeptInv'
<1>1. store \in AStore /\ store' = store /\ store.there /\ store.lines.ents \in Seq(EntRec) /\ store.lines.rels \in Rels
  BY DEF KeptInv, LoadGraph, AStore, ALines
<1>2. graph' = [ents |-> Read(store.lines.ents), rels |-> store.lines.rels]
  BY DEF LoadGraph, Loaded
<1>3. Read(store.lines.ents) \in Ents
  BY <1>1, ReadType
<1>4. graph' \in AGraph /\ graph'.ents = Read(store.lines.ents) /\ graph'.rels = store.lines.rels
  BY <1>1, <1>2, <1>3 DEF AGraph
<1>5. /\ graph'.ents \in Seq(EntRec) /\ graph'.rels \in Seq(Entity \X Entity)
      /\ Len(graph'.ents) \in Nat /\ Len(graph'.rels) \in Nat
  BY <1>4, GraphFacts
<1>6. synced' = [ents |-> Len(graph'.ents), rels |-> Len(graph'.rels)]
  BY DEF LoadGraph, Cursor, CursorAt
<1>7. synced' \in [ents : Nat, rels : Nat] /\ synced'.ents = Len(graph'.ents) /\ synced'.rels = Len(graph'.rels)
  BY <1>5, <1>6
<1>8. Upto(graph'.ents, Len(graph'.ents)) = graph'.ents /\ Upto(graph'.rels, Len(graph'.rels)) = graph'.rels
  BY <1>5, SubSeqFull DEF Upto
<1>9. calls' \in 0 .. MaxCalls
  BY CallsCount DEF LoadGraph
<1>10. revised' \in BOOLEAN /\ dropped' \in BOOLEAN
  BY DEF KeptInv, LoadGraph
<1> QED
  BY <1>1, <1>4, <1>5, <1>7, <1>8, <1>9, <1>10 DEF KeptInv, LoadGraph

LEMMA NewProcessKeepsGraph == ASSUME KeptInv, NewProcess PROVE KeptInv'
<1>1. synced' \in [ents : Nat, rels : Nat] /\ synced'.ents = 0 /\ synced'.rels = 0
  BY DEF NewProcess, NoneSynced
<1>2. calls' \in 0 .. MaxCalls
  BY CallsCount DEF NewProcess
<1>3. revised' \in BOOLEAN /\ dropped' \in BOOLEAN
  BY DEF KeptInv, NewProcess
<1> QED
  BY <1>1, <1>2, <1>3, NothingIsAGraph DEF KeptInv, NewProcess

LEMMA GraphStepKeeps == KeptInv /\ [GraphNext]_graphVars => KeptInv'
<1> SUFFICES ASSUME KeptInv, [GraphNext]_graphVars PROVE KeptInv'
  OBVIOUS
<1>1. CASE UNCHANGED graphVars
  BY <1>1 DEF graphVars, KeptInv
<1> QED
  BY <1>1, AddEntityKeeps, AddRelationKeeps, ImportKeeps, SaveGraphKeeps, AppendKeeps, CutOffKeeps, LoadGraphKeeps,
     NewProcessKeepsGraph DEF GraphNext

LEMMA KeptIsTyped == KeptInv => GraphTypeOK
<1> SUFFICES ASSUME KeptInv PROVE GraphTypeOK
  OBVIOUS
<1>1. ASSUME NEW g \in ALines
      PROVE  /\ \A i \in DOMAIN g.ents : g.ents[i].id \in Entity /\ g.ents[i].version \in {0, 1}
             /\ \A i \in DOMAIN g.rels : g.rels[i] \in Entity \X Entity
  <2>1. g.ents \in Seq(EntRec) /\ g.rels \in Seq(Entity \X Entity)
    BY DEF ALines, Rels
  <2>2. \A i \in DOMAIN g.ents : g.ents[i] \in EntRec
    BY <2>1
  <2>3. \A i \in DOMAIN g.rels : g.rels[i] \in Entity \X Entity
    BY <2>1
  <2> QED
    BY <2>2, <2>3 DEF EntRec
<1>2. graph \in ALines /\ store.lines \in ALines
  BY GraphFacts DEF KeptInv, AStore
<1>3. synced.ents \in 0 .. Len(graph.ents) /\ synced.rels \in 0 .. Len(graph.rels)
  <2>1. Len(graph.ents) \in Nat /\ Len(graph.rels) \in Nat
    BY GraphFacts DEF KeptInv
  <2> QED
    BY <2>1 DEF KeptInv
<1>4. store.format \in Formats /\ store.there \in BOOLEAN /\ store.sound \in BOOLEAN
  BY DEF KeptInv, AStore
<1> QED
  BY <1>1, <1>2, <1>3, <1>4 DEF KeptInv, GraphTypeOK

(* The graph, its file and its cursor, in every order of calls (kg/__init__.py, storage.py) *)
THEOREM KeptInvariant == GraphSpec => []KeptInv
BY KeptAtFirst, GraphStepKeeps, PTL DEF GraphSpec

(* What is in the file and what is new are the graph *)
LEMMA NothingForgotten == KeptInv => GraphIsKept
<1> SUFFICES ASSUME KeptInv, link # "apart", store.sound, ~revised
             PROVE  Longer(Loaded(store), New) = graph /\ (link = "current" => New = NoGraph)
  BY DEF GraphIsKept
<1>1. Read(store.lines.ents) \o New.ents = graph.ents /\ store.lines.rels \o New.rels = graph.rels
  BY NewFacts DEF KeptInv
<1>2. Longer(Loaded(store), New) = [ents |-> Read(store.lines.ents) \o New.ents, rels |-> store.lines.rels \o New.rels]
  BY DEF Longer, Loaded
<1>3. graph = [ents |-> graph.ents, rels |-> graph.rels]
  BY GraphFacts DEF KeptInv
<1> QED
  BY <1>1, <1>2, <1>3, NewFacts

(* As long as the file is of this graph, can be read and holds nothing that was given
   again, it and what the cursor calls new are the graph: no line is lost or doubled
   (save, append, load, append_graph) *)
THEOREM FileKeepsTheGraph == GraphSpec => []GraphIsKept
<1>1. KeptInv => GraphIsKept
  BY NothingForgotten
<1> QED
  BY <1>1, KeptInvariant, PTL

-----------------------------------------------------------------------------
(* A step is out when all it lists is out; conversely, if it lists nothing twice *)
LEMMA ListedOnce ==
  ASSUME NEW d \in Seq(Known)
  PROVE  /\ IsFiniteSet(ToSet(d)) /\ Cardinality(ToSet(d)) \in Nat /\ Cardinality(ToSet(d)) <= Len(d)
         /\ IsInjective(d) => Cardinality(ToSet(d)) = Len(d)
<1> DEFINE N == Len(d)
<1>1. N \in Nat /\ DOMAIN d = 1 .. N /\ d \in [1 .. N -> ToSet(d)]
  BY DEF ToSet
<1>2. ToSet(d) = {d[i] : i \in 1 .. N}
  BY <1>1 DEF ToSet
<1>3. IsFiniteSet(1 .. N) /\ Cardinality(1 .. N) = N
  BY <1>1, FS_Interval
<1> HIDE DEF N
<1>4. d \in Surjection(1 .. N, ToSet(d))
  BY <1>1, <1>2 DEF Surjection
<1>5. IsFiniteSet(ToSet(d)) /\ Cardinality(ToSet(d)) <= N
  BY <1>3, <1>4, FS_Surjection
<1>6. Cardinality(ToSet(d)) \in Nat
  BY <1>5, FS_CardinalityType
<1>7. ASSUME IsInjective(d) PROVE Cardinality(ToSet(d)) = N
  <2>1. d \in Bijection(1 .. N, ToSet(d))
    BY <1>1, <1>4, <1>7 DEF Bijection, Injection, IsInjective
  <2>2. ExistsBijection(1 .. N, ToSet(d))
    BY <2>1 DEF ExistsBijection
  <2> QED
    BY <1>1, <2>2, FS_CountingElements
<1> QED
  BY <1>5, <1>6, <1>7 DEF N

LEMMA OutMeans ==
  ASSUME NEW r \in Document, NEW T, NEW s \in RStep
  PROVE  /\ Out(r, T, s) => ToSet(r.depends[s]) \subseteq T
         /\ IsInjective(r.depends[s]) /\ ToSet(r.depends[s]) \subseteq T => Out(r, T, s)
<1> DEFINE D == ToSet(r.depends[s])
           L == Len(r.depends[s])
<1>1. r.depends[s] \in Seq(Known) /\ L \in Nat
  BY RecipeRunAssumption DEF IsDocument
<1>2. /\ IsFiniteSet(D) /\ Cardinality(D) \in Nat /\ Cardinality(D) <= L
      /\ IsInjective(r.depends[s]) => Cardinality(D) = L
  BY <1>1, ListedOnce
<1>3. Out(r, T, s) <=> Cardinality(D \cap T) = L
  BY DEF Out
<1> HIDE DEF D, L
<1>4. /\ IsFiniteSet(D \cap T) /\ Cardinality(D \cap T) <= Cardinality(D)
      /\ Cardinality(D \cap T) = Cardinality(D) => D \cap T = D
  <2>1. D \cap T \in SUBSET D
    OBVIOUS
  <2> QED
    BY <1>2, <2>1, FS_Subset
<1>5. Cardinality(D \cap T) \in Nat
  BY <1>4, FS_CardinalityType
<1>6. ASSUME Out(r, T, s) PROVE D \subseteq T
  <2>1. Cardinality(D \cap T) = Cardinality(D)
    BY <1>1, <1>2, <1>3, <1>4, <1>5, <1>6
  <2> QED
    BY <1>4, <2>1
<1>7. ASSUME IsInjective(r.depends[s]), D \subseteq T PROVE Out(r, T, s)
  <2>1. D \cap T = D
    BY <1>7
  <2> QED
    BY <1>2, <1>3, <1>7, <2>1
<1> QED
  BY <1>6, <1>7 DEF D

-----------------------------------------------------------------------------
(* The rounds of Kahn's algorithm *)
Rounds(r) ==
  CHOOSE f : f = [n \in 0 .. Steps |-> IF n = 0 THEN {} ELSE {s \in RStep : Out(r, f[n - 1], s)}]

LEMMA TakenIs == ASSUME NEW r PROVE Taken(r) = Rounds(r)[Steps]
BY DEF Taken, Rounds

LEMMA RoundsAre ==
  ASSUME NEW r
  PROVE  /\ Rounds(r)[0] = {}
         /\ \A n \in 1 .. Steps : Rounds(r)[n] = {s \in RStep : Out(r, Rounds(r)[n - 1], s)}
<1> DEFINE V == SUBSET RStep
           On(T) == {s \in RStep : Out(r, T, s)}
           F == [p \in (1 .. Steps) \X V |-> On(p[2])]
           f == Rounds(r)
<1>1. Steps \in Nat /\ {} \in V
  BY RecipeRunAssumption
<1>2. F \in [(1 .. Steps) \X V -> V]
  <2>1. \A p \in (1 .. Steps) \X V : On(p[2]) \in V
    OBVIOUS
  <2> HIDE DEF V, On
  <2> QED
    BY <2>1
<1>3. PICK g \in [0 .. Steps -> V] : Walks(g, {}, Steps, F)
  <2> HIDE DEF V, F
  <2> QED
    BY <1>1, <1>2, WalksExist
<1>4. g[0] = {} /\ \A n \in 1 .. Steps : g[n] = On(g[n - 1])
  <2>1. \A n \in 1 .. Steps : n - 1 \in 0 .. Steps
    BY <1>1
  <2> HIDE DEF On, V
  <2>2. \A n \in 1 .. Steps : <<n, g[n - 1]>> \in (1 .. Steps) \X V
    BY <1>3, <2>1
  <2> QED
    BY <1>3, <2>2 DEF Walks
<1>5. g = [n \in 0 .. Steps |-> IF n = 0 THEN {} ELSE {s \in RStep : Out(r, g[n - 1], s)}]
  <2>1. \A n \in 0 .. Steps : n # 0 => n \in 1 .. Steps
    BY <1>1
  <2> HIDE DEF V, F
  <2> QED
    BY <1>3, <1>4, <2>1
<1>6. f = [n \in 0 .. Steps |-> IF n = 0 THEN {} ELSE {s \in RStep : Out(r, f[n - 1], s)}]
  BY <1>5 DEF Rounds
<1>7. 0 \in 0 .. Steps /\ \A n \in 1 .. Steps : n \in 0 .. Steps /\ n # 0
  BY <1>1
<1> HIDE DEF f
<1>8. f[0] = {} /\ \A n \in 1 .. Steps : f[n] = {s \in RStep : Out(r, f[n - 1], s)}
  BY <1>6, <1>7
<1> QED
  BY <1>8 DEF f

(* Nothing of a circle is ever taken *)
LEMMA TakenIsNoCircle ==
  ASSUME NEW r \in Document, NoCycle(r)
  PROVE  ~ Circle(r)
<1> SUFFICES ASSUME NEW S \in SUBSET RStep, S # {}, \A s \in S : ToSet(r.depends[s]) \cap S # {}
             PROVE  FALSE
  BY DEF Circle
<1> DEFINE R == Rounds(r)
           D == {n \in Nat : n <= Steps => R[n] \cap S = {}}
<1>1. Steps \in Nat
  BY RecipeRunAssumption
<1> HIDE DEF R
<1>2. R[0] = {} /\ \A n \in 1 .. Steps : R[n] = {s \in RStep : Out(r, R[n - 1], s)}
  BY RoundsAre DEF R
<1>3. 0 \in D
  BY <1>2
<1>4. ASSUME NEW n \in Nat, n \in D PROVE n + 1 \in D
  <2> SUFFICES ASSUME n + 1 <= Steps, NEW s \in S, s \in R[n + 1] PROVE FALSE
    OBVIOUS
  <2>1. n + 1 \in 1 .. Steps /\ (n + 1) - 1 = n /\ n <= Steps
    BY <1>1
  <2>2. s \in RStep /\ Out(r, R[n], s)
    BY <1>2, <2>1
  <2>3. ToSet(r.depends[s]) \subseteq R[n]
    BY <2>2, OutMeans
  <2>4. R[n] \cap S = {}
    BY <1>4, <2>1
  <2> QED
    BY <2>3, <2>4
<1>5. Steps \in D
  <2> HIDE DEF D
  <2> QED
    BY <1>1, <1>3, <1>4, Counting
<1>6. R[Steps] = RStep
  BY TakenIs DEF NoCycle, R
<1>7. R[Steps] \cap S = {}
  BY <1>1, <1>5
<1> QED
  BY <1>6, <1>7

(* Each round takes one step more, until all are out, if there is no circle *)
LEMMA AllAreTaken ==
  ASSUME NEW r \in Document, ~ Circle(r), DependsWell(r), ~ Repeats(r)
  PROVE  NoCycle(r)
<1> DEFINE R == Rounds(r)
           D == {n \in Nat : n <= Steps => /\ R[n] \subseteq RStep
                                           /\ n > 0 => R[n - 1] \subseteq R[n]
                                           /\ R[n] = RStep \/ Cardinality(R[n]) >= n}
<1>1. Steps \in Nat /\ Steps # 0 /\ RStep = 1 .. Steps
  BY RecipeRunAssumption DEF RStep
<1>2. IsFiniteSet(RStep) /\ Cardinality(RStep) = Steps
  BY <1>1, FS_Interval
<1> HIDE DEF R
<1>3. R[0] = {} /\ \A n \in 1 .. Steps : R[n] = {s \in RStep : Out(r, R[n - 1], s)}
  BY RoundsAre DEF R
<1>4. \A T : \A s \in RStep : Out(r, T, s) <=> ToSet(r.depends[s]) \subseteq T
  BY OutMeans DEF Repeats
<1>5. \A n \in 1 .. Steps : R[n] = {s \in RStep : ToSet(r.depends[s]) \subseteq R[n - 1]}
  <2> SUFFICES ASSUME NEW n \in 1 .. Steps
               PROVE  R[n] = {s \in RStep : ToSet(r.depends[s]) \subseteq R[n - 1]}
    OBVIOUS
  <2>1. R[n] = {s \in RStep : Out(r, R[n - 1], s)}
    BY <1>3
  <2>2. \A s \in RStep : Out(r, R[n - 1], s) <=> ToSet(r.depends[s]) \subseteq R[n - 1]
    BY <1>4
  <2> QED
    BY <2>1, <2>2
<1>6. 0 \in D
  <2>1. Cardinality({}) = 0
    BY FS_EmptySet
  <2>2. R[0] \subseteq RStep /\ Cardinality(R[0]) >= 0
    BY <1>3, <2>1
  <2> QED
    BY <1>1, <2>2
<1>7. ASSUME NEW n \in Nat, n \in D PROVE n + 1 \in D
  <2> SUFFICES ASSUME n + 1 <= Steps
               PROVE  /\ R[n + 1] \subseteq RStep
                      /\ R[n] \subseteq R[n + 1]
                      /\ R[n + 1] = RStep \/ Cardinality(R[n + 1]) >= n + 1
    OBVIOUS
  <2>1. n + 1 \in 1 .. Steps /\ (n + 1) - 1 = n /\ n <= Steps
    BY <1>1
  <2>2. R[n + 1] = {s \in RStep : ToSet(r.depends[s]) \subseteq R[n]}
    BY <1>5, <2>1
  <2>3. R[n] \subseteq RStep /\ (R[n] = RStep \/ Cardinality(R[n]) >= n)
    BY <1>7, <2>1
  <2>4. R[n] \subseteq R[n + 1]
    <3>1. CASE n = 0
      BY <1>3, <3>1
    <3>2. CASE n # 0
      <4>1. n \in 1 .. Steps /\ R[n - 1] \subseteq R[n]
        BY <1>7, <2>1, <3>2
      <4> QED
        BY <1>5, <2>2, <4>1
    <3> QED
      BY <3>1, <3>2
  <2>5. R[n + 1] = RStep \/ Cardinality(R[n + 1]) >= n + 1
    <3>1. CASE R[n] = RStep
      BY <2>2, <2>4, <3>1
    <3>2. CASE R[n] # RStep
      <4>1. R[n + 1] # R[n]
        <5> SUFFICES ASSUME R[n + 1] = R[n] PROVE FALSE
          OBVIOUS
        <5>1. \A s \in RStep \ R[n] : ToSet(r.depends[s]) \cap (RStep \ R[n]) # {}
          BY <2>2 DEF DependsWell
        <5>2. RStep \ R[n] # {} /\ RStep \ R[n] \in SUBSET RStep
          BY <2>3, <3>2
        <5> QED
          BY <5>1, <5>2 DEF Circle
      <4>2. R[n + 1] \subseteq RStep /\ IsFiniteSet(R[n + 1]) /\ IsFiniteSet(R[n])
        BY <1>2, <2>2, <2>3, FS_Subset
      <4>3. Cardinality(R[n]) \in Nat /\ Cardinality(R[n + 1]) \in Nat
        BY <4>2, FS_CardinalityType
      <4>4. Cardinality(R[n]) <= Cardinality(R[n + 1]) /\ Cardinality(R[n]) # Cardinality(R[n + 1])
        BY <2>4, <4>1, <4>2, FS_Subset
      <4>5. Cardinality(R[n]) >= n
        BY <2>3, <3>2
      <4> QED
        BY <4>3, <4>4, <4>5
    <3> QED
      BY <3>1, <3>2
  <2> QED
    BY <2>2, <2>4, <2>5
<1>8. Steps \in D
  <2> HIDE DEF D
  <2> QED
    BY <1>1, <1>6, <1>7, Counting
<1>9. R[Steps] \subseteq RStep /\ (R[Steps] = RStep \/ Cardinality(R[Steps]) >= Steps)
  BY <1>1, <1>8
<1>10. R[Steps] = RStep
  <2>1. CASE Cardinality(R[Steps]) >= Steps
    <3>1. Cardinality(R[Steps]) <= Steps /\ (Cardinality(R[Steps]) = Steps => R[Steps] = RStep)
      BY <1>2, <1>9, FS_Subset
    <3>2. IsFiniteSet(R[Steps])
      BY <1>2, <1>9, FS_Subset
    <3>3. Cardinality(R[Steps]) \in Nat
      BY <3>2, FS_CardinalityType
    <3> QED
      BY <1>1, <2>1, <3>1, <3>3
  <2> QED
    BY <1>9, <2>1
<1> QED
  BY <1>10, TakenIs DEF NoCycle, R

-----------------------------------------------------------------------------
(* Whatever needs a step is that step, or needs one that needs it *)
Reached(s) ==
  CHOOSE f : f = [n \in 0 .. Steps |->
    IF n = 0 THEN {s} ELSE f[n - 1] \cup {u \in RStep : Before(u) \cap f[n - 1] # {}}]

LEMMA NeedsIs == ASSUME NEW s PROVE Needs(s) = Reached(s)[Steps]
BY DEF Needs, Reached

LEMMA NeedsHaveReasons ==
  ASSUME NEW s \in RStep, NEW t \in Needs(s), t # s
  PROVE  \E u \in Before(t) : u \in Needs(s) /\ u \in RStep
<1> DEFINE V == SUBSET RStep
           On(T) == T \cup {u \in RStep : Before(u) \cap T # {}}
           F == [p \in (1 .. Steps) \X V |-> On(p[2])]
           f == Reached(s)
<1>1. Steps \in Nat /\ {s} \in V
  BY RecipeRunAssumption
<1>2. F \in [(1 .. Steps) \X V -> V]
  <2>1. \A p \in (1 .. Steps) \X V : On(p[2]) \in V
    OBVIOUS
  <2> HIDE DEF V, On
  <2> QED
    BY <2>1
<1>3. PICK g \in [0 .. Steps -> V] : Walks(g, {s}, Steps, F)
  <2> HIDE DEF V, F
  <2> QED
    BY <1>1, <1>2, WalksExist
<1>4. g[0] = {s} /\ \A n \in 1 .. Steps : g[n] = On(g[n - 1])
  <2>1. \A n \in 1 .. Steps : n - 1 \in 0 .. Steps
    BY <1>1
  <2> HIDE DEF On, V
  <2>2. \A n \in 1 .. Steps : <<n, g[n - 1]>> \in (1 .. Steps) \X V
    BY <1>3, <2>1
  <2> QED
    BY <1>3, <2>2 DEF Walks
<1>5. g = [n \in 0 .. Steps |->
             IF n = 0 THEN {s} ELSE g[n - 1] \cup {u \in RStep : Before(u) \cap g[n - 1] # {}}]
  <2>1. \A n \in 0 .. Steps : n # 0 => n \in 1 .. Steps
    BY <1>1
  <2> HIDE DEF V, F
  <2> QED
    BY <1>3, <1>4, <2>1
<1>6. f = [n \in 0 .. Steps |->
             IF n = 0 THEN {s} ELSE f[n - 1] \cup {u \in RStep : Before(u) \cap f[n - 1] # {}}]
  <2> DEFINE P(h) == h = [n \in 0 .. Steps |->
                    IF n = 0 THEN {s} ELSE h[n - 1] \cup {u \in RStep : Before(u) \cap h[n - 1] # {}}]
  <2>1. f = CHOOSE h : P(h)
    BY DEF Reached
  <2>2. P(g)
    BY <1>5
  <2> HIDE DEF P, f
  <2>3. P(f)
    BY <2>1, <2>2
  <2> QED
    BY <2>3 DEF P
<1>7. 0 \in 0 .. Steps /\ \A n \in 1 .. Steps : n \in 0 .. Steps /\ n # 0
  BY <1>1
<1> HIDE DEF f
<1>8. f[0] = {s} /\ \A n \in 1 .. Steps : f[n] = On(f[n - 1])
  BY <1>6, <1>7
<1> DEFINE D == {n \in Nat : n <= Steps => /\ f[n] \subseteq RStep
                                           /\ \A u \in f[n] : u = s \/ \E v \in Before(u) : v \in f[n]}
<1>9. 0 \in D
  BY <1>8
<1>10. ASSUME NEW n \in Nat, n \in D PROVE n + 1 \in D
  <2> SUFFICES ASSUME n + 1 <= Steps
               PROVE  /\ f[n + 1] \subseteq RStep
                      /\ \A u \in f[n + 1] : u = s \/ \E v \in Before(u) : v \in f[n + 1]
    OBVIOUS
  <2>1. n + 1 \in 1 .. Steps /\ (n + 1) - 1 = n /\ n <= Steps
    BY <1>1
  <2>2. f[n + 1] = On(f[n])
    BY <1>8, <2>1
  <2>3. f[n] \subseteq RStep /\ \A v \in f[n] : v = s \/ \E w \in Before(v) : w \in f[n]
    BY <1>10, <2>1
  <2> QED
    BY <2>2, <2>3
<1>11. Steps \in D
  <2> HIDE DEF D
  <2> QED
    BY <1>1, <1>9, <1>10, Counting
<1>12. f[Steps] \subseteq RStep /\ \A u \in f[Steps] : u = s \/ \E v \in Before(u) : v \in f[Steps]
  BY <1>1, <1>11
<1> QED
  BY <1>12, NeedsIs DEF f

-----------------------------------------------------------------------------
(* Who has failed has tried, or is behind one that failed; who is open may try *)
Blamed ==
  \A s \in RStep :
    /\ task[s] = "failed" => tries[s] > 0 \/ \E t \in Before(s) \cap RStep : task[t] = "failed"
    /\ task[s] = "running" => tries[s] > 0
    /\ task[s] = "open" => tries[s] < 1 + Extra

RunInv ==
  /\ RunTypeOK /\ doc \in Document
  /\ OnlySoundAccepted /\ ContractKept /\ Blamed

LEMMA RunStart == RunInit => RunInv
<1> SUFFICES ASSUME RunInit PROVE RunInv
  OBVIOUS
<1>1. RunTypeOK /\ doc \in Document
  BY RecipeRunAssumption DEF RunInit, RunTypeOK, Phases
<1>2. OnlySoundAccepted /\ ContractKept
  BY DEF RunInit, OnlySoundAccepted, ContractKept
<1>3. Blamed
  BY RecipeRunAssumption DEF RunInit, Blamed
<1> QED
  BY <1>1, <1>2, <1>3 DEF RunInv

LEMMA ValidateKeeps == ASSUME RunInv, Validate PROVE RunInv'
<1>1. RunTypeOK' /\ (doc \in Document)' /\ Blamed'
  BY DEF RunInv, RunTypeOK, Validate, Phases, Blamed, Before
<1>2. OnlySoundAccepted'
  <2>1. ASSUME standing' = "accepted" PROVE Sound(doc')
    BY <2>1, TakenIsNoCircle DEF RunInv, Validate, Sound
  <2>2. ASSUME standing' = "rejected" PROVE ~ Sound(doc') \/ Repeats(doc')
    BY <2>2, AllAreTaken DEF RunInv, Validate, Sound
  <2> QED
    BY <2>1, <2>2 DEF OnlySoundAccepted
<1>3. ContractKept'
  BY DEF Validate, ContractKept
<1> QED
  BY <1>1, <1>2, <1>3 DEF RunInv

(* What is not refused is given, or the author's *)
LEMMA NotRefused ==
  ASSUME NEW r \in Document, NEW v \in Given, Refusal(r, v) = "none"
  PROVE  /\ v # "unknown" /\ ~ MayNotChange(r, v)
         /\ r.scope = "reusable" /\ r.required /\ r.default = "null" => v \notin {"absent", "null"}
         /\ r.scope = "reusable" /\ v \notin {"absent", "null"} => Coerces(r, v) /\ ~ TooFar(r, v)
<1>1. IsDocument(r) /\ v \in {"absent", "null", "below", "in", "above", "nan", "text", "unknown"}
  BY RecipeRunAssumption
<1>2. r.scope \in {"reusable", "fixed"} /\ r.required \in BOOLEAN
  BY <1>1 DEF IsDocument
<1>3. v # "unknown"
  BY <1>1, <1>2 DEF Refusal, MayNotChange, Coerces, TooFar
<1>4. ~ MayNotChange(r, v)
  BY <1>1, <1>2 DEF Refusal, MayNotChange, Coerces, TooFar
<1>5. r.scope = "reusable" /\ r.required /\ r.default = "null" => v \notin {"absent", "null"}
  BY <1>1, <1>2 DEF Refusal, MayNotChange, Coerces, TooFar
<1>6. r.scope = "reusable" /\ v \notin {"absent", "null"} => Coerces(r, v) /\ ~ TooFar(r, v)
  BY <1>1, <1>2 DEF Refusal, MayNotChange, Coerces, TooFar
<1> QED
  BY <1>3, <1>4, <1>5, <1>6

LEMMA MaterializeKeeps == ASSUME RunInv, NEW v \in Given, Materialize(v) PROVE RunInv'
<1>1. /\ IsDocument(doc) /\ v \in {"absent", "null", "below", "in", "above", "nan", "text", "unknown"}
      /\ doc.default \in {"null", "in", "text"} /\ doc.scope \in {"reusable", "fixed"}
  BY RecipeRunAssumption DEF RunInv, IsDocument
<1>2. Refusal(doc, v) \in {"param_missing", "param_unknown", "param_invalid_type",
                            "param_out_of_range", "param_fixed", "none"}
  BY <1>1 DEF Refusal, MayNotChange, Coerces, TooFar
<1>3. standing' \in {"param_missing", "param_unknown", "param_invalid_type", "param_out_of_range",
                     "param_fixed", "error", "crashed", "running"}
  BY <1>2 DEF Materialize
<1>4. ASSUME standing' = "running" PROVE Refusal(doc, v) = "none"
  BY <1>2, <1>4 DEF Materialize
<1>5. ASSUME standing' = "running"
      PROVE  /\ value' = Resolved(doc, v) /\ value' \in {"null", "below", "in", "above", "nan", "text"}
             /\ ContractKept'
  <2>1. /\ v # "unknown" /\ ~ MayNotChange(doc, v)
        /\ doc.scope = "reusable" /\ doc.required /\ doc.default = "null" => v \notin {"absent", "null"}
        /\ doc.scope = "reusable" /\ v \notin {"absent", "null"} => Coerces(doc, v) /\ ~ TooFar(doc, v)
    BY <1>4, <1>5, NotRefused DEF RunInv
  <2>2. value' = Resolved(doc, v) /\ doc' = doc
    BY <1>5 DEF Materialize
  <2> QED
    BY <1>1, <2>1, <2>2 DEF Resolved, ContractKept, MayNotChange, Coerces, TooFar
<1>6. value' \in {"null", "below", "in", "above", "nan", "text"}
  BY <1>5 DEF Materialize, RunInv, RunTypeOK
<1>7. RunTypeOK' /\ (doc \in Document)' /\ Blamed'
  BY <1>3, <1>6 DEF RunInv, RunTypeOK, Materialize, Phases, Blamed, Before
<1>8. OnlySoundAccepted'
  BY <1>3 DEF OnlySoundAccepted
<1>9. ContractKept'
  BY <1>3, <1>5 DEF ContractKept
<1> QED
  BY <1>7, <1>8, <1>9 DEF RunInv

LEMMA TaskKeeps == ASSUME RunInv, TaskStep PROVE RunInv'
<1>1. doc' = doc /\ value' = value /\ doc \in Document /\ Extra \in Nat
  BY RecipeRunAssumption DEF RunInv, TaskStep, Deliver, StartTask, TaskDone, TaskFails
<1>2. /\ standing' = standing \/ (standing = "running" /\ standing' = "delivered")
      /\ standing' \in Phases
  <2>1. standing' = standing \/ (standing = "running" /\ standing' = "delivered")
    <3>1. CASE Deliver
      BY <3>1 DEF Deliver
    <3>2. ASSUME NEW s \in RStep, StartTask(s) \/ TaskDone(s) \/ TaskFails(s) PROVE standing' = standing
      BY <3>2 DEF StartTask, TaskDone, TaskFails
    <3> QED
      BY <3>1, <3>2 DEF TaskStep
  <2>2. standing \in Phases
    BY DEF RunInv, RunTypeOK
  <2> QED
    BY <2>1, <2>2 DEF Phases
<1>3. OnlySoundAccepted'
  BY <1>1, <1>2 DEF RunInv, OnlySoundAccepted
<1>4. ContractKept'
  BY <1>1, <1>2 DEF RunInv, ContractKept
<1>5. /\ task' \in [RStep -> {"open", "running", "done", "failed"}]
      /\ tries' \in [RStep -> 0 .. 1 + Extra] /\ Blamed'
  <2>0. /\ task \in [RStep -> {"open", "running", "done", "failed"}]
        /\ tries \in [RStep -> 0 .. 1 + Extra] /\ Blamed
        /\ \A s \in RStep : Before(s)' = Before(s)
    BY <1>1 DEF RunInv, RunTypeOK, Before
  <2>1. CASE Deliver
    BY <2>0, <2>1 DEF Deliver, Blamed
  <2>2. ASSUME NEW s \in RStep, StartTask(s)
        PROVE  /\ task' \in [RStep -> {"open", "running", "done", "failed"}]
               /\ tries' \in [RStep -> 0 .. 1 + Extra] /\ Blamed'
    <3>1. /\ task' = [task EXCEPT ![s] = "running"] /\ tries' = [tries EXCEPT ![s] = tries[s] + 1]
          /\ task[s] = "open" /\ tries[s] < 1 + Extra
      BY <2>0, <2>2 DEF StartTask, Blamed
    <3>2. tries[s] + 1 \in 0 .. 1 + Extra /\ tries[s] + 1 > 0
      BY <1>1, <2>0, <3>1
    <3>3. \A t \in RStep : task[t] = "failed" => task'[t] = "failed"
      BY <2>0, <3>1
    <3>4. \A t \in RStep : t # s => task'[t] = task[t] /\ tries'[t] = tries[t]
      BY <2>0, <3>1
    <3>5. task'[s] = "running" /\ tries'[s] > 0
      BY <2>0, <3>1, <3>2
    <3>6. Blamed'
      <4> SUFFICES ASSUME NEW t \in RStep
                   PROVE  /\ task'[t] = "failed" => tries'[t] > 0 \/ \E u \in Before(t) \cap RStep : task'[u] = "failed"
                          /\ task'[t] = "running" => tries'[t] > 0
                          /\ task'[t] = "open" => tries'[t] < 1 + Extra
        BY <2>0 DEF Blamed
      <4>1. CASE t = s
        BY <3>5, <4>1
      <4>2. CASE t # s
        <5>1. \A u \in Before(t) \cap RStep : task[u] = "failed" => task'[u] = "failed"
          BY <2>0, <3>1
        <5> QED
          BY <2>0, <3>4, <4>2, <5>1 DEF Blamed
      <4> QED
        BY <4>1, <4>2
    <3> QED
      BY <2>0, <3>1, <3>2, <3>6
  <2>3. ASSUME NEW s \in RStep, TaskDone(s)
        PROVE  /\ task' \in [RStep -> {"open", "running", "done", "failed"}]
               /\ tries' \in [RStep -> 0 .. 1 + Extra] /\ Blamed'
    <3>1. task' = [task EXCEPT ![s] = "done"] /\ tries' = tries /\ task[s] = "running"
      BY <2>3 DEF TaskDone
    <3>2. \A t \in RStep : task[t] = "failed" => task'[t] = "failed"
      BY <2>0, <3>1
    <3> QED
      BY <2>0, <3>1, <3>2 DEF Blamed
  <2>4. ASSUME NEW s \in RStep, TaskFails(s)
        PROVE  /\ task' \in [RStep -> {"open", "running", "done", "failed"}]
               /\ tries' \in [RStep -> 0 .. 1 + Extra] /\ Blamed'
    <3>0. tries' = tries /\ task[s] = "running" /\ tries[s] > 0
      BY <2>0, <2>4 DEF TaskFails, Blamed
    <3>1. CASE TriesLeft(s) /\ task' = [task EXCEPT ![s] = "open"]
      <4>1. \A t \in RStep : task[t] = "failed" => task'[t] = "failed"
        BY <2>0, <3>0, <3>1
      <4>2. tries[s] < 1 + Extra
        BY <3>1 DEF TriesLeft
      <4> QED
        BY <2>0, <3>0, <3>1, <4>1, <4>2 DEF Blamed
    <3>2. CASE task' = [t \in RStep |-> IF t \in Needs(s) THEN "failed" ELSE task[t]]
      <4>1. \A t \in RStep : task[t] = "failed" => task'[t] = "failed"
        BY <3>2
      <4>2. Blamed'
        <5> SUFFICES ASSUME NEW t \in RStep
                     PROVE  /\ task'[t] = "failed" => tries'[t] > 0 \/ \E u \in Before(t) \cap RStep : task'[u] = "failed"
                            /\ task'[t] = "running" => tries'[t] > 0
                            /\ task'[t] = "open" => tries'[t] < 1 + Extra
          BY <2>0 DEF Blamed
        <5>1. CASE t \notin Needs(s)
          <6>1. task'[t] = task[t]
            BY <3>2, <5>1
          <6> QED
            BY <2>0, <3>0, <4>1, <6>1 DEF Blamed
        <5>2. CASE t \in Needs(s)
          <6>1. task'[t] = "failed" /\ \A u \in RStep : u \in Needs(s) => task'[u] = "failed"
            BY <3>2, <5>2
          <6>2. t = s \/ \E u \in Before(t) : u \in Needs(s) /\ u \in RStep
            BY <5>2, NeedsHaveReasons
          <6> QED
            BY <3>0, <6>1, <6>2
        <5> QED
          BY <5>1, <5>2
      <4> QED
        BY <2>0, <3>0, <3>2, <4>2
    <3> QED
      BY <2>4, <3>1, <3>2 DEF TaskFails
  <2> QED
    BY <2>1, <2>2, <2>3, <2>4 DEF TaskStep
<1> QED
  BY <1>1, <1>2, <1>3, <1>4, <1>5 DEF RunInv, RunTypeOK

LEMMA RunStepKeeps == ASSUME RunInv, [RunNext]_runVars PROVE RunInv'
<1>1. CASE UNCHANGED runVars
  BY <1>1 DEF runVars, RunInv, RunTypeOK, OnlySoundAccepted, ContractKept, Blamed, Before
<1> QED
  BY <1>1, ValidateKeeps, MaterializeKeeps, TaskKeeps DEF RunNext

(* Types, sound documents, kept contracts and blame are kept by every step *)
THEOREM RunInvariant == RunSpec => []RunInv
<1>1. RunInv /\ [RunNext]_runVars => RunInv'
  BY RunStepKeeps
<1> QED
  BY <1>1, RunStart, PTL DEF RunSpec

(* An accepted document has an order and all it reads and delivers, a sound one that lists
   nothing twice is accepted; a run keeps the parameter's contract; and whatever failed had
   tried, or was behind something that failed (_graph_is_sound, resolve_params, run) *)
THEOREM RecipesAreSound == RunSpec => []RecipesRunSoundly
<1>1. RunInv => RecipesRunSoundly
  BY DEF RunInv, RecipesRunSoundly, DoneOrBlamed, Blamed
<1> QED
  BY <1>1, RunInvariant, PTL

-----------------------------------------------------------------------------
(***************************************************************************)
(* All of them, one beside the other, as they are model-checked.           *)
(***************************************************************************)
RequestsInv == CatInv /\ RunInv /\ PlanInv /\ JobInv /\ AgentInv /\ KeptInv /\ ApiInv

LEMMA RequestsStart == Init => RequestsInv
BY CatStart, RunStart, PlanStart, JobStart, AgentStart, KeptAtFirst, ApiStart DEF Init, RequestsInv

(* What serves the requests about some addresses serves those about more *)
LEMMA WiderServes ==
  ASSUME NEW A, NEW B, A \subseteq B, NEW c, Serve(c, A)
  PROVE  Serve(c, B)
<1>1. {q \in Requests : q.addr \in A} \subseteq {q \in Requests : q.addr \in B}
  OBVIOUS
<1> QED
  BY <1>1 DEF Serve

(* A step of the whole is one of every part, or leaves it alone *)
LEMMA StepOfParts ==
  ASSUME [Next]_vars
  PROVE  /\ [CatNext]_catVars /\ [RunNext]_runVars /\ [PlanNext]_planVars /\ [JobNext]_jobVars
         /\ [AgentNext]_agentVars /\ [GraphNext]_graphVars /\ [RegistryApiNext]_raVars
<1> DEFINE Parts == /\ [CatNext]_catVars /\ [RunNext]_runVars /\ [PlanNext]_planVars /\ [JobNext]_jobVars
                    /\ [AgentNext]_agentVars /\ [GraphNext]_graphVars /\ [RegistryApiNext]_raVars
<1> SUFFICES Parts
  OBVIOUS
<1>1. CASE UNCHANGED vars
  BY <1>1 DEF vars
<1>2. CASE Next
  <2>1. \A c \in Call : c \notin {"catalogue", "recipe", "plan", "goal", "code", "graph"} \cup DOMAIN Family
    BY FocusAssumption DEF Part
  <2>2. /\ DOMAIN Family = {"cards", "skills", "plugins", "versions"}
        /\ \A f \in DOMAIN Family : Family[f] \subseteq Addresses
    BY DEF Family, Addresses, Entries, Reviewed
  <2>3. OtherVars(focus)
    BY <1>2 DEF Next
  <2> USE DEF OtherVars
  <2>4. CASE focus = "catalogue" /\ CatNext
    BY <2>1, <2>2, <2>3, <2>4
  <2>5. CASE focus = "recipe" /\ RunNext
    BY <2>1, <2>2, <2>3, <2>5
  <2>6. CASE focus = "plan" /\ PlanNext
    BY <2>1, <2>2, <2>3, <2>6
  <2>7. CASE focus \in Call /\ JobStep({focus})
    <3>1. JobNext
      BY <2>7 DEF JobNext, JobStep
    <3> QED
      BY <2>1, <2>2, <2>3, <2>7, <3>1
  <2>8. CASE focus = "goal" /\ GoalNext
    BY <2>1, <2>2, <2>3, <2>8 DEF AgentNext
  <2>9. CASE focus = "code" /\ CodeNext
    BY <2>1, <2>2, <2>3, <2>9 DEF AgentNext
  <2>10. CASE focus = "graph" /\ GraphNext
    BY <2>1, <2>2, <2>3, <2>10
  <2>11. CASE focus \in DOMAIN Family /\ ClientNext(Family[focus])
    <3>1. \A c \in Client : Serve(c, Family[focus]) => Serve(c, Addresses)
      BY <2>2, <2>11, WiderServes
    <3>2. RegistryApiNext
      BY <2>11, <3>1 DEF RegistryApiNext, ClientNext, ClientStep
    <3> QED
      BY <2>1, <2>2, <2>3, <2>11, <3>2
  <2>12. CASE focus = "skills" /\ Watching
    BY <2>1, <2>2, <2>3, <2>12 DEF RegistryApiNext
  <2> QED
    BY <1>2, <2>4, <2>5, <2>6, <2>7, <2>8, <2>9, <2>10, <2>11, <2>12 DEF Next
<1> QED
  BY <1>1, <1>2

LEMMA RequestsStep == RequestsInv /\ [Next]_vars => RequestsInv'
<1> SUFFICES ASSUME RequestsInv, [Next]_vars PROVE RequestsInv'
  OBVIOUS
<1>1. /\ [CatNext]_catVars /\ [RunNext]_runVars /\ [PlanNext]_planVars /\ [JobNext]_jobVars
      /\ [AgentNext]_agentVars /\ [GraphNext]_graphVars /\ [RegistryApiNext]_raVars
  BY StepOfParts
<1>2. CatInv' /\ RunInv' /\ PlanInv' /\ JobInv'
  BY <1>1, CatNextKeeps, RunStepKeeps, PlanStepKeeps, JobStepKeeps DEF RequestsInv
<1>3. AgentInv' /\ KeptInv' /\ ApiInv'
  BY <1>1, AgentStepKeeps, GraphStepKeeps, ApiStepKeeps DEF RequestsInv
<1> QED
  BY <1>2, <1>3 DEF RequestsInv

(* The invariants of all parts, in every behaviour about any of them *)
THEOREM RequestsInvariant == Spec => []RequestsInv
BY RequestsStart, RequestsStep, PTL DEF Spec

(* The types of all parts (RecipeRegistry, materialize, the planners, the executors of
   jobs, KnowledgeGraph, the registry's server) *)
THEOREM RequestsTypeCorrect == Spec => []TypeOK
<1>1. KeptInv => GraphTypeOK
  <2> SUFFICES ASSUME KeptInv PROVE GraphTypeOK
    OBVIOUS
  <2>1. ASSUME NEW g \in ALines
        PROVE  /\ \A i \in DOMAIN g.ents : g.ents[i].id \in Entity /\ g.ents[i].version \in {0, 1}
               /\ \A i \in DOMAIN g.rels : g.rels[i] \in Entity \X Entity
    <3>1. g.ents \in Seq(EntRec) /\ g.rels \in Seq(Entity \X Entity)
      BY <2>1 DEF ALines, Rels
    <3>2. \A i \in DOMAIN g.ents : g.ents[i] \in EntRec
      BY <3>1
    <3> QED
      BY <3>1, <3>2 DEF EntRec
  <2>2. graph \in ALines /\ Len(graph.ents) \in Nat /\ Len(graph.rels) \in Nat
    BY GraphFacts DEF KeptInv
  <2>3. store \in AStore /\ synced \in [ents : Nat, rels : Nat]
    BY DEF KeptInv
  <2>4. store.format \in Formats /\ store.there \in BOOLEAN /\ store.sound \in BOOLEAN /\ store.lines \in ALines
    BY <2>3 DEF AStore
  <2>5. synced.ents \in 0 .. Len(graph.ents) /\ synced.rels \in 0 .. Len(graph.rels)
    BY <2>2, <2>3 DEF KeptInv
  <2>6. {store.there, store.sound, revised, dropped} \subseteq BOOLEAN
    BY <2>4 DEF KeptInv
  <2> QED
    BY <2>1, <2>2, <2>4, <2>5, <2>6 DEF KeptInv, GraphTypeOK
<1>2. AgentInv => AgentTypeOK
  BY DEF AgentInv, GoalInv, CodeInv, GoalTypes, CodeTypes, PlaceFits, AgentTypeOK
<1>3. RequestsInv => TypeOK
  BY <1>1, <1>2 DEF RequestsInv, TypeOK, CatInv, RunInv, PlanInv, JobInv, ApiInv
<1> QED
  BY <1>3, RequestsInvariant, PTL

(* And what each part promises, in every behaviour about any of them: recipes and their
   runs, the graph, jobs elsewhere, planning, the registry's answers, repairs *)
THEOREM RequestsSound ==
  ASSUME NoSelfTemplates
  PROVE  Spec => /\ []PlannedWereApproved /\ []RecipesRunSoundly /\ []GraphIsKept
                 /\ []OutcomeIsBacked /\ []PlanningIsSound /\ []RegistryAnswers /\ PlanIsSound
<1>1. RequestsInv => PlannedWereApproved /\ GraphIsKept /\ OutcomeIsBacked /\ PlanningIsSound
  BY NothingForgotten, BackedOutcomes, PlansAreBacked DEF RequestsInv, CatInv
<1>2. RequestsInv => RecipesRunSoundly /\ RegistryAnswers
  BY DEF RequestsInv, RunInv, RecipesRunSoundly, DoneOrBlamed, Blamed, ApiInv, RegistryAnswers
<1>3. RequestsInv /\ FirstRun /\ [Next]_vars => FirstRun'
  BY StepOfParts, FirstRunKeeps DEF RequestsInv
<1>4. FirstRun => FirstPassFills
  BY DEF FirstRun, FirstPassFills, NoAdvice
<1>5. RequestsInv /\ [Next]_vars => [RepairKeepsOrder]_planVars
  BY StepOfParts, OrderIsKept DEF RequestsInv
<1>6. Init => FirstRun /\ PassIsGrounded
  BY PlanStart DEF Init, PlanInit, PassIsGrounded
<1>7. PassIsGrounded /\ [Next]_vars => PassIsGrounded'
  BY StepOfParts, PassStaysGrounded
<1>8. RequestsInv /\ PassIsGrounded => SomeStepCanGo
  BY GroundedCanGo DEF RequestsInv
<1> QED
  BY <1>1, <1>2, <1>3, <1>4, <1>5, <1>6, <1>7, <1>8, RequestsInvariant, PTL DEF Spec, PlanIsSound
=============================================================================
