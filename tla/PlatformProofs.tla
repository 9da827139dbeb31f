--------------------------- MODULE PlatformProofs ---------------------------
(***************************************************************************)
(* Proofs about the parts of the platform that serve many clients at once. *)
(*                                                                         *)
(* A federated query (FederatedQuery), registries that pull from one       *)
(* another (Registry), the dispatcher of pushed-down tasks (Cafe), the     *)
(* interface for browsers (WebApi) and its task manager (WebTasks).  In    *)
(* the end all parts together, with the event hub of EventHubProofs.       *)
(***************************************************************************)
EXTENDS MCPlatform, EventHubProofs, FiniteSetTheorems

-----------------------------------------------------------------------------
(***************************************************************************)
(* A federated call, for any number of cards and nodes, with and without   *)
(* probes, however often cards move and nodes fail around it.              *)
(***************************************************************************)
(* A call goes on with all its cards located *)
Locating == stage \in {"filtering", "pushing", "ok"} => \A c \in Asked : located[c] # Nowhere

(* What was pushed down went to a node with the cards located there, and the node
   is off the plan *)
Pushed == \A x \in ran : x[2] = CardsOf(x[1]) /\ x[1] \notin plan

(* The node of a located card is yet to be asked, was dropped or has been asked *)
Planned ==
  \A c \in Asked : located[c] # Nowhere =>
    \/ located[c] \in plan
    \/ located[c] \in skipped
    \/ \E x \in ran : x[1] = located[c]

(* Nobody is asked or dropped before the nodes are filtered, and nobody is left at the end *)
Staged ==
  /\ stage \in {"resolving", "filtering"} => ran = {} /\ skipped = {}
  /\ stage = "ok" => plan = {}

QInv == QueryTypeOK /\ Locating /\ Pushed /\ Planned /\ Staged

(* The call begins with nothing located and nobody asked. *)
LEMMA QueryInitInv == QueryInit => QInv
<1> SUFFICES ASSUME QueryInit PROVE QInv
  OBVIOUS
<1>1. QueryTypeOK
  BY QueryAssumption DEF QueryInit, QueryTypeOK
<1>2. Locating /\ Pushed /\ Staged
  BY DEF QueryInit, Locating, Pushed, Staged
<1>3. Planned
  BY DEF QueryInit, Planned
<1> QED
  BY <1>1, <1>2, <1>3 DEF QInv

(* The surroundings of a call do not touch what it has found and done. *)
LEMMA SurroundingsKeepInv ==
  ASSUME QInv, QueryTypeOK', UNCHANGED <<stage, located, plan, skipped, ran>>
  PROVE  QInv'
  BY DEF QInv, Locating, Pushed, Planned, Staged, CardsOf

(* A lookup locates one card more and puts its node on the plan. *)
LEMMA ResolveKeepsInv ==
  ASSUME QInv, NEW c \in Asked, Resolve(c)
  PROVE  QInv'
<1> USE DEF QInv, Resolve
<1>0. ran = {} /\ ran' = {} /\ skipped = {} /\ stage = "resolving"
  BY DEF Staged
<1>1. CASE owner[c] = Nowhere
  <2>1. QueryTypeOK'
    BY <1>1 DEF QueryTypeOK
  <2>2. (Locating /\ Pushed /\ Planned /\ Staged)'
    BY <1>0, <1>1 DEF Locating, Pushed, Planned, Staged
  <2> QED
    BY <2>1, <2>2
<1>2. CASE owner[c] # Nowhere
  <2>1. /\ located' = [located EXCEPT ![c] = owner[c]]
        /\ plan' = plan \cup {owner[c]}
        /\ stage' = IF \A d \in Asked : located'[d] # Nowhere THEN "filtering" ELSE stage
        /\ UNCHANGED <<owner, up, belief, moves, skipped, ran>>
    BY <1>2
  <2>2. owner[c] \in Node
    BY <1>2 DEF QueryTypeOK
  <2>3. QueryTypeOK'
    BY <1>0, <2>1, <2>2 DEF QueryTypeOK
  <2>4. Planned'
    <3> SUFFICES ASSUME NEW d \in Asked, located'[d] # Nowhere
                 PROVE  located'[d] \in plan' \/ located'[d] \in skipped'
      BY DEF Planned
    <3> QED
      BY <1>0, <2>1 DEF Planned, QueryTypeOK
  <2>5. (Locating /\ Pushed /\ Staged)'
    BY <1>0, <2>1 DEF Locating, Pushed, Staged
  <2> QED
    BY <2>3, <2>4, <2>5
<1> QED
  BY <1>1, <1>2

(* The filter moves nodes from the plan to the dropped ones. *)
LEMMA FilterKeepsInv ==
  ASSUME QInv, FilterHealthy
  PROVE  QInv'
<1> USE DEF QInv
<1>1. /\ stage = "filtering" /\ ran = {} /\ ran' = {}
      /\ UNCHANGED <<owner, up, moves, located>>
  BY DEF FilterHealthy, Staged
<1>2. stage' \in {"raised", "pushing"}
  BY DEF FilterHealthy
<1>3. belief' \in [Node -> {"unknown", "up", "down"}]
  BY DEF FilterHealthy, QueryTypeOK
<1>4. plan' \subseteq plan /\ skipped = {} /\ skipped' = plan \ plan'
  BY <1>1 DEF FilterHealthy, Staged
<1>5. QueryTypeOK'
  BY <1>1, <1>2, <1>3, <1>4 DEF QueryTypeOK
<1>6. Planned'
  BY <1>1, <1>4 DEF Planned
<1>7. (Locating /\ Pushed /\ Staged)'
  BY <1>1, <1>2 DEF Locating, Pushed, Staged
<1> QED
  BY <1>5, <1>6, <1>7

(* A push-down takes its node off the plan and leaves the cards located there. *)
LEMMA PushDownKeepsInv ==
  ASSUME QInv, NEW n \in Node, PushDown(n)
  PROVE  QInv'
<1> USE DEF QInv
<1>1. /\ stage = "pushing" /\ n \in plan
      /\ UNCHANGED <<owner, up, belief, moves, located, skipped>>
  BY DEF PushDown
<1>2. CASE /\ ran' = ran \cup {<<n, Target(n)>>}
           /\ plan' = plan \ {n}
           /\ stage' = IF plan = {n} THEN "ok" ELSE stage
  <2>1. QueryTypeOK'
    <3>1. Target(n) \in SUBSET Asked
      BY DEF Target, CardsOf
    <3> QED
      BY <1>1, <1>2, <3>1 DEF QueryTypeOK
  <2>2. Locating' /\ Staged'
    BY <1>1, <1>2 DEF Locating, Staged
  <2>3. Pushed'
    BY <1>1, <1>2 DEF Pushed, Target, CardsOf
  <2>4. Planned'
    <3> SUFFICES ASSUME NEW c \in Asked, located[c] # Nowhere,
                        located[c] \notin plan', located[c] \notin skipped
                 PROVE  \E x \in ran' : x[1] = located[c]
      BY <1>1 DEF Planned
    <3>1. CASE located[c] = n
      <4>1. <<n, Target(n)>> \in ran' /\ <<n, Target(n)>>[1] = located[c]
        BY <1>2, <3>1
      <4> QED
        BY <4>1
    <3>2. CASE located[c] # n
      BY <1>2, <3>2 DEF Planned
    <3> QED
      BY <3>1, <3>2
  <2> QED
    BY <2>1, <2>2, <2>3, <2>4
<1>3. CASE stage' = "raised" /\ UNCHANGED <<ran, plan>>
  BY <1>1, <1>3 DEF QueryTypeOK, Locating, Pushed, Planned, Staged, CardsOf
<1> QED
  BY <1>2, <1>3 DEF PushDown

(* A step of the call, of the cards or of the nodes keeps the invariant. *)
LEMMA QueryNextInv == QInv /\ [QueryNext]_queryVars => QInv'
<1> SUFFICES ASSUME QInv, [QueryNext]_queryVars PROVE QInv'
  OBVIOUS
<1> USE QueryAssumption
<1>1. ASSUME NEW c \in Asked, Reregister(c) PROVE QInv'
  <2>1. UNCHANGED <<stage, located, plan, skipped, ran>>
    BY <1>1 DEF Reregister
  <2>2. QueryTypeOK'
    BY <1>1 DEF Reregister, QInv, QueryTypeOK
  <2> QED
    BY <2>1, <2>2, SurroundingsKeepInv
<1>2. ASSUME NEW n \in Node, Flip(n) PROVE QInv'
  <2>1. UNCHANGED <<stage, located, plan, skipped, ran>>
    BY <1>2 DEF Flip
  <2>2. QueryTypeOK'
    BY <1>2 DEF Flip, QInv, QueryTypeOK
  <2> QED
    BY <2>1, <2>2, SurroundingsKeepInv
<1>3. ASSUME NEW n \in Node, Forget(n) PROVE QInv'
  <2>1. UNCHANGED <<stage, located, plan, skipped, ran>>
    BY <1>3 DEF Forget
  <2>2. QueryTypeOK'
    BY <1>3 DEF Forget, QInv, QueryTypeOK
  <2> QED
    BY <2>1, <2>2, SurroundingsKeepInv
<1>4. CASE UNCHANGED queryVars
  <2>1. UNCHANGED <<stage, located, plan, skipped, ran>> /\ QueryTypeOK'
    BY <1>4 DEF queryVars, QInv, QueryTypeOK
  <2> QED
    BY <2>1, SurroundingsKeepInv
<1> QED
  BY <1>1, <1>2, <1>3, <1>4, ResolveKeepsInv, FilterKeepsInv, PushDownKeepsInv
     DEF QueryNext, QueryStep

(* The position of a call and what it has done, for every registry and node. *)
THEOREM QueryInvariant == QuerySpec => []QInv
  BY QueryInitInv, QueryNextInv, PTL DEF QuerySpec

(* A card that ran was pushed by one node only *)
LEMMA PushedOnce == QInv => EachCardOnce
<1> SUFFICES ASSUME QInv PROVE EachCardOnce
  OBVIOUS
<1>1. ASSUME NEW x \in ran, NEW y \in ran, x[2] \cap y[2] # {} PROVE x = y
  <2>1. x[1] = y[1]
    BY <1>1 DEF QInv, Pushed, CardsOf
  <2>2. x[2] = y[2]
    BY <2>1 DEF QInv, Pushed
  <2>3. x \in Node \X SUBSET Asked /\ y \in Node \X SUBSET Asked
    BY DEF QInv, QueryTypeOK
  <2> QED
    BY <2>1, <2>2, <2>3
<1>2. ASSUME stage = "ok", NEW c \in Asked
      PROVE  (\E x \in ran : c \in x[2]) \/ (\E n \in skipped : c \in CardsOf(n))
  BY <1>2 DEF QInv, Locating, Pushed, Planned, Staged, CardsOf
<1> QED
  BY <1>1, <1>2 DEF EachCardOnce

(* A call executes no card twice, and what an answer leaves out had its node
   dropped as unhealthy (execute, _filter_healthy, _dispatch). *)
THEOREM NoCardTwice == QuerySpec => []EachCardOnce
<1>1. QInv => EachCardOnce
  BY PushedOnce
<1> QED
  BY <1>1, QueryInvariant, PTL

-----------------------------------------------------------------------------
(***************************************************************************)
(* Registries, for any number of peers, assets, reviews and syncs.         *)
(***************************************************************************)
(* An entry that is there, and any entry *)
Present == {e \in [node : Endpoint, status : Status, history : Seq(Ruling)] :
              Len(e.history) <= MaxReviews}
Entry == Present \cup {Absent}
OnOffer == [item : Card \cup Skill, node : Endpoint]
Stages == {"idle", "cards", "skills"}

(* The types, with the shape of the functions and how far a sync may be *)
RegShape ==
  /\ shelf \in [Reg -> [Item -> Entry]] /\ disk \in [Reg -> [Item -> Entry]]
  /\ todo \in [Reg -> SUBSET OnOffer]
  /\ pull \in [Reg -> [done : Nat, stage : Stages]]
  /\ \A r \in Reg : pull[r].stage # "idle" => pull[r].done < Len(Peers[r])
  /\ \A r \in Reg : pull[r].done <= Len(Peers[r])
  /\ \A r \in Reg : pull[r].stage = "idle" => todo[r] = {}
  /\ errors \in [Reg -> SUBSET Reg]
  /\ syncs \in [Reg -> 0 .. MaxSyncs]
  /\ unsaved \in [Reg -> BOOLEAN]
  /\ vouched \subseteq Item \X Endpoint

(* A card counts as approved only where somebody vouched for it: in a store, in
   a file, and on its way *)
Backing(entries) ==
  \A c \in Card : entries[c].status = "approved" => <<c, entries[c].node>> \in vouched
VouchedEverywhere ==
  \A r \in Reg : /\ Backing(shelf[r]) /\ Backing(disk[r])
                 /\ \A e \in todo[r] : e.item \in Card => <<e.item, e.node>> \in vouched

RegInv == RegShape /\ VouchedEverywhere

-----------------------------------------------------------------------------
LEMMA AbsentIsNone ==
  Absent.status = "absent" /\ Absent.history = <<>> /\ Absent.node = "-" /\ Absent \notin Present
BY DEF Absent, Present, Status

LEMMA EntryFacts ==
  ASSUME NEW e \in Entry
  PROVE  /\ e # Absent => e \in Present
         /\ e.status = "approved" => e \in Present
         /\ e.history \in Seq(Ruling) /\ IsEntry(e)
<1>1. CASE e \in Present
  BY <1>1 DEF Present, IsEntry
<1>2. CASE e = Absent
  <2>1. <<>> \in Seq(Ruling) /\ Len(<<>>) = 0
    BY EmptySeq
  <2>2. MaxReviews >= 0
    BY RegistryAssumption
  <2> QED
    BY <1>2, <2>1, <2>2, AbsentIsNone DEF IsEntry, Status
<1> QED
  BY <1>1, <1>2 DEF Entry

LEMMA PresentFacts ==
  ASSUME NEW e \in Present
  PROVE  /\ e \in [node : Endpoint, status : Status, history : Seq(Ruling)] /\ e.node \in Endpoint
         /\ e.history \in Seq(Ruling) /\ Len(e.history) <= MaxReviews /\ Len(e.history) \in Nat
BY LenProperties DEF Present

(* The types say what RegTypeOK does *)
LEMMA ShapeIsTyped == RegShape => RegTypeOK
<1> SUFFICES ASSUME RegShape PROVE RegTypeOK
  OBVIOUS
<1>1. \A r \in Reg, x \in Item : IsEntry(shelf[r][x]) /\ IsEntry(disk[r][x])
  BY EntryFacts DEF RegShape
<1>2. \A r \in Reg : pull[r].done \in 0 .. Len(Peers[r]) /\ pull[r].stage \in Stages
  <2> TAKE r \in Reg
  <2>1. pull[r].done \in Nat /\ pull[r].stage \in Stages /\ pull[r].done <= Len(Peers[r])
    BY DEF RegShape
  <2>2. Len(Peers[r]) \in Nat
    BY RegistryAssumption, LenProperties
  <2> QED
    BY <2>1, <2>2
<1>3. \A r \in Reg : \A e \in todo[r] : e.item \in Card \cup Skill
  BY DEF RegShape, OnOffer
<1> QED
  BY <1>1, <1>2, <1>3 DEF RegShape, RegTypeOK, Stages

-----------------------------------------------------------------------------
(* A store with one entry changed, kept in the file or not *)
LEMMA PutKeeps ==
  ASSUME RegInv, NEW r \in Reg, NEW x \in Item, NEW e \in Entry, Put(r, x, e),
         vouched \subseteq vouched', vouched' \subseteq Item \X Endpoint,
         x \in Card /\ e.status = "approved" => <<x, e.node>> \in vouched'
  PROVE  /\ shelf' \in [Reg -> [Item -> Entry]] /\ disk' \in [Reg -> [Item -> Entry]]
         /\ unsaved' \in [Reg -> BOOLEAN]
         /\ \A q \in Reg : Backing(shelf[q])' /\ Backing(disk[q])'
<1> DEFINE new == [shelf[r] EXCEPT ![x] = e]
<1>1. new \in [Item -> Entry]
  BY DEF RegInv, RegShape
<1>2. \A c \in Card : new[c].status = "approved" => <<c, new[c].node>> \in vouched'
  <2> TAKE c \in Card
  <2>0. c \in Item
    BY DEF Item
  <2>1. CASE c = x
    BY <2>1, <2>0 DEF RegInv, RegShape
  <2>2. CASE c # x
    <3>1. new[c] = shelf[r][c]
      BY <2>0, <2>2 DEF RegInv, RegShape
    <3>2. Backing(shelf[r])
      BY DEF RegInv, VouchedEverywhere
    <3> QED
      BY <3>1, <3>2 DEF Backing
  <2> QED
    BY <2>1, <2>2
<1>3. /\ shelf' = [shelf EXCEPT ![r] = new]
      /\ \/ disk' = [disk EXCEPT ![r] = new] /\ unsaved' = [unsaved EXCEPT ![r] = FALSE]
         \/ unsaved' = [unsaved EXCEPT ![r] = TRUE] /\ disk' = disk
  BY DEF Put, Keep
<1> HIDE DEF new
<1>4. shelf' \in [Reg -> [Item -> Entry]]
  BY <1>1, <1>3 DEF RegInv, RegShape
<1>5. disk' \in [Reg -> [Item -> Entry]]
  BY <1>1, <1>3 DEF RegInv, RegShape
<1>6. unsaved' \in [Reg -> BOOLEAN]
  BY <1>3 DEF RegInv, RegShape
<1>7. ASSUME NEW q \in Reg
      PROVE  Backing(shelf[q])' /\ Backing(disk[q])'
  <2>1. shelf'[q] = shelf[q] \/ shelf'[q] = new
    BY <1>3 DEF RegInv, RegShape
  <2>2. disk'[q] = disk[q] \/ disk'[q] = new
    BY <1>3 DEF RegInv, RegShape
  <2>3. Backing(shelf[q]) /\ Backing(disk[q])
    BY DEF RegInv, VouchedEverywhere
  <2> QED
    BY <1>2, <2>1, <2>2, <2>3 DEF Backing
<1> QED
  BY <1>4, <1>5, <1>6, <1>7

(* A request that changes one entry and touches no sync *)
LEMMA RequestKeeps ==
  ASSUME RegInv, NEW r \in Reg, NEW x \in Item, NEW e \in Entry, Put(r, x, e),
         vouched \subseteq vouched', vouched' \subseteq Item \X Endpoint,
         x \in Card /\ e.status = "approved" => <<x, e.node>> \in vouched',
         UNCHANGED <<pull, todo, errors, syncs>>
  PROVE  RegInv'
<1>1. /\ shelf' \in [Reg -> [Item -> Entry]] /\ disk' \in [Reg -> [Item -> Entry]]
      /\ unsaved' \in [Reg -> BOOLEAN]
      /\ \A q \in Reg : Backing(shelf[q])' /\ Backing(disk[q])'
  BY PutKeeps
<1>2. RegShape'
  BY <1>1 DEF RegInv, RegShape
<1>3. VouchedEverywhere'
  BY <1>1 DEF RegInv, VouchedEverywhere
<1> QED
  BY <1>2, <1>3 DEF RegInv

LEMMA VouchFacts ==
  ASSUME RegInv, NEW x \in Item, NEW e \in Present, Vouch(x, e)
  PROVE  /\ vouched \subseteq vouched' /\ vouched' \subseteq Item \X Endpoint
         /\ e.status = "approved" => <<x, e.node>> \in vouched'
<1>1. e.node \in Endpoint
  BY DEF Present
<1> QED
  BY <1>1 DEF Vouch, RegInv, RegShape

LEMMA RegisterKeeps ==
  ASSUME RegInv, NEW r \in Reg, NEW x \in Item, NEW n \in Endpoint, NEW s \in Status,
         Register(r, x, n, s)
  PROVE  RegInv'
<1> DEFINE t == IF x \in Plugin \/ (x \in Card /\ r \in Guarded) THEN "pending" ELSE s
           e == [node |-> n, status |-> IF x \in Skill THEN "approved" ELSE t, history |-> <<>>]
<1>1. Put(r, x, e) /\ Vouch(x, e) /\ UNCHANGED <<pull, todo, errors, syncs>>
  BY DEF Register
<1>2. t \in Status
  BY DEF Status
<1>3. e \in Present
  <2>1. <<>> \in Seq(Ruling) /\ Len(<<>>) = 0
    BY EmptySeq
  <2>2. 0 <= MaxReviews
    BY RegistryAssumption
  <2>3. (IF x \in Skill THEN "approved" ELSE t) \in Status
    BY <1>2 DEF Status
  <2>4. e \in [node : Endpoint, status : Status, history : Seq(Ruling)] /\ e.history = <<>>
    BY <2>1, <2>3
  <2> QED
    BY <2>1, <2>2, <2>4 DEF Present
<1> HIDE DEF e
<1> QED
  BY <1>1, <1>3, VouchFacts, RequestKeeps DEF Entry

LEMMA ReviewKeeps ==
  ASSUME RegInv, NEW r \in Reg, NEW x \in Item, NEW v \in Ruling, Review(r, x, v)
  PROVE  RegInv'
<1> DEFINE o == shelf[r][x]
           h == IF x \in Card THEN Append(o.history, v) ELSE o.history
           e == [o EXCEPT !.status = v, !.history = h]
<1>1. Put(r, x, e) /\ Vouch(x, e) /\ UNCHANGED <<pull, todo, errors, syncs>>
  BY DEF Review
<1>2. o \in Present /\ Len(o.history) < MaxReviews
  BY EntryFacts DEF Review, Known, RegInv, RegShape
<1>3. h \in Seq(Ruling) /\ Len(h) <= MaxReviews
  <2>1. o.history \in Seq(Ruling) /\ Len(o.history) \in Nat /\ MaxReviews \in Nat
    BY <1>2, PresentFacts, RegistryAssumption
  <2>2. Append(o.history, v) \in Seq(Ruling) /\ Len(Append(o.history, v)) = Len(o.history) + 1
    BY <2>1, AppendProperties
  <2> QED
    BY <1>2, <2>1, <2>2
<1>4. e \in Present
  <2>1. o \in [node : Endpoint, status : Status, history : Seq(Ruling)]
    BY <1>2, PresentFacts
  <2>2. v \in Status
    BY DEF Ruling, Status
  <2> DEFINE f == [o EXCEPT !.status = v]
  <2>3. e = [f EXCEPT !.history = h]
    OBVIOUS
  <2> HIDE DEF o, h
  <2>5. f \in [node : Endpoint, status : Status, history : Seq(Ruling)]
    BY <2>1, <2>2
  <2> HIDE DEF e, f
  <2>4. e \in [node : Endpoint, status : Status, history : Seq(Ruling)] /\ e.history = h
    BY <1>3, <2>3, <2>5
  <2> QED
    BY <1>3, <2>4 DEF Present
<1> HIDE DEF e
<1> QED
  BY <1>1, <1>4, VouchFacts, RequestKeeps DEF Entry

LEMMA UnregisterKeeps ==
  ASSUME RegInv, NEW r \in Reg, NEW x \in Item, Unregister(r, x)
  PROVE  RegInv'
<1>1. Put(r, x, Absent) /\ UNCHANGED <<pull, todo, errors, syncs>> /\ vouched' = vouched
  BY DEF Unregister
<1>2. Absent \in Entry /\ Absent.status # "approved"
  BY AbsentIsNone DEF Entry
<1>3. vouched' \subseteq Item \X Endpoint
  BY <1>1 DEF RegInv, RegShape
<1> QED
  BY <1>1, <1>2, <1>3, RequestKeeps

-----------------------------------------------------------------------------
(* Where a sync may go next *)
Places(r) == {p \in [done : Nat, stage : Stages] :
                /\ p.done <= Len(Peers[r])
                /\ p.stage # "idle" => p.done < Len(Peers[r])}

LEMMA PullFacts ==
  ASSUME RegInv, NEW r \in Reg
  PROVE  /\ pull[r] \in Places(r) /\ Len(Peers[r]) \in Nat /\ Peers[r] \in Seq(Reg)
         /\ ~Idle(r) => Peer(r) \in Reg
<1>1. Peers[r] \in Seq(Reg) /\ Len(Peers[r]) \in Nat
  BY RegistryAssumption, LenProperties
<1>2. pull[r] \in Places(r)
  BY DEF RegInv, RegShape, Places
<1>3. ASSUME ~Idle(r)
      PROVE  Peer(r) \in Reg
  <2>1. pull[r].done \in Nat /\ pull[r].done < Len(Peers[r])
    BY <1>3 DEF RegInv, RegShape, Idle
  <2>2. pull[r].done + 1 \in 1 .. Len(Peers[r])
    BY <1>1, <2>1
  <2> QED
    BY <1>1, <2>2, ElementOfSeq DEF Peer
<1> QED
  BY <1>1, <1>2, <1>3

LEMMA NextPlace ==
  ASSUME RegInv, NEW r \in Reg, ~Idle(r)
  PROVE  /\ Advance(r) \in Places(r)
         /\ [done |-> pull[r].done + 1,
             stage |-> IF pull[r].done + 1 = Len(Peers[r]) THEN "idle" ELSE "cards"] \in Places(r)
<1> DEFINE d == pull[r].done
           n == Len(Peers[r])
           q == [done |-> d + 1, stage |-> IF d + 1 = n THEN "idle" ELSE "cards"]
<1>1. pull[r] \in [done : Nat, stage : Stages] /\ d \in Nat /\ n \in Nat /\ d < n
  BY PullFacts DEF RegInv, RegShape, Idle
<1>2. q \in Places(r)
  <2>1. d + 1 \in Nat /\ d + 1 <= n /\ (d + 1 # n => d + 1 < n)
    BY <1>1
  <2> HIDE DEF d, n
  <2>2. q.done = d + 1 /\ q.stage = (IF d + 1 = n THEN "idle" ELSE "cards")
        /\ q \in [done : Nat, stage : Stages]
    BY <2>1 DEF Stages
  <2> HIDE DEF q
  <2> QED
    BY <2>1, <2>2 DEF Places, n
<1>3. [pull[r] EXCEPT !.stage = "skills"] \in Places(r)
  <2> DEFINE p == [pull[r] EXCEPT !.stage = "skills"]
  <2>1. p = [done |-> d, stage |-> "skills"]
    BY <1>1
  <2>2. p.done = d /\ p \in [done : Nat, stage : Stages]
    BY <1>1, <2>1 DEF Stages
  <2>3. d <= Len(Peers[r]) /\ d < Len(Peers[r])
    BY <1>1
  <2> HIDE DEF p, d, n
  <2>4. p \in [done : Nat, stage : Stages] /\ p.done <= Len(Peers[r]) /\ p.done < Len(Peers[r])
    BY <2>2, <2>3
  <2>5. p \in Places(r)
    BY <2>4 DEF Places
  <2> QED
    BY <2>5 DEF p
<1> QED
  BY <1>2, <1>3 DEF Advance

(* Steps of a sync that import nothing *)
LEMMA SyncKeeps ==
  ASSUME RegInv, NEW r \in Reg, NEW p \in Places(r), NEW t \in SUBSET OnOffer,
         pull' = [pull EXCEPT ![r] = p], todo' = [todo EXCEPT ![r] = t],
         p.stage = "idle" => t = {},
         \A e \in t : e.item \in Card => <<e.item, e.node>> \in vouched,
         errors' \in [Reg -> SUBSET Reg], syncs' \in [Reg -> 0 .. MaxSyncs],
         UNCHANGED <<shelf, disk, unsaved, vouched>>
  PROVE  RegInv'
<1>1. p \in [done : Nat, stage : Stages] /\ p.done <= Len(Peers[r])
      /\ (p.stage # "idle" => p.done < Len(Peers[r]))
  BY DEF Places
<1>2. \A q \in Reg : pull'[q] = (IF q = r THEN p ELSE pull[q]) /\ todo'[q] = (IF q = r THEN t ELSE todo[q])
  BY DEF RegInv, RegShape
<1>3. pull' \in [Reg -> [done : Nat, stage : Stages]] /\ todo' \in [Reg -> SUBSET OnOffer]
  BY <1>1 DEF RegInv, RegShape
<1>4. \A q \in Reg : /\ pull'[q].stage # "idle" => pull'[q].done < Len(Peers[q])
                     /\ pull'[q].done <= Len(Peers[q])
                     /\ pull'[q].stage = "idle" => todo'[q] = {}
  <2> TAKE q \in Reg
  <2>1. CASE q = r
    BY <1>1, <1>2, <2>1
  <2>2. CASE q # r
    BY <1>2, <2>2 DEF RegInv, RegShape
  <2> QED
    BY <2>1, <2>2
<1>5. RegShape'
  BY <1>3, <1>4 DEF RegInv, RegShape
<1>6. VouchedEverywhere'
  BY <1>2 DEF RegInv, VouchedEverywhere, Backing
<1> QED
  BY <1>5, <1>6 DEF RegInv

LEMMA StartSyncKeeps ==
  ASSUME RegInv, NEW r \in Reg, StartSync(r)
  PROVE  RegInv'
<1> DEFINE p == [done |-> 0, stage |-> "cards"]
<1>1. p \in Places(r) /\ p.stage # "idle"
  <2>1. Len(Peers[r]) \in Nat \ {0}
    BY RegistryAssumption, EmptySeq DEF StartSync
  <2>2. p \in [done : Nat, stage : Stages] /\ p.done = 0 /\ p.stage = "cards"
    BY DEF Stages
  <2> HIDE DEF p
  <2> QED
    BY <2>1, <2>2 DEF Places
<1>2. pull' = [pull EXCEPT ![r] = p] /\ todo' = [todo EXCEPT ![r] = todo[r]]
  BY DEF StartSync, RegInv, RegShape
<1>3. syncs' \in [Reg -> 0 .. MaxSyncs]
  <2>1. syncs \in [Reg -> 0 .. MaxSyncs] /\ MaxSyncs \in Nat
    BY RegistryAssumption DEF RegInv, RegShape
  <2>2. syncs[r] + 1 \in 0 .. MaxSyncs
    BY <2>1 DEF StartSync
  <2> QED
    BY <2>1, <2>2 DEF StartSync
<1>4. todo[r] \in SUBSET OnOffer /\ errors' \in [Reg -> SUBSET Reg]
  BY DEF StartSync, RegInv, RegShape
<1>5. \A e \in todo[r] : e.item \in Card => <<e.item, e.node>> \in vouched
  BY DEF RegInv, VouchedEverywhere
<1>6. UNCHANGED <<shelf, disk, unsaved, vouched>>
  BY DEF StartSync
<1> HIDE DEF p
<1> QED
  BY <1>1, <1>2, <1>3, <1>4, <1>5, <1>6, SyncKeeps

(* What a peer sends: of cards, those it has as approved *)
LEMMA ListedIsVouched ==
  ASSUME RegInv, NEW p \in Reg, NEW what
  PROVE  /\ Listed(p, what) \subseteq OnOffer
         /\ \A e \in Listed(p, what) : e.item \in Card => <<e.item, e.node>> \in vouched
<1> SUFFICES ASSUME NEW e \in Listed(p, what)
             PROVE  e \in OnOffer /\ (e.item \in Card => <<e.item, e.node>> \in vouched)
  OBVIOUS
<1>1. PICK x : /\ e = [item |-> x, node |-> shelf[p][x].node]
               /\ \/ x \in Card /\ shelf[p][x].status = "approved"
                  \/ x \in Skill /\ Known(p, x)
  BY DEF Listed, ListsApproved
<1>2. x \in Item /\ shelf[p][x] \in Entry
  BY <1>1 DEF Item, RegInv, RegShape
<1>3. shelf[p][x] \in Present
  BY <1>1, <1>2, EntryFacts DEF Known
<1>4. shelf[p][x].node \in Endpoint
  BY <1>3, PresentFacts
<1>5. e.item = x /\ e.node = shelf[p][x].node
  BY <1>1
<1>6. e \in OnOffer
  BY <1>1, <1>4 DEF OnOffer
<1>7. ASSUME x \in Card
      PROVE  <<x, shelf[p][x].node>> \in vouched
  <2>1. shelf[p][x].status = "approved"
    BY <1>1, <1>7, RegistryAssumption
  <2>2. Backing(shelf[p])
    BY DEF RegInv, VouchedEverywhere
  <2> QED
    BY <1>7, <2>1, <2>2 DEF Backing
<1> QED
  BY <1>5, <1>6, <1>7

LEMMA FetchKeeps ==
  ASSUME RegInv, NEW r \in Reg, Fetch(r)
  PROVE  RegInv'
<1> DEFINE got == Listed(Peer(r), pull[r].stage)
           p == IF got = {} THEN Advance(r) ELSE pull[r]
<1>1. ~Idle(r) /\ Peer(r) \in Reg
  BY PullFacts DEF Fetch
<1>2. got \in SUBSET OnOffer /\ \A e \in got : e.item \in Card => <<e.item, e.node>> \in vouched
  BY <1>1, ListedIsVouched
<1>3. p \in Places(r) /\ (p.stage = "idle" => got = {})
  <2>1. Advance(r) \in Places(r) /\ pull[r] \in Places(r) /\ pull[r].stage # "idle"
    BY <1>1, NextPlace, PullFacts DEF Idle
  <2> QED
    BY <2>1
<1>4. pull' = [pull EXCEPT ![r] = p] /\ todo' = [todo EXCEPT ![r] = got]
  BY DEF Fetch
<1>5. errors' \in [Reg -> SUBSET Reg] /\ syncs' \in [Reg -> 0 .. MaxSyncs]
  BY DEF Fetch, RegInv, RegShape
<1>6. UNCHANGED <<shelf, disk, unsaved, vouched>>
  BY DEF Fetch
<1> HIDE DEF got, p
<1> QED
  BY <1>2, <1>3, <1>4, <1>5, <1>6, SyncKeeps

LEMMA PeerFailsKeeps ==
  ASSUME RegInv, NEW r \in Reg, PeerFails(r)
  PROVE  RegInv'
<1> DEFINE p == [done |-> pull[r].done + 1,
                 stage |-> IF pull[r].done + 1 = Len(Peers[r]) THEN "idle" ELSE "cards"]
<1>1. ~Idle(r) /\ todo[r] = {} /\ Peer(r) \in Reg
  BY PullFacts DEF PeerFails, MayFail
<1>2. p \in Places(r)
  BY <1>1, NextPlace
<1>3. pull' = [pull EXCEPT ![r] = p] /\ todo' = [todo EXCEPT ![r] = {}]
  BY <1>1 DEF PeerFails, RegInv, RegShape
<1>4. errors' \in [Reg -> SUBSET Reg] /\ syncs' \in [Reg -> 0 .. MaxSyncs]
  BY <1>1 DEF PeerFails, RegInv, RegShape
<1>5. UNCHANGED <<shelf, disk, unsaved, vouched>>
  BY DEF PeerFails
<1> HIDE DEF p
<1> QED
  BY <1>2, <1>3, <1>4, <1>5, SyncKeeps

(* The import of one entry: into the store, or skipped; and one entry less to do *)
LEMMA ImportKeeps ==
  ASSUME RegInv, NEW r \in Reg, NEW e \in todo[r], Import(r, e)
  PROVE  RegInv'
<1>1. e \in OnOffer /\ (e.item \in Card => <<e.item, e.node>> \in vouched) /\ e.item \in Item
  BY DEF RegInv, RegShape, VouchedEverywhere, OnOffer, Item
<1>2. ~Idle(r)
  BY DEF RegInv, RegShape, Idle
<1>3. Imported(e) \in Entry /\ Imported(e).status = "approved" /\ Imported(e).node = e.node
  <2>1. <<>> \in Seq(Ruling) /\ Len(<<>>) = 0 /\ 0 <= MaxReviews
    BY EmptySeq, RegistryAssumption
  <2>2. /\ Imported(e) \in [node : Endpoint, status : Status, history : Seq(Ruling)]
        /\ Imported(e).history = <<>> /\ Imported(e).status = "approved"
        /\ Imported(e).node = e.node
    BY <1>1, <2>1 DEF Imported, OnOffer, Status
  <2> QED
    BY <2>1, <2>2 DEF Entry, Present
<1>4. /\ shelf' \in [Reg -> [Item -> Entry]] /\ disk' \in [Reg -> [Item -> Entry]]
      /\ unsaved' \in [Reg -> BOOLEAN]
      /\ \A q \in Reg : Backing(shelf[q])' /\ Backing(disk[q])'
  <2>1. vouched' = vouched /\ vouched' \subseteq Item \X Endpoint
    BY DEF Import, RegInv, RegShape
  <2>2. CASE Known(r, e.item) /\ ~UpdateExisting
    <3>1. UNCHANGED <<shelf, disk, unsaved>>
      BY <2>2 DEF Import
    <3> QED
      BY <2>1, <3>1 DEF RegInv, RegShape, VouchedEverywhere, Backing
  <2>3. CASE ~(Known(r, e.item) /\ ~UpdateExisting)
    <3>1. Put(r, e.item, Imported(e))
      BY <2>3 DEF Import
    <3> QED
      BY <1>1, <1>3, <2>1, <3>1, PutKeeps
  <2> QED
    BY <2>2, <2>3
<1>5. \E p \in Places(r), t \in SUBSET todo[r] :
        /\ pull' = [pull EXCEPT ![r] = p] /\ todo' = [todo EXCEPT ![r] = t]
        /\ p.stage = "idle" => t = {}
  <2>1. CASE Done(r, e)
    <3> DEFINE p == IF todo[r] = {e} THEN Advance(r) ELSE pull[r]
    <3>1. p \in Places(r) /\ (p.stage = "idle" => todo[r] \ {e} = {})
      <4>1. Advance(r) \in Places(r) /\ pull[r] \in Places(r) /\ pull[r].stage # "idle"
        BY <1>2, NextPlace, PullFacts DEF Idle
      <4> QED
        BY <4>1
    <3>2. pull' = [pull EXCEPT ![r] = p] /\ todo' = [todo EXCEPT ![r] = todo[r] \ {e}]
      BY <2>1 DEF Done
    <3> HIDE DEF p
    <3> QED
      BY <3>1, <3>2
  <2>2. CASE todo' = [todo EXCEPT ![r] = {}] /\ pull' = [pull EXCEPT ![r] = [done |-> 0, stage |-> "idle"]]
    <3>1. [done |-> 0, stage |-> "idle"] \in Places(r)
      BY PullFacts DEF Places, Stages
    <3> QED
      BY <2>2, <3>1
  <2> QED
    BY <2>1, <2>2 DEF Import
<1>6. PICK p \in Places(r), t \in SUBSET todo[r] :
        /\ pull' = [pull EXCEPT ![r] = p] /\ todo' = [todo EXCEPT ![r] = t]
        /\ p.stage = "idle" => t = {}
  BY <1>5
<1>7. UNCHANGED <<errors, syncs, vouched>>
  BY DEF Import
<1>8. p \in [done : Nat, stage : Stages] /\ p.done <= Len(Peers[r])
      /\ (p.stage # "idle" => p.done < Len(Peers[r]))
  BY DEF Places
<1>9. \A q \in Reg : pull'[q] = (IF q = r THEN p ELSE pull[q]) /\ todo'[q] = (IF q = r THEN t ELSE todo[q])
  BY <1>6 DEF RegInv, RegShape
<1>10. pull' \in [Reg -> [done : Nat, stage : Stages]] /\ todo' \in [Reg -> SUBSET OnOffer]
  BY <1>6, <1>8 DEF RegInv, RegShape
<1>11. \A q \in Reg : /\ pull'[q].stage # "idle" => pull'[q].done < Len(Peers[q])
                      /\ pull'[q].done <= Len(Peers[q])
                      /\ pull'[q].stage = "idle" => todo'[q] = {}
  <2> TAKE q \in Reg
  <2>1. CASE q = r
    BY <1>6, <1>8, <1>9, <2>1
  <2>2. CASE q # r
    BY <1>9, <2>2 DEF RegInv, RegShape
  <2> QED
    BY <2>1, <2>2
<1>12. RegShape'
  BY <1>4, <1>7, <1>10, <1>11 DEF RegInv, RegShape
<1>13. VouchedEverywhere'
  BY <1>4, <1>7, <1>9 DEF RegInv, VouchedEverywhere
<1> QED
  BY <1>12, <1>13 DEF RegInv

LEMMA RestartKeepsReg ==
  ASSUME RegInv, NEW r \in Reg, Restart(r)
  PROVE  RegInv'
<1>1. \A q \in Reg :
        /\ shelf'[q] \in {shelf[q], disk[q]}
        /\ pull'[q] = (IF q = r THEN [done |-> 0, stage |-> "idle"] ELSE pull[q])
        /\ todo'[q] = (IF q = r THEN {} ELSE todo[q])
  BY DEF Restart, RegInv, RegShape
<1>2. [done |-> 0, stage |-> "idle"] \in Places(r)
  BY PullFacts DEF Places, Stages
<1>3. shelf' \in [Reg -> [Item -> Entry]] /\ todo' \in [Reg -> SUBSET OnOffer]
      /\ errors' \in [Reg -> SUBSET Reg] /\ unsaved' \in [Reg -> BOOLEAN]
  BY DEF Restart, RegInv, RegShape
<1>4. pull' \in [Reg -> [done : Nat, stage : Stages]]
  BY <1>2 DEF Restart, RegInv, RegShape, Places
<1>5. \A q \in Reg : /\ pull'[q].stage # "idle" => pull'[q].done < Len(Peers[q])
                     /\ pull'[q].done <= Len(Peers[q])
                     /\ pull'[q].stage = "idle" => todo'[q] = {}
  <2> TAKE q \in Reg
  <2>1. CASE q = r
    BY <1>1, <1>2, <2>1 DEF Places
  <2>2. CASE q # r
    BY <1>1, <2>2 DEF RegInv, RegShape
  <2> QED
    BY <2>1, <2>2
<1>6. RegShape'
  BY <1>3, <1>4, <1>5 DEF Restart, RegInv, RegShape
<1>7. VouchedEverywhere'
  BY <1>1 DEF Restart, RegInv, VouchedEverywhere, Backing
<1> QED
  BY <1>6, <1>7 DEF RegInv

LEMMA RegNextKeeps ==
  ASSUME RegInv, [RegNext]_regVars
  PROVE  RegInv'
<1>1. CASE UNCHANGED regVars
  BY <1>1 DEF regVars, RegInv, RegShape, VouchedEverywhere, Backing
<1> QED
  BY <1>1, StartSyncKeeps, FetchKeeps, PeerFailsKeeps, ImportKeeps, RestartKeepsReg, UnregisterKeeps,
     RegisterKeeps, ReviewKeeps DEF RegNext, RegStep, SyncStep

LEMMA RegStart == RegInit => RegInv
<1> SUFFICES ASSUME RegInit PROVE RegInv
  OBVIOUS
<1>1. Absent \in Entry /\ Absent.status # "approved"
  BY AbsentIsNone DEF Entry
<1>2. \A r \in Reg : pull[r] = [done |-> 0, stage |-> "idle"]
  BY DEF RegInit
<1>3. \A r \in Reg : Len(Peers[r]) \in Nat
  BY RegistryAssumption, LenProperties
<1>4. syncs \in [Reg -> 0 .. MaxSyncs]
  BY RegistryAssumption DEF RegInit
<1>5. RegShape
  BY <1>1, <1>2, <1>3, <1>4 DEF RegInit, RegShape, Stages
<1>6. VouchedEverywhere
  BY <1>1 DEF RegInit, VouchedEverywhere, Backing, Item
<1> QED
  BY <1>5, <1>6 DEF RegInv

(* The invariant of the registries (registry/store.py, federation.py) *)
THEOREM RegInvariant == RegSpec => []RegInv
<1>1. RegInv /\ [RegNext]_regVars => RegInv'
  BY RegNextKeeps
<1> QED
  BY <1>1, RegStart, PTL DEF RegSpec

(* The types *)
THEOREM RegTypeCorrect == RegSpec => []RegTypeOK
<1>1. RegInv => RegTypeOK
  BY ShapeIsTyped DEF RegInv
<1> QED
  BY <1>1, RegInvariant, PTL

(* However registries pull from one another, crash, and fail to save, a card is shown
   as approved only with an endpoint under which some registry approved it *)
THEOREM VouchedSpreads == RegSpec => []OnlyVouchedSpreads
<1>1. RegInv => OnlyVouchedSpreads
  BY DEF RegInv, VouchedEverywhere, Backing, OnlyVouchedSpreads
<1> QED
  BY <1>1, RegInvariant, PTL

-----------------------------------------------------------------------------
(***************************************************************************)
(* The dispatcher, for any number of callers, workers and tasks.  What is  *)
(* said of sequences is proved from the theorems about finite sets.        *)
(***************************************************************************)
(* Sequences without repetition *)
LEMMA Members ==
  ASSUME NEW S, NEW s \in Seq(S)
  PROVE  /\ Len(s) \in Nat /\ DOMAIN s = 1 .. Len(s) /\ s \in [1 .. Len(s) -> S]
         /\ ToSet(s) \subseteq S
         /\ ToSet(s) = {s[i] : i \in 1 .. Len(s)}
BY LenProperties DEF ToSet

LEMMA MembersAreFinite ==
  ASSUME NEW S, NEW s \in Seq(S)
  PROVE  /\ IsFiniteSet(ToSet(s)) /\ Cardinality(ToSet(s)) \in Nat
         /\ IsInjective(s) => Cardinality(ToSet(s)) = Len(s)
<1> DEFINE D == 1 .. Len(s)
           T == ToSet(s)
<1>1. Len(s) \in Nat /\ DOMAIN s = D
  BY Members
<1>2. IsFiniteSet(D) /\ Cardinality(D) = Len(s)
  BY <1>1, FS_Interval
<1>3. s \in Surjection(D, T)
  BY Members DEF Surjection
<1>4. IsFiniteSet(T) /\ (Cardinality(T) = Cardinality(D) <=> s \in Injection(D, T))
  <2> HIDE DEF D, T
  <2> QED
    BY <1>2, <1>3, FS_Surjection
<1>5. IsInjective(s) => s \in Injection(D, T)
  BY <1>1, <1>3 DEF Surjection, Injection, IsInjective
<1> HIDE DEF D, T
<1>6. IsInjective(s) => Cardinality(T) = Len(s)
  BY <1>2, <1>4, <1>5
<1> QED
  BY <1>4, <1>6, FS_CardinalityType DEF T

(* An enumeration of a set has its members, once each *)
LEMMA Enumerations ==
  ASSUME NEW S, IsFiniteSet(S), NEW s \in SetToSeqs(S)
  PROVE  /\ s \in Seq(S) /\ IsInjective(s) /\ ToSet(s) = S /\ Len(s) = Cardinality(S)
<1> DEFINE n == Cardinality(S)
           D == 1 .. n
<1>1. n \in Nat
  BY FS_CardinalityType
<1>2. s \in [D -> S] /\ \A i, j \in D : i # j => s[i] # s[j]
  BY DEF SetToSeqs
<1>3. s \in Seq(S) /\ Len(s) = n /\ DOMAIN s = D
  <2> HIDE DEF n
  <2> QED
    BY <1>1, <1>2
<1>4. IsInjective(s)
  BY <1>2, <1>3 DEF IsInjective
<1>5. Cardinality(ToSet(s)) = n
  BY <1>3, <1>4, MembersAreFinite
<1>6. ToSet(s) \in SUBSET S
  BY <1>3, Members
<1>7. ToSet(s) = S
  BY <1>5, <1>6, FS_Subset
<1> QED
  BY <1>3, <1>4, <1>7

LEMMA Joined ==
  ASSUME NEW S, NEW s \in Seq(S), NEW t \in Seq(S),
         IsInjective(s), IsInjective(t), ToSet(s) \cap ToSet(t) = {}
  PROVE  s \o t \in Seq(S) /\ IsInjective(s \o t) /\ ToSet(s \o t) = ToSet(s) \cup ToSet(t)
<1> DEFINE m == Len(s)
           n == Len(t)
           u == s \o t
<1>1. m \in Nat /\ n \in Nat /\ u \in Seq(S) /\ Len(u) = m + n /\ DOMAIN u = 1 .. m + n
  BY ConcatProperties, LenProperties
<1>2. \A i \in 1 .. m + n : u[i] = IF i <= m THEN s[i] ELSE t[i - m]
  BY ConcatProperties
<1>3. \A i \in 1 .. m : s[i] \in ToSet(s)
  BY Members
<1>4. \A i \in 1 .. n : t[i] \in ToSet(t)
  BY Members
<1>5. DOMAIN s = 1 .. m /\ DOMAIN t = 1 .. n
  BY Members
<1> HIDE DEF u, m, n
<1>6. ToSet(u) = ToSet(s) \cup ToSet(t)
  <2>1. ASSUME NEW i \in 1 .. m + n PROVE u[i] \in ToSet(s) \cup ToSet(t)
    <3>1. CASE i <= m
      BY <1>1, <1>2, <1>3, <3>1
    <3>2. CASE ~ (i <= m)
      <4>1. i - m \in 1 .. n
        BY <1>1, <3>2
      <4> QED
        BY <1>2, <1>4, <3>2, <4>1
    <3> QED
      BY <3>1, <3>2
  <2>2. ASSUME NEW i \in 1 .. m PROVE s[i] \in ToSet(u)
    <3>1. i \in 1 .. m + n /\ u[i] = s[i]
      BY <1>1, <1>2
    <3> QED
      BY <1>1, <3>1 DEF ToSet
  <2>3. ASSUME NEW i \in 1 .. n PROVE t[i] \in ToSet(u)
    <3>1. i + m \in 1 .. m + n /\ ~ (i + m <= m) /\ (i + m) - m = i
      BY <1>1
    <3>2. u[i + m] = t[i]
      BY <1>2, <3>1
    <3> QED
      BY <1>1, <3>1, <3>2 DEF ToSet
  <2> QED
    BY <1>1, <1>5, <2>1, <2>2, <2>3 DEF ToSet
<1>7. IsInjective(u)
  <2> SUFFICES ASSUME NEW i \in 1 .. m + n, NEW j \in 1 .. m + n, u[i] = u[j]
               PROVE  i = j
    BY <1>1 DEF IsInjective
  <2>1. CASE i <= m /\ j <= m
    BY <1>1, <1>2, <1>5, <2>1 DEF IsInjective
  <2>2. CASE ~ (i <= m) /\ ~ (j <= m)
    <3>1. i - m \in 1 .. n /\ j - m \in 1 .. n
      BY <1>1, <2>2
    <3>2. t[i - m] = t[j - m]
      BY <1>2, <2>2
    <3>3. i - m = j - m
      BY <1>5, <3>1, <3>2 DEF IsInjective
    <3> QED
      BY <1>1, <3>3
  <2>3. CASE i <= m /\ ~ (j <= m)
    <3>1. i \in 1 .. m /\ j - m \in 1 .. n
      BY <1>1, <2>3
    <3> QED
      BY <1>2, <1>3, <1>4, <2>3, <3>1
  <2>4. CASE ~ (i <= m) /\ j <= m
    <3>1. j \in 1 .. m /\ i - m \in 1 .. n
      BY <1>1, <2>4
    <3> QED
      BY <1>2, <1>3, <1>4, <2>4, <3>1
  <2> QED
    BY <2>1, <2>2, <2>3, <2>4
<1> QED
  BY <1>1, <1>6, <1>7 DEF u

LEMMA Appended ==
  ASSUME NEW S, NEW s \in Seq(S), IsInjective(s), NEW w \in S, w \notin ToSet(s)
  PROVE  Append(s, w) \in Seq(S) /\ IsInjective(Append(s, w)) /\ ToSet(Append(s, w)) = ToSet(s) \cup {w}
<1>1. <<w>> \in Seq(S) /\ IsInjective(<<w>>) /\ ToSet(<<w>>) = {w}
  BY DEF IsInjective, ToSet
<1>2. Append(s, w) = s \o <<w>>
  BY AppendIsConcat
<1>3. ToSet(s) \cap ToSet(<<w>>) = {}
  BY <1>1
<1>4. /\ s \o <<w>> \in Seq(S) /\ IsInjective(s \o <<w>>)
      /\ ToSet(s \o <<w>>) = ToSet(s) \cup ToSet(<<w>>)
  <2> DEFINE t == <<w>>
  <2>1. t \in Seq(S) /\ IsInjective(t) /\ ToSet(s) \cap ToSet(t) = {}
    BY <1>1, <1>3
  <2> HIDE DEF t
  <2>2. s \o t \in Seq(S) /\ IsInjective(s \o t) /\ ToSet(s \o t) = ToSet(s) \cup ToSet(t)
    BY <2>1, Joined
  <2> QED
    BY <2>2 DEF t
<1> QED
  BY <1>1, <1>2, <1>4

-----------------------------------------------------------------------------
(* The first and the nearest of what is in the table *)
LEMMA SmallestOf ==
  ASSUME NEW S \in SUBSET Nat, S # {}
  PROVE  Min(S) \in S
<1>1. PICK n \in S : \A m \in S : <<m, n>> \notin OpToRel(<, Nat)
  BY NatLessThanWellFounded, WFMin
<1>2. \A m \in S : m \in Nat /\ n \in Nat /\ ~ (m < n)
  BY <1>1 DEF OpToRel
<1>3. \A m \in S : n <= m
  BY <1>2
<1> QED
  BY <1>3 DEF Min

LEMMA NearestOf ==
  ASSUME NEW S, IsFiniteSet(S), S # {}, NEW near \in [S -> Nat]
  PROVE  \E i \in S : \A j \in S : near[j] <= near[i]
<1> DEFINE Nearer(i) == {j \in S : near[j] > near[i]}
           Sets == {Nearer(i) : i \in S}
<1>1. Sets \subseteq FiniteSubsetsOf(S) /\ Sets # {}
  <2>1. FiniteSubsetsOf(S) = SUBSET S
    BY FS_FiniteSubsetsOfFinite
  <2>2. \A i \in S : Nearer(i) \in SUBSET S /\ Nearer(i) \in Sets
    OBVIOUS
  <2>3. \A T \in Sets : T \in SUBSET S
    OBVIOUS
  <2> HIDE DEF Sets
  <2> QED
    BY <2>1, <2>2, <2>3
<1>2. PICK T \in Sets : \A U \in Sets : <<U, T>> \notin StrictSubsetOrdering(S)
  <2> HIDE DEF Sets
  <2> QED
    BY <1>1, FS_StrictSubsetOrderingWellFounded, WFMin
<1>3. PICK i \in S : T = Nearer(i)
  OBVIOUS
<1>4. ASSUME NEW j \in S, near[j] > near[i]
      PROVE  FALSE
  <2>1. Nearer(j) \subseteq Nearer(i) /\ j \in Nearer(i) /\ j \notin Nearer(j)
    BY <1>4
  <2>2. Nearer(j) \in Sets /\ Nearer(j) \in SUBSET S /\ Nearer(i) \in SUBSET S
    OBVIOUS
  <2>3. <<Nearer(j), Nearer(i)>> \in StrictSubsetOrdering(S)
    <3> HIDE DEF Nearer
    <3> QED
      BY <2>1, <2>2 DEF StrictSubsetOrdering
  <2> QED
    BY <1>2, <1>3, <2>2, <2>3
<1> QED
  BY <1>4

(* route finds a worker when one fits, and one that fits *)
LEMMA RouteFinds ==
  ASSUME table \in Seq(Worker), NEW c \in Caller
  PROVE  /\ Route(c) = NoWorker => \A w \in ToSet(table) \ sick : ~ Suits(w, c)
         /\ Route(c) # NoWorker => Route(c) \in ToSet(table)
<1> DEFINE D == 1 .. Len(table)
           fit == {i \in D : Suits(table[i], c) /\ table[i] \notin sick}
           near(i) == Near[c][table[i]]
           nearest == {i \in fit : \A j \in fit : near(j) <= near(i)}
           home == {i \in fit : table[i] \in Home[c]}
           first == IF home = {} THEN fit ELSE home
<1>1. Len(table) \in Nat /\ DOMAIN table = D /\ table \in [D -> Worker] /\ ToSet(table) = {table[i] : i \in D}
  BY Members
<1>2. \A i \in D : table[i] # NoWorker /\ table[i] \in ToSet(table) /\ near(i) \in Nat
  BY <1>1, CafeAssumption
<1>3. IsFiniteSet(fit) /\ fit \in SUBSET D /\ D \in SUBSET Nat
  <2>1. IsFiniteSet(D) /\ D \in SUBSET Nat
    BY <1>1, FS_Interval
  <2>2. fit \in SUBSET D
    OBVIOUS
  <2> HIDE DEF fit, D
  <2> QED
    BY <2>1, <2>2, FS_Subset
<1>4. Route(c) = CASE fit = {} -> NoWorker
                   [] fit # {} /\ near(Min(nearest)) > 0 -> table[Min(nearest)]
                   [] fit # {} /\ near(Min(nearest)) = 0 -> table[Min(first)]
  BY <1>1 DEF Route
<1>5. CASE fit = {}
  <2>1. Route(c) = NoWorker
    BY <1>4, <1>5, Zenon
  <2>2. ASSUME NEW w \in ToSet(table) \ sick, Suits(w, c)
        PROVE  FALSE
    <3>1. PICK i \in D : w = table[i]
      BY <1>1
    <3>2. i \in fit
      BY <2>2, <3>1
    <3> QED
      BY <1>5, <3>2
  <2> QED
    BY <2>1, <2>2
<1>6. CASE fit # {}
  <2>1. nearest # {}
    <3> DEFINE g == [i \in fit |-> near(i)]
    <3>1. g \in [fit -> Nat]
      BY <1>2, <1>3
    <3>2. PICK i \in fit : \A j \in fit : g[j] <= g[i]
      <4> HIDE DEF g, fit
      <4> QED
        BY <1>3, <1>6, <3>1, NearestOf
    <3> QED
      BY <3>2
  <2>2. Min(nearest) \in D
    <3>1. nearest \in SUBSET Nat /\ nearest \in SUBSET D
      BY <1>3
    <3> HIDE DEF nearest, D
    <3> QED
      BY <2>1, <3>1, SmallestOf
  <2>3. Min(first) \in D
    <3>1. first \in SUBSET D /\ first # {} /\ first \in SUBSET Nat
      BY <1>3, <1>6
    <3> HIDE DEF first, D
    <3> QED
      BY <3>1, SmallestOf
  <2>4. near(Min(nearest)) \in Nat
    BY <1>2, <2>2
  <2>5. Route(c) = table[Min(nearest)] \/ Route(c) = table[Min(first)]
    <3> DEFINE x == near(Min(nearest))
               y == table[Min(nearest)]
               z == table[Min(first)]
    <3>0. x \in Nat
      BY <2>4, Zenon
    <3>2. Route(c) = CASE fit = {} -> NoWorker [] fit # {} /\ x > 0 -> y [] fit # {} /\ x = 0 -> z
      BY <1>4
    <3> HIDE DEF x, y, z, fit
    <3>1. (x > 0 /\ ~ (x = 0)) \/ (x = 0 /\ ~ (x > 0))
      BY <3>0
    <3>3. Route(c) = y \/ Route(c) = z
      <4>1. fit # {}
        BY <1>6
      <4>2. CASE x > 0 /\ ~ (x = 0)
        BY <3>2, <4>1, <4>2, Zenon
      <4>3. CASE x = 0 /\ ~ (x > 0)
        BY <3>2, <4>1, <4>3, Zenon
      <4> QED
        BY <3>1, <4>2, <4>3, Zenon
    <3> QED
      BY <3>3 DEF y, z
  <2> HIDE DEF fit, nearest, first, near, home
  <2> QED
    BY <1>2, <2>2, <2>3, <2>5
<1> QED
  BY <1>5, <1>6

-----------------------------------------------------------------------------
(* What holds of every call *)
Dispatching(c) == pc[c] \in {"routing", "looking", "restoring", "sending", "executing"}

SharesATry(c) == \E d \in Caller \ {c} : tried[c] \cap tried[d] # {}

Proper(c) ==
  /\ withdrawn[c] # {} /\ pc[c] \notin {"routing", "looking", "restoring"} =>
       pc[c] = "done" /\ answer[c] = "raised" /\ disturbed[c] /\ SharesATry(c)
  /\ withdrawn[c] \subseteq tried[c]
  /\ toTake[c] \subseteq tried[c] \ withdrawn[c]
  /\ spotted[c] \in toTake[c] \cup {NoWorker}
  /\ pc[c] # "routing" => spotted[c] = NoWorker
  /\ spotted[c] \notin ToSet(table) \cup {NoWorker} => disturbed[c] /\ SharesATry(c)
  /\ tried[c] \subseteq known
  /\ pc[c] = "idle" => tried[c] = {} /\ answer[c] = "none"
  /\ pc[c] \in {"sending", "executing"} => chosen[c] # NoWorker
  /\ Dispatching(c) => left[c] > 0
  /\ pc[c] = "explaining" => answer[c] = "refused"
  /\ answer[c] = "raised" => pc[c] = "done" \/ chosen[c] = NoWorker

(* Of a call that nobody has disturbed: no other failover has workers out, and every
   round that is gone has tried one more *)
InPeace(c) ==
  /\ \A d \in Caller : d # c => withdrawn[d] = {}
  /\ pc[c] = "routing" => withdrawn[c] = tried[c] \ toTake[c]
  /\ pc[c] = "looking" => withdrawn[c] = tried[c]
  /\ pc[c] \in {"restoring", "sending"} => chosen[c] \notin tried[c]
  /\ left[c] + Cardinality(tried[c]) = Cardinality(known) + (IF pc[c] = "executing" THEN 2 ELSE 1)

Calm(c) == ~ disturbed[c] /\ Dispatching(c) => InPeace(c)

CafeInv ==
  /\ CafeTypeOK
  /\ IsFiniteSet(known)
  /\ WorkersAccountedFor
  /\ LeaseIsAlive
  /\ \A c \in Caller : Proper(c) /\ Calm(c)

LEMMA TableFacts ==
  ASSUME CafeInv
  PROVE  /\ table \in Seq(Worker) /\ IsInjective(table) /\ ToSet(table) \subseteq known
         /\ Len(table) \in Nat /\ Len(table) = Cardinality(ToSet(table))
         /\ IsFiniteSet(ToSet(table)) /\ Cardinality(known) \in Nat
         /\ \A c \in Caller : withdrawn[c] \subseteq known
BY Members, MembersAreFinite, FS_CardinalityType DEF CafeInv, CafeTypeOK, WorkersAccountedFor

LEMMA TriedFacts ==
  ASSUME CafeInv, NEW c \in Caller
  PROVE  /\ IsFiniteSet(tried[c]) /\ Cardinality(tried[c]) \in Nat
         /\ Cardinality(tried[c]) <= Cardinality(known)
<1>1. tried[c] \in SUBSET known /\ IsFiniteSet(known)
  BY DEF CafeInv, Proper
<1> QED
  BY <1>1, FS_Subset, FS_CardinalityType

(* While nobody has workers out, all that are known are in the table *)
LEMMA AllInTable ==
  ASSUME CafeInv, \A d \in Caller : withdrawn[d] = {}
  PROVE  known = ToSet(table) /\ Cardinality(known) = Len(table)
<1>1. known = ToSet(table)
  BY DEF CafeInv, WorkersAccountedFor
<1> QED
  BY <1>1, TableFacts

(* The caller of an execution, or of one that raised *)
LEMMA LeaseStays ==
  ASSUME CafeInv, NEW c \in Caller, pc[c] \notin {"executing", "done"}, lease' = lease,
         \A d \in Caller : d # c => pc'[d] = pc[d] /\ chosen'[d] = chosen[d] /\ answer'[d] = answer[d]
  PROVE  LeaseIsAlive'
<1> SUFFICES ASSUME NEW k \in Pushdown, lease[k] # NoWorker
             PROVE  \E d \in Caller : /\ TaskOf[d] = k /\ chosen'[d] = lease[k]
                                      /\ pc'[d] = "executing" \/ answer'[d] = "raised"
  BY DEF LeaseIsAlive
<1>1. PICK d \in Caller : /\ TaskOf[d] = k /\ chosen[d] = lease[k]
                          /\ pc[d] = "executing" \/ answer[d] = "raised"
  BY DEF CafeInv, LeaseIsAlive
<1>2. d # c
  BY <1>1 DEF CafeInv, Proper
<1> QED
  BY <1>1, <1>2

LEMMA LeaseDropped ==
  ASSUME CafeInv, NEW c \in Caller, lease' = Dropped(c),
         \A d \in Caller : d # c => pc'[d] = pc[d] /\ chosen'[d] = chosen[d] /\ answer'[d] = answer[d]
  PROVE  LeaseIsAlive'
<1> SUFFICES ASSUME NEW k \in Pushdown, lease'[k] # NoWorker
             PROVE  \E d \in Caller : /\ TaskOf[d] = k /\ chosen'[d] = lease'[k]
                                      /\ pc'[d] = "executing" \/ answer'[d] = "raised"
  BY DEF LeaseIsAlive
<1>1. k # TaskOf[c] /\ lease'[k] = lease[k]
  BY DEF Dropped, CafeInv, CafeTypeOK
<1>2. PICK d \in Caller : /\ TaskOf[d] = k /\ chosen[d] = lease[k]
                          /\ pc[d] = "executing" \/ answer[d] = "raised"
  BY <1>1 DEF CafeInv, LeaseIsAlive
<1> QED
  BY <1>1, <1>2

(* What a call that is over has lost *)
LEMMA ProperAccounts ==
  ASSUME \A c \in Caller : Proper(c)'
  PROVE  \A c \in Caller : withdrawn'[c] # {} /\ ~ Active(c)' =>
            /\ answer'[c] = "raised"
            /\ \E d \in Caller \ {c} : tried'[c] \cap tried'[d] # {}
BY DEF Proper, SharesATry, Active

(* A step of one call that leaves the table alone *)
LEMMA OneCallKeeps ==
  ASSUME CafeInv, NEW c \in Caller, CafeTypeOK', LeaseIsAlive',
         UNCHANGED <<table, known, withdrawn>>, tried[c] \subseteq tried'[c],
         \A d \in Caller : d # c =>
            /\ pc'[d] = pc[d] /\ tried'[d] = tried[d] /\ left'[d] = left[d] /\ chosen'[d] = chosen[d]
            /\ answer'[d] = answer[d] /\ disturbed'[d] = disturbed[d]
            /\ toTake'[d] = toTake[d] /\ spotted'[d] = spotted[d],
         withdrawn[c] \cap ToSet(table) # {} => disturbed'[c],
         Proper(c)', Calm(c)'
  PROVE  CafeInv'
<1>1. ASSUME NEW d \in Caller, d # c
      PROVE  Proper(d)' /\ Calm(d)'
  <2>1. Proper(d) /\ Calm(d)
    BY DEF CafeInv
  <2>2. SharesATry(d) => SharesATry(d)'
    BY <1>1 DEF SharesATry
  <2>3. Proper(d)'
    BY <1>1, <2>1, <2>2 DEF Proper, Dispatching
  <2> QED
    BY <1>1, <2>1, <2>3 DEF Calm, InPeace, Dispatching
<1>2. WorkersAccountedFor'
  <2>1. \A d \in Caller : withdrawn[d] \cap ToSet(table) # {} => disturbed'[d]
    BY DEF CafeInv, WorkersAccountedFor
  <2>2. \A d \in Caller : Proper(d)'
    BY <1>1
  <2> QED
    BY <2>1, <2>2, ProperAccounts DEF CafeInv, WorkersAccountedFor
<1> QED
  BY <1>1, <1>2 DEF CafeInv

LEMMA CafeInitInv == CafeInit => CafeInv
<1> SUFFICES ASSUME CafeInit PROVE CafeInv
  OBVIOUS
<1>1. CafeTypeOK
  BY Members, CafeAssumption DEF CafeInit, CafeTypeOK, Answers
<1>2. IsFiniteSet(known)
  BY MembersAreFinite, CafeAssumption DEF CafeInit
<1>3. WorkersAccountedFor
  BY DEF CafeInit, WorkersAccountedFor
<1>4. LeaseIsAlive
  BY DEF CafeInit, LeaseIsAlive
<1>5. \A c \in Caller : Proper(c) /\ Calm(c)
  BY DEF CafeInit, Proper, SharesATry, Calm, Dispatching
<1> QED
  BY <1>1, <1>2, <1>3, <1>4, <1>5 DEF CafeInv

LEMMA DispatchToKeeps ==
  ASSUME CafeInv, NEW c \in Caller, NEW w \in Worker, DispatchTo(c, w)
  PROVE  CafeInv'
<1>1. CafeTypeOK'
  BY DEF CafeInv, CafeTypeOK, DispatchTo, takingVars, Ends, Answers
<1>2. LeaseIsAlive'
  BY LeaseStays DEF CafeInv, CafeTypeOK, DispatchTo, Ends
<1>3. Proper(c)'
  BY DEF CafeInv, CafeTypeOK, DispatchTo, takingVars, Ends, Proper, Dispatching
<1>5. Calm(c)'
  BY DEF CafeInv, CafeTypeOK, DispatchTo, Ends, Calm, Dispatching
<1>4. withdrawn[c] \cap ToSet(table) # {} => disturbed'[c]
  BY DEF CafeInv, WorkersAccountedFor, DispatchTo, takingVars
<1> QED
  BY <1>1, <1>2, <1>3, <1>4, <1>5, OneCallKeeps DEF CafeInv, CafeTypeOK, DispatchTo, takingVars, Ends

LEMMA DispatchKeeps ==
  ASSUME CafeInv, NEW c \in Caller, Dispatch(c)
  PROVE  CafeInv'
<1>1. Len(table) + 1 \in Nat
  BY TableFacts
<1>2. CafeTypeOK'
  BY <1>1 DEF CafeInv, CafeTypeOK, Dispatch, takingVars
<1>3. LeaseIsAlive'
  BY LeaseStays DEF CafeInv, CafeTypeOK, Dispatch
<1>4. withdrawn[c] = {} /\ tried[c] = {} /\ toTake[c] = {} /\ spotted[c] = NoWorker
  BY DEF CafeInv, Proper, Dispatch
<1>5. Proper(c)'
  BY <1>1, <1>4, TableFacts DEF CafeInv, CafeTypeOK, Dispatch, takingVars, Proper, Dispatching
<1>6. Calm(c)'
  <2> SUFFICES ASSUME ~ disturbed'[c]
               PROVE  InPeace(c)'
    BY DEF Calm
  <2>1. \A d \in Caller : withdrawn[d] = {}
    BY DEF CafeInv, CafeTypeOK, Dispatch
  <2>2. Len(table) = Cardinality(known)
    BY <2>1, AllInTable
  <2>3. Cardinality(tried[c]) = 0
    BY <1>4, FS_EmptySet
  <2>4. left'[c] = Len(table) + 1 /\ pc'[c] = "routing" /\ UNCHANGED <<tried, known, withdrawn, toTake>>
    BY DEF CafeInv, CafeTypeOK, Dispatch, takingVars
  <2>5. left'[c] + Cardinality(tried[c]) = Cardinality(known) + 1
    BY <1>1, <2>2, <2>3, <2>4, TableFacts
  <2> QED
    BY <1>4, <2>1, <2>4, <2>5 DEF InPeace
<1>7. \A d \in Caller : d # c =>
        /\ pc'[d] = pc[d] /\ tried'[d] = tried[d] /\ left'[d] = left[d] /\ chosen'[d] = chosen[d]
        /\ answer'[d] = answer[d] /\ disturbed'[d] = disturbed[d]
        /\ toTake'[d] = toTake[d] /\ spotted'[d] = spotted[d]
  BY DEF CafeInv, CafeTypeOK, Dispatch, takingVars
<1>8. UNCHANGED <<table, known, withdrawn, tried>>
  BY DEF Dispatch, takingVars
<1>9. withdrawn[c] \cap ToSet(table) = {}
  BY <1>4
<1> QED
  BY <1>2, <1>3, <1>5, <1>6, <1>7, <1>8, <1>9, OneCallKeeps

LEMMA CheckKeeps ==
  ASSUME CafeInv, NEW c \in Caller, Check(c)
  PROVE  CafeInv'
<1>1. pc[c] = "routing" /\ spotted[c] = NoWorker
      /\ UNCHANGED <<table, known, sick, lease, pc, tried, left, withdrawn, size, chosen, answer, disturbed>>
  BY DEF Check
<1>2. PICK w \in toTake[c] :
        \/ w \in ToSet(table) /\ spotted' = [spotted EXCEPT ![c] = w] /\ toTake' = toTake
        \/ w \notin ToSet(table) /\ toTake' = [toTake EXCEPT ![c] = @ \ {w}] /\ spotted' = spotted
  BY DEF Check
<1>3. w \in tried[c] \ withdrawn[c] /\ w \in known /\ w \in Worker
  BY DEF CafeInv, CafeTypeOK, Proper
<1>4. CafeTypeOK'
  <2>1. toTake \in [Caller -> SUBSET Worker] /\ spotted \in [Caller -> Worker \cup {NoWorker}]
    BY DEF CafeInv, CafeTypeOK
  <2>2. toTake' \in [Caller -> SUBSET Worker]
    <3>1. toTake[c] \ {w} \in SUBSET Worker
      BY <2>1
    <3> QED
      BY <1>2, <2>1, <3>1
  <2>3. spotted' \in [Caller -> Worker \cup {NoWorker}]
    BY <1>2, <1>3, <2>1
  <2> QED
    BY <1>1, <2>2, <2>3 DEF CafeInv, CafeTypeOK
<1>5. LeaseIsAlive'
  BY <1>1, LeaseStays
<1>6. Proper(c)'
  <2>1. Proper(c)
    BY DEF CafeInv
  <2> QED
    BY <1>1, <1>2, <1>3, <2>1 DEF CafeInv, CafeTypeOK, Proper, SharesATry, Dispatching
<1>7. Calm(c)'
  <2> SUFFICES ASSUME ~ disturbed[c]
               PROVE  InPeace(c)'
    BY <1>1 DEF Calm
  <2>1. InPeace(c)
    BY <1>1 DEF CafeInv, Calm, Dispatching
  <2>2. w \in ToSet(table)
    <3>1. w \in ToSet(table) \/ \E d \in Caller : w \in withdrawn[d]
      BY <1>3 DEF CafeInv, WorkersAccountedFor
    <3> QED
      BY <1>3, <2>1, <3>1 DEF InPeace
  <2>3. toTake' = toTake
    BY <1>2, <2>2
  <2> QED
    BY <1>1, <2>1, <2>3 DEF InPeace
<1>8. withdrawn[c] \cap ToSet(table) # {} => disturbed'[c]
  BY <1>1 DEF CafeInv, WorkersAccountedFor
<1>9. \A d \in Caller : d # c => toTake'[d] = toTake[d] /\ spotted'[d] = spotted[d]
  BY <1>2 DEF CafeInv, CafeTypeOK
<1> QED
  BY <1>1, <1>4, <1>5, <1>6, <1>7, <1>8, <1>9, OneCallKeeps

(* The pop that fails was overtaken by a failover that has tried the same worker *)
LEMMA PopFailsKeeps ==
  ASSUME CafeInv, NEW c \in Caller, PopFails(c)
  PROVE  CafeInv'
<1>1. /\ pc[c] = "routing" /\ spotted[c] \notin ToSet(table) \cup {NoWorker}
      /\ pc' = [pc EXCEPT ![c] = "done"] /\ answer' = [answer EXCEPT ![c] = "raised"]
      /\ spotted' = [spotted EXCEPT ![c] = NoWorker]
      /\ UNCHANGED <<table, known, sick, lease, tried, left, toTake, withdrawn, size, chosen, disturbed>>
  BY DEF PopFails, Ends
<1>2. disturbed[c] /\ SharesATry(c)
  BY <1>1 DEF CafeInv, Proper
<1>3. CafeTypeOK'
  BY <1>1 DEF CafeInv, CafeTypeOK, Answers
<1>4. pc'[c] = "done" /\ answer'[c] = "raised" /\ spotted'[c] = NoWorker
      /\ \A d \in Caller : d # c => pc'[d] = pc[d] /\ answer'[d] = answer[d] /\ spotted'[d] = spotted[d]
  BY <1>1 DEF CafeInv, CafeTypeOK
<1>5. LeaseIsAlive'
  BY <1>1, <1>4, LeaseStays
<1>6. SharesATry(c)'
  BY <1>1, <1>2 DEF SharesATry
<1>7. Proper(c)'
  BY <1>1, <1>2, <1>4, <1>6 DEF CafeInv, Proper, Dispatching
<1>8. Calm(c)'
  BY <1>4 DEF Calm, Dispatching
<1> QED
  BY <1>1, <1>2, <1>3, <1>4, <1>5, <1>7, <1>8, OneCallKeeps

LEMMA IterateKeeps ==
  ASSUME CafeInv, NEW c \in Caller, Iterate(c)
  PROVE  CafeInv'
<1>1. /\ pc[c] = "routing" /\ spotted[c] = NoWorker /\ toTake[c] = {}
      /\ size' = [size EXCEPT ![c] = Len(table)] /\ pc' = [pc EXCEPT ![c] = "looking"]
      /\ UNCHANGED <<table, known, sick, lease, tried, left, toTake, spotted, withdrawn, chosen, answer,
                     disturbed>>
  BY DEF Iterate, takingVars
<1>2. CafeTypeOK'
  BY <1>1, TableFacts DEF CafeInv, CafeTypeOK
<1>3. pc'[c] = "looking" /\ \A d \in Caller : d # c => pc'[d] = pc[d]
  BY <1>1 DEF CafeInv, CafeTypeOK
<1>4. LeaseIsAlive'
  BY <1>1, <1>3, LeaseStays
<1>5. Proper(c)'
  <2>1. Proper(c)
    BY DEF CafeInv
  <2> QED
    BY <1>1, <1>3, <2>1 DEF Proper, SharesATry, Dispatching
<1>6. Calm(c)'
  <2> SUFFICES ASSUME ~ disturbed[c]
               PROVE  InPeace(c)'
    BY <1>1 DEF Calm
  <2>1. InPeace(c)
    BY <1>1 DEF CafeInv, Calm, Dispatching
  <2> QED
    BY <1>1, <1>3, <2>1 DEF InPeace
<1>7. withdrawn[c] \cap ToSet(table) # {} => disturbed'[c]
  BY <1>1 DEF CafeInv, WorkersAccountedFor
<1> QED
  BY <1>1, <1>2, <1>3, <1>4, <1>5, <1>6, <1>7, OneCallKeeps

LEMMA ChooseKeeps ==
  ASSUME CafeInv, NEW c \in Caller, Choose(c)
  PROVE  CafeInv'
<1>1. pc[c] = "looking"
      /\ UNCHANGED <<table, known, sick, lease, tried, left, toTake, spotted, withdrawn, disturbed>>
  BY DEF Choose, takingVars
<1> DEFINE v == IF Len(table) = size[c] THEN Route(c) ELSE NoWorker
<1>2. v \in ToSet(table) \cup {NoWorker} /\ chosen' = [chosen EXCEPT ![c] = v]
  <2>1. Route(c) \in ToSet(table) \cup {NoWorker}
    BY TableFacts, RouteFinds
  <2> QED
    BY <2>1 DEF Choose
<1>3. PICK x \in {"none", "raised", "refused", "exhausted"},
           y \in {"restoring", "sending", "explaining", "done"} :
        /\ answer' = [answer EXCEPT ![c] = x] /\ pc' = [pc EXCEPT ![c] = y]
        /\ x = "raised" => v = NoWorker
        /\ y = "sending" => v # NoWorker
        /\ y = "explaining" => x = "refused"
        /\ y # "restoring" => tried[c] = {}
  <2> DEFINE x == CASE ~ (Len(table) = size[c]) -> "raised"
                    [] (Len(table) = size[c]) /\ v # NoWorker -> "none"
                    [] (Len(table) = size[c]) /\ v = NoWorker ->
                         IF tried[c] = {} THEN "refused" ELSE "exhausted"
             y == CASE tried[c] # {} -> "restoring"
                    [] tried[c] = {} /\ v # NoWorker -> "sending"
                    [] tried[c] = {} /\ v = NoWorker ->
                         IF Len(table) = size[c] THEN "explaining" ELSE "done"
  <2>1. answer' = [answer EXCEPT ![c] = x] /\ pc' = [pc EXCEPT ![c] = y]
    BY DEF Choose
  <2>2. /\ x = "raised" => v = NoWorker
        /\ y = "sending" => v # NoWorker
        /\ y = "explaining" => x = "refused"
        /\ y # "restoring" => tried[c] = {}
        /\ x \in {"none", "raised", "refused", "exhausted"}
        /\ y \in {"restoring", "sending", "explaining", "done"}
    <3> HIDE DEF v
    <3> QED
      BY DEF v
  <2> QED
    BY <2>1, <2>2
<1>4. size' \in [Caller -> Nat]
  BY DEF Choose, CafeInv, CafeTypeOK
<1> HIDE DEF v
<1>5. ToSet(table) \subseteq Worker
  BY TableFacts, Members
<1>6. CafeTypeOK'
  BY <1>1, <1>2, <1>3, <1>4, <1>5 DEF CafeInv, CafeTypeOK, Answers
<1>7. pc'[c] = y /\ answer'[c] = x /\ chosen'[c] = v
      /\ \A d \in Caller : d # c => pc'[d] = pc[d] /\ answer'[d] = answer[d] /\ chosen'[d] = chosen[d]
  BY <1>2, <1>3 DEF CafeInv, CafeTypeOK
<1>8. LeaseIsAlive'
  BY <1>1, <1>7, LeaseStays
<1>9. Proper(c)'
  <2>1. Proper(c)
    BY DEF CafeInv
  <2>2. y # "restoring" => withdrawn[c] = {}
    BY <1>3, <2>1 DEF Proper
  <2> QED
    BY <1>1, <1>3, <1>7, <2>1, <2>2 DEF Proper, SharesATry, Dispatching
<1>10. Calm(c)'
  <2> SUFFICES ASSUME ~ disturbed[c]
               PROVE  InPeace(c)'
    BY <1>1 DEF Calm
  <2>1. InPeace(c) /\ withdrawn[c] = tried[c]
    BY <1>1 DEF CafeInv, Calm, Dispatching, InPeace
  <2>2. tried[c] \cap ToSet(table) = {}
    BY <2>1 DEF CafeInv, WorkersAccountedFor
  <2>3. NoWorker \notin tried[c]
    BY CafeAssumption DEF CafeInv, CafeTypeOK
  <2>4. chosen'[c] \notin tried[c]
    BY <1>2, <1>7, <2>2, <2>3
  <2>5. pc'[c] \in {"restoring", "sending", "explaining", "done"}
    BY <1>3, <1>7
  <2> QED
    BY <1>1, <2>1, <2>4, <2>5 DEF InPeace
<1>11. withdrawn[c] \cap ToSet(table) # {} => disturbed'[c]
  BY <1>1 DEF CafeInv, WorkersAccountedFor
<1> QED
  BY <1>1, <1>6, <1>7, <1>8, <1>9, <1>10, <1>11, OneCallKeeps

LEMMA ExplainKeeps ==
  ASSUME CafeInv, NEW c \in Caller, Explain(c)
  PROVE  CafeInv'
<1>1. PICK a \in {"refused", "raised"} :
        /\ pc[c] = "explaining" /\ pc' = [pc EXCEPT ![c] = "done"]
        /\ answer' = [answer EXCEPT ![c] = a] /\ size' = [size EXCEPT ![c] = 0]
        /\ UNCHANGED <<table, known, sick, lease, tried, left, toTake, spotted, withdrawn, chosen, disturbed>>
  BY DEF Explain, Ends, takingVars
<1>2. CafeTypeOK'
  BY <1>1 DEF CafeInv, CafeTypeOK, Answers
<1>3. pc'[c] = "done" /\ \A d \in Caller : d # c => pc'[d] = pc[d] /\ answer'[d] = answer[d]
  BY <1>1 DEF CafeInv, CafeTypeOK
<1>4. LeaseIsAlive'
  BY <1>1, <1>3, LeaseStays
<1>5. Proper(c)'
  BY <1>1, <1>3 DEF CafeInv, Proper, Dispatching
<1>6. Calm(c)'
  BY <1>3 DEF Calm, Dispatching
<1>7. withdrawn[c] \cap ToSet(table) # {} => disturbed'[c]
  BY <1>1 DEF CafeInv, WorkersAccountedFor
<1> QED
  BY <1>1, <1>2, <1>3, <1>4, <1>5, <1>6, <1>7, OneCallKeeps

LEMMA SendKeeps ==
  ASSUME CafeInv, NEW c \in Caller, Send(c)
  PROVE  CafeInv'
<1> DEFINE w == chosen[c]
<1>1. pc[c] = "sending" /\ w # NoWorker /\ left[c] > 0
      /\ UNCHANGED <<table, known, sick, left, toTake, spotted, withdrawn, size, chosen, disturbed>>
  BY DEF Send, takingVars, CafeInv, Proper, Dispatching
<1>2. withdrawn[c] \cap ToSet(table) # {} => disturbed'[c]
  BY <1>1 DEF CafeInv, WorkersAccountedFor
<1>3. CASE w \notin ToSet(table)
  <2>1. /\ pc' = [pc EXCEPT ![c] = "done"] /\ answer' = [answer EXCEPT ![c] = "raised"]
        /\ UNCHANGED <<tried, lease>>
    BY <1>3 DEF Send, Ends
  <2>2. CafeTypeOK'
    BY <1>1, <2>1 DEF CafeInv, CafeTypeOK, Answers
  <2>3. LeaseIsAlive'
    BY <1>1, <2>1, LeaseStays DEF CafeInv, CafeTypeOK
  <2>4. Proper(c)'
    BY <1>1, <2>1 DEF CafeInv, CafeTypeOK, Proper, Dispatching
  <2>5. Calm(c)'
    BY <2>1 DEF CafeInv, CafeTypeOK, Calm, Dispatching
  <2> QED
    BY <1>1, <1>2, <2>1, <2>2, <2>3, <2>4, <2>5, OneCallKeeps DEF CafeInv, CafeTypeOK
<1>4. CASE w \in ToSet(table)
  <2>1. /\ tried' = [tried EXCEPT ![c] = @ \cup {w}]
        /\ lease' = [lease EXCEPT ![TaskOf[c]] = w]
        /\ pc' = [pc EXCEPT ![c] = "executing"]
        /\ UNCHANGED answer
    BY <1>4 DEF Send
  <2>2. w \in known /\ w \in Worker /\ TaskOf[c] \in Pushdown
    BY <1>4, TableFacts, Members, CafeAssumption
  <2>3. CafeTypeOK'
    BY <1>1, <2>1, <2>2 DEF CafeInv, CafeTypeOK
  <2>4. LeaseIsAlive'
    <3> SUFFICES ASSUME NEW k \in Pushdown, lease'[k] # NoWorker
                 PROVE  \E d \in Caller : /\ TaskOf[d] = k /\ chosen[d] = lease'[k]
                                          /\ pc'[d] = "executing" \/ answer[d] = "raised"
      BY <1>1, <2>1 DEF LeaseIsAlive
    <3>1. CASE k = TaskOf[c]
      <4>1. lease'[k] = w /\ pc'[c] = "executing"
        BY <2>1, <3>1 DEF CafeInv, CafeTypeOK
      <4> QED
        BY <3>1, <4>1
    <3>2. CASE k # TaskOf[c]
      <4>1. lease'[k] = lease[k]
        BY <2>1, <3>2 DEF CafeInv, CafeTypeOK
      <4>2. PICK d \in Caller : /\ TaskOf[d] = k /\ chosen[d] = lease[k]
                                /\ pc[d] = "executing" \/ answer[d] = "raised"
        BY <4>1 DEF CafeInv, LeaseIsAlive
      <4>3. d # c
        BY <3>2, <4>2
      <4>4. pc'[d] = pc[d]
        BY <2>1, <4>3 DEF CafeInv, CafeTypeOK
      <4> QED
        BY <4>1, <4>2, <4>4
    <3> QED
      BY <3>1, <3>2
  <2>5. Proper(c)'
    BY <1>1, <2>1, <2>2 DEF CafeInv, CafeTypeOK, Proper, SharesATry, Dispatching
  <2>6. Calm(c)'
    <3> SUFFICES ASSUME ~ disturbed[c]
                 PROVE  InPeace(c)'
      BY <1>1 DEF Calm
    <3>1. InPeace(c) /\ w \notin tried[c]
      BY <1>1 DEF CafeInv, Calm, Dispatching, InPeace
    <3>2. tried'[c] = tried[c] \cup {w} /\ pc'[c] = "executing"
      BY <2>1 DEF CafeInv, CafeTypeOK
    <3>3. Cardinality(tried'[c]) = Cardinality(tried[c]) + 1
      BY <3>1, <3>2, TriedFacts, FS_AddElement
    <3>4. left[c] + Cardinality(tried[c]) = Cardinality(known) + 1 /\ left[c] \in Nat
      BY <1>1, <3>1 DEF InPeace, CafeInv, CafeTypeOK
    <3>5. left[c] + Cardinality(tried'[c]) = Cardinality(known) + 2
      BY <3>3, <3>4, TriedFacts, TableFacts
    <3> QED
      BY <1>1, <3>1, <3>2, <3>5 DEF InPeace
  <2>7. tried[c] \subseteq tried'[c] /\ \A d \in Caller : d # c => pc'[d] = pc[d] /\ tried'[d] = tried[d]
    BY <2>1 DEF CafeInv, CafeTypeOK
  <2> QED
    BY <1>1, <1>2, <2>1, <2>3, <2>4, <2>5, <2>6, <2>7, OneCallKeeps
<1> QED
  BY <1>3, <1>4

LEMMA TryAnotherKeeps ==
  ASSUME CafeInv, NEW c \in Caller, TryAnother(c)
  PROVE  CafeInv'
<1>1. pc[c] = "executing" /\ left[c] \in Nat /\ chosen[c] \in Worker
      /\ lease' = Dropped(c) /\ sick' = sick \cup {chosen[c]} /\ left' = [left EXCEPT ![c] = @ - 1]
      /\ UNCHANGED <<table, known, tried, withdrawn, spotted, size, disturbed>>
  BY DEF TryAnother, CafeInv, CafeTypeOK, Proper
<1>2. withdrawn[c] = {} /\ left[c] > 0
  BY <1>1 DEF CafeInv, Proper, Dispatching
<1>3. left' \in [Caller -> Nat] /\ left'[c] = left[c] - 1 /\ \A d \in Caller : d # c => left'[d] = left[d]
  BY <1>1, <1>2 DEF CafeInv, CafeTypeOK
<1>4. lease' \in [Pushdown -> Worker \cup {NoWorker}]
  BY <1>1 DEF Dropped, CafeInv, CafeTypeOK
<1>5. CASE left[c] > 1
  <2>1. /\ pc' = [pc EXCEPT ![c] = "routing"] /\ toTake' = [toTake EXCEPT ![c] = tried[c]]
        /\ chosen' = [chosen EXCEPT ![c] = NoWorker] /\ UNCHANGED answer
    BY <1>5 DEF TryAnother
  <2>2. CafeTypeOK'
    BY <1>1, <1>3, <1>4, <2>1 DEF CafeInv, CafeTypeOK
  <2>3. /\ pc'[c] = "routing" /\ toTake'[c] = tried[c] /\ chosen'[c] = NoWorker
        /\ \A d \in Caller : d # c => pc'[d] = pc[d] /\ toTake'[d] = toTake[d] /\ chosen'[d] = chosen[d]
    BY <2>1 DEF CafeInv, CafeTypeOK
  <2>4. LeaseIsAlive'
    BY <1>1, <2>1, <2>3, LeaseDropped
  <2>5. Proper(c)'
    <3>1. Proper(c)
      BY DEF CafeInv
    <3>2. left'[c] > 0
      BY <1>3, <1>5, <1>1
    <3> QED
      BY <1>1, <1>2, <2>1, <2>3, <3>1, <3>2 DEF Proper, SharesATry, Dispatching
  <2>6. Calm(c)'
    <3> SUFFICES ASSUME ~ disturbed[c]
                 PROVE  InPeace(c)'
      BY <1>1 DEF Calm
    <3>1. InPeace(c)
      BY <1>1 DEF CafeInv, Calm, Dispatching
    <3>2. left[c] + Cardinality(tried[c]) = Cardinality(known) + 2
      BY <1>1, <3>1 DEF InPeace
    <3>3. left'[c] + Cardinality(tried[c]) = Cardinality(known) + 1
      <4>1. left[c] \in Nat /\ left'[c] = left[c] - 1
        BY <1>1, <1>3
      <4>2. Cardinality(tried[c]) \in Nat /\ Cardinality(known) \in Nat
        BY TriedFacts, TableFacts
      <4> QED
        BY <3>2, <4>1, <4>2
    <3> QED
      BY <1>1, <1>2, <2>3, <3>1, <3>3 DEF InPeace
  <2> QED
    BY <1>1, <1>2, <1>3, <2>1, <2>2, <2>3, <2>4, <2>5, <2>6, OneCallKeeps
<1>6. CASE ~ (left[c] > 1)
  <2>1. /\ pc' = [pc EXCEPT ![c] = "done"] /\ answer' = [answer EXCEPT ![c] = "exhausted"]
        /\ UNCHANGED <<toTake, chosen>>
    BY <1>6 DEF TryAnother, Ends
  <2>2. CafeTypeOK'
    BY <1>1, <1>3, <1>4, <2>1 DEF CafeInv, CafeTypeOK, Answers
  <2>3. /\ pc'[c] = "done" /\ answer'[c] = "exhausted"
        /\ \A d \in Caller : d # c => pc'[d] = pc[d] /\ answer'[d] = answer[d]
    BY <2>1 DEF CafeInv, CafeTypeOK
  <2>4. LeaseIsAlive'
    BY <1>1, <2>1, <2>3, LeaseDropped
  <2>5. Proper(c)'
    <3>1. Proper(c)
      BY DEF CafeInv
    <3> QED
      BY <1>1, <1>2, <2>1, <2>3, <3>1 DEF Proper, SharesATry, Dispatching
  <2>6. Calm(c)'
    BY <2>3 DEF Calm, Dispatching
  <2> QED
    BY <1>1, <1>2, <1>3, <2>1, <2>2, <2>3, <2>4, <2>5, <2>6, OneCallKeeps
<1> QED
  BY <1>5, <1>6

LEMMA EndKeeps ==
  ASSUME CafeInv, NEW c \in Caller, Answer(c) \/ Blow(c)
  PROVE  CafeInv'
<1>1. /\ pc[c] \in {"executing", "direct"} /\ pc' = [pc EXCEPT ![c] = "done"]
      /\ \E a \in Answers : answer' = [answer EXCEPT ![c] = a]
      /\ UNCHANGED <<table, known, sick, tried, left, toTake, spotted, withdrawn, size, chosen, disturbed>>
  BY DEF Answer, Blow, Ends, Answers, takingVars
<1>2. withdrawn[c] \cap ToSet(table) # {} => disturbed'[c]
  BY <1>1 DEF CafeInv, WorkersAccountedFor
<1>3. \A d \in Caller : d # c => pc'[d] = pc[d] /\ answer'[d] = answer[d]
  BY <1>1 DEF CafeInv, CafeTypeOK
<1>4. pc'[c] = "done"
  BY <1>1 DEF CafeInv, CafeTypeOK
<1>5. lease' \in [Pushdown -> Worker \cup {NoWorker}]
  BY DEF Dropped, CafeInv, CafeTypeOK, Answer, Blow
<1>6. CafeTypeOK'
  BY <1>1, <1>5 DEF CafeInv, CafeTypeOK
<1>7. LeaseIsAlive'
  <2>1. CASE lease' = Dropped(c)
    BY <1>1, <1>3, <2>1, LeaseDropped
  <2>2. CASE lease' = lease /\ pc[c] # "executing"
    BY <1>1, <1>3, <2>2, LeaseStays
  <2>3. CASE Blow(c) /\ pc[c] = "executing"
    <3>1. answer'[c] = "raised" /\ lease' = lease
      BY <2>3 DEF Blow, Ends, CafeInv, CafeTypeOK
    <3> SUFFICES ASSUME NEW k \in Pushdown, lease[k] # NoWorker
                 PROVE  \E d \in Caller : /\ TaskOf[d] = k /\ chosen[d] = lease[k]
                                          /\ pc'[d] = "executing" \/ answer'[d] = "raised"
      BY <1>1, <3>1 DEF LeaseIsAlive
    <3>2. PICK d \in Caller : /\ TaskOf[d] = k /\ chosen[d] = lease[k]
                              /\ pc[d] = "executing" \/ answer[d] = "raised"
      BY DEF CafeInv, LeaseIsAlive
    <3> QED
      BY <1>3, <3>1, <3>2
  <2> QED
    BY <2>1, <2>2, <2>3 DEF Answer, Blow
<1>8. Proper(c)' /\ Calm(c)'
  BY <1>1, <1>4 DEF CafeInv, Proper, SharesATry, Calm, Dispatching
<1> QED
  BY <1>1, <1>2, <1>3, <1>6, <1>7, <1>8, OneCallKeeps

(* A failover that takes a worker out or puts workers back disturbs whoever is active *)
LEMMA TableChanges ==
  ASSUME CafeInv, NEW c \in Caller, CafeTypeOK',
         known = ToSet(table') \cup UNION {withdrawn'[d] : d \in Caller},
         UNCHANGED <<known, lease, tried, left, answer>>,
         pc[c] \notin {"executing", "done"}, chosen' = chosen,
         \A d \in Caller : d # c => /\ pc'[d] = pc[d] /\ withdrawn'[d] = withdrawn[d]
                                    /\ toTake'[d] = toTake[d] /\ spotted'[d] = spotted[d],
         \/ disturbed' = disturbed /\ withdrawn' = withdrawn /\ ToSet(table') = ToSet(table)
         \/ Disturb(c),
         ToSet(table) \subseteq ToSet(table') \cup tried[c],
         withdrawn'[c] \cap ToSet(table') # {} => disturbed'[c],
         Proper(c)', Calm(c)'
  PROVE  CafeInv'
<1>1. LeaseIsAlive'
  BY LeaseStays
<1>2. ASSUME NEW d \in Caller, disturbed[d]
      PROVE  disturbed'[d]
  BY <1>2 DEF Disturb
<1>3. ASSUME NEW d \in Caller, d # c, Disturb(c), Active(d)
      PROVE  disturbed'[d]
  BY <1>3 DEF Disturb
<1>4. ASSUME NEW d \in Caller, d # c, withdrawn'[d] \cap ToSet(table') # {}
      PROVE  disturbed'[d]
  <2>1. disturbed[d] \/ Active(d)
    BY <1>4 DEF CafeInv, Proper, Active
  <2>2. CASE Disturb(c)
    BY <1>2, <1>3, <1>4, <2>1, <2>2
  <2>3. CASE disturbed' = disturbed /\ withdrawn' = withdrawn /\ ToSet(table') = ToSet(table)
    BY <1>4, <2>3 DEF CafeInv, WorkersAccountedFor
  <2> QED
    BY <2>2, <2>3
<1>5. ASSUME NEW d \in Caller, d # c
      PROVE  Proper(d)' /\ Calm(d)'
  <2>1. Proper(d) /\ Calm(d)
    BY DEF CafeInv
  <2>2. SharesATry(d)' = SharesATry(d)
    BY DEF SharesATry
  <2>3. ASSUME spotted[d] \notin ToSet(table') \cup {NoWorker}
        PROVE  disturbed'[d] /\ SharesATry(d)
    <3>1. CASE spotted[d] \notin ToSet(table)
      BY <1>2, <2>1, <2>3, <3>1 DEF Proper
    <3>2. CASE spotted[d] \in ToSet(table)
      <4>1. spotted[d] \in tried[c] /\ Disturb(c)
        BY <2>3, <3>2
      <4>2. spotted[d] \in tried[d] /\ Active(d)
        BY <2>1, <2>3 DEF Proper, Active
      <4>3. SharesATry(d)
        BY <1>5, <4>1, <4>2 DEF SharesATry
      <4> QED
        BY <1>3, <1>5, <4>1, <4>2, <4>3
    <3> QED
      BY <3>1, <3>2
  <2>4. Proper(d)'
    BY <1>2, <1>5, <2>1, <2>2, <2>3 DEF Proper, Dispatching
  <2>5. CASE Disturb(c)
    <3>1. Dispatching(d)' => disturbed'[d]
      BY <1>3, <1>5, <2>5 DEF Dispatching, Active
    <3> QED
      BY <2>4, <3>1 DEF Calm
  <2>6. CASE disturbed' = disturbed /\ withdrawn' = withdrawn
    BY <1>5, <2>1, <2>4, <2>6 DEF Calm, InPeace, Dispatching
  <2> QED
    BY <2>5, <2>6
<1>6. WorkersAccountedFor'
  <2>1. \A d \in Caller : Proper(d)'
    BY <1>5
  <2>2. \A d \in Caller : withdrawn'[d] \cap ToSet(table') # {} => disturbed'[d]
    BY <1>4
  <2> QED
    BY <2>1, <2>2, ProperAccounts DEF WorkersAccountedFor
<1> QED
  BY <1>1, <1>5, <1>6 DEF CafeInv

LEMMA PopKeeps ==
  ASSUME CafeInv, NEW c \in Caller, Pop(c)
  PROVE  CafeInv'
<1> DEFINE w == spotted[c]
           kept == ToSet(table) \ {w}
<1>1. /\ pc[c] = "routing" /\ w \in ToSet(table) /\ table' \in SetToSeqs(kept)
      /\ withdrawn' = [withdrawn EXCEPT ![c] = @ \cup {w}] /\ toTake' = [toTake EXCEPT ![c] = @ \ {w}]
      /\ spotted' = [spotted EXCEPT ![c] = NoWorker] /\ Disturb(c)
      /\ UNCHANGED <<known, sick, lease, pc, tried, left, size, chosen, answer>>
  BY DEF Pop
<1>2. w \in Worker /\ w \in known /\ w \in toTake[c] /\ w \in tried[c]
  <2>1. w \in Worker /\ w \in known
    BY <1>1, TableFacts, Members
  <2>2. w # NoWorker
    BY <2>1, CafeAssumption
  <2> QED
    BY <2>1, <2>2 DEF CafeInv, Proper
<1>3. IsFiniteSet(kept) /\ kept \subseteq Worker
  <2>1. kept \in SUBSET ToSet(table) /\ IsFiniteSet(ToSet(table))
    BY TableFacts
  <2>2. ToSet(table) \subseteq Worker
    BY TableFacts, Members
  <2> HIDE DEF kept
  <2> QED
    BY <2>1, <2>2, FS_Subset
<1>4. table' \in Seq(Worker) /\ IsInjective(table') /\ ToSet(table') = kept
  <2> HIDE DEF kept
  <2>1. table' \in Seq(kept) /\ IsInjective(table') /\ ToSet(table') = kept
    BY <1>1, <1>3, Enumerations
  <2> QED
    BY <1>3, <2>1
<1>5. /\ withdrawn'[c] = withdrawn[c] \cup {w} /\ toTake'[c] = toTake[c] \ {w} /\ spotted'[c] = NoWorker
      /\ disturbed'[c] = disturbed[c]
      /\ \A d \in Caller : d # c => /\ withdrawn'[d] = withdrawn[d] /\ toTake'[d] = toTake[d]
                                    /\ spotted'[d] = spotted[d]
  BY <1>1 DEF Disturb, CafeInv, CafeTypeOK
<1>6. CafeTypeOK'
  <2>1. disturbed' \in [Caller -> BOOLEAN]
    BY <1>1 DEF Disturb, Active, CafeInv, CafeTypeOK
  <2> HIDE DEF kept
  <2> QED
    BY <1>1, <1>2, <1>4, <2>1 DEF CafeInv, CafeTypeOK
<1>7. known = ToSet(table') \cup UNION {withdrawn'[d] : d \in Caller}
  <2>1. \A x : x \in known <=> x \in ToSet(table) \/ \E d \in Caller : x \in withdrawn[d]
    BY DEF CafeInv, WorkersAccountedFor
  <2>2. \A x : (\E d \in Caller : x \in withdrawn'[d]) <=> x = w \/ \E d \in Caller : x \in withdrawn[d]
    BY <1>5
  <2>3. \A x : x \in known <=> x \in ToSet(table') \/ \E d \in Caller : x \in withdrawn'[d]
    BY <1>1, <1>4, <2>1, <2>2
  <2> QED
    BY <2>3
<1>8. withdrawn'[c] \cap ToSet(table') # {} => disturbed'[c]
  BY <1>4, <1>5 DEF CafeInv, WorkersAccountedFor
<1>9. Proper(c)'
  <2>1. Proper(c)
    BY DEF CafeInv
  <2> QED
    BY <1>1, <1>2, <1>5, <2>1 DEF Proper, Dispatching
<1>10. Calm(c)'
  <2> SUFFICES ASSUME ~ disturbed[c]
               PROVE  InPeace(c)'
    BY <1>5 DEF Calm
  <2>1. InPeace(c)
    BY <1>1 DEF CafeInv, Calm, Dispatching
  <2>2. withdrawn'[c] = tried[c] \ toTake'[c]
    BY <1>1, <1>2, <1>5, <2>1 DEF InPeace
  <2> QED
    BY <1>1, <1>5, <2>1, <2>2 DEF InPeace
<1>11. ToSet(table) \subseteq ToSet(table') \cup tried[c]
  BY <1>2, <1>4
<1> HIDE DEF w, kept
<1> QED
  BY <1>1, <1>5, <1>6, <1>7, <1>8, <1>9, <1>10, <1>11, TableChanges

LEMMA RestoreKeeps ==
  ASSUME CafeInv, NEW c \in Caller, Restore(c)
  PROVE  CafeInv'
<1> DEFINE back == Back(c)
<1>1. /\ pc[c] = "restoring" /\ left[c] > 0
      /\ withdrawn' = [withdrawn EXCEPT ![c] = {}]
      /\ pc' = [pc EXCEPT ![c] = IF chosen[c] = NoWorker THEN "done" ELSE "sending"]
      /\ (withdrawn[c] = {} /\ disturbed' = disturbed) \/ (withdrawn[c] # {} /\ Disturb(c))
      /\ UNCHANGED <<known, sick, lease, tried, left, toTake, spotted, size, chosen, answer>>
  BY DEF Restore, CafeInv, Proper, Dispatching
<1>2. PICK s \in SetToSeqs(back) : table' = table \o s
  BY DEF Restore
<1>3. back = withdrawn[c] \ ToSet(table)
  BY DEF Back
<1>4. IsFiniteSet(back) /\ back \subseteq Worker
  <2>1. back \in SUBSET known /\ IsFiniteSet(known) /\ known \subseteq Worker
    BY <1>3, TableFacts DEF CafeInv, CafeTypeOK
  <2> HIDE DEF back
  <2> QED
    BY <2>1, FS_Subset
<1>5. /\ table' \in Seq(Worker) /\ IsInjective(table')
      /\ ToSet(table') = ToSet(table) \cup withdrawn[c]
  <2> HIDE DEF back
  <2>1. s \in Seq(back) /\ IsInjective(s) /\ ToSet(s) = back
    BY <1>4, Enumerations
  <2>2. s \in Seq(Worker)
    BY <1>4, <2>1
  <2>3. ToSet(table) \cap ToSet(s) = {}
    BY <1>3, <2>1
  <2>4. /\ table \o s \in Seq(Worker) /\ IsInjective(table \o s)
        /\ ToSet(table \o s) = ToSet(table) \cup ToSet(s)
    BY <2>1, <2>2, <2>3, TableFacts, Joined
  <2> QED
    BY <1>2, <1>3, <2>1, <2>4
<1>6. withdrawn'[c] = {} /\ pc'[c] = (IF chosen[c] = NoWorker THEN "done" ELSE "sending")
      /\ \A d \in Caller : d # c => pc'[d] = pc[d] /\ withdrawn'[d] = withdrawn[d]
  BY <1>1 DEF CafeInv, CafeTypeOK
<1>7. CafeTypeOK'
  <2>1. disturbed' \in [Caller -> BOOLEAN]
    BY <1>1 DEF Disturb, Active, CafeInv, CafeTypeOK
  <2>2. withdrawn' \in [Caller -> SUBSET Worker]
    BY <1>1 DEF CafeInv, CafeTypeOK
  <2> QED
    BY <1>1, <1>5, <2>1, <2>2 DEF CafeInv, CafeTypeOK
<1>8. known = ToSet(table') \cup UNION {withdrawn'[d] : d \in Caller}
  <2>1. \A x : x \in known <=> x \in ToSet(table) \/ \E d \in Caller : x \in withdrawn[d]
    BY DEF CafeInv, WorkersAccountedFor
  <2>2. \A x : (\E d \in Caller : x \in withdrawn[d]) <=> x \in withdrawn[c] \/ \E d \in Caller : x \in withdrawn'[d]
    BY <1>6
  <2>3. \A x : x \in known <=> x \in ToSet(table') \/ \E d \in Caller : x \in withdrawn'[d]
    BY <1>5, <2>1, <2>2
  <2> QED
    BY <2>3
<1>9. withdrawn'[c] \cap ToSet(table') = {}
  BY <1>6
<1>10. Proper(c)'
  <2>1. Proper(c)
    BY DEF CafeInv
  <2> QED
    BY <1>1, <1>6, <2>1 DEF Proper, Dispatching
<1>11. Calm(c)'
  <2> SUFFICES ASSUME ~ disturbed'[c], pc'[c] = "sending"
               PROVE  InPeace(c)'
    BY <1>6 DEF Calm, Dispatching
  <2>1. ~ disturbed[c]
    BY <1>1 DEF Disturb
  <2>2. InPeace(c)
    BY <1>1, <2>1 DEF CafeInv, Calm, Dispatching
  <2> QED
    BY <1>1, <1>6, <2>2 DEF InPeace
<1>12. \/ disturbed' = disturbed /\ withdrawn' = withdrawn /\ ToSet(table') = ToSet(table)
       \/ Disturb(c)
  <2>1. CASE withdrawn[c] = {}
    <3>1. withdrawn' = withdrawn
      BY <1>1, <2>1 DEF CafeInv, CafeTypeOK
    <3>2. ToSet(table') = ToSet(table)
      BY <1>5, <2>1
    <3> QED
      BY <1>1, <2>1, <3>1, <3>2
  <2> QED
    BY <1>1, <2>1
<1>13. ToSet(table) \subseteq ToSet(table') \cup tried[c]
  BY <1>5
<1> HIDE DEF back
<1> QED
  BY <1>1, <1>6, <1>7, <1>8, <1>9, <1>10, <1>11, <1>12, <1>13, TableChanges

LEMMA RegisterWorkerKeeps ==
  ASSUME CafeInv, NEW w \in Worker, RegisterWorker(w)
  PROVE  CafeInv'
<1>1. /\ w \notin ToSet(table) /\ table' = Append(table, w) /\ known' = known \cup {w}
      /\ disturbed' = [d \in Caller |-> disturbed[d] \/ Active(d)]
      /\ UNCHANGED <<sick, lease, pc, tried, left, toTake, spotted, withdrawn, size, chosen, answer>>
  BY DEF RegisterWorker, takingVars
<1>2. table' \in Seq(Worker) /\ IsInjective(table') /\ ToSet(table') = ToSet(table) \cup {w}
  BY <1>1, TableFacts, Appended
<1>3. CafeTypeOK'
  BY <1>1, <1>2 DEF CafeInv, CafeTypeOK, Active
<1>4. IsFiniteSet(known')
  BY <1>1, FS_AddElement DEF CafeInv
<1>5. \A c \in Caller : Active(c) => disturbed'[c]
  BY <1>1
<1>6. \A c \in Caller : disturbed[c] => disturbed'[c]
  BY <1>1
<1>7. LeaseIsAlive'
  BY <1>1 DEF CafeInv, LeaseIsAlive
<1>8. ASSUME NEW c \in Caller
      PROVE  Proper(c)' /\ Calm(c)'
  <2>1. Proper(c)
    BY DEF CafeInv
  <2>2. Proper(c)'
    BY <1>1, <1>2, <1>6, <2>1 DEF Proper, SharesATry, Dispatching
  <2>3. Dispatching(c)' => disturbed'[c]
    BY <1>1, <1>5 DEF Dispatching, Active
  <2> QED
    BY <2>2, <2>3 DEF Calm
<1>9. WorkersAccountedFor'
  <2>1. known' = ToSet(table') \cup UNION {withdrawn'[c] : c \in Caller}
    BY <1>1, <1>2 DEF CafeInv, WorkersAccountedFor
  <2>2. \A c \in Caller : withdrawn[c] # {} => disturbed[c] \/ Active(c)
    BY DEF CafeInv, Proper, Active
  <2>3. \A c \in Caller : withdrawn'[c] \cap ToSet(table') # {} => disturbed'[c]
    BY <1>1, <1>5, <1>6, <2>2
  <2>4. \A c \in Caller : Proper(c)'
    BY <1>8
  <2> QED
    BY <2>1, <2>3, <2>4, ProperAccounts DEF WorkersAccountedFor
<1> QED
  BY <1>3, <1>4, <1>7, <1>8, <1>9 DEF CafeInv

(* The table, the calls and the leases are as they were *)
LEMMA NothingMoves ==
  ASSUME CafeInv, CafeTypeOK',
         UNCHANGED <<table, known, lease, pc, tried, left, toTake, spotted, withdrawn, chosen, answer,
                    disturbed>>
  PROVE  CafeInv'
<1>1. WorkersAccountedFor'
  BY DEF CafeInv, WorkersAccountedFor, Active
<1>2. LeaseIsAlive'
  BY DEF CafeInv, LeaseIsAlive
<1>3. \A c \in Caller : Proper(c)' /\ Calm(c)'
  BY DEF CafeInv, Proper, SharesATry, Calm, InPeace, Dispatching
<1> QED
  BY <1>1, <1>2, <1>3 DEF CafeInv

LEMMA RecoverKeeps ==
  ASSUME CafeInv, NEW w \in Worker, Recover(w)
  PROVE  CafeInv'
<1>1. CafeTypeOK'
  BY DEF Recover, takingVars, CafeInv, CafeTypeOK
<1> QED
  BY <1>1, NothingMoves DEF Recover, takingVars

LEMMA ReclaimKeeps ==
  ASSUME CafeInv, NEW k \in Pushdown, Reclaim(k)
  PROVE  CafeInv'
<1>1. /\ lease' = [lease EXCEPT ![k] = NoWorker]
      /\ UNCHANGED <<table, known, sick, pc, tried, left, toTake, spotted, withdrawn, size, chosen, answer,
                     disturbed>>
  BY DEF Reclaim, takingVars
<1>2. CafeTypeOK' /\ LeaseIsAlive'
  BY <1>1 DEF CafeInv, CafeTypeOK, LeaseIsAlive
<1> QED
  BY <1>1, <1>2 DEF CafeInv, WorkersAccountedFor, Active, Proper, SharesATry, Calm, InPeace, Dispatching

LEMMA CafeNextKeeps == CafeInv /\ [CafeNext]_cafeVars => CafeInv'
<1> SUFFICES ASSUME CafeInv, [CafeNext]_cafeVars
             PROVE  CafeInv'
  OBVIOUS
<1>1. CASE UNCHANGED cafeVars
  <2>1. CafeTypeOK'
    BY <1>1 DEF cafeVars, takingVars, CafeInv, CafeTypeOK
  <2> QED
    BY <1>1, <2>1, NothingMoves DEF cafeVars, takingVars
<1>2. CASE CafeNext
  BY <1>2, RegisterWorkerKeeps, RecoverKeeps, ReclaimKeeps, DispatchKeeps, DispatchToKeeps, CheckKeeps,
     PopKeeps, PopFailsKeeps, IterateKeeps, ChooseKeeps, ExplainKeeps, RestoreKeeps, SendKeeps, TryAnotherKeeps, EndKeeps DEF CafeNext, DispatchStep
<1> QED
  BY <1>1, <1>2

(* The invariant of the dispatcher, for any number of callers, workers and tasks. *)
THEOREM CafeInvariant == CafeSpec => []CafeInv
BY CafeInitInv, CafeNextKeeps, PTL DEF CafeSpec

(* At any moment, every worker that was ever registered is in the table or was taken out by a
   failover; one that is out when that call is over is out because two failovers that have
   tried the same worker met.  Every lease stands for an execution in progress or one that
   raised (_route_excluding, dispatch). *)
THEOREM FailoverIsAccountedFor == CafeSpec => []FailoverIsSafe
<1>1. CafeInv => FailoverIsSafe
  BY DEF CafeInv, FailoverIsSafe
<1> QED
  BY <1>1, CafeInvariant, PTL

-----------------------------------------------------------------------------
LEMMA ChoosePasses ==
  ASSUME CafeInv, NEW c \in Caller, Choose(c), ~ disturbed[c]
  PROVE  Passes(c)
<1>1. pc[c] = "looking" /\ pc'[c] # "executing"
  BY DEF Choose, CafeInv, CafeTypeOK
<1> SUFFICES ASSUME answer'[c] \in {"exhausted", "refused"}, answer[c] = "none"
             PROVE  \A w \in known \ sick : Suits(w, c) => w \in tried[c]
  BY <1>1 DEF Passes
<1>2. Len(table) = size[c] /\ Route(c) = NoWorker
  BY DEF Choose, CafeInv, CafeTypeOK
<1>3. \A w \in ToSet(table) \ sick : ~ Suits(w, c)
  BY <1>2, TableFacts, RouteFinds
<1>4. InPeace(c) /\ withdrawn[c] = tried[c]
  BY <1>1 DEF CafeInv, Calm, Dispatching, InPeace
<1>5. known \subseteq ToSet(table) \cup tried[c]
  BY <1>4 DEF CafeInv, WorkersAccountedFor, InPeace
<1> QED
  BY <1>3, <1>5

(* A call in peace has a round left when its last candidate fails *)
LEMMA NeverSpent ==
  ASSUME CafeInv, NEW c \in Caller, TryAnother(c), ~ disturbed[c]
  PROVE  pc'[c] = "routing" /\ answer'[c] = answer[c]
<1>1. InPeace(c) /\ left[c] \in Nat /\ pc[c] = "executing"
  BY DEF TryAnother, CafeInv, CafeTypeOK, Calm, Dispatching
<1>2. left[c] + Cardinality(tried[c]) = Cardinality(known) + 2
  BY <1>1 DEF InPeace
<1>3. left[c] > 1
  BY <1>1, <1>2, TriedFacts, TableFacts
<1> QED
  BY <1>3 DEF TryAnother, CafeInv, CafeTypeOK

LEMMA EveryonePasses ==
  ASSUME CafeInv, [CafeNext]_cafeVars, NEW c \in Caller, ~ disturbed[c]
  PROVE  Passes(c)
<1>1. CASE pc'[c] = pc[c] /\ answer'[c] = answer[c]
  BY <1>1 DEF Passes
<1>2. CASE Choose(c)
  BY <1>2, ChoosePasses
<1>3. CASE TryAnother(c)
  BY <1>3, NeverSpent DEF Passes
<1>4. CASE Send(c)
  <2>1. pc[c] = "sending" /\ chosen'[c] = chosen[c] /\ answer'[c] \in {answer[c], "raised"}
    BY <1>4 DEF Send, Ends, CafeInv, CafeTypeOK
  <2>2. chosen[c] \notin tried[c]
    BY <2>1 DEF CafeInv, Calm, Dispatching, InPeace
  <2> QED
    BY <2>1, <2>2 DEF Passes
<1>5. CASE Dispatch(c) \/ \E w \in Worker : DispatchTo(c, w)
  BY <1>5 DEF Dispatch, DispatchTo, Ends, CafeInv, CafeTypeOK, Passes
<1>6. CASE Check(c) \/ Pop(c) \/ PopFails(c) \/ Iterate(c)
  BY <1>6 DEF Check, Pop, PopFails, Iterate, Ends, CafeInv, CafeTypeOK, Passes
<1>11. CASE Explain(c)
  <2>1. answer[c] = "refused" /\ pc'[c] = "done"
    BY <1>11 DEF Explain, Ends, CafeInv, CafeTypeOK, Proper
  <2> QED
    BY <2>1 DEF Passes
<1>12. CASE Restore(c) \/ Answer(c) \/ Blow(c)
  BY <1>12 DEF Restore, Answer, Blow, Ends, CafeInv, CafeTypeOK, Passes
<1>7. CASE UNCHANGED cafeVars
  BY <1>1, <1>7 DEF cafeVars
<1>8. CASE \E w \in Worker : RegisterWorker(w) \/ Recover(w)
  BY <1>1, <1>8 DEF RegisterWorker, Recover
<1>9. CASE \E k \in Pushdown : Reclaim(k)
  BY <1>1, <1>9 DEF Reclaim
<1>10. ASSUME NEW d \in Caller, d # c,
              Dispatch(d) \/ DispatchStep(d) \/ \E w \in Worker : DispatchTo(d, w)
       PROVE  Passes(c)
  <2>1. pc'[c] = pc[c] /\ answer'[c] = answer[c]
    <3>1. pc' = pc \/ \E x : pc' = [pc EXCEPT ![d] = x]
      BY <1>10 DEF Dispatch, DispatchTo, DispatchStep, Check, Pop, PopFails, Iterate, Choose,
                   Explain, Restore, Send, TryAnother, Answer, Blow, Ends
    <3>2. answer' = answer \/ \E x : answer' = [answer EXCEPT ![d] = x]
      BY <1>10 DEF Dispatch, DispatchTo, DispatchStep, Check, Pop, PopFails, Iterate, Choose,
                   Explain, Restore, Send, TryAnother, Answer, Blow, Ends
    <3> QED
      BY <1>10, <3>1, <3>2 DEF CafeInv, CafeTypeOK
  <2> QED
    BY <1>1, <2>1
<1> QED
  BY <1>2, <1>3, <1>4, <1>5, <1>6, <1>7, <1>8, <1>9, <1>10, <1>11, <1>12 DEF CafeNext, DispatchStep

(* What is lost is accounted for, and nobody is passed by *)
LEMMA DispatchStepIsSound ==
  CafeInv /\ [CafeNext]_cafeVars => [FailoverIsSafe' /\ UndisturbedPasses]_cafeVars
<1> SUFFICES ASSUME CafeInv, [CafeNext]_cafeVars
             PROVE  FailoverIsSafe' /\ UndisturbedPasses
  OBVIOUS
<1>1. CafeInv'
  BY CafeNextKeeps
<1>2. UndisturbedPasses
  BY EveryonePasses DEF UndisturbedPasses
<1> QED
  BY <1>1, <1>2 DEF CafeInv, FailoverIsSafe

(* A worker is lost only where two failovers meet, no dispatch that is undisturbed gives a
   worker a second try, and none of these ends in failure while a healthy worker that suits is
   untried (dispatch, _route_excluding, route). *)
THEOREM DispatchIsKept == CafeSpec => DispatchIsSound
<1>1. CafeInv /\ [CafeNext]_cafeVars => [FailoverIsSafe' /\ UndisturbedPasses]_cafeVars
  BY DispatchStepIsSound
<1>2. CafeSpec => [][CafeNext]_cafeVars
  BY PTL DEF CafeSpec
<1> QED
  BY <1>1, <1>2, CafeInvariant, PTL DEF DispatchIsSound

-----------------------------------------------------------------------------
(***************************************************************************)
(* The interface for browsers, for any backends and configurations: who    *)
(* vouched for an answer, and where a stream stands beside its task        *)
(***************************************************************************)
(* A token is signed with the key of the backend that gave it *)
TokensAreSigned == \A t \in tokens : t.by \in Server /\ t.key = SigningKey(Jwt[t.by])

(* Before a task is asked for there is nothing of it; a stream that was not opened has
   shown nothing; and an open one is not ahead of its task, nor has it said a last word *)
StreamFits(k) ==
  /\ job[k] = NoJob => word[k] = "absent" /\ stream[k] = "none"
  /\ stream[k] = "none" => shown[k] = "absent"
  /\ stream[k] = "open" => Order(shown[k]) <= Order(word[k]) /\ Order(shown[k]) # 3

WebTypes ==
  /\ job = [k \in Task |-> job[k]]
  /\ word \in [Task -> TaskWord] /\ shown \in [Task -> TaskWord]
  /\ stream \in [Task -> {"none", "open", "ended", "broken"}]

WebInv == TokensAreSigned /\ WebTypes /\ \A k \in Task : StreamFits(k)

LEMMA OrderIs ==
  /\ Order("absent") = 0 /\ Order("queued") = 1 /\ Order("running") = 2
  /\ \A w \in Final : Order(w) = 3
  /\ \A w \in TaskWord : Order(w) \in 0 .. 3 /\ (Order(w) = 3 <=> w \in Final)
BY DEF Order, Final, TaskWord

LEMMA WebStart == WebApiInit => WebInv
<1> SUFFICES ASSUME WebApiInit PROVE WebInv
  OBVIOUS
<1>1. TokensAreSigned /\ WebTypes
  BY DEF WebApiInit, TokensAreSigned, WebTypes, TaskWord
<1>2. \A k \in Task : StreamFits(k)
  BY DEF WebApiInit, StreamFits
<1> QED
  BY <1>1, <1>2 DEF WebInv

(* What leaves the tasks as they are *)
LEMMA TasksStay ==
  ASSUME WebInv, UNCHANGED taskVars, TokensAreSigned'
  PROVE  WebInv' /\ StreamTellsTheStory
<1>1. WebTypes' /\ \A k \in Task : StreamFits(k)'
  BY DEF WebInv, WebTypes, StreamFits, taskVars
<1>2. \A k \in Task : shown[k] \in TaskWord
  BY DEF WebInv, WebTypes
<1>3. StreamTellsTheStory
  BY <1>2, OrderIs DEF StreamTellsTheStory, taskVars
<1> QED
  BY <1>1, <1>3 DEF WebInv

(* What changes the status of one task, forward, and of no stream *)
LEMMA StoryStays ==
  ASSUME WebInv, UNCHANGED shown,
         \A k \in Task : stream[k] = "open" /\ stream'[k] = "ended" => FALSE
  PROVE  StreamTellsTheStory
<1>1. \A k \in Task : Order(shown[k]) \in 0 .. 3
  BY OrderIs DEF WebInv, WebTypes
<1> QED
  BY <1>1 DEF StreamTellsTheStory

LEMMA MovesForward ==
  ASSUME WebInv, NEW k \in Task, NEW w \in TaskWord, Order(word[k]) <= Order(w), job[k] # NoJob,
         word' = [word EXCEPT ![k] = w], UNCHANGED <<tokens, job, stream, shown>>
  PROVE  WebInv' /\ StreamTellsTheStory
<1>1. TokensAreSigned' /\ WebTypes'
  BY DEF WebInv, TokensAreSigned, WebTypes
<1>2. \A l \in Task : StreamFits(l)'
  <2> SUFFICES ASSUME NEW l \in Task PROVE StreamFits(l)'
    OBVIOUS
  <2>1. /\ shown[l] \in TaskWord /\ word[l] \in TaskWord /\ word'[l] = IF l = k THEN w ELSE word[l]
        /\ StreamFits(l)
    BY DEF WebInv, WebTypes
  <2>2. Order(shown[l]) \in 0 .. 3 /\ Order(word[l]) \in 0 .. 3 /\ Order(w) \in 0 .. 3
    BY <2>1, OrderIs
  <2>3. Order(word[l]) <= Order(word'[l]) /\ Order(word'[l]) \in 0 .. 3
    BY <2>1, <2>2
  <2>4. UNCHANGED <<job, stream, shown>>
    OBVIOUS
  <2> QED
    BY <2>1, <2>2, <2>3, <2>4 DEF StreamFits
<1>3. StreamTellsTheStory
  BY StoryStays
<1> QED
  BY <1>1, <1>2, <1>3 DEF WebInv

LEMMA LoginKeeps == ASSUME WebInv, NEW s \in Server, Login(s) PROVE WebInv' /\ StreamTellsTheStory
<1>1. UNCHANGED taskVars /\ (tokens' = tokens \/ tokens' = tokens \cup {TokenOf(s)})
  BY DEF Login
<1>2. TokenOf(s).by = s /\ TokenOf(s).key = SigningKey(Jwt[s])
  BY DEF TokenOf
<1>3. TokensAreSigned'
  BY <1>1, <1>2 DEF WebInv, TokensAreSigned
<1> QED
  BY <1>1, <1>3, TasksStay

LEMMA AcceptKeeps ==
  ASSUME WebInv, NEW s \in Server, NEW k \in Task, NEW j, j # NoJob, Accept(s, k, j)
  PROVE  WebInv' /\ StreamTellsTheStory
<1>1. /\ UNCHANGED <<tokens, stream, shown>> /\ job[k] = NoJob
      /\ job' = [job EXCEPT ![k] = j] /\ word' = [word EXCEPT ![k] = "queued"]
  BY DEF Accept
<1>2. TokensAreSigned' /\ WebTypes'
  BY <1>1 DEF WebInv, TokensAreSigned, WebTypes, TaskWord
<1>3. \A l \in Task : StreamFits(l)'
  <2> SUFFICES ASSUME NEW l \in Task PROVE StreamFits(l)'
    OBVIOUS
  <2>1. /\ word'[l] = IF l = k THEN "queued" ELSE word[l]
        /\ job'[l] = IF l = k THEN j ELSE job[l]
        /\ StreamFits(l) /\ stream'[l] = stream[l] /\ shown'[l] = shown[l]
    BY <1>1 DEF WebInv, WebTypes
  <2>2. l = k => stream[l] = "none"
    BY <1>1, <2>1 DEF StreamFits
  <2> QED
    BY <1>1, <2>1, <2>2 DEF StreamFits
<1>4. StreamTellsTheStory
  BY <1>1, StoryStays
<1> QED
  BY <1>2, <1>3, <1>4 DEF WebInv

LEMMA ExecuteKeeps == ASSUME WebInv, NEW s \in Server, NEW k \in Task, Execute(s, k) PROVE WebInv' /\ StreamTellsTheStory
<1>1. PICK asked \in Host \cup {"none"} :
        LET h == IF asked # "none" THEN asked ELSE Default IN
        IF h = "none"
          THEN UNCHANGED <<time, tokens, taskVars, counted>>
          ELSE Accept(s, k, [kind |-> "execute", home |-> s, host |-> h, budget |-> Unset])
  BY DEF Execute
<1> DEFINE h == IF asked # "none" THEN asked ELSE Default
           j == [kind |-> "execute", home |-> s, host |-> h, budget |-> Unset]
<1>2. CASE h = "none"
  <2>1. UNCHANGED <<tokens, taskVars>>
    BY <1>1, <1>2
  <2> QED
    BY <2>1, TasksStay DEF WebInv, TokensAreSigned
<1>3. CASE h # "none"
  <2>1. j # NoJob
    BY DEF NoJob
  <2>2. Accept(s, k, j)
    BY <1>1, <1>3
  <2> HIDE DEF j
  <2> QED
    BY <2>1, <2>2, AcceptKeeps
<1> QED
  BY <1>2, <1>3

LEMMA GoalKeeps == ASSUME WebInv, NEW s \in Server, NEW k \in Task, Goal(s, k) PROVE WebInv' /\ StreamTellsTheStory
<1>1. PICK m \in {Unset, 0} : Accept(s, k, [kind |-> "goals", home |-> s, host |-> "none", budget |-> m])
  BY DEF Goal
<1> DEFINE j == [kind |-> "goals", home |-> s, host |-> "none", budget |-> m]
<1>2. j # NoJob
  BY DEF NoJob
<1>3. Accept(s, k, j)
  BY <1>1
<1> HIDE DEF j
<1> QED
  BY <1>2, <1>3, AcceptKeeps

LEMMA JobIsThere == ASSUME WebInv, NEW k \in Task, word[k] # "absent" PROVE job[k] # NoJob
BY DEF WebInv, StreamFits

LEMMA TakeKeeps == ASSUME WebInv, NEW k \in Task, Take(k) PROVE WebInv' /\ StreamTellsTheStory
<1>1. /\ word[k] = "queued" /\ word' = [word EXCEPT ![k] = "running"] /\ UNCHANGED <<tokens, job, stream, shown>>
  BY DEF Take, Moves
<1>2. job[k] # NoJob
  BY <1>1, JobIsThere
<1>3. Order(word[k]) = 1 /\ Order("running") = 2 /\ "running" \in TaskWord
  BY <1>1, OrderIs DEF TaskWord
<1>4. Order(word[k]) <= Order("running")
  BY <1>3
<1> QED
  BY <1>1, <1>2, <1>3, <1>4, MovesForward

LEMMA FinishKeeps == ASSUME WebInv, NEW k \in Task, Finish(k) PROVE WebInv' /\ StreamTellsTheStory
<1>1. PICK w \in {"failed", "cancelled", "done"} : Moves(k, w)
  BY DEF Finish
<1>2. /\ word[k] = "running" /\ word' = [word EXCEPT ![k] = w] /\ UNCHANGED <<tokens, job, stream, shown>>
  BY <1>1 DEF Finish, Moves
<1>3. w \in TaskWord /\ Order(w) = 3 /\ Order(word[k]) = 2
  BY <1>2, OrderIs DEF TaskWord, Final
<1>4. job[k] # NoJob
  BY <1>2, JobIsThere
<1>5. Order(word[k]) <= Order(w)
  BY <1>3
<1> QED
  BY <1>2, <1>3, <1>4, <1>5, MovesForward

LEMMA CancelKeeps == ASSUME WebInv, NEW s \in Server, NEW k \in Task, Cancel(s, k) PROVE WebInv' /\ StreamTellsTheStory
<1>1. UNCHANGED <<tokens, job, stream, shown>> /\ job[k] # NoJob /\ word[k] \in TaskWord
  BY DEF Cancel, WebInv, WebTypes
<1>2. CASE word' = word
  <2>1. UNCHANGED taskVars \/ UNCHANGED <<tokens, job, word, stream, shown>>
    BY <1>1, <1>2
  <2>2. WebInv'
    BY <1>1, <1>2 DEF WebInv, TokensAreSigned, WebTypes, StreamFits
  <2> QED
    BY <1>1, <2>2, StoryStays
<1>3. CASE word' = [word EXCEPT ![k] = IF @ = "queued" THEN "cancelled" ELSE @]
  <2> DEFINE w == IF word[k] = "queued" THEN "cancelled" ELSE word[k]
  <2>1. word' = [word EXCEPT ![k] = w]
    BY <1>3
  <2>2. w \in TaskWord /\ Order(word[k]) <= Order(w)
    BY <1>1, OrderIs DEF TaskWord, Final
  <2> HIDE DEF w
  <2> QED
    BY <1>1, <2>1, <2>2, MovesForward
<1> QED
  BY <1>2, <1>3 DEF Cancel

LEMMA OpenStreamKeeps ==
  ASSUME WebInv, NEW s \in Server, NEW k \in Task, OpenStream(s, k)
  PROVE  WebInv' /\ StreamTellsTheStory
<1>1. /\ UNCHANGED <<tokens, job, word, shown>> /\ job[k] # NoJob /\ stream[k] = "none"
      /\ stream' = [stream EXCEPT ![k] = "open"] \/ stream' = stream
  BY DEF OpenStream
<1>2. TokensAreSigned' /\ WebTypes'
  BY <1>1 DEF WebInv, TokensAreSigned, WebTypes
<1>3. \A l \in Task : StreamFits(l)'
  <2> SUFFICES ASSUME NEW l \in Task PROVE StreamFits(l)'
    OBVIOUS
  <2>1. /\ StreamFits(l) /\ shown'[l] = shown[l] /\ word'[l] = word[l] /\ job'[l] = job[l] /\ word[l] \in TaskWord
        /\ stream'[l] = stream[l] \/ (l = k /\ stream'[l] = "open")
    BY <1>1 DEF WebInv, WebTypes
  <2>2. CASE stream'[l] = stream[l]
    BY <2>1, <2>2 DEF StreamFits
  <2>3. CASE l = k /\ stream'[l] = "open"
    <3>1. shown[l] = "absent" /\ job[l] # NoJob
      BY <1>1, <2>1, <2>3 DEF StreamFits
    <3>2. Order(shown[l]) = 0 /\ Order(word[l]) \in 0 .. 3
      BY <2>1, <3>1, OrderIs
    <3>3. Order(shown'[l]) <= Order(word'[l]) /\ Order(shown'[l]) # 3
      BY <2>1, <3>2
    <3> QED
      BY <2>1, <2>3, <3>1, <3>3 DEF StreamFits
  <2> QED
    BY <2>1, <2>2, <2>3
<1>4. StreamTellsTheStory
  BY <1>1, StoryStays DEF WebInv, WebTypes
<1> QED
  BY <1>2, <1>3, <1>4 DEF WebInv

LEMMA TurnKeeps == ASSUME WebInv, NEW k \in Task, Turn(k) PROVE WebInv' /\ StreamTellsTheStory
<1>1. /\ UNCHANGED <<tokens, job, word>> /\ stream[k] = "open"
      /\ shown' = [shown EXCEPT ![k] = word[k]]
      /\ stream' = [stream EXCEPT ![k] = IF word[k] \in Final THEN "ended" ELSE @]
  BY DEF Turn
<1>2. TokensAreSigned' /\ WebTypes'
  BY <1>1 DEF WebInv, TokensAreSigned, WebTypes
<1>3. /\ shown'[k] = word[k] /\ word'[k] = word[k] /\ job'[k] = job[k] /\ word[k] \in TaskWord
      /\ shown[k] \in TaskWord
      /\ stream'[k] = IF word[k] \in Final THEN "ended" ELSE "open"
      /\ StreamFits(k)
      /\ \A l \in Task : l # k => shown'[l] = shown[l] /\ word'[l] = word[l] /\ job'[l] = job[l] /\ stream'[l] = stream[l]
  BY <1>1 DEF WebInv, WebTypes
<1>4. /\ Order(word[k]) \in 0 .. 3 /\ Order(shown[k]) \in 0 .. 3 /\ Order(shown[k]) <= Order(word[k])
      /\ Order(shown[k]) # 3 /\ (Order(word[k]) = 3 <=> word[k] \in Final) /\ job[k] # NoJob
  BY <1>1, <1>3, OrderIs DEF StreamFits
<1>5. StreamFits(k)'
  BY <1>3, <1>4 DEF StreamFits
<1>6. \A l \in Task : l # k => StreamFits(l)'
  BY <1>3 DEF WebInv, StreamFits
<1>7. StreamTellsTheStory
  <2> SUFFICES ASSUME NEW l \in Task
               PROVE  /\ Order(shown'[l]) >= Order(shown[l])
                      /\ Order(shown[l]) = 3 => shown'[l] = shown[l]
                      /\ stream[l] = "open" /\ stream'[l] = "ended" => Order(word[l]) = 3 /\ shown'[l] = word[l]
    BY DEF StreamTellsTheStory
  <2>1. CASE l = k
    BY <1>3, <1>4, <2>1
  <2>2. CASE l # k
    <3>1. Order(shown[l]) \in 0 .. 3
      BY OrderIs DEF WebInv, WebTypes
    <3> QED
      BY <1>3, <2>2, <3>1
  <2> QED
    BY <2>1, <2>2
<1> QED
  BY <1>2, <1>5, <1>6, <1>7 DEF WebInv

LEMMA RestartKeeps == ASSUME WebInv, NEW s \in Server, ServerRestarts(s) PROVE WebInv' /\ StreamTellsTheStory
<1>1. /\ UNCHANGED <<tokens, job, shown>>
      /\ word' = [k \in Task |-> IF Has(s, k) THEN "absent" ELSE word[k]]
      /\ stream' = [k \in Task |-> IF Has(s, k) /\ stream[k] = "open" THEN "broken" ELSE stream[k]]
  BY DEF ServerRestarts
<1>2. TokensAreSigned' /\ WebTypes'
  BY <1>1 DEF WebInv, TokensAreSigned, WebTypes, TaskWord
<1>3. \A k \in Task : StreamFits(k)'
  BY <1>1 DEF WebInv, StreamFits
<1>4. \A k \in Task : stream[k] = "open" /\ stream'[k] = "ended" => FALSE
  BY <1>1
<1>5. StreamTellsTheStory
  BY <1>1, <1>4, StoryStays
<1> QED
  BY <1>2, <1>3, <1>5 DEF WebInv

LEMMA WebStepKeeps == ASSUME WebInv, [WebApiNext]_apiVars PROVE WebInv' /\ StreamTellsTheStory
<1>1. ASSUME UNCHANGED <<tokens, taskVars>> PROVE WebInv' /\ StreamTellsTheStory
  BY <1>1, TasksStay DEF WebInv, TokensAreSigned
<1>2. CASE UNCHANGED apiVars
  BY <1>1, <1>2 DEF apiVars, taskVars
<1>3. ASSUME NEW s \in Server, Discover(s) \/ Count(s) PROVE WebInv' /\ StreamTellsTheStory
  BY <1>1, <1>3 DEF Discover, Count
<1>4. ASSUME NEW s \in Server, NEW k \in Task, Poll(s, k) \/ TurnsAway("poll", s, k)
      PROVE  WebInv' /\ StreamTellsTheStory
  BY <1>1, <1>4 DEF Poll, TurnsAway
<1>5. CASE Tick \/ List \/ Arrives
  BY <1>1, <1>5 DEF Tick, List, Arrives
<1>6. ASSUME NEW s \in Server, NEW k \in Task, TaskRequest(s, k) PROVE WebInv' /\ StreamTellsTheStory
  BY <1>4, <1>6, ExecuteKeeps, GoalKeeps, CancelKeeps, OpenStreamKeeps DEF TaskRequest
<1> QED
  BY <1>2, <1>3, <1>5, <1>6, LoginKeeps, RestartKeeps, TakeKeeps, FinishKeeps, TurnKeeps
  DEF WebApiNext, WebApiStep

(* An answer comes from a handler that a token let in *)
LEMMA TokenIsBehind ==
  ASSUME WebInv, NEW s \in Server, Authorised(s)
  PROVE  \E t \in tokens : time < t.exp /\ SigningKey(Jwt[t.by]) = VerifyingKey(Jwt[s])
<1>1. PICK t \in tokens : Verifies(s, t)
  BY DEF Authorised
<1>2. t.key = VerifyingKey(Jwt[s]) /\ time < t.exp /\ t.key = SigningKey(Jwt[t.by])
  BY <1>1 DEF Verifies, InTime, WebInv, TokensAreSigned
<1> QED
  BY <1>2

LEMMA AnswersAreVouchedFor == ASSUME WebInv, [WebApiNext]_apiVars PROVE OnlyByToken
<1> SUFFICES ASSUME reply'.status \in {200, 202, 404, 409}, reply'.op # "login", reply' # reply, counted' = counted
             PROVE  \E t \in tokens : time < t.exp /\ SigningKey(Jwt[t.by]) = VerifyingKey(Jwt[reply'.server])
  BY DEF OnlyByToken
<1>1. ASSUME NEW s \in Server, Authorised(s), reply'.server = s
      PROVE  \E t \in tokens : time < t.exp /\ SigningKey(Jwt[t.by]) = VerifyingKey(Jwt[reply'.server])
  BY <1>1, TokenIsBehind
<1>2. ASSUME NEW s \in Server, Discover(s) PROVE Authorised(s) /\ reply'.server = s
  BY <1>2 DEF Discover, Replies
<1>3. ASSUME NEW s \in Server, NEW k \in Task, TaskRequest(s, k) PROVE Authorised(s) /\ reply'.server = s
  <2>1. ~TurnsAway("poll", s, k)
    BY DEF TurnsAway, Replies
  <2>2. CASE Execute(s, k)
    BY <2>2 DEF Execute, Accept, Replies
  <2>3. CASE Goal(s, k)
    BY <2>3 DEF Goal, Accept, Replies
  <2>4. CASE Poll(s, k) \/ Cancel(s, k) \/ OpenStream(s, k)
    BY <2>4 DEF Poll, Cancel, OpenStream, Replies
  <2> QED
    BY <1>3, <2>1, <2>2, <2>3, <2>4 DEF TaskRequest
<1>4. ASSUME NEW s \in Server, Login(s) PROVE FALSE
  BY <1>4 DEF Login, Replies
<1>5. ASSUME NEW s \in Server, Count(s) \/ ServerRestarts(s) PROVE FALSE
  BY <1>5 DEF Count, ServerRestarts
<1>6. ASSUME NEW k \in Task, Take(k) \/ Finish(k) \/ Turn(k) PROVE FALSE
  BY <1>6 DEF Take, Finish, Turn, Moves
<1>7. ~Tick /\ ~List /\ ~Arrives /\ ~UNCHANGED apiVars
  BY DEF Tick, List, Arrives, Nothing, apiVars
<1> QED
  BY <1>1, <1>2, <1>3, <1>4, <1>5, <1>6, <1>7 DEF WebApiNext, WebApiStep

(* WebInv holds of every run of the backends: what is signed by whom, and where a stream
   stands beside its task *)
THEOREM BackendInvariant == WebApiSpec => []WebInv
<1>1. WebInv /\ [WebApiNext]_apiVars => WebInv'
  BY WebStepKeeps
<1> QED
  BY <1>1, WebStart, PTL DEF WebApiSpec

(* Whatever a client learns or moves, a token in its time stands for it whose backend
   signs with the key that is verified with; and a stream tells its task's story in its
   order, up to its last word: for any backends and configurations, with restarts
   (auth.py, router.py) *)
THEOREM WebAnswersSound == WebApiSpec => WebAnswersAreSound
<1>1. WebInv /\ [WebApiNext]_apiVars => OnlyByToken /\ StreamTellsTheStory
  BY WebStepKeeps, AnswersAreVouchedFor
<1> QED
  BY <1>1, BackendInvariant, PTL DEF WebApiSpec, WebAnswersAreSound

(* What was asked for is finite, whatever could be *)
FewAsked == IsFiniteSet({k \in Task : job[k] # NoJob})

(* With that, the types of the interface are kept *)
ApiTypes == WebInv /\ WebApiTypeOK /\ FewAsked

LEMMA ApiTypesAtFirst == WebApiInit => WebApiTypeOK /\ FewAsked
<1> SUFFICES ASSUME WebApiInit PROVE WebApiTypeOK /\ FewAsked
  OBVIOUS
<1>1. {k \in Task : job[k] # NoJob} = {}
  BY DEF WebApiInit
<1>2. FewAsked
  BY <1>1, FS_EmptySet DEF FewAsked
<1>3. \A k \in Task : job[k].home = "none"
  BY DEF WebApiInit, NoJob
<1>4. reply.status = 0
  BY DEF WebApiInit, Nothing
<1>5. MaxTime \in Nat /\ 0 \in 0 .. MaxTime
  BY WebApiAssumption
<1> QED
  BY <1>2, <1>3, <1>4, <1>5 DEF WebApiInit, WebApiTypeOK, TaskWord

(* What a backend holds can be counted *)
LEMMA HeldIsFew == ASSUME ApiTypes, NEW s PROVE Cardinality(Held(s)) \in Nat
<1>1. Held(s) \subseteq {k \in Task : job[k] # NoJob}
  BY DEF ApiTypes, Held, Has, WebInv, StreamFits
<1> QED
  BY <1>1, FS_Subset, FS_CardinalityType DEF ApiTypes, FewAsked

LEMMA ApiTypesKept == ASSUME ApiTypes, [WebApiNext]_apiVars PROVE WebApiTypeOK' /\ FewAsked'
<1> DEFINE Codes == {0, 200, 202, 400, 401, 404, 409, 500}
<1> DEFINE asked == {k \in Task : job[k] # NoJob}
<1> USE DEF ApiTypes
<1>a. job = [k \in Task |-> job[k]]
  BY DEF WebInv, WebTypes
<1>b. reply'.status \in Codes
  <2>1. ASSUME NEW op, NEW s, NEW k, NEW status \in Codes, NEW says, Replies(op, s, k, status, says)
        PROVE  reply'.status \in Codes
    BY <2>1 DEF Replies
  <2>2. ASSUME NEW s \in Server, NEW k \in Task, TaskRequest(s, k) PROVE reply'.status \in Codes
    <3>1. CASE Execute(s, k)
      BY <2>1, <3>1 DEF Execute, Accept
    <3>2. CASE Goal(s, k)
      BY <2>1, <3>2 DEF Goal, Accept
    <3>3. CASE Poll(s, k) \/ TurnsAway("poll", s, k)
      BY <2>1, <3>3 DEF Poll, TurnsAway
    <3>4. CASE Cancel(s, k)
      BY <2>1, <3>4 DEF Cancel
    <3>5. CASE OpenStream(s, k)
      BY <2>1, <3>5 DEF OpenStream
    <3> QED
      BY <2>2, <3>1, <3>2, <3>3, <3>4, <3>5 DEF TaskRequest
  <2>3. ASSUME NEW s \in Server, Login(s) \/ Discover(s) PROVE reply'.status \in Codes
    BY <2>1, <2>3 DEF Login, Discover
  <2>4. CASE reply' = reply
    BY <2>4 DEF WebApiTypeOK
  <2>5. CASE List \/ Arrives
    BY <2>1, <2>5 DEF List, Arrives, Nothing
  <2>6. ASSUME NEW s \in Server, Count(s) \/ ServerRestarts(s) PROVE reply' = reply
    BY <2>6 DEF Count, ServerRestarts
  <2>7. ASSUME NEW k \in Task, Take(k) \/ Finish(k) \/ Turn(k) PROVE reply' = reply
    BY <2>7 DEF Take, Finish, Turn, Moves
  <2>8. ASSUME Tick \/ UNCHANGED apiVars PROVE reply' = reply
    BY <2>8 DEF Tick, apiVars
  <2> QED
    BY <2>2, <2>3, <2>4, <2>5, <2>6, <2>7, <2>8 DEF WebApiNext, WebApiStep
<1> DEFINE Rest == WebApiTypeOK' /\ FewAsked'
<1>1. CASE UNCHANGED <<time, tokens, taskVars, counted>>
  BY <1>b, <1>1 DEF taskVars, WebApiTypeOK, FewAsked
<1>2. ASSUME NEW s \in Server, Login(s) PROVE Rest
  <2>1. \A t \in tokens' : t \in tokens \/ t = TokenOf(s)
    BY <1>2 DEF Login
  <2>2. TokenOf(s).by = s /\ TokenOf(s).exp = time + Ttl /\ time + Ttl <= MaxTime + Ttl
    BY WebApiAssumption DEF TokenOf, WebApiTypeOK
  <2>3. \A t \in tokens' : t.by \in Server /\ t.exp <= MaxTime + Ttl
    BY <2>1, <2>2 DEF WebApiTypeOK
  <2> QED
    BY <1>b, <1>2, <2>3 DEF Login, taskVars, WebApiTypeOK, FewAsked
<1>3. ASSUME NEW s \in Server, NEW k \in Task, NEW j, j.home = s, Accept(s, k, j) PROVE Rest
  <2>1. {x \in Task : job'[x] # NoJob} \subseteq asked \cup {k}
    BY <1>a, <1>3 DEF Accept
  <2>2. FewAsked'
    BY <2>1, FS_AddElement, FS_Subset DEF FewAsked
  <2>3. \A x \in Task : job'[x].home \in Server \cup {"none"}
    BY <1>a, <1>3 DEF Accept, WebApiTypeOK
  <2>4. word' \in [Task -> TaskWord]
    BY <1>3 DEF Accept, WebApiTypeOK, TaskWord
  <2> QED
    BY <1>b, <1>3, <2>2, <2>3, <2>4 DEF Accept, WebApiTypeOK
<1>4. ASSUME NEW s \in Server, NEW k \in Task, Execute(s, k) \/ Goal(s, k) PROVE Rest
  BY <1>1, <1>3, <1>4 DEF Execute, Goal
<1>5. ASSUME NEW k \in Task, NEW w \in TaskWord, Moves(k, w) PROVE Rest
  BY <1>b, <1>5 DEF Moves, WebApiTypeOK, FewAsked
<1>6. ASSUME NEW k \in Task, Take(k) \/ Finish(k) PROVE Rest
  BY <1>5, <1>6 DEF Take, Finish, TaskWord
<1>7. ASSUME NEW s \in Server, NEW k \in Task, Cancel(s, k) PROVE Rest
  <2>1. UNCHANGED <<time, tokens, job, stream, shown, counted>>
    BY <1>7 DEF Cancel
  <2>2. word' \in [Task -> TaskWord] /\ flag' \in [Task -> BOOLEAN]
    <3>1. CASE UNCHANGED <<word, flag>>
      BY <3>1 DEF WebApiTypeOK
    <3>2. CASE /\ flag' = [flag EXCEPT ![k] = TRUE]
               /\ word' = [word EXCEPT ![k] = IF @ = "queued" THEN "cancelled" ELSE @]
      BY <3>2 DEF WebApiTypeOK, TaskWord
    <3> QED
      BY <1>7, <3>1, <3>2 DEF Cancel
  <2> QED
    BY <1>b, <2>1, <2>2 DEF WebApiTypeOK, FewAsked
<1>8. ASSUME NEW s \in Server, NEW k \in Task, OpenStream(s, k) PROVE Rest
  BY <1>b, <1>8 DEF OpenStream, WebApiTypeOK, FewAsked
<1>9. ASSUME NEW k \in Task, Turn(k) PROVE Rest
  BY <1>b, <1>9 DEF Turn, WebApiTypeOK, FewAsked
<1>10. ASSUME NEW s \in Server, ServerRestarts(s) PROVE Rest
  <2>1. word' \in [Task -> TaskWord] /\ stream' \in [Task -> {"none", "open", "ended", "broken"}]
    BY <1>10 DEF ServerRestarts, WebApiTypeOK, TaskWord
  <2>2. counted' # <<>> => counted' \in Server \X Nat
    BY <1>10 DEF ServerRestarts, WebApiTypeOK
  <2> QED
    BY <1>b, <1>10, <2>1, <2>2 DEF ServerRestarts, WebApiTypeOK, FewAsked
<1>11. ASSUME NEW s \in Server, Count(s) PROVE Rest
  <2>1. counted' \in Server \X Nat
    BY <1>11, HeldIsFew DEF Count
  <2> QED
    BY <1>b, <1>11, <2>1 DEF Count, taskVars, WebApiTypeOK, FewAsked
<1>12. CASE List
  BY <1>b, <1>12 DEF List, taskVars, WebApiTypeOK, FewAsked
<1>13. CASE Tick
  <2>1. time' \in 0 .. MaxTime
    BY <1>13, WebApiAssumption DEF Tick, WebApiTypeOK
  <2> QED
    BY <1>b, <1>13, <2>1 DEF Tick, taskVars, WebApiTypeOK, FewAsked
<1>14. ASSUME NEW s \in Server, NEW k \in Task, TaskRequest(s, k) PROVE Rest
  <2>1. CASE Poll(s, k) \/ TurnsAway("poll", s, k)
    BY <1>1, <2>1 DEF Poll, TurnsAway
  <2> QED
    BY <1>4, <1>7, <1>8, <1>14, <2>1 DEF TaskRequest
<1>15. ASSUME NEW s \in Server, Discover(s) PROVE Rest
  BY <1>1, <1>15 DEF Discover
<1>16. CASE Arrives \/ UNCHANGED apiVars
  BY <1>1, <1>16 DEF Arrives, apiVars, taskVars
<1> HIDE DEF Rest
<1> QED
  BY <1>2, <1>6, <1>9, <1>10, <1>11, <1>12, <1>13, <1>14, <1>15, <1>16 DEF WebApiNext, WebApiStep, Rest

-----------------------------------------------------------------------------
(***************************************************************************)
(* The task manager (WebTasks): what becomes of a task and what is told of *)
(* it, for any number of ids, submissions and threads, wherever a          *)
(* cancellation falls.                                                     *)
(***************************************************************************)
(* The states a web task gets to; it is scheduled for a moment only *)
Reached == web \in [Id -> {"absent", "queued", "running", "succeeded", "failed", "cancelled"}]

(* A job that was not told to stop and is about to be settled: if its task is to be
   cancelled by now, then that came since *)
Judged ==
  \A j \in Job : at[j] = "settling" /\ ~saw[j] /\ webFlag[j[1]] => overtaken[j[1]]

(* A word that may be said of a task *)
Fair(t, w) ==
  ~restarted[t] =>
    /\ w = "running" => web[t] \notin {"absent", "created", "queued"}
    /\ w \in {"done", "failed", "cancelled"} => w = ToWeb(web[t])

(* The view that was handed over last, and the one a cancel() holds *)
Views == \A t \in Id : Fair(t, saved[t]) /\ Fair(t, seen[t])

WInv == WebTypeOK /\ Reached /\ Judged /\ Views /\ CancelIsHonoured

(* The words for the states. *)
LEMMA WordsOfStates ==
  /\ ToWeb("absent") = "none" /\ ToWeb("queued") = "queued" /\ ToWeb("running") = "running"
  /\ ToWeb("succeeded") = "done" /\ ToWeb("failed") = "failed" /\ ToWeb("cancelled") = "cancelled"
  BY DEF ToWeb, Runnable

(* What may follow the states a web task gets to. *)
LEMMA MovesOfStates ==
  ASSUME NEW s \in {"absent", "created", "queued", "running", "succeeded", "failed", "cancelled"}
  PROVE  /\ CanTransition(s, "queued") <=> s \in {"created", "running"}
         /\ CanTransition(s, "succeeded") <=> s = "running"
         /\ CanTransition(s, "failed") <=> s = "running"
         /\ CanTransition(s, "cancelled") => s \in {"created", "queued", "running"}
  BY DEF CanTransition, Transitions

(* A job belongs to an id. *)
LEMMA JobHasId == \A j \in Job : j[1] \in Id
  BY DEF Job

(* At first nobody has submitted anything. *)
LEMMA WebInitInv == WebInit => WInv
<1> SUFFICES ASSUME WebInit PROVE WInv
  OBVIOUS
<1>1. WebTypeOK
  BY WebAssumption DEF WebInit, WebTypeOK, Place, Word
<1>2. Reached /\ Judged /\ CancelIsHonoured
  BY DEF WebInit, Reached, Judged, CancelIsHonoured
<1>3. Views
  BY DEF WebInit, Views, Fair
<1> QED
  BY <1>1, <1>2, <1>3 DEF WInv

(* A task that gets on by a legal move of an execution leaves what was said of it true,
   and what is said of it now is. *)
LEMMA MoveKeepsViews ==
  ASSUME WInv, NEW t \in Id, NEW s \in {"queued", "running", "succeeded", "failed", "cancelled"},
         Reach(t, s), UNCHANGED seen,
         restarted' \in [Id -> BOOLEAN],
         \A u \in Id : u # t => restarted'[u] = restarted[u],
         restarted[t] => restarted'[t],
         \/ web[t] = "absent" /\ s = "queued"
         \/ web[t] = "queued" /\ s \in {"running", "cancelled"}
         \/ web[t] = "running" /\ s \in {"succeeded", "failed", "cancelled"}
         \/ restarted'[t]
  PROVE  Views' /\ Reached' /\ saved' \in [Id -> Word]
<1>1. /\ web' = [web EXCEPT ![t] = s] /\ saved' = [saved EXCEPT ![t] = ToWeb(s)]
      /\ web \in [Id -> {"absent", "queued", "running", "succeeded", "failed", "cancelled"}]
      /\ saved \in [Id -> Word]
  BY DEF Reach, WInv, Reached, WebTypeOK
<1>2. web'[t] = s /\ saved'[t] = ToWeb(s) /\ \A u \in Id : u # t => web'[u] = web[u] /\ saved'[u] = saved[u]
  BY <1>1
<1>3. Reached'
  BY <1>1 DEF Reached
<1>4. saved' \in [Id -> Word]
  BY <1>1, WordsOfStates DEF Word
<1>5. ASSUME NEW u \in Id, u # t PROVE (Fair(u, saved[u]) /\ Fair(u, seen[u]))'
  BY <1>2, <1>5 DEF WInv, Views, Fair
<1>6. Fair(t, saved[t])'
  BY <1>2, WordsOfStates DEF Fair
<1>7. Fair(t, seen[t])'
  <2> SUFFICES ASSUME ~restarted'[t] PROVE Fair(t, seen[t])'
    BY DEF Fair
  <2>1. Fair(t, seen[t])
    BY DEF WInv, Views
  <2> QED
    BY <1>2, <2>1, WordsOfStates DEF Fair
<1> QED
  BY <1>3, <1>4, <1>5, <1>6, <1>7 DEF Views

(* A submission queues a new id, or an id that is running, which counts as restarted. *)
LEMMA SubmitKeepsInv == ASSUME WInv, NEW t \in Id, Submit(t) PROVE WInv'
<1> DEFINE n == submits[t] + 1
           s == IF web[t] = "absent" THEN "created" ELSE web[t]
<1> USE WebAssumption
<1>1. WebTypeOK /\ Reached /\ Judged /\ Views /\ CancelIsHonoured
  BY DEF WInv
<1>2. /\ submits' = [submits EXCEPT ![t] = n] /\ entry' = [entry EXCEPT ![t] = n]
      /\ n \in 1 .. MaxSubmits /\ <<t, n>> \in Job
      /\ UNCHANGED <<manager, saw, clerk, seen, overtaken>>
  BY <1>1 DEF Submit, WebTypeOK, Job
<1>3. CASE CanTransition(s, "queued")
  <2>1. /\ Reach(t, "queued") /\ at' = [at EXCEPT ![<<t, n>>] = "pooled"]
        /\ webFlag' = [webFlag EXCEPT ![t] = FALSE]
        /\ restarted' = [restarted EXCEPT ![t] = @ \/ s = "running"]
    BY <1>3 DEF Submit, Goes
  <2>2. web[t] \in {"absent", "running"}
    <3>1. web[t] \in {"absent", "queued", "running", "succeeded", "failed", "cancelled"}
      BY <1>1 DEF Reached
    <3> QED
      BY <1>3, <3>1, MovesOfStates
  <2>3. /\ restarted' \in [Id -> BOOLEAN] /\ webFlag' \in [Id -> BOOLEAN]
        /\ \A u \in Id : u # t => restarted'[u] = restarted[u] /\ webFlag'[u] = webFlag[u]
        /\ restarted[t] => restarted'[t]
        /\ web[t] = "running" => restarted'[t]
        /\ ~webFlag'[t]
    BY <1>1, <2>1 DEF WebTypeOK
  <2>4. Views' /\ Reached' /\ saved' \in [Id -> Word]
    BY <1>2, <2>1, <2>2, <2>3, MoveKeepsViews
  <2>5. WebTypeOK'
    <3>1. web' \in [Id -> State \cup {"absent"}]
      BY <2>4 DEF Reached, State
    <3>2. at' \in [Job -> Place]
      BY <1>1, <1>2, <2>1 DEF WebTypeOK, Place
    <3>3. n \in 0 .. MaxSubmits
      BY <1>2
    <3>4. submits' \in [Id -> 0 .. MaxSubmits] /\ entry' \in [Id -> 0 .. MaxSubmits]
      BY <1>1, <1>2, <3>3 DEF WebTypeOK
    <3> HIDE DEF n, s
    <3> QED
      BY <1>1, <1>2, <2>3, <2>4, <3>1, <3>2, <3>4 DEF WebTypeOK
  <2>6. Judged'
    <3> SUFFICES ASSUME NEW j \in Job, at'[j] = "settling", ~saw[j], webFlag'[j[1]]
                 PROVE  overtaken[j[1]]
      BY <1>2 DEF Judged
    <3>1. j[1] \in Id /\ j[1] # t
      BY <2>3, JobHasId
    <3>2. at[j] = "settling"
      BY <1>1, <1>2, <2>1 DEF WebTypeOK
    <3> QED
      BY <1>1, <2>3, <3>1, <3>2 DEF Judged
  <2>7. CancelIsHonoured'
    BY <1>1, <1>2, <2>1, <2>3 DEF CancelIsHonoured, Reach, WebTypeOK
  <2> QED
    BY <2>4, <2>5, <2>6, <2>7 DEF WInv
<1>4. CASE ~CanTransition(s, "queued")
  <2>1. UNCHANGED <<web, saved, at, webFlag, restarted>>
    BY <1>4 DEF Submit, Raise
  <2>2. WebTypeOK'
    BY <1>1, <1>2, <2>1 DEF WebTypeOK
  <2>3. Reached' /\ Judged' /\ CancelIsHonoured'
    BY <1>1, <1>2, <2>1 DEF Reached, Judged, CancelIsHonoured
  <2>4. Views'
    BY <1>1, <1>2, <2>1 DEF Views, Fair
  <2> QED
    BY <2>2, <2>3, <2>4 DEF WInv
<1> QED
  BY <1>3, <1>4

(* A job that goes on without touching its task. *)
LEMMA QuietStepKeepsInv ==
  ASSUME WInv, WebTypeOK', NEW j \in Job, NEW p \in Place, Goes(j, p),
         UNCHANGED <<web, webFlag, seen, saved, overtaken, restarted>>,
         \A k \in Job : k # j => saw'[k] = saw[k],
         p = "settling" /\ webFlag[j[1]] => saw'[j]
  PROVE  WInv'
<1>1. WebTypeOK /\ Reached /\ Judged /\ Views /\ CancelIsHonoured
  BY DEF WInv
<1>2. Judged'
  <2> SUFFICES ASSUME NEW k \in Job, at'[k] = "settling", ~saw'[k], webFlag[k[1]]
               PROVE  overtaken[k[1]]
    BY DEF Judged
  <2>1. CASE k = j
    BY <1>1, <2>1 DEF Goes, WebTypeOK
  <2>2. CASE k # j
    BY <1>1, <2>2 DEF Goes, Judged, WebTypeOK
  <2> QED
    BY <2>1, <2>2
<1>3. Reached' /\ CancelIsHonoured' /\ Views'
  BY <1>1 DEF Reached, CancelIsHonoured, Views, Fair
<1> QED
  BY <1>2, <1>3 DEF WInv

(* An execution up to its body, and from its body to its judgement. *)
LEMMA QuietActionsKeepInv ==
  ASSUME WInv, NEW j \in Job, TakeUp(j) \/ Look(j) \/ BodyEnds(j) \/ Drop(j) \/ Judge(j)
  PROVE  WInv'
<1> USE WebAssumption
<1>1. WebTypeOK /\ j[1] \in Id
  BY JobHasId DEF WInv
<1>2. CASE TakeUp(j)
  <2>1. WebTypeOK' /\ Goes(j, "begin") /\ "begin" \in Place
    BY <1>1, <1>2 DEF TakeUp, Goes, WebTypeOK, Place
  <2> QED
    BY <1>2, <2>1, QuietStepKeepsInv DEF TakeUp
<1>3. CASE Look(j)
  <2>1. PICK p \in {"ended", "moving"} : Goes(j, p)
    BY <1>3 DEF Look
  <2>2. entry' \in [Id -> 0 .. MaxSubmits] /\ manager' \in Job \cup {<<>>} /\ at' \in [Job -> Place]
    <3>1. 0 \in 0 .. MaxSubmits
      OBVIOUS
    <3>2. entry' \in [Id -> 0 .. MaxSubmits]
      BY <1>1, <1>3, <3>1 DEF Look, WebTypeOK
    <3>3. manager' \in Job \cup {<<>>}
      BY <1>1, <1>3 DEF Look, WebTypeOK
    <3>4. at' \in [Job -> Place]
      BY <1>1, <2>1 DEF Goes, WebTypeOK, Place
    <3> QED
      BY <3>2, <3>3, <3>4
  <2>3. UNCHANGED <<web, webFlag, submits, saw, clerk, seen, saved, overtaken, restarted>>
    BY <1>3 DEF Look
  <2>4. WebTypeOK'
    BY <1>1, <2>2, <2>3 DEF WebTypeOK
  <2> QED
    BY <2>1, <2>3, <2>4, QuietStepKeepsInv DEF Place
<1>4. CASE BodyEnds(j)
  <2>1. PICK p \in {"returned", "raised"} : Goes(j, p)
    BY <1>4 DEF BodyEnds
  <2>2. WebTypeOK'
    BY <1>1, <1>4, <2>1 DEF BodyEnds, Goes, WebTypeOK, Place
  <2> QED
    BY <1>4, <2>1, <2>2, QuietStepKeepsInv DEF BodyEnds, Place
<1>5. CASE Drop(j)
  <2>1. PICK p \in {"judging", "ended"} : Goes(j, p)
    BY <1>5 DEF Drop
  <2>2. at' \in [Job -> Place] /\ entry' \in [Id -> 0 .. MaxSubmits]
    BY <1>1, <1>5, <2>1 DEF Drop, Goes, WebTypeOK, Place
  <2>3. UNCHANGED <<web, webFlag, submits, manager, saw, clerk, seen, saved, overtaken, restarted>>
    BY <1>5 DEF Drop
  <2>4. WebTypeOK'
    BY <1>1, <2>2, <2>3 DEF WebTypeOK
  <2> QED
    BY <2>1, <2>3, <2>4, QuietStepKeepsInv DEF Place
<1>6. CASE Judge(j)
  <2>1. /\ Goes(j, "settling") /\ saw' = [saw EXCEPT ![j] = webFlag[j[1]]] /\ manager' = j
        /\ UNCHANGED <<web, webFlag, entry, submits, clerk, seen, saved, overtaken, restarted>>
    BY <1>6 DEF Judge, ShouldCancel
  <2>2. at' \in [Job -> Place] /\ saw' \in [Job -> BOOLEAN]
    BY <1>1, <2>1 DEF Goes, WebTypeOK, Place
  <2>3. WebTypeOK'
    BY <1>1, <2>1, <2>2 DEF WebTypeOK
  <2>4. saw'[j] = webFlag[j[1]] /\ \A k \in Job : k # j => saw'[k] = saw[k]
    BY <1>1, <2>1 DEF WebTypeOK
  <2> QED
    BY <2>1, <2>3, <2>4, QuietStepKeepsInv DEF Place
<1> QED
  BY <1>2, <1>3, <1>4, <1>5, <1>6

(* A job that moves its task, or raises, and is not settling afterwards. *)
LEMMA MovingStepKeepsInv ==
  ASSUME WInv, NEW j \in Job, NEW p \in {"body", "dropping", "ended"}, Goes(j, p),
         manager' \in Job \cup {<<>>},
         UNCHANGED <<webFlag, entry, submits, saw, clerk, seen, overtaken, restarted>>,
         \/ Raise
         \/ web[j[1]] = "queued" /\ (Reach(j[1], "running") \/ Reach(j[1], "cancelled"))
         \/ \E s \in {"succeeded", "failed", "cancelled"} :
              /\ web[j[1]] = "running" /\ Reach(j[1], s)
              /\ s = "succeeded" /\ webFlag[j[1]] => overtaken[j[1]]
  PROVE  WInv'
<1>1. WebTypeOK /\ Reached /\ Judged /\ Views /\ CancelIsHonoured /\ j[1] \in Id
  BY JobHasId DEF WInv
<1>2. at' \in [Job -> Place] /\ \A k \in Job : at'[k] = "settling" => at[k] = "settling"
  BY <1>1 DEF Goes, WebTypeOK, Place
<1>3. Judged'
  BY <1>1, <1>2 DEF Judged
<1>4. ASSUME NEW s \in {"running", "succeeded", "failed", "cancelled"}, Reach(j[1], s),
             \/ web[j[1]] = "queued" /\ s \in {"running", "cancelled"}
             \/ web[j[1]] = "running" /\ s # "running",
             s = "succeeded" /\ webFlag[j[1]] => overtaken[j[1]]
      PROVE  WInv'
  <2>1. Views' /\ Reached' /\ saved' \in [Id -> Word]
    BY <1>1, <1>4, MoveKeepsViews DEF WebTypeOK
  <2>2. WebTypeOK'
    BY <1>1, <1>2, <2>1 DEF WebTypeOK, Reached, State
  <2>3. CancelIsHonoured'
    BY <1>1, <1>4 DEF CancelIsHonoured, Reach, WebTypeOK
  <2> QED
    BY <1>3, <2>1, <2>2, <2>3 DEF WInv
<1>5. CASE Raise
  BY <1>1, <1>2, <1>3, <1>5 DEF Raise, WInv, WebTypeOK, Reached, Views, Fair, CancelIsHonoured
<1> QED
  BY <1>4, <1>5

(* The moves of an execution. *)
LEMMA MovingActionsKeepInv ==
  ASSUME WInv, NEW j \in Job, Begin(j) \/ Fail(j) \/ SettleJob(j)
  PROVE  WInv'
<1>1. WebTypeOK /\ Reached /\ Judged /\ j[1] \in Id
  BY JobHasId DEF WInv
<1>2. web[j[1]] \in {"absent", "queued", "running", "succeeded", "failed", "cancelled"}
  BY <1>1 DEF Reached
<1>3. CASE Begin(j)
  <2>1. MayBegin(j[1]) => web[j[1]] = "queued"
    BY <1>2 DEF MayBegin
  <2> QED
    BY <1>1, <1>3, <2>1, MovingStepKeepsInv DEF Begin
<1>4. CASE Fail(j)
  <2>1. CanTransition(web[j[1]], "failed") => web[j[1]] = "running"
    BY <1>2, MovesOfStates
  <2> QED
    BY <1>1, <1>4, <2>1, MovingStepKeepsInv DEF Fail, WebTypeOK
<1>5. CASE SettleJob(j)
  <2>1. CASE saw[j]
    <3>1. Verdict(j) = "cancelled"
      BY <2>1 DEF Verdict
    <3>2. CanTransition(web[j[1]], "cancelled") => web[j[1]] \in {"queued", "running"}
      BY <1>2 DEF CanTransition, Transitions
    <3> QED
      BY <1>1, <1>5, <3>1, <3>2, MovingStepKeepsInv DEF SettleJob
  <2>2. CASE ~saw[j]
    <3>1. Verdict(j) = "succeeded"
      BY <2>2 DEF Verdict
    <3>2. CanTransition(web[j[1]], "succeeded") => web[j[1]] = "running"
      BY <1>2, MovesOfStates
    <3>3. webFlag[j[1]] => overtaken[j[1]]
      BY <1>1, <1>5, <2>2 DEF SettleJob, Judged
    <3> QED
      BY <1>1, <1>5, <3>1, <3>2, <3>3, MovingStepKeepsInv DEF SettleJob
  <2> QED
    BY <2>1, <2>2
<1> QED
  BY <1>3, <1>4, <1>5

(* A cancellation marks every job that is about to be settled without it, and settles
   what has not started. *)
LEMMA AcceptKeepsInv == ASSUME WInv, NEW t \in Id, AcceptCancel(t) PROVE WInv'
<1>1. WebTypeOK /\ Reached /\ Judged /\ Views /\ CancelIsHonoured
  BY DEF WInv
<1>2. /\ webFlag' = [webFlag EXCEPT ![t] = TRUE]
      /\ web' = [web EXCEPT ![t] = IF @ \in Runnable THEN "cancelled" ELSE @]
      /\ clerk' = [clerk EXCEPT ![t] = "accepted"]
      /\ overtaken' = [overtaken EXCEPT ![t] = @ \/ \E j \in Job : j[1] = t /\ at[j] = "settling"]
      /\ UNCHANGED <<entry, submits, at, manager, saw, seen, saved, restarted>>
      /\ web[t] \in {"queued", "running"}
  BY <1>1 DEF AcceptCancel, Reached, Terminal
<1>3. /\ web'[t] = IF web[t] = "queued" THEN "cancelled" ELSE "running"
      /\ \A u \in Id : u # t => web'[u] = web[u] /\ webFlag'[u] = webFlag[u] /\ overtaken'[u] = overtaken[u]
      /\ \A u \in Id : overtaken[u] => overtaken'[u]
      /\ \A j \in Job : j[1] = t /\ at[j] = "settling" => overtaken'[t]
  BY <1>1, <1>2 DEF WebTypeOK, Runnable
<1>4. Reached'
  BY <1>1, <1>2 DEF Reached
<1>5. WebTypeOK'
  <2>1. web' \in [Id -> State \cup {"absent"}]
    BY <1>4 DEF Reached, State
  <2>2. overtaken' \in [Id -> BOOLEAN]
    BY <1>1, <1>2 DEF WebTypeOK
  <2>3. webFlag' \in [Id -> BOOLEAN] /\ clerk' \in [Id -> {"idle", "accepted", "holding"}]
    BY <1>1, <1>2 DEF WebTypeOK
  <2> QED
    BY <1>1, <1>2, <2>1, <2>2, <2>3 DEF WebTypeOK
<1>6. Judged'
  <2> SUFFICES ASSUME NEW j \in Job, at[j] = "settling", ~saw[j], webFlag'[j[1]]
               PROVE  overtaken'[j[1]]
    BY <1>2 DEF Judged
  <2>1. j[1] \in Id
    BY JobHasId
  <2>2. CASE j[1] = t
    BY <1>3, <2>2
  <2>3. CASE j[1] # t
    BY <1>1, <1>3, <2>1, <2>3 DEF Judged
  <2> QED
    BY <2>2, <2>3
<1>7. CancelIsHonoured'
  <2> SUFFICES ASSUME NEW u \in Id, web'[u] = "succeeded", webFlag'[u]
               PROVE  overtaken'[u] \/ restarted[u]
    BY <1>2 DEF CancelIsHonoured
  <2>1. u # t
    BY <1>3
  <2> QED
    BY <1>1, <1>3, <2>1 DEF CancelIsHonoured
<1>8. Views'
  <2> SUFFICES ASSUME NEW u \in Id, NEW w \in {saved[u], seen[u]}, ~restarted[u]
               PROVE  /\ w = "running" => web'[u] \notin {"absent", "created", "queued"}
                      /\ w \in {"done", "failed", "cancelled"} => w = ToWeb(web'[u])
    BY <1>2 DEF Views, Fair
  <2>1. /\ w = "running" => web[u] \notin {"absent", "created", "queued"}
        /\ w \in {"done", "failed", "cancelled"} => w = ToWeb(web[u])
    BY <1>1 DEF Views, Fair
  <2>2. CASE u = t
    BY <1>2, <1>3, <2>1, <2>2, WordsOfStates
  <2>3. CASE u # t
    BY <1>3, <2>1, <2>3
  <2> QED
    BY <2>2, <2>3
<1> QED
  BY <1>4, <1>5, <1>6, <1>7, <1>8 DEF WInv

(* A view is of what the task is, and stays sayable until it is handed over. *)
LEMMA ViewActionsKeepInv ==
  ASSUME WInv, NEW t \in Id, TakeView(t) \/ HandView(t)
  PROVE  WInv'
<1>1. WebTypeOK /\ Reached /\ Judged /\ Views /\ CancelIsHonoured
  BY DEF WInv
<1>2. UNCHANGED <<web, webFlag, entry, submits, at, manager, saw, overtaken, restarted>>
  BY DEF TakeView, HandView
<1>3. Reached' /\ Judged' /\ CancelIsHonoured'
  BY <1>1, <1>2 DEF Reached, Judged, CancelIsHonoured
<1>4. clerk' \in [Id -> {"idle", "accepted", "holding"}]
  <2>1. clerk \in [Id -> {"idle", "accepted", "holding"}]
    BY <1>1 DEF WebTypeOK
  <2>2. clerk' = [clerk EXCEPT ![t] = "holding"] \/ clerk' = [clerk EXCEPT ![t] = "idle"]
    BY DEF TakeView, HandView
  <2> QED
    BY <2>1, <2>2
<1>5. Fair(t, ToWeb(web[t])) /\ Fair(t, "none") /\ ToWeb(web[t]) \in Word
  <2>1. web[t] \in {"absent", "queued", "running", "succeeded", "failed", "cancelled"}
    BY <1>1 DEF Reached
  <2> QED
    BY <2>1, WordsOfStates DEF Fair, Word
<1>6. \A u \in Id, w \in Word : Fair(u, w) => Fair(u, w)'
  BY <1>2 DEF Fair
<1>7. CASE TakeView(t)
  <2>1. seen' = [seen EXCEPT ![t] = ToWeb(web[t])] /\ saved' = saved
    BY <1>7 DEF TakeView, ViewOf
  <2>2. seen' \in [Id -> Word] /\ \A u \in Id : Fair(u, seen'[u]) /\ Fair(u, saved[u])
    BY <1>1, <1>5, <2>1 DEF WebTypeOK, Views
  <2>3. WebTypeOK'
    BY <1>1, <1>2, <1>4, <2>1, <2>2 DEF WebTypeOK
  <2>4. Views'
    BY <1>1, <1>2, <2>1, <2>2 DEF Views, Fair
  <2> QED
    BY <1>3, <2>3, <2>4 DEF WInv
<1>8. CASE HandView(t)
  <2>1. seen' = [seen EXCEPT ![t] = "none"] /\ saved' = [saved EXCEPT ![t] = seen[t]]
    BY <1>8 DEF HandView
  <2>2. /\ seen' \in [Id -> Word] /\ saved' \in [Id -> Word]
        /\ \A u \in Id : Fair(u, seen'[u]) /\ Fair(u, saved'[u])
    BY <1>1, <1>5, <2>1 DEF WebTypeOK, Views, Word
  <2>3. WebTypeOK'
    BY <1>1, <1>2, <1>4, <2>2 DEF WebTypeOK
  <2>4. Views'
    BY <1>2, <2>2 DEF Views, Fair
  <2> QED
    BY <1>3, <2>3, <2>4 DEF WInv
<1> QED
  BY <1>7, <1>8

(* No thread breaks it. *)
LEMMA WebNextInv == WInv /\ [WebNext]_webVars => WInv'
<1> SUFFICES ASSUME WInv, [WebNext]_webVars PROVE WInv'
  OBVIOUS
<1>1. CASE UNCHANGED webVars
  <2>1. WebTypeOK' /\ Reached' /\ Judged' /\ CancelIsHonoured'
    BY <1>1 DEF webVars, WInv, WebTypeOK, Reached, Judged, CancelIsHonoured
  <2>2. Views'
    BY <1>1 DEF webVars, WInv, Views, Fair
  <2> QED
    BY <2>1, <2>2 DEF WInv
<1> QED
  BY <1>1, SubmitKeepsInv, AcceptKeepsInv, ViewActionsKeepInv, QuietActionsKeepInv,
     MovingActionsKeepInv DEF WebNext, JobStep

(* Judgements, cancellations and views, for every number of ids, submissions and threads. *)
THEOREM WebInvariant == WebSpec => []WInv
  BY WebInitInv, WebNextInv, PTL DEF WebSpec

(* No view tells more than the store *)
LEMMA ViewsAreHonest == WInv => OutcomesAreHonest
<1> SUFFICES ASSUME WInv, NEW t \in Id, ~restarted[t]
             PROVE  /\ saved[t] = "running" => web[t] \notin {"absent", "created", "queued"}
                    /\ saved[t] \in {"done", "failed", "cancelled"} => saved[t] = ToWeb(web[t])
  BY DEF OutcomesAreHonest, ViewIsNeverAhead, WInv
<1> QED
  BY DEF WInv, Views, Fair

(* An accepted cancellation is honoured unless it came between the judgement and the move
   or the id was submitted again while it ran; and no view tells of what has not happened
   (TaskManager._worker, cancel, _persist_view). *)
THEOREM OutcomesStayHonest == WebSpec => []OutcomesAreHonest
<1>1. WInv => OutcomesAreHonest
  BY ViewsAreHonest
<1> QED
  BY <1>1, WebInvariant, PTL

(* A body begins only while its task is open *)
LEMMA OnlyOpenBegins == WInv /\ [WebNext]_webVars => [SettledNeverRuns]_webVars
<1> SUFFICES ASSUME WInv, WebNext, NEW j \in Job, at[j] # "body", at'[j] = "body"
             PROVE  web[j[1]] \notin Terminal
  BY DEF SettledNeverRuns
<1>1. at \in [Job -> Place]
  BY DEF WInv, WebTypeOK
<1>2. PICK k \in Job : Begin(k) /\ MayBegin(k[1])
  BY <1>1 DEF WebNext, JobStep, Submit, TakeUp, Look, Begin, BodyEnds, Fail, Drop, Judge, SettleJob,
              AcceptCancel, TakeView, HandView, Goes, Raise
<1>3. k = j
  BY <1>1, <1>2 DEF Begin, Goes
<1> QED
  BY <1>2, <1>3 DEF MayBegin, Terminal

(* A task that has been settled never has its body run (TaskManager._worker). *)
THEOREM NoSettledBody == WebSpec => [][SettledNeverRuns]_webVars
<1>1. WInv /\ [WebNext]_webVars => [SettledNeverRuns]_webVars
  BY OnlyOpenBegins
<1> QED
  BY <1>1, WebInvariant, PTL DEF WebSpec

(* Both, in every step of every client and every job *)
THEOREM SubmissionsSound == WebSpec => SubmissionsAreSound
BY OutcomesStayHonest, NoSettledBody, PTL DEF SubmissionsAreSound

-----------------------------------------------------------------------------
(***************************************************************************)
(* All of them, one beside the other, as they are model-checked: each step *)
(* is one part's, and leaves the variables of the others alone.            *)
(***************************************************************************)
PlatformInv == WInv /\ HubInv /\ QInv /\ RegInv /\ CafeInv /\ ApiTypes

LEMMA PlatformStart == Init => PlatformInv
BY WebInitInv, HubInitInv, QueryInitInv, RegStart, CafeInitInv, WebStart, ApiTypesAtFirst
DEF Init, PlatformInv, ApiTypes

(* A step of the whole is one of every part, or leaves it alone *)
LEMMA StepOfParts ==
  ASSUME [Next]_vars
  PROVE  /\ [WebNext]_webVars /\ [HubNext]_hubVars /\ [QueryNext]_queryVars
         /\ [CafeNext]_cafeVars /\ [WebApiNext]_apiVars /\ [RegNext]_regVars
<1> DEFINE Parts == /\ [WebNext]_webVars /\ [HubNext]_hubVars /\ [QueryNext]_queryVars
                    /\ [CafeNext]_cafeVars /\ [WebApiNext]_apiVars /\ [RegNext]_regVars
<1> SUFFICES Parts
  OBVIOUS
<1>1. CASE UNCHANGED vars
  BY <1>1 DEF vars
<1>2. CASE Next
  <2>1. \A x \in Item : x \notin {"web", "cafe", "hub", "query", "shared", "issued"}
    BY FocusAssumption DEF Part
  <2>2. DOMAIN Together = {"shared", "issued"}
    BY DEF Together
  <2>3. OtherVars(focus)
    BY <1>2 DEF Next
  <2>4. CASE focus = "web" /\ WebNext
    BY <2>1, <2>2, <2>3, <2>4 DEF OtherVars
  <2>5. CASE focus \in DOMAIN Together /\ WebApiStep(Together[focus])
    <3>1. Together[focus] \subseteq Server
      BY <2>5, FocusAssumption
    <3>2. WebApiNext
      BY <2>5, <3>1 DEF WebApiNext, WebApiStep
    <3> QED
      BY <2>1, <2>2, <2>3, <2>5, <3>2 DEF OtherVars
  <2>6. CASE focus = "cafe" /\ CafeNext
    BY <2>1, <2>2, <2>3, <2>6 DEF OtherVars
  <2>7. CASE focus = "hub" /\ HubNext
    BY <2>1, <2>2, <2>3, <2>7 DEF OtherVars
  <2>8. CASE focus = "query" /\ QueryNext
    BY <2>1, <2>2, <2>3, <2>8 DEF OtherVars
  <2>9. ASSUME NEW x \in Item, focus = x, RegStep({x}) PROVE Parts
    <3>1. RegNext
      BY <2>9 DEF RegNext, RegStep
    <3> QED
      BY <2>1, <2>2, <2>3, <2>9, <3>1 DEF OtherVars
  <2> QED
    BY <1>2, <2>4, <2>5, <2>6, <2>7, <2>8, <2>9 DEF Next
<1> QED
  BY <1>1, <1>2

LEMMA PlatformStep == PlatformInv /\ [Next]_vars => PlatformInv'
<1> SUFFICES ASSUME PlatformInv, [Next]_vars PROVE PlatformInv'
  OBVIOUS
<1>1. /\ [WebNext]_webVars /\ [HubNext]_hubVars /\ [QueryNext]_queryVars
      /\ [CafeNext]_cafeVars /\ [WebApiNext]_apiVars /\ [RegNext]_regVars
  BY StepOfParts
<1>4. WInv' /\ HubInv' /\ QInv' /\ CafeInv'
  BY <1>1, WebNextInv, HubNextInv, QueryNextInv, CafeNextKeeps DEF PlatformInv
<1>5. RegInv'
  BY <1>1, RegNextKeeps DEF PlatformInv
<1>6. ApiTypes'
  BY <1>1, WebStepKeeps, ApiTypesKept DEF PlatformInv, ApiTypes
<1> QED
  BY <1>4, <1>5, <1>6 DEF PlatformInv

(* The invariants of all parts, in every behaviour about any of them *)
THEOREM PlatformInvariant == Spec => []PlatformInv
BY PlatformStart, PlatformStep, PTL DEF Spec

(* The types of all parts: no part of the platform is ever left in a shape its code does
   not know (TaskManager, Dispatcher, EventHub, RegistryStore, FederatedClient, router) *)
THEOREM PlatformTypeCorrect == Spec => []TypeOK
<1>1. PlatformInv => TypeOK
  BY ShapeIsTyped DEF PlatformInv, TypeOK, WInv, HubInv, QInv, RegInv, CafeInv, ApiTypes
<1> QED
  BY <1>1, PlatformInvariant, PTL

(* And what each part promises, in every behaviour about any of them: streams, queries,
   synchronisation, submissions, the interface for browsers and the dispatcher *)
THEOREM PlatformSound ==
  Spec => /\ []ReaderMissesNothing /\ []EachCardOnce /\ []OnlyVouchedSpreads
          /\ SubmissionsAreSound /\ WebAnswersAreSound /\ DispatchIsSound
<1>1. PlatformInv => ReaderMissesNothing /\ EachCardOnce /\ OnlyVouchedSpreads /\ OutcomesAreHonest
  BY ReaderFindsAll, PushedOnce, ViewsAreHonest
  DEF PlatformInv, RegInv, VouchedEverywhere, Backing, OnlyVouchedSpreads
<1>2. PlatformInv /\ [Next]_vars => [SettledNeverRuns]_webVars
  BY StepOfParts, OnlyOpenBegins DEF PlatformInv
<1>3. PlatformInv /\ [Next]_vars => [OnlyByToken /\ StreamTellsTheStory]_apiVars
  BY StepOfParts, WebStepKeeps, AnswersAreVouchedFor DEF PlatformInv, ApiTypes
<1>4. PlatformInv /\ [Next]_vars => [FailoverIsSafe' /\ UndisturbedPasses]_cafeVars
  BY StepOfParts, DispatchStepIsSound DEF PlatformInv
<1> QED
  BY <1>1, <1>2, <1>3, <1>4, PlatformInvariant, PTL
  DEF Spec, SubmissionsAreSound, WebAnswersAreSound, DispatchIsSound
=============================================================================
