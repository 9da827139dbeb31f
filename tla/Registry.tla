----------------------------- MODULE Registry -----------------------------
(***************************************************************************)
(* registry/: card registries that pull from one another.  A registry      *)
(* keeps cards and plugins, which are reviewed, and skills, which are not; *)
(* every change rewrites its file.  A sync asks one peer after the other   *)
(* for what it shows and imports it entry by entry.  A sync that is asked  *)
(* for over HTTP runs on the server's event loop, so the registry answers  *)
(* nobody, its peers included, until the sync is over.                     *)
(*                                                                         *)
(* An entry is the owning node's endpoint, a review status and the history *)
(* of reviews; the description itself is left out.                         *)
(***************************************************************************)
EXTENDS Naturals, Sequences, FiniteSets, SequencesExt

CONSTANTS
  Reg,         \* registries
  Card, Skill, Plugin,
  Endpoint,    \* node_url
  Peers,       \* Peers[r]: the peers of r, in order
  Guarded,     \* the registries with public_submissions
  Blocking,    \* the registries whose syncs run on their event loop (POST /sync)
  UpdateExisting,
  MaxReviews,  \* bound: length of a review history
  MaxSyncs     \* bound: syncs a registry starts

Item == Card \cup Skill \cup Plugin

ASSUME RegistryAssumption ==
  /\ Peers \in [Reg -> Seq(Reg)]
  /\ Guarded \subseteq Reg /\ Blocking \subseteq Reg
  /\ UpdateExisting \in BOOLEAN
  /\ MaxReviews \in Nat /\ MaxSyncs \in Nat
  /\ Card \cap Skill = {} /\ Card \cap Plugin = {} /\ Skill \cap Plugin = {}

Absent == [node |-> "-", status |-> "absent", history |-> <<>>]
Ruling == {"approved", "rejected"}

VARIABLES
  shelf,     \* shelf[r][x]: the entry of x in the store of r
  disk,      \* disk[r][x]: the entry of x in r's file
  pull,      \* pull[r]: r's sync: how many peers it has left behind, its stage
  todo,      \* todo[r]: what the peer sent, entries that are not imported yet
  errors,    \* errors[r]: report["errors"], the peers that failed
  syncs,     \* syncs[r]: syncs started
  unsaved,   \* history: a save of r has failed and none has succeeded since
  vouched    \* history: <<x, node>> some registry has approved, or accepted as approved

regVars == <<shelf, disk, pull, todo, errors, syncs, unsaved, vouched>>

Status == {"pending", "approved", "rejected"}
IsEntry(e) ==
  /\ e.node \in Endpoint \cup {"-"}
  /\ e.status \in Status \cup {"absent"}
  /\ e.history \in Seq(Ruling) /\ Len(e.history) <= MaxReviews

RegTypeOK ==
  /\ \A r \in Reg, x \in Item : IsEntry(shelf[r][x]) /\ IsEntry(disk[r][x])
  /\ \A r \in Reg : pull[r].done \in 0 .. Len(Peers[r])
                    /\ pull[r].stage \in {"idle", "cards", "skills"}
  /\ \A r \in Reg : \A e \in todo[r] : e.item \in Card \cup Skill
  /\ errors \in [Reg -> SUBSET Reg]
  /\ syncs \in [Reg -> 0 .. MaxSyncs]
  /\ unsaved \in [Reg -> BOOLEAN]
  /\ vouched \subseteq Item \X Endpoint

RegInit ==
  /\ shelf = [r \in Reg |-> [x \in Item |-> Absent]]
  /\ disk = shelf
  /\ pull = [r \in Reg |-> [done |-> 0, stage |-> "idle"]]
  /\ todo = [r \in Reg |-> {}]
  /\ errors = [r \in Reg |-> {}]
  /\ syncs = [r \in Reg |-> 0]
  /\ unsaved = [r \in Reg |-> FALSE]
  /\ vouched = {}

-----------------------------------------------------------------------------
Known(r, x) == shelf[r][x] # Absent
Idle(r) == pull[r].stage = "idle"
Serves(r) == Idle(r) \/ r \notin Blocking

(* _save after a change in memory: the whole store replaces the file, or the
   disk refuses, the request fails and the change stays in memory *)
Keep(r, new) ==
  /\ shelf' = [shelf EXCEPT ![r] = new]
  /\ \/ disk' = [disk EXCEPT ![r] = new] /\ unsaved' = [unsaved EXCEPT ![r] = FALSE]
     \/ unsaved' = [unsaved EXCEPT ![r] = TRUE] /\ UNCHANGED disk
Put(r, x, e) == Keep(r, [shelf[r] EXCEPT ![x] = e])

Vouch(x, e) ==
  vouched' = IF e.status = "approved" THEN vouched \cup {<<x, e.node>>} ELSE vouched

(* POST /cards, /skills, /plugins: a known id is a conflict.  A registry open to
   the public takes cards for review only, any other takes the status it is
   given; a plugin is always pending *)
Register(r, x, node, status) ==
  LET s == IF x \in Plugin \/ (x \in Card /\ r \in Guarded) THEN "pending" ELSE status
      e == [node |-> node, status |-> IF x \in Skill THEN "approved" ELSE s, history |-> <<>>] IN
  /\ Serves(r) /\ ~Known(r, x)
  /\ Put(r, x, e)
  /\ Vouch(x, e)
  /\ UNCHANGED <<pull, todo, errors, syncs>>

(* set_status and review_plugin; only cards keep a history *)
Review(r, x, verdict) ==
  LET e == [shelf[r][x] EXCEPT !.status = verdict,
              !.history = IF x \in Card THEN Append(@, verdict) ELSE @] IN
  /\ Serves(r) /\ Known(r, x) /\ x \notin Skill
  /\ Len(shelf[r][x].history) < MaxReviews
  /\ Put(r, x, e)
  /\ Vouch(x, e)
  /\ UNCHANGED <<pull, todo, errors, syncs>>

Unregister(r, x) ==
  /\ Serves(r) /\ Known(r, x)
  /\ Put(r, x, Absent)
  /\ UNCHANGED <<pull, todo, errors, syncs, vouched>>

-----------------------------------------------------------------------------
Peer(r) == Peers[r][pull[r].done + 1]

(* POST /sync *)
StartSync(r) ==
  /\ Idle(r) /\ syncs[r] < MaxSyncs /\ Peers[r] # <<>>
  /\ syncs' = [syncs EXCEPT ![r] = @ + 1]
  /\ pull' = [pull EXCEPT ![r] = [done |-> 0, stage |-> "cards"]]
  /\ errors' = [errors EXCEPT ![r] = {}]
  /\ UNCHANGED <<shelf, disk, todo, unsaved, vouched>>

(* What a registry tells whoever lists its cards without asking for a status.
   Slip: everything it has *)
ListsAll(p) == {x \in Card : Known(p, x)}
ListsApproved(p) == {x \in Card : shelf[p][x].status = "approved"}

Listed(p, stage) ==
  {[item |-> x, node |-> shelf[p][x].node] :
     x \in IF stage = "cards" THEN ListsApproved(p) ELSE {s \in Skill : Known(p, s)}}

Advance(r) ==
  IF pull[r].stage = "cards" THEN [pull[r] EXCEPT !.stage = "skills"]
  ELSE [done |-> pull[r].done + 1,
        stage |-> IF pull[r].done + 1 = Len(Peers[r]) THEN "idle" ELSE "cards"]

(* _sync_peer: list_cards, and list_skills when the cards are imported.  A peer
   that is syncing itself does not answer.  The list is read once *)
Fetch(r) ==
  LET got == Listed(Peer(r), pull[r].stage) IN
  /\ ~Idle(r) /\ todo[r] = {}
  /\ Serves(Peer(r))
  /\ todo' = [todo EXCEPT ![r] = got]
  /\ pull' = [pull EXCEPT ![r] = IF got = {} THEN Advance(r) ELSE @]
  /\ UNCHANGED <<shelf, disk, errors, syncs, unsaved, vouched>>

(* A call to a peer has a timeout.  Slip: it waits for as long as it takes *)
WaitsForever(r) == FALSE
MayFail(r) == ~Idle(r) /\ todo[r] = {}

(* The call fails or times out: recorded, and on to the next peer *)
PeerFails(r) ==
  /\ MayFail(r)
  /\ errors' = [errors EXCEPT ![r] = @ \cup {Peer(r)}]
  /\ pull' = [pull EXCEPT ![r] =
       [done |-> pull[r].done + 1,
        stage |-> IF pull[r].done + 1 = Len(Peers[r]) THEN "idle" ELSE "cards"]]
  /\ UNCHANGED <<shelf, disk, todo, syncs, unsaved, vouched>>

(* The import of one entry: with the status and history of a new registration,
   whatever they were *)
Imported(e) == [node |-> e.node, status |-> "approved", history |-> <<>>]

Done(r, e) ==
  /\ todo' = [todo EXCEPT ![r] = @ \ {e}]
  /\ pull' = [pull EXCEPT ![r] = IF todo[r] = {e} THEN Advance(r) ELSE @]

(* _import_card, _import_skill: register, and if that conflicts, in a second
   call, register_or_update.  A save that fails raises out of the sync *)
Import(r, e) ==
  /\ e \in todo[r]
  /\ IF Known(r, e.item) /\ ~UpdateExisting
       THEN Done(r, e) /\ UNCHANGED <<shelf, disk, unsaved>>
       ELSE /\ Put(r, e.item, Imported(e))
            /\ IF unsaved'[r]
                 THEN /\ todo' = [todo EXCEPT ![r] = {}]
                      /\ pull' = [pull EXCEPT ![r] = [done |-> 0, stage |-> "idle"]]
                 ELSE Done(r, e)
  /\ UNCHANGED <<errors, syncs, vouched>>

(* The server dies and is started again from its file *)
Restart(r) ==
  /\ shelf' = [shelf EXCEPT ![r] = disk[r]]
  /\ pull' = [pull EXCEPT ![r] = [done |-> 0, stage |-> "idle"]]
  /\ todo' = [todo EXCEPT ![r] = {}]
  /\ errors' = [errors EXCEPT ![r] = {}]
  /\ unsaved' = [unsaved EXCEPT ![r] = FALSE]
  /\ UNCHANGED <<disk, syncs, vouched>>

SyncStep(r) == Fetch(r) \/ PeerFails(r) \/ \E e \in todo[r] : Import(r, e)

(* What happens to the items in X *)
RegStep(X) ==
  \E r \in Reg :
    \/ StartSync(r) \/ SyncStep(r) \/ Restart(r)
    \/ \E x \in X :
         \/ Unregister(r, x)
         \/ \E n \in Endpoint, s \in Status : Register(r, x, n, s)
         \/ \E v \in Ruling : Review(r, x, v)

RegNext == RegStep(Item)

(* Only the syncs have to go on *)
RegFairness == \A r \in Reg : WF_regVars(SyncStep(r))

RegSpec == RegInit /\ [][RegNext]_regVars /\ RegFairness
-----------------------------------------------------------------------------
(* A card is discoverable, at whatever registry, only with the endpoint under
   which some registry approved it: one that is pending or rejected everywhere
   is not spread by any sequence of syncs, restarts and failed saves *)
OnlyVouchedSpreads ==
  \A r \in Reg, c \in Card :
    shelf[r][c].status = "approved" => <<c, shelf[r][c].node>> \in vouched

(* A sync ends, even when the peer it asks is asking it (RegistryFederator.sync) *)
SyncEnds == \A r \in Reg : ~Idle(r) ~> Idle(r)

(* models.py: "review_history records every review action", so while a card
   stays registered its history only grows.  It fails: a pull replaces the
   entry, and with it a local rejection *)
HistoryOnlyGrows ==
  [][\A r \in Reg, c \in Card :
       Known(r, c) /\ shelf'[r][c] # Absent =>
         IsPrefix(shelf[r][c].history, shelf'[r][c].history)]_regVars
=============================================================================
