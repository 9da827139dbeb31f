-------------------------- MODULE RecipeCatalogue --------------------------
(***************************************************************************)
(* recipe/registry.py: catalogues of recipes in several processes (nodes,  *)
(* the registry server, the command line) that share one file.  A process  *)
(* answers from its copy; a node first reloads the file if its stamp has   *)
(* changed.  A change rewrites the whole file through a temporary one, and *)
(* all processes use the same temporary name.  Planning (geomcp/server.py) *)
(* takes no lock, so it meets the copy at any moment.                      *)
(*                                                                         *)
(* A recipe is reduced to its address and its review status.               *)
(***************************************************************************)
EXTENDS Naturals, FiniteSets

CONSTANTS
  Process,
  Writer,       \* the processes that change the catalogue
  Central,      \* the process behind registry_url
  Address,
  Slug(_),      \* the address without its version
  Rank(_),      \* version_key
  ForkOf(_),    \* the address a fork of this one gets
  MaxChanges    \* bound: changes, over all processes

ASSUME CatalogueAssumption ==
  /\ Writer \subseteq Process /\ Central \in Process
  /\ MaxChanges \in Nat
  /\ \A a \in Address : Rank(a) \in Nat /\ ForkOf(a) \in Address

Unregistered == "-"
Verdict == {"approved", "rejected"}
Empty == [a \in Address |-> Unregistered]
Torn == [a \in Address |-> "torn"]
Missing == [a \in Address |-> "missing"]
NoFile == 0

VARIABLES
  copy,      \* copy[p]: _entries
  seen,      \* seen[p]: _stamp
  at,        \* at[p]: where p is in a save or a reload
  file,      \* the catalogue's file: its stamp and what it holds
  tmp,       \* what the temporary file holds
  changes,
  blessed,   \* history: the addresses somebody approved, or registered as approved
  planned    \* history: the addresses some node has materialised

catVars == <<copy, seen, at, file, tmp, changes, blessed, planned>>

Shelf == [Address -> {Unregistered, "pending", "approved", "rejected"}]
CatTypeOK ==
  /\ copy \in [Process -> Shelf]
  /\ seen \in [Process -> Nat]
  /\ at \in [Process -> {"idle", "opening", "writing", "writing the file",
                         "writing a lost file", "replacing", "loading", "stamping"}]
  /\ file \in [stamp : Nat, holds : Shelf \cup {Torn}]
  /\ tmp \in Shelf \cup {Torn, Missing}
  /\ changes \in 0 .. MaxChanges
  /\ blessed \subseteq Address /\ planned \subseteq Address

CatInit ==
  /\ copy = [p \in Process |-> Empty]
  /\ seen = [p \in Process |-> NoFile]
  /\ at = [p \in Process |-> "idle"]
  /\ file = [stamp |-> NoFile, holds |-> Empty]
  /\ tmp = Missing
  /\ changes = 0
  /\ blessed = {} /\ planned = {}

-----------------------------------------------------------------------------
(* What a caller may ask for: an address, or a slug, which is all its versions *)
Wishes == {{a} : a \in Address} \cup {{b \in Address : Slug(b) = Slug(a)} : a \in Address}
Newest(S) == {a \in S : \A b \in S : Rank(b) <= Rank(a)}

(* A change in memory, whose save comes next *)
Change(p, new, approvals) ==
  /\ at[p] = "idle" /\ p \in Writer /\ changes < MaxChanges
  /\ copy' = [copy EXCEPT ![p] = new]
  /\ at' = [at EXCEPT ![p] = "opening"]
  /\ changes' = changes + 1
  /\ blessed' = blessed \cup approvals
  /\ UNCHANGED <<seen, file, tmp, planned>>

Approvals(a, status) == IF status = "approved" THEN {a} ELSE {}

Register(p, a, status, replace) ==
  /\ copy[p][a] = Unregistered \/ replace
  /\ Change(p, [copy[p] EXCEPT ![a] = status], Approvals(a, status))

(* _entry_for_review: an exact address, or a slug that only one entry has,
   whatever its status *)
Target(p, wish) ==
  LET known == {a \in wish : copy[p][a] # Unregistered} IN
  IF Cardinality(known) = 1 THEN known ELSE {}

ReviewRecipe(p, wish, verdict) ==
  \E a \in Target(p, wish) :
    Change(p, [copy[p] EXCEPT ![a] = verdict], Approvals(a, verdict))

RemoveRecipe(p, wish) ==
  \E a \in Target(p, wish) : Change(p, [copy[p] EXCEPT ![a] = Unregistered], {})

(* fork: from an approved entry, to be reviewed on its own.  Slip: with the
   status of what it was forked from *)
ForkInherits(p, a) == copy[p][a]
ForkStatus(p, a) == "pending"

Fork(p, a) ==
  /\ copy[p][a] = "approved" /\ copy[p][ForkOf(a)] = Unregistered
  /\ Change(p, [copy[p] EXCEPT ![ForkOf(a)] = ForkStatus(p, a)], {})

-----------------------------------------------------------------------------
Goes(p, from, to) == at[p] = from /\ at' = [at EXCEPT ![p] = to]

(* The stamp is the time and size of the file; every write of it gives a new one *)
Written(holds) == [stamp |-> file.stamp + 1, holds |-> holds]

(* _save.  write_text opens the temporary file, which empties it, and then
   writes; another process may have made it the catalogue in the meantime. *)
Save(p) ==
  /\ \/ Goes(p, "opening", "writing") /\ tmp' = Torn /\ UNCHANGED file
     \/ Goes(p, "writing", "replacing") /\ tmp' = copy[p] /\ UNCHANGED file
     \/ Goes(p, "writing the file", "replacing") /\ file' = Written(copy[p]) /\ UNCHANGED tmp
     \/ Goes(p, "writing a lost file", "replacing") /\ UNCHANGED <<file, tmp>>
  /\ UNCHANGED <<copy, seen, changes, blessed, planned>>

(* tmp.replace(path): whoever is still writing it now writes the catalogue; if
   the file is no longer there, the save fails *)
Replace(p) ==
  /\ at[p] = "replacing"
  /\ IF tmp = Missing
       THEN at' = [at EXCEPT ![p] = "idle"] /\ UNCHANGED <<file, tmp>>
       ELSE /\ file' = Written(tmp)
            /\ tmp' = Missing
            /\ at' = [q \in Process |->
                 CASE q = p -> "stamping"
                   [] at[q] = "writing" -> "writing the file"
                   [] at[q] = "writing the file" -> "writing a lost file"
                   [] OTHER -> at[q]]
  /\ UNCHANGED <<copy, seen, changes, blessed, planned>>

(* _stamp = _file_stamp(), of the file as it is now *)
Stamp(p) ==
  /\ Goes(p, "stamping", "idle")
  /\ seen' = [seen EXCEPT ![p] = file.stamp]
  /\ UNCHANGED <<copy, file, tmp, changes, blessed, planned>>

(* reload_if_changed: emptied first, then loaded; a file that cannot be read
   leaves the copy empty and the stamp as it was *)
Reload(p) ==
  /\ file.stamp # NoFile /\ file.stamp # seen[p]
  /\ Goes(p, "idle", "loading")
  /\ copy' = [copy EXCEPT ![p] = Empty]
  /\ UNCHANGED <<seen, file, tmp, changes, blessed, planned>>

Load(p) ==
  /\ IF file.holds = Torn
       THEN Goes(p, "loading", "idle") /\ UNCHANGED copy
       ELSE Goes(p, "loading", "stamping") /\ copy' = [copy EXCEPT ![p] = file.holds]
  /\ UNCHANGED <<seen, file, tmp, changes, blessed, planned>>

(* The process dies and is started again; it cannot start from a torn file *)
Restart(p) ==
  /\ file.holds # Torn
  /\ copy' = [copy EXCEPT ![p] = file.holds]
  /\ at' = [at EXCEPT ![p] = "stamping"]
  /\ UNCHANGED <<seen, file, tmp, changes, blessed, planned>>

-----------------------------------------------------------------------------
(* _resolve_recipe and geo.plan: the copy, and if it has nothing, the registry.
   Slip: whatever has the address *)
FoundAny(p, wish) == Newest({a \in wish : copy[p][a] # Unregistered})
Found(p, wish) == Newest({a \in wish : copy[p][a] = "approved"})

PlanRecipe(p, wish) ==
  /\ planned' = planned \cup
       (IF Found(p, wish) # {} THEN Found(p, wish) ELSE Found(Central, wish))
  /\ planned' # planned
  /\ UNCHANGED <<copy, seen, at, file, tmp, changes, blessed>>

CatNext ==
  \E p \in Process :
    \/ Save(p) \/ Replace(p) \/ Stamp(p) \/ Reload(p) \/ Load(p) \/ Restart(p)
    \/ \E a \in Address :
         \/ \E s \in {"pending", "approved", "rejected"}, b \in BOOLEAN : Register(p, a, s, b)
         \/ Fork(p, a)
    \/ \E wish \in Wishes :
         \/ PlanRecipe(p, wish) \/ RemoveRecipe(p, wish)
         \/ \E v \in Verdict : ReviewRecipe(p, wish, v)

CatSpec == CatInit /\ [][CatNext]_catVars
-----------------------------------------------------------------------------
(* A node only runs a recipe under an address that somebody has approved, by a
   review or at its registration: no fork, stale copy, lost update, half reload
   or fallback makes it run another one *)
PlannedWereApproved == planned \subseteq blessed

(* _save's promise of an atomic write: no moment of a save and no crash of it
   leaves a catalogue that cannot be loaded.  It fails for two writers: they
   share the temporary file *)
FileIsWhole == file.holds # Torn

(* reload_if_changed sees every change another process makes: a copy under the
   file's stamp is the file's.  It fails: the stamp is taken after the load, of
   a file that may have been replaced since *)
StampIsTrue ==
  \A p \in Process : at[p] = "idle" /\ seen[p] = file.stamp => copy[p] = file.holds
=============================================================================
