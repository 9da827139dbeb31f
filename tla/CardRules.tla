----------------------------- MODULE CardRules -----------------------------
(***************************************************************************)
(* What is decided by reading cards (geonexus.geocard, geonexus.resource): *)
(* a card is built section by section, written and read back; a registry   *)
(* lists it for a request, a control plane validates it against a contract *)
(* and refuses what it does not know, a model is matched with the nodes    *)
(* that offer compute, and a composite is as visible as its parts.         *)
(*                                                                         *)
(* Numbers stand for coordinates, instants, metres and cores; a request    *)
(* and a card leave out what they do not declare.  Whether two CRSs are    *)
(* equivalent, and whether two GPU names start alike, are constants.       *)
(***************************************************************************)
EXTENDS Integers, Sequences, FiniteSets

CONSTANTS
  Places,       \* spatial sections: [box, crs, res], a box of 4 numbers, 6 in 3D
  Times,        \* pairs of start and end; Missing or Garbled instants occur
  Bands,        \* [name, units]; Fold gives a name in small letters
  Fold(_),
  Equivalent(_, _),   \* pyproj on two CRSs
  Policies,     \* compliance sections: [home, restrictions, level]
  Requests,     \* what is asked of the card
  Runtimes,     \* what a model may need: [cpu, memory, gpu]
  Fleet,        \* the compute cards of the registry, in the order it lists them
  Alike(_, _),  \* two GPU names of which one starts with the other
  Part,         \* ids of components
  MaxParts,     \* bands of a card, and components of a composite
  MaxShifts     \* changes of the catalogue

Undeclared == -1
Missing == 0
Garbled == 99
NoBox == <<>>
NoTime == <<Missing, Missing>>
Levels == {"public", "restricted", "sensitive", "secret"}
Normal(l) == IF l \in Levels THEN l ELSE "restricted"
Rank == [public |-> 0, restricted |-> 1, sensitive |-> 2, secret |-> 3]
Gating == {"data", "model", "knowledge", "workflow"}
NoCard == [box |-> NoBox, crs |-> "none", res |-> Undeclared, time |-> NoTime, bands |-> <<>>,
           policy |-> [home |-> "none", restrictions |-> {}, level |-> "undeclared"],
           runtime |-> [cpu |-> Undeclared, memory |-> Undeclared, gpu |-> "none"], parts |-> <<>>]

(* What a card and a request may hold: numbers in boxes and windows; the rest is read
   through the operators above *)
ASSUME CardAssumption ==
  /\ MaxParts \in Nat /\ MaxShifts \in Nat
  /\ \A p \in Places : p.box \in Seq(Int)
  /\ Times \subseteq Int \X Int
  /\ \A q \in Requests : q.box \in Seq(Int) /\ q.time \in Int \X Int /\ q.exports \in BOOLEAN
  /\ Fleet \in Seq([cpu : Int, memory : Int, gpu : STRING])

VARIABLES
  bench,       \* what this card is for: its sections are the ones that matter
  card,       \* the card in the builder
  file,       \* the card on disk, or <<>>
  loading,    \* how it was read back: "none", "ok" or "raised"
  catalogue,  \* component id -> its level, or "absent": what lookup finds
  shifts,
  decided      \* the last decision: [by, value]

cardVars == <<bench, card, file, loading, catalogue, shifts, decided>>

Undecided == [by |-> "nobody", value |-> <<>>]

CardInit ==
  /\ bench \in {"data", "model", "case", "file"}
  /\ card = NoCard
  /\ file = <<>>
  /\ loading = "none"
  /\ catalogue \in [Part -> {"absent", "public"}]
  /\ shifts = 0
  /\ decided = Undecided

---------------------------------------------------------------------------
(* The lenient reading (ContractValidator.check): what a card does not     *)
(* declare is a warning                                                    *)

CrsVerdict(c, q) ==
  CASE q.crs = "none" -> "skipped"
    [] q.crs # "none" /\ c.crs = "none" -> "unknown"
    [] OTHER -> IF Equivalent(c.crs, q.crs) THEN "yes" ELSE "no"

(* A third dimension is dropped with whatever comes after four numbers *)
Flat(b) == SubSeq(b, 1, 4)
Meets(a, b) == ~ (a[3] < b[1] \/ b[3] < a[1] \/ a[4] < b[2] \/ b[4] < a[2])

(* In another CRS the box is reprojected; the request has failed by then *)
ExtentVerdict(c, q) ==
  CASE q.box = NoBox -> "skipped"
    [] q.box # NoBox /\ c.box = NoBox -> "unknown"
    [] q.box # NoBox /\ c.box # NoBox /\ (Len(q.box) < 4 \/ Len(c.box) < 4) -> "incomparable"
    [] OTHER -> IF Meets(Flat(c.box), Flat(q.box)) THEN "yes" ELSE "no"

FromOf(q) == IF q.time[1] = Missing THEN -1000 ELSE q.time[1]
UntilOf(q) == IF q.time[2] = Missing THEN 1000 ELSE q.time[2]

TimeVerdict(c, q) ==
  CASE q.time = NoTime -> "skipped"
    [] q.time # NoTime /\ (Missing \in {c.time[1], c.time[2]}
                           \/ Garbled \in {c.time[1], c.time[2], q.time[1], q.time[2]}) -> "unknown"
    [] OTHER -> IF c.time[1] <= UntilOf(q) /\ FromOf(q) <= c.time[2] THEN "yes" ELSE "no"

FoldedNames(c) == {Fold(c.bands[i].name) : i \in DOMAIN c.bands}

BandVerdict(c, q) ==
  CASE q.bands = {} -> "skipped"
    [] q.bands # {} /\ c.bands = <<>> -> "unknown"
    [] OTHER -> IF \A b \in q.bands : Fold(b) \in FoldedNames(c) THEN "yes" ELSE "no"

ResolutionVerdict(c, q) ==
  CASE q.res = Undeclared -> "skipped"
    [] q.res # Undeclared /\ c.res = Undeclared -> "unknown"
    [] OTHER -> IF c.res <= q.res THEN "yes" ELSE "no"

Verdicts(c, q) == {CrsVerdict(c, q), ExtentVerdict(c, q), TimeVerdict(c, q), BandVerdict(c, q),
                   ResolutionVerdict(c, q)}
Satisfied(verdicts) == "no" \notin verdicts

(* RegistryStore.search with its gate *)
ListedFor(c, q) == Satisfied(Verdicts(c, q))

---------------------------------------------------------------------------
(* The strict reading (validate_contract): what is not declared is unknown,*)
(* and only a contract without a fail or an unknown is valid               *)

StatusOf(verdicts) ==
  CASE ~ Satisfied(verdicts) -> "fail"
    [] Satisfied(verdicts) /\ "unknown" \in verdicts -> "unknown"
    [] OTHER -> "pass"

(* Of bands with one name in small letters the last one counts *)
BandCalled(c, b) ==
  LET same == {i \in DOMAIN c.bands : Fold(c.bands[i].name) = Fold(b)}
  IN  IF same = {} THEN [name |-> b, units |-> "none"]
      ELSE c.bands[CHOOSE i \in same : \A j \in same : j <= i]

UnitsStatus(c, q) ==
  LET units == {BandCalled(c, b).units : b \in q.bands}
  IN  CASE q.units = "none" \/ units \subseteq {q.units} -> "pass"
        [] OTHER -> IF "none" \in units THEN "unknown" ELSE "fail"

PolicyStatus(c, q) ==
  LET p == c.policy
  IN  CASE p.home = "none" -> "unknown"
        [] p.home # "none" /\ (p.home # q.home \/ (q.exports /\ "no-export" \in p.restrictions)) -> "fail"
        [] OTHER -> IF p.restrictions \subseteq {"no-export"} /\ p.level \in {"undeclared", "public"}
                    THEN "pass" ELSE "unknown"

Statuses(c, q) ==
  {StatusOf({CrsVerdict(c, q)}), StatusOf({CrsVerdict(c, q), ExtentVerdict(c, q)}),
   StatusOf({TimeVerdict(c, q)}), StatusOf({BandVerdict(c, q)}),
   StatusOf({ResolutionVerdict(c, q)}), UnitsStatus(c, q), PolicyStatus(c, q)}

ContractValid(c, q) == Statuses(c, q) = {"pass"}

---------------------------------------------------------------------------
(* Where a model can run (match_resource)                                  *)

Enough(needs, has, strict) ==
  needs = Undeclared \/ (IF has = Undeclared THEN ~ strict ELSE needs <= has)

(* A GPU that a node says nothing of is none *)
GpuSatisfies(needs, has) == needs = "none" \/ (has \notin {"none", "unknown"} /\ Alike(needs, has))

CanHost(r, node, strict) ==
  /\ Enough(r.cpu, node.cpu, strict)
  /\ Enough(r.memory, node.memory, strict)
  /\ GpuSatisfies(r.gpu, node.gpu)

(* The first that can, or 0; a model without a runtime section needs nothing *)
Matched(r, strict) ==
  LET fit == {i \in DOMAIN Fleet : CanHost(r, Fleet[i], strict)}
  IN  IF fit = {} THEN 0 ELSE CHOOSE i \in fit : \A j \in fit : i <= j

---------------------------------------------------------------------------
(* How visible a composite is (effective_visibility, invisible_components) *)

PartsThatGate(c) == {c.parts[i].id : i \in {j \in DOMAIN c.parts :
                                             c.parts[j].required /\ c.parts[j].role \in Gating}}
InvisibleParts(c) == {p \in PartsThatGate(c) : catalogue[p] = "absent"}
(* Slip: the least level is taken for the strictest *)
Mildest(levels) == CHOOSE l \in levels : \A m \in levels : Rank[l] <= Rank[m]
Strictest(levels) == CHOOSE l \in levels : \A m \in levels : Rank[m] <= Rank[l]

Visibility(c) ==
  IF InvisibleParts(c) # {} THEN "secret"
  ELSE Strictest({Normal(c.policy.level)} \cup {catalogue[p] : p \in PartsThatGate(c)})

---------------------------------------------------------------------------
(* The builder: a section is set anew, bands and components are appended   *)
(* to lists that were checked when the section was made, not since         *)

Edited(c) ==
  /\ card' = c
  /\ decided' = Undecided
  /\ UNCHANGED <<bench, file, loading, catalogue, shifts>>

SetSpatial == \E p \in Places : Edited([card EXCEPT !.box = p.box, !.crs = p.crs, !.res = p.res])
SetTemporal == \E t \in Times : Edited([card EXCEPT !.time = t])
AddBand == \E b \in Bands :
  Len(card.bands) < MaxParts /\ Edited([card EXCEPT !.bands = Append(@, b)])
SetCompliance == \E p \in Policies : Edited([card EXCEPT !.policy = p])
SetRuntime == \E r \in Runtimes : Edited([card EXCEPT !.runtime = r])

AddComponent == \E p \in Part, role \in {"data", "skill"}, req \in BOOLEAN :
  /\ Len(card.parts) < MaxParts
  /\ Edited([card EXCEPT !.parts = Append(@, [id |-> p, role |-> role, required |-> req])])

(* GeoCard.save and GeoCard.load: reading checks what appending did not *)
Duplicated(c) == \E i, j \in DOMAIN c.parts :
  i # j /\ c.parts[i].id = c.parts[j].id /\ c.parts[i].role = c.parts[j].role

Save ==
  /\ file' = <<card>>
  /\ loading' = "none"
  /\ UNCHANGED <<bench, card, catalogue, shifts, decided>>

LoadBack ==
  /\ file # <<>>
  /\ IF Duplicated(file[1])
     THEN loading' = "raised" /\ UNCHANGED <<card, decided>>
     ELSE loading' = "ok" /\ card' = file[1] /\ decided' = Undecided
  /\ UNCHANGED <<bench, file, catalogue, shifts>>

(* A card behind a reference is published, withdrawn or declared anew *)
ShiftCatalogue(p) == \E l \in Levels \cup {"absent"} :
  /\ shifts < MaxShifts
  /\ shifts' = shifts + 1
  /\ catalogue' = [catalogue EXCEPT ![p] = l]
  /\ decided' = Undecided
  /\ UNCHANGED <<bench, card, file, loading>>

Decide(by, value) ==
  /\ decided' = [by |-> by, value |-> value]
  /\ UNCHANGED <<bench, card, file, loading, catalogue, shifts>>

(* What a ContractRequest accepts: four increasing coordinates, an ordered window *)
WellFormed(q) ==
  /\ q.crs # "none" /\ Len(q.box) = 4 /\ q.box[1] < q.box[3] /\ q.box[2] < q.box[4]
  /\ {Missing, Garbled} \cap {q.time[1], q.time[2]} = {} /\ q.time[1] <= q.time[2]

Search == \E q \in Requests : Decide("search", <<q, ListedFor(card, q)>>)
ValidateContract == \E q \in Requests :
  WellFormed(q) /\ Decide("contract", <<q, ContractValid(card, q)>>)
MatchResource == \E strict \in BOOLEAN : Decide("match", <<strict, Matched(card.runtime, strict)>>)
Show == Decide("show", <<InvisibleParts(card), Visibility(card)>>)

CardNext ==
  \/ bench = "data" /\ (SetSpatial \/ SetTemporal \/ AddBand \/ SetCompliance \/ Search \/ ValidateContract)
  \/ bench = "model" /\ (SetRuntime \/ MatchResource)
  \/ bench = "case" /\ (AddComponent \/ SetCompliance \/ (\E p \in Part : ShiftCatalogue(p)) \/ Show)
  \/ bench = "file" /\ (AddComponent \/ Save \/ LoadBack)

CardSpec == CardInit /\ [][CardNext]_cardVars

---------------------------------------------------------------------------
Components == [id : Part, role : {"data", "skill"}, required : BOOLEAN]
CardShapes ==
  [box : Seq(Int), crs : {p.crs : p \in Places} \cup {"none"}, res : {p.res : p \in Places} \cup {Undeclared},
   time : Times \cup {NoTime}, bands : Seq(Bands), policy : Policies \cup {NoCard.policy},
   runtime : Runtimes \cup {NoCard.runtime}, parts : Seq(Components)]

CardTypeOK ==
  /\ bench \in {"data", "model", "case", "file"} /\ loading \in {"none", "ok", "raised"}
  /\ shifts \in 0 .. MaxShifts
  /\ \A c \in {card} \cup {file[i] : i \in DOMAIN file} :
       c \in CardShapes /\ Len(c.bands) <= MaxParts /\ Len(c.parts) <= MaxParts
  /\ Len(file) <= 1
  /\ catalogue \in [Part -> Levels \cup {"absent"}]

(* What a request needs, said without verdicts: a point in both boxes, an
   instant in both windows, every band with its unit *)
Serves(c, q) ==
  /\ \E x \in c.box[1] .. c.box[3], y \in c.box[2] .. c.box[4] :
       x \in q.box[1] .. q.box[3] /\ y \in q.box[2] .. q.box[4]
  /\ \E t \in c.time[1] .. c.time[2] : t \in q.time[1] .. q.time[2]
  /\ \A b \in q.bands : \E i \in DOMAIN c.bands :
       /\ Fold(c.bands[i].name) = Fold(b)
       /\ q.units # "none" => c.bands[i].units = q.units
  /\ q.exports => "no-export" \notin c.policy.restrictions

(* A card's box is four numbers and has an inside, and so has its window.  Nobody checks
   this of a card, of a contract's request it is checked *)
Upright(c) ==
  /\ Len(c.box) = 4 /\ c.box[1] <= c.box[3] /\ c.box[2] <= c.box[4]
  /\ c.time[1] <= c.time[2]

(* A contract that is valid is one the registry would list, and the card serves it;
   only a box with a third dimension, or one that runs backwards, is read wrongly *)
ValidServes(c, q) == ListedFor(c, q) /\ (Upright(c) => Serves(c, q))

(* A model goes to the first node that has what it needs, and to none only when no node
   has it; guessing what a node does not say finds one no later *)
MatchIsRight(strict, i) ==
  LET r == card.runtime
  IN  IF i = 0 THEN \A j \in DOMAIN Fleet : ~ CanHost(r, Fleet[j], strict)
      ELSE /\ CanHost(r, Fleet[i], strict)
           /\ \A j \in 1 .. i - 1 : ~ CanHost(r, Fleet[j], strict)
           /\ Matched(r, FALSE) \in 1 .. i

(* A composite is never more visible than a part of it that counts, and what is
   reported missing is what hides it *)
ShownIsRight(missing, level) ==
  /\ \A p \in PartsThatGate(card) :
       catalogue[p] # "absent" => Rank[catalogue[p]] <= Rank[level]
  /\ Rank[Normal(card.policy.level)] <= Rank[level]
  /\ missing # {} => level = "secret"

DecisionIsRight ==
  /\ decided.by = "contract" /\ decided.value[2] => ValidServes(card, decided.value[1])
  /\ decided.by = "match" => MatchIsRight(decided.value[1], decided.value[2])
  /\ decided.by = "show" => ShownIsRight(decided.value[1], decided.value[2])

(* One more component, or a component that is withdrawn or declared stricter,
   never opens a composite *)
Stricter(old, new) ==
  new = old \/ new = "absent" \/ (old # "absent" /\ Rank[old] <= Rank[new])
NeverOpens ==
  /\ card'.policy = card.policy
  /\ \E n \in 0 .. Len(card'.parts) : SubSeq(card'.parts, 1, n) = card.parts
  /\ \A p \in Part : Stricter(catalogue[p], catalogue'[p])
  => Rank[Visibility(card)] <= Rank[Visibility(card)']

(* What is decided by reading cards is what the cards say *)
CardsAreRead == [][DecisionIsRight' /\ NeverOpens]_cardVars

(* What was built and saved can be loaded (GeoCard.load of what GeoCard.save
   wrote).  It fails: the builder appends a component a second time *)
SavedCanBeLoaded == loading # "raised"

(* The registry lists a card for an area only if it can tell (search: "only
   cards that satisfy the request").  It fails for a request whose box has no
   four numbers: the message is written with a capital letter, and not found *)
ComparableOnly == decided.by = "search" /\ decided.value[2] =>
  ExtentVerdict(card, decided.value[1]) # "incomparable"

(* A box of six numbers is [west, south, minz, east, north, maxz] (schema).  It
   fails: its first four numbers are read as a box *)
HeightIsNoArea == decided.by = "search" /\ decided.value[2] /\ decided.value[1].box # NoBox
  /\ Len(card.box) = 6 /\ Len(decided.value[1].box) = 4 =>
     Meets(<<card.box[1], card.box[2], card.box[4], card.box[5]>>, decided.value[1].box)

(* match_resource: unknown values on the node side are treated as "assume
   enough".  It fails for a GPU *)
UnknownIsEnough == decided.by = "match" /\ ~ decided.value[1] =>
  \A i \in DOMAIN Fleet :
    Fleet[i] = [cpu |-> Undeclared, memory |-> Undeclared, gpu |-> "unknown"] =>
      decided.value[2] \in 1 .. i
=============================================================================
