----------------------------- MODULE Onboarding -----------------------------
(***************************************************************************)
(* How an asset gets into a card registry: by the wizard, which probes it  *)
(* and builds a card (register/); by a draft its provider completes        *)
(* (registration.py); or by an upload to the web backend (web/datasets.py).*)
(* At the other end are the registry's handlers with their keys and their  *)
(* review (registry/server.py); in between, answers get lost.  What a      *)
(* registry does with the entries it has is in Registry.                   *)
(***************************************************************************)
EXTENDS Naturals, Sequences, FiniteSets

CONSTANTS
  Offers,      \* the services behind the asset's address
  Profiles,    \* the registries it is submitted to: "open", "keyed", "public"
  Keys,        \* what the submitter's key may permit: sets of scopes
  MaxPosts     \* bound: submissions, and reviews

ASSUME OnboardingAssumption ==
  /\ Offers \subseteq {"compute", "ogc", "stac", "wms"}
  /\ Profiles \subseteq {"open", "keyed", "public"}
  /\ Keys \subseteq SUBSET {"submit", "write", "admin"} /\ MaxPosts \in Nat

VARIABLES
  trip,      \* the road taken, the registry's profile, the key, whether a service is
             \* behind the asset or a raster file, its suffix, the extent one can find out
  desk,      \* the card at the submitter's, and how far it is
  session,   \* the web user's token
  entries,   \* the entries of the asset in the registry, by id
  answer,    \* what the submitter was last told
  viewed,    \* what the reviewer looks at, a set of at most one
  posts,     \* submissions and reviews so far
  ruled      \* history: the cards a reviewer has approved, with their ids

onboardVars == <<trip, desk, session, entries, answer, viewed, posts, ruled>>

(* The order in which a probe looks for services; the last resort is that it
   knows nothing *)
Order == <<"compute", "ogc", "stac", "wms", "unknown">>
KindIds == {Order[i] : i \in DOMAIN Order} \cup {"geotiff"}
Ids == KindIds \cup {"draft", "upload"}

(* A card: the extent it claims; how much is there of what only a person can
   state (license and provider, or the revision as well); its title *)
CardOf == [spatial : BOOLEAN, stated : {"nothing", "some", "all"},
           title : {"given", "derived"}]
Blank == [spatial |-> FALSE, stated |-> "nothing", title |-> "derived"]
Status == {"pending", "approved", "rejected"}
CardEntry == [card : CardOf, status : Status]

(* An asset.  The bounds of a raster are on the ground if somebody has georeferenced it,
   otherwise they count its pixels; nothing looks which *)
Trips ==
  [road : {"wizard", "draft", "web"}, profile : Profiles, key : Keys, of : {"service", "raster"},
   suffix : {".tif", ".cog"}, extent : {"none", "ground", "pixels"}]

OnboardTypeOK ==
  /\ trip \in Trips
  /\ desk \in [stage : {"new", "card"}, id : Ids, card : CardOf, node : BOOLEAN]
  /\ session \in {"none", "valid", "expired"}
  /\ \A i \in DOMAIN entries : i \in Ids /\ entries[i] \in CardEntry
  /\ answer \in {"none", "created", "conflict", "refused", "invalid", "no draft", "lost"}
  /\ \A s \in viewed : s.id \in Ids /\ s.entry \in CardEntry
  /\ posts \in 0 .. MaxPosts /\ \A r \in ruled : r[1] \in Ids /\ r[2] \in CardOf

OnboardInit ==
  /\ trip \in Trips
  /\ trip.suffix = ".cog" => trip.road = "web"
  /\ trip.road = "web" => trip.of = "raster"
  /\ trip.road = "draft" => trip.of = "service"
  /\ trip.extent # IF trip.of = "raster" THEN "none" ELSE "pixels"   \* any raster has bounds
  /\ trip.road = "wizard" => trip.key = {}   \* the wizard sends no key
  /\ desk = [stage |-> "new", id |-> "unknown", card |-> Blank, node |-> FALSE]
  /\ session = "none" /\ entries = [i \in {} |-> {}] /\ answer = "none"
  /\ viewed = {} /\ posts = 0 /\ ruled = {}

-----------------------------------------------------------------------------
(* A probe asks for one kind of service after the other; a request that fails
   counts as "not that kind".  The extent is one more request, which may fail
   as well *)
KindOf(answered) ==
  Order[CHOOSE i \in DOMAIN Order :
          /\ Order[i] \in answered \cup {"unknown"}
          /\ \A j \in 1 .. i - 1 : Order[j] \notin answered]
Extents(kind) ==
  IF kind \in {"compute", "unknown"} \/ trip.extent = "none" THEN {FALSE} ELSE BOOLEAN
Found(answered) == IF trip.of = "raster" THEN "geotiff" ELSE KindOf(answered)

(* The wizard: probe, then a card of what was found and what the user says; the
   provider has a default, the license has none; the id names the kind *)
Wizard ==
  /\ trip.road = "wizard"
  /\ \E answered \in SUBSET Offers, stated \in {"nothing", "some"} :
       \E spatial \in Extents(Found(answered)) :
         desk' = [stage |-> "card", id |-> Found(answered), node |-> TRUE,
                  card |-> [Blank EXCEPT !.spatial = spatial, !.stated = stated]]
  /\ UNCHANGED <<trip, session, entries, answer, viewed, posts, ruled>>

(* A draft from the provider's metadata, with what is in there and no more; the
   file is written once, then completed by hand *)
MakeDraft ==
  /\ trip.road = "draft" /\ desk.stage = "new"
  /\ \E c \in CardOf :
       /\ c.title = "derived" /\ (c.spatial => trip.extent # "none")
       /\ desk' = [stage |-> "card", id |-> "draft", card |-> c, node |-> FALSE]
  /\ UNCHANGED <<trip, session, entries, answer, viewed, posts, ruled>>
Complete ==
  /\ trip.road = "draft" /\ desk.stage = "card"
  /\ desk' = [desk EXCEPT !.node = TRUE, !.card.stated = "all"]
  /\ UNCHANGED <<trip, session, entries, answer, viewed, posts, ruled>>

(* The web user's token, which runs out; it cannot be renewed, only replaced *)
Login ==
  /\ trip.road = "web" /\ session' = "valid"
  /\ UNCHANGED <<trip, desk, entries, answer, viewed, posts, ruled>>
ExpireToken ==
  /\ session = "valid" /\ session' = "expired"
  /\ UNCHANGED <<trip, desk, entries, answer, viewed, posts, ruled>>

(* An upload: the card of the raster's own metadata, its bounds whatever they count,
   with the user's title *)
Derived == [Blank EXCEPT !.spatial = TRUE]
Upload ==
  /\ trip.road = "web" /\ session = "valid" /\ desk.stage = "new"
  /\ \E title \in {"given", "derived"} :
       desk' = [stage |-> "card", id |-> "upload", card |-> [Derived EXCEPT !.title = title],
                node |-> TRUE]
  /\ UNCHANGED <<trip, session, entries, answer, viewed, posts, ruled>>

-----------------------------------------------------------------------------
Allowed(scope) ==
  \/ trip.profile = "open"
  \/ trip.key \cap {scope, "admin"} # {}
  \/ trip.profile = "keyed" /\ trip.key # {}

(* What a registry that is open to the public asks of a card *)
ProfileOK(c) == c.stated = "all"

(* POST /cards: key, endpoint and profile, then the id must be new *)
Ruling(id, c, node) ==
  CASE ~Allowed("submit") -> "refused"
    [] trip.profile = "public" /\ ~(node /\ ProfileOK(c)) -> "invalid"
    [] id \in DOMAIN entries -> "conflict"
    [] OTHER -> "created"
(* Slip: the status the submitter asks for *)
StatusAsked(status) == status
StatusFor(status) == IF trip.profile = "public" THEN "pending" ELSE status

(* The submission reaches the registry, and its answer the submitter or not *)
Post(id, c, node, status) ==
  /\ posts < MaxPosts /\ posts' = posts + 1
  /\ answer' \in {Ruling(id, c, node), "lost"}
  /\ entries' = IF Ruling(id, c, node) # "created" THEN entries
                ELSE [i \in DOMAIN entries \cup {id} |->
                        IF i = id THEN [card |-> c, status |-> StatusFor(status)]
                        ELSE entries[i]]
  /\ UNCHANGED <<trip, desk, session, viewed, ruled>>

(* The wizard submits the card it has just built, to be reviewed unless the
   user says otherwise *)
SubmitWizard ==
  /\ trip.road = "wizard" /\ desk.stage = "card"
  /\ \E status \in {"pending", "approved"} : Post(desk.id, desk.card, desk.node, status)

(* Anyone with a card may post it with the client, which checks nothing and lets
   the caller name the status *)
SubmitDirectly ==
  /\ trip.road = "draft" /\ desk.stage = "card"
  /\ \E status \in {"pending", "approved"} : Post(desk.id, desk.card, desk.node, status)

(* A draft is validated against the profile before it is sent, and must name
   the node *)
SubmitDraft ==
  /\ trip.road = "draft" /\ desk.stage = "card"
  /\ IF ProfileOK(desk.card) /\ desk.node
     THEN Post(desk.id, desk.card, TRUE, "pending")
     ELSE answer' = "invalid" /\ UNCHANGED <<trip, desk, session, entries, viewed, posts, ruled>>

(* An upload is looked for under two of its three suffixes, and its card is
   made anew from the file *)
SubmitUpload ==
  /\ trip.road = "web" /\ session = "valid" /\ desk.stage = "card"
  /\ IF trip.suffix = ".cog"
     THEN answer' = "no draft" /\ UNCHANGED <<trip, desk, session, entries, viewed, posts, ruled>>
     ELSE Post(desk.id, Derived, TRUE, "pending")

(* A reviewer looks at an entry, then rules on its id *)
Look(i) ==
  /\ i \in DOMAIN entries /\ viewed' = {[id |-> i, entry |-> entries[i]]}
  /\ UNCHANGED <<trip, desk, session, entries, answer, posts, ruled>>
Rule(i, status) ==
  /\ posts < MaxPosts /\ posts' = posts + 1
  /\ \E s \in viewed : s.id = i /\ i \in DOMAIN entries
  /\ entries' = [entries EXCEPT ![i].status = status]
  /\ ruled' = IF status = "approved" THEN ruled \cup {<<i, entries[i].card>>} ELSE ruled
  /\ viewed' = {}
  /\ UNCHANGED <<trip, desk, session, answer>>

(* Whoever may write takes an entry out *)
Withdraw(i) ==
  /\ i \in DOMAIN entries /\ Allowed("write")
  /\ entries' = [j \in DOMAIN entries \ {i} |-> entries[j]]
  /\ answer' = "none"
  /\ UNCHANGED <<trip, desk, session, viewed, posts, ruled>>

OnboardNext ==
  \/ Wizard \/ MakeDraft \/ Complete \/ Login \/ ExpireToken \/ Upload
  \/ SubmitWizard \/ SubmitDirectly \/ SubmitDraft \/ SubmitUpload
  \/ \E i \in Ids : Look(i) \/ Withdraw(i) \/ \E v \in {"approved", "rejected"} : Rule(i, v)

OnboardSpec == OnboardInit /\ [][OnboardNext]_onboardVars
-----------------------------------------------------------------------------
(* Whatever road an asset takes, whatever is submitted again and whatever
   answer is lost: no card claims an extent where there was none to find (what it
   finds of a raster may count pixels, ExtentIsGeographic); a registry open to
   the public has cards of complete profile only, and shows those a reviewer
   has approved; what was confirmed to the submitter is there *)
CardsAreHonest == \A i \in DOMAIN entries : entries[i].card.spatial => trip.extent # "none"
PublicIsReviewed ==
  trip.profile = "public" =>
    \A i \in DOMAIN entries :
      /\ ProfileOK(entries[i].card)
      /\ entries[i].status = "approved" => <<i, entries[i].card>> \in ruled
ConfirmedIsThere == answer \in {"created", "conflict"} => DOMAIN entries # {}

(* ... and a submission that is repeated, knowingly or because its answer was
   lost, changes nothing of an entry that is there: neither what it says nor
   what a review made of it *)
ResubmissionIsHarmless ==
  posts' # posts /\ viewed' = viewed =>
    \A i \in DOMAIN entries : i \in DOMAIN entries' /\ entries'[i] = entries[i]

OnboardingIsSound ==
  [][/\ CardsAreHonest' /\ PublicIsReviewed' /\ ConfirmedIsThere'
     /\ ResubmissionIsHarmless]_onboardVars

(* What is promised or meant and does not hold: an asset has one card, however
   its probe went; an upload that was accepted can be submitted; what is
   submitted is the draft the user was shown; a provider is stated by a person;
   an extent is a place on the ground; a reviewer approves what the reviewer has seen *)
OneCardPerAsset == Cardinality(DOMAIN entries) <= 1
DraftCanBeSubmitted == answer # "no draft"
DraftIsSubmitted == "upload" \in DOMAIN entries => entries["upload"].card = desk.card
ExtentIsGeographic == \A i \in DOMAIN entries : entries[i].card.spatial => trip.extent = "ground"
ProviderIsStated == \A i \in DOMAIN entries : entries[i].card.stated # "nothing"
ApprovedAsSeen ==
  [][\A i \in Ids : Rule(i, "approved") =>
       \E s \in viewed : s.id = i /\ s.entry.card = entries[i].card]_onboardVars
=============================================================================
