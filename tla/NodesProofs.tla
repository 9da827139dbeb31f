----------------------------- MODULE NodesProofs -----------------------------
(***************************************************************************)
(* Proofs about nodes and the registries they use.                         *)
(*                                                                         *)
(* The registry of contracts (ContractRegistry): what it holds is always   *)
(* finite, though contracts may be without number, and this is what makes  *)
(* "the best one" mean something: a finite set of contracts has one with   *)
(* the best score, which is proved from the well-foundedness of strict     *)
(* inclusion.                                                              *)
(*                                                                         *)
(* The way of an asset into a registry (Onboarding): by any road, with any *)
(* profile and any number of reviews.                                      *)
(*                                                                         *)
(* Requests that nodes hand over (NodeServer): any nodes, requests and     *)
(* cards, whatever owners change and however long an owner takes.          *)
(*                                                                         *)
(* Nodes that come up, and the health service that looks at all of them    *)
(* (NodeLife): what a site has told its registries and has still to tell   *)
(* is what it holds, at every step of a start; and what a round has seen   *)
(* and has still to see are all the nodes of its registries.               *)
(***************************************************************************)
EXTENDS MCNodes, StepByStep, FiniteSetTheorems, SequenceTheorems

(* What the file holds is the word that was given; reports are backed; and
   nobody holds infinitely many contracts *)
ContractInv ==
  /\ ContractTypeOK
  /\ FileHoldsWord
  /\ ReportsAreBacked
  /\ \A p \in Program : IsFiniteSet(DOMAIN book[p])
  /\ IsFiniteSet(DOMAIN db)

Backed(b) == \A c \in DOMAIN b : b[c].type = "report" => b[c].complete

-----------------------------------------------------------------------------
(* Books with one contract more, and with one less *)
LEMMA BooksAreFunctions ==
  ASSUME NEW b \in Books
  PROVE  DOMAIN b \subseteq Contract /\ b \in [DOMAIN b -> Content]
BY DEF Books

LEMMA FunctionsAreBooks ==
  ASSUME NEW C \in SUBSET Contract, NEW b \in [C -> Content]
  PROVE  b \in Books /\ DOMAIN b = C
BY DEF Books

LEMMA WithOne ==
  ASSUME NEW b \in Books, NEW c \in Contract, NEW v \in Content
  PROVE  /\ With(b, c, v) \in Books
         /\ DOMAIN With(b, c, v) = DOMAIN b \cup {c}
         /\ \A d \in DOMAIN b \cup {c} : With(b, c, v)[d] = IF d = c THEN v ELSE b[d]
<1>1. DOMAIN b \subseteq Contract /\ b \in [DOMAIN b -> Content]
  BY BooksAreFunctions
<1>2. With(b, c, v) \in [DOMAIN b \cup {c} -> Content]
  BY <1>1 DEF With
<1>3. DOMAIN b \cup {c} \in SUBSET Contract
  BY <1>1
<1>4. With(b, c, v) \in Books /\ DOMAIN With(b, c, v) = DOMAIN b \cup {c}
  BY <1>2, <1>3, FunctionsAreBooks
<1> QED
  BY <1>4 DEF With

LEMMA WithOneIs ==
  ASSUME NEW b \in Books, NEW c \in Contract, NEW v \in Content
  PROVE  /\ c \in DOMAIN With(b, c, v) /\ With(b, c, v)[c] = v
         /\ \A d \in Contract \ {c} :
              /\ d \in DOMAIN With(b, c, v) <=> d \in DOMAIN b
              /\ d \in DOMAIN b => With(b, c, v)[d] = b[d]
<1>1. DOMAIN With(b, c, v) = DOMAIN b \cup {c}
  BY WithOne
<1> QED
  BY <1>1 DEF With

LEMMA WithoutOne ==
  ASSUME NEW b \in Books, NEW c \in Contract
  PROVE  /\ Without(b, c) \in Books
         /\ DOMAIN Without(b, c) = DOMAIN b \ {c}
         /\ \A d \in DOMAIN b \ {c} : Without(b, c)[d] = b[d]
<1>1. DOMAIN b \subseteq Contract /\ b \in [DOMAIN b -> Content]
  BY BooksAreFunctions
<1>2. Without(b, c) \in [DOMAIN b \ {c} -> Content]
  BY <1>1 DEF Without, Restrict
<1>3. DOMAIN b \ {c} \in SUBSET Contract
  BY <1>1
<1>4. Without(b, c) \in Books /\ DOMAIN Without(b, c) = DOMAIN b \ {c}
  BY <1>2, <1>3, FunctionsAreBooks
<1> QED
  BY <1>4 DEF Without, Restrict

(* An empty book *)
LEMMA NothingIsABook ==
  NoContracts \in Books /\ DOMAIN NoContracts = {} /\ Backed(NoContracts)
<1>1. NoContracts \in [{} -> Content] /\ DOMAIN NoContracts = {}
  BY DEF NoContracts
<1> QED
  BY <1>1, FunctionsAreBooks DEF Backed

LEMMA WithIsBacked ==
  ASSUME NEW b \in Books, NEW c \in Contract, NEW v \in Content, Backed(b),
         Scanned(v) \/ Reported(v)
  PROVE  Backed(With(b, c, v))
<1>1. v.type = "report" => v.complete
  BY DEF Scanned, Reported
<1>2. ASSUME NEW d \in DOMAIN With(b, c, v)
      PROVE  With(b, c, v)[d].type = "report" => With(b, c, v)[d].complete
  <2>1. d \in DOMAIN b \cup {c}
    BY WithOne
  <2>2. CASE d = c
    <3>1. With(b, c, v)[d] = v
      BY <2>2, WithOneIs
    <3> QED
      BY <1>1, <3>1
  <2>3. CASE d # c
    <3>1. With(b, c, v)[d] = b[d] /\ d \in DOMAIN b
      BY <2>1, <2>3 DEF With
    <3> QED
      BY <3>1 DEF Backed
  <2> QED
    BY <2>2, <2>3
<1> QED
  BY <1>2 DEF Backed

LEMMA WithoutIsBacked ==
  ASSUME NEW b \in Books, NEW c \in Contract, Backed(b)
  PROVE  Backed(Without(b, c))
BY WithoutOne DEF Backed

LEMMA WithIsFinite ==
  ASSUME NEW b \in Books, NEW c \in Contract, NEW v \in Content, IsFiniteSet(DOMAIN b)
  PROVE  IsFiniteSet(DOMAIN With(b, c, v))
<1>1. IsFiniteSet(DOMAIN b \cup {c})
  BY FS_AddElement
<1> QED
  BY <1>1, WithOne

LEMMA WithoutIsFinite ==
  ASSUME NEW b \in Books, NEW c \in Contract, IsFiniteSet(DOMAIN b)
  PROVE  IsFiniteSet(DOMAIN Without(b, c))
<1>1. IsFiniteSet(DOMAIN b \ {c})
  BY FS_RemoveElement
<1> QED
  BY <1>1, WithoutOne

-----------------------------------------------------------------------------
(* Of a finite set of contracts, one has the best score.  By minimality: take
   one such that the set of those that beat it is smallest *)
LEMMA OneIsBest ==
  ASSUME NEW S, IsFiniteSet(S), S # {}, NEW score \in [S -> Nat]
  PROVE  \E c \in S : \A d \in S : score[c] >= score[d]
<1> DEFINE Beats(c) == {d \in S : score[d] > score[c]}
           Sets == {Beats(c) : c \in S}
<1>1. Sets \subseteq FiniteSubsetsOf(S) /\ Sets # {}
  <2>1. FiniteSubsetsOf(S) = SUBSET S
    BY FS_FiniteSubsetsOfFinite
  <2>2. \A c \in S : Beats(c) \in SUBSET S /\ Beats(c) \in Sets
    OBVIOUS
  <2>3. \A T \in Sets : T \in SUBSET S
    OBVIOUS
  <2> HIDE DEF Sets
  <2> QED
    BY <2>1, <2>2, <2>3
<1>2. PICK T \in Sets : \A U \in Sets : <<U, T>> \notin StrictSubsetOrdering(S)
  <2> HIDE DEF Sets
  <2> QED
    BY <1>1, FS_StrictSubsetOrderingWellFounded, WFMin
<1>3. PICK c \in S : T = Beats(c)
  OBVIOUS
<1>4. ASSUME NEW d \in S, score[d] > score[c]
      PROVE  FALSE
  <2>1. Beats(d) \subseteq Beats(c) /\ d \in Beats(c) /\ d \notin Beats(d)
    BY <1>4
  <2>2. Beats(d) \in Sets /\ Beats(d) \in SUBSET S /\ Beats(c) \in SUBSET S
    OBVIOUS
  <2>3. <<Beats(d), Beats(c)>> \in StrictSubsetOrdering(S)
    <3> HIDE DEF Beats
    <3> QED
      BY <2>1, <2>2 DEF StrictSubsetOrdering
  <2> QED
    BY <1>2, <1>3, <2>2, <2>3
<1> QED
  BY <1>4

-----------------------------------------------------------------------------
(* The file keeps its word over one write: what it holds of c is what was said
   of c, and of the others it holds what it held *)
LEMMA InvFacts ==
  ASSUME ContractInv
  PROVE  /\ db \in Books /\ Backed(db) /\ IsFiniteSet(DOMAIN db)
         /\ \A p \in Program : book[p] \in Books /\ Backed(book[p]) /\ IsFiniteSet(DOMAIN book[p])
BY DEF ContractInv, ContractTypeOK, ReportsAreBacked, Backed

LEMMA OpenKeeps ==
  ASSUME ContractInv, NEW p \in Program, NEW fellBack \in BOOLEAN, Open(p, fellBack)
  PROVE  ContractInv'
<1> DEFINE b == IF fellBack THEN NoContracts ELSE db
<1>1. b \in Books /\ Backed(b) /\ IsFiniteSet(DOMAIN b)
  BY InvFacts, NothingIsABook, FS_EmptySet
<1>2. book' = [book EXCEPT ![p] = b]
  BY DEF Open
<1> HIDE DEF b
<1>3. \A q \in Program : book'[q] \in Books /\ Backed(book'[q]) /\ IsFiniteSet(DOMAIN book'[q])
  BY <1>1, <1>2, InvFacts DEF ContractInv, ContractTypeOK
<1>4. book' \in [Program -> Books]
  BY <1>1, <1>2 DEF ContractInv, ContractTypeOK
<1>5. ContractTypeOK'
  BY <1>4 DEF ContractInv, ContractTypeOK, Open
<1>6. ReportsAreBacked'
  BY <1>3, InvFacts DEF ReportsAreBacked, Backed, Open
<1> QED
  BY <1>3, <1>5, <1>6 DEF ContractInv, FileHoldsWord, Open

LEMMA CloseKeeps ==
  ASSUME ContractInv, NEW p \in Program, Close(p)
  PROVE  ContractInv'
<1>1. book' = [book EXCEPT ![p] = NoContracts]
  BY DEF Close
<1>2. \A q \in Program : book'[q] \in Books /\ Backed(book'[q]) /\ IsFiniteSet(DOMAIN book'[q])
  BY <1>1, InvFacts, NothingIsABook, FS_EmptySet DEF ContractInv, ContractTypeOK
<1>3. book' \in [Program -> Books]
  BY <1>1, NothingIsABook DEF ContractInv, ContractTypeOK
<1>4. ContractTypeOK'
  BY <1>3 DEF ContractInv, ContractTypeOK, Close
<1>5. ReportsAreBacked'
  BY <1>2, InvFacts DEF ReportsAreBacked, Backed, Close
<1> QED
  BY <1>2, <1>4, <1>5 DEF ContractInv, FileHoldsWord, Close

(* A write: what it does to the memory and, if it reaches it, to the file *)
LEMMA WriteKeeps ==
  ASSUME ContractInv, NEW p \in Program, NEW c \in Contract,
         NEW v \in {{}} \cup {{x} : x \in Content}, NEW new \in Books, Backed(new),
         IsFiniteSet(DOMAIN new), NEW onFile \in Books, Backed(onFile), IsFiniteSet(DOMAIN onFile),
         v = IF c \in DOMAIN onFile THEN {onFile[c]} ELSE {},
         \A d \in Contract \ {c} :
            (d \in DOMAIN onFile <=> d \in DOMAIN db) /\ (d \in DOMAIN db => onFile[d] = db[d]),
         NEW done \in BOOLEAN,
         Calls(p), book' = [book EXCEPT ![p] = new],
         db' = IF done THEN onFile ELSE db,
         word' = Believed(c, v, done),
         UNCHANGED <<tabled, opened, told>>
  PROVE  ContractInv'
<1>1. \A q \in Program : book'[q] \in Books /\ Backed(book'[q]) /\ IsFiniteSet(DOMAIN book'[q])
  BY InvFacts DEF ContractInv, ContractTypeOK
<1>2. db' \in Books /\ Backed(db') /\ IsFiniteSet(DOMAIN db')
  BY InvFacts
<1>3. ContractTypeOK'
  <2>1. calls' \in 0 .. MaxCalls
    BY ContractAssumption DEF ContractInv, ContractTypeOK, Calls
  <2>2. word' \in [Contract -> {{}} \cup {{x} : x \in Content}]
    BY DEF ContractInv, ContractTypeOK, Believed
  <2>3. book' \in [Program -> Books]
    BY DEF ContractInv, ContractTypeOK
  <2> QED
    BY <1>2, <2>1, <2>2, <2>3 DEF ContractInv, ContractTypeOK
<1>4. FileHoldsWord'
  <2>1. CASE ~done
    BY <2>1 DEF ContractInv, FileHoldsWord, Believed
  <2>2. CASE done
    <3>1. word' = [word EXCEPT ![c] = v] /\ db' = onFile
      BY <2>2 DEF Believed
    <3>2. ASSUME NEW d \in Contract
          PROVE  word'[d] = IF d \in DOMAIN db' THEN {db'[d]} ELSE {}
      <4>1. CASE d = c
        BY <3>1, <4>1 DEF ContractInv, ContractTypeOK
      <4>2. CASE d # c
        <5>1. word'[d] = word[d]
          BY <3>1, <4>2 DEF ContractInv, ContractTypeOK
        <5>2. word[d] = IF d \in DOMAIN db THEN {db[d]} ELSE {}
          BY DEF ContractInv, FileHoldsWord
        <5>3. (d \in DOMAIN onFile <=> d \in DOMAIN db) /\ (d \in DOMAIN db => onFile[d] = db[d])
          BY <4>2
        <5> QED
          BY <3>1, <5>1, <5>2, <5>3
      <4> QED
        BY <4>1, <4>2
    <3> QED
      BY <3>2 DEF FileHoldsWord
  <2> QED
    BY <2>1, <2>2
<1>5. ReportsAreBacked'
  BY <1>1, <1>2 DEF ReportsAreBacked, Backed
<1> QED
  BY <1>1, <1>2, <1>3, <1>4, <1>5 DEF ContractInv

LEMMA RegisterContractKeeps ==
  ASSUME ContractInv, NEW p \in Program, NEW c \in Contract, NEW v \in Content,
         RegisterContract(p, c, v)
  PROVE  ContractInv'
<1>1. PICK done \in BOOLEAN : db' = (IF done THEN With(db, c, v) ELSE db) /\ word' = Believed(c, {v}, done)
  BY DEF RegisterContract, MayReach
<1>2. book[p] \in Books /\ Backed(book[p]) /\ IsFiniteSet(DOMAIN book[p])
  BY InvFacts
<1>3. db \in Books /\ Backed(db) /\ IsFiniteSet(DOMAIN db)
  BY InvFacts
<1>4. Scanned(v) \/ Reported(v)
  BY DEF RegisterContract
<1>5. /\ With(book[p], c, v) \in Books /\ Backed(With(book[p], c, v))
      /\ IsFiniteSet(DOMAIN With(book[p], c, v))
  BY <1>2, <1>4, WithOne, WithIsBacked, WithIsFinite
<1>6. With(db, c, v) \in Books /\ Backed(With(db, c, v)) /\ IsFiniteSet(DOMAIN With(db, c, v))
  BY <1>3, <1>4, WithOne, WithIsBacked, WithIsFinite
<1>7. {v} = IF c \in DOMAIN With(db, c, v) THEN {With(db, c, v)[c]} ELSE {}
  BY <1>3, WithOneIs
<1>8. \A d \in Contract \ {c} :
        /\ d \in DOMAIN With(db, c, v) <=> d \in DOMAIN db
        /\ d \in DOMAIN db => With(db, c, v)[d] = db[d]
  BY <1>3, WithOneIs
<1>9. /\ Calls(p) /\ book' = [book EXCEPT ![p] = With(book[p], c, v)]
      /\ UNCHANGED <<tabled, opened, told>>
  BY DEF RegisterContract
<1>10. {v} \in {{}} \cup {{x} : x \in Content}
  OBVIOUS
<1> QED
  BY <1>1, <1>5, <1>6, <1>7, <1>8, <1>9, <1>10, WriteKeeps

LEMMA RemoveContractKeeps ==
  ASSUME ContractInv, NEW p \in Program, NEW c \in Contract, RemoveContract(p, c)
  PROVE  ContractInv'
<1>1. PICK done \in BOOLEAN : db' = (IF done THEN Without(db, c) ELSE db) /\ word' = Believed(c, {}, done)
  BY DEF RemoveContract, MayReach
<1>2. book[p] \in Books /\ Backed(book[p]) /\ IsFiniteSet(DOMAIN book[p])
  BY InvFacts
<1>3. db \in Books /\ Backed(db) /\ IsFiniteSet(DOMAIN db)
  BY InvFacts
<1>4. /\ Without(book[p], c) \in Books /\ Backed(Without(book[p], c))
      /\ IsFiniteSet(DOMAIN Without(book[p], c))
  BY <1>2, WithoutOne, WithoutIsBacked, WithoutIsFinite
<1>5. /\ Without(db, c) \in Books /\ Backed(Without(db, c))
      /\ IsFiniteSet(DOMAIN Without(db, c))
  BY <1>3, WithoutOne, WithoutIsBacked, WithoutIsFinite
<1>6. {} = IF c \in DOMAIN Without(db, c) THEN {Without(db, c)[c]} ELSE {}
  BY <1>3, WithoutOne
<1>7. \A d \in Contract \ {c} :
        /\ d \in DOMAIN Without(db, c) <=> d \in DOMAIN db
        /\ d \in DOMAIN db => Without(db, c)[d] = db[d]
  BY <1>3, WithoutOne
<1>8. /\ Calls(p) /\ book' = [book EXCEPT ![p] = Without(book[p], c)]
      /\ UNCHANGED <<tabled, opened, told>>
  BY DEF RemoveContract
<1>9. {} \in {{}} \cup {{x} : x \in Content}
  OBVIOUS
<1> QED
  BY <1>1, <1>4, <1>5, <1>6, <1>7, <1>8, <1>9, WriteKeeps

(* Binding and enforcing change nothing but what is told *)
LEMMA BindKeeps ==
  ASSUME ContractInv, NEW p \in Program, NEW q \in Intent, Bind(p, q)
  PROVE  ContractInv'
<1>1. PICK a \in Contract \cup {Refused} : told' = [told EXCEPT ![p] = a]
  <2>1. PICK C \in SUBSET DOMAIN book[p] :
          \/ \E c \in FirstPassing(p, C, q) : told' = [told EXCEPT ![p] = c]
          \/ told' = [told EXCEPT ![p] = Refused]
    BY DEF Bind
  <2>2. FirstPassing(p, C, q) \subseteq Contract
    BY InvFacts, BooksAreFunctions DEF FirstPassing, Passing
  <2> QED
    BY <2>1, <2>2
<1>2. ContractTypeOK'
  BY <1>1 DEF ContractInv, ContractTypeOK, Bind
<1> QED
  BY <1>2 DEF ContractInv, FileHoldsWord, ReportsAreBacked, Bind

LEMMA EnforceKeeps ==
  ASSUME ContractInv, NEW p \in Program, NEW c \in Contract, NEW q \in Intent, Enforce(p, c, q)
  PROVE  ContractInv'
<1>1. ContractTypeOK'
  BY DEF ContractInv, ContractTypeOK, Enforce
<1> QED
  BY <1>1 DEF ContractInv, FileHoldsWord, ReportsAreBacked, Enforce

LEMMA ContractNextKeeps ==
  ASSUME ContractInv, [ContractNext]_contractVars
  PROVE  ContractInv'
<1>1. CASE UNCHANGED contractVars
  BY <1>1 DEF contractVars, ContractInv, ContractTypeOK, FileHoldsWord, ReportsAreBacked
<1> QED
  BY <1>1, OpenKeeps, CloseKeeps, BindKeeps, EnforceKeeps, RemoveContractKeeps,
     RegisterContractKeeps DEF ContractNext

-----------------------------------------------------------------------------
(* What passes the gate has an embedding, and its score is its similarity *)
LEMMA PassingScore ==
  ASSUME ContractInv, NEW p \in Program, NEW q \in Intent, NEW c \in Passing(p, DOMAIN book[p], q)
  PROVE  /\ c \in DOMAIN book[p] /\ c \in Contract
         /\ Score(p, c) = Similar[c] /\ Score(p, c) >= Threshold /\ c \in Agrees[q]
<1>1. c \in DOMAIN book[p] /\ MayBind(p, c, q)
  BY DEF Passing
<1>2. c \in Contract
  BY <1>1, InvFacts, BooksAreFunctions
<1>3. Threshold \in Nat \ {0}
  BY ContractAssumption
<1>4. Score(p, c) >= Threshold /\ c \in Agrees[q]
  BY <1>1 DEF MayBind
<1>5. Score(p, c) = Similar[c] \/ Score(p, c) = 0
  BY DEF Score
<1> QED
  BY <1>1, <1>2, <1>3, <1>4, <1>5

(* Scores are numbers *)
LEMMA ScoreIsNat ==
  ASSUME ContractInv, NEW p \in Program, NEW c \in DOMAIN book[p]
  PROVE  Score(p, c) \in Nat
BY InvFacts, BooksAreFunctions, ContractAssumption DEF Score

(* If something of what a search returned passes, something passes first *)
LEMMA OnePassesFirst ==
  ASSUME ContractInv, NEW p \in Program, NEW q \in Intent, NEW C \in SUBSET DOMAIN book[p],
         Passing(p, C, q) # {}
  PROVE  FirstPassing(p, C, q) # {}
<1> DEFINE S == Passing(p, C, q)
           score == [c \in S |-> Score(p, c)]
<1>1. IsFiniteSet(S)
  <2>1. S \in SUBSET DOMAIN book[p]
    BY DEF Passing
  <2> QED
    BY <2>1, InvFacts, FS_Subset
<1>2. score \in [S -> Nat]
  BY ScoreIsNat DEF Passing
<1>3. \A c \in S : score[c] = Score(p, c)
  OBVIOUS
<1> HIDE DEF S, score
<1>4. PICK c \in S : \A d \in S : score[c] >= score[d]
  BY <1>1, <1>2, OneIsBest DEF S
<1>5. \A d \in S : Score(p, c) >= Score(p, d)
  BY <1>3, <1>4
<1> QED
  BY <1>4, <1>5 DEF FirstPassing, S

(* One bind is to the best, or others that do not suit and are no less similar filled
   the search *)
LEMMA OneBindIsBest ==
  ASSUME ContractInv, NEW p \in Program, NEW q \in Intent, Bind(p, q)
  PROVE  LET pass == Passing(p, DOMAIN book[p], q)
         IN  \/ told'[p] \in pass /\ \A c \in pass : Similar[told'[p]] >= Similar[c]
             \/ /\ told'[p] = Refused
                /\ \A c \in pass : Cardinality({d \in DOMAIN book[p] \ Agrees[q] :
                                                  Score(p, d) >= Score(p, c)}) >= Candidates
<1> DEFINE pass == Passing(p, DOMAIN book[p], q)
<1>1. PICK C \in SUBSET DOMAIN book[p] :
        /\ Returned(p, C)
        /\ \/ \E c \in FirstPassing(p, C, q) : told' = [told EXCEPT ![p] = c]
           \/ FirstPassing(p, C, q) = {} /\ told' = [told EXCEPT ![p] = Refused]
  BY DEF Bind
<1>2. ASSUME NEW c \in FirstPassing(p, C, q), told' = [told EXCEPT ![p] = c]
      PROVE  told'[p] \in pass /\ \A d \in pass : Similar[told'[p]] >= Similar[d]
  <2>1. told'[p] = c
    BY <1>2 DEF ContractInv, ContractTypeOK
  <2>2. c \in C /\ c \in pass
    BY DEF FirstPassing, Passing
  <2>3. ASSUME NEW d \in pass
        PROVE  Score(p, c) >= Score(p, d)
    <3>1. CASE d \in C
      <4>1. d \in Passing(p, C, q)
        BY <3>1 DEF Passing
      <4> QED
        BY <4>1 DEF FirstPassing
    <3>2. CASE d \notin C
      <4>1. d \in DOMAIN book[p]
        BY DEF Passing
      <4> QED
        BY <1>1, <2>2, <3>2, <4>1 DEF Returned
    <3> QED
      BY <3>1, <3>2
  <2>4. \A d \in pass : Score(p, d) = Similar[d]
    BY PassingScore
  <2> HIDE DEF pass
  <2> QED
    BY <2>1, <2>2, <2>3, <2>4
<1>3. ASSUME FirstPassing(p, C, q) = {}, NEW c \in pass
      PROVE  Cardinality({d \in DOMAIN book[p] \ Agrees[q] : Score(p, d) >= Score(p, c)}) >= Candidates
  <2> DEFINE full == {d \in DOMAIN book[p] \ Agrees[q] : Score(p, d) >= Score(p, c)}
  <2>1. Passing(p, C, q) = {}
    BY <1>3, OnePassesFirst
  <2>2. c \in DOMAIN book[p] \ C
    BY <2>1 DEF Passing
  <2>3. Cardinality(C) = Candidates
    BY <1>1, <2>2 DEF Returned, ReturnedFirst
  <2>4. ASSUME NEW d \in C
        PROVE  d \in full
    <3>1. Score(p, d) >= Score(p, c)
      BY <1>1, <2>2 DEF Returned
    <3>2. Score(p, c) = Similar[c] /\ Score(p, c) >= Threshold /\ c \in Contract
      BY PassingScore
    <3>3. Score(p, d) \in Nat /\ Score(p, c) \in Nat /\ d \in Contract
      BY ScoreIsNat, <2>2, InvFacts, BooksAreFunctions
    <3>4. Threshold \in Nat \ {0}
      BY ContractAssumption
    <3>5. Score(p, d) >= Threshold
      BY <3>1, <3>2, <3>3, <3>4
    <3>6. d \notin Agrees[q]
      <4>1. ~MayBind(p, d, q)
        BY <2>1 DEF Passing
      <4> QED
        BY <3>5, <4>1 DEF MayBind
    <3> QED
      BY <3>1, <3>6
  <2>5. IsFiniteSet(full)
    <3>1. full \in SUBSET DOMAIN book[p]
      OBVIOUS
    <3> QED
      BY <3>1, InvFacts, FS_Subset
  <2> HIDE DEF full
  <2>6. Cardinality(C) <= Cardinality(full)
    BY <2>4, <2>5, FS_Subset
  <2>7. Cardinality(C) \in Nat /\ Cardinality(full) \in Nat
    BY <2>4, <2>5, FS_Subset, FS_CardinalityType
  <2> QED
    BY <2>3, <2>6, <2>7 DEF full
<1>4. CASE FirstPassing(p, C, q) = {} /\ told' = [told EXCEPT ![p] = Refused]
  BY <1>3, <1>4 DEF ContractInv, ContractTypeOK
<1> QED
  BY <1>1, <1>2, <1>4

-----------------------------------------------------------------------------
LEMMA ContractStart == ContractInit => ContractInv
<1> SUFFICES ASSUME ContractInit PROVE ContractInv
  OBVIOUS
<1>1. ContractTypeOK
  <2>1. book \in [Program -> Books] /\ db \in Books
    BY NothingIsABook DEF ContractInit
  <2>2. calls \in 0 .. MaxCalls
    <3>1. MaxCalls \in Nat
      BY ContractAssumption
    <3> QED
      BY <3>1 DEF ContractInit
  <2>3. told \in [Program -> Contract \cup {NoAnswer, Refused, NotFound}]
    BY DEF ContractInit
  <2>4. word \in [Contract -> {{}} \cup {{v} : v \in Content}]
    BY DEF ContractInit
  <2> QED
    BY <2>1, <2>2, <2>3, <2>4 DEF ContractInit, ContractTypeOK
<1>2. FileHoldsWord
  BY NothingIsABook DEF ContractInit, FileHoldsWord
<1>3. ReportsAreBacked
  BY NothingIsABook DEF ContractInit, ReportsAreBacked, Backed
<1>4. (\A p \in Program : IsFiniteSet(DOMAIN book[p])) /\ IsFiniteSet(DOMAIN db)
  BY NothingIsABook, FS_EmptySet DEF ContractInit
<1> QED
  BY <1>1, <1>2, <1>3, <1>4 DEF ContractInv

(* The invariant of the contract registry (gaag/): types, the file's word,
   backed reports, and finitely many contracts anywhere *)
THEOREM ContractInvariant == ContractSpec => []ContractInv
<1>1. ContractInv /\ [ContractNext]_contractVars => ContractInv'
  BY ContractNextKeeps
<1> QED
  BY <1>1, ContractStart, PTL DEF ContractSpec

(* No step forgets a contract, reports one that is not there, or binds a worse one *)
LEMMA ContractStepIsSound ==
  ContractInv /\ [ContractNext]_contractVars
  => [FileHoldsWord' /\ ReportsAreBacked' /\ BindIsBest]_contractVars
<1> SUFFICES ASSUME ContractInv, [ContractNext]_contractVars
             PROVE  FileHoldsWord' /\ ReportsAreBacked' /\ BindIsBest
  OBVIOUS
<1>1. FileHoldsWord' /\ ReportsAreBacked'
  BY ContractNextKeeps DEF ContractInv
<1>2. BindIsBest
  BY OneBindIsBest DEF BindIsBest
<1> QED
  BY <1>1, <1>2

(* Nothing confirmed is lost, nothing removed comes back, no report lacks its
   sources, and the gate binds to the best or for a reason does not (gaag/
   registry and gate): for any programs, contracts, similarities, equal ones
   among them, and bounds *)
THEOREM ContractsKept == ContractSpec => ContractsAreKept
<1>1. ContractInv /\ [ContractNext]_contractVars
      => [FileHoldsWord' /\ ReportsAreBacked' /\ BindIsBest]_contractVars
  BY ContractStepIsSound
<1>2. ContractSpec => [][ContractNext]_contractVars
  BY PTL DEF ContractSpec
<1> QED
  BY <1>1, <1>2, ContractInvariant, PTL DEF ContractsAreKept

-----------------------------------------------------------------------------
(* A card at the submitter's claims no extent where there is none; nor does any entry *)
Honest(c) == c.spatial => trip.extent # "none"

OnboardInv ==
  /\ OnboardTypeOK
  /\ entries = [i \in DOMAIN entries |-> entries[i]]
  /\ trip.road = "web" => trip.extent # "none"
  /\ Honest(desk.card)
  /\ CardsAreHonest /\ PublicIsReviewed /\ ConfirmedIsThere

(* What a step may do to the entries that are there *)
EntriesStay == \A i \in DOMAIN entries : i \in DOMAIN entries' /\ entries'[i] = entries[i]

-----------------------------------------------------------------------------
(* The kind a probe finds is one of the kinds *)
LEMMA KindIsKind ==
  ASSUME NEW answered
  PROVE  KindOf(answered) \in Ids /\ Found(answered) \in Ids
<1> DEFINE First(i) == /\ Order[i] \in answered \cup {"unknown"}
                       /\ \A j \in 1 .. i - 1 : Order[j] \notin answered
<1>1. DOMAIN Order = 1 .. 5
  BY DEF Order
<1>2. /\ 1 \in 1 .. 5 /\ 2 \in 1 .. 5 /\ 3 \in 1 .. 5 /\ 4 \in 1 .. 5 /\ 5 \in 1 .. 5
      /\ Order[5] = "unknown"
  BY DEF Order
<1>3. \E i \in 1 .. 5 : First(i)
  <2>1. CASE Order[1] \in answered
    <3>1. First(1)
      BY <2>1
    <3> QED
      BY <1>2, <3>1
  <2>2. CASE Order[1] \notin answered /\ Order[2] \in answered
    <3>1. First(2)
      BY <2>2
    <3> QED
      BY <1>2, <3>1
  <2>3. CASE Order[1] \notin answered /\ Order[2] \notin answered /\ Order[3] \in answered
    <3>1. First(3)
      BY <2>3
    <3> QED
      BY <1>2, <3>1
  <2>4. CASE /\ Order[1] \notin answered /\ Order[2] \notin answered /\ Order[3] \notin answered
             /\ Order[4] \in answered
    <3>1. First(4)
      BY <2>4
    <3> QED
      BY <1>2, <3>1
  <2>5. CASE /\ Order[1] \notin answered /\ Order[2] \notin answered /\ Order[3] \notin answered
             /\ Order[4] \notin answered
    <3>1. First(5)
      BY <2>5, <1>2
    <3> QED
      BY <1>2, <3>1
  <2> QED
    BY <2>1, <2>2, <2>3, <2>4, <2>5
<1>4. KindOf(answered) = Order[CHOOSE i \in DOMAIN Order : First(i)]
  BY DEF KindOf
<1> HIDE DEF First
<1>5. (CHOOSE i \in DOMAIN Order : First(i)) \in DOMAIN Order
  BY <1>1, <1>3
<1> QED
  BY <1>4, <1>5 DEF Found, Ids, KindIds

-----------------------------------------------------------------------------
(* A card with another field *)
LEMMA CardWith ==
  ASSUME NEW r \in CardOf
  PROVE  /\ \A s \in BOOLEAN : [r EXCEPT !.spatial = s] \in CardOf
         /\ \A s \in {"nothing", "some", "all"} :
              [r EXCEPT !.stated = s] \in CardOf /\ [r EXCEPT !.stated = s].spatial = r.spatial
         /\ \A s \in {"given", "derived"} :
              [r EXCEPT !.title = s] \in CardOf /\ [r EXCEPT !.title = s].spatial = r.spatial
<1>1. \A s \in BOOLEAN : [r EXCEPT !.spatial = s] \in CardOf
  BY DEF CardOf
<1>2. \A s \in {"nothing", "some", "all"} : [r EXCEPT !.stated = s] \in CardOf
  BY DEF CardOf
<1>3. \A s \in {"given", "derived"} : [r EXCEPT !.title = s] \in CardOf
  BY DEF CardOf
<1>4. \A s : [r EXCEPT !.stated = s].spatial = r.spatial
  BY DEF CardOf
<1>5. \A s : [r EXCEPT !.title = s].spatial = r.spatial
  BY DEF CardOf
<1> QED
  BY <1>1, <1>2, <1>3, <1>4, <1>5

LEMMA BlankIsCard == Blank \in CardOf
BY DEF Blank, CardOf

(* A step that leaves the entries, the reviews and the answer as they are, and
   the desk with an honest card *)
LEMMA DeskKeeps ==
  ASSUME OnboardInv, UNCHANGED <<trip, entries, answer, viewed, posts, ruled>>,
         desk' \in [stage : {"new", "card"}, id : Ids, card : CardOf, node : BOOLEAN],
         desk'.card.spatial => trip.extent # "none",
         session' \in {"none", "valid", "expired"}
  PROVE  OnboardInv' /\ ResubmissionIsHarmless
<1>1. OnboardTypeOK'
  BY DEF OnboardInv, OnboardTypeOK
<1>2. CardsAreHonest' /\ PublicIsReviewed' /\ ConfirmedIsThere'
  BY DEF OnboardInv, CardsAreHonest, PublicIsReviewed, ConfirmedIsThere
<1>3. ResubmissionIsHarmless
  BY DEF ResubmissionIsHarmless
<1> QED
  BY <1>1, <1>2, <1>3 DEF OnboardInv, Honest

LEMMA WizardKeeps ==
  ASSUME OnboardInv, Wizard
  PROVE  OnboardInv' /\ ResubmissionIsHarmless
<1>0. PICK answered \in SUBSET Offers, stated \in {"nothing", "some"} :
        \E spatial \in Extents(Found(answered)) :
          desk' = [stage |-> "card", id |-> Found(answered), node |-> TRUE,
                   card |-> [Blank EXCEPT !.spatial = spatial, !.stated = stated]]
  BY DEF Wizard
<1>1. PICK spatial \in Extents(Found(answered)) :
        desk' = [stage |-> "card", id |-> Found(answered), node |-> TRUE,
                 card |-> [Blank EXCEPT !.spatial = spatial, !.stated = stated]]
  BY <1>0
<1>2. spatial \in BOOLEAN /\ (spatial => trip.extent # "none")
  BY DEF Extents
<1>3. [Blank EXCEPT !.spatial = spatial] \in CardOf
  BY <1>2, BlankIsCard, CardWith
<1>4. [Blank EXCEPT !.spatial = spatial].spatial = spatial
  BY BlankIsCard DEF CardOf
<1>5. /\ [Blank EXCEPT !.spatial = spatial, !.stated = stated] \in CardOf
      /\ [Blank EXCEPT !.spatial = spatial, !.stated = stated].spatial = spatial
  <2> DEFINE r == [Blank EXCEPT !.spatial = spatial]
  <2>1. [Blank EXCEPT !.spatial = spatial, !.stated = stated] = [r EXCEPT !.stated = stated]
    OBVIOUS
  <2>2. r \in CardOf /\ r.spatial = spatial
    BY <1>3, <1>4
  <2> HIDE DEF r
  <2>3. [r EXCEPT !.stated = stated] \in CardOf /\ [r EXCEPT !.stated = stated].spatial = r.spatial
    BY <2>2, CardWith
  <2> QED
    BY <2>1, <2>2, <2>3
<1>6. desk' \in [stage : {"new", "card"}, id : Ids, card : CardOf, node : BOOLEAN]
  BY <1>1, <1>5, KindIsKind
<1>8. desk'.card.spatial = spatial
  BY <1>1, <1>5
<1>7. desk'.card.spatial => trip.extent # "none"
  BY <1>2, <1>8
<1> QED
  BY <1>6, <1>7, DeskKeeps DEF Wizard, OnboardInv, OnboardTypeOK

LEMMA MakeDraftKeeps ==
  ASSUME OnboardInv, MakeDraft
  PROVE  OnboardInv' /\ ResubmissionIsHarmless
<1>1. PICK c \in CardOf :
        /\ c.spatial => trip.extent # "none"
        /\ desk' = [stage |-> "card", id |-> "draft", card |-> c, node |-> FALSE]
  BY DEF MakeDraft
<1>2. desk' \in [stage : {"new", "card"}, id : Ids, card : CardOf, node : BOOLEAN]
  BY <1>1 DEF Ids
<1>3. desk'.card = c
  BY <1>1
<1> QED
  BY <1>1, <1>2, <1>3, DeskKeeps DEF MakeDraft, OnboardInv, OnboardTypeOK

LEMMA CompleteKeeps ==
  ASSUME OnboardInv, Complete
  PROVE  OnboardInv' /\ ResubmissionIsHarmless
<1>1. desk \in [stage : {"new", "card"}, id : Ids, card : CardOf, node : BOOLEAN]
  BY DEF OnboardInv, OnboardTypeOK
<1>2. desk' = [stage |-> desk.stage, id |-> desk.id, card |-> [desk.card EXCEPT !.stated = "all"],
               node |-> TRUE]
  BY <1>1 DEF Complete
<1>3. desk.card \in CardOf
  BY <1>1
<1>4. [desk.card EXCEPT !.stated = "all"] \in CardOf
  BY <1>3 DEF CardOf
<1>5. [desk.card EXCEPT !.stated = "all"].spatial = desk.card.spatial
  BY <1>3 DEF CardOf
<1>6. desk' \in [stage : {"new", "card"}, id : Ids, card : CardOf, node : BOOLEAN]
  BY <1>1, <1>2, <1>4
<1>7. desk'.card.spatial = desk.card.spatial
  BY <1>2, <1>5
<1>8. desk'.card.spatial => trip.extent # "none"
  BY <1>7 DEF OnboardInv, Honest
<1> QED
  BY <1>6, <1>8, DeskKeeps DEF Complete, OnboardInv, OnboardTypeOK

LEMMA SessionKeeps ==
  ASSUME OnboardInv, Login \/ ExpireToken
  PROVE  OnboardInv' /\ ResubmissionIsHarmless
<1>1. desk' = desk /\ session' \in {"none", "valid", "expired"}
  BY DEF Login, ExpireToken
<1>2. desk' \in [stage : {"new", "card"}, id : Ids, card : CardOf, node : BOOLEAN]
  BY <1>1 DEF OnboardInv, OnboardTypeOK
<1>3. desk'.card.spatial => trip.extent # "none"
  BY <1>1 DEF OnboardInv, Honest
<1> QED
  BY <1>1, <1>2, <1>3, DeskKeeps DEF Login, ExpireToken

LEMMA DerivedIsCard ==
  /\ Derived \in CardOf
  /\ \A t \in {"given", "derived"} :
       [Derived EXCEPT !.title = t] \in CardOf
<1>1. Derived \in CardOf
  BY BlankIsCard, CardWith DEF Derived
<1> QED
  BY <1>1, CardWith

LEMMA UploadKeeps ==
  ASSUME OnboardInv, Upload
  PROVE  OnboardInv' /\ ResubmissionIsHarmless
<1>1. PICK t \in {"given", "derived"} :
        desk' = [stage |-> "card", id |-> "upload", card |-> [Derived EXCEPT !.title = t],
                 node |-> TRUE]
  BY DEF Upload
<1>2. desk' \in [stage : {"new", "card"}, id : Ids, card : CardOf, node : BOOLEAN]
  BY <1>1, DerivedIsCard DEF Ids
<1>3. trip.extent # "none"
  BY DEF Upload, OnboardInv
<1> QED
  BY <1>2, <1>3, DeskKeeps DEF Upload, OnboardInv, OnboardTypeOK

-----------------------------------------------------------------------------
LEMMA PostsCount ==
  ASSUME OnboardInv, posts < MaxPosts, posts' = posts + 1
  PROVE  posts' \in 0 .. MaxPosts
<1>1. posts \in 0 .. MaxPosts
  BY DEF OnboardInv, OnboardTypeOK
<1>2. MaxPosts \in Nat
  BY OnboardingAssumption
<1> QED
  BY <1>1, <1>2

(* A submission adds an entry or changes nothing *)
LEMMA PostKeeps ==
  ASSUME OnboardInv, NEW id \in Ids, NEW c \in CardOf, NEW node \in BOOLEAN,
         NEW status \in {"pending", "approved"}, c.spatial => trip.extent # "none",
         Post(id, c, node, status)
  PROVE  OnboardInv' /\ ResubmissionIsHarmless
<1>1. UNCHANGED <<trip, desk, session, viewed, ruled>>
  BY DEF Post
<1>2. CASE Ruling(id, c, node) # "created"
  <2>1. entries' = entries
    BY <1>2 DEF Post
  <2>2. Ruling(id, c, node) = "conflict" => id \in DOMAIN entries
    BY DEF Ruling
  <2>3. Ruling(id, c, node) \in {"refused", "invalid", "conflict"}
    BY <1>2 DEF Ruling
  <2>4. answer' \in {"refused", "invalid", "conflict", "lost"} /\ (answer' = "conflict" => id \in DOMAIN entries)
    BY <2>2, <2>3 DEF Post
  <2>5. posts' \in 0 .. MaxPosts
    BY PostsCount DEF Post
  <2>6. OnboardTypeOK'
    BY <1>1, <2>1, <2>4, <2>5 DEF OnboardInv, OnboardTypeOK
  <2>7. CardsAreHonest' /\ PublicIsReviewed' /\ ConfirmedIsThere'
    BY <1>1, <2>1, <2>4 DEF OnboardInv, CardsAreHonest, PublicIsReviewed, ConfirmedIsThere
  <2>8. ResubmissionIsHarmless
    BY <2>1 DEF ResubmissionIsHarmless
  <2> QED
    BY <1>1, <2>1, <2>6, <2>7, <2>8 DEF OnboardInv, Honest
<1>3. CASE Ruling(id, c, node) = "created"
  <2> DEFINE e == [card |-> c, status |-> StatusFor(status)]
  <2>1. entries' = [i \in DOMAIN entries \cup {id} |-> IF i = id THEN e ELSE entries[i]]
    BY <1>3 DEF Post
  <2>2. id \notin DOMAIN entries /\ (trip.profile = "public" => ProfileOK(c))
    BY <1>3 DEF Ruling
  <2>3. e \in CardEntry /\ e.card = c /\ e.status = StatusFor(status)
    BY DEF CardEntry, Status, StatusFor
  <2> HIDE DEF e
  <2>4. /\ DOMAIN entries' = DOMAIN entries \cup {id} /\ entries'[id] = e
        /\ \A i \in DOMAIN entries : entries'[i] = entries[i]
        /\ entries' = [i \in DOMAIN entries' |-> entries'[i]]
    BY <2>1, <2>2
  <2>5. posts' \in 0 .. MaxPosts
    BY PostsCount DEF Post
  <2>6. answer' \in {"created", "lost"}
    BY <1>3 DEF Post
  <2>7. OnboardTypeOK'
    <3>1. \A i \in DOMAIN entries' : i \in Ids /\ entries'[i] \in CardEntry
      BY <2>3, <2>4 DEF OnboardInv, OnboardTypeOK
    <3> QED
      BY <1>1, <2>5, <2>6, <3>1 DEF OnboardInv, OnboardTypeOK
  <2>8. CardsAreHonest'
    <3>1. \A i \in DOMAIN entries' : entries'[i].card.spatial => trip.extent # "none"
      <4> SUFFICES ASSUME NEW i \in DOMAIN entries' PROVE entries'[i].card.spatial => trip.extent # "none"
        OBVIOUS
      <4>1. CASE i = id
        <5>1. entries'[i].card = c
          BY <2>3, <2>4, <4>1
        <5> QED
          BY <5>1
      <4>2. CASE i # id
        <5>1. entries'[i] = entries[i] /\ i \in DOMAIN entries
          BY <2>4, <4>2
        <5> QED
          BY <5>1 DEF OnboardInv, CardsAreHonest
      <4> QED
        BY <4>1, <4>2
    <3> QED
      BY <1>1, <3>1 DEF CardsAreHonest
  <2>9. PublicIsReviewed'
    <3>1. ASSUME trip.profile = "public", NEW i \in DOMAIN entries'
          PROVE  /\ ProfileOK(entries'[i].card)
                 /\ entries'[i].status = "approved" => <<i, entries'[i].card>> \in ruled
      <4>1. CASE i = id
        <5>1. entries'[i].card = c /\ entries'[i].status = "pending"
          BY <2>3, <2>4, <3>1, <4>1 DEF StatusFor
        <5> QED
          BY <2>2, <3>1, <5>1
      <4>2. CASE i # id
        <5>1. entries'[i] = entries[i] /\ i \in DOMAIN entries
          BY <2>4, <4>2
        <5> QED
          BY <3>1, <5>1 DEF OnboardInv, PublicIsReviewed
      <4> QED
        BY <4>1, <4>2
    <3> QED
      BY <1>1, <3>1 DEF PublicIsReviewed, ProfileOK
  <2>10. ConfirmedIsThere'
    BY <2>4 DEF ConfirmedIsThere
  <2>11. ResubmissionIsHarmless
    BY <2>4 DEF ResubmissionIsHarmless
  <2> QED
    BY <1>1, <2>4, <2>7, <2>8, <2>9, <2>10, <2>11 DEF OnboardInv, Honest
<1> QED
  BY <1>2, <1>3

(* A step that only changes what the submitter was told, and that to bad news *)
LEMMA TurnedDownKeeps ==
  ASSUME OnboardInv, answer' \in {"invalid", "no draft"},
         UNCHANGED <<trip, desk, session, entries, viewed, posts, ruled>>
  PROVE  OnboardInv' /\ ResubmissionIsHarmless
<1>1. OnboardTypeOK'
  BY DEF OnboardInv, OnboardTypeOK
<1>2. CardsAreHonest' /\ PublicIsReviewed' /\ ConfirmedIsThere'
  BY DEF OnboardInv, CardsAreHonest, PublicIsReviewed, ConfirmedIsThere
<1>3. ResubmissionIsHarmless
  BY DEF ResubmissionIsHarmless
<1> QED
  BY <1>1, <1>2, <1>3 DEF OnboardInv, Honest

LEMMA DeskFacts ==
  ASSUME OnboardInv
  PROVE  /\ desk.id \in Ids /\ desk.card \in CardOf /\ desk.node \in BOOLEAN
         /\ desk.card.spatial => trip.extent # "none"
<1>1. desk \in [stage : {"new", "card"}, id : Ids, card : CardOf, node : BOOLEAN]
  BY DEF OnboardInv, OnboardTypeOK
<1>2. desk.card.spatial => trip.extent # "none"
  BY DEF OnboardInv, Honest
<1> QED
  BY <1>1, <1>2

LEMMA SubmitKeeps ==
  ASSUME OnboardInv, SubmitWizard \/ SubmitDirectly \/ SubmitDraft \/ SubmitUpload
  PROVE  OnboardInv' /\ ResubmissionIsHarmless
<1>1. CASE SubmitWizard \/ SubmitDirectly
  <2>1. PICK status \in {"pending", "approved"} : Post(desk.id, desk.card, desk.node, status)
    BY <1>1 DEF SubmitWizard, SubmitDirectly
  <2> QED
    BY <2>1, DeskFacts, PostKeeps
<1>2. CASE SubmitDraft
  <2>1. CASE ProfileOK(desk.card) /\ desk.node
    <3>1. Post(desk.id, desk.card, TRUE, "pending")
      BY <1>2, <2>1 DEF SubmitDraft
    <3> QED
      BY <3>1, DeskFacts, PostKeeps
  <2>2. CASE ~(ProfileOK(desk.card) /\ desk.node)
    BY <1>2, <2>2, TurnedDownKeeps DEF SubmitDraft
  <2> QED
    BY <2>1, <2>2
<1>3. CASE SubmitUpload
  <2>1. CASE trip.suffix = ".cog"
    BY <1>3, <2>1, TurnedDownKeeps DEF SubmitUpload
  <2>2. CASE trip.suffix # ".cog"
    <3>1. Post(desk.id, Derived, TRUE, "pending")
      BY <1>3, <2>2 DEF SubmitUpload
    <3>2. trip.extent # "none"
      BY <1>3 DEF SubmitUpload, OnboardInv
    <3> QED
      BY <3>1, <3>2, DeskFacts, DerivedIsCard, PostKeeps
  <2> QED
    BY <2>1, <2>2
<1> QED
  BY <1>1, <1>2, <1>3

-----------------------------------------------------------------------------
(* A review changes the status of one entry, and keeps its card in mind *)
LEMMA RuleKeeps ==
  ASSUME OnboardInv, NEW i \in Ids, NEW status \in {"approved", "rejected"}, Rule(i, status)
  PROVE  OnboardInv' /\ ResubmissionIsHarmless
<1>1. i \in DOMAIN entries /\ viewed # {} /\ viewed' = {}
  BY DEF Rule
<1>2. entries[i] \in CardEntry
  BY <1>1 DEF OnboardInv, OnboardTypeOK
<1> DEFINE e == [entries[i] EXCEPT !.status = status]
<1>3. e \in CardEntry /\ e.card = entries[i].card /\ e.status = status
  BY <1>2 DEF CardEntry, Status
<1>4. entries' = [entries EXCEPT ![i] = e]
  BY DEF Rule
<1> HIDE DEF e
<1>5. /\ DOMAIN entries' = DOMAIN entries /\ entries'[i] = e
      /\ \A j \in DOMAIN entries : j # i => entries'[j] = entries[j]
      /\ entries' = [j \in DOMAIN entries' |-> entries'[j]]
  BY <1>1, <1>4
<1>6. \A j \in DOMAIN entries : entries'[j].card = entries[j].card
  BY <1>3, <1>5
<1>7. OnboardTypeOK'
  <2>1. \A j \in DOMAIN entries' : j \in Ids /\ entries'[j] \in CardEntry
    BY <1>3, <1>5 DEF OnboardInv, OnboardTypeOK
  <2>2. \A r \in ruled' : r[1] \in Ids /\ r[2] \in CardOf
    <3>1. entries[i].card \in CardOf
      BY <1>2 DEF CardEntry
    <3>2. ASSUME NEW r \in ruled'
          PROVE  r[1] \in Ids /\ r[2] \in CardOf
      <4>1. r \in ruled \/ r = <<i, entries[i].card>>
        BY <3>2 DEF Rule
      <4>2. \A x \in ruled : x[1] \in Ids /\ x[2] \in CardOf
        BY DEF OnboardInv, OnboardTypeOK
      <4> QED
        BY <3>1, <4>1, <4>2
    <3> QED
      BY <3>2
  <2>3. posts' \in 0 .. MaxPosts
    BY PostsCount DEF Rule
  <2> QED
    BY <1>1, <2>1, <2>2, <2>3 DEF Rule, OnboardInv, OnboardTypeOK
<1>8. CardsAreHonest'
  BY <1>5, <1>6 DEF CardsAreHonest, OnboardInv, Rule
<1>9. PublicIsReviewed'
  <2>1. ASSUME trip.profile = "public", NEW j \in DOMAIN entries'
        PROVE  /\ ProfileOK(entries'[j].card)
               /\ entries'[j].status = "approved" => <<j, entries'[j].card>> \in ruled'
    <3>1. ProfileOK(entries[j].card) /\ (entries[j].status = "approved" => <<j, entries[j].card>> \in ruled)
      BY <1>5, <2>1 DEF OnboardInv, PublicIsReviewed
    <3>2. CASE j = i
      BY <1>3, <1>5, <1>6, <3>1, <3>2 DEF Rule
    <3>3. CASE j # i
      BY <1>5, <3>1, <3>3 DEF Rule
    <3> QED
      BY <3>2, <3>3
  <2> QED
    BY <2>1 DEF PublicIsReviewed, ProfileOK, Rule
<1>10. ConfirmedIsThere'
  BY <1>1, <1>5 DEF ConfirmedIsThere
<1>11. ResubmissionIsHarmless
  BY <1>1 DEF ResubmissionIsHarmless
<1>12. Honest(desk.card)'
  BY DEF Rule, OnboardInv, Honest
<1> QED
  BY <1>5, <1>7, <1>8, <1>9, <1>10, <1>11, <1>12 DEF Rule, OnboardInv

LEMMA LookKeeps ==
  ASSUME OnboardInv, NEW i \in Ids, Look(i)
  PROVE  OnboardInv' /\ ResubmissionIsHarmless
<1>1. OnboardTypeOK'
  <2> DEFINE s == [id |-> i, entry |-> entries[i]]
  <2>1. s.id \in Ids /\ s.entry \in CardEntry
    BY DEF Look, OnboardInv, OnboardTypeOK
  <2>2. viewed' = {s}
    BY DEF Look
  <2> HIDE DEF s
  <2> QED
    BY <2>1, <2>2 DEF Look, OnboardInv, OnboardTypeOK
<1>2. CardsAreHonest' /\ PublicIsReviewed' /\ ConfirmedIsThere'
  BY DEF Look, OnboardInv, CardsAreHonest, PublicIsReviewed, ConfirmedIsThere
<1>3. ResubmissionIsHarmless
  BY DEF Look, ResubmissionIsHarmless
<1> QED
  BY <1>1, <1>2, <1>3 DEF Look, OnboardInv, Honest

LEMMA WithdrawKeeps ==
  ASSUME OnboardInv, NEW i \in Ids, Withdraw(i)
  PROVE  OnboardInv' /\ ResubmissionIsHarmless
<1>1. entries' = [j \in DOMAIN entries \ {i} |-> entries[j]]
  BY DEF Withdraw
<1>2. /\ DOMAIN entries' = DOMAIN entries \ {i}
      /\ \A j \in DOMAIN entries' : entries'[j] = entries[j]
      /\ entries' = [j \in DOMAIN entries' |-> entries'[j]]
  BY <1>1
<1>3. OnboardTypeOK'
  BY <1>2 DEF Withdraw, OnboardInv, OnboardTypeOK
<1>4. CardsAreHonest' /\ PublicIsReviewed' /\ ConfirmedIsThere'
  BY <1>2 DEF Withdraw, OnboardInv, CardsAreHonest, PublicIsReviewed, ConfirmedIsThere
<1>5. ResubmissionIsHarmless
  BY DEF Withdraw, ResubmissionIsHarmless
<1> QED
  BY <1>2, <1>3, <1>4, <1>5 DEF Withdraw, OnboardInv, Honest

LEMMA OnboardNextKeeps ==
  ASSUME OnboardInv, [OnboardNext]_onboardVars
  PROVE  OnboardInv' /\ ResubmissionIsHarmless
<1>1. CASE UNCHANGED onboardVars
  <2>1. OnboardTypeOK'
    BY <1>1 DEF onboardVars, OnboardInv, OnboardTypeOK
  <2>2. CardsAreHonest' /\ PublicIsReviewed' /\ ConfirmedIsThere'
    BY <1>1 DEF onboardVars, OnboardInv, CardsAreHonest, PublicIsReviewed, ConfirmedIsThere
  <2> QED
    BY <1>1, <2>1, <2>2 DEF onboardVars, OnboardInv, Honest, ResubmissionIsHarmless
<1> QED
  BY <1>1, WizardKeeps, MakeDraftKeeps, CompleteKeeps, SessionKeeps, UploadKeeps, SubmitKeeps,
     LookKeeps, WithdrawKeeps, RuleKeeps DEF OnboardNext

LEMMA OnboardStart == OnboardInit => OnboardInv
<1> SUFFICES ASSUME OnboardInit PROVE OnboardInv
  OBVIOUS
<1>1. DOMAIN entries = {} /\ entries = [i \in DOMAIN entries |-> entries[i]]
  BY DEF OnboardInit
<1>2. desk \in [stage : {"new", "card"}, id : Ids, card : CardOf, node : BOOLEAN]
  BY BlankIsCard DEF OnboardInit, Ids, KindIds, Order
<1>3. posts \in 0 .. MaxPosts
  BY OnboardingAssumption DEF OnboardInit
<1>4. OnboardTypeOK
  BY <1>1, <1>2, <1>3 DEF OnboardInit, OnboardTypeOK
<1>5. CardsAreHonest /\ PublicIsReviewed /\ ConfirmedIsThere
  BY <1>1 DEF OnboardInit, CardsAreHonest, PublicIsReviewed, ConfirmedIsThere
<1>6. Honest(desk.card)
  BY DEF OnboardInit, Honest, Blank
<1>7. trip.road = "web" => trip.extent # "none"
  BY DEF OnboardInit
<1> QED
  BY <1>1, <1>4, <1>5, <1>6, <1>7 DEF OnboardInv

(* The invariant of the road into a registry (register/, registration.py,
   web/datasets.py, registry/server.py) *)
THEOREM OnboardInvariant == OnboardSpec => []OnboardInv
<1>1. OnboardInv /\ [OnboardNext]_onboardVars => OnboardInv'
  BY OnboardNextKeeps
<1> QED
  BY <1>1, OnboardStart, PTL DEF OnboardSpec

(* No card claims an extent nobody found; what the public sees is complete and
   reviewed; what was confirmed is there; and to submit again harms nothing *)
THEOREM OnboardingSound == OnboardSpec => OnboardingIsSound
<1>1. OnboardInv /\ [OnboardNext]_onboardVars
      => [/\ CardsAreHonest' /\ PublicIsReviewed' /\ ConfirmedIsThere'
          /\ ResubmissionIsHarmless]_onboardVars
  BY OnboardNextKeeps DEF OnboardInv
<1>2. OnboardSpec => [][OnboardNext]_onboardVars
  BY PTL DEF OnboardSpec
<1> QED
  BY <1>1, <1>2, OnboardInvariant, PTL DEF OnboardingIsSound
-----------------------------------------------------------------------------
(* Who serves what: a node serves a hop that stands at it, and no two the same;
   a request that was given up while it was served belongs to nobody any more *)
AtWork(n, q, h) == busy[n] = <<q, h>>
Serving ==
  \A n \in Node, q \in Request :
    /\ AtWork(n, q, 1) => call[q][1].state \in {"serving", "waiting"}
    /\ AtWork(n, q, 2) => \/ call[q][2].state = "serving"
                          \/ call[q][2].state = "given up" /\ call[q][2].to = Nowhere
OneServes ==
  \A n, m \in Node, q \in Request, h \in Hop : AtWork(n, q, h) /\ AtWork(m, q, h) => n = m

(* A request that may still be run has not been *)
AtFirst(q) == call[q][1].state \in {"none", "sent", "serving"}
AtSecond(q) ==
  \/ call[q][2].state \in {"sent", "serving"}
  \/ call[q][2].state = "given up" /\ (call[q][2].to # Nowhere \/ \E n \in Node : AtWork(n, q, 2))
NotYetRun ==
  \A q \in Request : AtFirst(q) \/ AtSecond(q) => \A n \in Node : ran[q][n] = 0

(* There is no second hop before the first one waits, and the first is never given up *)
InTurn ==
  \A q \in Request :
    /\ call[q][1].state # "given up"
    /\ AtFirst(q) => call[q][2].state = "none"

(* What has been run was run once, where the cards are, and every "ok" is such a run *)
RanOnce == \A q \in Request, n, m \in Node : ran[q][n] > 0 /\ ran[q][m] > 0 => n = m
RanThere == \A q \in Request, n \in Node : ran[q][n] > 0 => ran[q][n] = 1 /\ Lacks(n, q) = {}
OkIsRun ==
  \A q \in Request, h \in Hop : call[q][h].state = "ok" => \E n \in Node : ran[q][n] = 1

NodeInv ==
  /\ NodeTypeOK
  /\ Serving /\ OneServes /\ InTurn
  /\ NotYetRun /\ RanOnce /\ RanThere /\ OkIsRun

(* A node serves one hop of one request *)
LEMMA ServesOne ==
  ASSUME NodeTypeOK, NEW n \in Node, busy[n] # Free
  PROVE  \E q \in Request, h \in Hop : AtWork(n, q, h) /\ busy[n][1] = q /\ busy[n][2] = h
BY DEF NodeTypeOK, AtWork

LEMMA FreeAfter ==
  ASSUME NEW n \in Node, busy'[n] = Free, \A m \in Node \ {n} : busy'[m] = busy[m]
  PROVE  \A m \in Node, q \in Request, h \in Hop : AtWork(m, q, h)' => m # n /\ AtWork(m, q, h)
<1>1. \A q \in Request, h \in Hop : <<q, h>> # Free
  BY DEF Free
<1> QED
  BY <1>1 DEF AtWork

(* Lookups *)
LEMMA TargetsAre ==
  ASSUME NodeTypeOK, NEW n \in Node, NEW q \in Request
  PROVE  /\ Lacks(n, q) # {} => DelegateTarget(n, q) \in Node \cup {Nowhere}
         /\ PushTargets(n, q) \subseteq Node \cup {Nowhere}
<1>1. Cards(q) \in Seq(Card) /\ Source(q) \subseteq Card \X (Node \cup {Nowhere})
  BY NodeAssumption
<1>2. \A i \in DOMAIN Cards(q) : Cards(q)[i] \in Card
  BY <1>1
<1>3. ASSUME Lacks(n, q) # {}
      PROVE  FirstLacking(n, q) \in Card
  <2> DEFINE at == {i \in DOMAIN Cards(q) : Cards(q)[i] \in Lacks(n, q)}
  <2>1. at # {} /\ at \subseteq Nat
    BY <1>1, <1>3 DEF Lacks, ToSet
  <2>2. Min(at) \in at
    <3>1. \E i \in at : \A j \in at : i <= j
      <4> HIDE DEF at
      <4> QED
        BY <2>1, LeastMember
    <3> QED
      BY <3>1 DEF Min
  <2> QED
    BY <1>2, <2>2 DEF FirstLacking
<1>4. \A c \in Card : owner[c] \in Node \cup {Nowhere}
  BY DEF NodeTypeOK
<1>5. OwnersOf(n, q) \subseteq Node \cup {Nowhere}
  <2>1. \A s \in Source(q) : s[1] \in Card /\ s[2] \in Node \cup {Nowhere}
    BY <1>1
  <2> QED
    BY <1>2, <1>4, <2>1 DEF OwnersOf, ToSet
<1>6. PushTargets(n, q) \subseteq Node \cup {Nowhere}
  <2>1. \A s \in Source(q) : s[2] \in Node \cup {Nowhere}
    BY <1>1
  <2> QED
    BY <1>5, <2>1 DEF PushTargets
<1> QED
  BY <1>3, <1>4, <1>6 DEF DelegateTarget

LEMMA FewerServe ==
  ASSUME OneServes, \A m \in Node, q \in Request, h \in Hop : AtWork(m, q, h)' => AtWork(m, q, h)
  PROVE  OneServes'
BY DEF OneServes

-----------------------------------------------------------------------------
(* An answer to a request ends its hop here *)
HopEnds(n, q, h, outcome) ==
  /\ call' \in [Request -> [Hop -> Call]] /\ busy' \in [Node -> {Free} \cup (Request \X Hop)]
  /\ busy'[n] = Free /\ \A m \in Node \ {n} : busy'[m] = busy[m]
  /\ \A p \in Request, k \in Hop : <<p, k>> # <<q, h>> => call'[p][k] = call[p][k]
  /\ call'[q][h].to = call[q][h].to
  /\ call'[q][h].state = IF call[q][h].state = "given up" THEN "given up" ELSE outcome

LEMMA ReturnIs ==
  ASSUME NodeInv, NEW n \in Node, NEW q \in Request, NEW h \in Hop, AtWork(n, q, h),
         NEW outcome \in {"ok", "error"},
         call[q][h].state \in {"serving", "given up", "waiting"}, Return(n, q, h, outcome)
  PROVE  HopEnds(n, q, h, outcome)
<1>1. call \in [Request -> [Hop -> Call]] /\ busy \in [Node -> {Free} \cup (Request \X Hop)]
  BY DEF NodeInv, NodeTypeOK
<1>2. busy' = [busy EXCEPT ![n] = Free]
  BY DEF Return
<1>3. CASE call[q][h].state = "given up"
  BY <1>1, <1>2, <1>3 DEF Return, HopEnds
<1>4. CASE call[q][h].state # "given up"
  <2>1. call' = [call EXCEPT ![q][h].state = outcome]
    BY <1>4 DEF Return, Answer
  <2> DEFINE ended == [call[q][h] EXCEPT !.state = outcome]
  <2>2. call[q][h] \in Call /\ call[q] \in [Hop -> Call]
    BY <1>1
  <2>3. ended \in Call /\ ended.to = call[q][h].to /\ ended.state = outcome
    BY <2>2 DEF Call
  <2>4. call' = [call EXCEPT ![q] = [call[q] EXCEPT ![h] = ended]]
    BY <2>1
  <2> HIDE DEF ended
  <2>5. call' \in [Request -> [Hop -> Call]] /\ call'[q][h] = ended
    BY <1>1, <2>2, <2>3, <2>4
  <2>6. ASSUME NEW p \in Request, NEW k \in Hop, <<p, k>> # <<q, h>>
        PROVE  call'[p][k] = call[p][k]
    BY <1>1, <2>2, <2>4, <2>6
  <2> QED
    BY <1>1, <1>2, <1>4, <2>3, <2>5, <2>6 DEF HopEnds
<1> QED
  BY <1>3, <1>4

(* ... without a run *)
LEMMA EndKeeps ==
  ASSUME NodeInv, NEW n \in Node, NEW q \in Request, NEW h \in Hop, AtWork(n, q, h),
         call[q][h].state \in {"serving", "given up", "waiting"},
         NEW outcome \in {"ok", "error"}, outcome = "ok" => \E m \in Node : ran[q][m] = 1,
         Return(n, q, h, outcome), UNCHANGED <<owner, moved, ran>>, verified' \subseteq Request
  PROVE  NodeInv'
<1>1. /\ call' \in [Request -> [Hop -> Call]] /\ busy' \in [Node -> {Free} \cup (Request \X Hop)]
      /\ busy'[n] = Free /\ \A m \in Node \ {n} : busy'[m] = busy[m]
      /\ \A p \in Request, k \in Hop : <<p, k>> # <<q, h>> => call'[p][k] = call[p][k]
      /\ call'[q][h].to = call[q][h].to
      /\ call'[q][h].state = IF call[q][h].state = "given up" THEN "given up" ELSE outcome
  <2>1. HopEnds(n, q, h, outcome)
    BY ReturnIs
  <2> QED
    BY <2>1, Zenon DEF HopEnds
<1>2. NodeTypeOK'
  BY <1>1 DEF NodeInv, NodeTypeOK, Call
<1>3. Serving'
  <2>1. ASSUME NEW m \in Node, NEW p \in Request, NEW k \in Hop, AtWork(m, p, k)'
        PROVE  AtWork(m, p, k) /\ call'[p][k] = call[p][k]
    <3>1. m # n /\ AtWork(m, p, k)
      BY <1>1, <2>1, FreeAfter
    <3>2. <<p, k>> # <<q, h>>
      BY <3>1 DEF NodeInv, OneServes
    <3> QED
      BY <1>1, <3>1, <3>2
  <2>2. ASSUME NEW m \in Node, NEW p \in Request
        PROVE  /\ AtWork(m, p, 1)' => call'[p][1].state \in {"serving", "waiting"}
               /\ AtWork(m, p, 2)' => \/ call'[p][2].state = "serving"
                                      \/ call'[p][2].state = "given up" /\ call'[p][2].to = Nowhere
    <3>1. /\ AtWork(m, p, 1)' => AtWork(m, p, 1) /\ call'[p][1] = call[p][1]
          /\ AtWork(m, p, 2)' => AtWork(m, p, 2) /\ call'[p][2] = call[p][2]
      BY <2>1 DEF Hop
    <3> QED
      BY <3>1 DEF NodeInv, Serving
  <2> QED
    BY <2>2 DEF Serving
<1>4. OneServes'
  <2>1. \A m \in Node, p \in Request, k \in Hop : AtWork(m, p, k)' => AtWork(m, p, k)
    BY <1>1, FreeAfter
  <2>2. OneServes
    BY DEF NodeInv
  <2> QED
    BY <2>1, <2>2, FewerServe, Zenon
<1>5. InTurn'
  <2>1. ASSUME NEW p \in Request
        PROVE  /\ call'[p][1].state \in {call[p][1].state, "ok", "error"} \/ call[p][1].state = "given up"
               /\ call[p][1].state = "given up" <=> call'[p][1].state = "given up"
               /\ call[p][2].state = "none" => call'[p][2].state = "none"
    BY <1>1 DEF Hop
  <2> QED
    BY <2>1 DEF NodeInv, InTurn, AtFirst
<1>6. NotYetRun'
  <2>1. ASSUME NEW p \in Request, AtFirst(p)'
        PROVE  AtFirst(p)
    BY <1>1, <2>1 DEF AtFirst, Hop
  <2>2. ASSUME NEW p \in Request, AtSecond(p)'
        PROVE  AtSecond(p)
    <3>1. call'[p][2].to = call[p][2].to /\ call'[p][2].state \in {call[p][2].state, "ok", "error"}
      BY <1>1 DEF Hop
    <3>2. \A m \in Node : AtWork(m, p, 2)' => AtWork(m, p, 2)
      BY <1>1, FreeAfter DEF Hop
    <3> QED
      BY <2>2, <3>1, <3>2 DEF AtSecond
  <2> QED
    BY <2>1, <2>2 DEF NodeInv, NotYetRun
<1>7. RanOnce' /\ RanThere'
  BY DEF NodeInv, RanOnce, RanThere, Lacks
<1>8. OkIsRun'
  <2>1. \A p \in Request, k \in Hop : call'[p][k] = call[p][k] \/ (p = q /\ call'[p][k].state \in {"given up", outcome})
    BY <1>1
  <2> QED
    BY <2>1 DEF NodeInv, OkIsRun
<1> QED
  BY <1>2, <1>3, <1>4, <1>5, <1>6, <1>7, <1>8 DEF NodeInv

(* The runs of a request, after the first one *)
LEMMA FirstRun ==
  ASSUME NEW n \in Node, NEW r \in [Node -> 0 .. 2], \A m \in Node : r[m] = 0
  PROVE  [r EXCEPT ![n] = r[n] + 1] = [m \in Node |-> IF m = n THEN 1 ELSE 0]
<1>1. r[n] + 1 = 1
  OBVIOUS
<1>2. [r EXCEPT ![n] = r[n] + 1] = [m \in Node |-> IF m = n THEN r[n] + 1 ELSE r[m]]
  OBVIOUS
<1> QED
  BY <1>1, <1>2

LEMMA RunsOfOne ==
  ASSUME NEW n \in Node, NEW r, r = [m \in Node |-> IF m = n THEN 1 ELSE 0]
  PROVE  /\ r \in [Node -> 0 .. 2]
         /\ \A m \in Node : r[m] > 0 => m = n /\ r[m] = 1
         /\ r[n] = 1
OBVIOUS

(* ... and with one *)
LEMMA RunKeeps ==
  ASSUME NodeInv, NEW n \in Node, NEW q \in Request, NEW h \in Hop, AtWork(n, q, h),
         call[q][h].state \in {"serving", "given up"}, Return(n, q, h, "ok"),
         ran' = [ran EXCEPT ![q][n] = @ + 1], Lacks(n, q) = {},
         UNCHANGED <<owner, moved>>, verified' \subseteq Request
  PROVE  NodeInv'
<1>1. /\ call' \in [Request -> [Hop -> Call]] /\ busy' \in [Node -> {Free} \cup (Request \X Hop)]
      /\ busy'[n] = Free /\ \A m \in Node \ {n} : busy'[m] = busy[m]
      /\ \A p \in Request, k \in Hop : <<p, k>> # <<q, h>> => call'[p][k] = call[p][k]
      /\ call'[q][h].to = call[q][h].to
      /\ call'[q][h].state = IF call[q][h].state = "given up" THEN "given up" ELSE "ok"
  <2>1. HopEnds(n, q, h, "ok")
    BY ReturnIs
  <2> QED
    BY <2>1, Zenon DEF HopEnds
<1>2. ran \in [Request -> [Node -> 0 .. 2]]
  BY DEF NodeInv, NodeTypeOK
<1>3. \A m \in Node : ran[q][m] = 0
  <2>1. CASE h = 1
    BY <2>1 DEF NodeInv, Serving, InTurn, NotYetRun, AtFirst
  <2>2. CASE h = 2
    BY <2>2 DEF NodeInv, Serving, NotYetRun, AtSecond
  <2> QED
    BY <2>1, <2>2 DEF Hop
<1> DEFINE OneRun == [m \in Node |-> IF m = n THEN 1 ELSE 0]
<1>4. /\ ran' \in [Request -> [Node -> 0 .. 2]]
      /\ ran'[q][n] = 1 /\ \A m \in Node : ran'[q][m] > 0 => m = n /\ ran'[q][m] = 1
      /\ \A p \in Request \ {q} : ran'[p] = ran[p]
  <2>1. ran[q][n] = 0 /\ ran[q] \in [Node -> 0 .. 2]
    BY <1>2, <1>3
  <2>2. ran' = [ran EXCEPT ![q] = [ran[q] EXCEPT ![n] = ran[q][n] + 1]]
    OBVIOUS
  <2>3. [ran[q] EXCEPT ![n] = ran[q][n] + 1] = OneRun
    BY <1>3, <2>1, FirstRun
  <2>4. ran' = [ran EXCEPT ![q] = OneRun]
    BY <2>2, <2>3
  <2>7. OneRun \in [Node -> 0 .. 2] /\ OneRun[n] = 1 /\ \A m \in Node : OneRun[m] > 0 => m = n /\ OneRun[m] = 1
    BY RunsOfOne
  <2> HIDE DEF OneRun
  <2>5. ran'[q] = OneRun /\ \A p \in Request \ {q} : ran'[p] = ran[p]
    BY <1>2, <2>4
  <2>6. OneRun \in [Node -> 0 .. 2] => ran' \in [Request -> [Node -> 0 .. 2]]
    BY <1>2, <2>4
  <2> QED
    BY <2>5, <2>6, <2>7
<1>5. NodeTypeOK'
  BY <1>1, <1>4 DEF NodeInv, NodeTypeOK
<1>6. Serving'
  <2>1. ASSUME NEW m \in Node, NEW p \in Request, NEW k \in Hop, AtWork(m, p, k)'
        PROVE  AtWork(m, p, k) /\ call'[p][k] = call[p][k]
    <3>1. m # n /\ AtWork(m, p, k)
      BY <1>1, <2>1, FreeAfter
    <3>2. <<p, k>> # <<q, h>>
      BY <3>1 DEF NodeInv, OneServes
    <3> QED
      BY <1>1, <3>1, <3>2
  <2>2. ASSUME NEW m \in Node, NEW p \in Request
        PROVE  /\ AtWork(m, p, 1)' => call'[p][1].state \in {"serving", "waiting"}
               /\ AtWork(m, p, 2)' => \/ call'[p][2].state = "serving"
                                      \/ call'[p][2].state = "given up" /\ call'[p][2].to = Nowhere
    <3>1. /\ AtWork(m, p, 1)' => AtWork(m, p, 1) /\ call'[p][1] = call[p][1]
          /\ AtWork(m, p, 2)' => AtWork(m, p, 2) /\ call'[p][2] = call[p][2]
      BY <2>1 DEF Hop
    <3> QED
      BY <3>1 DEF NodeInv, Serving
  <2> QED
    BY <2>2 DEF Serving
<1>7. OneServes'
  <2>1. \A m \in Node, p \in Request, k \in Hop : AtWork(m, p, k)' => AtWork(m, p, k)
    BY <1>1, FreeAfter
  <2>2. OneServes
    BY DEF NodeInv
  <2> QED
    BY <2>1, <2>2, FewerServe, Zenon
<1>8. InTurn'
  <2>1. ASSUME NEW p \in Request
        PROVE  /\ call'[p][1].state \in {call[p][1].state, "ok", "error"} \/ call[p][1].state = "given up"
               /\ call[p][1].state = "given up" <=> call'[p][1].state = "given up"
               /\ call[p][2].state = "none" => call'[p][2].state = "none"
    BY <1>1 DEF Hop
  <2> QED
    BY <2>1 DEF NodeInv, InTurn, AtFirst
<1>9. ~ AtFirst(q)' /\ ~ AtSecond(q)'
  <2>1. CASE h = 1
    <3>1. call[q][1].state = "serving" /\ call[q][2].state = "none"
      BY <2>1 DEF NodeInv, Serving, InTurn, AtFirst
    <3> QED
      BY <1>1, <2>1, <3>1 DEF AtFirst, AtSecond, Hop
  <2>2. CASE h = 2
    <3>1. ~ AtFirst(q)
      BY <2>2 DEF NodeInv, InTurn
    <3>2. ASSUME NEW m \in Node, AtWork(m, q, 2)'
          PROVE  FALSE
      <4>1. m # n /\ AtWork(m, q, 2)
        BY <1>1, <2>2, <3>2, FreeAfter
      <4> QED
        BY <2>2, <4>1 DEF NodeInv, OneServes
    <3>3. call[q][2].state = "given up" => call[q][2].to = Nowhere
      BY <2>2 DEF NodeInv, Serving
    <3> QED
      BY <1>1, <2>2, <3>1, <3>2, <3>3 DEF AtFirst, AtSecond, Hop
  <2> QED
    BY <2>1, <2>2 DEF Hop
<1>10. NotYetRun'
  <2>1. ASSUME NEW p \in Request \ {q}, AtFirst(p)' \/ AtSecond(p)'
        PROVE  AtFirst(p) \/ AtSecond(p)
    <3>1. \A k \in Hop : call'[p][k] = call[p][k]
      BY <1>1
    <3>2. \A m \in Node : AtWork(m, p, 2)' => AtWork(m, p, 2)
      BY <1>1, FreeAfter DEF Hop
    <3> QED
      BY <2>1, <3>1, <3>2 DEF AtFirst, AtSecond, Hop
  <2> QED
    BY <1>4, <1>9, <2>1 DEF NodeInv, NotYetRun
<1>11. RanOnce' /\ RanThere'
  <2>1. /\ ran'[q][n] = 1 /\ \A m \in Node : ran'[q][m] > 0 => m = n /\ ran'[q][m] = 1
        /\ \A p \in Request \ {q}, m \in Node : ran'[p][m] = ran[p][m]
    BY <1>4
  <2>2. \A p \in Request, m \in Node : ran[p][m] > 0 => ran[p][m] = 1 /\ Lacks(m, p) = {}
    BY DEF NodeInv, RanThere
  <2>3. \A p \in Request, m, o \in Node : ran[p][m] > 0 /\ ran[p][o] > 0 => m = o
    BY DEF NodeInv, RanOnce
  <2>4. RanOnce'
    <3>1. ASSUME NEW p \in Request, NEW m \in Node, NEW o \in Node, ran'[p][m] > 0, ran'[p][o] > 0
          PROVE  m = o
      <4>1. CASE p = q
        <5>1. \A j \in Node : ran'[q][j] > 0 => j = n
          BY <2>1
        <5> QED
          BY <3>1, <4>1, <5>1
      <4>2. CASE p # q
        BY <2>1, <2>3, <3>1, <4>2
      <4> QED
        BY <4>1, <4>2
    <3> QED
      BY <3>1 DEF RanOnce
  <2>5. ASSUME NEW p \in Request, NEW m \in Node, ran'[p][m] > 0
        PROVE  ran'[p][m] = 1 /\ Lacks(m, p) = {}
    <3>1. CASE p = q
      <4>1. ran'[q][m] > 0 => m = n
        BY <2>1
      <4>2. m = n
        BY <2>5, <3>1, <4>1
      <4> QED
        BY <2>1, <3>1, <4>2, <1>3 DEF RanThere
    <3>2. CASE p # q
      BY <2>1, <2>2, <2>5, <3>2
    <3> QED
      BY <3>1, <3>2
  <2> QED
    BY <2>4, <2>5 DEF RanThere, Lacks
<1>12. OkIsRun'
  <2>1. \A p \in Request \ {q}, k \in Hop : call'[p][k] = call[p][k]
    BY <1>1
  <2> QED
    <3>1. ASSUME NEW p \in Request \ {q}, NEW k \in Hop, call'[p][k].state = "ok"
          PROVE  \E m \in Node : ran'[p][m] = 1
      <4>1. call[p][k].state = "ok" /\ ran'[p] = ran[p]
        BY <1>4, <2>1, <3>1
      <4> QED
        BY <4>1 DEF NodeInv, OkIsRun
    <3> QED
      BY <1>4, <3>1 DEF OkIsRun
<1> QED
  BY <1>5, <1>6, <1>7, <1>8, <1>10, <1>11, <1>12 DEF NodeInv

-----------------------------------------------------------------------------
(* The steps *)
LEMMA MoveKeeps ==
  ASSUME NodeInv, NEW c \in Card, Move(c)
  PROVE  NodeInv'
<1>1. owner' \in [Card -> Node \cup {Nowhere}] /\ moved' \in 0 .. MaxMoves
  <2>1. owner \in [Card -> Node \cup {Nowhere}] /\ moved \in 0 .. MaxMoves /\ MaxMoves \in Nat
    BY NodeAssumption DEF NodeInv, NodeTypeOK
  <2> QED
    BY <2>1 DEF Move
<1>2. UNCHANGED <<call, busy, ran, verified>>
  BY DEF Move
<1>3. NodeTypeOK'
  BY <1>1, <1>2 DEF NodeInv, NodeTypeOK
<1>4. Serving' /\ OneServes'
  BY <1>2 DEF NodeInv, Serving, OneServes, AtWork
<1>5. InTurn' /\ NotYetRun'
  BY <1>2 DEF NodeInv, InTurn, NotYetRun, AtFirst, AtSecond, AtWork
<1>6. RanOnce' /\ RanThere' /\ OkIsRun'
  BY <1>2 DEF NodeInv, RanOnce, RanThere, OkIsRun, Lacks
<1> QED
  BY <1>3, <1>4, <1>5, <1>6 DEF NodeInv

LEMMA HopsSet ==
  ASSUME NodeTypeOK, NEW q \in Request, NEW hops \in [Hop -> Call], call' = [call EXCEPT ![q] = hops]
  PROVE  /\ call' \in [Request -> [Hop -> Call]] /\ call'[q] = hops
         /\ \A p \in Request : p # q => call'[p] = call[p]
BY DEF NodeTypeOK

OnlyHop(q, h, v) ==
  /\ call' \in [Request -> [Hop -> Call]] /\ call'[q][h] = v
  /\ \A p \in Request, k \in Hop : <<p, k>> # <<q, h>> => call'[p][k] = call[p][k]

LEMMA HopSet ==
  ASSUME NodeTypeOK, NEW q \in Request, NEW h \in Hop, NEW v \in Call, call' = [call EXCEPT ![q][h] = v]
  PROVE  OnlyHop(q, h, v)
<1>1. call[q] \in [Hop -> Call]
  BY DEF NodeTypeOK
<1> DEFINE hops == [call[q] EXCEPT ![h] = v]
<1>2. hops \in [Hop -> Call] /\ hops[h] = v /\ \A k \in Hop : k # h => hops[k] = call[q][k]
  BY <1>1
<1>3. call' = [call EXCEPT ![q] = hops]
  OBVIOUS
<1> HIDE DEF hops
<1>4. /\ call' \in [Request -> [Hop -> Call]] /\ call'[q] = hops
      /\ \A p \in Request : p # q => call'[p] = call[p]
  BY <1>2, <1>3, HopsSet
<1>5. ASSUME NEW p \in Request, NEW k \in Hop, <<p, k>> # <<q, h>>
      PROVE  call'[p][k] = call[p][k]
  BY <1>2, <1>4, <1>5
<1> QED
  BY <1>2, <1>4, <1>5 DEF OnlyHop

LEMMA SendKeeps ==
  ASSUME NodeInv, NEW q \in Request, Send(q)
  PROVE  NodeInv'
<1> DEFINE sent == [to |-> Entry(q), state |-> "sent"]
<1>1. call \in [Request -> [Hop -> Call]] /\ sent \in Call /\ sent.state = "sent"
  BY NodeAssumption DEF NodeInv, NodeTypeOK, Call
<1>2. UNCHANGED <<owner, moved, busy, ran, verified>>
  BY DEF Send
<1>3. call[q][1] = NotSent /\ call[q][1].state = "none"
  BY DEF Send, NotSent
<1>4. /\ call' \in [Request -> [Hop -> Call]] /\ call'[q][1] = sent
      /\ \A p \in Request, k \in Hop : <<p, k>> # <<q, 1>> => call'[p][k] = call[p][k]
  <2>1. call' = [call EXCEPT ![q][1] = sent] /\ 1 \in Hop
    BY DEF Send, Hop
  <2> HIDE DEF sent
  <2> QED
    BY <1>1, <2>1, HopSet DEF NodeInv, OnlyHop
<1>5. NodeTypeOK'
  BY <1>2, <1>4 DEF NodeInv, NodeTypeOK
<1>6. \A n \in Node, p \in Request, k \in Hop : AtWork(n, p, k)' <=> AtWork(n, p, k)
  BY <1>2 DEF AtWork
<1>7. \A n \in Node : ~ AtWork(n, q, 1)
  BY <1>3 DEF NodeInv, Serving
<1>8. Serving' /\ OneServes'
  <2>1. ASSUME NEW n \in Node, NEW p \in Request, NEW k \in Hop, AtWork(n, p, k)
        PROVE  call'[p][k] = call[p][k]
    BY <1>4, <1>7, <2>1
  <2>2. \A n \in Node, p \in Request :
          /\ AtWork(n, p, 1) => call'[p][1] = call[p][1]
          /\ AtWork(n, p, 2) => call'[p][2] = call[p][2]
    BY <2>1 DEF Hop
  <2>3. Serving'
    <3> SUFFICES ASSUME NEW n \in Node, NEW p \in Request
                 PROVE  /\ AtWork(n, p, 1)' => call'[p][1].state \in {"serving", "waiting"}
                        /\ AtWork(n, p, 2)' => \/ call'[p][2].state = "serving"
                                               \/ call'[p][2].state = "given up" /\ call'[p][2].to = Nowhere
      BY DEF Serving
    <3>1. /\ AtWork(n, p, 1)' => AtWork(n, p, 1) /\ call'[p][1] = call[p][1]
          /\ AtWork(n, p, 2)' => AtWork(n, p, 2) /\ call'[p][2] = call[p][2]
      BY <1>6, <2>2 DEF Hop
    <3> QED
      BY <3>1 DEF NodeInv, Serving
  <2> QED
    BY <1>6, <2>3 DEF NodeInv, OneServes
<1>9. \A p \in Request : (AtFirst(p)' <=> AtFirst(p)) /\ (AtSecond(p)' <=> AtSecond(p)) /\ call'[p][2] = call[p][2]
  <2>1. \A p \in Request : call'[p][2] = call[p][2]
    BY <1>4 DEF Hop
  <2>2. AtFirst(q)' /\ AtFirst(q)
    BY <1>1, <1>3, <1>4 DEF AtFirst
  <2>3. \A p \in Request : p # q => call'[p][1] = call[p][1]
    BY <1>4 DEF Hop
  <2>4. \A p \in Request : AtFirst(p)' <=> AtFirst(p)
    BY <2>2, <2>3 DEF AtFirst
  <2>5. \A p \in Request : AtSecond(p)' <=> AtSecond(p)
    BY <1>6, <2>1 DEF AtSecond, Hop
  <2> QED
    BY <2>1, <2>4, <2>5
<1>10. InTurn' /\ OkIsRun'
  <2>1. ASSUME NEW p \in Request, NEW k \in Hop
        PROVE  call'[p][k] = call[p][k] \/ call'[p][k].state = "sent"
    BY <1>1, <1>4
  <2>2. InTurn'
    BY <1>9, <2>1 DEF NodeInv, InTurn, Hop
  <2> QED
    BY <1>2, <2>1, <2>2 DEF NodeInv, OkIsRun
<1>11. NotYetRun' /\ RanOnce' /\ RanThere'
  BY <1>2, <1>9 DEF NodeInv, NotYetRun, RanOnce, RanThere, Lacks
<1> QED
  BY <1>5, <1>8, <1>10, <1>11 DEF NodeInv

(* Only the hops of one request move, and those that are served only as they may *)
LEMMA SameServes ==
  ASSUME NEW n \in Node, NEW q \in Request, NEW h \in Hop, busy \in [Node -> {Free} \cup (Request \X Hop)],
         busy' = [busy EXCEPT ![n] = <<q, h>>]
  PROVE  /\ busy' \in [Node -> {Free} \cup (Request \X Hop)]
         /\ \A p \in Request, k \in Hop : AtWork(n, p, k)' <=> p = q /\ k = h
         /\ \A m \in Node \ {n}, p \in Request, k \in Hop : AtWork(m, p, k)' <=> AtWork(m, p, k)
<1>1. <<q, h>> \in Request \X Hop /\ busy'[n] = <<q, h>> /\ \A m \in Node \ {n} : busy'[m] = busy[m]
  OBVIOUS
<1>2. busy' \in [Node -> {Free} \cup (Request \X Hop)]
  BY <1>1
<1>3. \A p \in Request, k \in Hop : <<q, h>> = <<p, k>> <=> p = q /\ k = h
  OBVIOUS
<1>4. \A p \in Request, k \in Hop : AtWork(n, p, k)' <=> p = q /\ k = h
  BY <1>1, <1>3 DEF AtWork
<1>5. \A m \in Node \ {n}, p \in Request, k \in Hop : AtWork(m, p, k)' <=> AtWork(m, p, k)
  BY <1>1 DEF AtWork
<1> QED
  BY <1>2, <1>4, <1>5

LEMMA TakeKeeps ==
  ASSUME NodeInv, NEW n \in Node, NEW q \in Request, NEW h \in Hop, Take(n, q, h)
  PROVE  NodeInv'
<1> DEFINE old == call[q][h]
           new == IF old.state = "sent" THEN [old EXCEPT !.state = "serving"] ELSE [old EXCEPT !.to = Nowhere]
<1>1. call[q][h] \in Call /\ NodeTypeOK
  BY DEF NodeInv, NodeTypeOK
<1>2. busy' = [busy EXCEPT ![n] = <<q, h>>] /\ UNCHANGED <<owner, moved, ran, verified>>
  BY DEF Take
<1>3. call[q][h].to = n /\ call[q][h].state \in {"sent", "given up"}
  BY DEF Take
<1>4. call' = [call EXCEPT ![q][h] = new]
  BY DEF Take, Answer
<1>5. /\ new \in Call
      /\ call[q][h].state = "sent" => new.state = "serving"
      /\ call[q][h].state = "given up" => new.state = "given up" /\ new.to = Nowhere
  BY <1>1, <1>3 DEF Call
<1> HIDE DEF new
<1>6. /\ call' \in [Request -> [Hop -> Call]] /\ call'[q][h] = new
      /\ \A p \in Request, k \in Hop : <<p, k>> # <<q, h>> => call'[p][k] = call[p][k]
  <2>1. new \in Call
    BY <1>5
  <2>2. OnlyHop(q, h, new)
    BY <1>1, <1>4, <2>1, HopSet, Zenon
  <2> QED
    BY <2>2, Zenon DEF OnlyHop
<1>7. /\ busy' \in [Node -> {Free} \cup (Request \X Hop)]
      /\ \A p \in Request, k \in Hop : AtWork(n, p, k)' <=> p = q /\ k = h
      /\ \A m \in Node \ {n}, p \in Request, k \in Hop : AtWork(m, p, k)' <=> AtWork(m, p, k)
  BY <1>1, <1>2, SameServes DEF NodeTypeOK
<1>8. NodeTypeOK'
  BY <1>1, <1>2, <1>6, <1>7 DEF NodeTypeOK
<1>9. \A m \in Node : ~ AtWork(m, q, h)
  BY <1>3, NodeAssumption DEF NodeInv, Serving, Hop
<1>10. call[q][1].state # "given up"
  BY DEF NodeInv, InTurn
<1>11. Serving'
  <2>1. ASSUME NEW m \in Node, NEW p \in Request, NEW k \in Hop, AtWork(m, p, k)', <<p, k>> # <<q, h>>
        PROVE  AtWork(m, p, k) /\ call'[p][k] = call[p][k]
    BY <1>6, <1>7, <2>1
  <2>2. ASSUME NEW m \in Node, NEW p \in Request, AtWork(m, p, 1)'
        PROVE  call'[p][1].state \in {"serving", "waiting"}
    <3>1. CASE <<p, 1>> = <<q, h>>
      BY <1>3, <1>5, <1>6, <1>10, <3>1
    <3>2. CASE <<p, 1>> # <<q, h>>
      BY <2>1, <2>2, <3>2 DEF NodeInv, Serving, Hop
    <3> QED
      BY <3>1, <3>2
  <2>3. ASSUME NEW m \in Node, NEW p \in Request, AtWork(m, p, 2)'
        PROVE  \/ call'[p][2].state = "serving"
               \/ call'[p][2].state = "given up" /\ call'[p][2].to = Nowhere
    <3>1. CASE <<p, 2>> = <<q, h>>
      BY <1>3, <1>5, <1>6, <3>1
    <3>2. CASE <<p, 2>> # <<q, h>>
      <4>1. AtWork(m, p, 2) /\ call'[p][2] = call[p][2]
        BY <2>1, <2>3, <3>2 DEF Hop
      <4> QED
        BY <4>1 DEF NodeInv, Serving
    <3> QED
      BY <3>1, <3>2
  <2> QED
    BY <2>2, <2>3 DEF Serving
<1>12. OneServes'
  BY <1>7, <1>9 DEF NodeInv, OneServes
<1>13. \A p \in Request : AtFirst(p)' <=> AtFirst(p)
  <2>1. call'[q][1].state # call[q][1].state => call[q][1].state = "sent" /\ call'[q][1].state = "serving"
    BY <1>3, <1>5, <1>6, <1>10 DEF Hop
  <2>2. \A p \in Request : p # q => call'[p][1] = call[p][1]
    BY <1>6 DEF Hop
  <2> QED
    BY <2>1, <2>2 DEF AtFirst
<1>14. ASSUME NEW p \in Request, AtSecond(p)'
       PROVE  AtSecond(p)
  <2>1. CASE p = q /\ h = 2
    BY <1>3, <2>1, NodeAssumption DEF AtSecond
  <2>2. CASE ~ (p = q /\ h = 2)
    <3>1. call'[p][2] = call[p][2]
      BY <1>6, <2>2 DEF Hop
    <3>2. \A m \in Node : AtWork(m, p, 2)' => AtWork(m, p, 2)
      BY <1>7, <2>2 DEF Hop
    <3> QED
      BY <1>14, <3>1, <3>2 DEF AtSecond
  <2> QED
    BY <2>1, <2>2
<1>15. InTurn'
  <2>1. \A p \in Request : call'[p][1].state # "given up"
    BY <1>3, <1>5, <1>6, <1>10 DEF NodeInv, InTurn, Hop
  <2>2. ASSUME NEW p \in Request, AtFirst(p)
        PROVE  call'[p][2].state = "none"
    <3>1. call[p][2].state = "none"
      BY <2>2 DEF NodeInv, InTurn
    <3>2. <<p, 2>> # <<q, h>>
      BY <1>3, <3>1
    <3> QED
      BY <1>6, <3>1, <3>2 DEF Hop
  <2> QED
    BY <1>13, <2>1, <2>2 DEF InTurn
<1>16. OkIsRun'
  <2>1. ASSUME NEW p \in Request, NEW k \in Hop, call'[p][k].state = "ok"
        PROVE  call[p][k].state = "ok"
    BY <1>3, <1>5, <1>6, <2>1
  <2> QED
    BY <1>2, <2>1 DEF NodeInv, OkIsRun
<1>17. NotYetRun' /\ RanOnce' /\ RanThere'
  BY <1>2, <1>13, <1>14 DEF NodeInv, NotYetRun, RanOnce, RanThere, Lacks
<1> QED
  BY <1>8, <1>11, <1>12, <1>15, <1>16, <1>17 DEF NodeInv

LEMMA HandOverKeeps ==
  ASSUME NodeInv, NEW n \in Node, NEW q \in Request, AtWork(n, q, 1), call[q][1].state = "serving",
         NEW to \in Node \cup {Nowhere}, HandOver(n, q, to), UNCHANGED <<owner, moved, ran, verified>>
  PROVE  NodeInv'
<1>1. CASE to = Nowhere
  <2>1. Return(n, q, 1, "error") /\ 1 \in Hop /\ verified' \subseteq Request
    BY <1>1 DEF HandOver, Hop, NodeInv, NodeTypeOK
  <2> QED
    BY <2>1, EndKeeps
<1>2. CASE to # Nowhere
  <2> DEFINE first == [call[q][1] EXCEPT !.state = "waiting"]
             second == [to |-> to, state |-> "sent"]
             hops == [call[q] EXCEPT ![1] = first, ![2] = second]
  <2>1. call' = [call EXCEPT ![q] = hops] /\ busy' = busy
    BY <1>2 DEF HandOver
  <2>2. call[q] \in [Hop -> Call] /\ NodeTypeOK
    BY DEF NodeInv, NodeTypeOK
  <2>3. hops \in [Hop -> Call] /\ hops[1].state = "waiting" /\ hops[2].state = "sent"
    <3>1. first \in Call /\ first.state = "waiting" /\ second \in Call /\ second.state = "sent"
      BY <2>2 DEF Hop, Call
    <3> HIDE DEF first, second
    <3> QED
      BY <2>2, <3>1 DEF Hop
  <2> HIDE DEF hops
  <2>4. /\ call' \in [Request -> [Hop -> Call]] /\ call'[q] = hops
        /\ \A p \in Request : p # q => call'[p] = call[p]
    BY <2>1, <2>2, <2>3, HopsSet
  <2>5. NodeTypeOK'
    BY <2>1, <2>2, <2>4 DEF NodeTypeOK
  <2>6. \A m \in Node, p \in Request, k \in Hop : AtWork(m, p, k)' <=> AtWork(m, p, k)
    BY <2>1 DEF AtWork
  <2>7. AtFirst(q) /\ call[q][2].state = "none"
    BY DEF NodeInv, AtFirst, InTurn
  <2>8. \A m \in Node : ~ AtWork(m, q, 2)
    BY <2>7 DEF NodeInv, Serving
  <2>9. Serving' /\ OneServes'
    <3>1. ASSUME NEW m \in Node, NEW p \in Request
          PROVE  /\ AtWork(m, p, 1)' => call'[p][1].state \in {"serving", "waiting"}
                 /\ AtWork(m, p, 2)' => \/ call'[p][2].state = "serving"
                                        \/ call'[p][2].state = "given up" /\ call'[p][2].to = Nowhere
      <4>1. CASE p = q
        BY <2>3, <2>4, <2>6, <2>8, <4>1 DEF Hop
      <4>2. CASE p # q
        <5>1. call'[p] = call[p] /\ (AtWork(m, p, 1)' => AtWork(m, p, 1)) /\ (AtWork(m, p, 2)' => AtWork(m, p, 2))
          BY <2>4, <2>6, <4>2 DEF Hop
        <5> QED
          BY <5>1 DEF NodeInv, Serving
      <4> QED
        BY <4>1, <4>2
    <3> QED
      BY <2>6, <3>1 DEF NodeInv, Serving, OneServes
  <2>10. \A m \in Node : ran[q][m] = 0
    BY <2>7 DEF NodeInv, NotYetRun
  <2>11. ASSUME NEW p \in Request, p # q
         PROVE  (AtFirst(p)' <=> AtFirst(p)) /\ (AtSecond(p)' <=> AtSecond(p))
    BY <2>4, <2>6, <2>11 DEF AtFirst, AtSecond, Hop
  <2>12. InTurn'
    BY <2>3, <2>4, <2>11 DEF NodeInv, InTurn, AtFirst
  <2>13. OkIsRun'
    <3>1. ASSUME NEW p \in Request, NEW k \in Hop, call'[p][k].state = "ok"
          PROVE  call[p][k].state = "ok"
      BY <2>3, <2>4, <3>1 DEF Hop
    <3> QED
      BY <3>1 DEF NodeInv, OkIsRun
  <2>14. NotYetRun'
    BY <2>10, <2>11 DEF NodeInv, NotYetRun
  <2>15. RanOnce' /\ RanThere'
    BY DEF NodeInv, RanOnce, RanThere, Lacks
  <2> QED
    BY <2>5, <2>9, <2>12, <2>13, <2>14, <2>15 DEF NodeInv
<1> QED
  BY <1>1, <1>2

LEMMA ServedIs ==
  ASSUME NodeInv, NEW n \in Node, busy[n] # Free
  PROVE  /\ busy[n][1] \in Request /\ busy[n][2] \in Hop /\ AtWork(n, busy[n][1], busy[n][2])
BY ServesOne DEF NodeInv

LEMMA ExecuteKeeps ==
  ASSUME NodeInv, NEW n \in Node, Execute(n)
  PROVE  NodeInv'
<1>1. PICK q \in Request, h \in Hop : q = busy[n][1] /\ h = busy[n][2] /\ AtWork(n, q, h)
  BY ServedIs DEF Execute
<1> DEFINE push == Admits(n, q, h) /\ PushSpec(q, h) = "push"
<1>2. call[q][h].state \in {"serving", "given up"} /\ UNCHANGED <<owner, moved>>
  BY <1>1 DEF Execute
<1> verified \subseteq Request
  BY DEF NodeInv, NodeTypeOK
<1>3. CASE Delegates(n, q, h) \/ push
  <2>1. UNCHANGED <<ran, verified>>
    BY <1>1, <1>3 DEF Execute
  <2>2. h = 1 /\ (push \/ Lacks(n, q) # {})
    BY <1>3 DEF Delegates, PushSpec
  <2>3. call[q][1].state = "serving"
    BY <1>1, <1>2, <2>2 DEF NodeInv, InTurn
  <2>4. CASE Return(n, q, h, "error")
    BY <1>1, <1>2, <2>1, <2>4, EndKeeps
  <2>5. CASE \E to \in IF push THEN PushTargets(n, q) ELSE {DelegateTarget(n, q)} : HandOver(n, q, to)
    <3>1. PICK to \in IF push THEN PushTargets(n, q) ELSE {DelegateTarget(n, q)} : HandOver(n, q, to)
      BY <2>5
    <3>2. to \in Node \cup {Nowhere}
      BY <1>1, <2>2, <3>1, TargetsAre DEF NodeInv
    <3> QED
      BY <1>1, <1>2, <2>1, <2>2, <2>3, <3>1, <3>2, HandOverKeeps
  <2> QED
    BY <1>1, <1>2, <1>3, <2>2, <2>4, <2>5 DEF Execute
<1>4. CASE ~ (Delegates(n, q, h) \/ push)
  <2>1. CASE Return(n, q, h, "error") /\ UNCHANGED <<ran, verified>>
    BY <1>1, <1>2, <2>1, EndKeeps
  <2>2. CASE Admits(n, q, h) /\ Run(n, q, h)
    <3>1. CASE Return(n, q, h, "error") /\ UNCHANGED ran /\ verified' \in {verified, verified \cup {q}}
      BY <1>1, <1>2, <3>1, EndKeeps
    <3>2. CASE Return(n, q, h, "ok") /\ ran' = [ran EXCEPT ![q][n] = @ + 1] /\ verified' \in {verified, verified \cup {q}}
      <4>1. verified' \subseteq Request /\ Lacks(n, q) = {}
        BY <1>1, <2>2, <3>2 DEF NodeInv, NodeTypeOK, Admits
      <4> QED
        BY <1>1, <1>2, <3>2, <4>1, RunKeeps
    <3> QED
      BY <2>2, <3>1, <3>2 DEF Run
  <2> QED
    BY <1>1, <1>4, <2>1, <2>2 DEF Execute
<1> QED
  BY <1>3, <1>4

LEMMA RelayKeeps ==
  ASSUME NodeInv, NEW n \in Node, Relay(n)
  PROVE  NodeInv'
<1>1. PICK q \in Request, h \in Hop : q = busy[n][1] /\ AtWork(n, q, h)
  BY ServedIs DEF Relay
<1>2. /\ call[q][1].state = "waiting" /\ call[q][2].state \in {"ok", "error"}
      /\ Return(n, q, 1, call[q][2].state) /\ UNCHANGED <<owner, moved, ran, verified>>
  BY <1>1 DEF Relay
<1>3. AtWork(n, q, 1)
  BY <1>1, <1>2 DEF NodeInv, Serving, Hop
<1>4. call[q][2].state = "ok" => \E m \in Node : ran[q][m] = 1
  BY <1>1 DEF NodeInv, OkIsRun, Hop
<1> QED
  BY <1>1, <1>2, <1>3, <1>4, EndKeeps DEF Hop, NodeInv, NodeTypeOK

LEMMA TimeoutKeeps ==
  ASSUME NodeInv, NEW n \in Node, Timeout(n)
  PROVE  NodeInv'
<1>1. PICK q \in Request : q = busy[n][1] /\ AtWork(n, q, 1)
  BY ServedIs DEF Timeout
<1> DEFINE second == [to |-> IF call[q][2].state = "sent" THEN call[q][2].to ELSE Nowhere, state |-> "given up"]
           first == [call[q][1] EXCEPT !.state = "error"]
           hops == [call[q] EXCEPT ![1] = first, ![2] = second]
<1>2. /\ call[q][1].state = "waiting" /\ call[q][2].state \in {"sent", "serving"}
      /\ busy' = [busy EXCEPT ![n] = Free] /\ UNCHANGED <<owner, moved, ran, verified>>
  BY <1>1 DEF Timeout, MayGiveUp
<1>3. call' = [call EXCEPT ![q] = hops]
  BY <1>1 DEF Timeout
<1>4. call[q] \in [Hop -> Call] /\ NodeTypeOK
  BY <1>1 DEF NodeInv, NodeTypeOK
<1>5. /\ hops \in [Hop -> Call] /\ hops[1].state = "error" /\ hops[2] = second
      /\ second.state = "given up" /\ second.to = IF call[q][2].state = "sent" THEN call[q][2].to ELSE Nowhere
  <2>1. second \in Call /\ first \in Call /\ first.state = "error"
    BY <1>4 DEF Hop, Call
  <2>2. second.state = "given up" /\ second.to = IF call[q][2].state = "sent" THEN call[q][2].to ELSE Nowhere
    OBVIOUS
  <2> HIDE DEF first, second
  <2> QED
    <3>1. hops \in [Hop -> Call] /\ hops[1] = first /\ hops[2] = second
      BY <1>4, <2>1 DEF Hop
    <3> QED
      BY <2>1, <2>2, <3>1
<1> HIDE DEF hops, second, first
<1>6. /\ call' \in [Request -> [Hop -> Call]] /\ call'[q] = hops
      /\ \A p \in Request : p # q => call'[p] = call[p]
  BY <1>1, <1>3, <1>4, <1>5, HopsSet
<1>7. busy'[n] = Free /\ (\A m \in Node \ {n} : busy'[m] = busy[m]) /\ busy' \in [Node -> {Free} \cup (Request \X Hop)]
  BY <1>2, <1>4 DEF NodeTypeOK
<1>8. \A m \in Node, p \in Request, k \in Hop : AtWork(m, p, k)' => m # n /\ AtWork(m, p, k)
  BY <1>7, FreeAfter
<1>9. NodeTypeOK'
  BY <1>2, <1>4, <1>6, <1>7 DEF NodeTypeOK
<1>10. Serving' /\ OneServes'
  <2>1. ASSUME NEW m \in Node, NEW p \in Request
        PROVE  /\ AtWork(m, p, 1)' => call'[p][1].state \in {"serving", "waiting"}
               /\ AtWork(m, p, 2)' => \/ call'[p][2].state = "serving"
                                      \/ call'[p][2].state = "given up" /\ call'[p][2].to = Nowhere
    <3>1. CASE p = q
      <4>1. ~ AtWork(m, q, 1)'
        BY <1>1, <1>8 DEF NodeInv, OneServes, Hop
      <4>2. AtWork(m, q, 2)' => call[q][2].state = "serving"
        <5>1. AtWork(m, q, 2)' => AtWork(m, q, 2)
          BY <1>1, <1>8 DEF Hop
        <5> QED
          BY <1>1, <1>2, <5>1 DEF NodeInv, Serving
      <4> QED
        <5>1. call'[p][2] = second
          BY <1>5, <1>6, <3>1
        <5>2. AtWork(m, p, 2)' => second.state = "given up" /\ second.to = Nowhere
          BY <1>5, <3>1, <4>2
        <5> QED
          BY <3>1, <4>1, <5>1, <5>2
    <3>2. CASE p # q
      <4>1. /\ AtWork(m, p, 1)' => AtWork(m, p, 1)
            /\ AtWork(m, p, 2)' => AtWork(m, p, 2)
        BY <1>8 DEF Hop
      <4>2. call'[p] = call[p]
        BY <1>6, <3>2
      <4> QED
        BY <4>1, <4>2 DEF NodeInv, Serving
    <3> QED
      BY <3>1, <3>2
  <2> QED
    BY <1>8, <2>1 DEF NodeInv, Serving, OneServes
<1>11. ASSUME NEW p \in Request, p # q
       PROVE  (AtFirst(p)' <=> AtFirst(p)) /\ (AtSecond(p)' => AtSecond(p))
  BY <1>6, <1>8, <1>11 DEF AtFirst, AtSecond, Hop
<1>12. ~ AtFirst(q)' /\ AtSecond(q)
  <2>1. call'[q][1].state = "error"
    BY <1>5, <1>6
  <2> QED
    BY <1>2, <2>1 DEF AtFirst, AtSecond
<1>13. InTurn'
  <2>1. call'[q][1].state = "error"
    BY <1>5, <1>6
  <2>2. \A p \in Request : p # q => call'[p] = call[p]
    BY <1>6
  <2> QED
    BY <2>1, <2>2, <1>11, <1>12 DEF NodeInv, InTurn
<1>14. OkIsRun'
  <2>1. ASSUME NEW p \in Request, NEW k \in Hop, call'[p][k].state = "ok"
        PROVE  call[p][k].state = "ok"
    BY <1>5, <1>6, <2>1 DEF Hop
  <2> QED
    BY <1>2, <2>1 DEF NodeInv, OkIsRun
<1>15. NotYetRun' /\ RanOnce' /\ RanThere'
  BY <1>2, <1>11, <1>12 DEF NodeInv, NotYetRun, RanOnce, RanThere, Lacks
<1> QED
  BY <1>9, <1>10, <1>13, <1>14, <1>15 DEF NodeInv

LEMMA NodeNextKeeps ==
  ASSUME NodeInv, [NodeNext]_nodeVars
  PROVE  NodeInv'
<1>1. CASE UNCHANGED nodeVars
  <2>1. NodeTypeOK' /\ Serving' /\ OneServes'
    BY <1>1 DEF nodeVars, NodeInv, NodeTypeOK, Serving, OneServes, AtWork
  <2>2. InTurn' /\ NotYetRun'
    BY <1>1 DEF nodeVars, NodeInv, InTurn, NotYetRun, AtFirst, AtSecond, AtWork
  <2>3. RanOnce' /\ RanThere' /\ OkIsRun'
    BY <1>1 DEF nodeVars, NodeInv, RanOnce, RanThere, OkIsRun, Lacks
  <2> QED
    BY <2>1, <2>2, <2>3 DEF NodeInv
<1> QED
  BY <1>1, MoveKeeps, SendKeeps, TakeKeeps, ExecuteKeeps, RelayKeeps, TimeoutKeeps DEF NodeNext, NodeStep

LEMMA NodeStart == NodeInit => NodeInv
<1> SUFFICES ASSUME NodeInit
             PROVE  NodeInv
  OBVIOUS
<1>1. /\ call = [q \in Request |-> [h \in Hop |-> NotSent]] /\ busy = [n \in Node |-> Free]
      /\ ran = [q \in Request |-> [n \in Node |-> 0]] /\ NotSent \in Call /\ NotSent.state = "none"
  BY DEF NodeInit, NotSent, Call
<1>2. NodeTypeOK
  BY <1>1, NodeAssumption DEF NodeInit, NodeTypeOK
<1>3. \A n \in Node, q \in Request, h \in Hop : ~ AtWork(n, q, h)
  BY <1>1 DEF AtWork, Free
<1>4. \A q \in Request, h \in Hop : call[q][h].state = "none"
  BY <1>1
<1>5. \A q \in Request, n \in Node : ran[q][n] = 0
  BY <1>1
<1>6. Serving /\ OneServes /\ InTurn /\ OkIsRun
  BY <1>3, <1>4 DEF Serving, OneServes, InTurn, OkIsRun, Hop
<1>7. NotYetRun /\ RanOnce /\ RanThere
  BY <1>5 DEF NotYetRun, RanOnce, RanThere
<1> QED
  BY <1>2, <1>6, <1>7 DEF NodeInv

(* The invariant of the nodes that serve requests (geomcp/server.py) *)
THEOREM NodeInvariant == NodeSpec => []NodeInv
<1>1. NodeInv /\ [NodeNext]_nodeVars => NodeInv'
  BY NodeNextKeeps
<1> QED
  BY <1>1, NodeStart, PTL DEF NodeSpec

(* Whatever ran, ran once *)
LEMMA RanAtOneNode == NodeInv => AnswerIsTrue
<1> SUFFICES ASSUME NodeInv, NEW q \in Request
             PROVE  /\ \A n \in Node : ran[q][n] > 0 => ran[q][n] = 1 /\ Lacks(n, q) = {}
                    /\ Cardinality({n \in Node : ran[q][n] > 0}) <= 1
                    /\ call[q][1].state = "ok" => \E n \in Node : ran[q][n] = 1
  BY DEF AnswerIsTrue
<1> DEFINE at == {n \in Node : ran[q][n] > 0}
<1>1. Cardinality(at) <= 1
  <2>1. CASE at = {}
    BY <2>1, FS_EmptySet
  <2>2. CASE at # {}
    <3>1. PICK n \in at : TRUE
      BY <2>2
    <3>2. at = {n}
      BY <3>1 DEF NodeInv, RanOnce
    <3> HIDE DEF at
    <3> QED
      <4>1. Cardinality(at) = 1
        BY <3>2, FS_Singleton
      <4> QED
        BY <4>1
  <2> QED
    BY <2>1, <2>2
<1> QED
  BY <1>1 DEF NodeInv, RanThere, OkIsRun, Hop

(* Whatever owners, timeouts and nodes that wait for one another do, an answer "ok"
   stands for one execution, where the request's cards are, and no request is run at
   two nodes (execute, _delegate) *)
THEOREM AnswersAreTrue == NodeSpec => []AnswerIsTrue
<1>1. NodeInv => AnswerIsTrue
  BY RanAtOneNode
<1> QED
  BY <1>1, NodeInvariant, PTL

-----------------------------------------------------------------------------
(***************************************************************************)
(* Nodes that come up and tell a registry, and the health service that     *)
(* looks at all of them (NodeLife).  What is advertised is what is among   *)
(* the goods of a kind: a recursive function, shown to be a function by    *)
(* counting.                                                               *)
(***************************************************************************)
(* What is among a set, of a list *)
AmongTo(s, S) ==
  CHOOSE f : f = [i \in 0 .. Len(s) |->
    IF i = 0 THEN <<>> ELSE IF s[i] \in S THEN Append(f[i - 1], s[i]) ELSE f[i - 1]]

LEMMA AmongIs ==
  ASSUME NEW s, NEW S
  PROVE  Among(s, S) = AmongTo(s, S)[Len(s)]
BY DEF Among, AmongTo

LEMMA AmongSteps ==
  ASSUME NEW s \in Seq(Good), NEW S, NEW f, f = AmongTo(s, S)
  PROVE  /\ f \in [0 .. Len(s) -> Seq(Good)] /\ f[0] = <<>>
         /\ \A i \in 1 .. Len(s) : f[i] = IF s[i] \in S THEN Append(f[i - 1], s[i]) ELSE f[i - 1]
<1> DEFINE N == Len(s)
           V == Seq(Good)
           F == [p \in (1 .. N) \X V |-> IF s[p[1]] \in S THEN Append(p[2], s[p[1]]) ELSE p[2]]
<1>1. N \in Nat /\ <<>> \in V /\ \A i \in 1 .. N : s[i] \in Good
  OBVIOUS
<1>2. F \in [(1 .. N) \X V -> V]
  <2>1. ASSUME NEW p \in (1 .. N) \X V
        PROVE  (IF s[p[1]] \in S THEN Append(p[2], s[p[1]]) ELSE p[2]) \in V
    <3>1. p[1] \in 1 .. N /\ p[2] \in Seq(Good) /\ s[p[1]] \in Good
      BY <1>1
    <3> QED
      BY <3>1
  <2> HIDE DEF N, V
  <2> QED
    BY <2>1
<1>3. PICK g \in [0 .. N -> V] : g[0] = <<>> /\ \A i \in 1 .. N : g[i] = F[<<i, g[i - 1]>>]
  <2> DEFINE b == <<>>
  <2>1. b \in V
    BY <1>1
  <2> HIDE DEF N, V, F, b
  <2>2. \E g \in [0 .. N -> V] : Walks(g, b, N, F)
    BY <1>1, <1>2, <2>1, WalksExist
  <2> QED
    BY <2>2 DEF b, Walks
<1>4. ASSUME NEW i \in 1 .. N
      PROVE  g[i] = IF s[i] \in S THEN Append(g[i - 1], s[i]) ELSE g[i - 1]
  <2>0. N \in Nat
    BY <1>1
  <2> HIDE DEF N, V
  <2>1. i - 1 \in 0 .. N /\ g[i - 1] \in V
    BY <2>0
  <2> QED
    BY <1>3, <2>1
<1>5. g = [i \in 0 .. N |-> IF i = 0 THEN <<>> ELSE IF s[i] \in S THEN Append(g[i - 1], s[i]) ELSE g[i - 1]]
  <2>0. N \in Nat
    BY <1>1
  <2> HIDE DEF N, V, F
  <2>1. \A i \in 0 .. N : i # 0 => i \in 1 .. N
    BY <2>0
  <2> QED
    BY <1>3, <1>4, <2>1
<1>6. f = [i \in 0 .. N |-> IF i = 0 THEN <<>> ELSE IF s[i] \in S THEN Append(f[i - 1], s[i]) ELSE f[i - 1]]
  BY <1>5 DEF AmongTo
<1> DEFINE D == {n \in Nat : n <= N => f[n] \in V}
<1>7. 0 \in D
  BY <1>1, <1>6
<1>8. ASSUME NEW n \in Nat, n \in D
      PROVE  n + 1 \in D
  <2> SUFFICES ASSUME n + 1 <= N
               PROVE  f[n + 1] \in V
    OBVIOUS
  <2>1. n + 1 \in 1 .. N /\ n + 1 \in 0 .. N /\ n + 1 # 0 /\ (n + 1) - 1 = n /\ s[n + 1] \in Good /\ f[n] \in V
    BY <1>1, <1>8
  <2>2. f[n + 1] = IF s[n + 1] \in S THEN Append(f[n], s[n + 1]) ELSE f[n]
    BY <1>6, <2>1
  <2> QED
    BY <2>1, <2>2
<1>9. \A n \in 0 .. N : f[n] \in V
  <2>1. Nat \subseteq D
    <3> HIDE DEF D
    <3> QED
      BY <1>7, <1>8, Counting
  <2> QED
    BY <1>1, <2>1
<1>10. \A i \in 1 .. N : i \in 0 .. N /\ i # 0
  BY <1>1
<1>11. f[0] = <<>>
  BY <1>1, <1>6
<1>12. \A i \in 1 .. N : f[i] = IF s[i] \in S THEN Append(f[i - 1], s[i]) ELSE f[i - 1]
  BY <1>6, <1>10
<1>13. f \in [0 .. N -> V]
  <2> HIDE DEF N, V
  <2> QED
    BY <1>6, <1>9
<1> QED
  BY <1>11, <1>12, <1>13

LEMMA AmongFacts ==
  ASSUME NEW s \in Seq(Good), NEW S
  PROVE  Among(s, S) \in Seq(Good) /\ ToSet(Among(s, S)) = ToSet(s) \cap S
<1> DEFINE f == AmongTo(s, S)
           N == Len(s)
           D == {n \in Nat : n <= N => ToSet(f[n]) = {s[i] : i \in 1 .. n} \cap S}
<1>1. /\ f \in [0 .. N -> Seq(Good)] /\ f[0] = <<>> /\ N \in Nat
      /\ \A i \in 1 .. N : f[i] = IF s[i] \in S THEN Append(f[i - 1], s[i]) ELSE f[i - 1]
  BY AmongSteps
<1> HIDE DEF f
<1>2. 0 \in D
  BY <1>1 DEF ToSet
<1>3. ASSUME NEW n \in Nat, n \in D
      PROVE  n + 1 \in D
  <2> SUFFICES ASSUME n + 1 <= N
               PROVE  ToSet(f[n + 1]) = {s[i] : i \in 1 .. n + 1} \cap S
    OBVIOUS
  <2>1. n + 1 \in 1 .. N /\ n \in 0 .. N /\ (n + 1) - 1 = n /\ f[n] \in Seq(Good) /\ s[n + 1] \in Good
    BY <1>1
  <2>2. f[n + 1] = IF s[n + 1] \in S THEN Append(f[n], s[n + 1]) ELSE f[n]
    BY <1>1, <2>1
  <2>3. {s[i] : i \in 1 .. n + 1} = {s[i] : i \in 1 .. n} \cup {s[n + 1]}
    <3>1. \A i \in 1 .. n + 1 : i \in 1 .. n \/ i = n + 1
      OBVIOUS
    <3> QED
      BY <3>1
  <2>4. ToSet(Append(f[n], s[n + 1])) = ToSet(f[n]) \cup {s[n + 1]}
    <3>1. DOMAIN Append(f[n], s[n + 1]) = DOMAIN f[n] \cup {Len(f[n]) + 1}
      BY <2>1
    <3>2. /\ \A j \in DOMAIN f[n] : Append(f[n], s[n + 1])[j] = f[n][j]
          /\ Append(f[n], s[n + 1])[Len(f[n]) + 1] = s[n + 1]
      BY <2>1
    <3> QED
      BY <3>1, <3>2 DEF ToSet
  <2> QED
    BY <1>3, <2>2, <2>3, <2>4
<1>4. N \in D
  <2> HIDE DEF D, N
  <2> QED
    BY <1>1, <1>2, <1>3, Counting
<1>5. N \in 0 .. N /\ {s[i] : i \in 1 .. N} = ToSet(s)
  BY <1>1 DEF ToSet
<1> QED
  BY <1>1, <1>4, <1>5, AmongIs DEF f

-----------------------------------------------------------------------------
OneEntry == \A d \in Registries, x \in Good : entry[d][x] = {} \/ \E a \in Place : entry[d][x] = {a}
(* No address is of a start that has not been *)
AddressesPast == \A d \in Registries, x \in Good : \A a \in entry[d][x] : a[2] <= start[a[1]]
(* A good is in a registry, or was and was taken out; what a site tells, and has told *)
Told(d, x) == entry[d][x] # {} \/ <<d, x>> \in gone
SiteOK(n) ==
  /\ bound[n] => life[n] = "serving" /\ \A x \in Stock(n) : Told(Advertises[n], x)
  /\ life[n] = "advertising" =>
       /\ ToSet(toTell[n]) \subseteq Stock(n)
       /\ \A x \in Stock(n) : x \in ToSet(toTell[n]) \/ Told(Advertises[n], x)
  /\ life[n] # "down" =>
       start[n] # 0 /\ \A d \in Registries, x \in Good : Here(n) \in entry[d][x] => x \in Stock(n)
SiteInv == AddressesPast /\ \A n \in Site : SiteOK(n)

(* What the round has seen, and has still to see *)
SeenWhile == \A g \in sight.goods : \E d \in Registries : <<d, g[1], g[2]>> \in during
SeenOnce == \A g, h \in sight.goods : g[1] = h[1] => g = h
Seen(s) == s[3] \in sight.nodes /\ \E g \in sight.goods : g[1] = s[2]
SeenAll == \A s \in steady : s[1] \in ToSet(round.asking) \/ s[1] \in sight.failed \/ Seen(s)
NodesAsked == \A s \in steady : s[1] = Head(round.asking) => s[3] \in round.nodes
CardsAsked ==
  /\ \A s \in steady : s[1] = Head(round.asking) /\ s[2] \notin Skills => <<s[2], s[3]>> \in round.cards
  /\ \A c \in round.cards : <<Head(round.asking), c[1], c[2]>> \in during /\ c[1] \notin Skills
  /\ \A b, c \in round.cards : b[1] = c[1] => b = c
RoundInv ==
  /\ round.asking # <<>> => round.on
  /\ round.on => Entries \subseteq during /\ steady \subseteq Entries /\ SeenWhile /\ SeenOnce /\ SeenAll
  /\ round.asking # <<>> /\ round.part # "nodes" => NodesAsked
  /\ round.asking # <<>> /\ round.part = "skills" => CardsAsked

LifeInv == NodeLifeTypeOK /\ OneEntry /\ SiteInv /\ RoundInv

LEMMA RegistriesAre ==
  /\ Directory \in Seq(Registries) => ToSet(Directory) = Registries
  /\ \A n \in Site : Advertises[n] \in Registries
BY NodeLifeAssumption DEF Registries

LEMMA OneIsFew ==
  ASSUME NEW S, S = {} \/ \E a : S = {a}
  PROVE  Cardinality(S) <= 1
<1>1. CASE S = {}
  BY <1>1, FS_EmptySet
<1>2. CASE \E a : S = {a}
  <2>1. PICK a : S = {a}
    BY <1>2
  <2>2. Cardinality({a}) = 1
    BY FS_Singleton
  <2> QED
    BY <2>1, <2>2
<1> QED
  BY <1>1, <1>2

LEMMA TripleIs ==
  ASSUME NEW s \in Registries \X Good \X Place
  PROVE  s = <<s[1], s[2], s[3]>> /\ s[1] \in Registries /\ s[2] \in Good /\ s[3] \in Place
OBVIOUS

LEMMA BothAreThere ==
  ASSUME NEW S, NEW s \in Seq(S), NEW t \in Seq(S)
  PROVE  s \o t \in Seq(S) /\ ToSet(s \o t) = ToSet(s) \cup ToSet(t)
<1>1. /\ s \o t \in Seq(S) /\ DOMAIN (s \o t) = 1 .. Len(s) + Len(t) /\ DOMAIN s = 1 .. Len(s)
      /\ DOMAIN t = 1 .. Len(t) /\ Len(s) \in Nat /\ Len(t) \in Nat
  OBVIOUS
<1>2. \A i \in 1 .. Len(s) + Len(t) : (s \o t)[i] = IF i <= Len(s) THEN s[i] ELSE t[i - Len(s)]
  OBVIOUS
<1>3. ToSet(s \o t) \subseteq ToSet(s) \cup ToSet(t)
  <2> SUFFICES ASSUME NEW i \in 1 .. Len(s) + Len(t)
               PROVE  (s \o t)[i] \in ToSet(s) \cup ToSet(t)
    BY <1>1 DEF ToSet
  <2>1. CASE i <= Len(s)
    <3>1. i \in DOMAIN s /\ (s \o t)[i] = s[i]
      BY <1>1, <1>2, <2>1
    <3> QED
      BY <3>1 DEF ToSet
  <2>2. CASE ~ (i <= Len(s))
    <3>1. i - Len(s) \in DOMAIN t /\ (s \o t)[i] = t[i - Len(s)]
      BY <1>1, <1>2, <2>2
    <3> QED
      BY <3>1 DEF ToSet
  <2> QED
    BY <2>1, <2>2
<1>4. ToSet(s) \subseteq ToSet(s \o t)
  <2>1. \A i \in DOMAIN s : i \in DOMAIN (s \o t) /\ (s \o t)[i] = s[i]
    BY <1>1, <1>2
  <2> QED
    BY <2>1 DEF ToSet
<1>5. ToSet(t) \subseteq ToSet(s \o t)
  <2>1. \A i \in DOMAIN t : i + Len(s) \in DOMAIN (s \o t) /\ (s \o t)[i + Len(s)] = t[i]
    BY <1>1, <1>2
  <2> QED
    BY <2>1 DEF ToSet
<1> QED
  BY <1>1, <1>3, <1>4, <1>5

LEMMA HeadAndTail ==
  ASSUME NEW S, NEW s \in Seq(S), s # <<>>
  PROVE  Head(s) \in S /\ Tail(s) \in Seq(S) /\ ToSet(s) = {Head(s)} \cup ToSet(Tail(s))
<1>1. Head(s) \in S /\ Tail(s) \in Seq(S) /\ Len(Tail(s)) = Len(s) - 1 /\ Len(s) \in Nat \ {0}
  OBVIOUS
<1>2. /\ s[1] = Head(s) /\ \A i \in 1 .. Len(Tail(s)) : Tail(s)[i] = s[i + 1]
  OBVIOUS
<1>3. \A i \in 1 .. Len(s) : i = 1 \/ (i - 1 \in 1 .. Len(Tail(s)) /\ (i - 1) + 1 = i)
  BY <1>1
<1>4. \A i \in 1 .. Len(Tail(s)) : i + 1 \in 1 .. Len(s)
  BY <1>1
<1>5. ToSet(s) \subseteq {Head(s)} \cup ToSet(Tail(s))
  <2> SUFFICES ASSUME NEW i \in 1 .. Len(s)
               PROVE  s[i] \in {Head(s)} \cup ToSet(Tail(s))
    BY DEF ToSet
  <2>1. CASE i = 1
    BY <1>2, <2>1
  <2>2. CASE i - 1 \in 1 .. Len(Tail(s)) /\ (i - 1) + 1 = i
    <3>1. Tail(s)[i - 1] = s[i]
      BY <1>2, <2>2
    <3>2. i - 1 \in DOMAIN Tail(s)
      BY <1>1, <2>2
    <3> QED
      BY <3>1, <3>2 DEF ToSet
  <2> QED
    BY <1>3, <2>1, <2>2
<1>6. {Head(s)} \cup ToSet(Tail(s)) \subseteq ToSet(s)
  <2>1. Head(s) \in ToSet(s)
    BY <1>1, <1>2 DEF ToSet
  <2>2. ASSUME NEW i \in 1 .. Len(Tail(s))
        PROVE  Tail(s)[i] \in ToSet(s)
    BY <1>1, <1>2, <1>4 DEF ToSet
  <2> QED
    BY <1>1, <2>1, <2>2 DEF ToSet
<1> QED
  BY <1>1, <1>5, <1>6

-----------------------------------------------------------------------------
LEMMA EnterIs ==
  ASSUME LifeInv, NEW d \in Registries, NEW x \in Good, NEW a \in Place, entry[d][x] = {}, Enter(d, x, a)
  PROVE  /\ entry' \in [Registries -> [Good -> SUBSET Place]]
         /\ entry'[d][x] = {a}
         /\ \A e \in Registries, y \in Good : e # d \/ y # x => entry'[e][y] = entry[e][y]
         /\ \A e \in Registries, y \in Good : Cardinality(entry'[e][y]) <= 1
         /\ OneEntry'
         /\ during' \subseteq Registries \X Good \X Place
<1>1. entry \in [Registries -> [Good -> SUBSET Place]] /\ during \subseteq Registries \X Good \X Place
  BY DEF LifeInv, NodeLifeTypeOK
<1> HIDE DEF Place
<1>2. entry' \in [Registries -> [Good -> SUBSET Place]]
  BY <1>1 DEF Enter
<1>3. entry'[d][x] = {a} /\ \A e \in Registries, y \in Good : e # d \/ y # x => entry'[e][y] = entry[e][y]
  BY <1>1 DEF Enter
<1>4. OneEntry'
  <2> SUFFICES ASSUME NEW e \in Registries, NEW y \in Good
               PROVE  entry'[e][y] = {} \/ \E b \in Place : entry'[e][y] = {b}
    BY DEF OneEntry, Place
  <2>1. CASE e = d /\ y = x
    BY <1>3, <2>1
  <2>2. CASE e # d \/ y # x
    BY <1>3, <2>2 DEF LifeInv, OneEntry
  <2> QED
    BY <2>1, <2>2
<1>5. ASSUME NEW e \in Registries, NEW y \in Good
      PROVE  Cardinality(entry'[e][y]) <= 1
  BY <1>4, OneIsFew DEF OneEntry
<1>6. during' \subseteq Registries \X Good \X Place
  BY <1>1 DEF Enter
<1> QED
  BY <1>2, <1>3, <1>4, <1>5, <1>6

LEMMA EnterKeepsRound ==
  ASSUME LifeInv, NEW d \in Registries, NEW x \in Good, NEW a \in Place, entry[d][x] = {}, Enter(d, x, a),
         UNCHANGED <<round, sight, steady>>
  PROVE  RoundInv'
<1>1. /\ entry'[d][x] = {a}
      /\ \A e \in Registries, y \in Good : e # d \/ y # x => entry'[e][y] = entry[e][y]
  BY EnterIs
<1>2. during \subseteq during' /\ (round.on => <<d, x, a>> \in during')
  BY DEF Enter
<1>3. Entries' \subseteq Entries \cup {<<d, x, a>>}
  <2> SUFFICES ASSUME NEW s \in Registries \X Good \X Place, s[3] \in entry'[s[1]][s[2]]
               PROVE  s \in Entries \cup {<<d, x, a>>}
    BY DEF Entries, Place
  <2>1. s = <<s[1], s[2], s[3]>> /\ s[1] \in Registries /\ s[2] \in Good /\ s[3] \in Place
    BY TripleIs
  <2>2. CASE s[1] = d /\ s[2] = x
    BY <1>1, <2>1, <2>2
  <2>3. CASE s[1] # d \/ s[2] # x
    BY <1>1, <2>1, <2>3 DEF Entries
  <2> QED
    BY <2>2, <2>3
<1>4. Entries \subseteq Entries'
  <2> SUFFICES ASSUME NEW s \in Entries
               PROVE  s \in Entries'
    OBVIOUS
  <2>1. s \in Registries \X Good \X Place /\ s[3] \in entry[s[1]][s[2]]
    BY DEF Entries
  <2>2. s[1] \in Registries /\ s[2] \in Good
    BY <2>1
  <2>3. s[1] # d \/ s[2] # x
    BY <2>1
  <2> QED
    BY <1>1, <2>1, <2>2, <2>3 DEF Entries, Place
<1>5. round' = round /\ sight' = sight /\ steady' = steady
  OBVIOUS
<1>6. SeenWhile => SeenWhile'
  BY <1>2, <1>5 DEF SeenWhile, Registries
<1>7. (SeenOnce => SeenOnce') /\ (SeenAll => SeenAll') /\ (NodesAsked => NodesAsked')
  BY <1>5 DEF SeenOnce, SeenAll, Seen, NodesAsked
<1>8. CardsAsked => CardsAsked'
  BY <1>2, <1>5 DEF CardsAsked
<1> QED
  BY <1>2, <1>3, <1>4, <1>5, <1>6, <1>7, <1>8 DEF LifeInv, RoundInv

LEMMA StillRound ==
  ASSUME LifeInv, UNCHANGED <<entry, round, sight, steady, during>>
  PROVE  RoundInv' /\ OneEntry' /\ \A d \in Registries, x \in Good : Cardinality(entry'[d][x]) <= 1
<1>1. RoundInv'
  BY DEF LifeInv, RoundInv, Entries, Place, Registries, SeenWhile, SeenOnce, SeenAll, Seen, NodesAsked, CardsAsked
<1>2. OneEntry'
  BY DEF LifeInv, OneEntry, Place, Registries
<1> QED
  BY <1>1, <1>2 DEF LifeInv, NodeLifeTypeOK

-----------------------------------------------------------------------------
LEMMA StockIs ==
  ASSUME NodeLifeTypeOK, NEW n \in Site
  PROVE  Stock(n) \subseteq Good /\ held[n] \in Seq(Good) /\ toTell[n] \in Seq(Good)
<1>1. held[n] \in Seq(Good) /\ toTell[n] \in Seq(Good)
  BY DEF NodeLifeTypeOK
<1> QED
  BY <1>1 DEF Stock, ToSet

LEMMA SameSite ==
  ASSUME NEW n \in Site, SiteOK(n), life'[n] = life[n], held'[n] = held[n], toTell'[n] = toTell[n],
         bound'[n] = bound[n], start'[n] = start[n], UNCHANGED <<entry, gone>>
  PROVE  SiteOK(n)'
<1>1. Stock(n)' = Stock(n) /\ Here(n)' = Here(n)
  BY DEF Stock, Here, ToSet
<1> QED
  BY <1>1 DEF SiteOK, Told, ToSet, Registries

LEMMA TypesStay ==
  ASSUME LifeInv, life' \in [Site -> {"down", "loading", "advertising", "serving"}],
         start' \in [Site -> 0 .. MaxStarts], bound' \in [Site -> BOOLEAN],
         toLoad' \in [Site -> Seq(Package)], toTell' \in [Site -> Seq(Good)],
         loaded' \in [Site -> SUBSET Package], held' \in [Site -> Seq(Good)],
         UNCHANGED <<entry, gone, round, sight, steady, during>>, mishaps' \in 0 .. MaxMishaps,
         SiteInv'
  PROVE  LifeInv'
<1>1. NodeLifeTypeOK'
  BY StillRound DEF LifeInv, NodeLifeTypeOK, Registries, Place
<1> QED
  BY <1>1, StillRound DEF LifeInv

LEMMA BootKeeps ==
  ASSUME LifeInv, NEW n \in Site, Boot(n)
  PROVE  LifeInv'
<1> USE NodeLifeAssumption
<1>1. NodeLifeTypeOK /\ SiteInv
  BY DEF LifeInv
<1>2. start' = [start EXCEPT ![n] = start[n] + 1] /\ start[n] \in Nat /\ start[n] + 1 \in 0 .. MaxStarts
  BY <1>1 DEF Boot, NodeLifeTypeOK
<1>3. AddressesPast'
  <2> SUFFICES ASSUME NEW d \in Registries, NEW x \in Good, NEW a \in entry[d][x]
               PROVE  a[2] <= start'[a[1]]
    BY DEF Boot, AddressesPast, Registries
  <2>1. a \in Place
    BY <1>1 DEF NodeLifeTypeOK
  <2>2. a[1] \in Site /\ a[2] \in 1 .. MaxStarts
    BY <2>1 DEF Place
  <2>3. a[2] <= start[a[1]] /\ start[a[1]] \in Nat
    BY <1>1, <2>2 DEF SiteInv, AddressesPast, NodeLifeTypeOK
  <2>4. start'[a[1]] = start[a[1]] \/ start'[a[1]] = start[a[1]] + 1
    BY <1>1, <1>2, <2>2 DEF NodeLifeTypeOK
  <2> QED
    BY <2>2, <2>3, <2>4
<1>4. ASSUME NEW m \in Site
      PROVE  SiteOK(m)'
  <2>1. CASE m # n
    <3>1. SiteOK(m)
      BY <1>1 DEF SiteInv
    <3>2. life'[m] = life[m] /\ start'[m] = start[m]
      BY <1>1, <1>2, <2>1 DEF Boot, NodeLifeTypeOK
    <3> QED
      BY <3>1, <3>2, SameSite DEF Boot
  <2>2. CASE m = n
    <3>1. life'[n] = "loading" /\ ~bound'[n] /\ entry' = entry
      BY <1>1 DEF Boot, NodeLifeTypeOK, SiteInv, SiteOK
    <3>2. ASSUME NEW d \in Registries, NEW x \in Good, Here(n)' \in entry[d][x]
          PROVE  FALSE
      <4>1. Here(n)' = <<n, start[n] + 1>>
        BY <1>1, <1>2 DEF Here, NodeLifeTypeOK
      <4>2. start[n] + 1 <= start[n]
        BY <1>1, <3>2, <4>1 DEF SiteInv, AddressesPast
      <4> QED
        BY <1>2, <4>2
    <3>3. start'[n] # 0
      BY <1>1, <1>2 DEF NodeLifeTypeOK
    <3> QED
      BY <2>2, <3>1, <3>2, <3>3 DEF SiteOK, Registries
  <2> QED
    BY <2>1, <2>2
<1>5. SiteInv'
  BY <1>3, <1>4 DEF SiteInv
<1>6. /\ life' \in [Site -> {"down", "loading", "advertising", "serving"}]
      /\ start' \in [Site -> 0 .. MaxStarts] /\ toLoad' \in [Site -> Seq(Package)]
  BY <1>1, <1>2 DEF Boot, NodeLifeTypeOK
<1> QED
  BY <1>1, <1>5, <1>6, TypesStay DEF Boot, NodeLifeTypeOK

(* A site changes by itself, and no entry does *)
LEMMA SiteChanges ==
  ASSUME LifeInv, NEW n \in Site, NEW newLife \in {"down", "loading", "advertising", "serving"},
         NEW newBound \in BOOLEAN, NEW newTell \in Seq(Good), NEW newHeld \in Seq(Good),
         life' = [life EXCEPT ![n] = newLife], bound' = [bound EXCEPT ![n] = newBound],
         toTell' = [toTell EXCEPT ![n] = newTell], held' = [held EXCEPT ![n] = newHeld],
         toLoad' \in [Site -> Seq(Package)], loaded' \in [Site -> SUBSET Package],
         UNCHANGED <<start, entry, gone, round, sight, steady, during>>, mishaps' \in 0 .. MaxMishaps,
         SiteOK(n)'
  PROVE  LifeInv'
<1>1. NodeLifeTypeOK /\ SiteInv
  BY DEF LifeInv
<1>2. ASSUME NEW m \in Site
      PROVE  SiteOK(m)'
  <2>1. CASE m # n
    <3>1. SiteOK(m)
      BY <1>1 DEF SiteInv
    <3>2. life'[m] = life[m] /\ held'[m] = held[m] /\ toTell'[m] = toTell[m] /\ bound'[m] = bound[m]
      BY <1>1, <2>1 DEF NodeLifeTypeOK
    <3> QED
      BY <3>1, <3>2, SameSite
  <2> QED
    BY <2>1
<1>3. SiteInv'
  BY <1>1, <1>2 DEF SiteInv, AddressesPast, Registries
<1>4. /\ life' \in [Site -> {"down", "loading", "advertising", "serving"}] /\ bound' \in [Site -> BOOLEAN]
      /\ toTell' \in [Site -> Seq(Good)] /\ held' \in [Site -> Seq(Good)] /\ start' \in [Site -> 0 .. MaxStarts]
  BY <1>1 DEF NodeLifeTypeOK
<1> QED
  BY <1>3, <1>4, TypesStay

LEMMA DieKeeps ==
  ASSUME LifeInv, NEW n \in Site, Die(n), mishaps' \in 0 .. MaxMishaps,
         UNCHANGED <<start, entry, gone, round, sight, steady, during>>
  PROVE  LifeInv'
<1>1. NodeLifeTypeOK
  BY DEF LifeInv
<1>2. SiteOK(n)'
  BY <1>1 DEF SiteOK, Die, NodeLifeTypeOK
<1>3. toLoad' \in [Site -> Seq(Package)] /\ loaded' \in [Site -> SUBSET Package]
  BY <1>1 DEF Die, NodeLifeTypeOK
<1>4. <<>> \in Seq(Good) /\ FALSE \in BOOLEAN
  OBVIOUS
<1> QED
  BY <1>2, <1>3, <1>4, SiteChanges DEF Die

LEMMA LoadPackageKeeps ==
  ASSUME LifeInv, NEW n \in Site, LoadPackage(n)
  PROVE  LifeInv'
<1> USE NodeLifeAssumption
<1>1. NodeLifeTypeOK /\ SiteOK(n) /\ held[n] \in Seq(Good) /\ toLoad[n] \in Seq(Package)
  BY DEF LifeInv, SiteInv, NodeLifeTypeOK
<1> DEFINE k == Head(toLoad[n])
<1>2. life[n] = "loading" /\ toLoad[n] # <<>> /\ k \in Package /\ Tail(toLoad[n]) \in Seq(Package)
  BY <1>1 DEF LoadPackage
<1>3. Brings[k] \in Seq(Good)
  BY <1>2
<1>4. PICK i \in 0 .. Len(Brings[k]) :
        IF k \in Vital /\ i < Len(Brings[k]) THEN Die(n)
        ELSE /\ held' = [held EXCEPT ![n] = held[n] \o SubSeq(Brings[k], 1, i)]
             /\ loaded' = [loaded EXCEPT ![n] = IF i = Len(Brings[k]) THEN loaded[n] \cup {k} ELSE loaded[n]]
             /\ toLoad' = [toLoad EXCEPT ![n] = Tail(toLoad[n])]
             /\ UNCHANGED <<life, toTell, bound>>
  BY <1>1 DEF LoadPackage, NodeLifeTypeOK
<1>5. UNCHANGED <<start, entry, gone, round, sight, steady, during>> /\ mishaps' \in 0 .. MaxMishaps
  BY <1>1 DEF LoadPackage, NodeLifeTypeOK
<1>6. CASE k \in Vital /\ i < Len(Brings[k])
  BY <1>4, <1>5, <1>6, DieKeeps
<1>7. CASE ~ (k \in Vital /\ i < Len(Brings[k]))
  <2> DEFINE new == held[n] \o SubSeq(Brings[k], 1, i)
  <2>1. new \in Seq(Good) /\ ToSet(held[n]) \subseteq ToSet(new)
    <3> DEFINE more == SubSeq(Brings[k], 1, i)
    <3>1. more \in Seq(Good)
      BY <1>3
    <3>2. new = held[n] \o more
      OBVIOUS
    <3> HIDE DEF more, new
    <3>3. held[n] \o more \in Seq(Good) /\ ToSet(held[n] \o more) = ToSet(held[n]) \cup ToSet(more)
      BY <1>1, <3>1, BothAreThere
    <3> QED
      BY <3>2, <3>3
  <2>2. /\ held' = [held EXCEPT ![n] = new] /\ toLoad' = [toLoad EXCEPT ![n] = Tail(toLoad[n])]
        /\ UNCHANGED <<life, toTell, bound>>
        /\ loaded' = [loaded EXCEPT ![n] = IF i = Len(Brings[k]) THEN loaded[n] \cup {k} ELSE loaded[n]]
    BY <1>4, <1>7
  <2>3. toLoad' \in [Site -> Seq(Package)] /\ loaded' \in [Site -> SUBSET Package] /\ held'[n] = new
    BY <1>1, <1>2, <2>2 DEF NodeLifeTypeOK
  <2> HIDE DEF new, k
  <2>4. SiteOK(n)'
    <3>1. ~bound'[n] /\ life'[n] = "loading"
      BY <1>1, <1>2, <2>2 DEF SiteOK, NodeLifeTypeOK
    <3>2. Stock(n) \subseteq Stock(n)'
      BY <2>1, <2>3 DEF Stock
    <3>3. Here(n)' = Here(n) /\ entry' = entry /\ start' = start
      BY <1>5 DEF Here
    <3> QED
      BY <1>1, <1>2, <3>1, <3>2, <3>3 DEF SiteOK, Registries
  <2>5. /\ life' = [life EXCEPT ![n] = life[n]] /\ toTell' = [toTell EXCEPT ![n] = toTell[n]]
        /\ bound' = [bound EXCEPT ![n] = bound[n]]
        /\ life[n] \in {"down", "loading", "advertising", "serving"} /\ bound[n] \in BOOLEAN /\ toTell[n] \in Seq(Good)
    BY <1>1, <2>2 DEF NodeLifeTypeOK
  <2> QED
    BY <1>5, <2>1, <2>2, <2>3, <2>4, <2>5, SiteChanges
<1> QED
  BY <1>6, <1>7

LEMMA StopKeeps ==
  ASSUME LifeInv, NEW n \in Site, Stop(n)
  PROVE  LifeInv'
BY DieKeeps DEF Stop, LifeInv, NodeLifeTypeOK

LEMMA AdvertiseKeeps ==
  ASSUME LifeInv, NEW n \in Site, Advertise(n)
  PROVE  LifeInv'
<1>1. NodeLifeTypeOK /\ SiteOK(n) /\ held[n] \in Seq(Good) /\ Stock(n) \subseteq Good
  BY StockIs DEF LifeInv, SiteInv
<1>2. ToAdvertise(n) \in Seq(Good) /\ ToSet(ToAdvertise(n)) = Stock(n)
  <2> DEFINE s == Among(held[n], Good \ Skills)
             t == Among(held[n], Skills)
  <2>1. s \in Seq(Good) /\ t \in Seq(Good) /\ ToSet(s) = Stock(n) \cap (Good \ Skills) /\ ToSet(t) = Stock(n) \cap Skills
    BY <1>1, AmongFacts DEF Stock
  <2> HIDE DEF s, t
  <2>2. s \o t \in Seq(Good) /\ ToSet(s \o t) = ToSet(s) \cup ToSet(t)
    BY <2>1, BothAreThere
  <2>3. ToAdvertise(n) = s \o t
    BY DEF ToAdvertise, s, t
  <2> QED
    BY <1>1, <2>1, <2>2, <2>3
<1>3. /\ life'[n] = "advertising" /\ toTell'[n] = ToAdvertise(n) /\ ~bound'[n]
      /\ Stock(n)' = Stock(n) /\ Here(n)' = Here(n) /\ entry' = entry
  BY <1>1 DEF Advertise, NodeLifeTypeOK, SiteOK, Stock, Here
<1>4. SiteOK(n)'
  BY <1>1, <1>2, <1>3 DEF SiteOK, Registries, Advertise
<1>5. /\ held' = [held EXCEPT ![n] = held[n]] /\ bound' = [bound EXCEPT ![n] = bound[n]] /\ bound[n] \in BOOLEAN
  BY <1>1 DEF Advertise, NodeLifeTypeOK
<1>6. toLoad' \in [Site -> Seq(Package)] /\ loaded' \in [Site -> SUBSET Package] /\ mishaps' \in 0 .. MaxMishaps
  BY <1>1 DEF Advertise, NodeLifeTypeOK
<1> QED
  BY <1>1, <1>2, <1>4, <1>5, <1>6, SiteChanges DEF Advertise

(* A good is told of: what has been told is told, and the addresses are the site's own *)
Telling(n, newLife, newTell) ==
  /\ life[n] = "advertising" /\ toTell[n] # <<>>
  /\ \/ UNCHANGED <<entry, during>>
     \/ entry[Advertises[n]][Head(toTell[n])] = {} /\ Enter(Advertises[n], Head(toTell[n]), Here(n))
  /\ newLife = "advertising" =>
       newTell = Tail(toTell[n]) /\ entry'[Advertises[n]][Head(toTell[n])] # {}
  /\ life' = [life EXCEPT ![n] = newLife] /\ toTell' = [toTell EXCEPT ![n] = newTell]
  /\ UNCHANGED <<start, toLoad, loaded, held, bound, gone, round, sight, steady>>
  /\ mishaps' \in 0 .. MaxMishaps
LEMMA TellingKeeps ==
  ASSUME LifeInv, NEW n \in Site, NEW newLife \in {"advertising", "serving"}, NEW newTell \in Seq(Good),
         Telling(n, newLife, newTell)
  PROVE  LifeInv'
<1> USE NodeLifeAssumption
<1> DEFINE d == Advertises[n]
           x == Head(toTell[n])
<1>1. /\ NodeLifeTypeOK /\ SiteInv /\ SiteOK(n) /\ OneEntry /\ RoundInv /\ d \in Registries
      /\ held[n] \in Seq(Good) /\ toTell[n] \in Seq(Good) /\ Stock(n) \subseteq Good
  BY StockIs DEF LifeInv, SiteInv
<1>2. /\ x \in Good /\ ToSet(toTell[n]) = {x} \cup ToSet(Tail(toTell[n]))
      /\ life[n] = "advertising" /\ toTell[n] # <<>>
  BY <1>1, HeadAndTail DEF Telling
<1>0. /\ start' = start /\ toLoad' = toLoad /\ loaded' = loaded /\ held' = held /\ bound' = bound
      /\ gone' = gone /\ round' = round /\ sight' = sight /\ steady' = steady
  BY DEF Telling
<1>3. x \in Stock(n)
  BY <1>1, <1>2 DEF SiteOK
<1>4. Here(n) \in Place /\ start[n] \in 1 .. MaxStarts
  <2>1. start[n] \in 0 .. MaxStarts
    BY <1>1 DEF NodeLifeTypeOK
  <2>2. start[n] # 0
    BY <1>1, <1>2 DEF SiteOK
  <2> QED
    BY <2>1, <2>2 DEF Here, Place
<1> HIDE DEF d, x
<1>5. /\ entry' \in [Registries -> [Good -> SUBSET Place]]
      /\ \A e \in Registries, y \in Good : Cardinality(entry'[e][y]) <= 1
      /\ OneEntry' /\ during' \subseteq Registries \X Good \X Place /\ RoundInv'
      /\ \A e \in Registries, y \in Good : entry'[e][y] = entry[e][y] \/ (e = d /\ y = x /\ entry'[e][y] = {Here(n)})
  <2>1. CASE UNCHANGED <<entry, during>>
    BY <1>0, <1>1, <2>1, StillRound DEF NodeLifeTypeOK, Registries, Place
  <2>2. CASE entry[d][x] = {} /\ Enter(d, x, Here(n))
    <3>1. RoundInv'
      BY <1>0, <1>1, <1>2, <1>4, <2>2, EnterKeepsRound
    <3>2. /\ entry' \in [Registries -> [Good -> SUBSET Place]]
          /\ entry'[d][x] = {Here(n)}
          /\ \A e \in Registries, y \in Good : e # d \/ y # x => entry'[e][y] = entry[e][y]
          /\ \A e \in Registries, y \in Good : Cardinality(entry'[e][y]) <= 1
          /\ OneEntry'
          /\ during' \subseteq Registries \X Good \X Place
      BY <1>1, <1>2, <1>4, <2>2, EnterIs
    <3> QED
      BY <3>1, <3>2
  <2> QED
    BY <2>1, <2>2 DEF Telling, d, x
<1>6. \A e \in Registries, y \in Good : Told(e, y) => Told(e, y)'
  BY <1>0, <1>5 DEF Told
<1>7. \A m \in Site : Stock(m)' = Stock(m) /\ Here(m)' = Here(m) /\ Stock(m) \subseteq Good
  BY <1>0, <1>1, StockIs DEF Stock, Here, ToSet
<1>8. AddressesPast'
  <2> SUFFICES ASSUME NEW e \in Registries, NEW y \in Good, NEW a \in entry'[e][y]
               PROVE  a[2] <= start[a[1]]
    BY <1>0 DEF AddressesPast, Registries
  <2>1. CASE a \in entry[e][y]
    BY <1>1, <2>1 DEF SiteInv, AddressesPast
  <2>2. CASE a = Here(n)
    BY <1>4, <2>2 DEF Here
  <2>3. a \in entry[e][y] \/ a = Here(n)
    BY <1>5
  <2> QED
    BY <2>1, <2>2, <2>3
<1>9. ASSUME NEW m \in Site
      PROVE  SiteOK(m)'
  <2>1. SiteOK(m) /\ Advertises[m] \in Registries
    BY <1>1, RegistriesAre DEF SiteInv
  <2>2. ASSUME NEW e \in Registries, NEW y \in Good, life[m] # "down", Here(m) \in entry'[e][y]
        PROVE  y \in Stock(m)
    <3>1. CASE Here(m) \in entry[e][y]
      BY <2>1, <2>2, <3>1 DEF SiteOK
    <3>2. CASE y = x /\ Here(m) = Here(n)
      <4>1. m = n
        BY <3>2 DEF Here
      <4> QED
        BY <1>3, <3>2, <4>1
    <3> QED
      BY <1>5, <2>2, <3>1, <3>2
  <2>3. CASE m # n
    <3>1. life'[m] = life[m] /\ toTell'[m] = toTell[m]
      BY <1>1, <2>3 DEF NodeLifeTypeOK, Telling
    <3> QED
      BY <1>0, <1>6, <1>7, <2>1, <2>2, <3>1 DEF SiteOK, Registries
  <2>4. CASE m = n
    <3>1. life'[n] = newLife /\ toTell'[n] = newTell /\ ~bound'[n]
      BY <1>0, <1>1, <1>2, <2>1, <2>4 DEF SiteOK, NodeLifeTypeOK, Telling
    <3>2. ASSUME newLife = "advertising"
          PROVE  /\ ToSet(newTell) \subseteq Stock(n)
                 /\ \A y \in Stock(n) : y \in ToSet(newTell) \/ Told(d, y)'
      <4>2. newTell = Tail(toTell[n]) /\ entry'[d][x] # {}
        BY <3>2 DEF Telling, d, x
      <4>1. ToSet(newTell) \subseteq ToSet(toTell[n])
        BY <1>2, <4>2
      <4>3. /\ ToSet(toTell[n]) \subseteq Stock(n)
            /\ \A y \in Stock(n) : y \in ToSet(toTell[n]) \/ Told(d, y)
        BY <1>1, <1>2 DEF SiteOK, d
      <4>4. ASSUME NEW y \in Stock(n)
            PROVE  y \in ToSet(newTell) \/ Told(d, y)'
        <5>1. y \in Good /\ (Told(d, y) => Told(d, y)')
          BY <1>1, <1>6
        <5>2. CASE y = x
          <6>1. entry'[d][y] # {}
            BY <4>2, <5>2
          <6> QED
            BY <6>1 DEF Told
        <5>3. CASE y # x
          BY <1>2, <4>2, <4>3, <5>1, <5>3
        <5> QED
          BY <5>2, <5>3
      <4> QED
        BY <4>1, <4>3, <4>4
    <3>3. \A e \in Registries, y \in Good : Here(n) \in entry'[e][y] => y \in Stock(n)
      BY <1>2, <2>2, <2>4
    <3>4. start'[n] # 0
      BY <1>0, <1>4
    <3>5. newLife \in {"advertising", "serving"} /\ d = Advertises[n] /\ Stock(n)' = Stock(n) /\ Here(n)' = Here(n)
      BY <1>7 DEF d
    <3> QED
      BY <2>4, <3>1, <3>2, <3>3, <3>4, <3>5 DEF SiteOK, Registries
  <2> QED
    BY <2>3, <2>4
<1>10. NodeLifeTypeOK'
  <2>1. /\ life' \in [Site -> {"down", "loading", "advertising", "serving"}]
        /\ toTell' \in [Site -> Seq(Good)]
    BY <1>1 DEF NodeLifeTypeOK, Telling
  <2>2. mishaps' \in 0 .. MaxMishaps
    BY DEF Telling
  <2> QED
    BY <1>0, <1>1, <1>5, <2>1, <2>2 DEF NodeLifeTypeOK, Registries, Place
<1> QED
  BY <1>5, <1>8, <1>9, <1>10 DEF LifeInv, SiteInv

LEMMA TellKeeps ==
  ASSUME LifeInv, NEW n \in Site, Tell(n)
  PROVE  LifeInv'
<1>1. NodeLifeTypeOK /\ toTell[n] \in Seq(Good) /\ Advertises[n] \in Registries
  BY RegistriesAre DEF LifeInv, NodeLifeTypeOK
<1>2. life[n] = "advertising" /\ toTell[n] # <<>>
  BY DEF Tell
<1> DEFINE d == Advertises[n]
           x == Head(toTell[n])
<1>3. Tail(toTell[n]) \in Seq(Good) /\ x \in Good
  BY <1>1, <1>2
<1>4. \/ UNCHANGED <<entry, during>>
      \/ entry[d][x] = {} /\ Enter(d, x, Here(n))
  BY DEF Tell, Refuses
<1>5. entry'[d][x] # {}
  <2>1. CASE entry[d][x] # {}
    BY <2>1 DEF Tell, Refuses
  <2>2. CASE ~ (entry[d][x] # {})
    <3>1. entry' = [entry EXCEPT ![d][x] = entry[d][x] \cup {Here(n)}]
      BY <2>2 DEF Tell, Refuses, Enter
    <3>2. entry'[d][x] = entry[d][x] \cup {Here(n)}
      BY <1>1, <1>3, <3>1 DEF NodeLifeTypeOK
    <3> QED
      BY <3>2
  <2> QED
    BY <2>1, <2>2
<1>6. life' = [life EXCEPT ![n] = "advertising"] /\ mishaps' \in 0 .. MaxMishaps
  BY <1>1, <1>2 DEF Tell, NodeLifeTypeOK
<1> QED
  <2>1. Telling(n, "advertising", Tail(toTell[n]))
    BY <1>2, <1>4, <1>5, <1>6 DEF Tell, Telling
  <2> QED
    BY <1>3, <2>1, TellingKeeps

LEMMA TellFailsKeeps ==
  ASSUME LifeInv, NEW n \in Site, TellFails(n)
  PROVE  LifeInv'
<1>1. NodeLifeTypeOK
  BY DEF LifeInv
<1>2. <<>> \in Seq(Good) /\ mishaps' \in 0 .. MaxMishaps
  BY <1>1, NodeLifeAssumption DEF TellFails, Mishap, NodeLifeTypeOK
<1> QED
  <2>1. Telling(n, "serving", <<>>)
    BY <1>2 DEF TellFails, GiveUp, Refuses, Telling
  <2> QED
    BY <1>2, <2>1, TellingKeeps

LEMMA BindRegistryKeeps ==
  ASSUME LifeInv, NEW n \in Site, BindRegistry(n)
  PROVE  LifeInv'
<1>1. NodeLifeTypeOK /\ SiteOK(n) /\ held[n] \in Seq(Good) /\ toTell[n] \in Seq(Good)
  BY StockIs DEF LifeInv, SiteInv
<1>2. /\ life'[n] = "serving" /\ bound'[n] /\ toTell[n] = <<>> /\ life[n] = "advertising"
      /\ Stock(n)' = Stock(n) /\ Here(n)' = Here(n) /\ entry' = entry /\ gone' = gone
  BY <1>1 DEF BindRegistry, NodeLifeTypeOK, Stock, Here
<1>3. ToSet(toTell[n]) = {}
  BY <1>2 DEF ToSet
<1>4. SiteOK(n)'
  BY <1>1, <1>2, <1>3 DEF SiteOK, Told, Registries, BindRegistry
<1>5. /\ held' = [held EXCEPT ![n] = held[n]] /\ toTell' = [toTell EXCEPT ![n] = toTell[n]]
      /\ toLoad' \in [Site -> Seq(Package)] /\ loaded' \in [Site -> SUBSET Package] /\ mishaps' \in 0 .. MaxMishaps
  BY <1>1 DEF BindRegistry, NodeLifeTypeOK
<1> QED
  BY <1>1, <1>4, <1>5, SiteChanges DEF BindRegistry

(* An operator takes an entry out *)
LEMMA TakeOutKeeps ==
  ASSUME LifeInv, NEW d \in Registries, NEW x \in Good, TakeOut(d, x)
  PROVE  LifeInv'
<1> USE NodeLifeAssumption
<1>1. NodeLifeTypeOK /\ SiteInv /\ OneEntry /\ RoundInv
  BY DEF LifeInv
<1>2. /\ entry' = [entry EXCEPT ![d][x] = {}] /\ gone' = gone \cup {<<d, x>>}
      /\ steady' = IF round.on THEN {s \in steady : s[1] # d \/ s[2] # x} ELSE steady
  BY DEF TakeOut, Leave
<1>3. /\ life' = life /\ start' = start /\ toLoad' = toLoad /\ loaded' = loaded /\ held' = held
      /\ toTell' = toTell /\ bound' = bound /\ round' = round /\ sight' = sight /\ during' = during
      /\ mishaps' \in 0 .. MaxMishaps
  BY <1>1 DEF TakeOut, Mishap, NodeLifeTypeOK
<1>4. entry \in [Registries -> [Good -> SUBSET Place]]
  BY <1>1 DEF NodeLifeTypeOK
<1>5. /\ entry' \in [Registries -> [Good -> SUBSET Place]] /\ entry'[d][x] = {}
      /\ \A e \in Registries, y \in Good : e # d \/ y # x => entry'[e][y] = entry[e][y]
  <2> HIDE DEF Place
  <2> QED
    BY <1>2, <1>4
<1>6. \A e \in Registries, y \in Good : entry'[e][y] \subseteq entry[e][y]
  BY <1>5
<1>7. OneEntry' /\ \A e \in Registries, y \in Good : Cardinality(entry'[e][y]) <= 1
  <2>1. ASSUME NEW e \in Registries, NEW y \in Good
        PROVE  entry'[e][y] = {} \/ \E a \in Place : entry'[e][y] = {a}
    <3>1. entry[e][y] = {} \/ \E a \in Place : entry[e][y] = {a}
      BY <1>1 DEF OneEntry
    <3>2. entry'[e][y] = {} \/ entry'[e][y] = entry[e][y]
      BY <1>5
    <3> HIDE DEF Place
    <3> QED
      BY <3>1, <3>2
  <2>2. ASSUME NEW e \in Registries, NEW y \in Good
        PROVE  Cardinality(entry'[e][y]) <= 1
    BY <2>1, OneIsFew
  <2> QED
    BY <2>1, <2>2 DEF OneEntry, Registries, Place
<1>8. \A e \in Registries, y \in Good : Told(e, y) => Told(e, y)'
  <2> SUFFICES ASSUME NEW e \in Registries, NEW y \in Good, Told(e, y)
               PROVE  Told(e, y)'
    OBVIOUS
  <2>1. CASE e = d /\ y = x
    BY <1>2, <2>1 DEF Told
  <2>2. CASE e # d \/ y # x
    BY <1>2, <1>5, <2>2 DEF Told
  <2> QED
    BY <2>1, <2>2
<1>9. AddressesPast'
  BY <1>1, <1>3, <1>6 DEF SiteInv, AddressesPast, Registries
<1>10. ASSUME NEW n \in Site
       PROVE  SiteOK(n)'
  <2>1. SiteOK(n) /\ Advertises[n] \in Registries /\ Stock(n) \subseteq Good
    BY <1>1, RegistriesAre, StockIs DEF SiteInv
  <2>2. Stock(n)' = Stock(n) /\ Here(n)' = Here(n) /\ ToSet(toTell[n])' = ToSet(toTell[n])
    BY <1>3 DEF Stock, Here
  <2>3. \A y \in Stock(n) : Told(Advertises[n], y) => Told(Advertises[n], y)'
    BY <1>8, <2>1
  <2> QED
    BY <1>3, <1>6, <2>1, <2>2, <2>3 DEF SiteOK, Registries
<1>11. RoundInv'
  <2>1. Entries' = {s \in Entries : s[1] # d \/ s[2] # x}
    <3>1. ASSUME NEW s \in Registries \X Good \X Place
          PROVE  s[3] \in entry'[s[1]][s[2]] <=> (s[3] \in entry[s[1]][s[2]] /\ (s[1] # d \/ s[2] # x))
      <4>1. s[1] \in Registries /\ s[2] \in Good
        OBVIOUS
      <4> QED
        BY <1>5, <4>1
    <3> QED
      BY <3>1 DEF Entries, Place
  <2>2. steady' \subseteq steady /\ (round.on => steady' = {s \in steady : s[1] # d \/ s[2] # x})
    BY <1>2
  <2>3. round.on => Entries' \subseteq during' /\ steady' \subseteq Entries'
    BY <1>1, <1>3, <2>1, <2>2 DEF RoundInv
  <2>4. (SeenWhile => SeenWhile') /\ (SeenOnce => SeenOnce') /\ (SeenAll => SeenAll') /\ (NodesAsked => NodesAsked')
    BY <1>3, <2>2 DEF SeenWhile, SeenOnce, SeenAll, Seen, NodesAsked, Registries
  <2>5. CardsAsked => CardsAsked'
    BY <1>3, <2>2 DEF CardsAsked
  <2> QED
    BY <1>1, <1>3, <2>3, <2>4, <2>5 DEF RoundInv
<1>12. NodeLifeTypeOK'
  <2>1. gone' \subseteq Registries \X Good /\ steady' \subseteq Registries \X Good \X Place
    BY <1>1, <1>2 DEF NodeLifeTypeOK
  <2> QED
    BY <1>1, <1>3, <1>5, <1>7, <2>1 DEF NodeLifeTypeOK, Registries, Place
<1> QED
  BY <1>7, <1>9, <1>10, <1>11, <1>12 DEF LifeInv, SiteInv

-----------------------------------------------------------------------------
(* The round: the sites stay as they are *)
LEMMA RoundChanges ==
  ASSUME LifeInv, UNCHANGED Others, mishaps' \in 0 .. MaxMishaps,
         round' \in [on : BOOLEAN, asking : Seq(Registries), part : {"nodes", "cards", "skills"},
                     nodes : SUBSET Place, cards : SUBSET (Good \X Place)],
         sight' \in [nodes : SUBSET Place, goods : SUBSET (Good \X Place), failed : SUBSET Registries],
         steady' \subseteq Registries \X Good \X Place, during' \subseteq Registries \X Good \X Place,
         RoundInv'
  PROVE  LifeInv'
<1>1. /\ life' = life /\ start' = start /\ toLoad' = toLoad /\ loaded' = loaded /\ held' = held
      /\ toTell' = toTell /\ bound' = bound /\ entry' = entry /\ gone' = gone
  BY DEF Others
<1>2. NodeLifeTypeOK /\ OneEntry /\ SiteInv
  BY DEF LifeInv
<1>3. NodeLifeTypeOK'
  BY <1>1, <1>2 DEF NodeLifeTypeOK, Registries, Place
<1>4. OneEntry'
  BY <1>1, <1>2 DEF OneEntry, Registries, Place
<1>5. AddressesPast'
  BY <1>1, <1>2 DEF SiteInv, AddressesPast, Registries
<1>6. ASSUME NEW n \in Site
      PROVE  SiteOK(n)'
  BY <1>1, <1>2, SameSite DEF SiteInv
<1> QED
  BY <1>3, <1>4, <1>5, <1>6 DEF LifeInv, SiteInv

LEMMA StartRoundKeeps == ASSUME LifeInv, StartRound PROVE LifeInv'
<1> USE NodeLifeAssumption
<1>1. NodeLifeTypeOK /\ RoundInv
  BY DEF LifeInv
<1>2. /\ round' = [on |-> TRUE, asking |-> Directory, part |-> "nodes", nodes |-> {}, cards |-> {}]
      /\ sight' = [nodes |-> {}, goods |-> {}, failed |-> {}] /\ steady' = Entries /\ during' = Entries
      /\ UNCHANGED Others /\ mishaps' = mishaps
  BY DEF StartRound, NoRound, NothingSeen
<1>3. Entries' = Entries /\ Entries \subseteq Registries \X Good \X Place
  BY <1>2 DEF Entries, Others, Registries, Place
<1>4. SeenAll'
  <2>1. ASSUME NEW s \in Entries
        PROVE  s[1] \in ToSet(Directory)
    BY <1>3 DEF Registries
  <2> QED
    BY <1>2, <2>1 DEF SeenAll
<1>5. RoundInv'
  BY <1>2, <1>3, <1>4 DEF RoundInv, SeenWhile, SeenOnce
<1>6. Directory \in Seq(Registries)
  OBVIOUS
<1> QED
  BY <1>1, <1>2, <1>3, <1>5, <1>6, RoundChanges DEF NodeLifeTypeOK

LEMMA AskNodesKeeps == ASSUME LifeInv, AskNodes PROVE LifeInv'
<1>1. NodeLifeTypeOK /\ RoundInv
  BY DEF LifeInv
<1> DEFINE d == Head(round.asking)
<1>2. /\ round.asking # <<>> /\ round.on /\ d \in Registries
      /\ round' = [round EXCEPT !.part = "cards", !.nodes = AddressesIn(d)]
      /\ UNCHANGED Others /\ sight' = sight /\ steady' = steady /\ during' = during /\ mishaps' = mishaps
  BY <1>1, HeadAndTail DEF AskNodes, RoundInv, NodeLifeTypeOK
<1> HIDE DEF d
<1>3. entry' = entry /\ Entries' = Entries
  BY <1>2 DEF Others, Entries, Registries, Place
<1>4. AddressesIn(d) \subseteq Place /\ \A s \in Entries : s[1] = d => s[3] \in AddressesIn(d)
  <2>1. \A x \in Good : entry[d][x] \subseteq Place
    BY <1>1, <1>2 DEF NodeLifeTypeOK
  <2>2. ASSUME NEW s \in Entries, s[1] = d
        PROVE  s[3] \in AddressesIn(d)
    BY <2>2 DEF Entries, AddressesIn
  <2> QED
    BY <2>1, <2>2 DEF AddressesIn
<1>5. /\ round' \in [on : BOOLEAN, asking : Seq(Registries), part : {"nodes", "cards", "skills"},
                     nodes : SUBSET Place, cards : SUBSET (Good \X Place)]
      /\ round'.asking = round.asking /\ round'.on = round.on /\ round'.part = "cards"
      /\ round'.nodes = AddressesIn(d)
  BY <1>1, <1>2, <1>4 DEF NodeLifeTypeOK
<1>6. NodesAsked'
  <2>1. ASSUME NEW s \in steady, s[1] = d
        PROVE  s[3] \in AddressesIn(d)
    BY <1>1, <1>2, <1>4, <2>1 DEF RoundInv
  <2> QED
    BY <1>2, <1>5, <2>1 DEF NodesAsked, d
<1>7. (SeenWhile => SeenWhile') /\ (SeenOnce => SeenOnce') /\ (SeenAll => SeenAll')
  BY <1>2, <1>5 DEF SeenWhile, SeenOnce, SeenAll, Seen, Registries
<1>8. RoundInv'
  BY <1>1, <1>2, <1>3, <1>5, <1>6, <1>7 DEF RoundInv
<1> QED
  BY <1>1, <1>2, <1>5, <1>8, RoundChanges DEF NodeLifeTypeOK

(* What a registry lists at a moment: what is in it, each good once *)
LEMMA ListedIs ==
  ASSUME LifeInv, NEW d \in Registries, NEW G \in SUBSET Good
  PROVE  /\ Listed(d, G) \subseteq Good \X Place
         /\ \A c \in Listed(d, G) : <<d, c[1], c[2]>> \in Entries /\ c[1] \in G
         /\ \A b, c \in Listed(d, G) : b[1] = c[1] => b = c
         /\ \A s \in Entries : s[1] = d /\ s[2] \in G => <<s[2], s[3]>> \in Listed(d, G)
<1>1. entry \in [Registries -> [Good -> SUBSET Place]] /\ OneEntry
  BY DEF LifeInv, NodeLifeTypeOK
<1> HIDE DEF Place
<1>2. ASSUME NEW c \in Listed(d, G)
      PROVE  /\ c \in Good \X Place /\ c = <<c[1], c[2]>> /\ c[1] \in G /\ c[2] \in Place /\ c[2] \in entry[d][c[1]]
             /\ <<d, c[1], c[2]>> \in Entries
  <2>1. c \in G \X Place /\ c[2] \in entry[d][c[1]]
    BY DEF Listed
  <2>2. c = <<c[1], c[2]>> /\ c[1] \in G /\ c[2] \in Place
    BY <2>1
  <2> QED
    BY <2>1, <2>2 DEF Entries
<1>3. ASSUME NEW b \in Listed(d, G), NEW c \in Listed(d, G), b[1] = c[1]
      PROVE  b = c
  <2>1. b = <<b[1], b[2]>> /\ c = <<c[1], c[2]>> /\ b[2] \in entry[d][b[1]] /\ c[2] \in entry[d][b[1]] /\ b[1] \in Good
    BY <1>2, <1>3
  <2>2. b[2] = c[2]
    BY <1>1, <2>1 DEF OneEntry
  <2> QED
    BY <1>3, <2>1, <2>2
<1>4. ASSUME NEW s \in Entries, s[1] = d, s[2] \in G
      PROVE  <<s[2], s[3]>> \in Listed(d, G)
  BY <1>4 DEF Entries, Listed
<1> QED
  BY <1>2, <1>3, <1>4

LEMMA AskCardsKeeps == ASSUME LifeInv, AskCards PROVE LifeInv'
<1> USE NodeLifeAssumption
<1>1. NodeLifeTypeOK /\ RoundInv
  BY DEF LifeInv
<1> DEFINE d == Head(round.asking)
           L == Listed(d, Good \ Skills)
<1>2. /\ round.asking # <<>> /\ round.on /\ round.part = "cards" /\ d \in Registries
      /\ round' = [round EXCEPT !.part = "skills", !.cards = L]
      /\ UNCHANGED Others /\ sight' = sight /\ steady' = steady /\ during' = during /\ mishaps' = mishaps
  BY <1>1, HeadAndTail DEF AskCards, RoundInv, NodeLifeTypeOK
<1>3. entry' = entry /\ Entries' = Entries
  BY <1>2 DEF Others, Entries, Registries, Place
<1>4. /\ L \subseteq Good \X Place
      /\ \A c \in L : <<d, c[1], c[2]>> \in Entries /\ c[1] \in Good \ Skills
      /\ \A b, c \in L : b[1] = c[1] => b = c
      /\ \A s \in Entries : s[1] = d /\ s[2] \in Good \ Skills => <<s[2], s[3]>> \in L
  BY <1>2, ListedIs
<1> HIDE DEF L
<1>5. /\ round' \in [on : BOOLEAN, asking : Seq(Registries), part : {"nodes", "cards", "skills"},
                     nodes : SUBSET Place, cards : SUBSET (Good \X Place)]
      /\ round'.asking = round.asking /\ round'.on = round.on /\ round'.part = "skills"
      /\ round'.nodes = round.nodes /\ round'.cards = L
  BY <1>1, <1>2, <1>4 DEF NodeLifeTypeOK
<1>6. CardsAsked'
  <2>1. Entries \subseteq during /\ steady \subseteq Entries
    BY <1>1, <1>2 DEF RoundInv
  <2>2. ASSUME NEW s \in steady, s[1] = d, s[2] \notin Skills
        PROVE  <<s[2], s[3]>> \in L
    <3>1. s[2] \in Good
      BY <1>1, <2>1 DEF NodeLifeTypeOK
    <3> QED
      BY <1>4, <2>1, <2>2, <3>1
  <2>3. \A c \in L : <<d, c[1], c[2]>> \in during /\ c[1] \notin Skills
    BY <1>4, <2>1
  <2> QED
    BY <1>2, <1>4, <1>5, <2>2, <2>3 DEF CardsAsked
<1>7. (SeenWhile => SeenWhile') /\ (SeenOnce => SeenOnce') /\ (SeenAll => SeenAll') /\ (NodesAsked => NodesAsked')
  BY <1>2, <1>5 DEF SeenWhile, SeenOnce, SeenAll, Seen, NodesAsked, Registries
<1>8. RoundInv'
  BY <1>1, <1>2, <1>3, <1>5, <1>6, <1>7 DEF RoundInv
<1> QED
  BY <1>1, <1>2, <1>5, <1>8, RoundChanges DEF NodeLifeTypeOK

(* After a registry: the next one *)
LEMMA NextIs ==
  ASSUME NodeLifeTypeOK, round.asking # <<>>
  PROVE  /\ NextRegistry \in [on : BOOLEAN, asking : Seq(Registries), part : {"nodes", "cards", "skills"},
                              nodes : SUBSET Place, cards : SUBSET (Good \X Place)]
         /\ NextRegistry.on /\ NextRegistry.asking = Tail(round.asking) /\ NextRegistry.part = "nodes"
         /\ Head(round.asking) \in Registries
         /\ ToSet(round.asking) = {Head(round.asking)} \cup ToSet(Tail(round.asking))
<1>1. round.asking \in Seq(Registries)
  BY DEF NodeLifeTypeOK
<1>2. /\ Head(round.asking) \in Registries /\ Tail(round.asking) \in Seq(Registries)
      /\ ToSet(round.asking) = {Head(round.asking)} \cup ToSet(Tail(round.asking))
  BY <1>1, HeadAndTail
<1> QED
  BY <1>2 DEF NextRegistry, NoRound

LEMMA AskSkillsKeeps == ASSUME LifeInv, AskSkills PROVE LifeInv'
<1> USE NodeLifeAssumption
<1>1. NodeLifeTypeOK /\ RoundInv
  BY DEF LifeInv
<1> DEFINE d == Head(round.asking)
           L == Listed(d, Skills)
           new == Unseen(round.cards \cup L)
<1>2. /\ round.asking # <<>> /\ round.on /\ round.part = "skills" /\ d \in Registries
      /\ round' = NextRegistry
      /\ sight' = [sight EXCEPT !.nodes = sight.nodes \cup round.nodes, !.goods = sight.goods \cup new]
      /\ UNCHANGED Others /\ steady' = steady /\ during' = during /\ mishaps' = mishaps
  BY <1>1, NextIs DEF AskSkills, RoundInv
<1>3. entry' = entry /\ Entries' = Entries
  BY <1>2 DEF Others, Entries, Registries, Place
<1>4. /\ L \subseteq Good \X Place
      /\ \A c \in L : <<d, c[1], c[2]>> \in Entries /\ c[1] \in Skills
      /\ \A b, c \in L : b[1] = c[1] => b = c
      /\ \A s \in Entries : s[1] = d /\ s[2] \in Skills => <<s[2], s[3]>> \in L
  BY <1>2, ListedIs
<1>5. /\ Entries \subseteq during /\ steady \subseteq Entries /\ SeenWhile /\ SeenOnce /\ SeenAll
      /\ \A s \in steady : s[1] = d => s[3] \in round.nodes
      /\ \A s \in steady : s[1] = d /\ s[2] \notin Skills => <<s[2], s[3]>> \in round.cards
      /\ \A c \in round.cards : <<d, c[1], c[2]>> \in during /\ c[1] \notin Skills
      /\ \A b, c \in round.cards : b[1] = c[1] => b = c
  BY <1>1, <1>2 DEF RoundInv, NodesAsked, CardsAsked
<1>6. /\ sight.nodes \subseteq Place /\ sight.goods \subseteq Good \X Place /\ sight.failed \subseteq Registries
      /\ round.nodes \subseteq Place /\ round.cards \subseteq Good \X Place
  BY <1>1 DEF NodeLifeTypeOK
<1> HIDE DEF L
<1>7. new \subseteq round.cards \cup L /\ \A e \in new : \A s \in sight.goods : s[1] # e[1]
  BY DEF Unseen
<1>8. \A e \in round.cards \cup L : e \in new \/ \E s \in sight.goods : s[1] = e[1]
  BY DEF Unseen
<1> HIDE DEF new
<1>9. /\ sight' \in [nodes : SUBSET Place, goods : SUBSET (Good \X Place), failed : SUBSET Registries]
      /\ sight'.nodes = sight.nodes \cup round.nodes /\ sight'.goods = sight.goods \cup new
      /\ sight'.failed = sight.failed
  <2>1. sight.goods \cup new \subseteq Good \X Place /\ sight.nodes \cup round.nodes \subseteq Place
    BY <1>4, <1>6, <1>7
  <2> QED
    BY <1>1, <1>2, <2>1 DEF NodeLifeTypeOK
<1>10. /\ round' \in [on : BOOLEAN, asking : Seq(Registries), part : {"nodes", "cards", "skills"},
                      nodes : SUBSET Place, cards : SUBSET (Good \X Place)]
       /\ round'.on /\ round'.part = "nodes" /\ round'.asking = Tail(round.asking)
       /\ ToSet(round.asking) = {d} \cup ToSet(round'.asking)
  BY <1>1, <1>2, NextIs
<1>11. SeenWhile'
  <2>1. ASSUME NEW g \in new
        PROVE  <<d, g[1], g[2]>> \in during
    BY <1>4, <1>5, <1>7
  <2> QED
    BY <1>2, <1>5, <1>9, <2>1 DEF SeenWhile, Registries
<1>12. SeenOnce'
  <2> SUFFICES ASSUME NEW g \in sight.goods \cup new, NEW h \in sight.goods \cup new, g[1] = h[1]
               PROVE  g = h
    BY <1>9 DEF SeenOnce
  <2>1. CASE g \in sight.goods /\ h \in sight.goods
    BY <1>5, <2>1 DEF SeenOnce
  <2>2. CASE g \in new /\ h \in new
    <3>1. g \in round.cards \cup L /\ h \in round.cards \cup L
      BY <1>7, <2>2
    <3> QED
      BY <1>4, <1>5, <3>1
  <2>3. ~ (g \in sight.goods /\ h \in new) /\ ~ (g \in new /\ h \in sight.goods)
    BY <1>7
  <2> QED
    BY <2>1, <2>2, <2>3
<1>13. SeenAll'
  <2> SUFFICES ASSUME NEW s \in steady
               PROVE  \/ s[1] \in ToSet(round'.asking) \/ s[1] \in sight.failed
                      \/ s[3] \in sight'.nodes /\ \E g \in sight'.goods : g[1] = s[2]
    BY <1>2, <1>9 DEF SeenAll, Seen
  <2>1. CASE s[1] = d
    <3>1. s[3] \in sight'.nodes
      BY <1>5, <1>9, <2>1
    <3>2. s \in Entries /\ s[2] \in Good
      BY <1>5 DEF Entries
    <3>3. <<s[2], s[3]>> \in round.cards \cup L
      BY <1>4, <1>5, <2>1, <3>2
    <3>4. \E g \in sight.goods \cup new : g[1] = s[2]
      BY <1>8, <3>3
    <3> QED
      BY <1>9, <3>1, <3>4
  <2>2. CASE s[1] # d
    <3>1. s[1] \in ToSet(round.asking) \/ s[1] \in sight.failed \/ Seen(s)
      BY <1>5 DEF SeenAll
    <3> QED
      BY <1>9, <1>10, <2>2, <3>1 DEF Seen
  <2> QED
    BY <2>1, <2>2
<1>14. RoundInv'
  BY <1>2, <1>3, <1>5, <1>10, <1>11, <1>12, <1>13 DEF RoundInv
<1> QED
  BY <1>1, <1>2, <1>9, <1>10, <1>14, RoundChanges DEF NodeLifeTypeOK

LEMMA AskFailsKeeps == ASSUME LifeInv, AskFails PROVE LifeInv'
<1> USE NodeLifeAssumption
<1>1. NodeLifeTypeOK /\ RoundInv
  BY DEF LifeInv
<1> DEFINE d == Head(round.asking)
<1>2. /\ round.asking # <<>> /\ round.on /\ d \in Registries
      /\ round' = NextRegistry
      /\ sight' = [sight EXCEPT !.failed = sight.failed \cup {d}]
      /\ UNCHANGED Others /\ steady' = steady /\ during' = during /\ mishaps' \in 0 .. MaxMishaps
  BY <1>1, NextIs DEF AskFails, AfterFailure, Mishap, RoundInv, NodeLifeTypeOK
<1> HIDE DEF d
<1>3. Entries' = Entries
  BY <1>2 DEF Others, Entries, Registries, Place
<1>4. /\ sight' \in [nodes : SUBSET Place, goods : SUBSET (Good \X Place), failed : SUBSET Registries]
      /\ sight'.nodes = sight.nodes /\ sight'.goods = sight.goods /\ sight'.failed = sight.failed \cup {d}
  BY <1>1, <1>2 DEF NodeLifeTypeOK
<1>5. /\ round' \in [on : BOOLEAN, asking : Seq(Registries), part : {"nodes", "cards", "skills"},
                     nodes : SUBSET Place, cards : SUBSET (Good \X Place)]
      /\ round'.on /\ round'.part = "nodes" /\ round'.asking = Tail(round.asking)
      /\ ToSet(round.asking) = {d} \cup ToSet(round'.asking)
  BY <1>1, <1>2, NextIs DEF d
<1>6. (SeenWhile => SeenWhile') /\ (SeenOnce => SeenOnce')
  BY <1>2, <1>4 DEF SeenWhile, SeenOnce, Registries
<1>7. SeenAll => SeenAll'
  BY <1>2, <1>4, <1>5 DEF SeenAll, Seen
<1>8. RoundInv'
  BY <1>1, <1>2, <1>3, <1>5, <1>6, <1>7 DEF RoundInv
<1> QED
  BY <1>1, <1>2, <1>4, <1>5, <1>8, RoundChanges DEF NodeLifeTypeOK

LEMMA PresentKeeps == ASSUME LifeInv, Present PROVE LifeInv'
<1>1. NodeLifeTypeOK /\ RoundInv
  BY DEF LifeInv
<1>2. /\ round' = [on |-> FALSE, asking |-> <<>>, part |-> "nodes", nodes |-> {}, cards |-> {}]
      /\ sight' = [nodes |-> {}, goods |-> {}, failed |-> {}] /\ steady' = {} /\ during' = {}
      /\ UNCHANGED Others /\ mishaps' = mishaps
  BY DEF Present, NoRound, NothingSeen
<1>3. RoundInv'
  BY <1>2 DEF RoundInv
<1>4. <<>> \in Seq(Registries)
  OBVIOUS
<1> QED
  BY <1>1, <1>2, <1>3, <1>4, RoundChanges DEF NodeLifeTypeOK

-----------------------------------------------------------------------------
LEMMA LifeStart == NodeLifeInit => LifeInv
<1> USE NodeLifeAssumption
<1> SUFFICES ASSUME NodeLifeInit
             PROVE  LifeInv
  OBVIOUS
<1>1. \A d \in Registries, x \in Good : entry[d][x] = {}
  BY DEF NodeLifeInit
<1>2. OneEntry /\ \A d \in Registries, x \in Good : Cardinality(entry[d][x]) <= 1
  <2>1. Cardinality({}) = 0
    BY FS_EmptySet
  <2>2. 0 <= 1
    OBVIOUS
  <2>3. \A d \in Registries, x \in Good : Cardinality(entry[d][x]) = 0
    BY <1>1, <2>1
  <2>4. OneEntry
    BY <1>1 DEF OneEntry
  <2> QED
    BY <2>2, <2>3, <2>4
<1>3. SiteInv
  <2>1. AddressesPast
    BY <1>1 DEF AddressesPast
  <2>2. \A n \in Site : SiteOK(n)
    BY DEF NodeLifeInit, SiteOK
  <2> QED
    BY <2>1, <2>2 DEF SiteInv
<1>4. RoundInv
  BY DEF NodeLifeInit, NoRound, RoundInv
<1>5. NodeLifeTypeOK
  <2>1. /\ round = [on |-> FALSE, asking |-> <<>>, part |-> "nodes", nodes |-> {}, cards |-> {}]
        /\ sight = [nodes |-> {}, goods |-> {}, failed |-> {}]
    BY DEF NodeLifeInit, NoRound, NothingSeen
  <2>2. /\ <<>> \in Seq(Package) /\ <<>> \in Seq(Good) /\ <<>> \in Seq(Registries)
    OBVIOUS
  <2>3. /\ round \in [on : BOOLEAN, asking : Seq(Registries), part : {"nodes", "cards", "skills"},
                      nodes : SUBSET Place, cards : SUBSET (Good \X Place)]
        /\ sight \in [nodes : SUBSET Place, goods : SUBSET (Good \X Place), failed : SUBSET Registries]
    BY <2>1, <2>2
  <2> QED
    BY <1>2, <2>2, <2>3 DEF NodeLifeInit, NodeLifeTypeOK
<1> QED
  BY <1>2, <1>3, <1>4, <1>5 DEF LifeInv

LEMMA LifeStepKeeps == LifeInv /\ [NodeLifeNext]_nodeLifeVars => LifeInv'
<1> SUFFICES ASSUME LifeInv, [NodeLifeNext]_nodeLifeVars
             PROVE  LifeInv'
  OBVIOUS
<1>1. CASE UNCHANGED nodeLifeVars
  <2>1. UNCHANGED Others /\ UNCHANGED <<round, sight, steady, during, mishaps, entry>>
    BY <1>1 DEF nodeLifeVars, Others
  <2>2. RoundInv'
    BY <2>1, StillRound
  <2> QED
    BY <2>1, <2>2, RoundChanges DEF LifeInv, NodeLifeTypeOK
<1>2. ASSUME NEW n \in Site, Boot(n) \/ SiteStep(n) \/ Stop(n)
      PROVE  LifeInv'
  BY <1>2, BootKeeps, LoadPackageKeeps, AdvertiseKeeps, TellKeeps, TellFailsKeeps, BindRegistryKeeps, StopKeeps
     DEF SiteStep
<1>3. ASSUME NEW d \in Registries, NEW x \in Good, TakeOut(d, x)
      PROVE  LifeInv'
  BY <1>3, TakeOutKeeps
<1>4. ASSUME StartRound \/ RoundStep
      PROVE  LifeInv'
  BY <1>4, StartRoundKeeps, AskNodesKeeps, AskCardsKeeps, AskSkillsKeeps, AskFailsKeeps, PresentKeeps
     DEF RoundStep
<1> QED
  BY <1>1, <1>2, <1>3, <1>4 DEF NodeLifeNext

(* LifeInv holds of every run of nodes and of the health service: what a site has told,
   what a round has seen, and what it has still to see *)
THEOREM LifeInvariant == NodeLifeSpec => []LifeInv
<1>1. LifeInv /\ [NodeLifeNext]_nodeLifeVars => LifeInv'
  BY LifeStepKeeps
<1> QED
  BY <1>1, LifeStart, PTL DEF NodeLifeSpec

(* What is told is held, and what is shown is there *)
LEMMA LifeIsSound == LifeInv => NodeLifeIsSound
<1> SUFFICES ASSUME LifeInv
             PROVE  NodeLifeIsSound
  OBVIOUS
<1>1. BoundIsAdvertised /\ ToldIsHeld
  BY DEF LifeInv, SiteInv, SiteOK, Told, BoundIsAdvertised, ToldIsHeld
<1>2. CatalogueIsTrue
  <2> SUFFICES ASSUME round.on, round.asking = <<>>
               PROVE  /\ \A g \in sight.goods : \E d \in Registries : <<d, g[1], g[2]>> \in during
                      /\ \A g, h \in sight.goods : g[1] = h[1] => g = h
                      /\ \A s \in steady : s[1] \notin sight.failed =>
                           s[3] \in sight.nodes /\ \E g \in sight.goods : g[1] = s[2]
    BY DEF CatalogueIsTrue
  <2>1. ToSet(round.asking) = {}
    BY DEF ToSet
  <2> QED
    BY <2>1 DEF LifeInv, RoundInv, SeenWhile, SeenOnce, SeenAll, Seen
<1> QED
  BY <1>1, <1>2 DEF NodeLifeIsSound

(* For any sites, packages, registries and goods, with sites that stop and come up at
   other addresses and registries that fail and lose answers: a site that delegates has
   told all it holds, what an address of a start says is held by that start, and what
   the health service presents was there during the round, each good once, and nothing
   that stayed through it is missing (server.py, ggihs.py) *)
THEOREM NodeLivesSoundly == NodeLifeSpec => []NodeLifeIsSound
<1>1. LifeInv => NodeLifeIsSound
  BY LifeIsSound
<1> QED
  BY <1>1, LifeInvariant, PTL

-----------------------------------------------------------------------------
LEMMA RanksAre ==
  /\ Rank["public"] = 0 /\ Rank["restricted"] = 1 /\ Rank["sensitive"] = 2 /\ Rank["secret"] = 3
  /\ \A l \in Levels : Rank[l] \in 0 .. 3
  /\ \A l : Normal(l) \in Levels
  /\ \A l \in Levels : l # "absent"
BY DEF Rank, Levels, Normal

(* Among levels there is a strictest one *)
LEMMA StrictestIs ==
  ASSUME NEW S \in SUBSET Levels, S # {}
  PROVE  Strictest(S) \in S /\ \A m \in S : Rank[m] <= Rank[Strictest(S)]
<1>1. \E l \in S : \A m \in S : Rank[m] <= Rank[l]
  <2>1. CASE "secret" \in S
    BY <2>1, RanksAre DEF Levels
  <2>2. CASE "secret" \notin S /\ "sensitive" \in S
    BY <2>2, RanksAre DEF Levels
  <2>3. CASE "secret" \notin S /\ "sensitive" \notin S /\ "restricted" \in S
    BY <2>3, RanksAre DEF Levels
  <2>4. CASE "secret" \notin S /\ "sensitive" \notin S /\ "restricted" \notin S
    <3>1. S = {"public"}
      BY <2>4 DEF Levels
    <3> QED
      BY <3>1, RanksAre
  <2> QED
    BY <2>1, <2>2, <2>3, <2>4
<1> QED
  BY <1>1 DEF Strictest

LEMMA PartsAre ==
  ASSUME NEW c \in CardShapes
  PROVE  /\ PartsThatGate(c) \subseteq Part
         /\ c.parts \in Seq(Components)
<1>1. c.parts \in Seq(Components)
  BY DEF CardShapes
<1>2. \A i \in DOMAIN c.parts : c.parts[i] \in Components
  BY <1>1
<1> QED
  BY <1>1, <1>2 DEF PartsThatGate, Components

(* A composite is as visible as its strictest part *)
LEMMA VisibilityIs ==
  ASSUME NEW c \in CardShapes, catalogue \in [Part -> Levels \cup {"absent"}]
  PROVE  /\ Visibility(c) \in Levels
         /\ InvisibleParts(c) # {} => Visibility(c) = "secret"
         /\ InvisibleParts(c) = {} =>
              /\ Visibility(c) = Normal(c.policy.level) \/ \E p \in PartsThatGate(c) : Visibility(c) = catalogue[p]
              /\ Rank[Normal(c.policy.level)] <= Rank[Visibility(c)]
              /\ \A p \in PartsThatGate(c) : catalogue[p] \in Levels /\ Rank[catalogue[p]] <= Rank[Visibility(c)]
<1> DEFINE S == {Normal(c.policy.level)} \cup {catalogue[p] : p \in PartsThatGate(c)}
<1>1. CASE InvisibleParts(c) # {}
  BY <1>1 DEF Visibility, Levels
<1>2. CASE InvisibleParts(c) = {}
  <2>1. \A p \in PartsThatGate(c) : catalogue[p] \in Levels
    BY <1>2, PartsAre DEF InvisibleParts
  <2>2. S \in SUBSET Levels /\ S # {}
    BY <2>1, RanksAre
  <2>3. Visibility(c) = Strictest(S)
    BY <1>2 DEF Visibility
  <2> HIDE DEF S
  <2>4. Visibility(c) \in S /\ \A m \in S : Rank[m] <= Rank[Visibility(c)]
    BY <2>2, <2>3, StrictestIs
  <2>5. Visibility(c) \in Levels
    BY <2>2, <2>4
  <2>6. Visibility(c) = Normal(c.policy.level) \/ \E p \in PartsThatGate(c) : Visibility(c) = catalogue[p]
    BY <2>4 DEF S
  <2>7. Normal(c.policy.level) \in S /\ \A p \in PartsThatGate(c) : catalogue[p] \in S
    BY DEF S
  <2> QED
    BY <1>2, <2>1, <2>4, <2>5, <2>6, <2>7
<1> QED
  BY <1>1, <1>2

(* What is shown is no more visible than a part that counts *)
LEMMA ShowIsRight ==
  ASSUME CardTypeOK
  PROVE  ShownIsRight(InvisibleParts(card), Visibility(card))
<1>1. card \in CardShapes /\ catalogue \in [Part -> Levels \cup {"absent"}]
  BY DEF CardTypeOK
<1>2. CASE InvisibleParts(card) # {}
  <2>1. Visibility(card) = "secret"
    BY <1>1, <1>2, VisibilityIs
  <2>2. \A p \in PartsThatGate(card) : catalogue[p] # "absent" => catalogue[p] \in Levels
    BY <1>1, PartsAre
  <2> QED
    BY <1>2, <2>1, <2>2, RanksAre DEF ShownIsRight
<1>3. CASE InvisibleParts(card) = {}
  BY <1>1, <1>3, VisibilityIs DEF ShownIsRight
<1> QED
  BY <1>2, <1>3

Visible ==
  card \in CardShapes /\ catalogue \in [Part -> Levels \cup {"absent"}] =>
    /\ Visibility(card) \in Levels
    /\ InvisibleParts(card) # {} => Visibility(card) = "secret"
    /\ InvisibleParts(card) = {} =>
         /\ Rank[Normal(card.policy.level)] <= Rank[Visibility(card)]
         /\ \A p \in PartsThatGate(card) : catalogue[p] \in Levels /\ Rank[catalogue[p]] <= Rank[Visibility(card)]

LEMMA VisibleThen == Visible'
<1>1. Visible
  BY VisibilityIs DEF Visible
<1> QED
  BY <1>1, PTL

(* More parts, or stricter ones, open nothing *)
LEMMA StricterOpensNothing ==
  ASSUME CardTypeOK, CardTypeOK'
  PROVE  NeverOpens
<1> SUFFICES ASSUME card'.policy = card.policy,
                    NEW n \in 0 .. Len(card'.parts), SubSeq(card'.parts, 1, n) = card.parts,
                    \A p \in Part : Stricter(catalogue[p], catalogue'[p])
             PROVE  Rank[Visibility(card)] <= Rank[Visibility(card)']
  BY DEF NeverOpens
<1>1. /\ card \in CardShapes /\ catalogue \in [Part -> Levels \cup {"absent"}]
      /\ card' \in CardShapes /\ catalogue' \in [Part -> Levels \cup {"absent"}]
  BY DEF CardTypeOK
<1>2. Visibility(card) \in Levels
  BY <1>1, VisibilityIs
<1>5. /\ Visibility(card)' \in Levels
      /\ InvisibleParts(card)' # {} => Visibility(card)' = "secret"
      /\ InvisibleParts(card)' = {} =>
           /\ Rank[Normal(card.policy.level)'] <= Rank[Visibility(card)']
           /\ \A p \in PartsThatGate(card)' : catalogue'[p] \in Levels /\ Rank[catalogue'[p]] <= Rank[Visibility(card)']
  BY <1>1, VisibleThen DEF Visible
<1>3. CASE InvisibleParts(card)' # {}
  BY <1>2, <1>3, <1>5, RanksAre
<1>4. CASE InvisibleParts(card)' = {}
  <2>1. PartsThatGate(card) \subseteq PartsThatGate(card)'
    <3>1. card.parts \in Seq(Components) /\ card'.parts \in Seq(Components)
      BY <1>1 DEF CardShapes
    <3>2. \A i \in DOMAIN card.parts : i \in DOMAIN card'.parts /\ card'.parts[i] = card.parts[i]
      BY <3>1
    <3> QED
      BY <3>2 DEF PartsThatGate
  <2>2. \A p \in PartsThatGate(card) : p \in Part /\ catalogue'[p] \in Levels
    BY <1>1, <1>4, <1>5, <2>1, PartsAre
  <2>3. \A p \in PartsThatGate(card) : catalogue[p] \in Levels /\ Rank[catalogue[p]] <= Rank[catalogue'[p]]
    BY <1>1, <2>2, RanksAre DEF Stricter
  <2>4. InvisibleParts(card) = {}
    BY <2>3, RanksAre DEF InvisibleParts
  <2>5. Visibility(card) = Normal(card.policy.level) \/ \E p \in PartsThatGate(card) : Visibility(card) = catalogue[p]
    BY <1>1, <2>4, VisibilityIs
  <2>6. Rank[Visibility(card)'] \in 0 .. 3
    BY <1>5, RanksAre
  <2>7. ASSUME NEW p \in PartsThatGate(card), Visibility(card) = catalogue[p]
        PROVE  Rank[Visibility(card)] <= Rank[Visibility(card)']
    <3>1. Rank[catalogue[p]] <= Rank[catalogue'[p]] /\ Rank[catalogue'[p]] <= Rank[Visibility(card)']
      BY <1>4, <1>5, <2>1, <2>3
    <3>2. Rank[catalogue[p]] \in 0 .. 3 /\ Rank[catalogue'[p]] \in 0 .. 3
      BY <2>2, <2>3, RanksAre
    <3> QED
      BY <2>6, <2>7, <3>1, <3>2
  <2>8. ASSUME Visibility(card) = Normal(card.policy.level)
        PROVE  Rank[Visibility(card)] <= Rank[Visibility(card)']
    BY <1>4, <1>5, <2>8 DEF Normal
  <2> QED
    BY <2>5, <2>7, <2>8
<1> QED
  BY <1>3, <1>4

-----------------------------------------------------------------------------
(* Of places in a list there is a first and a last one *)
LEMMA FirstAndLast ==
  ASSUME NEW n \in Nat, NEW I \in SUBSET (1 .. n), I # {}
  PROVE  /\ \E i \in I : \A j \in I : i <= j
         /\ \E i \in I : \A j \in I : j <= i
<1>1. \E i \in I : \A j \in I : i <= j
  BY LeastMember
<1> DEFINE Rest == {n - i : i \in I}
<1>2. Rest \in SUBSET Nat /\ Rest # {}
  <2>1. \A i \in I : n - i \in Nat
    OBVIOUS
  <2> QED
    BY <2>1
<1>3. PICK k \in Rest : \A m \in Rest : k <= m
  <2> HIDE DEF Rest
  <2> QED
    BY <1>2, LeastMember
<1>4. PICK i \in I : k = n - i
  BY <1>3
<1>5. ASSUME NEW j \in I PROVE j <= i
  <2>1. k <= n - j
    BY <1>3
  <2> QED
    BY <1>4, <2>1
<1> QED
  BY <1>1, <1>5

(* A model goes to the first node that can host it *)
LEMMA MatchedIs ==
  ASSUME NEW r, NEW strict
  PROVE  /\ Matched(r, strict) = 0 => \A j \in DOMAIN Fleet : ~ CanHost(r, Fleet[j], strict)
         /\ Matched(r, strict) # 0 =>
              /\ Matched(r, strict) \in DOMAIN Fleet /\ CanHost(r, Fleet[Matched(r, strict)], strict)
              /\ \A j \in DOMAIN Fleet : CanHost(r, Fleet[j], strict) => Matched(r, strict) <= j
<1> DEFINE fit == {i \in DOMAIN Fleet : CanHost(r, Fleet[i], strict)}
<1>1. DOMAIN Fleet = 1 .. Len(Fleet) /\ Len(Fleet) \in Nat
  BY CardAssumption
<1>2. Matched(r, strict) = IF fit = {} THEN 0 ELSE CHOOSE i \in fit : \A j \in fit : i <= j
  BY DEF Matched
<1>3. CASE fit = {}
  BY <1>2, <1>3
<1>4. CASE fit # {}
  <2>1. \E i \in fit : \A j \in fit : i <= j
    BY <1>1, <1>4, FirstAndLast
  <2>2. Matched(r, strict) \in fit /\ \A j \in fit : Matched(r, strict) <= j
    BY <1>2, <1>4, <2>1
  <2>3. Matched(r, strict) # 0
    BY <1>1, <2>2
  <2> QED
    BY <2>2, <2>3
<1> QED
  BY <1>3, <1>4

LEMMA MatchesAreRight ==
  ASSUME NEW strict \in BOOLEAN
  PROVE  MatchIsRight(strict, Matched(card.runtime, strict))
<1> DEFINE r == card.runtime
           i == Matched(r, strict)
<1>1. CASE i = 0
  BY <1>1, MatchedIs DEF MatchIsRight
<1>2. CASE i # 0
  <2>1. i \in DOMAIN Fleet /\ CanHost(r, Fleet[i], strict)
    BY <1>2, MatchedIs
  <2>2. CanHost(r, Fleet[i], FALSE)
    <3>1. \A needs, given : Enough(needs, given, strict) => Enough(needs, given, FALSE)
      BY DEF Enough
    <3> QED
      BY <2>1, <3>1 DEF CanHost
  <2>3. Matched(r, FALSE) # 0 /\ Matched(r, FALSE) \in DOMAIN Fleet /\ Matched(r, FALSE) <= i
    BY <2>1, <2>2, MatchedIs
  <2>4. DOMAIN Fleet = 1 .. Len(Fleet) /\ Len(Fleet) \in Nat
    BY CardAssumption
  <2>5. \A j \in DOMAIN Fleet : CanHost(r, Fleet[j], strict) => i <= j
    BY <1>2, MatchedIs
  <2> HIDE DEF i
  <2>6. \A j \in 1 .. i - 1 : ~ CanHost(r, Fleet[j], strict)
    BY <2>1, <2>4, <2>5
  <2>7. Matched(r, FALSE) \in 1 .. i
    <3> DEFINE m == Matched(r, FALSE)
    <3>1. m \in 1 .. Len(Fleet) /\ i \in 1 .. Len(Fleet) /\ m <= i
      BY <2>1, <2>3, <2>4
    <3> HIDE DEF m
    <3>2. m \in 1 .. i
      BY <2>4, <3>1
    <3> QED
      BY <3>2 DEF m
  <2> QED
    BY <1>2, <2>1, <2>6, <2>7 DEF MatchIsRight, i
<1> QED
  BY <1>1, <1>2

-----------------------------------------------------------------------------
(* No verdict of a valid contract is "no" or "unknown" *)
LEMMA ValidIsPassed ==
  ASSUME NEW c, NEW q, ContractValid(c, q)
  PROVE  /\ \A v \in Verdicts(c, q) : v \notin {"no", "unknown"}
         /\ UnitsStatus(c, q) = "pass" /\ PolicyStatus(c, q) = "pass"
<1>1. \A s \in Statuses(c, q) : s = "pass"
  BY DEF ContractValid
<1>2. \A V : StatusOf(V) = "pass" => "no" \notin V /\ "unknown" \notin V
  BY DEF StatusOf, Satisfied
<1>3. /\ StatusOf({CrsVerdict(c, q), ExtentVerdict(c, q)}) = "pass"
      /\ StatusOf({TimeVerdict(c, q)}) = "pass" /\ StatusOf({BandVerdict(c, q)}) = "pass"
      /\ StatusOf({ResolutionVerdict(c, q)}) = "pass"
      /\ UnitsStatus(c, q) = "pass" /\ PolicyStatus(c, q) = "pass"
  BY <1>1 DEF Statuses
<1> HIDE DEF StatusOf
<1>4. \A v \in {CrsVerdict(c, q), ExtentVerdict(c, q)} : v \notin {"no", "unknown"}
  BY <1>2, <1>3
<1>5. TimeVerdict(c, q) \notin {"no", "unknown"} /\ BandVerdict(c, q) \notin {"no", "unknown"}
      /\ ResolutionVerdict(c, q) \notin {"no", "unknown"}
  BY <1>2, <1>3
<1> QED
  BY <1>3, <1>4, <1>5 DEF Verdicts

(* Two intervals that are not apart have a point in common: the later start *)
LEMMA Common ==
  ASSUME NEW a \in Int, NEW b \in Int, NEW x \in Int, NEW y \in Int, a <= b, x <= y, a <= y, x <= b
  PROVE  \E p \in a .. b : p \in x .. y
<1>1. CASE a <= x
  <2>1. x \in a .. b /\ x \in x .. y
    BY <1>1
  <2> QED
    BY <2>1
<1>2. CASE x <= a
  <2>1. a \in a .. b /\ a \in x .. y
    BY <1>2
  <2> QED
    BY <2>1
<1> QED
  BY <1>1, <1>2

LEMMA ValidContractsServe ==
  ASSUME NEW c \in CardShapes, NEW q \in Requests, WellFormed(q), ContractValid(c, q)
  PROVE  ValidServes(c, q)
<1>1. /\ \A v \in Verdicts(c, q) : v \notin {"no", "unknown"}
      /\ UnitsStatus(c, q) = "pass" /\ PolicyStatus(c, q) = "pass"
  BY ValidIsPassed
<1>2. ListedFor(c, q)
  BY <1>1 DEF ListedFor, Satisfied
<1>3. ExtentVerdict(c, q) \notin {"no", "unknown"} /\ TimeVerdict(c, q) \notin {"no", "unknown"}
      /\ BandVerdict(c, q) \notin {"no", "unknown"}
  BY <1>1 DEF Verdicts
<1>4. /\ q.box \in Seq(Int) /\ Len(q.box) = 4 /\ q.box[1] < q.box[3] /\ q.box[2] < q.box[4]
      /\ q.time \in Int \X Int /\ q.time[1] <= q.time[2]
      /\ {Missing, Garbled} \cap {q.time[1], q.time[2]} = {} /\ q.exports \in BOOLEAN
  BY CardAssumption DEF WellFormed
<1>5. /\ c.box \in Seq(Int) /\ c.time \in Int \X Int /\ c.bands \in Seq(Bands)
  BY CardAssumption DEF CardShapes, NoTime, Missing
<1>6. ASSUME Upright(c) PROVE Serves(c, q)
  <2>1. Len(c.box) = 4 /\ c.box[1] <= c.box[3] /\ c.box[2] <= c.box[4] /\ c.time[1] <= c.time[2]
    BY <1>6 DEF Upright
  <2>2. /\ \A i \in 1 .. 4 : c.box[i] \in Int /\ q.box[i] \in Int
        /\ c.time[1] \in Int /\ c.time[2] \in Int /\ q.time[1] \in Int /\ q.time[2] \in Int
    <3>1. \A i \in 1 .. 4 : c.box[i] \in Int
      BY <1>5, <2>1
    <3>2. \A i \in 1 .. 4 : q.box[i] \in Int
      BY <1>4
    <3>3. \A t \in Int \X Int : t[1] \in Int /\ t[2] \in Int
      OBVIOUS
    <3> QED
      BY <1>4, <1>5, <3>1, <3>2, <3>3
  <2>3. \A b \in Seq(Int) : Len(b) = 4 => Flat(b) = b
    BY SubSeqFull DEF Flat
  <2>4. q.box # NoBox /\ c.box # NoBox
    BY <1>4, <2>1 DEF NoBox
  <2>5. Meets(c.box, q.box)
    <3>1. ExtentVerdict(c, q) = IF Meets(Flat(c.box), Flat(q.box)) THEN "yes" ELSE "no"
      BY <1>4, <2>1, <2>4 DEF ExtentVerdict
    <3> QED
      BY <1>3, <1>4, <1>5, <2>1, <2>3, <3>1
  <2>12. /\ c.box[1] \in Int /\ c.box[2] \in Int /\ c.box[3] \in Int /\ c.box[4] \in Int
        /\ q.box[1] \in Int /\ q.box[2] \in Int /\ q.box[3] \in Int /\ q.box[4] \in Int
    BY <2>2
  <2>13. /\ c.box[1] <= q.box[3] /\ q.box[1] <= c.box[3] /\ q.box[1] <= q.box[3]
        /\ c.box[2] <= q.box[4] /\ q.box[2] <= c.box[4] /\ q.box[2] <= q.box[4]
    <3>1. /\ ~ (c.box[3] < q.box[1]) /\ ~ (q.box[3] < c.box[1])
          /\ ~ (c.box[4] < q.box[2]) /\ ~ (q.box[4] < c.box[2])
      BY <2>5 DEF Meets
    <3>2. q.box[1] < q.box[3] /\ q.box[2] < q.box[4]
      BY <1>4
    <3>3. \A m, n \in Int : (m < n => m <= n) /\ (~ (m < n) => n <= m)
      OBVIOUS
    <3> QED
      BY <2>12, <3>1, <3>2, <3>3
  <2>6. \E x \in c.box[1] .. c.box[3] : x \in q.box[1] .. q.box[3]
    BY <2>1, <2>12, <2>13, Common
  <2>7. \E y \in c.box[2] .. c.box[4] : y \in q.box[2] .. q.box[4]
    BY <2>1, <2>12, <2>13, Common
  <2>8. c.time[1] <= q.time[2] /\ q.time[1] <= c.time[2]
    <3>1. q.time[1] # Missing /\ q.time[2] # Missing /\ q.time # NoTime
      <4>1. q.time[1] # Missing /\ q.time[2] # Missing
        BY <1>4
      <4> QED
        BY <4>1 DEF NoTime
    <3>2. FromOf(q) = q.time[1] /\ UntilOf(q) = q.time[2]
      BY <3>1 DEF FromOf, UntilOf
    <3>3. CASE Missing \in {c.time[1], c.time[2]} \/ Garbled \in {c.time[1], c.time[2], q.time[1], q.time[2]}
      <4>1. TimeVerdict(c, q) = "unknown"
        BY <3>1, <3>3 DEF TimeVerdict
      <4> QED
        BY <1>3, <4>1
    <3>4. CASE ~ (Missing \in {c.time[1], c.time[2]} \/ Garbled \in {c.time[1], c.time[2], q.time[1], q.time[2]})
      <4>1. TimeVerdict(c, q) = IF c.time[1] <= q.time[2] /\ q.time[1] <= c.time[2] THEN "yes" ELSE "no"
        BY <3>1, <3>2, <3>4 DEF TimeVerdict
      <4> QED
        BY <1>3, <4>1
    <3> QED
      BY <3>3, <3>4
  <2>9. \E t \in c.time[1] .. c.time[2] : t \in q.time[1] .. q.time[2]
    BY <1>4, <2>1, <2>2, <2>8, Common
  <2>10. ASSUME NEW b \in q.bands
         PROVE  \E i \in DOMAIN c.bands :
                  /\ Fold(c.bands[i].name) = Fold(b)
                  /\ q.units # "none" => c.bands[i].units = q.units
    <3> DEFINE same == {i \in DOMAIN c.bands : Fold(c.bands[i].name) = Fold(b)}
               last == CHOOSE i \in same : \A j \in same : j <= i
    <3>1. c.bands # <<>> /\ Fold(b) \in FoldedNames(c)
      <4>1. q.bands # {}
        BY <2>10
      <4>2. CASE c.bands = <<>>
        BY <1>3, <4>1, <4>2 DEF BandVerdict
      <4>3. CASE c.bands # <<>>
        BY <1>3, <2>10, <4>1, <4>3 DEF BandVerdict
      <4> QED
        BY <4>2, <4>3
    <3>2. same # {}
      BY <3>1 DEF FoldedNames
    <3>3. DOMAIN c.bands = 1 .. Len(c.bands) /\ Len(c.bands) \in Nat
      BY <1>5
    <3>4. \E i \in same : \A j \in same : j <= i
      BY <3>2, <3>3, FirstAndLast
    <3>5. last \in same
      BY <3>4
    <3>6. BandCalled(c, b) = c.bands[last]
      BY <3>2 DEF BandCalled
    <3>7. q.units # "none" => BandCalled(c, b).units = q.units
      BY <1>1, <2>10 DEF UnitsStatus
    <3> HIDE DEF last
    <3> QED
      BY <3>5, <3>6, <3>7
  <2>11. q.exports => "no-export" \notin c.policy.restrictions
    BY <1>1 DEF PolicyStatus
  <2> QED
    BY <2>6, <2>7, <2>9, <2>10, <2>11 DEF Serves
<1> QED
  BY <1>2, <1>6 DEF ValidServes

-----------------------------------------------------------------------------
CardInv == CardTypeOK /\ DecisionIsRight

LEMMA CardStart == CardInit => CardInv
<1> SUFFICES ASSUME CardInit PROVE CardInv
  OBVIOUS
<1>1. NoCard \in CardShapes
  <2>1. <<>> \in Seq(Int) /\ <<>> \in Seq(Bands) /\ <<>> \in Seq(Components)
    OBVIOUS
  <2> QED
    BY <2>1 DEF NoCard, CardShapes, NoBox
<1>2. CardTypeOK
  <2>1. card = NoCard /\ file = <<>> /\ shifts = 0 /\ loading = "none"
    BY DEF CardInit
  <2>2. {card} \cup {file[i] : i \in DOMAIN file} = {NoCard} /\ Len(file) = 0
    BY <2>1
  <2>3. Len(NoCard.bands) = 0 /\ Len(NoCard.parts) = 0
    BY DEF NoCard
  <2>4. 0 <= MaxParts /\ 0 \in 0 .. MaxShifts
    BY CardAssumption
  <2>5. catalogue \in [Part -> Levels \cup {"absent"}]
    BY DEF CardInit, Levels
  <2>6. bench \in {"data", "model", "case", "file"}
    BY DEF CardInit
  <2> QED
    BY <1>1, <2>1, <2>2, <2>3, <2>4, <2>5, <2>6 DEF CardTypeOK
<1>3. DecisionIsRight
  BY DEF CardInit, DecisionIsRight, Undecided
<1> QED
  BY <1>2, <1>3 DEF CardInv

(* What an edit makes of the card *)
LEMMA EditKeeps ==
  ASSUME CardInv, NEW c \in CardShapes, Len(c.bands) <= MaxParts, Len(c.parts) <= MaxParts, Edited(c)
  PROVE  CardInv'
<1>1. CardTypeOK'
  BY DEF CardInv, CardTypeOK, Edited
<1>2. DecisionIsRight'
  BY DEF Edited, DecisionIsRight, Undecided
<1> QED
  BY <1>1, <1>2 DEF CardInv

LEMMA BuilderKeeps ==
  ASSUME CardInv, SetSpatial \/ SetTemporal \/ AddBand \/ SetCompliance \/ SetRuntime \/ AddComponent
  PROVE  CardInv'
<1>1. card \in CardShapes /\ Len(card.bands) <= MaxParts /\ Len(card.parts) <= MaxParts /\ MaxParts \in Nat
  BY CardAssumption DEF CardInv, CardTypeOK
<1>2. /\ card.bands \in Seq(Bands) /\ card.parts \in Seq(Components)
      /\ Len(card.bands) \in Nat /\ Len(card.parts) \in Nat
  BY <1>1 DEF CardShapes
<1>3. CASE SetSpatial
  <2>1. PICK p \in Places : Edited([card EXCEPT !.box = p.box, !.crs = p.crs, !.res = p.res])
    BY <1>3 DEF SetSpatial
  <2> DEFINE c == [card EXCEPT !.box = p.box, !.crs = p.crs, !.res = p.res]
  <2>2. c \in CardShapes /\ c.bands = card.bands /\ c.parts = card.parts
    BY <1>1, CardAssumption DEF CardShapes
  <2> QED
    BY <1>1, <2>1, <2>2, EditKeeps
<1>4. CASE SetTemporal
  <2>1. PICK t \in Times : Edited([card EXCEPT !.time = t])
    BY <1>4 DEF SetTemporal
  <2>2. [card EXCEPT !.time = t] \in CardShapes
    BY <1>1 DEF CardShapes
  <2> QED
    BY <1>1, <2>1, <2>2, EditKeeps DEF CardShapes
<1>5. CASE AddBand
  <2>1. PICK b \in Bands : Len(card.bands) < MaxParts /\ Edited([card EXCEPT !.bands = Append(card.bands, b)])
    BY <1>5 DEF AddBand
  <2> DEFINE l == Append(card.bands, b)
             c == [card EXCEPT !.bands = l]
  <2>2. l \in Seq(Bands) /\ Len(l) = Len(card.bands) + 1
    BY <1>2
  <2>3. Len(l) <= MaxParts
    BY <1>1, <1>2, <2>1, <2>2
  <2> HIDE DEF l
  <2>4. c \in CardShapes /\ c.bands = l /\ c.parts = card.parts
    BY <1>1, <2>2 DEF CardShapes
  <2>5. Edited(c)
    BY <2>1 DEF l
  <2> HIDE DEF c
  <2> QED
    BY <1>1, <2>3, <2>4, <2>5, EditKeeps
<1>6. CASE SetCompliance
  <2>1. PICK p \in Policies : Edited([card EXCEPT !.policy = p])
    BY <1>6 DEF SetCompliance
  <2>2. [card EXCEPT !.policy = p] \in CardShapes
    BY <1>1 DEF CardShapes
  <2> QED
    BY <1>1, <2>1, <2>2, EditKeeps DEF CardShapes
<1>7. CASE SetRuntime
  <2>1. PICK r \in Runtimes : Edited([card EXCEPT !.runtime = r])
    BY <1>7 DEF SetRuntime
  <2>2. [card EXCEPT !.runtime = r] \in CardShapes
    BY <1>1 DEF CardShapes
  <2> QED
    BY <1>1, <2>1, <2>2, EditKeeps DEF CardShapes
<1>8. CASE AddComponent
  <2>1. PICK p \in Part, role \in {"data", "skill"}, req \in BOOLEAN :
          /\ Len(card.parts) < MaxParts
          /\ Edited([card EXCEPT !.parts = Append(card.parts, [id |-> p, role |-> role, required |-> req])])
    BY <1>8 DEF AddComponent
  <2> DEFINE new == [id |-> p, role |-> role, required |-> req]
             l == Append(card.parts, new)
             c == [card EXCEPT !.parts = l]
  <2>2. new \in Components
    BY DEF Components
  <2>3. l \in Seq(Components) /\ Len(l) = Len(card.parts) + 1
    <3> HIDE DEF new
    <3> QED
      BY <1>2, <2>2
  <2>4. Edited(c)
    BY <2>1
  <2> HIDE DEF l
  <2>5. Len(l) <= MaxParts
    BY <1>1, <1>2, <2>1, <2>3
  <2>6. c \in CardShapes /\ c.parts = l /\ c.bands = card.bands
    BY <1>1, <2>3 DEF CardShapes
  <2> HIDE DEF c
  <2> QED
    BY <1>1, <2>4, <2>5, <2>6, EditKeeps
<1> QED
  BY <1>3, <1>4, <1>5, <1>6, <1>7, <1>8

LEMMA FileKeeps == ASSUME CardInv, Save \/ LoadBack PROVE CardInv'
<1>1. CASE Save
  <2>1. file' = <<card>> /\ DOMAIN file' = {1} /\ file'[1] = card /\ Len(file') = 1
    BY <1>1 DEF Save
  <2>2. CardTypeOK'
    BY <1>1, <2>1 DEF CardInv, CardTypeOK, Save
  <2>3. DecisionIsRight'
    BY <1>1 DEF CardInv, Save, DecisionIsRight, ValidServes, MatchIsRight, ShownIsRight, PartsThatGate
  <2> QED
    BY <2>2, <2>3 DEF CardInv
<1>2. CASE LoadBack
  <2>1. CASE Duplicated(file[1])
    <3>1. loading' = "raised" /\ UNCHANGED <<card, decided, bench, file, catalogue, shifts>>
      BY <1>2, <2>1 DEF LoadBack
    <3>2. CardTypeOK'
      BY <3>1 DEF CardInv, CardTypeOK
    <3>3. DecisionIsRight'
      BY <3>1 DEF CardInv, DecisionIsRight, ValidServes, MatchIsRight, ShownIsRight, PartsThatGate
    <3> QED
      BY <3>2, <3>3 DEF CardInv
  <2>2. CASE ~ Duplicated(file[1])
    <3>1. /\ loading' = "ok" /\ card' = file[1] /\ decided' = Undecided /\ file # <<>>
          /\ UNCHANGED <<bench, file, catalogue, shifts>>
      BY <1>2, <2>2 DEF LoadBack
    <3>2. CardTypeOK'
      BY <3>1 DEF CardInv, CardTypeOK
    <3>3. DecisionIsRight'
      BY <3>1 DEF DecisionIsRight, Undecided
    <3> QED
      BY <3>2, <3>3 DEF CardInv
  <2> QED
    BY <2>1, <2>2
<1> QED
  BY <1>1, <1>2

LEMMA ShiftKeeps == ASSUME CardInv, NEW p \in Part, ShiftCatalogue(p) PROVE CardInv'
<1>1. PICK l \in Levels \cup {"absent"} :
        /\ shifts < MaxShifts /\ shifts' = shifts + 1 /\ catalogue' = [catalogue EXCEPT ![p] = l]
        /\ decided' = Undecided /\ UNCHANGED <<bench, card, file, loading>>
  BY DEF ShiftCatalogue
<1>2. CardTypeOK'
  BY <1>1, CardAssumption DEF CardInv, CardTypeOK
<1>3. DecisionIsRight'
  BY <1>1 DEF DecisionIsRight, Undecided
<1> QED
  BY <1>2, <1>3 DEF CardInv

LEMMA DecisionKeeps ==
  ASSUME CardInv, Search \/ ValidateContract \/ MatchResource \/ Show
  PROVE  CardInv'
<1>1. UNCHANGED <<bench, card, file, loading, catalogue, shifts>>
  BY DEF Search, ValidateContract, MatchResource, Show, Decide
<1>2. CardTypeOK'
  BY <1>1 DEF CardInv, CardTypeOK
<1>3. CASE Search
  <2>1. decided'.by = "search"
    BY <1>3 DEF Search, Decide
  <2> QED
    BY <1>2, <2>1 DEF CardInv, DecisionIsRight
<1>4. CASE ValidateContract
  <2>1. PICK q \in Requests :
          WellFormed(q) /\ decided' = [by |-> "contract", value |-> <<q, ContractValid(card, q)>>]
    BY <1>4 DEF ValidateContract, Decide
  <2>2. decided'.by = "contract" /\ decided'.value[1] = q /\ (decided'.value[2] <=> ContractValid(card, q))
    BY <2>1
  <2>3. ContractValid(card, q) => ValidServes(card, q)
    BY <2>1, ValidContractsServe DEF CardInv, CardTypeOK
  <2>4. ValidServes(card', q) <=> ValidServes(card, q)
    BY <1>1
  <2> QED
    BY <1>2, <2>2, <2>3, <2>4 DEF CardInv, DecisionIsRight
<1>5. CASE MatchResource
  <2>1. PICK strict \in BOOLEAN : decided' = [by |-> "match", value |-> <<strict, Matched(card.runtime, strict)>>]
    BY <1>5 DEF MatchResource, Decide
  <2>2. decided'.by = "match" /\ decided'.value[1] = strict /\ decided'.value[2] = Matched(card.runtime, strict)
    BY <2>1
  <2>3. MatchIsRight(strict, Matched(card.runtime, strict))'
    BY <1>1, MatchesAreRight DEF MatchIsRight
  <2>4. decided'.value[2] = Matched(card'.runtime, strict)
    BY <1>1, <2>2
  <2> QED
    BY <1>1, <1>2, <2>2, <2>3 DEF CardInv, DecisionIsRight, MatchIsRight
<1>6. CASE Show
  <2>1. decided' = [by |-> "show", value |-> <<InvisibleParts(card), Visibility(card)>>]
    BY <1>6 DEF Show, Decide
  <2>2. decided'.by = "show" /\ decided'.value[1] = InvisibleParts(card) /\ decided'.value[2] = Visibility(card)
    BY <2>1
  <2>3. ShownIsRight(InvisibleParts(card), Visibility(card))
    BY ShowIsRight DEF CardInv
  <2> QED
    BY <1>1, <1>2, <2>2, <2>3 DEF CardInv, DecisionIsRight, ShownIsRight, PartsThatGate
<1> QED
  BY <1>3, <1>4, <1>5, <1>6

LEMMA CardStepKeeps == CardInv /\ [CardNext]_cardVars => CardInv'
<1> SUFFICES ASSUME CardInv, [CardNext]_cardVars PROVE CardInv'
  OBVIOUS
<1>1. CASE UNCHANGED cardVars
  BY <1>1 DEF cardVars, CardInv, CardTypeOK, DecisionIsRight, ValidServes, MatchIsRight, ShownIsRight, PartsThatGate
<1> QED
  BY <1>1, BuilderKeeps, FileKeeps, ShiftKeeps, DecisionKeeps DEF CardNext

(* CardInv holds of every card, request and catalogue: what was decided last is what the
   card said *)
THEOREM CardInvariant == CardSpec => []CardInv
BY CardStart, CardStepKeeps, PTL DEF CardSpec

(* A contract called valid is one the registry would list, and the card serves it; a model
   goes to the first node that can host it; a composite is never more visible than a part
   that counts; and more parts, or stricter ones, open nothing (check, validate_contract,
   match_resource, effective_visibility) *)
THEOREM CardsRead == CardSpec => CardsAreRead
<1>1. CardInv /\ [CardNext]_cardVars => DecisionIsRight' /\ NeverOpens
  BY CardStepKeeps, StricterOpensNothing DEF CardInv
<1> QED
  BY <1>1, CardInvariant, PTL DEF CardSpec, CardsAreRead

-----------------------------------------------------------------------------
(* The first code that counts is one of the codes, or none of them counts *)
LEMMA FirstIs ==
  ASSUME NEW n \in Nat, NEW codes, DOMAIN codes = 1 .. n
  PROVE  \/ FirstOf(codes) = "none" /\ \A i \in 1 .. n : codes[i] = "none"
         \/ /\ FirstOf(codes) # "none"
            /\ \E i \in 1 .. n : FirstOf(codes) = codes[i] /\ \A j \in 1 .. i - 1 : codes[j] = "none"
<1> DEFINE failed == {i \in DOMAIN codes : codes[i] # "none"}
           first == CHOOSE i \in failed : \A j \in failed : i <= j
<1>1. FirstOf(codes) = IF failed = {} THEN "none" ELSE codes[first]
  BY DEF FirstOf
<1>2. CASE failed = {}
  BY <1>1, <1>2
<1>3. CASE failed # {}
  <2>1. \E i \in failed : \A j \in failed : i <= j
    <3>1. failed \in SUBSET Nat
      OBVIOUS
    <3> HIDE DEF failed
    <3> QED
      BY <1>3, <3>1, LeastMember
  <2>2. first \in failed /\ \A j \in failed : first <= j
    <3> HIDE DEF failed
    <3> QED
      BY <2>1
  <2> HIDE DEF first
  <2>3. \A j \in 1 .. first - 1 : codes[j] = "none"
    BY <2>2
  <2> QED
    BY <1>1, <1>3, <2>2, <2>3
<1> QED
  BY <1>2, <1>3

(* ... so of one, two, three or five codes *)
LEMMA FirstOfOne ==
  ASSUME NEW v
  PROVE  FirstOf(<<v>>) = v
<1> DEFINE codes == <<v>>
<1>1. DOMAIN codes = 1 .. 1 /\ codes[1] = v
  OBVIOUS
<1> HIDE DEF codes
<1>2. \/ FirstOf(codes) = "none" /\ \A i \in 1 .. 1 : codes[i] = "none"
      \/ \E i \in 1 .. 1 : FirstOf(codes) = codes[i]
  BY <1>1, FirstIs, 1 \in Nat
<1>3. FirstOf(codes) = v
  BY <1>1, <1>2
<1> QED
  BY <1>3 DEF codes

LEMMA FirstOfTwo ==
  ASSUME NEW v, NEW w
  PROVE  FirstOf(<<v, w>>) \in {v, w, "none"} /\ (FirstOf(<<v, w>>) = "none" => v = "none" /\ w = "none")
<1> DEFINE codes == <<v, w>>
<1>1. DOMAIN codes = 1 .. 2 /\ codes[1] = v /\ codes[2] = w
  OBVIOUS
<1> HIDE DEF codes
<1>2. \/ FirstOf(codes) = "none" /\ \A i \in 1 .. 2 : codes[i] = "none"
      \/ FirstOf(codes) # "none" /\ \E i \in 1 .. 2 : FirstOf(codes) = codes[i]
  BY <1>1, FirstIs, 2 \in Nat
<1>3. FirstOf(codes) \in {v, w, "none"} /\ (FirstOf(codes) = "none" => v = "none" /\ w = "none")
  BY <1>1, <1>2
<1> QED
  BY <1>3 DEF codes

LEMMA FirstOfThree ==
  ASSUME NEW v, NEW w, NEW x
  PROVE  FirstOf(<<v, w, x>>) \in {v, w, x, "none"}
<1> DEFINE codes == <<v, w, x>>
<1>1. DOMAIN codes = 1 .. 3 /\ codes[1] = v /\ codes[2] = w /\ codes[3] = x
  OBVIOUS
<1> HIDE DEF codes
<1>2. FirstOf(codes) = "none" \/ \E i \in 1 .. 3 : FirstOf(codes) = codes[i]
  BY <1>1, FirstIs, 3 \in Nat
<1>3. FirstOf(codes) \in {v, w, x, "none"}
  BY <1>1, <1>2
<1> QED
  BY <1>3 DEF codes

LEMMA FirstOfFive ==
  ASSUME NEW v, NEW w, NEW x, NEW y, NEW z
  PROVE  /\ FirstOf(<<v, w, x, y, z>>) \in {v, w, x, y, z, "none"}
         /\ FirstOf(<<v, w, x, y, z>>) = "none" => x = "none" /\ y = "none"
<1> DEFINE codes == <<v, w, x, y, z>>
<1>1. DOMAIN codes = 1 .. 5 /\ codes[1] = v /\ codes[2] = w /\ codes[3] = x /\ codes[4] = y /\ codes[5] = z
  OBVIOUS
<1> HIDE DEF codes
<1>2. \/ FirstOf(codes) = "none" /\ \A i \in 1 .. 5 : codes[i] = "none"
      \/ FirstOf(codes) # "none" /\ \E i \in 1 .. 5 : FirstOf(codes) = codes[i]
  BY <1>1, FirstIs, 5 \in Nat
<1>3. /\ FirstOf(codes) \in {v, w, x, y, z, "none"}
      /\ FirstOf(codes) = "none" => x = "none" /\ y = "none"
  BY <1>1, <1>2
<1> QED
  BY <1>3 DEF codes

(* A refusal is no result *)
LEMMA RefusalsAre == \A w \in Refusals \cup {"stray", "413", "tool error"} : w \in Answers /\ w # "result"
BY DEF Refusals, Answers

LEMMA FailsIs ==
  ASSUME NEW failed, NEW code \in Refusals
  PROVE  /\ Fails(failed, code) \in {code, "none"} /\ Fails(failed, code) \in Refusals \cup {"none"}
         /\ Fails(failed, code) = "none" <=> ~failed
BY DEF Fails, Refusals

LEMMA AtTheDoorIs ==
  ASSUME NEW c \in Caller, letter[c] \in Letter
  PROVE  /\ AtTheDoor(c) \in Refusals \cup {"none"}
         /\ AtTheDoor(c) = "none" =>
              /\ letter[c].body \in {"get", "calls"}
              /\ HasWrites(letter[c]) /\ Locked(c) => letter[c].door = "stdio"
<1> DEFINE l == letter[c]
<1>1. /\ l.door \in {"http", "stream", "stdio"}
      /\ l.body = "get" => l.door = "http" /\ \A i \in DOMAIN l.calls : l.calls[i].method \in Gets
      /\ l.calls \in Seq(AnyCall)
  BY GeoMcpAssumption
<1>2. CASE l.body = "get"
  <2>1. AtTheDoor(c) = "none"
    BY <1>2 DEF AtTheDoor
  <2>2. DOMAIN l.calls = 1 .. Len(l.calls)
    BY <1>1
  <2>3. ~HasWrites(l)
    BY <1>1, <1>2, <2>2 DEF HasWrites, Gets, Writes
  <2> QED
    BY <1>2, <2>1, <2>3
<1>3. CASE l.body # "get" /\ l.door = "http"
  <2> DEFINE parsed == Fails(l.body = "no json", "PARSE_ERROR")
             object == Fails(l.body = "no object" /\ setup.guarded, "500")
             key == Fails(HasWrites(l) /\ Locked(c), "401")
             request == Fails(l.body # "calls", "INVALID_REQUEST")
             method == Fails(l.calls[1].method \notin Reads \cup Writes, "METHOD_NOT_FOUND")
  <2>1. AtTheDoor(c) = FirstOf(<<parsed, object, key, request, method>>)
    BY <1>3 DEF AtTheDoor
  <2>2. {parsed, object, key, request, method} \subseteq Refusals \cup {"none"}
    BY FailsIs DEF Fails, Refusals
  <2>3. key = "none" /\ request = "none" => l.body = "calls" /\ ~(HasWrites(l) /\ Locked(c))
    BY DEF Fails
  <2> HIDE DEF parsed, object, key, request, method
  <2>4. /\ AtTheDoor(c) \in {parsed, object, key, request, method, "none"}
        /\ AtTheDoor(c) = "none" => key = "none" /\ request = "none"
    BY <2>1, FirstOfFive
  <2> QED
    BY <2>2, <2>3, <2>4
<1>4. CASE l.body # "get" /\ l.door # "http"
  <2> DEFINE key == Fails(l.door = "stream" /\ l.body = "calls" /\ HasWrites(l) /\ Locked(c), "401")
             parsed == Fails(l.body # "calls", "PARSE_ERROR")
  <2>1. AtTheDoor(c) = FirstOf(<<key, parsed>>)
    BY <1>4 DEF AtTheDoor
  <2>2. {key, parsed} \subseteq Refusals \cup {"none"}
    BY DEF Fails, Refusals
  <2>3. key = "none" /\ parsed = "none" => l.body = "calls" /\ (HasWrites(l) /\ Locked(c) => l.door # "stream")
    BY DEF Fails
  <2> HIDE DEF key, parsed
  <2>4. AtTheDoor(c) \in {key, parsed, "none"} /\ (AtTheDoor(c) = "none" => key = "none" /\ parsed = "none")
    BY <2>1, FirstOfTwo
  <2> QED
    BY <1>1, <1>4, <2>2, <2>3, <2>4
<1> QED
  BY <1>2, <1>3, <1>4

-----------------------------------------------------------------------------
(* An asset that geo.describe shows, and is no recipe, whose sharing nobody controls *)
IsThere(a) ==
  /\ a \in Asset /\ AssetKind(a) # "recipe" /\ has[a] # "absent"
  /\ AssetKind(a) = "skill" => has[a] = "registered" /\ setup.engine

(* What is looked up *)
LEMMA LookupsAre ==
  ASSUME NEW m, NEW a, m \in DOMAIN Named => a \in Named[m]
  PROVE  /\ FirstOf(Lookups(m, a)) \in Refusals \cup {"none"}
         /\ IsThere(a) => FirstOf(Lookups(m, a)) \notin {"SKILL_NOT_FOUND", "GEOCARD_NOT_FOUND"}
         /\ m = "describe" /\ FirstOf(Lookups(m, a)) = "none" => a \in Asset /\ Describes(a)
<1>1. \A b \in Asset : AssetKind(b) \in {"skill", "card", "recipe"}
  BY GeoMcpAssumption DEF KindStates
<1>2. /\ DOMAIN Named = {"describe", "execute", "invoke", "plan"}
      /\ Named["describe"] = Asset /\ Named["execute"] = OfSort("skill")
      /\ Named["invoke"] = OfSort("card") /\ Named["plan"] = OfSort("recipe")
  BY DEF Named
<1>3. CASE m = "describe"
  <2> DEFINE shown == Fails(~Describes(a), MissingCode[AssetKind(a)])
  <2>1. Lookups(m, a) = <<shown>>
    BY <1>3 DEF Lookups
  <2>2. a \in Asset
    BY <1>2, <1>3
  <2>3. MissingCode[AssetKind(a)] \in Refusals
    BY <1>1, <2>2 DEF MissingCode, Refusals
  <2>4. shown \in Refusals \cup {"none"} /\ (shown = "none" <=> Describes(a))
    BY <2>3, FailsIs
  <2>5. IsThere(a) => Describes(a)
    BY <1>1 DEF Describes, IsThere
  <2> HIDE DEF shown
  <2>6. FirstOf(Lookups(m, a)) = shown
    BY <2>1, FirstOfOne
  <2> QED
    BY <1>3, <2>2, <2>4, <2>5, <2>6
<1>4. CASE m = "execute"
  <2> DEFINE skill == Fails(has[a] # "registered", "SKILL_NOT_FOUND")
  <2>1. Lookups(m, a) = <<skill>>
    BY <1>4 DEF Lookups
  <2>2. AssetKind(a) = "skill"
    BY <1>2, <1>4 DEF OfSort
  <2>3. skill \in Refusals \cup {"none"} /\ (IsThere(a) => skill = "none")
    BY <2>2 DEF Fails, Refusals, IsThere
  <2> HIDE DEF skill
  <2>4. FirstOf(Lookups(m, a)) = skill
    BY <2>1, FirstOfOne
  <2> QED
    BY <1>4, <2>3, <2>4
<1>5. CASE m = "invoke"
  <2> DEFINE backend == Fails(~setup.backend, "INVALID_ARGUMENT")
             named == Fails(has[a] = "absent", "GEOCARD_NOT_FOUND")
             sort == Fails(has[a] # "model", "INVALID_ARGUMENT")
  <2>1. Lookups(m, a) = <<backend, named, sort>>
    BY <1>5 DEF Lookups
  <2>2. /\ {backend, named, sort} \subseteq Refusals \cup {"none"}
        /\ {backend, sort} \subseteq {"INVALID_ARGUMENT", "none"} /\ (IsThere(a) => named = "none")
    BY DEF Fails, Refusals, IsThere
  <2> HIDE DEF backend, named, sort
  <2>3. FirstOf(Lookups(m, a)) \in {backend, named, sort, "none"}
    BY <2>1, FirstOfThree
  <2> QED
    BY <1>5, <2>2, <2>3
<1>6. CASE m = "plan"
  <2> DEFINE recipe == Fails(~setup.plans \/ ~Resolves(a), "RECIPE_NOT_FOUND")
  <2>1. Lookups(m, a) = <<recipe>>
    BY <1>6 DEF Lookups
  <2>2. recipe \in {"RECIPE_NOT_FOUND", "none"}
    BY DEF Fails
  <2> HIDE DEF recipe
  <2>3. FirstOf(Lookups(m, a)) = recipe
    BY <2>1, FirstOfOne
  <2> QED
    BY <1>6, <2>2, <2>3 DEF Refusals
<1>7. CASE m \notin {"describe", "execute", "invoke", "plan"}
  <2> DEFINE method == Fails(m \notin Reads \cup Gets, "METHOD_NOT_FOUND")
  <2>1. Lookups(m, a) = <<method>>
    BY <1>7 DEF Lookups
  <2>2. method \in {"METHOD_NOT_FOUND", "none"}
    BY DEF Fails
  <2> HIDE DEF method
  <2>3. FirstOf(Lookups(m, a)) = method
    BY <2>1, FirstOfOne
  <2> QED
    BY <1>7, <2>2, <2>3 DEF Refusals
<1> QED
  BY <1>3, <1>4, <1>5, <1>6, <1>7

(* What a handler refuses *)
LEMMA ChecksAre ==
  ASSUME NEW c \in Caller, NEW m, NEW a, m \in DOMAIN Named => a \in Named[m] \cup {NoAsset}
  PROVE  /\ FirstOf(Checks(c, m, a)) \in Refusals \cup {"none"}
         /\ NeedsKey(c, m) => FirstOf(Checks(c, m, a)) # "none"
         /\ IsThere(a) => FirstOf(Checks(c, m, a)) \notin {"SKILL_NOT_FOUND", "GEOCARD_NOT_FOUND"}
         /\ m = "describe" /\ FirstOf(Checks(c, m, a)) = "none" => a \in Asset /\ Describes(a)
<1>1. CASE NeedsKey(c, m)
  <2>1. Checks(c, m, a) = <<"401">>
    BY <1>1 DEF Checks
  <2>2. FirstOf(Checks(c, m, a)) = "401"
    BY <2>1, FirstOfOne
  <2> QED
    BY <2>2 DEF Refusals
<1>2. CASE ~NeedsKey(c, m) /\ m # "artifact" /\ a = NoAsset
  <2> DEFINE code == IF m = "describe" THEN "INTERNAL_ERROR" ELSE "INVALID_PARAMS"
  <2>1. Checks(c, m, a) = <<code>>
    BY <1>2 DEF Checks
  <2>2. code \in {"INTERNAL_ERROR", "INVALID_PARAMS"}
    OBVIOUS
  <2> HIDE DEF code
  <2>3. FirstOf(Checks(c, m, a)) = code
    BY <2>1, FirstOfOne
  <2> QED
    BY <1>2, <2>2, <2>3 DEF Refusals
<1>3. CASE ~NeedsKey(c, m) /\ m = "artifact"
  <2> DEFINE key == Fails(Locked(c), "401")
             path == Fails(a = "outside", "403")
             there == Fails(a = "gone", "404")
  <2>1. Checks(c, m, a) = <<key, path, there>>
    BY <1>3 DEF Checks
  <2>2. {key, path, there} \subseteq {"401", "403", "404", "none"}
    BY DEF Fails
  <2> HIDE DEF key, path, there
  <2>3. FirstOf(Checks(c, m, a)) \in {key, path, there, "none"}
    BY <2>1, FirstOfThree
  <2>4. FirstOf(Checks(c, m, a)) \in {"401", "403", "404", "none"}
    BY <2>2, <2>3
  <2> QED
    BY <1>3, <2>4 DEF Refusals
<1>4. CASE ~NeedsKey(c, m) /\ m # "artifact" /\ a # NoAsset
  <2>1. Checks(c, m, a) = Lookups(m, a)
    BY <1>4 DEF Checks
  <2> QED
    BY <1>4, <2>1, LookupsAre
<1> QED
  BY <1>1, <1>2, <1>3, <1>4

-----------------------------------------------------------------------------
(* What is said of a call is true *)
EntryIsTrue(c, i) ==
  LET e == log[c][i] IN
  /\ e.worked => ~Locked(c) /\ letter[c].calls[i].method \in Writes
  /\ e.says \notin MayHideWork => ~e.worked
  /\ e.says = "result" /\ letter[c].calls[i].method \in Writes => e.worked

(* Nothing is said before a letter is inside, and inside there is a call to come;
   who writes without a key is stopped before, but for the door that asks later *)
CallerInv(c) ==
  /\ stand[c] \notin {"off", "idle"} => letter[c] \in Letter
  /\ chunk[c] \in 0 .. letter[c].chunks
  /\ stand[c] \in {"off", "idle"} => chunk[c] = 0
  /\ stand[c] = "arriving" => chunk[c] < letter[c].chunks
  /\ stand[c] \in {"off", "idle", "arriving", "queued"} => log[c] = <<>>
  /\ stand[c] = "inside" =>
       /\ Len(log[c]) < Len(letter[c].calls)
       /\ HasWrites(letter[c]) /\ Locked(c) => letter[c].door = "stdio"
  /\ \A i \in 1 .. Len(log[c]) : EntryIsTrue(c, i)

Saying == [says : Answers, worked : BOOLEAN]
DoorTypes ==
  /\ setup \in Setup
  /\ has \in [Asset -> {"absent"} \cup UNION {KindStates[s] : s \in DOMAIN KindStates}]
  /\ \A a \in Asset : has[a] \in {"absent"} \cup KindStates[AssetKind(a)]
  /\ stand \in [Caller -> {"off", "idle", "arriving", "queued", "inside", "over"}]
  /\ letter \in [Caller -> Letter \cup {NoLetter}]
  /\ chunk \in [Caller -> Nat]
  /\ waits \in [Caller -> BOOLEAN]
  /\ log \in [Caller -> Seq(Saying)]
  /\ known \subseteq Asset
  /\ bridge \in [at : {"off", "idle", "listing", "registering", "done", "failed"},
                 cursor : Cursor \cup {Nothing}, seen : SUBSET Cursor, tools : Seq(Tool)]
  /\ imported \subseteq Tool \ Native

DoorInv ==
  /\ DoorTypes
  /\ \A c \in Caller : CallerInv(c)
  /\ \A a \in known : AssetKind(a) # "recipe" => IsThere(a)

(* A caller of whom nothing changes *)
LEMMA SameCaller ==
  ASSUME NEW c \in Caller, CallerInv(c), setup' = setup,
         stand'[c] = stand[c], letter'[c] = letter[c], chunk'[c] = chunk[c], log'[c] = log[c]
  PROVE  CallerInv(c)'
BY DEF CallerInv, EntryIsTrue, Locked

LEMMA SameShown ==
  ASSUME DoorInv, UNCHANGED <<setup, has, known>>
  PROVE  (\A a \in known : AssetKind(a) # "recipe" => IsThere(a))'
BY DEF DoorInv, IsThere

(* One more is said to a caller *)
LEMMA RecordIs ==
  ASSUME DoorTypes, NEW c \in Caller, NEW says \in Answers, NEW worked \in BOOLEAN, Record(c, says, worked)
  PROVE  /\ log' \in [Caller -> Seq(Saying)]
         /\ Len(log'[c]) = Len(log[c]) + 1 /\ Len(log[c]) \in Nat
         /\ \A i \in 1 .. Len(log[c]) : log'[c][i] = log[c][i]
         /\ log'[c][Len(log[c]) + 1] = [says |-> says, worked |-> worked]
         /\ \A d \in Caller \ {c} : log'[d] = log[d]
<1> DEFINE e == [says |-> says, worked |-> worked]
<1>1. e \in Saying
  BY DEF Saying
<1> HIDE DEF e
<1>2. log' = [log EXCEPT ![c] = Append(@, e)]
  BY DEF Record, e
<1>3. log \in [Caller -> Seq(Saying)]
  BY DEF DoorTypes
<1>4. Append(log[c], e) \in Seq(Saying) /\ Len(Append(log[c], e)) = Len(log[c]) + 1 /\ Len(log[c]) \in Nat
  BY <1>1, <1>3
<1>5. /\ \A i \in 1 .. Len(log[c]) : Append(log[c], e)[i] = log[c][i]
      /\ Append(log[c], e)[Len(log[c]) + 1] = e
  BY <1>1, <1>3
<1>6. log'[c] = Append(log[c], e) /\ \A d \in Caller \ {c} : log'[d] = log[d]
  BY <1>2, <1>3
<1>7. log' \in [Caller -> Seq(Saying)]
  BY <1>2, <1>3, <1>4
<1> QED
  BY <1>4, <1>5, <1>6, <1>7 DEF e

(* Entries stay true, and one more that says that nothing was done *)
LEMMA RefusalIsTrue ==
  ASSUME DoorTypes, NEW c \in Caller, CallerInv(c), NEW says \in Answers, says # "result",
         Record(c, says, FALSE), UNCHANGED <<setup, letter>>
  PROVE  \A i \in 1 .. Len(log'[c]) : EntryIsTrue(c, i)'
<1>1. /\ Len(log'[c]) = Len(log[c]) + 1 /\ Len(log[c]) \in Nat
      /\ \A i \in 1 .. Len(log[c]) : log'[c][i] = log[c][i]
      /\ log'[c][Len(log[c]) + 1] = [says |-> says, worked |-> FALSE]
  BY RecordIs
<1>2. ASSUME NEW i \in 1 .. Len(log[c]) PROVE EntryIsTrue(c, i)'
  BY <1>1 DEF CallerInv, EntryIsTrue, Locked
<1>3. ASSUME NEW n, n = Len(log[c]) + 1 PROVE EntryIsTrue(c, n)'
  <2>1. log'[c][n] = [says |-> says, worked |-> FALSE]
    BY <1>1, <1>3
  <2> QED
    BY <2>1 DEF EntryIsTrue
<1>4. \A i \in 1 .. Len(log'[c]) : i \in 1 .. Len(log[c]) \/ i = Len(log[c]) + 1
  BY <1>1
<1> QED
  BY <1>2, <1>3, <1>4

LEMMA LettersAre ==
  ASSUME NEW l \in Letter
  PROVE  /\ l.door \in {"http", "stream", "stdio"} /\ l.chunks \in Nat \ {0}
         /\ l.calls \in Seq(AnyCall) /\ Len(l.calls) \in Nat \ {0}
         /\ \A i \in 1 .. Len(l.calls) : l.calls[i] \in AnyCall
<1>1. /\ l.calls \in Seq(AnyCall) /\ l.calls # <<>>
      /\ l.door \in {"http", "stream", "stdio"} /\ l.chunks \in Nat \ {0}
  BY GeoMcpAssumption
<1>2. Len(l.calls) \in Nat \ {0}
  BY <1>1
<1>3. \A i \in 1 .. Len(l.calls) : l.calls[i] \in AnyCall
  BY <1>1
<1> QED
  BY <1>1, <1>2, <1>3

-----------------------------------------------------------------------------
(* Assets come, and what was shown stays *)
LEMMA RegisterKeeps ==
  ASSUME DoorInv, NEW a \in Asset, Register(a)
  PROVE  DoorInv'
<1>1. PICK s \in KindStates[AssetKind(a)] :
        /\ \/ has[a] = "absent"
           \/ AssetKind(a) = "card" /\ ~setup.engine
           \/ has[a] = "pending" /\ s = "approved"
        /\ has' = [has EXCEPT ![a] = s]
  BY DEF Register
<1>2. UNCHANGED <<setup, stand, letter, chunk, waits, log, known, bridge, imported>>
  BY DEF Register, bridgeVars
<1>3. AssetKind(a) \in DOMAIN KindStates
  BY GeoMcpAssumption
<1>4. DoorTypes'
  <2>1. s \in UNION {KindStates[k] : k \in DOMAIN KindStates}
    BY <1>1, <1>3
  <2>2. has' \in [Asset -> {"absent"} \cup UNION {KindStates[k] : k \in DOMAIN KindStates}]
    BY <1>1, <2>1 DEF DoorInv, DoorTypes
  <2>3. \A b \in Asset : has'[b] \in {"absent"} \cup KindStates[AssetKind(b)]
    BY <1>1 DEF DoorInv, DoorTypes
  <2> QED
    BY <1>2, <2>2, <2>3 DEF DoorInv, DoorTypes
<1>5. \A c \in Caller : CallerInv(c)'
  BY <1>2, SameCaller DEF DoorInv
<1>6. ASSUME NEW b \in known, AssetKind(b) # "recipe" PROVE IsThere(b)'
  <2>1. IsThere(b)
    BY <1>6 DEF DoorInv
  <2>2. CASE b = a
    <3>1. AssetKind(a) \in {"skill", "card"}
      BY <1>3, <1>6, <2>2 DEF KindStates
    <3>2. KindStates["skill"] = {"registered"} /\ KindStates["card"] = {"data", "model"}
      BY DEF KindStates
    <3>3. has'[a] = s
      BY <1>1 DEF DoorInv, DoorTypes
    <3> QED
      BY <1>1, <1>2, <2>1, <2>2, <3>1, <3>2, <3>3 DEF IsThere
  <2>3. CASE b # a
    <3>1. has'[b] = has[b]
      BY <1>1, <2>1, <2>3 DEF DoorInv, DoorTypes, IsThere
    <3> QED
      BY <1>2, <2>1, <3>1 DEF IsThere
  <2> QED
    BY <2>2, <2>3
<1> QED
  BY <1>2, <1>4, <1>5, <1>6 DEF DoorInv

LEMMA AskKeeps ==
  ASSUME DoorInv, NEW c \in Caller, Ask(c)
  PROVE  DoorInv'
<1>1. PICK l \in Sends(c) :
        /\ letter' = [letter EXCEPT ![c] = l]
        /\ Goto(c, IF l.door = "stream" /\ setup.guarded THEN "arriving" ELSE "queued")
  BY DEF Ask
<1>2. /\ stand[c] = "idle" /\ waits' = [waits EXCEPT ![c] = TRUE]
      /\ UNCHANGED <<setup, has, chunk, log, known, bridge, imported>>
  BY DEF Ask, bridgeVars
<1>3. l \in Letter
  BY DEF Letter
<1>4. DoorTypes'
  BY <1>1, <1>2, <1>3 DEF DoorInv, DoorTypes, Goto
<1>5. CallerInv(c)'
  <2>1. letter'[c] = l /\ stand'[c] \in {"arriving", "queued"} /\ chunk'[c] = 0 /\ log'[c] = <<>>
    BY <1>1, <1>2 DEF DoorInv, DoorTypes, CallerInv, Goto
  <2>2. l.chunks \in Nat \ {0}
    BY <1>3, LettersAre
  <2>3. 0 \in 0 .. l.chunks /\ 0 < l.chunks /\ Len(log'[c]) = 0
    BY <2>1, <2>2
  <2> QED
    BY <1>3, <2>1, <2>3 DEF CallerInv
<1>6. \A d \in Caller \ {c} : CallerInv(d)'
  <2>1. \A d \in Caller \ {c} : stand'[d] = stand[d] /\ letter'[d] = letter[d]
    BY <1>1 DEF DoorInv, DoorTypes, Goto
  <2> QED
    BY <1>2, <2>1, SameCaller DEF DoorInv
<1> QED
  BY <1>2, <1>4, <1>5, <1>6, SameShown DEF DoorInv

LEMMA ArriveKeeps ==
  ASSUME DoorInv, NEW c \in Caller, Arrive(c)
  PROVE  DoorInv'
<1>1. /\ stand[c] = "arriving" /\ chunk' = [chunk EXCEPT ![c] = @ + 1]
      /\ UNCHANGED <<setup, has, letter, waits, known, bridge, imported>>
  BY DEF Arrive, bridgeVars
<1>2. CallerInv(c) /\ DoorTypes
  BY DEF DoorInv
<1>3. /\ letter[c] \in Letter /\ chunk[c] \in Nat /\ chunk[c] < letter[c].chunks /\ log[c] = <<>>
      /\ letter[c].chunks \in Nat
  BY <1>1, <1>2, LettersAre DEF CallerInv, DoorTypes
<1>4. chunk'[c] = chunk[c] + 1 /\ chunk' \in [Caller -> Nat]
  BY <1>1, <1>2, <1>3 DEF DoorTypes
<1>5. chunk'[c] \in 0 .. letter'[c].chunks
  BY <1>1, <1>3, <1>4
<1>6. \A d \in Caller \ {c} : chunk'[d] = chunk[d]
  BY <1>1, <1>2 DEF DoorTypes
<1>7. CASE Goto(c, "over") /\ Record(c, "413", FALSE)
  <2>0. "413" \in Answers /\ "413" # "result" /\ FALSE \in BOOLEAN
    BY RefusalsAre
  <2>1. log' \in [Caller -> Seq(Saying)] /\ \A d \in Caller \ {c} : log'[d] = log[d]
    BY <2>0, <1>2, <1>7, RecordIs
  <2>2. \A i \in 1 .. Len(log'[c]) : EntryIsTrue(c, i)'
    BY <2>0, <1>1, <1>2, <1>7, RefusalIsTrue
  <2>3. /\ stand'[c] = "over" /\ \A d \in Caller \ {c} : stand'[d] = stand[d]
        /\ stand' \in [Caller -> {"off", "idle", "arriving", "queued", "inside", "over"}]
    BY <1>2, <1>7 DEF Goto, DoorTypes
  <2>4. CallerInv(c)'
    BY <1>1, <1>3, <1>5, <2>2, <2>3 DEF CallerInv
  <2>5. \A d \in Caller \ {c} : CallerInv(d)'
    BY <1>1, <1>6, <2>1, <2>3, SameCaller DEF DoorInv
  <2>6. DoorTypes'
    BY <1>1, <1>2, <1>4, <2>1, <2>3 DEF DoorTypes
  <2> QED
    BY <1>1, <2>4, <2>5, <2>6, SameShown DEF DoorInv
<1>8. CASE chunk'[c] < letter[c].chunks /\ UNCHANGED <<stand, log>>
  <2>1. CallerInv(c)'
    BY <1>1, <1>2, <1>5, <1>8 DEF CallerInv, EntryIsTrue, Locked
  <2>2. \A d \in Caller \ {c} : CallerInv(d)'
    BY <1>1, <1>6, <1>8, SameCaller DEF DoorInv
  <2>3. DoorTypes'
    BY <1>1, <1>2, <1>4, <1>8 DEF DoorTypes
  <2> QED
    BY <1>1, <2>1, <2>2, <2>3, SameShown DEF DoorInv
<1>9. CASE Goto(c, "queued") /\ UNCHANGED log
  <2>1. /\ stand'[c] = "queued" /\ \A d \in Caller \ {c} : stand'[d] = stand[d]
        /\ stand' \in [Caller -> {"off", "idle", "arriving", "queued", "inside", "over"}]
    BY <1>2, <1>9 DEF Goto, DoorTypes
  <2>2. CallerInv(c)'
    BY <1>1, <1>2, <1>3, <1>5, <1>9, <2>1 DEF CallerInv, EntryIsTrue, Locked
  <2>3. \A d \in Caller \ {c} : CallerInv(d)'
    BY <1>1, <1>6, <1>9, <2>1, SameCaller DEF DoorInv
  <2>4. DoorTypes'
    BY <1>1, <1>2, <1>4, <1>9, <2>1 DEF DoorTypes
  <2> QED
    BY <1>1, <2>2, <2>3, <2>4, SameShown DEF DoorInv
<1> QED
  BY <1>7, <1>8, <1>9 DEF Arrive

LEMMA StopWaitingKeeps ==
  ASSUME DoorInv, NEW c \in Caller, StopWaiting(c)
  PROVE  DoorInv'
<1>1. /\ UNCHANGED <<setup, has, letter, chunk, log, known, bridge, imported>>
      /\ waits' = [waits EXCEPT ![c] = FALSE]
      /\ IF stand[c] = "arriving" THEN Goto(c, "over") ELSE UNCHANGED stand
  BY DEF StopWaiting, bridgeVars
<1>2. DoorTypes'
  BY <1>1 DEF DoorInv, DoorTypes, Goto
<1>3. CallerInv(c)'
  <2>1. CASE stand[c] = "arriving"
    <3>1. stand'[c] = "over"
      BY <1>1, <2>1 DEF DoorInv, DoorTypes, Goto
    <3> QED
      BY <1>1, <2>1, <3>1 DEF DoorInv, CallerInv, EntryIsTrue, Locked
  <2>2. CASE stand[c] # "arriving"
    BY <1>1, <2>2, SameCaller DEF DoorInv
  <2> QED
    BY <2>1, <2>2
<1>4. \A d \in Caller \ {c} : CallerInv(d)'
  <2>1. \A d \in Caller \ {c} : stand'[d] = stand[d]
    BY <1>1 DEF DoorInv, DoorTypes, Goto
  <2> QED
    BY <1>1, <2>1, SameCaller DEF DoorInv
<1> QED
  BY <1>1, <1>2, <1>3, <1>4, SameShown DEF DoorInv

(* A letter that is answered before any call of it is looked at *)
LEMMA RefusedKeeps ==
  ASSUME DoorInv, NEW c \in Caller, stand[c] = "queued", NEW says \in Refusals \cup {"stray"},
         Goto(c, "over"), Record(c, says, FALSE),
         UNCHANGED <<setup, has, letter, chunk, waits, known, bridge, imported>>
  PROVE  DoorInv'
<1>1. CallerInv(c) /\ DoorTypes
  BY DEF DoorInv
<1>2. says \in Answers /\ says # "result"
  BY RefusalsAre
<1>3. log' \in [Caller -> Seq(Saying)] /\ \A d \in Caller \ {c} : log'[d] = log[d]
  BY <1>1, <1>2, RecordIs
<1>4. \A i \in 1 .. Len(log'[c]) : EntryIsTrue(c, i)'
  BY <1>1, <1>2, RefusalIsTrue
<1>5. /\ stand'[c] = "over" /\ \A d \in Caller \ {c} : stand'[d] = stand[d]
      /\ stand' \in [Caller -> {"off", "idle", "arriving", "queued", "inside", "over"}]
  BY <1>1 DEF Goto, DoorTypes
<1>6. CallerInv(c)'
  BY <1>1, <1>4, <1>5 DEF CallerInv
<1>7. \A d \in Caller \ {c} : CallerInv(d)'
  BY <1>3, <1>5, SameCaller DEF DoorInv
<1>8. DoorTypes'
  BY <1>1, <1>3, <1>5 DEF DoorTypes
<1> QED
  BY <1>6, <1>7, <1>8, SameShown DEF DoorInv

LEMMA StrayKeeps ==
  ASSUME DoorInv, NEW c \in Caller, Stray(c)
  PROVE  DoorInv'
BY RefusedKeeps DEF Stray, bridgeVars

LEMMA GoInsideKeeps ==
  ASSUME DoorInv, NEW c \in Caller, GoInside(c)
  PROVE  DoorInv'
<1>1. /\ stand[c] = "queued" /\ UNCHANGED <<setup, has, letter, chunk, waits, known, bridge, imported>>
      /\ IF AtTheDoor(c) = "none" THEN Goto(c, "inside") /\ UNCHANGED log
         ELSE Goto(c, "over") /\ Record(c, AtTheDoor(c), FALSE)
  BY DEF GoInside, bridgeVars
<1>2. CallerInv(c) /\ DoorTypes
  BY DEF DoorInv
<1>3. letter[c] \in Letter /\ log[c] = <<>>
  BY <1>1, <1>2 DEF CallerInv
<1>4. /\ AtTheDoor(c) \in Refusals \cup {"none"}
      /\ AtTheDoor(c) = "none" => (HasWrites(letter[c]) /\ Locked(c) => letter[c].door = "stdio")
  BY <1>3, AtTheDoorIs
<1>5. CASE AtTheDoor(c) = "none"
  <2>1. /\ stand'[c] = "inside" /\ \A d \in Caller \ {c} : stand'[d] = stand[d]
        /\ stand' \in [Caller -> {"off", "idle", "arriving", "queued", "inside", "over"}]
    BY <1>1, <1>2, <1>5 DEF Goto, DoorTypes
  <2>2. Len(log[c]) < Len(letter[c].calls)
    BY <1>3, LettersAre
  <2>3. Locked(c)' = Locked(c)
    BY <1>1 DEF Locked
  <2>4. CallerInv(c)'
    BY <1>1, <1>2, <1>3, <1>4, <1>5, <2>1, <2>2, <2>3 DEF CallerInv, EntryIsTrue
  <2>5. \A d \in Caller \ {c} : CallerInv(d)'
    BY <1>1, <1>5, <2>1, SameCaller DEF DoorInv
  <2>6. DoorTypes'
    BY <1>1, <1>2, <1>5, <2>1 DEF DoorTypes
  <2> QED
    BY <1>1, <2>4, <2>5, <2>6, SameShown DEF DoorInv
<1>6. CASE AtTheDoor(c) # "none"
  BY <1>1, <1>4, <1>6, RefusedKeeps
<1> QED
  BY <1>5, <1>6

(* What is said of the next call, and what it adds to what was shown *)
LEMMA PerformIs ==
  ASSUME DoorInv, NEW c \in Caller, Perform(c),
         NEW i, i = Len(log[c]) + 1, NEW k, k = letter[c].calls[i]
  PROVE  \E says \in Answers, worked \in BOOLEAN :
           /\ Record(c, says, worked)
           /\ worked => ~Locked(c) /\ k.method \in Writes
           /\ says \notin MayHideWork => ~worked
           /\ says = "result" /\ k.method \in Writes => worked
           /\ IsThere(k.asset) => says \notin {"SKILL_NOT_FOUND", "GEOCARD_NOT_FOUND"}
           /\ known' = known \/ (known' = known \cup {k.asset} /\ k.asset \in Asset /\ Describes(k.asset))
<1> DEFINE m == k.method
           a == k.asset
           refusal == FirstOf(Checks(c, m, a))
<1>1. CallerInv(c) /\ DoorTypes
  BY DEF DoorInv
<1>2. stand[c] = "inside" /\ letter[c] \in Letter /\ Len(log[c]) < Len(letter[c].calls)
  BY <1>1 DEF Perform, CallerInv
<1>3. i \in 1 .. Len(letter[c].calls) /\ k \in AnyCall
  <2>1. Len(log[c]) \in Nat /\ Len(letter[c].calls) \in Nat
    BY <1>1, <1>2, LettersAre DEF DoorTypes
  <2>2. i \in 1 .. Len(letter[c].calls)
    BY <1>2, <2>1
  <2> QED
    BY <1>2, <2>2, LettersAre
<1>4. /\ refusal \in Refusals \cup {"none"}
      /\ NeedsKey(c, m) => refusal # "none"
      /\ IsThere(a) => refusal \notin {"SKILL_NOT_FOUND", "GEOCARD_NOT_FOUND"}
      /\ m = "describe" /\ refusal = "none" => a \in Asset /\ Describes(a)
  <2>1. m \in DOMAIN Named => a \in Named[m] \cup {NoAsset}
    BY <1>3 DEF AnyCall
  <2> QED
    BY <2>1, ChecksAre
<1>5. IF refusal # "none" THEN Record(c, Said(c, refusal), FALSE) /\ UNCHANGED known
      ELSE \E r \in Results(m) : /\ Record(c, Said(c, r), m \in Writes)
                                 /\ known' = IF m = "describe" THEN known \cup {a} ELSE known
  BY DEF Perform
<1> HIDE DEF refusal
<1>6. CASE refusal # "none"
  <2>1. Said(c, refusal) \in {refusal, "tool error"}
    BY DEF Said
  <2>2. Said(c, refusal) \in Answers /\ Said(c, refusal) # "result"
    BY <1>4, <1>6, <2>1, RefusalsAre
  <2>3. IsThere(a) => Said(c, refusal) \notin {"SKILL_NOT_FOUND", "GEOCARD_NOT_FOUND"}
    BY <1>4, <2>1
  <2>4. Record(c, Said(c, refusal), FALSE) /\ known' = known
    BY <1>5, <1>6
  <2> QED
    BY <2>2, <2>3, <2>4
<1>7. CASE refusal = "none"
  <2>1. PICK r \in Results(m) : /\ Record(c, Said(c, r), m \in Writes)
                                /\ known' = IF m = "describe" THEN known \cup {a} ELSE known
    BY <1>5, <1>7
  <2>2. /\ r \in {"result", "EXECUTION_FAILED", "500", "INTERNAL_ERROR", "RECIPE_PARAM_INVALID"}
        /\ m \in Writes => r \in MayHideWork
    BY <2>1 DEF Results, Writes, MayHideWork
  <2>3. Said(c, r) \in {r, "tool error"} /\ (Said(c, r) = "tool error" => Said(c, r) \in MayHideWork)
    BY DEF Said, MayHideWork
  <2>4. Said(c, r) \in Answers /\ Said(c, r) \notin {"SKILL_NOT_FOUND", "GEOCARD_NOT_FOUND"}
    BY <2>2, <2>3 DEF Answers, Refusals
  <2>5. m \in Writes => ~Locked(c)
    <3>1. m \in Writes => HasWrites(letter[c])
      BY <1>3 DEF HasWrites
    <3> QED
      BY <1>1, <1>2, <1>4, <1>7, <3>1 DEF CallerInv, NeedsKey
  <2>6. known' = known \/ (known' = known \cup {a} /\ a \in Asset /\ Describes(a))
    BY <1>4, <1>7, <2>1
  <2>7. CASE m \in Writes
    <3>1. Record(c, Said(c, r), TRUE)
      BY <2>1, <2>7 DEF Record
    <3> QED
      BY <2>2, <2>3, <2>4, <2>5, <2>6, <2>7, <3>1
  <2>8. CASE m \notin Writes
    <3>1. (m \in Writes) = FALSE
      BY <2>8
    <3>2. Record(c, Said(c, r), FALSE)
      BY <2>1, <3>1, Zenon
    <3> QED
      BY <2>4, <2>6, <2>8, <3>2
  <2> QED
    BY <2>7, <2>8
<1> QED
  BY <1>6, <1>7

LEMMA PerformKeeps ==
  ASSUME DoorInv, NEW c \in Caller, Perform(c)
  PROVE  DoorInv'
<1>1. CallerInv(c) /\ DoorTypes
  BY DEF DoorInv
<1>2. PICK i, k : i \in Nat /\ i = Len(log[c]) + 1 /\ k = letter[c].calls[i]
  <2>1. Len(log[c]) + 1 \in Nat
    BY <1>1 DEF DoorTypes
  <2> QED
    BY <2>1
<1>3. PICK says \in Answers, worked \in BOOLEAN :
           /\ Record(c, says, worked)
           /\ worked => ~Locked(c) /\ k.method \in Writes
           /\ says \notin MayHideWork => ~worked
           /\ says = "result" /\ k.method \in Writes => worked
           /\ known' = known \/ (known' = known \cup {k.asset} /\ k.asset \in Asset /\ Describes(k.asset))
  BY <1>2, PerformIs
<1>4. /\ log' \in [Caller -> Seq(Saying)]
      /\ Len(log'[c]) = i /\ Len(log[c]) \in Nat
      /\ \A j \in 1 .. Len(log[c]) : log'[c][j] = log[c][j]
      /\ log'[c][i] = [says |-> says, worked |-> worked]
      /\ \A d \in Caller \ {c} : log'[d] = log[d]
  BY <1>1, <1>2, <1>3, RecordIs
<1>5. /\ stand[c] = "inside" /\ UNCHANGED <<setup, has, letter, chunk, waits, bridge, imported>>
      /\ IF i = Len(letter[c].calls) THEN Goto(c, "over") ELSE UNCHANGED stand
  BY <1>2 DEF Perform, bridgeVars
<1>6. letter[c] \in Letter /\ Len(log[c]) < Len(letter[c].calls) /\ Len(letter[c].calls) \in Nat
  BY <1>1, <1>5, LettersAre DEF CallerInv
<1>7. /\ stand' \in [Caller -> {"off", "idle", "arriving", "queued", "inside", "over"}]
      /\ \A d \in Caller \ {c} : stand'[d] = stand[d]
      /\ stand'[c] = "over" \/ (stand'[c] = "inside" /\ i # Len(letter[c].calls))
  BY <1>1, <1>5 DEF Goto, DoorTypes
<1>8. \A j \in 1 .. Len(log'[c]) : EntryIsTrue(c, j)'
  <2>1. ASSUME NEW j \in 1 .. Len(log[c]) PROVE EntryIsTrue(c, j)'
    BY <1>1, <1>4, <1>5 DEF CallerInv, EntryIsTrue, Locked
  <2>2. EntryIsTrue(c, i)'
    BY <1>2, <1>3, <1>4, <1>5 DEF EntryIsTrue, Locked
  <2>3. \A j \in 1 .. Len(log'[c]) : j \in 1 .. Len(log[c]) \/ j = i
    BY <1>2, <1>4
  <2> QED
    BY <2>1, <2>2, <2>3
<1>9. CallerInv(c)'
  <2>1. stand'[c] = "inside" => Len(log'[c]) < Len(letter'[c].calls)
    BY <1>2, <1>4, <1>5, <1>6, <1>7
  <2>2. HasWrites(letter'[c]) /\ Locked(c)' => letter'[c].door = "stdio"
    BY <1>1, <1>5 DEF CallerInv, Locked
  <2> QED
    BY <1>1, <1>5, <1>6, <1>7, <1>8, <2>1, <2>2 DEF CallerInv
<1>10. \A d \in Caller \ {c} : CallerInv(d)'
  BY <1>4, <1>5, <1>7, SameCaller DEF DoorInv
<1>11. DoorTypes'
  BY <1>1, <1>3, <1>4, <1>5, <1>7 DEF DoorTypes
<1>12. (\A a \in known : AssetKind(a) # "recipe" => IsThere(a))'
  <2>1. \A a \in Asset : AssetKind(a) # "recipe" /\ Describes(a) => IsThere(a)
    <3>1. \A a \in Asset : AssetKind(a) \in {"skill", "card", "recipe"}
      BY GeoMcpAssumption DEF KindStates
    <3>2. \A a \in Asset : AssetKind(a) = "skill" => (Describes(a) <=> setup.engine /\ has[a] = "registered")
      BY DEF Describes
    <3>3. \A a \in Asset : AssetKind(a) = "card" => (Describes(a) <=> has[a] # "absent")
      BY DEF Describes
    <3> QED
      BY <3>1, <3>2, <3>3 DEF IsThere
  <2>2. \A a : IsThere(a)' <=> IsThere(a)
    BY <1>5 DEF IsThere
  <2> QED
    BY <1>3, <2>1, <2>2 DEF DoorInv
<1> QED
  BY <1>9, <1>10, <1>11, <1>12 DEF DoorInv

(* The bridge does not touch the doors *)
LEMMA BridgeKeeps ==
  ASSUME DoorInv, List \/ Page \/ ListFails \/ TakeIn
  PROVE  DoorInv'
<1> DEFINE Bridges == [at : {"off", "idle", "listing", "registering", "done", "failed"},
                       cursor : Cursor \cup {Nothing}, seen : SUBSET Cursor, tools : Seq(Tool)]
<1>1. UNCHANGED <<setup, has, stand, letter, chunk, waits, log, known>>
  BY DEF List, Page, ListFails, TakeIn, theDoors
<1>2. bridge \in Bridges /\ imported \subseteq Tool \ Native
  BY DEF DoorInv, DoorTypes
<1>3. bridge' \in Bridges /\ imported' \subseteq Tool \ Native
  <2>1. CASE List \/ ListFails
    BY <1>2, <2>1 DEF List, ListFails
  <2>2. CASE Page
    <3>1. PICK page \in {<<>>} \cup {<<t>> : t \in Tool}, n \in Cursor \cup {Nothing} :
            LET found == [bridge EXCEPT !.tools = @ \o page] IN
            bridge' =
              CASE n = Nothing -> [found EXCEPT !.at = "registering"]
                [] n # Nothing /\ GoodCursor(n) -> [found EXCEPT !.cursor = n, !.seen = @ \cup {n}]
                [] OTHER -> [bridge EXCEPT !.at = "failed"]
      BY <2>2 DEF Page
    <3> DEFINE found == [bridge EXCEPT !.tools = @ \o page]
    <3>2. imported' = imported
      BY <2>2 DEF Page
    <3>3. found \in Bridges
      <4>1. bridge.tools \in Seq(Tool)
        BY <1>2
      <4>2. page \in Seq(Tool)
        <5>1. CASE page = <<>>
          BY <5>1
        <5>2. ASSUME NEW t \in Tool, page = <<t>> PROVE page \in Seq(Tool)
          BY <5>2
        <5> QED
          BY <3>1, <5>1, <5>2
      <4>3. bridge.tools \o page \in Seq(Tool)
        BY <4>1, <4>2
      <4> QED
        BY <1>2, <4>3
    <3>4. \/ n = Nothing /\ bridge' = [found EXCEPT !.at = "registering"]
          \/ n \in Cursor /\ bridge' = [found EXCEPT !.cursor = n, !.seen = @ \cup {n}]
          \/ bridge' = [bridge EXCEPT !.at = "failed"]
      <4> HIDE DEF found
      <4>1. bridge' =
              CASE n = Nothing -> [found EXCEPT !.at = "registering"]
                [] n # Nothing /\ GoodCursor(n) -> [found EXCEPT !.cursor = n, !.seen = @ \cup {n}]
                [] OTHER -> [bridge EXCEPT !.at = "failed"]
        BY <3>1 DEF found
      <4> QED
        BY <4>1
    <3> HIDE DEF found
    <3>5. CASE n = Nothing /\ bridge' = [found EXCEPT !.at = "registering"]
      BY <1>2, <3>3, <3>5, <3>2
    <3>6. CASE n \in Cursor /\ bridge' = [found EXCEPT !.cursor = n, !.seen = @ \cup {n}]
      BY <1>2, <3>3, <3>6, <3>2
    <3>7. CASE bridge' = [bridge EXCEPT !.at = "failed"]
      BY <1>2, <3>7, <3>2
    <3> QED
      BY <1>2, <3>4, <3>5, <3>6, <3>7, <3>2
  <2>3. CASE TakeIn
    <3>1. CASE bridge.tools = <<>>
      BY <1>2, <2>3, <3>1 DEF TakeIn
    <3>2. CASE bridge.tools # <<>>
      <4>1. bridge.tools \in Seq(Tool)
        BY <1>2
      <4>2. Head(bridge.tools) \in Tool /\ Tail(bridge.tools) \in Seq(Tool)
        BY <3>2, <4>1
      <4> QED
        BY <1>2, <2>3, <3>2, <4>2 DEF TakeIn
    <3> QED
      BY <3>1, <3>2
  <2> QED
    BY <2>1, <2>2, <2>3
<1>4. DoorTypes'
  BY <1>1, <1>3 DEF DoorInv, DoorTypes
<1>5. \A c \in Caller : CallerInv(c)'
  BY <1>1, SameCaller DEF DoorInv
<1> QED
  BY <1>1, <1>4, <1>5, SameShown DEF DoorInv

LEMMA DoorStart == DoorInit => DoorInv
<1> SUFFICES ASSUME DoorInit PROVE DoorInv
  OBVIOUS
<1>1. PICK doors \in BOOLEAN :
       /\ stand = [c \in Caller |-> IF doors THEN "idle" ELSE "off"]
       /\ bridge = [at |-> IF doors THEN "off" ELSE "idle", cursor |-> Nothing, seen |-> {}, tools |-> <<>>]
  BY DEF DoorInit
<1>2. /\ setup \in Setup /\ has = [a \in Asset |-> "absent"] /\ letter = [c \in Caller |-> NoLetter]
      /\ chunk = [c \in Caller |-> 0] /\ waits = [c \in Caller |-> FALSE] /\ log = [c \in Caller |-> <<>>]
      /\ known = {} /\ imported = {}
  BY DEF DoorInit
<1>3. DoorTypes
  <2>1. <<>> \in Seq(Saying) /\ <<>> \in Seq(Tool)
    OBVIOUS
  <2>2. stand \in [Caller -> {"off", "idle", "arriving", "queued", "inside", "over"}]
    BY <1>1
  <2>3. bridge \in [at : {"off", "idle", "listing", "registering", "done", "failed"},
                 cursor : Cursor \cup {Nothing}, seen : SUBSET Cursor, tools : Seq(Tool)]
    BY <1>1, <2>1
  <2> QED
    BY <1>2, <2>1, <2>2, <2>3 DEF DoorTypes
<1>4. ASSUME NEW c \in Caller PROVE CallerInv(c)
  <2>1. stand[c] \in {"off", "idle"} /\ letter[c].chunks = 1 /\ chunk[c] = 0 /\ log[c] = <<>> /\ Len(log[c]) = 0
    BY <1>1, <1>2 DEF NoLetter
  <2> QED
    BY <2>1 DEF CallerInv
<1> QED
  BY <1>2, <1>3, <1>4 DEF DoorInv

LEMMA DoorStepKeeps == DoorInv /\ [DoorNext]_doorVars => DoorInv'
<1> SUFFICES ASSUME DoorInv, [DoorNext]_doorVars PROVE DoorInv'
  OBVIOUS
<1>1. CASE UNCHANGED doorVars
  <2>1. UNCHANGED <<setup, has, stand, letter, chunk, waits, log, known, bridge, imported>>
    BY <1>1 DEF doorVars
  <2>2. \A c \in Caller : CallerInv(c)'
    BY <2>1, SameCaller DEF DoorInv
  <2>3. DoorTypes'
    BY <2>1 DEF DoorInv, DoorTypes
  <2> QED
    BY <2>1, <2>2, <2>3, SameShown DEF DoorInv
<1>2. CASE DoorNext
  BY <1>2, RegisterKeeps, AskKeeps, ArriveKeeps, StopWaitingKeeps, StrayKeeps, GoInsideKeeps, PerformKeeps,
     BridgeKeeps DEF DoorNext, LoopStep, BridgeStep
<1> QED
  BY <1>1, <1>2

(* The inductive invariant of the doors (geomcp_endpoint, _ExecutionAuthApp, the
   dispatcher, register_into) *)
THEOREM DoorInvariant == DoorSpec => []DoorInv
BY DoorStart, DoorStepKeeps, PTL DEF DoorSpec

LEMMA NothingIsHidden == ASSUME DoorInv, NEW c \in Caller, Perform(c) PROVE
    Len(log'[c]) > Len(log[c]) =>
      LET a == letter[c].calls[Len(log'[c])].asset IN
      a \in known /\ AssetKind(a) # "recipe" =>
        log'[c][Len(log'[c])].says \notin {"SKILL_NOT_FOUND", "GEOCARD_NOT_FOUND"}
<1>1. DoorTypes
  BY DEF DoorInv
<1>2. PICK i, k : i \in Nat /\ i = Len(log[c]) + 1 /\ k = letter[c].calls[i]
  <2>1. Len(log[c]) + 1 \in Nat
    BY <1>1 DEF DoorTypes
  <2> QED
    BY <2>1
<1>3. PICK says \in Answers, worked \in BOOLEAN :
           /\ Record(c, says, worked)
           /\ IsThere(k.asset) => says \notin {"SKILL_NOT_FOUND", "GEOCARD_NOT_FOUND"}
  BY <1>2, PerformIs
<1>4. Len(log'[c]) = i /\ log'[c][i] = [says |-> says, worked |-> worked]
  BY <1>1, <1>2, <1>3, RecordIs
<1> QED
  BY <1>2, <1>3, <1>4 DEF DoorInv

(* No step at a door answers what is not so, or hides what was shown *)
LEMMA DoorStepIsSound ==
  DoorInv /\ [DoorNext]_doorVars => [AnswersMeanWork' /\ ShownIsThere]_doorVars
<1>1. DoorInv => AnswersMeanWork
  BY DEF DoorInv, CallerInv, EntryIsTrue, AnswersMeanWork
<1>2. DoorInv /\ [DoorNext]_doorVars => ShownIsThere
  <2> SUFFICES ASSUME DoorInv, [DoorNext]_doorVars, NEW c \in Caller, stand[c] = "inside",
                      Len(log'[c]) > Len(log[c])
               PROVE  LET a == letter[c].calls[Len(log'[c])].asset IN
                      a \in known /\ AssetKind(a) # "recipe" =>
                        log'[c][Len(log'[c])].says \notin {"SKILL_NOT_FOUND", "GEOCARD_NOT_FOUND"}
    BY DEF ShownIsThere
  <2>1. log'[c] # log[c]
    <3>1. Len(log[c]) \in Nat
      BY DEF DoorInv, DoorTypes
    <3> QED
      BY <3>1
  <2>2. ASSUME NEW d \in Caller, d # c,
               Ask(d) \/ Arrive(d) \/ StopWaiting(d) \/ Stray(d) \/ GoInside(d) \/ Perform(d)
        PROVE  FALSE
    <3>1. \A says, worked : Record(d, says, worked) => log'[c] = log[c]
      BY <2>2 DEF Record, DoorInv, DoorTypes
    <3>2. Arrive(d) \/ Stray(d) \/ GoInside(d) \/ Perform(d) => log' = log \/ \E says, worked : Record(d, says, worked)
      BY DEF Arrive, Stray, GoInside, Perform
    <3>3. Ask(d) \/ StopWaiting(d) => log' = log
      BY DEF Ask, StopWaiting
    <3> QED
      BY <2>1, <2>2, <3>1, <3>2, <3>3
  <2>3. ASSUME Ask(c) \/ Arrive(c) \/ StopWaiting(c) \/ Stray(c) \/ GoInside(c) PROVE FALSE
    BY <2>1, <2>3 DEF Ask, Arrive, StopWaiting, Stray, GoInside
  <2>4. \A a \in Asset : ~Register(a)
    BY <2>1 DEF Register
  <2>5. ~List /\ ~Page /\ ~TakeIn /\ ~ListFails /\ ~UNCHANGED doorVars
    BY <2>1 DEF List, Page, TakeIn, ListFails, theDoors, doorVars
  <2>6. Perform(c)
    BY <2>2, <2>3, <2>4, <2>5 DEF DoorNext, LoopStep, BridgeStep
  <2> QED
    BY <2>6, NothingIsHidden
<1>3. DoorInv /\ DoorInv' /\ [DoorNext]_doorVars => [AnswersMeanWork' /\ ShownIsThere]_doorVars
  <2>1. DoorInv' => AnswersMeanWork'
    BY <1>1, PTL
  <2> QED
    BY <1>2, <2>1
<1> QED
  BY <1>3, DoorStepKeeps

(* At every door (http, stream, stdio), whatever letters come in whatever chunks: who has
   no key has nothing done for him, a refusal means that nothing was done, and what
   geo.describe has shown is there (create_app, _ExecutionAuthApp, GeoMCPDispatcher) *)
THEOREM DoorsSound == DoorSpec => DoorsAreSound
BY DoorStepIsSound, DoorInvariant, PTL DEF DoorSpec, DoorsAreSound

-----------------------------------------------------------------------------
(* All parts of MCNodes together: a behaviour is about one of them *)
NodesInv == NodeInv /\ OnboardInv /\ ContractInv /\ LifeInv /\ CardInv /\ DoorInv

LEMMA StepOfParts ==
  ASSUME [Next]_vars
  PROVE  /\ [NodeNext]_nodeVars /\ [OnboardNext]_onboardVars /\ [ContractNext]_contractVars
         /\ [NodeLifeNext]_nodeLifeVars /\ [CardNext]_cardVars /\ [DoorNext]_doorVars
<1>1. CASE UNCHANGED vars
  BY <1>1 DEF vars
<1>2. CASE Next
  <2>1. OtherVars(focus)
    BY <1>2 DEF Next
  <2> USE DEF OtherVars
  <2>2. CASE focus = "requests" /\ NodeNext
    BY <2>1, <2>2
  <2>3. CASE focus = "onboarding" /\ OnboardNext
    BY <2>1, <2>3
  <2>4. CASE focus = "contracts" /\ ContractNext
    BY <2>1, <2>4
  <2>5. CASE focus = "life" /\ NodeLifeNext
    BY <2>1, <2>5
  <2>6. CASE focus = "cards" /\ CardNext
    BY <2>1, <2>6
  <2>7. CASE focus = "doors" /\ DoorNext
    BY <2>1, <2>7
  <2> QED
    BY <1>2, <2>2, <2>3, <2>4, <2>5, <2>6, <2>7 DEF Next
<1> QED
  BY <1>1, <1>2

LEMMA NodesStart == Init => NodesInv
BY NodeStart, OnboardStart, ContractStart, LifeStart, CardStart, DoorStart DEF Init, NodesInv

LEMMA NodesStep == NodesInv /\ [Next]_vars => NodesInv'
<1> SUFFICES ASSUME NodesInv, [Next]_vars PROVE NodesInv'
  OBVIOUS
<1>1. /\ [NodeNext]_nodeVars /\ [OnboardNext]_onboardVars /\ [ContractNext]_contractVars
      /\ [NodeLifeNext]_nodeLifeVars /\ [CardNext]_cardVars /\ [DoorNext]_doorVars
  BY StepOfParts
<1>2. NodeInv' /\ OnboardInv' /\ ContractInv'
  BY <1>1, NodeNextKeeps, OnboardNextKeeps, ContractNextKeeps DEF NodesInv
<1>3. LifeInv' /\ CardInv' /\ DoorInv'
  BY <1>1, LifeStepKeeps, CardStepKeeps, DoorStepKeeps DEF NodesInv
<1> QED
  BY <1>2, <1>3 DEF NodesInv

(* The invariants of all parts, in every behaviour about any of them *)
THEOREM NodesInvariant == Spec => []NodesInv
BY NodesStart, NodesStep, PTL DEF Spec

(* The types of all parts (geomcp/server.py, register/, gaag/, node.py, ggihs.py, geocard/,
   mcp_adapter.py, mcp_client.py) *)
THEOREM NodesTypeCorrect == Spec => []TypeOK
<1>1. DoorInv => DoorTypeOK
  BY DEF DoorInv, DoorTypes, CallerInv, Saying, DoorTypeOK
<1>2. NodesInv => TypeOK
  BY <1>1 DEF NodesInv, TypeOK, NodeInv, OnboardInv, ContractInv, LifeInv, CardInv
<1> QED
  BY <1>2, NodesInvariant, PTL

(* And what each part promises, in every behaviour about any of them: the answers of a
   node, the doors and the life of one, what is submitted, contracts and cards *)
THEOREM NodesSound ==
  Spec => /\ []AnswerIsTrue /\ []NodeLifeIsSound
          /\ OnboardingIsSound /\ ContractsAreKept /\ CardsAreRead /\ DoorsAreSound
<1>1. NodesInv => AnswerIsTrue /\ NodeLifeIsSound
  BY RanAtOneNode, LifeIsSound DEF NodesInv
<1> DEFINE
  Admitted == CardsAreHonest' /\ PublicIsReviewed' /\ ConfirmedIsThere' /\ ResubmissionIsHarmless
  Contracted == FileHoldsWord' /\ ReportsAreBacked' /\ BindIsBest
<1>2. NodesInv /\ [Next]_vars => [Admitted]_onboardVars
  BY StepOfParts, OnboardNextKeeps DEF NodesInv, OnboardInv
<1>3. NodesInv /\ [Next]_vars => [Contracted]_contractVars
  BY StepOfParts, ContractStepIsSound DEF NodesInv
<1>4. NodesInv /\ [Next]_vars => [DecisionIsRight' /\ NeverOpens]_cardVars
  BY StepOfParts, CardStepKeeps, StricterOpensNothing DEF NodesInv, CardInv
<1>5. NodesInv /\ [Next]_vars => [AnswersMeanWork' /\ ShownIsThere]_doorVars
  BY StepOfParts, DoorStepIsSound DEF NodesInv
<1> QED
  BY <1>1, <1>2, <1>3, <1>4, <1>5, NodesInvariant, PTL
  DEF Spec, OnboardingIsSound, ContractsAreKept, CardsAreRead, DoorsAreSound
=============================================================================
