-------------------------- MODULE ContractRegistry --------------------------
(***************************************************************************)
(* The registry of asset contracts (gaag/): processes that each keep a     *)
(* copy in memory of one SQLite file, what a scan of an asset brings into  *)
(* it, and the gate that binds a request to a contract.  The pgvector      *)
(* backend is never reached: its constructor calls a function psycopg2     *)
(* does not have, and the registry falls back to memory.                   *)
(***************************************************************************)
EXTENDS Naturals, FiniteSets, Functions

CONSTANTS
  Program,      \* programs that open the file
  Contract,     \* contract ids
  AssetType,    \* the kinds of assets that are registered
  Similar,      \* Similar[c]: how close the description of c is to the intent
  Intent,       \* what is asked for
  Agrees,       \* Agrees[q]: the contracts whose card agrees with q
  Threshold,    \* what the gate asks of the similarity
  Candidates,   \* how many contracts a search returns
  MaxCalls      \* bound: calls that change something

ASSUME ContractAssumption ==
  /\ Similar \in [Contract -> Nat]
  /\ Agrees \in [Intent -> SUBSET Contract]
  /\ Threshold \in Nat \ {0} /\ Candidates \in Nat \ {0} /\ MaxCalls \in Nat

VARIABLES
  tabled,    \* the file has its table
  db,        \* the contracts in the file
  book,      \* book[p]: the contracts in the memory of p
  opened,    \* the processes that have the registry open
  word,      \* word[c]: what the last call about c that returned has left there,
             \* a set of at most one
  told,      \* told[p]: what p was last told by the gate
  calls      \* the calls so far

contractVars == <<tabled, db, book, opened, word, told, calls>>

(* What a contract is, as far as anyone asks: its type, whether all required
   fields are there, whether it has an embedding *)
Content == [type : AssetType, complete : BOOLEAN, embedded : BOOLEAN]
Books == UNION {[C -> Content] : C \in SUBSET Contract}
NoContracts == [c \in {} |-> {}]
NoAnswer == "nobody"
Refused == "refused"
NotFound == "not found"

ContractTypeOK ==
  /\ tabled \in BOOLEAN /\ db \in Books /\ book \in [Program -> Books]
  /\ opened \subseteq Program /\ word \in [Contract -> {{}} \cup {{v} : v \in Content}]
  /\ told \in [Program -> Contract \cup {NoAnswer, Refused, NotFound}]
  /\ calls \in 0 .. MaxCalls

ContractInit ==
  /\ tabled = FALSE /\ db = NoContracts /\ book = [p \in Program |-> NoContracts] /\ opened = {}
  /\ word = [c \in Contract |-> {}] /\ told = [p \in Program |-> NoAnswer] /\ calls = 0

With(f, c, v) == [d \in DOMAIN f \cup {c} |-> IF d = c THEN v ELSE f[d]]
Without(f, c) == Restrict(f, DOMAIN f \ {c})

(* How complete the fields may be that a scanner finds: a volume never has a
   bounding box, a text always has its two fields *)
Completeness(t) ==
  CASE t = "volume3d" -> {FALSE} [] t = "text" -> {TRUE} [] OTHER -> BOOLEAN

(* A scan of an asset: what is missing is logged and goes in, the embedding
   is the caller's; a page of HTML is a report, which no scanner takes *)
Scanned(v) ==
  /\ v.type # "report"
  /\ v.complete \in Completeness(v.type)

(* A report of a run: it goes in only if its fields and its sources are all
   there, and nobody gives it an embedding *)
Reported(v) == v.type = "report" /\ ~v.embedded /\ v.complete

(* Opening: the table is made and what is in the file is read, unless the
   backend was to be pgvector: then neither happens *)
Open(p, fellBack) ==
  /\ p \notin opened
  /\ opened' = opened \cup {p}
  /\ tabled' = (tabled \/ ~fellBack)
  /\ book' = [book EXCEPT ![p] = IF fellBack THEN NoContracts ELSE db]
  /\ UNCHANGED <<db, word, told, calls>>

Close(p) ==
  /\ p \in opened
  /\ opened' = opened \ {p}
  /\ book' = [book EXCEPT ![p] = NoContracts]
  /\ told' = [told EXCEPT ![p] = NoAnswer]
  /\ UNCHANGED <<tabled, db, word, calls>>

Calls(p) == p \in opened /\ calls < MaxCalls /\ calls' = calls + 1

(* Whether a write reaches the file: it cannot without the table, and may
   fail in any case (locked, full) *)
MayReach == IF tabled THEN BOOLEAN ELSE {FALSE}

(* What the caller of a write may believe: nothing new if it raised *)
Believed(c, v, done) == IF done THEN [word EXCEPT ![c] = v] ELSE word

(* Registering: refused if this process knows the id; else into memory, then
   into the file, over whatever another process has put there *)
RegisterContract(p, c, v) ==
  /\ Calls(p)
  /\ Scanned(v) \/ Reported(v)
  /\ c \notin DOMAIN book[p]
  /\ book' = [book EXCEPT ![p] = With(book[p], c, v)]
  /\ \E done \in MayReach :
       /\ db' = IF done THEN With(db, c, v) ELSE db
       /\ word' = Believed(c, {v}, done)
  /\ UNCHANGED <<tabled, opened, told>>

(* Removing: out of memory, known or not, then out of the file *)
RemoveContract(p, c) ==
  /\ Calls(p)
  /\ book' = [book EXCEPT ![p] = Without(book[p], c)]
  /\ \E done \in MayReach :
       /\ db' = IF done THEN Without(db, c) ELSE db
       /\ word' = Believed(c, {}, done)
  /\ UNCHANGED <<tabled, opened, told>>

(* The gate: similarity of the embedding and agreement of the card; without
   an embedding the similarity is zero *)
Score(p, c) == IF book[p][c].embedded THEN Similar[c] ELSE 0
MayBind(p, c, q) == Score(p, c) >= Threshold /\ c \in Agrees[q]

(* The contracts a search returns: of all that are known, those with the best
   scores.  Equal scores stay in the order of the registration, which is left
   open here: any of them may be the one that is cut off, and the one that is
   looked at first *)
ReturnedFirst(p, C) ==
  /\ C \subseteq DOMAIN book[p]
  /\ Cardinality(C) <= Candidates
  /\ C # DOMAIN book[p] => Cardinality(C) = Candidates
Returned(p, C) ==
  /\ ReturnedFirst(p, C)
  /\ \A c \in C, d \in DOMAIN book[p] \ C : Score(p, c) >= Score(p, d)

(* Of those, the first that passes, the best score first *)
Passing(p, C, q) == {c \in C : MayBind(p, c, q)}
FirstPassing(p, C, q) ==
  {c \in Passing(p, C, q) : \A d \in Passing(p, C, q) : Score(p, c) >= Score(p, d)}

(* The data agent binds an intent *)
Bind(p, q) ==
  /\ p \in opened
  /\ \E C \in SUBSET DOMAIN book[p] :
       /\ Returned(p, C)
       /\ \/ \E c \in FirstPassing(p, C, q) : told' = [told EXCEPT ![p] = c]
          \/ FirstPassing(p, C, q) = {} /\ told' = [told EXCEPT ![p] = Refused]
  /\ UNCHANGED <<tabled, db, book, opened, word, calls>>

(* A node checks the contract a request names *)
Enforce(p, c, q) ==
  /\ p \in opened
  /\ told' = [told EXCEPT ![p] =
       IF c \notin DOMAIN book[p] THEN NotFound ELSE IF MayBind(p, c, q) THEN c ELSE Refused]
  /\ UNCHANGED <<tabled, db, book, opened, word, calls>>

ContractNext ==
  \E p \in Program :
    \/ \E fellBack \in BOOLEAN : Open(p, fellBack)
    \/ Close(p)
    \/ \E q \in Intent : Bind(p, q) \/ \E c \in Contract : Enforce(p, c, q)
    \/ \E c \in Contract : RemoveContract(p, c) \/ \E v \in Content : RegisterContract(p, c, v)

ContractSpec == ContractInit /\ [][ContractNext]_contractVars
-----------------------------------------------------------------------------
(* Whatever processes share the file, and whatever fails: it holds for every
   id what the last call about it that returned has left, so nothing that was
   confirmed is lost and nothing that was removed comes back; and no report
   without its sources is anywhere, in the file or in a memory *)
FileHoldsWord ==
  \A c \in Contract : word[c] = IF c \in DOMAIN db THEN {db[c]} ELSE {}
ReportsAreBacked ==
  \A b \in {db} \cup {book[p] : p \in Program} :
    \A c \in DOMAIN b : b[c].type = "report" => b[c].complete

(* A binding is to the best of all the contracts a process holds that would
   pass, not only of those the search returned; and if none is bound although
   one would pass, others that do not suit, none of them less similar, filled
   the search *)
BindIsBest ==
  \A p \in Program, q \in Intent : Bind(p, q) =>
    LET pass == Passing(p, DOMAIN book[p], q)
    IN  \/ told'[p] \in pass /\ \A c \in pass : Similar[told'[p]] >= Similar[c]
        \/ /\ told'[p] = Refused
           /\ \A c \in pass : Cardinality({d \in DOMAIN book[p] \ Agrees[q] :
                                             Score(p, d) >= Score(p, c)}) >= Candidates

ContractsAreKept == [][FileHoldsWord' /\ ReportsAreBacked' /\ BindIsBest]_contractVars

(* What the documents promise and does not hold: that a contract in memory is
   one of the file (a registration that failed stays in memory, and cannot be
   repeated); that a contract the file no longer has binds nobody (another
   process still has it) *)
MemoryIsBacked ==
  \A p \in Program, c \in Contract : c \in DOMAIN book[p] => c \in DOMAIN db
RevokedBindsNoAnswer ==
  [][\A p \in Program, c \in Contract, q \in Intent :
       Enforce(p, c, q) /\ told'[p] = c => c \in DOMAIN db]_contractVars
=============================================================================
