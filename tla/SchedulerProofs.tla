-------------------------- MODULE SchedulerProofs --------------------------
(***************************************************************************)
(* Proofs about the scheduler, for any tasks, needs, priorities, owners,   *)
(* capacity and limit.                                                     *)
(*                                                                         *)
(* A set of tasks fits if the sum of what they need does.  That this sum   *)
(* grows with the set, by what is added, is proved from its recursive      *)
(* definition: by counting, and by strict inclusion of finite sets, both   *)
(* well-founded.  The order of a round is shown to be a strict total one,  *)
(* so that the last task admitted has all the others ahead of it, and what *)
(* fitted for it is what is held in the end.                               *)
(***************************************************************************)
EXTENDS Scheduler, StepByStep, FiniteSetTheorems

-----------------------------------------------------------------------------
(* What a set of tasks needs together *)
Total(S) == MapThenSumSet(LAMBDA t : Need[t], S)
Any(S) == CHOOSE x \in S : TRUE
Adds(g, S) == IF S = {} THEN 0 ELSE Need[Any(S)] + g[S \ {Any(S)}]

LEMMA Smaller ==
  ASSUME NEW P, \A T \in SUBSET Task : (\A U \in SUBSET T : U # T => U \in P) => T \in P
  PROVE  SUBSET Task \subseteq P
<1> DEFINE Rest == (SUBSET Task) \ P
<1> SUFFICES ASSUME Rest # {}
             PROVE  FALSE
  OBVIOUS
<1>1. Rest \subseteq FiniteSubsetsOf(Task)
  BY SchedulerAssumption, FS_FiniteSubsetsOfFinite
<1>2. PICK T \in Rest : \A U \in Rest : <<U, T>> \notin StrictSubsetOrdering(Task)
  <2> HIDE DEF Rest
  <2> QED
    BY <1>1, FS_StrictSubsetOrderingWellFounded, WFMin
<1>3. ASSUME NEW U \in SUBSET T, U # T
      PROVE  U \in P
  BY <1>2, <1>3 DEF StrictSubsetOrdering
<1> QED
  BY <1>2, <1>3

(* The sum is what its recursion says: first that a function that obeys it exists, by
   counting, then that the sums of a set and of its parts agree *)
Sums(S) == CHOOSE g : g = [s \in SUBSET S |-> Adds(g, s)]

LEMMA TotalIs ==
  ASSUME NEW S
  PROVE  Total(S) = Sums(S)[S]
BY DEF Total, MapThenSumSet, MapThenFoldSet, Adds, Any, Sums

LEMMA AnyIsOne ==
  ASSUME NEW S, S # {}
  PROVE  Any(S) \in S
BY DEF Any

LEMMA SumsExist ==
  ASSUME NEW S \in SUBSET Task
  PROVE  Sums(S) = [s \in SUBSET S |-> Adds(Sums(S), s)]
<1> DEFINE Small(n) == {s \in SUBSET S : Cardinality(s) <= n}
           D == {n \in Nat : \E g : g = [s \in Small(n) |-> Adds(g, s)]}
<1>1. \A s \in SUBSET S : IsFiniteSet(s) /\ Cardinality(s) \in Nat
  BY SchedulerAssumption, FS_Subset, FS_CardinalityType
<1>2. 0 \in D
  <2>1. \A s \in Small(0) : s = {}
    BY <1>1, FS_EmptySet
  <2>2. [s \in Small(0) |-> 0] = [s \in Small(0) |-> Adds([t \in Small(0) |-> 0], s)]
    BY <2>1 DEF Adds
  <2> QED
    BY <2>2
<1>3. ASSUME NEW n \in Nat, n \in D
      PROVE  n + 1 \in D
  <2>1. PICK g : g = [s \in Small(n) |-> Adds(g, s)]
    BY <1>3
  <2> DEFINE h == [s \in Small(n + 1) |-> Adds(g, s)]
  <2>2. ASSUME NEW s \in Small(n + 1)
        PROVE  Adds(g, s) = Adds(h, s)
    <3>1. CASE s = {}
      BY <3>1 DEF Adds
    <3>2. CASE s # {}
      <4> DEFINE r == s \ {Any(s)}
      <4>1. Any(s) \in s
        BY <3>2, AnyIsOne
      <4>2. Cardinality(r) = Cardinality(s) - 1
        BY <1>1, <4>1, FS_RemoveElement
      <4>3. r \in Small(n) /\ r \in Small(n + 1)
        BY <1>1, <4>2
      <4>4. g[r] = Adds(g, r) /\ h[r] = Adds(g, r)
        <5> HIDE DEF Small, r
        <5> QED
          BY <2>1, <4>3
      <4> QED
        BY <4>4 DEF Adds
    <3> QED
      BY <3>1, <3>2
  <2>3. h = [s \in Small(n + 1) |-> Adds(h, s)]
    <3> HIDE DEF Small
    <3> QED
      BY <2>2
  <2> HIDE DEF h, Small
  <2> QED
    BY <2>3
<1>4. Cardinality(S) \in D
  <2> HIDE DEF D
  <2> QED
    BY <1>1, <1>2, <1>3, Counting
<1>5. Small(Cardinality(S)) = SUBSET S
  <2>1. \A s \in SUBSET S : Cardinality(s) <= Cardinality(S)
    BY <1>1, FS_Subset
  <2> QED
    BY <2>1
<1>6. PICK g : g = [s \in SUBSET S |-> Adds(g, s)]
  <2> HIDE DEF Small
  <2> QED
    BY <1>4, <1>5
<1> QED
  BY <1>6 DEF Sums

LEMMA SumsAgree ==
  ASSUME NEW S \in SUBSET Task, NEW T \in SUBSET S
  PROVE  Sums(S)[T] = Total(T)
<1> DEFINE P == {U \in SUBSET Task : \A V \in SUBSET Task : U \subseteq V => Sums(V)[U] = Total(U)}
<1>1. ASSUME NEW U \in SUBSET Task, \A W \in SUBSET U : W # U => W \in P
      PROVE  U \in P
  <2>1. SUFFICES ASSUME NEW V \in SUBSET Task, U \subseteq V
                 PROVE  Sums(V)[U] = Sums(U)[U]
    BY TotalIs
  <2>2. Sums(V)[U] = Adds(Sums(V), U) /\ Sums(U)[U] = Adds(Sums(U), U)
    BY <2>1, SumsExist
  <2>3. CASE U = {}
    BY <2>2, <2>3 DEF Adds
  <2>4. CASE U # {}
    <3> DEFINE r == U \ {Any(U)}
    <3>1. r \in SUBSET U /\ r # U
      BY <2>4, AnyIsOne
    <3>2. Sums(V)[r] = Total(r) /\ Sums(U)[r] = Total(r)
      BY <1>1, <2>1, <3>1
    <3> QED
      BY <2>2, <3>2 DEF Adds
  <2> QED
    BY <2>3, <2>4
<1>2. T \in P
  <2> HIDE DEF P
  <2> QED
    BY <1>1, Smaller
<1> QED
  BY <1>2

(* The sum of no tasks, and of one and the rest *)
LEMMA TotalSteps ==
  ASSUME NEW S \in SUBSET Task
  PROVE  Total(S) = IF S = {} THEN 0 ELSE Need[Any(S)] + Total(S \ {Any(S)})
<1>1. Sums(S)[S] = Adds(Sums(S), S)
  BY SumsExist
<1>2. S # {} => Sums(S)[S \ {Any(S)}] = Total(S \ {Any(S)})
  BY SumsAgree
<1> QED
  BY <1>1, <1>2, TotalIs DEF Adds

LEMMA TotalIsNat ==
  ASSUME NEW S \in SUBSET Task
  PROVE  Total(S) \in Nat
<1> DEFINE P == {U \in SUBSET Task : Total(U) \in Nat}
<1>1. ASSUME NEW U \in SUBSET Task, \A W \in SUBSET U : W # U => W \in P
      PROVE  U \in P
  <2>1. CASE U = {}
    <3>1. Total(U) = 0
      BY <2>1, TotalSteps
    <3> QED
      BY <3>1
  <2>2. CASE U # {}
    <3>1. Any(U) \in U
      BY <2>2, AnyIsOne
    <3>2. Total(U \ {Any(U)}) \in Nat
      BY <1>1, <3>1
    <3>3. Need[Any(U)] \in Nat
      BY <3>1, SchedulerAssumption
    <3> QED
      BY <2>2, <3>2, <3>3, TotalSteps
  <2> QED
    BY <2>1, <2>2
<1> HIDE DEF P
<1>2. S \in P
  BY <1>1, Smaller
<1> QED
  BY <1>2 DEF P

(* Whichever task is taken away, the rest needs so much less *)
LEMMA TotalWithout ==
  ASSUME NEW S \in SUBSET Task, NEW x \in S
  PROVE  Total(S) = Total(S \ {x}) + Need[x]
<1> DEFINE P == {U \in SUBSET Task : \A y \in U : Total(U) = Total(U \ {y}) + Need[y]}
<1>1. ASSUME NEW U \in SUBSET Task, \A W \in SUBSET U : W # U => W \in P
      PROVE  U \in P
  <2> SUFFICES ASSUME NEW y \in U
               PROVE  Total(U) = Total(U \ {y}) + Need[y]
    OBVIOUS
  <2> DEFINE c == Any(U)
  <2>1. c \in U
    BY AnyIsOne
  <2>2. Need[y] \in Nat /\ Need[c] \in Nat
    BY <2>1, SchedulerAssumption
  <2>3. Total(U) = Need[c] + Total(U \ {c})
    BY TotalSteps
  <2>4. Total(U \ {c}) \in Nat /\ Total((U \ {c}) \ {y}) \in Nat
    BY TotalIsNat
  <2>5. CASE c = y
    BY <2>2, <2>3, <2>4, <2>5
  <2>6. CASE c # y
    <3>1. Total(U \ {c}) = Total((U \ {c}) \ {y}) + Need[y]
      BY <1>1, <2>1, <2>6
    <3>2. Total(U \ {y}) = Total((U \ {y}) \ {c}) + Need[c]
      BY <1>1, <2>1, <2>6
    <3>3. (U \ {y}) \ {c} = (U \ {c}) \ {y}
      OBVIOUS
    <3>4. Total(U \ {y}) = Total((U \ {c}) \ {y}) + Need[c]
      BY <3>2, <3>3
    <3> DEFINE a == Total((U \ {c}) \ {y})
               b == Total(U \ {c})
               d == Total(U \ {y})
    <3>5. /\ Total(U) = Need[c] + b /\ b = a + Need[y] /\ d = a + Need[c]
          /\ a \in Nat /\ Need[c] \in Nat /\ Need[y] \in Nat
      BY <2>2, <2>3, <2>4, <3>1, <3>4
    <3>6. d + Need[y] = Total(U)
      <4> HIDE DEF a, b, c, d
      <4> QED
        BY <3>5
    <3> QED
      BY <3>6
  <2> QED
    BY <2>5, <2>6
<1> HIDE DEF P
<1>2. S \in P
  BY <1>1, Smaller
<1> QED
  BY <1>2 DEF P

LEMMA TotalGrows ==
  ASSUME NEW S \in SUBSET Task, NEW T \in SUBSET S
  PROVE  Total(T) <= Total(S)
<1> DEFINE P == {U \in SUBSET Task : \A V \in SUBSET U : Total(V) <= Total(U)}
<1>1. ASSUME NEW U \in SUBSET Task, \A W \in SUBSET U : W # U => W \in P
      PROVE  U \in P
  <2> SUFFICES ASSUME NEW V \in SUBSET U
               PROVE  Total(V) <= Total(U)
    OBVIOUS
  <2>1. Total(V) \in Nat /\ Total(U) \in Nat
    BY TotalIsNat
  <2>2. CASE V = U
    BY <2>1, <2>2
  <2>3. CASE V # U
    <3>1. PICK x \in U : x \notin V
      BY <2>3
    <3>2. Total(V) <= Total(U \ {x})
      BY <1>1, <3>1
    <3>3. Total(U) = Total(U \ {x}) + Need[x] /\ Total(U \ {x}) \in Nat /\ Need[x] \in Nat
      BY TotalWithout, TotalIsNat, SchedulerAssumption
    <3> QED
      BY <2>1, <3>2, <3>3
  <2> QED
    BY <2>2, <2>3
<1> HIDE DEF P
<1>2. S \in P
  BY <1>1, Smaller
<1> QED
  BY <1>2 DEF P

-----------------------------------------------------------------------------
(* Finite sets of tasks *)
LEMMA TasksAreFinite ==
  ASSUME NEW S \in SUBSET Task
  PROVE  IsFiniteSet(S) /\ Cardinality(S) \in Nat
BY SchedulerAssumption, FS_Subset, FS_CardinalityType

LEMMA FewerTasks ==
  ASSUME NEW S \in SUBSET Task, NEW T \in SUBSET S
  PROVE  /\ Cardinality(T) <= Cardinality(S)
         /\ T # S => Cardinality(T) < Cardinality(S)
<1>1. IsFiniteSet(S) /\ Cardinality(S) \in Nat /\ Cardinality(T) \in Nat
  BY TasksAreFinite
<1>2. Cardinality(T) <= Cardinality(S) /\ (Cardinality(S) = Cardinality(T) => S = T)
  BY <1>1, FS_Subset
<1> QED
  BY <1>1, <1>2

LEMMA OneTaskMore ==
  ASSUME NEW S \in SUBSET Task, NEW x \in Task
  PROVE  /\ Cardinality(S \cup {x}) <= Cardinality(S) + 1
         /\ Total(S \cup {x}) <= Total(S) + Need[x]
         /\ x \notin S => Cardinality(S \cup {x}) = Cardinality(S) + 1
         /\ x \notin S => Total(S \cup {x}) = Total(S) + Need[x]
<1>1. IsFiniteSet(S) /\ Cardinality(S) \in Nat /\ Total(S) \in Nat /\ Need[x] \in Nat
  BY TasksAreFinite, TotalIsNat, SchedulerAssumption
<1>2. Cardinality(S \cup {x}) = IF x \in S THEN Cardinality(S) ELSE Cardinality(S) + 1
  BY <1>1, FS_AddElement
<1>3. CASE x \in S
  <2>1. S \cup {x} = S
    BY <1>3
  <2>2. Cardinality(S \cup {x}) = Cardinality(S) /\ Total(S \cup {x}) = Total(S)
    BY <2>1
  <2> QED
    BY <1>1, <1>3, <2>2
<1>4. CASE x \notin S
  <2>1. (S \cup {x}) \ {x} = S
    BY <1>4
  <2>2. Total(S \cup {x}) = Total((S \cup {x}) \ {x}) + Need[x]
    BY TotalWithout
  <2> QED
    BY <1>1, <1>2, <1>4, <2>1, <2>2
<1> QED
  BY <1>3, <1>4

(* What fits goes on fitting with fewer tasks, or with one exchanged for another of
   the same need *)
LEMMA FitsLess ==
  ASSUME NEW S \in SUBSET Task, NEW T \in SUBSET S, Fits(S)
  PROVE  Fits(T)
<1>1. Total(T) <= Total(S) /\ Total(T) \in Nat /\ Total(S) \in Nat
  BY TotalGrows, TotalIsNat
<1>2. Cardinality(T) <= Cardinality(S) /\ Cardinality(T) \in Nat /\ Cardinality(S) \in Nat
  BY FewerTasks, TasksAreFinite
<1>3. Total(S) <= Capacity /\ Cardinality(S) <= Limit
  BY DEF Fits, Total
<1>4. Total(T) <= Capacity /\ Cardinality(T) <= Limit
  BY <1>1, <1>2, <1>3, SchedulerAssumption
<1> QED
  BY <1>4 DEF Fits, Total

LEMMA FitsInstead ==
  ASSUME NEW Y \in SUBSET Task, NEW X \in SUBSET Y, NEW t \in Task, NEW u \in Task \ Y,
         Need[t] = Need[u], Fits(Y \cup {u})
  PROVE  Fits(X \cup {t})
<1>1. /\ Total(X) <= Total(Y) /\ Total(X) \in Nat /\ Total(Y) \in Nat /\ Need[u] \in Nat
      /\ Total(X \cup {t}) \in Nat /\ Total(Y \cup {u}) \in Nat
  BY TotalGrows, TotalIsNat, SchedulerAssumption
<1>2. /\ Cardinality(X) <= Cardinality(Y) /\ Cardinality(X) \in Nat /\ Cardinality(Y) \in Nat
      /\ Cardinality(X \cup {t}) \in Nat /\ Cardinality(Y \cup {u}) \in Nat
  BY FewerTasks, TasksAreFinite
<1>3. Total(Y \cup {u}) <= Capacity /\ Cardinality(Y \cup {u}) <= Limit
  BY DEF Fits, Total
<1>4. Total(X \cup {t}) <= Total(X) + Need[u] /\ Cardinality(X \cup {t}) <= Cardinality(X) + 1
  BY OneTaskMore
<1>5. Total(Y \cup {u}) = Total(Y) + Need[u] /\ Cardinality(Y \cup {u}) = Cardinality(Y) + 1
  BY OneTaskMore
<1>6. Total(X \cup {t}) <= Capacity
  BY <1>1, <1>3, <1>4, <1>5, SchedulerAssumption
<1>7. Cardinality(X \cup {t}) <= Limit
  BY <1>2, <1>3, <1>4, <1>5, SchedulerAssumption
<1> QED
  BY <1>6, <1>7 DEF Fits, Total

LEMMA NothingFits == Fits({})
<1>1. Total({}) = 0 /\ Cardinality({}) = 0
  BY TotalSteps, FS_EmptySet
<1> QED
  BY <1>1, SchedulerAssumption DEF Fits, Total

-----------------------------------------------------------------------------
(* The order of candidates with numbers of their own *)
Ranked(C, num) ==
  /\ C \subseteq Task
  /\ num \in [Task -> Nat]
  /\ \A t, u \in C : t # u => num[t] # num[u]
  /\ cursor \in [Level -> Nat]

LEMMA DepthCounts ==
  ASSUME NEW C, NEW num, Ranked(C, num), NEW t \in C
  PROVE  /\ Depth(C, num, t) \in Nat
         /\ \A u \in C : Owner[t] = Owner[u] /\ Priority[t] = Priority[u] /\ num[t] < num[u] =>
                           Depth(C, num, t) < Depth(C, num, u)
<1> DEFINE Ahead(x) == {w \in C : Priority[w] = Priority[x] /\ Owner[w] = Owner[x] /\ num[w] < num[x]}
<1>1. C \subseteq Task /\ num \in [Task -> Nat]
  BY DEF Ranked
<1>2. \A x \in C : Ahead(x) \in SUBSET Task
  BY <1>1
<1>3. ASSUME NEW u \in C, Owner[t] = Owner[u], Priority[t] = Priority[u], num[t] < num[u]
      PROVE  Cardinality(Ahead(t)) < Cardinality(Ahead(u))
  <2>1. Ahead(t) \in SUBSET Ahead(u)
    BY <1>1, <1>3
  <2>2. t \in Ahead(u) /\ t \notin Ahead(t)
    BY <1>1, <1>3
  <2> HIDE DEF Ahead
  <2> QED
    BY <1>2, <2>1, <2>2, FewerTasks
<1>4. Cardinality(Ahead(t)) \in Nat
  BY <1>2, TasksAreFinite
<1> QED
  BY <1>3, <1>4 DEF Depth

(* The oldest candidate of an owner *)
LEMMA OldestIsOne ==
  ASSUME NEW C, NEW num, Ranked(C, num), NEW p, NEW o \in OwnersAt(C, p)
  PROVE  \E t \in C : Priority[t] = p /\ Owner[t] = o /\ num[t] = Oldest(C, num, p, o)
<1> DEFINE T == {u \in C : Priority[u] = p /\ Owner[u] = o}
           N == {num[t] : t \in T}
<1>1. C \subseteq Task /\ num \in [Task -> Nat]
  BY DEF Ranked
<1>2. N \in SUBSET Nat /\ N # {}
  BY <1>1 DEF OwnersAt
<1>3. \E n \in N : \A m \in N : n <= m
  BY <1>2, LeastMember
<1>4. Oldest(C, num, p, o) = Min(N)
  BY DEF Oldest
<1>5. Min(N) \in N
  <2> HIDE DEF N
  <2> QED
    BY <1>3 DEF Min
<1> QED
  BY <1>4, <1>5

LEMMA Turns ==
  ASSUME NEW k \in Nat, NEW a \in Nat, NEW b \in Nat, NEW c \in Nat, a < k, b < k
  PROVE  /\ ((a + k) - (c % k)) % k \in Nat
         /\ a # b => ((a + k) - (c % k)) % k # ((b + k) - (c % k)) % k
<1>1. k > 0
  OBVIOUS
<1> DEFINE d == c % k
<1>2. d \in 0 .. k - 1
  BY <1>1
<1> HIDE DEF d
<1> DEFINE x == (a + k) - d
           y == (b + k) - d
<1>3. x \in 0 .. 2 * k - 1 /\ y \in 0 .. 2 * k - 1 /\ x # y + k /\ y # x + k /\ (a # b => x # y)
  BY <1>1, <1>2
<1>4. \A z \in 0 .. 2 * k - 1 : z % k = IF z < k THEN z ELSE z - k
  BY <1>1
<1>5. x % k = (IF x < k THEN x ELSE x - k) /\ y % k = (IF y < k THEN y ELSE y - k)
  <2> HIDE DEF x, y
  <2> QED
    BY <1>3, <1>4
<1>6. x % k \in Nat /\ (a # b => x % k # y % k)
  <2> HIDE DEF x, y
  <2> QED
    BY <1>1, <1>3, <1>5
<1> QED
  BY <1>6 DEF d

LEMMA PlacesDiffer ==
  ASSUME NEW C, NEW num, Ranked(C, num), NEW p \in Level,
         NEW o \in OwnersAt(C, p), NEW w \in OwnersAt(C, p)
  PROVE  Place(C, num, p, o) \in Nat /\ (o # w => Place(C, num, p, o) # Place(C, num, p, w))
<1> DEFINE owners == OwnersAt(C, p)
           k == Cardinality(owners)
           Before(v) == {x \in owners : Oldest(C, num, p, x) < Oldest(C, num, p, v)}
           T == {u \in C : Priority[u] = p}
<1>1. C \subseteq Task /\ num \in [Task -> Nat] /\ cursor[p] \in Nat
        /\ (\A t, u \in C : t # u => num[t] # num[u])
  BY DEF Ranked
<1>2. IsFiniteSet(owners) /\ k \in Nat
  <2>1. T \in SUBSET Task
    BY <1>1
  <2> DEFINE f == [t \in T |-> Owner[t]]
  <2>2. f \in Surjection(T, owners)
    BY DEF OwnersAt, Surjection
  <2>3. IsFiniteSet(T)
    BY <2>1, TasksAreFinite
  <2>4. IsFiniteSet(owners)
    <3> HIDE DEF f, owners, T
    <3> QED
      BY <2>2, <2>3, FS_Surjection
  <2> QED
    BY <2>4, FS_CardinalityType
<1>3. \A v \in owners : Oldest(C, num, p, v) \in Nat
  BY <1>1, OldestIsOne
<1>4. o # w => Oldest(C, num, p, o) # Oldest(C, num, p, w)
  <2>1. PICK t \in C : Owner[t] = o /\ num[t] = Oldest(C, num, p, o)
    BY OldestIsOne
  <2>2. PICK u \in C : Owner[u] = w /\ num[u] = Oldest(C, num, p, w)
    BY OldestIsOne
  <2> QED
    BY <1>1, <2>1, <2>2
<1>5. \A v \in owners : Before(v) \in SUBSET owners /\ v \notin Before(v)
  BY <1>3
<1>6. \A v \in owners : IsFiniteSet(Before(v)) /\ Cardinality(Before(v)) \in Nat /\ Cardinality(Before(v)) < k
  <2> SUFFICES ASSUME NEW v \in owners
               PROVE  IsFiniteSet(Before(v)) /\ Cardinality(Before(v)) \in Nat /\ Cardinality(Before(v)) < k
    OBVIOUS
  <2>1. Before(v) \in SUBSET owners /\ Before(v) # owners
    BY <1>5
  <2> HIDE DEF Before
  <2>2. IsFiniteSet(Before(v)) /\ Cardinality(Before(v)) \in Nat
    BY <1>2, <2>1, FS_Subset, FS_CardinalityType
  <2>3. Cardinality(Before(v)) <= k /\ Cardinality(Before(v)) # k
    BY <1>2, <2>1, FS_Subset
  <2> QED
    BY <1>2, <2>2, <2>3
<1>7. ASSUME o # w
      PROVE  Cardinality(Before(o)) # Cardinality(Before(w))
  <2>1. \A u, v \in owners : Oldest(C, num, p, u) < Oldest(C, num, p, v) =>
                               Before(u) \in SUBSET Before(v) /\ u \in Before(v) /\ u \notin Before(u)
    BY <1>3
  <2>2. \/ Before(o) \in SUBSET Before(w) /\ Before(o) # Before(w)
        \/ Before(w) \in SUBSET Before(o) /\ Before(o) # Before(w)
    <3>1. \/ Oldest(C, num, p, o) < Oldest(C, num, p, w)
          \/ Oldest(C, num, p, w) < Oldest(C, num, p, o)
      BY <1>3, <1>4, <1>7
    <3> HIDE DEF Before
    <3> QED
      BY <2>1, <3>1
  <2> HIDE DEF Before
  <2> QED
    BY <1>6, <2>2, FS_Subset
<1>8. /\ Place(C, num, p, o) = ((Cardinality(Before(o)) + k) - (cursor[p] % k)) % k
      /\ Place(C, num, p, w) = ((Cardinality(Before(w)) + k) - (cursor[p] % k)) % k
  BY DEF Place
<1> HIDE DEF Before, k, owners
<1> QED
  BY <1>1, <1>2, <1>6, <1>7, <1>8, Turns DEF owners

(* The order is strict, it is transitive, and it leaves no two candidates undecided *)
LEMMA OrderIsStrict ==
  ASSUME NEW C, NEW num, Ranked(C, num), NEW t \in C, NEW u \in C, t # u
  PROVE  /\ Precedes(C, num, t, u) \/ Precedes(C, num, u, t)
         /\ ~ (Precedes(C, num, t, u) /\ Precedes(C, num, u, t))
         /\ ~ Precedes(C, num, t, t)
<1> DEFINE d(x) == Depth(C, num, x)
           a(x) == Place(C, num, Priority[x], Owner[x])
<1>1. C \subseteq Task /\ num \in [Task -> Nat] /\ num[t] # num[u]
  BY DEF Ranked
<1>2. d(t) \in Nat /\ d(u) \in Nat
  BY DepthCounts
<1>3. Priority[t] \in Nat /\ Priority[u] \in Nat
  BY <1>1, SchedulerAssumption
<1>4. Priority[t] = Priority[u] /\ Owner[t] = Owner[u] => d(t) # d(u)
  <2>1. num[t] < num[u] \/ num[u] < num[t]
    BY <1>1
  <2>2. num[t] < num[u] /\ Priority[t] = Priority[u] /\ Owner[t] = Owner[u] => d(t) < d(u)
    BY DepthCounts
  <2>3. num[u] < num[t] /\ Priority[t] = Priority[u] /\ Owner[t] = Owner[u] => d(u) < d(t)
    BY DepthCounts
  <2> HIDE DEF d
  <2> QED
    BY <1>2, <2>1, <2>2, <2>3
<1>5. /\ a(t) \in Nat /\ a(u) \in Nat
      /\ Priority[t] = Priority[u] /\ Owner[t] # Owner[u] => a(t) # a(u)
  <2>1. /\ Priority[t] \in Level /\ Owner[t] \in OwnersAt(C, Priority[t])
        /\ Priority[u] \in Level /\ Owner[u] \in OwnersAt(C, Priority[u])
    BY <1>1 DEF Level, OwnersAt
  <2> QED
    BY <2>1, PlacesDiffer
<1>6. Priority[t] = Priority[u] /\ Owner[t] = Owner[u] => a(t) = a(u)
  OBVIOUS
<1>7. \A x, y \in C : Precedes(C, num, x, y) <=>
        \/ Priority[x] > Priority[y]
        \/ Priority[x] = Priority[y] /\ (d(x) < d(y) \/ (d(x) = d(y) /\ a(x) < a(y)))
  BY DEF Precedes
<1> HIDE DEF d, a
<1> QED
  BY <1>2, <1>3, <1>4, <1>5, <1>6, <1>7

LEMMA OrderIsTransitive ==
  ASSUME NEW C, NEW num, Ranked(C, num), NEW t \in C, NEW u \in C, NEW v \in C,
         Precedes(C, num, t, u), Precedes(C, num, u, v)
  PROVE  Precedes(C, num, t, v)
<1> DEFINE d(x) == Depth(C, num, x)
           a(x) == Place(C, num, Priority[x], Owner[x])
<1>1. C \subseteq Task
  BY DEF Ranked
<1>2. \A x \in C : d(x) \in Nat /\ Priority[x] \in Nat
  BY <1>1, DepthCounts, SchedulerAssumption
<1>3. \A x \in C : a(x) \in Nat
  <2>1. \A x \in C : Priority[x] \in Level /\ Owner[x] \in OwnersAt(C, Priority[x])
    BY <1>1 DEF Level, OwnersAt
  <2> QED
    BY <2>1, PlacesDiffer
<1>4. \A x, y \in C : Precedes(C, num, x, y) <=>
        \/ Priority[x] > Priority[y]
        \/ Priority[x] = Priority[y] /\ (d(x) < d(y) \/ (d(x) = d(y) /\ a(x) < a(y)))
  BY DEF Precedes
<1> HIDE DEF d, a
<1> QED
  BY <1>2, <1>3, <1>4

LEMMA OneIsLast ==
  ASSUME NEW C, NEW num, Ranked(C, num), NEW A \in SUBSET C, A # {}
  PROVE  \E t \in A : \A u \in A \ {t} : Precedes(C, num, u, t)
<1> DEFINE Last(S) == \E t \in S : \A u \in S \ {t} : Precedes(C, num, u, t)
           P == {S \in SUBSET Task : S \subseteq C /\ S # {} => Last(S)}
<1>1. ASSUME NEW S \in SUBSET Task, \A W \in SUBSET S : W # S => W \in P
      PROVE  S \in P
  <2> SUFFICES ASSUME S \subseteq C, S # {}
               PROVE  Last(S)
    OBVIOUS
  <2>1. PICK x \in S : TRUE
    OBVIOUS
  <2> DEFINE r == S \ {x}
  <2>2. r \in SUBSET S /\ r # S /\ r \in P
    BY <1>1, <2>1
  <2>3. CASE r = {}
    BY <2>1, <2>3
  <2>4. CASE r # {}
    <3>1. PICK y \in r : \A u \in r \ {y} : Precedes(C, num, u, y)
      BY <2>2, <2>4
    <3>2. x \in C /\ y \in C /\ x # y
      BY <2>1, <3>1
    <3>3. CASE Precedes(C, num, x, y)
      BY <3>1, <3>3
    <3>4. CASE Precedes(C, num, y, x)
      <4>1. ASSUME NEW u \in S \ {x}
            PROVE  Precedes(C, num, u, x)
        <5>1. CASE u = y
          BY <3>4, <5>1
        <5>2. CASE u # y
          <6>1. u \in C /\ Precedes(C, num, u, y)
            BY <3>1, <5>2
          <6> QED
            BY <3>2, <3>4, <6>1, OrderIsTransitive
        <5> QED
          BY <5>1, <5>2
      <4> QED
        BY <2>1, <4>1
    <3> QED
      BY <3>2, <3>3, <3>4, OrderIsStrict
  <2> QED
    BY <2>3, <2>4
<1>2. A \in SUBSET Task
  BY DEF Ranked
<1>3. A \in P
  <2> HIDE DEF P
  <2> QED
    BY <1>1, <1>2, Smaller
<1> QED
  BY <1>3

-----------------------------------------------------------------------------
(* A round of the scheduler, with the candidates C numbered by num: what it admits fits
   beside what is held, and what it leaves would not have fitted *)
LEMMA RoundFits ==
  ASSUME NEW C, NEW num, Ranked(C, num), NEW A, Greedy(C, num, A), held \subseteq Task, Fits(held)
  PROVE  Fits(held \cup A)
<1>1. A \subseteq C /\ C \subseteq Task
  BY DEF Greedy, Ranked
<1>2. CASE A = {}
  <2>1. held \cup A = held
    BY <1>2
  <2> QED
    BY <2>1
<1>3. CASE A # {}
  <2>1. PICK t \in A : \A u \in A \ {t} : Precedes(C, num, u, t)
    BY <1>1, <1>3, OneIsLast
  <2>2. Fits(held \cup {u \in A : Precedes(C, num, u, t)} \cup {t})
    BY <1>1, <2>1 DEF Greedy
  <2>3. held \cup {u \in A : Precedes(C, num, u, t)} \cup {t} = held \cup A
    BY <2>1
  <2> QED
    BY <2>2, <2>3
<1> QED
  BY <1>2, <1>3

LEMMA RoundLeaves ==
  ASSUME NEW C, NEW num, Ranked(C, num), NEW A, Greedy(C, num, A), held \subseteq Task,
         NEW t \in C \ A
  PROVE  /\ ~ Fits((held \cup A) \cup {t})
         /\ ~ Fits(held \cup {u \in A : Priority[u] >= Priority[t]} \cup {t})
<1> DEFINE ahead == held \cup {u \in A : Precedes(C, num, u, t)} \cup {t}
           all == (held \cup A) \cup {t}
           level == held \cup {u \in A : Priority[u] >= Priority[t]} \cup {t}
<1>1. A \subseteq C /\ C \subseteq Task
  BY DEF Greedy, Ranked
<1>2. ~ Fits(ahead)
  BY <1>1 DEF Greedy
<1>3. \A u \in A : Precedes(C, num, u, t) => Priority[u] >= Priority[t]
  <2>1. \A u \in A : Priority[u] \in Nat /\ Priority[t] \in Nat
    BY <1>1, SchedulerAssumption
  <2> QED
    BY <2>1 DEF Precedes
<1>4. ahead \in SUBSET all /\ all \in SUBSET Task
  BY <1>1
<1>5. ahead \in SUBSET level /\ level \in SUBSET Task
  BY <1>1, <1>3
<1> HIDE DEF ahead, all, level
<1>6. ~ Fits(all) /\ ~ Fits(level)
  BY <1>2, <1>4, <1>5, FitsLess
<1> QED
  BY <1>6 DEF all, level

LEMMA RoundKeepsTurns ==
  ASSUME NEW C, NEW num, Ranked(C, num), NEW A, Greedy(C, num, A), held \subseteq Task,
         C \cap held = {}, NEW t \in C, NEW u \in A,
         Owner[t] = Owner[u], Priority[t] = Priority[u], Need[t] = Need[u], num[t] < num[u]
  PROVE  t \in A
<1> DEFINE X == held \cup {w \in A : Precedes(C, num, w, t)}
           Y == held \cup {w \in A : Precedes(C, num, w, u)}
<1>1. A \subseteq C /\ C \subseteq Task /\ u \in C /\ num \in [Task -> Nat] /\ t # u
  BY DEF Greedy, Ranked
<1>2. Precedes(C, num, t, u)
  BY <1>1, DepthCounts DEF Precedes
<1>3. X \in SUBSET Y /\ Y \in SUBSET Task
  BY <1>1, <1>2, OrderIsTransitive
<1>4. u \in Task \ Y
  BY <1>1, OrderIsStrict
<1>5. Fits(Y \cup {u})
  BY <1>1 DEF Greedy
<1>6. Fits(X \cup {t})
  <2> HIDE DEF X, Y
  <2> QED
    BY <1>1, <1>3, <1>4, <1>5, FitsInstead
<1> QED
  BY <1>1, <1>6 DEF Greedy

-----------------------------------------------------------------------------
(* Numbers: everybody's own, and as many as have one *)
Numbered(num) == {t \in Task : num[t] > 0}
OwnNumbers(num) == \A t, u \in Task : t # u /\ num[t] > 0 => num[t] # num[u]
UpToCount(num) == \A t \in Task : num[t] <= Cardinality(Numbered(num))

SchedInv ==
  /\ SchedulerTypeOK
  /\ Fits(held)
  /\ OwnNumbers(seq)
  /\ UpToCount(seq)

LEMMA NumbersGoOn ==
  ASSUME SchedInv, NEW C \in SUBSET Task
  PROVE  /\ Number(C) \in [Task -> 0 .. Cardinality(Task)]
         /\ OwnNumbers(Number(C))
         /\ UpToCount(Number(C))
         /\ \A t \in C : Number(C)[t] > 0
         /\ \A t \in Task : seq[t] > 0 => Number(C)[t] = seq[t]
<1> DEFINE new == {t \in C : seq[t] = 0}
           upto(t) == {u \in new : Position[u] <= Position[t]}
           old == Numbered(seq)
           k == Cardinality(old)
           n == Cardinality(new)
           num == Number(C)
<1>1. seq \in [Task -> Nat] /\ \A t \in Task : seq[t] <= k
  BY TasksAreFinite DEF SchedInv, SchedulerTypeOK, UpToCount
<1>2. new \in SUBSET Task /\ old \in SUBSET Task /\ new \cap old = {}
  BY <1>1 DEF Numbered
<1>3. k \in Nat /\ n \in Nat /\ Cardinality(new \cup old) = n + k
      /\ Cardinality(Task) \in Nat /\ n + k <= Cardinality(Task)
  <2> HIDE DEF new, old, k, n
  <2>1. IsFiniteSet(new) /\ IsFiniteSet(old) /\ k \in Nat /\ n \in Nat
    BY <1>2, TasksAreFinite DEF k, n
  <2>2. Cardinality(new \cup old) = Cardinality(new) + Cardinality(old) - Cardinality(new \cap old)
    BY <2>1, FS_Union
  <2> DEFINE both == Cardinality(new \cap old)
             all == Cardinality(new \cup old)
  <2>3. all = n + k
    <3>1. both = 0
      BY <1>2, FS_EmptySet
    <3>2. all = n + k - both
      BY <2>2 DEF k, n
    <3> HIDE DEF both, all
    <3> QED
      BY <2>1, <3>1, <3>2
  <2>4. Cardinality(new \cup old) <= Cardinality(Task) /\ Cardinality(Task) \in Nat
    BY <1>2, FewerTasks, TasksAreFinite
  <2> QED
    BY <2>1, <2>3, <2>4
<1>4. \A t \in new : Cardinality(upto(t)) \in 1 .. n
  <2> SUFFICES ASSUME NEW t \in new
               PROVE  Cardinality(upto(t)) \in 1 .. n
    OBVIOUS
  <2>1. Position[t] \in Nat
    BY <1>2, SchedulerAssumption
  <2>2. upto(t) \in SUBSET new /\ t \in upto(t)
    BY <2>1
  <2> HIDE DEF upto, new
  <2>3. Cardinality(upto(t)) \in Nat /\ Cardinality(upto(t)) <= n /\ Cardinality(upto(t)) # 0
    BY <1>2, <2>2, TasksAreFinite, FewerTasks, FS_EmptySet
  <2> QED
    BY <2>3, <1>3
<1>5. \A t, u \in new : t # u => Cardinality(upto(t)) # Cardinality(upto(u))
  <2> SUFFICES ASSUME NEW t \in new, NEW u \in new, Position[t] < Position[u]
               PROVE  Cardinality(upto(t)) # Cardinality(upto(u))
    <3>1. \A t, u \in new : t # u => Position[t] < Position[u] \/ Position[u] < Position[t]
      BY <1>2, SchedulerAssumption
    <3> QED
      BY <3>1
  <2>1. \A x \in new : Position[x] \in Nat
    BY <1>2, SchedulerAssumption
  <2>2. upto(t) \in SUBSET upto(u) /\ u \in upto(u) /\ u \notin upto(t) /\ upto(u) \in SUBSET Task
    BY <1>2, <2>1
  <2> HIDE DEF upto
  <2> QED
    BY <2>2, FewerTasks, TasksAreFinite
<1>6. num = [t \in Task |-> IF t \in new THEN k + Cardinality(upto(t)) ELSE seq[t]]
  BY DEF Number, Numbered
<1> HIDE DEF num, upto, k, n
<1>7. \A t \in new : num[t] \in k + 1 .. k + n
  BY <1>2, <1>3, <1>4, <1>6
<1>8. \A t \in Task \ new : num[t] = seq[t]
  BY <1>6
<1>9. num \in [Task -> 0 .. Cardinality(Task)]
  BY <1>1, <1>3, <1>6, <1>7, <1>8
<1>10. OwnNumbers(num)
  <2> SUFFICES ASSUME NEW t \in Task, NEW u \in Task, t # u, num[t] > 0
               PROVE  num[t] # num[u]
    BY DEF OwnNumbers
  <2>1. CASE t \in new /\ u \in new
    <3>1. num[t] = k + Cardinality(upto(t)) /\ num[u] = k + Cardinality(upto(u))
      BY <1>6, <2>1
    <3> HIDE DEF new
    <3> QED
      BY <1>3, <1>4, <1>5, <2>1, <3>1
  <2>2. CASE t \in new /\ u \notin new
    BY <1>1, <1>3, <1>7, <1>8, <2>2
  <2>3. CASE t \notin new /\ u \in new
    BY <1>1, <1>3, <1>7, <1>8, <2>3
  <2>4. CASE t \notin new /\ u \notin new
    BY <1>8, <2>4 DEF SchedInv, OwnNumbers
  <2> QED
    BY <2>1, <2>2, <2>3, <2>4
<1>11. Numbered(num) = new \cup old
  BY <1>1, <1>2, <1>3, <1>7, <1>8 DEF Numbered
<1>12. UpToCount(num)
  BY <1>1, <1>3, <1>7, <1>8, <1>11 DEF UpToCount
<1>13. \A t \in C : num[t] > 0
  BY <1>1, <1>2, <1>3, <1>7, <1>8
<1>14. \A t \in Task : seq[t] > 0 => num[t] = seq[t]
  BY <1>1, <1>8
<1> QED
  BY <1>9, <1>10, <1>12, <1>13, <1>14 DEF num

-----------------------------------------------------------------------------
LEMMA SchedInitInv == Init => SchedInv
<1> SUFFICES ASSUME Init PROVE SchedInv
  OBVIOUS
<1>1. Cardinality(Task) \in Nat
  BY TasksAreFinite
<1>2. SchedulerTypeOK
  BY <1>1 DEF Init, SchedulerTypeOK
<1>3. Fits(held)
  BY NothingFits DEF Init
<1>4. OwnNumbers(seq) /\ UpToCount(seq)
  <2>1. Cardinality(Numbered(seq)) \in Nat
    BY TasksAreFinite DEF Numbered
  <2> QED
    BY <2>1 DEF Init, OwnNumbers, UpToCount
<1> QED
  BY <1>2, <1>3, <1>4 DEF SchedInv

(* The candidates of a round, with the numbers of the round, are ranked *)
LEMMA CandidatesAreRanked ==
  ASSUME SchedInv
  PROVE  /\ Ranked(Candidates, Number(Candidates))
         /\ Candidates \cap held = {}
         /\ held \subseteq Task
<1>1. Candidates \in SUBSET Task /\ Candidates \cap held = {}
  BY DEF Candidates, Ready
<1> DEFINE num == Number(Candidates)
<1>2. /\ num \in [Task -> 0 .. Cardinality(Task)]
      /\ OwnNumbers(num)
      /\ \A t \in Candidates : num[t] > 0
  BY <1>1, NumbersGoOn
<1>3. num \in [Task -> Nat]
  BY <1>2, TasksAreFinite
<1>4. \A t, u \in Candidates : t # u => num[t] # num[u]
  BY <1>1, <1>2 DEF OwnNumbers
<1>5. cursor \in [Level -> Nat] /\ held \subseteq Task
  BY DEF SchedInv, SchedulerTypeOK
<1> HIDE DEF num
<1>6. Ranked(Candidates, num)
  BY <1>1, <1>3, <1>4, <1>5 DEF Ranked
<1> QED
  BY <1>1, <1>5, <1>6 DEF num

(* The sets of owners of a round are finite, so that the cursor is a number *)
LEMMA OwnersAreFinite ==
  ASSUME NEW C \in SUBSET Task, NEW p, OwnersAt(C, p) # {}
  PROVE  Cardinality(OwnersAt(C, p)) \in Nat \ {0}
<1> DEFINE T == {u \in C : Priority[u] = p}
           f == [t \in T |-> Owner[t]]
           owners == OwnersAt(C, p)
<1>1. f \in Surjection(T, owners)
  BY DEF OwnersAt, Surjection
<1>2. IsFiniteSet(T)
  BY TasksAreFinite
<1>3. IsFiniteSet(owners)
  <2> HIDE DEF f, owners, T
  <2> QED
    BY <1>1, <1>2, FS_Surjection
<1> QED
  BY <1>3, FS_CardinalityType, FS_EmptySet

LEMMA AdmitKeeps == ASSUME SchedInv, Admit PROVE SchedInv'
<1> DEFINE C == Candidates
           num == Number(C)
<1>1. Ranked(C, num) /\ C \cap held = {} /\ held \subseteq Task /\ C \in SUBSET Task
  BY CandidatesAreRanked DEF Candidates, Ready
<1>2. PICK A \in SUBSET C :
        /\ Greedy(C, num, A)
        /\ held' = held \cup A
        /\ launching' = A
        /\ cursor' = [p \in Level |->
                        IF OwnersAt(C, p) = {} THEN cursor[p]
                        ELSE (cursor[p] + 1) % Cardinality(OwnersAt(C, p))]
        /\ turn' = [p \in Level |->
                      IF OwnersAt(A, p) = {} THEN turn[p]
                      ELSE [served |-> OwnersAt(A, p), passed |-> OwnersAt(C, p) \ OwnersAt(A, p)]]
  BY DEF Admit, Candidates
<1>3. seq' = num /\ pc' = "launch" /\ dropped' = {} /\ UNCHANGED <<done, lost, retried, deferred>>
  BY DEF Admit, Candidates
<1>4. Fits(held')
  BY <1>1, <1>2, RoundFits DEF SchedInv
<1>5. seq' \in [Task -> 0 .. Cardinality(Task)] /\ OwnNumbers(seq') /\ UpToCount(seq')
  BY <1>1, <1>3, NumbersGoOn
<1>6. cursor' \in [Level -> Nat]
  <2>1. cursor \in [Level -> Nat]
    BY DEF SchedInv, SchedulerTypeOK
  <2>2. \A p \in Level : OwnersAt(C, p) # {} =>
          (cursor[p] + 1) % Cardinality(OwnersAt(C, p)) \in Nat
    <3> SUFFICES ASSUME NEW p \in Level, OwnersAt(C, p) # {}
                 PROVE  (cursor[p] + 1) % Cardinality(OwnersAt(C, p)) \in Nat
      OBVIOUS
    <3> DEFINE k == Cardinality(OwnersAt(C, p))
    <3>1. k \in Nat \ {0} /\ cursor[p] \in Nat
      BY <1>1, <2>1, OwnersAreFinite
    <3> HIDE DEF k
    <3>2. (cursor[p] + 1) % k \in Nat
      BY <3>1
    <3> QED
      BY <3>2 DEF k
  <2> HIDE DEF C
  <2> QED
    BY <1>2, <2>1, <2>2
<1>7. turn' \in [Level -> [served : SUBSET Owners, passed : SUBSET Owners]]
  <2>1. turn \in [Level -> [served : SUBSET Owners, passed : SUBSET Owners]]
    BY DEF SchedInv, SchedulerTypeOK
  <2>2. \A p : OwnersAt(A, p) \in SUBSET Owners /\ OwnersAt(C, p) \in SUBSET Owners
    BY <1>1, <1>2 DEF OwnersAt, Owners
  <2>3. \A p : OwnersAt(C, p) \ OwnersAt(A, p) \in SUBSET Owners
    BY <2>2
  <2> HIDE DEF C
  <2> QED
    BY <1>2, <2>1, <2>2, <2>3
<1>8. held' \subseteq Task /\ launching' \subseteq held'
  BY <1>1, <1>2
<1>9. SchedulerTypeOK'
  BY <1>3, <1>5, <1>6, <1>7, <1>8 DEF SchedInv, SchedulerTypeOK
<1> QED
  BY <1>4, <1>5, <1>9 DEF SchedInv, OwnNumbers, UpToCount, Numbered

(* All other steps leave the numbers alone and hold no more than before *)
LEMMA OthersKeep ==
  ASSUME SchedInv,
         \/ RoundDone \/ Idle \/ Over \/ UNCHANGED vars
         \/ \E t \in Task : Launches(t) \/ Complete(t) \/ Retry(t) \/ Withdraw(t) \/ Wake(t)
  PROVE  SchedInv' /\ seq' = seq /\ ~ Admits
<1> USE DEF RoundDone, Idle, Over, vars, queueVars, Launches, Launch, Skip, SubmitRaises,
            Complete, Retry, Withdraw, Wake, Release, Again, GiveUp
<1>1. seq' = seq /\ cursor' = cursor /\ turn' = turn /\ held' \subseteq held
  OBVIOUS
<1>2. /\ done' \subseteq Task /\ lost' \subseteq Task /\ deferred' \subseteq Task
      /\ dropped' \subseteq Task
      /\ pc' \in {"admit", "launch", "run", "over"}
  BY DEF SchedInv, SchedulerTypeOK
<1>3. launching' \subseteq held'
  BY DEF SchedInv, SchedulerTypeOK
<1>4. retried' \in [Task -> Nat]
  <2>1. retried \in [Task -> Nat]
    BY DEF SchedInv, SchedulerTypeOK
  <2>2. ASSUME NEW t \in Task
        PROVE  [retried EXCEPT ![t] = @ + 1] \in [Task -> Nat]
    BY <2>1
  <2>3. retried' = retried \/ \E t \in Task : retried' = [retried EXCEPT ![t] = @ + 1]
    OBVIOUS
  <2> QED
    BY <2>1, <2>2, <2>3
<1>5. ~ Admits
  BY DEF Admits
<1>6. held' \in SUBSET held /\ held \in SUBSET Task
  BY <1>1 DEF SchedInv, SchedulerTypeOK
<1>7. Fits(held')
  BY <1>6, FitsLess DEF SchedInv
<1>8. SchedulerTypeOK'
  BY <1>1, <1>2, <1>3, <1>4, <1>6 DEF SchedInv, SchedulerTypeOK
<1>9. OwnNumbers(seq)' /\ UpToCount(seq)'
  BY <1>1 DEF SchedInv, OwnNumbers, UpToCount, Numbered
<1> QED
  BY <1>1, <1>5, <1>7, <1>8, <1>9 DEF SchedInv

LEMMA SchedNextKeeps == SchedInv /\ [Next]_vars => SchedInv'
BY AdmitKeeps, OthersKeep DEF Next

(* The invariant: types, what is held fits, and every number has one owner and is at most
   as large as their number. *)
THEOREM SchedulerInvariant == Spec => []SchedInv
BY SchedInitInv, SchedNextKeeps, PTL DEF Spec

(* The state of the scheduler is as declared (Scheduler, Occupancy). *)
THEOREM SchedulerTypeCorrect == Spec => []SchedulerTypeOK
<1>1. SchedInv => SchedulerTypeOK
  BY DEF SchedInv
<1> QED
  BY <1>1, SchedulerInvariant, PTL

-----------------------------------------------------------------------------
LEMMA RoundIsRight ==
  ASSUME SchedInv, Admit
  PROVE  NoHeadOfLine /\ NoInversion /\ NumbersAreStable /\ OldestFirst
<1> DEFINE C == Candidates
           num == Number(C)
<1>1. Ranked(C, num) /\ C \cap held = {} /\ held \subseteq Task /\ C \in SUBSET Task
  BY CandidatesAreRanked DEF Candidates, Ready
<1>2. PICK A \in SUBSET C : Greedy(C, num, A) /\ held' = held \cup A
  BY DEF Admit, Candidates
<1>3. seq' = num
  BY DEF Admit, Candidates
<1>4. Admitted = A /\ LeftBehind = C \ A
  BY <1>1, <1>2 DEF Admitted, LeftBehind
<1>5. Fits(held)
  BY DEF SchedInv
<1>6. NoHeadOfLine
  <2>1. Fits(held')
    BY <1>1, <1>2, <1>5, RoundFits
  <2>2. \A t \in C \ A : ~ Fits(held' \cup {t})
    BY <1>1, <1>2, RoundLeaves
  <2> QED
    BY <1>4, <2>1, <2>2 DEF NoHeadOfLine
<1>7. NoInversion
  <2>1. \A t \in C \ A : ~ Fits(held \cup {u \in A : Priority[u] >= Priority[t]} \cup {t})
    BY <1>1, <1>2, RoundLeaves
  <2> QED
    BY <1>4, <2>1 DEF NoInversion
<1>8. NumbersAreStable
  <2>1. OwnNumbers(num) /\ \A t \in Task : seq[t] > 0 => num[t] = seq[t]
    BY <1>1, NumbersGoOn
  <2> HIDE DEF num
  <2> QED
    BY <1>3, <2>1 DEF NumbersAreStable, OwnNumbers
<1>9. OldestFirst
  <2> SUFFICES ASSUME NEW t \in C, NEW u \in C, Owner[t] = Owner[u], Priority[t] = Priority[u],
                      Need[t] = Need[u], num[t] < num[u], u \in A
               PROVE  t \in A
    BY <1>3, <1>4 DEF OldestFirst
  <2> QED
    BY <1>1, <1>2, RoundKeepsTurns
<1> QED
  BY <1>6, <1>7, <1>8, <1>9

LEMMA OthersAreRight ==
  ASSUME SchedInv, seq' = seq, ~ Admits
  PROVE  NoHeadOfLine /\ NoInversion /\ NumbersAreStable /\ OldestFirst
<1>1. NumbersAreStable
  BY DEF SchedInv, OwnNumbers, NumbersAreStable
<1> QED
  BY <1>1 DEF Admits, NoHeadOfLine, NoInversion, OldestFirst

(* Every round admits as many as fit and the right ones, and a place in the queue is kept
   and counts, whatever the needs, priorities, owners and capacity (admit, _fair_order,
   enqueue_seq). *)
THEOREM RoundsAreRight == Spec => AdmissionIsRight
<1>1. SchedInv /\ [Next]_vars =>
        [NoHeadOfLine /\ NoInversion /\ NumbersAreStable /\ OldestFirst]_vars
  BY RoundIsRight, OthersAreRight, OthersKeep DEF Next
<1>2. Spec => [][Next]_vars
  BY PTL DEF Spec
<1> QED
  BY <1>1, <1>2, SchedulerInvariant, PTL DEF AdmissionIsRight
=============================================================================
