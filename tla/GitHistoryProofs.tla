-------------------------- MODULE GitHistoryProofs --------------------------
(***************************************************************************)
(* Proofs about GitHistory: moving the store by the difference of two      *)
(* histories, and replaying only the paths that it affects, gives what a   *)
(* collection from scratch gives, in any repository.                       *)
(*                                                                         *)
(* Definitions by recursion on commits, on sets of commits and on numbers  *)
(* are unfolded without induction: finitely many commits have a smallest   *)
(* one for which an equation fails, and it does not fail for that one.     *)
(***************************************************************************)
EXTENDS GitHistory, FiniteSetTheorems, WellFoundedInduction, TLAPS

(***************************************************************************)
(* Numbers, and definitions by recursion on finitely many of them.         *)
(***************************************************************************)
\* Among subsets of a finite set there is one that has none of the others
\* inside it.
LEMMA SmallestSet ==
  ASSUME NEW S, IsFiniteSet(S), NEW F, F \subseteq SUBSET S, F # {}
  PROVE  \E T \in F : \A U \in F : U \subseteq T => U = T
<1>1. IsWellFoundedOn(StrictSubsetOrdering(S), SUBSET S)
  BY FS_FiniteSubsetsOfFinite, FS_StrictSubsetOrderingWellFounded, Zenon
<1>2. PICK T \in F : \A U \in F : ~ (<<U, T>> \in StrictSubsetOrdering(S))
  BY ONLY <1>1, WFMin, F \subseteq SUBSET S, F # {}, Zenon
<1>3. \A U \in F : U \subseteq T => U = T
  BY <1>2 DEF StrictSubsetOrdering
<1> QED  BY <1>3

\* A set of numbers that is not empty has a smallest one.
LEMMA SmallestNumber ==
  ASSUME NEW N \in SUBSET Nat, N # {}
  PROVE  \E n \in N : \A m \in N : n <= m
<1>1. PICK k \in N : TRUE  OBVIOUS
<1> DEFINE F == {0..n : n \in N \cap 0..k}
<1>2. F \subseteq SUBSET (0..k) /\ F # {}
  OBVIOUS
<1>3. IsFiniteSet(0..k)
  BY FS_Interval
<1>4. PICK T \in F : \A U \in F : U \subseteq T => U = T
  <2> DEFINE S == 0..k
  <2>1. F \subseteq SUBSET S /\ F # {} /\ IsFiniteSet(S)
    BY <1>2, <1>3
  <2> HIDE DEF F, S
  <2> QED BY ONLY <2>1, SmallestSet
<1>5. PICK n \in N \cap 0..k : T = 0..n
  BY <1>4
<1>6. ASSUME NEW m \in N PROVE n <= m
  <2>1. CASE m > k  BY <2>1, <1>1, <1>5
  <2>2. CASE m <= k /\ m < n
    <3>1. 0..m \in F /\ 0..m \subseteq 0..n  BY <2>2
    <3>2. 0..m = 0..n  BY <3>1, <1>4, <1>5
    <3> QED BY <3>2, <2>2
  <2> QED BY <2>1, <2>2
<1> QED  BY <1>5, <1>6

\* Step says what a function has at x, given what it has at lower ranks.
IsStep(D, V, rank, Step) ==
  \A x \in D :
    /\ \A f \in [D -> V] : Step[x][f] \in V
    /\ \A f, g \in [D -> V] :
         (\A y \in D : rank[y] < rank[x] => f[y] = g[y]) => Step[x][f] = Step[x][g]

\* Some function has the right values at all ranks below n.
SolvedBelow(n, D, V, rank, Step) ==
  \E f \in [D -> V] : \A x \in D : rank[x] < n => f[x] = Step[x][f]

\* Such a function can be extended by one rank.
LEMMA OneRankMore ==
  ASSUME NEW D, NEW V, NEW rank \in [D -> Nat], NEW n \in Nat,
         NEW Step, IsStep(D, V, rank, Step), SolvedBelow(n, D, V, rank, Step)
  PROVE  SolvedBelow(n + 1, D, V, rank, Step)
<1>0. PICK f \in [D -> V] : \A x \in D : rank[x] < n => f[x] = Step[x][f]
  BY DEF SolvedBelow
<1> DEFINE g == [x \in D |-> IF rank[x] = n THEN Step[x][f] ELSE f[x]]
<1>1. g \in [D -> V]  BY DEF IsStep
<1>2. \A x \in D : g[x] = IF rank[x] = n THEN Step[x][f] ELSE f[x]  OBVIOUS
<1> HIDE DEF g
<1>3. ASSUME NEW x \in D, rank[x] < n + 1 PROVE g[x] = Step[x][g]
  <2>1. rank[x] \in Nat /\ rank[x] <= n  BY <1>3
  <2>2. \A y \in D : rank[y] < rank[x] => f[y] = g[y]  BY <2>1, <1>2
  <2>3. Step[x][f] = Step[x][g]  BY <2>2, <1>1 DEF IsStep
  <2>4. CASE rank[x] = n  BY <2>3, <1>2, <2>4
  <2>5. CASE rank[x] < n  BY <2>3, <1>0, <1>2, <2>1, <2>5
  <2> QED BY ONLY <2>1, <2>4, <2>5, n \in Nat
<1> QED BY <1>1, <1>3 DEF SolvedBelow

\* Ranks are numbers below N.
IsBoundedRank(D, rank, N) ==
  rank \in [D -> Nat] /\ N \in Nat /\ \A x \in D : rank[x] < N

HasSolution(D, V, Step) == \E f \in [D -> V] : \A x \in D : f[x] = Step[x][f]

\* What is defined by values at lower ranks exists: were it not so, there
\* would be a smallest rank below which it does not.
LEMMA RecursionByRank ==
  ASSUME NEW D, NEW V, NEW rank, NEW N, NEW Step,
         IsStep(D, V, rank, Step), IsBoundedRank(D, rank, N), V # {}
  PROVE  HasSolution(D, V, Step)
<1>0. /\ rank \in [D -> Nat] /\ N \in Nat /\ \A x \in D : rank[x] < N
      /\ \E v : v \in V
  BY DEF IsBoundedRank
<1> PICK v : v \in V
  BY <1>0
<1> DEFINE Bad == {n \in Nat : ~SolvedBelow(n, D, V, rank, Step)}
<1>1. SolvedBelow(0, D, V, rank, Step)
  <2>2. [x \in D |-> v] \in [D -> V] OBVIOUS
  <2>3. \A x \in D : ~(rank[x] < 0) BY <1>0
  <2> QED BY <2>2, <2>3 DEF SolvedBelow
<1>3. Bad = {}
  <2> SUFFICES ASSUME Bad # {} PROVE FALSE OBVIOUS
  <2>1. PICK n \in Bad : \A m \in Bad : n <= m
    BY SmallestNumber
  <2>2. n # 0 BY <1>1
  <2>3. n - 1 \in Nat /\ n - 1 \notin Bad BY <2>1, <2>2
  <2>5. SolvedBelow((n-1)+1, D, V, rank, Step)  BY <1>0, <2>3, OneRankMore
  <2>6. (n-1)+1 = n BY <2>3
  <2> QED BY <2>5, <2>6
<1> QED BY <1>0, <1>3 DEF SolvedBelow, HasSolution

\* Max of a finite set of numbers is its largest element.
LEMMA LargestNumber ==
  ASSUME NEW S, S \subseteq Nat, IsFiniteSet(S), S # {}
  PROVE  Max(S) \in S /\ \A x \in S : x <= Max(S)
<1> DEFINE F == {{y \in S : y >= x} : x \in S}
<1>1. F \subseteq SUBSET S /\ F # {}
  OBVIOUS
<1>2. PICK T \in F : \A U \in F : U \subseteq T => U = T
  <2>1. IsFiniteSet(S)  OBVIOUS
  <2> HIDE DEF F
  <2> QED BY ONLY <1>1, <2>1, SmallestSet
<1>3. PICK x \in S : T = {y \in S : y >= x}
  BY <1>2
<1>4. \A y \in S : y <= x
  <2> SUFFICES ASSUME NEW y \in S, ~(y <= x) PROVE FALSE  OBVIOUS
  <2> DEFINE U == {z \in S : z >= y}
  <2>1. x \in Nat /\ y \in Nat /\ S \subseteq Nat /\ x < y  OBVIOUS
  <2>3. U \in F  OBVIOUS
  <2>4. U \subseteq T
    <3>1. \A z \in S : z \in Nat /\ (z >= y => z >= x)  BY <2>1
    <3> QED BY <3>1, <1>3
  <2>2. x \in T /\ x \notin U  BY <1>3
  <2> QED BY <2>3, <2>4, <2>2, <1>2
<1>5. \E z \in S : \A y \in S : z >= y
  BY <1>4
<1>6. Max(S) \in S /\ \A y \in S : Max(S) >= y
  BY <1>5 DEF Max
<1> QED BY <1>6

\* The values of a function on a finite set are finitely many.
LEMMA ImageFinite ==
  ASSUME NEW S, IsFiniteSet(S), NEW f, DOMAIN f = S
  PROVE  IsFiniteSet({f[x] : x \in S}) /\ Cardinality({f[x] : x \in S}) <= Cardinality(S)
<1> DEFINE T == {f[x] : x \in S}
           g == [x \in S |-> f[x]]
<1>1. g \in Surjection(S, T)
  BY DEF Surjection
<1> QED BY <1>1, FS_Surjection

\* The same for a finite set of numbers that are their own ranks.
IsStepOnNumbers(D, V, Step) ==
  /\ D \subseteq Nat /\ IsFiniteSet(D) /\ V # {}
  /\ \A x \in D :
    /\ \A f \in [D -> V] : Step[x][f] \in V
    /\ \A f, g \in [D -> V] :
         (\A y \in D : y < x => f[y] = g[y]) => Step[x][f] = Step[x][g]

\* What is defined by values at smaller numbers exists.
LEMMA RecursionOnNumbers ==
  ASSUME NEW D, NEW V, NEW Step, IsStepOnNumbers(D, V, Step)
  PROVE  HasSolution(D, V, Step)
<1>0. /\ D \subseteq Nat /\ IsFiniteSet(D)
      /\ \E v : v \in V
  BY DEF IsStepOnNumbers
<1> DEFINE rank == [c \in D |-> c]
           N == IF D = {} THEN 0 ELSE Max(D) + 1
<1>1. rank \in [D -> Nat] /\ \A c \in D : rank[c] = c
  BY <1>0
<1>2. N \in Nat /\ \A c \in D : rank[c] < N
  <2>1. CASE D = {}  BY <2>1
  <2>2. CASE D # {}
    <3>1. Max(D) \in D /\ \A x \in D : x <= Max(D)  BY <1>0, <2>2, LargestNumber
    <3>2. N = Max(D) + 1  BY <2>2
    <3>3. Max(D) \in Nat  BY <1>0, <3>1
    <3> HIDE DEF N, rank
    <3> QED BY ONLY <3>1, <3>2, <3>3, <1>0, <1>1
  <2> QED BY <2>1, <2>2
<1>3. IsStep(D, V, rank, Step)
  <2> HIDE DEF rank
  <2>1. \A x \in D : \A f \in [D -> V] : Step[x][f] \in V  BY DEF IsStepOnNumbers
  <2>2. ASSUME NEW x \in D, NEW f \in [D -> V], NEW g \in [D -> V],
               \A y \in D : rank[y] < rank[x] => f[y] = g[y]
        PROVE  Step[x][f] = Step[x][g]
    <3>1. \A y \in D : y < x => f[y] = g[y]  BY ONLY <2>2, <1>1
    <3> QED BY <3>1 DEF IsStepOnNumbers
  <2> QED BY ONLY <2>1, <2>2 DEF IsStep
<1> HIDE DEF rank, N
<1>4. PICK v : v \in V  BY <1>0
<1>5. IsBoundedRank(D, rank, N) /\ V # {}
  BY ONLY <1>1, <1>2, <1>4 DEF IsBoundedRank
<1> QED BY ONLY <1>3, <1>5, RecursionByRank

(***************************************************************************)
(* What Git derives from the graph of commits: what a commit reaches, the  *)
(* order keys and the trees.                                               *)
(***************************************************************************)
\* A graph that WellFormed accepts, without what it says of trees.
IsGraph(r) ==
  LET commits == DOMAIN r.parents
  IN  /\ IsFiniteSet(commits) /\ commits \subseteq Nat \ {Absent} /\ None \notin commits
      /\ \A c \in commits :
           /\ r.parents[c] \subseteq commits /\ \A q \in r.parents[c] : q < c
           /\ r.date[c] \in Nat /\ r.changes[c] \subseteq Changes
           /\ \A ch, other \in r.changes[c] : ch.path = other.path => ch = other
           /\ \A ch \in r.changes[c] : ch.kind # "rename" => ch.from = ch.path

\* Every repository that is considered is a graph.
LEMMA WellFormedIsGraph ==
  ASSUME NEW r, WellFormed(r)
  PROVE  IsGraph(r)
<1> DEFINE commits == DOMAIN r.parents
<1>1. /\ IsFiniteSet(commits) /\ commits \subseteq Nat \ {Absent} /\ None \notin commits
      /\ \A c \in commits :
           /\ r.parents[c] \subseteq commits /\ \A q \in r.parents[c] : q < c
           /\ r.date[c] \in Nat /\ r.changes[c] \subseteq Changes
           /\ \A ch, other \in r.changes[c] : ch.path = other.path => ch = other
  BY Zenon DEF WellFormed
<1>2. ASSUME NEW c \in commits, NEW ch \in r.changes[c], ch.kind # "rename"
      PROVE  ch.from = ch.path
  <2>1. ch.kind = "write" \/ ch.kind = "delete"  BY <1>1, <1>2 DEF Changes
  <2> QED BY <2>1, <1>2 DEF WellFormed
<1> QED BY <1>1, <1>2 DEF IsGraph

\* A commit reaches itself and what its parents reach.
LEMMA ReachOfEquation ==
  ASSUME NEW r, IsGraph(r)
  PROVE  /\ ReachOf(r) \in [DOMAIN r.parents -> SUBSET DOMAIN r.parents]
         /\ \A c \in DOMAIN r.parents :
              ReachOf(r)[c] = {c} \cup UNION {ReachOf(r)[q] : q \in r.parents[c]}
<1> DEFINE D == DOMAIN r.parents
           V == SUBSET D
           Step == [c \in D |-> [f \in [D -> V] |-> {c} \cup UNION {f[q] : q \in r.parents[c]}]]
<1>1. /\ D \subseteq Nat /\ IsFiniteSet(D) /\ {} \in V
      /\ \A c \in D : r.parents[c] \subseteq D /\ \A q \in r.parents[c] : q < c
  BY DEF IsGraph
<1>2. \A c \in D : \A f \in [D -> V] : Step[c][f] = {c} \cup UNION {f[q] : q \in r.parents[c]}
  OBVIOUS
<1>3. IsStepOnNumbers(D, V, Step)
  <2> HIDE DEF Step
  <2>1. ASSUME NEW c \in D, NEW f \in [D -> V] PROVE Step[c][f] \in V
    <3>1. {c} \cup UNION {f[q] : q \in r.parents[c]} \subseteq D  BY <1>1
    <3> QED BY <3>1, <1>2
  <2>2. ASSUME NEW c \in D, NEW f \in [D -> V], NEW g \in [D -> V],
               \A y \in D : y < c => f[y] = g[y]
        PROVE  Step[c][f] = Step[c][g]
    <3>1. \A q \in r.parents[c] : f[q] = g[q]  BY <1>1, <2>2
    <3>2. {f[q] : q \in r.parents[c]} = {g[q] : q \in r.parents[c]}  BY <3>1
    <3> QED BY <3>2, <1>2
  <2> QED BY <1>1, <2>1, <2>2 DEF IsStepOnNumbers
<1>4. PICK f \in [D -> V] : \A c \in D : f[c] = Step[c][f]
  <2>1. HasSolution(D, V, Step)
    <3> HIDE DEF D, V, Step
    <3> QED BY ONLY <1>3, RecursionOnNumbers
  <2> QED BY <2>1 DEF HasSolution
<1>5. f = [c \in D |-> {c} \cup UNION {f[q] : q \in r.parents[c]}]
  BY <1>2, <1>4
<1> HIDE DEF Step
<1>6. ReachOf(r) = [c \in D |-> {c} \cup UNION {ReachOf(r)[q] : q \in r.parents[c]}]
  BY <1>5 DEF ReachOf
<1>7. ASSUME NEW c \in D PROVE ReachOf(r)[c] = f[c]
  <2> DEFINE Bad == {x \in D : ReachOf(r)[x] # f[x]}
  <2> SUFFICES ASSUME Bad # {} PROVE FALSE  OBVIOUS
  <2>1. PICK x \in Bad : \A y \in Bad : x <= y  BY <1>1, SmallestNumber
  <2>2. \A q \in r.parents[x] : q \in D /\ ~(x <= q)  BY <1>1
  <2>3. \A q \in r.parents[x] : ReachOf(r)[q] = f[q]  BY <2>1, <2>2
  <2>4. {f[q] : q \in r.parents[x]} = {ReachOf(r)[q] : q \in r.parents[x]}  BY <2>3
  <2> QED BY <2>4, <1>5, <1>6
<1> QED BY <1>6, <1>7

\* The recursion of OrderKeys.
KeysSolve(key, pending, known) ==
  key = [c \in pending |->
           Max({repo.date[c]} \cup
               {(IF p \in pending THEN key[p] ELSE known[p]) + 1 :
                  p \in repo.parents[c] \cap (pending \cup DOMAIN known)})]

\* Max of a number and of finitely many others is a number.
LEMMA MaxWithImage ==
  ASSUME NEW S, IsFiniteSet(S), NEW n \in Nat, NEW f \in [S -> Nat]
  PROVE  Max({n} \cup {f[x] : x \in S}) \in Nat
<1> DEFINE T == {n} \cup {f[x] : x \in S}
<1>1. IsFiniteSet({f[x] : x \in S})
  BY ImageFinite
<1>2. IsFiniteSet(T)
  BY <1>1, FS_Singleton, FS_Union
<1>3. T \subseteq Nat /\ T # {}
  OBVIOUS
<1> HIDE DEF T
<1>4. Max(T) \in T
  BY <1>2, <1>3, LargestNumber
<1>5. Max(T) \in Nat
  BY <1>3, <1>4
<1> QED BY <1>5 DEF T

\* The recursion has one solution at most.
LEMMA KeysAreUnique ==
  ASSUME IsGraph(repo), NEW pending, pending \subseteq Commits, NEW known, NEW one, NEW two,
         KeysSolve(one, pending, known), KeysSolve(two, pending, known)
  PROVE  one = two
<1> DEFINE Bad == {c \in pending : one[c] # two[c]}
<1>1. pending \subseteq Nat /\ \A c \in pending : \A q \in repo.parents[c] : q < c
  BY DEF IsGraph, Commits
<1>2. Bad = {}
  <2> SUFFICES ASSUME Bad # {} PROVE FALSE  OBVIOUS
  <2>1. PICK c \in Bad : \A d \in Bad : c <= d  BY <1>1, SmallestNumber
  <2> DEFINE Q == repo.parents[c] \cap (pending \cup DOMAIN known)
  <2>2. \A p \in Q \cap pending : one[p] = two[p]
    <3> SUFFICES ASSUME NEW p \in Q \cap pending PROVE p \notin Bad  OBVIOUS
    <3>1. p < c /\ p \in Nat /\ c \in Nat  BY <1>1
    <3>2. ~(c <= p)  BY <3>1
    <3> QED BY <2>1, <3>2
  <2>3. {(IF p \in pending THEN one[p] ELSE known[p]) + 1 : p \in Q}
        = {(IF p \in pending THEN two[p] ELSE known[p]) + 1 : p \in Q}
    BY <2>2
  <2>4. one[c] = two[c]
    BY <2>3 DEF KeysSolve
  <2> QED BY <2>4
<1> QED BY <1>2 DEF KeysSolve

\* OrderKeys is a solution if there is one.
LEMMA OrderKeysSolve ==
  ASSUME NEW pending, NEW known, NEW key, KeysSolve(key, pending, known)
  PROVE  KeysSolve(OrderKeys(pending, known), pending, known)
BY DEF KeysSolve, OrderKeys

\* The corrected commit dates in the whole repository.
Keys == OrderKeys(Commits, <<>>)

\* The order key of a commit: its date, and more than that of any parent.
LEMMA KeysEquation ==
  ASSUME IsGraph(repo)
  PROVE  /\ Keys \in [Commits -> Nat]
         /\ \A c \in Commits :
              Keys[c] = Max({repo.date[c]} \cup {Keys[p] + 1 : p \in repo.parents[c]})
<1> DEFINE D == Commits
           V == Nat
           Step == [c \in D |-> [f \in [D -> V] |->
                      Max({repo.date[c]} \cup {f[p] + 1 : p \in repo.parents[c]})]]
<1>1. /\ D \subseteq Nat /\ IsFiniteSet(D) /\ V # {}
      /\ \A c \in D : /\ repo.parents[c] \subseteq D /\ \A q \in repo.parents[c] : q < c
                      /\ repo.date[c] \in Nat
  BY DEF IsGraph, Commits
<1>2. \A c \in D : \A f \in [D -> V] :
        Step[c][f] = Max({repo.date[c]} \cup {f[p] + 1 : p \in repo.parents[c]})
  OBVIOUS
<1>3. ASSUME NEW c \in D, NEW f \in [D -> V]
      PROVE  Max({repo.date[c]} \cup {f[p] + 1 : p \in repo.parents[c]}) \in V
  <2> DEFINE S == repo.parents[c]
             g == [p \in S |-> f[p] + 1]
  <2>1. IsFiniteSet(S)  BY <1>1, FS_Subset
  <2>5. \A p \in S : f[p] + 1 \in Nat
    <3>1. \A p \in S : p \in D  BY <1>1
    <3>2. \A p \in D : f[p] \in Nat  BY <1>3
    <3> QED BY ONLY <3>1, <3>2
  <2>2. g \in [S -> Nat] /\ \A p \in S : g[p] = f[p] + 1  BY <2>5
  <2>3. {g[p] : p \in S} = {f[p] + 1 : p \in S}  BY <2>2
  <2>4. Max({repo.date[c]} \cup {g[p] : p \in S}) \in Nat
    <3> HIDE DEF g, S
    <3> QED BY ONLY <2>1, <2>2, <1>1, c \in D, MaxWithImage
  <2> QED BY <2>3, <2>4
<1>4. IsStepOnNumbers(D, V, Step)
  <2> HIDE DEF Step
  <2>1. ASSUME NEW c \in D, NEW f \in [D -> V] PROVE Step[c][f] \in V
    BY <1>2, <1>3
  <2>2. ASSUME NEW c \in D, NEW f \in [D -> V], NEW g \in [D -> V],
               \A y \in D : y < c => f[y] = g[y]
        PROVE  Step[c][f] = Step[c][g]
    <3>1. \A q \in repo.parents[c] : f[q] = g[q]  BY <1>1, <2>2
    <3>2. {f[q] + 1 : q \in repo.parents[c]} = {g[q] + 1 : q \in repo.parents[c]}  BY <3>1
    <3> QED BY <3>2, <1>2
  <2> QED BY <1>1, <2>1, <2>2 DEF IsStepOnNumbers
<1>5. PICK f \in [D -> V] : \A c \in D : f[c] = Step[c][f]
  <2>1. HasSolution(D, V, Step)
    <3> HIDE DEF D, V, Step
    <3> QED BY ONLY <1>4, RecursionOnNumbers
  <2> QED BY <2>1 DEF HasSolution
<1> HIDE DEF Step
<1>6. KeysSolve(f, Commits, <<>>)
  <2>1. DOMAIN <<>> = {}  OBVIOUS
  <2>2. \A c \in Commits : repo.parents[c] \cap (Commits \cup DOMAIN <<>>) = repo.parents[c]
    BY <1>1, <2>1
  <2>3. \A c \in Commits :
          {(IF p \in Commits THEN f[p] ELSE <<>>[p]) + 1 :
               p \in repo.parents[c] \cap (Commits \cup DOMAIN <<>>)}
          = {f[p] + 1 : p \in repo.parents[c]}
    BY <1>1, <2>2
  <2>4. \A c \in Commits : f[c] = Max({repo.date[c]} \cup
          {(IF p \in Commits THEN f[p] ELSE <<>>[p]) + 1 :
               p \in repo.parents[c] \cap (Commits \cup DOMAIN <<>>)})
    BY <1>2, <1>5, <2>3
  <2> QED BY <1>5, <2>4 DEF KeysSolve
<1>7. Keys = f
  BY <1>6, OrderKeysSolve, KeysAreUnique DEF Keys
<1> QED BY <1>2, <1>5, <1>7

\* The keys of some commits, given those of the parents outside of them, are
\* those that the whole repository gives: what is stored can be built upon.
LEMMA KeysOfPart ==
  ASSUME IsGraph(repo), NEW pending, pending \subseteq Commits, NEW known,
         \A c \in pending : repo.parents[c] \subseteq pending \cup DOMAIN known,
         \A q \in DOMAIN known : known[q] = Keys[q]
  PROVE  OrderKeys(pending, known) = [c \in pending |-> Keys[c]]
<1> DEFINE f == [c \in pending |-> Keys[c]]
<1>1. \A c \in pending :
        {(IF p \in pending THEN f[p] ELSE known[p]) + 1 :
            p \in repo.parents[c] \cap (pending \cup DOMAIN known)}
        = {Keys[p] + 1 : p \in repo.parents[c]}
  OBVIOUS
<1>2. \A c \in pending : f[c] =
        Max({repo.date[c]} \cup
        {(IF p \in pending THEN f[p] ELSE known[p]) + 1 :
            p \in repo.parents[c] \cap (pending \cup DOMAIN known)})
  BY <1>1, KeysEquation
<1>3. KeysSolve(f, pending, known)
  BY <1>2 DEF KeysSolve
<1> HIDE DEF f
<1>4. OrderKeys(pending, known) = f
  BY <1>3, OrderKeysSolve, KeysAreUnique
<1> QED BY <1>4 DEF f

\* One line of TreeOf.
TreeLine(r, t, c) ==
  [p \in Paths |->
     LET own == {ch \in r.changes[c] : ch.path = p}
     IN  IF \E ch \in own : ch.kind # "delete" THEN c
         ELSE IF own # {} \/ \E ch \in r.changes[c] : ch.from = p THEN Absent
         ELSE Max({Absent} \cup {t[q][p] : q \in r.parents[c]})]

\* The newest commit of a path among trees is one of the repository.
LEMMA TreeLineValue ==
  ASSUME NEW r, IsGraph(r), NEW c \in DOMAIN r.parents, NEW p \in Paths,
         NEW t \in [DOMAIN r.parents -> [Paths -> {Absent} \cup DOMAIN r.parents]]
  PROVE  Max({Absent} \cup {t[q][p] : q \in r.parents[c]}) \in {Absent} \cup DOMAIN r.parents
<1> DEFINE D == DOMAIN r.parents
           S == r.parents[c]
           f == [q \in S |-> t[q][p]]
           T == {Absent} \cup {f[q] : q \in S}
<1>1. S \subseteq D /\ D \subseteq Nat /\ IsFiniteSet(S)
  BY FS_Subset DEF IsGraph
<1>2. f \in [S -> {Absent} \cup D]
  BY <1>1
<1>3. IsFiniteSet({f[x] : x \in S})
  <2> HIDE DEF f, S, D
  <2> QED BY ONLY <1>1, <1>2, ImageFinite
<1>4. IsFiniteSet(T)
  <2> HIDE DEF f
  <2> QED BY <1>3, FS_Singleton, FS_Union
<1>5. T \subseteq {Absent} \cup D /\ T # {}
  <2> HIDE DEF f, S
  <2> QED BY <1>2
<1>6. {Absent} \cup D \subseteq Nat
  BY <1>1 DEF Absent
<1>7. Max(T) \in T
  <2> HIDE DEF T, D
  <2> QED BY <1>4, <1>5, <1>6, LargestNumber
<1>8. T = {Absent} \cup {t[q][p] : q \in S}
  OBVIOUS
<1> HIDE DEF T
<1> QED BY <1>5, <1>7, <1>8

\* What every commit leaves at every path.
LEMMA TreeOfEquation ==
  ASSUME NEW r, IsGraph(r)
  PROVE  /\ TreeOf(r) \in [DOMAIN r.parents -> [Paths -> {Absent} \cup DOMAIN r.parents]]
         /\ \A c \in DOMAIN r.parents : TreeOf(r)[c] = TreeLine(r, TreeOf(r), c)
<1> DEFINE D == DOMAIN r.parents
           V == [Paths -> {Absent} \cup D]
           Step == [c \in D |-> [t \in [D -> V] |-> TreeLine(r, t, c)]]
<1>1. /\ D \subseteq Nat /\ IsFiniteSet(D)
      /\ \A c \in D : r.parents[c] \subseteq D /\ \A q \in r.parents[c] : q < c
  BY DEF IsGraph
<1>2. \A c \in D : \A t \in [D -> V] : Step[c][t] = TreeLine(r, t, c)
  OBVIOUS
<1>3. ASSUME NEW c \in D, NEW t \in [D -> V]
      PROVE  TreeLine(r, t, c) \in V
  <2>1. \A p \in Paths : Max({Absent} \cup {t[q][p] : q \in r.parents[c]}) \in {Absent} \cup D
    BY TreeLineValue
  <2> QED BY <2>1 DEF TreeLine
<1>4. ASSUME NEW c \in D, NEW f, NEW g, \A q \in r.parents[c] : f[q] = g[q]
      PROVE  TreeLine(r, f, c) = TreeLine(r, g, c)
  <2>1. \A p \in Paths : {f[q][p] : q \in r.parents[c]} = {g[q][p] : q \in r.parents[c]}
    BY <1>4
  <2> QED BY <2>1 DEF TreeLine
<1>5. IsStepOnNumbers(D, V, Step)
  <2> HIDE DEF Step
  <2>1. ASSUME NEW c \in D, NEW f \in [D -> V] PROVE Step[c][f] \in V
    BY <1>2, <1>3
  <2>2. ASSUME NEW c \in D, NEW f \in [D -> V], NEW g \in [D -> V],
               \A y \in D : y < c => f[y] = g[y]
        PROVE  Step[c][f] = Step[c][g]
    <3>1. \A q \in r.parents[c] : f[q] = g[q]  BY <1>1, <2>2
    <3> HIDE DEF V
    <3> QED BY <3>1, <1>2, <1>4
  <2>3. V # {}
    <3>1. [p \in Paths |-> Absent] \in V  OBVIOUS
    <3> QED BY <3>1
  <2> HIDE DEF V
  <2> QED BY <1>1, <2>1, <2>2, <2>3 DEF IsStepOnNumbers
<1>6. PICK f \in [D -> V] : \A c \in D : f[c] = Step[c][f]
  <2>1. HasSolution(D, V, Step)
    <3> HIDE DEF D, V, Step
    <3> QED BY ONLY <1>5, RecursionOnNumbers
  <2> QED BY <2>1 DEF HasSolution
<1>7. f = [c \in D |-> TreeLine(r, f, c)]
  <2> HIDE DEF Step, V
  <2> QED BY <1>2, <1>6
<1> HIDE DEF Step, V
<1>8. TreeOf(r) = [c \in D |-> TreeLine(r, TreeOf(r), c)]
  BY <1>7 DEF TreeOf, TreeLine
<1>9. ASSUME NEW c \in D PROVE TreeOf(r)[c] = f[c]
  <2> DEFINE Bad == {x \in D : TreeOf(r)[x] # f[x]}
  <2> SUFFICES ASSUME Bad # {} PROVE FALSE  OBVIOUS
  <2>1. PICK x \in Bad : \A y \in Bad : x <= y  BY <1>1, SmallestNumber
  <2>2. \A q \in r.parents[x] : q \in D /\ ~(x <= q)  BY <1>1
  <2>3. \A q \in r.parents[x] : f[q] = TreeOf(r)[q]  BY <2>1, <2>2
  <2>4. TreeLine(r, f, x) = TreeLine(r, TreeOf(r), x)  BY <2>3, <1>4
  <2> QED BY <2>4, <1>7, <1>8
<1>10. TreeOf(r) = f
  BY <1>7, <1>8, <1>9
<1> QED BY <1>6, <1>8, <1>10 DEF V

(***************************************************************************)
(* What the repository of a behaviour satisfies.                           *)
(***************************************************************************)
RepoOK ==
  /\ IsGraph(repo)
  /\ Reach \in [Commits -> SUBSET Commits]
  /\ \A c \in Commits : Reach[c] = {c} \cup UNION {Reach[q] : q \in repo.parents[c]}
  /\ Tree \in [Commits -> [Paths -> {Absent} \cup Commits]]
  /\ \A c \in Commits : Tree[c] = TreeLine(repo, Tree, c)

\* What Git derives from a repository satisfies these equations.
LEMMA RepoIsOK ==
  ASSUME NEW r, WellFormed(r), repo = WithTrees(r)
  PROVE  RepoOK
<1> DEFINE D == DOMAIN r.parents
<1>1. IsGraph(r)
  BY WellFormedIsGraph
<1>2. /\ repo.parents = r.parents /\ repo.date = r.date /\ repo.changes = r.changes
      /\ repo.reach = [c \in D |-> ReachOf(r)[c]]
      /\ repo.tree = [c \in D |-> TreeOf(r)[c]]
  BY DEF WithTrees
<1>3. IsGraph(repo)
  BY <1>1, <1>2 DEF IsGraph
<1>4. Commits = D
  BY <1>2 DEF Commits
<1>5. Reach = ReachOf(r)
  BY <1>1, <1>2, ReachOfEquation DEF Reach
<1>6. Tree = TreeOf(r)
  BY <1>1, <1>2, TreeOfEquation DEF Tree
<1>7. \A c \in D : TreeLine(repo, Tree, c) = TreeLine(r, TreeOf(r), c)
  BY <1>2, <1>6 DEF TreeLine
<1>8. \A c \in Commits : Reach[c] = {c} \cup UNION {Reach[q] : q \in repo.parents[c]}
  <2> HIDE DEF D
  <2>1. \A c \in D : ReachOf(r)[c] = {c} \cup UNION {ReachOf(r)[q] : q \in r.parents[c]}
    BY <1>1, ReachOfEquation DEF D
  <2> QED BY ONLY <2>1, <1>2, <1>4, <1>5
<1> QED BY <1>1, <1>3, <1>4, <1>5, <1>6, <1>7, <1>8, ReachOfEquation, TreeOfEquation DEF RepoOK

\* The commits are finitely many positive numbers and parents are smaller.
LEMMA GraphFacts ==
  ASSUME RepoOK
  PROVE  /\ Commits \subseteq Nat \ {Absent} /\ IsFiniteSet(Commits) /\ None \notin Commits
         /\ \A c \in Commits :
              /\ repo.parents[c] \subseteq Commits
              /\ \A q \in repo.parents[c] : q < c
              /\ repo.changes[c] \subseteq Changes
BY DEF RepoOK, IsGraph, Commits

\* Reaching is reflexive and transitive and never leads to a newer commit.
LEMMA ReachIsOrder ==
  ASSUME RepoOK
  PROVE  \A d \in Commits :
           /\ d \in Reach[d]
           /\ Reach[d] \subseteq Commits
           /\ repo.parents[d] \subseteq Reach[d]
           /\ \A c \in Reach[d] : c <= d /\ Reach[c] \subseteq Reach[d]
<1>1. /\ Commits \subseteq Nat
      /\ \A c \in Commits : repo.parents[c] \subseteq Commits /\ \A q \in repo.parents[c] : q < c
  BY GraphFacts
<1>2. \A c \in Commits : /\ Reach[c] \subseteq Commits
                         /\ Reach[c] = {c} \cup UNION {Reach[q] : q \in repo.parents[c]}
  BY DEF RepoOK
<1>3. \A d \in Commits : d \in Reach[d] /\ \A q \in repo.parents[d] : Reach[q] \subseteq Reach[d]
  BY <1>2
<1>4. \A d \in Commits : repo.parents[d] \subseteq Reach[d]
  BY <1>1, <1>3
<1> DEFINE Bad == {d \in Commits : ~ \A c \in Reach[d] : c <= d /\ Reach[c] \subseteq Reach[d]}
<1>5. Bad = {}
  <2> SUFFICES ASSUME Bad # {} PROVE FALSE  OBVIOUS
  <2>1. PICK d \in Bad : \A e \in Bad : d <= e  BY <1>1, SmallestNumber
  <2>2. PICK c \in Reach[d] : ~(c <= d /\ Reach[c] \subseteq Reach[d])  BY <2>1
  <2>3. d \in Nat /\ c \in Nat /\ d \in Commits  BY <1>1, <1>2, <2>1
  <2>4. c # d  BY <2>2, <2>3
  <2>5. PICK q \in repo.parents[d] : c \in Reach[q]  BY <1>2, <2>3, <2>4
  <2>6. q \in Commits /\ q \in Nat /\ q < d  BY <1>1, <2>3
  <2>7. q \notin Bad  BY <2>1, <2>6, <2>3
  <2>8. c <= q /\ Reach[c] \subseteq Reach[q]  BY <2>5, <2>6, <2>7
  <2>9. c <= d  BY <2>3, <2>6, <2>8
  <2>10. Reach[c] \subseteq Reach[d]  BY <1>3, <2>3, <2>8
  <2> QED BY <2>2, <2>9, <2>10
<1> QED BY <1>2, <1>3, <1>4, <1>5

(***************************************************************************)
(* Folding histories.                                                      *)
(***************************************************************************)
PathHistories == [Paths -> [Commits -> Nat]]
FoldChanges == [kind : {"write", "delete", "rename", "touch"}, path : Paths, from : Paths]

\* The last commit of a set in the order of a fold.
IsLast(l, S, key) == l \in S /\ \A d \in S : key[d] < key[l] \/ (key[d] = key[l] /\ d <= l)

\* Finitely many commits have a last one in the order of their keys.
LEMMA LastExists ==
  ASSUME NEW S, S \subseteq Nat, IsFiniteSet(S), S # {}, NEW key, \A c \in S : key[c] \in Nat
  PROVE  \E l \in S : IsLast(l, S, key)
<1> DEFINE f == [c \in S |-> key[c]]
           K == {f[c] : c \in S}
           L == {c \in S : key[c] = Max(K)}
<1>1. K \subseteq Nat /\ IsFiniteSet(K) /\ K # {}
  BY ImageFinite
<1>2. Max(K) \in K /\ \A k \in K : k <= Max(K)
  <2> HIDE DEF K
  <2> QED BY <1>1, LargestNumber
<1>3. \A c \in S : key[c] <= Max(K)
  <2>1. \A c \in S : key[c] \in K  OBVIOUS
  <2> HIDE DEF K
  <2> QED BY <1>2, <2>1
<1>4. L \subseteq Nat /\ IsFiniteSet(L) /\ L # {}
  <2>1. \E c \in S : key[c] = Max(K)  BY <1>2
  <2> HIDE DEF K
  <2> QED BY <2>1, FS_Subset
<1>5. Max(L) \in L /\ \A c \in L : c <= Max(L)
  <2> HIDE DEF L
  <2> QED BY <1>4, LargestNumber
<1> DEFINE l == Max(L)
<1>6. l \in S /\ key[l] = Max(K)
  <2> HIDE DEF K, l
  <2>1. l \in L  BY <1>5 DEF l
  <2> QED BY <2>1
<1>7. ASSUME NEW d \in S PROVE key[d] < key[l] \/ (key[d] = key[l] /\ d <= l)
  <2>1. key[d] \in Nat /\ key[l] \in Nat /\ key[d] <= key[l]  BY <1>3, <1>6
  <2>2. key[d] = key[l] => d \in L  BY <1>6
  <2>3. key[d] = key[l] => d <= l  BY <2>2, <1>5
  <2> HIDE DEF l
  <2> QED BY <2>1, <2>3
<1> HIDE DEF l
<1> QED BY <1>6, <1>7 DEF IsLast

\* They have one last commit only.
LEMMA LastIsUnique ==
  ASSUME NEW S, S \subseteq Nat, NEW key, \A c \in S : key[c] \in Nat,
         NEW l, IsLast(l, S, key), NEW m, IsLast(m, S, key)
  PROVE  l = m
<1>1. l \in S /\ m \in S /\ l \in Nat /\ m \in Nat /\ key[l] \in Nat /\ key[m] \in Nat
  BY DEF IsLast
<1>2. key[l] < key[m] \/ (key[l] = key[m] /\ l <= m)
  BY <1>1 DEF IsLast
<1>3. key[m] < key[l] \/ (key[m] = key[l] /\ m <= l)
  BY <1>1 DEF IsLast
<1> QED BY <1>1, <1>2, <1>3

\* Replaying a commit gives histories of paths.
LEMMA ReplayType ==
  ASSUME NEW paths \in PathHistories, NEW c, NEW changes, changes \subseteq FoldChanges
  PROVE  Replay(paths, c, changes) \in PathHistories
<1> DEFINE To(p)        == {ch \in changes : ch.kind = "rename" /\ ch.path = p}
           Inherited(p) == IF To(p) = {} THEN Blank ELSE paths[(CHOOSE ch \in To(p) : TRUE).from]
           Held(p)      == IF \E ch \in changes : ch.kind = "rename" /\ ch.from = p
                           THEN Blank ELSE paths[p]
           Line(p)      == IF \E ch \in changes : ch.path = p
                           THEN [d \in Commits |-> Held(p)[d] + Inherited(p)[d] + (IF d = c THEN 1 ELSE 0)]
                           ELSE Held(p)
<1>1. Blank \in [Commits -> Nat]
  BY DEF Blank
<1>2. \A p \in Paths : paths[p] \in [Commits -> Nat]
  BY DEF PathHistories
<1>3. \A p \in Paths : Held(p) \in [Commits -> Nat]
  BY <1>1, <1>2
<1>4. \A p \in Paths : Inherited(p) \in [Commits -> Nat]
  <2> TAKE p \in Paths
  <2>1. CASE To(p) = {}  BY <2>1, <1>1
  <2>2. CASE To(p) # {}
    <3> DEFINE ch == CHOOSE x \in To(p) : TRUE
    <3>1. ch \in To(p)  BY <2>2
    <3>2. ch.from \in Paths  BY <3>1 DEF FoldChanges
    <3>3. Inherited(p) = paths[ch.from]  BY <2>2
    <3> QED BY <3>2, <3>3, <1>2
  <2> QED BY <2>1, <2>2
<1> HIDE DEF Held, Inherited
<1>5. \A p \in Paths : Line(p) \in [Commits -> Nat]
  <2> TAKE p \in Paths
  <2>1. \A d \in Commits : Held(p)[d] \in Nat /\ Inherited(p)[d] \in Nat  BY <1>3, <1>4
  <2>2. \A d \in Commits : Held(p)[d] + Inherited(p)[d] + (IF d = c THEN 1 ELSE 0) \in Nat  BY <2>1
  <2> QED BY <2>2, <1>3
<1>6. Replay(paths, c, changes) = [p \in Paths |-> Line(p)]
  BY DEF Replay, Held, Inherited
<1> HIDE DEF Line
<1> QED BY <1>5, <1>6 DEF PathHistories

(***************************************************************************)
(* FoldHistory replays the last commit on top of the fold of the others.   *)
(***************************************************************************)
FoldLine(fold, S, key, changes) ==
  LET Before(c, d) == key[c] < key[d] \/ (key[c] = key[d] /\ c <= d)
  IN  IF S = {} THEN [p \in Paths |-> Blank]
      ELSE LET last == CHOOSE c \in S : \A d \in S : Before(d, c)
           IN  Replay(fold[S \ {last}], last, changes[last])

\* Commits with keys that can be compared.
HasKeys(S, key) == S \subseteq Nat /\ \A c \in S : key[c] \in Nat

\* One line of FoldHistory replays the last commit.
LEMMA FoldLineAt ==
  ASSUME NEW S, NEW key, HasKeys(S, key), NEW l, IsLast(l, S, key), NEW fold, NEW changes
  PROVE  FoldLine(fold, S, key, changes) = Replay(fold[S \ {l}], l, changes[l])
<1> DEFINE last == CHOOSE c \in S : \A d \in S : key[d] < key[c] \/ (key[d] = key[c] /\ d <= c)
<1>1. last \in S /\ \A d \in S : key[d] < key[last] \/ (key[d] = key[last] /\ d <= last)
  BY DEF IsLast
<1>2. FoldLine(fold, S, key, changes) = Replay(fold[S \ {last}], last, changes[last])
  BY DEF FoldLine, IsLast
<1> HIDE DEF last
<1>3. last = l
  BY <1>1, LastIsUnique DEF IsLast, HasKeys
<1> QED BY <1>2, <1>3

\* F has the fold of every set of the commits.
IsFold(F, commits, key, changes) ==
  /\ F \in [SUBSET commits -> PathHistories]
  /\ F[{}] = [p \in Paths |-> Blank]
  /\ \A S \in SUBSET commits : \A l \in S :
       IsLast(l, S, key) => F[S] = Replay(F[S \ {l}], l, changes[l])

IsFoldInput(commits, key, changes) ==
  /\ commits \subseteq Commits
  /\ \A c \in commits : key[c] \in Nat /\ changes[c] \subseteq FoldChanges

\* FoldHistory is such a fold.
LEMMA FoldUnfolds ==
  ASSUME RepoOK, NEW commits, NEW key, NEW changes, IsFoldInput(commits, key, changes)
  PROVE  \E F : IsFold(F, commits, key, changes) /\ FoldHistory(commits, key, changes) = F[commits]
<1>0. /\ commits \subseteq Commits
      /\ \A c \in commits : key[c] \in Nat /\ changes[c] \subseteq FoldChanges
  BY DEF IsFoldInput
<1> DEFINE D == SUBSET commits
           V == PathHistories
           Step == [S \in D |-> [f \in [D -> V] |-> FoldLine(f, S, key, changes)]]
           rank == [S \in D |-> Cardinality(S)]
           N == Cardinality(commits) + 1
           blank == [p \in Paths |-> Blank]
<1>1. commits \subseteq Nat /\ IsFiniteSet(commits)
  BY <1>0, GraphFacts, FS_Subset
<1>2. \A S \in D : /\ IsFiniteSet(S) /\ Cardinality(S) \in Nat
                   /\ Cardinality(S) <= Cardinality(commits)
  BY <1>1, FS_Subset, FS_CardinalityType
<1>3. IsBoundedRank(D, rank, N)
  <2>1. Cardinality(commits) \in Nat  BY <1>1, FS_CardinalityType
  <2>2. \A S \in D : rank[S] = Cardinality(S) /\ rank[S] < N  BY <1>2, <2>1
  <2>3. rank \in [D -> Nat]  BY <1>2
  <2>4. N \in Nat  BY <2>1
  <2> HIDE DEF rank, N
  <2> QED BY ONLY <2>2, <2>3, <2>4 DEF IsBoundedRank
<1>4. blank \in V
  BY DEF PathHistories, Blank
<1>5. \A S \in D : S # {} => \E l \in S : IsLast(l, S, key)
  BY <1>0, <1>1, <1>2, LastExists
<1>6. ASSUME NEW S \in D, NEW l \in S, IsLast(l, S, key), NEW f
      PROVE  /\ FoldLine(f, S, key, changes) = Replay(f[S \ {l}], l, changes[l])
             /\ S \ {l} \in D /\ Cardinality(S \ {l}) < Cardinality(S)
  <2>1. FoldLine(f, S, key, changes) = Replay(f[S \ {l}], l, changes[l])
    <3>1. HasKeys(S, key)  BY <1>0, <1>1 DEF HasKeys
    <3> QED BY ONLY <3>1, <1>6, FoldLineAt
  <2>2. Cardinality(S \ {l}) = Cardinality(S) - 1  BY <1>2, FS_RemoveElement
  <2> QED BY <1>2, <2>1, <2>2
<1>7. \A f : FoldLine(f, {}, key, changes) = blank
  BY DEF FoldLine
<1>8. ASSUME NEW S \in D, NEW f \in [D -> V] PROVE FoldLine(f, S, key, changes) \in V
  <2>1. CASE S = {}  BY <2>1, <1>4, <1>7
  <2>2. CASE S # {}
    <3>1. PICK l \in S : IsLast(l, S, key)  BY <2>2, <1>5
    <3>2. f[S \ {l}] \in PathHistories /\ changes[l] \subseteq FoldChanges  BY <1>0
    <3>3. Replay(f[S \ {l}], l, changes[l]) \in PathHistories
      BY <3>2, ReplayType
    <3> QED BY <3>1, <3>3, <1>6
  <2> QED BY <2>1, <2>2
<1>9. ASSUME NEW S \in D, NEW f, NEW g,
             \A U \in D : Cardinality(U) < Cardinality(S) => f[U] = g[U]
      PROVE  FoldLine(f, S, key, changes) = FoldLine(g, S, key, changes)
  <2>1. CASE S = {}  BY <2>1, <1>7
  <2>2. CASE S # {}
    <3>1. PICK l \in S : IsLast(l, S, key)  BY <2>2, <1>5
    <3>2. f[S \ {l}] = g[S \ {l}]  BY <3>1, <1>6, <1>9
    <3>3. FoldLine(f, S, key, changes) = Replay(f[S \ {l}], l, changes[l])  BY ONLY <3>1, <1>6, <1>9
    <3>4. FoldLine(g, S, key, changes) = Replay(g[S \ {l}], l, changes[l])  BY ONLY <3>1, <1>6, <1>9
    <3> QED BY ONLY <3>2, <3>3, <3>4
  <2> QED BY <2>1, <2>2
<1>10. \A S \in D : \A f \in [D -> V] : Step[S][f] = FoldLine(f, S, key, changes)
  OBVIOUS
<1>11. IsStep(D, V, rank, Step)
  <2>1. \A S \in D : rank[S] = Cardinality(S)  OBVIOUS
  <2> HIDE DEF Step, rank, D, V
  <2>2. ASSUME NEW S \in D, NEW g \in [D -> V], NEW h \in [D -> V],
               \A U \in D : rank[U] < rank[S] => g[U] = h[U]
        PROVE  Step[S][g] = Step[S][h]
    <3>1. \A U \in D : Cardinality(U) < Cardinality(S) => g[U] = h[U]  BY ONLY <2>1, <2>2
    <3>2. FoldLine(g, S, key, changes) = FoldLine(h, S, key, changes)  BY <3>1, <1>9
    <3> QED BY ONLY <3>2, <1>10, <2>2
  <2>3. \A S \in D : \A g \in [D -> V] : Step[S][g] \in V  BY <1>8, <1>10
  <2> QED BY ONLY <2>2, <2>3 DEF IsStep
<1>12. PICK f \in [D -> V] : \A S \in D : f[S] = Step[S][f]
  <2>1. V # {}  BY <1>4
  <2>2. HasSolution(D, V, Step)
    <3> HIDE DEF D, V, Step, rank, N
    <3> QED BY ONLY <1>3, <1>11, <2>1, RecursionByRank
  <2> QED BY <2>2 DEF HasSolution
<1>13. f = [S \in D |-> FoldLine(f, S, key, changes)]
  <2> HIDE DEF Step, V, D
  <2> QED BY <1>10, <1>12
<1> DEFINE F == CHOOSE g : g = [S \in D |-> FoldLine(g, S, key, changes)]
<1>14. F = [S \in D |-> FoldLine(F, S, key, changes)]
  <2> HIDE DEF Step, V, D
  <2> QED BY <1>13
<1>15. FoldHistory(commits, key, changes) = F[commits]
  BY DEF FoldHistory, FoldLine
<1> HIDE DEF F, Step, V, rank, N
<1>16. \A S \in D : F[S] = f[S]
  <2> DEFINE Bad == {S \in D : F[S] # f[S]}
  <2> SUFFICES ASSUME Bad # {} PROVE FALSE  OBVIOUS
  <2>1. PICK S \in Bad : \A U \in Bad : U \subseteq S => U = S
    <3>1. Bad \subseteq SUBSET commits  OBVIOUS
    <3>2. Bad # {} /\ IsFiniteSet(commits)  BY <1>1
    <3> HIDE DEF Bad
    <3> QED BY ONLY <3>1, <3>2, SmallestSet
  <2>2. S \in D /\ F[S] = FoldLine(F, S, key, changes) /\ f[S] = FoldLine(f, S, key, changes)
    BY <2>1, <1>13, <1>14
  <2>3. CASE S = {}  BY <2>1, <2>2, <2>3, <1>7
  <2>4. CASE S # {}
    <3>1. PICK l \in S : IsLast(l, S, key)  BY <2>2, <2>4, <1>5
    <3>2. S \ {l} \in D /\ S \ {l} \notin Bad  BY <2>1, <3>1
    <3>3. F[S \ {l}] = f[S \ {l}]  BY <3>2
    <3>4. F[S] = f[S]  BY <2>2, <3>1, <3>3, <1>6
    <3> QED BY <3>4, <2>1
  <2> QED BY <2>3, <2>4
<1>17. F = f
  BY <1>13, <1>14, <1>16
<1>18. IsFold(F, commits, key, changes)
  <2>1. F \in [SUBSET commits -> PathHistories]  BY <1>12, <1>17 DEF V
  <2>2. F[{}] = blank  BY <1>7, <1>14
  <2>3. \A S \in SUBSET commits : \A l \in S :
          IsLast(l, S, key) => F[S] = Replay(F[S \ {l}], l, changes[l])
    BY <1>6, <1>14
  <2> QED BY <2>1, <2>2, <2>3 DEF IsFold
<1> QED BY <1>15, <1>18

(***************************************************************************)
(* What a fold does on some paths.                                         *)
(***************************************************************************)
\* Changes at some paths, and changes whose renames do not cross their border.
At(changes, P) == {ch \in changes : ch.path \in P}
ClosedOn(changes, P) == \A ch \in changes : ch.kind = "rename" => (ch.path \in P <=> ch.from \in P)

\* Replaying on some paths depends on nothing outside of them, unless a rename
\* crosses the border.
LEMMA ReplayOnPaths ==
  ASSUME NEW P, P \subseteq Paths, NEW one, NEW two, ClosedOn(one, P), ClosedOn(two, P),
         At(one, P) = At(two, P), NEW f, NEW g, \A p \in P : f[p] = g[p], NEW c
  PROVE  \A p \in P : Replay(f, c, one)[p] = Replay(g, c, two)[p]
<1> TAKE p \in P
<1> DEFINE To(changes) == {ch \in changes : ch.kind = "rename" /\ ch.path = p}
           Inherited(h, changes) == IF To(changes) = {} THEN Blank
                                    ELSE h[(CHOOSE ch \in To(changes) : TRUE).from]
           Left(changes) == \E ch \in changes : ch.kind = "rename" /\ ch.from = p
           Held(h, changes) == IF Left(changes) THEN Blank ELSE h[p]
           Line(h, changes) ==
             IF \E ch \in changes : ch.path = p
             THEN [d \in Commits |-> Held(h, changes)[d] + Inherited(h, changes)[d] + (IF d = c THEN 1 ELSE 0)]
             ELSE Held(h, changes)
<1>1. Replay(f, c, one)[p] = Line(f, one) /\ Replay(g, c, two)[p] = Line(g, two)
  BY DEF Replay
<1>2. To(one) = To(two)
  BY DEF At
<1>3. Left(one) <=> Left(two)
  BY DEF At, ClosedOn
<1>4. (\E ch \in one : ch.path = p) <=> (\E ch \in two : ch.path = p)
  BY DEF At
<1>5. Held(f, one) = Held(g, two)
  <2> HIDE DEF Left
  <2> QED BY <1>3
<1>6. Inherited(f, one) = Inherited(g, two)
  <2>1. CASE To(one) = {}  BY <2>1, <1>2
  <2>2. CASE To(one) # {}
    <3> DEFINE ch == CHOOSE x \in To(one) : TRUE
    <3>1. ch \in To(one)  BY <2>2
    <3>2. ch.from \in P  BY <3>1 DEF ClosedOn
    <3>3. Inherited(f, one) = f[ch.from]  BY <2>2
    <3>4. Inherited(g, two) = g[ch.from]  BY <2>2, <1>2
    <3> HIDE DEF ch, Inherited
    <3> QED BY <3>2, <3>3, <3>4
  <2> QED BY <2>1, <2>2
<1> HIDE DEF Held, Inherited
<1>7. Line(f, one) = Line(g, two)
  BY <1>4, <1>5, <1>6
<1> QED BY <1>1, <1>7

\* Paths that a commit does not change keep their history.
LEMMA ReplayOffPaths ==
  ASSUME NEW P, P \subseteq Paths, NEW changes, ClosedOn(changes, P), At(changes, P) = {}, NEW f, NEW c
  PROVE  \A p \in P : Replay(f, c, changes)[p] = f[p]
<1> TAKE p \in P
<1>1. ~(\E ch \in changes : ch.path = p) /\ ~(\E ch \in changes : ch.kind = "rename" /\ ch.from = p)
  BY DEF At, ClosedOn
<1> QED BY <1>1 DEF Replay

\* Two folds that differ only in what they do outside of P.
AgreeOn(P, X, atX, Y, atY) ==
  /\ P \subseteq Paths /\ X \subseteq Commits /\ Y \subseteq Commits
  /\ \A c \in X : ClosedOn(atX[c], P) /\ atX[c] \subseteq FoldChanges
  /\ \A c \in Y : ClosedOn(atY[c], P) /\ atY[c] \subseteq FoldChanges
  /\ \A c \in X \cap Y : At(atX[c], P) = At(atY[c], P)
  /\ \A c \in X \ Y : At(atX[c], P) = {}
  /\ \A c \in Y \ X : At(atY[c], P) = {}

\* The keys are those of the repository.
KeyedBy(key, X) == \A c \in X : key[c] = Keys[c]

\* Two folds agree on some paths if they agree about the changes to these
\* paths: commits that change none of them may be missing from either.
LEMMA FoldsAgree ==
  ASSUME RepoOK, NEW P, NEW X, NEW atX, NEW Y, NEW atY, AgreeOn(P, X, atX, Y, atY),
         NEW keyX, KeyedBy(keyX, X), NEW keyY, KeyedBy(keyY, Y)
  PROVE  \A p \in P : FoldHistory(X, keyX, atX)[p] = FoldHistory(Y, keyY, atY)[p]
<1>1. /\ Commits \subseteq Nat /\ IsFiniteSet(Commits) /\ X \subseteq Commits /\ Y \subseteq Commits
      /\ \A c \in Commits : Keys[c] \in Nat
  BY GraphFacts, KeysEquation DEF AgreeOn, RepoOK
<1>2. PICK F : IsFold(F, X, keyX, atX) /\ FoldHistory(X, keyX, atX) = F[X]
  <2>1. IsFoldInput(X, keyX, atX)  BY <1>1 DEF AgreeOn, KeyedBy, IsFoldInput
  <2> QED BY ONLY <2>1, FoldUnfolds, RepoOK
<1>3. PICK G : IsFold(G, Y, keyY, atY) /\ FoldHistory(Y, keyY, atY) = G[Y]
  <2>1. IsFoldInput(Y, keyY, atY)  BY <1>1 DEF AgreeOn, KeyedBy, IsFoldInput
  <2> QED BY ONLY <2>1, FoldUnfolds, RepoOK
<1> DEFINE A == X \cup Y
           Same(U) == \A p \in P : F[U \cap X][p] = G[U \cap Y][p]
           Bad == {U \in SUBSET A : ~Same(U)}
<1>4. IsFiniteSet(A) /\ A \subseteq Commits
  BY <1>1, FS_Subset
<1>5. Bad = {}
  <2> SUFFICES ASSUME Bad # {} PROVE FALSE  OBVIOUS
  <2>1. PICK U \in Bad : \A W \in Bad : W \subseteq U => W = U
    <3>1. Bad \subseteq SUBSET A /\ Bad # {} /\ IsFiniteSet(A)  BY <1>4
    <3> HIDE DEF Bad, A
    <3> QED BY ONLY <3>1, SmallestSet
  <2>2. U \subseteq A /\ IsFiniteSet(U) /\ ~Same(U)  BY <2>1, <1>4, FS_Subset
  <2>3. CASE U = {}
    <3>1. F[{}] = [p \in Paths |-> Blank] /\ G[{}] = [p \in Paths |-> Blank]  BY <1>2, <1>3 DEF IsFold
    <3>2. U \cap X = {} /\ U \cap Y = {}  BY <2>3
    <3> QED BY <3>1, <3>2, <2>2
  <2>4. CASE U # {}
    <3>1. PICK l \in U : IsLast(l, U, Keys)
      BY <1>1, <1>4, <2>2, <2>4, LastExists
    <3> DEFINE W == U \ {l}
    <3>2. Same(W)
      <4>1. W \in SUBSET A /\ W \subseteq U /\ W # U  BY <2>2
      <4>2. W \notin Bad  BY <4>1, <2>1
      <4> QED BY <4>1, <4>2
    <3>3. l \in X => F[U \cap X] = Replay(F[W \cap X], l, atX[l])
      <4> SUFFICES ASSUME l \in X PROVE F[U \cap X] = Replay(F[W \cap X], l, atX[l])  OBVIOUS
      <4>1. IsLast(l, U \cap X, keyX)  BY <3>1 DEF IsLast, KeyedBy
      <4>2. (U \cap X) \ {l} = W \cap X /\ U \cap X \in SUBSET X /\ l \in U \cap X  OBVIOUS
      <4> QED BY <4>1, <4>2, <1>2 DEF IsFold
    <3>4. l \in Y => G[U \cap Y] = Replay(G[W \cap Y], l, atY[l])
      <4> SUFFICES ASSUME l \in Y PROVE G[U \cap Y] = Replay(G[W \cap Y], l, atY[l])  OBVIOUS
      <4>1. IsLast(l, U \cap Y, keyY)  BY <3>1 DEF IsLast, KeyedBy
      <4>2. (U \cap Y) \ {l} = W \cap Y /\ U \cap Y \in SUBSET Y /\ l \in U \cap Y  OBVIOUS
      <4> QED BY <4>1, <4>2, <1>3 DEF IsFold
    <3>5. l \notin X => U \cap X = W \cap X  OBVIOUS
    <3>6. l \notin Y => U \cap Y = W \cap Y  OBVIOUS
    <3>7. l \in X \/ l \in Y  BY <2>2
    <3>8. Same(U)
      <4>0. P \subseteq Paths  BY DEF AgreeOn
      <4>1. CASE l \in X /\ l \in Y
        <5>1. ClosedOn(atX[l], P) /\ ClosedOn(atY[l], P) /\ At(atX[l], P) = At(atY[l], P)
          BY <4>1 DEF AgreeOn
        <5> DEFINE f == F[W \cap X]
                   g == G[W \cap Y]
                   one == atX[l]
                   two == atY[l]
        <5>3. \A p \in P : f[p] = g[p]  BY <3>2
        <5>2. \A p \in P : Replay(f, l, one)[p] = Replay(g, l, two)[p]
          <6>1. ClosedOn(one, P) /\ ClosedOn(two, P) /\ At(one, P) = At(two, P)  BY <5>1
          <6> HIDE DEF f, g, one, two
          <6> QED BY ONLY <4>0, <6>1, <5>3, ReplayOnPaths
        <5> HIDE DEF W
        <5> QED BY <5>2, <3>3, <3>4, <4>1
      <4>2. CASE l \in X /\ l \notin Y
        <5>1. ClosedOn(atX[l], P) /\ At(atX[l], P) = {}
          BY <4>2 DEF AgreeOn
        <5>2. \A p \in P : Replay(F[W \cap X], l, atX[l])[p] = F[W \cap X][p]
          BY ONLY <4>0, <5>1, ReplayOffPaths
        <5> HIDE DEF W
        <5> QED BY <5>2, <3>2, <3>3, <3>6, <4>2
      <4>3. CASE l \notin X /\ l \in Y
        <5>1. ClosedOn(atY[l], P) /\ At(atY[l], P) = {}
          BY <4>3 DEF AgreeOn
        <5>2. \A p \in P : Replay(G[W \cap Y], l, atY[l])[p] = G[W \cap Y][p]
          BY ONLY <4>0, <5>1, ReplayOffPaths
        <5> HIDE DEF W
        <5> QED BY <5>2, <3>2, <3>4, <3>5, <4>3
      <4> QED BY <3>7, <4>1, <4>2, <4>3
    <3> QED BY <3>8, <2>2
  <2> QED BY <2>3, <2>4
<1>6. Same(A)
  BY <1>5
<1>7. A \cap X = X /\ A \cap Y = Y
  OBVIOUS
<1> QED BY <1>2, <1>3, <1>6, <1>7

(***************************************************************************)
(* The closure of paths under renames.                                     *)
(***************************************************************************)
GrowLine(grow, n, seeds, links) ==
  IF n = 0 THEN seeds
  ELSE grow[n-1] \cup UNION {l \in links : l \cap grow[n-1] # {}}

LinksOf(store) ==
  UNION {{{ch.path, ch.from} : ch \in {x \in store[i].changes : x.kind = "rename"}} :
           i \in {j \in DOMAIN store : store[j].live}}

\* The closure of paths under renames grows step by step.
LEMMA GrowEquation ==
  ASSUME IsFiniteSet(Paths), NEW seeds, seeds \subseteq Paths, NEW store, UNION LinksOf(store) \subseteq Paths
  PROVE  \E grow \in [0..Cardinality(Paths) -> SUBSET Paths] :
           /\ RenameClosure(seeds, store) = grow[Cardinality(Paths)]
           /\ \A n \in 0..Cardinality(Paths) : grow[n] = GrowLine(grow, n, seeds, LinksOf(store))
<1> DEFINE N == Cardinality(Paths)
           links == LinksOf(store)
           D == 0..N
           V == SUBSET Paths
           Step == [n \in D |-> [f \in [D -> V] |-> GrowLine(f, n, seeds, links)]]
<1>1. N \in Nat
  BY FS_CardinalityType
<1>2. D \subseteq Nat /\ IsFiniteSet(D) /\ V # {}
  <2>1. IsFiniteSet(0..N)  BY <1>1, FS_Interval
  <2> HIDE DEF N
  <2> QED BY <1>1, <2>1
<1>3. ASSUME NEW n \in D, NEW f \in [D -> V] PROVE GrowLine(f, n, seeds, links) \in V
  <2>1. CASE n = 0  BY <2>1 DEF GrowLine
  <2>2. CASE n # 0
    <3>1. n - 1 \in D  BY <1>1, <2>2
    <3>2. f[n-1] \in V  BY <3>1
    <3>3. UNION {l \in links : l \cap f[n-1] # {}} \subseteq Paths  OBVIOUS
    <3> QED BY <2>2, <3>2, <3>3 DEF GrowLine
  <2> QED BY <2>1, <2>2
<1>4. ASSUME NEW n \in D, NEW f, NEW g, \A m \in D : m < n => f[m] = g[m]
      PROVE  GrowLine(f, n, seeds, links) = GrowLine(g, n, seeds, links)
  <2>1. CASE n = 0  BY <2>1 DEF GrowLine
  <2>2. CASE n # 0
    <3>1. n - 1 \in D /\ n - 1 < n  BY <1>1, <2>2
    <3>2. f[n-1] = g[n-1]  BY <3>1, <1>4
    <3> QED BY <2>2, <3>2 DEF GrowLine
  <2> QED BY <2>1, <2>2
<1>5. \A n \in D : \A f \in [D -> V] : Step[n][f] = GrowLine(f, n, seeds, links)
  OBVIOUS
<1>6. IsStepOnNumbers(D, V, Step)
  <2> HIDE DEF Step, D, V, links
  <2>1. \A n \in D : \A f \in [D -> V] : Step[n][f] \in V  BY <1>3, <1>5
  <2>2. ASSUME NEW n \in D, NEW f \in [D -> V], NEW g \in [D -> V],
               \A m \in D : m < n => f[m] = g[m]
        PROVE  Step[n][f] = Step[n][g]
    BY <1>4, <1>5, <2>2
  <2> QED BY <1>2, <2>1, <2>2 DEF IsStepOnNumbers
<1>7. PICK f \in [D -> V] : \A n \in D : f[n] = Step[n][f]
  <2>1. HasSolution(D, V, Step)
    <3> HIDE DEF D, V, Step
    <3> QED BY ONLY <1>6, RecursionOnNumbers
  <2> QED BY <2>1 DEF HasSolution
<1>8. f = [n \in D |-> GrowLine(f, n, seeds, links)]
  <2> HIDE DEF Step, V, D
  <2> QED BY <1>5, <1>7
<1> DEFINE G == CHOOSE g : g = [n \in D |-> GrowLine(g, n, seeds, links)]
<1>9. G = [n \in D |-> GrowLine(G, n, seeds, links)]
  <2> HIDE DEF Step, V, D
  <2> QED BY <1>8
<1>10. RenameClosure(seeds, store) = G[N]
  BY DEF RenameClosure, GrowLine, LinksOf
<1> HIDE DEF G, Step, V
<1>11. \A n \in D : G[n] = f[n]
  <2> DEFINE Bad == {n \in D : G[n] # f[n]}
  <2> SUFFICES ASSUME Bad # {} PROVE FALSE  OBVIOUS
  <2>1. PICK n \in Bad : \A m \in Bad : n <= m  BY <1>2, SmallestNumber
  <2>2. \A m \in D : m < n => G[m] = f[m]
    <3>1. \A m \in D : m < n => m \notin Bad  BY <1>2, <2>1
    <3> QED BY <3>1
  <2>3. GrowLine(G, n, seeds, links) = GrowLine(f, n, seeds, links)  BY <2>2, <1>4
  <2> HIDE DEF D
  <2> QED BY <2>3, <1>8, <1>9
<1>12. G = f
  BY <1>8, <1>9, <1>11
<1>13. \A n \in D : f[n] = GrowLine(f, n, seeds, links)
  BY <1>8
<1> QED BY <1>7, <1>10, <1>12, <1>13 DEF V

\* A link that has an end in P lies in it.
ClosedUnder(P, links) == \A l \in links : l \cap P # {} => l \subseteq P

\* As many steps as there are paths are enough: until the closure is complete
\* it gains a path with every step.
LEMMA ClosureUnderLinks ==
  ASSUME IsFiniteSet(Paths), NEW seeds, seeds \subseteq Paths, NEW store, UNION LinksOf(store) \subseteq Paths
  PROVE  /\ seeds \subseteq RenameClosure(seeds, store)
         /\ RenameClosure(seeds, store) \subseteq Paths
         /\ ClosedUnder(RenameClosure(seeds, store), LinksOf(store))
<1> DEFINE N == Cardinality(Paths)
           links == LinksOf(store)
<1>1. N \in Nat
  BY FS_CardinalityType
<1>2. PICK grow \in [0..N -> SUBSET Paths] :
         /\ RenameClosure(seeds, store) = grow[N]
         /\ \A n \in 0..N : grow[n] = GrowLine(grow, n, seeds, links)
  BY GrowEquation
<1> DEFINE Good(n) == /\ seeds \subseteq grow[n]
                      /\ ClosedUnder(grow[n], links) \/ Cardinality(grow[n]) >= n
           Bad == {n \in 0..N : ~Good(n)}
<1>3. \A n \in 0..N : /\ grow[n] \subseteq Paths /\ IsFiniteSet(grow[n])
                      /\ Cardinality(grow[n]) \in Nat
  BY FS_Subset, FS_CardinalityType
<1>4. Bad = {}
  <2> SUFFICES ASSUME Bad # {} PROVE FALSE  OBVIOUS
  <2>1. PICK n \in Bad : \A m \in Bad : n <= m
    <3>1. Bad \subseteq Nat /\ Bad # {}  BY <1>1
    <3> HIDE DEF Bad
    <3> QED BY ONLY <3>1, SmallestNumber
  <2>2. CASE n = 0
    <3>1. 0 \in 0..N /\ grow[0] = seeds  BY <1>1, <1>2 DEF GrowLine
    <3>2. Cardinality(grow[0]) >= 0  BY <3>1, <1>3
    <3> QED BY <3>1, <3>2, <2>1, <2>2
  <2>3. CASE n # 0
    <3> DEFINE m == n - 1
    <3>1. m \in 0..N /\ n \in 0..N /\ ~(n <= m) /\ n = m + 1 /\ m \in Nat  BY <1>1, <2>1, <2>3
    <3>2. Good(m)  BY <3>1, <2>1
    <3>3. grow[n] = grow[m] \cup UNION {l \in links : l \cap grow[m] # {}}
      BY <3>1, <2>3, <1>2 DEF GrowLine
    <3> HIDE DEF m
    <3>4. CASE ClosedUnder(grow[m], links)
      <4>1. grow[n] = grow[m]  BY <3>3, <3>4 DEF ClosedUnder
      <4> QED BY <4>1, <3>2, <3>4, <2>1
    <3>5. CASE ~ClosedUnder(grow[m], links)
      <4>1. Cardinality(grow[m]) >= m  BY <3>2, <3>5
      <4>2. PICK l \in links : l \cap grow[m] # {} /\ ~(l \subseteq grow[m])  BY <3>5 DEF ClosedUnder
      <4>3. l \subseteq grow[n] /\ grow[m] \subseteq grow[n]  BY <3>3, <4>2
      <4>4. grow[m] # grow[n]  BY <4>2, <4>3
      <4>5. Cardinality(grow[m]) <= Cardinality(grow[n]) /\ Cardinality(grow[n]) # Cardinality(grow[m])
        BY <3>1, <4>3, <4>4, <1>3, FS_Subset
      <4>6. Cardinality(grow[n]) \in Nat /\ Cardinality(grow[m]) \in Nat  BY <3>1, <1>3
      <4>7. Cardinality(grow[n]) >= n  BY <3>1, <4>1, <4>5, <4>6
      <4>8. Good(n)  BY <3>2, <4>3, <4>7
      <4> QED BY <4>8, <2>1
    <3> QED BY <3>4, <3>5
  <2> QED BY <2>2, <2>3
<1>5. Good(N) /\ N \in 0..N
  BY <1>1, <1>4
<1>6. ClosedUnder(grow[N], links)
  <2>1. CASE Cardinality(grow[N]) >= N
    <3>1. Cardinality(grow[N]) <= N  BY <1>3, <1>5, FS_Subset
    <3>2. Cardinality(grow[N]) = N  BY <3>1, <2>1, <1>1, <1>3, <1>5
    <3>3. grow[N] = Paths  BY <3>2, <1>3, <1>5, FS_Subset
    <3> QED BY <3>3 DEF ClosedUnder
  <2> QED BY <2>1, <1>5
<1> QED BY <1>2, <1>3, <1>5, <1>6

\* The closure holds the paths it starts from, and no rename of a live commit
\* crosses its border.
LEMMA ClosureOfRenames ==
  ASSUME IsFiniteSet(Paths), NEW seeds, seeds \subseteq Paths, NEW store,
         \A i \in DOMAIN store : store[i].changes \subseteq FoldChanges
  PROVE  /\ seeds \subseteq RenameClosure(seeds, store)
         /\ RenameClosure(seeds, store) \subseteq Paths
         /\ \A i \in LiveIds(store) : ClosedOn(store[i].changes, RenameClosure(seeds, store))
<1> DEFINE links == LinksOf(store)
           P == RenameClosure(seeds, store)
<1>1. \A i \in LiveIds(store) : \A ch \in store[i].changes :
        ch.kind = "rename" => {ch.path, ch.from} \in links
  BY DEF LinksOf, LiveIds
<1>2. UNION links \subseteq Paths
  BY DEF LinksOf, FoldChanges
<1>3. seeds \subseteq P /\ P \subseteq Paths /\ ClosedUnder(P, links)
  BY <1>2, ClosureUnderLinks
<1> HIDE DEF P, links
<1>4. ASSUME NEW i \in LiveIds(store), NEW ch \in store[i].changes, ch.kind = "rename"
      PROVE  ch.path \in P <=> ch.from \in P
  <2> DEFINE l == {ch.path, ch.from}
  <2>1. l \in links  BY <1>1, <1>4
  <2>2. l \cap P # {} => l \subseteq P  BY <2>1, <1>3 DEF ClosedUnder
  <2> QED BY <2>2
<1> QED BY <1>3, <1>4 DEF ClosedOn, P

\* Max is the element that no other exceeds.
LEMMA MaxIs ==
  ASSUME NEW S, S \subseteq Nat, NEW m \in S, \A x \in S : x <= m
  PROVE  Max(S) = m
<1>1. \A x \in S : m >= x  OBVIOUS
<1>2. Max(S) \in S /\ \A y \in S : Max(S) >= y
  BY <1>1 DEF Max
<1>3. Max(S) >= m /\ Max(S) <= m /\ Max(S) \in Nat /\ m \in Nat
  BY <1>2
<1> QED BY <1>3

Untouched(c, p) == \A ch \in repo.changes[c] : ch.path # p /\ ch.from # p
Quiet(c, p) == ~IsMerge(c) /\ Untouched(c, p)
QuietBetween(a, b, p) == \A c \in (Reach[a] \ Reach[b]) \cup (Reach[b] \ Reach[a]) : Quiet(c, p)

\* A path that a commit does not touch is in its tree what it is in its parent.
LEMMA UntouchedInTree ==
  ASSUME RepoOK, NEW c \in Commits, NEW p \in Paths, Untouched(c, p)
  PROVE  /\ repo.parents[c] = {} => Tree[c][p] = Absent
         /\ \A q : repo.parents[c] = {q} => Tree[c][p] = Tree[q][p]
         /\ (\A q \in repo.parents[c] : Tree[q][p] = Absent) => Tree[c][p] = Absent
<1> DEFINE S == {Absent} \cup {Tree[q][p] : q \in repo.parents[c]}
<1>1. Tree[c][p] = Max(S)
  BY DEF RepoOK, TreeLine, Untouched
<1>2. \A q \in repo.parents[c] : Tree[q][p] \in {Absent} \cup Commits
  BY GraphFacts DEF RepoOK
<1>3. S \subseteq Nat
  BY <1>2, GraphFacts DEF Absent
<1>4. (\A q \in repo.parents[c] : Tree[q][p] = Absent) => Tree[c][p] = Absent
  <2> SUFFICES ASSUME \A q \in repo.parents[c] : Tree[q][p] = Absent PROVE Tree[c][p] = Absent
    OBVIOUS
  <2>1. S = {Absent}  OBVIOUS
  <2>2. Max({Absent}) = Absent  BY MaxIs DEF Absent
  <2> HIDE DEF S
  <2> QED BY <2>1, <2>2, <1>1
<1>5. \A q : repo.parents[c] = {q} => Tree[c][p] = Tree[q][p]
  <2> SUFFICES ASSUME NEW q, repo.parents[c] = {q} PROVE Tree[c][p] = Tree[q][p]
    OBVIOUS
  <2>1. Tree[q][p] \in S  OBVIOUS
  <2>2. \A x \in S : x = Absent \/ x = Tree[q][p]  OBVIOUS
  <2> HIDE DEF S
  <2>5. Tree[q][p] \in Nat /\ Absent = 0  BY <2>1, <1>3 DEF Absent
  <2>6. Absent <= Tree[q][p] /\ Tree[q][p] <= Tree[q][p]  BY ONLY <2>5
  <2>3. \A x \in S : x <= Tree[q][p]  BY ONLY <2>2, <2>6
  <2>4. Max(S) = Tree[q][p]  BY <2>1, <2>3, <1>3, MaxIs
  <2> QED BY <2>4, <1>1
<1> QED BY <1>4, <1>5

\* A path that no commit touched is not there.
LEMMA QuietHistory ==
  ASSUME RepoOK, NEW a \in Commits, NEW p \in Paths, \A c \in Reach[a] : Untouched(c, p)
  PROVE  Tree[a][p] = Absent
<1> DEFINE Bad == {c \in Reach[a] : Tree[c][p] # Absent}
<1>1. Commits \subseteq Nat /\ \A c \in Commits : repo.parents[c] \subseteq Commits /\ \A q \in repo.parents[c] : q < c
  BY GraphFacts
<1>2. Bad = {}
  <2> SUFFICES ASSUME Bad # {} PROVE FALSE  OBVIOUS
  <2>0. Bad \subseteq Nat  BY <1>1, ReachIsOrder
  <2>1. PICK c \in Bad : \A d \in Bad : c <= d
    <3> HIDE DEF Bad
    <3> QED BY <2>0, SmallestNumber
  <2>2. c \in Commits /\ c \in Reach[a] /\ Reach[c] \subseteq Reach[a]  BY <2>1, ReachIsOrder
  <2>3. \A q \in repo.parents[c] : q \in Reach[a] /\ ~(c <= q)
    <3>1. repo.parents[c] \subseteq Reach[c]  BY <2>2, ReachIsOrder
    <3>2. \A q \in repo.parents[c] : q < c /\ q \in Nat /\ c \in Nat  BY <1>1, <2>2
    <3> QED BY <3>1, <3>2, <2>2
  <2>4. \A q \in repo.parents[c] : Tree[q][p] = Absent  BY <2>1, <2>3
  <2>5. Tree[c][p] = Absent  BY <2>2, <2>4, UntouchedInTree
  <2> QED BY <2>5, <2>1
<1> QED BY <1>2, ReachIsOrder

\* One step back from a, which b does not reach.
LEMMA QuietStep ==
  ASSUME RepoOK, NEW a \in Commits, NEW b \in Commits, NEW p \in Paths,
         QuietBetween(a, b, p), a \notin Reach[b],
         \A q \in Commits : q < a /\ QuietBetween(q, b, p) => Tree[q][p] = Tree[b][p]
  PROVE  Tree[a][p] = Tree[b][p]
<1>1. a \in Reach[a] /\ Quiet(a, p)
  BY ReachIsOrder DEF QuietBetween
<1>2. repo.parents[a] \subseteq Commits /\ IsFiniteSet(repo.parents[a])
  BY GraphFacts, FS_Subset
<1>3. Cardinality(repo.parents[a]) \in Nat /\ ~(Cardinality(repo.parents[a]) > 1)
  BY <1>1, <1>2, FS_CardinalityType DEF Quiet, IsMerge
<1>4. Reach[a] = {a} \cup UNION {Reach[q] : q \in repo.parents[a]}
  BY DEF RepoOK
<1>5. CASE repo.parents[a] = {}
  <2>1. Tree[a][p] = Absent  BY <1>1, <1>5, UntouchedInTree DEF Quiet
  <2>2. Reach[a] = {a}  BY <1>4, <1>5
  <2>3. \A c \in Reach[b] : Untouched(c, p)  BY <2>2 DEF QuietBetween, Quiet
  <2>4. Tree[b][p] = Absent  BY <2>3, QuietHistory
  <2> QED BY <2>1, <2>4
<1>6. CASE repo.parents[a] # {}
  <2>1. Cardinality(repo.parents[a]) = 1  BY <1>2, <1>3, <1>6, FS_EmptySet
  <2>2. PICK q : repo.parents[a] = {q}  BY <1>2, <2>1, FS_Singleton
  <2>3. q \in Commits /\ q < a  BY <2>2, GraphFacts
  <2>4. Reach[a] = {a} \cup Reach[q]  BY <1>4, <2>2
  <2>5. QuietBetween(q, b, p)  BY <2>4 DEF QuietBetween
  <2>6. Tree[a][p] = Tree[q][p]  BY <1>1, <2>2, UntouchedInTree DEF Quiet
  <2> QED BY <2>3, <2>5, <2>6
<1> QED BY <1>5, <1>6

\* If nothing between two commits touches a path or merges, they agree about it.
LEMMA QuietBetweenTrees ==
  ASSUME RepoOK, NEW p \in Paths
  PROVE  \A a, b \in Commits : QuietBetween(a, b, p) => Tree[a][p] = Tree[b][p]
<1> DEFINE Off(n) == \E a, b \in Commits : a + b = n /\ QuietBetween(a, b, p) /\ Tree[a][p] # Tree[b][p]
           Bad == {n \in Nat : Off(n)}
<1>1. Commits \subseteq Nat
  BY GraphFacts
<1>2. \A a, b : QuietBetween(a, b, p) => QuietBetween(b, a, p)
  BY DEF QuietBetween
<1>3. Bad = {}
  <2> SUFFICES ASSUME Bad # {} PROVE FALSE  OBVIOUS
  <2>1. PICK n \in Bad : \A m \in Bad : n <= m
    <3>1. Bad \subseteq Nat  OBVIOUS
    <3> HIDE DEF Bad
    <3> QED BY <3>1, SmallestNumber
  <2>2. PICK a \in Commits, b \in Commits : a + b = n /\ QuietBetween(a, b, p) /\ Tree[a][p] # Tree[b][p]
    BY <2>1
  <2>3. \A c, d \in Commits : c + d < n /\ QuietBetween(c, d, p) => Tree[c][p] = Tree[d][p]
    <3> SUFFICES ASSUME NEW c \in Commits, NEW d \in Commits, c + d < n, QuietBetween(c, d, p),
                        Tree[c][p] # Tree[d][p]
                 PROVE FALSE
      OBVIOUS
    <3>1. c + d \in Nat /\ n \in Nat  BY <1>1
    <3>2. c + d \in Bad  BY <3>1
    <3> QED BY <3>1, <3>2, <2>1
  <2>4. a \in Nat /\ b \in Nat  BY <1>1
  <2>5. \A q \in Commits : q < a /\ QuietBetween(q, b, p) => Tree[q][p] = Tree[b][p]
    <3>1. \A q \in Commits : q < a => q + b < n  BY <1>1, <2>2, <2>4
    <3> QED BY <3>1, <2>3
  <2>6. \A q \in Commits : q < b /\ QuietBetween(q, a, p) => Tree[q][p] = Tree[a][p]
    <3>1. \A q \in Commits : q < b => q + a < n  BY <1>1, <2>2, <2>4
    <3> QED BY <3>1, <2>3
  <2> HIDE DEF Bad
  <2>7. CASE a \notin Reach[b]  BY <2>7, <2>2, <2>5, QuietStep
  <2>8. CASE b \notin Reach[a]  BY <2>8, <2>2, <2>6, <1>2, QuietStep
  <2>9. CASE a \in Reach[b] /\ b \in Reach[a]
    <3>1. a <= b /\ b <= a  BY <2>9, ReachIsOrder
    <3> QED BY <3>1, <2>2, <2>4
  <2> QED BY <2>7, <2>8, <2>9
<1>4. ASSUME NEW a \in Commits, NEW b \in Commits, QuietBetween(a, b, p), Tree[a][p] # Tree[b][p]
      PROVE  FALSE
  <2>1. a + b \in Nat  BY <1>1
  <2>2. a + b \in Bad  BY <2>1, <1>4
  <2> QED BY <2>2, <1>3
<1> QED BY <1>4

(***************************************************************************)
(* What Git lists for a commit.                                            *)
(***************************************************************************)
\* What Git lists for a commit and a scope lies in the scope; a commit that
\* is no merge and lists nothing at a path leaves it alone.
LEMMA NumstatFacts ==
  ASSUME RepoOK, NEW c \in Commits, NEW s, s \subseteq Paths
  PROVE  /\ NumstatIn(c, s) \subseteq FoldChanges
         /\ \A ch \in NumstatIn(c, s) : ch.path \in s /\ ch.from \in s
         /\ IsMerge(c) => NumstatIn(c, s) = {}
         /\ \A p \in s : ~IsMerge(c) /\ (\A ch \in NumstatIn(c, s) : ch.path # p /\ ch.from # p) => Quiet(c, p)
<1> DEFINE Seen(ch) ==
        IF ch.kind = "rename" /\ ch.path \in s /\ ch.from \in s
        THEN {ch}
        ELSE {[kind |-> "touch", path |-> p, from |-> p] :
                p \in s \cap (IF ch.kind = "rename" THEN {ch.path, ch.from} ELSE {ch.path})}
<1>1. NumstatIn(c, s) = IF IsMerge(c) THEN {} ELSE UNION {Seen(ch) : ch \in repo.changes[c]}
  BY DEF NumstatIn
<1>2. \A ch \in repo.changes[c] : ch \in Changes /\ (ch.kind # "rename" => ch.from = ch.path)
  BY DEF RepoOK, IsGraph, Commits
<1>3. ASSUME NEW ch \in repo.changes[c], NEW x \in Seen(ch)
      PROVE  x \in FoldChanges /\ x.path \in s /\ x.from \in s
  <2>1. CASE ch.kind = "rename" /\ ch.path \in s /\ ch.from \in s
    BY <2>1, <1>2, <1>3 DEF Changes, FoldChanges
  <2>2. CASE ~(ch.kind = "rename" /\ ch.path \in s /\ ch.from \in s)
    <3>1. PICK p \in s : x = [kind |-> "touch", path |-> p, from |-> p]  BY <2>2, <1>3
    <3> QED BY <3>1 DEF FoldChanges
  <2> QED BY <2>1, <2>2
<1>4. ASSUME NEW p \in s, NEW ch \in repo.changes[c], ch.path = p \/ ch.from = p
      PROVE  \E x \in Seen(ch) : x.path = p \/ x.from = p
  <2>1. CASE ch.kind = "rename" /\ ch.path \in s /\ ch.from \in s
    BY <2>1, <1>4
  <2>2. CASE ~(ch.kind = "rename" /\ ch.path \in s /\ ch.from \in s)
    <3> DEFINE x == [kind |-> "touch", path |-> p, from |-> p]
    <3>1. p \in IF ch.kind = "rename" THEN {ch.path, ch.from} ELSE {ch.path}
      BY <1>2, <1>4
    <3>2. x \in Seen(ch)  BY <2>2, <3>1
    <3>3. x.path = p  OBVIOUS
    <3> QED BY <3>2, <3>3
  <2> QED BY <2>1, <2>2
<1> HIDE DEF Seen
<1> QED BY <1>1, <1>3, <1>4 DEF Quiet, Untouched

\* A log of some commits is what the log of all says of them, and what is not
\* logged lists no change.
LEMMA LoggedFacts ==
  ASSUME RepoOK, NEW s, s \subseteq Paths, NEW S, S \subseteq Commits
  PROVE  /\ LoggedIn(S, s) = S \cap LoggedIn(Commits, s)
         /\ \A c \in S : c \notin LoggedIn(S, s) => NumstatIn(c, s) = {}
BY NumstatFacts DEF LoggedIn

(***************************************************************************)
(* The fold of whole commits.                                              *)
(***************************************************************************)
FullFold(X, s) == FoldHistory(X, [c \in X |-> Keys[c]], [c \in X |-> NumstatIn(c, s)])

\* A collection from scratch orders commits by the keys of the repository.
LEMMA FullKeysAre ==
  ASSUME RepoOK, NEW c \in Commits
  PROVE  OrderKeys(Reach[c], <<>>) = [d \in Reach[c] |-> Keys[d]]
<1> DEFINE known == <<>>
           pending == Reach[c]
<1>1. IsGraph(repo)  BY DEF RepoOK
<1>2. /\ pending \subseteq Commits
      /\ \A d \in pending : repo.parents[d] \subseteq pending \cup DOMAIN known
      /\ \A q \in DOMAIN known : known[q] = Keys[q]
  <2>1. Reach[c] \subseteq Commits /\ \A d \in Reach[c] : repo.parents[d] \subseteq Reach[c]
    BY ReachIsOrder
  <2>2. DOMAIN <<>> = {}  OBVIOUS
  <2> QED BY <2>1, <2>2
<1>3. OrderKeys(pending, known) = [d \in pending |-> Keys[d]]
  <2> HIDE DEF known, pending
  <2> QED BY ONLY <1>1, <1>2, KeysOfPart
<1> QED BY <1>3

\* What a collection from scratch finds, by the fold of whole commits.
LEMMA FullCollectionIs ==
  ASSUME RepoOK, NEW c \in Commits, NEW s
  PROVE  FullCollection(s, c) =
           [rows |-> RowsOf(FullFold(Reach[c], s), Tree[c]),
            commits |-> Cardinality(LoggedIn(Reach[c], s)),
            paths |-> Cardinality(Dirty(FullFold(Reach[c], s)))]
<1>1. FullKeys(c) = [d \in Reach[c] |-> Keys[d]]
  BY FullKeysAre DEF FullKeys
<1> QED BY <1>1 DEF FullCollection, FullFold

\* Without commits no path has a history.
LEMMA EmptyFold ==
  ASSUME RepoOK, NEW key, NEW changes
  PROVE  FoldHistory({}, key, changes) = [p \in Paths |-> Blank]
<1>1. IsFoldInput({}, key, changes)
  BY DEF IsFoldInput
<1>2. PICK F : IsFold(F, {}, key, changes) /\ FoldHistory({}, key, changes) = F[{}]
  BY <1>1, FoldUnfolds
<1> QED BY <1>2 DEF IsFold

\* Nor has a path that no commit changes.
LEMMA BlankFold ==
  ASSUME RepoOK, NEW P, P \subseteq Paths, NEW X, X \subseteq Commits, NEW at, NEW key, KeyedBy(key, X),
         \A c \in X : /\ ClosedOn(at[c], P) /\ at[c] \subseteq FoldChanges /\ At(at[c], P) = {}
  PROVE  \A p \in P : FoldHistory(X, key, at)[p] = Blank
<1> DEFINE Y == {}
           none == [c \in Y |-> {}]
<1>1. AgreeOn(P, X, at, Y, none)
  BY DEF AgreeOn
<1>2. KeyedBy(none, Y)
  BY DEF KeyedBy
<1>3. \A p \in P : FoldHistory(X, key, at)[p] = FoldHistory(Y, none, none)[p]
  <2> HIDE DEF Y, none
  <2> QED BY <1>1, <1>2, FoldsAgree
<1>4. FoldHistory(Y, none, none) = [p \in Paths |-> Blank]
  BY EmptyFold
<1> HIDE DEF Y, none
<1> QED BY <1>3, <1>4

\* A path outside of the scope has no history.
LEMMA FullFoldOffScope ==
  ASSUME RepoOK, NEW s, s \subseteq Paths, NEW X, X \subseteq Commits
  PROVE  \A p \in Paths \ s : FullFold(X, s)[p] = Blank
<1> DEFINE P == Paths \ s
           at == [c \in X |-> NumstatIn(c, s)]
           key == [c \in X |-> Keys[c]]
<1>1. KeyedBy(key, X)
  BY DEF KeyedBy
<1>2. ASSUME NEW c \in X PROVE ClosedOn(at[c], P) /\ at[c] \subseteq FoldChanges /\ At(at[c], P) = {}
  BY NumstatFacts DEF ClosedOn, At
<1>3. P \subseteq Paths
  OBVIOUS
<1>4. \A p \in P : FoldHistory(X, key, at)[p] = Blank
  <2> HIDE DEF P, at, key
  <2> QED BY <1>1, <1>2, <1>3, BlankFold
<1> QED BY <1>4 DEF FullFold

\* Commits that change none of some paths, which no rename leaves or enters,
\* may be added to a fold or left out of it.
LEMMA FullFoldsAgree ==
  ASSUME RepoOK, NEW s, s \subseteq Paths, NEW P, P \subseteq Paths,
         NEW X, X \subseteq Commits, NEW Y, Y \subseteq Commits,
         \A c \in X \cup Y : ClosedOn(NumstatIn(c, s), P),
         \A c \in (X \ Y) \cup (Y \ X) : At(NumstatIn(c, s), P) = {}
  PROVE  \A p \in P : FullFold(X, s)[p] = FullFold(Y, s)[p]
<1> DEFINE atX == [c \in X |-> NumstatIn(c, s)]
           keyX == [c \in X |-> Keys[c]]
           atY == [c \in Y |-> NumstatIn(c, s)]
           keyY == [c \in Y |-> Keys[c]]
<1>1. KeyedBy(keyX, X) /\ KeyedBy(keyY, Y)
  BY DEF KeyedBy
<1>2. AgreeOn(P, X, atX, Y, atY)
  BY NumstatFacts DEF AgreeOn
<1>3. \A p \in P : FoldHistory(X, keyX, atX)[p] = FoldHistory(Y, keyY, atY)[p]
  <2> HIDE DEF atX, keyX, atY, keyY
  <2> QED BY ONLY RepoOK, <1>1, <1>2, FoldsAgree
<1> QED BY <1>3 DEF FullFold

(***************************************************************************)
(* The store.                                                              *)
(***************************************************************************)
\* The commits of a store.
Shas(store) == {store[i].sha : i \in DOMAIN store}

StoreRows ==
  [sha : Commits, key : Nat, live : BOOLEAN, authored : BOOLEAN, changes : SUBSET FoldChanges]

\* A row says of its commit what the repository does.
IsRow(row, s) ==
  /\ row \in StoreRows
  /\ row.key = Keys[row.sha]
  /\ row.authored <=> row.sha \in LoggedIn(Commits, s)
  /\ row.changes = NumstatIn(row.sha, s)

\* Rows for the commits of a scope, whichever of them are live.
IsStore(store, s) ==
  /\ DOMAIN store \subseteq Nat \ {0} /\ IsFiniteSet(DOMAIN store)
  /\ \A i \in DOMAIN store : IsRow(store[i], s)
  /\ \A i, j \in DOMAIN store : store[i].sha = store[j].sha => i = j

\* The store of a collection at commit c.
StoreAt(store, s, c) ==
  /\ IsStore(store, s)
  /\ \A i \in DOMAIN store : store[i].live <=> store[i].sha \in Reach[c]
  /\ \A i \in DOMAIN store : Reach[store[i].sha] \subseteq Shas(store)
  /\ Reach[c] \subseteq Shas(store)

\* The commits of some rows.
ShasOf(store, ids) == {store[i].sha : i \in ids}

\* The fold of stored rows on paths whose borders no rename crosses is that of
\* the commits, and other paths stay blank in it.
LEMMA FoldRowsAre ==
  ASSUME RepoOK, NEW s, s \subseteq Paths, NEW store, IsStore(store, s),
         NEW ids, ids \subseteq DOMAIN store, NEW P, P \subseteq Paths,
         \A c \in ShasOf(store, ids) : ClosedOn(NumstatIn(c, s), P)
  PROVE  /\ \A p \in P : FoldRows(store, ids, P)[p] = FullFold(ShasOf(store, ids), s)[p]
         /\ \A p \in Paths \ P : FoldRows(store, ids, P)[p] = Blank
<1> DEFINE X == ShasOf(store, ids)
           row == [c \in X |-> store[CHOOSE i \in ids : store[i].sha = c]]
           key == [c \in X |-> row[c].key]
           at == [c \in X |-> {ch \in row[c].changes : ch.path \in P}]
           whole == [c \in X |-> NumstatIn(c, s)]
           keys == [c \in X |-> Keys[c]]
           Q == Paths \ P
<1>1. FoldRows(store, ids, P) = FoldHistory(X, key, at)
  BY DEF FoldRows, ShasOf
<1>2. ASSUME NEW c \in X
      PROVE  row[c].key = Keys[c] /\ row[c].changes = NumstatIn(c, s) /\ c \in Commits
  <2> DEFINE i == CHOOSE x \in ids : store[x].sha = c
  <2>1. i \in ids /\ store[i].sha = c  BY DEF ShasOf
  <2>2. row[c] = store[i]  OBVIOUS
  <2> HIDE DEF i, row
  <2> QED BY <2>1, <2>2 DEF IsStore, IsRow, StoreRows
<1> HIDE DEF row
<1>3. KeyedBy(key, X) /\ KeyedBy(keys, X) /\ X \subseteq Commits
  BY <1>2 DEF KeyedBy
<1>4. \A c \in X : at[c] = At(NumstatIn(c, s), P) /\ ClosedOn(NumstatIn(c, s), P)
  BY <1>2 DEF At
<1>5. AgreeOn(P, X, at, X, whole)
  <2> HIDE DEF at
  <2> QED BY <1>3, <1>4, NumstatFacts DEF AgreeOn, ClosedOn, At
<1>6. \A p \in P : FoldHistory(X, key, at)[p] = FoldHistory(X, keys, whole)[p]
  <2> HIDE DEF X, key, at, keys, whole
  <2> QED BY <1>3, <1>5, FoldsAgree
<1>7. \A c \in X : ClosedOn(at[c], Q) /\ at[c] \subseteq FoldChanges /\ At(at[c], Q) = {}
  <2> HIDE DEF at
  <2> QED BY <1>3, <1>4, NumstatFacts DEF ClosedOn, At
<1>8. \A p \in Q : FoldHistory(X, key, at)[p] = Blank
  <2>1. Q \subseteq Paths  OBVIOUS
  <2> HIDE DEF X, key, at, Q
  <2> QED BY <1>3, <1>7, <2>1, BlankFold
<1> QED BY <1>1, <1>6, <1>8 DEF FullFold

\* The live commits that are counted are those that Git logs.
LEMMA CountLiveIs ==
  ASSUME RepoOK, NEW s, s \subseteq Paths, NEW c \in Commits, NEW store, StoreAt(store, s, c)
  PROVE  CountLive(store) = Cardinality(LoggedIn(Reach[c], s))
<1> DEFINE A == {i \in DOMAIN store : store[i].live /\ store[i].authored}
           B == LoggedIn(Reach[c], s)
           f == [i \in A |-> store[i].sha]
<1>1. Reach[c] \subseteq Commits
  BY ReachIsOrder
<1>2. IsFiniteSet(A)
  BY FS_Subset DEF StoreAt, IsStore
<1>3. B = Reach[c] \cap LoggedIn(Commits, s)
  BY <1>1, LoggedFacts
<1>4. \A i \in A : store[i].sha \in B
  BY <1>3 DEF StoreAt, IsStore, IsRow, StoreRows
<1>5. \A d \in B : \E i \in A : store[i].sha = d
  BY <1>3 DEF StoreAt, IsStore, IsRow, StoreRows, Shas
<1>6. \A i, j \in A : store[i].sha = store[j].sha => i = j
  BY DEF StoreAt, IsStore
<1>7. f \in Bijection(A, B)
  <2> HIDE DEF A, B
  <2> QED BY <1>4, <1>5, <1>6 DEF Bijection, Injection, Surjection, IsInjective
<1>8. ExistsBijection(A, B)
  <2> HIDE DEF A, B, f
  <2> QED BY <1>7 DEF ExistsBijection
<1>9. Cardinality(A) = Cardinality(B)
  <2> HIDE DEF A, B
  <2> QED BY <1>2, <1>8, FS_Bijection
<1> QED BY <1>9 DEF CountLive

\* A store without its dead rows is still that of its commit.
LEMMA PruneKeeps ==
  ASSUME RepoOK, NEW s, NEW c \in Commits, NEW store, StoreAt(store, s, c)
  PROVE  StoreAt(Prune(store), s, c)
<1> DEFINE kept == Restrict(store, LiveIds(store))
<1>1. DOMAIN kept = LiveIds(store) /\ LiveIds(store) \subseteq DOMAIN store
      /\ \A i \in LiveIds(store) : kept[i] = store[i]
  BY DEF Restrict, LiveIds
<1>2. \A i \in LiveIds(store) : store[i].live
  BY DEF LiveIds
<1>3. \A d \in Reach[c] : \E i \in LiveIds(store) : store[i].sha = d
  BY DEF StoreAt, Shas, LiveIds
<1> HIDE DEF kept
<1>4. IsStore(kept, s)
  BY <1>1, FS_Subset DEF StoreAt, IsStore
<1>5. Reach[c] \subseteq Shas(kept)
  BY <1>1, <1>3 DEF Shas
<1>6. \A i \in DOMAIN kept : kept[i].live /\ kept[i].sha \in Reach[c]
  BY <1>1, <1>2 DEF StoreAt
<1>7. \A i \in DOMAIN kept : Reach[kept[i].sha] \subseteq Shas(kept)
  BY <1>5, <1>6, ReachIsOrder
<1>8. StoreAt(kept, s, c)
  BY <1>4, <1>5, <1>6, <1>7 DEF StoreAt
<1> QED BY <1>8 DEF Prune, kept

(***************************************************************************)
(* New rows.                                                               *)
(***************************************************************************)

\* Counting what is not smaller tells numbers apart.
LEMMA UpCount ==
  ASSUME NEW new, new \subseteq Nat, IsFiniteSet(new), NEW c \in new, NEW d \in new
  PROVE  /\ Cardinality({e \in new : e >= c}) \in Nat \ {0}
         /\ Cardinality({e \in new : e >= c}) = Cardinality({e \in new : e >= d}) => c = d
<1> DEFINE Up(x) == {e \in new : e >= x}
<1>1. \A x \in new : x \in Up(x) /\ IsFiniteSet(Up(x)) /\ Cardinality(Up(x)) \in Nat
  BY FS_Subset, FS_CardinalityType
<1>2. \A x \in new : Cardinality(Up(x)) # 0
  <2> HIDE DEF Up
  <2> QED BY <1>1, FS_EmptySet
<1>3. \A x, y \in new : x < y => Up(y) \subseteq Up(x) /\ Up(y) # Up(x)
  <2> TAKE x \in new, y \in new
  <2> HAVE x < y
  <2>1. x \notin Up(y) /\ x \in Up(x)  OBVIOUS
  <2>2. Up(y) \subseteq Up(x)
    <3>1. \A e \in new : e \in Nat /\ (e >= y => e >= x)  OBVIOUS
    <3> QED BY <3>1
  <2> QED BY <2>1, <2>2
<1>4. \A x, y \in new : x < y => Cardinality(Up(x)) # Cardinality(Up(y))
  <2> HIDE DEF Up
  <2> QED BY <1>1, <1>3, FS_Subset
<1>5. c < d \/ d < c \/ c = d
  OBVIOUS
<1> HIDE DEF Up
<1>6. Cardinality(Up(c)) = Cardinality(Up(d)) => c = d
  BY <1>4, <1>5
<1> QED BY <1>1, <1>2, <1>6 DEF Up

\* New rows get new ids, one for every commit that is added.
LEMMA NewRows ==
  ASSUME NEW store, DOMAIN store \subseteq Nat \ {0}, IsFiniteSet(DOMAIN store),
         NEW keys, DOMAIN keys \subseteq Nat, IsFiniteSet(DOMAIN keys), NEW read
  PROVE  LET w == WithCommits(store, keys, read)
             fresh == DOMAIN w \ DOMAIN store
             Row(c) == [sha |-> c, key |-> keys[c], live |-> TRUE, authored |-> c \in read,
                        changes |-> IF c \in read THEN Numstat(c) ELSE {}]
         IN  /\ DOMAIN store \subseteq DOMAIN w
             /\ DOMAIN w \subseteq Nat \ {0} /\ IsFiniteSet(DOMAIN w)
             /\ \A i \in DOMAIN store : w[i] = store[i]
             /\ \A i \in fresh : \E c \in DOMAIN keys : w[i] = Row(c)
             /\ \A c \in DOMAIN keys : \E i \in fresh : w[i] = Row(c)
             /\ \A i, j \in fresh : w[i].sha = w[j].sha => i = j
<1> DEFINE w == WithCommits(store, keys, read)
           fresh == DOMAIN w \ DOMAIN store
           Row(c) == [sha |-> c, key |-> keys[c], live |-> TRUE, authored |-> c \in read,
                        changes |-> IF c \in read THEN Numstat(c) ELSE {}]
           top   == IF DOMAIN store = {} THEN 0 ELSE Max(DOMAIN store)
           new   == DOMAIN keys
           Id(c) == top + Cardinality({d \in new : d >= c})
           ids   == {Id(c) : c \in new}
           row   == [i \in ids |-> CHOOSE c \in new : Id(c) = i]
<1>1. top \in Nat /\ \A i \in DOMAIN store : i <= top
  <2>1. CASE DOMAIN store = {}  BY <2>1
  <2>2. CASE DOMAIN store # {}
    <3>1. Max(DOMAIN store) \in DOMAIN store /\ \A i \in DOMAIN store : i <= Max(DOMAIN store)
      BY <2>2, LargestNumber
    <3> QED BY <2>2, <3>1
  <2> QED BY <2>1, <2>2
<1> HIDE DEF top
<1>2. \A c, d \in new : /\ Id(c) \in Nat /\ Id(c) > top
                        /\ Id(c) = Id(d) => c = d
  <2> TAKE c \in new, d \in new
  <2> DEFINE m == Cardinality({e \in new : e >= c})
             n == Cardinality({e \in new : e >= d})
  <2>1. m \in Nat \ {0} /\ n \in Nat \ {0} /\ (m = n => c = d)  BY UpCount
  <2>2. Id(c) = top + m /\ Id(d) = top + n  OBVIOUS
  <2> HIDE DEF m, n, Id
  <2> QED BY <1>1, <2>1, <2>2
<1>3. DOMAIN w = DOMAIN store \cup ids
      /\ \A i \in DOMAIN w : w[i] = IF i \in DOMAIN store THEN store[i] ELSE Row(row[i])
  BY DEF WithCommits, top
<1> HIDE DEF w, Id, Row
<1>4. \A i \in ids : i \in Nat /\ i > top
  BY <1>2
<1>5. ids \cap DOMAIN store = {}
  <2> SUFFICES ASSUME NEW i \in ids, i \in DOMAIN store PROVE FALSE  OBVIOUS
  <2> HIDE DEF ids
  <2>1. i \in Nat /\ i > top /\ i <= top  BY <1>1, <1>4
  <2> QED BY <2>1, <1>1
<1>6. \A c \in new : row[Id(c)] = c
  <2> TAKE c \in new
  <2>1. \E d \in new : Id(d) = Id(c)  OBVIOUS
  <2>2. row[Id(c)] \in new /\ Id(row[Id(c)]) = Id(c)  BY <2>1
  <2> QED BY <2>2, <1>2
<1>7. IsFiniteSet(ids)
  <2> DEFINE g == [c \in new |-> Id(c)]
  <2>1. IsFiniteSet({g[c] : c \in new})  BY ImageFinite
  <2>2. {g[c] : c \in new} = ids  OBVIOUS
  <2> QED BY <2>1, <2>2
<1>8. fresh = ids
  <2> HIDE DEF ids
  <2> QED BY <1>3, <1>5
<1>9. \A i \in ids : \E c \in new : i = Id(c) /\ w[i] = Row(c)
  <2> TAKE i \in ids
  <2>1. PICK c \in new : i = Id(c)  OBVIOUS
  <2>2. i \notin DOMAIN store /\ i \in DOMAIN w
    <3> HIDE DEF ids
    <3> QED BY <1>3, <1>5
  <2>3. row[i] = c  BY <1>6, <2>1
  <2> HIDE DEF row, ids
  <2> QED BY <2>1, <2>2, <2>3, <1>3
<1>10. \A c \in new : Id(c) \in ids /\ w[Id(c)] = Row(c)
  <2> TAKE c \in new
  <2>1. Id(c) \in ids  OBVIOUS
  <2>2. PICK d \in new : Id(c) = Id(d) /\ w[Id(c)] = Row(d)  BY <2>1, <1>9
  <2> QED BY <2>1, <2>2, <1>2
<1>11. \A c : Row(c).sha = c
  BY DEF Row
<1>12. \A i, j \in ids : w[i].sha = w[j].sha => i = j
  <2> HIDE DEF ids
  <2> QED BY <1>9, <1>11
<1>13. DOMAIN w \subseteq Nat \ {0}
  <2> HIDE DEF ids
  <2> QED BY <1>1, <1>3, <1>4
<1>14. IsFiniteSet(DOMAIN w)
  <2> HIDE DEF ids
  <2>1. IsFiniteSet(DOMAIN store \cup ids)  BY ONLY <1>7, IsFiniteSet(DOMAIN store), FS_Union
  <2>2. DOMAIN w = DOMAIN store \cup ids  BY <1>3
  <2> QED BY ONLY <2>1, <2>2
<1>15. \A i \in DOMAIN store : w[i] = store[i]
  <2> HIDE DEF ids, row
  <2> QED BY <1>3
<1> HIDE DEF ids, fresh
<1> QED BY <1>3, <1>8, <1>9, <1>10, <1>12, <1>13, <1>14, <1>15 DEF w, fresh, Row

(***************************************************************************)
(* Applying a plan to collect from scratch.                                *)
(***************************************************************************)
\* A plan to collect from scratch.
IsFullPlan(p) ==
  /\ p.full /\ p.head = head
  /\ p.keys = [c \in Reach[head] |-> Keys[c]]
  /\ p.read = LoggedIn(Reach[head], scope)
  /\ p.restored = {} /\ p.dropped = {} /\ p.moved = {}

\* What is derived from the store is what a collection from scratch finds.
Collected(d, s, c) == [rows |-> d.rows, commits |-> d.commits, paths |-> d.paths] = FullCollection(s, c)

\* What the new rows of a plan are.
LEMMA NewRowIsRow ==
  ASSUME RepoOK, scope \subseteq Paths, NEW S, S \subseteq Commits, NEW c \in S, NEW keys, keys[c] = Keys[c],
         NEW read, read \cap S = LoggedIn(S, scope), NEW row,
         row = [sha |-> c, key |-> keys[c], live |-> TRUE, authored |-> c \in read,
                changes |-> IF c \in read THEN Numstat(c) ELSE {}]
  PROVE  IsRow(row, scope) /\ row.sha = c /\ row.live
<1>1. c \in Commits /\ Keys[c] \in Nat
  BY KeysEquation DEF RepoOK
<1>2. c \in read <=> c \in LoggedIn(Commits, scope)
  BY LoggedFacts
<1>3. Numstat(c) = NumstatIn(c, scope)
  BY DEF Numstat
<1>4. c \notin read => NumstatIn(c, scope) = {}
  BY LoggedFacts
<1>5. NumstatIn(c, scope) \subseteq FoldChanges
  BY <1>1, NumstatFacts
<1>6. (IF c \in read THEN Numstat(c) ELSE {}) = NumstatIn(c, scope)
  BY <1>3, <1>4
<1>7. /\ row.sha = c /\ row.key = Keys[c] /\ row.live = TRUE /\ row.authored = (c \in read)
      /\ row.changes = NumstatIn(c, scope)
  BY <1>6
<1>8. row \in StoreRows
  BY <1>1, <1>5, <1>6 DEF StoreRows
<1> QED BY <1>2, <1>7, <1>8 DEF IsRow

Fresh(added, old) == DOMAIN added \ DOMAIN old

\* What WithCommits adds to a store.
HasAdded(added, old, S, s) ==
  /\ DOMAIN old \subseteq DOMAIN added
  /\ DOMAIN added \subseteq Nat \ {0} /\ IsFiniteSet(DOMAIN added)
  /\ \A i \in DOMAIN old : added[i] = old[i]
  /\ \A i \in Fresh(added, old) : IsRow(added[i], s) /\ added[i].sha \in S /\ added[i].live
  /\ \A c \in S : \E i \in Fresh(added, old) : added[i].sha = c
  /\ \A i, j \in Fresh(added, old) : added[i].sha = added[j].sha => i = j

\* The rows that a plan adds are those of its commits.
LEMMA AddedRows ==
  ASSUME RepoOK, scope \subseteq Paths, NEW S, S \subseteq Commits,
         NEW keys, DOMAIN keys = S, \A c \in S : keys[c] = Keys[c],
         NEW read, read \cap S = LoggedIn(S, scope),
         NEW old, DOMAIN old \subseteq Nat \ {0}, IsFiniteSet(DOMAIN old),
         NEW added, added = WithCommits(old, keys, read)
  PROVE  HasAdded(added, old, S, scope)
<1> DEFINE fresh == DOMAIN added \ DOMAIN old
           Row(c) == [sha |-> c, key |-> keys[c], live |-> TRUE, authored |-> c \in read,
                      changes |-> IF c \in read THEN Numstat(c) ELSE {}]
<1>1. S \subseteq Nat /\ IsFiniteSet(S)
  BY GraphFacts, FS_Subset
<1>2. DOMAIN keys \subseteq Nat /\ IsFiniteSet(DOMAIN keys)
  BY <1>1
<1>3. /\ DOMAIN old \subseteq DOMAIN added
      /\ DOMAIN added \subseteq Nat \ {0} /\ IsFiniteSet(DOMAIN added)
      /\ \A i \in DOMAIN old : added[i] = old[i]
      /\ \A i \in fresh : \E c \in DOMAIN keys : added[i] = Row(c)
      /\ \A c \in DOMAIN keys : \E i \in fresh : added[i] = Row(c)
      /\ \A i, j \in fresh : added[i].sha = added[j].sha => i = j
  BY ONLY DOMAIN old \subseteq Nat \ {0}, IsFiniteSet(DOMAIN old), added = WithCommits(old, keys, read),
          <1>2, NewRows
<1>4. \A c \in S : IsRow(Row(c), scope) /\ Row(c).sha = c /\ Row(c).live
  <2> TAKE c \in S
  <2> DEFINE r == Row(c)
  <2>1. r = [sha |-> c, key |-> keys[c], live |-> TRUE, authored |-> c \in read,
             changes |-> IF c \in read THEN Numstat(c) ELSE {}]
    OBVIOUS
  <2>2. keys[c] = Keys[c]  OBVIOUS
  <2>3. IsRow(r, scope) /\ r.sha = c /\ r.live
    <3> HIDE DEF r
    <3> QED BY <2>1, <2>2, NewRowIsRow
  <2> QED BY <2>3
<1> HIDE DEF fresh, Row
<1>5. \A i \in fresh : IsRow(added[i], scope) /\ added[i].sha \in S /\ added[i].live
  BY <1>3, <1>4
<1>6. \A c \in S : \E i \in fresh : added[i].sha = c
  BY <1>3, <1>4
<1>7. fresh = Fresh(added, old)
  BY DEF fresh, Fresh
<1> QED BY <1>3, <1>5, <1>6, <1>7 DEF HasAdded

\* A collection from scratch finds what a collection from scratch finds,
\* whatever history there was before.
LEMMA FullApplied ==
  ASSUME RepoOK, scope \subseteq Paths, head \in Commits, NEW p, IsFullPlan(p), NEW d
  PROVE  /\ StoreAt(Applied(d, p).store, scope, head)
         /\ Applied(d, p).cursor = head /\ Applied(d, p).scope = scope
         /\ Collected(Applied(d, p), scope, head)
<1> DEFINE old      == IF p.full THEN <<>> ELSE d.store
           added    == WithCommits(old, p.keys, p.read)
           store    == Marked(Marked(added, p.restored, TRUE), p.dropped, FALSE)
           arrived  == (DOMAIN added \ DOMAIN old) \cup p.restored
           touched  == TouchedBy(store, arrived \cup p.dropped) \cup p.moved
           closure  == IF p.full THEN Paths ELSE RenameClosure(touched, store)
           before   == (LiveIds(store) \ arrived) \cup (p.dropped \cap DOMAIN store)
           after    == FoldRows(store, LiveIds(store), closure)
           gained   == Cardinality(Dirty(after))
           lost     == Cardinality(Dirty(FoldRows(store, before, closure)))
           rows     == RowsOf(after, Tree[head])
           new      == Applied(d, p)
<1>1. /\ new.store = Prune(store) /\ new.cursor = p.head /\ new.scope = scope
      /\ new.commits = CountLive(store)
      /\ new.paths = PathsInHistory(d, p, gained, lost)
      /\ new.rows = [q \in Paths |-> IF q \in closure THEN rows[q] ELSE d.rows[q]]
  BY DEF Applied
<1> HIDE DEF new
<1>2. p.full /\ p.head = head /\ p.restored = {} /\ p.dropped = {}
  BY DEF IsFullPlan
<1> DEFINE keys == p.keys
           read == p.read
           S == Reach[head]
<1>3. S \subseteq Commits /\ S \subseteq Nat /\ IsFiniteSet(S) /\ (\A c \in S : Reach[c] \subseteq S)
  BY ReachIsOrder, GraphFacts, FS_Subset
<1>4. DOMAIN keys = S /\ (\A c \in S : keys[c] = Keys[c]) /\ read \cap S = LoggedIn(S, scope)
  BY <1>3, LoggedFacts DEF IsFullPlan
<1>5. old = <<>> /\ DOMAIN old = {}
  BY <1>2
<1> HIDE DEF old
<1>6. HasAdded(added, old, S, scope)
  <2>1. DOMAIN old \subseteq Nat \ {0} /\ IsFiniteSet(DOMAIN old)  BY <1>5, FS_EmptySet
  <2> HIDE DEF keys, read, S, added
  <2>2. added = WithCommits(old, keys, read)  BY DEF added, keys, read
  <2> QED BY ONLY RepoOK, scope \subseteq Paths, <1>3, <1>4, <2>1, <2>2, AddedRows
<1> HIDE DEF added
<1>7. /\ DOMAIN added \subseteq Nat \ {0} /\ IsFiniteSet(DOMAIN added)
      /\ \A i \in DOMAIN added : IsRow(added[i], scope) /\ added[i].sha \in S /\ added[i].live
      /\ \A c \in S : \E i \in DOMAIN added : added[i].sha = c
      /\ \A i, j \in DOMAIN added : added[i].sha = added[j].sha => i = j
  <2>1. Fresh(added, old) = DOMAIN added  BY <1>5 DEF Fresh
  <2> HIDE DEF S
  <2> QED BY ONLY <1>6, <2>1 DEF HasAdded
<1>8. DOMAIN store = DOMAIN added /\ \A i \in DOMAIN store : store[i] = added[i]
  BY <1>2 DEF Marked
<1> HIDE DEF store
<1>9. IsStore(store, scope)
  BY <1>7, <1>8 DEF IsStore
<1>10. Shas(store) = S
  BY <1>7, <1>8 DEF Shas
<1>11. StoreAt(store, scope, head)
  BY <1>3, <1>7, <1>8, <1>9, <1>10 DEF StoreAt
<1>12. LiveIds(store) = DOMAIN store /\ ShasOf(store, LiveIds(store)) = S
  <2>1. \A i \in DOMAIN store : store[i].live  BY <1>7, <1>8
  <2>2. LiveIds(store) = DOMAIN store  BY <2>1 DEF LiveIds
  <2> QED BY <2>2, <1>10 DEF ShasOf, Shas
<1>13. closure = Paths
  BY <1>2
<1>14. \A q \in Paths : after[q] = FullFold(S, scope)[q]
  <2>1. \A c \in S : ClosedOn(NumstatIn(c, scope), Paths)
    BY <1>3, NumstatFacts DEF ClosedOn
  <2> DEFINE ids == LiveIds(store)
             P == Paths
  <2>2. ids \subseteq DOMAIN store /\ P \subseteq Paths /\ ShasOf(store, ids) = S  BY <1>12
  <2>3. \A q \in P : FoldRows(store, ids, P)[q] = FullFold(S, scope)[q]
    <3> HIDE DEF ids, P, S
    <3> QED BY <2>1, <2>2, <1>9, FoldRowsAre DEF P
  <2> QED BY <2>3, <1>13
<1> HIDE DEF after, S
<1>15. rows = RowsOf(FullFold(S, scope), Tree[head])
  BY <1>14 DEF RowsOf
<1>16. Dirty(after) = Dirty(FullFold(S, scope))
  BY <1>14 DEF Dirty
<1>17. new.paths = Cardinality(Dirty(FullFold(S, scope)))
  BY <1>1, <1>2, <1>16 DEF PathsInHistory
<1>18. new.rows = RowsOf(FullFold(S, scope), Tree[head])
  <2>1. new.rows = [q \in Paths |-> rows[q]]  BY <1>1, <1>13
  <2>2. [q \in Paths |-> rows[q]] = rows  BY DEF RowsOf
  <2> QED BY <2>1, <2>2, <1>15
<1>19. new.commits = Cardinality(LoggedIn(S, scope))
  BY <1>1, <1>11, CountLiveIs DEF S
<1>20. Collected(new, scope, head)
  BY <1>17, <1>18, <1>19, FullCollectionIs DEF Collected, S
<1>21. StoreAt(new.store, scope, head)
  BY <1>1, <1>11, PruneKeeps
<1> QED BY <1>1, <1>2, <1>20, <1>21 DEF new

(***************************************************************************)
(* Applying an incremental plan.                                           *)
(***************************************************************************)
\* What HEAD reaches and the base does not, and the reverse.
ArrivedSince(base)  == Reach[head] \ Reach[base]
DepartedSince(base) == Reach[base] \ Reach[head]

\* The rows of some commits.
IdsOf(store, S) == {i \in DOMAIN store : store[i].sha \in S}

\* A plan to move a store from its base to HEAD.
IsSyncPlan(p, d) ==
  /\ ~p.full /\ p.head = head /\ p.base \in Commits
  /\ DOMAIN p.keys = ArrivedSince(p.base) \ Shas(d.store)
  /\ \A c \in DOMAIN p.keys : p.keys[c] = Keys[c]
  /\ p.read = LoggedIn(ArrivedSince(p.base) \ Shas(d.store), scope)
  /\ p.restored = IdsOf(d.store, ArrivedSince(p.base))
  /\ p.dropped = IdsOf(d.store, DepartedSince(p.base))
  /\ p.moved = IF \E c \in ArrivedSince(p.base) \cup DepartedSince(p.base) : IsMerge(c)
               THEN {q \in scope : Tree[p.base][q] # Tree[head][q]} ELSE {}

AreRows(rows) == \A i \in DOMAIN rows : rows[i] \in StoreRows

\* What Marked makes of rows.
HasMarks(store, rows, on, off) ==
  /\ DOMAIN store = DOMAIN rows
  /\ \A i \in DOMAIN rows :
       /\ store[i] \in StoreRows
       /\ store[i].sha = rows[i].sha /\ store[i].key = rows[i].key
       /\ store[i].authored = rows[i].authored /\ store[i].changes = rows[i].changes
       /\ store[i].live <=> i \notin off /\ (i \in on \/ rows[i].live)

\* Marking rows changes nothing but what is live.
LEMMA MarkedRows ==
  ASSUME NEW rows, NEW on, NEW off, AreRows(rows)
  PROVE  HasMarks(Marked(Marked(rows, on, TRUE), off, FALSE), rows, on, off)
<1> DEFINE store == Marked(Marked(rows, on, TRUE), off, FALSE)
<1>0. \A i \in DOMAIN rows : rows[i] \in StoreRows
  BY DEF AreRows
<1> DEFINE once == Marked(rows, on, TRUE)
<1>1. DOMAIN once = DOMAIN rows /\ \A i \in DOMAIN rows :
        once[i] = IF i \in on THEN [rows[i] EXCEPT !.live = TRUE] ELSE rows[i]
  BY DEF Marked
<1>2. \A i \in DOMAIN rows :
        /\ once[i] \in StoreRows
        /\ once[i].sha = rows[i].sha /\ once[i].key = rows[i].key
        /\ once[i].authored = rows[i].authored /\ once[i].changes = rows[i].changes
        /\ once[i].live <=> i \in on \/ rows[i].live
  <2> TAKE i \in DOMAIN rows
  <2>1. once[i] = IF i \in on THEN [rows[i] EXCEPT !.live = TRUE] ELSE rows[i]  BY <1>1
  <2> HIDE DEF once
  <2> QED BY <2>1, <1>0 DEF StoreRows
<1> HIDE DEF once
<1>3. DOMAIN store = DOMAIN rows /\ \A i \in DOMAIN rows :
        store[i] = IF i \in off THEN [once[i] EXCEPT !.live = FALSE] ELSE once[i]
  BY <1>1 DEF Marked, once
<1> HIDE DEF store
<1>4. ASSUME NEW i \in DOMAIN rows
      PROVE  /\ store[i] \in StoreRows
             /\ store[i].sha = once[i].sha /\ store[i].key = once[i].key
             /\ store[i].authored = once[i].authored /\ store[i].changes = once[i].changes
             /\ store[i].live <=> i \notin off /\ once[i].live
  <2>1. store[i] = IF i \in off THEN [once[i] EXCEPT !.live = FALSE] ELSE once[i]  BY <1>3
  <2>2. once[i] \in StoreRows  BY <1>2
  <2> QED BY ONLY <2>1, <2>2 DEF StoreRows
<1>5. HasMarks(store, rows, on, off)
  BY <1>2, <1>3, <1>4 DEF HasMarks
<1> QED BY <1>5 DEF store

\* Adding the commits that are new, reviving those that arrived again and
\* retiring those that left makes the store of the base that of HEAD.
LEMMA SyncStore ==
  ASSUME RepoOK, scope \subseteq Paths, head \in Commits, NEW p, NEW d, IsSyncPlan(p, d),
         StoreAt(d.store, scope, p.base),
         NEW added, added = WithCommits(d.store, p.keys, p.read),
         NEW store, store = Marked(Marked(added, p.restored, TRUE), p.dropped, FALSE)
  PROVE  /\ StoreAt(store, scope, head)
         /\ Reach[p.base] \subseteq Shas(store)
         /\ (DOMAIN added \ DOMAIN d.store) \cup p.restored = IdsOf(store, ArrivedSince(p.base))
         /\ p.dropped = IdsOf(store, DepartedSince(p.base))
<1> DEFINE A == ArrivedSince(p.base)
           D == DepartedSince(p.base)
           keys == p.keys
           read == p.read
           old == d.store
           S == A \ Shas(d.store)
           fresh == Fresh(added, old)
<1>1. /\ p.base \in Commits /\ Reach[head] \subseteq Commits /\ Reach[p.base] \subseteq Commits
      /\ \A c \in Reach[head] : Reach[c] \subseteq Reach[head]
  BY ReachIsOrder DEF IsSyncPlan
<1>2. S \subseteq Commits
  BY <1>1 DEF ArrivedSince
<1>3. DOMAIN keys = S /\ (\A c \in S : keys[c] = Keys[c]) /\ read \cap S = LoggedIn(S, scope)
  <2>1. DOMAIN keys = S /\ (\A c \in S : keys[c] = Keys[c]) /\ read = LoggedIn(S, scope)
    BY DEF IsSyncPlan
  <2> HIDE DEF S
  <2>2. LoggedIn(S, scope) \subseteq S  BY <1>2, LoggedFacts
  <2> QED BY <2>1, <2>2
<1>4. /\ IsStore(d.store, scope)
      /\ \A i \in DOMAIN d.store : d.store[i].live <=> d.store[i].sha \in Reach[p.base]
      /\ \A i \in DOMAIN d.store : Reach[d.store[i].sha] \subseteq Shas(d.store)
      /\ Reach[p.base] \subseteq Shas(d.store)
  BY DEF StoreAt
<1>5. /\ DOMAIN d.store \subseteq Nat \ {0} /\ IsFiniteSet(DOMAIN d.store)
      /\ \A i \in DOMAIN d.store : IsRow(d.store[i], scope)
      /\ \A i, j \in DOMAIN d.store : d.store[i].sha = d.store[j].sha => i = j
  BY <1>4 DEF IsStore
<1>6. HasAdded(added, old, S, scope)
  <2>1. DOMAIN old \subseteq Nat \ {0} /\ IsFiniteSet(DOMAIN old) /\ added = WithCommits(old, keys, read)
    BY <1>5
  <2> HIDE DEF old, keys, read, S
  <2> QED BY ONLY RepoOK, scope \subseteq Paths, <1>2, <1>3, <2>1, AddedRows
<1>7. /\ DOMAIN d.store \subseteq DOMAIN added
      /\ DOMAIN added \subseteq Nat \ {0} /\ IsFiniteSet(DOMAIN added)
      /\ \A i \in DOMAIN d.store : added[i] = d.store[i]
      /\ \A i, j \in fresh : added[i].sha = added[j].sha => i = j
  BY <1>6 DEF HasAdded
<1>8. \A i \in fresh : IsRow(added[i], scope) /\ added[i].sha \in S /\ added[i].live
  BY <1>6 DEF HasAdded
<1>9. \A c \in S : \E i \in fresh : added[i].sha = c
  BY <1>6 DEF HasAdded
<1>10. fresh \subseteq DOMAIN added /\ DOMAIN added = fresh \cup DOMAIN d.store /\ fresh \cap DOMAIN d.store = {}
  BY <1>7 DEF Fresh
<1> HIDE DEF fresh
<1>11. S \cap Shas(d.store) = {} /\ S \cup Shas(d.store) = A \cup Shas(d.store)
      /\ S \subseteq A /\ S \subseteq Reach[head] /\ S \cap D = {}
  BY DEF ArrivedSince, DepartedSince
<1>12. p.restored = IdsOf(d.store, A) /\ p.dropped = IdsOf(d.store, D)
  BY DEF IsSyncPlan
<1>13. A = Reach[head] \ Reach[p.base] /\ D = Reach[p.base] \ Reach[head]
  BY DEF ArrivedSince, DepartedSince
<1> HIDE DEF S, keys, read, old, A, D
<1>14. \A i \in DOMAIN added : IsRow(added[i], scope)
  BY <1>5, <1>7, <1>8, <1>10
<1>15. /\ DOMAIN store = DOMAIN added
       /\ \A i \in DOMAIN added :
              /\ store[i] \in StoreRows
              /\ store[i].sha = added[i].sha /\ store[i].key = added[i].key
              /\ store[i].authored = added[i].authored /\ store[i].changes = added[i].changes
              /\ store[i].live <=> i \notin p.dropped /\ (i \in p.restored \/ added[i].live)
  <2>1. AreRows(added)  BY <1>14 DEF IsRow, AreRows
  <2>2. HasMarks(store, added, p.restored, p.dropped)
    BY ONLY <2>1, store = Marked(Marked(added, p.restored, TRUE), p.dropped, FALSE), MarkedRows
  <2> QED BY ONLY <2>2 DEF HasMarks
<1>16. \A i \in DOMAIN store : IsRow(store[i], scope)
  BY ONLY <1>14, <1>15 DEF IsRow
<1>17. \A i \in DOMAIN d.store : store[i].sha = d.store[i].sha /\ store[i].sha \in Shas(d.store)
  BY ONLY <1>7, <1>15 DEF Shas
<1>18. \A i \in fresh : store[i].sha \in S /\ store[i].sha = added[i].sha
  BY ONLY <1>8, <1>15, <1>10
<1>19. DOMAIN store = fresh \cup DOMAIN d.store
  BY <1>10, <1>15
<1>20. \A i, j \in DOMAIN store : store[i].sha = store[j].sha => i = j
  <2>1. \A i \in fresh, j \in DOMAIN d.store : store[i].sha # store[j].sha
    BY <1>11, <1>17, <1>18
  <2>2. \A i, j \in fresh : store[i].sha = store[j].sha => i = j
    BY ONLY <1>18, <1>7
  <2>3. \A i, j \in DOMAIN d.store : store[i].sha = store[j].sha => i = j
    BY ONLY <1>5, <1>17
  <2> QED BY ONLY <2>1, <2>2, <2>3, <1>19
<1>21. IsStore(store, scope)
  BY <1>7, <1>15, <1>16, <1>20 DEF IsStore
<1>22. Shas(store) = A \cup Shas(d.store)
  <2>1. \A c \in S : \E i \in fresh : store[i].sha = c  BY ONLY <1>9, <1>18
  <2>2. \A c \in Shas(d.store) : \E i \in DOMAIN d.store : store[i].sha = c  BY <1>17 DEF Shas
  <2>3. \A c : (\E i \in DOMAIN store : store[i].sha = c) <=> c \in S \/ c \in Shas(d.store)
    BY <2>1, <2>2, <1>17, <1>18, <1>19
  <2>4. Shas(store) = S \cup Shas(d.store)  BY <2>3 DEF Shas
  <2> QED BY <2>4, <1>11
<1>23. Reach[head] \subseteq Shas(store) /\ Reach[p.base] \subseteq Shas(store)
  BY <1>4, <1>22, <1>13
<1>24. \A i \in DOMAIN store : Reach[store[i].sha] \subseteq Shas(store)
  <2>1. \A i \in fresh : Reach[store[i].sha] \subseteq Reach[head]
    BY <1>1, <1>18, <1>11
  <2>2. \A i \in DOMAIN d.store : Reach[store[i].sha] \subseteq Shas(d.store)
    BY <1>4, <1>17
  <2> QED BY <2>1, <2>2, <1>19, <1>22, <1>23
<1>25. \A i \in DOMAIN store : store[i].live <=> store[i].sha \in Reach[head]
  <2>1. ASSUME NEW i \in fresh PROVE store[i].live /\ store[i].sha \in Reach[head]
    <3>1. i \notin p.dropped  BY <1>10, <1>12 DEF IdsOf
    <3>2. store[i].live  BY <3>1, <1>8, <1>15, <1>19
    <3>3. store[i].sha \in Reach[head]  BY <1>18, <1>11
    <3> QED BY <3>2, <3>3
  <2>2. ASSUME NEW i \in DOMAIN d.store PROVE store[i].live <=> store[i].sha \in Reach[head]
    <3>1. i \in p.restored <=> store[i].sha \in A  BY <1>17, <1>12 DEF IdsOf
    <3>2. i \in p.dropped <=> store[i].sha \in D  BY <1>17, <1>12 DEF IdsOf
    <3>3. added[i].live <=> store[i].sha \in Reach[p.base]  BY <1>4, <1>7, <1>17
    <3>4. store[i].live <=> i \notin p.dropped /\ (i \in p.restored \/ added[i].live)
      BY <1>7, <1>15
    <3> QED BY ONLY <3>1, <3>2, <3>3, <3>4, <1>13
  <2> QED BY <2>1, <2>2, <1>19
<1>26. StoreAt(store, scope, head)
  BY <1>21, <1>23, <1>24, <1>25 DEF StoreAt
<1>27. fresh \cup p.restored = IdsOf(store, A)
  <2>1. \A i \in fresh : store[i].sha \in A  BY <1>18, <1>11
  <2>2. \A i \in DOMAIN d.store : i \in p.restored <=> store[i].sha \in A  BY <1>17, <1>12 DEF IdsOf
  <2>3. p.restored \subseteq DOMAIN d.store  BY <1>12 DEF IdsOf
  <2> QED BY <2>1, <2>2, <2>3, <1>19 DEF IdsOf
<1>28. p.dropped = IdsOf(store, D)
  <2>1. \A i \in fresh : store[i].sha \notin D  BY <1>18, <1>11
  <2>2. \A i \in DOMAIN d.store : i \in p.dropped <=> store[i].sha \in D  BY <1>17, <1>12 DEF IdsOf
  <2>3. p.dropped \subseteq DOMAIN d.store  BY <1>12 DEF IdsOf
  <2> QED BY <2>1, <2>2, <2>3, <1>19 DEF IdsOf
<1> QED BY <1>23, <1>26, <1>27, <1>28 DEF fresh, Fresh, old, A, D

\* The commits by which two histories differ, and the paths by which the trees
\* differ if one of these commits is a merge.
Renamed(base) == ArrivedSince(base) \cup DepartedSince(base)

Moved(base) ==
  IF \E c \in Renamed(base) : IsMerge(c) THEN {q \in scope : Tree[base][q] # Tree[head][q]} ELSE {}

\* Paths outside of which the histories of base and of head agree.
Affected(P, base) ==
  /\ P \subseteq Paths
  /\ \A c \in Reach[head] \cup Reach[base] : ClosedOn(NumstatIn(c, scope), P)
  /\ \A c \in Renamed(base) : \A ch \in NumstatIn(c, scope) : ch.path \in P /\ ch.from \in P
  /\ Moved(base) \subseteq P

\* The paths of these commits, closed under renames, are all that is affected.
LEMMA SyncClosure ==
  ASSUME RepoOK, IsFiniteSet(Paths), scope \subseteq Paths, head \in Commits, NEW base \in Commits,
         NEW store, StoreAt(store, scope, head), Reach[base] \subseteq Shas(store),
         NEW ids, ids = IdsOf(store, Renamed(base)),
         NEW seeds, seeds = TouchedBy(store, ids) \cup Moved(base)
  PROVE  Affected(RenameClosure(seeds, store), base)
<1>1. Moved(base) \subseteq Paths
  BY DEF Moved
<1>2. \A i \in DOMAIN store : store[i].changes \subseteq FoldChanges /\ store[i].changes = NumstatIn(store[i].sha, scope)
  BY DEF StoreAt, IsStore, IsRow, StoreRows
<1>3. ids \subseteq DOMAIN store /\ \A i \in ids : store[i].sha \in Renamed(base)
  BY DEF IdsOf
<1>4. \A i \in ids : \A ch \in store[i].changes : ch.path \in seeds /\ ch.from \in seeds
  <2>1. \A i \in ids : i \in ids \cap DOMAIN store  BY <1>3
  <2>2. \A i \in ids : \A ch \in store[i].changes : {ch.path, ch.from} \subseteq TouchedBy(store, ids)
    BY <2>1 DEF TouchedBy
  <2> QED BY <2>2
<1>5. seeds \subseteq Paths
  <2>1. \A i \in DOMAIN store : \A ch \in store[i].changes : ch.path \in Paths /\ ch.from \in Paths
    BY <1>2 DEF FoldChanges
  <2>2. TouchedBy(store, ids) \subseteq Paths  BY <2>1 DEF TouchedBy
  <2> QED BY <2>2, <1>1
<1> DEFINE P == RenameClosure(seeds, store)
<1>6. /\ seeds \subseteq P /\ P \subseteq Paths
      /\ \A i \in LiveIds(store) : ClosedOn(store[i].changes, P)
  BY <1>2, <1>5, ClosureOfRenames
<1> HIDE DEF P
<1>7. \A c \in Renamed(base) : \E i \in ids : store[i].sha = c
  <2>1. \A c \in Renamed(base) : c \in Shas(store)
    BY DEF Renamed, ArrivedSince, DepartedSince, StoreAt
  <2>2. \A c \in Renamed(base) : \E i \in DOMAIN store : store[i].sha = c  BY <2>1 DEF Shas
  <2> QED BY <2>2 DEF IdsOf
<1>8. \A c \in Renamed(base) : \A ch \in NumstatIn(c, scope) : ch.path \in P /\ ch.from \in P
  BY <1>2, <1>3, <1>4, <1>6, <1>7
<1>9. \A c \in Reach[head] : ClosedOn(NumstatIn(c, scope), P)
  <2>1. \A c \in Reach[head] : \E i \in DOMAIN store : store[i].sha = c
    BY DEF StoreAt, Shas
  <2>2. \A i \in DOMAIN store : store[i].live <=> store[i].sha \in Reach[head]
    BY DEF StoreAt
  <2>3. \A c \in Reach[head] : \E i \in LiveIds(store) : store[i].sha = c
    BY <2>1, <2>2 DEF LiveIds
  <2>4. LiveIds(store) \subseteq DOMAIN store  BY DEF LiveIds
  <2> QED BY <2>3, <2>4, <1>2, <1>6
<1>10. \A c \in Reach[base] \ Reach[head] : ClosedOn(NumstatIn(c, scope), P)
  BY <1>8 DEF Renamed, DepartedSince, ClosedOn
<1>11. Moved(base) \subseteq P
  BY <1>6
<1> QED BY <1>6, <1>8, <1>9, <1>10, <1>11 DEF Affected, P

\* Other paths have the same history at the base and at HEAD.
LEMMA FoldsOffPaths ==
  ASSUME RepoOK, scope \subseteq Paths, head \in Commits, NEW base \in Commits, NEW P, Affected(P, base)
  PROVE  \A q \in Paths \ P : FullFold(Reach[head], scope)[q] = FullFold(Reach[base], scope)[q]
<1> DEFINE Q == Paths \ P
           X == Reach[head]
           Y == Reach[base]
<1>1. X \subseteq Commits /\ Y \subseteq Commits /\ Q \subseteq Paths
  BY ReachIsOrder
<1>2. \A c \in X \cup Y : NumstatIn(c, scope) \subseteq FoldChanges
  BY <1>1, NumstatFacts
<1>3. \A c \in X \cup Y : ClosedOn(NumstatIn(c, scope), Q)
  BY <1>2 DEF Affected, ClosedOn, FoldChanges
<1>4. \A c \in (X \ Y) \cup (Y \ X) : At(NumstatIn(c, scope), Q) = {}
  BY DEF Affected, At, Renamed, ArrivedSince, DepartedSince
<1> HIDE DEF Q, X, Y
<1>5. \A q \in Q : FullFold(X, scope)[q] = FullFold(Y, scope)[q]
  BY <1>1, <1>3, <1>4, FullFoldsAgree
<1> QED BY <1>5 DEF Q, X, Y

\* Other paths of the scope are the same in both trees.
LEMMA TreesOffPaths ==
  ASSUME RepoOK, scope \subseteq Paths, head \in Commits, NEW base \in Commits, NEW P, Affected(P, base)
  PROVE  \A q \in scope \ P : Tree[head][q] = Tree[base][q]
<1>1. CASE \E c \in Renamed(base) : IsMerge(c)
  BY <1>1 DEF Affected, Moved
<1>2. CASE \A c \in Renamed(base) : ~IsMerge(c)
  <2> TAKE q \in scope \ P
  <2>1. Renamed(base) \subseteq Commits
    BY ReachIsOrder DEF Renamed, ArrivedSince, DepartedSince
  <2>2. \A c \in Renamed(base) : Quiet(c, q)
    BY <2>1, <1>2, NumstatFacts DEF Affected
  <2>3. QuietBetween(base, head, q)
    BY <2>2 DEF QuietBetween, Renamed, ArrivedSince, DepartedSince
  <2>4. q \in Paths  OBVIOUS
  <2> QED BY <2>3, <2>4, QuietBetweenTrees
<1> QED BY <1>1, <1>2

DifferOnlyOn(P, new, old, U) == IsFiniteSet(U) /\ new \subseteq U /\ old \subseteq U /\ new \ P = old \ P

\* The new count of paths is the old one, with the affected paths that have a
\* history now and without those that had one before.
LEMMA CountMoves ==
  ASSUME NEW U, NEW new, NEW old, NEW P, DifferOnlyOn(P, new, old, U)
  PROVE  Cardinality(new) = Max({0, Cardinality(old) + Cardinality(new \cap P) - Cardinality(old \cap P)})
<1>0. IsFiniteSet(U) /\ new \subseteq U /\ old \subseteq U /\ new \ P = old \ P
  BY DEF DifferOnlyOn
<1>1. IsFiniteSet(new) /\ IsFiniteSet(old)
  BY <1>0, FS_Subset
<1>2. IsFiniteSet(new \cap P) /\ IsFiniteSet(old \cap P) /\ IsFiniteSet(old \ P)
  BY <1>1, FS_Subset
<1> DEFINE m == Cardinality(new \cap P)
           n == Cardinality(old \cap P)
           r == Cardinality(old \ P)
<1>3. m \in Nat /\ n \in Nat /\ r \in Nat
  BY <1>2, FS_CardinalityType
<1>4. Cardinality(new) = m + r
  <2> DEFINE a == new \cap P
             b == old \ P
  <2>1. new = a \cup b /\ a \cap b = {} /\ IsFiniteSet(a) /\ IsFiniteSet(b)  BY <1>0, <1>2
  <2>2. Cardinality(a \cup b) = Cardinality(a) + Cardinality(b) - Cardinality(a \cap b)
    <3> HIDE DEF a, b
    <3> QED BY ONLY <2>1, FS_Union
  <2>3. Cardinality({}) = 0  BY FS_EmptySet
  <2>4. Cardinality(new) = Cardinality(a) + Cardinality(b) - 0  BY ONLY <2>1, <2>2, <2>3
  <2> QED BY <2>4, <1>3
<1>5. Cardinality(old) = n + r
  <2> DEFINE a == old \cap P
             b == old \ P
  <2>1. old = a \cup b /\ a \cap b = {} /\ IsFiniteSet(a) /\ IsFiniteSet(b)  BY <1>0, <1>2
  <2>2. Cardinality(a \cup b) = Cardinality(a) + Cardinality(b) - Cardinality(a \cap b)
    <3> HIDE DEF a, b
    <3> QED BY ONLY <2>1, FS_Union
  <2>3. Cardinality({}) = 0  BY FS_EmptySet
  <2>4. Cardinality(old) = Cardinality(a) + Cardinality(b) - 0  BY ONLY <2>1, <2>2, <2>3
  <2> QED BY <2>4, <1>3
<1> HIDE DEF m, n, r
<1>6. Cardinality(old) + m - n = m + r /\ m + r \in Nat
  BY <1>3, <1>5
<1>7. Max({0, m + r}) = m + r
  <2>1. {0, m + r} \subseteq Nat /\ m + r \in {0, m + r} /\ \A x \in {0, m + r} : x <= m + r  BY <1>3
  <2> QED BY ONLY <2>1, MaxIs
<1> QED BY <1>4, <1>6, <1>7 DEF m, n

\* A history at the base, after a plan to move it is applied, is what a
\* collection from scratch finds at HEAD.
LEMMA SyncApplied ==
  ASSUME RepoOK, IsFiniteSet(Paths), scope \subseteq Paths, head \in Commits,
         NEW p, NEW d, IsSyncPlan(p, d),
         StoreAt(d.store, scope, p.base), Collected(d, scope, p.base)
  PROVE  /\ StoreAt(Applied(d, p).store, scope, head)
         /\ Applied(d, p).cursor = head /\ Applied(d, p).scope = scope
         /\ Collected(Applied(d, p), scope, head)
<1> DEFINE old      == IF p.full THEN <<>> ELSE d.store
           added    == WithCommits(old, p.keys, p.read)
           store    == Marked(Marked(added, p.restored, TRUE), p.dropped, FALSE)
           arrived  == (DOMAIN added \ DOMAIN old) \cup p.restored
           touched  == TouchedBy(store, arrived \cup p.dropped) \cup p.moved
           closure  == IF p.full THEN Paths ELSE RenameClosure(touched, store)
           before   == (LiveIds(store) \ arrived) \cup (p.dropped \cap DOMAIN store)
           after    == FoldRows(store, LiveIds(store), closure)
           then     == FoldRows(store, before, closure)
           gained   == Cardinality(Dirty(after))
           lost     == Cardinality(Dirty(then))
           rows     == RowsOf(after, Tree[head])
           new      == Applied(d, p)
           base     == p.base
           Fh       == FullFold(Reach[head], scope)
           Fb       == FullFold(Reach[base], scope)
<1>1. /\ new.store = Prune(store) /\ new.cursor = p.head /\ new.scope = scope
      /\ new.commits = CountLive(store)
      /\ new.paths = PathsInHistory(d, p, gained, lost)
      /\ new.rows = [q \in Paths |-> IF q \in closure THEN rows[q] ELSE d.rows[q]]
  BY DEF Applied
<1> HIDE DEF new
<1>2. ~p.full /\ p.head = head /\ base \in Commits /\ p.moved = Moved(base)
  BY DEF IsSyncPlan, Moved, Renamed
<1>3. old = d.store
  BY <1>2
<1>4. /\ StoreAt(store, scope, head)
      /\ Reach[base] \subseteq Shas(store)
      /\ arrived = IdsOf(store, ArrivedSince(base))
      /\ p.dropped = IdsOf(store, DepartedSince(base))
  <2>1. /\ added = WithCommits(d.store, p.keys, p.read)
        /\ arrived = (DOMAIN added \ DOMAIN d.store) \cup p.restored
        /\ store = Marked(Marked(added, p.restored, TRUE), p.dropped, FALSE)
    BY <1>3
  <2> HIDE DEF added, store, arrived, old
  <2> QED BY ONLY RepoOK, scope \subseteq Paths, head \in Commits, IsSyncPlan(p, d),
                  StoreAt(d.store, scope, p.base), <2>1, SyncStore DEF base
<1> HIDE DEF store, arrived, old, added
<1>5. arrived \cup p.dropped = IdsOf(store, Renamed(base))
  BY <1>4 DEF IdsOf, Renamed
<1>6. touched = TouchedBy(store, IdsOf(store, Renamed(base))) \cup Moved(base)
  BY <1>2, <1>5
<1>7. Affected(closure, base)
  <2>1. closure = RenameClosure(touched, store)  BY <1>2
  <2> HIDE DEF touched, closure, base
  <2> QED BY ONLY RepoOK, IsFiniteSet(Paths), scope \subseteq Paths, head \in Commits, <1>2, <1>4, <1>6, <2>1,
                  SyncClosure
<1> HIDE DEF touched, closure
<1>8. closure \subseteq Paths
      /\ \A c \in Reach[head] \cup Reach[base] : ClosedOn(NumstatIn(c, scope), closure)
  BY <1>7 DEF Affected
<1>9. IsStore(store, scope) /\ \A i \in DOMAIN store : store[i].live <=> store[i].sha \in Reach[head]
  BY <1>4 DEF StoreAt
<1>10. LiveIds(store) \subseteq DOMAIN store /\ ShasOf(store, LiveIds(store)) = Reach[head]
  <2>1. \A c \in Reach[head] : \E i \in DOMAIN store : store[i].sha = c
    BY <1>4 DEF StoreAt, Shas
  <2> QED BY <2>1, <1>9 DEF LiveIds, ShasOf
<1>11. before \subseteq DOMAIN store /\ ShasOf(store, before) = Reach[base]
  <2>1. \A c \in Reach[base] : \E i \in DOMAIN store : store[i].sha = c
    BY <1>4 DEF Shas
  <2>2. \A i \in DOMAIN store : i \in before <=> store[i].sha \in Reach[base]
    BY <1>4, <1>9 DEF LiveIds, IdsOf, ArrivedSince, DepartedSince
  <2>3. before \subseteq DOMAIN store
    BY DEF LiveIds
  <2> HIDE DEF before
  <2> QED BY <2>1, <2>2, <2>3 DEF ShasOf
<1> HIDE DEF before
<1>12. /\ \A q \in closure : after[q] = Fh[q]
       /\ \A q \in Paths \ closure : after[q] = Blank
  <2> DEFINE ids == LiveIds(store)
  <2>1. ids \subseteq DOMAIN store /\ ShasOf(store, ids) = Reach[head]
        /\ \A c \in ShasOf(store, ids) : ClosedOn(NumstatIn(c, scope), closure)
    BY <1>8, <1>10
  <2> HIDE DEF ids
  <2>2. /\ \A q \in closure : FoldRows(store, ids, closure)[q] = FullFold(ShasOf(store, ids), scope)[q]
        /\ \A q \in Paths \ closure : FoldRows(store, ids, closure)[q] = Blank
    BY ONLY RepoOK, scope \subseteq Paths, <1>8, <1>9, <2>1, FoldRowsAre
  <2> QED BY <2>1, <2>2 DEF ids
<1>13. /\ \A q \in closure : then[q] = Fb[q]
       /\ \A q \in Paths \ closure : then[q] = Blank
  <2>1. \A c \in ShasOf(store, before) : ClosedOn(NumstatIn(c, scope), closure)
    BY <1>8, <1>11
  <2>2. /\ \A q \in closure : FoldRows(store, before, closure)[q] = FullFold(ShasOf(store, before), scope)[q]
        /\ \A q \in Paths \ closure : FoldRows(store, before, closure)[q] = Blank
    BY ONLY RepoOK, scope \subseteq Paths, <1>8, <1>9, <1>11, <2>1, FoldRowsAre
  <2> QED BY <1>11, <2>2
<1> HIDE DEF after, then
<1>14. \A q \in Paths \ closure : Fh[q] = Fb[q]
  BY <1>2, <1>7, FoldsOffPaths
<1>15. \A q \in scope \ closure : Tree[head][q] = Tree[base][q]
  BY <1>2, <1>7, TreesOffPaths
<1>16. \A q \in Paths \ scope : Fh[q] = Blank
  BY ReachIsOrder, FullFoldOffScope
<1>17. FullCollection(scope, base) =
         [rows |-> RowsOf(Fb, Tree[base]), commits |-> Cardinality(LoggedIn(Reach[base], scope)),
          paths |-> Cardinality(Dirty(Fb))]
  BY <1>2, FullCollectionIs
<1>18. FullCollection(scope, head) =
         [rows |-> RowsOf(Fh, Tree[head]), commits |-> Cardinality(LoggedIn(Reach[head], scope)),
          paths |-> Cardinality(Dirty(Fh))]
  BY FullCollectionIs
<1> HIDE DEF Fh, Fb
<1>19. d.rows = RowsOf(Fb, Tree[base]) /\ d.paths = Cardinality(Dirty(Fb))
  BY <1>17 DEF Collected
<1>20. new.paths = Cardinality(Dirty(Fh))
  <2>1. Dirty(after) = Dirty(Fh) \cap closure /\ Dirty(then) = Dirty(Fb) \cap closure
    BY <1>8, <1>12, <1>13 DEF Dirty
  <2>2. Dirty(Fh) \ closure = Dirty(Fb) \ closure
    BY <1>14 DEF Dirty
  <2>3. Dirty(Fh) \subseteq Paths /\ Dirty(Fb) \subseteq Paths
    BY DEF Dirty
  <2>4. Cardinality(Dirty(Fh)) = Max({0, Cardinality(Dirty(Fb)) + Cardinality(Dirty(Fh) \cap closure)
                                         - Cardinality(Dirty(Fb) \cap closure)})
    <3> DEFINE now == Dirty(Fh)
               was == Dirty(Fb)
               U == Paths
    <3>1. DifferOnlyOn(closure, now, was, U)
      BY <2>2, <2>3 DEF DifferOnlyOn
    <3>2. Cardinality(now) = Max({0, Cardinality(was) + Cardinality(now \cap closure)
                                     - Cardinality(was \cap closure)})
      <4> HIDE DEF now, was, U
      <4> QED BY ONLY <3>1, CountMoves
    <3> QED BY <3>2
  <2>5. new.paths = Max({0, d.paths + gained - lost})
    BY <1>1, <1>2 DEF PathsInHistory
  <2> QED BY <2>1, <2>4, <2>5, <1>19
<1>21. new.rows = RowsOf(Fh, Tree[head])
  <2>1. ASSUME NEW q \in Paths
        PROVE  (IF q \in closure THEN rows[q] ELSE d.rows[q]) = RowsOf(Fh, Tree[head])[q]
    <3>1. CASE q \in closure
      BY <3>1, <1>12 DEF RowsOf
    <3>2. CASE q \notin closure /\ q \in scope
      BY <3>2, <1>14, <1>15, <1>19 DEF RowsOf
    <3>3. CASE q \notin closure /\ q \notin scope
      BY <3>3, <1>14, <1>16, <1>19 DEF RowsOf
    <3> QED BY <3>1, <3>2, <3>3
  <2>2. RowsOf(Fh, Tree[head]) = [q \in Paths |-> RowsOf(Fh, Tree[head])[q]]
    BY DEF RowsOf
  <2> HIDE DEF rows
  <2> QED BY <2>1, <2>2, <1>1
<1>22. new.commits = Cardinality(LoggedIn(Reach[head], scope))
  BY <1>1, <1>4, CountLiveIs
<1>23. Collected(new, scope, head)
  BY <1>18, <1>20, <1>21, <1>22 DEF Collected
<1>24. StoreAt(new.store, scope, head)
  BY <1>1, <1>4, PruneKeeps
<1> QED BY <1>1, <1>2, <1>23, <1>24 DEF new

(***************************************************************************)
(* The repository never changes: what is derived from it holds on.         *)
(***************************************************************************)
\* The order keys stay.
LEMMA KeysStay == ASSUME repo' = repo PROVE Keys' = Keys
BY DEF Keys, OrderKeys, Commits

\* So does what Git lists for a commit.
LEMMA NumstatStays == ASSUME repo' = repo PROVE \A c, s : NumstatIn(c, s)' = NumstatIn(c, s)
BY DEF NumstatIn, IsMerge

\* So does what a log lists.
LEMMA LoggedStays == ASSUME repo' = repo PROVE \A s : LoggedIn(Commits, s)' = LoggedIn(Commits, s)
BY NumstatStays DEF LoggedIn, IsMerge, Commits

\* So does what is said of a row,
LEMMA RowStays == ASSUME repo' = repo PROVE \A row, s : IsRow(row, s)' <=> IsRow(row, s)
BY KeysStay, NumstatStays, LoggedStays DEF IsRow, StoreRows, Commits

\* and of a store.
LEMMA StoreStays == ASSUME repo' = repo PROVE \A store, s, c : StoreAt(store, s, c)' <=> StoreAt(store, s, c)
BY RowStays DEF StoreAt, IsStore, Reach, Shas

\* A fold gives what it gave.
LEMMA FoldStays ==
  ASSUME repo' = repo
  PROVE  \A X, key, at : FoldHistory(X, key, at)' = FoldHistory(X, key, at)
BY DEF FoldHistory, Replay, Blank, Commits

\* A collection from scratch finds what it found.
LEMMA CollectionStays ==
  ASSUME repo' = repo
  PROVE  \A s, c : FullCollection(s, c)' = FullCollection(s, c)
<1>1. \A folded, tree : RowsOf(folded, tree)' = RowsOf(folded, tree)
  BY DEF RowsOf, Blank, Commits
<1>2. \A folded : Dirty(folded)' = Dirty(folded)
  BY DEF Dirty, Blank, Commits
<1>3. \A S, s : LoggedIn(S, s)' = LoggedIn(S, s)
  BY NumstatStays DEF LoggedIn, IsMerge
<1>4. \A c : FullKeys(c)' = FullKeys(c)
  BY DEF FullKeys, OrderKeys, Reach
<1> QED BY <1>1, <1>2, <1>3, <1>4, NumstatStays, FoldStays DEF FullCollection, Reach, Tree

\* What is said of a repository holds in the next state.
LEMMA RepoStays ==
  ASSUME repo' = repo, RepoOK
  PROVE  RepoOK'
BY DEF RepoOK, IsGraph, Commits, Reach, Tree

\* A plan stays one as long as HEAD and scope stay.
LEMMA FullPlanStays ==
  ASSUME repo' = repo, head' = head, scope' = scope
  PROVE  \A p : IsFullPlan(p)' <=> IsFullPlan(p)
<1>1. \A S, s : LoggedIn(S, s)' = LoggedIn(S, s)
  BY NumstatStays DEF LoggedIn, IsMerge
<1> QED BY <1>1, KeysStay DEF IsFullPlan, Reach

\* The same of an incremental plan.
LEMMA SyncPlanStays ==
  ASSUME repo' = repo, head' = head, scope' = scope
  PROVE  \A p, d : IsSyncPlan(p, d)' <=> IsSyncPlan(p, d)
<1>1. \A S, s : LoggedIn(S, s)' = LoggedIn(S, s)
  BY NumstatStays DEF LoggedIn, IsMerge
<1>2. \A b : ArrivedSince(b)' = ArrivedSince(b) /\ DepartedSince(b)' = DepartedSince(b)
  BY DEF ArrivedSince, DepartedSince, Reach
<1>3. \A c : IsMerge(c)' <=> IsMerge(c)
  BY DEF IsMerge
<1> QED BY <1>1, <1>2, <1>3, KeysStay DEF IsSyncPlan, Shas, IdsOf, Tree, Commits

(***************************************************************************)
(* Making plans.                                                           *)
(***************************************************************************)
\* A plan before it is made.
FreshPlan(p, base, reset) == p = [NoPlan EXCEPT !.head = head, !.base = base, !.reset = reset]

\* What PlanSync and PlanFull make of it.
SyncPlanned(p) ==
  [p EXCEPT !.keys = OrderKeys(Unread(p), KeysOf(db)), !.read = UnreadLog(p),
            !.restored = {IdOf(db, c) : c \in Arrived(p) \ Unread(p)},
            !.dropped = {IdOf(db, c) : c \in Departed(p)},
            !.moved = IF MergesMoved(p) THEN ChangedPaths(p.base, p.head) ELSE {}]

FullPlanned(p, reset) ==
  [p EXCEPT !.full = TRUE, !.reset = reset,
            !.keys = OrderKeys(Reach[p.head], <<>>), !.read = Logged(Reach[p.head])]

\* The fields of such plans.
LEMMA FreshPlanFields ==
  ASSUME NEW p, NEW base, NEW reset, FreshPlan(p, base, reset)
  PROVE  /\ p.head = head /\ p.base = base /\ ~p.full /\ p.restored = {} /\ p.dropped = {} /\ p.moved = {}
         /\ LET q == SyncPlanned(p)
            IN  /\ ~q.full /\ q.head = head /\ q.base = base
                /\ q.keys = OrderKeys(Unread(p), KeysOf(db)) /\ q.read = UnreadLog(p)
                /\ q.restored = {IdOf(db, c) : c \in Arrived(p) \ Unread(p)}
                /\ q.dropped = {IdOf(db, c) : c \in Departed(p)}
                /\ q.moved = IF MergesMoved(p) THEN ChangedPaths(p.base, p.head) ELSE {}
         /\ \A again : LET q == FullPlanned(p, again)
            IN  /\ q.full /\ q.head = head /\ q.base = base
                /\ q.keys = OrderKeys(Reach[p.head], <<>>) /\ q.read = Logged(Reach[p.head])
                /\ q.restored = {} /\ q.dropped = {} /\ q.moved = {}
<1> DEFINE blank == NoPlan
<1>1. p = [head |-> head, base |-> base, full |-> FALSE, reset |-> reset, keys |-> <<>>, read |-> {},
           restored |-> {}, dropped |-> {}, moved |-> {}]
  BY DEF FreshPlan, NoPlan
<1>2. /\ p.head = head /\ p.base = base /\ ~p.full /\ p.restored = {} /\ p.dropped = {} /\ p.moved = {}
  BY <1>1
<1> DEFINE keys == OrderKeys(Unread(p), KeysOf(db))
           read == UnreadLog(p)
           restored == {IdOf(db, c) : c \in Arrived(p) \ Unread(p)}
           dropped == {IdOf(db, c) : c \in Departed(p)}
           moved == IF MergesMoved(p) THEN ChangedPaths(p.base, p.head) ELSE {}
           q == SyncPlanned(p)
<1>3. q = [p EXCEPT !.keys = keys, !.read = read, !.restored = restored, !.dropped = dropped, !.moved = moved]
  BY DEF SyncPlanned
<1>4. /\ ~q.full /\ q.head = head /\ q.base = base
      /\ q.keys = keys /\ q.read = read /\ q.restored = restored /\ q.dropped = dropped /\ q.moved = moved
  <2> HIDE DEF q, keys, read, restored, dropped, moved
  <2> QED BY <1>1, <1>3
<1> DEFINE all == OrderKeys(Reach[p.head], <<>>)
           log == Logged(Reach[p.head])
<1>5. ASSUME NEW again
      PROVE  LET f == FullPlanned(p, again)
             IN  /\ f.full /\ f.head = head /\ f.base = base /\ f.keys = all /\ f.read = log
                 /\ f.restored = {} /\ f.dropped = {} /\ f.moved = {}
  <2> DEFINE f == FullPlanned(p, again)
  <2>1. f = [p EXCEPT !.full = TRUE, !.reset = again, !.keys = all, !.read = log]
    BY DEF FullPlanned
  <2> HIDE DEF f, all, log
  <2>2. /\ f.full /\ f.head = head /\ f.base = base /\ f.keys = all /\ f.read = log
        /\ f.restored = {} /\ f.dropped = {} /\ f.moved = {}
    BY <1>1, <2>1
  <2> QED BY <2>2 DEF f
<1> QED BY <1>2, <1>4, <1>5

\* PlanFull plans a collection from scratch.
LEMMA PlanFullGivesFullPlan ==
  ASSUME RepoOK, head \in Commits, NEW p, NEW base, NEW reset, FreshPlan(p, base, reset), NEW again
  PROVE  IsFullPlan(FullPlanned(p, again)) /\ FullPlanned(p, again).base = base
<1> DEFINE q == FullPlanned(p, again)
<1>1. /\ p.head = head
      /\ q.full /\ q.head = head /\ q.base = base
      /\ q.keys = OrderKeys(Reach[p.head], <<>>) /\ q.read = Logged(Reach[p.head])
      /\ q.restored = {} /\ q.dropped = {} /\ q.moved = {}
  BY FreshPlanFields
<1> HIDE DEF q
<1>2. q.keys = [d \in Reach[head] |-> Keys[d]]
  BY <1>1, FullKeysAre
<1> QED BY <1>1, <1>2 DEF IsFullPlan, Logged, q

\* A stored commit has one row.
LEMMA IdsAre ==
  ASSUME NEW s, IsStore(db.store, s)
  PROVE  /\ Stored(db) = Shas(db.store)
         /\ \A c \in Stored(db) : IdOf(db, c) \in DOMAIN db.store /\ db.store[IdOf(db, c)].sha = c
         /\ \A S : {IdOf(db, c) : c \in S \cap Stored(db)} = IdsOf(db.store, S)
<1>1. Stored(db) = Shas(db.store)
  BY DEF Stored, Shas
<1>2. \A c \in Stored(db) : IdOf(db, c) \in DOMAIN db.store /\ db.store[IdOf(db, c)].sha = c
  <2> TAKE c \in Stored(db)
  <2>1. \E i \in DOMAIN db.store : db.store[i].sha = c  BY DEF Stored
  <2> QED BY <2>1 DEF IdOf
<1>3. \A i \in DOMAIN db.store : db.store[i].sha \in Stored(db) /\ IdOf(db, db.store[i].sha) = i
  <2> TAKE i \in DOMAIN db.store
  <2>1. db.store[i].sha \in Stored(db)  BY DEF Stored
  <2> QED BY <2>1, <1>2 DEF IsStore
<1>4. ASSUME NEW S PROVE {IdOf(db, c) : c \in S \cap Stored(db)} = IdsOf(db.store, S)
  BY <1>2, <1>3 DEF IdsOf
<1> QED BY <1>1, <1>2, <1>4

\* The parts of an incremental plan.
LEMMA PlanSyncParts ==
  ASSUME NEW p, NEW base, p.head = head, p.base = base
  PROVE  /\ Arrived(p) = ArrivedSince(base) /\ Departed(p) = DepartedSince(base)
         /\ Unread(p) = ArrivedSince(base) \ Stored(db)
         /\ MergesMoved(p) <=> \E c \in ArrivedSince(base) \cup DepartedSince(base) : IsMerge(c)
         /\ ChangedPaths(p.base, p.head) = {q \in scope : Tree[base][q] # Tree[head][q]}
<1>1. Arrived(p) = ArrivedSince(base) /\ Departed(p) = DepartedSince(base)
  BY DEF Arrived, Departed, RevList, ArrivedSince, DepartedSince
<1> QED BY <1>1 DEF Unread, MergesMoved, ChangedPaths

\* The log between HEAD and the boundary lists the commits that are unread:
\* what stored commits reach is stored too.
LEMMA UnreadLogIs ==
  ASSUME RepoOK, scope \subseteq Paths, head \in Commits, NEW base \in Commits,
         StoreAt(db.store, scope, base),
         NEW p, p.head = head, p.base = base, UnreadLog(p) \subseteq Unread(p)
  PROVE  UnreadLog(p) = LoggedIn(Unread(p), scope)
<1>1. /\ Unread(p) = (Reach[head] \ Reach[base]) \ Stored(db) /\ Stored(db) = Shas(db.store)
      /\ Unread(p) \subseteq Commits /\ Reach[head] \subseteq Commits
  BY PlanSyncParts, ReachIsOrder DEF ArrivedSince, Stored, Shas
<1>2. CASE ~\E c \in Unread(p) : ~IsMerge(c)
  <2>1. UnreadLog(p) = {}  BY <1>2 DEF UnreadLog
  <2>2. LoggedIn(Unread(p), scope) = {}  BY <1>2 DEF LoggedIn
  <2> QED BY <2>1, <2>2
<1>3. CASE \E c \in Unread(p) : ~IsMerge(c)
  <2> DEFINE R == RevList(head, Boundary(p))
  <2>1. UnreadLog(p) = LoggedIn(R, scope)  BY <1>3 DEF UnreadLog, Logged
  <2>2. \A e \in Boundary(p) : Reach[e] \subseteq Reach[base] \cup Stored(db)
    <3> TAKE e \in Boundary(p)
    <3>1. CASE e = base  BY <3>1
    <3>2. CASE e \in Stored(db)
      <4>1. PICK i \in DOMAIN db.store : db.store[i].sha = e  BY <3>2 DEF Stored
      <4>2. Reach[db.store[i].sha] \subseteq Shas(db.store)  BY DEF StoreAt
      <4>3. Reach[e] \subseteq Stored(db)  BY <4>1, <4>2, <1>1
      <4> QED BY <4>3
    <3>3. e \in {p.base} \/ e \in Stored(db)  BY DEF Boundary
    <3> QED BY <3>1, <3>2, <3>3
  <2>3. Unread(p) \subseteq R  BY <1>1, <2>2 DEF RevList
  <2>4. R \subseteq Commits  BY <1>1 DEF RevList
  <2> HIDE DEF R
  <2>5. LoggedIn(Unread(p), scope) = Unread(p) \cap LoggedIn(Commits, scope)  BY <1>1, LoggedFacts
  <2>6. LoggedIn(R, scope) = R \cap LoggedIn(Commits, scope)  BY <2>4, LoggedFacts
  <2> QED BY <2>1, <2>3, <2>5, <2>6
<1> QED BY <1>2, <1>3

\* Commits that are unread get the keys of the repository.
LEMMA UnreadKeys ==
  ASSUME RepoOK, head \in Commits, NEW base \in Commits, NEW p, p.head = head, p.base = base,
         NEW s, IsStore(db.store, s), StoreMatches(p)
  PROVE  OrderKeys(Unread(p), KeysOf(db)) = [c \in Unread(p) |-> Keys[c]]
<1>1. \A c \in Stored(db) : IdOf(db, c) \in DOMAIN db.store /\ db.store[IdOf(db, c)].sha = c
  BY IdsAre
<1>2. Unread(p) \subseteq Commits
  BY PlanSyncParts, ReachIsOrder DEF ArrivedSince
<1> DEFINE pending == Unread(p)
           known == KeysOf(db)
<1>3. DOMAIN known = Stored(db)  BY DEF KeysOf
<1>4. \A c \in Stored(db) : known[c] = Keys[c]
  <2> TAKE c \in Stored(db)
  <2>1. known[c] = db.store[IdOf(db, c)].key  BY DEF KeysOf
  <2> QED BY <2>1, <1>1 DEF IsStore, IsRow
<1>5. \A c \in pending : repo.parents[c] \subseteq pending \cup Stored(db)
  BY DEF StoreMatches
<1>6. /\ pending \subseteq Commits
      /\ \A c \in pending : repo.parents[c] \subseteq pending \cup DOMAIN known
      /\ \A x \in DOMAIN known : known[x] = Keys[x]
  BY <1>3, <1>4, <1>5, <1>2
<1>7. IsGraph(repo)  BY DEF RepoOK
<1>8. OrderKeys(pending, known) = [c \in pending |-> Keys[c]]
  <2> HIDE DEF pending, known
  <2> QED BY ONLY <1>6, <1>7, KeysOfPart
<1> QED BY <1>8

\* PlanSync plans to move the store, if it is that of the base.
LEMMA PlanSyncGivesSyncPlan ==
  ASSUME RepoOK, scope \subseteq Paths, head \in Commits, NEW base \in Commits, NEW p, NEW reset,
         FreshPlan(p, base, reset), StoreAt(db.store, scope, base), StoreMatches(p)
  PROVE  IsSyncPlan(SyncPlanned(p), db)
<1> DEFINE q == SyncPlanned(p)
<1>1. /\ p.head = head /\ p.base = base
      /\ ~q.full /\ q.head = head /\ q.base = base
      /\ q.keys = OrderKeys(Unread(p), KeysOf(db)) /\ q.read = UnreadLog(p)
      /\ q.restored = {IdOf(db, c) : c \in Arrived(p) \ Unread(p)}
      /\ q.dropped = {IdOf(db, c) : c \in Departed(p)}
      /\ q.moved = IF MergesMoved(p) THEN ChangedPaths(p.base, p.head) ELSE {}
  BY FreshPlanFields
<1> HIDE DEF q
<1>2. /\ Arrived(p) = ArrivedSince(base) /\ Departed(p) = DepartedSince(base)
      /\ Unread(p) = ArrivedSince(base) \ Stored(db)
      /\ MergesMoved(p) <=> \E c \in ArrivedSince(base) \cup DepartedSince(base) : IsMerge(c)
      /\ ChangedPaths(p.base, p.head) = {x \in scope : Tree[base][x] # Tree[head][x]}
  BY <1>1, PlanSyncParts
<1>3. IsStore(db.store, scope) /\ Reach[base] \subseteq Shas(db.store)
  BY DEF StoreAt
<1>4. /\ Stored(db) = Shas(db.store)
      /\ \A c \in Stored(db) : IdOf(db, c) \in DOMAIN db.store /\ db.store[IdOf(db, c)].sha = c
      /\ \A S : {IdOf(db, c) : c \in S \cap Stored(db)} = IdsOf(db.store, S)
  BY <1>3, IdsAre
<1>5. Unread(p) \subseteq Commits
  BY <1>2, ReachIsOrder DEF ArrivedSince
<1>6. OrderKeys(Unread(p), KeysOf(db)) = [c \in Unread(p) |-> Keys[c]]
  BY <1>1, <1>3, UnreadKeys
<1>7. UnreadLog(p) = LoggedIn(Unread(p), scope)
  BY <1>1, UnreadLogIs DEF StoreMatches
<1>8. Arrived(p) \ Unread(p) = ArrivedSince(base) \cap Stored(db)
  BY <1>2
<1>9. Departed(p) = DepartedSince(base) \cap Stored(db)
  BY <1>2, <1>3, <1>4 DEF DepartedSince
<1>10. q.restored = IdsOf(db.store, ArrivedSince(base)) /\ q.dropped = IdsOf(db.store, DepartedSince(base))
  BY <1>1, <1>4, <1>8, <1>9
<1>11. DOMAIN q.keys = ArrivedSince(base) \ Shas(db.store) /\ \A c \in DOMAIN q.keys : q.keys[c] = Keys[c]
  BY <1>1, <1>2, <1>4, <1>6
<1>12. q.read = LoggedIn(ArrivedSince(base) \ Shas(db.store), scope)
  BY <1>1, <1>2, <1>4, <1>7
<1>13. q.moved = IF \E c \in ArrivedSince(base) \cup DepartedSince(base) : IsMerge(c)
                 THEN {x \in scope : Tree[base][x] # Tree[head][x]} ELSE {}
  BY ONLY <1>1, <1>2
<1>14. /\ q.base \in Commits
       /\ q.base = base
  BY <1>1
<1> QED BY ONLY <1>1, <1>10, <1>11, <1>12, <1>13, <1>14 DEF IsSyncPlan, q

\* What a plan names, whatever has become of the cursor meanwhile.
Named(p) ==
  /\ DOMAIN p.keys \subseteq Commits /\ p.read \subseteq DOMAIN p.keys
  /\ p.restored \cup p.dropped \subseteq 1..MaxCommitId

\* PlanSync names commits of the repository and rows of the store.
LEMMA PlanSyncNames ==
  ASSUME RepoOK, scope \subseteq Paths, head \in Commits, NEW base \in Commits, NEW p, NEW reset,
         FreshPlan(p, base, reset), NEW s, IsStore(db.store, s), DOMAIN db.store \subseteq 1..MaxCommitId,
         StoreMatches(p)
  PROVE  Named(SyncPlanned(p)) /\ ~SyncPlanned(p).full /\ SyncPlanned(p).head = head /\ SyncPlanned(p).base = base
<1> DEFINE q == SyncPlanned(p)
<1>1. /\ p.head = head /\ p.base = base
      /\ ~q.full /\ q.head = head /\ q.base = base
      /\ q.keys = OrderKeys(Unread(p), KeysOf(db)) /\ q.read = UnreadLog(p)
      /\ q.restored = {IdOf(db, c) : c \in Arrived(p) \ Unread(p)}
      /\ q.dropped = {IdOf(db, c) : c \in Departed(p)}
  BY FreshPlanFields
<1> HIDE DEF q
<1>2. /\ Arrived(p) = ArrivedSince(base) /\ Departed(p) = DepartedSince(base)
      /\ Unread(p) = ArrivedSince(base) \ Stored(db)
  BY <1>1, PlanSyncParts
<1>3. \A c \in Stored(db) : IdOf(db, c) \in 1..MaxCommitId
  BY IdsAre
<1>4. DOMAIN q.keys = Unread(p)
  BY <1>1, UnreadKeys
<1>5. \A c \in Departed(p) : c \in Stored(db)
  BY DEF StoreMatches, IsLive
<1>6. Unread(p) \subseteq Commits /\ UnreadLog(p) \subseteq Unread(p)
  BY <1>2, ReachIsOrder DEF ArrivedSince, StoreMatches
<1>7. \A c \in Arrived(p) \ Unread(p) : c \in Stored(db)
  BY <1>2
<1>8. q.restored \subseteq 1..MaxCommitId /\ q.dropped \subseteq 1..MaxCommitId
  BY <1>1, <1>3, <1>5, <1>7
<1> QED BY <1>1, <1>4, <1>6, <1>8 DEF Named, q

\* A fold gives a history for every path.
LEMMA FullFoldType ==
  ASSUME RepoOK, NEW s, s \subseteq Paths, NEW X, X \subseteq Commits
  PROVE  FullFold(X, s) \in PathHistories
<1> DEFINE at == [c \in X |-> NumstatIn(c, s)]
           key == [c \in X |-> Keys[c]]
<1>1. IsFoldInput(X, key, at)
  BY KeysEquation, NumstatFacts DEF IsFoldInput, RepoOK
<1>2. PICK F : IsFold(F, X, key, at) /\ FoldHistory(X, key, at) = F[X]
  <2> HIDE DEF at, key
  <2> QED BY ONLY RepoOK, <1>1, FoldUnfolds
<1>3. FoldHistory(X, key, at) \in PathHistories
  <2> HIDE DEF at, key
  <2>1. X \in SUBSET X  OBVIOUS
  <2> QED BY <1>2, <2>1 DEF IsFold
<1> QED BY <1>3 DEF FullFold

\* Types of what is derived from a store.
IsResult(f) ==
  /\ f.commits \in Nat /\ f.paths \in 0..Cardinality(Paths)
  /\ \A q \in Paths : f.rows[q] # None => f.rows[q].counts \in [Commits -> Nat] /\ f.rows[q].lines \in Commits

\* What a collection finds has its type.
LEMMA CollectionType ==
  ASSUME RepoOK, IsFiniteSet(Paths), NEW s, s \subseteq Paths, NEW c \in Commits
  PROVE  IsResult(FullCollection(s, c))
<1> DEFINE F == FullFold(Reach[c], s)
           f == FullCollection(s, c)
<1>1. Reach[c] \subseteq Commits
  BY ReachIsOrder
<1>2. F \in PathHistories
  BY <1>1, FullFoldType
<1>3. /\ f.rows = RowsOf(F, Tree[c]) /\ f.commits = Cardinality(LoggedIn(Reach[c], s))
      /\ f.paths = Cardinality(Dirty(F))
  BY FullCollectionIs
<1>4. f.commits \in Nat
  <2>1. LoggedIn(Reach[c], s) \subseteq Commits  BY <1>1 DEF LoggedIn
  <2>2. IsFiniteSet(LoggedIn(Reach[c], s))  BY <2>1, GraphFacts, FS_Subset
  <2> QED BY <1>3, <2>2, FS_CardinalityType
<1>5. f.paths \in 0..Cardinality(Paths)
  <2>1. Dirty(F) \subseteq Paths  BY DEF Dirty
  <2>2. IsFiniteSet(Dirty(F)) /\ Cardinality(Dirty(F)) <= Cardinality(Paths)  BY <2>1, FS_Subset
  <2>3. Cardinality(Dirty(F)) \in Nat /\ Cardinality(Paths) \in Nat  BY <2>2, FS_CardinalityType
  <2> QED BY <1>3, <2>2, <2>3
<1>6. ASSUME NEW q \in Paths, f.rows[q] # None
      PROVE  f.rows[q].counts \in [Commits -> Nat] /\ f.rows[q].lines \in Commits
  <2>1. Tree[c][q] \in {Absent} \cup Commits  BY DEF RepoOK
  <2>2. F[q] \in [Commits -> Nat]  BY <1>2 DEF PathHistories
  <2>3. f.rows[q] = [counts |-> F[q], lines |-> Tree[c][q]] /\ Tree[c][q] # Absent
    BY <1>3, <1>6 DEF RowsOf
  <2> QED BY <2>1, <2>2, <2>3
<1> HIDE DEF f
<1> QED BY <1>4, <1>5, <1>6 DEF IsResult, f

(***************************************************************************)
(* The invariant.                                                          *)
(***************************************************************************)

\* A history that has been collected is that of its own scope and cursor.
WellKept(d) ==
  /\ d.cursor \in Commits /\ d.scope \in bounds.scopes
  /\ StoreAt(d.store, d.scope, d.cursor) /\ DOMAIN d.store \subseteq 1..MaxCommitId
  /\ Collected(d, d.scope, d.cursor)

KeptRight(d) == d = NoHistory \/ WellKept(d)

\* What never changes.
RigidInv ==
  /\ RepoOK
  /\ bounds.scopes \subseteq SUBSET Paths /\ bounds.collectors \subseteq Collectors
  /\ bounds.rebuilds \in Nat /\ bounds.rescopes \in Nat
  /\ fullAt = [s \in bounds.scopes |-> [c \in Commits |-> FullCollection(s, c)]]

\* The histories, in the index and staged, are right.
KeptInv ==
  /\ RigidInv
  /\ head \in Commits /\ scope \in bounds.scopes
  /\ KeptRight(db) /\ (staged # None => KeptRight(staged))
  /\ rebuilds \in 0..bounds.rebuilds /\ rescopes \in 0..bounds.rescopes

\* As long as collectors are at work HEAD stays, so that the cursor is where
\* the plan found it or already at HEAD.
BaseOK(base) == base = None \/ (base \in Commits /\ db.cursor \in {base, head} /\ db.scope = scope)

\* An incremental plan is right as long as the cursor is still at its base.
SyncPlanOK(p) ==
  /\ ~p.full /\ p.base # None /\ Named(p)
  /\ db.cursor = p.base => IsSyncPlan(p, db)

\* Where a collector is, and what its plan says there.
PlanOK(k) ==
  /\ pc[k] \in {"idle", "resolved", "planned"}
  /\ pc[k] = "idle" => plan[k] = NoPlan
  /\ pc[k] # "idle" => plan[k].head = head /\ BaseOK(plan[k].base)
  /\ pc[k] = "resolved" => FreshPlan(plan[k], plan[k].base, plan[k].reset)
  /\ pc[k] = "planned" => IsFullPlan(plan[k]) \/ SyncPlanOK(plan[k])

PlansInv ==
  /\ DOMAIN pc = Collectors /\ pc = [k \in Collectors |-> pc[k]]
  /\ DOMAIN plan = Collectors /\ plan = [k \in Collectors |-> plan[k]]
  /\ \A k \in Collectors : PlanOK(k)

HistoryInv == KeptInv /\ PlansInv

\* A history stays right as long as the repository stays.
LEMMA RigidStays ==
  ASSUME UNCHANGED rigid
  PROVE  /\ RigidInv => RigidInv'
         /\ \A d : KeptRight(d)' <=> KeptRight(d)
<1>1. repo' = repo /\ bounds' = bounds /\ fullAt' = fullAt
  BY DEF rigid
<1>2. \A d : KeptRight(d)' <=> KeptRight(d)
  BY <1>1, StoreStays, CollectionStays DEF KeptRight, WellKept, Collected, Commits, NoHistory
<1>3. RigidInv => RigidInv'
  BY <1>1, RepoStays, CollectionStays DEF RigidInv, Commits
<1> QED BY <1>2, <1>3

\* Steps that only plan leave histories alone.
LEMMA KeptStays ==
  ASSUME KeptInv, UNCHANGED <<rigid, head, scope, db, staged, rebuilds, rescopes>>
  PROVE  KeptInv'
<1>1. RigidInv' /\ \A d : KeptRight(d)' <=> KeptRight(d)
  BY RigidStays DEF KeptInv
<1>2. Commits' = Commits /\ bounds' = bounds
  BY DEF Commits, rigid
<1> QED BY <1>1, <1>2 DEF KeptInv

\* A plan of another collector stays right as long as the history stays.
LEMMA PlanStays ==
  ASSUME repo' = repo, head' = head, scope' = scope, db' = db, NEW k, plan'[k] = plan[k], pc'[k] = pc[k], PlanOK(k)
  PROVE  PlanOK(k)'
<1>1. \A base : BaseOK(base)' <=> BaseOK(base)
  BY DEF BaseOK, Commits
<1>2. \A p : IsFullPlan(p)' <=> IsFullPlan(p)
  BY FullPlanStays
<1>3. \A p : SyncPlanOK(p)' <=> SyncPlanOK(p)
  <2>1. \A p : Named(p)' <=> Named(p)  BY DEF Named, Commits
  <2>2. \A p, d : IsSyncPlan(p, d)' <=> IsSyncPlan(p, d)  BY SyncPlanStays
  <2> QED BY <2>1, <2>2 DEF SyncPlanOK
<1>4. \A p, base, reset : FreshPlan(p, base, reset)' <=> FreshPlan(p, base, reset)
  BY DEF FreshPlan, NoPlan
<1> QED BY <1>1, <1>2, <1>3, <1>4 DEF PlanOK, NoPlan

(***************************************************************************)
(* The steps of collectors.                                                *)
(***************************************************************************)
\* What the invariant says of the repository, HEAD and the scope.
LEMMA ScopeIsPaths ==
  ASSUME KeptInv
  PROVE  RepoOK /\ IsFiniteSet(Paths) /\ scope \subseteq Paths /\ head \in Commits /\ None \notin Commits
BY HistoryAssumption, GraphFacts DEF KeptInv, RigidInv

\* A plan that a collector may have at a position.
PlanMayBe(p, at) ==
  /\ at \in {"idle", "resolved", "planned"}
  /\ at = "idle" => p = NoPlan
  /\ at # "idle" => p.head = head /\ BaseOK(p.base)
  /\ at = "resolved" => FreshPlan(p, p.base, p.reset)
  /\ at = "planned" => IsFullPlan(p) \/ SyncPlanOK(p)

\* A step of one collector keeps the plans of all.
LEMMA OnePlanChanges ==
  ASSUME PlansInv, repo' = repo, head' = head, scope' = scope, db' = db,
         NEW k \in Collectors, NEW p, NEW at, PlanMayBe(p, at),
         plan' = [plan EXCEPT ![k] = p], pc' = [pc EXCEPT ![k] = at]
  PROVE  PlansInv'
<1>1. /\ DOMAIN pc' = Collectors /\ pc' = [j \in Collectors |-> pc'[j]]
      /\ DOMAIN plan' = Collectors /\ plan' = [j \in Collectors |-> plan'[j]]
      /\ plan'[k] = p /\ pc'[k] = at
      /\ \A j \in Collectors \ {k} : plan'[j] = plan[j] /\ pc'[j] = pc[j]
  BY DEF PlansInv
<1>2. \A j \in Collectors \ {k} : PlanOK(j)'
  BY <1>1, PlanStays DEF PlansInv
<1>3. PlanOK(k)'
  <2>1. \A base : BaseOK(base)' <=> BaseOK(base)
    BY DEF BaseOK, Commits
  <2>2. \A q : IsFullPlan(q)' <=> IsFullPlan(q)
    BY FullPlanStays
  <2>3. \A q : SyncPlanOK(q)' <=> SyncPlanOK(q)
    <3>1. \A q : Named(q)' <=> Named(q)  BY DEF Named, Commits
    <3>2. \A q, d : IsSyncPlan(q, d)' <=> IsSyncPlan(q, d)  BY SyncPlanStays
    <3> QED BY <3>1, <3>2 DEF SyncPlanOK
  <2>4. \A q, base, reset : FreshPlan(q, base, reset)' <=> FreshPlan(q, base, reset)
    BY DEF FreshPlan, NoPlan
  <2> QED BY <1>1, <2>1, <2>2, <2>3, <2>4 DEF PlanOK, PlanMayBe, NoPlan
<1> QED BY <1>1, <1>2, <1>3 DEF PlansInv

\* Reading the cursor keeps the invariant.
LEMMA ResolveKeeps ==
  ASSUME HistoryInv, NEW k \in bounds.collectors, NEW full, Resolve(k, full)
  PROVE  HistoryInv'
<1>1. k \in Collectors /\ None \notin Commits
  BY ScopeIsPaths DEF HistoryInv, KeptInv, RigidInv
<1> DEFINE base == IF full \/ db.scope # scope THEN None ELSE db.cursor
           reset == IF ~full /\ db.cursor # None /\ base = None THEN "scope" ELSE "none"
           p == [NoPlan EXCEPT !.head = head, !.base = base, !.reset = reset]
<1>2. BaseOK(base)
  <2>1. CASE db = NoHistory
    BY <2>1 DEF BaseOK, NoHistory
  <2>2. CASE WellKept(db)
    BY <2>2 DEF BaseOK, WellKept
  <2> QED BY <2>1, <2>2 DEF HistoryInv, KeptInv, KeptRight
<1>3. plan' = [plan EXCEPT ![k] = p] /\ pc' = [pc EXCEPT ![k] = "resolved"]
      /\ UNCHANGED <<rigid, head, scope, db, staged, rebuilds, rescopes>>
  BY DEF Resolve
<1> HIDE DEF base, reset
<1>4. p.head = head /\ p.base = base /\ p.reset = reset
  BY DEF NoPlan
<1>5. FreshPlan(p, p.base, p.reset)
  BY <1>4 DEF FreshPlan
<1>6. PlanMayBe(p, "resolved")
  <2> HIDE DEF p
  <2> QED BY <1>2, <1>4, <1>5 DEF PlanMayBe
<1> HIDE DEF p
<1>7. PlansInv'
  BY <1>1, <1>3, <1>6, OnePlanChanges DEF HistoryInv, rigid
<1>8. KeptInv'
  BY <1>3, KeptStays DEF HistoryInv
<1> QED BY <1>7, <1>8 DEF HistoryInv

\* So does a plan that is right.
LEMMA PlannedKeeps ==
  ASSUME HistoryInv, NEW k \in bounds.collectors, NEW p, PlanMayBe(p, "planned"), Planned(k, p)
  PROVE  HistoryInv'
<1>1. k \in Collectors
  BY DEF HistoryInv, KeptInv, RigidInv
<1>2. /\ plan' = [plan EXCEPT ![k] = p] /\ pc' = [pc EXCEPT ![k] = "planned"]
      /\ UNCHANGED <<rigid, head, scope, db, staged, rebuilds, rescopes>>
  BY DEF Planned
<1>3. PlansInv'
  BY <1>1, <1>2, OnePlanChanges DEF HistoryInv, rigid
<1>4. KeptInv'
  BY <1>2, KeptStays DEF HistoryInv
<1> QED BY <1>3, <1>4 DEF HistoryInv

\* So does planning from the difference of two histories.
LEMMA PlanSyncKeeps ==
  ASSUME HistoryInv, NEW k \in bounds.collectors, PlanSync(k)
  PROVE  HistoryInv'
<1>0. KeptInv
  BY DEF HistoryInv
<1>1. /\ k \in Collectors
      /\ RepoOK /\ scope \subseteq Paths /\ head \in Commits
  BY <1>0, ScopeIsPaths DEF KeptInv, RigidInv
<1> DEFINE p == plan[k]
           q == SyncPlanned(p)
           base == p.base
<1>2. p.base # None /\ StoreMatches(p) /\ Planned(k, q) /\ pc[k] = "resolved"
  BY DEF PlanSync, SyncPlanned
<1>3. FreshPlan(p, p.base, p.reset) /\ p.head = head /\ BaseOK(p.base)
  BY <1>1, <1>2 DEF HistoryInv, PlansInv, PlanOK
<1>4. base \in Commits /\ db.cursor \in {base, head} /\ db.scope = scope
  BY <1>2, <1>3 DEF BaseOK
<1>5. WellKept(db)
  <2>1. db.cursor # None  BY <1>1, <1>4, GraphFacts
  <2> QED BY <1>0, <2>1 DEF KeptInv, KeptRight, NoHistory
<1>6. /\ StoreAt(db.store, scope, db.cursor) /\ IsStore(db.store, scope)
      /\ DOMAIN db.store \subseteq 1..MaxCommitId
  BY <1>4, <1>5 DEF WellKept, StoreAt
<1>7. Named(q) /\ ~q.full /\ q.head = head /\ q.base = base
  <2> HIDE DEF p
  <2> QED BY <1>1, <1>2, <1>3, <1>4, <1>6, PlanSyncNames
<1>8. db.cursor = base => IsSyncPlan(q, db)
  <2> HAVE db.cursor = base
  <2>1. StoreAt(db.store, scope, base)  BY <1>6
  <2> HIDE DEF p
  <2> QED BY <1>1, <1>2, <1>3, <1>4, <2>1, PlanSyncGivesSyncPlan
<1> HIDE DEF q, p
<1>9. PlanMayBe(q, "planned")
  BY <1>2, <1>3, <1>7, <1>8 DEF PlanMayBe, SyncPlanOK
<1> QED BY <1>2, <1>9, PlannedKeeps

\* So does planning to collect from scratch.
LEMMA PlanFullKeeps ==
  ASSUME HistoryInv, NEW k \in bounds.collectors, PlanFull(k)
  PROVE  HistoryInv'
<1>0. KeptInv
  BY DEF HistoryInv
<1>1. k \in Collectors /\ RepoOK /\ head \in Commits
  BY <1>0, ScopeIsPaths DEF KeptInv, RigidInv
<1> DEFINE p == plan[k]
<1>2. pc[k] = "resolved" /\ \E reset \in {"none", "scope", "gone", "overflow", "mismatch"} :
        Planned(k, FullPlanned(p, reset))
  BY DEF PlanFull, FullPlanned
<1>3. FreshPlan(p, p.base, p.reset) /\ p.head = head /\ BaseOK(p.base)
  BY <1>1, <1>2 DEF HistoryInv, PlansInv, PlanOK
<1> HIDE DEF p
<1>4. PICK reset \in {"none", "scope", "gone", "overflow", "mismatch"} : Planned(k, FullPlanned(p, reset))
  BY <1>2
<1>5. IsFullPlan(FullPlanned(p, reset)) /\ FullPlanned(p, reset).base = p.base
  BY <1>1, <1>3, PlanFullGivesFullPlan
<1>6. FullPlanned(p, reset).head = head
  BY <1>5 DEF IsFullPlan
<1>7. PlanMayBe(FullPlanned(p, reset), "planned")
  BY <1>3, <1>5, <1>6 DEF PlanMayBe
<1> QED BY <1>4, <1>7, PlannedKeeps

\* So does giving up, at any moment.
LEMMA GiveUpKeeps ==
  ASSUME HistoryInv, NEW k \in bounds.collectors, GiveUp(k)
  PROVE  HistoryInv'
<1>1. k \in Collectors
  BY DEF HistoryInv, KeptInv, RigidInv
<1>2. /\ plan' = [plan EXCEPT ![k] = NoPlan] /\ pc' = [pc EXCEPT ![k] = "idle"]
      /\ UNCHANGED <<rigid, head, scope, db, staged, rebuilds, rescopes>>
  BY DEF GiveUp, Done
<1>3. PlanMayBe(NoPlan, "idle")
  BY DEF PlanMayBe
<1>4. PlansInv'
  BY <1>1, <1>2, <1>3, OnePlanChanges DEF HistoryInv, rigid
<1>5. KeptInv'
  BY <1>2, KeptStays DEF HistoryInv
<1> QED BY <1>4, <1>5 DEF HistoryInv

\* A plan from HEAD to HEAD has nothing to do in any store: it stays right
\* when another collector has moved the cursor to where it already was.
LEMMA EmptySync ==
  ASSUME NEW p, NEW d, NEW e, IsSyncPlan(p, d), p.base = head
  PROVE  IsSyncPlan(p, e)
<1>1. ArrivedSince(p.base) = {} /\ DepartedSince(p.base) = {}
  BY DEF ArrivedSince, DepartedSince
<1>2. \A S : LoggedIn({} \ S, scope) = {}
  BY DEF LoggedIn
<1>3. \A store : IdsOf(store, {}) = {}
  BY DEF IdsOf
<1> QED BY <1>1, <1>2, <1>3 DEF IsSyncPlan

\* Applying a plan keeps the invariant, and the plans of other collectors are
\* either outdated by it or have nothing to do.
LEMMA ApplyKeeps ==
  ASSUME HistoryInv, NEW k \in bounds.collectors, Apply(k)
  PROVE  HistoryInv'
<1>0. KeptInv
  BY DEF HistoryInv
<1>1. /\ k \in Collectors /\ scope \in bounds.scopes
      /\ RepoOK /\ IsFiniteSet(Paths) /\ scope \subseteq Paths /\ head \in Commits /\ None \notin Commits
  BY <1>0, ScopeIsPaths DEF KeptInv, RigidInv
<1> DEFINE p == plan[k]
<1>2. PICK new : new = Applied(db, p)
  OBVIOUS
<1>3. /\ pc[k] = "planned" /\ ~Outdated(p)
      /\ DOMAIN new.store \subseteq 1..MaxCommitId /\ db' = new
      /\ Done(k)
  BY <1>2 DEF Apply
<1>4. p.head = head /\ BaseOK(p.base) /\ (IsFullPlan(p) \/ SyncPlanOK(p))
  BY <1>1, <1>3 DEF HistoryInv, PlansInv, PlanOK
<1> HIDE DEF p
<1>5. /\ StoreAt(new.store, scope, head) /\ new.cursor = head /\ new.scope = scope
      /\ Collected(new, scope, head)
  <2>1. CASE IsFullPlan(p)
    BY <1>1, <1>2, <2>1, FullApplied
  <2>2. CASE SyncPlanOK(p)
    <3>1. ~p.full /\ p.base # None /\ (db.cursor = p.base => IsSyncPlan(p, db))
      BY <2>2 DEF SyncPlanOK
    <3>2. db.cursor = p.base /\ db.scope = scope /\ p.base \in Commits
      BY <1>3, <1>4, <3>1 DEF Outdated, BaseOK
    <3>3. WellKept(db)
      <4>1. db.cursor # None  BY <1>1, <3>2
      <4> QED BY <1>0, <4>1 DEF KeptInv, KeptRight, NoHistory
    <3>4. StoreAt(db.store, scope, p.base) /\ Collected(db, scope, p.base)
      BY <3>2, <3>3 DEF WellKept
    <3>5. IsSyncPlan(p, db)
      BY <3>1, <3>2
    <3> QED BY <1>1, <1>2, <3>4, <3>5, SyncApplied
  <2> QED BY <1>4, <2>1, <2>2
<1>6. KeptRight(new)
  BY <1>1, <1>3, <1>5 DEF KeptRight, WellKept
<1>7. UNCHANGED <<rigid, head, scope, staged, rebuilds, rescopes>>
      /\ plan' = [plan EXCEPT ![k] = NoPlan] /\ pc' = [pc EXCEPT ![k] = "idle"]
  BY <1>3 DEF Done
<1>8. KeptInv'
  <2>1. RigidInv' /\ \A d : KeptRight(d)' <=> KeptRight(d)
    BY <1>0, <1>7, RigidStays DEF KeptInv
  <2>2. KeptRight(db)'
    BY <1>3, <1>6, <2>1
  <2>3. Commits' = Commits /\ bounds' = bounds
    BY <1>7 DEF Commits, rigid
  <2> QED BY <1>0, <1>7, <2>1, <2>2, <2>3 DEF KeptInv
<1>9. /\ DOMAIN pc' = Collectors /\ pc' = [j \in Collectors |-> pc'[j]]
      /\ DOMAIN plan' = Collectors /\ plan' = [j \in Collectors |-> plan'[j]]
      /\ plan'[k] = NoPlan /\ pc'[k] = "idle"
      /\ \A j \in Collectors \ {k} : plan'[j] = plan[j] /\ pc'[j] = pc[j]
  BY <1>1, <1>7 DEF HistoryInv, PlansInv
<1>10. PlanOK(k)'
  BY <1>9 DEF PlanOK, NoPlan
<1>11. ASSUME NEW j \in Collectors \ {k} PROVE PlanOK(j)'
  <2>1. PlanOK(j)
    BY DEF HistoryInv, PlansInv
  <2>2. repo' = repo /\ head' = head /\ scope' = scope
    BY <1>7 DEF rigid
  <2>3. \A base : BaseOK(base) => BaseOK(base)'
    BY <1>3, <1>5, <2>2 DEF BaseOK, Commits
  <2>4. \A q : IsFullPlan(q)' <=> IsFullPlan(q)
    BY <2>2, FullPlanStays
  <2>5. \A q, d : IsSyncPlan(q, d)' <=> IsSyncPlan(q, d)
    BY <2>2, SyncPlanStays
  <2>6. \A q : Named(q)' <=> Named(q)
    BY <2>2 DEF Named, Commits
  <2>7. \A q, base, reset : FreshPlan(q, base, reset)' <=> FreshPlan(q, base, reset)
    BY <2>2 DEF FreshPlan, NoPlan
  <2>8. ASSUME NEW q, SyncPlanOK(q), BaseOK(q.base)
        PROVE  SyncPlanOK(q)'
    <3>1. ASSUME new.cursor = q.base PROVE IsSyncPlan(q, new)
      <4>1. q.base = head  BY <1>5, <3>1
      <4>2. db.cursor = q.base  BY <4>1, <2>8 DEF BaseOK, SyncPlanOK
      <4>3. IsSyncPlan(q, db)  BY <4>2, <2>8 DEF SyncPlanOK
      <4> QED BY <4>1, <4>3, EmptySync
    <3> QED BY <1>3, <2>5, <2>6, <2>8, <3>1 DEF SyncPlanOK
  <2>9. pc'[j] = pc[j] /\ plan'[j] = plan[j]
    BY <1>9
  <2> QED BY <2>1, <2>2, <2>3, <2>4, <2>7, <2>8, <2>9 DEF PlanOK, NoPlan
<1>12. PlansInv'
  BY <1>9, <1>10, <1>11 DEF PlansInv
<1> QED BY <1>8, <1>12 DEF HistoryInv

(***************************************************************************)
(* Around it.                                                              *)
(***************************************************************************)

\* Without collectors at work there is no plan that could be wrong.
LEMMA IdleKeeps ==
  ASSUME PlansInv, Idle, UNCHANGED <<pc, plan>>
  PROVE  PlansInv'
<1>1. \A k \in Collectors : pc[k] = "idle" /\ plan[k] = NoPlan
  BY DEF Idle, PlansInv, PlanOK
<1>2. \A k \in Collectors : PlanOK(k)'
  BY <1>1 DEF PlanOK, NoPlan
<1> QED BY <1>2 DEF PlansInv

\* Checking out another commit keeps the invariant, between collections.
LEMMA CheckoutKeeps ==
  ASSUME ~HeadMovesAnytime, HistoryInv, NEW c \in Commits, Checkout(c)
  PROVE  HistoryInv'
<1>1. Idle /\ head' = c /\ UNCHANGED <<rigid, scope, db, staged, pc, plan, rebuilds, rescopes>>
  BY DEF Checkout
<1>2. PlansInv'
  BY <1>1, IdleKeeps DEF HistoryInv
<1>3. KeptInv'
  <2>1. RigidInv' /\ \A d : KeptRight(d)' <=> KeptRight(d)
    BY <1>1, RigidStays DEF HistoryInv, KeptInv
  <2>2. Commits' = Commits /\ bounds' = bounds
    BY <1>1 DEF Commits, rigid
  <2> QED BY <1>1, <2>1, <2>2 DEF HistoryInv, KeptInv
<1> QED BY <1>2, <1>3 DEF HistoryInv

\* So does a change of the scope.
LEMMA RescopeKeeps ==
  ASSUME HistoryInv, NEW s \in bounds.scopes, Rescope(s)
  PROVE  HistoryInv'
<1>1. Idle /\ scope' = s /\ rescopes' = rescopes + 1 /\ rescopes < bounds.rescopes
      /\ UNCHANGED <<rigid, head, db, staged, pc, plan, rebuilds>>
  BY DEF Rescope
<1>2. PlansInv'
  BY <1>1, IdleKeeps DEF HistoryInv
<1>3. KeptInv'
  <2>1. RigidInv' /\ \A d : KeptRight(d)' <=> KeptRight(d)
    BY <1>1, RigidStays DEF HistoryInv, KeptInv
  <2>2. Commits' = Commits /\ bounds' = bounds
    BY <1>1 DEF Commits, rigid
  <2>3. rescopes' \in 0..bounds.rescopes
    BY <1>1 DEF HistoryInv, KeptInv, RigidInv
  <2> QED BY <1>1, <2>1, <2>2, <2>3 DEF HistoryInv, KeptInv
<1> QED BY <1>2, <1>3 DEF HistoryInv

\* So does a rebuild that carries the history over or leaves it behind.
LEMMA StageRebuildKeeps ==
  ASSUME HistoryInv, StageRebuild
  PROVE  HistoryInv'
<1>1. /\ staged' \in {db, NoHistory} /\ rebuilds' = rebuilds + 1 /\ rebuilds < bounds.rebuilds
      /\ UNCHANGED <<rigid, head, scope, db, pc, plan, rescopes>>
  BY DEF StageRebuild
<1>2. PlansInv'
  BY <1>1, PlanStays DEF HistoryInv, PlansInv, rigid
<1>3. KeptInv'
  <2>1. RigidInv' /\ \A d : KeptRight(d)' <=> KeptRight(d)
    BY <1>1, RigidStays DEF HistoryInv, KeptInv
  <2>2. Commits' = Commits /\ bounds' = bounds
    BY <1>1 DEF Commits, rigid
  <2>3. rebuilds' \in 0..bounds.rebuilds
    BY <1>1 DEF HistoryInv, KeptInv, RigidInv
  <2>4. KeptRight(db) /\ KeptRight(NoHistory)
    BY DEF HistoryInv, KeptInv, KeptRight
  <2>5. KeptRight(staged)'
    BY <1>1, <2>1, <2>4
  <2>6. KeptRight(db)'
    BY <1>1, <2>1, <2>4
  <2> QED BY <1>1, <2>1, <2>2, <2>3, <2>5, <2>6 DEF HistoryInv, KeptInv
<1> QED BY <1>2, <1>3 DEF HistoryInv

\* So does the publication of a rebuilt index.
LEMMA PublishRebuildKeeps ==
  ASSUME HistoryInv, PublishRebuild
  PROVE  HistoryInv'
<1>1. /\ Idle /\ staged # None /\ db' = staged /\ staged' = None
      /\ UNCHANGED <<rigid, head, scope, pc, plan, rebuilds, rescopes>>
  BY DEF PublishRebuild
<1>2. PlansInv'
  BY <1>1, IdleKeeps DEF HistoryInv
<1>3. KeptInv'
  <2>1. RigidInv' /\ \A d : KeptRight(d)' <=> KeptRight(d)
    BY <1>1, RigidStays DEF HistoryInv, KeptInv
  <2>2. Commits' = Commits /\ bounds' = bounds
    BY <1>1 DEF Commits, rigid
  <2>3. KeptRight(db)'
    BY <1>1, <2>1 DEF HistoryInv, KeptInv
  <2> QED BY <1>1, <2>1, <2>2, <2>3 DEF HistoryInv, KeptInv
<1> QED BY <1>2, <1>3 DEF HistoryInv

\* And so does nothing.
LEMMA StutterKeeps ==
  ASSUME HistoryInv, UNCHANGED vars
  PROVE  HistoryInv'
<1>1. PlansInv'
  BY PlanStays DEF HistoryInv, PlansInv, vars, rigid
<1>2. KeptInv'
  BY KeptStays DEF HistoryInv, vars
<1> QED BY <1>1, <1>2 DEF HistoryInv

\* There is no history at first.
LEMMA InitKeeps == Init => HistoryInv
<1> SUFFICES ASSUME Init PROVE HistoryInv
  OBVIOUS
<1>1. PICK i \in Instances :
        /\ repo = WithTrees(i.graph)
        /\ bounds = [collectors |-> i.collectors, scopes |-> i.scopes,
                     rebuilds |-> i.rebuilds, rescopes |-> i.rescopes]
  BY DEF Init
<1>2. WellFormed(i.graph) /\ i.collectors \subseteq Collectors /\ i.scopes \subseteq SUBSET Paths
      /\ i.rebuilds \in Nat /\ i.rescopes \in Nat
  BY HistoryAssumption
<1>3. RepoOK
  BY <1>1, <1>2, RepoIsOK
<1>4. /\ bounds.scopes = i.scopes /\ bounds.collectors = i.collectors
      /\ bounds.rebuilds = i.rebuilds /\ bounds.rescopes = i.rescopes
  BY <1>1
<1>5. RigidInv
  BY <1>2, <1>3, <1>4 DEF RigidInv, Init
<1>6. KeptInv
  BY <1>2, <1>4, <1>5 DEF KeptInv, Init, KeptRight
<1>7. PlansInv
  BY DEF Init, PlansInv, PlanOK, NoPlan
<1> QED BY <1>6, <1>7 DEF HistoryInv

\* Every step keeps the invariant if HEAD stays during collections.
LEMMA NextKeeps ==
  ASSUME ~HeadMovesAnytime, HistoryInv, [Next]_vars
  PROVE  HistoryInv'
<1>1. ASSUME NEW k \in bounds.collectors, NEW full \in BOOLEAN, Resolve(k, full) PROVE HistoryInv'
  BY <1>1, ResolveKeeps
<1>2. ASSUME NEW k \in bounds.collectors, PlanSync(k) PROVE HistoryInv'
  BY <1>2, PlanSyncKeeps
<1>3. ASSUME NEW k \in bounds.collectors, PlanFull(k) PROVE HistoryInv'
  BY <1>3, PlanFullKeeps
<1>4. ASSUME NEW k \in bounds.collectors, Apply(k) PROVE HistoryInv'
  BY <1>4, ApplyKeeps
<1>5. ASSUME NEW k \in bounds.collectors, GiveUp(k) PROVE HistoryInv'
  BY <1>5, GiveUpKeeps
<1>6. ASSUME NEW c \in Commits, Checkout(c) PROVE HistoryInv'
  BY <1>6, CheckoutKeeps
<1>7. ASSUME NEW s \in bounds.scopes, Rescope(s) PROVE HistoryInv'
  BY <1>7, RescopeKeeps
<1>8. CASE StageRebuild
  BY <1>8, StageRebuildKeeps
<1>9. CASE PublishRebuild
  BY <1>9, PublishRebuildKeeps
<1>10. CASE UNCHANGED vars
  BY <1>10, StutterKeeps
<1> QED BY <1>1, <1>2, <1>3, <1>4, <1>5, <1>6, <1>7, <1>8, <1>9, <1>10 DEF Next

\* The invariant implies the types.
LEMMA InvariantGivesType == HistoryInv => TypeOK
<1> SUFFICES ASSUME HistoryInv PROVE TypeOK
  OBVIOUS
<1>0. KeptInv /\ PlansInv
  BY DEF HistoryInv
<1>1. /\ RepoOK /\ IsFiniteSet(Paths) /\ bounds.scopes \subseteq SUBSET Paths
      /\ head \in Commits /\ scope \in bounds.scopes
  BY <1>0, ScopeIsPaths DEF KeptInv, RigidInv
<1>2. ASSUME NEW d, KeptRight(d) PROVE HistoryOK(d)
  <2>1. CASE d = NoHistory
    <3>1. Cardinality(Paths) \in Nat  BY <1>1, FS_CardinalityType
    <3>2. DOMAIN d.store = {} /\ d.cursor = None /\ d.scope = None /\ d.commits = 0 /\ d.paths = 0
          /\ \A q \in Paths : d.rows[q] = None
      BY <2>1 DEF NoHistory
    <3> QED BY <3>1, <3>2 DEF HistoryOK
  <2>2. CASE WellKept(d)
    <3>1. /\ d.cursor \in Commits /\ d.scope \in bounds.scopes
          /\ DOMAIN d.store \subseteq 1..MaxCommitId
          /\ IsStore(d.store, d.scope)
      BY <2>2 DEF WellKept, StoreAt
    <3>2. [rows |-> d.rows, commits |-> d.commits, paths |-> d.paths] = FullCollection(d.scope, d.cursor)
      BY <2>2 DEF WellKept, Collected
    <3>3. IsResult(FullCollection(d.scope, d.cursor))
      BY <1>1, <3>1, CollectionType
    <3> DEFINE f == FullCollection(d.scope, d.cursor)
    <3>4. d.rows = f.rows /\ d.commits = f.commits /\ d.paths = f.paths
      BY <3>2
    <3>5. \A i \in DOMAIN d.store :
            /\ d.store[i].sha \in Commits /\ d.store[i].key \in Nat
            /\ d.store[i].live \in BOOLEAN /\ d.store[i].authored \in BOOLEAN
            /\ \A ch \in d.store[i].changes : {ch.path, ch.from} \subseteq Paths
      BY <3>1 DEF IsStore, IsRow, StoreRows, FoldChanges
    <3> HIDE DEF f
    <3>6. /\ d.commits \in Nat /\ d.paths \in 0..Cardinality(Paths)
          /\ \A q \in Paths : d.rows[q] # None =>
               d.rows[q].counts \in [Commits -> Nat] /\ d.rows[q].lines \in Commits
      BY <3>3, <3>4 DEF IsResult, f
    <3> QED BY <3>1, <3>5, <3>6 DEF HistoryOK
  <2> QED BY <1>2, <2>1, <2>2 DEF KeptRight
<1>3. HistoryOK(db) /\ (staged # None => HistoryOK(staged))
  BY <1>0, <1>2 DEF KeptInv
<1>4. pc \in [Collectors -> {"idle", "resolved", "planned"}]
  BY <1>0 DEF PlansInv, PlanOK
<1>5. ASSUME NEW k \in Collectors
      PROVE  /\ plan[k].head \in Commits \cup {None} /\ plan[k].base \in Commits \cup {None}
             /\ plan[k].read \subseteq DOMAIN plan[k].keys /\ DOMAIN plan[k].keys \subseteq Commits
             /\ plan[k].restored \cup plan[k].dropped \subseteq 1..MaxCommitId
  <2>1. PlanOK(k)
    BY <1>0 DEF PlansInv
  <2>2. CASE plan[k] = NoPlan
    <3>1. DOMAIN <<>> = {}  OBVIOUS
    <3> QED BY <2>2, <3>1 DEF NoPlan
  <2>3. CASE FreshPlan(plan[k], plan[k].base, plan[k].reset) /\ pc[k] = "resolved"
    <3>1. DOMAIN <<>> = {}  OBVIOUS
    <3>2. plan[k].keys = <<>> /\ plan[k].read = {} /\ plan[k].restored = {} /\ plan[k].dropped = {}
          /\ plan[k].head = head
      BY <2>3 DEF FreshPlan, NoPlan
    <3>3. plan[k].base \in Commits \cup {None}  BY <2>1, <2>3 DEF PlanOK, BaseOK
    <3> QED BY <1>1, <3>1, <3>2, <3>3
  <2>4. CASE pc[k] = "planned"
    <3>1. plan[k].head = head /\ plan[k].base \in Commits \cup {None}
      BY <2>1, <2>4 DEF PlanOK, BaseOK
    <3>2. CASE IsFullPlan(plan[k])
      <4>1. Reach[head] \subseteq Commits  BY <1>1, ReachIsOrder
      <4>2. LoggedIn(Reach[head], scope) \subseteq Reach[head]  BY DEF LoggedIn
      <4> QED BY <1>1, <3>1, <3>2, <4>1, <4>2 DEF IsFullPlan
    <3>3. CASE SyncPlanOK(plan[k])
      BY <1>1, <3>1, <3>3 DEF SyncPlanOK, Named
    <3> QED BY <2>1, <2>4, <3>2, <3>3 DEF PlanOK
  <2> QED BY <2>1, <2>2, <2>3, <2>4 DEF PlanOK
<1> QED BY <1>0, <1>1, <1>3, <1>4, <1>5 DEF TypeOK, KeptInv

\* It implies that histories are those of a collection from scratch.
LEMMA InvariantGivesSame == HistoryInv => SameAsFullCollection
<1> SUFFICES ASSUME HistoryInv, NEW d \in Histories
             PROVE  [rows |-> d.rows, commits |-> d.commits, paths |-> d.paths] = fullAt[scope][d.cursor]
  BY DEF SameAsFullCollection
<1>1. d.cursor # None /\ d.scope = scope /\ KeptRight(d)
  BY DEF Histories, HistoryInv, KeptInv
<1>2. WellKept(d)
  BY <1>1 DEF KeptRight, NoHistory
<1>3. fullAt[scope][d.cursor] = FullCollection(scope, d.cursor)
  BY <1>1, <1>2 DEF HistoryInv, KeptInv, RigidInv, WellKept
<1> QED BY <1>1, <1>2, <1>3 DEF WellKept, Collected

\* The invariant holds in every state, for any repository, any number of
\* collectors, scopes and rebuilds, if HEAD stays while collectors are at work.
THEOREM HistoryInvariant ==
  ASSUME ~HeadMovesAnytime
  PROVE  Spec => []HistoryInv
<1>1. Init => HistoryInv
  BY InitKeeps
<1>2. HistoryInv /\ [Next]_vars => HistoryInv'
  BY NextKeeps
<1> QED BY <1>1, <1>2, PTL DEF Spec

\* Every variable keeps its type: ids within their bound, commits of the
\* repository, counts that are numbers, lines that some commit wrote.
THEOREM TypeCorrect ==
  ASSUME ~HeadMovesAnytime
  PROVE  Spec => []TypeOK
BY HistoryInvariant, InvariantGivesType, PTL

\* "The result is the same as a full collection at HEAD, row for row": whatever
\* the commits, their dates, merges, renames and branches are, however HEAD and
\* scope move between collections, and whatever collectors plan at the same
\* time, fail, are killed or find already done, and however often the index is
\* rebuilt.
THEOREM IncrementalIsFull ==
  ASSUME ~HeadMovesAnytime
  PROVE  Spec => []SameAsFullCollection
BY HistoryInvariant, InvariantGivesSame, PTL

=============================================================================
