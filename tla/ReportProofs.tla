----------------------------- MODULE ReportProofs -----------------------------
(***************************************************************************)
(* What the operators of BagReport compute, for any windows, stamps and    *)
(* events: the folds they are made of, and what comes of them.             *)
(*                                                                         *)
(* Induction is by least counterexample: a set of sets of which one would  *)
(* fail has a smallest member.                                             *)
(***************************************************************************)
EXTENDS BagReport, FiniteSetTheorems, SequenceTheorems, TLAPS

-----------------------------------------------------------------------------
(* Induction *)

\* What natural numbers there are have a least one.
LEMMA Least ==
  ASSUME NEW N \in SUBSET Nat, N # {}
  PROVE  \E n \in N : \A m \in N : n <= m
<1> DEFINE R == OpToRel(<, Nat)
<1>1. IsWellFoundedOn(R, Nat)
  BY NatLessThanWellFounded
<1>2. \A x, y \in Nat : <<x, y>> \in R <=> x < y
  BY DEF OpToRel
<1> HIDE DEF R
<1>3. PICK n \in N : \A m \in N : ~(<<m, n>> \in R)
  BY <1>1, WFMin
<1>4. ASSUME NEW m \in N PROVE n <= m
  <2>1. ~(<<m, n>> \in R)
    BY <1>3
  <2>2. m \in Nat /\ n \in Nat
    OBVIOUS
  <2>3. ~(m < n)
    BY <1>2, <2>1, <2>2, Zenon
  <2>4. QED
    BY <2>2, <2>3
<1>5. QED
  BY <1>4

\* Of some subsets of a finite set one has the fewest members.
LEMMA Smallest ==
  ASSUME NEW S, IsFiniteSet(S), NEW F \in SUBSET (SUBSET S), F # {}
  PROVE  \E T \in F : \A U \in F : Cardinality(T) <= Cardinality(U)
<1> DEFINE N == {Cardinality(T) : T \in F}
<1>1. \A T \in SUBSET S : Cardinality(T) \in Nat
  <2>1. ASSUME NEW T \in SUBSET S PROVE Cardinality(T) \in Nat
    <3>1. IsFiniteSet(T)
      BY FS_Subset
    <3>2. QED
      BY <3>1, FS_CardinalityType
  <2>2. QED
    BY <2>1
<1>2. N \in SUBSET Nat /\ N # {}
  BY <1>1
<1>3. PICK n \in N : \A m \in N : n <= m
  BY <1>2, Least
<1>4. QED
  BY <1>3

\* Without one of its members a finite set has fewer.
LEMMA Fewer ==
  ASSUME NEW S, IsFiniteSet(S), NEW T \in SUBSET S, NEW x \in T
  PROVE  /\ IsFiniteSet(T) /\ Cardinality(T) \in Nat
         /\ Cardinality(T \ {x}) \in Nat
         /\ Cardinality(T \ {x}) = Cardinality(T) - 1
<1>1. IsFiniteSet(T)
  BY FS_Subset
<1>2. IsFiniteSet(T \ {x}) /\ Cardinality(T \ {x}) = Cardinality(T) - 1
  BY <1>1, FS_RemoveElement
<1>3. QED
  BY <1>1, <1>2, FS_CardinalityType

-----------------------------------------------------------------------------
(* Folds *)

\* A fold over the subsets of S, of values in V, and over those of at most n members.
Fewest(S, n) == {T \in SUBSET S : Cardinality(T) <= n}
IsFoldOn(fold, F, V, base, pick, step) ==
  /\ fold \in [F -> V]
  /\ \A T \in F : fold[T] = IF T = {} THEN base ELSE step[<<pick[T], fold[T \ {pick[T]}]>>]
IsFold(fold, S, V, base, pick, step) == IsFoldOn(fold, SUBSET S, V, base, pick, step)

LEMMA FewestFacts ==
  ASSUME NEW S, IsFiniteSet(S)
  PROVE  /\ \A T \in SUBSET S : IsFiniteSet(T) /\ Cardinality(T) \in Nat /\ (T = {} <=> Cardinality(T) = 0)
         /\ \A T \in Fewest(S, 0) : T = {}
         /\ Fewest(S, Cardinality(S)) = SUBSET S
<1>1. ASSUME NEW T \in SUBSET S
      PROVE  IsFiniteSet(T) /\ Cardinality(T) \in Nat /\ (T = {} <=> Cardinality(T) = 0)
  <2>1. IsFiniteSet(T)
    BY FS_Subset
  <2>2. QED
    BY <2>1, FS_CardinalityType, FS_EmptySet
<1>2. ASSUME NEW T \in SUBSET S PROVE Cardinality(T) <= Cardinality(S)
  BY FS_Subset
<1>3. QED
  BY <1>1, <1>2 DEF Fewest

\* A fold over the sets of fewer than n members gives one over those of n.
LEMMA FoldGrows ==
  ASSUME NEW S, IsFiniteSet(S), NEW V, NEW base \in V,
         NEW pick \in [(SUBSET S) \ {{}} -> S], \A T \in (SUBSET S) \ {{}} : pick[T] \in T,
         NEW step \in [S \X V -> V], NEW n \in Nat, n # 0,
         NEW f, IsFoldOn(f, Fewest(S, n - 1), V, base, pick, step)
  PROVE  \E g : IsFoldOn(g, Fewest(S, n), V, base, pick, step)
<1> DEFINE g == [T \in Fewest(S, n) |-> IF T = {} THEN base ELSE step[<<pick[T], f[T \ {pick[T]}]>>]]
<1>1. /\ f \in [Fewest(S, n - 1) -> V]
      /\ \A T \in Fewest(S, n - 1) : f[T] = IF T = {} THEN base ELSE step[<<pick[T], f[T \ {pick[T]}]>>]
  BY DEF IsFoldOn
<1>2. ASSUME NEW T \in Fewest(S, n), T # {}
      PROVE  pick[T] \in S /\ T \ {pick[T]} \in Fewest(S, n - 1)
  <2>1. T \in SUBSET S /\ pick[T] \in T /\ Cardinality(T) <= n
    BY <1>2 DEF Fewest
  <2>2. Cardinality(T) \in Nat /\ Cardinality(T \ {pick[T]}) = Cardinality(T) - 1
    BY <2>1, Fewer
  <2>3. Cardinality(T \ {pick[T]}) <= n - 1
    BY <2>1, <2>2
  <2>4. QED
    BY <2>1, <2>3 DEF Fewest
<1>3. \A T \in Fewest(S, n - 1) : T \in Fewest(S, n)
  BY FewestFacts DEF Fewest
<1>4. g \in [Fewest(S, n) -> V]
  <2>1. ASSUME NEW T \in Fewest(S, n), T # {} PROVE step[<<pick[T], f[T \ {pick[T]}]>>] \in V
    <3>1. f[T \ {pick[T]}] \in V /\ pick[T] \in S
      BY <1>1, <1>2, <2>1
    <3>2. QED
      BY <3>1
  <2>2. QED
    BY <2>1
<1>5. \A T \in Fewest(S, n - 1) : g[T] = f[T]
  BY <1>1, <1>3
<1>6. ASSUME NEW T \in Fewest(S, n)
      PROVE  g[T] = IF T = {} THEN base ELSE step[<<pick[T], g[T \ {pick[T]}]>>]
  BY <1>2, <1>5
<1> HIDE DEF g
<1>7. QED
  BY <1>4, <1>6 DEF IsFoldOn

\* Whatever is picked and done at each step, there is a fold over a finite set.
LEMMA FoldExists ==
  ASSUME NEW S, IsFiniteSet(S), NEW V, NEW base \in V,
         NEW pick \in [(SUBSET S) \ {{}} -> S], \A T \in (SUBSET S) \ {{}} : pick[T] \in T,
         NEW step \in [S \X V -> V]
  PROVE  \E fold : IsFold(fold, S, V, base, pick, step)
<1> DEFINE Bad == {n \in Nat : ~\E f : IsFoldOn(f, Fewest(S, n), V, base, pick, step)}
<1>1. ASSUME NEW n \in Bad, \A m \in Bad : n <= m PROVE FALSE
  <2>1. CASE n = 0
    <3> DEFINE f == [T \in Fewest(S, 0) |-> base]
    <3>1. f \in [Fewest(S, 0) -> V]
      OBVIOUS
    <3>2. \A T \in Fewest(S, 0) : T = {} /\ f[T] = base
      BY FewestFacts
    <3> HIDE DEF f
    <3>3. IsFoldOn(f, Fewest(S, 0), V, base, pick, step)
      BY <3>1, <3>2 DEF IsFoldOn
    <3>4. QED
      BY <2>1, <3>3
  <2>2. CASE n # 0
    <3>1. n \in Nat /\ n - 1 \in Nat /\ ~(n <= n - 1)
      BY <2>2
    <3>2. n - 1 \notin Bad
      BY <1>1, <3>1
    <3>3. PICK f : IsFoldOn(f, Fewest(S, n - 1), V, base, pick, step)
      BY <3>1, <3>2
    <3>4. \E g : IsFoldOn(g, Fewest(S, n), V, base, pick, step)
      BY <2>2, <3>1, <3>3, FoldGrows
    <3>5. QED
      BY <3>4
  <2>3. QED
    BY <2>1, <2>2
<1>2. Bad = {}
  <2>1. Bad \in SUBSET Nat
    OBVIOUS
  <2> HIDE DEF Bad
  <2>2. QED
    BY <1>1, <2>1, Least
<1>3. Cardinality(S) \in Nat /\ Fewest(S, Cardinality(S)) = SUBSET S
  BY FewestFacts
<1>4. PICK f : IsFoldOn(f, Fewest(S, Cardinality(S)), V, base, pick, step)
  BY <1>2, <1>3
<1>5. QED
  BY <1>3, <1>4 DEF IsFold

-----------------------------------------------------------------------------
(* Windows *)

AreWindows(W) == IsFiniteSet(W) /\ W \in SUBSET (Int \X Int)
AreReal(W) == AreWindows(W) /\ \A w \in W : w[1] < w[2]
\* The seconds of some windows.
In(w, i) == w[1] <= i /\ i < w[2]
Inside(W) == {i \in Int : \E w \in W : In(w, i)}

LEMMA EarlierIsAnOrder ==
  ASSUME NEW u \in Int \X Int, NEW v \in Int \X Int, NEW w \in Int \X Int
  PROVE  /\ u = v \/ Earlier(u, v) \/ Earlier(v, u)
         /\ Earlier(u, v) /\ Earlier(v, w) => Earlier(u, w)
         /\ ~Earlier(u, u)
  BY DEF Earlier

\* Of some windows one comes last.
LEMMA LastExists ==
  ASSUME NEW W, AreWindows(W), W # {}
  PROVE  /\ LastOf(W) \in W
         /\ \A v \in W \ {LastOf(W)} : Earlier(v, LastOf(W))
<1> DEFINE After(w) == {u \in W : Earlier(w, u)}
<1>1. IsFiniteSet(W) /\ W \in SUBSET (Int \X Int)
  BY DEF AreWindows
<1>2. PICK w \in W : \A v \in W : Cardinality(After(w)) <= Cardinality(After(v))
  <2> DEFINE F == {After(w) : w \in W}
  <2>1. F \in SUBSET (SUBSET W) /\ F # {}
    OBVIOUS
  <2>2. PICK T \in F : \A U \in F : Cardinality(T) <= Cardinality(U)
    <3> HIDE DEF F
    <3>1. QED
      BY <1>1, <2>1, Smallest
  <2>3. QED
    BY <2>2
<1>3. ASSUME NEW v \in W \ {w}, ~Earlier(v, w) PROVE FALSE
  <2>1. Earlier(w, v) /\ v \in After(w)
    BY <1>1, <1>3, EarlierIsAnOrder
  <2>2. After(v) \in SUBSET (After(w) \ {v})
    BY <1>1, <2>1, EarlierIsAnOrder
  <2>3. /\ IsFiniteSet(After(w) \ {v}) /\ Cardinality(After(w)) \in Nat
        /\ Cardinality(After(w) \ {v}) = Cardinality(After(w)) - 1
    <3>1. After(w) \in SUBSET W
      OBVIOUS
    <3>2. IsFiniteSet(After(w) \ {v})
      BY <1>1, FS_Subset, After(w) \ {v} \in SUBSET W
    <3> HIDE DEF After
    <3>3. QED
      BY <1>1, <2>1, <3>1, <3>2, Fewer
  <2>4. Cardinality(After(v)) <= Cardinality(After(w) \ {v}) /\ Cardinality(After(v)) \in Nat
    <3> HIDE DEF After
    <3>1. IsFiniteSet(After(v)) /\ Cardinality(After(v)) <= Cardinality(After(w) \ {v})
      BY <2>2, <2>3, FS_Subset
    <3>2. QED
      BY <3>1, FS_CardinalityType
  <2>5. Cardinality(After(w)) <= Cardinality(After(v))
    BY <1>2
  <2> HIDE DEF After
  <2>6. QED
    BY <2>3, <2>4, <2>5
<1>4. \E u \in W : \A v \in W \ {u} : Earlier(v, u)
  BY <1>3
<1>5. QED
  BY <1>4 DEF LastOf

\* What joining windows in order makes of those of T.
Joined(T, M) ==
  /\ AreReal(M)
  /\ \A v, w \in M : v # w => v[2] < w[1] \/ w[2] < v[1]
  /\ \A w \in T : \E m \in M : m[1] <= w[1] /\ w[2] <= m[2]
  /\ \A m \in M, i \in Int : In(m, i) => \E w \in T : In(w, i)
  /\ \A m \in M : (\E w \in T : w[1] = m[1]) /\ (\E w \in T : w[2] = m[2])

LEMMA JoinOne ==
  ASSUME NEW T, AreReal(T), NEW last \in T, \A v \in T \ {last} : Earlier(v, last),
         NEW M, Joined(T \ {last}, M)
  PROVE  Joined(T, JoinLast(last, M))
<1> DEFINE l == LastOf(M)
<1>1. IsFiniteSet(M) /\ M \in SUBSET (Int \X Int) /\ \A m \in M : m[1] < m[2]
  BY DEF Joined, AreReal, AreWindows
<1>2. T \in SUBSET (Int \X Int) /\ \A w \in T : w[1] < w[2]
  BY DEF AreReal, AreWindows
<1>3. /\ \A v, w \in M : v # w => v[2] < w[1] \/ w[2] < v[1]
      /\ \A w \in T \ {last} : \E m \in M : m[1] <= w[1] /\ w[2] <= m[2]
      /\ \A m \in M, i \in Int : In(m, i) => \E w \in T \ {last} : In(w, i)
      /\ \A m \in M : (\E w \in T \ {last} : w[1] = m[1]) /\ (\E w \in T \ {last} : w[2] = m[2])
  BY DEF Joined
<1>4. \A m \in M : m[1] <= last[1]
  <2>1. ASSUME NEW m \in M PROVE m[1] <= last[1]
    <3>1. PICK w \in T \ {last} : w[1] = m[1]
      BY <1>3
    <3>2. Earlier(w, last)
      OBVIOUS
    <3>3. QED
      BY <1>2, <3>1, <3>2 DEF Earlier
  <2>2. QED
    BY <2>1
<1>5. CASE M = {}
  <2>1. JoinLast(last, M) = {last} /\ T \ {last} = {}
    BY <1>3, <1>5 DEF JoinLast
  <2>2. IsFiniteSet({last})
    BY FS_Singleton
  <2>3. QED
    BY <1>2, <2>1, <2>2 DEF Joined, AreReal, AreWindows, In
<1>6. CASE M # {}
  <2>1. l \in M /\ \A m \in M \ {l} : m[2] < l[1]
    <3>1. l \in M /\ \A m \in M \ {l} : Earlier(m, l)
      BY <1>1, <1>6, LastExists DEF AreWindows
    <3> HIDE DEF l
    <3>2. ASSUME NEW m \in M \ {l} PROVE m[2] < l[1]
      <4>1. Earlier(m, l) /\ (m[2] < l[1] \/ l[2] < m[1])
        BY <1>3, <3>1
      <4>2. QED
        BY <1>1, <3>1, <4>1 DEF Earlier
    <3>3. QED
      BY <3>1, <3>2
  <2> DEFINE n == <<l[1], Later(l[2], last[2])>>
  <2>2. JoinLast(last, M) = IF last[1] <= l[2] THEN (M \ {l}) \cup {n} ELSE M \cup {last}
    BY <1>6 DEF JoinLast
  <2> HIDE DEF l
  <2>3. CASE last[1] <= l[2]
    <3>1. n \in Int \X Int /\ n[1] < n[2] /\ n[1] = l[1] /\ l[2] <= n[2] /\ last[2] <= n[2]
      BY <1>1, <1>2, <2>1 DEF Later
    <3>2. \A i \in Int : In(n, i) => In(l, i) \/ In(last, i)
      BY <1>1, <1>2, <2>1, <2>3, <1>4 DEF In, Later
    <3>3. \E w \in T : w[2] = n[2]
      <4>1. PICK w \in T \ {last} : w[2] = l[2]
        BY <1>3, <2>1
      <4>2. QED
        BY <4>1 DEF Later
    <3> HIDE DEF n
    <3>4. AreReal((M \ {l}) \cup {n})
      <4>1. IsFiniteSet(M \ {l})
        BY <1>1, FS_Subset, M \ {l} \in SUBSET M
      <4>2. IsFiniteSet((M \ {l}) \cup {n})
        BY <4>1, FS_AddElement
      <4>3. QED
        BY <1>1, <3>1, <4>2 DEF AreReal, AreWindows
    <3>5. ASSUME NEW v \in (M \ {l}) \cup {n}, NEW w \in (M \ {l}) \cup {n}, v # w
          PROVE  v[2] < w[1] \/ w[2] < v[1]
      BY <1>3, <2>1, <3>1, <3>5
    <3>6. ASSUME NEW w \in T PROVE \E m \in (M \ {l}) \cup {n} : m[1] <= w[1] /\ w[2] <= m[2]
      <4>1. CASE w = last
        BY <1>4, <2>1, <3>1, <4>1
      <4>2. CASE w # last
        <5>1. PICK m \in M : m[1] <= w[1] /\ w[2] <= m[2]
          BY <1>3, <4>2
        <5>2. CASE m = l
          BY <1>1, <1>2, <2>1, <3>1, <5>1, <5>2
        <5>3. QED
          BY <5>1, <5>2
      <4>3. QED
        BY <4>1, <4>2
    <3>7. ASSUME NEW m \in (M \ {l}) \cup {n}, NEW i \in Int, In(m, i) PROVE \E w \in T : In(w, i)
      <4>1. CASE m = n
        BY <1>3, <2>1, <3>2, <3>7, <4>1
      <4>2. CASE m # n
        BY <1>3, <3>7, <4>2
      <4>3. QED
        BY <4>1, <4>2
    <3>8. ASSUME NEW m \in (M \ {l}) \cup {n} PROVE (\E w \in T : w[1] = m[1]) /\ \E w \in T : w[2] = m[2]
      BY <1>3, <2>1, <3>1, <3>3
    <3>9. QED
      BY <2>2, <2>3, <3>4, <3>5, <3>6, <3>7, <3>8 DEF Joined
  <2>4. CASE ~(last[1] <= l[2])
    <3>1. l[2] < last[1] /\ \A m \in M : m[2] < last[1]
      BY <1>1, <1>2, <2>1, <2>4
    <3>2. AreReal(M \cup {last})
      <4>1. IsFiniteSet(M \cup {last})
        BY <1>1, FS_AddElement
      <4>2. QED
        BY <1>1, <1>2, <4>1 DEF AreReal, AreWindows
    <3>3. ASSUME NEW v \in M \cup {last}, NEW w \in M \cup {last}, v # w
          PROVE  v[2] < w[1] \/ w[2] < v[1]
      BY <1>3, <3>1, <3>3
    <3>4. ASSUME NEW w \in T PROVE \E m \in M \cup {last} : m[1] <= w[1] /\ w[2] <= m[2]
      <4>1. CASE w = last
        BY <1>2, <4>1
      <4>2. CASE w # last
        BY <1>3, <4>2
      <4>3. QED
        BY <4>1, <4>2
    <3>5. ASSUME NEW m \in M \cup {last}, NEW i \in Int, In(m, i) PROVE \E w \in T : In(w, i)
      BY <1>3, <3>5
    <3>6. ASSUME NEW m \in M \cup {last} PROVE (\E w \in T : w[1] = m[1]) /\ \E w \in T : w[2] = m[2]
      BY <1>3
    <3>7. QED
      BY <2>2, <2>4, <3>2, <3>3, <3>4, <3>5, <3>6 DEF Joined
  <2>5. QED
    BY <2>3, <2>4
<1>7. QED
  BY <1>5, <1>6

\* merge_windows() covers the seconds of the windows and no others, with real
\* windows that neither touch nor overlap (bag.py:131).
THEOREM MergeCorrect ==
  ASSUME NEW W, AreWindows(W)
  PROVE  Joined({w \in W : Length(w) > 0}, MergeWindows(W))
<1> DEFINE R == {w \in W : Length(w) > 0}
           V == {M \in SUBSET (Int \X Int) : IsFiniteSet(M)}
           pick == [T \in (SUBSET R) \ {{}} |-> LastOf(T)]
           step == [p \in R \X V |-> JoinLast(p[1], p[2])]
           Equation(iter) == iter = [T \in SUBSET R |-> IF T = {} THEN {} ELSE JoinLast(LastOf(T), iter[T \ {LastOf(T)}])]
           merged == CHOOSE iter : Equation(iter)
<1>1. AreReal(R) /\ IsFiniteSet(R)
  <2>1. IsFiniteSet(W) /\ W \in SUBSET (Int \X Int)
    BY DEF AreWindows
  <2>2. IsFiniteSet(R)
    BY <2>1, FS_Subset, R \in SUBSET W
  <2>3. \A w \in R : w[1] < w[2]
    BY <2>1 DEF Length
  <2>4. QED
    BY <2>1, <2>2, <2>3 DEF AreReal, AreWindows
<1>2. ASSUME NEW T \in SUBSET R PROVE AreReal(T)
  <2>1. IsFiniteSet(T)
    BY <1>1, FS_Subset
  <2>2. QED
    BY <1>1, <2>1 DEF AreReal, AreWindows
<1>3. ASSUME NEW T \in (SUBSET R) \ {{}}
      PROVE  LastOf(T) \in T /\ \A v \in T \ {LastOf(T)} : Earlier(v, LastOf(T))
  BY <1>2, LastExists DEF AreReal
<1>4. \E iter : Equation(iter)
  <2>1. pick \in [(SUBSET R) \ {{}} -> R] /\ \A T \in (SUBSET R) \ {{}} : pick[T] \in T
    BY <1>3
  <2>2. step \in [R \X V -> V]
    <3>1. ASSUME NEW w \in R, NEW M \in V PROVE JoinLast(w, M) \in V
      <4>1. w \in Int \X Int /\ M \in SUBSET (Int \X Int) /\ IsFiniteSet(M)
        BY <1>1 DEF AreReal, AreWindows
      <4>2. CASE M = {} \/ ~(w[1] <= LastOf(M)[2])
        <5>1. JoinLast(w, M) = M \cup {w} /\ IsFiniteSet(M \cup {w})
          BY <4>1, <4>2, FS_AddElement DEF JoinLast
        <5>2. QED
          BY <4>1, <5>1
      <4>3. CASE M # {} /\ w[1] <= LastOf(M)[2]
        <5>1. LastOf(M) \in Int \X Int
          BY <4>1, <4>3, LastExists DEF AreWindows
        <5> DEFINE n == <<LastOf(M)[1], Later(LastOf(M)[2], w[2])>>
        <5>2. n \in Int \X Int
          BY <4>1, <5>1 DEF Later
        <5>3. IsFiniteSet(M \ {LastOf(M)})
          BY <4>1, FS_Subset, M \ {LastOf(M)} \in SUBSET M
        <5>4. IsFiniteSet((M \ {LastOf(M)}) \cup {n})
          BY <5>3, FS_AddElement
        <5>5. JoinLast(w, M) = (M \ {LastOf(M)}) \cup {n}
          BY <4>3 DEF JoinLast
        <5>6. QED
          BY <4>1, <5>2, <5>4, <5>5
      <4>4. QED
        BY <4>2, <4>3
    <3>2. QED
      BY <3>1
  <2>3. {} \in V
    BY FS_EmptySet
  <2>4. PICK fold : IsFold(fold, R, V, {}, pick, step)
    <3> HIDE DEF R, V, pick, step
    <3>1. QED
      BY <1>1, <2>1, <2>2, <2>3, FoldExists
  <2>5. /\ fold \in [SUBSET R -> V]
        /\ \A T \in SUBSET R : fold[T] = IF T = {} THEN {} ELSE step[<<pick[T], fold[T \ {pick[T]}]>>]
    BY <2>4 DEF IsFold, IsFoldOn
  <2>6. ASSUME NEW T \in SUBSET R
        PROVE  fold[T] = IF T = {} THEN {} ELSE JoinLast(LastOf(T), fold[T \ {LastOf(T)}])
    <3>1. CASE T # {}
      <4>1. pick[T] = LastOf(T) /\ LastOf(T) \in R /\ fold[T \ {LastOf(T)}] \in V
        BY <1>3, <2>5, <3>1
      <4>2. step[<<LastOf(T), fold[T \ {LastOf(T)}]>>] = JoinLast(LastOf(T), fold[T \ {LastOf(T)}])
        BY <4>1
      <4>3. QED
        BY <2>5, <3>1, <4>1, <4>2
    <3>2. QED
      BY <2>5, <3>1
  <2>7. fold = [T \in SUBSET R |-> IF T = {} THEN {} ELSE JoinLast(LastOf(T), fold[T \ {LastOf(T)}])]
    <3> HIDE DEF R, V, pick, step
    <3>1. QED
      BY <2>5, <2>6
  <2>8. QED
    BY <2>7
<1>5. Equation(merged)
  <2> HIDE DEF Equation
  <2>1. QED
    BY <1>4
<1>6. \A T \in SUBSET R : merged[T] = IF T = {} THEN {} ELSE JoinLast(LastOf(T), merged[T \ {LastOf(T)}])
  <2> HIDE DEF merged
  <2>1. QED
    BY <1>5
<1>7. MergeWindows(W) = merged[R]
  BY DEF MergeWindows, MapThenFoldSet
<1> HIDE DEF merged
<1> DEFINE F == {T \in SUBSET R : ~Joined(T, merged[T])}
<1>8. ASSUME NEW T \in F, \A U \in F : Cardinality(T) <= Cardinality(U) PROVE FALSE
  <2>1. CASE T = {}
    <3>1. merged[T] = {} /\ IsFiniteSet({})
      BY <1>6, <2>1, FS_EmptySet
    <3>2. Joined({}, {})
      BY <3>1 DEF Joined, AreReal, AreWindows
    <3>3. QED
      BY <2>1, <3>1, <3>2
  <2>2. CASE T # {}
    <3> DEFINE last == LastOf(T)
    <3>1. last \in T /\ \A v \in T \ {last} : Earlier(v, last)
      BY <1>3, <2>2
    <3> HIDE DEF last
    <3>2. Cardinality(T \ {last}) \in Nat /\ Cardinality(T) \in Nat /\ Cardinality(T \ {last}) < Cardinality(T)
      BY <1>1, <3>1, Fewer
    <3>3. T \ {last} \notin F
      BY <1>8, <3>2
    <3>4. Joined(T \ {last}, merged[T \ {last}])
      BY <3>3
    <3>5. merged[T] = JoinLast(last, merged[T \ {last}])
      BY <1>6, <2>2 DEF last
    <3>6. Joined(T, merged[T])
      BY <1>2, <3>1, <3>4, <3>5, JoinOne
    <3>7. QED
      BY <3>6
  <2>3. QED
    BY <2>1, <2>2
<1>9. F = {}
  <2>1. F \in SUBSET (SUBSET R)
    OBVIOUS
  <2> HIDE DEF F, R
  <2>2. QED
    BY <1>1, <1>8, <2>1, Smallest
<1>10. QED
  BY <1>7, <1>9

LEMMA MergedWindows ==
  ASSUME NEW W, AreWindows(W)
  PROVE  /\ AreReal(MergeWindows(W))
         /\ Inside(MergeWindows(W)) = Inside(W)
         /\ \A v, w \in MergeWindows(W) : v # w => v[2] < w[1] \/ w[2] < v[1]
         /\ \A w \in W : w[1] < w[2] => \E m \in MergeWindows(W) : m[1] <= w[1] /\ w[2] <= m[2]
<1> DEFINE M == MergeWindows(W)
           R == {w \in W : Length(w) > 0}
<1>1. Joined(R, M)
  BY MergeCorrect
<1>2. W \in SUBSET (Int \X Int)
  BY DEF AreWindows
<1>3. \A w \in W : w \in R <=> w[1] < w[2]
  BY <1>2 DEF Length
<1>4. R \in SUBSET W
  OBVIOUS
<1> HIDE DEF M, R
<1>5. /\ AreReal(M) /\ M \in SUBSET (Int \X Int)
      /\ \A v, w \in M : v # w => v[2] < w[1] \/ w[2] < v[1]
      /\ \A w \in R : \E m \in M : m[1] <= w[1] /\ w[2] <= m[2]
      /\ \A m \in M, i \in Int : In(m, i) => \E w \in R : In(w, i)
  BY <1>1 DEF Joined, AreReal, AreWindows
<1>6. ASSUME NEW i \in Int, NEW w \in W, In(w, i) PROVE \E m \in M : In(m, i)
  <2>1. w[1] < w[2]
    BY <1>2, <1>6 DEF In
  <2>2. PICK m \in M : m[1] <= w[1] /\ w[2] <= m[2]
    BY <1>3, <1>5, <2>1
  <2>3. In(m, i)
    BY <1>2, <1>5, <1>6, <2>2 DEF In
  <2>4. QED
    BY <2>3
<1>7. Inside(M) = Inside(W)
  BY <1>4, <1>5, <1>6 DEF Inside
<1>8. QED
  BY <1>3, <1>5, <1>7 DEF M

LEMMA ImageFinite ==
  ASSUME NEW S, IsFiniteSet(S), NEW f, DOMAIN f = S
  PROVE  IsFiniteSet({f[x] : x \in S})
<1> DEFINE T == {f[x] : x \in S}
           g == [x \in S |-> f[x]]
<1>1. g \in Surjection(S, T)
  BY DEF Surjection
<1>2. QED
  BY <1>1, FS_Surjection

\* What two windows both cover.
Both(a, b) == <<Later(a[1], b[1]), Sooner(a[2], b[2])>>
LEMMA BothCover ==
  ASSUME NEW a \in Int \X Int, NEW b \in Int \X Int
  PROVE  /\ Both(a, b) \in Int \X Int
         /\ \A i \in Int : In(Both(a, b), i) <=> In(a, i) /\ In(b, i)
         /\ \A from, to \in Int :
              a[1] <= from /\ to <= a[2] /\ b[1] <= from /\ to <= b[2]
              => Both(a, b)[1] <= from /\ to <= Both(a, b)[2]
  BY DEF Both, In, Later, Sooner

\* The windows between windows: the seconds of both, and what they both cover.
LEMMA IntersectCorrect ==
  ASSUME NEW A, AreWindows(A), NEW B, AreWindows(B)
  PROVE  /\ AreReal(IntersectWindows(A, B))
         /\ Inside(IntersectWindows(A, B)) = Inside(A) \cap Inside(B)
         /\ \A from, to \in Int :
              /\ from < to
              /\ \E a \in A : a[1] <= from /\ to <= a[2]
              /\ \E b \in B : b[1] <= from /\ to <= b[2]
              => \E m \in IntersectWindows(A, B) : m[1] <= from /\ to <= m[2]
<1> DEFINE X == {Both(a, b) : a \in A, b \in B}
           f == [p \in A \X B |-> Both(p[1], p[2])]
<1>1. IsFiniteSet(A) /\ IsFiniteSet(B) /\ A \in SUBSET (Int \X Int) /\ B \in SUBSET (Int \X Int)
  BY DEF AreWindows
<1>2. AreWindows(X)
  <2>1. IsFiniteSet(A \X B)
    BY <1>1, FS_Product
  <2>2. IsFiniteSet({f[p] : p \in A \X B})
    <3>1. DOMAIN f = A \X B
      OBVIOUS
    <3> HIDE DEF f
    <3>2. QED
      BY <2>1, <3>1, ImageFinite
  <2>3. X \in SUBSET {f[p] : p \in A \X B}
    <3>1. ASSUME NEW a \in A, NEW b \in B PROVE <<a, b>> \in A \X B /\ f[<<a, b>>] = Both(a, b)
      OBVIOUS
    <3> HIDE DEF f
    <3>2. ASSUME NEW x \in X PROVE \E p \in A \X B : x = f[p]
      <4>1. PICK a \in A, b \in B : x = Both(a, b)
        OBVIOUS
      <4> DEFINE p == <<a, b>>
      <4>2. p \in A \X B /\ x = f[p]
        BY <3>1, <4>1
      <4> HIDE DEF p
      <4>3. QED
        BY <4>2
    <3> HIDE DEF X
    <3>3. QED
      BY <3>2
  <2>4. X \in SUBSET (Int \X Int)
    BY <1>1, BothCover
  <2> HIDE DEF X, f
  <2>5. IsFiniteSet(X)
    BY <2>2, <2>3, FS_Subset
  <2>6. QED
    BY <2>4, <2>5 DEF AreWindows
<1>3. IntersectWindows(A, B) = MergeWindows(X)
  BY DEF IntersectWindows, Both
<1>4. ASSUME NEW a \in A, NEW b \in B
      PROVE  /\ \A i \in Int : In(Both(a, b), i) <=> In(a, i) /\ In(b, i)
             /\ Both(a, b) \in X /\ Both(a, b) \in Int \X Int
  BY <1>1, BothCover
<1>5. ASSUME NEW x \in X PROVE \E a \in A, b \in B : x = Both(a, b)
  OBVIOUS
<1> HIDE DEF X
<1>6. Inside(X) = Inside(A) \cap Inside(B)
  <2>1. ASSUME NEW i \in Inside(X) PROVE i \in Inside(A) /\ i \in Inside(B)
    BY <1>4, <1>5 DEF Inside
  <2>2. ASSUME NEW i \in Inside(A), i \in Inside(B) PROVE i \in Inside(X)
    BY <1>4, <2>2 DEF Inside
  <2>3. QED
    BY <2>1, <2>2
<1>7. ASSUME NEW from \in Int, NEW to \in Int, from < to,
             NEW a \in A, a[1] <= from /\ to <= a[2],
             NEW b \in B, b[1] <= from /\ to <= b[2]
      PROVE  \E m \in MergeWindows(X) : m[1] <= from /\ to <= m[2]
  <2> DEFINE x == Both(a, b)
  <2>1. x \in X /\ x \in Int \X Int /\ x[1] <= from /\ to <= x[2]
    BY <1>1, <1>4, <1>7, BothCover
  <2> HIDE DEF x
  <2>2. PICK m \in MergeWindows(X) : m[1] <= x[1] /\ x[2] <= m[2]
    BY <1>2, <1>7, <2>1, MergedWindows
  <2>3. m \in Int \X Int
    BY <1>2, MergedWindows DEF AreReal, AreWindows
  <2>4. QED
    BY <2>1, <2>2, <2>3
<1>8. QED
  BY <1>2, <1>3, <1>6, <1>7, MergedWindows

-----------------------------------------------------------------------------
(* Seconds *)

\* A sum is a fold of its members, taken out one by one.
IsSum(sum, S, f) ==
  /\ sum \in [SUBSET S -> Int] /\ sum[{}] = 0
  /\ \A T \in SUBSET S : T # {} => \E x \in T : sum[T] = f[x] + sum[T \ {x}]

LEMMA SumFolds ==
  ASSUME NEW S, IsFiniteSet(S), NEW f \in [S -> Int]
  PROVE  \E sum : IsSum(sum, S, f) /\ SumFunction(f) = sum[S]
<1> DEFINE Of(T) == CHOOSE x \in T : TRUE
           pick == [T \in (SUBSET S) \ {{}} |-> Of(T)]
           step == [p \in S \X Int |-> f[p[1]] + p[2]]
           Equation(iter) == iter = [T \in SUBSET S |-> IF T = {} THEN 0 ELSE f[Of(T)] + iter[T \ {Of(T)}]]
           sum == CHOOSE iter : Equation(iter)
<1>1. \A T \in (SUBSET S) \ {{}} : Of(T) \in T
  OBVIOUS
<1>2. SumFunction(f) = sum[S]
  BY DEF SumFunction, SumFunctionOnSet, FoldFunctionOnSet, MapThenFoldSet
<1> HIDE DEF Of
<1>3. PICK fold : IsFold(fold, S, Int, 0, pick, step)
  <2>1. pick \in [(SUBSET S) \ {{}} -> S] /\ \A T \in (SUBSET S) \ {{}} : pick[T] \in T
    BY <1>1
  <2>2. step \in [S \X Int -> Int]
    OBVIOUS
  <2> DEFINE V == Int
  <2>3. 0 \in V /\ step \in [S \X V -> V]
    BY <2>2
  <2> HIDE DEF pick, step, V
  <2>4. \E fold : IsFold(fold, S, V, 0, pick, step)
    BY <2>1, <2>3, FoldExists
  <2>5. QED
    BY <2>4 DEF V
<1>4. /\ fold \in [SUBSET S -> Int]
      /\ \A T \in SUBSET S : fold[T] = IF T = {} THEN 0 ELSE step[<<pick[T], fold[T \ {pick[T]}]>>]
  BY <1>3 DEF IsFold, IsFoldOn
<1>5. ASSUME NEW T \in SUBSET S
      PROVE  fold[T] = IF T = {} THEN 0 ELSE f[Of(T)] + fold[T \ {Of(T)}]
  <2>1. CASE T # {}
    <3>1. pick[T] = Of(T) /\ Of(T) \in S /\ fold[T \ {Of(T)}] \in Int
      BY <1>1, <1>4, <2>1
    <3>2. step[<<Of(T), fold[T \ {Of(T)}]>>] = f[Of(T)] + fold[T \ {Of(T)}]
      BY <3>1
    <3>3. QED
      BY <1>4, <2>1, <3>1, <3>2
  <2>2. QED
    BY <1>4, <2>1
<1>6. Equation(fold)
  <2> HIDE DEF pick, step
  <2>1. QED
    BY <1>4, <1>5
<1>7. Equation(sum)
  <2> HIDE DEF Equation
  <2>1. QED
    BY <1>6
<1> HIDE DEF sum
<1>8. DOMAIN sum = SUBSET S /\ \A T \in SUBSET S : sum[T] = IF T = {} THEN 0 ELSE f[Of(T)] + sum[T \ {Of(T)}]
  BY <1>7
<1> HIDE DEF pick, step, Equation
<1> DEFINE F == {T \in SUBSET S : sum[T] \notin Int}
<1>9. ASSUME NEW T \in F, \A U \in F : Cardinality(T) <= Cardinality(U) PROVE FALSE
  <2>1. T \in SUBSET S /\ sum[T] \notin Int
    OBVIOUS
  <2>2. T # {} /\ Of(T) \in T /\ f[Of(T)] \in Int
    BY <1>1, <1>8, <2>1
  <2>3. Cardinality(T \ {Of(T)}) \in Nat /\ Cardinality(T) \in Nat /\ Cardinality(T \ {Of(T)}) = Cardinality(T) - 1
    BY <2>1, <2>2, Fewer
  <2>4. T \ {Of(T)} \notin F
    BY <1>9, <2>3
  <2>5. sum[T \ {Of(T)}] \in Int
    BY <2>1, <2>4
  <2>6. QED
    BY <1>8, <2>1, <2>2, <2>5
<1>10. F = {}
  <2>1. F \in SUBSET (SUBSET S)
    OBVIOUS
  <2> HIDE DEF F
  <2>2. QED
    BY <1>9, <2>1, Smallest
<1>11. sum \in [SUBSET S -> Int]
  BY <1>7, <1>8, <1>10 DEF Equation
<1>12. IsSum(sum, S, f)
  BY <1>1, <1>8, <1>11 DEF IsSum
<1>13. QED
  BY <1>2, <1>12

LEMMA SizeOfBoth ==
  ASSUME NEW A, IsFiniteSet(A), NEW B, IsFiniteSet(B), A \cap B = {}
  PROVE  /\ IsFiniteSet(A \cup B) /\ Cardinality(A) \in Nat /\ Cardinality(B) \in Nat
         /\ Cardinality(A \cup B) = Cardinality(A) + Cardinality(B)
<1>1. Cardinality(A \cap B) = 0
  BY FS_EmptySet
<1>2. IsFiniteSet(A \cup B) /\ Cardinality(A \cup B) = Cardinality(A) + Cardinality(B) - Cardinality(A \cap B)
  BY FS_Union
<1>3. Cardinality(A) \in Nat /\ Cardinality(B) \in Nat
  BY FS_CardinalityType
<1>4. QED
  BY <1>1, <1>2, <1>3

\* The sizes of sets that have nothing in common add up to the size of their union.
AllOf(D, T) == UNION {D[x] : x \in T}
LEMMA SumOfSizes ==
  ASSUME NEW S, IsFiniteSet(S), NEW f \in [S -> Int], NEW D,
         \A x \in S : IsFiniteSet(D[x]) /\ f[x] = Cardinality(D[x]),
         \A x, y \in S : x # y => D[x] \cap D[y] = {}
  PROVE  /\ IsFiniteSet(AllOf(D, S))
         /\ SumFunction(f) = Cardinality(AllOf(D, S))
<1>0. PICK sum : IsSum(sum, S, f) /\ SumFunction(f) = sum[S]
  BY SumFolds
<1>1. /\ sum \in [SUBSET S -> Int] /\ sum[{}] = 0
      /\ \A T \in SUBSET S : T # {} => \E x \in T : sum[T] = f[x] + sum[T \ {x}]
  BY <1>0 DEF IsSum
<1> DEFINE F == {T \in SUBSET S : ~(IsFiniteSet(AllOf(D, T)) /\ sum[T] = Cardinality(AllOf(D, T)))}
<1>2. ASSUME NEW T \in F, \A V \in F : Cardinality(T) <= Cardinality(V) PROVE FALSE
  <2>1. T \in SUBSET S
    OBVIOUS
  <2>2. CASE T = {}
    <3>1. AllOf(D, T) = {}
      BY <2>2 DEF AllOf
    <3>2. QED
      BY <1>1, <2>2, <3>1, FS_EmptySet
  <2>3. CASE T # {}
    <3>1. PICK x \in T : sum[T] = f[x] + sum[T \ {x}]
      BY <1>1, <2>1, <2>3
    <3>2. Cardinality(T \ {x}) \in Nat /\ Cardinality(T) \in Nat /\ Cardinality(T \ {x}) = Cardinality(T) - 1
      BY <2>1, <3>1, Fewer
    <3>3. T \ {x} \notin F
      BY <1>2, <3>2
    <3>4. IsFiniteSet(AllOf(D, T \ {x})) /\ sum[T \ {x}] = Cardinality(AllOf(D, T \ {x}))
      BY <2>1, <3>3
    <3>5. AllOf(D, T) = AllOf(D, T \ {x}) \cup D[x] /\ AllOf(D, T \ {x}) \cap D[x] = {}
      BY <2>1 DEF AllOf
    <3>6. IsFiniteSet(D[x]) /\ f[x] = Cardinality(D[x])
      BY <2>1
    <3> DEFINE A == AllOf(D, T \ {x})
               B == D[x]
    <3>7. IsFiniteSet(A) /\ IsFiniteSet(B) /\ A \cap B = {} /\ AllOf(D, T) = A \cup B
      BY <3>4, <3>5, <3>6
    <3> HIDE DEF F, A, B
    <3>8. /\ IsFiniteSet(A \cup B) /\ Cardinality(A) \in Nat /\ Cardinality(B) \in Nat
          /\ Cardinality(A \cup B) = Cardinality(A) + Cardinality(B)
      BY <3>7, SizeOfBoth
    <3>9. sum[T] = Cardinality(AllOf(D, T))
      BY <3>1, <3>4, <3>6, <3>7, <3>8 DEF A, B
    <3>10. QED
      BY <3>7, <3>8, <3>9 DEF F
  <2>4. QED
    BY <2>2, <2>3
<1>3. F = {}
  <2>1. F \in SUBSET (SUBSET S)
    OBVIOUS
  <2> HIDE DEF F
  <2>2. QED
    BY <1>2, <2>1, Smallest
<1>4. QED
  BY <1>0, <1>3

\* The seconds of one window.
Of(w) == {i \in Int : In(w, i)}

LEMMA WindowSize ==
  ASSUME NEW w \in Int \X Int
  PROVE  IsFiniteSet(Of(w)) /\ Cardinality(Of(w)) = Later(0, w[2] - w[1])
<1>1. Of(w) = w[1] .. w[2] - 1
  BY DEF Of, In
<1>2. w[1] \in Int /\ w[2] - 1 \in Int
  OBVIOUS
<1>3. /\ IsFiniteSet(w[1] .. w[2] - 1)
      /\ Cardinality(w[1] .. w[2] - 1) = IF w[1] > w[2] - 1 THEN 0 ELSE w[2] - 1 - w[1] + 1
  BY <1>2, FS_Interval
<1>4. QED
  BY <1>1, <1>2, <1>3 DEF Later

LEMMA OverlapSize ==
  ASSUME NEW v \in Int \X Int, NEW w \in Int \X Int
  PROVE  IsFiniteSet(Of(v) \cap Of(w)) /\ Overlap(v, w) = Cardinality(Of(v) \cap Of(w))
<1>1. Of(Both(v, w)) = Of(v) \cap Of(w) /\ Both(v, w) \in Int \X Int
  BY BothCover DEF Of
<1>2. Overlap(v, w) = Later(0, Both(v, w)[2] - Both(v, w)[1])
  BY DEF Overlap, Both
<1>3. QED
  BY <1>1, <1>2, WindowSize

\* Of a window, the seconds that are inside some others, of which none overlap.
LEMMA PausedSize ==
  ASSUME NEW w \in Int \X Int, NEW Q, AreReal(Q),
         \A p, q \in Q : p # q => p[2] < q[1] \/ q[2] < p[1]
  PROVE  /\ IsFiniteSet(Of(w) \cap Inside(Q))
         /\ SumFunction([p \in Q |-> Overlap(w, p)]) = Cardinality(Of(w) \cap Inside(Q))
<1> DEFINE f == [p \in Q |-> Overlap(w, p)]
           D == [p \in Q |-> Of(w) \cap Of(p)]
<1>1. IsFiniteSet(Q) /\ Q \in SUBSET (Int \X Int)
  BY DEF AreReal, AreWindows
<1>2. f \in [Q -> Int]
  <2>1. \A p \in Q : Overlap(w, p) \in Int
    BY <1>1 DEF Overlap, Later, Sooner
  <2>2. QED
    BY <2>1
<1>3. \A p \in Q : IsFiniteSet(D[p]) /\ f[p] = Cardinality(D[p])
  BY <1>1, OverlapSize
<1>4. ASSUME NEW p \in Q, NEW q \in Q, p # q PROVE D[p] \cap D[q] = {}
  BY <1>1, <1>4 DEF Of, In
<1>5. AllOf(D, Q) = Of(w) \cap Inside(Q)
  <2>1. AllOf(D, Q) = UNION {Of(w) \cap Of(p) : p \in Q}
    BY DEF AllOf
  <2>2. QED
    BY <2>1 DEF Of, Inside
<1> HIDE DEF f, D
<1>6. IsFiniteSet(AllOf(D, Q)) /\ SumFunction(f) = Cardinality(AllOf(D, Q))
  BY <1>1, <1>2, <1>3, <1>4, SumOfSizes
<1>7. QED
  BY <1>5, <1>6 DEF f

LEMMA InsideIsFinite ==
  ASSUME NEW W, AreWindows(W)
  PROVE  IsFiniteSet(Inside(W))
<1> DEFINE M == MergeWindows(W)
           D == [w \in M |-> Of(w)]
           f == [w \in M |-> Cardinality(D[w])]
<1>1. /\ Inside(M) = Inside(W) /\ IsFiniteSet(M) /\ M \in SUBSET (Int \X Int)
      /\ \A v, w \in M : v # w => v[2] < w[1] \/ w[2] < v[1]
  BY MergedWindows DEF AreReal, AreWindows
<1> HIDE DEF M
<1>2. \A w \in M : IsFiniteSet(D[w]) /\ f[w] = Cardinality(D[w])
  BY <1>1, WindowSize
<1>3. f \in [M -> Int]
  <2>1. \A w \in M : Cardinality(D[w]) \in Int
    BY <1>2, FS_CardinalityType
  <2> HIDE DEF D
  <2>2. QED
    BY <2>1
<1>4. ASSUME NEW v \in M, NEW w \in M, v # w PROVE D[v] \cap D[w] = {}
  BY <1>1, <1>4 DEF Of, In
<1>5. AllOf(D, M) = Inside(M)
  BY DEF AllOf, Of, Inside
<1> HIDE DEF f, D
<1>6. IsFiniteSet(AllOf(D, M))
  BY <1>1, <1>2, <1>3, <1>4, SumOfSizes
<1>7. QED
  BY <1>1, <1>5, <1>6

\* live_seconds() counts the seconds of the windows that are in no pause, each once,
\* however the windows and the pauses overlap (bag.py:189).
THEOREM LiveSecondsCorrect ==
  ASSUME NEW W, AreWindows(W), NEW P, AreWindows(P)
  PROVE  /\ IsFiniteSet(Inside(W) \ Inside(P))
         /\ LiveSeconds(W, P) = Cardinality(Inside(W) \ Inside(P))
<1> DEFINE M == MergeWindows(W)
           Q == MergeWindows(P)
           f == [w \in M |-> Length(w) - SumFunction([p \in Q |-> Overlap(w, p)])]
           D == [w \in M |-> Of(w) \ Inside(Q)]
<1>1. /\ Inside(M) = Inside(W) /\ IsFiniteSet(M) /\ M \in SUBSET (Int \X Int)
      /\ \A v, w \in M : v # w => v[2] < w[1] \/ w[2] < v[1]
      /\ \A w \in M : w[1] < w[2]
  BY MergedWindows DEF AreReal, AreWindows
<1>2. AreReal(Q) /\ Inside(Q) = Inside(P) /\ \A p, q \in Q : p # q => p[2] < q[1] \/ q[2] < p[1]
  BY MergedWindows
<1>3. LiveSeconds(W, P) = Later(0, SumFunction(f))
  BY DEF LiveSeconds
<1> HIDE DEF M, Q
<1>4. ASSUME NEW w \in M PROVE IsFiniteSet(D[w]) /\ f[w] = Cardinality(D[w]) /\ f[w] \in Int
  <2> DEFINE size == SumFunction([p \in Q |-> Overlap(w, p)])
  <2>1. w \in Int \X Int /\ w[1] < w[2]
    BY <1>1
  <2>2. IsFiniteSet(Of(w)) /\ Cardinality(Of(w)) = Length(w) /\ Length(w) \in Int
    BY <2>1, WindowSize DEF Later, Length
  <2>3. IsFiniteSet(Of(w) \cap Inside(Q)) /\ size = Cardinality(Of(w) \cap Inside(Q))
    BY <1>2, <2>1, PausedSize
  <2>4. /\ IsFiniteSet(Of(w) \ Inside(Q))
        /\ Cardinality(Of(w) \ Inside(Q)) = Cardinality(Of(w)) - Cardinality(Of(w) \cap Inside(Q))
    BY <2>2, FS_Difference
  <2>5. Cardinality(Of(w) \cap Inside(Q)) \in Nat
    BY <2>3, FS_CardinalityType
  <2>6. f[w] = Length(w) - size /\ D[w] = Of(w) \ Inside(Q)
    OBVIOUS
  <2> HIDE DEF f, D, size
  <2>7. QED
    BY <2>2, <2>3, <2>4, <2>5, <2>6
<1>5. f \in [M -> Int]
  BY <1>4
<1>6. ASSUME NEW v \in M, NEW w \in M, v # w PROVE D[v] \cap D[w] = {}
  BY <1>1, <1>6 DEF Of, In
<1>7. AllOf(D, M) = Inside(W) \ Inside(P)
  <2>1. AllOf(D, M) = UNION {Of(w) \ Inside(Q) : w \in M}
    BY DEF AllOf
  <2>2. AllOf(D, M) = Inside(M) \ Inside(Q)
    BY <2>1 DEF Of, Inside
  <2>3. QED
    BY <1>1, <1>2, <2>2
<1> HIDE DEF f, D
<1>8. IsFiniteSet(AllOf(D, M)) /\ SumFunction(f) = Cardinality(AllOf(D, M))
  BY <1>1, <1>4, <1>5, <1>6, SumOfSizes
<1>9. Cardinality(AllOf(D, M)) \in Nat
  BY <1>8, FS_CardinalityType
<1>10. LiveSeconds(W, P) = Cardinality(AllOf(D, M))
  BY <1>3, <1>8, <1>9 DEF Later
<1>11. QED
  BY <1>7, <1>8, <1>10

-----------------------------------------------------------------------------
(* Loops *)

LEMMA MaxMin ==
  ASSUME NEW S \in SUBSET Int, IsFiniteSet(S), S # {}
  PROVE  /\ Max(S) \in S /\ \A x \in S : x <= Max(S)
         /\ Min(S) \in S /\ \A x \in S : Min(S) <= x
<1> DEFINE up == [x \in S |-> <<x, 0>>]
           down == [x \in S |-> <<-x, 0>>]
<1>1. IsFiniteSet({up[x] : x \in S}) /\ IsFiniteSet({down[x] : x \in S})
  <2>1. DOMAIN up = S /\ DOMAIN down = S
    OBVIOUS
  <2> HIDE DEF up, down
  <2>2. QED
    BY <2>1, ImageFinite
<1>2. AreWindows({up[x] : x \in S}) /\ AreWindows({down[x] : x \in S})
  BY <1>1 DEF AreWindows
<1>3. \E m \in S : \A x \in S : m >= x
  <2> DEFINE W == {up[x] : x \in S}
             l == LastOf(W)
  <2>1. l \in W /\ \A v \in W \ {l} : Earlier(v, l)
    <3>1. W # {}
      OBVIOUS
    <3> HIDE DEF W
    <3>2. QED
      BY <1>2, <3>1, LastExists DEF W
  <2> HIDE DEF l
  <2>2. PICK m \in S : l = up[m]
    BY <2>1
  <2>3. ASSUME NEW x \in S PROVE m >= x
    <3>1. up[x] \in W /\ (up[x] = l \/ Earlier(up[x], l))
      BY <2>1
    <3>2. QED
      BY <2>2, <3>1 DEF Earlier
  <2>4. QED
    BY <2>3
<1>4. \E m \in S : \A x \in S : m <= x
  <2> DEFINE W == {down[x] : x \in S}
             l == LastOf(W)
  <2>1. l \in W /\ \A v \in W \ {l} : Earlier(v, l)
    <3>1. W # {}
      OBVIOUS
    <3> HIDE DEF W
    <3>2. QED
      BY <1>2, <3>1, LastExists DEF W
  <2> HIDE DEF l
  <2>2. PICK m \in S : l = down[m]
    BY <2>1
  <2>3. ASSUME NEW x \in S PROVE m <= x
    <3>1. down[x] \in W /\ (down[x] = l \/ Earlier(down[x], l))
      BY <2>1
    <3>2. QED
      BY <2>2, <3>1 DEF Earlier
  <2>4. QED
    BY <2>3
<1>5. Max(S) \in S /\ \A x \in S : Max(S) >= x
  BY <1>3 DEF Max
<1>6. Min(S) \in S /\ \A x \in S : Min(S) <= x
  BY <1>4 DEF Min
<1>7. QED
  BY <1>5, <1>6

\* A loop takes its elements in order.
LEMMA LoopOrder ==
  ASSUME NEW n \in Nat
  PROVE  /\ IsFiniteSet(1 .. n)
         /\ \A T \in (SUBSET (1 .. n)) \ {{}} : Max(T) \in T
         /\ \A k \in 1 .. n : Max(1 .. k) = k /\ (1 .. k) \ {k} = 1 .. k - 1 /\ (1 .. k) \in SUBSET (1 .. n)
<1>1. IsFiniteSet(1 .. n)
  BY FS_Interval
<1>2. ASSUME NEW T \in (SUBSET (1 .. n)) \ {{}} PROVE Max(T) \in T /\ \A x \in T : x <= Max(T)
  <2>1. IsFiniteSet(T)
    BY <1>1, FS_Subset
  <2>2. T \in SUBSET Int /\ T # {}
    OBVIOUS
  <2>3. QED
    BY <2>1, <2>2, MaxMin
<1>3. ASSUME NEW k \in 1 .. n
      PROVE  Max(1 .. k) = k /\ (1 .. k) \ {k} = 1 .. k - 1 /\ (1 .. k) \in SUBSET (1 .. n)
  <2>1. 1 .. k \in (SUBSET (1 .. n)) \ {{}} /\ k \in 1 .. k
    OBVIOUS
  <2>2. Max(1 .. k) \in 1 .. k /\ k <= Max(1 .. k)
    BY <1>2, <2>1
  <2>3. QED
    BY <2>1, <2>2
<1>4. QED
  BY <1>1, <1>2, <1>3

IsLoop(loop, n, V, base, step) ==
  /\ loop \in [SUBSET (1 .. n) -> V]
  /\ \A T \in SUBSET (1 .. n) : loop[T] = IF T = {} THEN base ELSE step[<<Max(T), loop[T \ {Max(T)}]>>]

LEMMA LoopExists ==
  ASSUME NEW n \in Nat, NEW V, NEW base \in V, NEW step \in [(1 .. n) \X V -> V]
  PROVE  \E loop : IsLoop(loop, n, V, base, step)
<1> DEFINE S == 1 .. n
           pick == [T \in (SUBSET S) \ {{}} |-> Max(T)]
<1>1. IsFiniteSet(S) /\ pick \in [(SUBSET S) \ {{}} -> S] /\ \A T \in (SUBSET S) \ {{}} : pick[T] \in T
  BY LoopOrder
<1>2. \A T \in (SUBSET S) \ {{}} : pick[T] = Max(T)
  OBVIOUS
<1>3. step \in [S \X V -> V]
  OBVIOUS
<1> HIDE DEF S, pick
<1>4. PICK fold : IsFold(fold, S, V, base, pick, step)
  BY <1>1, <1>3, FoldExists
<1>5. /\ fold \in [SUBSET S -> V]
      /\ \A T \in SUBSET S : fold[T] = IF T = {} THEN base ELSE step[<<pick[T], fold[T \ {pick[T]}]>>]
  BY <1>4 DEF IsFold, IsFoldOn
<1>6. \A T \in SUBSET S : fold[T] = IF T = {} THEN base ELSE step[<<Max(T), fold[T \ {Max(T)}]>>]
  BY <1>2, <1>5
<1>7. IsLoop(fold, n, V, base, step)
  BY <1>5, <1>6 DEF S, IsLoop
<1>8. QED
  BY <1>7

\* Events no later than those behind them.
InOrder(s) == \A i, j \in 1 .. Len(s) : i <= j => s[i].stamp <= s[j].stamp

LEMMA InsertTypes ==
  ASSUME NEW E, NEW t \in Seq(E), NEW e \in E
  PROVE  InsertByStamp(t, e) \in Seq(E)
<1> DEFINE D == {i \in DOMAIN t : t[i].stamp <= e.stamp}
           k == Cardinality(D) + 1
<1>1. DOMAIN t = 1 .. Len(t) /\ Len(t) \in Nat
  OBVIOUS
<1>2. IsFiniteSet(1 .. Len(t)) /\ Cardinality(1 .. Len(t)) = Len(t)
  BY <1>1, FS_Interval
<1>3. k \in 1 .. Len(t) + 1
  <2>1. IsFiniteSet(D) /\ Cardinality(D) <= Cardinality(1 .. Len(t))
    BY <1>1, <1>2, FS_Subset
  <2>2. Cardinality(D) \in Nat
    BY <2>1, FS_CardinalityType
  <2>3. QED
    BY <1>1, <1>2, <2>1, <2>2
<1>4. InsertByStamp(t, e) = InsertAt(t, k, e)
  BY DEF InsertByStamp
<1> HIDE DEF k
<1>5. InsertAt(t, k, e) = SubSeq(t, 1, k - 1) \o <<e>> \o SubSeq(t, k, Len(t))
  BY DEF InsertAt
<1>6. SubSeq(t, 1, k - 1) \in Seq(E) /\ SubSeq(t, k, Len(t)) \in Seq(E) /\ <<e>> \in Seq(E)
  BY <1>1, <1>3, SubSeqProperties
<1>7. QED
  BY <1>4, <1>5, <1>6

\* What is not earlier than all there is goes last.
LEMMA InsertLast ==
  ASSUME NEW E, NEW t \in Seq(E), NEW e \in E, \A i \in 1 .. Len(t) : t[i].stamp <= e.stamp
  PROVE  InsertByStamp(t, e) = Append(t, e)
<1>1. DOMAIN t = 1 .. Len(t) /\ Len(t) \in Nat
  OBVIOUS
<1>2. {i \in DOMAIN t : t[i].stamp <= e.stamp} = 1 .. Len(t)
  BY <1>1
<1>3. IsFiniteSet(1 .. Len(t)) /\ Cardinality(1 .. Len(t)) = Len(t)
  BY <1>1, FS_Interval
<1>4. InsertByStamp(t, e) = SubSeq(t, 1, Len(t) + 1 - 1) \o <<e>> \o SubSeq(t, Len(t) + 1, Len(t))
  <2>1. InsertByStamp(t, e) = InsertAt(t, Len(t) + 1, e)
    BY <1>2, <1>3 DEF InsertByStamp
  <2>2. QED
    BY <2>1 DEF InsertAt
<1>5. SubSeq(t, 1, Len(t) + 1 - 1) = t
  BY <1>1, SubSeqFull
<1>6. SubSeq(t, Len(t) + 1, Len(t)) = <<>>
  BY <1>1, SubSeqEmpty
<1>7. InsertByStamp(t, e) = t \o <<e>>
  <2>1. t \o <<e>> \in Seq(E) /\ (t \o <<e>>) \o <<>> = t \o <<e>>
    OBVIOUS
  <2>2. InsertByStamp(t, e) = (t \o <<e>>) \o <<>>
    BY <1>4, <1>5, <1>6
  <2>3. QED
    BY <2>1, <2>2
<1>8. QED
  BY <1>7, AppendIsConcat

\* Sorting what is in order changes nothing.
LEMMA Sorts ==
  ASSUME NEW E, NEW s \in Seq(E), InOrder(s)
  PROVE  Sorted(s) = s
<1> DEFINE n == Len(s)
           V == Seq(E)
           step == [p \in (1 .. n) \X V |-> InsertByStamp(p[2], s[p[1]])]
           Equation(iter) ==
             iter = [T \in SUBSET (1 .. n) |-> IF T = {} THEN <<>> ELSE InsertByStamp(iter[T \ {Max(T)}], s[Max(T)])]
           sorted == CHOOSE iter : Equation(iter)
<1>1. DOMAIN s = 1 .. n /\ n \in Nat /\ \A i \in 1 .. n : s[i] \in E
  OBVIOUS
<1>2. Sorted(s) = sorted[1 .. n]
  BY <1>1 DEF Sorted, FoldLeft, MapThenFoldSet
<1> HIDE DEF n
<1>3. step \in [(1 .. n) \X V -> V] /\ <<>> \in V
  BY <1>1, InsertTypes
<1>4. \E iter : Equation(iter)
  <2>0. PICK fold : IsLoop(fold, n, V, <<>>, step)
    <3> HIDE DEF step, V
    <3>1. QED
      BY <1>1, <1>3, LoopExists
  <2>1. /\ fold \in [SUBSET (1 .. n) -> V]
        /\ \A T \in SUBSET (1 .. n) :
             fold[T] = IF T = {} THEN <<>> ELSE step[<<Max(T), fold[T \ {Max(T)}]>>]
    BY <2>0 DEF IsLoop
  <2>2. ASSUME NEW T \in SUBSET (1 .. n), T # {}
        PROVE  step[<<Max(T), fold[T \ {Max(T)}]>>] = InsertByStamp(fold[T \ {Max(T)}], s[Max(T)])
    <3>1. Max(T) \in 1 .. n
      BY <1>1, <2>2, LoopOrder
    <3>2. fold[T \ {Max(T)}] \in V
      BY <2>1
    <3>3. <<Max(T), fold[T \ {Max(T)}]>> \in (1 .. n) \X V
      BY <3>1, <3>2
    <3>4. QED
      BY <3>3
  <2> HIDE DEF step, V
  <2>3. \A T \in SUBSET (1 .. n) :
          fold[T] = IF T = {} THEN <<>> ELSE InsertByStamp(fold[T \ {Max(T)}], s[Max(T)])
    BY <2>1, <2>2
  <2>4. fold = [T \in SUBSET (1 .. n) |-> fold[T]]
    BY <2>1
  <2>5. Equation(fold)
    BY <2>3, <2>4
  <2>6. QED
    BY <2>5
<1>5. Equation(sorted)
  <2> HIDE DEF Equation
  <2>1. QED
    BY <1>4
<1> HIDE DEF sorted
<1>6. \A T \in SUBSET (1 .. n) : sorted[T] = IF T = {} THEN <<>> ELSE InsertByStamp(sorted[T \ {Max(T)}], s[Max(T)])
  BY <1>5
<1> DEFINE Bad == {k \in 0 .. n : sorted[1 .. k] # SubSeq(s, 1, k)}
<1>7. ASSUME NEW k \in Bad, \A m \in Bad : k <= m PROVE FALSE
  <2>1. k \in 0 .. n /\ sorted[1 .. k] # SubSeq(s, 1, k)
    OBVIOUS
  <2>2. CASE k = 0
    <3>1. 1 .. k = {} /\ SubSeq(s, 1, k) = <<>>
      BY <2>2, SubSeqEmpty
    <3>2. QED
      BY <1>6, <2>1, <3>1
  <2>3. CASE k # 0
    <3>1. k \in 1 .. n /\ k - 1 \in 0 .. n /\ k - 1 \notin Bad
      BY <1>1, <1>7, <2>1, <2>3
    <3> DEFINE t == SubSeq(s, 1, k - 1)
    <3>2. sorted[1 .. k - 1] = t
      BY <3>1
    <3>3. /\ t \in Seq(E) /\ Len(t) = k - 1
          /\ \A i \in 1 .. k - 1 : t[i] = s[i]
      BY <1>1, <3>1, SubSeqProperties DEF n
    <3>4. sorted[1 .. k] = InsertByStamp(t, s[k])
      <4>1. Max(1 .. k) = k /\ (1 .. k) \ {k} = 1 .. k - 1 /\ (1 .. k) \in SUBSET (1 .. n)
        BY <1>1, <3>1, LoopOrder
      <4>2. sorted[1 .. k] = InsertByStamp(sorted[(1 .. k) \ {Max(1 .. k)}], s[Max(1 .. k)])
        <5>1. 1 .. k # {}
          BY <3>1
        <5>2. QED
          BY <1>6, <4>1, <5>1
      <4>3. QED
        BY <3>2, <4>1, <4>2
    <3>5. \A i \in 1 .. Len(t) : t[i].stamp <= s[k].stamp
      BY <1>1, <3>1, <3>3 DEF InOrder, n
    <3>6. s[k] \in E
      BY <1>1, <3>1
    <3> HIDE DEF t
    <3>7. sorted[1 .. k] = Append(t, s[k])
      BY <3>3, <3>4, <3>5, <3>6, InsertLast
    <3>8. SubSeq(s, 1, k) = Append(t, s[k])
      <4>1. SubSeq(s, 1, k) = SubSeq(s, 1, k - 1) \o <<s[k]>>
        BY <1>1, <3>1, SubSeqRecursiveSecond DEF n
      <4>2. QED
        BY <3>3, <3>6, <4>1, AppendIsConcat DEF t
    <3>9. QED
      BY <2>1, <3>7, <3>8
  <2>4. QED
    BY <2>2, <2>3
<1>8. Bad = {}
  <2>1. Bad \in SUBSET Nat
    BY <1>1
  <2> HIDE DEF Bad
  <2>2. QED
    BY <1>7, <2>1, Least
<1>9. sorted[1 .. n] = SubSeq(s, 1, n)
  BY <1>1, <1>8
<1>10. SubSeq(s, 1, n) = s
  BY SubSeqFull DEF n
<1>11. QED
  BY <1>2, <1>9, <1>10

\* What the loop over the events has made of those so far.
States == [windows : {W \in SUBSET (Int \X Int) : IsFiniteSet(W)}, opened : Int \cup {None}]
Start == [windows |-> {}, opened |-> None]
StepIf(state, event, matching, opening, closing) ==
  IF event \in matching THEN WindowStep(state, event, opening, closing) ELSE state
IsRun(run, s, matching, opening, closing) ==
  /\ run \in [0 .. Len(s) -> States]
  /\ run[0] = Start
  /\ \A k \in 1 .. Len(s) : run[k] = StepIf(run[k - 1], s[k], matching, opening, closing)

LEMMA StepTypes ==
  ASSUME NEW state \in States, NEW event, event.stamp \in Int, NEW matching, NEW opening, NEW closing
  PROVE  StepIf(state, event, matching, opening, closing) \in States
<1>1. WindowStep(state, event, opening, closing) \in States
  <2>1. /\ state.windows \in SUBSET (Int \X Int) /\ IsFiniteSet(state.windows)
        /\ state.opened \in Int \cup {None}
        /\ state = [windows |-> state.windows, opened |-> state.opened]
    BY DEF States
  <2>2. CASE event.action = opening /\ state.opened = None
    <3>1. WindowStep(state, event, opening, closing) = [state EXCEPT !.opened = event.stamp]
      BY <2>2 DEF WindowStep
    <3>2. QED
      BY <2>1, <3>1 DEF States
  <2>3. CASE ~(event.action = opening /\ state.opened = None) /\ event.action = closing /\ state.opened # None
    <3>1. WindowStep(state, event, opening, closing) =
            [windows |-> state.windows \cup {<<state.opened, event.stamp>>}, opened |-> None]
      BY <2>3 DEF WindowStep
    <3>2. IsFiniteSet(state.windows \cup {<<state.opened, event.stamp>>})
      BY <2>1, FS_AddElement
    <3>3. state.opened \in Int
      BY <2>1, <2>3
    <3>4. QED
      BY <2>1, <3>1, <3>2, <3>3 DEF States
  <2>4. CASE ~(event.action = opening /\ state.opened = None) /\ ~(event.action = closing /\ state.opened # None)
    <3>1. WindowStep(state, event, opening, closing) = state
      BY <2>4 DEF WindowStep
    <3>2. QED
      BY <3>1
  <2>5. QED
    BY <2>2, <2>3, <2>4
<1>2. QED
  BY <1>1 DEF StepIf

LEMMA RunExists ==
  ASSUME NEW E, \A e \in E : e.stamp \in Int, NEW s \in Seq(E), InOrder(s),
         NEW matching, NEW opening, NEW closing
  PROVE  \E run : /\ IsRun(run, s, matching, opening, closing)
                  /\ WindowsSoFar(s, matching, opening, closing) = run[Len(s)]
<1> DEFINE n == Len(s)
           Step(state, event) == StepIf(state, event, matching, opening, closing)
           step == [p \in (1 .. n) \X States |-> Step(p[2], s[p[1]])]
           Equation(iter) ==
             iter = [T \in SUBSET (1 .. n) |-> IF T = {} THEN Start ELSE Step(iter[T \ {Max(T)}], s[Max(T)])]
           state == CHOOSE iter : Equation(iter)
<1>1. DOMAIN s = 1 .. n /\ n \in Nat /\ \A i \in 1 .. n : s[i] \in E
  OBVIOUS
<1>2. WindowsSoFar(s, matching, opening, closing) = state[1 .. n]
  <2>1. Sorted(s) = s
    BY Sorts
  <2>2. QED
    BY <1>1, <2>1 DEF WindowsSoFar, FoldLeft, MapThenFoldSet, StepIf, Start
<1> HIDE DEF n
<1>3. step \in [(1 .. n) \X States -> States] /\ Start \in States
  <2>1. Start \in States
    BY FS_EmptySet DEF Start, States
  <2>2. QED
    BY <1>1, <2>1, StepTypes
<1>4. \E iter : Equation(iter)
  <2>1. PICK fold : IsLoop(fold, n, States, Start, step)
    <3> HIDE DEF step
    <3>1. QED
      BY <1>1, <1>3, LoopExists
  <2>2. /\ fold \in [SUBSET (1 .. n) -> States]
        /\ \A T \in SUBSET (1 .. n) :
             fold[T] = IF T = {} THEN Start ELSE step[<<Max(T), fold[T \ {Max(T)}]>>]
    BY <2>1 DEF IsLoop
  <2>3. ASSUME NEW T \in SUBSET (1 .. n), T # {}
        PROVE  step[<<Max(T), fold[T \ {Max(T)}]>>] = Step(fold[T \ {Max(T)}], s[Max(T)])
    <3>1. Max(T) \in 1 .. n
      BY <1>1, <2>3, LoopOrder
    <3>2. fold[T \ {Max(T)}] \in States
      BY <2>2
    <3>3. <<Max(T), fold[T \ {Max(T)}]>> \in (1 .. n) \X States
      BY <3>1, <3>2
    <3>4. QED
      BY <3>3
  <2> HIDE DEF step
  <2>4. \A T \in SUBSET (1 .. n) : fold[T] = IF T = {} THEN Start ELSE Step(fold[T \ {Max(T)}], s[Max(T)])
    BY <2>2, <2>3
  <2>5. fold = [T \in SUBSET (1 .. n) |-> fold[T]]
    BY <2>2
  <2>6. Equation(fold)
    BY <2>4, <2>5
  <2>7. QED
    BY <2>6
<1>5. Equation(state)
  <2> HIDE DEF Equation
  <2>1. QED
    BY <1>4
<1> HIDE DEF state
<1>6. \A T \in SUBSET (1 .. n) : state[T] = IF T = {} THEN Start ELSE Step(state[T \ {Max(T)}], s[Max(T)])
  BY <1>5
<1> DEFINE run == [k \in 0 .. n |-> state[1 .. k]]
<1>7. run[0] = Start
  <2>1. 1 .. 0 = {} /\ 0 \in 0 .. n /\ {} \in SUBSET (1 .. n)
    BY <1>1
  <2>2. run[0] = state[{}]
    BY <2>1
  <2>3. QED
    BY <1>6, <2>1, <2>2
<1>8. ASSUME NEW k \in 1 .. n PROVE run[k] = Step(run[k - 1], s[k])
  <2>1. Max(1 .. k) = k /\ (1 .. k) \ {k} = 1 .. k - 1 /\ (1 .. k) \in SUBSET (1 .. n)
    BY <1>1, LoopOrder
  <2>2. k \in 1 .. k /\ k \in 0 .. n /\ k - 1 \in 0 .. n
    BY <1>1
  <2>3. state[1 .. k] = Step(state[(1 .. k) \ {Max(1 .. k)}], s[Max(1 .. k)])
    BY <1>6, <2>1, <2>2
  <2>4. QED
    BY <2>1, <2>2, <2>3
<1> DEFINE Bad == {k \in 0 .. n : run[k] \notin States}
<1>9. ASSUME NEW k \in Bad, \A m \in Bad : k <= m PROVE FALSE
  <2>1. k \in 0 .. n /\ run[k] \notin States
    OBVIOUS
  <2> HIDE DEF run
  <2>2. k # 0
    BY <1>3, <1>7, <2>1
  <2>3. k \in 1 .. n /\ k - 1 \in 0 .. n /\ k - 1 \notin Bad
    BY <1>1, <1>9, <2>1, <2>2
  <2>4. run[k - 1] \in States /\ s[k].stamp \in Int
    BY <1>1, <2>3
  <2>5. Step(run[k - 1], s[k]) \in States
    BY <2>4, StepTypes
  <2>6. QED
    BY <1>8, <2>1, <2>3, <2>5
<1>10. Bad = {}
  <2>1. Bad \in SUBSET Nat
    BY <1>1
  <2> HIDE DEF Bad
  <2>2. QED
    BY <1>9, <2>1, Least
<1>11. run \in [0 .. n -> States]
  BY <1>10
<1>12. run[n] = state[1 .. n]
  BY <1>1
<1> HIDE DEF run
<1>13. IsRun(run, s, matching, opening, closing)
  BY <1>7, <1>8, <1>11 DEF IsRun, n
<1>14. QED
  BY <1>2, <1>12, <1>13 DEF n

LEMMA WindowsAreStates ==
  ASSUME NEW E, \A e \in E : e.stamp \in Int, NEW s \in Seq(E), InOrder(s),
         NEW matching, NEW opening, NEW closing
  PROVE  WindowsSoFar(s, matching, opening, closing) \in States
<1>1. PICK run : IsRun(run, s, matching, opening, closing)
                 /\ WindowsSoFar(s, matching, opening, closing) = run[Len(s)]
  BY RunExists
<1>2. Len(s) \in 0 .. Len(s) /\ run \in [0 .. Len(s) -> States]
  BY <1>1 DEF IsRun
<1>3. QED
  BY <1>1, <1>2

\* One more event, no earlier than the others, is one more step.
LEMMA OneMoreEvent ==
  ASSUME NEW E, \A e \in E : e.stamp \in Int, NEW s \in Seq(E), NEW e \in E,
         InOrder(Append(s, e)),
         NEW matching, NEW more, \A i \in 1 .. Len(s) : s[i] \in more <=> s[i] \in matching,
         NEW opening, NEW closing
  PROVE  WindowsSoFar(Append(s, e), more, opening, closing) =
           StepIf(WindowsSoFar(s, matching, opening, closing), e, more, opening, closing)
<1> DEFINE t == Append(s, e)
           n == Len(s)
<1>1. /\ t \in Seq(E) /\ Len(t) = n + 1 /\ t[n + 1] = e /\ \A i \in 1 .. n : t[i] = s[i]
      /\ n \in Nat
  BY AppendProperties
<1> HIDE DEF t
<1>2. InOrder(s) /\ InOrder(t)
  <2>1. InOrder(t)
    BY DEF t
  <2>2. QED
    BY <1>1, <2>1 DEF InOrder
<1>3. PICK run : IsRun(run, s, matching, opening, closing)
                 /\ WindowsSoFar(s, matching, opening, closing) = run[n]
  BY <1>2, RunExists
<1>4. PICK longer : IsRun(longer, t, more, opening, closing)
                    /\ WindowsSoFar(t, more, opening, closing) = longer[Len(t)]
  BY <1>1, <1>2, RunExists
<1>5. /\ run[0] = Start
      /\ \A k \in 1 .. n : run[k] = StepIf(run[k - 1], s[k], matching, opening, closing)
  BY <1>3 DEF IsRun
<1>6. /\ longer[0] = Start
      /\ \A k \in 1 .. n + 1 : longer[k] = StepIf(longer[k - 1], t[k], more, opening, closing)
  BY <1>1, <1>4 DEF IsRun
<1> HIDE DEF n
<1> DEFINE Bad == {k \in 0 .. n : longer[k] # run[k]}
<1>7. ASSUME NEW k \in Bad, \A m \in Bad : k <= m PROVE FALSE
  <2>1. k \in 0 .. n /\ longer[k] # run[k]
    OBVIOUS
  <2>2. k # 0
    BY <1>5, <1>6, <2>1
  <2>3. k \in 1 .. n /\ k \in 1 .. n + 1 /\ k - 1 \in 0 .. n /\ k - 1 \notin Bad
    BY <1>1, <1>7, <2>1, <2>2
  <2>4. longer[k - 1] = run[k - 1] /\ t[k] = s[k] /\ (s[k] \in more <=> s[k] \in matching)
    BY <1>1, <2>3 DEF n
  <2>5. StepIf(run[k - 1], s[k], matching, opening, closing) = StepIf(run[k - 1], s[k], more, opening, closing)
    BY <2>4 DEF StepIf
  <2>6. QED
    BY <1>5, <1>6, <2>1, <2>3, <2>4, <2>5
<1>8. Bad = {}
  <2>1. Bad \in SUBSET Nat
    BY <1>1
  <2> HIDE DEF Bad
  <2>2. QED
    BY <1>7, <2>1, Least
<1>9. longer[n] = run[n]
  BY <1>1, <1>8
<1>10. longer[n + 1] = StepIf(longer[n + 1 - 1], t[n + 1], more, opening, closing) /\ n + 1 - 1 = n
  BY <1>1, <1>6
<1>11. WindowsSoFar(t, more, opening, closing) = StepIf(WindowsSoFar(s, matching, opening, closing), e, more, opening, closing)
  BY <1>1, <1>3, <1>4, <1>9, <1>10 DEF n
<1>12. QED
  BY <1>11 DEF t

\* What is opened over and over is open since the start.
LEMMA OnlyOpened ==
  ASSUME NEW E, \A e \in E : e.stamp \in Int, NEW s \in Seq(E), NEW matching, NEW opening, NEW closing,
         InOrder(s), opening # closing,
         \A i \in 1 .. Len(s) : s[i] \in matching => s[i].stamp = 0 /\ s[i].action = opening
  PROVE  WindowsSoFar(s, matching, opening, closing) =
           [windows |-> {}, opened |-> IF \E i \in 1 .. Len(s) : s[i] \in matching THEN 0 ELSE None]
<1> DEFINE n == Len(s)
           open == [k \in 0 .. n |->
                      [windows |-> {}, opened |-> IF \E i \in 1 .. k : s[i] \in matching THEN 0 ELSE None]]
<1>1. n \in Nat
  OBVIOUS
<1>2. PICK run : IsRun(run, s, matching, opening, closing)
                 /\ WindowsSoFar(s, matching, opening, closing) = run[n]
  BY <1>1, RunExists
<1>3. /\ run[0] = Start
      /\ \A k \in 1 .. n : run[k] = StepIf(run[k - 1], s[k], matching, opening, closing)
  BY <1>2 DEF IsRun
<1>4. \A k \in 1 .. n : s[k] \in matching => s[k].stamp = 0 /\ s[k].action = opening
  OBVIOUS
<1>5. 0 # None
  BY BagReportAssumption
<1> HIDE DEF n
<1>0. \A k \in 0 .. n :
        open[k] = [windows |-> {}, opened |-> IF \E i \in 1 .. k : s[i] \in matching THEN 0 ELSE None]
  OBVIOUS
<1> HIDE DEF open
<1> DEFINE Bad == {k \in 0 .. n : run[k] # open[k]}
<1>6. ASSUME NEW k \in Bad, \A m \in Bad : k <= m PROVE FALSE
  <2>1. k \in 0 .. n /\ run[k] # open[k]
    OBVIOUS
  <2>2. CASE k = 0
    <3>1. open[0] = Start
      <4>1. ~\E i \in 1 .. 0 : s[i] \in matching
        OBVIOUS
      <4>2. ASSUME NEW j \in 0 .. n, ~\E i \in 1 .. j : s[i] \in matching
            PROVE  open[j] = [windows |-> {}, opened |-> None]
        BY <1>0, <4>2
      <4>3. 0 \in 0 .. n
        BY <1>1
      <4>4. open[0] = [windows |-> {}, opened |-> None]
        BY <4>1, <4>2, <4>3
      <4>5. QED
        BY <4>4 DEF Start
    <3>2. QED
      BY <1>3, <2>1, <2>2, <3>1
  <2>3. CASE k # 0
    <3>1. k \in 1 .. n /\ k - 1 \in 0 .. n /\ k - 1 \notin Bad
      BY <1>1, <1>6, <2>1, <2>3
    <3>2. run[k - 1] = open[k - 1] /\ run[k] = StepIf(run[k - 1], s[k], matching, opening, closing)
      BY <1>3, <3>1
    <3>4. (\E i \in 1 .. k : s[i] \in matching) <=> (s[k] \in matching \/ \E i \in 1 .. k - 1 : s[i] \in matching)
      BY <1>1, <3>1
    <3>5. CASE s[k] \notin matching
      <4>1. run[k] = run[k - 1]
        BY <3>2, <3>5 DEF StepIf
      <4>2. open[k] = open[k - 1]
        BY <1>0, <2>1, <3>1, <3>4, <3>5
      <4>3. QED
        BY <2>1, <3>2, <4>1, <4>2
    <3>6. CASE s[k] \in matching
      <4>0. s[k].stamp = 0 /\ s[k].action = opening
        BY <1>4, <3>1, <3>6
      <4> DEFINE before == run[k - 1]
      <4>1. run[k] = WindowStep(before, s[k], opening, closing)
        BY <3>2, <3>6 DEF StepIf
      <4>2. open[k] = [windows |-> {}, opened |-> 0]
        BY <1>0, <2>1, <3>4, <3>6
      <4>3. CASE \E i \in 1 .. k - 1 : s[i] \in matching
        <5>1. before = [windows |-> {}, opened |-> 0]
          BY <1>0, <3>1, <3>2, <4>3
        <5> HIDE DEF before
        <5>2. WindowStep(before, s[k], opening, closing) = before
          BY <1>5, <4>0, <5>1 DEF WindowStep
        <5>3. QED
          BY <2>1, <4>1, <4>2, <5>1, <5>2
      <4>4. CASE ~\E i \in 1 .. k - 1 : s[i] \in matching
        <5>1. before = [windows |-> {}, opened |-> None]
          BY <1>0, <3>1, <3>2, <4>4
        <5> HIDE DEF before
        <5>2. WindowStep(before, s[k], opening, closing) = [before EXCEPT !.opened = 0]
          BY <4>0, <5>1 DEF WindowStep
        <5>3. QED
          BY <2>1, <4>1, <4>2, <5>1, <5>2
      <4>5. QED
        BY <4>3, <4>4
    <3>7. QED
      BY <3>5, <3>6
  <2>4. QED
    BY <2>2, <2>3
<1>7. Bad = {}
  <2>1. Bad \in SUBSET Nat
    BY <1>1
  <2> HIDE DEF Bad
  <2>2. QED
    BY <1>6, <2>1, Least
<1>8. n \in 0 .. n /\ run[n] = open[n]
  BY <1>1, <1>7
<1>9. QED
  BY <1>0, <1>2, <1>8 DEF n

\* What is open at the end is a window until then.
LEMMA EventWindowsInside ==
  ASSUME NEW events, NEW matching, NEW opening, NEW closing, NEW end \in Int,
         NEW state \in States, state = WindowsSoFar(events, matching, opening, closing)
  PROVE  /\ AreReal(EventWindows(events, matching, opening, closing, end))
         /\ \A i \in Int : i \in Inside(EventWindows(events, matching, opening, closing, end)) <=>
              \/ i \in Inside(state.windows)
              \/ state.opened # None /\ state.opened <= i /\ i < end
<1> DEFINE open == IF state.opened = None THEN {} ELSE {<<state.opened, end>>}
           W == state.windows \cup open
<1>1. /\ state.windows \in SUBSET (Int \X Int) /\ IsFiniteSet(state.windows)
      /\ state.opened \in Int \cup {None}
  BY DEF States
<1>2. IsFiniteSet(open) /\ open \in SUBSET (Int \X Int)
  <2>1. CASE state.opened = None
    <3>1. open = {}
      BY <2>1
    <3>2. QED
      BY <3>1, FS_EmptySet
  <2>2. CASE state.opened # None
    <3>1. open = {<<state.opened, end>>}
      BY <2>2
    <3>2. IsFiniteSet({<<state.opened, end>>}) /\ <<state.opened, end>> \in Int \X Int
      BY <1>1, <2>2, FS_Singleton
    <3>3. QED
      BY <3>1, <3>2
  <2>3. QED
    BY <2>1, <2>2
<1>3. IsFiniteSet(W)
  <2> HIDE DEF open
  <2>1. QED
    BY <1>1, <1>2, FS_Union
<1>4. AreWindows(W)
  BY <1>1, <1>2, <1>3 DEF AreWindows
<1>5. \A i \in Int : i \in Inside(W) <=>
        i \in Inside(state.windows) \/ (state.opened # None /\ state.opened <= i /\ i < end)
  <2>1. \A i \in Int : i \in Inside(W) <=> i \in Inside(state.windows) \/ i \in Inside(open)
    BY DEF Inside
  <2>2. \A i \in Int : i \in Inside(open) <=> (state.opened # None /\ state.opened <= i /\ i < end)
    <3>1. CASE state.opened = None
      <4>1. open = {}
        BY <3>1
      <4>2. QED
        BY <3>1, <4>1 DEF Inside
    <3>2. CASE state.opened # None
      <4>1. open = {<<state.opened, end>>}
        BY <3>2
      <4>2. ASSUME NEW i \in Int
            PROVE  In(<<state.opened, end>>, i) <=> (state.opened <= i /\ i < end)
        BY DEF In
      <4>3. ASSUME NEW i \in Int PROVE i \in Inside(open) <=> In(<<state.opened, end>>, i)
        BY <4>1 DEF Inside
      <4> HIDE DEF open
      <4>4. QED
        BY <3>2, <4>2, <4>3
    <3>3. QED
      BY <3>1, <3>2
  <2>3. QED
    BY <2>1, <2>2
<1>6. EventWindows(events, matching, opening, closing, end) = MergeWindows(W)
  BY DEF EventWindows
<1> HIDE DEF W
<1>7. QED
  BY <1>4, <1>5, <1>6, MergedWindows

-----------------------------------------------------------------------------
(* Holes *)

LEMMA RangeOfStamps ==
  ASSUME NEW E, NEW s \in Seq(E)
  PROVE  IsFiniteSet(Range(s)) /\ Range(s) \in SUBSET E
<1>1. DOMAIN s = 1 .. Len(s) /\ Len(s) \in Nat
  OBVIOUS
<1>2. IsFiniteSet(1 .. Len(s))
  BY <1>1, FS_Interval
<1>3. IsFiniteSet({s[i] : i \in 1 .. Len(s)})
  BY <1>1, <1>2, ImageFinite
<1>4. QED
  BY <1>1, <1>3 DEF Range

\* Between what comes before a hole and what comes after it is a gap.
LEMMA GapsCover ==
  ASSUME NEW stamps \in Seq(Int), NEW threshold \in Int
  PROVE  /\ AreWindows(GapsIn(stamps, threshold))
         /\ \A from, to \in Int :
              /\ from < to /\ to - from >= threshold
              /\ \E x \in Range(stamps) : x <= from
              /\ \E y \in Range(stamps) : to <= y
              /\ \A x \in Range(stamps) : x <= from \/ to <= x
              => \E w \in GapsIn(stamps, threshold) : w[1] <= from /\ to <= w[2]
<1> DEFINE R == Range(stamps)
<1>1. IsFiniteSet(R) /\ R \in SUBSET Int
  BY RangeOfStamps
<1>2. GapsIn(stamps, threshold) =
        {w \in R \X R : w[1] < w[2] /\ (~\E x \in R : w[1] < x /\ x < w[2]) /\ w[2] - w[1] >= threshold}
  BY DEF GapsIn, Neighbours, Length
<1> HIDE DEF R
<1>3. AreWindows(GapsIn(stamps, threshold))
  <2>1. IsFiniteSet(R \X R)
    BY <1>1, FS_Product
  <2>2. GapsIn(stamps, threshold) \in SUBSET (R \X R)
    BY <1>2
  <2>3. IsFiniteSet(GapsIn(stamps, threshold))
    BY <2>1, <2>2, FS_Subset
  <2>4. QED
    BY <1>1, <2>2, <2>3 DEF AreWindows
<1>4. ASSUME NEW from \in Int, NEW to \in Int, from < to, to - from >= threshold,
             \E x \in R : x <= from, \E y \in R : to <= y, \A x \in R : x <= from \/ to <= x
      PROVE  \E w \in GapsIn(stamps, threshold) : w[1] <= from /\ to <= w[2]
  <2> DEFINE Before == {x \in R : x <= from}
             After == {y \in R : to <= y}
  <2>1. /\ IsFiniteSet(Before) /\ Before \in SUBSET Int /\ Before # {}
        /\ IsFiniteSet(After) /\ After \in SUBSET Int /\ After # {}
    <3>1. Before \in SUBSET R /\ After \in SUBSET R
      OBVIOUS
    <3>2. IsFiniteSet(Before) /\ IsFiniteSet(After)
      BY <1>1, <3>1, FS_Subset
    <3>3. QED
      BY <1>1, <1>4, <3>2
  <2> DEFINE b == Max(Before)
             a == Min(After)
  <2>2. b \in Before /\ (\A x \in Before : x <= b) /\ a \in After /\ \A x \in After : a <= x
    <3> HIDE DEF Before, After
    <3>1. QED
      BY <2>1, MaxMin
  <2> HIDE DEF a, b
  <2>3. /\ b \in R /\ b \in Int /\ b <= from /\ a \in R /\ a \in Int /\ to <= a
        /\ \A x \in R : x <= b \/ a <= x
    BY <1>1, <1>4, <2>2
  <2> DEFINE w == <<b, a>>
  <2>4. /\ w \in R \X R /\ w[1] = b /\ w[2] = a
    BY <2>3
  <2> HIDE DEF w, Before, After
  <2>5. w[1] < w[2] /\ (~\E x \in R : w[1] < x /\ x < w[2]) /\ w[2] - w[1] >= threshold
    BY <1>1, <1>4, <2>3, <2>4
  <2>6. w \in GapsIn(stamps, threshold)
    BY <1>2, <2>4, <2>5
  <2>7. QED
    BY <2>3, <2>4, <2>6
<1>5. QED
  BY <1>3, <1>4 DEF R

Covers(W, from, to) == \E w \in W : w[1] <= from /\ to <= w[2]

\* What all windows cover, the windows they share cover.
LEMMA SharedCovers ==
  ASSUME NEW S, IsFiniteSet(S), NEW from \in Int, NEW to \in Int, from < to,
         \A W \in S : AreWindows(W) /\ Covers(W, from, to),
         NEW base, AreReal(base), Covers(base, from, to)
  PROVE  AreReal(FoldSet(IntersectWindows, base, S)) /\ Covers(FoldSet(IntersectWindows, base, S), from, to)
<1> DEFINE V == {M \in SUBSET (Int \X Int) : AreReal(M) /\ Covers(M, from, to)}
           One(T) == CHOOSE x \in T : TRUE
           pick == [T \in (SUBSET S) \ {{}} |-> One(T)]
           step == [p \in S \X V |-> IntersectWindows(p[1], p[2])]
           Equation(iter) ==
             iter = [T \in SUBSET S |-> IF T = {} THEN base ELSE IntersectWindows(One(T), iter[T \ {One(T)}])]
           shared == CHOOSE iter : Equation(iter)
<1>1. \A T \in (SUBSET S) \ {{}} : One(T) \in T
  OBVIOUS
<1>2. FoldSet(IntersectWindows, base, S) = shared[S]
  BY DEF FoldSet, MapThenFoldSet
<1> HIDE DEF One
<1>3. ASSUME NEW W \in S, NEW M \in V PROVE IntersectWindows(W, M) \in V
  <2>1. AreWindows(W) /\ AreWindows(M) /\ Covers(W, from, to) /\ Covers(M, from, to)
    BY DEF AreReal
  <2>2. AreReal(IntersectWindows(W, M)) /\ Covers(IntersectWindows(W, M), from, to)
    BY <2>1, IntersectCorrect DEF Covers
  <2>3. QED
    BY <2>2 DEF AreReal, AreWindows
<1>4. base \in V
  BY DEF AreReal, AreWindows
<1>5. PICK fold : IsFold(fold, S, V, base, pick, step)
  <2>1. pick \in [(SUBSET S) \ {{}} -> S] /\ \A T \in (SUBSET S) \ {{}} : pick[T] \in T
    BY <1>1
  <2>2. step \in [S \X V -> V]
    <3> HIDE DEF V
    <3>1. QED
      BY <1>3
  <2> HIDE DEF pick, step, V
  <2>3. QED
    BY <1>4, <2>1, <2>2, FoldExists
<1>6. /\ fold \in [SUBSET S -> V]
      /\ \A T \in SUBSET S : fold[T] = IF T = {} THEN base ELSE step[<<pick[T], fold[T \ {pick[T]}]>>]
  BY <1>5 DEF IsFold, IsFoldOn
<1> HIDE DEF V
<1>7. ASSUME NEW T \in SUBSET S
      PROVE  fold[T] = IF T = {} THEN base ELSE IntersectWindows(One(T), fold[T \ {One(T)}])
  <2>1. CASE T # {}
    <3>1. pick[T] = One(T) /\ One(T) \in S /\ fold[T \ {One(T)}] \in V
      BY <1>1, <1>6, <2>1
    <3>2. step[<<One(T), fold[T \ {One(T)}]>>] = IntersectWindows(One(T), fold[T \ {One(T)}])
      BY <3>1
    <3>3. QED
      BY <1>6, <2>1, <3>1, <3>2
  <2>2. QED
    BY <1>6, <2>1
<1>8. Equation(fold)
  <2> HIDE DEF pick, step
  <2>1. QED
    BY <1>6, <1>7
<1>9. Equation(shared)
  <2> HIDE DEF Equation
  <2>1. QED
    BY <1>8
<1> HIDE DEF shared
<1>10. \A T \in SUBSET S : shared[T] = IF T = {} THEN base ELSE IntersectWindows(One(T), shared[T \ {One(T)}])
  BY <1>9
<1> HIDE DEF pick, step, Equation
<1> DEFINE F == {T \in SUBSET S : shared[T] \notin V}
<1>11. ASSUME NEW T \in F, \A U \in F : Cardinality(T) <= Cardinality(U) PROVE FALSE
  <2>1. T \in SUBSET S /\ shared[T] \notin V
    OBVIOUS
  <2>2. T # {} /\ One(T) \in T
    BY <1>1, <1>4, <1>10, <2>1
  <2>3. Cardinality(T \ {One(T)}) \in Nat /\ Cardinality(T) \in Nat /\ Cardinality(T \ {One(T)}) = Cardinality(T) - 1
    BY <2>1, <2>2, Fewer
  <2>4. T \ {One(T)} \notin F
    BY <1>11, <2>3
  <2>5. shared[T \ {One(T)}] \in V /\ One(T) \in S
    BY <2>1, <2>2, <2>4
  <2>6. QED
    BY <1>3, <1>10, <2>1, <2>2, <2>5
<1>12. F = {}
  <2>1. F \in SUBSET (SUBSET S)
    OBVIOUS
  <2> HIDE DEF F
  <2>2. QED
    BY <1>11, <2>1, Smallest
<1>13. shared[S] \in V
  BY <1>12
<1>14. QED
  BY <1>2, <1>13 DEF V

LEMMA InsideNothing ==
  ASSUME NEW W, AreWindows(W), Inside(W) = {}
  PROVE  MergeWindows(W) = {}
<1>1. AreReal(MergeWindows(W)) /\ Inside(MergeWindows(W)) = {}
  BY MergedWindows
<1>2. ASSUME NEW w \in MergeWindows(W) PROVE FALSE
  <2>1. w \in Int \X Int /\ w[1] < w[2]
    BY <1>1 DEF AreReal, AreWindows
  <2>2. w[1] \in Inside(MergeWindows(W))
    BY <2>1 DEF Inside, In
  <2>3. QED
    BY <1>1, <2>2
<1>3. QED
  BY <1>2

\* A hole in every channel, as long as the threshold, is in the report if there was
\* no pause (bag.py:209).
THEOREM HolesReported ==
  ASSUME NEW S, IsFiniteSet(S), S # {}, NEW from \in Int, NEW to \in Int, NEW threshold \in Nat \ {0},
         to - from >= threshold,
         \A W \in S : AreWindows(W) /\ Covers(W, from, to),
         NEW P, AreWindows(P), Inside(P) = {}
  PROVE  Covers(UnexplainedGaps(S, P, threshold), from, to)
<1> DEFINE first == CHOOSE gaps \in S : TRUE
           base == MergeWindows(first)
           shared == FoldSet(IntersectWindows, base, S \ {first})
<1>1. from < to
  OBVIOUS
<1>2. first \in S
  OBVIOUS
<1>3. UnexplainedGaps(S, P, threshold) =
        {w \in shared : Length(w) >= threshold /\ ~\E p \in MergeWindows(P) : 2 * Overlap(w, p) > Length(w)}
  BY DEF UnexplainedGaps
<1> HIDE DEF first
<1>4. AreReal(base) /\ Covers(base, from, to)
  <2>1. AreWindows(first) /\ Covers(first, from, to)
    BY <1>2
  <2>2. PICK w \in first : w[1] <= from /\ to <= w[2]
    BY <2>1 DEF Covers
  <2>3. w \in Int \X Int
    BY <2>1 DEF AreWindows
  <2>4. w[1] < w[2]
    BY <1>1, <2>2, <2>3
  <2>5. PICK m \in base : m[1] <= w[1] /\ w[2] <= m[2]
    BY <2>1, <2>4, MergedWindows
  <2>6. AreReal(base)
    BY <2>1, MergedWindows
  <2>7. m \in Int \X Int
    BY <2>6 DEF AreReal, AreWindows
  <2>8. m[1] <= from /\ to <= m[2]
    BY <2>2, <2>3, <2>5, <2>7
  <2> HIDE DEF base
  <2>9. QED
    BY <2>6, <2>8 DEF Covers
<1> HIDE DEF base
<1>5. AreReal(shared) /\ Covers(shared, from, to)
  <2>1. IsFiniteSet(S \ {first})
    BY FS_RemoveElement
  <2>2. \A W \in S \ {first} : AreWindows(W) /\ Covers(W, from, to)
    OBVIOUS
  <2>3. QED
    BY <1>1, <1>4, <2>1, <2>2, SharedCovers
<1> HIDE DEF shared
<1>6. MergeWindows(P) = {}
  BY InsideNothing
<1>7. PICK w \in shared : w[1] <= from /\ to <= w[2]
  BY <1>5 DEF Covers
<1>8. w \in Int \X Int
  BY <1>5 DEF AreReal, AreWindows
<1>9. Length(w) >= threshold
  BY <1>7, <1>8 DEF Length
<1>10. w \in UnexplainedGaps(S, P, threshold)
  BY <1>3, <1>6, <1>7, <1>9
<1>11. QED
  BY <1>7, <1>10 DEF Covers
=============================================================================
