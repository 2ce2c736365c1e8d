---------------------------- MODULE EvidenceProofs ---------------------------
(****************************************************************************)
(* Proofs about the written evidence: what the pages show and link for it   *)
(* (Evidence, Workspace), and what the page and the service make of it      *)
(* (RecallScoring, RecallEvidence).                                         *)
(*                                                                          *)
(* Sums and folds are recursive functions on sets.  That they exist, and    *)
(* what they come to, is proved by the smallest counterexample: the lemmas  *)
(* on naturals and folds come first, then those on the evidence, then the   *)
(* two systems.                                                             *)
(****************************************************************************)
EXTENDS Workspace, RecallEvidence, FiniteSetTheorems, SequenceTheorems,
        WellFoundedInduction, TLAPS

-----------------------------------------------------------------------------
(* Naturals, recursion on finite sets, sums and folds.                      *)

\* A set of naturals that is not empty has a least element.
LEMMA LeastNatural ==
    ASSUME NEW T, T \subseteq Nat, T # {}
    PROVE  \E x \in T : \A y \in T : x <= y
<1> DEFINE R == StrictSubsetOrdering(Nat)
           F == {0 .. n : n \in T}
<1>1. F \subseteq FiniteSubsetsOf(Nat) /\ F # {}
  <2>1. \A n \in T : 0 .. n \subseteq Nat /\ IsFiniteSet(0 .. n)
    BY FS_Interval
  <2> QED
    BY <2>1 DEF FiniteSubsetsOf
<1>2. IsWellFoundedOn(R, FiniteSubsetsOf(Nat))
  BY FS_StrictSubsetOrderingWellFounded
<1>3. PICK X \in F : \A Y \in F : ~ (<<Y, X>> \in R)
  <2> HIDE DEF R, F
  <2> QED
    BY <1>1, <1>2, WFMin
<1>4. PICK x \in T : X = 0 .. x
  OBVIOUS
<1>5. ASSUME NEW y \in T, y < x PROVE FALSE
  <2>1. 0 .. y \in F /\ 0 .. y \subseteq 0 .. x
    BY <1>5
  <2>2. x \in 0 .. x /\ x \notin 0 .. y
    BY <1>5
  <2>3. 0 .. y \subseteq Nat /\ 0 .. x \subseteq Nat
    OBVIOUS
  <2>4. <<0 .. y, 0 .. x>> \in R
    BY <2>1, <2>2, <2>3 DEF StrictSubsetOrdering
  <2> QED
    BY <1>3, <1>4, <2>1, <2>4
<1> QED
  BY <1>5

\* Induction up to a bound: a set of naturals with 0, and with n + 1 for each of
\* its n below the bound, has every natural up to the bound.
LEMMA UpTo ==
    ASSUME NEW N \in Nat, NEW T, 0 \in T,
           \A n \in 0 .. N : n \in T /\ n < N => n + 1 \in T
    PROVE  0 .. N \subseteq T
<1> SUFFICES ASSUME (0 .. N) \ T # {} PROVE FALSE
  OBVIOUS
<1> DEFINE U == (0 .. N) \ T
<1>1. PICK x \in U : \A y \in U : x <= y
  <2>1. U \subseteq Nat /\ U # {}
    OBVIOUS
  <2> HIDE DEF U
  <2> QED
    BY <2>1, LeastNatural
<1>2. x > 0 /\ x - 1 \in 0 .. N
  BY <1>1
<1>3. x - 1 \in T
  BY <1>1, <1>2
<1> QED
  BY <1>1, <1>2, <1>3

\* A recursion on the subsets of S: which element of a set goes first, and what
\* becomes of the value for the others.
PicksFrom(pick, S) == \A s \in SUBSET S : s # {} => pick[s] \in s

StepsIn(step, S, V) == \A x \in S, v \in V : step[x][v] \in V

Recursion(h, S, base, pick, step) ==
    \A s \in SUBSET S : h[s] = IF s = {} THEN base ELSE step[pick[s]][h[s \ {pick[s]}]]

\* There is a function that solves it, if S is finite.
LEMMA SetRecursion ==
    ASSUME NEW S, IsFiniteSet(S), NEW V, NEW base \in V,
           NEW pick, PicksFrom(pick, S), NEW step, StepsIn(step, S, V)
    PROVE  \E h \in [SUBSET S -> V] : Recursion(h, S, base, pick, step)
<1> USE DEF PicksFrom, StepsIn, Recursion
<1> DEFINE UpToSize(n) == {s \in SUBSET S : Cardinality(s) <= n}
           Solves(h, n) == \A s \in UpToSize(n) :
               h[s] = IF s = {} THEN base ELSE step[pick[s]][h[s \ {pick[s]}]]
           T == {n \in Nat : \E h \in [UpToSize(n) -> V] : Solves(h, n)}
           N == Cardinality(S)
<1>1. \A s \in SUBSET S : /\ IsFiniteSet(s) /\ Cardinality(s) \in Nat /\ Cardinality(s) <= N
                          /\ Cardinality(s) = 0 <=> s = {}
  BY FS_Subset, FS_CardinalityType, FS_EmptySet
<1>2. \A s \in SUBSET S : s # {} =>
          /\ s \ {pick[s]} \in SUBSET S
          /\ Cardinality(s \ {pick[s]}) = Cardinality(s) - 1
  BY <1>1, FS_RemoveElement
<1>3. 0 \in T
  <2> DEFINE h == [s \in UpToSize(0) |-> base]
  <2>1. \A s \in UpToSize(0) : s = {}
    BY <1>1
  <2>2. h \in [UpToSize(0) -> V] /\ Solves(h, 0)
    BY <2>1
  <2> QED
    BY <2>2
<1>4. ASSUME NEW n \in Nat, n \in T PROVE n + 1 \in T
  <2>1. PICK g \in [UpToSize(n) -> V] : Solves(g, n)
    BY <1>4
  <2> DEFINE h == [s \in UpToSize(n + 1) |->
                      IF s = {} THEN base ELSE step[pick[s]][g[s \ {pick[s]}]]]
  <2>2. \A s \in UpToSize(n + 1) : s # {} => s \ {pick[s]} \in UpToSize(n)
    BY <1>1, <1>2
  <2>3. h \in [UpToSize(n + 1) -> V]
    BY <2>2
  <2>4. ASSUME NEW s \in UpToSize(n) PROVE s \in UpToSize(n + 1) /\ h[s] = g[s]
    <3>1. s \in UpToSize(n + 1)
      BY <1>1
    <3>2. g[s] = IF s = {} THEN base ELSE step[pick[s]][g[s \ {pick[s]}]]
      BY <2>1
    <3> QED
      BY <3>1, <3>2
  <2>5. Solves(h, n + 1)
    <3> SUFFICES ASSUME NEW s \in UpToSize(n + 1), s # {}
                 PROVE  h[s] = step[pick[s]][h[s \ {pick[s]}]]
      OBVIOUS
    <3>1. h[s \ {pick[s]}] = g[s \ {pick[s]}]
      BY <2>2, <2>4
    <3> QED
      BY <3>1
  <2> HIDE DEF h, UpToSize, Solves
  <2> QED
    BY <2>3, <2>5
<1>5. N \in T
  <2> HIDE DEF T
  <2>1. N \in Nat /\ N \in 0 .. N
    BY <1>1
  <2> HIDE DEF N
  <2> QED
    BY <1>3, <1>4, <2>1, UpTo
<1>6. UpToSize(N) = SUBSET S
  BY <1>1
<1> QED
  BY <1>5, <1>6

\* Of some subsets of a finite set one is such that none of them is one element less.
LEMMA SmallestSet ==
    ASSUME NEW S, IsFiniteSet(S), NEW W, W \subseteq SUBSET S, W # {}
    PROVE  \E s \in W : \A x \in s : s \ {x} \notin W
<1> DEFINE Sizes == {Cardinality(s) : s \in W}
<1>1. \A s \in W : IsFiniteSet(s) /\ Cardinality(s) \in Nat
  BY FS_Subset, FS_CardinalityType
<1>2. PICK n \in Sizes : \A m \in Sizes : n <= m
  <2>1. Sizes \subseteq Nat /\ Sizes # {}
    BY <1>1
  <2> HIDE DEF Sizes
  <2> QED
    BY <2>1, LeastNatural
<1>3. PICK s \in W : n = Cardinality(s)
  BY <1>2
<1>4. ASSUME NEW x \in s, s \ {x} \in W PROVE FALSE
  <2>1. Cardinality(s \ {x}) = Cardinality(s) - 1
    BY <1>1, FS_RemoveElement
  <2>2. n <= Cardinality(s \ {x})
    BY <1>2, <1>4
  <2> QED
    BY <1>1, <1>3, <2>1, <2>2
<1> QED
  BY <1>4

\* What a sum is, element by element.
SumSteps(f, h) ==
    \A s \in SUBSET DOMAIN f :
        h[s] = IF s = {} THEN 0 ELSE f[CHOOSE x \in s : TRUE] + h[s \ {CHOOSE x \in s : TRUE}]

\* The sum of a function of naturals is computed by such a recursion.
LEMMA SumIsRecursive ==
    ASSUME NEW f, IsFiniteSet(DOMAIN f), \A x \in DOMAIN f : f[x] \in Nat
    PROVE  \E h \in [SUBSET DOMAIN f -> Nat] : SumSteps(f, h) /\ SumFunction(f) = h[DOMAIN f]
<1> DEFINE D == DOMAIN f
           Body(h) == [s \in SUBSET D |->
               IF s = {} THEN 0 ELSE f[CHOOSE x \in s : TRUE] + h[s \ {CHOOSE x \in s : TRUE}]]
           iter == CHOOSE h : h = Body(h)
           pick == [s \in SUBSET D |-> CHOOSE x \in s : TRUE]
           step == [x \in D |-> [v \in Nat |-> f[x] + v]]
<1>1. PICK h \in [SUBSET D -> Nat] : Recursion(h, D, 0, pick, step)
  <2>1. PicksFrom(pick, D)
    BY DEF PicksFrom
  <2>2. StepsIn(step, D, Nat)
    BY DEF StepsIn
  <2>3. IsFiniteSet(D) /\ 0 \in Nat
    OBVIOUS
  <2> HIDE DEF D, pick, step
  <2> QED
    BY <2>1, <2>2, <2>3, SetRecursion
<1>2. \A s \in SUBSET D : h[s] = IF s = {} THEN 0 ELSE step[pick[s]][h[s \ {pick[s]}]]
  BY <1>1 DEF Recursion
<1>3. ASSUME NEW s \in SUBSET D
      PROVE  h[s] = IF s = {} THEN 0 ELSE f[CHOOSE x \in s : TRUE] + h[s \ {CHOOSE x \in s : TRUE}]
  <2>1. s # {} => pick[s] \in D /\ h[s \ {pick[s]}] \in Nat
    OBVIOUS
  <2> QED
    BY <1>2, <2>1
<1>4. h = Body(h)
  BY <1>3
<1>5. iter = Body(iter)
  <2> HIDE DEF Body
  <2> QED
    BY <1>4
<1>6. SumFunction(f) = iter[D]
  BY DEF SumFunction, SumFunctionOnSet, FoldFunctionOnSet, MapThenFoldSet
<1>7. ASSUME NEW s \in SUBSET D
      PROVE  iter[s] = IF s = {} THEN 0
                       ELSE f[CHOOSE x \in s : TRUE] + iter[s \ {CHOOSE x \in s : TRUE}]
  <2> HIDE DEF iter
  <2> QED
    BY <1>5
<1> HIDE DEF iter
<1>8. \A s \in SUBSET D : iter[s] \in Nat
  <2> DEFINE Wrong == {s \in SUBSET D : iter[s] \notin Nat}
  <2> SUFFICES ASSUME Wrong # {} PROVE FALSE
    OBVIOUS
  <2>1. PICK s \in Wrong : \A x \in s : s \ {x} \notin Wrong
    <3>1. Wrong \subseteq SUBSET D
      OBVIOUS
    <3> HIDE DEF Wrong
    <3> QED
      BY <3>1, SmallestSet
  <2> DEFINE x == CHOOSE z \in s : TRUE
  <2>2. s \in SUBSET D /\ s # {} /\ x \in s
    <3>1. s \in SUBSET D /\ iter[s] # 0
      BY <2>1
    <3>2. s # {}
      BY <1>7, <3>1
    <3> QED
      BY <3>1, <3>2
  <2>3. iter[s] = f[x] + iter[s \ {x}]
    BY <1>7, <2>2
  <2>4. iter[s \ {x}] \in Nat
    BY <2>1, <2>2
  <2>5. f[x] \in Nat
    BY <2>2
  <2> HIDE DEF x
  <2> QED
    BY <2>1, <2>3, <2>4, <2>5
<1>9. iter \in [SUBSET D -> Nat]
  BY <1>5, <1>8
<1> QED
  BY <1>6, <1>7, <1>9 DEF SumSteps

\* A sum may be split at any of its elements.
LEMMA SumSplits ==
    ASSUME NEW f, IsFiniteSet(DOMAIN f), \A x \in DOMAIN f : f[x] \in Nat,
           NEW h, h \in [SUBSET DOMAIN f -> Nat], SumSteps(f, h),
           NEW k, k \in DOMAIN f
    PROVE  h[DOMAIN f] = f[k] + h[DOMAIN f \ {k}]
<1> DEFINE D == DOMAIN f
           Wrong == {s \in SUBSET D : \E x \in s : h[s] # f[x] + h[s \ {x}]}
<1> SUFFICES ASSUME Wrong # {} PROVE FALSE
  <2>1. \A s \in SUBSET D : \A x \in s : s \notin Wrong => h[s] = f[x] + h[s \ {x}]
    BY DEF Wrong
  <2> QED
    BY <2>1
<1>3. PICK s \in Wrong : \A z \in s : s \ {z} \notin Wrong
  <2>1. Wrong \subseteq SUBSET D
    OBVIOUS
  <2> HIDE DEF Wrong
  <2> QED
    BY <2>1, SmallestSet
<1>4. PICK x \in s : h[s] # f[x] + h[s \ {x}]
  BY <1>3
<1> DEFINE y == CHOOSE z \in s : TRUE
<1>5. y \in s /\ h[s] = f[y] + h[s \ {y}]
  BY <1>4 DEF SumSteps
<1>6. \A z \in s : s \ {z} \in SUBSET D /\ s \ {z} \notin Wrong
  BY <1>3
<1> HIDE DEF y
<1>7. x # y
  BY <1>4, <1>5
<1> DEFINE rest == (s \ {x}) \ {y}
<1>8. h[s \ {y}] = f[x] + h[rest]
  <2>1. (s \ {y}) \ {x} = rest
    OBVIOUS
  <2>2. h[s \ {y}] = f[x] + h[(s \ {y}) \ {x}]
    BY <1>5, <1>6, <1>7
  <2> QED
    BY <2>1, <2>2
<1>9. h[s \ {x}] = f[y] + h[rest]
  BY <1>5, <1>6, <1>7
<1>10. f[x] \in Nat /\ f[y] \in Nat /\ h[rest] \in Nat
  BY <1>5
<1> HIDE DEF rest
<1> QED
  BY <1>4, <1>5, <1>8, <1>9, <1>10

\* The sum of a function of naturals is a natural, zero if there are none.
LEMMA SumIsNatural ==
    ASSUME NEW f, IsFiniteSet(DOMAIN f), \A x \in DOMAIN f : f[x] \in Nat
    PROVE  SumFunction(f) \in Nat /\ (DOMAIN f = {} => SumFunction(f) = 0)
<1>1. PICK h \in [SUBSET DOMAIN f -> Nat] : SumSteps(f, h) /\ SumFunction(f) = h[DOMAIN f]
  BY SumIsRecursive
<1> QED
  BY <1>1 DEF SumSteps

\* One more element adds its value to the sum.
LEMMA SumGrows ==
    ASSUME NEW f, IsFiniteSet(DOMAIN f), \A x \in DOMAIN f : f[x] \in Nat,
           NEW k, k \notin DOMAIN f, NEW g,
           DOMAIN g = DOMAIN f \cup {k}, g[k] \in Nat, \A x \in DOMAIN f : g[x] = f[x]
    PROVE  SumFunction(g) = SumFunction(f) + g[k]
<1> DEFINE D == DOMAIN f
<1>1. PICK h \in [SUBSET D -> Nat] : SumSteps(f, h) /\ SumFunction(f) = h[D]
  BY SumIsRecursive
<1>2. IsFiniteSet(DOMAIN g) /\ \A x \in DOMAIN g : g[x] \in Nat
  BY FS_AddElement
<1>3. PICK m \in [SUBSET DOMAIN g -> Nat] : SumSteps(g, m) /\ SumFunction(g) = m[DOMAIN g]
  BY <1>2, SumIsRecursive
<1>4. m[DOMAIN g] = g[k] + m[D]
  <2>1. m[DOMAIN g] = g[k] + m[DOMAIN g \ {k}]
    <3>1. SumSteps(g, m) /\ m \in [SUBSET DOMAIN g -> Nat]
      BY <1>3
    <3>2. IsFiniteSet(DOMAIN g)
      BY <1>2
    <3>3. \A x \in DOMAIN g : g[x] \in Nat
      BY <1>2
    <3>4. k \in DOMAIN g
      OBVIOUS
    <3> QED
      BY ONLY <3>1, <3>2, <3>3, <3>4, SumSplits
  <2>2. DOMAIN g \ {k} = D
    OBVIOUS
  <2> QED
    BY <2>1, <2>2
<1>5. \A s \in SUBSET D : m[s] = h[s]
  <2> DEFINE Wrong == {s \in SUBSET D : m[s] # h[s]}
  <2> SUFFICES ASSUME Wrong # {} PROVE FALSE
    BY DEF Wrong
  <2>1. PICK s \in Wrong : \A z \in s : s \ {z} \notin Wrong
    <3>1. Wrong \subseteq SUBSET D
      OBVIOUS
    <3> HIDE DEF Wrong
    <3> QED
      BY <3>1, SmallestSet
  <2> DEFINE x == CHOOSE z \in s : TRUE
  <2>2. s \in SUBSET D /\ s \in SUBSET DOMAIN g /\ m[s] # h[s]
    BY <2>1
  <2>3. s # {}
    BY <1>1, <1>3, <2>2 DEF SumSteps
  <2>4. /\ x \in s /\ h[s] = f[x] + h[s \ {x}]
        /\ m[s] = g[x] + m[s \ {x}]
    BY <1>1, <1>3, <2>2, <2>3 DEF SumSteps
  <2> HIDE DEF x
  <2>5. m[s \ {x}] = h[s \ {x}]
    BY <2>1, <2>2, <2>4
  <2> QED
    BY <2>2, <2>4, <2>5
<1> QED
  BY <1>1, <1>3, <1>4, <1>5

\* The greatest element of a finite set of naturals.
LEMMA GreatestNatural ==
    ASSUME NEW n \in Nat, NEW T \in SUBSET (0 .. n), T # {}
    PROVE  Max(T) \in T /\ \A t \in T : Max(T) >= t
<1> DEFINE U == {n - t : t \in T}
<1>1. PICK x \in U : \A y \in U : x <= y
  <2>1. \A y \in T : n - y \in Nat /\ n - y \in U
    OBVIOUS
  <2>2. U \subseteq Nat /\ U # {}
    BY <2>1
  <2> HIDE DEF U
  <2> QED
    BY <2>2, LeastNatural
<1>2. PICK t \in T : x = n - t
  BY <1>1
<1>3. \A u \in T : t >= u
  BY <1>1, <1>2
<1> QED
  BY <1>3 DEF Max

\* The last number up to n is n.
LEMMA LastOfInterval ==
    ASSUME NEW n \in Nat, n > 0
    PROVE  Max(1 .. n) = n /\ (1 .. n) \ {n} = 1 .. n - 1
<1>1. 1 .. n \in SUBSET (0 .. n) /\ n \in 1 .. n
  OBVIOUS
<1>2. Max(1 .. n) \in 1 .. n /\ \A t \in 1 .. n : Max(1 .. n) >= t
  BY <1>1, GreatestNatural
<1> QED
  BY <1>1, <1>2

\* How a sequence is filtered: what is kept of its first n elements is q[n].
KeepsIn(q, seq, set) ==
    /\ q[0] = <<>>
    /\ \A n \in 1 .. Len(seq) :
          q[n] = IF seq[n] \in set THEN Append(q[n - 1], seq[n]) ELSE q[n - 1]

LEMMA KeepSteps ==
    ASSUME NEW X, NEW seq \in Seq(X), NEW set
    PROVE  \E q \in [0 .. Len(seq) -> Seq(X)] : KeepsIn(q, seq, set) /\ Keep(seq, set) = q[Len(seq)]
<1> DEFINE D == DOMAIN seq
           N == Len(seq)
           Body(h) == [s \in SUBSET D |->
               IF s = {} THEN <<>>
               ELSE IF seq[Max(s)] \in set THEN Append(h[s \ {Max(s)}], seq[Max(s)])
               ELSE h[s \ {Max(s)}]]
           iter == CHOOSE h : h = Body(h)
           pick == [s \in SUBSET D |-> Max(s)]
           step == [i \in D |-> [v \in Seq(X) |-> IF seq[i] \in set THEN Append(v, seq[i]) ELSE v]]
<1>1. D = 1 .. N /\ N \in Nat /\ IsFiniteSet(D) /\ <<>> \in Seq(X)
  BY FS_Interval
<1>0. \A s \in SUBSET D : s # {} => Max(s) \in s
  <2>1. SUBSET D \subseteq SUBSET (0 .. N)
    BY <1>1
  <2> QED
    BY <1>1, <2>1, GreatestNatural
<1>2. PICK h \in [SUBSET D -> Seq(X)] : Recursion(h, D, <<>>, pick, step)
  <2>1. PicksFrom(pick, D)
    BY <1>0 DEF PicksFrom
  <2>2. StepsIn(step, D, Seq(X))
    BY DEF StepsIn
  <2> HIDE DEF D, pick, step
  <2> QED
    BY <1>1, <2>1, <2>2, SetRecursion
<1>3. \A s \in SUBSET D : s # {} => Max(s) \in D /\ s \ {Max(s)} \in SUBSET D
  BY <1>0
<1>4. \A s \in SUBSET D : h[s] = IF s = {} THEN <<>> ELSE step[pick[s]][h[s \ {pick[s]}]]
  BY <1>2 DEF Recursion
<1>5. ASSUME NEW s \in SUBSET D
      PROVE  h[s] = Body(h)[s]
  <2>1. CASE s = {}
    BY <1>4, <2>1
  <2>2. CASE s # {}
    <3> DEFINE m == Max(s)
    <3>1. m \in D /\ h[s \ {m}] \in Seq(X) /\ pick[s] = m
      BY <1>3, <2>2
    <3> HIDE DEF m
    <3>2. step[m][h[s \ {m}]] =
              IF seq[m] \in set THEN Append(h[s \ {m}], seq[m]) ELSE h[s \ {m}]
      BY <3>1
    <3> QED
      BY <1>4, <2>2, <3>1, <3>2 DEF m
  <2> QED
    BY <2>1, <2>2
<1>6. h = Body(h)
  BY <1>5
<1>7. iter = Body(iter)
  <2> HIDE DEF Body
  <2> QED
    BY <1>6
<1>8. Keep(seq, set) = iter[D]
  BY DEF Keep, FoldLeft, MapThenFoldSet
<1>9. \A s \in SUBSET D : iter[s] = Body(iter)[s]
  <2> HIDE DEF iter, Body
  <2> QED
    BY <1>7
<1> HIDE DEF iter
<1> DEFINE q == [n \in 0 .. N |-> iter[1 .. n]]
<1>10. iter[{}] = <<>>
  BY <1>9
<1>11. ASSUME NEW n \in 1 .. N
       PROVE  iter[1 .. n] = IF seq[n] \in set THEN Append(iter[1 .. n - 1], seq[n])
                             ELSE iter[1 .. n - 1]
  <2>1. Max(1 .. n) = n /\ (1 .. n) \ {n} = 1 .. n - 1
    BY LastOfInterval
  <2>2. 1 .. n \in SUBSET D /\ 1 .. n # {}
    BY <1>1
  <2> QED
    BY <1>9, <2>1, <2>2
<1>12. KeepsIn(q, seq, set)
  BY <1>1, <1>10, <1>11 DEF KeepsIn
<1>13. \A n \in 0 .. N : q[n] \in Seq(X)
  <2> DEFINE T == {n \in 0 .. N : q[n] \in Seq(X)}
  <2>1. 0 \in T
    <3>1. q[0] = <<>> /\ 0 \in 0 .. N
      BY <1>1, <1>12 DEF KeepsIn
    <3> HIDE DEF q
    <3> QED
      BY <1>1, <3>1
  <2>2. ASSUME NEW n \in 0 .. N, n \in T, n < N PROVE n + 1 \in T
    <3>1. n + 1 \in 1 .. N /\ (n + 1) - 1 = n /\ q[n] \in Seq(X) /\ seq[n + 1] \in X
      BY <1>1, <2>2
    <3>2. q[n + 1] = IF seq[n + 1] \in set THEN Append(q[n], seq[n + 1]) ELSE q[n]
      BY <1>12, <3>1 DEF KeepsIn
    <3> HIDE DEF q
    <3>3. q[n + 1] \in Seq(X)
      BY <3>1, <3>2
    <3> QED
      BY <1>1, <3>1, <3>3
  <2> HIDE DEF T
  <2>3. 0 .. N \subseteq T
    BY <1>1, <2>1, <2>2, UpTo
  <2> QED
    BY <2>3 DEF T
<1>14. q \in [0 .. N -> Seq(X)] /\ q[N] = iter[D]
  BY <1>1, <1>13
<1> QED
  BY <1>8, <1>12, <1>14

\* How the concepts of a reference are found: q[n] are those of its first n tokens.
AddsIn(q, seq) ==
    /\ q[0] = <<>>
    /\ \A n \in 1 .. Len(seq) :
          q[n] = IF seq[n] \in Minor \cup ToSet(q[n - 1]) THEN q[n - 1]
                 ELSE Append(q[n - 1], seq[n])

LEMMA ConceptSteps ==
    ASSUME NEW X, NEW seq \in Seq(X)
    PROVE  \E q \in [0 .. Len(seq) -> Seq(X)] :
               AddsIn(q, seq) /\ Concepts(seq) = First(MaxConcepts, q[Len(seq)])
<1> DEFINE D == DOMAIN seq
           N == Len(seq)
           Body(h) == [s \in SUBSET D |->
               IF s = {} THEN <<>>
               ELSE IF seq[Max(s)] \in Minor \cup ToSet(h[s \ {Max(s)}]) THEN h[s \ {Max(s)}]
               ELSE Append(h[s \ {Max(s)}], seq[Max(s)])]
           iter == CHOOSE h : h = Body(h)
           pick == [s \in SUBSET D |-> Max(s)]
           step == [i \in D |-> 
               [v \in Seq(X) |-> IF seq[i] \in Minor \cup ToSet(v) THEN v ELSE Append(v, seq[i])]]
<1>1. D = 1 .. N /\ N \in Nat /\ IsFiniteSet(D) /\ <<>> \in Seq(X)
  BY FS_Interval
<1>0. \A s \in SUBSET D : s # {} => Max(s) \in s
  <2>1. SUBSET D \subseteq SUBSET (0 .. N)
    BY <1>1
  <2> QED
    BY <1>1, <2>1, GreatestNatural
<1>2. PICK h \in [SUBSET D -> Seq(X)] : Recursion(h, D, <<>>, pick, step)
  <2>1. PicksFrom(pick, D)
    BY <1>0 DEF PicksFrom
  <2>2. StepsIn(step, D, Seq(X))
    BY DEF StepsIn
  <2> HIDE DEF D, pick, step
  <2> QED
    BY <1>1, <2>1, <2>2, SetRecursion
<1>3. \A s \in SUBSET D : s # {} => Max(s) \in D /\ s \ {Max(s)} \in SUBSET D
  BY <1>0
<1>4. \A s \in SUBSET D : h[s] = IF s = {} THEN <<>> ELSE step[pick[s]][h[s \ {pick[s]}]]
  BY <1>2 DEF Recursion
<1>5. ASSUME NEW s \in SUBSET D
      PROVE  h[s] = Body(h)[s]
  <2>1. CASE s = {}
    BY <1>4, <2>1
  <2>2. CASE s # {}
    <3> DEFINE m == Max(s)
    <3>1. m \in D /\ h[s \ {m}] \in Seq(X) /\ pick[s] = m
      BY <1>3, <2>2
    <3> HIDE DEF m
    <3>2. step[m][h[s \ {m}]] =
              IF seq[m] \in Minor \cup ToSet(h[s \ {m}]) THEN h[s \ {m}]
              ELSE Append(h[s \ {m}], seq[m])
      BY <3>1
    <3> QED
      BY <1>4, <2>2, <3>1, <3>2 DEF m
  <2> QED
    BY <2>1, <2>2
<1>6. h = Body(h)
  BY <1>5
<1>7. iter = Body(iter)
  <2> HIDE DEF Body
  <2> QED
    BY <1>6
<1>8. Concepts(seq) = First(MaxConcepts, iter[D])
  BY DEF Concepts, FoldLeft, MapThenFoldSet
<1>9. \A s \in SUBSET D : iter[s] = Body(iter)[s]
  <2> HIDE DEF iter, Body
  <2> QED
    BY <1>7
<1> HIDE DEF iter
<1> DEFINE q == [n \in 0 .. N |-> iter[1 .. n]]
<1>10. iter[{}] = <<>>
  BY <1>9
<1>11. ASSUME NEW n \in 1 .. N
       PROVE  iter[1 .. n] = IF seq[n] \in Minor \cup ToSet(iter[1 .. n - 1])
                             THEN iter[1 .. n - 1] ELSE Append(iter[1 .. n - 1], seq[n])
  <2>1. Max(1 .. n) = n /\ (1 .. n) \ {n} = 1 .. n - 1
    BY LastOfInterval
  <2>2. 1 .. n \in SUBSET D /\ 1 .. n # {}
    BY <1>1
  <2> QED
    BY <1>9, <2>1, <2>2
<1>12. AddsIn(q, seq)
  BY <1>1, <1>10, <1>11 DEF AddsIn
<1>13. \A n \in 0 .. N : q[n] \in Seq(X)
  <2> DEFINE T == {n \in 0 .. N : q[n] \in Seq(X)}
  <2>1. 0 \in T
    <3>1. q[0] = <<>> /\ 0 \in 0 .. N
      BY <1>1, <1>12 DEF AddsIn
    <3> HIDE DEF q
    <3> QED
      BY <1>1, <3>1
  <2>2. ASSUME NEW n \in 0 .. N, n \in T, n < N PROVE n + 1 \in T
    <3>1. n + 1 \in 1 .. N /\ (n + 1) - 1 = n /\ q[n] \in Seq(X) /\ seq[n + 1] \in X
      BY <1>1, <2>2
    <3>2. q[n + 1] = IF seq[n + 1] \in Minor \cup ToSet(q[n]) THEN q[n]
                     ELSE Append(q[n], seq[n + 1])
      <4> HIDE DEF q
      <4>1. \A k \in 1 .. N : q[k] = IF seq[k] \in Minor \cup ToSet(q[k - 1]) THEN q[k - 1]
                                    ELSE Append(q[k - 1], seq[k])
        BY <1>12 DEF AddsIn
      <4> QED
        BY <3>1, <4>1
    <3> HIDE DEF q
    <3>3. q[n + 1] \in Seq(X)
      BY <3>1, <3>2
    <3> QED
      BY <1>1, <3>1, <3>3
  <2> HIDE DEF T
  <2>3. 0 .. N \subseteq T
    BY <1>1, <2>1, <2>2, UpTo
  <2> QED
    BY <2>3 DEF T
<1>14. q \in [0 .. N -> Seq(X)] /\ q[N] = iter[D]
  BY <1>1, <1>13
<1> QED
  BY <1>8, <1>12, <1>14

\* An element appended to a sequence without it.
LEMMA AppendFacts ==
    ASSUME NEW X, NEW q \in Seq(X), NEW x \in X
    PROVE  /\ Append(q, x) \in Seq(X) /\ Len(Append(q, x)) = Len(q) + 1
           /\ ToSet(Append(q, x)) = ToSet(q) \cup {x}
           /\ IsInjective(q) /\ x \notin ToSet(q) => IsInjective(Append(q, x))
<1> DEFINE a == Append(q, x)
<1>1. /\ a \in Seq(X) /\ Len(a) = Len(q) + 1 /\ Len(q) \in Nat
      /\ DOMAIN a = 1 .. Len(q) + 1 /\ DOMAIN q = 1 .. Len(q)
      /\ a[Len(q) + 1] = x /\ \A i \in 1 .. Len(q) : a[i] = q[i]
  OBVIOUS
<1> HIDE DEF a
<1>2. ToSet(a) = ToSet(q) \cup {x}
  BY <1>1 DEF ToSet
<1>3. IsInjective(q) /\ x \notin ToSet(q) => IsInjective(a)
  BY <1>1 DEF ToSet, IsInjective
<1> QED
  BY <1>1, <1>2, <1>3 DEF a

\* The first elements of a sequence.
LEMMA FirstFacts ==
    ASSUME NEW X, NEW q \in Seq(X), NEW n \in Nat
    PROVE  /\ First(n, q) \in Seq(X) /\ Len(First(n, q)) <= n /\ Len(First(n, q)) <= Len(q)
           /\ \A i \in DOMAIN First(n, q) : i \in DOMAIN q /\ First(n, q)[i] = q[i]
           /\ ToSet(First(n, q)) \subseteq ToSet(q)
           /\ IsInjective(q) => IsInjective(First(n, q))
<1> DEFINE m == Min({n, Len(q)})
           f == First(n, q)
<1>1. m = IF n <= Len(q) THEN n ELSE Len(q)
  BY DEF Min
<1>2. m \in Nat /\ m <= n /\ m <= Len(q)
  BY <1>1
<1> HIDE DEF m
<1>3. /\ f \in Seq(X) /\ Len(f) = m /\ DOMAIN f = 1 .. m
      /\ \A i \in 1 .. m : f[i] = q[i] /\ i \in DOMAIN q
  <2>1. f = SubSeq(q, 1, m)
    BY DEF First, m
  <2> QED
    BY <1>2, <2>1
<1> HIDE DEF f
<1>4. ToSet(f) \subseteq ToSet(q)
  BY <1>3 DEF ToSet
<1>5. IsInjective(q) => IsInjective(f)
  BY <1>3 DEF IsInjective
<1> QED
  BY <1>2, <1>3, <1>4, <1>5 DEF f

\* What is kept of a sequence is in the set, no longer, and as distinct as before.
LEMMA KeepFacts ==
    ASSUME NEW X, NEW seq \in Seq(X), NEW set
    PROVE  /\ Keep(seq, set) \in Seq(X) /\ Len(Keep(seq, set)) <= Len(seq)
           /\ ToSet(Keep(seq, set)) \subseteq set \cap ToSet(seq)
           /\ IsInjective(seq) => IsInjective(Keep(seq, set))
<1> DEFINE N == Len(seq)
<1>1. PICK q \in [0 .. N -> Seq(X)] : KeepsIn(q, seq, set) /\ Keep(seq, set) = q[N]
  BY KeepSteps
<1>2. N \in Nat /\ DOMAIN seq = 1 .. N /\ \A i \in 1 .. N : seq[i] \in X
  OBVIOUS
<1> DEFINE Good(n) == /\ Len(q[n]) <= n
                      /\ ToSet(q[n]) \subseteq set \cap {seq[i] : i \in 1 .. n}
                      /\ IsInjective(seq) => IsInjective(q[n])
           T == {n \in 0 .. N : Good(n)}
<1>3. 0 \in T
  <2>1. q[0] = <<>>
    BY <1>1 DEF KeepsIn
  <2>2. Len(<<>>) = 0 /\ ToSet(<<>>) = {} /\ IsInjective(<<>>)
    BY DEF ToSet, IsInjective
  <2> QED
    BY <1>2, <2>1, <2>2
<1>4. ASSUME NEW n \in 0 .. N, n \in T, n < N PROVE n + 1 \in T
  <2> DEFINE m == n + 1
             x == seq[m]
  <2>1. m \in 1 .. N /\ m - 1 = n /\ q[n] \in Seq(X) /\ Good(n) /\ n \in Nat /\ x \in X
    BY <1>2, <1>4
  <2> HIDE DEF m
  <2>2. q[m] = IF x \in set THEN Append(q[n], x) ELSE q[n]
    BY <1>1, <2>1 DEF KeepsIn
  <2>3. {seq[i] : i \in 1 .. m} = {seq[i] : i \in 1 .. n} \cup {x}
    BY <2>1
  <2>4. IsInjective(seq) => x \notin ToSet(q[n])
    <3> SUFFICES ASSUME IsInjective(seq), x \in ToSet(q[n]) PROVE FALSE
      OBVIOUS
    <3>1. ToSet(q[n]) \subseteq {seq[i] : i \in 1 .. n}
      BY <2>1
    <3>2. PICK i \in 1 .. n : seq[m] = seq[i]
      BY <3>1
    <3>3. i # m /\ i \in DOMAIN seq /\ m \in DOMAIN seq
      BY <1>2, <2>1
    <3> QED
      BY <3>2, <3>3 DEF IsInjective
  <2> HIDE DEF x
  <2>5. CASE x \in set
    <3>1. q[m] = Append(q[n], x)
      BY <2>2, <2>5
    <3>2. Len(q[m]) = Len(q[n]) + 1 /\ ToSet(q[m]) = ToSet(q[n]) \cup {x}
      BY <2>1, <3>1, AppendFacts
    <3>3. IsInjective(seq) => IsInjective(q[m])
      BY <2>1, <2>4, <3>1, AppendFacts
    <3>4. Len(q[n]) \in Nat
      BY <2>1
    <3>5. Len(q[m]) <= m /\ m \in 0 .. N
      BY <2>1, <3>2, <3>4
    <3>6. ToSet(q[m]) \subseteq set \cap {seq[i] : i \in 1 .. m}
      BY <2>1, <2>3, <2>5, <3>2
    <3> QED
      BY <3>3, <3>5, <3>6 DEF m
  <2>6. CASE x \notin set
    <3>1. q[m] = q[n]
      BY <2>2, <2>6
    <3>4. Len(q[n]) \in Nat
      BY <2>1
    <3>5. Len(q[m]) <= m /\ m \in 0 .. N
      BY <2>1, <3>1, <3>4
    <3>6. ToSet(q[m]) \subseteq set \cap {seq[i] : i \in 1 .. m}
      BY <2>1, <2>3, <3>1
    <3> QED
      BY <2>1, <3>1, <3>5, <3>6 DEF m
  <2> QED
    BY <2>5, <2>6
<1>5. N \in T
  <2> HIDE DEF T
  <2>1. 0 .. N \subseteq T
    BY <1>2, <1>3, <1>4, UpTo
  <2> QED
    BY <1>2, <2>1
<1>6. {seq[i] : i \in 1 .. N} = ToSet(seq)
  BY <1>2 DEF ToSet
<1>7. q[N] \in Seq(X)
  BY <1>2
<1> QED
  BY <1>1, <1>5, <1>6, <1>7

\* A larger set keeps no less.
LEMMA KeepGrows ==
    ASSUME NEW X, NEW seq \in Seq(X), NEW set, NEW more, set \subseteq more
    PROVE  Len(Keep(seq, set)) <= Len(Keep(seq, more))
<1> DEFINE N == Len(seq)
<1>1. PICK q \in [0 .. N -> Seq(X)] : KeepsIn(q, seq, set) /\ Keep(seq, set) = q[N]
  BY KeepSteps
<1>2. PICK p \in [0 .. N -> Seq(X)] : KeepsIn(p, seq, more) /\ Keep(seq, more) = p[N]
  BY KeepSteps
<1>3. N \in Nat /\ \A i \in 1 .. N : seq[i] \in X
  OBVIOUS
<1> DEFINE T == {n \in 0 .. N : Len(q[n]) <= Len(p[n])}
<1>4. 0 \in T
  BY <1>1, <1>2, <1>3 DEF KeepsIn
<1>5. ASSUME NEW n \in 0 .. N, n \in T, n < N PROVE n + 1 \in T
  <2> DEFINE m == n + 1
  <2>1. /\ m \in 1 .. N /\ m \in 0 .. N /\ m - 1 = n /\ q[n] \in Seq(X) /\ p[n] \in Seq(X)
        /\ seq[m] \in X /\ Len(q[n]) <= Len(p[n])
    BY <1>3, <1>5
  <2> HIDE DEF m
  <2>2. q[m] = IF seq[m] \in set THEN Append(q[n], seq[m]) ELSE q[n]
    BY <1>1, <2>1 DEF KeepsIn
  <2>3. p[m] = IF seq[m] \in more THEN Append(p[n], seq[m]) ELSE p[n]
    BY <1>2, <2>1 DEF KeepsIn
  <2>4. /\ Len(Append(q[n], seq[m])) = Len(q[n]) + 1
        /\ Len(Append(p[n], seq[m])) = Len(p[n]) + 1
    BY <2>1
  <2>5. Len(q[n]) \in Nat /\ Len(p[n]) \in Nat
    BY <2>1
  <2>6. seq[m] \in set => seq[m] \in more
    OBVIOUS
  <2>7. Len(q[m]) <= Len(p[m])
    BY <2>1, <2>2, <2>3, <2>4, <2>5, <2>6
  <2> QED
    BY <2>1, <2>7 DEF m
<1>6. N \in T
  <2> HIDE DEF T
  <2>1. 0 .. N \subseteq T
    BY <1>3, <1>4, <1>5, UpTo
  <2> QED
    BY <1>3, <2>1
<1> QED
  BY <1>1, <1>2, <1>6

\* The concepts of a reference are distinct tokens of it, at most eight.
LEMMA ConceptFacts ==
    ASSUME NEW X, NEW seq \in Seq(X)
    PROVE  /\ Concepts(seq) \in Seq(X) /\ Len(Concepts(seq)) <= 8
           /\ IsInjective(Concepts(seq))
<1> DEFINE N == Len(seq)
<1>1. PICK q \in [0 .. N -> Seq(X)] :
          AddsIn(q, seq) /\ Concepts(seq) = First(MaxConcepts, q[N])
  BY ConceptSteps
<1>2. N \in Nat /\ \A i \in 1 .. N : seq[i] \in X
  OBVIOUS
<1> DEFINE T == {n \in 0 .. N : IsInjective(q[n])}
<1>3. 0 \in T
  <2>1. q[0] = <<>>
    BY <1>1 DEF AddsIn
  <2> QED
    BY <1>2, <2>1 DEF IsInjective
<1>4. ASSUME NEW n \in 0 .. N, n \in T, n < N PROVE n + 1 \in T
  <2> DEFINE m == n + 1
  <2>1. /\ m \in 1 .. N /\ m \in 0 .. N /\ m - 1 = n /\ q[n] \in Seq(X)
        /\ seq[m] \in X /\ IsInjective(q[n])
    BY <1>2, <1>4
  <2> HIDE DEF m
  <2>2. q[m] = IF seq[m] \in Minor \cup ToSet(q[n]) THEN q[n] ELSE Append(q[n], seq[m])
    BY <1>1, <2>1 DEF AddsIn
  <2>3. seq[m] \notin ToSet(q[n]) => IsInjective(Append(q[n], seq[m]))
    BY <2>1, AppendFacts
  <2>4. IsInjective(q[m])
    BY <2>1, <2>2, <2>3
  <2> QED
    BY <2>1, <2>4 DEF m
<1>5. N \in T
  <2> HIDE DEF T
  <2>1. 0 .. N \subseteq T
    BY <1>2, <1>3, <1>4, UpTo
  <2> QED
    BY <1>2, <2>1
<1>6. q[N] \in Seq(X) /\ IsInjective(q[N]) /\ MaxConcepts \in Nat /\ MaxConcepts <= 8
  BY <1>2, <1>5, RubricAssumption
<1> DEFINE c == First(MaxConcepts, q[N])
<1>7. c \in Seq(X) /\ Len(c) <= MaxConcepts /\ IsInjective(c)
  BY <1>6, FirstFacts
<1>8. Len(c) \in Nat
  BY <1>7
<1> HIDE DEF c
<1>9. Concepts(seq) = c
  BY <1>1 DEF c
<1> QED
  BY <1>6, <1>7, <1>8, <1>9

-----------------------------------------------------------------------------
(* The score of an answer.                                                  *)

\* The share of the concepts, out of 60, is within its limits and grows with the
\* concepts matched.
LEMMA CoverageOfConcepts ==
    ASSUME NEW n \in 1 .. 8, NEW k \in 0 .. n, NEW m \in 0 .. n, k <= m
    PROVE  /\ (120 * m + n) \div (2 * n) \in 0 .. 60
           /\ (120 * k + n) \div (2 * n) <= (120 * m + n) \div (2 * n)
<1>1. CASE n = 1
  BY <1>1
<1>2. CASE n = 2
  BY <1>2
<1>3. CASE n = 3
  BY <1>3
<1>4. CASE n = 4
  BY <1>4
<1>5. CASE n = 5
  BY <1>5
<1>6. CASE n = 6
  BY <1>6
<1>7. CASE n = 7
  BY <1>7
<1>8. CASE n = 8
  BY <1>8
<1> QED
  BY <1>1, <1>2, <1>3, <1>4, <1>5, <1>6, <1>7, <1>8

\* What is shown of a text: within the limits of its parts.
LEMMA PartsInRange ==
    ASSUME NEW text
    PROVE  Structure(text) \in 0 .. 25 /\ Specificity(text) \in 0 .. 15
<1>1. Structure(text) \in 0 .. 25
  BY DEF Structure, If
<1>2. Specificity(text) \in 0 .. 15
  <2> DEFINE G == {g \in Topics : g \cap text.tokens # {}}
  <2>1. IsFiniteSet(Topics) /\ Cardinality(Topics) <= 5 /\ G \in SUBSET Topics
    BY RubricAssumption
  <2>2. Cardinality(G) \in Nat /\ Cardinality(Topics) \in Nat
        /\ Cardinality(G) <= Cardinality(Topics)
    BY <2>1, FS_Subset, FS_CardinalityType
  <2> HIDE DEF G
  <2>3. 3 * Cardinality(G) \in 0 .. 15
    BY <2>1, <2>2
  <2> QED
    BY <2>3 DEF Specificity, G
<1> QED
  BY <1>1, <1>2

\* The same of a sequence of concepts and what is matched of it.
LEMMA CoverageInRange ==
    ASSUME NEW X, NEW concepts \in Seq(X), concepts # <<>>, Len(concepts) <= 8,
           NEW few \in Seq(X), NEW many \in Seq(X),
           Len(few) <= Len(many), Len(many) <= Len(concepts)
    PROVE  /\ CoverageScore(few, concepts) \in 0 .. 60 /\ CoverageScore(many, concepts) \in 0 .. 60
           /\ CoverageScore(few, concepts) <= CoverageScore(many, concepts)
<1> DEFINE n == Len(concepts)
           k == Len(few)
           m == Len(many)
<1>1. n \in 1 .. 8 /\ k \in 0 .. n /\ m \in 0 .. n /\ k <= m
  <2>1. n \in Nat /\ k \in Nat /\ m \in Nat
    OBVIOUS
  <2>2. n # 0
    BY EmptySeq
  <2>3. n <= 8 /\ k <= m /\ m <= n
    OBVIOUS
  <2> HIDE DEF n, k, m
  <2> QED
    BY <2>1, <2>2, <2>3
<1> HIDE DEF n, k, m
<1>2. (120 * m + n) \div (2 * n) \in 0 .. 60
  BY <1>1, CoverageOfConcepts
<1>3. (120 * k + n) \div (2 * n) \in 0 .. 60
  <2>1. k <= k
    BY <1>1
  <2> QED
    BY <1>1, <2>1, CoverageOfConcepts
<1>4. (120 * k + n) \div (2 * n) <= (120 * m + n) \div (2 * n)
  BY <1>1, CoverageOfConcepts
<1> QED
  BY <1>2, <1>3, <1>4 DEF CoverageScore, n, k, m

\* A result for a card and a text: the score is the sum of its parts, each within
\* its limits, and no concept is matched and missing or listed twice.
IsResult(r, card, text) ==
    /\ r.coverage \in 0 .. 60 /\ r.structure \in 0 .. 25 /\ r.specificity \in 0 .. 15
    /\ r.score = r.coverage + r.structure + r.specificity /\ r.score \in 0 .. 100
    /\ r.verdict = Verdict(r.score) /\ r.resolved = Resolved(r.score)
    /\ r.card = card /\ r.text = text /\ r.words = text.words /\ r.rubric = 2
    /\ \A seq \in {r.matched, r.missing} : Len(seq) <= 8 /\ IsInjective(seq)
    /\ ToSet(r.matched) \cap ToSet(r.missing) = {}

\* The scorer's results are such.
LEMMA ResultFacts ==
    ASSUME NEW reference \in Seq(Vocabulary), Concepts(reference) # <<>>,
           NEW card, NEW text,
           NEW r, r = Result(card, reference, text)
    PROVE  IsResult(r, card, text)
<1> DEFINE concepts == Concepts(reference)
           covered  == Covered(text.tokens)
           matched  == Keep(concepts, covered)
           missing  == Keep(concepts, Vocabulary \ covered)
           coverage == CoverageScore(matched, concepts)
           sum      == coverage + Structure(text) + Specificity(text)
<1>1. /\ concepts \in Seq(Vocabulary) /\ Len(concepts) <= 8 /\ IsInjective(concepts)
      /\ concepts # <<>>
  BY ConceptFacts
<1>3. /\ matched \in Seq(Vocabulary) /\ Len(matched) <= Len(concepts)
      /\ ToSet(matched) \subseteq covered /\ IsInjective(matched)
  BY <1>1, KeepFacts
<1>4. /\ missing \in Seq(Vocabulary) /\ Len(missing) <= Len(concepts)
      /\ ToSet(missing) \subseteq Vocabulary \ covered /\ IsInjective(missing)
  BY <1>1, KeepFacts
<1> HIDE DEF concepts, covered, matched, missing
<1>6. coverage \in 0 .. 60
  <2>1. Len(matched) <= Len(matched)
    BY <1>3
  <2> QED
    BY <1>1, <1>3, <2>1, CoverageInRange
<1>7. Structure(text) \in 0 .. 25 /\ Specificity(text) \in 0 .. 15
  BY PartsInRange
<1> HIDE DEF coverage
<1>8. sum \in 0 .. 100
  <2> DEFINE a == Structure(text)
             b == Specificity(text)
  <2>1. coverage \in 0 .. 60 /\ a \in 0 .. 25 /\ b \in 0 .. 15
    BY <1>6, <1>7
  <2> HIDE DEF a, b
  <2>2. coverage + a + b \in 0 .. 100
    BY <2>1
  <2> QED
    BY <2>2 DEF a, b
<1>9. Min({100, sum}) = sum
  <2> HIDE DEF sum
  <2> QED
    BY <1>8 DEF Min
<1>10. /\ r.coverage = coverage /\ r.structure = Structure(text)
       /\ r.specificity = Specificity(text) /\ r.score = sum
       /\ r.verdict = Verdict(sum) /\ r.resolved = Resolved(sum)
       /\ r.card = card /\ r.text = text /\ r.words = text.words /\ r.rubric = 2
       /\ r.matched = matched /\ r.missing = missing
  BY <1>9, Zenon DEF Result, concepts, covered, matched, missing, coverage
<1>11. ToSet(matched) \cap ToSet(missing) = {}
  BY <1>3, <1>4
<1>12. Len(matched) <= 8 /\ Len(missing) <= 8
  BY <1>1, <1>3, <1>4
<1> HIDE DEF sum
<1>13. \A seq \in {r.matched, r.missing} : Len(seq) <= 8 /\ IsInjective(seq)
  BY <1>3, <1>4, <1>10, <1>12
<1>14. r.score = r.coverage + r.structure + r.specificity
  BY <1>10 DEF sum
<1>15. /\ r.coverage \in 0 .. 60 /\ r.structure \in 0 .. 25 /\ r.specificity \in 0 .. 15
       /\ r.score \in 0 .. 100
  BY <1>6, <1>7, <1>8, <1>10
<1> QED
  BY <1>10, <1>11, <1>13, <1>14, <1>15 DEF IsResult

\* A text with the words, tokens and punctuation of another, and more, scores no less.
LEMMA LongerScoresNoLess ==
    ASSUME NEW reference \in Seq(Vocabulary), Concepts(reference) # <<>>, NEW card,
           NEW short, IsText(short), NEW long, IsText(long),
           short.words <= long.words, short.tokens \subseteq long.tokens,
           short.punctuated => long.punctuated
    PROVE  Result(card, reference, short).score <= Result(card, reference, long).score
<1> DEFINE concepts == Concepts(reference)
           Matched(text)  == Keep(concepts, Covered(text.tokens))
           Coverage_(text) == CoverageScore(Matched(text), concepts)
           Score(text) == Result(card, reference, text).score
<1>1. concepts \in Seq(Vocabulary) /\ Len(concepts) <= 8 /\ concepts # <<>>
  BY ConceptFacts
<1>2. Covered(short.tokens) \subseteq Covered(long.tokens)
  BY DEF Covered, EquivalentToken
<1>3. Len(Matched(short)) <= Len(Matched(long))
  BY <1>1, <1>2, KeepGrows
<1>4. /\ Matched(short) \in Seq(Vocabulary)
      /\ Matched(long) \in Seq(Vocabulary) /\ Len(Matched(long)) <= Len(concepts)
  BY <1>1, KeepFacts
<1> HIDE DEF concepts, Matched
<1>40. /\ Coverage_(short) <= Coverage_(long)
      /\ Coverage_(short) \in 0 .. 60 /\ Coverage_(long) \in 0 .. 60
  BY <1>1, <1>3, <1>4, CoverageInRange
<1> HIDE DEF Coverage_
<1>5. Structure(short) <= Structure(long)
  <2>1. short.tokens \cap Connectives # {} => long.tokens \cap Connectives # {}
    OBVIOUS
  <2>2. short.tokens \cap Scoping # {} => long.tokens \cap Scoping # {}
    OBVIOUS
  <2>3. short.words \in Nat /\ long.words \in Nat
    BY DEF IsText
  <2> QED
    BY <2>1, <2>2, <2>3 DEF Structure, If
<1>6. Specificity(short) <= Specificity(long)
  <2> DEFINE G == {g \in Topics : g \cap short.tokens # {}}
             H == {g \in Topics : g \cap long.tokens # {}}
  <2>1. IsFiniteSet(Topics) /\ H \in SUBSET Topics /\ G \in SUBSET H
    BY RubricAssumption
  <2>2. IsFiniteSet(H) /\ IsFiniteSet(G)
    BY <2>1, FS_Subset
  <2>3. Cardinality(G) \in Nat /\ Cardinality(H) \in Nat /\ Cardinality(G) <= Cardinality(H)
    BY <2>1, <2>2, FS_Subset, FS_CardinalityType
  <2> HIDE DEF G, H
  <2>4. 3 * Cardinality(G) <= 3 * Cardinality(H)
    BY <2>3
  <2> QED
    BY <2>4 DEF Specificity, G, H
<1>7. /\ Score(short) = Coverage_(short) + Structure(short) + Specificity(short)
      /\ Score(long) = Coverage_(long) + Structure(long) + Specificity(long)
  <2>1. ASSUME NEW text
        PROVE  Score(text) = Coverage_(text) + Structure(text) + Specificity(text)
    <3> DEFINE r == Result(card, reference, text)
    <3>1. r.score = r.coverage + r.structure + r.specificity
      <4> HIDE DEF r
      <4>1. r = Result(card, reference, text)
        BY DEF r
      <4>2. IsResult(r, card, text)
        BY <4>1, ResultFacts
      <4> QED
        BY <4>2 DEF IsResult
    <3>2. /\ r.coverage = Coverage_(text) /\ r.structure = Structure(text)
          /\ r.specificity = Specificity(text)
      BY Zenon DEF Result, concepts, Matched, Coverage_
    <3> QED
      BY <3>1, <3>2
  <2> QED
    BY <2>1
<1>8. /\ Structure(short) \in Int /\ Structure(long) \in Int
      /\ Specificity(short) \in Int /\ Specificity(long) \in Int
      /\ Coverage_(short) \in Int /\ Coverage_(long) \in Int
  <2>1. \A text : Structure(text) \in 0 .. 25 /\ Specificity(text) \in 0 .. 15
    BY PartsInRange
  <2>2. Structure(short) \in 0 .. 25 /\ Specificity(short) \in 0 .. 15
    BY <2>1
  <2>3. Structure(long) \in 0 .. 25 /\ Specificity(long) \in 0 .. 15
    BY <2>1
  <2>4. 0 .. 60 \subseteq Int /\ 0 .. 25 \subseteq Int /\ 0 .. 15 \subseteq Int
    OBVIOUS
  <2> QED
    BY ONLY <1>40, <2>2, <2>3, <2>4, Zenon
<1> HIDE DEF Score
<1>9. Score(short) <= Score(long)
  BY <1>40, <1>5, <1>6, <1>7, <1>8
<1> QED
  BY <1>9 DEF Score

-----------------------------------------------------------------------------
(* The document: its limits.                                                *)

\* What the service loads, for every card and edition.
LEMMA ReferenceFacts ==
    ASSUME NEW e \in DOMAIN Catalogues, NEW card \in CardIds
    PROVE  Catalogues[e][card] \in Seq(Vocabulary) /\ Concepts(Catalogues[e][card]) # <<>>
<1>1. Catalogues[e] \in [CardIds -> Seq(Vocabulary)]
  BY DocumentAssumption
<1> QED
  BY <1>1, DocumentAssumption

\* A result of a text the service scores makes an attempt it accepts.
LEMMA ResultIsValid ==
    ASSUME NEW e \in DOMAIN Catalogues, NEW card \in CardIds, NEW text \in ScorableTexts,
           NEW a, a.result = Result(card, Catalogues[e][card], text)
    PROVE  ValidAttempt(a)
<1> DEFINE r == a.result
           reference == Catalogues[e][card]
<1>1. reference \in Seq(Vocabulary) /\ Concepts(reference) # <<>>
  BY ReferenceFacts
<1>2. r = Result(card, reference, text)
  OBVIOUS
<1> HIDE DEF r, reference
<1>3. IsResult(r, card, text)
  BY <1>1, <1>2, ResultFacts
<1>4. text.bytes \in 20 .. 1200 /\ text.words \in 4 .. 500
  BY DEF ScorableTexts, Scorable
<1> QED
  BY <1>3, <1>4 DEF IsResult, ValidAttempt, r

\* An element put before a sequence without it.
LEMMA PrependFacts ==
    ASSUME NEW X, NEW q \in Seq(X), NEW x \in X, NEW p, p = <<x>> \o q
    PROVE  /\ p \in Seq(X) /\ Len(p) = Len(q) + 1 /\ DOMAIN p = 1 .. Len(q) + 1
           /\ p[1] = x /\ \A i \in 2 .. Len(q) + 1 : i - 1 \in DOMAIN q /\ p[i] = q[i - 1]
           /\ IsInjective(q) /\ x \notin ToSet(q) => IsInjective(p)
<1>1. /\ p \in Seq(X) /\ Len(p) = Len(q) + 1 /\ DOMAIN p = 1 .. Len(q) + 1
      /\ p[1] = x /\ \A i \in 2 .. Len(q) + 1 : i - 1 \in DOMAIN q /\ p[i] = q[i - 1]
  OBVIOUS
<1>2. ASSUME IsInjective(q), x \notin ToSet(q), NEW i \in DOMAIN p, NEW j \in DOMAIN p,
             p[i] = p[j]
      PROVE  i = j
  <2>1. CASE i = 1 /\ j = 1
    BY <2>1
  <2>2. CASE i = 1 /\ j # 1
    BY <1>1, <1>2, <2>2 DEF ToSet
  <2>3. CASE i # 1 /\ j = 1
    BY <1>1, <1>2, <2>3 DEF ToSet
  <2>4. CASE i # 1 /\ j # 1
    <3>1. /\ i - 1 \in DOMAIN q /\ j - 1 \in DOMAIN q /\ q[i - 1] = q[j - 1]
          /\ i \in Int /\ j \in Int
      BY <1>1, <1>2, <2>4
    <3>2. i - 1 = j - 1
      BY <1>2, <3>1 DEF IsInjective
    <3> QED
      BY <3>1, <3>2
  <2> QED
    BY <2>1, <2>2, <2>3, <2>4
<1>3. IsInjective(q) /\ x \notin ToSet(q) => IsInjective(p)
  BY <1>2 DEF IsInjective
<1> QED
  BY <1>1, <1>3

\* A list of claims takes another: all of them if there is room, or else all but
\* the oldest.
Takes(t, claims, key) ==
    \/ t = Append(claims, key)
    \/ /\ Len(claims) = MaxClaims /\ Len(t) = MaxClaims
       /\ \A i \in 1 .. MaxClaims : t[i] = Append(claims, key)[i + 1]

LEMMA ClaimAdds ==
    ASSUME NEW X, NEW claims \in Seq(X), NEW key \in X, Len(claims) <= MaxClaims
    PROVE  /\ Claim(claims, key) \in Seq(X) /\ Len(Claim(claims, key)) <= MaxClaims
           /\ Takes(Claim(claims, key), claims, key)
<1> DEFINE a == Append(claims, key)
           N == Len(claims)
           k == Max({1, Len(a) - MaxClaims + 1})
<1>1. a \in Seq(X) /\ Len(a) = N + 1 /\ N \in Nat /\ MaxClaims \in Nat \ {0}
  BY DocumentAssumption
<1>2. Claim(claims, key) = SubSeq(a, k, N + 1)
  BY <1>1 DEF Claim, Newest
<1>3. CASE N < MaxClaims
  <2>1. k = 1
    BY <1>1, <1>3 DEF Max
  <2> HIDE DEF k, a
  <2>2. SubSeq(a, 1, N + 1) = a
    BY <1>1
  <2> QED
    BY <1>1, <1>2, <1>3, <2>1, <2>2 DEF a, Takes
<1>4. CASE N = MaxClaims
  <2>1. k = 2
    BY <1>1, <1>4 DEF Max
  <2> HIDE DEF k, a
  <2>2. /\ SubSeq(a, 2, N + 1) \in Seq(X) /\ Len(SubSeq(a, 2, N + 1)) = N
        /\ \A i \in 1 .. N : SubSeq(a, 2, N + 1)[i] = a[i + 1]
    BY <1>1
  <2> QED
    BY <1>1, <1>2, <1>4, <2>1, <2>2 DEF a, Takes
<1> QED
  BY <1>1, <1>3, <1>4

\* Claims up to a day, in the order of their days.
InOrder(claims, today) ==
    /\ \A i \in DOMAIN claims : claims[i][2] <= today
    /\ \A i, j \in DOMAIN claims : i < j => claims[i][2] <= claims[j][2]

\* Claims are cut from the oldest on, and never one of today: they are of different
\* cards, and there are no more cards than claims kept.
LEMMA ClaimKeepsToday ==
    ASSUME NEW today \in 0 .. MaxDay, NEW card \in CardIds,
           NEW claims \in Seq(CardIds \X (0 .. MaxDay)), Len(claims) <= MaxClaims,
           IsInjective(claims), InOrder(claims, today),
           <<card, today>> \notin ToSet(claims),
           NEW c, c = Claim(claims, <<card, today>>)
    PROVE  /\ c \in Seq(CardIds \X (0 .. MaxDay)) /\ Len(c) <= MaxClaims /\ IsInjective(c)
           /\ InOrder(c, today)
           /\ \A d \in CardIds : <<d, today>> \in ToSet(c) <=>
                                     <<d, today>> \in ToSet(claims) \/ d = card
<1> DEFINE X == CardIds \X (0 .. MaxDay)
           key == <<card, today>>
           N == Len(claims)
           a == Append(claims, key)
<1>1. /\ key \in X /\ claims \in Seq(X) /\ key[1] = card /\ key[2] = today
      /\ \A d \in CardIds : <<d, today>> = key <=> d = card
      /\ \A x \in X : x[1] \in CardIds /\ x[2] \in Nat /\ x = <<x[1], x[2]>>
  OBVIOUS
<1>2. N \in Nat /\ DOMAIN claims = 1 .. N
  OBVIOUS
<1>3. /\ a \in Seq(X) /\ Len(a) = N + 1 /\ DOMAIN a = 1 .. N + 1
      /\ IsInjective(a) /\ ToSet(a) = ToSet(claims) \cup {key}
  <2>1. key \notin ToSet(claims)
    OBVIOUS
  <2> HIDE DEF X, key
  <2>2. /\ a \in Seq(X) /\ Len(a) = N + 1 /\ DOMAIN a = 1 .. N + 1
    BY <1>1
  <2>3. ToSet(a) = ToSet(claims) \cup {key}
    BY <1>1, AppendFacts
  <2>4. IsInjective(a)
    BY <1>1, <2>1, AppendFacts
  <2> QED
    BY <2>2, <2>3, <2>4
<1>4. \A i \in DOMAIN a : \/ i = N + 1 /\ a[i] = key
                          \/ i \in DOMAIN claims /\ a[i] = claims[i] /\ i < N + 1
  <2> HIDE DEF X, key
  <2> QED
    BY <1>1, <1>2, <1>3
<1>5. c = Claim(claims, key)
  OBVIOUS
<1>0. /\ \A i \in DOMAIN claims : claims[i][2] <= today
      /\ \A i, j \in DOMAIN claims : i < j => claims[i][2] <= claims[j][2]
  BY DEF InOrder
<1> HIDE DEF a, key, X
<1>6. \A i \in DOMAIN a : a[i] \in X /\ a[i][2] <= today /\ a[i][2] \in Nat
  <2> SUFFICES ASSUME NEW i \in DOMAIN a
               PROVE  a[i] \in X /\ a[i][2] <= today
    BY <1>1
  <2>1. CASE a[i] = key
    BY <1>1, <2>1
  <2>2. CASE i \in DOMAIN claims /\ a[i] = claims[i]
    BY <1>0, <1>1, <2>2
  <2> QED
    BY <1>4, <2>1, <2>2
<1>7. ASSUME NEW i \in DOMAIN a, NEW j \in DOMAIN a, i < j PROVE a[i][2] <= a[j][2]
  <2>1. i \in DOMAIN claims /\ a[i] = claims[i]
    <3>1. i \in 1 .. N + 1 /\ j \in 1 .. N + 1
      BY <1>3
    <3>2. i # N + 1
      BY <1>2, <1>7, <3>1
    <3> QED
      BY <1>4, <3>2
  <2>2. CASE a[j] = key
    BY <1>0, <1>1, <2>1, <2>2
  <2>3. CASE j \in DOMAIN claims /\ a[j] = claims[j]
    BY <1>0, <1>7, <2>1, <2>3
  <2> QED
    BY <1>4, <2>2, <2>3
<1>8. /\ c \in Seq(X) /\ Len(c) <= MaxClaims
      /\ \/ c = a
         \/ /\ N = MaxClaims /\ Len(c) = MaxClaims
            /\ \A i \in 1 .. MaxClaims : c[i] = a[i + 1]
  <2> DEFINE t == Claim(claims, key)
  <2>1. t \in Seq(X) /\ Len(t) <= MaxClaims
    BY <1>1, ClaimAdds
  <2>2. Takes(t, claims, key)
    BY <1>1, ClaimAdds
  <2> HIDE DEF t
  <2>3. c = t
    BY <1>5 DEF t
  <2> QED
    BY <2>1, <2>2, <2>3 DEF a, Takes
<1>9. CASE c = a
  <2>1. IsInjective(c) /\ \A i \in DOMAIN c : c[i][2] <= today
    BY <1>3, <1>6, <1>9
  <2>2. \A i, j \in DOMAIN c : i < j => c[i][2] <= c[j][2]
    BY <1>7, <1>9
  <2>3. \A d \in CardIds : <<d, today>> \in ToSet(c) <=>
                               <<d, today>> \in ToSet(claims) \/ d = card
    BY <1>1, <1>3, <1>9
  <2> QED
    BY <1>8, <2>1, <2>2, <2>3 DEF X, InOrder
<1>10. CASE /\ N = MaxClaims /\ Len(c) = MaxClaims
            /\ \A i \in 1 .. MaxClaims : c[i] = a[i + 1]
  <2>1. /\ DOMAIN c = 1 .. N
        /\ \A i \in DOMAIN c : c[i] = a[i + 1] /\ i + 1 \in DOMAIN a /\ i \in Nat
    <3>1. DOMAIN c = 1 .. N
      BY <1>8, <1>10
    <3>2. \A i \in 1 .. N : i + 1 \in 1 .. N + 1 /\ i \in Nat
      BY <1>2
    <3> QED
      BY <1>3, <1>10, <3>1, <3>2
  <2>2. IsInjective(c)
    <3> SUFFICES ASSUME NEW i \in DOMAIN c, NEW j \in DOMAIN c, c[i] = c[j] PROVE i = j
      BY DEF IsInjective
    <3>1. i + 1 = j + 1
      BY <1>3, <2>1 DEF IsInjective
    <3>2. i \in Nat /\ j \in Nat
      BY <2>1
    <3> QED
      BY <3>1, <3>2
  <2>3. \A i \in DOMAIN c : c[i][2] <= today
    BY <1>6, <2>1
  <2>4. ASSUME NEW i \in DOMAIN c, NEW j \in DOMAIN c, i < j PROVE c[i][2] <= c[j][2]
    <3>1. i + 1 \in DOMAIN a /\ j + 1 \in DOMAIN a /\ i + 1 < j + 1
      <4>1. i + 1 \in DOMAIN a /\ i \in Nat
        BY <2>1
      <4>2. j + 1 \in DOMAIN a /\ j \in Nat
        BY <2>1
      <4> QED
        BY <2>4, <4>1, <4>2
    <3> QED
      BY <1>7, <2>1, <3>1
  <2>5. a[1][2] # today
    <3> SUFFICES ASSUME a[1][2] = today PROVE FALSE
      OBVIOUS
    <3>1. ASSUME NEW i \in DOMAIN a PROVE a[i] \in X /\ a[i][2] = today
      <4>1. 1 \in DOMAIN a /\ (i = 1 \/ 1 < i)
        BY <1>2, <1>3
      <4>2. today <= a[i][2]
        BY <1>6, <1>7, <4>1
      <4> QED
        BY <1>6, <4>2
    <3> DEFINE f == [i \in DOMAIN a |-> a[i][1]]
    <3>2. f \in [DOMAIN a -> CardIds]
      BY <1>1, <3>1
    <3>3. IsInjective(f)
      <4> SUFFICES ASSUME NEW i \in DOMAIN a, NEW j \in DOMAIN a, a[i][1] = a[j][1]
                   PROVE  i = j
        BY DEF IsInjective
      <4>1. a[i] = <<a[i][1], today>> /\ a[j] = <<a[j][1], today>>
        BY <1>1, <3>1
      <4>2. a[i] = a[j]
        BY <4>1
      <4> QED
        BY <1>3, <4>2 DEF IsInjective
    <3>4. f \in Injection(DOMAIN a, CardIds)
      BY <3>2, <3>3 DEF Injection
    <3> HIDE DEF f
    <3>5. IsFiniteSet(CardIds) /\ Cardinality(CardIds) <= MaxClaims /\ MaxClaims \in Nat
      BY DocumentAssumption
    <3>6. Cardinality(DOMAIN a) <= Cardinality(CardIds) /\ Cardinality(CardIds) \in Nat
      BY <3>4, <3>5, FS_Injection, FS_CardinalityType
    <3>7. Cardinality(1 .. N + 1) = N + 1
      <4>1. 1 \in Int /\ N + 1 \in Int /\ ~(1 > N + 1) /\ (N + 1) - 1 + 1 = N + 1
        BY <1>2
      <4> QED
        BY <4>1, FS_Interval
    <3> QED
      BY <1>2, <1>3, <1>10, <3>5, <3>6, <3>7
  <2>6. ASSUME NEW d \in CardIds
        PROVE  <<d, today>> \in ToSet(c) <=> <<d, today>> \in ToSet(a)
    <3>1. ASSUME <<d, today>> \in ToSet(c) PROVE <<d, today>> \in ToSet(a)
      <4>1. PICK i \in DOMAIN c : c[i] = <<d, today>>
        BY <3>1 DEF ToSet
      <4> QED
        BY <2>1, <4>1 DEF ToSet
    <3>2. ASSUME <<d, today>> \in ToSet(a) PROVE <<d, today>> \in ToSet(c)
      <4>1. PICK i \in DOMAIN a : a[i] = <<d, today>>
        BY <3>2 DEF ToSet
      <4>2. i # 1
        BY <2>5, <4>1
      <4>3. i - 1 \in DOMAIN c /\ (i - 1) + 1 = i
        BY <1>2, <1>3, <2>1, <4>2
      <4>4. c[i - 1] = a[i]
        BY <2>1, <4>3
      <4> QED
        BY <4>1, <4>3, <4>4 DEF ToSet
    <3> QED
      BY <3>1, <3>2
  <2>7. \A d \in CardIds : <<d, today>> \in ToSet(c) <=>
                               <<d, today>> \in ToSet(claims) \/ d = card
    BY <1>1, <1>3, <2>6
  <2> QED
    BY <1>8, <2>2, <2>3, <2>4, <2>7 DEF X, InOrder
<1> QED
  BY <1>8, <1>9, <1>10

-----------------------------------------------------------------------------
(* The document: XP.                                                        *)

\* The attempts worth XP, those of them that are first for their card and day, and
\* what each of these is worth.
Worth(acc) == {i \in DOMAIN acc : acc[i].result.verdict # "needs-work"}

SameDay(v, w) == v.result.card = w.result.card /\ v.day = w.day

Rewarded(acc) == {i \in Worth(acc) : \A j \in Worth(acc) : SameDay(acc[i], acc[j]) => i <= j}

RewardOf(w) == IF w.result.verdict = "strong" THEN 10 ELSE 5

Rewards(acc) == [i \in Rewarded(acc) |-> RewardOf(acc[i])]

\* XP is the sum of these rewards.
LEMMA XpIsSum == XpIsEarned <=> doc.xp = SumFunction(Rewards(accepted))
BY Zenon DEF XpIsEarned, Rewards, RewardOf, Rewarded, Worth, SameDay

\* Another accepted attempt adds its reward, unless it is worth none or its card had
\* one on that day.
LEMMA RewardsAdd ==
    ASSUME NEW X, NEW acc \in Seq(X), NEW w \in X
    PROVE  SumFunction(Rewards(Append(acc, w))) = SumFunction(Rewards(acc)) +
               IF \/ w.result.verdict = "needs-work"
                  \/ \E i \in Worth(acc) : SameDay(acc[i], w)
               THEN 0 ELSE RewardOf(w)
<1> DEFINE N == Len(acc)
           a == Append(acc, w)
           k == N + 1
           earlier == \E i \in Worth(acc) : SameDay(acc[i], w)
<1>1. /\ N \in Nat /\ DOMAIN acc = 1 .. N /\ DOMAIN a = 1 .. k /\ a[k] = w
      /\ \A i \in 1 .. N : a[i] = acc[i] /\ i < k /\ i \in Nat
  OBVIOUS
<1> HIDE DEF a
<1>2. DOMAIN a = DOMAIN acc \cup {k} /\ k \notin DOMAIN acc
  BY <1>1
<1>3. Worth(a) = IF w.result.verdict = "needs-work" THEN Worth(acc) ELSE Worth(acc) \cup {k}
  BY <1>1, <1>2 DEF Worth
<1>4. \A i \in Worth(acc) : i \in 1 .. N
  BY <1>1 DEF Worth
<1>5. \A i \in Worth(acc) : i \in Rewarded(a) <=> i \in Rewarded(acc)
  <2> SUFFICES ASSUME NEW i \in Worth(acc)
               PROVE  i \in Rewarded(a) <=> i \in Rewarded(acc)
    OBVIOUS
  <2>1. i \in Worth(a) /\ a[i] = acc[i] /\ i < k /\ i \in Nat
    BY <1>1, <1>3, <1>4
  <2>2. \A j \in Worth(acc) : a[j] = acc[j]
    BY <1>1, <1>4
  <2>3. i <= k
    BY <1>1, <2>1
  <2>4. ASSUME i \in Rewarded(acc), NEW j \in Worth(a), SameDay(a[i], a[j]) PROVE i <= j
    <3>1. CASE j = k
      BY <2>3, <3>1
    <3>2. CASE j \in Worth(acc)
      BY <2>1, <2>2, <2>4, <3>2 DEF Rewarded
    <3> QED
      BY <1>3, <3>1, <3>2
  <2>5. ASSUME i \in Rewarded(a), NEW j \in Worth(acc), SameDay(acc[i], acc[j]) PROVE i <= j
    <3>1. j \in Worth(a)
      BY <1>3
    <3> QED
      BY <2>1, <2>2, <2>5, <3>1 DEF Rewarded
  <2> QED
    BY <2>1, <2>4, <2>5 DEF Rewarded
<1>6. k \in Rewarded(a) <=> w.result.verdict # "needs-work" /\ ~earlier
  <2>1. k \in Worth(a) <=> w.result.verdict # "needs-work"
    BY <1>1, <1>2 DEF Worth
  <2>2. ASSUME earlier, k \in Rewarded(a) PROVE FALSE
    <3>1. PICK i \in Worth(acc) : SameDay(acc[i], w)
      BY <2>2
    <3>2. i \in Worth(a) /\ a[i] = acc[i] /\ i < k /\ i \in Nat
      BY <1>1, <1>3, <1>4
    <3>3. SameDay(a[k], a[i])
      BY <1>1, <3>1, <3>2 DEF SameDay
    <3>4. k <= i
      BY <2>2, <3>2, <3>3 DEF Rewarded
    <3> QED
      BY <1>1, <3>2, <3>4
  <2>3. ASSUME ~earlier, k \in Worth(a), NEW j \in Worth(a), SameDay(a[k], a[j]) PROVE k <= j
    <3>1. CASE j = k
      BY <1>1, <3>1
    <3>2. CASE j \in Worth(acc)
      <4>1. SameDay(acc[j], w)
        BY <1>1, <1>4, <2>3, <3>2 DEF SameDay
      <4> QED
        BY <2>3, <3>2, <4>1
    <3> QED
      BY <1>3, <3>1, <3>2
  <2> QED
    BY <2>1, <2>2, <2>3 DEF Rewarded
<1>7. Rewarded(a) \subseteq Worth(acc) \cup {k} /\ Rewarded(acc) \subseteq Worth(acc)
  BY <1>3 DEF Rewarded
<1>8. k \notin Worth(acc)
  BY <1>1, <1>4
<1>9. Rewarded(a) = IF k \in Rewarded(a) THEN Rewarded(acc) \cup {k} ELSE Rewarded(acc)
  <2> HIDE DEF k
  <2>1. Rewarded(acc) \subseteq Rewarded(a)
    BY <1>5, <1>7
  <2>2. Rewarded(a) \subseteq Rewarded(acc) \cup {k}
    BY <1>5, <1>7
  <2>3. CASE k \in Rewarded(a)
    <3>1. Rewarded(a) = Rewarded(acc) \cup {k}
      BY <2>1, <2>2, <2>3
    <3> QED
      BY <2>3, <3>1
  <2>4. CASE k \notin Rewarded(a)
    <3>1. Rewarded(a) = Rewarded(acc)
      BY <2>1, <2>2, <2>4
    <3> QED
      BY <2>4, <3>1
  <2> QED
    BY <2>3, <2>4
<1> DEFINE f == Rewards(acc)
           g == Rewards(a)
<1>10. /\ DOMAIN f = Rewarded(acc) /\ DOMAIN g = Rewarded(a)
       /\ \A i \in DOMAIN f : f[i] \in Nat
       /\ \A i \in DOMAIN g : g[i] = RewardOf(a[i]) /\ g[i] \in Nat
  BY DEF Rewards, RewardOf
<1>11. \A i \in DOMAIN f : i \in DOMAIN g => g[i] = f[i]
  <2>1. \A i \in DOMAIN f : a[i] = acc[i]
    BY <1>1, <1>4, <1>7, <1>10
  <2> QED
    BY <1>10, <2>1 DEF Rewards
<1>12. IsFiniteSet(DOMAIN f)
  <2>1. IsFiniteSet(1 .. N) /\ DOMAIN f \subseteq 1 .. N
    BY <1>1, <1>4, <1>7, <1>10, FS_Interval
  <2> QED
    BY <2>1, FS_Subset
<1>13. SumFunction(f) \in Nat
  BY <1>10, <1>12, SumIsNatural
<1> DEFINE none == w.result.verdict = "needs-work" \/ earlier
<1>14. CASE none
  <2>1. Rewarded(a) = Rewarded(acc)
    BY <1>6, <1>9, <1>14
  <2>2. g = f
    <3>1. \A i \in Rewarded(acc) : RewardOf(a[i]) = RewardOf(acc[i])
      BY <1>1, <1>4, <1>7
    <3> QED
      BY <2>1, <3>1 DEF Rewards
  <2>3. SumFunction(g) = SumFunction(f) + 0
    BY <1>13, <2>2
  <2> QED
    BY <1>14, <2>3 DEF a
<1>15. CASE ~none
  <2>1. k \in Rewarded(a) /\ Rewarded(a) = Rewarded(acc) \cup {k} /\ k \notin Rewarded(acc)
    BY <1>6, <1>7, <1>8, <1>9, <1>15
  <2>2. DOMAIN g = DOMAIN f \cup {k} /\ k \notin DOMAIN f /\ g[k] = RewardOf(w) /\ g[k] \in Nat
    BY <1>1, <1>10, <2>1
  <2>3. \A i \in DOMAIN f : g[i] = f[i]
    BY <1>11, <2>2
  <2>4. SumFunction(g) = SumFunction(f) + g[k]
    <3>1. \A i \in DOMAIN f : f[i] \in Nat
      BY <1>10
    <3> HIDE DEF f, g, k
    <3> QED
      BY ONLY <1>12, <3>1, <2>2, <2>3, SumGrows
  <2> QED
    BY <1>15, <2>2, <2>4 DEF a
<1> QED
  BY <1>14, <1>15

-----------------------------------------------------------------------------
(* The document: its invariant.                                             *)

\* What there is to know of a text that is written, or of none.
LEMMA TextFacts ==
    ASSUME NEW text \in Texts \cup {NoText}
    PROVE  /\ text.units \in Nat /\ text.bytes \in Nat
           /\ text.bytes <= text.units => text.bytes <= 1200
<1>1. CASE text = NoText
  BY <1>1 DEF NoText
<1>2. CASE text \in Texts
  <2>1. IsText(text) /\ text.units <= 1200
    BY <1>2, DocumentAssumption
  <2>2. text.units \in Nat /\ text.bytes \in Nat
    BY <2>1 DEF IsText
  <2> QED
    BY <2>1, <2>2
<1> QED
  BY <1>1, <1>2

\* A write that the service accepts whenever the catalogue was not edited and the
\* text has no longer characters leaves a document as the invariant has it.
LEMMA PutKeeps ==
    ASSUME DocumentInv, NEW d \in Document, NEW text \in Texts \cup {NoText}, Put(d, text),
           edition = 1 /\ text.bytes <= text.units => Valid(d) /\ Authoritative(d),
           UNCHANGED edition
    PROVE  /\ doc' \in Document /\ Valid(doc)' /\ (edition = 1 => Authoritative(doc))'
           /\ PageWritesAreAccepted'
           /\ \/ doc' = d /\ outcome'.kind = "saved"
              \/ doc' = doc /\ outcome'.kind = "refused"
<1>1. doc \in Document /\ Valid(doc) /\ (edition = 1 => Authoritative(doc)) /\ edition \in Nat
      /\ edition >= 1
  BY DocumentAssumption DEF DocumentInv, DocumentTyped, AttemptsAreResults
<1>2. text.units \in Nat /\ text.bytes \in Nat
  BY TextFacts
<1>3. CASE Valid(d) /\ Authoritative(d)
  <2>1. doc' = d /\ outcome' = [kind |-> "saved", text |-> text]
    BY <1>3 DEF Put, Outcome
  <2>2. Valid(doc)' /\ Authoritative(doc)'
    BY <1>3, <2>1 DEF Valid, Authoritative
  <2> QED
    BY <2>1, <2>2 DEF PageWritesAreAccepted
<1>4. CASE ~(Valid(d) /\ Authoritative(d))
  <2>1. doc' = doc /\ outcome' = [kind |-> "refused", text |-> text]
    BY <1>4 DEF Put, Outcome
  <2>2. Valid(doc)' /\ (edition = 1 => Authoritative(doc))'
    BY <1>1, <2>1 DEF Valid, Authoritative
  <2>3. edition > 1 \/ text.bytes > text.units
    BY <1>1, <1>2, <1>4
  <2> QED
    BY <1>1, <2>1, <2>2, <2>3 DEF PageWritesAreAccepted
<1> QED
  BY <1>3, <1>4

\* A write that changes no attempts, claims or XP, and none that is accepted.
LEMMA OtherWriteKeeps ==
    ASSUME DocumentInv, NEW d \in Document, NEW text \in Texts \cup {NoText}, Put(d, text),
           edition = 1 /\ text.bytes <= text.units => Valid(d) /\ Authoritative(d),
           d.attempts = doc.attempts, d.claims = doc.claims, d.xp = doc.xp,
           Write, UNCHANGED <<edition, day, accepted>>
    PROVE  DocumentInv'
<1>1. /\ doc' \in Document /\ Valid(doc)' /\ (edition = 1 => Authoritative(doc))'
      /\ PageWritesAreAccepted'
      /\ doc'.attempts = doc.attempts /\ doc'.claims = doc.claims /\ doc'.xp = doc.xp
  BY PutKeeps
<1>2. writes' = writes + 1 /\ writes < MaxWrites /\ MaxWrites \in Nat
  BY DocumentAssumption DEF Write
<1>3. DocumentTyped'
  BY <1>1, <1>2 DEF DocumentInv, DocumentTyped
<1>4. AttemptsAreResults'
  BY <1>1 DEF DocumentInv, AttemptsAreResults
<1>5. ClaimsOfToday'
  BY <1>1 DEF DocumentInv, ClaimsOfToday
<1>6. XpIsEarned'
  BY <1>1 DEF DocumentInv, XpIsEarned
<1> QED
  BY <1>1, <1>3, <1>4, <1>5, <1>6 DEF DocumentInv

\* Saving a draft.
LEMMA SaveDraftKeeps ==
    ASSUME DocumentInv, NEW card \in CardIds, NEW text \in Texts, SaveDraft(card, text)
    PROVE  DocumentInv'
<1> DEFINE d == [doc EXCEPT !.drafts[card] = text]
<1>1. doc \in Document /\ Valid(doc) /\ (edition = 1 => Authoritative(doc))
  BY DEF DocumentInv, DocumentTyped, AttemptsAreResults
<1>2. /\ d.drafts = [doc.drafts EXCEPT ![card] = text] /\ d.attempts = doc.attempts
      /\ d.claims = doc.claims /\ d.xp = doc.xp /\ d.recent = doc.recent
      /\ d \in Document
  BY <1>1 DEF Document
<1>3. Put(d, text) /\ Write /\ UNCHANGED <<edition, day, accepted>>
  BY DEF SaveDraft
<1> HIDE DEF d
<1>4. text.bytes <= text.units => Valid(d)
  <2>1. text.bytes <= text.units => text.bytes <= 1200
    BY TextFacts
  <2>2. doc.drafts \in [CardIds -> Texts \cup {NoText}]
    BY <1>1 DEF Document
  <2> QED
    BY <1>1, <1>2, <2>1, <2>2 DEF Valid
<1>5. edition = 1 => Authoritative(d)
  BY <1>1, <1>2 DEF Authoritative
<1> QED
  BY <1>2, <1>3, <1>4, <1>5, OtherWriteKeeps

\* Shuffling to a card.
LEMMA ShuffleKeeps ==
    ASSUME DocumentInv, NEW card \in CardIds, Shuffle(card)
    PROVE  DocumentInv'
<1> DEFINE kept == Keep(doc.recent, CardIds \ {card})
           longer == <<card>> \o kept
           recent == First(MaxRecent, longer)
           d == [doc EXCEPT !.recent = recent]
<1>1. doc \in Document /\ Valid(doc) /\ (edition = 1 => Authoritative(doc))
  BY DEF DocumentInv, DocumentTyped, AttemptsAreResults
<1>2. doc.recent \in Seq(CardIds) /\ IsInjective(doc.recent)
  BY <1>1 DEF Document, Valid
<1>3. kept \in Seq(CardIds) /\ card \notin ToSet(kept) /\ IsInjective(kept)
  BY <1>2, KeepFacts
<1>4. Put(d, NoText) /\ Write /\ UNCHANGED <<edition, day, accepted>>
  BY DEF Shuffle
<1> HIDE DEF kept
<1>5. longer \in Seq(CardIds) /\ IsInjective(longer)
  BY <1>3, PrependFacts
<1> HIDE DEF longer
<1>6. recent \in Seq(CardIds) /\ Len(recent) <= MaxRecent /\ IsInjective(recent)
  BY <1>5, FirstFacts, DocumentAssumption
<1> HIDE DEF recent
<1>7. /\ d.drafts = doc.drafts /\ d.attempts = doc.attempts
      /\ d.claims = doc.claims /\ d.xp = doc.xp /\ d.recent = recent
      /\ d \in Document
  BY <1>1, <1>6 DEF Document
<1> HIDE DEF d
<1>8. Valid(d)
  BY <1>1, <1>6, <1>7 DEF Valid
<1>9. edition = 1 => Authoritative(d)
  BY <1>1, <1>7 DEF Authoritative
<1> QED
  BY <1>4, <1>7, <1>8, <1>9, OtherWriteKeeps

\* The ids of a list of attempts.
DistinctIds(q) == IsInjective([i \in DOMAIN q |-> q[i].id])

IdsUpTo(q, n) == \A i \in DOMAIN q : q[i].id \in Nat /\ q[i].id <= n

AddsOnly(q, older, a) == \A i \in DOMAIN q : q[i] = a \/ q[i] \in ToSet(older)

\* A list of attempts takes a new one, whose id is greater than theirs.
LEMMA RetainedFacts ==
    ASSUME NEW X, NEW older \in Seq(X), NEW a \in X, NEW n \in Nat, a.id = n + 1,
           IdsUpTo(older, n), DistinctIds(older),
           NEW q, q = Retained(older, a)
    PROVE  /\ q \in Seq(X) /\ Len(q) <= MaxAttempts
           /\ AddsOnly(q, older, a) /\ IdsUpTo(q, n + 1) /\ DistinctIds(q)
<1> USE DEF IdsUpTo, DistinctIds, AddsOnly
<1> DEFINE p == <<a>> \o older
<1>1. /\ p \in Seq(X) /\ DOMAIN p = 1 .. Len(older) + 1 /\ p[1] = a
      /\ \A i \in 2 .. Len(older) + 1 : i - 1 \in DOMAIN older /\ p[i] = older[i - 1]
  BY PrependFacts
<1>2. q = First(MaxAttempts, p)
  BY DEF Retained
<1> HIDE DEF p
<1>3. /\ q \in Seq(X) /\ Len(q) <= MaxAttempts
      /\ \A i \in DOMAIN q : i \in DOMAIN p /\ q[i] = p[i]
  BY <1>1, <1>2, FirstFacts, DocumentAssumption
<1>4. \A i \in DOMAIN p : \/ i = 1 /\ p[i] = a
                          \/ i - 1 \in DOMAIN older /\ p[i] = older[i - 1] /\ i \in Nat
  <2>1. Len(older) \in Nat
    OBVIOUS
  <2>2. ASSUME NEW i \in DOMAIN p, i # 1 PROVE i \in 2 .. Len(older) + 1 /\ i \in Nat
    BY <1>1, <2>1, <2>2
  <2> QED
    BY <1>1, <2>2
<1>5. \A i \in DOMAIN q : q[i] = a \/ q[i] \in ToSet(older)
  BY <1>3, <1>4 DEF ToSet
<1>6. IdsUpTo(q, n + 1)
  <2> SUFFICES ASSUME NEW i \in DOMAIN q PROVE q[i].id \in Nat /\ q[i].id <= n + 1
    OBVIOUS
  <2>1. CASE q[i] = a
    BY <2>1
  <2>2. CASE q[i] \in ToSet(older)
    BY <2>2 DEF ToSet
  <2> QED
    BY <1>5, <2>1, <2>2
<1>7. ASSUME NEW i \in DOMAIN q, NEW j \in DOMAIN q, q[i].id = q[j].id PROVE i = j
  <2>1. /\ i \in DOMAIN p /\ q[i] = p[i] /\ j \in DOMAIN p /\ q[j] = p[j]
    BY <1>3
  <2>2. CASE i = 1 /\ j = 1
    BY <2>2
  <2>3. CASE i = 1 /\ j # 1
    <3>1. p[i].id = n + 1 /\ p[j].id \in Nat /\ p[j].id <= n
      BY <1>1, <1>4, <2>1, <2>3
    <3> QED
      BY <1>7, <2>1, <3>1
  <2>4. CASE i # 1 /\ j = 1
    <3>1. p[j].id = n + 1 /\ p[i].id \in Nat /\ p[i].id <= n
      BY <1>1, <1>4, <2>1, <2>4
    <3> QED
      BY <1>7, <2>1, <3>1
  <2>5. CASE i # 1 /\ j # 1
    <3>1. /\ i - 1 \in DOMAIN older /\ p[i] = older[i - 1] /\ i \in Nat
          /\ j - 1 \in DOMAIN older /\ p[j] = older[j - 1] /\ j \in Nat
      BY <1>4, <2>1, <2>5
    <3>2. i - 1 = j - 1
      BY <1>7, <2>1, <3>1 DEF IsInjective
    <3> QED
      BY <3>1, <3>2
  <2> QED
    BY <2>2, <2>3, <2>4, <2>5
<1>8. IsInjective([i \in DOMAIN q |-> q[i].id])
  BY <1>7 DEF IsInjective
<1> QED
  BY <1>3, <1>5, <1>6, <1>8

\* The reward goes by the verdict.
LEMMA RewardByVerdict ==
    ASSUME NEW score \in 0 .. 100
    PROVE  /\ RecallReward(score) \in Nat
           /\ RecallReward(score) > 0 <=> Verdict(score) # "needs-work"
           /\ Verdict(score) # "needs-work" =>
                 RecallReward(score) = IF Verdict(score) = "strong" THEN 10 ELSE 5
BY DEF RecallReward, Verdict

\* What the page makes of a scored text is a document, and one the service accepts
\* if it accepts the attempts there were.
LEMMA AddedAttempt ==
    ASSUME DocumentInv, writes < MaxWrites,
           NEW card \in CardIds, NEW text \in ScorableTexts,
           NEW a, a = [id |-> Len(accepted) + 1,
                       result |-> Result(card, Catalogues[edition][card], text)],
           NEW d, d = AddAttempt(a),
           NEW key, key = <<card, day>>
    PROVE  /\ d \in Document /\ Valid(d) /\ (edition = 1 => Authoritative(d))
           /\ \A i \in DOMAIN d.attempts : d.attempts[i].id <= Len(accepted) + 1
           /\ d.xp = doc.xp + IF key \in ToSet(doc.claims) THEN 0
                              ELSE RecallReward(a.result.score)
           /\ IF key \in ToSet(doc.claims) \/ a.result.verdict = "needs-work"
              THEN d.claims = doc.claims ELSE d.claims = Claim(doc.claims, key)
<1> DEFINE r == a.result
           n == Len(accepted)
           reward == IF key \in ToSet(doc.claims) THEN 0 ELSE RecallReward(r.score)
           retained == Retained(doc.attempts, a)
           claims == IF reward > 0 THEN Claim(doc.claims, key) ELSE doc.claims
           X == Stored \cup {Imported}
           C == CardIds \X (0 .. MaxDay)
<1>1. /\ doc \in Document /\ Valid(doc) /\ (edition = 1 => Authoritative(doc))
      /\ edition \in DOMAIN Catalogues /\ day \in 1 .. MaxDay /\ day \in 0 .. MaxDay
      /\ accepted \in Seq(Entries) /\ n \in Nat /\ n <= writes /\ writes \in 0 .. MaxWrites
      /\ \A i \in DOMAIN doc.attempts : doc.attempts[i].id <= n
  BY DocumentAssumption DEF DocumentInv, DocumentTyped, AttemptsAreResults
<1>2. ClaimsOfToday
  BY DEF DocumentInv
<1>3. IsResult(r, card, text)
  <2> DEFINE reference == Catalogues[edition][card]
  <2>1. reference \in Seq(Vocabulary) /\ Concepts(reference) # <<>>
    BY <1>1, ReferenceFacts
  <2>2. r = Result(card, reference, text)
    OBVIOUS
  <2> HIDE DEF r, reference
  <2> QED
    BY <2>1, <2>2, ResultFacts
<1>4. r.card = card /\ r.text = text /\ r.score \in 0 .. 100 /\ r.verdict = Verdict(r.score)
      /\ a.id = n + 1 /\ r = Result(card, Catalogues[edition][card], text)
  BY <1>3 DEF IsResult
<1>5. a \in Stored
  <2>1. n + 1 \in 1 .. MaxWrites
    BY <1>1, DocumentAssumption
  <2> QED
    BY <1>1, <2>1 DEF Stored
<1>6. ValidAttempt(a)
  BY <1>1, <1>4, ResultIsValid
<1> HIDE DEF r
<1>7. /\ reward \in Nat
      /\ reward > 0 <=> ~(key \in ToSet(doc.claims) \/ r.verdict = "needs-work")
  <2> HIDE DEF r
  <2>1. /\ RecallReward(r.score) \in Nat
        /\ RecallReward(r.score) > 0 <=> r.verdict # "needs-work"
    BY <1>4, RewardByVerdict
  <2>2. CASE key \in ToSet(doc.claims)
    BY <2>2
  <2>3. CASE key \notin ToSet(doc.claims)
    BY <2>1, <2>3
  <2> QED
    BY <2>2, <2>3
<1> HIDE DEF reward
<1>8. d = [doc EXCEPT !.xp = @ + reward, !.attempts = retained, !.selected = a.id,
                      !.active = card, !.claims = claims]
  BY <1>4 DEF AddAttempt, r, reward
<1>9. /\ doc.attempts \in Seq(X) /\ doc.claims \in Seq(C) /\ doc.xp \in Nat
      /\ doc.recent \in Seq(CardIds)
  BY <1>1 DEF Document
<1>10. \A x \in X : x.id \in Nat
  BY DocumentAssumption DEF Stored
<1>11. /\ retained \in Seq(X) /\ Len(retained) <= MaxAttempts
       /\ AddsOnly(retained, doc.attempts, a) /\ IdsUpTo(retained, n + 1)
       /\ DistinctIds(retained)
  <2>1. a \in X
    BY <1>5
  <2>2. IdsUpTo(doc.attempts, n)
    BY <1>1, <1>9, <1>10 DEF IdsUpTo
  <2>3. DistinctIds(doc.attempts)
    BY <1>1 DEF Valid, DistinctIds
  <2> HIDE DEF X, n, retained
  <2>4. retained = Retained(doc.attempts, a)
    BY DEF retained
  <2> QED
    BY <1>1, <1>4, <1>9, <2>1, <2>2, <2>3, <2>4, RetainedFacts
<1>12. /\ claims \in Seq(C) /\ Len(claims) <= MaxClaims /\ IsInjective(claims)
  <2>1. Len(doc.claims) <= MaxClaims /\ IsInjective(doc.claims)
    BY <1>1 DEF Valid
  <2>2. CASE reward > 0
    <3>1. key \notin ToSet(doc.claims) /\ claims = Claim(doc.claims, key)
      BY <1>7, <2>2
    <3>2. InOrder(doc.claims, day)
      BY <1>2 DEF ClaimsOfToday, InOrder
    <3> HIDE DEF claims
    <3> QED
      BY <1>1, <1>9, <2>1, <3>1, <3>2, ClaimKeepsToday
  <2>3. CASE ~(reward > 0)
    BY <1>9, <2>1, <2>3
  <2> QED
    BY <2>2, <2>3
<1> HIDE DEF retained, claims, X, C
<1>13. /\ d.xp = doc.xp + reward /\ d.attempts = retained /\ d.claims = claims
       /\ d.drafts = doc.drafts /\ d.recent = doc.recent
       /\ d \in Document
  <2>1. a.id \in Nat /\ doc.xp + reward \in Nat
    BY <1>1, <1>4, <1>7, <1>9
  <2> QED
    BY <1>1, <1>8, <1>11, <1>12, <2>1 DEF Document, X, C
<1>14. Valid(d)
  <2>1. \A b \in ToSet(retained) : ValidAttempt(b)
    <3>1. \A b \in ToSet(doc.attempts) : ValidAttempt(b)
      BY <1>1 DEF Valid
    <3>2. \A b \in ToSet(retained) : b = a \/ b \in ToSet(doc.attempts)
      BY <1>11 DEF ToSet, AddsOnly
    <3> QED
      BY <1>6, <3>1, <3>2
  <2>2. IsInjective([i \in DOMAIN d.attempts |-> d.attempts[i].id])
    BY <1>11, <1>13 DEF DistinctIds
  <2>3. /\ \A c \in CardIds : d.drafts[c].bytes <= 1200
        /\ Len(d.recent) <= MaxRecent /\ IsInjective(d.recent)
    BY <1>1, <1>13 DEF Valid
  <2> QED
    BY <1>11, <1>12, <1>13, <2>1, <2>2, <2>3 DEF Valid
<1>15. edition = 1 => Authoritative(d)
  <2> SUFFICES ASSUME edition = 1, NEW b \in ToSet(d.attempts), b.result.rubric = 2
               PROVE  /\ Scorable(b.result.text)
                      /\ b.result = Result(b.result.card, Catalogues[edition][b.result.card],
                                           b.result.text)
    BY DEF Authoritative
  <2>1. CASE b = a
    <3>1. Scorable(text)
      BY DEF ScorableTexts
    <3> QED
      BY <1>4, <2>1, <3>1 DEF r
  <2>2. CASE b \in ToSet(doc.attempts)
    BY <1>1, <2>2 DEF Authoritative
  <2> QED
    BY <1>11, <1>13, <2>1, <2>2 DEF ToSet, AddsOnly
<1>16. IF key \in ToSet(doc.claims) \/ r.verdict = "needs-work"
       THEN d.claims = doc.claims ELSE d.claims = Claim(doc.claims, key)
  BY <1>7, <1>13 DEF claims
<1> QED
  BY <1>11, <1>13, <1>14, <1>15, <1>16 DEF r, reward, IdsUpTo

\* Validating.
LEMMA ValidateKeeps ==
    ASSUME DocumentInv, NEW card \in CardIds, NEW text \in Texts, Validate(card, text)
    PROVE  DocumentInv'
<1> DEFINE r == Result(card, Catalogues[edition][card], text)
           n == Len(accepted)
           a == [id |-> n + 1, result |-> r]
           w == [day |-> day, edition |-> edition, result |-> r]
           d == AddAttempt(a)
           key == <<card, day>>
<1>1. /\ doc \in Document /\ Valid(doc) /\ (edition = 1 => Authoritative(doc))
      /\ edition \in DOMAIN Catalogues /\ edition \in Nat /\ day \in 1 .. MaxDay
      /\ accepted \in Seq(Entries) /\ n \in Nat /\ n <= writes /\ writes \in Nat
      /\ \A i \in DOMAIN doc.attempts : doc.attempts[i].id <= n
      /\ MaxWrites \in Nat
  BY DocumentAssumption DEF DocumentInv, DocumentTyped, AttemptsAreResults
<1>2. writes' = writes + 1 /\ writes < MaxWrites /\ UNCHANGED <<edition, day>>
  BY DEF Validate, Write
<1>3. accepted' = IF outcome'.kind = "saved" THEN Append(accepted, w) ELSE accepted
  BY DEF Validate
<1>4. IF Scorable(text) THEN Put(d, text)
      ELSE doc' = doc /\ outcome' = [kind |-> "unscored", text |-> text]
  BY DEF Validate, Outcome
<1>5. ASSUME doc' = doc, accepted' = accepted, PageWritesAreAccepted'
      PROVE  DocumentInv'
  <2>1. DocumentTyped'
    BY <1>1, <1>2, <1>5 DEF DocumentInv, DocumentTyped
  <2>2. AttemptsAreResults'
    BY <1>1, <1>2, <1>5 DEF AttemptsAreResults, Valid, Authoritative
  <2>3. ClaimsOfToday'
    BY <1>2, <1>5 DEF DocumentInv, ClaimsOfToday
  <2>4. XpIsEarned'
    BY <1>5 DEF DocumentInv, XpIsEarned
  <2> QED
    BY <1>5, <2>1, <2>2, <2>3, <2>4 DEF DocumentInv
<1>6. CASE ~Scorable(text)
  <2>1. doc' = doc /\ outcome'.kind = "unscored"
    BY <1>4, <1>6
  <2> QED
    BY <1>3, <1>5, <2>1 DEF PageWritesAreAccepted
<1>7. CASE Scorable(text)
  <2>1. text \in ScorableTexts
    BY <1>7 DEF ScorableTexts
  <2>2. /\ d \in Document /\ Valid(d) /\ (edition = 1 => Authoritative(d))
        /\ \A i \in DOMAIN d.attempts : d.attempts[i].id <= n + 1
        /\ d.xp = doc.xp + IF key \in ToSet(doc.claims) THEN 0 ELSE RecallReward(r.score)
        /\ IF key \in ToSet(doc.claims) \/ r.verdict = "needs-work"
           THEN d.claims = doc.claims ELSE d.claims = Claim(doc.claims, key)
    BY <1>2, <2>1, AddedAttempt
  <2>3. IsResult(r, card, text)
    <3> DEFINE reference == Catalogues[edition][card]
    <3>1. reference \in Seq(Vocabulary) /\ Concepts(reference) # <<>>
      BY <1>1, ReferenceFacts
    <3>2. r = Result(card, reference, text)
      OBVIOUS
    <3> HIDE DEF r, reference
    <3> QED
      BY <3>1, <3>2, ResultFacts
  <2>4. r.card = card /\ r.score \in 0 .. 100 /\ r.verdict = Verdict(r.score)
    BY <2>3 DEF IsResult
  <2>5. w \in Entries
    BY <1>1, <2>1 DEF Entries
  <2> HIDE DEF d
  <2>6. /\ doc' \in Document /\ Valid(doc)' /\ (edition = 1 => Authoritative(doc))'
        /\ PageWritesAreAccepted'
        /\ \/ doc' = d /\ outcome'.kind = "saved"
           \/ doc' = doc /\ outcome'.kind = "refused"
    BY <1>2, <1>4, <1>7, <2>2, PutKeeps
  <2>7. CASE doc' = doc /\ outcome'.kind = "refused"
    BY <1>3, <1>5, <2>6, <2>7
  <2>8. CASE doc' = d /\ outcome'.kind = "saved"
    <3> HIDE DEF r
    <3>1. accepted' = Append(accepted, w) /\ w.result = r /\ w.day = day
      BY <1>3, <2>8
    <3> HIDE DEF w
    <3>2. /\ accepted' \in Seq(Entries) /\ Len(accepted') = n + 1
          /\ DOMAIN accepted = 1 .. n /\ DOMAIN accepted' = 1 .. n + 1
          /\ accepted'[n + 1] = w /\ \A i \in 1 .. n : accepted'[i] = accepted[i]
      BY <1>1, <2>5, <3>1
    <3>3. DocumentTyped'
      BY <1>1, <1>2, <2>6, <3>2 DEF DocumentTyped
    <3>4. AttemptsAreResults'
      BY <2>2, <2>6, <2>8, <3>2 DEF AttemptsAreResults
    <3>5. ClaimsOfToday
      BY DEF DocumentInv
    <3>6. /\ InOrder(doc'.claims, day)
          /\ \A c \in CardIds : <<c, day>> \in ToSet(doc'.claims) <=>
                 \/ <<c, day>> \in ToSet(doc.claims)
                 \/ c = card /\ r.verdict # "needs-work"
      <4>1. InOrder(doc.claims, day)
        BY <3>5 DEF ClaimsOfToday, InOrder
      <4>2. CASE key \in ToSet(doc.claims) \/ r.verdict = "needs-work"
        <5>1. doc'.claims = doc.claims
          BY <2>2, <2>8, <4>2
        <5> QED
          BY <4>1, <4>2, <5>1
      <4>3. CASE ~(key \in ToSet(doc.claims) \/ r.verdict = "needs-work")
        <5>1. doc'.claims = Claim(doc.claims, key)
          BY <2>2, <2>8, <4>3
        <5>2. /\ doc.claims \in Seq(CardIds \X (0 .. MaxDay)) /\ Len(doc.claims) <= MaxClaims
              /\ IsInjective(doc.claims) /\ day \in 0 .. MaxDay
          BY <1>1 DEF Document, Valid
        <5>3. key \notin ToSet(doc.claims)
          BY <4>3
        <5>4. /\ InOrder(doc'.claims, day)
              /\ \A c \in CardIds : <<c, day>> \in ToSet(doc'.claims) <=>
                                        <<c, day>> \in ToSet(doc.claims) \/ c = card
          BY <4>1, <5>1, <5>2, <5>3, ClaimKeepsToday
        <5> QED
          BY <4>3, <5>4
      <4> QED
        BY <4>2, <4>3
    <3>7. ClaimsOfToday'
      <4>1. \A i \in DOMAIN accepted' : accepted'[i].day <= day
        BY <1>1, <3>1, <3>2, <3>5 DEF ClaimsOfToday
      <4>2. ASSUME NEW c \in CardIds
            PROVE  <<c, day>> \in ToSet(doc'.claims) <=>
                       \E i \in DOMAIN accepted' :
                           /\ accepted'[i].result.card = c /\ accepted'[i].day = day
                           /\ accepted'[i].result.verdict # "needs-work"
        <5> DEFINE Earns(v) == v.result.card = c /\ v.day = day /\ v.result.verdict # "needs-work"
        <5>1. <<c, day>> \in ToSet(doc.claims)
                <=> (\E i \in DOMAIN accepted : Earns(accepted[i]))
          BY <3>5 DEF ClaimsOfToday
        <5>2. Earns(w) <=> c = card /\ r.verdict # "needs-work"
          BY <2>4, <3>1
        <5> HIDE DEF Earns
        <5>3. (\E i \in DOMAIN accepted' : Earns(accepted'[i]))
                <=> (\E i \in DOMAIN accepted : Earns(accepted[i])) \/ Earns(w)
          <6>1. DOMAIN accepted' = DOMAIN accepted \cup {n + 1}
            BY <1>1, <3>2
          <6> QED
            BY <3>2, <6>1
        <5>4. <<c, day>> \in ToSet(doc'.claims)
                <=> (\E i \in DOMAIN accepted' : Earns(accepted'[i]))
          <6>1. <<c, day>> \in ToSet(doc'.claims) <=>
                    <<c, day>> \in ToSet(doc.claims) \/ Earns(w)
            BY <3>6, <5>2
          <6> QED
            BY ONLY <5>1, <5>3, <6>1
        <5> QED
          BY <5>4 DEF Earns
      <4> QED
        BY <1>2, <3>6, <4>1, <4>2 DEF ClaimsOfToday, InOrder
    <3>8. XpIsEarned'
      <4>1. key \in ToSet(doc.claims) <=> \E i \in Worth(accepted) : SameDay(accepted[i], w)
        BY <2>4, <3>1, <3>5 DEF ClaimsOfToday, Worth, SameDay
      <4>2. SumFunction(Rewards(accepted')) = SumFunction(Rewards(accepted)) +
                IF \/ w.result.verdict = "needs-work"
                   \/ \E i \in Worth(accepted) : SameDay(accepted[i], w)
                THEN 0 ELSE RewardOf(w)
        BY <1>1, <2>5, <3>1, RewardsAdd DEF w
      <4>3. doc.xp = SumFunction(Rewards(accepted)) /\ doc.xp \in Nat
        BY <1>1, XpIsSum DEF DocumentInv, Document
      <4>4. r.verdict # "needs-work" => RecallReward(r.score) = RewardOf(w)
        BY <2>4, <3>1, RewardByVerdict DEF RewardOf
      <4>5. r.verdict = "needs-work" => RecallReward(r.score) = 0
        <5>1. /\ RecallReward(r.score) \in Nat
              /\ RecallReward(r.score) > 0 <=> r.verdict # "needs-work"
          BY <2>4, RewardByVerdict
        <5> QED
          BY <5>1
      <4>6. doc'.xp = SumFunction(Rewards(accepted'))
        <5>1. doc'.xp = doc.xp + IF key \in ToSet(doc.claims) THEN 0 ELSE RecallReward(r.score)
          BY <2>2, <2>8
        <5> QED
          BY <3>1, <4>1, <4>2, <4>3, <4>4, <4>5, <5>1
      <4> QED
        BY <4>6, Zenon DEF XpIsEarned, Rewards, RewardOf, Rewarded, Worth, SameDay
    <3> QED
      BY <2>6, <3>3, <3>4, <3>7, <3>8 DEF DocumentInv
  <2> QED
    BY <2>6, <2>7, <2>8
<1> QED
  BY <1>6, <1>7

\* The first attempt was made with the catalogue and on the day it is: a new day, with
\* no claims and no attempts yet, and an edited catalogue.
LEMMA NewDayKeeps ==
    ASSUME DocumentInv, NewDay
    PROVE  DocumentInv'
<1>1. /\ DocumentTyped /\ AttemptsAreResults /\ ClaimsOfToday
      /\ PageWritesAreAccepted /\ XpIsEarned
  BY DEF DocumentInv
<1>2. /\ day < MaxDay /\ day' = day + 1 /\ day \in 1 .. MaxDay /\ MaxDay \in Nat
      /\ UNCHANGED <<doc, edition, outcome, writes, accepted>>
  BY <1>1, DocumentAssumption DEF NewDay, DocumentTyped
<1>3. DocumentTyped' /\ AttemptsAreResults' /\ PageWritesAreAccepted' /\ XpIsEarned'
  <2>1. DocumentTyped' /\ PageWritesAreAccepted'
    BY <1>1, <1>2 DEF DocumentTyped, PageWritesAreAccepted
  <2>2. Valid(doc)' /\ (edition = 1 => Authoritative(doc))'
    BY <1>1, <1>2 DEF AttemptsAreResults, Valid, Authoritative
  <2>3. AttemptsAreResults'
    BY <1>1, <1>2, <2>2 DEF AttemptsAreResults
  <2>4. XpIsEarned'
    BY <1>1, <1>2 DEF XpIsEarned
  <2> QED
    BY <2>1, <2>3, <2>4
<1>4. ClaimsOfToday'
  <2>1. /\ \A i \in DOMAIN doc.claims : doc.claims[i][2] \in Nat /\ doc.claims[i][2] <= day
        /\ \A i \in DOMAIN accepted : accepted[i].day \in Nat /\ accepted[i].day <= day
    <3>1. doc.claims \in Seq(CardIds \X (0 .. MaxDay)) /\ accepted \in Seq(Entries)
      BY <1>1 DEF DocumentTyped, Document
    <3>2. \A w \in Entries : w.day \in Nat
      BY DEF Entries
    <3>3. \A w \in CardIds \X (0 .. MaxDay) : w[2] \in Nat
      OBVIOUS
    <3> QED
      BY <1>1, <3>1, <3>2, <3>3 DEF ClaimsOfToday
  <2>2. /\ \A i \in DOMAIN doc.claims : doc.claims[i][2] <= day' /\ doc.claims[i][2] # day'
        /\ \A i \in DOMAIN accepted : accepted[i].day <= day' /\ accepted[i].day # day'
    BY <1>2, <2>1
  <2>3. \A c \in CardIds : <<c, day'>> \notin ToSet(doc.claims)
    BY <2>2 DEF ToSet
  <2> QED
    BY <1>1, <1>2, <2>2, <2>3 DEF ClaimsOfToday
<1> QED
  BY <1>3, <1>4 DEF DocumentInv

LEMMA EditCatalogueKeeps ==
    ASSUME DocumentInv, EditCatalogue
    PROVE  DocumentInv'
<1>1. /\ DocumentTyped /\ AttemptsAreResults /\ ClaimsOfToday
      /\ PageWritesAreAccepted /\ XpIsEarned
  BY DEF DocumentInv
<1>2. /\ edition' = edition + 1 /\ edition \in Nat /\ edition >= 1 /\ edition' \in DOMAIN Catalogues
      /\ UNCHANGED <<doc, day, outcome, writes, accepted>>
  BY <1>1, DocumentAssumption DEF EditCatalogue, DocumentTyped
<1>3. edition' > 1
  BY <1>2
<1>4. DocumentTyped' /\ PageWritesAreAccepted'
  BY <1>1, <1>2, <1>3 DEF DocumentTyped, PageWritesAreAccepted
<1>5. AttemptsAreResults'
  BY <1>1, <1>2, <1>3 DEF AttemptsAreResults, Valid
<1>6. ClaimsOfToday'
  BY <1>1, <1>2 DEF ClaimsOfToday
<1>7. XpIsEarned'
  BY <1>1, <1>2 DEF XpIsEarned
<1> QED
  BY <1>4, <1>5, <1>6, <1>7 DEF DocumentInv

LEMMA StutterKeeps ==
    ASSUME DocumentInv, UNCHANGED documentVars
    PROVE  DocumentInv'
<1>1. UNCHANGED <<doc, edition, day, outcome, writes, accepted>>
  BY DEF documentVars
<1>2. /\ DocumentTyped /\ AttemptsAreResults /\ ClaimsOfToday
      /\ PageWritesAreAccepted /\ XpIsEarned
  BY DEF DocumentInv
<1>3. DocumentTyped' /\ PageWritesAreAccepted'
  BY <1>1, <1>2 DEF DocumentTyped, PageWritesAreAccepted
<1>4. Valid(doc)' /\ (edition = 1 => Authoritative(doc))'
  BY <1>1, <1>2 DEF AttemptsAreResults, Valid, Authoritative
<1>5. AttemptsAreResults'
  BY <1>1, <1>2, <1>4 DEF AttemptsAreResults
<1>6. ClaimsOfToday'
  BY <1>1, <1>2 DEF ClaimsOfToday
<1>7. XpIsEarned'
  BY <1>1, <1>2 DEF XpIsEarned
<1> QED
  BY <1>3, <1>5, <1>6, <1>7 DEF DocumentInv

\* The claims of a document in use are one of each card.
LEMMA UsedClaims ==
    /\ Used.claims \in Seq(CardIds \X (0 .. MaxDay)) /\ Len(Used.claims) <= MaxClaims
    /\ IsInjective(Used.claims)
    /\ \A i \in DOMAIN Used.claims : Used.claims[i][2] = 0
<1> DEFINE S == {<<c, 0>> : c \in CardIds}
           claims == SetToSeq(S)
<1>1. IsFiniteSet(S) /\ Cardinality(S) <= MaxClaims
  <2> DEFINE f == [c \in CardIds |-> <<c, 0>>]
  <2>1. f \in Surjection(CardIds, S)
    BY DEF Surjection
  <2>2. IsFiniteSet(CardIds) /\ Cardinality(CardIds) <= MaxClaims /\ MaxClaims \in Nat
        /\ Cardinality(CardIds) \in Nat
    BY DocumentAssumption, FS_CardinalityType
  <2> HIDE DEF f
  <2>3. IsFiniteSet(S) /\ Cardinality(S) <= Cardinality(CardIds)
    BY ONLY <2>1, <2>2, FS_Surjection
  <2>4. Cardinality(S) \in Nat
    BY <2>3, FS_CardinalityType
  <2> QED
    BY <2>2, <2>3, <2>4
<1>2. Cardinality(S) \in Nat /\ MaxClaims \in Nat \ {0} /\ MaxDay \in Nat
  BY <1>1, FS_CardinalityType, DocumentAssumption
<1>3. claims \in [1 .. Cardinality(S) -> S] /\ IsInjective(claims)
  <2>1. \E f \in [1 .. Cardinality(S) -> S] : IsInjective(f)
    <3>1. ExistsBijection(1 .. Cardinality(S), S)
      BY <1>1, FS_CardinalityType
    <3> QED
      BY <3>1 DEF ExistsBijection, Bijection, Injection
  <2> HIDE DEF S
  <2> QED
    BY <2>1 DEF SetToSeq
<1>4. S \subseteq CardIds \X (0 .. MaxDay) /\ \A s \in S : s[2] = 0
  BY <1>2
<1>5. Used.claims = Newest(MaxClaims, claims)
  BY DEF Used, Blank
<1> HIDE DEF S, claims
<1>6. claims \in Seq(S) /\ Len(claims) = Cardinality(S)
  BY <1>2, <1>3
<1>7. Newest(MaxClaims, claims) = claims
  <2>1. Len(claims) - MaxClaims + 1 <= 1 /\ Len(claims) - MaxClaims + 1 \in Int
    BY <1>1, <1>2, <1>6
  <2> DEFINE k == Len(claims) - MaxClaims + 1
  <2>2. Max({1, k}) = 1
    <3>1. k \in Int /\ k <= 1
      BY <2>1
    <3> HIDE DEF k
    <3> QED
      BY <3>1 DEF Max
  <2>3. SubSeq(claims, 1, Len(claims)) = claims
    BY <1>6
  <2> QED
    BY <2>2, <2>3 DEF Newest
<1>8. claims \in Seq(CardIds \X (0 .. MaxDay))
  BY <1>4, <1>6
<1>9. \A i \in DOMAIN claims : claims[i][2] = 0
  BY <1>3, <1>4
<1> QED
  BY <1>1, <1>3, <1>5, <1>6, <1>7, <1>8, <1>9

LEMMA DocumentInitially == DocumentInit => DocumentInv
<1> SUFFICES ASSUME DocumentInit PROVE DocumentInv
  OBVIOUS
<1>1. /\ doc \in {Blank, Used} /\ edition = 1 /\ day = 1
      /\ outcome = [kind |-> "none", text |-> NoText] /\ writes = 0 /\ accepted = <<>>
  BY DEF DocumentInit
<1>2. MaxDay \in Nat \ {0} /\ MaxWrites \in Nat /\ MaxAttempts \in Nat \ {0}
      /\ MaxRecent \in Nat \ {0} /\ MaxClaims \in Nat \ {0}
      /\ Imported.id = 0 /\ Imported.result.rubric = 1
  BY DocumentAssumption
<1>3. /\ doc.drafts = [c \in CardIds |-> NoText] /\ doc.recent = <<>> /\ doc.xp = 0
      /\ doc.selected = 0 /\ doc.active = NoCard
      /\ doc.attempts = <<>> \/ doc.attempts = <<Imported>>
      /\ \E q, cs :
            doc = [drafts |-> [c \in CardIds |-> NoText], attempts |-> q, selected |-> 0,
                   active |-> NoCard, recent |-> <<>>, claims |-> cs, xp |-> 0]
  <2>1. CASE doc = Blank
    BY <2>1 DEF Blank
  <2>2. CASE doc = Used
    <3> DEFINE q == <<Imported>>
               cs == Newest(MaxClaims, SetToSeq({<<c, 0>> : c \in CardIds}))
    <3>1. Used = [Blank EXCEPT !.attempts = q, !.selected = 0, !.claims = cs]
      BY <1>2 DEF Used
    <3> HIDE DEF q, cs
    <3>2. doc = [drafts |-> [c \in CardIds |-> NoText], attempts |-> q, selected |-> 0,
                 active |-> NoCard, recent |-> <<>>, claims |-> cs, xp |-> 0]
      BY <2>2, <3>1 DEF Blank
    <3>3. doc.attempts = <<Imported>>
      BY <3>2 DEF q
    <3> QED
      BY <3>2, <3>3
  <2> QED
    BY <1>1, <2>1, <2>2
<1>4. /\ doc.claims \in Seq(CardIds \X (0 .. MaxDay)) /\ Len(doc.claims) <= MaxClaims
      /\ IsInjective(doc.claims)
      /\ \A i \in DOMAIN doc.claims : doc.claims[i][2] = 0
  <2>1. CASE doc = Blank
    BY <1>2, <2>1 DEF Blank, IsInjective
  <2>2. CASE doc = Used
    BY <2>2, UsedClaims
  <2> QED
    BY <1>1, <2>1, <2>2
<1>5. doc \in Document
  <2>1. doc.attempts \in Seq(Stored \cup {Imported})
    <3>1. CASE doc.attempts = <<>>
      BY <3>1
    <3>2. CASE doc.attempts = <<Imported>>
      BY <3>2
    <3> QED
      BY <1>3, <3>1, <3>2
  <2>2. doc.drafts \in [CardIds -> Texts \cup {NoText}] /\ doc.recent \in Seq(CardIds)
    BY <1>3
  <2> QED
    BY <1>3, <1>4, <2>1, <2>2 DEF Document
<1>6. DocumentTyped
  <2>1. 1 \in DOMAIN Catalogues
    BY DocumentAssumption
  <2> QED
    BY <1>1, <1>2, <1>5, <2>1 DEF DocumentTyped
<1>7. \A a \in ToSet(doc.attempts) : a = Imported
  BY <1>3 DEF ToSet
<1>8. Valid(doc)
  <2>1. \A c \in CardIds : doc.drafts[c].bytes <= 1200
    BY <1>3 DEF NoText
  <2>2. Len(doc.attempts) <= MaxAttempts
    <3>1. Len(doc.attempts) = 0 \/ Len(doc.attempts) = 1
      BY <1>3
    <3>2. 0 <= MaxAttempts /\ 1 <= MaxAttempts
      BY <1>2
    <3> QED
      BY <3>1, <3>2, Zenon
  <2>3. IsInjective([i \in DOMAIN doc.attempts |-> doc.attempts[i].id])
    BY <1>3 DEF IsInjective
  <2>4. Len(doc.recent) <= MaxRecent /\ IsInjective(doc.recent)
    BY <1>2, <1>3 DEF IsInjective
  <2> QED
    BY <1>4, <1>7, <2>1, <2>2, <2>3, <2>4, ImportedAssumption DEF Valid
<1>9. AttemptsAreResults
  <2>1. Authoritative(doc)
    BY <1>2, <1>7 DEF Authoritative
  <2>2. \A i \in DOMAIN doc.attempts : doc.attempts[i].id <= Len(accepted)
    BY <1>1, <1>2, <1>3
  <2> QED
    BY <1>8, <2>1, <2>2 DEF AttemptsAreResults
<1>10. ClaimsOfToday
  <2>1. \A c \in CardIds : <<c, day>> \notin ToSet(doc.claims)
    BY <1>1, <1>4 DEF ToSet
  <2> QED
    BY <1>1, <1>4, <2>1 DEF ClaimsOfToday
<1>11. PageWritesAreAccepted
  BY <1>1 DEF PageWritesAreAccepted
<1>12. XpIsEarned
  <2>1. DOMAIN Rewards(accepted) = {}
    BY <1>1 DEF Rewards, Rewarded, Worth
  <2>2. SumFunction(Rewards(accepted)) = 0
    BY <2>1, FS_EmptySet, SumIsNatural
  <2> QED
    BY <1>3, <2>2, XpIsSum
<1> QED
  BY <1>6, <1>9, <1>10, <1>11, <1>12 DEF DocumentInv

LEMMA DocumentStep == DocumentInv /\ [DocumentNext]_documentVars => DocumentInv'
<1> SUFFICES ASSUME DocumentInv, [DocumentNext]_documentVars PROVE DocumentInv'
  OBVIOUS
<1>1. ASSUME NEW card \in CardIds, NEW text \in Texts, Validate(card, text)
      PROVE  DocumentInv'
  BY <1>1, ValidateKeeps
<1>2. ASSUME NEW card \in CardIds, NEW text \in Texts, SaveDraft(card, text)
      PROVE  DocumentInv'
  BY <1>2, SaveDraftKeeps
<1>3. ASSUME NEW card \in CardIds, Shuffle(card) PROVE DocumentInv'
  BY <1>3, ShuffleKeeps
<1>4. CASE NewDay
  BY <1>4, NewDayKeeps
<1>5. CASE EditCatalogue
  BY <1>5, EditCatalogueKeeps
<1>6. CASE UNCHANGED documentVars
  BY <1>6, StutterKeeps
<1> QED
  BY <1>1, <1>2, <1>3, <1>4, <1>5, <1>6 DEF DocumentNext

\* The document, the attempts that were accepted and the day stay as the page relies
\* on (FlashcardsPage.tsx:204, :212; state_validator.cpp:121, :170).
THEOREM DocumentInvariant == DocumentSpec => []DocumentInv
<1> QED
  BY DocumentInitially, DocumentStep, PTL DEF DocumentSpec

\* The service accepts every write of the page, unless a text has characters of
\* several bytes or the catalogue was edited, whatever the limits on attempts, claims
\* and shuffled cards are.
THEOREM WritesAccepted == DocumentSpec => []PageWritesAreAccepted
<1>1. DocumentInv => PageWritesAreAccepted
  BY DEF DocumentInv
<1> QED
  BY <1>1, DocumentInvariant, PTL

\* XP is what the accepted attempts earned, each card once a day: the claims of today
\* are never among those that are cut off.
THEOREM XpEarned == DocumentSpec => []XpIsEarned
<1>1. DocumentInv => XpIsEarned
  BY DEF DocumentInv
<1> QED
  BY <1>1, DocumentInvariant, PTL

\* The score of an answer does not fall when the answer grows, for every vocabulary,
\* synonyms, topics and catalogue.
THEOREM MoreNeverLess == DocumentSpec => []MoreNeverScoresLess
<1>1. DocumentInv => MoreNeverScoresLess
  <2> SUFFICES ASSUME DocumentInv, NEW i \in DOMAIN accepted, NEW j \in DOMAIN accepted,
                      accepted[i].result.card = accepted[j].result.card,
                      accepted[i].edition = accepted[j].edition,
                      accepted[i].result.text.words <= accepted[j].result.text.words,
                      accepted[i].result.text.tokens \subseteq accepted[j].result.text.tokens,
                      accepted[i].result.text.punctuated => accepted[j].result.text.punctuated
               PROVE  accepted[i].result.score <= accepted[j].result.score
    BY DEF MoreNeverScoresLess
  <2>1. accepted \in Seq(Entries)
    BY DEF DocumentInv, DocumentTyped
  <2>2. ASSUME NEW w \in Entries
        PROVE  /\ w.edition \in DOMAIN Catalogues /\ w.result.card \in CardIds
               /\ w.result.text \in ScorableTexts
               /\ w.result = Result(w.result.card, Catalogues[w.edition][w.result.card],
                                    w.result.text)
    <3>1. PICK d \in 1 .. MaxDay, e \in DOMAIN Catalogues, card \in CardIds,
               text \in ScorableTexts :
              w = [day |-> d, edition |-> e, result |-> Result(card, Catalogues[e][card], text)]
      BY DEF Entries
    <3>2. Result(card, Catalogues[e][card], text).card = card
          /\ Result(card, Catalogues[e][card], text).text = text
      BY DEF Result
    <3> QED
      BY <3>1, <3>2
  <2> DEFINE v == accepted[i]
             w == accepted[j]
             card == v.result.card
             reference == Catalogues[v.edition][card]
             short == v.result.text
             long == w.result.text
  <2>3. v \in Entries /\ w \in Entries
    BY <2>1
  <2>4. /\ v.edition \in DOMAIN Catalogues /\ card \in CardIds
        /\ short \in Texts /\ long \in Texts
        /\ v.result = Result(card, reference, short) /\ w.result = Result(card, reference, long)
    <3>1. short \in ScorableTexts /\ long \in ScorableTexts
      BY <2>2, <2>3
    <3>2. short \in Texts /\ long \in Texts
      BY <3>1 DEF ScorableTexts
    <3> QED
      BY <2>2, <2>3, <3>2
  <2>5. reference \in Seq(Vocabulary) /\ Concepts(reference) # <<>>
    BY <2>4, ReferenceFacts
  <2>6. IsText(short) /\ IsText(long)
    BY <2>4, DocumentAssumption
  <2>7. Result(card, reference, short).score <= Result(card, reference, long).score
    <3> HIDE DEF card, reference
    <3> QED
      BY <2>5, <2>6, LongerScoresNoLess
  <2> QED
    BY <2>4, <2>7
<1> QED
  BY <1>1, DocumentInvariant, PTL

-----------------------------------------------------------------------------
(* The evidence that the pages show.                                        *)

\* The least of a set of naturals.
LEMMA MinFacts ==
    ASSUME NEW T, T \subseteq Nat, T # {}
    PROVE  Min(T) \in T /\ \A y \in T : Min(T) <= y
<1>1. \E x \in T : \A y \in T : x <= y
  BY LeastNatural
<1> QED
  BY <1>1 DEF Min

\* There are not more than 150 cards, and every branch has one of its own.
LEMMA CardFacts ==
    /\ IsFiniteSet(Cards) /\ Cardinality(Cards) <= 150 /\ Cards # {}
    /\ \A c \in Cards : BranchOf[c] \in Branch /\ c \in CardsOf(BranchOf[c])
    /\ \A b \in Branch :
          /\ CardsOf(b) \subseteq Cards /\ CardsOf(b) # {}
          /\ IsFiniteSet(CardsOf(b)) /\ Cardinality(CardsOf(b)) \in 1 .. 150
<1>1. /\ Catalogue \in Seq(Cards) /\ Len(Catalogue) <= 150 /\ Len(Catalogue) \in Nat
      /\ BranchOf \in [Cards -> Branch]
      /\ \A b \in Branch : \E c \in Cards : BranchOf[c] = b
      /\ Branch # {}
  <2>1. /\ Catalogue \in Seq(Cards) /\ BranchOf \in [Cards -> Branch]
        /\ \A b \in Branch : \E c \in Cards : BranchOf[c] = b
    BY EvidenceAssumption DEF Branch
  <2>2. Branches \in Seq(Branch) /\ Branches # <<>> /\ Len(Catalogue) <= 150
    BY WorkspaceAssumption
  <2>3. Branches[1] \in Branch
    BY <2>2
  <2> QED
    BY <2>1, <2>2, <2>3
<1>2. IsFiniteSet(Cards) /\ Cardinality(Cards) <= 150 /\ Cardinality(Cards) \in Nat
  <2> DEFINE N == Len(Catalogue)
  <2>1. Catalogue \in Surjection(1 .. N, Cards)
    <3>1. Catalogue \in [1 .. N -> Cards] /\ DOMAIN Catalogue = 1 .. N
      BY <1>1
    <3>2. \A c \in Cards : \E i \in 1 .. N : Catalogue[i] = c
      BY <3>1 DEF Cards, ToSet
    <3> QED
      BY <3>1, <3>2 DEF Surjection
  <2>2. IsFiniteSet(1 .. N) /\ Cardinality(1 .. N) = N
    <3>1. N \in Nat
      BY <1>1
    <3> HIDE DEF N
    <3>2. IsFiniteSet(1 .. N) /\ Cardinality(1 .. N) = IF 1 > N THEN 0 ELSE N - 1 + 1
      BY <3>1, FS_Interval
    <3> QED
      BY <3>1, <3>2
  <2>3. IsFiniteSet(Cards) /\ Cardinality(Cards) <= Cardinality(1 .. N)
    <3> HIDE DEF N
    <3> QED
      BY <2>1, <2>2, FS_Surjection
  <2> QED
    BY <1>1, <2>2, <2>3, FS_CardinalityType
<1>3. ASSUME NEW b \in Branch
      PROVE  /\ CardsOf(b) \subseteq Cards /\ CardsOf(b) # {}
             /\ IsFiniteSet(CardsOf(b)) /\ Cardinality(CardsOf(b)) \in 1 .. 150
  <2>1. CardsOf(b) \subseteq Cards /\ CardsOf(b) # {}
    BY <1>1 DEF CardsOf
  <2>2. IsFiniteSet(CardsOf(b)) /\ Cardinality(CardsOf(b)) <= Cardinality(Cards)
    BY <1>2, <2>1, FS_Subset
  <2>3. Cardinality(CardsOf(b)) \in Nat /\ Cardinality(CardsOf(b)) # 0
    BY <2>1, <2>2, FS_CardinalityType, FS_EmptySet
  <2> QED
    BY <1>2, <2>1, <2>2, <2>3
<1>4. \A c \in Cards : BranchOf[c] \in Branch /\ c \in CardsOf(BranchOf[c])
  BY <1>1 DEF CardsOf
<1>5. Cards # {}
  BY <1>1
<1> QED
  BY <1>2, <1>3, <1>4, <1>5

\* The first of some cards is one of them.
LEMMA FirstOfFacts ==
    ASSUME NEW cards, cards \subseteq Cards, cards # {}
    PROVE  FirstOf(cards) \in cards
<1> DEFINE I == {i \in DOMAIN Catalogue : Catalogue[i] \in cards}
<1>1. I \subseteq Nat /\ I # {}
  <2>1. Catalogue \in Seq(Cards)
    BY EvidenceAssumption
  <2> QED
    BY <2>1 DEF Cards, ToSet
<1>2. Min(I) \in I
  <2> HIDE DEF I
  <2> QED
    BY <1>1, MinFacts
<1> QED
  BY <1>2 DEF FirstOf

\* What is known of the latest attempts: they are of cards, with scores.
IsEvidence(latest) ==
    /\ DOMAIN latest \subseteq Cards
    /\ \A c \in DOMAIN latest : latest[c].score \in 0 .. 100

\* The latest attempt of a card is the first one listed.
LEMMA LatestFacts == AttemptsInv => IsEvidence(Latest)
<1> SUFFICES ASSUME AttemptsInv PROVE IsEvidence(Latest)
  OBVIOUS
<1> DEFINE Of(c) == {i \in DOMAIN attempts : attempts[i].card = c}
           Newest1(I) == {i \in I : \A j \in I : attempts[j].at <= attempts[i].at}
           D == {a.card : a \in ToSet(attempts)}
<1>1. /\ attempts \in Seq([card : Cards, score : Scores, at : Nat])
      /\ \A i \in DOMAIN attempts : attempts[i].at = Len(attempts) - i
      /\ DOMAIN attempts \subseteq Nat
      /\ \A i \in DOMAIN attempts : attempts[i].card \in Cards /\ attempts[i].score \in Scores
  <2> DEFINE A == [card : Cards, score : Scores, at : Nat]
  <2>1. attempts \in Seq(A) /\ \A i \in DOMAIN attempts : attempts[i].at = Len(attempts) - i
    BY DEF AttemptsInv
  <2>2. \A a \in A : a.card \in Cards /\ a.score \in Scores
    OBVIOUS
  <2> HIDE DEF A
  <2>3. DOMAIN attempts \subseteq Nat /\ \A i \in DOMAIN attempts : attempts[i] \in A
    BY <2>1
  <2> QED
    BY <2>1, <2>2, <2>3 DEF A
<1>2. Latest = [c \in D |-> attempts[Min(Newest1(Of(c)))]]
  BY DEF Latest, LatestAttempts
<1>3. D \subseteq Cards /\ \A c \in D : Of(c) # {}
  BY <1>1 DEF ToSet
<1>4. ASSUME NEW c \in D
      PROVE  Min(Newest1(Of(c))) \in DOMAIN attempts
  <2> DEFINE I == Of(c)
  <2>1. I \subseteq DOMAIN attempts /\ I # {} /\ DOMAIN attempts \subseteq Nat
    BY <1>1, <1>3
  <2> HIDE DEF I
  <2>2. PICK x \in I : \A y \in I : x <= y
    <3>1. I \subseteq Nat
      BY <2>1
    <3> QED
      BY <2>1, <3>1, LeastNatural
  <2>3. x \in Newest1(I)
    <3>1. \A j \in I : j \in Nat /\ x \in Nat /\ x <= j /\ attempts[j].at = Len(attempts) - j
          /\ attempts[x].at = Len(attempts) - x
      BY <1>1, <2>1, <2>2
    <3>2. Len(attempts) \in Nat
      BY <1>1
    <3>3. \A j \in I : attempts[j].at <= attempts[x].at
      BY <3>1, <3>2
    <3> QED
      BY <2>2, <3>3
  <2>4. Newest1(I) \subseteq Nat /\ Newest1(I) # {} /\ Newest1(I) \subseteq DOMAIN attempts
    BY <2>1, <2>3
  <2> HIDE DEF Newest1
  <2>5. Min(Newest1(I)) \in Newest1(I)
    BY <2>4, MinFacts
  <2> QED
    BY <2>4, <2>5 DEF I
<1>5. Scores \subseteq 0 .. 100
  BY WorkspaceAssumption
<1>6. \A i \in DOMAIN attempts : attempts[i].score \in Scores
  BY <1>1
<1> HIDE DEF D, Of, Newest1
<1> QED
  BY <1>2, <1>3, <1>4, <1>5, <1>6 DEF IsEvidence

\* The evidence of one branch.
LEMMA InBranchFacts ==
    ASSUME NEW latest, IsEvidence(latest), NEW b \in Branch
    PROVE  /\ DOMAIN InBranch(latest, b) = CardsOf(b) \cap DOMAIN latest
           /\ IsFiniteSet(DOMAIN InBranch(latest, b))
           /\ Cardinality(DOMAIN InBranch(latest, b)) \in 0 .. Cardinality(CardsOf(b))
           /\ Cardinality(DOMAIN InBranch(latest, b)) = Cardinality(CardsOf(b))
                <=> CardsOf(b) \subseteq DOMAIN latest
           /\ \A c \in DOMAIN InBranch(latest, b) :
                 InBranch(latest, b)[c] = latest[c] /\ latest[c].score \in 0 .. 100
<1> DEFINE D == DOMAIN InBranch(latest, b)
<1>1. D = CardsOf(b) \cap DOMAIN latest
  BY DEF InBranch, CardsOf, IsEvidence
<1>2. IsFiniteSet(CardsOf(b)) /\ Cardinality(CardsOf(b)) \in Nat
  BY CardFacts
<1>3. D \in SUBSET CardsOf(b)
  BY <1>1
<1>4. \A c \in D : InBranch(latest, b)[c] = latest[c] /\ latest[c].score \in 0 .. 100
  BY <1>1 DEF InBranch, IsEvidence
<1> HIDE DEF D
<1>5. /\ IsFiniteSet(D) /\ Cardinality(D) <= Cardinality(CardsOf(b))
      /\ Cardinality(CardsOf(b)) = Cardinality(D) => CardsOf(b) = D
  BY <1>2, <1>3, FS_Subset
<1>6. Cardinality(D) \in 0 .. Cardinality(CardsOf(b))
  BY <1>2, <1>5, FS_CardinalityType
<1>7. Cardinality(D) = Cardinality(CardsOf(b)) <=> CardsOf(b) \subseteq DOMAIN latest
  <2>1. CardsOf(b) \subseteq DOMAIN latest => D = CardsOf(b)
    BY <1>1
  <2>2. CardsOf(b) = D => CardsOf(b) \subseteq DOMAIN latest
    BY <1>1
  <2> QED
    BY <1>5, <2>1, <2>2
<1> QED
  BY <1>1, <1>4, <1>5, <1>6, <1>7 DEF D

LEMMA RoundedIsNatural ==
    ASSUME NEW a \in Nat, NEW b \in Nat, b > 0
    PROVE  Rounded(a, b) \in Nat
<1>1. 2 * a + b \in Nat /\ 2 * b \in Nat /\ 2 * b > 0
  OBVIOUS
<1> QED
  BY <1>1 DEF Rounded

\* The whole percentage of up to 150 is 100 of all of them only.
LEMMA PercentageOfAll ==
    ASSUME NEW n \in 1 .. 150, NEW k \in 0 .. n
    PROVE  /\ Rounded(100 * k, n) \in Nat
           /\ k = n => Rounded(100 * k, n) = 100
           /\ k < n => Rounded(100 * k, n) < 100
<1> DEFINE a == 2 * (100 * k) + n
           b == 2 * n
<1>1. a \in Nat /\ b \in Nat /\ b > 0 /\ (k = n => a = 201 * n) /\ (k < n => a < 100 * b)
  OBVIOUS
<1>2. k < n => a \div b < 100
  <2> HIDE DEF a, b
  <2> QED
    BY <1>1
<1>3. k = n => a \div b = 100
  <2>1. (201 * n) \div (2 * n) = 100
    OBVIOUS
  <2> QED
    BY <1>1, <2>1
<1>4. a \div b \in Nat
  <2> HIDE DEF a, b
  <2> QED
    BY <1>1
<1> QED
  BY <1>2, <1>3, <1>4 DEF Rounded

\* The coverage of a branch is 100 when all its cards have evidence, and less while one
\* has none.
LEMMA CoverageFacts ==
    ASSUME NEW latest, IsEvidence(latest), NEW b \in Branch
    PROVE  /\ Coverage(latest, b) \in Nat
           /\ CardsOf(b) \subseteq DOMAIN latest => Coverage(latest, b) = 100
           /\ ~(CardsOf(b) \subseteq DOMAIN latest) => Coverage(latest, b) < 100
<1> DEFINE n == Cardinality(CardsOf(b))
           k == Cardinality(DOMAIN InBranch(latest, b))
<1>1. n \in 1 .. 150 /\ k \in 0 .. n /\ (k = n <=> CardsOf(b) \subseteq DOMAIN latest)
  BY CardFacts, InBranchFacts
<1>3. n \in Nat /\ k \in Nat /\ (k = n \/ k < n)
  BY <1>1
<1>2. Coverage(latest, b) = Rounded(100 * k, n)
  BY DEF Coverage
<1> HIDE DEF n, k
<1>4. /\ Rounded(100 * k, n) \in Nat
      /\ k = n => Rounded(100 * k, n) = 100
      /\ k < n => Rounded(100 * k, n) < 100
  BY <1>1, PercentageOfAll
<1> QED
  BY <1>1, <1>2, <1>3, <1>4

LEMMA AverageIsNatural ==
    ASSUME NEW latest, IsEvidence(latest), NEW b \in Branch
    PROVE  Average(InBranch(latest, b)) \in Nat
<1> DEFINE own == InBranch(latest, b)
           f == [c \in DOMAIN own |-> own[c].score]
<1>1. IsFiniteSet(DOMAIN own) /\ \A c \in DOMAIN own : own[c].score \in Nat
  <2>1. /\ IsFiniteSet(DOMAIN own)
        /\ \A c \in DOMAIN own : own[c] = latest[c] /\ latest[c].score \in 0 .. 100
    BY InBranchFacts
  <2>2. 0 .. 100 \subseteq Nat
    OBVIOUS
  <2> HIDE DEF own
  <2> QED
    BY <2>1, <2>2
<1> HIDE DEF own
<1>2. IsFiniteSet(DOMAIN f) /\ \A c \in DOMAIN f : f[c] \in Nat
  BY <1>1
<1>3. SumFunction(f) \in Nat
  <2> HIDE DEF f
  <2> QED
    BY <1>2, SumIsNatural
<1>4. Cardinality(DOMAIN own) \in Nat /\ (DOMAIN own # {} => Cardinality(DOMAIN own) > 0)
  BY <1>1, FS_CardinalityType, FS_EmptySet
<1>5. DOMAIN own # {} => Rounded(SumFunction(f), Cardinality(DOMAIN own)) \in Nat
  <2> HIDE DEF f
  <2> QED
    BY <1>3, <1>4, RoundedIsNatural
<1>6. Average(own) \in Nat
  BY <1>5 DEF Average
<1> QED
  BY <1>6 DEF own

\* The coverage and the average of each branch are naturals.
IsStats(stats) ==
    /\ DOMAIN stats = DOMAIN Branches
    /\ \A i \in DOMAIN stats : stats[i] \in Nat \X Nat

LEMMA StatsFacts ==
    ASSUME NEW latest, IsEvidence(latest)
    PROVE  /\ IsStats(BranchStats(latest))
           /\ \A i \in DOMAIN Branches :
                 Branches[i] \in Branch
                 /\ BranchStats(latest)[i][1] = Coverage(latest, Branches[i])
<1>1. ASSUME NEW i \in DOMAIN Branches
      PROVE  /\ Branches[i] \in Branch
             /\ BranchStats(latest)[i] =
                    <<Coverage(latest, Branches[i]), Average(InBranch(latest, Branches[i]))>>
             /\ BranchStats(latest)[i] \in Nat \X Nat
             /\ BranchStats(latest)[i][1] = Coverage(latest, Branches[i])
  <2>1. Branches[i] \in Branch
    BY DEF Branch, ToSet
  <2>2. BranchStats(latest)[i] =
            <<Coverage(latest, Branches[i]), Average(InBranch(latest, Branches[i]))>>
    BY DEF BranchStats
  <2>3. Coverage(latest, Branches[i]) \in Nat /\ Average(InBranch(latest, Branches[i])) \in Nat
    BY <2>1, CoverageFacts, AverageIsNatural
  <2> QED
    BY <2>1, <2>2, <2>3
<1>2. DOMAIN BranchStats(latest) = DOMAIN Branches
  BY DEF BranchStats
<1> QED
  BY <1>1, <1>2 DEF IsStats

\* One branch comes before all the others.
LEMMA WeakestExists ==
    ASSUME NEW stats, IsStats(stats)
    PROVE  \E i \in DOMAIN stats : \A j \in DOMAIN stats \ {i} : Weaker(stats, i, j)
<1> DEFINE D == DOMAIN stats
           Firsts == {stats[i][1] : i \in D}
<1>1. D \subseteq Nat /\ D # {}
  <2>1. Branches \in Seq(Branch) /\ Branches # <<>>
    BY WorkspaceAssumption
  <2> QED
    BY <2>1 DEF IsStats
<1>2. \A i \in D : stats[i] \in Nat \X Nat
  BY DEF IsStats
<1> HIDE DEF D
<1>3. PICK c \in Firsts : \A y \in Firsts : c <= y
  <2>1. Firsts \subseteq Nat /\ Firsts # {}
    BY <1>1, <1>2
  <2> HIDE DEF Firsts
  <2> QED
    BY <2>1, LeastNatural
<1> DEFINE Least == {i \in D : stats[i][1] = c}
           Seconds == {stats[i][2] : i \in Least}
<1>4. PICK a \in Seconds : \A y \in Seconds : a <= y
  <2>1. Seconds \subseteq Nat /\ Seconds # {}
    BY <1>2, <1>3
  <2> HIDE DEF Seconds
  <2> QED
    BY <2>1, LeastNatural
<1> DEFINE Equal == {i \in Least : stats[i][2] = a}
<1>5. PICK i \in Equal : \A j \in Equal : i <= j
  <2>1. Equal \subseteq Nat /\ Equal # {}
    BY <1>1, <1>4
  <2> HIDE DEF Equal
  <2> QED
    BY <2>1, LeastNatural
<1>6. i \in D /\ stats[i] = <<c, a>> /\ c \in Nat /\ a \in Nat /\ i \in Nat
  BY <1>1, <1>2, <1>5
<1>7. ASSUME NEW j \in D, j # i
      PROVE  Weaker(stats, i, j)
  <2>1. PICK d \in Nat, b \in Nat : stats[j] = <<d, b>>
    BY <1>2
  <2>2. c <= d
    BY <1>3, <2>1
  <2>3. d = c => a <= b
    BY <1>4, <2>1
  <2>4. d = c /\ b = a => i <= j
    BY <1>5, <2>1
  <2>5. j \in Nat
    BY <1>1
  <2>6. \/ c < d
        \/ c = d /\ a < b
        \/ <<c, a>> = <<d, b>> /\ i < j
    BY <1>6, <1>7, <2>1, <2>2, <2>3, <2>4, <2>5
  <2> QED
    BY <1>6, <2>1, <2>6 DEF Weaker
<1>8. i \in D /\ \A j \in D \ {i} : Weaker(stats, i, j)
  BY <1>6, <1>7
<1> QED
  BY <1>8 DEF D

\* The weakest branch is a branch, and none is less covered.
LEMMA WeakestFacts ==
    ASSUME NEW latest, IsEvidence(latest)
    PROVE  /\ WeakestBranch(latest) \in Branch
           /\ \A b \in Branch : Coverage(latest, WeakestBranch(latest)) <= Coverage(latest, b)
<1> DEFINE stats == BranchStats(latest)
           i == CHOOSE i \in DOMAIN stats :
                    \A j \in DOMAIN stats \ {i} : Weaker(stats, i, j)
<1>1. IsStats(stats)
  BY StatsFacts
<1>2. \A j \in DOMAIN Branches :
          Branches[j] \in Branch /\ stats[j][1] = Coverage(latest, Branches[j])
  BY StatsFacts
<1>3. WeakestBranch(latest) = Branches[i]
  BY DEF WeakestBranch
<1> HIDE DEF stats
<1>4. i \in DOMAIN stats /\ \A j \in DOMAIN stats \ {i} : Weaker(stats, i, j)
  BY <1>1, WeakestExists
<1> HIDE DEF i
<1>5. i \in DOMAIN Branches /\ DOMAIN stats = DOMAIN Branches
  BY <1>1, <1>4 DEF IsStats
<1>6. ASSUME NEW j \in DOMAIN Branches
      PROVE  stats[i][1] <= stats[j][1]
  <2>1. stats[i] \in Nat \X Nat /\ stats[j] \in Nat \X Nat
    BY <1>1, <1>5 DEF IsStats
  <2>2. i = j \/ Weaker(stats, i, j)
    BY <1>4, <1>5
  <2> QED
    BY <2>1, <2>2 DEF Weaker
<1>7. ASSUME NEW b \in Branch
      PROVE  Coverage(latest, Branches[i]) <= Coverage(latest, b)
  <2>1. PICK j \in DOMAIN Branches : b = Branches[j]
    BY DEF Branch, ToSet
  <2> QED
    BY <1>2, <1>5, <1>6, <2>1
<1> QED
  BY <1>2, <1>3, <1>5, <1>7

\* The next of some cards is one of them, without evidence while there is such a one.
LEMMA NextOfFacts ==
    ASSUME NEW latest, IsEvidence(latest), NEW cards, cards \subseteq Cards, cards # {}
    PROVE  /\ NextOf(latest, cards) \in cards
           /\ ~(cards \subseteq DOMAIN latest) => NextOf(latest, cards) \notin DOMAIN latest
<1> DEFINE Score(c) == IF c \in DOMAIN latest THEN latest[c].score ELSE -1
           T == {Score(c) + 1 : c \in cards}
           best == {c \in cards : \A d \in cards : Score(c) <= Score(d)}
<1>1. \A c \in cards : /\ Score(c) \in Int /\ Score(c) + 1 \in Nat
                       /\ c \in DOMAIN latest <=> Score(c) >= 0
  <2>1. \A c \in DOMAIN latest : latest[c].score \in Nat
    <3>1. 0 .. 100 \subseteq Nat
      OBVIOUS
    <3> QED
      BY <3>1 DEF IsEvidence
  <2> QED
    BY <2>1
<1>2. NextOf(latest, cards) = FirstOf(best)
  BY DEF NextOf
<1> HIDE DEF Score
<1>3. PICK x \in T : \A y \in T : x <= y
  <2>1. T \subseteq Nat /\ T # {}
    BY <1>1
  <2> HIDE DEF T
  <2> QED
    BY <2>1, LeastNatural
<1>4. best # {} /\ best \subseteq Cards /\ best \subseteq cards
  <2>1. PICK c \in cards : x = Score(c) + 1
    BY <1>3
  <2>2. \A d \in cards : Score(c) <= Score(d)
    BY <1>1, <1>3, <2>1
  <2> QED
    BY <2>1, <2>2
<1>5. FirstOf(best) \in best
  <2> HIDE DEF best
  <2> QED
    BY <1>4, FirstOfFacts
<1>6. ASSUME NEW d \in cards, d \notin DOMAIN latest
      PROVE  FirstOf(best) \notin DOMAIN latest
  <2>1. Score(FirstOf(best)) <= Score(d) /\ ~(Score(d) >= 0)
    BY <1>1, <1>5, <1>6
  <2> HIDE DEF best
  <2>2. FirstOf(best) \in cards
    BY <1>4, <1>5
  <2> QED
    BY <1>1, <2>1, <2>2
<1> QED
  BY <1>2, <1>4, <1>5, <1>6

\* The mission is a card of the weakest branch.
LEMMA MissionFacts ==
    ASSUME IsEvidence(Latest)
    PROVE  /\ Mission = Deck(WeakestBranch(Latest), Mission.item)
           /\ Mission.branch = WeakestBranch(Latest) /\ Mission.branch \in Branch
           /\ Mission.item \in CardsOf(Mission.branch)
           /\ ~(CardsOf(Mission.branch) \subseteq DOMAIN Latest) => Mission.item \notin DOMAIN Latest
<1> DEFINE w == WeakestBranch(Latest)
           c == NextOf(Latest, CardsOf(w))
<1>1. w \in Branch
  BY WeakestFacts
<1>2. Mission = Deck(w, c) /\ Mission.item = c /\ Mission.branch = w
  BY DEF Mission, NextCard, Deck, At
<1> HIDE DEF w
<1>3. CardsOf(w) \subseteq Cards /\ CardsOf(w) # {}
  BY <1>1, CardFacts
<1>4. c \in CardsOf(w) /\ (~(CardsOf(w) \subseteq DOMAIN Latest) => c \notin DOMAIN Latest)
  BY <1>3, NextOfFacts
<1> HIDE DEF c
<1> QED
  BY <1>1, <1>2, <1>4 DEF w

LEMMA GapsShow == AttemptsInv => GapsAreNotHidden
<1> SUFFICES ASSUME AttemptsInv, NEW c \in Cards, c \notin DOMAIN Latest
             PROVE  Mission.item \notin DOMAIN Latest
                    /\ BranchStatus(Latest, BranchOf[c]) # "Mastered"
  BY DEF GapsAreNotHidden
<1>1. IsEvidence(Latest)
  BY LatestFacts
<1>2. BranchOf[c] \in Branch /\ c \in CardsOf(BranchOf[c])
  BY CardFacts
<1>3. Coverage(Latest, BranchOf[c]) < 100 /\ Coverage(Latest, BranchOf[c]) \in Nat
  <2> DEFINE b == BranchOf[c]
  <2>1. b \in Branch /\ ~(CardsOf(b) \subseteq DOMAIN Latest)
    BY <1>2
  <2> HIDE DEF b
  <2>2. Coverage(Latest, b) < 100 /\ Coverage(Latest, b) \in Nat
    BY <1>1, <2>1, CoverageFacts
  <2> QED
    BY <2>2 DEF b
<1>4. BranchStatus(Latest, BranchOf[c]) # "Mastered"
  BY <1>3 DEF BranchStatus
<1>5. Mission.item \notin DOMAIN Latest
  <2> DEFINE w == WeakestBranch(Latest)
  <2>1. w \in Branch /\ Coverage(Latest, w) <= Coverage(Latest, BranchOf[c])
    BY <1>1, <1>2, WeakestFacts
  <2>2. /\ Coverage(Latest, w) \in Nat
        /\ CardsOf(w) \subseteq DOMAIN Latest => Coverage(Latest, w) = 100
    <3> HIDE DEF w
    <3> QED
      BY <1>1, <2>1, CoverageFacts
  <2>3. ~(CardsOf(w) \subseteq DOMAIN Latest)
    BY <1>3, <2>1, <2>2
  <2>4. Mission.branch = w
    BY <1>1, MissionFacts
  <2> HIDE DEF w
  <2> QED
    BY <1>1, <2>3, <2>4, MissionFacts
<1> QED
  BY <1>4, <1>5

-----------------------------------------------------------------------------
(* Links and commands.                                                      *)

\* Addresses of pages of the application that open what they name.
Linkable ==
    {loc \in Location :
        /\ loc.page = "guide" => loc.branch \in Branch
        /\ loc.page = "deck" /\ loc.item # Nil => DeckCard(loc) = loc.item}

\* The deck shows a card, and of a branch's deck the card that is asked for.
LEMMA DeckCardFacts ==
    /\ \A loc : DeckCard(loc) \in Cards
    /\ \A b \in Branch : \A c \in CardsOf(b) : DeckCard(Deck(b, c)) = c
<1>1. ASSUME NEW loc PROVE DeckCard(loc) \in Cards
  <2> DEFINE shown == IF loc.branch \in Branch THEN CardsOf(loc.branch) ELSE Cards
  <2>1. shown \subseteq Cards /\ shown # {}
    BY CardFacts
  <2>2. DeckCard(loc) = IF loc.item \in shown THEN loc.item ELSE FirstOf(shown)
    BY DEF DeckCard
  <2> HIDE DEF shown
  <2>3. FirstOf(shown) \in shown
    BY <2>1, FirstOfFacts
  <2> QED
    BY <2>1, <2>2, <2>3
<1>2. ASSUME NEW b \in Branch, NEW c \in CardsOf(b) PROVE DeckCard(Deck(b, c)) = c
  BY DEF DeckCard, Deck, At
<1> QED
  BY <1>1, <1>2

LEMMA LinkableFacts ==
    /\ \A p \in Pages \ {"guide"} : Page(p) \in Linkable
    /\ \A b \in Branch : Guide(b) \in Linkable /\ Deck(b, Nil) \in Linkable
                         /\ At("guide", b, "runbook") \in Linkable
    /\ \A b \in Branch : \A c \in CardsOf(b) : Deck(b, c) \in Linkable
    /\ \A s \in ToSet(Scenarios) : At("simulate", Nil, s) \in Linkable
<1>1. ASSUME NEW p \in Pages \ {"guide"} PROVE Page(p) \in Linkable
  <2>1. Page(p) \in Location
    BY DEF Page, At, Location
  <2> QED
    BY <2>1 DEF Page, At, Linkable
<1>2. ASSUME NEW b \in Branch
      PROVE  Guide(b) \in Linkable /\ Deck(b, Nil) \in Linkable
             /\ At("guide", b, "runbook") \in Linkable
  <2>1. Guide(b) \in Location /\ Deck(b, Nil) \in Location /\ At("guide", b, "runbook") \in Location
    BY DEF Guide, Deck, At, Location, Pages
  <2> QED
    BY <2>1 DEF Guide, Deck, At, Linkable
<1>3. ASSUME NEW b \in Branch, NEW c \in CardsOf(b) PROVE Deck(b, c) \in Linkable
  <2>1. c \in Cards
    BY CardFacts
  <2>2. Deck(b, c) \in Location /\ Deck(b, c).page = "deck" /\ Deck(b, c).item = c
    BY <2>1 DEF Deck, At, Location, Pages
  <2> QED
    BY <2>2, DeckCardFacts DEF Linkable
<1>4. ASSUME NEW s \in ToSet(Scenarios) PROVE At("simulate", Nil, s) \in Linkable
  <2>1. At("simulate", Nil, s) \in Location
    BY DEF At, Location, Pages
  <2> QED
    BY <2>1 DEF At, Linkable
<1> QED
  BY <1>1, <1>2, <1>3, <1>4

\* The commands are such addresses.
LEMMA CommandFacts ==
    /\ Destinations \in Seq(Linkable) /\ GuideCommands \in Seq(Linkable)
    /\ WorkspaceCommands \in Seq(Linkable)
<1>1. Destinations \in Seq(Linkable)
  <2>1. \A p \in Pages \ {"guide"} : Page(p) \in Linkable
    BY LinkableFacts
  <2>2. /\ Page("today") \in Linkable /\ Page("learn") \in Linkable /\ Page("deck") \in Linkable
        /\ Page("simulate") \in Linkable /\ Page("profile") \in Linkable
        /\ Page("lab") \in Linkable
    BY <2>1 DEF Pages
  <2> QED
    BY <2>2 DEF Destinations
<1>2. GuideCommands \in Seq(Linkable)
  <2>1. Branches \in Seq(Branch)
    BY WorkspaceAssumption
  <2>2. \A i \in DOMAIN Branches : Guide(Branches[i]) \in Linkable
    BY <2>1, LinkableFacts
  <2> QED
    BY <2>1, <2>2 DEF GuideCommands
<1>3. RecallCommands \in Seq(Linkable)
  <2>1. Catalogue \in Seq(Cards)
    BY EvidenceAssumption
  <2>2. ASSUME NEW i \in DOMAIN Catalogue
        PROVE  Deck(BranchOf[Catalogue[i]], Catalogue[i]) \in Linkable
    <3>1. Catalogue[i] \in Cards
      BY <2>1
    <3>2. BranchOf[Catalogue[i]] \in Branch /\ Catalogue[i] \in CardsOf(BranchOf[Catalogue[i]])
      BY <3>1, CardFacts
    <3> QED
      BY <3>2, LinkableFacts
  <2> QED
    BY <2>1, <2>2 DEF RecallCommands
<1>4. ScenarioCommands \in Seq(Linkable)
  <2>1. Scenarios \in Seq(ToSet(Scenarios))
    BY WorkspaceAssumption
  <2>2. \A i \in DOMAIN Scenarios : At("simulate", Nil, Scenarios[i]) \in Linkable
    BY <2>1, LinkableFacts
  <2> QED
    BY <2>1, <2>2 DEF ScenarioCommands
<1>5. WorkspaceCommands \in Seq(Linkable)
  BY <1>1, <1>2, <1>3, <1>4 DEF WorkspaceCommands
<1> QED
  BY <1>1, <1>2, <1>5

\* A strict order in which any two elements of S are comparable.
StrictOrder(lt, S) ==
    /\ \A x \in S : <<x, x>> \notin lt
    /\ \A x, y, z \in S : <<x, y>> \in lt /\ <<y, z>> \in lt => <<x, z>> \in lt
    /\ \A x, y \in S : x = y \/ <<x, y>> \in lt \/ <<y, x>> \in lt

Below(lt, S, x) == {y \in S : <<y, x>> \in lt}

\* In such an order of a finite set every place is taken.
LEMMA EveryPlaceIsTaken ==
    ASSUME NEW S, IsFiniteSet(S), NEW lt, StrictOrder(lt, S),
           NEW k \in 1 .. Cardinality(S)
    PROVE  \E x \in S : Cardinality(Below(lt, S, x)) + 1 = k
<1> DEFINE place == [x \in S |-> Cardinality(Below(lt, S, x)) + 1]
           N == Cardinality(S)
<1>1. N \in Nat
  BY FS_CardinalityType
<1>2. ASSUME NEW x \in S
      PROVE  /\ IsFiniteSet(Below(lt, S, x)) /\ Cardinality(Below(lt, S, x)) \in Nat
             /\ Cardinality(Below(lt, S, x)) < N
  <2>1. Below(lt, S, x) \in SUBSET S /\ x \notin Below(lt, S, x)
    BY DEF Below, StrictOrder
  <2>2. /\ IsFiniteSet(Below(lt, S, x)) /\ Cardinality(Below(lt, S, x)) <= N
        /\ N = Cardinality(Below(lt, S, x)) => S = Below(lt, S, x)
    BY <2>1, FS_Subset
  <2>3. Cardinality(Below(lt, S, x)) \in Nat
    BY <2>2, FS_CardinalityType
  <2>4. N # Cardinality(Below(lt, S, x))
    BY <2>1, <2>2
  <2> HIDE DEF N
  <2> QED
    BY <1>1, <2>2, <2>3, <2>4
<1>3. ASSUME NEW x \in S, NEW y \in S, <<x, y>> \in lt
      PROVE  Cardinality(Below(lt, S, x)) < Cardinality(Below(lt, S, y))
  <2>1. Below(lt, S, x) \in SUBSET Below(lt, S, y) /\ x \notin Below(lt, S, x)
        /\ x \in Below(lt, S, y)
    BY <1>3 DEF Below, StrictOrder
  <2>2. /\ Cardinality(Below(lt, S, x)) <= Cardinality(Below(lt, S, y))
        /\ Cardinality(Below(lt, S, y)) = Cardinality(Below(lt, S, x))
             => Below(lt, S, y) = Below(lt, S, x)
    BY <1>2, <2>1, FS_Subset
  <2>3. Cardinality(Below(lt, S, y)) # Cardinality(Below(lt, S, x))
    BY <2>1, <2>2
  <2> QED
    BY <1>2, <2>2, <2>3
<1>4. place \in [S -> 1 .. N]
  <2> HIDE DEF N
  <2>1. \A x \in S : Cardinality(Below(lt, S, x)) + 1 \in 1 .. N
    BY <1>1, <1>2
  <2> QED
    BY <2>1
<1>5. IsInjective(place)
  <2> SUFFICES ASSUME NEW x \in S, NEW y \in S, place[x] = place[y] PROVE x = y
    BY DEF IsInjective
  <2>1. Cardinality(Below(lt, S, x)) = Cardinality(Below(lt, S, y))
    BY <1>2
  <2>2. <<x, y>> \notin lt /\ <<y, x>> \notin lt
    BY <1>2, <1>3, <2>1
  <2> QED
    BY <2>2 DEF StrictOrder
<1>6. place \in Injection(S, 1 .. N)
  BY <1>4, <1>5 DEF Injection
<1>7. IsFiniteSet(1 .. N) /\ Cardinality(1 .. N) = N
  <2> HIDE DEF N
  <2>1. IsFiniteSet(1 .. N) /\ Cardinality(1 .. N) = IF 1 > N THEN 0 ELSE N - 1 + 1
    BY <1>1, FS_Interval
  <2> QED
    BY <1>1, <2>1
<1>8. place \in Surjection(S, 1 .. N)
  <2> HIDE DEF place
  <2>1. Cardinality(S) = Cardinality(1 .. N) <=> place \in Surjection(S, 1 .. N)
    BY <1>6, <1>7, FS_Injection
  <2> QED
    BY <1>7, <2>1
<1>9. \E x \in S : place[x] = k
  <2> HIDE DEF place
  <2> QED
    BY <1>8 DEF Surjection
<1> QED
  BY <1>9

\* So every place among what was found is one command's, and the list of results is a
\* list of commands.
LEMMA PlaceFacts ==
    ASSUME NEW query \in SearchTexts
    PROVE  /\ IsFiniteSet(Found(query)) /\ Found(query) \subseteq Linkable
           /\ \A k \in 1 .. Cardinality(Found(query)) :
                 \E c \in Found(query) : Place(query, c) = k
<1> DEFINE S == Found(query)
           lt == {p \in S \X S : Before(query, p[1], p[2])}
           Score(c) == CommandScore(Match[query][c], c)
           W == ToSet(WorkspaceCommands)
<1>1. IsFiniteSet(W) /\ W \subseteq Linkable
  <2> DEFINE N == Len(WorkspaceCommands)
  <2>1. WorkspaceCommands \in [1 .. N -> W] /\ N \in Nat
        /\ \A c \in W : \E i \in 1 .. N : WorkspaceCommands[i] = c
    BY CommandFacts DEF ToSet
  <2>2. W \subseteq Linkable
    BY CommandFacts DEF ToSet
  <2> HIDE DEF N, W
  <2>3. WorkspaceCommands \in Surjection(1 .. N, W)
    BY <2>1 DEF Surjection
  <2>4. IsFiniteSet(1 .. N)
    BY <2>1, FS_Interval
  <2>5. IsFiniteSet(W)
    BY <2>3, <2>4, FS_Surjection
  <2> QED
    BY <2>2, <2>5
<1>2. S \subseteq W
  BY DEF Found
<1>3. IsFiniteSet(S) /\ S \subseteq Linkable
  <2> HIDE DEF S, W
  <2>1. S \in SUBSET W
    BY <1>2
  <2>2. IsFiniteSet(S)
    BY <1>1, <2>1, FS_Subset
  <2> QED
    BY <1>1, <1>2, <2>2
<1>4. \A c \in S : Score(c) \in Nat /\ LabelRank[c] \in Nat
  <2>1. Match \in [SearchTexts -> [W -> MatchKinds]] /\ LabelRank \in [W -> Nat]
    BY WorkspaceAssumption
  <2>2. \A c \in S : Match[query][c] \in MatchKinds \ {"none"}
    BY <1>2, <2>1 DEF Found
  <2>3. ASSUME NEW c \in S PROVE Score(c) \in Nat
    <3>1. Match[query][c] \in {"label", "start", "part", "words", "meta", "text"}
      BY <2>2 DEF MatchKinds
    <3> QED
      BY <3>1 DEF CommandScore
  <2> HIDE DEF Score, S, W
  <2> QED
    BY <1>2, <2>1, <2>3
<1>5. \A c, d \in S : LabelRank[c] = LabelRank[d] => c = d
  <2>1. LabelRank \in [W -> Nat] /\ IsInjective(LabelRank)
    BY WorkspaceAssumption
  <2> HIDE DEF S, W
  <2> QED
    BY <1>2, <2>1 DEF IsInjective
<1>6. \A c, d \in S : <<c, d>> \in lt <=>
          Score(c) < Score(d) \/ (Score(c) = Score(d) /\ LabelRank[c] < LabelRank[d])
  BY DEF Before
<1> HIDE DEF lt, Score
<1>7. StrictOrder(lt, S)
  <2> HIDE DEF S
  <2>1. \A x \in S : <<x, x>> \notin lt
    BY <1>4, <1>6
  <2>2. \A x, y, z \in S : <<x, y>> \in lt /\ <<y, z>> \in lt => <<x, z>> \in lt
    BY <1>4, <1>6
  <2>3. ASSUME NEW x \in S, NEW y \in S, x # y
        PROVE  <<x, y>> \in lt \/ <<y, x>> \in lt
    <3>1. /\ Score(x) \in Nat /\ LabelRank[x] \in Nat /\ Score(y) \in Nat /\ LabelRank[y] \in Nat
          /\ LabelRank[x] # LabelRank[y]
      BY <1>4, <1>5, <2>3
    <3>2. \/ Score(x) < Score(y) \/ Score(y) < Score(x)
          \/ Score(x) = Score(y) /\ Score(y) = Score(x)
             /\ (LabelRank[x] < LabelRank[y] \/ LabelRank[y] < LabelRank[x])
      BY <3>1
    <3> QED
      BY <1>6, <3>2
  <2> QED
    BY <2>1, <2>2, <2>3 DEF StrictOrder
<1>8. \A c \in S : Place(query, c) = Cardinality(Below(lt, S, c)) + 1
  <2>1. \A c \in S : Below(lt, S, c) = {d \in S : Before(query, d, c)}
    BY DEF Below, lt
  <2> QED
    BY <2>1 DEF Place
<1>9. ASSUME NEW k \in 1 .. Cardinality(S)
      PROVE  \E c \in S : Place(query, c) = k
  <2> HIDE DEF S
  <2> QED
    BY <1>3, <1>7, <1>8, EveryPlaceIsTaken
<1> QED
  BY <1>3, <1>9

LEMMA LesserOf ==
    ASSUME NEW m \in Nat, NEW n \in Nat
    PROVE  /\ Min({m, n}) = IF m <= n THEN m ELSE n
           /\ Min({m, n}) \in Nat /\ Min({m, n}) <= m /\ Min({m, n}) <= n
<1>1. Min({m, n}) = IF m <= n THEN m ELSE n
  BY DEF Min
<1> QED
  BY <1>1

LEMMA TakeFacts ==
    ASSUME NEW n \in Nat, NEW q \in Seq(Linkable)
    PROVE  Take(n, q) \in Seq(Linkable)
<1> DEFINE m == Min({n, Len(q)})
<1>1. m \in Nat /\ m <= Len(q)
  <2>1. Len(q) \in Nat
    OBVIOUS
  <2> QED
    BY <2>1, LesserOf
<1> HIDE DEF m
<1>2. SubSeq(q, 1, m) \in Seq(Linkable)
  BY <1>1
<1> QED
  BY <1>2 DEF Take, m

\* The results of a blank query, and those of another.
Suggested == Take(Limit, Destinations \o Take(4, GuideCommands))

Listed(query) ==
    [k \in 1 .. Min({Limit, Cardinality(Found(query))}) |->
        CHOOSE c \in Found(query) : Place(query, c) = k]

LEMMA SuggestedFacts == Suggested \in Seq(Linkable)
<1>1. Limit \in Nat
  BY WorkspaceAssumption
<1>2. Take(4, GuideCommands) \in Seq(Linkable)
  BY TakeFacts, CommandFacts
<1>3. Destinations \o Take(4, GuideCommands) \in Seq(Linkable)
  BY <1>2, CommandFacts
<1> QED
  BY <1>1, <1>3, TakeFacts DEF Suggested

LEMMA ListedFacts ==
    ASSUME NEW query \in SearchTexts
    PROVE  Listed(query) \in Seq(Linkable)
<1> DEFINE S == Found(query)
           n == Min({Limit, Cardinality(S)})
           chosen(k) == CHOOSE c \in S : Place(query, c) = k
<1>1. /\ IsFiniteSet(S) /\ S \subseteq Linkable
      /\ \A k \in 1 .. Cardinality(S) : \E c \in S : Place(query, c) = k
  BY PlaceFacts
<1>2. Listed(query) = [k \in 1 .. n |-> chosen(k)]
  BY DEF Listed
<1> HIDE DEF S
<1>3. Cardinality(S) \in Nat
  BY <1>1, FS_CardinalityType
<1>4. n \in Nat /\ n <= Cardinality(S)
  <2>1. Limit \in Nat
    BY WorkspaceAssumption
  <2> QED
    BY <1>3, <2>1, LesserOf
<1>5. \A k \in 1 .. n : chosen(k) \in S
  <2> HIDE DEF n
  <2>1. \A k \in 1 .. n : k \in 1 .. Cardinality(S)
    BY <1>3, <1>4
  <2> QED
    BY <1>1, <2>1
<1> HIDE DEF n, chosen
<1>6. \A k \in 1 .. n : chosen(k) \in Linkable
  BY <1>1, <1>5
<1>7. [k \in 1 .. n |-> chosen(k)] \in Seq(Linkable)
  BY <1>4, <1>6
<1> QED
  BY <1>2, <1>7

LEMMA ResultsFacts ==
    ASSUME NEW query \in SearchTexts \cup {""}
    PROVE  SearchWorkspaceCommands[query] \in Seq(Linkable)
<1>1. CASE query = ""
  <2>1. SearchWorkspaceCommands[query] = Suggested
    BY <1>1, Zenon DEF SearchWorkspaceCommands, Suggested
  <2> QED
    BY <2>1, SuggestedFacts, Zenon
<1>2. CASE query # ""
  <2>1. query \in SearchTexts
    BY <1>2, Zenon
  <2>2. SearchWorkspaceCommands[query] = Listed(query)
    BY <1>2, Zenon DEF SearchWorkspaceCommands, Listed
  <2> QED
    BY <2>1, <2>2, ListedFacts, Zenon
<1> QED
  BY <1>1, <1>2, Zenon

LEMMA ScenarioFacts ==
    ASSUME NEW loc
    PROVE  BranchOfScenario[ShownScenario(loc)] \in Branch
<1>1. /\ Scenarios \in Seq(ToSet(Scenarios)) /\ Scenarios # <<>>
      /\ BranchOfScenario \in [ToSet(Scenarios) -> Branch]
  BY WorkspaceAssumption
<1>2. ShownScenario(loc) \in ToSet(Scenarios)
  <2>1. Scenarios[1] \in ToSet(Scenarios)
    BY <1>1
  <2> QED
    BY <2>1 DEF ShownScenario
<1> QED
  BY <1>1, <1>2

\* Whatever the evidence, the links of a page open what they name.
LEMMA LinksFacts ==
    ASSUME IsEvidence(Latest), NEW loc, loc.page = "guide" => loc.branch \in Branch
    PROVE  Links(loc) \subseteq Linkable
<1>1. ToSet(Destinations) \subseteq Linkable
  BY CommandFacts DEF ToSet
<1>2. /\ Page("simulate") \in Linkable /\ Page("learn") \in Linkable
      /\ Page("profile") \in Linkable /\ Page("deck") \in Linkable
  <2>1. \A p \in Pages \ {"guide"} : Page(p) \in Linkable
    BY LinkableFacts
  <2> QED
    BY <2>1 DEF Pages
<1>3. \A b \in Branch : Guide(b) \in Linkable /\ Deck(b, Nil) \in Linkable
                         /\ At("guide", b, "runbook") \in Linkable
  BY LinkableFacts
<1>4. \A b \in Branch : \A c \in CardsOf(b) : Deck(b, c) \in Linkable
  BY LinkableFacts
<1>5. TodayLinks \subseteq Linkable
  <2>1. Mission \in Linkable /\ Mission.branch \in Branch
    <3>1. /\ Mission = Deck(Mission.branch, Mission.item) /\ Mission.branch \in Branch
          /\ Mission.item \in CardsOf(Mission.branch)
      BY MissionFacts
    <3> QED
      BY <1>4, <3>1
  <2>2. \A b \in WeakestBranches(Latest, 5) : b \in Branch
    <3> DEFINE stats == BranchStats(Latest)
               n(j) == Cardinality({i \in DOMAIN stats : Weaker(stats, i, j)})
    <3>1. WeakestBranches(Latest, 5) = {Branches[i] : i \in {j \in DOMAIN stats : n(j) < 5}}
      BY DEF WeakestBranches
    <3>2. DOMAIN stats = DOMAIN Branches
      BY DEF BranchStats
    <3>3. \A i \in DOMAIN Branches : Branches[i] \in Branch
      BY DEF Branch, ToSet
    <3> HIDE DEF stats, n
    <3> QED
      BY <3>1, <3>2, <3>3
  <2>3. \A c \in Recent(Latest, 4) : Deck(BranchOf[c], c) \in Linkable
    <3>1. \A c \in Recent(Latest, 4) : c \in Cards
      BY DEF Recent, IsEvidence
    <3>2. \A c \in Cards : BranchOf[c] \in Branch /\ c \in CardsOf(BranchOf[c])
      BY CardFacts
    <3> QED
      BY <1>4, <3>1, <3>2
  <2> QED
    BY <1>2, <1>3, <2>1, <2>2, <2>3 DEF TodayLinks
<1>6. LearnLinks \subseteq Linkable
  BY <1>3 DEF LearnLinks
<1>7. ASSUME NEW b \in Branch
      PROVE  GuideLinks(b) \subseteq Linkable
  <2>1. NextCard(Latest, b) \in CardsOf(b)
    <3>1. CardsOf(b) \subseteq Cards /\ CardsOf(b) # {}
      BY CardFacts
    <3> QED
      BY <3>1, NextOfFacts DEF NextCard
  <2>2. FirstOnes(6, CardsOf(b)) \subseteq CardsOf(b)
    BY DEF FirstOnes
  <2> QED
    BY <1>2, <1>3, <1>4, <2>1, <2>2 DEF GuideLinks
<1>8. SimulateLinks(loc) \subseteq Linkable
  <2>1. BranchOfScenario[ShownScenario(loc)] \in Branch
    BY ScenarioFacts
  <2>2. \A s \in ToSet(Scenarios) : At("simulate", Nil, s) \in Linkable
    BY LinkableFacts
  <2> QED
    BY <1>3, <2>1, <2>2 DEF SimulateLinks
<1>9. Guide(BranchOf[DeckCard(loc)]) \in Linkable
  <2>1. DeckCard(loc) \in Cards
    BY DeckCardFacts
  <2> QED
    BY <1>3, <2>1, CardFacts
<1>10. GuideLinks(loc.branch) \subseteq Linkable \/ loc.page # "guide"
  BY <1>7
<1> HIDE DEF TodayLinks
<1> QED
  BY <1>1, <1>2, <1>5, <1>6, <1>8, <1>9, <1>10 DEF Links

\* The blank query, as a text of its own.
NoQuery == ""

Queries == SearchTexts \cup {NoQuery}

LEMMA QueryFacts == \A query \in Queries : SearchWorkspaceCommands[query] \in Seq(Linkable)
BY ResultsFacts, Zenon DEF Queries, NoQuery

\* The invariant of the palette in these terms.
FocusParts ==
    /\ palette \in [open : BOOLEAN, query : Queries, index : Nat]
    /\ palette.open \/ palette = [open |-> FALSE, query |-> NoQuery, index |-> 1]
    /\ frames \in Seq({"input", "trigger"})
    /\ palette.open /\ frames # <<>> => frames[Len(frames)] = "input"

LEMMA FocusFacts == FocusInv <=> FocusParts
BY Zenon DEF FocusInv, FocusParts, Queries, NoQuery, Shut

LEMMA ShutFacts == Shut = [open |-> FALSE, query |-> NoQuery, index |-> 1]
BY Zenon DEF Shut, NoQuery

LEMMA LinksAreOpened == WorkspaceInv => LinksOpenTheirCard
<1> SUFFICES ASSUME WorkspaceInv, NEW loc \in Links(Here) \cup ToSet(Results),
                    loc.page = "deck", loc.item # Nil
             PROVE  DeckCard(loc) = loc.item
  BY DEF LinksOpenTheirCard
<1>1. HistoryInv /\ AttemptsInv /\ FocusParts
  BY FocusFacts DEF WorkspaceInv
<1>2. Links(Here) \subseteq Linkable
  <2>1. IsEvidence(Latest)
    BY <1>1, LatestFacts
  <2>2. Here.page = "guide" => Here.branch \in Branch
    BY <1>1 DEF HistoryInv, Here
  <2> QED
    BY <2>1, <2>2, LinksFacts
<1>3. ToSet(Results) \subseteq Linkable
  <2>1. palette.query \in Queries
    BY <1>1 DEF FocusParts
  <2>2. Results \in Seq(Linkable)
    BY <2>1, QueryFacts DEF Results
  <2> QED
    BY <2>2 DEF ToSet
<1>4. loc \in Linkable
  BY <1>2, <1>3
<1> QED
  BY <1>4 DEF Linkable

-----------------------------------------------------------------------------
(* Steps.                                                                   *)

\* Moving to an address the application has leads to it.
LEMMA SettledFacts ==
    /\ \A loc \in Linkable : Settle(loc) = loc
    /\ \A loc \in Addresses :
          Settle(loc) \in Location
          /\ (Settle(loc).page = "guide" => Settle(loc).branch \in Branch)
<1>1. ASSUME NEW loc \in Linkable PROVE Settle(loc) = loc
  <2>1. loc.page \in Pages /\ (loc.page = "guide" => loc.branch \in Branch)
    BY DEF Linkable, Location
  <2>2. loc.page # "practice" /\ loc.page # "missing"
    BY <2>1 DEF Pages
  <2> QED
    BY <2>1, <2>2 DEF Settle
<1>2. \A p \in Pages \ {"guide"} : Page(p) \in Linkable
  BY LinkableFacts
<1>3. Page("deck") \in Linkable /\ Page("today") \in Linkable /\ Page("learn") \in Linkable
  BY <1>2 DEF Pages
<1>4. \A loc \in Linkable : loc \in Location /\ (loc.page = "guide" => loc.branch \in Branch)
  BY DEF Linkable
<1>5. ASSUME NEW loc \in Addresses
      PROVE  Settle(loc) \in Location
             /\ (Settle(loc).page = "guide" => Settle(loc).branch \in Branch)
  <2>1. CASE loc \in ToSet(WorkspaceCommands)
    <3>1. loc \in Linkable
      BY <2>1, CommandFacts DEF ToSet
    <3> QED
      BY <1>1, <1>4, <3>1
  <2>2. CASE loc = Page("practice")
    <3>1. Settle(loc) = Page("deck")
      BY <2>2 DEF Settle, Page, At
    <3> QED
      BY <1>3, <1>4, <3>1
  <2>3. CASE loc = Page("missing")
    <3>1. Settle(loc) = Page("today")
      BY <2>3 DEF Settle, Page, At
    <3> QED
      BY <1>3, <1>4, <3>1
  <2>4. CASE loc = Guide(Unknown)
    <3>1. Unknown \notin Branch
      BY WorkspaceAssumption
    <3>2. Settle(loc) = Page("learn")
      BY <2>4, <3>1 DEF Settle, Guide, At
    <3> QED
      BY <1>3, <1>4, <3>2
  <2>5. CASE loc = Deck(Unknown, Unknown)
    <3>1. Settle(loc) = loc /\ loc.page = "deck"
      BY <2>5 DEF Settle, Deck, At
    <3>2. loc \in Location
      BY <2>5 DEF Deck, At, Location, Pages
    <3> QED
      BY <3>1, <3>2
  <2>6. CASE loc = At("simulate", Nil, Unknown)
    <3>1. Settle(loc) = loc /\ loc.page = "simulate"
      BY <2>6 DEF Settle, At
    <3>2. loc \in Location
      BY <2>6 DEF At, Location, Pages
    <3> QED
      BY <3>1, <3>2
  <2> QED
    BY <2>1, <2>2, <2>3, <2>4, <2>5, <2>6 DEF Addresses
<1> QED
  BY <1>1, <1>5

LEMMA PushKeeps ==
    ASSUME HistoryInv, NEW loc \in Linkable, Push(loc)
    PROVE  HistoryInv'
<1>1. /\ history \in Seq(Location) /\ at \in DOMAIN history
      /\ \A i \in DOMAIN history : history[i].page = "guide" => history[i].branch \in Branch
  BY DEF HistoryInv
<1>2. history' = Append(SubSeq(history, 1, at), loc) /\ at' = at + 1
  BY SettledFacts DEF Push
<1>3. loc \in Location /\ (loc.page = "guide" => loc.branch \in Branch)
  BY DEF Linkable
<1>4. /\ history' \in Seq(Location) /\ DOMAIN history' = 1 .. at + 1 /\ at \in Nat
      /\ \A i \in 1 .. at : history'[i] = history[i] /\ i \in DOMAIN history
      /\ history'[at + 1] = loc
  BY <1>1, <1>2, <1>3
<1>5. \A i \in DOMAIN history' : i \in 1 .. at \/ i = at + 1
  BY <1>4
<1>6. \A i \in DOMAIN history' :
          history'[i].page = "guide" => history'[i].branch \in Branch
  BY <1>1, <1>3, <1>4, <1>5
<1>7. at' \in DOMAIN history'
  BY <1>2, <1>4
<1> QED
  BY <1>4, <1>6, <1>7 DEF HistoryInv

LEMMA AttemptsUnchanged ==
    ASSUME AttemptsInv, UNCHANGED attempts
    PROVE  AttemptsInv'
BY DEF AttemptsInv

LEMMA HistoryUnchanged ==
    ASSUME HistoryInv, UNCHANGED <<history, at>>
    PROVE  HistoryInv'
BY DEF HistoryInv

\* A palette that is closed: the body scrolls.
LEMMA ClosedKeeps ==
    ASSUME palette' = Shut, frames' \in Seq({"input", "trigger"}), overflow' # "hidden"
    PROVE  FocusInv' /\ PaletteTakesKeys'
<1>1. palette' = [open |-> FALSE, query |-> NoQuery, index |-> 1]
  BY ShutFacts, Zenon
<1>2. FocusParts'
  BY <1>1 DEF FocusParts, Queries
<1>3. FocusInv'
  BY <1>2, FocusFacts, PTL
<1>4. PaletteTakesKeys'
  <2>1. palette'.open = FALSE
    BY <1>1
  <2>2. (overflow' = "hidden") = FALSE
    OBVIOUS
  <2> QED
    BY <2>1, <2>2, Zenon DEF PaletteTakesKeys
<1> QED
  BY <1>3, <1>4

\* A palette that is open: its own focus move comes last or has been made, and its
\* highlight is on a result.
LEMMA OpenKeeps ==
    ASSUME palette' \in [open : {TRUE}, query : Queries, index : Nat],
           frames' \in Seq({"input", "trigger"}), overflow' = "hidden",
           frames' = <<>> => focus' \in {"input", "dialog", "blank"},
           frames' # <<>> => frames'[Len(frames')] = "input",
           Results' # <<>> => palette'.index \in DOMAIN Results'
    PROVE  FocusInv' /\ PaletteTakesKeys'
<1>1. FocusParts'
  BY DEF FocusParts
<1>2. FocusInv'
  BY <1>1, FocusFacts, PTL
<1>3. PaletteTakesKeys'
  BY DEF PaletteTakesKeys
<1> QED
  BY <1>2, <1>3

\* What is known of the palette before a step.
LEMMA BeforeFacts ==
    ASSUME WorkspaceInv
    PROVE  /\ HistoryInv /\ AttemptsInv
           /\ palette.open \in BOOLEAN /\ palette.query \in Queries /\ palette.index \in Nat
           /\ palette = [open |-> palette.open, query |-> palette.query, index |-> palette.index]
           /\ ~palette.open => palette = Shut /\ overflow # "hidden"
           /\ frames \in Seq({"input", "trigger"})
           /\ palette.open =>
                 /\ overflow = "hidden" /\ Results \in Seq(Linkable)
                 /\ frames = <<>> => focus \in {"input", "dialog", "blank"}
                 /\ frames # <<>> => frames[Len(frames)] = "input"
                 /\ Results # <<>> => palette.index \in DOMAIN Results
<1>1. HistoryInv /\ AttemptsInv /\ FocusParts /\ PaletteTakesKeys
  BY FocusFacts DEF WorkspaceInv
<1>2. palette \in [open : BOOLEAN, query : Queries, index : Nat]
  BY <1>1 DEF FocusParts
<1>3. /\ palette.open \in BOOLEAN /\ palette.query \in Queries /\ palette.index \in Nat
      /\ palette = [open |-> palette.open, query |-> palette.query, index |-> palette.index]
  BY <1>2
<1>4. ~palette.open => palette = Shut
  BY <1>1, ShutFacts, Zenon DEF FocusParts
<1>5. Results \in Seq(Linkable)
  BY <1>3, QueryFacts DEF Results
<1>6. /\ frames \in Seq({"input", "trigger"})
      /\ palette.open /\ frames # <<>> => frames[Len(frames)] = "input"
  BY <1>1 DEF FocusParts
<1>7. /\ palette.open /\ frames = <<>> => focus \in {"input", "dialog", "blank"}
      /\ (overflow = "hidden") = palette.open
      /\ palette.open /\ Results # <<>> => palette.index \in DOMAIN Results
  BY <1>1 DEF PaletteTakesKeys
<1> QED
  BY <1>1, <1>3, <1>4, <1>5, <1>6, <1>7

LEMMA LinksOfHere == WorkspaceInv => Links(Here) \subseteq Linkable
<1> SUFFICES ASSUME WorkspaceInv PROVE Links(Here) \subseteq Linkable
  OBVIOUS
<1>1. IsEvidence(Latest)
  BY LatestFacts DEF WorkspaceInv
<1>2. Here.page = "guide" => Here.branch \in Branch
  BY DEF WorkspaceInv, HistoryInv, Here
<1> QED
  BY <1>1, <1>2, LinksFacts

LEMMA FollowKeeps == WorkspaceInv /\ Follow => WorkspaceInv'
<1> SUFFICES ASSUME WorkspaceInv, Follow PROVE WorkspaceInv'
  OBVIOUS
<1>1. PICK loc \in Links(Here) : Push(loc)
  BY DEF Follow
<1>2. ~palette.open /\ UNCHANGED <<attempts, palette, frames, overflow>>
  BY DEF Follow, OnPage
<1>3. loc \in Linkable
  BY LinksOfHere
<1>4. HistoryInv'
  BY <1>1, <1>3, PushKeeps, BeforeFacts
<1>5. AttemptsInv'
  BY <1>2, BeforeFacts, AttemptsUnchanged
<1>6. palette' = Shut /\ frames' \in Seq({"input", "trigger"}) /\ overflow' # "hidden"
  BY <1>2, BeforeFacts
<1> QED
  BY <1>4, <1>5, <1>6, ClosedKeeps DEF WorkspaceInv

LEMMA SelectViewKeeps ==
    ASSUME WorkspaceInv, NEW view \in {"models", "runbook", "drills"}, SelectView(view)
    PROVE  WorkspaceInv'
<1> DEFINE loc == [Here EXCEPT !.item = IF view = "models" THEN Nil ELSE view]
<1>1. /\ ~palette.open /\ Here.page = "guide"
      /\ UNCHANGED <<at, attempts, palette, frames, overflow>>
      /\ history' = [history EXCEPT ![at] = loc]
  BY DEF SelectView, OnPage, Replace
<1>2. /\ history \in Seq(Location) /\ at \in DOMAIN history
      /\ \A i \in DOMAIN history : history[i].page = "guide" => history[i].branch \in Branch
  BY BeforeFacts DEF HistoryInv
<1>3. loc \in Location /\ loc.branch \in Branch
  <2>1. Here \in Location /\ Here.branch \in Branch
    BY <1>1, <1>2 DEF Here
  <2>2. (IF view = "models" THEN Nil ELSE view)
            \in Cards \cup ToSet(Scenarios) \cup {Nil, Unknown, "runbook", "drills"}
    OBVIOUS
  <2> HIDE DEF Here
  <2>3. loc.branch = Here.branch /\ loc \in Location
    BY <2>1, <2>2 DEF Location
  <2> QED
    BY <2>1, <2>3
<1> HIDE DEF loc
<1>4. HistoryInv'
  <2>1. history' \in Seq(Location) /\ at' \in DOMAIN history'
    BY <1>1, <1>2, <1>3
  <2>2. \A i \in DOMAIN history' :
            history'[i].page = "guide" => history'[i].branch \in Branch
    BY <1>1, <1>2, <1>3
  <2> QED
    BY <2>1, <2>2 DEF HistoryInv
<1>5. AttemptsInv'
  BY <1>1, BeforeFacts, AttemptsUnchanged
<1>6. palette' = Shut /\ frames' \in Seq({"input", "trigger"}) /\ overflow' # "hidden"
  BY <1>1, BeforeFacts
<1> QED
  BY <1>4, <1>5, <1>6, ClosedKeeps DEF WorkspaceInv

\* A step that touches neither the palette nor the focus.
LEMMA PaletteUnchanged ==
    ASSUME WorkspaceInv, UNCHANGED <<palette, focus, frames, overflow>>
    PROVE  FocusInv' /\ PaletteTakesKeys'
<1>1. FocusInv /\ PaletteTakesKeys
  BY DEF WorkspaceInv
<1>2. FocusInv'
  <2>1. FocusParts
    BY <1>1, FocusFacts
  <2>2. FocusParts'
    BY <2>1 DEF FocusParts
  <2> QED
    BY <2>2, FocusFacts, PTL
<1>3. PaletteTakesKeys'
  BY <1>1 DEF PaletteTakesKeys, Results
<1> QED
  BY <1>2, <1>3

LEMMA TraverseKeeps ==
    ASSUME WorkspaceInv, NEW by \in {1, -1}, Traverse(by)
    PROVE  WorkspaceInv'
<1>1. /\ at + by \in DOMAIN history /\ at' = at + by /\ UNCHANGED history
      /\ UNCHANGED attempts /\ UNCHANGED <<palette, focus, frames, overflow>>
  BY DEF Traverse
<1>2. HistoryInv'
  BY <1>1, BeforeFacts DEF HistoryInv
<1>3. AttemptsInv'
  BY <1>1, BeforeFacts, AttemptsUnchanged
<1> QED
  BY <1>1, <1>2, <1>3, PaletteUnchanged DEF WorkspaceInv

LEMMA ValidatedKeeps == WorkspaceInv /\ Validated => WorkspaceInv'
<1> SUFFICES ASSUME WorkspaceInv, Validated PROVE WorkspaceInv'
  OBVIOUS
<1> DEFINE A == [card : Cards, score : Scores, at : Nat]
           n == Len(attempts)
<1>1. PICK s \in Scores :
          attempts' = <<[card |-> DeckCard(Here), score |-> s, at |-> Len(attempts)]>> \o attempts
  BY DEF Validated
<1>2. UNCHANGED <<history, at>> /\ UNCHANGED <<palette, focus, frames, overflow>>
  BY DEF Validated
<1>3. attempts \in Seq(A) /\ \A i \in DOMAIN attempts : attempts[i].at = Len(attempts) - i
  BY BeforeFacts DEF AttemptsInv
<1> DEFINE a == [card |-> DeckCard(Here), score |-> s, at |-> n]
<1>4. a \in A /\ a.at = n /\ n \in Nat
  BY <1>3, DeckCardFacts
<1>5. attempts' = <<a>> \o attempts
  BY <1>1
<1> HIDE DEF a, A
<1>6. /\ attempts' \in Seq(A) /\ Len(attempts') = n + 1 /\ attempts'[1] = a
      /\ \A i \in 2 .. n + 1 : attempts'[i] = attempts[i - 1] /\ i - 1 \in DOMAIN attempts
  BY <1>3, <1>4, <1>5
<1>7. \A i \in DOMAIN attempts' : attempts'[i].at = Len(attempts') - i
  <2> SUFFICES ASSUME NEW i \in DOMAIN attempts'
               PROVE  attempts'[i].at = n + 1 - i
    BY <1>6
  <2>1. i \in Nat /\ (i = 1 \/ i \in 2 .. n + 1)
    BY <1>4, <1>6
  <2>2. CASE i = 1
    BY <1>4, <1>6, <2>2
  <2>3. CASE i \in 2 .. n + 1
    <3>1. attempts'[i].at = n - (i - 1)
      BY <1>3, <1>6, <2>3
    <3> QED
      BY <1>4, <2>1, <3>1
  <2> QED
    BY <2>1, <2>2, <2>3
<1>8. AttemptsInv'
  BY <1>6, <1>7 DEF AttemptsInv, A
<1>9. HistoryInv'
  BY <1>2, BeforeFacts, HistoryUnchanged
<1> QED
  BY <1>2, <1>8, <1>9, PaletteUnchanged DEF WorkspaceInv

LEMMA ProviderFailsKeeps == WorkspaceInv /\ ProviderFails => WorkspaceInv'
<1> SUFFICES ASSUME WorkspaceInv, ProviderFails PROVE WorkspaceInv'
  OBVIOUS
<1>1. palette' = Shut /\ frames' \in Seq({"input", "trigger"}) /\ overflow' # "hidden"
      /\ UNCHANGED <<history, at>> /\ UNCHANGED attempts
  BY DEF ProviderFails
<1>2. HistoryInv' /\ AttemptsInv'
  BY <1>1, BeforeFacts, HistoryUnchanged, AttemptsUnchanged
<1> QED
  BY <1>1, <1>2, ClosedKeeps DEF WorkspaceInv

\* A step that leaves the pages alone.
LEMMA OnPaletteOnly ==
    ASSUME WorkspaceInv, UNCHANGED <<history, at, attempts>>
    PROVE  HistoryInv' /\ AttemptsInv'
BY BeforeFacts, HistoryUnchanged, AttemptsUnchanged

LEMMA OpenActionKeeps == WorkspaceInv /\ Open => WorkspaceInv'
<1> SUFFICES ASSUME WorkspaceInv, Open PROVE WorkspaceInv'
  OBVIOUS
<1>1. /\ ~palette.open /\ palette' = [palette EXCEPT !.open = TRUE] /\ overflow' = "hidden"
      /\ frames' = Append(frames, "input") /\ UNCHANGED <<history, at, attempts>>
  BY DEF Open, OnPage, Request
<1>2. palette = [open |-> FALSE, query |-> NoQuery, index |-> 1]
  BY <1>1, BeforeFacts, ShutFacts
<1>3. palette' = [open |-> TRUE, query |-> NoQuery, index |-> 1]
  BY <1>1, <1>2
<1>4. palette' \in [open : {TRUE}, query : Queries, index : Nat]
  BY <1>3 DEF Queries
<1>5. frames' \in Seq({"input", "trigger"}) /\ frames' # <<>> /\ frames'[Len(frames')] = "input"
  <2>1. frames \in Seq({"input", "trigger"})
    BY BeforeFacts
  <2> QED
    BY <1>1, <2>1
<1>6. Results' # <<>> => palette'.index \in DOMAIN Results'
  <2>1. Results' = SearchWorkspaceCommands[NoQuery] /\ palette'.index = 1
    BY <1>3 DEF Results
  <2>2. SearchWorkspaceCommands[NoQuery] \in Seq(Linkable)
    BY QueryFacts DEF Queries
  <2> QED
    BY <2>1, <2>2
<1>7. FocusInv' /\ PaletteTakesKeys'
  BY <1>1, <1>4, <1>5, <1>6, OpenKeeps
<1> QED
  BY <1>1, <1>7, OnPaletteOnly DEF WorkspaceInv

LEMMA DismissKeeps == WorkspaceInv /\ Dismiss => WorkspaceInv'
<1> SUFFICES ASSUME WorkspaceInv, Dismiss PROVE WorkspaceInv'
  OBVIOUS
<1>1. /\ palette' = Shut /\ overflow' = "visible"
      /\ frames' = Append(frames, "trigger") /\ UNCHANGED <<history, at, attempts>>
  BY DEF Dismiss, Request
<1>2. frames' \in Seq({"input", "trigger"})
  <2>1. frames \in Seq({"input", "trigger"})
    BY BeforeFacts
  <2> QED
    BY <1>1, <2>1
<1>3. FocusInv' /\ PaletteTakesKeys'
  BY <1>1, <1>2, ClosedKeeps
<1> QED
  BY <1>1, <1>3, OnPaletteOnly DEF WorkspaceInv

LEMMA EnterKeeps == WorkspaceInv /\ Enter => WorkspaceInv'
<1> SUFFICES ASSUME WorkspaceInv, Enter PROVE WorkspaceInv'
  OBVIOUS
<1> DEFINE i == palette.index
<1>1. /\ palette.open /\ i \in DOMAIN Results /\ Push(Results[i]) /\ palette' = Shut
      /\ overflow' = "visible" /\ UNCHANGED <<attempts, frames>>
  BY DEF Enter, Choose
<1> HIDE DEF i
<1>2. Results[i] \in Linkable
  <2>1. Results \in Seq(Linkable)
    BY <1>1, BeforeFacts
  <2> QED
    BY <1>1, <2>1
<1>3. HistoryInv'
  BY <1>1, <1>2, BeforeFacts, PushKeeps
<1>4. AttemptsInv'
  BY <1>1, BeforeFacts, AttemptsUnchanged
<1>5. frames' \in Seq({"input", "trigger"})
  BY <1>1, BeforeFacts
<1>6. FocusInv' /\ PaletteTakesKeys'
  BY <1>1, <1>5, ClosedKeeps
<1> QED
  BY <1>3, <1>4, <1>6 DEF WorkspaceInv

LEMMA SearchKeeps ==
    ASSUME WorkspaceInv, NEW query \in Queries, Search(query)
    PROVE  WorkspaceInv'
<1>1. /\ palette.open /\ focus = "input"
      /\ palette' = [palette EXCEPT !.query = query, !.index = 1]
      /\ UNCHANGED <<history, at, attempts>> /\ UNCHANGED <<focus, frames, overflow>>
  BY DEF Search
<1>2. palette' = [open |-> TRUE, query |-> query, index |-> 1]
  <2>1. palette = [open |-> palette.open, query |-> palette.query, index |-> palette.index]
        /\ palette.open = TRUE
    BY <1>1, BeforeFacts
  <2> QED
    BY <1>1, <2>1
<1>3. palette' \in [open : {TRUE}, query : Queries, index : Nat]
  BY <1>2
<1>4. Results' # <<>> => palette'.index \in DOMAIN Results'
  <2>1. Results' = SearchWorkspaceCommands[query] /\ palette'.index = 1
    BY <1>2 DEF Results
  <2>2. SearchWorkspaceCommands[query] \in Seq(Linkable)
    BY QueryFacts
  <2> QED
    BY <2>1, <2>2
<1>5. /\ frames' \in Seq({"input", "trigger"}) /\ overflow' = "hidden"
      /\ frames' = <<>> => focus' \in {"input", "dialog", "blank"}
      /\ frames' # <<>> => frames'[Len(frames')] = "input"
  BY <1>1, BeforeFacts
<1>6. FocusInv' /\ PaletteTakesKeys'
  BY <1>3, <1>4, <1>5, OpenKeeps
<1> QED
  BY <1>1, <1>6, OnPaletteOnly DEF WorkspaceInv

\* The highlight moves to a result, and nothing else changes.
LEMMA HighlightKeeps ==
    ASSUME WorkspaceInv, palette.open, NEW i \in DOMAIN Results,
           palette' = [palette EXCEPT !.index = i],
           UNCHANGED <<history, at, attempts>>, UNCHANGED <<focus, frames, overflow>>
    PROVE  WorkspaceInv'
<1>1. palette' = [open |-> TRUE, query |-> palette.query, index |-> i]
  <2>1. palette = [open |-> palette.open, query |-> palette.query, index |-> palette.index]
        /\ palette.open = TRUE
    BY BeforeFacts
  <2> QED
    BY <2>1
<1>2. Results' = Results /\ Results \in Seq(Linkable)
  <2>1. palette'.query = palette.query
    BY <1>1
  <2> QED
    BY <2>1, BeforeFacts DEF Results
<1>3. palette' \in [open : {TRUE}, query : Queries, index : Nat]
  <2>1. i \in Nat
    BY <1>2
  <2> QED
    BY <1>1, <2>1, BeforeFacts
<1>4. Results' # <<>> => palette'.index \in DOMAIN Results'
  BY <1>1, <1>2
<1>5. /\ frames' \in Seq({"input", "trigger"}) /\ overflow' = "hidden"
      /\ frames' = <<>> => focus' \in {"input", "dialog", "blank"}
      /\ frames' # <<>> => frames'[Len(frames')] = "input"
  BY BeforeFacts
<1>6. FocusInv' /\ PaletteTakesKeys'
  BY <1>3, <1>4, <1>5, OpenKeeps
<1> QED
  BY <1>6, OnPaletteOnly DEF WorkspaceInv

LEMMA ArrowKeeps ==
    ASSUME WorkspaceInv, NEW by \in {1, -1}, Arrow(by)
    PROVE  WorkspaceInv'
<1> DEFINE n == Len(Results)
           least == Min({palette.index + by, n})
           i == Max({1, least})
<1>1. /\ palette.open /\ Results # <<>> /\ palette' = [palette EXCEPT !.index = i]
      /\ UNCHANGED <<history, at, attempts>> /\ UNCHANGED <<focus, frames, overflow>>
  BY DEF Arrow
<1>2. Results \in Seq(Linkable) /\ palette.index \in 1 .. n /\ n \in Nat /\ n >= 1
  BY <1>1, BeforeFacts
<1>3. palette.index + by \in Nat
  BY <1>2
<1>4. least \in Nat /\ least <= n
  BY <1>2, <1>3, LesserOf
<1>5. i \in 1 .. n
  <2> HIDE DEF least, n
  <2>1. {1, least} \in SUBSET (0 .. n)
    BY <1>2, <1>4
  <2>2. i \in {1, least} /\ i >= 1
    BY <1>2, <2>1, GreatestNatural
  <2> QED
    BY <1>2, <1>4, <2>2
<1>6. i \in DOMAIN Results
  BY <1>2, <1>5
<1> HIDE DEF i
<1> QED
  BY <1>1, <1>6, HighlightKeeps

LEMMA HoverKeeps ==
    ASSUME WorkspaceInv, NEW i \in 1 .. Limit, Hover(i)
    PROVE  WorkspaceInv'
<1>1. /\ palette.open /\ i \in DOMAIN Results /\ palette' = [palette EXCEPT !.index = i]
      /\ UNCHANGED <<history, at, attempts>> /\ UNCHANGED <<focus, frames, overflow>>
  BY DEF Hover
<1> QED
  BY <1>1, HighlightKeeps

\* The focus moves inside the palette or beside its controls.
LEMMA FocusMoveKeeps ==
    ASSUME WorkspaceInv, palette.open, focus' \in {"input", "dialog", "blank"},
           UNCHANGED <<history, at, attempts>>, UNCHANGED <<palette, overflow>>,
           UNCHANGED frames \/ frames' = <<>>
    PROVE  WorkspaceInv'
<1>1. palette' \in [open : {TRUE}, query : Queries, index : Nat]
  <2>1. palette = [open |-> palette.open, query |-> palette.query, index |-> palette.index]
        /\ palette.open = TRUE /\ palette.query \in Queries /\ palette.index \in Nat
    BY BeforeFacts
  <2>2. palette \in [open : {TRUE}, query : Queries, index : Nat]
    BY <2>1
  <2> QED
    BY <2>2
<1>2. /\ frames' \in Seq({"input", "trigger"}) /\ overflow' = "hidden"
      /\ frames' # <<>> => frames'[Len(frames')] = "input"
  <2>1. frames \in Seq({"input", "trigger"}) /\ overflow = "hidden"
        /\ (frames # <<>> => frames[Len(frames)] = "input")
    BY BeforeFacts
  <2>2. CASE UNCHANGED frames
    BY <2>1, <2>2
  <2>3. CASE frames' = <<>>
    BY <2>1, <2>3
  <2> QED
    BY <2>2, <2>3
<1>3. Results' # <<>> => palette'.index \in DOMAIN Results'
  BY BeforeFacts DEF Results
<1>4. FocusInv' /\ PaletteTakesKeys'
  BY <1>1, <1>2, <1>3, OpenKeeps
<1> QED
  BY <1>4, OnPaletteOnly DEF WorkspaceInv

LEMMA FrameKeeps == WorkspaceInv /\ Frame => WorkspaceInv'
<1> SUFFICES ASSUME WorkspaceInv, Frame PROVE WorkspaceInv'
  OBVIOUS
<1> DEFINE done == {i \in DOMAIN frames : frames[i] = "trigger" \/ palette.open}
<1>1. /\ frames # <<>> /\ frames' = <<>>
      /\ focus' = IF done = {} THEN focus ELSE frames[Max(done)]
      /\ UNCHANGED <<history, at, attempts>> /\ UNCHANGED <<palette, overflow>>
  BY DEF Frame
<1>2. CASE palette.open
  <2>1. frames \in Seq({"input", "trigger"}) /\ frames[Len(frames)] = "input"
    BY <1>1, <1>2, BeforeFacts
  <2>2. done = 1 .. Len(frames) /\ Len(frames) \in Nat /\ Len(frames) > 0
    BY <1>1, <1>2, <2>1
  <2>3. Max(1 .. Len(frames)) = Len(frames) /\ 1 .. Len(frames) # {}
    BY <2>2, LastOfInterval
  <2>4. focus' = "input"
    BY <1>1, <2>1, <2>2, <2>3
  <2> QED
    BY <1>1, <1>2, <2>4, FocusMoveKeeps
<1>3. CASE ~palette.open
  <2>1. palette' = Shut /\ frames' \in Seq({"input", "trigger"}) /\ overflow' # "hidden"
    BY <1>1, <1>3, BeforeFacts
  <2>2. FocusInv' /\ PaletteTakesKeys'
    BY <2>1, ClosedKeeps
  <2> QED
    BY <1>1, <2>2, OnPaletteOnly DEF WorkspaceInv
<1> QED
  BY <1>2, <1>3

LEMMA WorkspaceInitially == Init => WorkspaceInv
<1> SUFFICES ASSUME Init PROVE WorkspaceInv
  OBVIOUS
<1>1. PICK a \in Addresses : history = <<Settle(a)>>
  BY DEF Init
<1>2. /\ at = 1 /\ attempts = <<>> /\ palette = Shut /\ frames = <<>> /\ overflow = "visible"
  BY DEF Init
<1>3. HistoryInv
  <2>1. Settle(a) \in Location /\ (Settle(a).page = "guide" => Settle(a).branch \in Branch)
    BY SettledFacts
  <2> QED
    BY <1>1, <1>2, <2>1 DEF HistoryInv
<1>4. AttemptsInv
  BY <1>2 DEF AttemptsInv
<1>5. palette = [open |-> FALSE, query |-> NoQuery, index |-> 1]
  BY <1>2, ShutFacts
<1>6. FocusInv
  <2>1. FocusParts
    BY <1>2, <1>5 DEF FocusParts, Queries
  <2> QED
    BY <2>1, FocusFacts
<1>7. PaletteTakesKeys
  <2>1. palette.open = FALSE /\ (overflow = "hidden") = FALSE
    BY <1>2, <1>5
  <2> QED
    BY <2>1, Zenon DEF PaletteTakesKeys
<1> QED
  BY <1>3, <1>4, <1>6, <1>7 DEF WorkspaceInv

LEMMA WorkspaceStep == WorkspaceInv /\ [Next]_vars => WorkspaceInv'
<1> SUFFICES ASSUME WorkspaceInv, [Next]_vars PROVE WorkspaceInv'
  OBVIOUS
<1>1. CASE Follow
  BY <1>1, FollowKeeps
<1>2. ASSUME NEW view \in {"models", "runbook", "drills"}, SelectView(view)
      PROVE  WorkspaceInv'
  BY <1>2, SelectViewKeeps
<1>3. ASSUME NEW by \in {1, -1}, Traverse(by) PROVE WorkspaceInv'
  BY <1>3, TraverseKeeps
<1>4. CASE Validated
  BY <1>4, ValidatedKeeps
<1>5. CASE ProviderFails
  BY <1>5, ProviderFailsKeeps
<1>6. CASE ProviderRetries \/ UNCHANGED vars
  <2>1. UNCHANGED <<history, at, attempts>> /\ UNCHANGED <<palette, focus, frames, overflow>>
    BY <1>6 DEF ProviderRetries, vars
  <2> QED
    BY <2>1, OnPaletteOnly, PaletteUnchanged DEF WorkspaceInv
<1>7. CASE Open
  BY <1>7, OpenActionKeeps
<1>8. CASE Dismiss
  BY <1>8, DismissKeeps
<1>9. CASE Enter
  BY <1>9, EnterKeeps
<1>10. ASSUME NEW query \in Queries, Search(query) PROVE WorkspaceInv'
  BY <1>10, SearchKeeps
<1>11. ASSUME NEW by \in {1, -1}, Arrow(by) PROVE WorkspaceInv'
  BY <1>11, ArrowKeeps
<1>12. ASSUME NEW i \in 1 .. Limit, Hover(i) PROVE WorkspaceInv'
  BY <1>12, HoverKeeps
<1>13. CASE Tab \/ \E target \in {"input", "blank"} : Click(target)
  <2>1. /\ palette.open /\ focus' \in {"input", "dialog", "blank"}
        /\ UNCHANGED <<history, at, attempts>> /\ UNCHANGED <<palette, overflow>>
        /\ UNCHANGED frames
    BY <1>13 DEF Tab, Click
  <2> QED
    BY <2>1, FocusMoveKeeps
<1>14. CASE Frame
  BY <1>14, FrameKeeps
<1> QED
  BY <1>1, <1>2, <1>3, <1>4, <1>5, <1>6, <1>7, <1>8, <1>9, <1>10, <1>11, <1>12, <1>13, <1>14,
     Zenon DEF Next, Queries, NoQuery

\* The session history, the attempts and the palette stay as the pages rely on
\* (App.tsx, AppShell.tsx, CommandPalette.tsx).
THEOREM WorkspaceInvariant == Spec => []WorkspaceInv
<1> QED
  BY WorkspaceInitially, WorkspaceStep, PTL DEF Spec

\* Rounding to whole percentages hides no card without evidence, from the mission or
\* from "Mastered", as long as the catalogue has at most 150 cards (TodayPage.tsx:52,
\* :56, LearnPage.tsx:117; catalog.cpp:74).
THEOREM GapsNotHidden == Spec => []GapsAreNotHidden
<1>1. WorkspaceInv => GapsAreNotHidden
  BY GapsShow DEF WorkspaceInv
<1> QED
  BY <1>1, WorkspaceInvariant, PTL

\* Every link of a page and every result of the palette opens the card it names
\* (FlashcardsPage.tsx:73), for every catalogue, search and evidence.
THEOREM LinksOpen == Spec => []LinksOpenTheirCard
<1> QED
  BY LinksAreOpened, WorkspaceInvariant, PTL

\* The open palette has the focus when the frames have run, locks the body just as
\* long, and highlights one of its results (CommandPalette.tsx:37, :54, :64).
THEOREM PaletteKeys == Spec => []PaletteTakesKeys
<1>1. WorkspaceInv => PaletteTakesKeys
  BY DEF WorkspaceInv
<1> QED
  BY <1>1, WorkspaceInvariant, PTL

-----------------------------------------------------------------------------
(* Ranks.                                                                   *)

\* Rounding is off by one half at most.
LEMMA RoundedIsNearest ==
    ASSUME NEW a \in Nat, NEW b \in Nat, b > 0
    PROVE  /\ Rounded(a, b) \in Nat
           /\ -b <= 2 * (Rounded(a, b) * b - a) /\ 2 * (Rounded(a, b) * b - a) <= b
<1>1. ASSUME NEW m \in Nat, NEW d \in Nat, d > 0
      PROVE  d * (m \div d) <= m /\ m < d * (m \div d) + d
  BY <1>1
<1> DEFINE q == Rounded(a, b)
<1>2. q \in Nat /\ 2 * b \in Nat /\ 2 * b > 0 /\ 2 * a + b \in Nat
  BY RoundedIsNatural
<1>3. (2 * b) * q <= 2 * a + b /\ 2 * a + b < (2 * b) * q + 2 * b
  BY <1>1, <1>2 DEF Rounded
<1> HIDE DEF q
<1>4. (2 * b) * q = 2 * (q * b) /\ q * b \in Int
  BY <1>2
<1> DEFINE p == q * b
<1>5. -b <= 2 * (p - a) /\ 2 * (p - a) <= b
  <2> HIDE DEF p
  <2>1. (2 * b) * q = 2 * p /\ p \in Int
    BY <1>4 DEF p
  <2> QED
    BY <1>3, <2>1
<1> QED
  BY <1>2, <1>5 DEF q

\* The rank, what is left to the next and the percentage are right for every XP
\* (ranks.ts:20), however large.
THEOREM RanksAreExact == \A xp \in Nat : RankIsExact(xp)
<1> SUFFICES ASSUME NEW xp \in Nat PROVE RankIsExact(xp)
  OBVIOUS
<1> DEFINE S == {i \in DOMAIN Thresholds : xp >= Thresholds[i]}
           rank == Max(S)
<1>1. /\ DOMAIN Thresholds = 1 .. 11 /\ Len(Thresholds) = 11 /\ Thresholds[1] = 0
      /\ \A i \in 1 .. 11 : Thresholds[i] \in Nat
      /\ \A i \in 1 .. 10 : Thresholds[i] < Thresholds[i + 1]
  <2>1. DOMAIN Thresholds = 1 .. 11 /\ Len(Thresholds) = 11
    BY DEF Thresholds
  <2>2. /\ Thresholds[1] = 0 /\ Thresholds[2] = 100 /\ Thresholds[3] = 250
        /\ Thresholds[4] = 500 /\ Thresholds[5] = 900 /\ Thresholds[6] = 1400
        /\ Thresholds[7] = 2200 /\ Thresholds[8] = 3200 /\ Thresholds[9] = 4500
        /\ Thresholds[10] = 6000 /\ Thresholds[11] = 8000
    BY DEF Thresholds
  <2>3. \A i \in 1 .. 11 : i \in {1, 2, 3, 4, 5, 6, 7, 8, 9, 10, 11}
    OBVIOUS
  <2>4. \A i \in 1 .. 11 : Thresholds[i] \in Nat
    BY <2>2, <2>3
  <2>5. ASSUME NEW i \in 1 .. 10 PROVE Thresholds[i] < Thresholds[i + 1]
    <3>1. i \in {1, 2, 3, 4, 5, 6, 7, 8, 9, 10}
      OBVIOUS
    <3> QED
      BY <2>2, <3>1
  <2> QED
    BY <2>1, <2>2, <2>4, <2>5
<1> HIDE DEF Thresholds
<1>2. rank \in S /\ \A i \in S : rank >= i
  <2>1. S \in SUBSET (0 .. 11) /\ S # {}
    BY <1>1
  <2> HIDE DEF S
  <2> QED
    BY <2>1, GreatestNatural
<1> DEFINE last == rank = Len(Thresholds)
           span == IF last THEN 0 ELSE Thresholds[rank + 1] - Thresholds[rank]
<1>3. RankProgress(xp) =
          [rankNumber |-> rank,
           xpToNext   |-> IF last THEN 0 ELSE Thresholds[rank + 1] - xp,
           progress   |-> IF last THEN 100 ELSE Rounded(100 * (xp - Thresholds[rank]), span)]
  BY DEF RankProgress
<1>4. rank \in 1 .. 11 /\ xp >= Thresholds[rank]
  BY <1>1, <1>2
<1>5. \A i \in 1 .. 11 : i > rank => xp < Thresholds[i]
  <2> SUFFICES ASSUME NEW i \in 1 .. 11, i > rank, ~(xp < Thresholds[i]) PROVE FALSE
    OBVIOUS
  <2>1. i \in S
    BY <1>1
  <2> HIDE DEF S
  <2> QED
    BY <1>2, <1>4, <2>1
<1> HIDE DEF rank
<1>6. CASE rank = 11
  <2>1. RankProgress(xp).rankNumber = 11 /\ RankProgress(xp).xpToNext = 0
        /\ RankProgress(xp).progress = 100
    BY <1>1, <1>3, <1>6
  <2> QED
    BY <1>1, <1>4, <1>6, <2>1 DEF RankIsExact
<1>7. CASE rank # 11
  <2> DEFINE from == Thresholds[rank]
             next == Thresholds[rank + 1]
             part == Rounded(100 * (xp - from), next - from)
  <2>1. /\ rank \in 1 .. 10 /\ rank + 1 \in 1 .. 11 /\ from \in Nat /\ next \in Nat
        /\ from <= xp /\ xp < next
    BY <1>1, <1>4, <1>5, <1>7
  <2>2. RankProgress(xp) = [rankNumber |-> rank, xpToNext |-> next - xp, progress |-> part]
    BY <1>1, <1>3, <1>7
  <2>3. 100 * (xp - from) \in Nat /\ next - from \in Nat /\ next - from > 0
    <3> HIDE DEF from, next
    <3> QED
      BY <2>1
  <2>4. /\ -(next - from) <= 2 * (part * (next - from) - 100 * (xp - from))
        /\ 2 * (part * (next - from) - 100 * (xp - from)) <= next - from
    <3> HIDE DEF from, next
    <3> QED
      BY <2>3, RoundedIsNearest
  <2>5. xp + (next - xp) = next
    <3> HIDE DEF from, next
    <3> QED
      BY <2>1
  <2> HIDE DEF part
  <2>6. RankProgress(xp).rankNumber = rank /\ RankProgress(xp).xpToNext = next - xp
        /\ RankProgress(xp).progress = part
    BY <2>2
  <2> QED
    BY <1>1, <1>4, <1>7, <2>1, <2>4, <2>5, <2>6 DEF RankIsExact
<1> QED
  BY <1>6, <1>7
=============================================================================
