------------------------- MODULE GaltonPlaybackProofs -------------------------
(****************************************************************************)
(* Why the laboratory counts every ball once, for every simulation, frame   *)
(* time and change of speed, and why its page never offers to resume a run  *)
(* that has come to its end.  A frame is proved in the three parts that     *)
(* advance() has: time passes, a cohort is released, cohorts land.          *)
(****************************************************************************)
EXTENDS GaltonPlayback, FiniteSetTheorems, FunctionTheorems, TLAPS

InAir(r) == UNION {Trials(c) : c \in r.cohorts}

Down(r) == (0 .. r.released - 1) \ InAir(r)

DisjointCohorts(C) == \A c, d \in C : c # d => Trials(c) \cap Trials(d) = {}

RunFields == {"released", "processed", "bins", "carry", "sampleCarry", "cohorts", "particles"}

Cohort == [start : Nat, end : Nat, left : Nat]

\* The cohorts in the air: of released trials, and of no trial twice.
CohortsOK(r, n) ==
    /\ DOMAIN r = RunFields
    /\ r.released \in 0 .. n
    /\ r.carry \in Nat
    /\ r.cohorts \subseteq Cohort
    /\ \A c \in r.cohorts : c.start < c.end /\ c.end <= r.released
    /\ DisjointCohorts(r.cohorts)

\* The trials that have landed are counted.
CountsOK(r, sim) ==
    /\ r.processed = Cardinality(Down(r))
    /\ r.bins \in [Bins -> Nat]
    /\ \A b \in Bins : r.bins[b] = Cardinality({i \in Down(r) : sim[i] = b})

RunOK(r, sim) == CohortsOK(r, Cardinality(DOMAIN sim)) /\ CountsOK(r, sim)

-----------------------------------------------------------------------------
(* Counting.                                                                *)

\* A simulation has the outcome of finitely many balls.
LEMMA Balls ==
    ASSUME NEW sim \in Simulations
    PROVE  /\ Cardinality(DOMAIN sim) \in Nat
           /\ sim \in [0 .. Cardinality(DOMAIN sim) - 1 -> Bins]
BY GaltonAssumption

\* Math.min of two numbers.
LEMMA LeastOfTwo ==
    ASSUME NEW x \in Nat, NEW y \in Nat
    PROVE  Least({x, y}) \in {x, y} /\ Least({x, y}) <= x /\ Least({x, y}) <= y
<1>1. \E a \in {x, y} : \A b \in {x, y} : a <= b
  BY x <= y \/ y <= x
<1> QED
  BY <1>1 DEF Least

\* What is released and what is carried over are whole numbers.
LEMMA WholeBalls ==
    ASSUME NEW a \in Nat
    PROVE  a \div Unit \in Nat /\ a % Unit \in Nat
<1>1. Unit \in Nat /\ Unit > 0
  BY GaltonAssumption
<1>2. a % Unit \in Nat
  BY <1>1
<1>3. a \div Unit \in Int /\ a \div Unit >= 0
  BY <1>1
<1> QED
  BY <1>2, <1>3

\* The trials up to a number are finitely many, and so are those of them that have
\* some property.
LEMMA FinitelyManyTrials ==
    ASSUME NEW n \in Nat, NEW S, S \subseteq 0 .. n - 1
    PROVE  IsFiniteSet(S) /\ Cardinality(S) \in Nat
<1>1. IsFiniteSet(0 .. n - 1)
  BY FS_Interval
<1>2. IsFiniteSet(S)
  BY <1>1, FS_Subset
<1> QED
  BY <1>2, FS_CardinalityType

\* What is counted cohort by cohort is counted once, because no trial is of two
\* cohorts.
LEMMA PairsOfCohorts ==
    ASSUME NEW C, DisjointCohorts(C),
           NEW Q, Q \subseteq UNION {Trials(c) : c \in C}, IsFiniteSet(Q)
    PROVE  Cardinality({p \in UNION {{c} \X Trials(c) : c \in C} : p[2] \in Q})
               = Cardinality(Q)
<1> DEFINE P == {p \in UNION {{c} \X Trials(c) : c \in C} : p[2] \in Q}
           Of(i) == CHOOSE c \in C : i \in Trials(c)
           f == [i \in Q |-> <<Of(i), i>>]
<1>1. \A i \in Q : Of(i) \in C /\ i \in Trials(Of(i))
  OBVIOUS
<1>2. \A p \in P : /\ p = <<p[1], p[2]>> /\ p[1] \in C
                   /\ p[2] \in Trials(p[1]) /\ p[2] \in Q
  OBVIOUS
<1>3. \A i \in Q : <<Of(i), i>> \in P
  <2> TAKE i \in Q
  <2>1. PICK c \in C : c = Of(i) /\ i \in Trials(c)
    BY <1>1
  <2>2. <<c, i>> \in {c} \X Trials(c)
    BY <2>1
  <2>3. <<c, i>> \in UNION {{d} \X Trials(d) : d \in C}
    BY <2>2
  <2> QED
    BY <2>1, <2>3
<1>4. \A p \in P : p = <<Of(p[2]), p[2]>>
  <2> TAKE p \in P
  <2>1. p[1] \in C /\ Of(p[2]) \in C /\ p[2] \in Trials(p[1]) /\ p[2] \in Trials(Of(p[2]))
    BY <1>1, <1>2
  <2>2. p[1] = Of(p[2])
    BY <2>1 DEF DisjointCohorts
  <2> QED
    BY <1>2, <2>2
<1> HIDE DEF P, Of
<1>5. f \in Bijection(Q, P)
  <2>1. f \in [Q -> P]
    BY <1>3
  <2>2. \A i, j \in Q : f[i] = f[j] => i = j
    OBVIOUS
  <2>3. \A p \in P : \E i \in Q : f[i] = p
    BY <1>2, <1>4
  <2> QED
    BY <2>1, <2>2, <2>3, Fun_IsBij
<1>6. ExistsBijection(Q, P)
  BY <1>5 DEF ExistsBijection
<1> QED
  BY <1>6, FS_Bijection DEF P

\* Sets that share nothing are counted one after the other.
LEMMA CountBoth ==
    ASSUME NEW S, IsFiniteSet(S), NEW T, IsFiniteSet(T), S \cap T = {}
    PROVE  Cardinality(S \cup T) = Cardinality(S) + Cardinality(T)
<1>1. Cardinality(S \cap T) = 0
  BY FS_EmptySet
<1>2. Cardinality(S) \in Nat /\ Cardinality(T) \in Nat
  BY FS_CardinalityType
<1>3. Cardinality(S \cup T) = Cardinality(S) + Cardinality(T) - Cardinality(S \cap T)
  BY FS_Union
<1> QED
  BY <1>1, <1>2, <1>3
-----------------------------------------------------------------------------
(* The three parts of a frame.                                              *)

\* Time passes: the cohorts stay what they are, nearer to their landing.
LEMMA LaterOK ==
    ASSUME NEW r, NEW sim, RunOK(r, sim), NEW delta \in Nat, NEW carry \in Nat
    PROVE  RunOK([Later(r, delta) EXCEPT !.carry = carry], sim)
<1> DEFINE Fallen(c) == [c EXCEPT !.left = IF @ > delta THEN @ - delta ELSE 0]
           q == [Later(r, delta) EXCEPT !.carry = carry]
<1>1. /\ DOMAIN q = RunFields
      /\ q.released = r.released /\ q.processed = r.processed /\ q.bins = r.bins
      /\ q.carry = carry
      /\ q.cohorts = {Fallen(c) : c \in r.cohorts}
  BY DEF Later, RunOK, CohortsOK, RunFields
<1>2. \A c \in r.cohorts : /\ Fallen(c) \in Cohort
                           /\ Fallen(c).start = c.start /\ Fallen(c).end = c.end
                           /\ Trials(Fallen(c)) = Trials(c)
  <2> TAKE c \in r.cohorts
  <2>1. c \in Cohort
    BY DEF RunOK, CohortsOK
  <2>2. Fallen(c) \in Cohort /\ Fallen(c).start = c.start /\ Fallen(c).end = c.end
    BY <2>1 DEF Cohort
  <2> QED
    BY <2>2 DEF Trials
<1> HIDE DEF Fallen, q
<1>3. /\ q.cohorts \subseteq Cohort
      /\ \A c \in q.cohorts : c.start < c.end /\ c.end <= q.released
  BY <1>1, <1>2 DEF RunOK, CohortsOK
<1>4. DisjointCohorts(q.cohorts)
  BY <1>1, <1>2 DEF DisjointCohorts, RunOK, CohortsOK
<1>5. InAir(q) = InAir(r)
  BY <1>1, <1>2 DEF InAir
<1>6. Down(q) = Down(r)
  BY <1>1, <1>5 DEF Down
<1>7. CohortsOK(q, Cardinality(DOMAIN sim))
  BY <1>1, <1>3, <1>4 DEF RunOK, CohortsOK
<1>8. CountsOK(q, sim)
  BY <1>1, <1>6 DEF RunOK, CountsOK
<1> QED
  BY <1>7, <1>8 DEF RunOK, q

\* The new cohort is of the trials that follow those released before.
LEMMA ReleaseOK ==
    ASSUME NEW r, simulation \in Simulations, speed \in Speeds, RunOK(r, simulation),
           NEW amount \in Nat, NEW delta \in Nat
    PROVE  RunOK(Release(r, amount, delta), simulation)
<1> DEFINE end == Least({BallCount, r.released + amount \div Unit})
           cohort == [start |-> r.released, end |-> end, left |-> Duration[speed]]
           q == Release(r, amount, delta)
<1>1. /\ BallCount \in Nat /\ r.released \in Nat /\ r.released <= BallCount
      /\ amount \div Unit \in Nat
      /\ Duration[speed] \in Nat
  <2>1. BallCount \in Nat
    BY Balls DEF BallCount
  <2>2. r.released \in 0 .. BallCount
    BY DEF RunOK, CohortsOK, BallCount
  <2>3. amount \div Unit \in Nat
    BY WholeBalls
  <2>4. Duration[speed] \in Nat
    BY GaltonAssumption
  <2> QED
    BY <2>1, <2>2, <2>3, <2>4
<1>2. end \in Nat /\ end <= BallCount /\ end >= r.released
  BY <1>1, LeastOfTwo
<1>3. CASE end = r.released
  BY <1>3 DEF Release
<1>4. CASE end # r.released
  <2>1. /\ DOMAIN q = RunFields
        /\ q.released = end /\ q.processed = r.processed /\ q.bins = r.bins
        /\ q.carry = r.carry
        /\ q.cohorts = r.cohorts \cup {cohort}
    BY <1>4 DEF Release, RunOK, CohortsOK, RunFields
  <2>2. /\ cohort \in Cohort
        /\ cohort.start < cohort.end /\ cohort.end <= end
        /\ Trials(cohort) = r.released .. end - 1
    BY <1>1, <1>2, <1>4 DEF Cohort, Trials
  <2> HIDE DEF cohort, q
  <2>3. \A c \in r.cohorts : /\ c.start \in Nat /\ c.end \in Nat
                             /\ Trials(c) \subseteq 0 .. r.released - 1
    BY <1>1 DEF RunOK, CohortsOK, Cohort, Trials
  <2>4. \A c \in r.cohorts : Trials(c) \cap Trials(cohort) = {}
    <3> SUFFICES ASSUME NEW c \in r.cohorts, NEW i \in Trials(c), i \in Trials(cohort)
                 PROVE  FALSE
      OBVIOUS
    <3>1. i \in 0 .. r.released - 1 /\ i \in r.released .. end - 1
      BY <2>2, <2>3
    <3> QED
      BY <1>1, <1>2, <3>1
  <2>5. DisjointCohorts(q.cohorts)
    BY <2>1, <2>4 DEF DisjointCohorts, RunOK, CohortsOK
  <2>6. /\ q.released \in 0 .. BallCount
        /\ q.cohorts \subseteq Cohort
        /\ \A c \in q.cohorts : c.start < c.end /\ c.end <= q.released
    <3>1. \A c \in r.cohorts : c \in Cohort /\ c.start < c.end /\ c.end <= end
      BY <1>1, <1>2, <2>3 DEF RunOK, CohortsOK
    <3>2. q.released \in 0 .. BallCount
      BY <1>1, <1>2, <2>1
    <3> HIDE DEF end
    <3> QED
      BY <2>1, <2>2, <3>1, <3>2
  <2>7. Down(q) = Down(r)
    <3>1. InAir(q) = InAir(r) \cup (r.released .. end - 1)
      BY <2>1, <2>2 DEF InAir
    <3>2. InAir(r) \subseteq 0 .. r.released - 1
      BY <2>3 DEF InAir
    <3>3. 0 .. end - 1 = (0 .. r.released - 1) \cup (r.released .. end - 1)
      BY <1>1, <1>2
    <3>4. (0 .. r.released - 1) \cap (r.released .. end - 1) = {}
      BY <1>1, <1>2
    <3> QED
      BY <2>1, <3>1, <3>2, <3>3, <3>4 DEF Down
  <2>8. CohortsOK(q, BallCount)
    BY <2>1, <2>5, <2>6 DEF RunOK, CohortsOK
  <2>9. CountsOK(q, simulation)
    BY <2>1, <2>7 DEF RunOK, CountsOK
  <2> QED
    BY <2>8, <2>9 DEF RunOK, q, BallCount
<1> QED
  BY <1>3, <1>4

\* The trials of the cohorts that land are counted, each in its bin, and added to
\* those that had landed before.
LEMMA LandOK ==
    ASSUME NEW r, simulation \in Simulations, RunOK(r, simulation)
    PROVE  RunOK(Land(r), simulation)
<1> DEFINE landed == {c \in r.cohorts : c.left = 0}
           trials == UNION {Trials(c) : c \in landed}
           pairs == UNION {{c} \X Trials(c) : c \in landed}
           q == Land(r)
           InBin(b) == {i \in trials : simulation[i] = b}
<1>1. /\ BallCount \in Nat /\ simulation \in [0 .. BallCount - 1 -> Bins]
      /\ r.released \in Nat /\ r.released <= BallCount
      /\ \A c \in r.cohorts : Trials(c) \subseteq 0 .. r.released - 1
  BY Balls DEF RunOK, CohortsOK, BallCount, Cohort, Trials
<1>2. /\ landed \subseteq r.cohorts /\ DisjointCohorts(landed)
      /\ DisjointCohorts(r.cohorts)
  BY DEF RunOK, CohortsOK, DisjointCohorts
<1>3. trials \subseteq 0 .. r.released - 1 /\ trials \subseteq InAir(r)
  BY <1>1 DEF InAir
<1>4. /\ DOMAIN q = RunFields
      /\ q.released = r.released /\ q.carry = r.carry
      /\ q.cohorts = r.cohorts \ landed
      /\ q.processed = r.processed + Cardinality(pairs)
      /\ q.bins = [b \in Bins |->
                      r.bins[b] + Cardinality({p \in pairs : simulation[p[2]] = b})]
  BY DEF Land, LandedTrials, RunOK, CohortsOK, RunFields
<1>5. /\ IsFiniteSet(trials) /\ Cardinality(trials) \in Nat
      /\ \A b \in Bins : IsFiniteSet(InBin(b)) /\ Cardinality(InBin(b)) \in Nat
  BY <1>1, <1>3, FinitelyManyTrials
<1>6. Cardinality(pairs) = Cardinality(trials)
  <2>1. {p \in pairs : p[2] \in trials} = pairs
    OBVIOUS
  <2>2. Cardinality({p \in pairs : p[2] \in trials}) = Cardinality(trials)
    BY <1>2, <1>5, PairsOfCohorts
  <2> QED
    BY <2>1, <2>2
<1>7. \A b \in Bins : Cardinality({p \in pairs : simulation[p[2]] = b}) = Cardinality(InBin(b))
  <2> TAKE b \in Bins
  <2>1. {p \in pairs : p[2] \in InBin(b)} = {p \in pairs : simulation[p[2]] = b}
    OBVIOUS
  <2>2. Cardinality({p \in pairs : p[2] \in InBin(b)}) = Cardinality(InBin(b))
    BY <1>2, <1>5, PairsOfCohorts
  <2> QED
    BY <2>1, <2>2
<1> HIDE DEF pairs, q
<1>8. Down(q) = Down(r) \cup trials /\ Down(r) \cap trials = {}
  <2>1. InAir(q) = InAir(r) \ trials
    <3>1. ASSUME NEW c \in r.cohorts, c \notin landed, NEW i \in Trials(c)
          PROVE  i \notin trials
      BY <1>2, <3>1 DEF DisjointCohorts
    <3> QED
      BY <1>4, <3>1 DEF InAir
  <2> QED
    BY <1>3, <1>4, <2>1 DEF Down
<1>9. /\ IsFiniteSet(Down(r)) /\ Cardinality(Down(r)) \in Nat
      /\ \A b \in Bins : /\ IsFiniteSet({i \in Down(r) : simulation[i] = b})
                         /\ Cardinality({i \in Down(r) : simulation[i] = b}) \in Nat
  BY <1>1, FinitelyManyTrials DEF Down
<1>10. q.processed = Cardinality(Down(q))
  BY <1>4, <1>5, <1>6, <1>8, <1>9, CountBoth DEF RunOK, CountsOK
<1>11. \A b \in Bins : /\ q.bins[b] = Cardinality({i \in Down(q) : simulation[i] = b})
                       /\ q.bins[b] \in Nat
  <2> TAKE b \in Bins
  <2> DEFINE before == {i \in Down(r) : simulation[i] = b}
             after == {i \in Down(q) : simulation[i] = b}
  <2>1. after = before \cup InBin(b) /\ before \cap InBin(b) = {}
    BY <1>8
  <2>2. Cardinality(after) = Cardinality(before) + Cardinality(InBin(b))
    BY <1>5, <1>9, <2>1, CountBoth
  <2>3. q.bins[b] = r.bins[b] + Cardinality(InBin(b))
    BY <1>4, <1>7
  <2>4. r.bins[b] = Cardinality(before)
    BY DEF RunOK, CountsOK
  <2>5. Cardinality(before) \in Nat /\ Cardinality(InBin(b)) \in Nat
    BY <1>5, <1>9
  <2> HIDE DEF before, InBin
  <2>6. q.bins[b] = Cardinality(after) /\ q.bins[b] \in Nat
    BY <2>2, <2>3, <2>4, <2>5
  <2> QED
    BY <2>6
<1>12. q.bins \in [Bins -> Nat]
  BY <1>4, <1>11
<1>13. CohortsOK(q, BallCount)
  BY <1>4 DEF RunOK, CohortsOK, DisjointCohorts, BallCount
<1>14. CountsOK(q, simulation)
  BY <1>10, <1>11, <1>12 DEF CountsOK
<1> QED
  BY <1>13, <1>14 DEF RunOK, q, BallCount

\* advance() keeps the count.
LEMMA AdvanceOK ==
    ASSUME simulation \in Simulations, speed \in Speeds, RunOK(run, simulation),
           NEW d \in Deltas
    PROVE  RunOK(Advance(d), simulation)
<1> DEFINE delta == Least({d, MaxDelta})
           amount == run.carry + Rate[speed] * delta
           later == [Later(run, delta) EXCEPT !.carry = Carry(amount)]
<1>1. delta \in Nat
  BY LeastOfTwo, GaltonAssumption
<1>2. amount \in Nat
  <2>1. run.carry \in Nat /\ Rate[speed] \in Nat
    BY GaltonAssumption DEF RunOK, CohortsOK
  <2> HIDE DEF delta
  <2> QED
    BY <1>1, <2>1
<1>3. Carry(amount) \in Nat
  BY <1>2, WholeBalls DEF Carry
<1> HIDE DEF amount, delta
<1>4. RunOK(later, simulation)
  BY <1>1, <1>3, LaterOK
<1> HIDE DEF later
<1>5. RunOK(Release(later, amount, delta), simulation)
  BY <1>1, <1>2, <1>4, ReleaseOK
<1>6. RunOK(Land(Release(later, amount, delta)), simulation)
  BY <1>5, LandOK
<1> QED
  BY <1>6 DEF Advance, later, amount, delta
-----------------------------------------------------------------------------
(* The page.                                                                *)

\* What the page holds besides the run.
PageOK ==
    /\ finished \in BOOLEAN /\ reducedMotion \in BOOLEAN /\ running \in BOOLEAN
    /\ speed \in Speeds
    /\ progress \in [released : Nat, processed : Nat, bins : [Bins -> Nat]]
    /\ FinishedIsShown

RunAndPage == simulation \in Simulations /\ RunOK(run, simulation) /\ PageOK

\* The invariant, as what is said of the run and what is said of the page.
LEMMA InvariantIsParts == GaltonInv <=> RunAndPage
<1>1. DOMAIN Fresh = RunFields
  BY DEF Fresh, RunFields
<1>2. Settled = Down(run)
  BY DEF Settled, InFlight, Down, InAir
<1>3. ASSUME simulation \in Simulations, RunOK(run, simulation)
      PROVE  run.processed \in Nat
  <2>1. BallCount \in Nat /\ run.released \in 0 .. BallCount
    BY <1>3, Balls DEF RunOK, CohortsOK, BallCount
  <2>2. Cardinality(Down(run)) \in Nat
    BY <2>1, FinitelyManyTrials DEF Down
  <2> QED
    BY <1>3, <2>2 DEF RunOK, CountsOK
<1>4. TrialsCountedOnce /\ run.bins \in [Bins -> Nat]
          <=> CountsOK(run, simulation) /\ DisjointCohorts(run.cohorts)
  BY <1>2 DEF TrialsCountedOnce, CountsOK, DisjointCohorts
<1>5. ASSUME GaltonInv
      PROVE  simulation \in Simulations /\ RunOK(run, simulation) /\ PageOK
  <2>1. CohortsOK(run, Cardinality(DOMAIN simulation))
    BY <1>1, <1>4, <1>5 DEF GaltonInv, TypeOK, CohortsOK, Cohort, BallCount
  <2>2. CountsOK(run, simulation)
    BY <1>4, <1>5 DEF GaltonInv, TypeOK
  <2>3. PageOK
    BY <1>5 DEF GaltonInv, TypeOK, PageOK
  <2> QED
    BY <1>5, <2>1, <2>2, <2>3 DEF GaltonInv, TypeOK, RunOK
<1>6. ASSUME simulation \in Simulations, RunOK(run, simulation), PageOK
      PROVE  GaltonInv
  <2>1. TypeOK
    BY <1>1, <1>3, <1>6 DEF RunOK, CohortsOK, CountsOK, PageOK, TypeOK, Cohort, BallCount
  <2>2. TrialsCountedOnce
    BY <1>4, <1>6 DEF RunOK, CohortsOK
  <2> QED
    BY <1>6, <2>1, <2>2 DEF PageOK, GaltonInv
<1> QED
  BY <1>5, <1>6 DEF RunAndPage

\* The same of the next state.
LEMMA NextInvariantIsParts ==
    simulation' \in Simulations /\ RunOK(run', simulation') /\ PageOK' => GaltonInv'
<1>1. RunAndPage' => GaltonInv'
  BY InvariantIsParts, PTL
<1> QED
  BY <1>1 DEF RunAndPage

\* A new run has counted nothing.
LEMMA FreshOK ==
    ASSUME NEW sim \in Simulations
    PROVE  RunOK(Fresh, sim)
<1>1. /\ DOMAIN Fresh = RunFields /\ Fresh.released = 0 /\ Fresh.processed = 0
      /\ Fresh.carry = 0 /\ Fresh.cohorts = {}
      /\ Fresh.bins = [b \in Bins |-> 0]
  BY DEF Fresh, RunFields
<1>2. Cardinality(DOMAIN sim) \in Nat
  BY Balls
<1>3. Down(Fresh) = {} /\ Cardinality({}) = 0
  BY <1>1, FS_EmptySet DEF Down
<1>4. \A b \in Bins : {i \in Down(Fresh) : sim[i] = b} = {}
  BY <1>3
<1>5. CohortsOK(Fresh, Cardinality(DOMAIN sim))
  BY <1>1, <1>2 DEF CohortsOK, DisjointCohorts
<1>6. CountsOK(Fresh, sim)
  BY <1>1, <1>3, <1>4 DEF CountsOK
<1> QED
  BY <1>5, <1>6 DEF RunOK

\* What the page shows of a new run.
LEMMA FreshPage ==
    Snapshot(Fresh) \in [released : Nat, processed : Nat, bins : [Bins -> Nat]]
BY DEF Snapshot, Fresh

\* What the page is told of a run are numbers.
LEMMA SnapshotOK ==
    ASSUME NEW r, NEW sim \in Simulations, RunOK(r, sim)
    PROVE  Snapshot(r) \in [released : Nat, processed : Nat, bins : [Bins -> Nat]]
<1>1. Cardinality(DOMAIN sim) \in Nat /\ r.released \in 0 .. Cardinality(DOMAIN sim)
  BY Balls DEF RunOK, CohortsOK
<1>2. Cardinality(Down(r)) \in Nat
  BY <1>1, FinitelyManyTrials DEF Down
<1> QED
  BY <1>1, <1>2 DEF RunOK, CountsOK, Snapshot

-----------------------------------------------------------------------------
(* The steps.                                                               *)

\* The page opens with a new run.
LEMMA InitGalton == Init => GaltonInv
<1> SUFFICES ASSUME Init PROVE GaltonInv
  OBVIOUS
<1>1. PageOK
  BY FreshPage, GaltonAssumption DEF Init, PageOK, FinishedIsShown
<1> QED
  BY <1>1, FreshOK, InvariantIsParts DEF Init, RunAndPage

\* The frame that completes the run tells the page, and is the last one.
LEMMA FrameSafe ==
    ASSUME GaltonInv, NEW d \in Deltas, Frame(d)
    PROVE  GaltonInv'
<1>1. simulation \in Simulations /\ RunOK(run, simulation) /\ PageOK
  BY InvariantIsParts DEF RunAndPage
<1>2. /\ run' = Advance(d) /\ UNCHANGED <<simulation, reducedMotion, speed>>
      /\ progress' = Snapshot(run') \/ (~Complete(run)' /\ progress' = progress)
      /\ finished' = Complete(run)'
      /\ running' = ~finished'
  BY DEF Frame, MustReport, Complete, BallCount
<1>3. RunOK(run', simulation')
  BY <1>1, <1>2, AdvanceOK DEF PageOK
<1>4. progress' \in [released : Nat, processed : Nat, bins : [Bins -> Nat]]
  BY <1>1, <1>2, <1>3, SnapshotOK DEF PageOK
<1>5. finished' \in BOOLEAN /\ running' \in BOOLEAN
  BY <1>2 DEF Complete
<1>6. FinishedIsShown'
  <2> SUFFICES ASSUME finished'
               PROVE  progress'.processed = BallCount' /\ progress'.bins = run'.bins
                      /\ ~running'
    BY DEF FinishedIsShown
  <2>1. Complete(run)' /\ progress' = Snapshot(run')
    BY <1>2
  <2> QED
    BY <1>2, <2>1 DEF Complete, Snapshot
<1>7. PageOK'
  BY <1>1, <1>2, <1>4, <1>5, <1>6 DEF PageOK
<1> QED
  BY <1>1, <1>2, <1>3, <1>7, NextInvariantIsParts

\* A paused frame reports the run as it is.
LEMMA PausedFrameSafe ==
    ASSUME GaltonInv, PausedFrame
    PROVE  GaltonInv'
<1>1. simulation \in Simulations /\ RunOK(run, simulation) /\ PageOK
  BY InvariantIsParts DEF RunAndPage
<1>2. PageOK'
  BY <1>1, SnapshotOK DEF PausedFrame, PageOK, FinishedIsShown
<1> QED
  BY <1>1, <1>2, NextInvariantIsParts DEF PausedFrame

\* A new run replaces one that is complete or not.
LEMMA StartRunSafe ==
    ASSUME GaltonInv, StartRun
    PROVE  GaltonInv'
<1>1. simulation \in Simulations /\ RunOK(run, simulation) /\ PageOK
  BY InvariantIsParts DEF RunAndPage
<1>2. PageOK'
  BY <1>1, FreshPage DEF StartRun, PageOK, FinishedIsShown
<1> QED
  BY <1>2, FreshOK, NextInvariantIsParts DEF StartRun

\* A run that the page shows complete cannot be resumed.
LEMMA ToggleSafe ==
    ASSUME GaltonInv, Toggle
    PROVE  GaltonInv'
<1>1. simulation \in Simulations /\ RunOK(run, simulation) /\ PageOK
  BY InvariantIsParts DEF RunAndPage
<1>2. ~finished
  <2>1. BallCount \in Nat
    BY <1>1, Balls DEF BallCount
  <2> QED
    BY <1>1, <2>1 DEF Toggle, PageOK, FinishedIsShown
<1>3. PageOK'
  BY <1>1, <1>2 DEF Toggle, PageOK, FinishedIsShown
<1> QED
  BY <1>1, <1>3, NextInvariantIsParts DEF Toggle

\* Neither speed nor the motion preference touches what is counted.
LEMMA SettingsSafe ==
    ASSUME GaltonInv, SetSpeed \/ MotionPreference
    PROVE  GaltonInv'
<1>1. simulation \in Simulations /\ RunOK(run, simulation) /\ PageOK
  BY InvariantIsParts DEF RunAndPage
<1>2. CASE SetSpeed
  <2>1. PageOK'
    BY <1>1, <1>2 DEF SetSpeed, PageOK, FinishedIsShown, BallCount
  <2> QED
    BY <1>1, <1>2, <2>1, NextInvariantIsParts DEF SetSpeed
<1>3. CASE MotionPreference
  <2>1. /\ DOMAIN run' = RunFields
        /\ run'.released = run.released /\ run'.processed = run.processed
        /\ run'.bins = run.bins /\ run'.carry = run.carry /\ run'.cohorts = run.cohorts
    BY <1>1, <1>3 DEF MotionPreference, RunOK, CohortsOK, RunFields
  <2>2. Down(run') = Down(run)
    BY <2>1 DEF Down, InAir
  <2>3. RunOK(run', simulation)
    BY <1>1, <2>1, <2>2 DEF RunOK, CohortsOK, CountsOK
  <2>4. PageOK'
    BY <1>1, <1>3, <2>1 DEF MotionPreference, PageOK, FinishedIsShown, BallCount
  <2> QED
    BY <1>1, <1>3, <2>3, <2>4, NextInvariantIsParts DEF MotionPreference
<1> QED
  BY <1>2, <1>3

\* Every step keeps the invariant.
LEMMA NextGalton == GaltonInv /\ [Next]_vars => GaltonInv'
<1> SUFFICES ASSUME GaltonInv, [Next]_vars PROVE GaltonInv'
  OBVIOUS
<1>1. CASE UNCHANGED vars
  BY <1>1 DEF vars, GaltonInv, TypeOK, TrialsCountedOnce, FinishedIsShown, Settled,
              InFlight, BallCount
<1> QED
  BY <1>1, FrameSafe, PausedFrameSafe, StartRunSafe, ToggleSafe, SettingsSafe DEF Next

-----------------------------------------------------------------------------
(* The theorems.                                                            *)

\* The invariant of the playback and its page (galton-playback.ts,
\* GaltonCanvas.tsx:265-303, GaltonLabPage.tsx:136-158).
THEOREM GaltonInvariant == Spec => []GaltonInv
<1> QED
  BY InitGalton, NextGalton, PTL DEF Spec

\* Each released trial is in flight or counted, once, in the bin of its outcome,
\* although a change of speed lets newer cohorts land first
\* (galton-playback.ts:61-70).
THEOREM CountedOnce == Spec => []TrialsCountedOnce
<1>1. GaltonInv => TrialsCountedOnce
  BY DEF GaltonInv
<1> QED
  BY <1>1, GaltonInvariant, PTL

\* A run whose frames have stopped is shown complete and not running.
THEOREM CompletionShown == Spec => []FinishedIsShown
<1>1. GaltonInv => FinishedIsShown
  BY DEF GaltonInv
<1> QED
  BY <1>1, GaltonInvariant, PTL
=============================================================================
