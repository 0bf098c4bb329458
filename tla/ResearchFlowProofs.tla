------------------------- MODULE ResearchFlowProofs -------------------------
(***************************************************************************)
(* The invariants of ResearchFlow, for every set of plans and of answers.  *)
(* The plan and the evidence are sequences built by folds: what a fold     *)
(* makes is shown element by element, and an induction over the elements   *)
(* is a least counterexample.  The inductive invariant is Formed, the      *)
(* shape of the payload; each property adds what it needs to it.           *)
(***************************************************************************)
EXTENDS ResearchFlow, FiniteSetTheorems, SequenceTheorems, WellFoundedInduction, TLAPS

\* A set of numbers has a least one: an induction is the absence of a counterexample.
\* Intervals from 1 are ordered as their ends are, and inclusion is well founded.
LEMMA Least ==
  ASSUME NEW T \in SUBSET Nat, T # {}
  PROVE  \E n \in T : \A m \in T : n <= m
<1> DEFINE X == {1 .. n : n \in T}
           R == StrictSubsetOrdering(Nat)
<1>1. X \subseteq FiniteSubsetsOf(Nat)
  <2> SUFFICES ASSUME NEW n \in T PROVE 1 .. n \in FiniteSubsetsOf(Nat)
    OBVIOUS
  <2>1. n \in Nat
    OBVIOUS
  <2>2. IsFiniteSet(1 .. n)
    BY <2>1, FS_Interval
  <2>3. 1 .. n \subseteq Nat
    BY <2>1
  <2> QED BY <2>2, <2>3 DEF FiniteSubsetsOf
<1>2. X # {}
  OBVIOUS
<1>3. IsWellFoundedOn(R, FiniteSubsetsOf(Nat))
  BY FS_StrictSubsetOrderingWellFounded
<1>4. PICK x \in X : \A y \in X : ~(<<y, x>> \in R)
  <2> HIDE DEF X, R
  <2> QED BY <1>1, <1>2, <1>3, WFMin
<1>5. PICK n \in T : x = 1 .. n
  BY <1>4
<1>6. ASSUME NEW m \in T, m < n PROVE FALSE
  <2>1. m \in Nat /\ n \in Nat
    OBVIOUS
  <2>2. n \in 1 .. n /\ n \notin 1 .. m /\ 1 .. m \subseteq 1 .. n
    BY <1>6, <2>1
  <2>3. 1 .. m \in SUBSET Nat /\ 1 .. n \in SUBSET Nat
    BY <2>1
  <2>4. <<1 .. m, 1 .. n>> \in R
    BY <2>2, <2>3 DEF StrictSubsetOrdering
  <2> QED BY <1>4, <1>5, <2>4
<1> QED
  <2> SUFFICES ASSUME NEW m \in T PROVE n <= m
    OBVIOUS
  <2>1. m \in Nat /\ n \in Nat /\ ~(m < n)
    BY <1>6
  <2> QED BY <2>1

\* What holds of 0, and of the next number below n, holds up to n.
LEMMA UpTo ==
  ASSUME NEW n \in Nat, NEW T, 0 \in T, \A i \in 0 .. n - 1 : i \in T => i + 1 \in T
  PROVE  0 .. n \subseteq T
<1> SUFFICES ASSUME NEW j \in 0 .. n, j \notin T PROVE FALSE
  OBVIOUS
<1> DEFINE U == {i \in 0 .. n : i \notin T}
<1>1. U \in SUBSET Nat /\ U # {}
  OBVIOUS
<1>2. PICK i \in U : \A m \in U : i <= m
  <2> HIDE DEF U
  <2> QED BY <1>1, Least
<1>3. i \in 0 .. n /\ i \notin T
  OBVIOUS
<1>4. i - 1 \in 0 .. n - 1 /\ i - 1 \in 0 .. n /\ ~(i <= i - 1) /\ (i - 1) + 1 = i
  BY <1>3
<1>5. i - 1 \in T
  BY <1>2, <1>4
<1> QED BY <1>3, <1>4, <1>5

\* The highest index of a set that goes up to it.
LEMMA HighestIndex ==
  ASSUME NEW i \in Nat, NEW s \in SUBSET (1 .. i + 1), i + 1 \in s
  PROVE  Max(s) = i + 1
<1>1. \A x \in s : x \in Nat /\ x <= i + 1
  OBVIOUS
<1>2. \A x \in s : (\A y \in s : x >= y) => x = i + 1
  BY <1>1
<1>3. \A y \in s : i + 1 >= y
  BY <1>1
<1> QED BY <1>2, <1>3, Zenon DEF Max

\* What the fold of F over n elements is defined by: a function of their sets.
FoldOf(g, n, A, base, F) ==
  /\ g \in [SUBSET (1 .. n) -> A]
  /\ \A s \in SUBSET (1 .. n) : g[s] = IF s = {} THEN base ELSE F[<<Max(s), g[s \ {Max(s)}]>>]

\* There is one.
LEMMA FoldExists ==
  ASSUME NEW n \in Nat, NEW A, NEW base \in A, NEW F \in [(1 .. n) \X A -> A]
  PROVE  \E g : FoldOf(g, n, A, base, F)
<1> DEFINE Folds(i, g) ==
             /\ g \in [SUBSET (1 .. i) -> A]
             /\ \A s \in SUBSET (1 .. i) :
                  g[s] = IF s = {} THEN base ELSE F[<<Max(s), g[s \ {Max(s)}]>>]
           T == {i \in 0 .. n : \E g : Folds(i, g)}
<1>1. 0 \in T
  <2>1. 1 .. 0 = {} /\ SUBSET {} = {{}}
    OBVIOUS
  <2>2. Folds(0, [s \in SUBSET {} |-> base])
    BY <2>1
  <2> HIDE DEF Folds
  <2> QED BY <2>2
<1>2. ASSUME NEW i \in 0 .. n - 1, i \in T PROVE i + 1 \in T
  <2>1. PICK g : Folds(i, g)
    BY <1>2
  <2> DEFINE h == [s \in SUBSET (1 .. i + 1) |->
                     IF i + 1 \in s THEN F[<<i + 1, g[s \ {i + 1}]>>] ELSE g[s]]
  <2>0. i \in Nat /\ i + 1 \in 1 .. n
    OBVIOUS
  <2>2. ASSUME NEW s \in SUBSET (1 .. i + 1)
        PROVE  (i + 1 \notin s => s \in SUBSET (1 .. i)) /\ s \ {i + 1} \in SUBSET (1 .. i)
    <3>1. \A x \in s : x \in 1 .. i \/ x = i + 1
      BY <2>0
    <3> QED BY <3>1
  <2>3. h \in [SUBSET (1 .. i + 1) -> A]
    <3> SUFFICES ASSUME NEW s \in SUBSET (1 .. i + 1)
                 PROVE  (IF i + 1 \in s THEN F[<<i + 1, g[s \ {i + 1}]>>] ELSE g[s]) \in A
      OBVIOUS
    <3>1. g[s \ {i + 1}] \in A /\ (i + 1 \notin s => g[s] \in A)
      BY <2>1, <2>2
    <3>2. F[<<i + 1, g[s \ {i + 1}]>>] \in A
      BY <2>0, <3>1
    <3> QED BY <3>1, <3>2
  <2>4. ASSUME NEW s \in SUBSET (1 .. i + 1)
        PROVE  h[s] = IF s = {} THEN base ELSE F[<<Max(s), h[s \ {Max(s)}]>>]
    <3>1. CASE i + 1 \in s
      <4>1. Max(s) = i + 1 /\ s # {}
        BY <2>0, <3>1, HighestIndex
      <4>2. i + 1 \notin s \ {i + 1} /\ s \ {i + 1} \in SUBSET (1 .. i + 1)
        OBVIOUS
      <4>3. h[s \ {i + 1}] = g[s \ {i + 1}]
        BY <4>2
      <4>4. h[s] = F[<<i + 1, g[s \ {i + 1}]>>]
        BY <3>1
      <4> QED BY <4>1, <4>3, <4>4
    <3>2. CASE i + 1 \notin s
      <4>1. s \in SUBSET (1 .. i) /\ h[s] = g[s]
        BY <2>2, <3>2
      <4>2. s \ {Max(s)} \in SUBSET (1 .. i + 1) /\ i + 1 \notin s \ {Max(s)}
        BY <3>2
      <4>3. h[s \ {Max(s)}] = g[s \ {Max(s)}]
        BY <4>2
      <4>4. g[s] = IF s = {} THEN base ELSE F[<<Max(s), g[s \ {Max(s)}]>>]
        BY <2>1, <4>1
      <4> HIDE DEF h
      <4> QED BY <4>1, <4>3, <4>4
    <3> QED
      BY <3>1, <3>2
  <2>5. Folds(i + 1, h)
    BY <2>3, <2>4
  <2>6. i + 1 \in 0 .. n
    BY <2>0
  <2> HIDE DEF Folds, h
  <2> QED
    BY <2>5, <2>6
<1>3. n \in T
  <2>1. 0 .. n \subseteq T
    <3> HIDE DEF T
    <3> QED BY <1>1, <1>2, UpTo
  <2>2. n \in 0 .. n
    OBVIOUS
  <2> HIDE DEF T
  <2> QED
    BY <2>1, <2>2
<1>4. PICK g : Folds(n, g)
  BY <1>3
<1> QED
  BY <1>4 DEF FoldOf

\* A set of indices has a highest one.
LEMMA MaxIn ==
  ASSUME NEW n \in Nat, NEW s \in SUBSET (1 .. n), s # {}
  PROVE  Max(s) \in s /\ Max(s) \in 1 .. n /\ \A y \in s : Max(s) >= y
<1> DEFINE T == {n - x : x \in s}
<1>1. \A x \in s : x \in Nat /\ x <= n /\ n - x \in Nat
  OBVIOUS
<1>2. T \in SUBSET Nat /\ T # {}
  BY <1>1
<1>3. PICK m \in T : \A k \in T : m <= k
  <2> HIDE DEF T
  <2> QED BY <1>2, Least
<1>4. PICK x \in s : m = n - x
  BY <1>3
<1>5. \A y \in s : x >= y
  <2> SUFFICES ASSUME NEW y \in s PROVE x >= y
    OBVIOUS
  <2>1. n - y \in T
    OBVIOUS
  <2>2. n - x <= n - y
    BY <1>3, <1>4, <2>1
  <2> QED BY <1>1, <2>2
<1>6. Max(s) \in s /\ \A y \in s : Max(s) >= y
  BY <1>5 DEF Max
<1> QED BY <1>6

\* The indices up to i, and what is left when the highest is taken.
LEMMA FoldInterval ==
  ASSUME NEW n \in Nat, NEW i \in 1 .. n
  PROVE  /\ 1 .. i \in SUBSET (1 .. n) /\ 1 .. i # {}
         /\ Max(1 .. i) = i
         /\ (1 .. i) \ {i} = 1 .. (i - 1)
<1>1. i \in Nat /\ i >= 1 /\ i <= n
  OBVIOUS
<1>2. 1 .. i \in SUBSET (1 .. n) /\ i \in 1 .. i
  BY <1>1
<1>3. Max(1 .. i) = i
  <2>1. i - 1 \in Nat /\ (i - 1) + 1 = i
    BY <1>1
  <2>2. 1 .. i \in SUBSET (1 .. (i - 1) + 1)
    BY <2>1
  <2>3. (i - 1) + 1 \in 1 .. i
    BY <1>2, <2>1
  <2>4. Max(1 .. i) = (i - 1) + 1
    BY <2>1, <2>2, <2>3, HighestIndex
  <2> QED BY <2>1, <2>4
<1>4. (1 .. i) \ {i} = 1 .. (i - 1)
  BY <1>1
<1> QED BY <1>2, <1>3, <1>4

\* A record that is updated stays in its place.
LEMMA UpdatedSeq ==
  ASSUME NEW S, NEW evidence \in Seq(S), NEW r \in S
  PROVE  /\ Updated(evidence, r) \in Seq(S) /\ Len(Updated(evidence, r)) = Len(evidence)
         /\ \A i \in 1 .. Len(evidence) : Updated(evidence, r)[i] \in {evidence[i], r}
         /\ \A i \in 1 .. Len(evidence) : SameKey(Updated(evidence, r)[i], evidence[i])
<1> DEFINE n == Len(evidence)
           q == Updated(evidence, r)
<1>1. n \in Nat /\ evidence \in [1 .. n -> S] /\ DOMAIN evidence = 1 .. n
  BY LenProperties
<1>2. q = [i \in 1 .. n |->
             IF SameKey(evidence[i], r) /\ evidence[i].qualification # r.qualification
             THEN r ELSE evidence[i]]
  BY <1>1 DEF Updated
<1>3. q \in [1 .. n -> S]
  BY <1>1, <1>2
<1>4. q \in Seq(S) /\ Len(q) = n
  BY <1>1, <1>3, SeqDef, LenProperties
<1>5. ASSUME NEW i \in 1 .. n PROVE q[i] \in {evidence[i], r} /\ SameKey(q[i], evidence[i])
  BY <1>2 DEF SameKey
<1> QED BY <1>4, <1>5

-----------------------------------------------------------------------------
(* The folds of the model, element by element.                             *)

\* One element more of Selected, WithoutTasks, MergedEvidence and WithDependents.
SelectedNext(kept, t, ids) == IF t.id \in ids THEN Append(kept, t) ELSE kept
WithoutNext(kept, r, ids) == IF r.task \in ids THEN kept ELSE Append(kept, r)
MergedNext(all, r) == IF Has(all, r) THEN Updated(all, r) ELSE Append(all, r)
Onward(tasks, ids) == ids \cup {v.id : v \in {u \in TasksOf(tasks) : u.deps \cap ids # {}}}

\* The layers that validate_task_dag takes, one per task.
LEMMA Layers ==
  ASSUME NEW S, NEW plan \in Seq(S)
  PROVE  \E open :
           /\ open[0] = IdsOf(plan)
           /\ \A i \in 1 .. Len(plan) : open[i] = WithoutLayer(plan, open[i - 1])
           /\ LeftOver(plan) = open[Len(plan)]
<1> DEFINE n == Len(plan)
           A == SUBSET IdsOf(plan)
           F == [p \in (1 .. n) \X A |-> WithoutLayer(plan, p[2])]
           step(iter) == [s \in SUBSET (1 .. n) |->
                            IF s = {} THEN IdsOf(plan) ELSE WithoutLayer(plan, iter[s \ {Max(s)}])]
           iter == CHOOSE iter : iter = step(iter)
           open == [i \in 0 .. n |-> iter[1 .. i]]
<1>1. n \in Nat /\ DOMAIN plan = 1 .. n
  BY LenProperties
<1>2. LeftOver(plan) = iter[1 .. n]
  BY <1>1 DEF LeftOver, FoldLeft, MapThenFoldSet
<1>3. IdsOf(plan) \in A /\ F \in [(1 .. n) \X A -> A]
  BY DEF WithoutLayer
<1>4. \E g : g = step(g)
  <2>1. PICK g : FoldOf(g, n, A, IdsOf(plan), F)
    <3> HIDE DEF n, A, F
    <3> QED BY <1>1, <1>3, FoldExists
  <2>2. ASSUME NEW s \in SUBSET (1 .. n), s # {}
        PROVE  F[<<Max(s), g[s \ {Max(s)}]>>] = WithoutLayer(plan, g[s \ {Max(s)}])
    <3>1. Max(s) \in 1 .. n
      BY <1>1, <2>2, MaxIn
    <3>2. g[s \ {Max(s)}] \in A
      BY <2>1 DEF FoldOf
    <3> HIDE DEF A
    <3> QED BY <3>1, <3>2
  <2>3. g = step(g)
    <3> HIDE DEF F
    <3> QED BY <2>1, <2>2 DEF FoldOf
  <2> QED BY <2>3
<1>5. iter = step(iter)
  <2> HIDE DEF step
  <2> QED BY <1>4
<1>6. open[0] = IdsOf(plan)
  <2>1. 1 .. 0 = {} /\ 1 .. 0 \in SUBSET (1 .. n) /\ 0 \in 0 .. n
    BY <1>1
  <2> HIDE DEF iter
  <2> QED BY <1>5, <2>1
<1>7. ASSUME NEW i \in 1 .. n
      PROVE  open[i] = WithoutLayer(plan, open[i - 1])
  <2>1. i \in 0 .. n /\ i - 1 \in 0 .. n
    BY <1>1
  <2>2. /\ 1 .. i \in SUBSET (1 .. n) /\ 1 .. i # {} /\ Max(1 .. i) = i
        /\ (1 .. i) \ {i} = 1 .. (i - 1)
    BY <1>1, FoldInterval
  <2> HIDE DEF iter
  <2>3. iter[1 .. i] = WithoutLayer(plan, iter[(1 .. i) \ {i}])
    BY <1>5, <2>2
  <2> QED BY <2>1, <2>2, <2>3
<1>8. open[n] = iter[1 .. n]
  BY <1>1
<1>9. /\ open[0] = IdsOf(plan)
      /\ \A i \in 1 .. Len(plan) : open[i] = WithoutLayer(plan, open[i - 1])
      /\ LeftOver(plan) = open[Len(plan)]
  <2> HIDE DEF iter, open
  <2> QED BY <1>2, <1>6, <1>7, <1>8
<1> HIDE DEF open
<1> QED BY <1>9, Zenon

\* The tasks that are selected, one by one.
LEMMA SelectedSteps ==
  ASSUME NEW S, NEW plan \in Seq(S), NEW ids
  PROVE  \E kept :
           /\ kept[0] = << >>
           /\ \A i \in 1 .. Len(plan) : kept[i] = SelectedNext(kept[i - 1], plan[i], ids)
           /\ Selected(plan, ids) = kept[Len(plan)]
<1> DEFINE n == Len(plan)
           A == Seq(S)
           F == [p \in (1 .. n) \X A |-> SelectedNext(p[2], plan[p[1]], ids)]
           step(iter) == [s \in SUBSET (1 .. n) |->
                            IF s = {} THEN << >>
                            ELSE SelectedNext(iter[s \ {Max(s)}], plan[Max(s)], ids)]
           iter == CHOOSE iter : iter = step(iter)
           kept == [i \in 0 .. n |-> iter[1 .. i]]
<1>1. n \in Nat /\ DOMAIN plan = 1 .. n
  BY LenProperties
<1>2. Selected(plan, ids) = iter[1 .. n]
  BY <1>1 DEF Selected, SelectedNext, FoldLeft, MapThenFoldSet
<1>3. << >> \in A /\ F \in [(1 .. n) \X A -> A]
  <2> SUFFICES ASSUME NEW p \in (1 .. n) \X A
               PROVE  SelectedNext(p[2], plan[p[1]], ids) \in A
    BY EmptySeq
  <2>1. plan[p[1]] \in S /\ p[2] \in Seq(S)
    BY <1>1, ElementOfSeq
  <2> QED BY <2>1, AppendProperties DEF SelectedNext
<1>4. \E g : g = step(g)
  <2>1. PICK g : FoldOf(g, n, A, << >>, F)
    <3> HIDE DEF n, A, F
    <3> QED BY <1>1, <1>3, FoldExists
  <2>2. ASSUME NEW s \in SUBSET (1 .. n), s # {}
        PROVE  F[<<Max(s), g[s \ {Max(s)}]>>] = SelectedNext(g[s \ {Max(s)}], plan[Max(s)], ids)
    <3>1. Max(s) \in 1 .. n
      BY <1>1, <2>2, MaxIn
    <3>2. g[s \ {Max(s)}] \in A
      BY <2>1 DEF FoldOf
    <3> HIDE DEF A
    <3> QED BY <3>1, <3>2
  <2>3. g = step(g)
    <3> HIDE DEF F
    <3> QED BY <2>1, <2>2 DEF FoldOf
  <2> QED BY <2>3
<1>5. iter = step(iter)
  <2> HIDE DEF step
  <2> QED BY <1>4
<1>6. kept[0] = << >>
  <2>1. 1 .. 0 = {} /\ 1 .. 0 \in SUBSET (1 .. n) /\ 0 \in 0 .. n
    BY <1>1
  <2> HIDE DEF iter
  <2> QED BY <1>5, <2>1
<1>7. ASSUME NEW i \in 1 .. n
      PROVE  kept[i] = SelectedNext(kept[i - 1], plan[i], ids)
  <2>1. i \in 0 .. n /\ i - 1 \in 0 .. n
    BY <1>1
  <2>2. /\ 1 .. i \in SUBSET (1 .. n) /\ 1 .. i # {} /\ Max(1 .. i) = i
        /\ (1 .. i) \ {i} = 1 .. (i - 1)
    BY <1>1, FoldInterval
  <2> HIDE DEF iter
  <2>3. iter[1 .. i] = SelectedNext(iter[(1 .. i) \ {i}], plan[i], ids)
    BY <1>5, <2>2
  <2> QED BY <2>1, <2>2, <2>3
<1>8. kept[n] = iter[1 .. n]
  BY <1>1
<1>9. /\ kept[0] = << >>
      /\ \A i \in 1 .. Len(plan) : kept[i] = SelectedNext(kept[i - 1], plan[i], ids)
      /\ Selected(plan, ids) = kept[Len(plan)]
  <2> HIDE DEF iter, kept
  <2> QED BY <1>2, <1>6, <1>7, <1>8
<1> HIDE DEF kept
<1> QED BY <1>9, Zenon

\* The records that stay, one by one.
LEMMA WithoutTasksSteps ==
  ASSUME NEW S, NEW evidence \in Seq(S), NEW ids
  PROVE  \E kept :
           /\ kept[0] = << >>
           /\ \A i \in 1 .. Len(evidence) : kept[i] = WithoutNext(kept[i - 1], evidence[i], ids)
           /\ WithoutTasks(evidence, ids) = kept[Len(evidence)]
<1> DEFINE n == Len(evidence)
           A == Seq(S)
           F == [p \in (1 .. n) \X A |-> WithoutNext(p[2], evidence[p[1]], ids)]
           step(iter) == [s \in SUBSET (1 .. n) |->
                            IF s = {} THEN << >>
                            ELSE WithoutNext(iter[s \ {Max(s)}], evidence[Max(s)], ids)]
           iter == CHOOSE iter : iter = step(iter)
           kept == [i \in 0 .. n |-> iter[1 .. i]]
<1>1. n \in Nat /\ DOMAIN evidence = 1 .. n
  BY LenProperties
<1>2. WithoutTasks(evidence, ids) = iter[1 .. n]
  BY <1>1 DEF WithoutTasks, WithoutNext, FoldLeft, MapThenFoldSet
<1>3. << >> \in A /\ F \in [(1 .. n) \X A -> A]
  <2> SUFFICES ASSUME NEW p \in (1 .. n) \X A
               PROVE  WithoutNext(p[2], evidence[p[1]], ids) \in A
    BY EmptySeq
  <2>1. evidence[p[1]] \in S /\ p[2] \in Seq(S)
    BY <1>1, ElementOfSeq
  <2> QED BY <2>1, AppendProperties DEF WithoutNext
<1>4. \E g : g = step(g)
  <2>1. PICK g : FoldOf(g, n, A, << >>, F)
    <3> HIDE DEF n, A, F
    <3> QED BY <1>1, <1>3, FoldExists
  <2>2. ASSUME NEW s \in SUBSET (1 .. n), s # {}
        PROVE  F[<<Max(s), g[s \ {Max(s)}]>>] = WithoutNext(g[s \ {Max(s)}], evidence[Max(s)], ids)
    <3>1. Max(s) \in 1 .. n
      BY <1>1, <2>2, MaxIn
    <3>2. g[s \ {Max(s)}] \in A
      BY <2>1 DEF FoldOf
    <3> HIDE DEF A
    <3> QED BY <3>1, <3>2
  <2>3. g = step(g)
    <3> HIDE DEF F
    <3> QED BY <2>1, <2>2 DEF FoldOf
  <2> QED BY <2>3
<1>5. iter = step(iter)
  <2> HIDE DEF step
  <2> QED BY <1>4
<1>6. kept[0] = << >>
  <2>1. 1 .. 0 = {} /\ 1 .. 0 \in SUBSET (1 .. n) /\ 0 \in 0 .. n
    BY <1>1
  <2> HIDE DEF iter
  <2> QED BY <1>5, <2>1
<1>7. ASSUME NEW i \in 1 .. n
      PROVE  kept[i] = WithoutNext(kept[i - 1], evidence[i], ids)
  <2>1. i \in 0 .. n /\ i - 1 \in 0 .. n
    BY <1>1
  <2>2. /\ 1 .. i \in SUBSET (1 .. n) /\ 1 .. i # {} /\ Max(1 .. i) = i
        /\ (1 .. i) \ {i} = 1 .. (i - 1)
    BY <1>1, FoldInterval
  <2> HIDE DEF iter
  <2>3. iter[1 .. i] = WithoutNext(iter[(1 .. i) \ {i}], evidence[i], ids)
    BY <1>5, <2>2
  <2> QED BY <2>1, <2>2, <2>3
<1>8. kept[n] = iter[1 .. n]
  BY <1>1
<1>9. /\ kept[0] = << >>
      /\ \A i \in 1 .. Len(evidence) : kept[i] = WithoutNext(kept[i - 1], evidence[i], ids)
      /\ WithoutTasks(evidence, ids) = kept[Len(evidence)]
  <2> HIDE DEF iter, kept
  <2> QED BY <1>2, <1>6, <1>7, <1>8
<1> HIDE DEF kept
<1> QED BY <1>9, Zenon

\* The records of an answer, merged one by one.
LEMMA MergedSteps ==
  ASSUME NEW S, NEW evidence \in Seq(S), NEW records \in Seq(S)
  PROVE  \E all :
           /\ all[0] = evidence
           /\ \A i \in 1 .. Len(records) : all[i] = MergedNext(all[i - 1], records[i])
           /\ MergedEvidence(evidence, records) = all[Len(records)]
<1> DEFINE n == Len(records)
           A == Seq(S)
           F == [p \in (1 .. n) \X A |-> MergedNext(p[2], records[p[1]])]
           step(iter) == [s \in SUBSET (1 .. n) |->
                            IF s = {} THEN evidence
                            ELSE MergedNext(iter[s \ {Max(s)}], records[Max(s)])]
           iter == CHOOSE iter : iter = step(iter)
           all == [i \in 0 .. n |-> iter[1 .. i]]
<1>1. n \in Nat /\ DOMAIN records = 1 .. n
  BY LenProperties
<1>2. MergedEvidence(evidence, records) = iter[1 .. n]
  BY <1>1 DEF MergedEvidence, MergedNext, FoldLeft, MapThenFoldSet
<1>3. evidence \in A /\ F \in [(1 .. n) \X A -> A]
  <2> SUFFICES ASSUME NEW p \in (1 .. n) \X A
               PROVE  MergedNext(p[2], records[p[1]]) \in A
    OBVIOUS
  <2>1. records[p[1]] \in S /\ p[2] \in Seq(S)
    BY <1>1, ElementOfSeq
  <2>2. Updated(p[2], records[p[1]]) \in Seq(S)
    BY <2>1, UpdatedSeq
  <2> QED BY <2>1, <2>2, AppendProperties DEF MergedNext
<1>4. \E g : g = step(g)
  <2>1. PICK g : FoldOf(g, n, A, evidence, F)
    <3> HIDE DEF n, A, F
    <3> QED BY <1>1, <1>3, FoldExists
  <2>2. ASSUME NEW s \in SUBSET (1 .. n), s # {}
        PROVE  F[<<Max(s), g[s \ {Max(s)}]>>] = MergedNext(g[s \ {Max(s)}], records[Max(s)])
    <3>1. Max(s) \in 1 .. n
      BY <1>1, <2>2, MaxIn
    <3>2. g[s \ {Max(s)}] \in A
      BY <2>1 DEF FoldOf
    <3> HIDE DEF A
    <3> QED BY <3>1, <3>2
  <2>3. g = step(g)
    <3> HIDE DEF F
    <3> QED BY <2>1, <2>2 DEF FoldOf
  <2> QED BY <2>3
<1>5. iter = step(iter)
  <2> HIDE DEF step
  <2> QED BY <1>4
<1>6. all[0] = evidence
  <2>1. 1 .. 0 = {} /\ 1 .. 0 \in SUBSET (1 .. n) /\ 0 \in 0 .. n
    BY <1>1
  <2> HIDE DEF iter
  <2> QED BY <1>5, <2>1
<1>7. ASSUME NEW i \in 1 .. n
      PROVE  all[i] = MergedNext(all[i - 1], records[i])
  <2>1. i \in 0 .. n /\ i - 1 \in 0 .. n
    BY <1>1
  <2>2. /\ 1 .. i \in SUBSET (1 .. n) /\ 1 .. i # {} /\ Max(1 .. i) = i
        /\ (1 .. i) \ {i} = 1 .. (i - 1)
    BY <1>1, FoldInterval
  <2> HIDE DEF iter
  <2>3. iter[1 .. i] = MergedNext(iter[(1 .. i) \ {i}], records[i])
    BY <1>5, <2>2
  <2> QED BY <2>1, <2>2, <2>3
<1>8. all[n] = iter[1 .. n]
  BY <1>1
<1>9. /\ all[0] = evidence
      /\ \A i \in 1 .. Len(records) : all[i] = MergedNext(all[i - 1], records[i])
      /\ MergedEvidence(evidence, records) = all[Len(records)]
  <2> HIDE DEF iter, all
  <2> QED BY <1>2, <1>6, <1>7, <1>8
<1> HIDE DEF all
<1> QED BY <1>9, Zenon

\* The tasks that a reset reaches, one level of dependents after another.
LEMMA DependentsSteps ==
  ASSUME NEW S, NEW tasks \in Seq(S), NEW reset
  PROVE  \E ids :
           /\ ids[0] = reset
           /\ \A i \in 1 .. Len(tasks) : ids[i] = Onward(tasks, ids[i - 1])
           /\ WithDependents(tasks, reset) = ids[Len(tasks)]
<1> DEFINE n == Len(tasks)
           A == SUBSET (reset \cup IdsOf(tasks))
           F == [p \in (1 .. n) \X A |-> Onward(tasks, p[2])]
           step(iter) == [s \in SUBSET (1 .. n) |->
                            IF s = {} THEN reset ELSE Onward(tasks, iter[s \ {Max(s)}])]
           iter == CHOOSE iter : iter = step(iter)
           ids == [i \in 0 .. n |-> iter[1 .. i]]
<1>1. n \in Nat /\ DOMAIN tasks = 1 .. n
  BY LenProperties
<1>2. WithDependents(tasks, reset) = iter[1 .. n]
  BY <1>1 DEF WithDependents, Onward, FoldLeft, MapThenFoldSet
<1>3. reset \in A /\ F \in [(1 .. n) \X A -> A]
  BY DEF Onward, IdsOf
<1>4. \E g : g = step(g)
  <2>1. PICK g : FoldOf(g, n, A, reset, F)
    <3> HIDE DEF n, A, F
    <3> QED BY <1>1, <1>3, FoldExists
  <2>2. ASSUME NEW s \in SUBSET (1 .. n), s # {}
        PROVE  F[<<Max(s), g[s \ {Max(s)}]>>] = Onward(tasks, g[s \ {Max(s)}])
    <3>1. Max(s) \in 1 .. n
      BY <1>1, <2>2, MaxIn
    <3>2. g[s \ {Max(s)}] \in A
      BY <2>1 DEF FoldOf
    <3> HIDE DEF A
    <3> QED BY <3>1, <3>2
  <2>3. g = step(g)
    <3> HIDE DEF F
    <3> QED BY <2>1, <2>2 DEF FoldOf
  <2> QED BY <2>3
<1>5. iter = step(iter)
  <2> HIDE DEF step
  <2> QED BY <1>4
<1>6. ids[0] = reset
  <2>1. 1 .. 0 = {} /\ 1 .. 0 \in SUBSET (1 .. n) /\ 0 \in 0 .. n
    BY <1>1
  <2> HIDE DEF iter
  <2> QED BY <1>5, <2>1
<1>7. ASSUME NEW i \in 1 .. n
      PROVE  ids[i] = Onward(tasks, ids[i - 1])
  <2>1. i \in 0 .. n /\ i - 1 \in 0 .. n
    BY <1>1
  <2>2. /\ 1 .. i \in SUBSET (1 .. n) /\ 1 .. i # {} /\ Max(1 .. i) = i
        /\ (1 .. i) \ {i} = 1 .. (i - 1)
    BY <1>1, FoldInterval
  <2> HIDE DEF iter
  <2>3. iter[1 .. i] = Onward(tasks, iter[(1 .. i) \ {i}])
    BY <1>5, <2>2
  <2> QED BY <2>1, <2>2, <2>3
<1>8. ids[n] = iter[1 .. n]
  BY <1>1
<1>9. /\ ids[0] = reset
      /\ \A i \in 1 .. Len(tasks) : ids[i] = Onward(tasks, ids[i - 1])
      /\ WithDependents(tasks, reset) = ids[Len(tasks)]
  <2> HIDE DEF iter, ids
  <2> QED BY <1>2, <1>6, <1>7, <1>8
<1> HIDE DEF ids
<1> QED BY <1>9, Zenon

\* What is selected are tasks of the plan, and of these ids.
LEMMA SelectedTasks ==
  ASSUME NEW S, NEW plan \in Seq(S), NEW ids
  PROVE  Selected(plan, ids) \in Seq({t \in TasksOf(plan) : t.id \in ids})
<1> DEFINE n == Len(plan)
           U == {t \in TasksOf(plan) : t.id \in ids}
<1>1. n \in Nat /\ DOMAIN plan = 1 .. n
  BY LenProperties
<1>2. PICK kept : /\ kept[0] = << >>
                  /\ \A i \in 1 .. Len(plan) :
                       kept[i] = IF plan[i].id \in ids THEN Append(kept[i - 1], plan[i])
                                                       ELSE kept[i - 1]
                  /\ Selected(plan, ids) = kept[Len(plan)]
  BY SelectedSteps DEF SelectedNext
<1> DEFINE T == {i \in 0 .. n : kept[i] \in Seq(U)}
<1>3. 0 \in T
  <2> HIDE DEF U
  <2>1. kept[0] \in Seq(U) /\ 0 \in 0 .. n
    BY <1>1, <1>2, EmptySeq
  <2> QED BY <2>1
<1>4. ASSUME NEW i \in 0 .. n - 1, i \in T PROVE i + 1 \in T
  <2>1. i + 1 \in 1 .. n /\ i + 1 \in 0 .. n /\ (i + 1) - 1 = i
    BY <1>1
  <2>2. kept[i] \in Seq(U)
    BY <1>4
  <2>3. kept[i + 1] = IF plan[i + 1].id \in ids THEN Append(kept[i], plan[i + 1]) ELSE kept[i]
    BY <1>2, <2>1
  <2>4. plan[i + 1] \in TasksOf(plan)
    BY <1>1, <2>1 DEF TasksOf
  <2>5. plan[i + 1].id \in ids => Append(kept[i], plan[i + 1]) \in Seq(U)
    BY <2>2, <2>4, AppendProperties
  <2>6. kept[i + 1] \in Seq(U)
    BY <2>2, <2>3, <2>5
  <2> QED BY <2>1, <2>6
<1>5. n \in T
  <2> HIDE DEF T
  <2>1. 0 .. n \subseteq T
    BY <1>1, <1>3, <1>4, UpTo
  <2> QED BY <1>1, <2>1
<1> QED BY <1>2, <1>5

\* Every id and content of a record once.
Once(evidence) == \A i, j \in DOMAIN evidence : SameKey(evidence[i], evidence[j]) => i = j

\* What a replan leaves are records of the run, none of a task that is reset, and
\* none of them twice.
LEMMA WithoutTasksOnce ==
  ASSUME NEW S, NEW evidence \in Seq(S), NEW ids, Once(evidence)
  PROVE  /\ WithoutTasks(evidence, ids) \in Seq(S)
         /\ Once(WithoutTasks(evidence, ids))
<1> DEFINE n == Len(evidence)
           Kept(i, q) == /\ q \in Seq(S)
                         /\ \A k \in 1 .. Len(q) : \E j \in 1 .. i : q[k] = evidence[j]
                         /\ Once(q)
<1>1. n \in Nat /\ DOMAIN evidence = 1 .. n
  BY LenProperties
<1>2. PICK kept : /\ kept[0] = << >>
                  /\ \A i \in 1 .. Len(evidence) :
                       kept[i] = IF evidence[i].task \in ids THEN kept[i - 1]
                                                             ELSE Append(kept[i - 1], evidence[i])
                  /\ WithoutTasks(evidence, ids) = kept[Len(evidence)]
  BY WithoutTasksSteps DEF WithoutNext
<1> DEFINE T == {i \in 0 .. n : Kept(i, kept[i])}
<1>3. 0 \in T
  <2>1. kept[0] \in Seq(S) /\ Len(kept[0]) = 0 /\ DOMAIN kept[0] = {}
    BY <1>2, EmptySeq
  <2> QED BY <1>1, <2>1 DEF Once
<1>4. ASSUME NEW i \in 0 .. n - 1, i \in T PROVE i + 1 \in T
  <2>1. i + 1 \in 1 .. n /\ i + 1 \in 0 .. n /\ (i + 1) - 1 = i /\ i \in Nat
    BY <1>1
  <2>2. Kept(i, kept[i])
    BY <1>4
  <2>3. kept[i + 1] = IF evidence[i + 1].task \in ids THEN kept[i]
                                                      ELSE Append(kept[i], evidence[i + 1])
    BY <1>2, <2>1
  <2>4. Kept(i + 1, kept[i])
    <3>1. 1 .. i \subseteq 1 .. (i + 1)
      BY <2>1
    <3> QED BY <2>2, <3>1
  <2>5. Kept(i + 1, Append(kept[i], evidence[i + 1]))
    <3> DEFINE q == kept[i]
               m == Len(q)
               p == Append(q, evidence[i + 1])
    <3>1. evidence[i + 1] \in S
      BY <2>1, ElementOfSeq
    <3>2. q \in Seq(S) /\ m \in Nat /\ DOMAIN q = 1 .. m
      BY <2>2, LenProperties
    <3>3. /\ p \in Seq(S) /\ Len(p) = m + 1 /\ p[m + 1] = evidence[i + 1]
          /\ \A k \in 1 .. m : p[k] = q[k]
      BY <3>1, <3>2, AppendProperties
    <3>4. DOMAIN p = 1 .. (m + 1)
      BY <3>3, LenProperties
    <3> HIDE DEF p
    <3>5. ASSUME NEW k \in 1 .. m
          PROVE  /\ \E j \in 1 .. i : p[k] = evidence[j]
                 /\ ~SameKey(p[k], p[m + 1]) /\ ~SameKey(p[m + 1], p[k])
      <4>1. PICK j \in 1 .. i : q[k] = evidence[j]
        BY <2>2
      <4>2. j \in DOMAIN evidence /\ i + 1 \in DOMAIN evidence /\ j # i + 1
        BY <1>1, <2>1
      <4>3. ~SameKey(evidence[j], evidence[i + 1]) /\ ~SameKey(evidence[i + 1], evidence[j])
        BY <4>2 DEF Once
      <4> QED BY <3>3, <4>1, <4>3
    <3>6. \A k \in 1 .. (m + 1) : \E j \in 1 .. (i + 1) : p[k] = evidence[j]
      <4>1. \A k \in 1 .. (m + 1) : k \in 1 .. m \/ k = m + 1
        BY <3>2
      <4>2. 1 .. i \subseteq 1 .. (i + 1) /\ i + 1 \in 1 .. (i + 1)
        BY <2>1
      <4> QED BY <3>3, <3>5, <4>1, <4>2
    <3>7. Once(p)
      <4> SUFFICES ASSUME NEW a \in 1 .. (m + 1), NEW b \in 1 .. (m + 1), SameKey(p[a], p[b])
                   PROVE  a = b
        BY <3>4 DEF Once
      <4>1. (a \in 1 .. m \/ a = m + 1) /\ (b \in 1 .. m \/ b = m + 1)
        BY <3>2
      <4>2. CASE a \in 1 .. m /\ b \in 1 .. m
        BY <2>2, <3>2, <3>3, <4>2 DEF Once
      <4> QED BY <3>5, <4>1, <4>2
    <3> QED BY <3>3, <3>6, <3>7 DEF p
  <2> HIDE DEF Kept
  <2>6. Kept(i + 1, kept[i + 1])
    BY <2>3, <2>4, <2>5
  <2> QED BY <2>1, <2>6
<1>5. n \in T
  <2> HIDE DEF T
  <2>1. 0 .. n \subseteq T
    BY <1>1, <1>3, <1>4, UpTo
  <2> QED BY <1>1, <2>1
<1> QED BY <1>2, <1>5

\* Merging an answer leaves a sequence in which every id and content occurs once,
\* however often the answer repeats it.
LEMMA MergedOnce ==
  ASSUME NEW S, NEW evidence \in Seq(S), NEW records \in Seq(S), Once(evidence)
  PROVE  MergedEvidence(evidence, records) \in Seq(S) /\ Once(MergedEvidence(evidence, records))
<1> DEFINE n == Len(records)
           Good(q) == q \in Seq(S) /\ Once(q)
<1>1. n \in Nat /\ DOMAIN records = 1 .. n
  BY LenProperties
<1>2. PICK all : /\ all[0] = evidence
                 /\ \A i \in 1 .. Len(records) :
                      all[i] = IF Has(all[i - 1], records[i]) THEN Updated(all[i - 1], records[i])
                                                              ELSE Append(all[i - 1], records[i])
                 /\ MergedEvidence(evidence, records) = all[Len(records)]
  BY MergedSteps DEF MergedNext
<1> DEFINE T == {i \in 0 .. n : Good(all[i])}
<1>3. 0 \in T
  BY <1>1, <1>2
<1>4. ASSUME NEW i \in 0 .. n - 1, i \in T PROVE i + 1 \in T
  <2> DEFINE q == all[i]
             r == records[i + 1]
             m == Len(q)
  <2>1. i + 1 \in 1 .. n /\ i + 1 \in 0 .. n /\ (i + 1) - 1 = i
    BY <1>1
  <2>2. q \in Seq(S) /\ Once(q) /\ r \in S /\ m \in Nat /\ DOMAIN q = 1 .. m
    BY <1>4, <2>1, ElementOfSeq, LenProperties
  <2>3. all[i + 1] = IF Has(q, r) THEN Updated(q, r) ELSE Append(q, r)
    BY <1>2, <2>1
  <2> HIDE DEF q, r
  <2>4. Good(Updated(q, r))
    <3> DEFINE p == Updated(q, r)
    <3>1. p \in Seq(S) /\ Len(p) = m /\ \A k \in 1 .. m : SameKey(p[k], q[k])
      BY <2>2, UpdatedSeq
    <3>2. DOMAIN p = 1 .. m
      BY <3>1, LenProperties
    <3> HIDE DEF p
    <3>3. ASSUME NEW a \in 1 .. m, NEW b \in 1 .. m, SameKey(p[a], p[b])
          PROVE  a = b
      <4>1. SameKey(q[a], q[b])
        BY <3>1, <3>3 DEF SameKey
      <4> QED BY <2>2, <4>1 DEF Once
    <3> QED BY <3>1, <3>2, <3>3 DEF Once, p
  <2>5. ASSUME ~Has(q, r) PROVE Good(Append(q, r))
    <3> DEFINE p == Append(q, r)
    <3>1. /\ p \in Seq(S) /\ Len(p) = m + 1 /\ p[m + 1] = r
          /\ \A k \in 1 .. m : p[k] = q[k]
      BY <2>2, AppendProperties
    <3>2. DOMAIN p = 1 .. (m + 1)
      BY <3>1, LenProperties
    <3> HIDE DEF p
    <3>3. \A k \in 1 .. m : ~SameKey(p[k], p[m + 1]) /\ ~SameKey(p[m + 1], p[k])
      BY <2>2, <2>5, <3>1 DEF Has, SameKey
    <3>4. ASSUME NEW a \in 1 .. (m + 1), NEW b \in 1 .. (m + 1), SameKey(p[a], p[b])
          PROVE  a = b
      <4>1. (a \in 1 .. m \/ a = m + 1) /\ (b \in 1 .. m \/ b = m + 1)
        BY <2>2
      <4>2. CASE a \in 1 .. m /\ b \in 1 .. m
        BY <2>2, <3>1, <3>4, <4>2 DEF Once
      <4> QED BY <3>3, <3>4, <4>1, <4>2
    <3> QED BY <3>1, <3>2, <3>4 DEF Once, p
  <2>6. Good(all[i + 1])
    <3> HIDE DEF Good
    <3> QED BY <2>3, <2>4, <2>5
  <2> QED BY <2>1, <2>6
<1>5. n \in T
  <2> HIDE DEF T
  <2>1. 0 .. n \subseteq T
    BY <1>1, <1>3, <1>4, UpTo
  <2> QED BY <1>1, <2>1
<1> QED BY <1>2, <1>5

\* Tasks that wait for each other are in every layer: a plan of which none is left
\* over has no such tasks.
LEMMA ValidAcyclic ==
  ASSUME NEW S, NEW plan \in Seq(S), LeftOver(plan) = {}
  PROVE  Acyclic(plan)
<1> SUFFICES ASSUME NEW waiting \in SUBSET IdsOf(plan), waiting # {},
                    \A id \in waiting : TaskOf(plan, id).deps \cap waiting # {}
             PROVE  FALSE
  BY DEF Acyclic
<1> DEFINE n == Len(plan)
<1>1. n \in Nat
  BY LenProperties
<1>2. PICK open : /\ open[0] = IdsOf(plan)
                  /\ \A i \in 1 .. Len(plan) : open[i] = WithoutLayer(plan, open[i - 1])
                  /\ LeftOver(plan) = open[Len(plan)]
  BY Layers
<1> DEFINE T == {i \in 0 .. n : waiting \subseteq open[i]}
<1>3. 0 \in T
  BY <1>1, <1>2
<1>4. ASSUME NEW i \in 0 .. n - 1, i \in T PROVE i + 1 \in T
  <2>1. i + 1 \in 1 .. n /\ i + 1 \in 0 .. n /\ (i + 1) - 1 = i
    BY <1>1
  <2>2. open[i + 1] = WithoutLayer(plan, open[i]) /\ waiting \subseteq open[i]
    BY <1>2, <1>4, <2>1
  <2>3. waiting \subseteq WithoutLayer(plan, open[i])
    BY <2>2 DEF WithoutLayer
  <2> QED BY <2>1, <2>2, <2>3
<1>5. n \in T
  <2> HIDE DEF T
  <2>1. 0 .. n \subseteq T
    BY <1>1, <1>3, <1>4, UpTo
  <2> QED BY <1>1, <2>1
<1> QED BY <1>2, <1>5

\* The ids of a plan are finitely many, and no more than its tasks.
LEMMA IdsFinite ==
  ASSUME NEW S, NEW plan \in Seq(S)
  PROVE  /\ IsFiniteSet(IdsOf(plan)) /\ Cardinality(IdsOf(plan)) <= Len(plan)
         /\ Cardinality(IdsOf(plan)) = Len(plan) =>
              \A i, j \in 1 .. Len(plan) : plan[i].id = plan[j].id => i = j
<1> DEFINE n == Len(plan)
           f == [i \in 1 .. n |-> plan[i].id]
<1>1. n \in Nat /\ DOMAIN plan = 1 .. n
  BY LenProperties
<1>2. IdsOf(plan) = {f[i] : i \in 1 .. n}
  BY <1>1 DEF IdsOf, TasksOf
<1>3. f \in Surjection(1 .. n, IdsOf(plan))
  <2>1. f \in [1 .. n -> IdsOf(plan)]
    BY <1>2
  <2>2. \A id \in IdsOf(plan) : \E i \in 1 .. n : f[i] = id
    BY <1>2
  <2> HIDE DEF f
  <2> QED BY <2>1, <2>2 DEF Surjection
<1>4. IsFiniteSet(1 .. n) /\ Cardinality(1 .. n) = n
  BY <1>1, FS_Interval
<1>5. /\ IsFiniteSet(IdsOf(plan)) /\ Cardinality(IdsOf(plan)) <= n
      /\ Cardinality(IdsOf(plan)) = n <=> f \in Injection(1 .. n, IdsOf(plan))
  <2> HIDE DEF f, n
  <2> QED BY <1>3, <1>4, FS_Surjection
<1>6. ASSUME f \in Injection(1 .. n, IdsOf(plan)), NEW i \in 1 .. n, NEW j \in 1 .. n,
             plan[i].id = plan[j].id
      PROVE  i = j
  <2>1. f[i] = f[j]
    BY <1>6
  <2> HIDE DEF f
  <2> QED BY <1>6, <2>1 DEF Injection, IsInjective
<1> QED BY <1>5, <1>6

\* A finite set in some order.
LEMMA SetInOrder ==
  ASSUME NEW D, IsFiniteSet(D)
  PROVE  SetToSeq(D) \in [1 .. Cardinality(D) -> D] /\ Cardinality(D) \in Nat
<1>1. Cardinality(D) \in Nat /\ ExistsBijection(1 .. Cardinality(D), D)
  BY FS_CardinalityType
<1>2. \E f \in [1 .. Cardinality(D) -> D] : IsInjective(f)
  BY <1>1 DEF ExistsBijection, Bijection, Injection
<1> QED BY <1>1, <1>2 DEF SetToSeq

\* Sequences of records one after the other are a sequence of records.
LEMMA FlattenSeqSeq ==
  ASSUME NEW S, NEW n \in Nat, NEW seqs \in [1 .. n -> Seq(S)]
  PROVE  FlattenSeq(seqs) \in Seq(S)
<1> DEFINE step(k, f) == IF k = 1 THEN seqs[k] ELSE f[k - 1] \o seqs[k]
           whole(f) == [i \in 1 .. n |-> IF i = 1 THEN seqs[i] ELSE f[i - 1] \o seqs[i]]
           flatten == CHOOSE f : f = whole(f)
           Upto(i, g) == g \in [1 .. i -> Seq(S)] /\ \A k \in 1 .. i : g[k] = step(k, g)
           T == {i \in 0 .. n : \E g : Upto(i, g)}
<1>1. seqs \in Seq(Seq(S)) /\ Len(seqs) = n
  BY SeqDef, LenProperties
<1>2. n = 0 => FlattenSeq(seqs) = << >>
  <2>1. n = 0 => seqs = << >>
    BY <1>1, EmptySeq
  <2> QED BY <1>1, <2>1 DEF FlattenSeq
<1>3. n # 0 => FlattenSeq(seqs) = flatten[n]
  BY <1>1 DEF FlattenSeq
<1>4. 0 \in T
  <2>1. Upto(0, [i \in 1 .. 0 |-> << >>])
    OBVIOUS
  <2> HIDE DEF Upto
  <2> QED BY <2>1
<1>5. ASSUME NEW i \in 0 .. n - 1, i \in T PROVE i + 1 \in T
  <2>1. PICK g : Upto(i, g)
    BY <1>5
  <2>2. i \in Nat /\ i + 1 \in 1 .. n /\ i + 1 \in 0 .. n
    OBVIOUS
  <2> DEFINE h == [k \in 1 .. (i + 1) |-> IF k = i + 1 THEN step(i + 1, g) ELSE g[k]]
  <2>3. step(i + 1, g) \in Seq(S)
    <3>1. seqs[i + 1] \in Seq(S)
      BY <2>2
    <3>2. CASE i + 1 = 1
      BY <3>1, <3>2
    <3>3. CASE i + 1 # 1
      <4>1. (i + 1) - 1 \in 1 .. i
        BY <2>2, <3>3
      <4>2. g[(i + 1) - 1] \in Seq(S)
        BY <2>1, <4>1
      <4>3. g[(i + 1) - 1] \o seqs[i + 1] \in Seq(S)
        BY <3>1, <4>2, ConcatProperties
      <4> QED BY <3>3, <4>3
    <3> QED BY <3>2, <3>3
  <2>4. \A k \in 1 .. (i + 1) : k \in 1 .. i \/ k = i + 1
    BY <2>2
  <2>5. h \in [1 .. (i + 1) -> Seq(S)]
    <3> HIDE DEF step
    <3> QED BY <2>1, <2>3, <2>4
  <2>6. ASSUME NEW k \in 1 .. (i + 1) PROVE h[k] = step(k, h)
    <3>1. k # 1 => k - 1 \in 1 .. (i + 1) /\ k - 1 # i + 1
      BY <2>2
    <3>2. k # 1 => h[k - 1] = g[k - 1]
      BY <3>1
    <3>3. step(k, h) = step(k, g)
      <4> HIDE DEF h
      <4> QED BY <3>2
    <3>4. h[k] = step(k, g)
      <4>1. k = i + 1 => h[k] = step(k, g)
        OBVIOUS
      <4>2. k # i + 1 => h[k] = g[k] /\ k \in 1 .. i
        BY <2>4
      <4> HIDE DEF h, step
      <4> QED BY <2>1, <4>1, <4>2
    <3> QED BY <3>3, <3>4
  <2>7. Upto(i + 1, h)
    <3> HIDE DEF h, step
    <3> QED BY <2>5, <2>6
  <2> HIDE DEF Upto, h
  <2> QED BY <2>2, <2>7
<1>6. \E f : f = whole(f)
  <2>1. 0 .. n \subseteq T
    <3> HIDE DEF T
    <3> QED BY <1>4, <1>5, UpTo
  <2>2. n \in 0 .. n
    OBVIOUS
  <2>3. \E g : Upto(n, g)
    <3> HIDE DEF Upto
    <3> QED BY <2>1, <2>2
  <2>4. PICK g : Upto(n, g)
    BY <2>3
  <2>5. g = whole(g)
    BY <2>4
  <2> QED BY <2>5
<1>7. flatten = whole(flatten)
  <2> HIDE DEF whole
  <2> QED BY <1>6
<1> DEFINE Typed == {i \in 0 .. n : i = 0 \/ flatten[i] \in Seq(S)}
<1> HIDE DEF flatten
<1>8. 0 \in Typed
  OBVIOUS
<1>9. ASSUME NEW i \in 0 .. n - 1, i \in Typed PROVE i + 1 \in Typed
  <2>1. i \in Nat /\ i + 1 \in 1 .. n /\ i + 1 \in 0 .. n /\ (i + 1) - 1 = i
    OBVIOUS
  <2>2. flatten[i + 1] = IF i + 1 = 1 THEN seqs[i + 1] ELSE flatten[i] \o seqs[i + 1]
    BY <1>7, <2>1
  <2>3. seqs[i + 1] \in Seq(S)
    BY <2>1
  <2>4. CASE i = 0
    BY <2>1, <2>2, <2>3, <2>4
  <2>5. CASE i # 0
    <3>1. flatten[i] \in Seq(S)
      BY <1>9, <2>5
    <3>2. flatten[i] \o seqs[i + 1] \in Seq(S)
      BY <2>3, <3>1, ConcatProperties
    <3> QED BY <2>1, <2>2, <2>3, <3>2
  <2> QED BY <2>4, <2>5
<1>10. n \in Typed
  <2>1. 0 .. n \subseteq Typed
    <3> HIDE DEF Typed
    <3> QED BY <1>8, <1>9, UpTo
  <2> HIDE DEF Typed
  <2> QED BY <2>1
<1> QED BY <1>2, <1>3, <1>10, EmptySeq

\* What a search and its coverage become is a sequence of records.
LEMMA ExternalSeq ==
  ASSUME NEW task, IsFiniteSet(DOMAIN task.needs), NEW X, NEW found \in Seq(X), NEW eligible
  PROVE  \E S : External(task, found, eligible) \in Seq(S)
<1> DEFINE D == DOMAIN task.needs
           order == SetToSeq(D)
           c == Cardinality(D)
           one(need, i) ==
             Record(IF c = 1 THEN <<found[i].object>> ELSE <<found[i].object, need>>,
                    <<found[i].object, found[i].version>>, task.id, need,
                    Stance(task.needs[need]),
                    need \in eligible /\ found[i].supported)
           recordsOf(need) == [i \in DOMAIN found |-> one(need, i)]
           S == UNION {{one(need, i) : i \in DOMAIN found} : need \in D}
<1>1. order \in [1 .. c -> D] /\ c \in Nat /\ DOMAIN order = 1 .. c
  <2>1. IsFiniteSet(D)
    OBVIOUS
  <2> HIDE DEF D
  <2> QED BY <2>1, SetInOrder
<1>2. Len(found) \in Nat /\ DOMAIN found = 1 .. Len(found)
  BY LenProperties
<1>3. ASSUME NEW need \in D PROVE recordsOf(need) \in Seq(S)
  <2> HIDE DEF one
  <2>1. recordsOf(need) \in [1 .. Len(found) -> S]
    BY <1>2
  <2> HIDE DEF recordsOf, S
  <2> QED BY <1>2, <2>1, SeqDef
<1> DEFINE seqs == [k \in DOMAIN order |-> recordsOf(order[k])]
<1>4. seqs \in [1 .. c -> Seq(S)]
  <2> HIDE DEF order, recordsOf, S, c, D
  <2> QED BY <1>1, <1>3
<1>5. FlattenSeq(seqs) \in Seq(S)
  <2> HIDE DEF seqs, S, c
  <2> QED BY <1>1, <1>4, FlattenSeqSeq
<1>6. External(task, found, eligible) = FlattenSeq(seqs)
  BY DEF External
<1> HIDE DEF seqs, S
<1> QED BY <1>5, <1>6

\* So is what the deterministic provider makes up.
LEMMA RuntimeSeq ==
  ASSUME NEW task, IsFiniteSet(DOMAIN task.needs), NEW n
  PROVE  \E S : Runtime(task, n) \in Seq(S)
<1> DEFINE D == DOMAIN task.needs
           order == SetToSeq(D)
           c == Cardinality(D)
           recordOf(need, stance) ==
             Record(<<task.id, need, stance, n>>, <<stance, task.id>>, task.id, need, stance,
                    stance \in task.needs[need].stances)
           S == {recordOf(need, "SUPPORTING") : need \in D}
                  \cup {recordOf(need, "COUNTER") : need \in D}
           seqs == [k \in DOMAIN order |->
                      <<recordOf(order[k], "SUPPORTING"), recordOf(order[k], "COUNTER")>>]
<1>1. order \in [1 .. c -> D] /\ c \in Nat /\ DOMAIN order = 1 .. c
  <2>1. IsFiniteSet(D)
    OBVIOUS
  <2> HIDE DEF D
  <2> QED BY <2>1, SetInOrder
<1>2. seqs \in [1 .. c -> Seq(S)]
  <2> SUFFICES ASSUME NEW k \in 1 .. c
               PROVE  <<recordOf(order[k], "SUPPORTING"), recordOf(order[k], "COUNTER")>> \in Seq(S)
    <3> HIDE DEF recordOf, S, order, c, D
    <3> QED BY <1>1
  <2>1. order[k] \in D
    <3> HIDE DEF order, c, D
    <3> QED BY <1>1
  <2>2. recordOf(order[k], "SUPPORTING") \in S /\ recordOf(order[k], "COUNTER") \in S
    <3> HIDE DEF recordOf, order, D
    <3> QED BY <2>1
  <2> HIDE DEF recordOf, S
  <2> QED BY <2>2
<1>3. FlattenSeq(seqs) \in Seq(S)
  <2> HIDE DEF seqs, S, c
  <2> QED BY <1>1, <1>2, FlattenSeqSeq
<1>4. Runtime(task, n) = FlattenSeq(seqs)
  BY DEF Runtime
<1> HIDE DEF seqs, S
<1> QED BY <1>3, <1>4

\* A level that adds nothing is closed; every other one adds a task, so that after as
\* many levels as there are tasks nothing is left that depends on what is reset.
LEMMA DependentsClosed ==
  ASSUME NEW S, NEW tasks \in Seq(S), NEW reset
  PROVE  /\ reset \subseteq WithDependents(tasks, reset)
         /\ \A u \in TasksOf(tasks) :
              u.deps \cap WithDependents(tasks, reset) # {} => u.id \in WithDependents(tasks, reset)
<1> DEFINE n == Len(tasks)
           Ids == IdsOf(tasks)
           Closed(D) == \A u \in TasksOf(tasks) : u.deps \cap D # {} => u.id \in D
           Enough(i, D) == reset \subseteq D /\ (Closed(D) \/ Cardinality(D \cap Ids) >= i)
<1>1. n \in Nat /\ IsFiniteSet(Ids) /\ Cardinality(Ids) <= n
  BY LenProperties, IdsFinite
<1>2. PICK ids : /\ ids[0] = reset
                 /\ \A i \in 1 .. Len(tasks) : ids[i] = Onward(tasks, ids[i - 1])
                 /\ WithDependents(tasks, reset) = ids[Len(tasks)]
  BY DependentsSteps
<1> DEFINE T == {i \in 0 .. n : Enough(i, ids[i])}
<1>3. \A D : IsFiniteSet(D \cap Ids) /\ Cardinality(D \cap Ids) \in Nat
  <2> SUFFICES ASSUME NEW D PROVE IsFiniteSet(D \cap Ids) /\ Cardinality(D \cap Ids) \in Nat
    OBVIOUS
  <2> HIDE DEF Ids
  <2>1. D \cap Ids \in SUBSET Ids
    OBVIOUS
  <2> QED BY <1>1, <2>1, FS_Subset, FS_CardinalityType
<1>4. 0 \in T
  <2>1. Cardinality(ids[0] \cap Ids) >= 0
    <3>1. Cardinality(ids[0] \cap Ids) \in Nat
      BY <1>3, Zenon
    <3> QED BY <3>1
  <2>2. 0 \in 0 .. n /\ reset \subseteq ids[0]
    BY <1>1, <1>2
  <2> HIDE DEF Closed, Ids, n
  <2> QED BY <2>1, <2>2
<1>5. ASSUME NEW i \in 0 .. n - 1, i \in T PROVE i + 1 \in T
  <2> DEFINE D == ids[i]
             E == ids[i + 1]
  <2>1. i \in Nat /\ i + 1 \in 1 .. n /\ i + 1 \in 0 .. n /\ (i + 1) - 1 = i
    BY <1>1
  <2>2. Enough(i, D)
    BY <1>5
  <2>3. E = D \cup {v.id : v \in {u \in TasksOf(tasks) : u.deps \cap D # {}}}
    BY <1>2, <2>1 DEF Onward
  <2> HIDE DEF D, E
  <2>4. CASE Closed(D)
    <3>1. E = D
      BY <2>3, <2>4
    <3>2. Enough(i + 1, E)
      BY <2>2, <2>4, <3>1
    <3> QED BY <2>1, <3>2 DEF E
  <2>5. CASE ~Closed(D)
    <3>1. PICK u \in TasksOf(tasks) : u.deps \cap D # {} /\ u.id \notin D
      BY <2>5
    <3>2. u.id \in E /\ u.id \in Ids /\ D \subseteq E
      BY <2>3, <3>1 DEF IdsOf
    <3>3. (D \cap Ids) \cup {u.id} \subseteq E \cap Ids /\ u.id \notin D \cap Ids
      BY <3>1, <3>2
    <3> DEFINE a == D \cap Ids
               b == E \cap Ids
    <3>4. IsFiniteSet(a) /\ IsFiniteSet(b) /\ Cardinality(a) \in Nat /\ Cardinality(b) \in Nat
      <4> HIDE DEF Ids
      <4> QED BY <1>3
    <3>5. Cardinality(a) >= i
      BY <2>2, <2>5
    <3>6. a \cup {u.id} \subseteq b /\ u.id \notin a
      BY <3>3
    <3> HIDE DEF a, b
    <3>7. Cardinality(a \cup {u.id}) = Cardinality(a) + 1
      BY <3>4, <3>6, FS_AddElement
    <3>8. Cardinality(a \cup {u.id}) <= Cardinality(b)
      BY <3>4, <3>6, FS_Subset
    <3>9. Cardinality(b) >= i + 1
      BY <2>1, <3>4, <3>5, <3>7, <3>8
    <3>10. reset \subseteq E
      BY <2>2, <3>2
    <3>11. Enough(i + 1, E)
      <4> HIDE DEF Closed
      <4> QED BY <3>9, <3>10 DEF b
    <3> HIDE DEF Enough
    <3> QED BY <2>1, <3>11 DEF E
  <2> QED BY <2>4, <2>5
<1>6. Enough(n, ids[n])
  <2>1. 0 .. n \subseteq T
    <3> HIDE DEF T, n
    <3> QED BY <1>1, <1>4, <1>5, UpTo
  <2>2. n \in 0 .. n
    BY <1>1
  <2> HIDE DEF Enough, n
  <2> QED BY <2>1, <2>2
<1>7. Closed(ids[n])
  <2> DEFINE a == ids[n] \cap Ids
  <2>1. CASE Cardinality(a) >= n
    <3>1. a \in SUBSET Ids
      OBVIOUS
    <3>2. Cardinality(a) = Cardinality(Ids)
      <4> HIDE DEF a, Ids, n
      <4>1. Cardinality(a) <= Cardinality(Ids) /\ Cardinality(a) \in Nat /\ Cardinality(Ids) \in Nat
        BY <1>1, <3>1, FS_Subset, FS_CardinalityType
      <4> QED BY <1>1, <2>1, <4>1
    <3>3. a = Ids
      <4> HIDE DEF a, Ids
      <4> QED BY <1>1, <3>1, <3>2, FS_Subset
    <3>4. Ids \subseteq ids[n]
      BY <3>3
    <3> QED BY <3>4 DEF IdsOf
  <2>2. CASE ~(Cardinality(a) >= n)
    BY <1>6, <2>2
  <2> QED BY <2>1, <2>2
<1>8. reset \subseteq ids[n]
  BY <1>6
<1> HIDE DEF T
<1> QED BY <1>2, <1>7, <1>8

-----------------------------------------------------------------------------
(* Plans, and what a replan makes of them.                                 *)

\* A task, and a plan: a sequence of tasks, each waiting or done.
IsTask(t) ==
  /\ t = [id |-> t.id, deps |-> t.deps, needs |-> t.needs, tool |-> t.tool, text |-> t.text,
          state |-> t.state]
  /\ IsFiniteSet(DOMAIN t.needs)
  /\ t.state \in TaskStates
IsPlan(plan) == plan \in Seq(TasksOf(plan)) /\ \A t \in TasksOf(plan) : IsTask(t)

\* A sequence over some set is one over its own elements.
LEMMA PlanFromElements ==
  ASSUME NEW S, NEW plan \in Seq(S)
  PROVE  /\ plan \in Seq(TasksOf(plan)) /\ TasksOf(plan) \subseteq S
         /\ \A i \in DOMAIN plan : plan[i] \in TasksOf(plan)
         /\ plan \in Seq(RecordsOf(plan)) /\ RecordsOf(plan) = TasksOf(plan)
<1> DEFINE n == Len(plan)
<1>1. n \in Nat /\ DOMAIN plan = 1 .. n /\ plan \in [1 .. n -> S]
  BY LenProperties
<1>2. plan \in [1 .. n -> TasksOf(plan)] /\ TasksOf(plan) \subseteq S
  BY <1>1 DEF TasksOf
<1>3. plan \in Seq(TasksOf(plan))
  <2> HIDE DEF n
  <2> QED BY <1>1, <1>2, SeqDef
<1>4. RecordsOf(plan) = TasksOf(plan)
  BY DEF RecordsOf, TasksOf
<1> QED BY <1>2, <1>3, <1>4 DEF TasksOf

\* A task as it is made up is one, in whatever state.
LEMMA TaskIsOne ==
  ASSUME NEW id, NEW deps, NEW needs, IsFiniteSet(DOMAIN needs), NEW tool, NEW text,
         NEW state \in TaskStates
  PROVE  /\ IsTask(Task(id, deps, needs, tool, text))
         /\ IsTask([Task(id, deps, needs, tool, text) EXCEPT !.state = state])
BY DEF IsTask, Task, TaskStates

\* The deterministic planner's plan is one.
LEMMA FixedPlanIsOne == ASSUME NEW tool PROVE IsPlan(FixedPlan(tool))
<1> DEFINE need(id, stance) == [m \in {id} |-> Need(1, {stance})]
           a == Task("market", {}, need("market-signal", "SUPPORTING"), tool, "v1")
           b == Task("fundamentals", {}, need("fundamental-signal", "SUPPORTING"), tool, "v1")
           c == Task("risk", {"market", "fundamentals"}, need("risk-signal", "COUNTER"), tool, "v1")
           plan == <<a, b, c>>
<1>1. FixedPlan(tool) = plan
  BY DEF FixedPlan
<1>2. ASSUME NEW id, NEW stance PROVE IsFiniteSet(DOMAIN need(id, stance))
  <2>1. DOMAIN need(id, stance) = {id}
    OBVIOUS
  <2> HIDE DEF need
  <2> QED BY <2>1, FS_Singleton
<1>3. IsTask(a) /\ IsTask(b) /\ IsTask(c)
  <2>1. "PENDING" \in TaskStates
    BY DEF TaskStates
  <2> HIDE DEF need
  <2> QED BY <1>2, <2>1, TaskIsOne
<1> HIDE DEF a, b, c
<1>4. plan \in Seq({a, b, c})
  OBVIOUS
<1>5. plan \in Seq(TasksOf(plan)) /\ TasksOf(plan) \subseteq {a, b, c}
  <2> HIDE DEF plan
  <2> QED BY <1>4, PlanFromElements
<1> HIDE DEF plan
<1> QED BY <1>1, <1>3, <1>5 DEF IsPlan

\* Whatever is planned is a plan.
LEMMA PlannerPlans ==
  ASSUME NEW plan \in Plans \cup PlannerAnswers
  PROVE  IsPlan(plan)
<1>1. ASSUME NEW p \in Plans PROVE IsPlan(p)
  <2>1. p \in Seq(TasksOf(p))
    BY PlanAssumption
  <2>2. ASSUME NEW t \in TasksOf(p) PROVE IsTask(t)
    <3>1. /\ t = [Task(t.id, t.deps, t.needs, t.tool, t.text) EXCEPT !.state = t.state]
          /\ t.state \in TaskStates /\ IsFiniteSet(DOMAIN t.needs)
      BY PlanAssumption
    <3>2. IsTask([Task(t.id, t.deps, t.needs, t.tool, t.text) EXCEPT !.state = t.state])
      BY <3>1, TaskIsOne
    <3> QED BY <3>1, <3>2
  <2> QED BY <2>1, <2>2 DEF IsPlan
<1>2. PlannerAnswers \subseteq Plans \cup {FixedPlan(Tool)}
  BY DEF PlannerAnswers
<1> QED BY <1>1, <1>2, FixedPlanIsOne

\* A planner without dynamic tasks answers with some of its plan.
LEMMA RetainedPlan ==
  ASSUME NEW old, NEW new, IsPlan(new), NEW d
  PROVE  IsPlan(Retained(old, new, d))
<1> DEFINE p == Selected(new, IdsOf(old))
           U == {t \in TasksOf(new) : t.id \in IdsOf(old)}
<1>1. p \in Seq(U)
  <2>1. new \in Seq(TasksOf(new))
    BY DEF IsPlan
  <2> QED BY <2>1, SelectedTasks
<1>2. p \in Seq(TasksOf(p)) /\ TasksOf(p) \subseteq U
  <2> HIDE DEF p, U
  <2> QED BY <1>1, PlanFromElements
<1>3. IsPlan(p)
  <2> HIDE DEF p
  <2> QED BY <1>2 DEF IsPlan
<1> QED BY <1>3 DEF Retained

\* A task is found for every id of the plan.
LEMMA TaskOfIds ==
  ASSUME NEW plan, NEW id \in IdsOf(plan)
  PROVE  TaskOf(plan, id) \in TasksOf(plan) /\ TaskOf(plan, id).id = id
<1>1. \E t \in TasksOf(plan) : t.id = id
  BY DEF IdsOf
<1> QED BY <1>1 DEF TaskOf

\* A task that a replan refreshes keeps its id and its state, and one that it
\* resets everything else.
LEMMA TaskChanges ==
  ASSUME NEW t, IsTask(t), NEW state \in TaskStates
  PROVE  LET q == [t EXCEPT !.state = state]
         IN  /\ IsTask(q) /\ q.id = t.id /\ q.deps = t.deps /\ q.needs = t.needs /\ q.state = state
             /\ q.tool = t.tool /\ InputHash(q) = InputHash(t) /\ InputHash(t).deps = t.deps
<1> DEFINE with(s) == [id |-> t.id, deps |-> t.deps, needs |-> t.needs, tool |-> t.tool,
                       text |-> t.text, state |-> s]
           q == [t EXCEPT !.state = state]
<1>1. t = with(t.state) /\ IsFiniteSet(DOMAIN t.needs)
  BY DEF IsTask
<1>2. \A s : [t EXCEPT !.state = s] = with(s)
  BY <1>1
<1>3. q = with(state) /\ InputHash(t) = with("PENDING")
  BY <1>2 DEF InputHash
<1>4. InputHash(q) = with("PENDING")
  BY <1>3 DEF InputHash
<1>5. IsTask(q)
  BY <1>1, <1>3 DEF IsTask
<1> HIDE DEF q
<1> QED BY <1>3, <1>4, <1>5 DEF q

\* The hash covers the dependencies.
LEMMA HashedDeps == ASSUME NEW t, IsTask(t) PROVE InputHash(t).deps = t.deps
<1>1. "PENDING" \in TaskStates
  BY DEF TaskStates
<1> QED BY <1>1, TaskChanges

\* A refreshed task has the new definition and the old state, one that is not in the
\* new plan stays.
LEMMA RefreshedTask ==
  ASSUME NEW u, IsTask(u), NEW new, IsPlan(new)
  PROVE  LET q == Refreshed(u, new)
         IN  /\ IsTask(q) /\ q.id = u.id /\ q.state = u.state
             /\ u.id \in IdsOf(new) => InputHash(q) = InputHash(TaskOf(new, u.id))
             /\ u.id \notin IdsOf(new) => q = u
<1>1. CASE u.id \in IdsOf(new)
  <2> DEFINE t == TaskOf(new, u.id)
  <2>1. t.id = u.id /\ IsTask(t)
    BY <1>1, TaskOfIds DEF IsPlan
  <2>2. u.state \in TaskStates
    BY DEF IsTask
  <2>3. Refreshed(u, new) = [t EXCEPT !.state = u.state]
    BY <1>1 DEF Refreshed
  <2> HIDE DEF t
  <2>4. LET q == [t EXCEPT !.state = u.state]
        IN  IsTask(q) /\ q.id = t.id /\ q.state = u.state /\ InputHash(q) = InputHash(t)
    BY <2>1, <2>2, TaskChanges
  <2> QED BY <1>1, <2>1, <2>3, <2>4 DEF t
<1>2. CASE u.id \notin IdsOf(new)
  BY <1>2 DEF Refreshed
<1> QED BY <1>1, <1>2

\* The merged plan: the tasks of the old one, refreshed, and new ones.
LEMMA MergedPlan ==
  ASSUME NEW old, IsPlan(old), NEW new, IsPlan(new)
  PROVE  /\ IsPlan(Merged(old, new))
         /\ \A t \in TasksOf(Merged(old, new)) :
              \/ t.id \in IdsOf(new) \ IdsOf(old)
              \/ \E u \in TasksOf(old) : t = Refreshed(u, new)
         /\ \A u \in TasksOf(old) : Refreshed(u, new) \in TasksOf(Merged(old, new))
<1> DEFINE n == Len(old)
           U == {t \in TasksOf(new) : t.id \in IdsOf(new) \ IdsOf(old)}
           S == {Refreshed(u, new) : u \in TasksOf(old)} \cup U
           a == [i \in DOMAIN old |-> Refreshed(old[i], new)]
           b == Selected(new, IdsOf(new) \ IdsOf(old))
           m == Merged(old, new)
<1>1. n \in Nat /\ DOMAIN old = 1 .. n /\ old \in Seq(TasksOf(old))
  BY LenProperties DEF IsPlan
<1>2. ASSUME NEW i \in 1 .. n PROVE old[i] \in TasksOf(old)
  BY <1>1 DEF TasksOf
<1>3. a \in Seq(S) /\ Len(a) = n
  <2>1. a \in [1 .. n -> S]
    BY <1>1, <1>2
  <2> HIDE DEF a, S, n
  <2> QED BY <1>1, <2>1, SeqDef, LenProperties
<1>4. b \in Seq(S)
  <2>1. new \in Seq(TasksOf(new))
    BY DEF IsPlan
  <2>2. b \in Seq(U)
    BY <2>1, SelectedTasks
  <2>3. U \subseteq S
    OBVIOUS
  <2> HIDE DEF b, S, U
  <2> QED BY <2>2, <2>3, SeqMonotonic
<1>5. m = a \o b
  BY DEF Merged
<1>6. /\ m \in Seq(S) /\ Len(m) = n + Len(b) /\ Len(b) \in Nat
      /\ \A i \in 1 .. n : m[i] = a[i]
  <2>1. /\ a \o b \in Seq(S) /\ Len(a \o b) = Len(a) + Len(b)
        /\ \A i \in 1 .. Len(a) + Len(b) : (a \o b)[i] = IF i <= Len(a) THEN a[i] ELSE b[i - Len(a)]
    <3> HIDE DEF a, b, S
    <3> QED BY <1>3, <1>4, ConcatProperties
  <2>2. Len(b) \in Nat
    <3> HIDE DEF b, S
    <3> QED BY <1>4, LenProperties
  <2> HIDE DEF a, b, S, m, n
  <2> QED BY <1>1, <1>3, <1>5, <2>1, <2>2
<1>7. DOMAIN m = 1 .. n + Len(b)
  <2> HIDE DEF m, b, S, n
  <2> QED BY <1>6, LenProperties
<1>8. m \in Seq(TasksOf(m)) /\ TasksOf(m) \subseteq S
  <2> HIDE DEF m, S
  <2> QED BY <1>6, PlanFromElements
<1>9. ASSUME NEW t \in S
      PROVE  /\ IsTask(t)
             /\ \/ t.id \in IdsOf(new) \ IdsOf(old)
                \/ \E u \in TasksOf(old) : t = Refreshed(u, new)
  <2>1. CASE t \in U
    BY <2>1 DEF IsPlan
  <2>2. CASE t \in {Refreshed(u, new) : u \in TasksOf(old)}
    <3>1. PICK u \in TasksOf(old) : t = Refreshed(u, new)
      BY <2>2
    <3>2. IsTask(u)
      BY DEF IsPlan
    <3>3. IsTask(t)
      BY <3>1, <3>2, RefreshedTask
    <3> QED BY <3>1, <3>3
  <2> HIDE DEF U
  <2> QED BY <2>1, <2>2
<1>10. ASSUME NEW u \in TasksOf(old) PROVE Refreshed(u, new) \in TasksOf(m)
  <2>1. PICK i \in 1 .. n : u = old[i]
    BY <1>1 DEF TasksOf
  <2>2. m[i] = Refreshed(u, new)
    BY <1>1, <1>6, <2>1
  <2>3. i \in DOMAIN m
    <3> HIDE DEF m, b
    <3> QED BY <1>1, <1>6, <1>7
  <2> HIDE DEF m
  <2> QED BY <2>2, <2>3 DEF TasksOf
<1> HIDE DEF m, S
<1> QED BY <1>8, <1>9, <1>10 DEF IsPlan, m

\* What is reset waits again; the rest stays as it is.
LEMMA ResetPlan ==
  ASSUME NEW plan, IsPlan(plan), NEW reset
  PROVE  /\ IsPlan(ResetTasks(plan, reset)) /\ IdsOf(ResetTasks(plan, reset)) = IdsOf(plan)
         /\ \A t \in TasksOf(ResetTasks(plan, reset)) :
              IF t.id \in reset THEN t.state = "PENDING" ELSE t \in TasksOf(plan)
         /\ \A t \in TasksOf(plan) : t.id \notin reset => t \in TasksOf(ResetTasks(plan, reset))
<1> DEFINE n == Len(plan)
           wait(t) == [t EXCEPT !.state = "PENDING"]
           q == ResetTasks(plan, reset)
<1>1. n \in Nat /\ DOMAIN plan = 1 .. n /\ plan \in Seq(TasksOf(plan))
  BY LenProperties DEF IsPlan
<1>2. ASSUME NEW t \in TasksOf(plan)
      PROVE  IsTask(t) /\ IsTask(wait(t)) /\ wait(t).id = t.id /\ wait(t).state = "PENDING"
  <2>1. IsTask(t) /\ "PENDING" \in TaskStates
    BY DEF IsPlan, TaskStates
  <2> QED BY <2>1, TaskChanges
<1> HIDE DEF wait
<1>3. q = [i \in 1 .. n |-> IF plan[i].id \in reset THEN wait(plan[i]) ELSE plan[i]]
  BY <1>1 DEF ResetTasks, wait
<1>4. \A i \in 1 .. n : plan[i] \in TasksOf(plan)
  BY <1>1 DEF TasksOf
<1>5. TasksOf(plan) = {plan[i] : i \in 1 .. n}
  BY <1>1 DEF TasksOf
<1>6. TasksOf(q) = {q[i] : i \in 1 .. n}
  BY <1>3 DEF TasksOf
<1>7. \A i \in 1 .. n : q[i] = IF plan[i].id \in reset THEN wait(plan[i]) ELSE plan[i]
  BY <1>3
<1>8. q \in Seq(TasksOf(q))
  <2>1. q \in [1 .. n -> TasksOf(q)]
    BY <1>3, <1>6
  <2> HIDE DEF q, n
  <2> QED BY <1>1, <2>1, SeqDef
<1> HIDE DEF q
<1>9. ASSUME NEW t \in TasksOf(q)
      PROVE  /\ IsTask(t)
             /\ IF t.id \in reset THEN t.state = "PENDING" ELSE t \in TasksOf(plan)
             /\ t.id \in IdsOf(plan)
  <2>1. PICK i \in 1 .. n : t = IF plan[i].id \in reset THEN wait(plan[i]) ELSE plan[i]
    BY <1>6, <1>7
  <2>2. plan[i] \in TasksOf(plan) /\ plan[i].id \in IdsOf(plan)
    BY <1>4 DEF IdsOf
  <2> QED BY <1>2, <2>1, <2>2
<1>10. ASSUME NEW t \in TasksOf(plan)
       PROVE  t.id \in IdsOf(q) /\ (t.id \notin reset => t \in TasksOf(q))
  <2>1. PICK i \in 1 .. n : t = plan[i]
    BY <1>5
  <2>2. q[i] \in TasksOf(q)
    BY <1>6
  <2>3. q[i].id = t.id /\ (t.id \notin reset => q[i] = t)
    BY <1>2, <1>7, <2>1
  <2> QED BY <2>2, <2>3 DEF IdsOf
<1>11. IdsOf(q) = IdsOf(plan)
  <2>1. \A id \in IdsOf(q) : id \in IdsOf(plan)
    BY <1>9 DEF IdsOf
  <2>2. \A id \in IdsOf(plan) : id \in IdsOf(q)
    BY <1>10 DEF IdsOf
  <2> QED BY <2>1, <2>2
<1> QED BY <1>8, <1>9, <1>10, <1>11 DEF IsPlan, q

\* What a replan resets waits; the rest of its plan is refreshed, and is done if it was.
LEMMA ReplannedPlan ==
  ASSUME NEW old, IsPlan(old), NEW new, IsPlan(new),
         NEW reset, IdsOf(new) \ IdsOf(old) \subseteq reset
  PROVE  LET merged == Merged(old, new)
             tasks == ResetTasks(merged, reset)
         IN  /\ IsPlan(merged) /\ IsPlan(tasks) /\ IdsOf(old) \subseteq IdsOf(tasks)
             /\ \A t \in TasksOf(tasks) :
                  \/ t.id \in reset /\ t.state = "PENDING"
                  \/ /\ t.id \notin reset /\ t \in TasksOf(merged)
                     /\ \E u \in TasksOf(old) : t = Refreshed(u, new)
             /\ Done(tasks) = Done(old) \ reset
<1> DEFINE merged == Merged(old, new)
           tasks == ResetTasks(merged, reset)
<1>1. /\ IsPlan(merged)
      /\ \A t \in TasksOf(merged) :
           t.id \in IdsOf(new) \ IdsOf(old) \/ \E u \in TasksOf(old) : t = Refreshed(u, new)
      /\ \A u \in TasksOf(old) : Refreshed(u, new) \in TasksOf(merged)
  BY MergedPlan
<1> HIDE DEF merged
<1>2. /\ IsPlan(tasks) /\ IdsOf(tasks) = IdsOf(merged)
      /\ \A t \in TasksOf(tasks) :
           IF t.id \in reset THEN t.state = "PENDING" ELSE t \in TasksOf(merged)
      /\ \A t \in TasksOf(merged) : t.id \notin reset => t \in TasksOf(tasks)
  BY <1>1, ResetPlan
<1> HIDE DEF tasks
<1>3. ASSUME NEW u \in TasksOf(old)
      PROVE  Refreshed(u, new).id = u.id /\ Refreshed(u, new).state = u.state
  <2>1. IsTask(u)
    BY DEF IsPlan
  <2> QED BY <2>1, RefreshedTask
<1>4. IdsOf(old) \subseteq IdsOf(merged)
  BY <1>1, <1>3 DEF IdsOf
<1>5. ASSUME NEW t \in TasksOf(tasks)
      PROVE  \/ t.id \in reset /\ t.state = "PENDING"
             \/ /\ t.id \notin reset /\ t \in TasksOf(merged)
                /\ \E u \in TasksOf(old) : t = Refreshed(u, new)
  <2>1. IF t.id \in reset THEN t.state = "PENDING" ELSE t \in TasksOf(merged)
    BY <1>2
  <2> QED BY <1>1, <2>1
<1>6. Done(tasks) \subseteq Done(old) \ reset
  <2> SUFFICES ASSUME NEW t \in TasksOf(tasks), t.state = "COMPLETED"
               PROVE  t.id \in Done(old) /\ t.id \notin reset
    BY DEF Done
  <2>1. t.id \notin reset /\ \E u \in TasksOf(old) : t = Refreshed(u, new)
    BY <1>5
  <2>2. PICK u \in TasksOf(old) : t = Refreshed(u, new)
    BY <2>1
  <2>3. u.id = t.id /\ u.state = "COMPLETED"
    BY <1>3, <2>2
  <2>4. u.id \in Done(old)
    BY <2>3 DEF Done
  <2> QED BY <2>1, <2>3, <2>4
<1>7. Done(old) \ reset \subseteq Done(tasks)
  <2> SUFFICES ASSUME NEW u \in TasksOf(old), u.state = "COMPLETED", u.id \notin reset
               PROVE  u.id \in Done(tasks)
    BY DEF Done
  <2>1. Refreshed(u, new) \in TasksOf(tasks)
    BY <1>1, <1>2, <1>3
  <2> QED BY <1>3, <2>1 DEF Done
<1>8. Done(tasks) = Done(old) \ reset
  BY <1>6, <1>7
<1> QED BY <1>1, <1>2, <1>4, <1>5, <1>8 DEF merged, tasks

\* A plan that can be worked off: an id names one task, dependencies are tasks of
\* the plan, and no tasks wait for each other.
Workable(plan) ==
  /\ \A t, u \in TasksOf(plan) : t.id = u.id => t = u
  /\ \A t \in TasksOf(plan) : t.deps \subseteq IdsOf(plan)
  /\ Acyclic(plan)

\* validate_task_dag accepts only plans that can be worked off.
LEMMA ValidWorkable ==
  ASSUME NEW plan, IsPlan(plan), ValidPlan(plan)
  PROVE  Workable(plan)
<1> DEFINE n == Len(plan)
<1>1. plan \in Seq(TasksOf(plan)) /\ n \in Nat /\ DOMAIN plan = 1 .. n
  BY LenProperties DEF IsPlan
<1>2. /\ Cardinality(IdsOf(plan)) = n /\ LeftOver(plan) = {}
      /\ \A t \in TasksOf(plan) : t.deps \subseteq IdsOf(plan)
  BY DEF ValidPlan, ValidDag
<1>3. \A i, j \in 1 .. n : plan[i].id = plan[j].id => i = j
  BY <1>1, <1>2, IdsFinite
<1>4. ASSUME NEW t \in TasksOf(plan), NEW u \in TasksOf(plan), t.id = u.id
      PROVE  t = u
  <2>1. PICK i \in 1 .. n : t = plan[i]
    BY <1>1 DEF TasksOf
  <2>2. PICK j \in 1 .. n : u = plan[j]
    BY <1>1 DEF TasksOf
  <2>3. i = j
    BY <1>3, <1>4, <2>1, <2>2
  <2> QED BY <2>1, <2>2, <2>3
<1>5. Acyclic(plan)
  BY <1>1, <1>2, ValidAcyclic
<1> QED BY <1>2, <1>4, <1>5 DEF Workable

\* The task of an id in a new state.
Put(u, id, state) == IF u.id = id THEN [u EXCEPT !.state = state] ELSE u
PutIn(plan, id, state) == [i \in DOMAIN plan |-> Put(plan[i], id, state)]

\* A step of a task changes its state only: the plan stays one that can be worked off.
LEMMA StepPlan ==
  ASSUME NEW plan, IsPlan(plan), Workable(plan), NEW id, NEW state \in TaskStates
  PROVE  LET q == PutIn(plan, id, state)
         IN  /\ IsPlan(q) /\ Workable(q) /\ IdsOf(q) = IdsOf(plan)
             /\ TasksOf(q) = {Put(u, id, state) : u \in TasksOf(plan)}
             /\ Done(q) = IF state = "COMPLETED" THEN Done(plan) \cup (IdsOf(plan) \cap {id})
                                                ELSE Done(plan) \ {id}
<1> DEFINE n == Len(plan)
           put(u) == Put(u, id, state)
           q == PutIn(plan, id, state)
<1>1. n \in Nat /\ DOMAIN plan = 1 .. n /\ plan \in Seq(TasksOf(plan))
  BY LenProperties DEF IsPlan
<1>2. ASSUME NEW u \in TasksOf(plan)
      PROVE  /\ IsTask(put(u)) /\ put(u).id = u.id /\ put(u).deps = u.deps
             /\ u.id # id => put(u) = u
             /\ u.id = id => put(u).state = state
  <2>1. IsTask(u)
    BY DEF IsPlan
  <2> QED BY <2>1, TaskChanges DEF Put
<1>3. q = [i \in 1 .. n |-> put(plan[i])]
  BY <1>1 DEF PutIn
<1> HIDE DEF put
<1>4. TasksOf(plan) = {plan[i] : i \in 1 .. n}
  BY <1>1 DEF TasksOf
<1> HIDE DEF q
<1>5. TasksOf(q) = {q[i] : i \in 1 .. n} /\ \A i \in 1 .. n : q[i] = put(plan[i])
  BY <1>3 DEF TasksOf
<1>6. TasksOf(q) = {put(u) : u \in TasksOf(plan)}
  BY <1>4, <1>5
<1>7. q \in Seq(TasksOf(q))
  <2>1. q \in [1 .. n -> TasksOf(q)]
    BY <1>3, <1>5
  <2> HIDE DEF n
  <2> QED BY <1>1, <2>1, SeqDef
<1>8. IsPlan(q)
  BY <1>2, <1>6, <1>7 DEF IsPlan
<1>9. IdsOf(q) = IdsOf(plan)
  BY <1>2, <1>6 DEF IdsOf
<1>10. ASSUME NEW t \in TasksOf(q), NEW u \in TasksOf(q), t.id = u.id PROVE t = u
  <2>1. PICK a \in TasksOf(plan) : t = put(a)
    BY <1>6
  <2>2. PICK b \in TasksOf(plan) : u = put(b)
    BY <1>6
  <2>3. a.id = b.id
    BY <1>2, <1>10, <2>1, <2>2
  <2>4. a = b
    BY <2>3 DEF Workable
  <2> QED BY <2>1, <2>2, <2>4
<1>11. ASSUME NEW i \in IdsOf(plan) PROVE TaskOf(q, i).deps = TaskOf(plan, i).deps
  <2>1. TaskOf(plan, i) \in TasksOf(plan) /\ TaskOf(plan, i).id = i
    BY TaskOfIds
  <2>2. TaskOf(q, i) \in TasksOf(q) /\ TaskOf(q, i).id = i
    BY <1>9, TaskOfIds
  <2>3. PICK u \in TasksOf(plan) : TaskOf(q, i) = put(u)
    BY <1>6, <2>2
  <2>4. u.id = i /\ TaskOf(q, i).deps = u.deps
    BY <1>2, <2>2, <2>3
  <2>5. u = TaskOf(plan, i)
    BY <2>1, <2>4 DEF Workable
  <2> QED BY <2>4, <2>5
<1>12. Acyclic(q)
  <2> SUFFICES ASSUME NEW waiting \in (SUBSET IdsOf(plan)) \ {{}}
               PROVE  \E i \in waiting : TaskOf(q, i).deps \cap waiting = {}
    BY <1>9 DEF Acyclic
  <2>1. PICK i \in waiting : TaskOf(plan, i).deps \cap waiting = {}
    BY DEF Workable, Acyclic
  <2>2. TaskOf(q, i).deps = TaskOf(plan, i).deps
    BY <1>11
  <2> QED BY <2>1, <2>2
<1>13. \A t \in TasksOf(q) : t.deps \subseteq IdsOf(q)
  <2> SUFFICES ASSUME NEW u \in TasksOf(plan) PROVE put(u).deps \subseteq IdsOf(plan)
    BY <1>6, <1>9
  <2> QED BY <1>2 DEF Workable
<1>14. Done(q) = IF state = "COMPLETED" THEN Done(plan) \cup (IdsOf(plan) \cap {id})
                                       ELSE Done(plan) \ {id}
  <2>1. Done(q) = {put(u).id : u \in {v \in TasksOf(plan) : put(v).state = "COMPLETED"}}
    <3>1. \A i : i \in Done(q) <=> \E u \in TasksOf(plan) : i = put(u).id /\ put(u).state = "COMPLETED"
      BY <1>6 DEF Done
    <3> QED BY <3>1
  <2>2. \A i : i \in Done(q) <=> \E u \in TasksOf(plan) :
           i = u.id /\ (IF u.id = id THEN state = "COMPLETED" ELSE u.state = "COMPLETED")
    BY <1>2, <2>1
  <2>3. \A i : i \in Done(plan) <=> \E u \in TasksOf(plan) : i = u.id /\ u.state = "COMPLETED"
    BY DEF Done
  <2>4. \A i : i \in IdsOf(plan) <=> \E u \in TasksOf(plan) : i = u.id
    BY DEF IdsOf
  <2>5. CASE state = "COMPLETED"
    <3>1. \A i : i \in Done(q) <=> i \in Done(plan) \cup (IdsOf(plan) \cap {id})
      BY <2>2, <2>3, <2>4, <2>5
    <3> QED BY <2>5, <3>1
  <2>6. CASE state # "COMPLETED"
    <3>1. \A i : i \in Done(q) <=> i \in Done(plan) \ {id}
      BY <2>2, <2>3, <2>6
    <3> QED BY <2>6, <3>1
  <2> QED BY <2>5, <2>6
<1>15. Workable(q)
  BY <1>10, <1>12, <1>13 DEF Workable
<1> QED BY <1>6, <1>8, <1>9, <1>14, <1>15 DEF put, q

LEMMA StepOfRun ==
  ASSUME IsPlan(run.tasks), Workable(run.tasks), NEW id, NEW state \in TaskStates
  PROVE  LET q == WithState(id, state)
         IN  /\ IsPlan(q) /\ Workable(q) /\ IdsOf(q) = IdsOf(run.tasks)
             /\ TasksOf(q) = {Put(u, id, state) : u \in TasksOf(run.tasks)}
             /\ Done(q) = IF state = "COMPLETED"
                          THEN Done(run.tasks) \cup (IdsOf(run.tasks) \cap {id})
                          ELSE Done(run.tasks) \ {id}
<1>1. WithState(id, state) = PutIn(run.tasks, id, state)
  BY DEF WithState, PutIn, Put
<1> DEFINE plan == run.tasks
<1> HIDE DEF plan
<1>2. IsPlan(plan) /\ Workable(plan) /\ WithState(id, state) = PutIn(plan, id, state)
  BY <1>1 DEF plan
<1>3. /\ IsPlan(PutIn(plan, id, state)) /\ Workable(PutIn(plan, id, state))
      /\ IdsOf(PutIn(plan, id, state)) = IdsOf(plan)
      /\ TasksOf(PutIn(plan, id, state)) = {Put(u, id, state) : u \in TasksOf(plan)}
      /\ Done(PutIn(plan, id, state))
           = IF state = "COMPLETED" THEN Done(plan) \cup (IdsOf(plan) \cap {id})
                                    ELSE Done(plan) \ {id}
  BY <1>2, StepPlan
<1> QED BY <1>2, <1>3 DEF plan

-----------------------------------------------------------------------------
(* The steps of a run: what each makes of every field of its payload.      *)

Shaped ==
  run = [state |-> run.state, tasks |-> run.tasks, evidence |-> run.evidence,
         receipt |-> run.receipt, claims |-> run.claims, review |-> run.review,
         memo |-> run.memo]

\* The payload is a record with a plan that can be worked off and a sequence of
\* records, each of them once.
Formed ==
  /\ Shaped
  /\ IsPlan(run.tasks) /\ Workable(run.tasks)
  /\ run.evidence \in Seq(RecordsOf(run.evidence)) /\ Once(run.evidence)

Unfinished == run.state \in {"CREATED", "RUNNING"}
Unsettled == run.state \in {"CREATED", "RUNNING", "VERIFYING"}

\* Where nothing but the state changes.
Turns(state) ==
  /\ Shaped' /\ run'.state = state
  /\ UNCHANGED <<run.tasks, run.evidence, run.receipt, run.claims, run.review, run.memo>>
Halts == Turns("FAILED")

\* Nothing but the state and the reason changes when a run fails.
LEMMA FailHalts ==
  ASSUME Shaped, NEW why, Fail(why)
  PROVE  Halts /\ reason' = why
<1>1. run' = [state |-> "FAILED", tasks |-> run.tasks, evidence |-> run.evidence,
              receipt |-> run.receipt, claims |-> run.claims, review |-> run.review,
              memo |-> run.memo]
  BY DEF Shaped, Fail
<1> QED BY <1>1 DEF Halts, Turns, Shaped, Fail

\* Nothing but the state and the reason changes when an execution raises.
LEMMA RaiseTurns ==
  ASSUME Shaped, NEW what, Raise(what)
  PROVE  Turns("VERIFYING") /\ reason' = what
<1>1. run' = [state |-> "VERIFYING", tasks |-> run.tasks, evidence |-> run.evidence,
              receipt |-> run.receipt, claims |-> run.claims, review |-> run.review,
              memo |-> run.memo]
  BY DEF Shaped, Raise
<1> QED BY <1>1 DEF Turns, Shaped, Raise

\* A task that was not done takes a state in which it is not done either.
Marks(task, state) ==
  /\ Shaped' /\ task \in TasksOf(run.tasks) /\ task.state # "COMPLETED"
  /\ state \in TaskStates \ {"COMPLETED"}
  /\ run'.tasks = WithState(task.id, state)
  /\ run'.receipt \in {run.receipt, With(run.receipt, task.id, InputHash(task))}
  /\ UNCHANGED <<run.evidence, run.claims, run.review, run.memo, dynamic, round, worked>>

\* The steps that do so: a collection that fails or breaks off, what the next
\* execution makes of it, and what the operator does.
MarksSomehow ==
  \E task \in TasksOf(run.tasks) :
    \/ /\ Unfinished /\ Marks(task, "FAILED") /\ run'.state = "FAILED" /\ reason' = "provider"
    \/ /\ Unfinished /\ Marks(task, "RUNNING") /\ run'.state = "RUNNING" /\ reason' = reason
    \/ /\ Unfinished /\ Marks(task, "UNKNOWN_EFFECT") /\ run'.state = "BLOCKED"
       /\ reason' = reason /\ task.id \in DOMAIN run'.receipt
    \/ /\ run.state = "BLOCKED" /\ Marks(task, "PENDING") /\ run'.state = "CREATED"
       /\ reason' = reason /\ task.state = "UNKNOWN_EFFECT"
       /\ task.id \in DOMAIN run.receipt /\ run'.receipt = run.receipt
    \/ /\ run.state = "BLOCKED" /\ Marks(task, "FAILED") /\ run'.state = "FAILED"
       /\ reason' = "operator"

\* What marking a task makes of the payload.
LEMMA MarkedFields ==
  ASSUME Shaped, NEW task \in TasksOf(run.tasks), task.state # "COMPLETED",
         NEW state \in TaskStates \ {"COMPLETED"}, NEW to,
         NEW receipt \in {run.receipt, With(run.receipt, task.id, InputHash(task))},
         run' = [state |-> to, tasks |-> WithState(task.id, state), evidence |-> run.evidence,
                 receipt |-> receipt, claims |-> run.claims, review |-> run.review,
                 memo |-> run.memo],
         UNCHANGED <<dynamic, round, worked>>
  PROVE  Marks(task, state) /\ run'.state = to /\ run'.receipt = receipt
<1>1. run'.tasks = WithState(task.id, state)
  OBVIOUS
<1>2. /\ run'.state = to /\ run'.receipt = receipt
      /\ UNCHANGED <<run.evidence, run.claims, run.review, run.memo>>
  OBVIOUS
<1>3. Shaped'
  BY DEF Shaped
<1> QED BY <1>1, <1>2, <1>3 DEF Marks

\* A payload in which a task is marked.
LEMMA MarkedRun ==
  ASSUME Shaped, NEW task, NEW state
  PROVE  Marked(task, state)
           = [state |-> run.state, tasks |-> WithState(task.id, state), evidence |-> run.evidence,
              receipt |-> With(run.receipt, task.id, InputHash(task)), claims |-> run.claims,
              review |-> run.review, memo |-> run.memo]
<1> DEFINE tasks == WithState(task.id, state)
           opened == With(run.receipt, task.id, InputHash(task))
<1>1. Marked(task, state) = [run EXCEPT !.tasks = tasks, !.receipt = opened]
  BY DEF Marked
<1> HIDE DEF tasks, opened
<1>2. Marked(task, state) = [state |-> run.state, tasks |-> tasks, evidence |-> run.evidence,
                             receipt |-> opened, claims |-> run.claims, review |-> run.review,
                             memo |-> run.memo]
  BY <1>1 DEF Shaped
<1> QED BY <1>2 DEF tasks, opened

\* A collection that fails or breaks off, and the next execution's answer to it.
LEMMA BrokenStep ==
  ASSUME Formed, NEW task \in TasksOf(run.tasks), FailCollection(task) \/ Interrupt(task)
  PROVE  MarksSomehow
<1> DEFINE opened == With(run.receipt, task.id, InputHash(task))
<1>1. /\ Shaped /\ Unfinished /\ task.state # "COMPLETED" /\ UNCHANGED <<dynamic, round, worked>>
  BY DEF Formed, FailCollection, Interrupt, Going, Unfinished, ReadyTasks
<1>2. {"FAILED", "RUNNING"} \subseteq TaskStates \ {"COMPLETED"}
  BY DEF TaskStates
<1>3. CASE FailCollection(task)
  <2>1. run' = [Marked(task, "FAILED") EXCEPT !.state = "FAILED"] /\ reason' = "provider"
    BY <1>3 DEF FailCollection
  <2>2. run' = [state |-> "FAILED", tasks |-> WithState(task.id, "FAILED"),
                evidence |-> run.evidence, receipt |-> opened, claims |-> run.claims,
                review |-> run.review, memo |-> run.memo]
    <3> DEFINE marked == Marked(task, "FAILED")
               tasks == WithState(task.id, "FAILED")
    <3>1. marked = [state |-> run.state, tasks |-> tasks, evidence |-> run.evidence,
                    receipt |-> opened, claims |-> run.claims, review |-> run.review,
                    memo |-> run.memo]
      BY <1>1, MarkedRun
    <3>2. run' = [marked EXCEPT !.state = "FAILED"]
      BY <2>1
    <3> HIDE DEF marked, tasks, opened
    <3>3. run' = [state |-> "FAILED", tasks |-> tasks, evidence |-> run.evidence,
                  receipt |-> opened, claims |-> run.claims, review |-> run.review,
                  memo |-> run.memo]
      BY <3>1, <3>2
    <3> QED BY <3>3 DEF tasks, opened
  <2>3. Marks(task, "FAILED") /\ run'.state = "FAILED"
    BY <1>1, <1>2, <2>2, MarkedFields
  <2> QED BY <1>1, <2>1, <2>3 DEF MarksSomehow
<1>4. CASE Interrupt(task)
  <2>1. PICK receipt \in {run.receipt, opened} :
          run' = [Marked(task, "RUNNING") EXCEPT !.state = "RUNNING", !.receipt = receipt]
    <3>1. Marked(task, "RUNNING").receipt = opened
      BY <1>1, MarkedRun
    <3> QED BY <1>4, <3>1 DEF Interrupt
  <2>2. run' = [state |-> "RUNNING", tasks |-> WithState(task.id, "RUNNING"),
                evidence |-> run.evidence, receipt |-> receipt, claims |-> run.claims,
                review |-> run.review, memo |-> run.memo]
    <3> DEFINE marked == Marked(task, "RUNNING")
               tasks == WithState(task.id, "RUNNING")
    <3>1. marked = [state |-> run.state, tasks |-> tasks, evidence |-> run.evidence,
                    receipt |-> opened, claims |-> run.claims, review |-> run.review,
                    memo |-> run.memo]
      BY <1>1, MarkedRun
    <3>2. run' = [marked EXCEPT !.state = "RUNNING", !.receipt = receipt]
      BY <2>1
    <3> HIDE DEF marked, tasks, opened
    <3>3. run' = [state |-> "RUNNING", tasks |-> tasks, evidence |-> run.evidence,
                  receipt |-> receipt, claims |-> run.claims, review |-> run.review,
                  memo |-> run.memo]
      BY <3>1, <3>2
    <3> QED BY <3>3 DEF tasks, opened
  <2>3. Marks(task, "RUNNING") /\ run'.state = "RUNNING"
    BY <1>1, <1>2, <2>2, MarkedFields
  <2>4. reason' = reason
    BY <1>4 DEF Interrupt
  <2> QED BY <1>1, <2>3, <2>4 DEF MarksSomehow
<1> QED BY <1>3, <1>4

\* The next execution blocks the run over a task that was left RUNNING.
LEMMA AbandonStep ==
  ASSUME Formed, Abandon
  PROVE  MarksSomehow
<1>1. PICK i \in DOMAIN run.tasks :
        /\ run.tasks[i].state = "RUNNING"
        /\ run' = [Marked(run.tasks[i], "UNKNOWN_EFFECT") EXCEPT !.state = "BLOCKED"]
  BY DEF Abandon
<1> DEFINE task == run.tasks[i]
           opened == With(run.receipt, task.id, InputHash(task))
<1>2. /\ Shaped /\ Unfinished /\ UNCHANGED <<dynamic, round, worked, reason>>
      /\ task \in TasksOf(run.tasks) /\ task.state # "COMPLETED"
      /\ "UNKNOWN_EFFECT" \in TaskStates \ {"COMPLETED"}
  BY <1>1 DEF Formed, Abandon, Unfinished, TasksOf, TaskStates
<1> HIDE DEF task
<1>3. run' = [state |-> "BLOCKED", tasks |-> WithState(task.id, "UNKNOWN_EFFECT"),
              evidence |-> run.evidence, receipt |-> opened, claims |-> run.claims,
              review |-> run.review, memo |-> run.memo]
  <2>1. run' = [Marked(task, "UNKNOWN_EFFECT") EXCEPT !.state = "BLOCKED"]
    BY <1>1 DEF task
  <2>2. run' = [state |-> "BLOCKED", tasks |-> WithState(task.id, "UNKNOWN_EFFECT"),
                evidence |-> run.evidence, receipt |-> opened, claims |-> run.claims,
                review |-> run.review, memo |-> run.memo]
    <3> DEFINE marked == Marked(task, "UNKNOWN_EFFECT")
               tasks == WithState(task.id, "UNKNOWN_EFFECT")
    <3>1. marked = [state |-> run.state, tasks |-> tasks, evidence |-> run.evidence,
                    receipt |-> opened, claims |-> run.claims, review |-> run.review,
                    memo |-> run.memo]
      BY <1>2, MarkedRun
    <3>2. run' = [marked EXCEPT !.state = "BLOCKED"]
      BY <2>1
    <3> HIDE DEF marked, tasks, opened
    <3>3. run' = [state |-> "BLOCKED", tasks |-> tasks, evidence |-> run.evidence,
                  receipt |-> opened, claims |-> run.claims, review |-> run.review,
                  memo |-> run.memo]
      BY <3>1, <3>2
    <3> QED BY <3>3 DEF tasks, opened
  <2> QED BY <2>2
<1>4. Marks(task, "UNKNOWN_EFFECT") /\ run'.state = "BLOCKED" /\ run'.receipt = opened
  BY <1>2, <1>3, MarkedFields
<1>5. task.id \in DOMAIN opened
  BY DEF With
<1> QED BY <1>2, <1>4, <1>5 DEF MarksSomehow

\* The operator's answer.
LEMMA ResolveStep ==
  ASSUME Formed, NEW task \in TasksOf(run.tasks), Resolve(task)
  PROVE  MarksSomehow
<1>1. /\ Shaped /\ run.state = "BLOCKED" /\ task.state = "UNKNOWN_EFFECT"
      /\ task.id \in DOMAIN run.receipt /\ UNCHANGED <<dynamic, round, worked>>
      /\ {"PENDING", "FAILED"} \subseteq TaskStates \ {"COMPLETED"}
  BY DEF Formed, Resolve, TaskStates
<1>2. ASSUME NEW to, NEW state \in {"PENDING", "FAILED"},
             run' = [run EXCEPT !.state = to, !.tasks = WithState(task.id, state)]
      PROVE  Marks(task, state) /\ run'.state = to /\ run'.receipt = run.receipt
  <2>1. run' = [state |-> to, tasks |-> WithState(task.id, state), evidence |-> run.evidence,
                receipt |-> run.receipt, claims |-> run.claims, review |-> run.review,
                memo |-> run.memo]
    <3> DEFINE tasks == WithState(task.id, state)
    <3>1. run' = [run EXCEPT !.state = to, !.tasks = tasks]
      BY <1>2
    <3> HIDE DEF tasks
    <3>2. run' = [state |-> to, tasks |-> tasks, evidence |-> run.evidence,
                  receipt |-> run.receipt, claims |-> run.claims, review |-> run.review,
                  memo |-> run.memo]
      BY <1>1, <3>1 DEF Shaped
    <3> QED BY <3>2 DEF tasks
  <2> QED BY <1>1, <2>1, MarkedFields
<1>3. CASE /\ run' = [run EXCEPT !.state = "CREATED", !.tasks = WithState(task.id, "PENDING")]
           /\ UNCHANGED reason
  <2>1. Marks(task, "PENDING") /\ run'.state = "CREATED" /\ run'.receipt = run.receipt
    BY <1>2, <1>3
  <2> QED BY <1>1, <1>3, <2>1 DEF MarksSomehow
<1>4. CASE /\ run' = [run EXCEPT !.state = "FAILED", !.tasks = WithState(task.id, "FAILED")]
           /\ reason' = "operator"
  <2>1. Marks(task, "FAILED") /\ run'.state = "FAILED"
    BY <1>2, <1>4
  <2> QED BY <1>1, <1>4, <2>1 DEF MarksSomehow
<1> QED BY <1>3, <1>4 DEF Resolve

\* A task is completed with its receipt, its records merged into the run's.
Collects(task, records) ==
  /\ Shaped' /\ Unfinished /\ task \in ReadyTasks
  /\ run'.state = "RUNNING"
  /\ run'.tasks = WithState(task.id, "COMPLETED")
  /\ run'.evidence = MergedEvidence(run.evidence, records)
  /\ run'.receipt = With(run.receipt, task.id, InputHash(task))
  /\ worked' = With(worked, task.id, round)
  /\ UNCHANGED <<run.claims, run.review, run.memo, dynamic, round, reason>>

\* What completing a task makes of the payload.
LEMMA CompletedFields ==
  ASSUME Shaped, NEW task \in ReadyTasks, Unfinished, NEW records, run' = Completed(task, records),
         worked' = With(worked, task.id, round), UNCHANGED <<dynamic, round, reason>>
  PROVE  Collects(task, records)
<1> DEFINE receipt == With(run.receipt, task.id, InputHash(task))
           evidence == MergedEvidence(run.evidence, records)
           tasks == WithState(task.id, "COMPLETED")
           marked == [run EXCEPT !.tasks = tasks, !.receipt = receipt]
<1>1. run' = [marked EXCEPT !.state = "RUNNING", !.evidence = MergedEvidence(@, records)]
  BY DEF Completed, Marked
<1> HIDE DEF receipt, tasks
<1>2. marked = [state |-> run.state, tasks |-> tasks, evidence |-> run.evidence,
                receipt |-> receipt, claims |-> run.claims, review |-> run.review,
                memo |-> run.memo]
  <2>1. marked = [run EXCEPT !.tasks = tasks, !.receipt = receipt]
    OBVIOUS
  <2> HIDE DEF marked, evidence
  <2> QED BY <2>1 DEF Shaped
<1> HIDE DEF marked
<1>3. marked.evidence = run.evidence
  BY <1>2
<1>4. run' = [marked EXCEPT !.state = "RUNNING", !.evidence = evidence]
  BY <1>1, <1>3
<1> HIDE DEF evidence
<1>5. run' = [state |-> "RUNNING", tasks |-> tasks, evidence |-> evidence,
              receipt |-> receipt, claims |-> run.claims, review |-> run.review,
              memo |-> run.memo]
  BY <1>2, <1>4
<1>6. Shaped'
  BY <1>5 DEF Shaped
<1>7. /\ run'.state = "RUNNING" /\ run'.tasks = tasks /\ run'.evidence = evidence
      /\ run'.receipt = receipt
      /\ UNCHANGED <<run.claims, run.review, run.memo>>
  BY <1>5
<1> QED BY <1>6, <1>7 DEF Collects, receipt, evidence, tasks

\* Whoever collects, what comes of it is a sequence of records.
LEMMA CollectStep ==
  ASSUME Formed, NEW task \in TasksOf(run.tasks), Collect(task)
  PROVE  \E S : \E records \in Seq(S) : Collects(task, records)
<1>1. IsFiniteSet(DOMAIN task.needs)
  BY DEF Formed, IsPlan, IsTask
<1>2. Shaped /\ Unfinished /\ task \in ReadyTasks /\ worked' = With(worked, task.id, round)
      /\ UNCHANGED <<dynamic, round, reason>>
  BY DEF Formed, Collect, Going, Unfinished
<1>3. CASE run' = Completed(task, Runtime(task, round))
  <2>1. PICK S : Runtime(task, round) \in Seq(S)
    BY <1>1, RuntimeSeq
  <2>2. Collects(task, Runtime(task, round))
    BY <1>2, <1>3, CompletedFields
  <2> QED BY <2>1, <2>2
<1>4. ASSUME NEW a \in Answers, run' = Completed(task, External(task, a.found, a.eligible))
      PROVE  \E S : \E records \in Seq(S) : Collects(task, records)
  <2>1. a.found \in Seq({a.found[i] : i \in DOMAIN a.found})
    BY AnswerAssumption
  <2>2. PICK S : External(task, a.found, a.eligible) \in Seq(S)
    BY <1>1, <2>1, ExternalSeq
  <2>3. Collects(task, External(task, a.found, a.eligible))
    BY <1>2, <1>4, CompletedFields
  <2> QED BY <2>2, <2>3
<1> QED BY <1>3, <1>4 DEF Collect

\* The last write of a run: claims, memo and review of a draft that is accepted.
Finishes(draft, supported) ==
  /\ Shaped' /\ Unsettled /\ Done(run.tasks) = IdsOf(run.tasks) /\ Accepts(draft)
  /\ run' = Finished(ClaimsOf(draft, supported))
  /\ run'.claims = ClaimsOf(draft, supported)
  /\ run'.state \in {"COMPLETED", "PARTIAL"}
  /\ run'.state = "COMPLETED" =>
       /\ \A t \in TasksOf(run.tasks) : TaskQualified(run.evidence, t)
       /\ \A id \in DOMAIN run'.claims : run'.claims[id].status = "QUALIFIED"
  /\ run'.memo = Memo(run'.claims, run'.state)
  /\ run'.review = IF Unresolved(run.tasks, run.evidence) = {}
                   THEN "PENDING_REVIEW" ELSE "NEEDS_REVIEW"
  /\ UNCHANGED <<run.tasks, run.evidence, run.receipt>>

\* What the last write makes of the payload.
LEMMA FinishedFields ==
  ASSUME Shaped, Unsettled, Done(run.tasks) = IdsOf(run.tasks), NEW draft, Accepts(draft),
         NEW supported, run' = Finished(ClaimsOf(draft, supported))
  PROVE  Finishes(draft, supported)
<1> DEFINE claims == ClaimsOf(draft, supported)
           good == /\ \A t \in TasksOf(run.tasks) : TaskQualified(run.evidence, t)
                   /\ \A id \in DOMAIN claims : claims[id].status = "QUALIFIED"
           state == IF good THEN "COMPLETED" ELSE "PARTIAL"
           memo == Memo(claims, state)
           review == IF Unresolved(run.tasks, run.evidence) = {}
                     THEN "PENDING_REVIEW" ELSE "NEEDS_REVIEW"
<1>1. run' = [run EXCEPT !.state = state, !.claims = claims, !.memo = memo, !.review = review]
  BY DEF Finished
<1>2. state \in {"COMPLETED", "PARTIAL"} /\ (state = "COMPLETED" => good)
  OBVIOUS
<1> HIDE DEF memo, review, claims, state
<1>3. run' = [state |-> state, tasks |-> run.tasks, evidence |-> run.evidence,
              receipt |-> run.receipt, claims |-> claims, review |-> review, memo |-> memo]
  BY <1>1 DEF Shaped
<1>4. Shaped'
  BY <1>3 DEF Shaped
<1>5. /\ run'.state = state /\ run'.claims = claims /\ run'.memo = memo /\ run'.review = review
      /\ UNCHANGED <<run.tasks, run.evidence, run.receipt>>
  BY <1>3
<1>6. run'.memo = Memo(run'.claims, run'.state)
  BY <1>5 DEF memo
<1>7. run'.state = "COMPLETED" =>
        /\ \A t \in TasksOf(run.tasks) : TaskQualified(run.evidence, t)
        /\ \A id \in DOMAIN run'.claims : run'.claims[id].status = "QUALIFIED"
  BY <1>2, <1>5
<1> QED BY <1>2, <1>4, <1>5, <1>6, <1>7 DEF Finishes, claims, review

\* A draft that is accepted finishes the run.
Concludes ==
  /\ reason' = "none" /\ UNCHANGED <<dynamic, round, worked>>
  /\ \E draft, supported : Finishes(draft, supported)

\* A run that fails with its tasks as they are, and why: no ready task only where
\* none is ready, the synthesis only where the deterministic draft is refused.
Stops ==
  /\ Halts /\ Unsettled /\ UNCHANGED <<dynamic, round, worked>>
  /\ reason' \in {"no ready task", "synthesis", "model", "verification"}
  /\ reason' = "no ready task" =>
       Going /\ ReadyTasks = {} /\ Done(run.tasks) # IdsOf(run.tasks)
  /\ reason' = "synthesis" => ~Accepts(Draft)

\* An execution that raises, over limits only where the deterministic draft has them.
Raises ==
  /\ Turns("VERIFYING") /\ Unsettled /\ Done(run.tasks) = IdsOf(run.tasks)
  /\ UNCHANGED <<dynamic, round, worked>>
  /\ \/ reason' = "memo"
     \/ reason' = "limits" /\ ~Fits

\* What comes of a draft that is checked.
LEMMA DraftStep ==
  ASSUME Formed, Verifying, UNCHANGED <<dynamic, round, worked>>, NEW draft,
         NEW why \in {"synthesis", "model"}, why = "synthesis" => draft = Draft
  PROVE  /\ Conclude(draft) => Concludes
         /\ Refuse(draft, why) => Stops
         /\ Fail("model") => Stops
         /\ Raise("memo") => Raises
         /\ Raise("limits") /\ ~Fits => Raises
<1>1. Shaped /\ Unsettled /\ Done(run.tasks) = IdsOf(run.tasks)
  BY DEF Formed, Verifying, Unsettled
<1>2. ASSUME Conclude(draft) PROVE Concludes
  <2>1. PICK supported : run' = Finished(ClaimsOf(draft, supported))
    BY <1>2 DEF Conclude
  <2>2. Finishes(draft, supported)
    BY <1>1, <1>2, <2>1, FinishedFields DEF Conclude
  <2> QED BY <1>2, <2>2 DEF Conclude, Concludes
<1>3. ASSUME NEW what, Fail(what) PROVE Halts /\ reason' = what
  BY <1>1, <1>3, FailHalts
<1>4. ASSUME Refuse(draft, why) PROVE Stops
  <2>1. CASE ~Accepts(draft) /\ Fail(why)
    BY <1>1, <1>3, <2>1 DEF Stops
  <2>2. CASE Accepts(draft) /\ Fail("verification")
    <3>1. Halts /\ reason' = "verification"
      BY <1>3, <2>2
    <3> QED BY <1>1, <3>1 DEF Stops
  <2> QED BY <1>4, <2>1, <2>2 DEF Refuse
<1>5. ASSUME Fail("model") PROVE Stops
  <2>1. Halts /\ reason' = "model"
    BY <1>3, <1>5
  <2> QED BY <1>1, <2>1 DEF Stops
<1>6. ASSUME NEW what, Raise(what) PROVE Turns("VERIFYING") /\ reason' = what
  BY <1>1, <1>6, RaiseTurns
<1>7. (Raise("memo") => Raises) /\ (Raise("limits") /\ ~Fits => Raises)
  BY <1>1, <1>6 DEF Raises
<1> QED BY <1>2, <1>4, <1>5, <1>7

\* Synthesis concludes a run, fails it or raises.
LEMMA VerifyStep ==
  ASSUME Formed, VerifyDraft \/ VerifyModelDraft
  PROVE  Concludes \/ Stops \/ Raises
<1>1. Verifying /\ UNCHANGED <<dynamic, round, worked>>
  BY DEF VerifyDraft, VerifyModelDraft
<1>2. CASE VerifyDraft
  <2>1. \/ Conclude(Draft) \/ Refuse(Draft, "synthesis")
        \/ ~Fits /\ Raise("limits")
    BY <1>2 DEF VerifyDraft
  <2>2. "synthesis" \in {"synthesis", "model"}
    OBVIOUS
  <2>3. /\ Conclude(Draft) => Concludes
        /\ Refuse(Draft, "synthesis") => Stops
        /\ Raise("limits") /\ ~Fits => Raises
    BY <1>1, <2>2, DraftStep
  <2> QED BY <2>1, <2>3
<1>3. CASE VerifyModelDraft
  <2>1. PICK draft : Conclude(draft) \/ Refuse(draft, "model") \/ Raise("memo") \/ Fail("model")
    BY <1>3 DEF VerifyModelDraft
  <2>2. "model" \in {"synthesis", "model"} /\ "model" # "synthesis"
    OBVIOUS
  <2>3. /\ Conclude(draft) => Concludes
        /\ Refuse(draft, "model") => Stops
        /\ Fail("model") => Stops
        /\ Raise("memo") => Raises
    BY <1>1, <2>2, DraftStep
  <2> QED BY <2>1, <2>3
<1> QED BY <1>2, <1>3

\* A replan that is taken over: the plan it makes is valid, what it resets is gone.
Replans(new, reset) ==
  /\ Shaped' /\ IsPlan(new) /\ run.state = "PARTIAL" /\ round < MaxRounds
  /\ IdsOf(new) \ IdsOf(run.tasks) \subseteq reset
  /\ Changed(run.tasks, new, run.receipt) \subseteq reset
  /\ \A u \in TasksOf(Merged(run.tasks, new)) : u.deps \cap reset # {} => u.id \in reset
  /\ run'.tasks = ResetTasks(Merged(run.tasks, new), reset) /\ ValidPlan(run'.tasks)
  /\ run'.state = "CREATED" /\ run'.claims = << >> /\ run'.review = "NONE" /\ run'.memo = NoMemo
  /\ run'.evidence = WithoutTasks(run.evidence, reset)
  /\ run'.receipt = Restrict(run.receipt, DOMAIN run.receipt \ reset)
  /\ round' = round + 1
  /\ UNCHANGED <<dynamic, reason, worked>>

\* A replan resets what changed and all that depends on it.
LEMMA ReplanStep ==
  ASSUME Formed, NEW plan \in PlannerAnswers, Replan(plan)
  PROVE  \E new, reset : Replans(new, reset)
<1> DEFINE new == Retained(run.tasks, plan, dynamic)
           open == {Prefix(u[1]) : u \in Unresolved(run.tasks, run.evidence)}
           reset == ResetIds(run.tasks, new, run.receipt, open)
           merged == Merged(run.tasks, new)
           tasks == ResetTasks(merged, reset)
           evidence == WithoutTasks(run.evidence, reset)
           receipt == Restrict(run.receipt, DOMAIN run.receipt \ reset)
<1>1. IsPlan(new)
  BY PlannerPlans, RetainedPlan
<1>2. IsPlan(merged)
  BY <1>1, MergedPlan DEF Formed
<1>3. /\ IdsOf(new) \ IdsOf(run.tasks) \subseteq reset
      /\ Changed(run.tasks, new, run.receipt) \subseteq reset
      /\ \A u \in TasksOf(merged) : u.deps \cap reset # {} => u.id \in reset
  <2> DEFINE start == open \cup Changed(run.tasks, new, run.receipt)
                        \cup (IdsOf(new) \ IdsOf(run.tasks))
  <2>1. reset = WithDependents(merged, start)
    BY DEF ResetIds
  <2>2. merged \in Seq(TasksOf(merged))
    BY <1>2 DEF IsPlan
  <2>3. start \subseteq reset /\ \A u \in TasksOf(merged) : u.deps \cap reset # {} => u.id \in reset
    <3> HIDE DEF start, reset, merged
    <3> QED BY <2>1, <2>2, DependentsClosed
  <2>4. /\ IdsOf(new) \ IdsOf(run.tasks) \subseteq start
        /\ Changed(run.tasks, new, run.receipt) \subseteq start
    OBVIOUS
  <2> HIDE DEF reset, merged, new, start
  <2> QED BY <2>3, <2>4
<1>4. /\ run.state = "PARTIAL" /\ round < MaxRounds /\ ValidPlan(tasks)
      /\ round' = round + 1 /\ UNCHANGED <<dynamic, reason, worked>>
      /\ run' = [run EXCEPT !.state = "CREATED", !.tasks = tasks, !.claims = << >>,
                   !.review = "NONE", !.memo = NoMemo, !.evidence = evidence, !.receipt = receipt]
  BY DEF Replan
<1> HIDE DEF tasks, evidence, receipt, reset, new, merged
<1>5. run' = [state |-> "CREATED", tasks |-> tasks, evidence |-> evidence, receipt |-> receipt,
              claims |-> << >>, review |-> "NONE", memo |-> NoMemo]
  BY <1>4 DEF Formed, Shaped
<1>6. Shaped'
  BY <1>5 DEF Shaped
<1>7. /\ run'.state = "CREATED" /\ run'.tasks = tasks /\ run'.claims = << >>
      /\ run'.review = "NONE" /\ run'.memo = NoMemo
      /\ run'.evidence = evidence /\ run'.receipt = receipt
  BY <1>5
<1>8. Replans(new, reset)
  BY <1>1, <1>3, <1>4, <1>6, <1>7 DEF Replans, tasks, evidence, receipt, merged
<1> QED BY <1>8

\* Every step is one of six.
LEMMA Steps ==
  ASSUME Formed, [Next]_vars
  PROVE  \/ UNCHANGED vars
         \/ \E task \in TasksOf(run.tasks) : \E S : \E records \in Seq(S) : Collects(task, records)
         \/ MarksSomehow
         \/ Stops
         \/ Raises
         \/ Concludes
         \/ \E new, reset : Replans(new, reset)
<1>1. CASE UNCHANGED vars
  BY <1>1
<1>2. ASSUME NEW task \in TasksOf(run.tasks), Collect(task)
      PROVE  \E S : \E records \in Seq(S) : Collects(task, records)
  BY <1>2, CollectStep
<1>3. ASSUME NEW task \in TasksOf(run.tasks),
             FailCollection(task) \/ Interrupt(task) \/ Resolve(task)
      PROVE  MarksSomehow
  BY <1>3, BrokenStep, ResolveStep
<1>4. ASSUME NoReadyTask PROVE Stops
  <2>1. Shaped /\ Fail("no ready task") /\ Going /\ Unsettled
    BY <1>4 DEF NoReadyTask, Formed, Going, Unsettled
  <2>2. Halts /\ reason' = "no ready task"
    BY <2>1, FailHalts
  <2> QED BY <1>4, <2>1, <2>2 DEF Stops, NoReadyTask
<1>5. ASSUME NEW plan \in PlannerAnswers, Replan(plan) PROVE \E new, reset : Replans(new, reset)
  BY <1>5, ReplanStep
<1>6. \/ UNCHANGED vars
      \/ \E task \in TasksOf(run.tasks) : Collect(task)
      \/ \E task \in TasksOf(run.tasks) :
           FailCollection(task) \/ Interrupt(task) \/ Resolve(task)
      \/ NoReadyTask
      \/ Abandon
      \/ VerifyDraft \/ VerifyModelDraft
      \/ \E plan \in PlannerAnswers : Replan(plan)
  BY DEF Next
<1>7. CASE \E task \in TasksOf(run.tasks) : Collect(task)
  BY <1>2, <1>7
<1>8. CASE \E plan \in PlannerAnswers : Replan(plan)
  BY <1>5, <1>8
<1>9. CASE \E task \in TasksOf(run.tasks) :
             FailCollection(task) \/ Interrupt(task) \/ Resolve(task)
  BY <1>3, <1>9
<1>10. CASE Abandon
  BY <1>10, AbandonStep
<1>11. CASE VerifyDraft \/ VerifyModelDraft
  BY <1>11, VerifyStep
<1> QED BY <1>1, <1>4, <1>6, <1>7, <1>8, <1>9, <1>10, <1>11

\* The payload of a run that is created is well formed.
LEMMA FormedInit == ASSUME Init PROVE Formed
<1>1. PICK plan \in Plans \cup PlannerAnswers : ValidPlan(plan) /\ run = NewRun(plan)
  BY DEF Init
<1>2. run = [state |-> "CREATED", tasks |-> plan, evidence |-> << >>, receipt |-> << >>,
             claims |-> << >>, review |-> "NONE", memo |-> NoMemo]
  BY <1>1 DEF NewRun
<1>3. Shaped
  BY <1>2 DEF Shaped
<1>4. IsPlan(plan) /\ Workable(plan)
  BY <1>1, PlannerPlans, ValidWorkable
<1>5. run.tasks = plan /\ run.evidence = << >>
  BY <1>2
<1>6. << >> \in Seq(RecordsOf(<< >>)) /\ Once(<< >>)
  <2>1. << >> \in Seq(RecordsOf(<< >>)) /\ DOMAIN << >> = {}
    BY EmptySeq
  <2> QED BY <2>1 DEF Once
<1> QED BY <1>3, <1>4, <1>5, <1>6 DEF Formed

\* Merging and resetting keep every record once, a replan's plan is valid, and
\* completing a task changes its state only.
LEMMA FormedStays == ASSUME Formed, [Next]_vars PROVE Formed'
<1>1. CASE UNCHANGED vars
  BY <1>1 DEF Formed, Shaped, vars
<1>2. ASSUME NEW task \in TasksOf(run.tasks), NEW S, NEW records \in Seq(S), Collects(task, records)
      PROVE  Formed'
  <2>1. IsPlan(run'.tasks) /\ Workable(run'.tasks)
    <3>1. "COMPLETED" \in TaskStates
      BY DEF TaskStates
    <3>2. IsPlan(WithState(task.id, "COMPLETED")) /\ Workable(WithState(task.id, "COMPLETED"))
      BY <3>1, StepOfRun DEF Formed
    <3> QED BY <1>2, <3>2 DEF Collects
  <2>2. run'.evidence \in Seq(RecordsOf(run'.evidence)) /\ Once(run'.evidence)
    <3> DEFINE U == RecordsOf(run.evidence) \cup S
               e == MergedEvidence(run.evidence, records)
    <3>1. run.evidence \in Seq(U) /\ records \in Seq(U)
      <4>1. RecordsOf(run.evidence) \subseteq U /\ S \subseteq U
        OBVIOUS
      <4> HIDE DEF U
      <4> QED BY <4>1, SeqMonotonic DEF Formed
    <3>2. e \in Seq(U) /\ Once(e)
      <4> HIDE DEF U
      <4> QED BY <3>1, MergedOnce DEF Formed
    <3>3. e \in Seq(RecordsOf(e))
      <4> HIDE DEF U, e
      <4> QED BY <3>2, PlanFromElements
    <3> QED BY <1>2, <3>2, <3>3 DEF Collects
  <2> QED BY <1>2, <2>1, <2>2 DEF Formed, Collects
<1>3. CASE Stops \/ Raises
  BY <1>3 DEF Formed, Stops, Raises, Halts, Turns
<1>4. CASE Concludes
  <2>1. PICK draft, supported : Finishes(draft, supported)
    BY <1>4 DEF Concludes
  <2> QED BY <2>1 DEF Formed, Finishes
<1>6. ASSUME NEW task, NEW state, Marks(task, state) PROVE Formed'
  <2>1. IsPlan(WithState(task.id, state)) /\ Workable(WithState(task.id, state))
    BY <1>6, StepOfRun DEF Formed, Marks
  <2> QED BY <1>6, <2>1 DEF Formed, Marks
<1>7. CASE MarksSomehow
  BY <1>6, <1>7 DEF MarksSomehow
<1>5. ASSUME NEW new, NEW reset, Replans(new, reset) PROVE Formed'
  <2>1. IsPlan(run'.tasks)
    BY <1>5, ReplannedPlan DEF Formed, Replans
  <2>2. Workable(run'.tasks)
    BY <1>5, <2>1, ValidWorkable DEF Replans
  <2>3. run'.evidence \in Seq(RecordsOf(run'.evidence)) /\ Once(run'.evidence)
    <3> DEFINE e == WithoutTasks(run.evidence, reset)
    <3>1. e \in Seq(RecordsOf(run.evidence)) /\ Once(e)
      BY WithoutTasksOnce DEF Formed
    <3>2. e \in Seq(RecordsOf(e))
      <4> HIDE DEF e
      <4> QED BY <3>1, PlanFromElements
    <3> QED BY <1>5, <3>1, <3>2 DEF Replans
  <2> QED BY <1>5, <2>1, <2>2, <2>3 DEF Formed, Replans
<1> QED BY <1>1, <1>2, <1>3, <1>4, <1>5, <1>7, Steps

-----------------------------------------------------------------------------
(* The types.                                                              *)

\* A memo that is written is one.
LEMMA MemoIsOne ==
  ASSUME NEW claims, NEW state
  PROVE  Memo(claims, state) # NoMemo
<1>1. Memo(claims, state).status \in {"READY_FOR_REVIEW", "DRAFT"}
  BY DEF Memo
<1>2. NoMemo.status = "NONE"
  BY DEF NoMemo
<1> QED BY <1>1, <1>2

\* The tasks that are done after a step.
LEMMA DoneAfter ==
  ASSUME Formed, NEW task, NEW records, Collects(task, records)
  PROVE  /\ Done(run'.tasks) = Done(run.tasks) \cup {task.id}
         /\ IdsOf(run'.tasks) = IdsOf(run.tasks) /\ task.id \in IdsOf(run.tasks)
<1>1. task \in TasksOf(run.tasks)
  BY DEF Collects, ReadyTasks
<1>2. task.id \in IdsOf(run.tasks)
  BY <1>1 DEF IdsOf
<1>3. "COMPLETED" \in TaskStates
  BY DEF TaskStates
<1>4. /\ IdsOf(WithState(task.id, "COMPLETED")) = IdsOf(run.tasks)
      /\ Done(WithState(task.id, "COMPLETED"))
           = Done(run.tasks) \cup (IdsOf(run.tasks) \cap {task.id})
  BY <1>3, StepOfRun DEF Formed
<1> QED BY <1>2, <1>4 DEF Collects

\* A step that marks a task leaves what is done.
LEMMA MarkedAfter ==
  ASSUME Formed, NEW task, NEW state, Marks(task, state)
  PROVE  /\ Done(run'.tasks) = Done(run.tasks) /\ task.id \notin Done(run.tasks)
         /\ IdsOf(run'.tasks) = IdsOf(run.tasks) /\ task.id \in IdsOf(run.tasks)
         /\ TasksOf(run'.tasks) = {Put(u, task.id, state) : u \in TasksOf(run.tasks)}
         /\ \A u \in TasksOf(run.tasks) :
              /\ Put(u, task.id, state).id = u.id
              /\ u.id # task.id => Put(u, task.id, state) = u
              /\ u.id = task.id => Put(u, task.id, state).state = state
         /\ DOMAIN run.receipt \subseteq DOMAIN run'.receipt
         /\ DOMAIN run'.receipt \subseteq DOMAIN run.receipt \cup {task.id}
         /\ \A i \in DOMAIN run.receipt : i # task.id => run'.receipt[i] = run.receipt[i]
<1>1. /\ task \in TasksOf(run.tasks) /\ task.state # "COMPLETED" /\ task.id \in IdsOf(run.tasks)
      /\ state \in TaskStates /\ state # "COMPLETED"
  BY DEF Marks, IdsOf
<1>2. task.id \notin Done(run.tasks)
  <2> SUFFICES ASSUME NEW u \in TasksOf(run.tasks), u.state = "COMPLETED", u.id = task.id PROVE FALSE
    BY DEF Done
  <2>1. u = task
    BY <1>1 DEF Formed, Workable
  <2> QED BY <1>1, <2>1
<1>3. /\ IdsOf(WithState(task.id, state)) = IdsOf(run.tasks)
      /\ TasksOf(WithState(task.id, state)) = {Put(u, task.id, state) : u \in TasksOf(run.tasks)}
      /\ Done(WithState(task.id, state)) = Done(run.tasks) \ {task.id}
  BY <1>1, StepOfRun DEF Formed
<1>4. ASSUME NEW u \in TasksOf(run.tasks)
      PROVE  /\ Put(u, task.id, state).id = u.id
             /\ u.id # task.id => Put(u, task.id, state) = u
             /\ u.id = task.id => Put(u, task.id, state).state = state
  <2>1. IsTask(u)
    BY DEF Formed, IsPlan
  <2> QED BY <1>1, <2>1, TaskChanges DEF Put
<1>5. /\ DOMAIN run.receipt \subseteq DOMAIN run'.receipt
      /\ DOMAIN run'.receipt \subseteq DOMAIN run.receipt \cup {task.id}
      /\ \A i \in DOMAIN run.receipt : i # task.id => run'.receipt[i] = run.receipt[i]
  <2>1. CASE run'.receipt = run.receipt
    BY <2>1
  <2>2. CASE run'.receipt = With(run.receipt, task.id, InputHash(task))
    BY <2>2 DEF With
  <2> QED BY <2>1, <2>2 DEF Marks
<1>6. run'.tasks = WithState(task.id, state)
  BY DEF Marks
<1> QED BY <1>1, <1>2, <1>3, <1>4, <1>5, <1>6

\* A run as it is created has the types.
LEMMA TypeInit == ASSUME Init PROVE TypeOK
<1>1. PICK plan \in Plans \cup PlannerAnswers : ValidPlan(plan) /\ run = NewRun(plan)
  BY DEF Init
<1>2. IsPlan(plan)
  BY <1>1, PlannerPlans
<1>3. /\ run.state = "CREATED" /\ run.tasks = plan /\ run.receipt = << >> /\ run.review = "NONE"
      /\ run.memo = NoMemo
  BY <1>1 DEF NewRun
<1>4. \A t \in TasksOf(plan) : t.state \in TaskStates
  BY <1>2 DEF IsPlan, IsTask
<1>5. DOMAIN << >> = {}
  OBVIOUS
<1>6. round \in 0 .. MaxRounds
  BY LimitAssumption DEF Init
<1> QED BY <1>3, <1>4, <1>5, <1>6 DEF TypeOK, Init

\* Receipts stay with the tasks that are done.
LEMMA TypeStays == ASSUME Formed, TypeOK, [Next]_vars PROVE TypeOK'
<1>0. \A t \in TasksOf(run'.tasks) : t.state \in TaskStates
  BY FormedStays DEF Formed, IsPlan, IsTask
<1>1. CASE UNCHANGED vars
  BY <1>1 DEF TypeOK, vars
<1>2. ASSUME NEW task \in TasksOf(run.tasks), NEW S, NEW records \in Seq(S), Collects(task, records)
      PROVE  TypeOK'
  <2>1. /\ Done(run'.tasks) = Done(run.tasks) \cup {task.id}
        /\ IdsOf(run'.tasks) = IdsOf(run.tasks) /\ task.id \in IdsOf(run.tasks)
    BY <1>2, DoneAfter
  <2>2. DOMAIN run'.receipt = DOMAIN run.receipt \cup {task.id}
    <3>1. run'.receipt = With(run.receipt, task.id, InputHash(task))
      BY <1>2 DEF Collects
    <3> QED BY <3>1 DEF With
  <2>3. DOMAIN worked' = DOMAIN worked \cup {task.id}
    <3>1. worked' = With(worked, task.id, round)
      BY <1>2 DEF Collects
    <3> QED BY <3>1 DEF With
  <2>4. /\ DOMAIN run'.receipt \subseteq IdsOf(run'.tasks)
        /\ Done(run'.tasks) \cap DOMAIN worked' \subseteq DOMAIN run'.receipt
        /\ DOMAIN worked' \subseteq IdsOf(run'.tasks)
    BY <2>1, <2>2, <2>3 DEF TypeOK
  <2>5. /\ run'.state = "RUNNING" /\ run'.review = run.review /\ run'.memo = run.memo
        /\ dynamic' = dynamic /\ round' = round /\ reason' = reason
    BY <1>2 DEF Collects
  <2> QED BY <1>0, <2>4, <2>5 DEF TypeOK
<1>3. CASE Stops \/ Raises
  <2>1. /\ UNCHANGED <<run.tasks, run.receipt, run.review, run.memo, dynamic, round, worked>>
        /\ run'.state \in {"FAILED", "VERIFYING"}
        /\ reason' \in {"no ready task", "synthesis", "model", "verification", "limits", "memo"}
    BY <1>3 DEF Stops, Raises, Halts, Turns
  <2> QED BY <1>0, <2>1 DEF TypeOK
<1>4. CASE Concludes
  <2>1. PICK draft, supported : Finishes(draft, supported)
    BY <1>4 DEF Concludes
  <2>2. run'.memo # NoMemo
    BY <2>1, MemoIsOne DEF Finishes
  <2>3. /\ run'.state \in {"COMPLETED", "PARTIAL"} /\ run'.review # "NONE"
        /\ run'.tasks = run.tasks /\ run'.receipt = run.receipt
    BY <2>1 DEF Finishes
  <2> QED BY <1>0, <1>4, <2>2, <2>3 DEF TypeOK, Concludes
<1>5. ASSUME NEW new, NEW reset, Replans(new, reset) PROVE TypeOK'
  <2>1. Done(run'.tasks) = Done(run.tasks) \ reset /\ IdsOf(run.tasks) \subseteq IdsOf(run'.tasks)
    BY <1>5, ReplannedPlan DEF Replans, Formed
  <2>2. DOMAIN run'.receipt = DOMAIN run.receipt \ reset
    BY <1>5 DEF Replans, Restrict
  <2>3. round' \in 0 .. MaxRounds
    <3>1. round' = round + 1 /\ round < MaxRounds /\ round \in 0 .. MaxRounds
      BY <1>5 DEF Replans, TypeOK
    <3> QED BY <3>1, LimitAssumption
  <2>4. /\ run'.state = "CREATED" /\ run'.review = "NONE" /\ run'.memo = NoMemo
        /\ dynamic' = dynamic /\ reason' = reason /\ worked' = worked
    BY <1>5 DEF Replans
  <2>5. /\ DOMAIN run'.receipt \subseteq IdsOf(run'.tasks)
        /\ Done(run'.tasks) \cap DOMAIN worked' \subseteq DOMAIN run'.receipt
        /\ DOMAIN worked' \subseteq IdsOf(run'.tasks)
    BY <2>1, <2>2, <2>4 DEF TypeOK
  <2> QED BY <1>0, <2>3, <2>4, <2>5 DEF TypeOK
<1>6. ASSUME NEW task, NEW state, Marks(task, state), run'.state = "BLOCKED" =>
               state = "UNKNOWN_EFFECT" /\ task.id \in DOMAIN run'.receipt,
             run'.state \in {"CREATED", "RUNNING", "BLOCKED", "FAILED"},
             reason' \in {reason, "provider", "operator"}
      PROVE  TypeOK'
  <2>1. /\ Done(run'.tasks) = Done(run.tasks) /\ IdsOf(run'.tasks) = IdsOf(run.tasks)
        /\ task.id \in IdsOf(run.tasks)
        /\ DOMAIN run.receipt \subseteq DOMAIN run'.receipt
        /\ DOMAIN run'.receipt \subseteq DOMAIN run.receipt \cup {task.id}
    BY <1>6, MarkedAfter
  <2>2. worked' = worked
    BY <1>6 DEF Marks
  <2>3. /\ DOMAIN run'.receipt \subseteq IdsOf(run'.tasks)
        /\ Done(run'.tasks) \cap DOMAIN worked' \subseteq DOMAIN run'.receipt
        /\ DOMAIN worked' \subseteq IdsOf(run'.tasks)
    BY <2>1, <2>2 DEF TypeOK
  <2>4. \E t \in TasksOf(run'.tasks) : t.id = task.id /\ t.state = state
    <3>1. task \in TasksOf(run.tasks)
      BY <1>6 DEF Marks
    <3>2. /\ TasksOf(run'.tasks) = {Put(u, task.id, state) : u \in TasksOf(run.tasks)}
          /\ Put(task, task.id, state).id = task.id /\ Put(task, task.id, state).state = state
      BY <1>6, <3>1, MarkedAfter
    <3> QED BY <3>1, <3>2
  <2>5. run'.state = "BLOCKED" => \E t \in TasksOf(run'.tasks) :
          t.state = "UNKNOWN_EFFECT" /\ t.id \in DOMAIN run'.receipt
    BY <1>6, <2>4
  <2>6. UNCHANGED <<run.review, run.memo, dynamic, round>>
    BY <1>6 DEF Marks
  <2> QED BY <1>0, <1>6, <2>3, <2>5, <2>6 DEF TypeOK
<1>7. CASE MarksSomehow
  BY <1>6, <1>7 DEF MarksSomehow
<1> QED BY <1>1, <1>2, <1>3, <1>4, <1>5, <1>7, Steps

\* The types hold of every run, for every set of plans and of answers.
THEOREM Types == Spec => []TypeOK
<1>1. Init => Formed /\ TypeOK
  BY FormedInit, TypeInit
<1>2. Formed /\ TypeOK /\ [Next]_vars => (Formed /\ TypeOK)'
  BY FormedStays, TypeStays
<1> QED BY <1>1, <1>2, PTL DEF Spec

\* However answers repeat or overlap, the run holds a record once: the merge compares
\* every record with what it has, its own answer's included.
THEOREM Records == Spec => []RecordsOnce
<1>1. Init => Formed
  BY FormedInit
<1>2. Formed /\ [Next]_vars => Formed'
  BY FormedStays
<1>3. Formed => RecordsOnce
  BY DEF Formed, Once, RecordsOnce
<1> QED BY <1>1, <1>2, <1>3, PTL DEF Spec

-----------------------------------------------------------------------------
(* Work that stays current.                                                *)

\* What was collected was so in a round that has begun.
Dated == \A id \in DOMAIN worked : worked[id] \in 0 .. round

Worked == Dated /\ WorkCurrent

\* Nothing is collected at first.
LEMMA WorkedInit == ASSUME Init PROVE Worked
<1>1. worked = << >> /\ DOMAIN << >> = {}
  BY DEF Init
<1> QED BY <1>1 DEF Worked, Dated, WorkCurrent

\* A task that is collected has its receipt and what it depends on; the other tasks
\* that are done do not depend on it, as it was not done.
LEMMA WorkedCollect ==
  ASSUME Formed, TypeOK, Worked, NEW task, NEW records, Collects(task, records)
  PROVE  Worked'
<1> DEFINE id == task.id
           done(u) == Put(u, id, "COMPLETED")
<1>1. /\ Done(run'.tasks) = Done(run.tasks) \cup {id}
      /\ IdsOf(run'.tasks) = IdsOf(run.tasks) /\ id \in IdsOf(run.tasks)
  BY DoneAfter
<1>2. TasksOf(run'.tasks) = {done(u) : u \in TasksOf(run.tasks)}
  <2>0. IsPlan(run.tasks) /\ Workable(run.tasks)
    BY DEF Formed
  <2>1. TasksOf(WithState(id, "COMPLETED")) = {Put(u, id, "COMPLETED") : u \in TasksOf(run.tasks)}
    <3> HIDE DEF id
    <3>0. "COMPLETED" \in TaskStates
      BY DEF TaskStates
    <3> QED BY <2>0, <3>0, StepOfRun
  <2>2. run'.tasks = WithState(id, "COMPLETED")
    BY DEF Collects
  <2> HIDE DEF id
  <2> QED BY <2>1, <2>2
<1>3. /\ task \in TasksOf(run.tasks) /\ task.state = "PENDING" /\ task.deps \subseteq Done(run.tasks)
  BY DEF Collects, ReadyTasks
<1>4. /\ worked' = With(worked, id, round) /\ run'.receipt = With(run.receipt, id, InputHash(task))
      /\ round' = round
  BY DEF Collects
<1>5. id \notin Done(run.tasks)
  <2> SUFFICES ASSUME NEW u \in TasksOf(run.tasks), u.state = "COMPLETED", u.id = id PROVE FALSE
    BY DEF Done
  <2>1. u = task
    BY <1>3 DEF Formed, Workable
  <2> QED BY <1>3, <2>1
<1>6. round \in Nat
  <2>1. round \in 0 .. MaxRounds
    BY DEF TypeOK
  <2> QED BY <2>1, LimitAssumption
<1>7. ASSUME NEW i \in DOMAIN worked, i # id
      PROVE  i \in DOMAIN worked' /\ worked'[i] = worked[i] /\ worked[i] \in 0 .. round
  <2>1. i \in DOMAIN With(worked, id, round) /\ With(worked, id, round)[i] = worked[i]
    BY <1>7 DEF With
  <2> QED BY <1>4, <2>1 DEF Worked, Dated
<1>a. DOMAIN worked' = DOMAIN worked \cup {id}
  BY <1>4 DEF With
<1>b. ASSUME NEW i \in DOMAIN run.receipt, i # id PROVE run'.receipt[i] = run.receipt[i]
  BY <1>4, <1>b DEF With
<1>8. id \in DOMAIN worked' /\ worked'[id] = round /\ run'.receipt[id] = InputHash(task)
  <2>1. id \in DOMAIN With(worked, id, round) /\ With(worked, id, round)[id] = round
    BY DEF With
  <2>2. With(run.receipt, id, InputHash(task))[id] = InputHash(task)
    BY DEF With
  <2> QED BY <1>4, <2>1, <2>2
<1> HIDE DEF id
<1>9. Dated'
  <2> SUFFICES ASSUME NEW i \in DOMAIN worked' PROVE worked'[i] \in 0 .. round'
    BY DEF Dated
  <2>1. CASE i = id
    <3>1. round \in 0 .. round
      BY <1>6
    <3> QED BY <1>4, <1>8, <2>1, <3>1
  <2>2. CASE i # id
    <3>1. i \in DOMAIN worked
      BY <1>a, <2>2
    <3> QED BY <1>4, <1>7, <2>2, <3>1
  <2> QED BY <2>1, <2>2
<1>10. ASSUME NEW u \in TasksOf(run.tasks), done(u).state = "COMPLETED", done(u).id \in DOMAIN worked'
       PROVE  /\ run'.receipt[done(u).id] = InputHash(done(u))
              /\ done(u).deps \subseteq Done(run'.tasks)
              /\ \A d \in done(u).deps \cap DOMAIN worked' : worked'[d] <= worked'[done(u).id]
  <2>1. CASE u.id = id
    <3>1. u = task
      BY <1>3, <2>1 DEF Formed, Workable, id
    <3>2. IsTask(task) /\ "COMPLETED" \in TaskStates
      BY <1>3 DEF Formed, IsPlan, TaskStates
    <3>3. done(u).id = id /\ done(u).deps = task.deps /\ InputHash(done(u)) = InputHash(task)
      BY <2>1, <3>1, <3>2, TaskChanges DEF Put
    <3>4. \A d \in task.deps \cap DOMAIN worked' : worked'[d] <= round
      <4> SUFFICES ASSUME NEW d \in task.deps, d \in DOMAIN worked' PROVE worked'[d] <= round
        OBVIOUS
      <4>1. d # id
        BY <1>3, <1>5
      <4>2. worked'[d] \in 0 .. round
        BY <1>7, <1>a, <4>1
      <4> QED BY <1>6, <4>2
    <3> HIDE DEF done
    <3> QED BY <1>1, <1>3, <1>8, <3>3, <3>4
  <2>2. CASE u.id # id
    <3>1. done(u) = u /\ u.state = "COMPLETED" /\ u.id \in Done(run.tasks) /\ u.id \in DOMAIN worked
      BY <1>10, <1>a, <2>2 DEF Done, Put
    <3>2. /\ run.receipt[u.id] = InputHash(u) /\ u.deps \subseteq Done(run.tasks)
          /\ \A d \in u.deps \cap DOMAIN worked : worked[d] <= worked[u.id]
      BY <3>1 DEF Worked, WorkCurrent
    <3>3. u.id \in DOMAIN run.receipt
      BY <3>1 DEF TypeOK
    <3>4. \A d \in u.deps \cap DOMAIN worked' : d \in DOMAIN worked /\ worked'[d] = worked[d]
      BY <1>5, <1>7, <1>a, <3>2
    <3>5. worked'[u.id] = worked[u.id] /\ run'.receipt[u.id] = run.receipt[u.id]
      BY <1>7, <1>b, <2>2, <3>1, <3>3
    <3> HIDE DEF done
    <3> QED BY <1>1, <3>1, <3>2, <3>4, <3>5
  <2> QED BY <2>1, <2>2
<1> HIDE DEF done
<1>11. WorkCurrent'
  BY <1>2, <1>10 DEF WorkCurrent
<1> QED BY <1>9, <1>11 DEF Worked

\* What a replan leaves done has its old definition, and so have, transitively, the
\* tasks it depends on: their dependents would be reset with them.
LEMMA WorkedReplan ==
  ASSUME Formed, TypeOK, Worked, NEW new, NEW reset, Replans(new, reset)
  PROVE  Worked'
<1> DEFINE merged == Merged(run.tasks, new)
           tasks == ResetTasks(merged, reset)
<1>1. /\ \A t \in TasksOf(tasks) :
           \/ t.id \in reset /\ t.state = "PENDING"
           \/ /\ t.id \notin reset /\ t \in TasksOf(merged)
              /\ \E u \in TasksOf(run.tasks) : t = Refreshed(u, new)
      /\ Done(tasks) = Done(run.tasks) \ reset
  BY ReplannedPlan DEF Formed, Replans
<1>2. /\ Changed(run.tasks, new, run.receipt) \subseteq reset /\ IsPlan(new)
      /\ \A u \in TasksOf(merged) : u.deps \cap reset # {} => u.id \in reset
      /\ run'.tasks = tasks /\ worked' = worked
      /\ run'.receipt = Restrict(run.receipt, DOMAIN run.receipt \ reset)
      /\ round' = round + 1
  BY DEF Replans
<1> HIDE DEF merged, tasks
<1>3. round \in Nat
  <2>1. round \in 0 .. MaxRounds
    BY DEF TypeOK
  <2> QED BY <2>1, LimitAssumption
<1>4. Dated'
  <2> SUFFICES ASSUME NEW i \in DOMAIN worked PROVE worked[i] \in 0 .. round'
    BY <1>2 DEF Dated
  <2>1. worked[i] \in 0 .. round
    BY DEF Worked, Dated
  <2>2. worked[i] \in 0 .. round + 1
    BY <1>3, <2>1
  <2> QED BY <1>2, <2>2
<1>5. ASSUME NEW t \in TasksOf(tasks), t.state = "COMPLETED", t.id \in DOMAIN worked
      PROVE  /\ run'.receipt[t.id] = InputHash(t)
             /\ t.deps \subseteq Done(tasks)
             /\ \A d \in t.deps \cap DOMAIN worked : worked[d] <= worked[t.id]
  <2>1. t.id \notin reset /\ t \in TasksOf(merged) /\ \E u \in TasksOf(run.tasks) : t = Refreshed(u, new)
    BY <1>1, <1>5
  <2>2. PICK u \in TasksOf(run.tasks) : t = Refreshed(u, new)
    BY <2>1
  <2>3. IsTask(u)
    BY DEF Formed, IsPlan
  <2>4. /\ t.id = u.id /\ t.state = u.state /\ IsTask(t)
        /\ u.id \in IdsOf(new) => InputHash(t) = InputHash(TaskOf(new, u.id))
        /\ u.id \notin IdsOf(new) => t = u
    BY <1>2, <2>2, <2>3, RefreshedTask
  <2>5. u.id \notin Changed(run.tasks, new, run.receipt)
    BY <1>2, <2>1, <2>4
  <2>6. u.id \in IdsOf(new) => InputHash(u) = InputHash(TaskOf(new, u.id))
    BY <2>5 DEF Changed
  <2>7. InputHash(t) = InputHash(u)
    BY <2>4, <2>6
  <2>8. t.deps = u.deps
    <3>1. InputHash(t).deps = t.deps /\ InputHash(u).deps = u.deps
      BY <2>3, <2>4, HashedDeps
    <3> QED BY <2>7, <3>1
  <2>9. /\ run.receipt[u.id] = InputHash(u) /\ u.deps \subseteq Done(run.tasks)
        /\ \A d \in u.deps \cap DOMAIN worked : worked[d] <= worked[u.id]
    BY <1>5, <2>4 DEF Worked, WorkCurrent
  <2>10. t.deps \cap reset = {}
    BY <1>2, <2>1
  <2>11. u.id \in DOMAIN run.receipt \ reset
    BY <1>5, <2>1, <2>4 DEF Done, TypeOK
  <2>12. run'.receipt[u.id] = run.receipt[u.id]
    BY <1>2, <2>11 DEF Restrict
  <2> QED BY <1>1, <2>4, <2>7, <2>8, <2>9, <2>10, <2>12
<1>6. WorkCurrent'
  BY <1>2, <1>5 DEF WorkCurrent
<1> QED BY <1>4, <1>6 DEF Worked

\* A step that marks a task touches nothing that is done.
LEMMA WorkedMark ==
  ASSUME Formed, TypeOK, Worked, NEW task, NEW state, Marks(task, state)
  PROVE  Worked'
<1>1. /\ Done(run'.tasks) = Done(run.tasks)
      /\ TasksOf(run'.tasks) = {Put(u, task.id, state) : u \in TasksOf(run.tasks)}
      /\ \A u \in TasksOf(run.tasks) :
           /\ u.id # task.id => Put(u, task.id, state) = u
           /\ u.id = task.id => Put(u, task.id, state).state = state
      /\ \A i \in DOMAIN run.receipt : i # task.id => run'.receipt[i] = run.receipt[i]
  BY MarkedAfter
<1>2. worked' = worked /\ round' = round /\ state # "COMPLETED"
  BY DEF Marks
<1>3. ASSUME NEW t \in TasksOf(run'.tasks), t.state = "COMPLETED", t.id \in DOMAIN worked
      PROVE  /\ run'.receipt[t.id] = InputHash(t)
             /\ t.deps \subseteq Done(run.tasks)
             /\ \A d \in t.deps \cap DOMAIN worked : worked[d] <= worked[t.id]
  <2>1. PICK u \in TasksOf(run.tasks) : t = Put(u, task.id, state)
    BY <1>1
  <2>2. u.id # task.id /\ t = u
    BY <1>1, <1>2, <1>3, <2>1
  <2>3. t.id \in DOMAIN run.receipt
    BY <1>3, <2>2 DEF TypeOK, Done
  <2>4. run'.receipt[t.id] = run.receipt[t.id]
    BY <1>1, <2>2, <2>3
  <2> QED BY <1>3, <2>2, <2>4 DEF Worked, WorkCurrent
<1>4. WorkCurrent'
  BY <1>1, <1>2, <1>3 DEF WorkCurrent
<1>5. Dated'
  BY <1>2 DEF Worked, Dated
<1> QED BY <1>4, <1>5 DEF Worked

\* Only collecting and replanning touch what is done.
LEMMA WorkedStays == ASSUME Formed, TypeOK, Worked, [Next]_vars PROVE Worked'
<1>1. CASE UNCHANGED vars
  BY <1>1 DEF Worked, Dated, WorkCurrent, vars
<1>2. ASSUME NEW task \in TasksOf(run.tasks), NEW S, NEW records \in Seq(S), Collects(task, records)
      PROVE  Worked'
  BY <1>2, WorkedCollect
<1>3. ASSUME UNCHANGED <<run.tasks, run.receipt, round, worked>> PROVE Worked'
  BY <1>3 DEF Worked, Dated, WorkCurrent
<1>4. CASE Stops \/ Raises
  BY <1>3, <1>4 DEF Stops, Raises, Halts, Turns
<1>5. CASE Concludes
  BY <1>3, <1>5 DEF Concludes, Finishes
<1>6. CASE MarksSomehow
  BY <1>6, WorkedMark DEF MarksSomehow
<1>7. ASSUME NEW new, NEW reset, Replans(new, reset) PROVE Worked'
  BY <1>7, WorkedReplan
<1> QED BY <1>1, <1>2, <1>4, <1>5, <1>6, <1>7, Steps

\* What a completed task shows, if it was collected at all, was collected for its present
\* definition, after everything it depends on, across any number of replans.
THEOREM Work == Spec => []WorkCurrent
<1>1. Init => Formed /\ TypeOK /\ Worked
  BY FormedInit, TypeInit, WorkedInit
<1>2. Formed /\ TypeOK /\ Worked /\ [Next]_vars => (Formed /\ TypeOK /\ Worked)'
  BY FormedStays, TypeStays, WorkedStays
<1>3. Worked => WorkCurrent
  BY DEF Worked
<1> QED BY <1>1, <1>2, <1>3, PTL DEF Spec

-----------------------------------------------------------------------------
(* How a run ends.                                                         *)

\* Given up, whether by an attempt or in the plan.
GivenUp(t) == t.state \in {"FAILED", "UNKNOWN_EFFECT"}

\* As long as a task is not done, and none runs or is given up, one can be taken.
LEMMA SomeReady ==
  ASSUME Formed, Going, Done(run.tasks) # IdsOf(run.tasks), ReadyTasks = {}
  PROVE  \E t \in TasksOf(run.tasks) : GivenUp(t)
<1> DEFINE waiting == IdsOf(run.tasks) \ Done(run.tasks)
<1>1. Done(run.tasks) \subseteq IdsOf(run.tasks)
  BY DEF Done, IdsOf
<1>2. waiting \in (SUBSET IdsOf(run.tasks)) \ {{}}
  BY <1>1
<1>3. PICK id \in waiting : TaskOf(run.tasks, id).deps \cap waiting = {}
  BY <1>2 DEF Formed, Workable, Acyclic
<1> DEFINE t == TaskOf(run.tasks, id)
<1>4. t \in TasksOf(run.tasks) /\ t.id = id
  BY <1>3, TaskOfIds
<1> HIDE DEF t
<1>5. t.deps \subseteq IdsOf(run.tasks)
  BY <1>4 DEF Formed, Workable
<1>6. t.deps \subseteq Done(run.tasks)
  BY <1>3, <1>5 DEF t
<1>7. t.state \notin {"PENDING", "COMPLETED", "RUNNING"}
  <2>1. t.state # "COMPLETED"
    BY <1>3, <1>4 DEF Done
  <2>2. t.state # "PENDING"
    BY <1>4, <1>6 DEF ReadyTasks
  <2>3. t.state # "RUNNING"
    BY <1>4 DEF Going
  <2> QED BY <2>1, <2>2, <2>3
<1>8. t.state \in TaskStates
  BY <1>4 DEF Formed, IsPlan, IsTask
<1> QED BY <1>4, <1>7, <1>8 DEF GivenUp, TaskStates

\* An id names one task of the plan.
LEMMA AllDone ==
  ASSUME Formed, Done(run.tasks) = IdsOf(run.tasks), NEW t \in TasksOf(run.tasks)
  PROVE  t.state = "COMPLETED"
<1>1. t.id \in Done(run.tasks)
  BY DEF IdsOf
<1>2. PICK u \in TasksOf(run.tasks) : u.state = "COMPLETED" /\ u.id = t.id
  BY <1>1 DEF Done
<1>3. u = t
  BY <1>2 DEF Formed, Workable
<1> QED BY <1>2, <1>3

\* An attempt that is given up ends the run or blocks it; the operator resolves the
\* only one there is.
Attempted ==
  /\ Unfinished => \A t \in TasksOf(run.tasks) : GivenUp(t) => t.id \notin DOMAIN run.receipt
  /\ run.state = "BLOCKED" =>
       \A t, u \in TasksOf(run.tasks) :
         /\ GivenUp(t) /\ t.id \in DOMAIN run.receipt
         /\ GivenUp(u) /\ u.id \in DOMAIN run.receipt
         => t.id = u.id
  /\ run.state = "PARTIAL" => Done(run.tasks) = IdsOf(run.tasks)

\* No attempt is made before a run is created.
LEMMA AttemptedInit == ASSUME Init PROVE Attempted
<1>1. run.state = "CREATED" /\ run.receipt = << >> /\ DOMAIN << >> = {}
  BY DEF Init, NewRun
<1> QED BY <1>1 DEF Attempted

\* A task that is collected is not given up.
LEMMA AttemptedCollect ==
  ASSUME Formed, Attempted, NEW task, NEW records, Collects(task, records)
  PROVE  Attempted'
<1>1. /\ TasksOf(run'.tasks) = {Put(u, task.id, "COMPLETED") : u \in TasksOf(run.tasks)}
      /\ "COMPLETED" \in TaskStates
  <2>1. "COMPLETED" \in TaskStates
    BY DEF TaskStates
  <2>2. TasksOf(WithState(task.id, "COMPLETED"))
          = {Put(u, task.id, "COMPLETED") : u \in TasksOf(run.tasks)}
    BY <2>1, StepOfRun DEF Formed
  <2> QED BY <2>1, <2>2 DEF Collects
<1>2. DOMAIN run'.receipt = DOMAIN run.receipt \cup {task.id} /\ Unfinished /\ run'.state = "RUNNING"
  <2>1. run'.receipt = With(run.receipt, task.id, InputHash(task))
    BY DEF Collects
  <2> QED BY <2>1 DEF Collects, With
<1>3. ASSUME NEW t \in TasksOf(run'.tasks), GivenUp(t) PROVE t.id \notin DOMAIN run'.receipt
  <2>1. PICK u \in TasksOf(run.tasks) : t = Put(u, task.id, "COMPLETED")
    BY <1>1
  <2>2. IsTask(u)
    BY DEF Formed, IsPlan
  <2>3. u.id # task.id
    <3>1. CASE u.id = task.id
      <4>1. t.state = "COMPLETED"
        BY <1>1, <2>1, <2>2, <3>1, TaskChanges DEF Put
      <4> QED BY <1>3, <4>1 DEF GivenUp
    <3> QED BY <3>1
  <2>4. t = u
    BY <2>1, <2>3 DEF Put
  <2> QED BY <1>2, <1>3, <2>3, <2>4 DEF Attempted
<1> QED BY <1>2, <1>3 DEF Attempted

\* A task that is given up in an attempt is the only one.
LEMMA AttemptedMark ==
  ASSUME Formed, Attempted, MarksSomehow
  PROVE  Attempted'
<1>1. ASSUME NEW task, NEW state, Marks(task, state), NEW t \in TasksOf(run'.tasks), GivenUp(t)
      PROVE  \/ t.id = task.id /\ state \in {"FAILED", "UNKNOWN_EFFECT"}
             \/ /\ t.id # task.id /\ t \in TasksOf(run.tasks)
                /\ t.id \in DOMAIN run'.receipt => t.id \in DOMAIN run.receipt
  <2>1. PICK u \in TasksOf(run.tasks) : t = Put(u, task.id, state)
    BY <1>1, MarkedAfter
  <2>2. /\ Put(u, task.id, state).id = u.id
        /\ u.id # task.id => Put(u, task.id, state) = u
        /\ u.id = task.id => Put(u, task.id, state).state = state
        /\ DOMAIN run'.receipt \subseteq DOMAIN run.receipt \cup {task.id}
    BY <1>1, MarkedAfter
  <2>3. CASE u.id = task.id
    BY <1>1, <2>1, <2>2, <2>3 DEF GivenUp
  <2>4. CASE u.id # task.id
    BY <2>1, <2>2, <2>4
  <2> QED BY <2>3, <2>4
<1>2. PICK task \in TasksOf(run.tasks) :
        \/ run'.state = "FAILED"
        \/ Unfinished /\ Marks(task, "RUNNING") /\ run'.state = "RUNNING"
        \/ Unfinished /\ Marks(task, "UNKNOWN_EFFECT") /\ run'.state = "BLOCKED"
        \/ /\ run.state = "BLOCKED" /\ Marks(task, "PENDING") /\ run'.state = "CREATED"
           /\ task.state = "UNKNOWN_EFFECT" /\ task.id \in DOMAIN run.receipt
  BY DEF MarksSomehow
<1>3. CASE run'.state = "FAILED"
  BY <1>3 DEF Attempted, Unfinished
<1>4. CASE Unfinished /\ Marks(task, "RUNNING") /\ run'.state = "RUNNING"
  <2>1. ASSUME NEW t \in TasksOf(run'.tasks), GivenUp(t) PROVE t.id \notin DOMAIN run'.receipt
    BY <1>1, <1>4, <2>1 DEF Attempted
  <2> QED BY <1>4, <2>1 DEF Attempted
<1>5. CASE Unfinished /\ Marks(task, "UNKNOWN_EFFECT") /\ run'.state = "BLOCKED"
  <2>1. ASSUME NEW t \in TasksOf(run'.tasks), GivenUp(t), t.id \in DOMAIN run'.receipt
        PROVE  t.id = task.id
    BY <1>1, <1>5, <2>1 DEF Attempted
  <2> QED BY <1>5, <2>1 DEF Attempted, Unfinished
<1>6. CASE /\ run.state = "BLOCKED" /\ Marks(task, "PENDING") /\ run'.state = "CREATED"
           /\ task.state = "UNKNOWN_EFFECT" /\ task.id \in DOMAIN run.receipt
  <2>1. ASSUME NEW t \in TasksOf(run'.tasks), GivenUp(t) PROVE t.id \notin DOMAIN run'.receipt
    <3>1. /\ t.id # task.id /\ t \in TasksOf(run.tasks)
          /\ t.id \in DOMAIN run'.receipt => t.id \in DOMAIN run.receipt
      BY <1>1, <1>6, <2>1
    <3> QED BY <1>6, <2>1, <3>1 DEF Attempted, GivenUp
  <2> QED BY <1>6, <2>1 DEF Attempted
<1> QED BY <1>2, <1>3, <1>4, <1>5, <1>6

\* A replan gives nothing up: all was done, and what is not any more waits.
LEMMA AttemptedReplan ==
  ASSUME Formed, Attempted, NEW new, NEW reset, Replans(new, reset)
  PROVE  Attempted'
<1>1. ASSUME NEW t \in TasksOf(run'.tasks) PROVE ~GivenUp(t)
  <2>1. \/ t.state = "PENDING"
        \/ \E u \in TasksOf(run.tasks) : t = Refreshed(u, new)
    BY <1>1, ReplannedPlan DEF Formed, Replans
  <2>2. ASSUME NEW u \in TasksOf(run.tasks), t = Refreshed(u, new) PROVE t.state = "COMPLETED"
    <3>1. IsTask(u) /\ IsPlan(new)
      BY DEF Formed, IsPlan, Replans
    <3>2. t.state = u.state
      BY <2>2, <3>1, RefreshedTask
    <3>3. u.state = "COMPLETED"
      BY AllDone DEF Attempted, Replans
    <3> QED BY <3>2, <3>3
  <2> QED BY <2>1, <2>2 DEF GivenUp
<1>2. run'.state = "CREATED"
  BY DEF Replans
<1> QED BY <1>1, <1>2 DEF Attempted

\* Attempts are accounted for by every step.
LEMMA AttemptedStays == ASSUME Formed, Attempted, [Next]_vars PROVE Attempted'
<1>1. CASE UNCHANGED vars
  BY <1>1 DEF Attempted, Unfinished, vars
<1>2. CASE Stops \/ Raises
  BY <1>2 DEF Attempted, Unfinished, Stops, Raises, Halts, Turns
<1>3. CASE Concludes
  BY <1>3 DEF Attempted, Unfinished, Concludes, Finishes
<1> QED BY <1>1, <1>2, <1>3, AttemptedCollect, AttemptedMark, AttemptedReplan, Steps

\* What a run ends over.
Stuck == \E t \in TasksOf(run.tasks) : GivenUp(t) /\ t.id \notin DOMAIN run.receipt

\* A reason is given by a run that failed, or that stays VERIFYING as it raised, and no
\* task is ready only where one was given up without an attempt.
Explained ==
  /\ reason \in {"limits", "memo"} => run.state = "VERIFYING"
  /\ reason \notin {"none", "limits", "memo"} => run.state = "FAILED"
  /\ reason = "no ready task" => Stuck

\* No run stops for want of a ready task, as one is ready until all are done, but over
\* a task that was given up.
LEMMA ExplainedStays == ASSUME Formed, Attempted, Explained, [Next]_vars PROVE Explained'
<1>1. CASE UNCHANGED vars
  BY <1>1 DEF Explained, Stuck, vars
<1>2. ASSUME NEW task, NEW records, Collects(task, records) PROVE Explained'
  BY <1>2 DEF Explained, Collects, Unfinished
<1>3. CASE Stops
  <2>1. ASSUME reason' = "no ready task" PROVE Stuck
    <3>1. Going /\ Unfinished /\ \E t \in TasksOf(run.tasks) : GivenUp(t)
      BY <1>3, <2>1, SomeReady DEF Stops, Going, Unfinished
    <3> QED BY <3>1 DEF Attempted, Stuck
  <2>2. /\ run'.state = "FAILED" /\ run'.tasks = run.tasks /\ run'.receipt = run.receipt
        /\ reason' \notin {"limits", "memo"}
    BY <1>3 DEF Stops, Halts, Turns
  <2>3. Stuck => Stuck'
    BY <2>2 DEF Stuck
  <2> QED BY <2>1, <2>2, <2>3 DEF Explained
<1>4. CASE Raises
  BY <1>4 DEF Explained, Raises, Turns
<1>5. CASE Concludes
  BY <1>5 DEF Explained, Concludes
<1>6. CASE MarksSomehow
  BY <1>6 DEF Explained, MarksSomehow, Unfinished
<1>7. ASSUME NEW new, NEW reset, Replans(new, reset) PROVE Explained'
  BY <1>7 DEF Explained, Replans
<1> QED BY <1>1, <1>2, <1>3, <1>4, <1>5, <1>6, <1>7, Steps

\* No tasks of a plan that was accepted, merged ones included, wait for each other, and no
\* run stops for want of a task that is ready, but over one that its plan came with as
\* given up.
THEOREM DeadEnds == Spec => []NoDeadEnd
<1>1. Init => Formed /\ Attempted /\ Explained
  BY FormedInit, AttemptedInit DEF Init, Explained
<1>2. Formed /\ Attempted /\ Explained /\ [Next]_vars => (Formed /\ Attempted /\ Explained)'
  BY FormedStays, AttemptedStays, ExplainedStays
<1>3. Formed /\ Explained => NoDeadEnd
  BY DEF Formed, Workable, Explained, Stuck, GivenUp, NoDeadEnd
<1> QED BY <1>1, <1>2, <1>3, PTL DEF Spec

\* evidence_by_id finds a record for every id of one.
LEMMA ByIdFinds ==
  ASSUME Formed, NEW e \in EvidenceIds
  PROVE  \E j \in DOMAIN run.evidence :
           ById(run.evidence, e) = run.evidence[j] /\ run.evidence[j].id = e
<1> DEFINE v == run.evidence
           n == Len(v)
           s == {i \in 1 .. n : v[i].id = e}
           last(i) == v[i].id = e /\ \A j \in DOMAIN v : v[j].id = e => j <= i
<1>1. n \in Nat /\ DOMAIN v = 1 .. n
  BY LenProperties DEF Formed
<1>2. s \in SUBSET (1 .. n) /\ s # {}
  BY <1>1 DEF EvidenceIds, RecordsOf
<1>3. Max(s) \in s /\ \A y \in s : Max(s) >= y
  <2> HIDE DEF s, n
  <2> QED BY <1>1, <1>2, MaxIn
<1>4. Max(s) \in DOMAIN v /\ last(Max(s))
  <2> DEFINE k == Max(s)
  <2>1. k \in 1 .. n /\ v[k].id = e
    BY <1>3
  <2>2. ASSUME NEW j \in DOMAIN v, v[j].id = e PROVE j <= k
    <3>1. j \in s /\ j \in Nat /\ k \in Nat
      BY <1>1, <2>1, <2>2
    <3>2. k >= j
      BY <1>3, <3>1
    <3> HIDE DEF k
    <3> QED BY <3>1, <3>2
  <2> HIDE DEF k, s, n
  <2> QED BY <1>1, <2>1, <2>2 DEF k
<1> DEFINE c == CHOOSE i \in DOMAIN v : last(i)
<1>5. c \in DOMAIN v /\ last(c)
  <2> HIDE DEF last, s
  <2> QED BY <1>4
<1>6. ById(v, e) = v[c]
  BY DEF ById
<1> HIDE DEF c
<1> QED BY <1>5, <1>6

\* The deterministic draft cites qualified records of the task: one that is refused
\* meets another record of the same id.
LEMMA DraftRefused ==
  ASSUME Formed, ~Accepts(Draft)
  PROVE  \E i, j \in DOMAIN run.evidence : i # j /\ run.evidence[i].id = run.evidence[j].id
<1>1. DOMAIN Draft = IdsOf(run.tasks)
  BY DEF Draft
<1>2. PICK id \in IdsOf(run.tasks) : \E e \in Draft[id] :
        ~(/\ e \in EvidenceIds
          /\ ById(run.evidence, e).task = id
          /\ ById(run.evidence, e).qualification = "QUALIFIED")
  BY <1>1 DEF Accepts
<1>3. PICK e \in Draft[id] :
        ~(/\ e \in EvidenceIds
          /\ ById(run.evidence, e).task = id
          /\ ById(run.evidence, e).qualification = "QUALIFIED")
  BY <1>2
<1>4. Draft[id] = {r.id : r \in {s \in Qualifying(run.evidence) : s.task = id}}
  BY DEF Draft
<1>5. PICK r \in RecordsOf(run.evidence) : r.qualification = "QUALIFIED" /\ r.task = id /\ e = r.id
  BY <1>3, <1>4 DEF Qualifying
<1>6. e \in EvidenceIds
  BY <1>5 DEF EvidenceIds
<1>7. PICK i \in DOMAIN run.evidence : r = run.evidence[i]
  BY <1>5 DEF RecordsOf
<1>8. PICK j \in DOMAIN run.evidence :
        ById(run.evidence, e) = run.evidence[j] /\ run.evidence[j].id = e
  BY <1>6, ByIdFinds
<1>9. i # j
  BY <1>3, <1>5, <1>6, <1>7, <1>8
<1> QED BY <1>5, <1>7, <1>8, <1>9

\* The values of a function on a finite set, and a part of one, are no more than it.
LEMMA FiniteImage ==
  ASSUME NEW S, IsFiniteSet(S), NEW f, f = [x \in S |-> f[x]]
  PROVE  LET T == {f[x] : x \in S}
         IN  IsFiniteSet(T) /\ Cardinality(T) <= Cardinality(S) /\ Cardinality(T) \in Nat
<1> DEFINE T == {f[x] : x \in S}
<1>1. f \in [S -> T]
  OBVIOUS
<1>2. \A y \in T : \E x \in S : f[x] = y
  OBVIOUS
<1>3. f \in Surjection(S, T)
  <2> HIDE DEF T
  <2> QED BY <1>1, <1>2 DEF Surjection
<1> HIDE DEF T
<1>4. IsFiniteSet(T) /\ Cardinality(T) <= Cardinality(S)
  BY <1>3, FS_Surjection
<1> QED BY <1>4, FS_CardinalityType DEF T

LEMMA FinitePart ==
  ASSUME NEW S, IsFiniteSet(S), NEW T, T \subseteq S
  PROVE  IsFiniteSet(T) /\ Cardinality(T) <= Cardinality(S) /\ Cardinality(T) \in Nat
<1>1. IsFiniteSet(T) /\ Cardinality(T) <= Cardinality(S)
  BY FS_Subset
<1> QED BY <1>1, FS_CardinalityType

\* A task's qualified evidence is finite.
LEMMA FiniteQualified ==
  ASSUME Formed, NEW t
  PROVE  Cardinality({r.id : r \in QualifiedFor(run.evidence, t)}) \in Nat
<1> DEFINE n == Len(run.evidence)
           R == RecordsOf(run.evidence)
           Q == QualifiedFor(run.evidence, t)
           f == [r \in Q |-> r.id]
<1>1. n \in Nat /\ DOMAIN run.evidence = 1 .. n /\ run.evidence = [i \in 1 .. n |-> run.evidence[i]]
  BY LenProperties DEF Formed
<1>2. IsFiniteSet(1 .. n)
  <2> HIDE DEF n
  <2> QED BY <1>1, FS_Interval
<1>3. R = {run.evidence[i] : i \in 1 .. n}
  BY <1>1 DEF RecordsOf
<1>4. IsFiniteSet(R)
  <2> HIDE DEF R, n
  <2> QED BY <1>1, <1>2, <1>3, FiniteImage
<1>5. Q \subseteq R
  BY DEF QualifiedFor, Qualifying
<1>6. IsFiniteSet(Q)
  <2> HIDE DEF R, Q
  <2> QED BY <1>4, <1>5, FinitePart
<1>7. Cardinality({f[r] : r \in Q}) \in Nat
  <2>1. f = [r \in Q |-> f[r]]
    OBVIOUS
  <2> HIDE DEF f, Q
  <2> QED BY <1>6, <2>1, FiniteImage
<1>8. {f[r] : r \in Q} = {r.id : r \in Q}
  OBVIOUS
<1> QED BY <1>7, <1>8

\* What there is to name for a plan is bounded by its tasks and their needs.
LEMMA NamedBound ==
  ASSUME Formed
  PROVE  /\ Len(run.tasks) \in Nat /\ Cardinality(NeedsOf(run.tasks)) \in Nat
         /\ Cardinality(IdsOf(run.tasks)) <= Len(run.tasks)
         /\ Cardinality(IdsOf(run.tasks)) \in Nat /\ Named \in Nat
         /\ Named <= 2 * (Len(run.tasks) + Cardinality(NeedsOf(run.tasks)))
<1> DEFINE T == TasksOf(run.tasks)
           naming(stances) == {t \in T : \E r \in QualifiedFor(run.evidence, t) : r.stance \in stances}
           open(t) == {n \in DOMAIN t.needs : ~MetByRecords(run.evidence, t, n)}
           missing == UNION {{<<t.id, need>> : need \in open(t)} : t \in T}
           n == Len(run.tasks)
           k == Cardinality(NeedsOf(run.tasks))
<1>1. /\ n \in Nat /\ DOMAIN run.tasks = 1 .. n /\ run.tasks \in Seq(T)
      /\ run.tasks = [i \in 1 .. n |-> run.tasks[i]]
  BY LenProperties DEF Formed, IsPlan
<1>2. IsFiniteSet(T) /\ Cardinality(T) <= n
  <2>1. IsFiniteSet(1 .. n) /\ Cardinality(1 .. n) = n
    <3> HIDE DEF n
    <3> QED BY <1>1, FS_Interval
  <2>2. T = {run.tasks[i] : i \in 1 .. n}
    BY <1>1 DEF TasksOf
  <2> HIDE DEF T, n
  <2>3. IsFiniteSet(T) /\ Cardinality(T) <= Cardinality(1 .. n)
    BY <1>1, <2>1, <2>2, FiniteImage
  <2> QED BY <2>1, <2>3
<1>3. Cardinality(IdsOf(run.tasks)) <= n /\ Cardinality(IdsOf(run.tasks)) \in Nat
  <2>1. IsFiniteSet(IdsOf(run.tasks)) /\ Cardinality(IdsOf(run.tasks)) <= n
    BY <1>1, IdsFinite
  <2> QED BY <2>1, FS_CardinalityType
<1>4. ASSUME NEW stances PROVE Cardinality(naming(stances)) \in Nat /\ Cardinality(naming(stances)) <= n
  <2>1. naming(stances) \subseteq T
    OBVIOUS
  <2>2. Cardinality(T) \in Nat
    BY <1>2, FS_CardinalityType
  <2> HIDE DEF naming, T, n
  <2>3. Cardinality(naming(stances)) <= Cardinality(T) /\ Cardinality(naming(stances)) \in Nat
    BY <1>2, <2>1, FinitePart
  <2> QED BY <1>1, <1>2, <2>2, <2>3
<1>5. IsFiniteSet(NeedsOf(run.tasks)) /\ k \in Nat
  <2> DEFINE own == [t \in T |-> {<<t.id, need>> : need \in DOMAIN t.needs}]
             Own == {own[t] : t \in T}
  <2>1. ASSUME NEW t \in T PROVE IsFiniteSet({<<t.id, need>> : need \in DOMAIN t.needs})
    <3> DEFINE N == DOMAIN t.needs
               pair == [need \in N |-> <<t.id, need>>]
    <3>1. IsFiniteSet(N) /\ pair = [need \in N |-> pair[need]]
      BY DEF Formed, IsPlan, IsTask
    <3>2. IsFiniteSet({pair[need] : need \in N})
      <4> HIDE DEF N, pair
      <4> QED BY <3>1, FiniteImage
    <3>3. {pair[need] : need \in N} = {<<t.id, need>> : need \in N}
      OBVIOUS
    <3> QED BY <3>2, <3>3
  <2>2. \A o \in Own : IsFiniteSet(o)
    <3> HIDE DEF T
    <3> QED BY <2>1
  <2>3. own = [t \in T |-> own[t]]
    OBVIOUS
  <2>4. IsFiniteSet(Own)
    <3> HIDE DEF T, own
    <3> QED BY <1>2, <2>3, FiniteImage
  <2>5. NeedsOf(run.tasks) = UNION Own
    BY DEF NeedsOf
  <2>6. IsFiniteSet(NeedsOf(run.tasks))
    <3> HIDE DEF Own
    <3> QED BY <2>2, <2>4, <2>5, FS_UNION
  <2> QED BY <2>6, FS_CardinalityType
<1>6. Cardinality(missing) \in Nat /\ Cardinality(missing) <= k
  <2>1. missing \subseteq NeedsOf(run.tasks)
    BY DEF NeedsOf
  <2> HIDE DEF missing
  <2> QED BY <1>5, <2>1, FinitePart
<1>7. Named = Cardinality(naming({"SUPPORTING"})) + Cardinality(naming({"COUNTER", "CONFLICTING"}))
                + 2 * Cardinality(missing)
  BY DEF Named
<1> HIDE DEF naming, missing, k, n
<1>8. Named \in Nat /\ Named <= 2 * (n + k)
  BY <1>1, <1>4, <1>5, <1>6, <1>7
<1> QED BY <1>1, <1>3, <1>5, <1>8 DEF n, k

\* A deterministic draft that does not fit is for a plan, or for answers, beyond a limit.
LEMMA DraftTooBig ==
  ASSUME Formed, ~Fits
  PROVE  \/ Len(run.tasks) > MaxClaims
         \/ \E t \in TasksOf(run.tasks) :
              Cardinality({r.id : r \in QualifiedFor(run.evidence, t)}) > MaxCited
         \/ 2 * (Len(run.tasks) + Cardinality(NeedsOf(run.tasks))) > MaxNamed
<1> DEFINE cited(t) == Cardinality({r.id : r \in QualifiedFor(run.evidence, t)})
<1>1. MaxClaims \in Nat /\ MaxCited \in Nat /\ MaxNamed \in Nat
  BY LimitAssumption
<1>2. CASE ~(Cardinality(IdsOf(run.tasks)) <= MaxClaims)
  BY <1>1, <1>2, NamedBound
<1>3. CASE ~(Named <= MaxNamed)
  BY <1>1, <1>3, NamedBound
<1>4. ASSUME NEW id \in IdsOf(run.tasks), ~(Cardinality(Draft[id]) <= MaxCited)
      PROVE  \E t \in TasksOf(run.tasks) : cited(t) > MaxCited
  <2>1. PICK t \in TasksOf(run.tasks) : t.id = id
    BY DEF IdsOf
  <2>2. Draft[id] = {r.id : r \in QualifiedFor(run.evidence, t)}
    BY <2>1 DEF Draft, QualifiedFor
  <2>3. cited(t) \in Nat /\ ~(cited(t) <= MaxCited)
    BY <1>4, <2>2, FiniteQualified
  <2> HIDE DEF cited
  <2> QED BY <1>1, <2>3
<1>5. DOMAIN Draft = IdsOf(run.tasks)
  BY DEF Draft
<1>6. \/ ~(Cardinality(IdsOf(run.tasks)) <= MaxClaims)
      \/ \E id \in IdsOf(run.tasks) : ~(Cardinality(Draft[id]) <= MaxCited)
      \/ ~(Named <= MaxNamed)
  BY <1>5 DEF Fits, WithinLimits
<1> QED BY <1>2, <1>3, <1>4, <1>6

\* The reason is given where the draft is refused or too big, and a run that failed, or
\* that stays VERIFYING, keeps its plan and its evidence.
LEMMA RefusedStays ==
  ASSUME Formed, Explained, SynthesisRefused, [Next]_vars
  PROVE  SynthesisRefused'
<1>1. CASE UNCHANGED vars
  BY <1>1 DEF SynthesisRefused, vars
<1>2. ASSUME reason' \notin {"synthesis", "limits"} PROVE SynthesisRefused'
  BY <1>2 DEF SynthesisRefused
<1>3. CASE Stops
  <2>1. /\ run'.evidence = run.evidence /\ (reason' = "synthesis" => ~Accepts(Draft))
        /\ reason' # "limits"
    BY <1>3 DEF Stops, Halts, Turns
  <2> QED BY <2>1, DraftRefused DEF SynthesisRefused
<1>4. CASE Raises
  <2>1. /\ run'.evidence = run.evidence /\ run'.tasks = run.tasks /\ reason' # "synthesis"
        /\ reason' = "limits" => ~Fits
    BY <1>4 DEF Raises, Turns
  <2> QED BY <2>1, DraftTooBig DEF SynthesisRefused
<1>5. ASSUME reason' = reason, run.state # "FAILED", run.state # "VERIFYING" PROVE SynthesisRefused'
  BY <1>2, <1>5 DEF Explained
<1>6. ASSUME NEW task, NEW records, Collects(task, records) PROVE SynthesisRefused'
  BY <1>5, <1>6 DEF Collects, Unfinished
<1>7. CASE Concludes
  BY <1>2, <1>7 DEF Concludes
<1>8. CASE MarksSomehow
  <2>1. \/ reason' \in {"provider", "operator"}
        \/ reason' = reason /\ run.state # "FAILED" /\ run.state # "VERIFYING"
    BY <1>8 DEF MarksSomehow, Unfinished
  <2> QED BY <1>2, <1>5, <2>1
<1>9. ASSUME NEW new, NEW reset, Replans(new, reset) PROVE SynthesisRefused'
  BY <1>5, <1>9 DEF Replans
<1> QED BY <1>1, <1>3, <1>4, <1>6, <1>7, <1>8, <1>9, Steps

\* A deterministic synthesis is refused only where two records share an id, and raises
\* only over a plan, or over answers, beyond its limits.
THEOREM Refused == Spec => []SynthesisRefused
<1>1. Init => Formed /\ Attempted /\ Explained /\ SynthesisRefused
  BY FormedInit, AttemptedInit DEF Init, Explained, SynthesisRefused
<1>2. Formed /\ Attempted /\ Explained /\ SynthesisRefused /\ [Next]_vars
        => (Formed /\ Attempted /\ Explained /\ SynthesisRefused)'
  BY FormedStays, AttemptedStays, ExplainedStays, RefusedStays
<1> QED BY <1>1, <1>2, PTL DEF Spec

\* A draft that is accepted cites, for each task, qualified records of that task.
LEMMA AcceptedCites ==
  ASSUME Formed, NEW draft, Accepts(draft), NEW id \in IdsOf(run.tasks), NEW e \in draft[id]
  PROVE  \E r \in RecordsOf(run.evidence) :
           r.id = e /\ r.task = id /\ r.qualification = "QUALIFIED"
<1>1. /\ e \in EvidenceIds
      /\ ById(run.evidence, e).task = id
      /\ ById(run.evidence, e).qualification = "QUALIFIED"
  BY DEF Accepts
<1>2. PICK j \in DOMAIN run.evidence :
        ById(run.evidence, e) = run.evidence[j] /\ run.evidence[j].id = e
  BY <1>1, ByIdFinds
<1>3. run.evidence[j] \in RecordsOf(run.evidence)
  BY DEF RecordsOf
<1> QED BY <1>1, <1>2, <1>3

\* A task that is qualified has, for each need, enough ids of its own qualified records.
LEMMA QualifiedNeeds ==
  ASSUME NEW t, NEW need \in DOMAIN t.needs, TaskQualified(run.evidence, t)
  PROVE  \E ids \in SUBSET EvidenceIds :
           /\ Cardinality(ids) >= t.needs[need].minimum
           /\ \A e \in ids : \E r \in RecordsOf(run.evidence) :
                r.id = e /\ r.task = t.id /\ r.need = need /\ r.qualification = "QUALIFIED"
<1> DEFINE met == {s \in QualifiedFor(run.evidence, t) : s.need = need}
           ids == {r.id : r \in met}
<1>1. Cardinality(ids) >= t.needs[need].minimum
  BY DEF TaskQualified, Met
<1>2. \A r \in met : /\ r \in RecordsOf(run.evidence) /\ r.task = t.id
                     /\ r.need = need /\ r.qualification = "QUALIFIED"
  BY DEF QualifiedFor, Qualifying
<1> HIDE DEF met
<1>3. ids \in SUBSET EvidenceIds
  BY <1>2 DEF EvidenceIds
<1>4. \A e \in ids : \E r \in RecordsOf(run.evidence) :
         r.id = e /\ r.task = t.id /\ r.need = need /\ r.qualification = "QUALIFIED"
  BY <1>2
<1> HIDE DEF ids
<1> QED BY <1>1, <1>3, <1>4

\* Nothing is unresolved where every task is qualified.
LEMMA NothingUnresolved ==
  ASSUME \A t \in TasksOf(run.tasks) : TaskQualified(run.evidence, t)
  PROVE  Unresolved(run.tasks, run.evidence) = {}
<1>1. \A t \in TasksOf(run.tasks) :
        {<<t.id, need>> : need \in {n \in DOMAIN t.needs : ~Met(run.evidence, t, n)}} = {}
  BY DEF TaskQualified
<1> QED BY <1>1 DEF Unresolved

\* The last write completes a run only on evidence.
LEMMA GroundedFinish ==
  ASSUME Formed, NEW draft, NEW supported, Finishes(draft, supported), run'.state = "COMPLETED"
  PROVE  CompletedGrounded'
<1>1. /\ \A t \in TasksOf(run.tasks) : TaskQualified(run.evidence, t)
      /\ run'.claims = ClaimsOf(draft, supported) /\ Accepts(draft)
      /\ \A id \in DOMAIN run'.claims : run'.claims[id].status = "QUALIFIED"
      /\ run'.tasks = run.tasks /\ run'.evidence = run.evidence
  BY DEF Finishes
<1>2. EvidenceIds' = EvidenceIds
  BY <1>1 DEF EvidenceIds
<1>3. \A t \in TasksOf(run.tasks) : \A need \in DOMAIN t.needs :
        \E ids \in SUBSET EvidenceIds :
          /\ Cardinality(ids) >= t.needs[need].minimum
          /\ \A e \in ids : \E r \in RecordsOf(run.evidence) :
               r.id = e /\ r.task = t.id /\ r.need = need /\ r.qualification = "QUALIFIED"
  BY <1>1, QualifiedNeeds
<1>4. ASSUME NEW id \in IdsOf(run.tasks)
      PROVE  /\ run'.claims[id].cites # {}
             /\ \A e \in run'.claims[id].cites : \E r \in RecordsOf(run.evidence) :
                  r.id = e /\ r.task = id /\ r.qualification = "QUALIFIED"
  <2>1. id \in DOMAIN ClaimsOf(draft, supported) /\ ClaimsOf(draft, supported)[id].cites = draft[id]
    BY DEF ClaimsOf
  <2>2. ClaimsOf(draft, supported)[id].status = "QUALIFIED"
    BY <1>1, <2>1
  <2>3. draft[id] # {}
    BY <2>2 DEF ClaimsOf
  <2>4. \A e \in draft[id] : \E r \in RecordsOf(run.evidence) :
          r.id = e /\ r.task = id /\ r.qualification = "QUALIFIED"
    BY <1>1, AcceptedCites
  <2> QED BY <1>1, <2>1, <2>3, <2>4
<1>5. Unresolved(run.tasks, run.evidence) = {}
  BY <1>1, NothingUnresolved
<1>6. run'.memo.unresolved = {} /\ run'.review = "PENDING_REVIEW"
  <2>1. run'.memo = Memo(run'.claims, run'.state) /\ run'.review = "PENDING_REVIEW"
    BY <1>5 DEF Finishes
  <2>2. Memo(run'.claims, run'.state).unresolved = {}
    BY <1>5 DEF Memo
  <2> QED BY <2>1, <2>2
<1> QED BY <1>1, <1>2, <1>3, <1>4, <1>6 DEF CompletedGrounded

\* Only the last write completes a run, and a run that is completed stays as it is.
LEMMA GroundedStays ==
  ASSUME Formed, CompletedGrounded, [Next]_vars
  PROVE  CompletedGrounded'
<1>1. CASE UNCHANGED vars
  BY <1>1 DEF CompletedGrounded, EvidenceIds, vars
<1>2. ASSUME NEW task, NEW records, Collects(task, records) PROVE CompletedGrounded'
  BY <1>2 DEF CompletedGrounded, Collects
<1>3. CASE Stops \/ Raises \/ MarksSomehow
  <2>1. run'.state # "COMPLETED"
    BY <1>3 DEF Stops, Raises, Halts, Turns, MarksSomehow
  <2> QED BY <2>1 DEF CompletedGrounded
<1>4. CASE Concludes
  <2>1. CASE run'.state = "COMPLETED"
    BY <1>4, <2>1, GroundedFinish DEF Concludes
  <2>2. CASE run'.state # "COMPLETED"
    BY <2>2 DEF CompletedGrounded
  <2> QED BY <2>1, <2>2
<1>5. ASSUME NEW new, NEW reset, Replans(new, reset) PROVE CompletedGrounded'
  BY <1>5 DEF CompletedGrounded, Replans
<1> QED BY <1>1, <1>2, <1>3, <1>4, <1>5, Steps

\* A run is COMPLETED only on evidence: every need is met by distinct qualified records
\* of its own task, every claim cites some, and nothing is left unresolved.
THEOREM Grounded == Spec => []CompletedGrounded
<1>1. Init => Formed /\ CompletedGrounded
  BY FormedInit DEF Init, NewRun, CompletedGrounded
<1>2. Formed /\ CompletedGrounded /\ [Next]_vars => (Formed /\ CompletedGrounded)'
  BY FormedStays, GroundedStays
<1> QED BY <1>1, <1>2, PTL DEF Spec

-----------------------------------------------------------------------------
(* The memo.                                                               *)

\* A run that is being worked on has no memo: a replan takes the old one away.
Unwritten == run.state \notin {"COMPLETED", "PARTIAL"} => run.memo = NoMemo

\* A memo is written by the last write, which leaves the run no longer unfinished.
LEMMA UnwrittenStays == ASSUME Formed, Unwritten, [Next]_vars PROVE Unwritten'
<1>1. CASE UNCHANGED vars
  BY <1>1 DEF Unwritten, vars
<1>2. ASSUME NEW task, NEW records, Collects(task, records) PROVE Unwritten'
  BY <1>2 DEF Unwritten, Unfinished, Collects
<1>3. CASE Stops \/ Raises
  BY <1>3 DEF Unwritten, Unsettled, Stops, Raises, Halts, Turns
<1>4. CASE Concludes
  BY <1>4 DEF Unwritten, Concludes, Finishes
<1>5. ASSUME NEW new, NEW reset, Replans(new, reset) PROVE Unwritten'
  BY <1>5 DEF Unwritten, Replans
<1>6. CASE MarksSomehow
  BY <1>6 DEF Unwritten, Unfinished, MarksSomehow, Marks
<1> QED BY <1>1, <1>2, <1>3, <1>4, <1>5, <1>6, Steps

\* What a memo links to at the time it is written.
LEMMA MemoOfRun ==
  ASSUME NEW claims, NEW state
  PROVE  /\ \A s \in DOMAIN Memo(claims, state).sections :
              /\ Memo(claims, state).sections[s].claims \subseteq ClaimIds(claims)
              /\ Memo(claims, state).sections[s].evidence \subseteq EvidenceIds
         /\ Memo(claims, state).unresolved \subseteq NeedsOf(run.tasks)
<1> DEFINE qualified == {r.id : r \in Qualifying(run.evidence)}
           against == {r.id : r \in {s \in RecordsOf(run.evidence) : s.stance # "SUPPORTING"}}
           section(evidence) == [claims |-> ClaimIds(claims), evidence |-> evidence]
           sections == [thesis |-> section(qualified), evidence |-> section(EvidenceIds),
                        risks |-> section(against), scenarios |-> section(qualified),
                        decision |-> section(qualified \cup against)]
<1>1. qualified \subseteq EvidenceIds /\ against \subseteq EvidenceIds
  BY DEF Qualifying, EvidenceIds
<1>2. Memo(claims, state).sections = sections
      /\ Memo(claims, state).unresolved = Unresolved(run.tasks, run.evidence)
  BY DEF Memo
<1> HIDE DEF qualified, against
<1>3. ASSUME NEW s \in DOMAIN sections
      PROVE  sections[s].claims = ClaimIds(claims) /\ sections[s].evidence \subseteq EvidenceIds
  <2>1. s \in {"thesis", "evidence", "risks", "scenarios", "decision"}
    OBVIOUS
  <2>2. \E evidence \in SUBSET EvidenceIds : sections[s] = section(evidence)
    BY <1>1, <2>1
  <2> HIDE DEF sections
  <2> QED BY <2>2
<1> HIDE DEF sections
<1>4. Unresolved(run.tasks, run.evidence) \subseteq NeedsOf(run.tasks)
  BY DEF Unresolved, NeedsOf
<1> QED BY <1>2, <1>3, <1>4

\* What a memo links to goes only with the memo.
LEMMA LinksStay ==
  ASSUME Formed, Unwritten, MemoLinks, [Next]_vars
  PROVE  MemoLinks'
<1>1. CASE UNCHANGED vars
  BY <1>1 DEF MemoLinks, EvidenceIds, vars
<1>2. ASSUME NEW task, NEW records, Collects(task, records) PROVE MemoLinks'
  BY <1>2 DEF MemoLinks, Unwritten, Unfinished, Collects
<1>3. CASE Stops \/ Raises
  <2>1. run'.memo = NoMemo
    BY <1>3 DEF Unwritten, Unsettled, Stops, Raises, Halts, Turns
  <2> QED BY <2>1 DEF MemoLinks
<1>6. CASE MarksSomehow
  <2>1. run'.memo = NoMemo
    BY <1>6 DEF Unwritten, Unfinished, MarksSomehow, Marks
  <2> QED BY <2>1 DEF MemoLinks
<1>4. CASE Concludes
  <2>0. PICK draft, supported : Finishes(draft, supported)
    BY <1>4 DEF Concludes
  <2>1. /\ run'.memo = Memo(run'.claims, run'.state)
        /\ run'.tasks = run.tasks /\ run'.evidence = run.evidence
    BY <2>0 DEF Finishes
  <2>2. EvidenceIds' = EvidenceIds
    BY <2>1 DEF EvidenceIds
  <2>3. /\ \A s \in DOMAIN run'.memo.sections :
             /\ run'.memo.sections[s].claims \subseteq ClaimIds(run'.claims)
             /\ run'.memo.sections[s].evidence \subseteq EvidenceIds
        /\ run'.memo.unresolved \subseteq NeedsOf(run.tasks)
    BY <2>1, MemoOfRun
  <2> QED BY <2>1, <2>2, <2>3 DEF MemoLinks, ClaimIds
<1>5. ASSUME NEW new, NEW reset, Replans(new, reset) PROVE MemoLinks'
  BY <1>5 DEF MemoLinks, Replans
<1> QED BY <1>1, <1>2, <1>3, <1>4, <1>5, <1>6, Steps

\* Nothing dangles in a memo: its claims, evidence and requirements are those of the run
\* that holds it, after any number of replans.
THEOREM Links == Spec => []MemoLinks
<1>1. Init => Formed /\ Unwritten /\ MemoLinks
  BY FormedInit DEF Init, NewRun, Unwritten, MemoLinks
<1>2. Formed /\ Unwritten /\ MemoLinks /\ [Next]_vars => (Formed /\ Unwritten /\ MemoLinks)'
  BY FormedStays, UnwrittenStays, LinksStay
<1> QED BY <1>1, <1>2, PTL DEF Spec
=============================================================================
