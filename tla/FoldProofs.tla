----------------------------- MODULE FoldProofs -----------------------------
(***************************************************************************)
(* Facts about the folds the models are written with: the sum of a         *)
(* function over a finite set (Functions), the concatenation of a sequence *)
(* of sequences (SequencesExt).  The models fold, so every proof about     *)
(* money, cash or a byte stream rests on these.                            *)
(*                                                                         *)
(* A fold is a recursive function, and TLA+ defines it as a function that  *)
(* solves its equation: whether one exists has to be proved.  The prover   *)
(* cannot instantiate the induction theorems of the library, so every      *)
(* induction below takes a minimal counterexample instead.                 *)
(***************************************************************************)
EXTENDS Functions, SequencesExt, FiniteSetTheorems, SequenceTheorems, TLAPS

-----------------------------------------------------------------------------
(* Minimal elements                                                        *)

\* A set of natural numbers that is not empty has a least element: the form
\* in which every induction over positions of a sequence is used here.
LEMMA NatLeast ==
  ASSUME NEW S \in SUBSET Nat, S # {}
  PROVE  \E n \in S : \A m \in S : n <= m
  <1>1. PICK n \in S : \A m \in S : ~(<<m, n>> \in OpToRel(<, Nat))
    BY NatLessThanWellFounded, WFMin, Zenon
  <1>2. \A m \in S : ~(m < n)
    BY <1>1 DEF OpToRel
  <1> QED
    BY <1>2

\* Of a set of finite sets that is not empty, one has no smaller one in it:
\* the form in which every induction over a finite set is used here.
LEMMA SubsetLeast ==
  ASSUME NEW S, IsFiniteSet(S), NEW Bad \in SUBSET SUBSET S, Bad # {}
  PROVE  \E T \in Bad : \A U \in SUBSET T : U # T => U \notin Bad
  <1>1. IsWellFoundedOn(StrictSubsetOrdering(S), SUBSET S)
    BY FS_StrictSubsetOrderingWellFounded, FS_FiniteSubsetsOfFinite, Zenon
  <1>2. PICK T \in Bad : \A U \in Bad : ~(<<U, T>> \in StrictSubsetOrdering(S))
    BY <1>1, WFMin, Zenon
  <1>3. \A U \in SUBSET T : U # T => U \notin Bad
    BY <1>2 DEF StrictSubsetOrdering
  <1> QED
    BY <1>3

-----------------------------------------------------------------------------
(* A fold over a finite set exists                                         *)

\* The equation of a fold over the subsets of S that removes pick[s] first.
FoldStep(g, S, base, pick, step) ==
  [s \in SUBSET S |->
    IF s = {} THEN base ELSE step[pick[s]][g[s \ {pick[s]}]]]

\* Two functions on the subsets of S that agree on the empty set, and on a set
\* whenever they agree on it without its first element, are the same.
SameRecursion(S, pick, f, g) ==
  /\ f[{}] = g[{}]
  /\ \A s \in SUBSET S : s # {} =>
       /\ pick[s] \in s
       /\ f[s \ {pick[s]}] = g[s \ {pick[s]}] => f[s] = g[s]

LEMMA FoldsAgree ==
  ASSUME NEW S, IsFiniteSet(S), NEW pick, NEW f, NEW g,
         SameRecursion(S, pick, f, g)
  PROVE  \A s \in SUBSET S : f[s] = g[s]
  <1> DEFINE Bad == {s \in SUBSET S : f[s] # g[s]}
  <1> USE DEF SameRecursion
  <1>1. SUFFICES ASSUME Bad # {} PROVE FALSE
    OBVIOUS
  <1>2. PICK T \in Bad : \A s \in SUBSET T : s # T => s \notin Bad
    <2>1. Bad \in SUBSET SUBSET S
      OBVIOUS
    <2> HIDE DEF Bad
    <2> QED
      BY <1>1, <2>1, SubsetLeast
  <1>3. T # {} /\ pick[T] \in T
    OBVIOUS
  <1>4. T \ {pick[T]} \in SUBSET S /\ T \ {pick[T]} \in SUBSET T
        /\ T \ {pick[T]} # T
    BY <1>3
  <1>5. f[T \ {pick[T]}] = g[T \ {pick[T]}]
    BY <1>2, <1>4
  <1> QED
    BY <1>3, <1>5

\* The first element of a set is one of its own, the operation stays in V.
FoldTyped(S, V, base, pick, step) ==
  /\ base \in V
  /\ \A s \in SUBSET S : s # {} => pick[s] \in s
  /\ \A x \in S : step[x] \in [V -> V]

\* g solves the equation, with values in V.
IsFold(g, S, V, base, pick, step) ==
  g \in [SUBSET S -> V] /\ g = FoldStep(g, S, base, pick, step)

\* Over a finite set the equation has a solution, with values of the type that
\* the operation preserves.
LEMMA FoldExists ==
  ASSUME NEW S, IsFiniteSet(S), NEW V, NEW base, NEW pick, NEW step,
         FoldTyped(S, V, base, pick, step)
  PROVE  \E g : IsFold(g, S, V, base, pick, step)
  <1> USE DEF FoldTyped, IsFold
  <1> DEFINE Solves(g, T) == /\ g \in [SUBSET T -> V]
                             /\ g = FoldStep(g, T, base, pick, step)
             Bad == {T \in SUBSET S : ~ \E g : Solves(g, T)}
  <1>1. SUFFICES ASSUME Bad # {} PROVE FALSE
    OBVIOUS
  <1>2. PICK T \in Bad : \A s \in SUBSET T : s # T => s \notin Bad
    <2>1. Bad \in SUBSET SUBSET S
      OBVIOUS
    <2> HIDE DEF Bad
    <2> QED
      BY <1>1, <2>1, SubsetLeast
  <1> DEFINE sub(U) == CHOOSE g : Solves(g, U)
             below(s) == sub(s \ {pick[s]})[s \ {pick[s]}]
             h == [s \in SUBSET T |->
                    IF s = {} THEN base ELSE step[pick[s]][below(s)]]
  <1>3. \A U \in SUBSET T : U # T => Solves(sub(U), U)
    BY <1>2
  <1> HIDE DEF sub
  <1>4. \A s \in SUBSET T : s # {} =>
          /\ pick[s] \in s /\ pick[s] \in S
          /\ s \ {pick[s]} \in SUBSET T /\ s \ {pick[s]} # T
    <2> TAKE s \in SUBSET T
    <2>1. s \in SUBSET S
      OBVIOUS
    <2> QED
      BY <2>1
  <1>5. \A s \in SUBSET T : s # {} => below(s) \in V
    <2> TAKE s \in SUBSET T
    <2> HAVE s # {}
    <2>1. sub(s \ {pick[s]}) \in [SUBSET (s \ {pick[s]}) -> V]
      BY <1>3, <1>4
    <2> QED
      BY <2>1
  <1>6. h \in [SUBSET T -> V]
    <2>1. \A s \in SUBSET T : s # {} => step[pick[s]] \in [V -> V]
      BY <1>4
    <2>2. \A s \in SUBSET T :
            (IF s = {} THEN base ELSE step[pick[s]][below(s)]) \in V
      BY <1>5, <2>1
    <2> QED
      BY <2>2
  <1>7. \A s \in SUBSET T : s # {} => h[s \ {pick[s]}] = below(s)
    <2> TAKE s \in SUBSET T
    <2> HAVE s # {}
    <2> DEFINE r == s \ {pick[s]}
    <2>1. r \in SUBSET T /\ r # T /\ r \in SUBSET S
      BY <1>4
    <2>2. sub(r) = FoldStep(sub(r), r, base, pick, step)
      BY <1>3, <2>1
    <2> HIDE DEF r
    <2>3. sub(r)[r] = IF r = {} THEN base
                      ELSE step[pick[r]][sub(r)[r \ {pick[r]}]]
      <3>1. FoldStep(sub(r), r, base, pick, step)[r]
              = IF r = {} THEN base
                ELSE step[pick[r]][sub(r)[r \ {pick[r]}]]
        BY DEF FoldStep
      <3> QED
        BY <2>2, <3>1
    <2>4. h[r] = sub(r)[r]
      <3>1. CASE r = {}
        BY <2>1, <2>3, <3>1
      <3>2. CASE r # {}
        <4> DEFINE q == r \ {pick[r]}
        <4>1. q \in SUBSET T /\ q # T /\ q \in SUBSET S /\ q \in SUBSET r
          BY <1>4, <2>1, <3>2
        <4>2. sub(q) = FoldStep(sub(q), q, base, pick, step)
          BY <1>3, <4>1
        <4> HIDE DEF q
        <4>3. sub(q)[q] = sub(r)[q]
          <5> DEFINE u == sub(q)
                     v == sub(r)
          <5>1. \A w \in SUBSET q :
                  /\ u[w] = IF w = {} THEN base ELSE step[pick[w]][u[w \ {pick[w]}]]
                  /\ v[w] = IF w = {} THEN base ELSE step[pick[w]][v[w \ {pick[w]}]]
            <6> TAKE w \in SUBSET q
            <6>1. w \in SUBSET r
              BY <4>1
            <6>2. /\ FoldStep(u, q, base, pick, step)[w]
                       = IF w = {} THEN base ELSE step[pick[w]][u[w \ {pick[w]}]]
                  /\ FoldStep(v, r, base, pick, step)[w]
                       = IF w = {} THEN base ELSE step[pick[w]][v[w \ {pick[w]}]]
              BY <6>1 DEF FoldStep
            <6> HIDE DEF u, v
            <6>3. u = FoldStep(u, q, base, pick, step)
                  /\ v = FoldStep(v, r, base, pick, step)
              BY <4>2, <2>2 DEF u, v
            <6> QED
              BY <6>2, <6>3, Zenon
          <5> HIDE DEF u, v
          <5>2. IsFiniteSet(q) /\ (\A w \in SUBSET q : w \in SUBSET S)
            BY <4>1, FS_Subset
          <5>3. u[{}] = v[{}]
            BY <5>1
          <5>4. \A w \in SUBSET q : w # {} =>
                  /\ pick[w] \in w
                  /\ u[w \ {pick[w]}] = v[w \ {pick[w]}] => u[w] = v[w]
            BY <5>1, <5>2
          <5>5. \A w \in SUBSET q : u[w] = v[w]
            <6>1. SameRecursion(q, pick, u, v)
              BY <5>3, <5>4 DEF SameRecursion
            <6> QED
              BY <6>1, <5>2, FoldsAgree
          <5> QED
            BY <5>5 DEF u, v
        <4>4. h[r] = step[pick[r]][sub(q)[q]]
          BY <2>1, <3>2 DEF q
        <4> QED
          BY <4>3, <4>4, <2>3, <3>2 DEF q
      <3> QED
        BY <3>1, <3>2
    <2> QED
      BY <2>4 DEF r
  <1>8. h = FoldStep(h, T, base, pick, step)
    <2>1. \A s \in SUBSET T :
            (IF s = {} THEN base ELSE step[pick[s]][below(s)])
              = (IF s = {} THEN base ELSE step[pick[s]][h[s \ {pick[s]}]])
      BY <1>7
    <2> HIDE DEF below
    <2> QED
      BY <2>1 DEF FoldStep
  <1>9. T \notin Bad
    BY <1>6, <1>8
  <1> QED
    BY <1>9

\* A fold over a sequence picks the last position first.
LEMMA MaxFacts ==
  ASSUME NEW n \in Nat
  PROVE  /\ \A s \in SUBSET (1..n) : s # {} => Max(s) \in s
         /\ \A k \in 1..n : Max(1..k) = k /\ (1..k) \ {k} = 1..(k - 1)
  <1>1. ASSUME NEW s \in SUBSET (1..n), s # {}
        PROVE  Max(s) \in s
    <2> DEFINE D == {n - x : x \in s}
    <2>1. D \in SUBSET Nat /\ D # {}
      BY <1>1
    <2> HIDE DEF D
    <2>2. PICK d \in D : \A e \in D : d <= e
      BY <2>1, NatLeast
    <2>3. PICK x \in s : d = n - x
      BY DEF D
    <2>4. \A y \in s : x >= y
      <3>1. \A y \in s : n - y \in D /\ y \in Nat
        BY DEF D
      <3> QED
        BY <2>2, <2>3, <3>1
    <2> QED
      BY <2>4 DEF Max
  <1>2. ASSUME NEW k \in 1..n
        PROVE  Max(1..k) = k /\ (1..k) \ {k} = 1..(k - 1)
    BY DEF Max
  <1> QED
    BY <1>1, <1>2

-----------------------------------------------------------------------------
(* The sum of a function over a finite set                                 *)

IntegerOn(fun, S) == \A x \in S : fun[x] \in Int

\* The equation of the sum and what the fold's own function is.
SumStep(fun, g, S) ==
  [s \in SUBSET S |->
    IF s = {} THEN 0
    ELSE fun[CHOOSE x \in s : TRUE] + g[s \ {CHOOSE x \in s : TRUE}]]

SumFold(fun, S) == CHOOSE g : g = SumStep(fun, g, S)

\* The function that SumFunctionOnSet defines solves its equation, on integers.
LEMMA SumFoldSolves ==
  ASSUME NEW fun, NEW S, IsFiniteSet(S), IntegerOn(fun, S)
  PROVE  /\ SumFold(fun, S) = SumStep(fun, SumFold(fun, S), S)
         /\ SumFold(fun, S) \in [SUBSET S -> Int]
         /\ SumFunctionOnSet(fun, S) = SumFold(fun, S)[S]
  <1> DEFINE pick == [s \in SUBSET S |-> CHOOSE x \in s : TRUE]
             step == [x \in S |-> [v \in Int |-> fun[x] + v]]
  <1>1. \A s \in SUBSET S : s # {} => pick[s] \in s
    OBVIOUS
  <1>2. \A x \in S : step[x] \in [Int -> Int]
    BY DEF IntegerOn
  <1>3. PICK g \in [SUBSET S -> Int] : g = FoldStep(g, S, 0, pick, step)
    <2>1. FoldTyped(S, Int, 0, pick, step)
      BY <1>1, <1>2 DEF FoldTyped
    <2> HIDE DEF pick, step
    <2>2. \E g : IsFold(g, S, Int, 0, pick, step)
      BY <2>1, FoldExists
    <2> QED
      BY <2>2 DEF IsFold
  <1>4. \A s \in SUBSET S : s # {} =>
          /\ (CHOOSE x \in s : TRUE) \in S
          /\ step[pick[s]][g[s \ {pick[s]}]]
              = fun[CHOOSE x \in s : TRUE] + g[s \ {CHOOSE x \in s : TRUE}]
    OBVIOUS
  <1>5. FoldStep(g, S, 0, pick, step) = SumStep(fun, g, S)
    <2> HIDE DEF step, pick
    <2> QED
      BY <1>4 DEF FoldStep, SumStep
  <1> DEFINE f == SumFold(fun, S)
  <1>6. f = SumStep(fun, f, S)
    <2>1. \E h : h = SumStep(fun, h, S)
      BY <1>3, <1>5
    <2> QED
      BY <2>1 DEF SumFold
  <1> HIDE DEF f
  <1>7. \A s \in SUBSET S :
          /\ f[s] = IF s = {} THEN 0
                    ELSE fun[CHOOSE x \in s : TRUE] + f[s \ {CHOOSE x \in s : TRUE}]
          /\ g[s] = IF s = {} THEN 0
                    ELSE fun[CHOOSE x \in s : TRUE] + g[s \ {CHOOSE x \in s : TRUE}]
    <2>1. g = SumStep(fun, g, S)
      BY <1>3, <1>5
    <2>2. \A h : h = SumStep(fun, h, S) => \A s \in SUBSET S :
            h[s] = IF s = {} THEN 0
                   ELSE fun[CHOOSE x \in s : TRUE] + h[s \ {CHOOSE x \in s : TRUE}]
      <3> TAKE h
      <3> HAVE h = SumStep(fun, h, S)
      <3> TAKE s \in SUBSET S
      <3>1. SumStep(fun, h, S)[s]
              = IF s = {} THEN 0
                ELSE fun[CHOOSE x \in s : TRUE] + h[s \ {CHOOSE x \in s : TRUE}]
        BY DEF SumStep
      <3> QED
        BY <3>1, Zenon
    <2> QED
      BY <1>6, <2>1, <2>2
  <1>8. SameRecursion(S, pick, f, g)
    <2>1. \A s \in SUBSET S : s # {} =>
            /\ pick[s] \in s
            /\ f[s \ {pick[s]}] = g[s \ {pick[s]}] => f[s] = g[s]
      BY <1>7
    <2>2. f[{}] = g[{}]
      BY <1>7
    <2> QED
      BY <2>1, <2>2 DEF SameRecursion
  <1>9. \A s \in SUBSET S : f[s] = g[s]
    <2> HIDE DEF pick
    <2> QED
      BY <1>8, FoldsAgree
  <1>10. f \in [SUBSET S -> Int]
    <2>1. f = [s \in SUBSET S |-> f[s]]
      <3>1. SumStep(fun, f, S) = [s \in SUBSET S |-> SumStep(fun, f, S)[s]]
        BY DEF SumStep
      <3> QED
        BY <1>6, <3>1, Zenon
    <2> QED
      BY <2>1, <1>9
  <1>11. SumFunctionOnSet(fun, S) = f[S]
    BY DEF SumFunctionOnSet, FoldFunctionOnSet, MapThenFoldSet, SumFold, SumStep, f
  <1> QED
    BY <1>6, <1>10, <1>11 DEF f

\* The sum of the empty set is zero; any other is that of an element that the
\* fold chooses and of the rest; a sum of integers is an integer.
LEMMA SumUnfold ==
  ASSUME NEW fun, NEW S, IsFiniteSet(S), IntegerOn(fun, S)
  PROVE  /\ SumFunctionOnSet(fun, S) \in Int
         /\ S = {} => SumFunctionOnSet(fun, S) = 0
         /\ S # {} => \E x \in S : SumFunctionOnSet(fun, S)
                                     = fun[x] + SumFunctionOnSet(fun, S \ {x})
  <1> DEFINE f == SumFold(fun, S)
             Pick(s) == CHOOSE x \in s : TRUE
             T == S \ {Pick(S)}
             g == SumFold(fun, T)
  <1>1. T \in SUBSET S /\ IsFiniteSet(T) /\ IntegerOn(fun, T)
    BY FS_RemoveElement DEF IntegerOn
  <1>2. /\ f = SumStep(fun, f, S) /\ f \in [SUBSET S -> Int]
        /\ SumFunctionOnSet(fun, S) = f[S]
    BY SumFoldSolves
  <1>3. g = SumStep(fun, g, T) /\ SumFunctionOnSet(fun, T) = g[T]
    <2> HIDE DEF T
    <2> QED
      BY <1>1, SumFoldSolves
  <1> HIDE DEF f, g
  <1>4. \A h, U : h = SumStep(fun, h, U) => \A s \in SUBSET U :
          h[s] = IF s = {} THEN 0 ELSE fun[Pick(s)] + h[s \ {Pick(s)}]
    <2> TAKE h, U
    <2> HAVE h = SumStep(fun, h, U)
    <2> TAKE s \in SUBSET U
    <2>1. SumStep(fun, h, U)[s]
            = IF s = {} THEN 0 ELSE fun[Pick(s)] + h[s \ {Pick(s)}]
      BY DEF SumStep
    <2> QED
      BY <2>1, Zenon
  <1>5. f[S] = IF S = {} THEN 0 ELSE fun[Pick(S)] + f[T]
    BY <1>2, <1>4
  <1>6. \A s \in SUBSET T : f[s] = g[s]
    <2> DEFINE pick == [s \in SUBSET T |-> Pick(s)]
    <2>1. \A s \in SUBSET T :
            /\ f[s] = IF s = {} THEN 0 ELSE fun[Pick(s)] + f[s \ {Pick(s)}]
            /\ g[s] = IF s = {} THEN 0 ELSE fun[Pick(s)] + g[s \ {Pick(s)}]
      BY <1>1, <1>2, <1>3, <1>4
    <2>2. \A s \in SUBSET T : s # {} => pick[s] = Pick(s) /\ Pick(s) \in s
      OBVIOUS
    <2>3. SameRecursion(T, pick, f, g)
      <3> HIDE DEF T, pick, Pick
      <3>1. f[{}] = g[{}]
        BY <2>1
      <3>2. \A s \in SUBSET T : s # {} =>
              /\ pick[s] \in s
              /\ f[s \ {pick[s]}] = g[s \ {pick[s]}] => f[s] = g[s]
        BY <2>1, <2>2
      <3> QED
        BY <3>1, <3>2 DEF SameRecursion
    <2> HIDE DEF T, pick
    <2> QED
      BY <1>1, <2>3, FoldsAgree
  <1>7. S # {} => Pick(S) \in S
    OBVIOUS
  <1> QED
    BY <1>1, <1>2, <1>3, <1>5, <1>6, <1>7

\* Any element can be taken out of a sum first.
LEMMA SumRemove ==
  ASSUME NEW fun, NEW S, IsFiniteSet(S), IntegerOn(fun, S), NEW x \in S
  PROVE  SumFunctionOnSet(fun, S) = fun[x] + SumFunctionOnSet(fun, S \ {x})
  <1> DEFINE Sum(T) == SumFunctionOnSet(fun, T)
             Bad == {T \in SUBSET S :
                       \E y \in T : Sum(T) # fun[y] + Sum(T \ {y})}
  <1>1. SUFFICES ASSUME Bad # {} PROVE FALSE
    OBVIOUS
  <1>2. PICK T \in Bad : \A s \in SUBSET T : s # T => s \notin Bad
    <2>1. Bad \in SUBSET SUBSET S
      OBVIOUS
    <2> HIDE DEF Bad
    <2> QED
      BY <1>1, <2>1, SubsetLeast
  <1>3. PICK y \in T : Sum(T) # fun[y] + Sum(T \ {y})
    OBVIOUS
  <1>4. \A U \in SUBSET S : IsFiniteSet(U) /\ IntegerOn(fun, U) /\ Sum(U) \in Int
    <2> TAKE U \in SUBSET S
    <2>1. IsFiniteSet(U) /\ IntegerOn(fun, U)
      BY FS_Subset DEF IntegerOn
    <2> QED
      BY <2>1, SumUnfold
  <1> HIDE DEF Sum
  <1>5. PICK z \in T : Sum(T) = fun[z] + Sum(T \ {z})
    BY <1>4, SumUnfold DEF Sum
  <1>6. y # z
    BY <1>3, <1>5
  <1>7. Sum(T \ {z}) = fun[y] + Sum((T \ {z}) \ {y})
    <2>1. T \ {z} \in SUBSET T /\ T \ {z} # T /\ y \in T \ {z}
      BY <1>6
    <2> QED
      BY <1>2, <2>1
  <1>8. Sum(T \ {y}) = fun[z] + Sum((T \ {y}) \ {z})
    <2>1. T \ {y} \in SUBSET T /\ T \ {y} # T /\ z \in T \ {y}
      BY <1>6
    <2> QED
      BY <1>2, <2>1
  <1>9. (T \ {z}) \ {y} = (T \ {y}) \ {z}
    OBVIOUS
  <1>10. fun[y] \in Int /\ fun[z] \in Int /\ Sum((T \ {y}) \ {z}) \in Int
    BY <1>4 DEF IntegerOn
  <1>11. Sum(T \ {z}) = fun[y] + Sum((T \ {y}) \ {z})
    BY <1>7, <1>9
  <1> HIDE DEF Bad
  <1> QED
    BY <1>3, <1>5, <1>8, <1>10, <1>11

\* Multiplication distributes over the addition of integers.
LEMMA Distribute ==
  ASSUME NEW d \in Int, NEW a \in Int, NEW b \in Int
  PROVE  d * (a + b) = d * a + d * b /\ d * a \in Int
  OBVIOUS

\* The sum of f + d * g is the sum of f and d times that of g.
LEMMA SumLinear ==
  ASSUME NEW S, IsFiniteSet(S), NEW f, NEW g, NEW h, NEW d \in Int,
         IntegerOn(f, S), IntegerOn(g, S), IntegerOn(h, S),
         \A x \in S : h[x] = f[x] + d * g[x]
  PROVE  SumFunctionOnSet(h, S)
           = SumFunctionOnSet(f, S) + d * SumFunctionOnSet(g, S)
  <1> DEFINE F(T) == SumFunctionOnSet(f, T)
             G(T) == SumFunctionOnSet(g, T)
             H(T) == SumFunctionOnSet(h, T)
             Bad == {T \in SUBSET S : H(T) # F(T) + d * G(T)}
  <1>1. SUFFICES ASSUME Bad # {} PROVE FALSE
    OBVIOUS
  <1>2. PICK T \in Bad : \A s \in SUBSET T : s # T => s \notin Bad
    <2>1. Bad \in SUBSET SUBSET S
      OBVIOUS
    <2> HIDE DEF Bad
    <2> QED
      BY <1>1, <2>1, SubsetLeast
  <1>3. IsFiniteSet(T) /\ IntegerOn(f, T) /\ IntegerOn(g, T) /\ IntegerOn(h, T)
    BY FS_Subset DEF IntegerOn
  <1>4. T # {}
    BY <1>3, SumUnfold
  <1>5. PICK x \in T : H(T) = h[x] + H(T \ {x})
    BY <1>3, <1>4, SumUnfold
  <1> DEFINE R == T \ {x}
  <1>6. F(T) = f[x] + F(R) /\ G(T) = g[x] + G(R)
    BY <1>3, SumRemove
  <1>7. R \in SUBSET S /\ R \in SUBSET T /\ R # T
    OBVIOUS
  <1>8. H(R) = F(R) + d * G(R)
    <2> HIDE DEF R, H, F, G
    <2> QED
      BY <1>2, <1>7
  <1>9. F(R) \in Int /\ G(R) \in Int
    <2>1. IsFiniteSet(R) /\ IntegerOn(f, R) /\ IntegerOn(g, R)
      BY <1>3, FS_RemoveElement DEF IntegerOn
    <2> HIDE DEF R
    <2> QED
      BY <2>1, SumUnfold
  <1>10. /\ f[x] \in Int /\ g[x] \in Int /\ h[x] = f[x] + d * g[x]
         /\ H(T) # F(T) + d * G(T)
    BY DEF IntegerOn
  <1> HIDE DEF R, F, G, H, Bad
  <1>11. H(T) = (f[x] + d * g[x]) + (F(R) + d * G(R))
    BY <1>5, <1>8, <1>10 DEF R
  <1>12. d * G(T) = d * g[x] + d * G(R)
    BY <1>6, <1>9, <1>10, Distribute
  <1>13. d * g[x] \in Int /\ d * G(R) \in Int
    BY <1>9, <1>10
  <1> QED
    BY <1>6, <1>9, <1>10, <1>11, <1>12, <1>13

\* Functions with the same values have the same sum.
LEMMA SumSame ==
  ASSUME NEW S, IsFiniteSet(S), NEW f, NEW h, IntegerOn(f, S),
         \A x \in S : h[x] = f[x]
  PROVE  SumFunctionOnSet(h, S) = SumFunctionOnSet(f, S)
  <1>1. IntegerOn(h, S) /\ \A x \in S : h[x] = f[x] + 0 * f[x]
    BY DEF IntegerOn
  <1>2. SumFunctionOnSet(h, S)
          = SumFunctionOnSet(f, S) + 0 * SumFunctionOnSet(f, S)
    BY <1>1, SumLinear
  <1> QED
    BY <1>2, SumUnfold

\* Changing one value of the function changes the sum by as much.
LEMMA SumChange ==
  ASSUME NEW S, IsFiniteSet(S), NEW f, NEW h, NEW x \in S,
         IntegerOn(f, S), IntegerOn(h, S),
         \A y \in S \ {x} : h[y] = f[y]
  PROVE  SumFunctionOnSet(h, S) = SumFunctionOnSet(f, S) + h[x] - f[x]
  <1> DEFINE R == S \ {x}
  <1>1. IsFiniteSet(R) /\ IntegerOn(f, R) /\ \A y \in R : h[y] = f[y]
    BY FS_RemoveElement DEF IntegerOn
  <1>2. SumFunctionOnSet(h, R) = SumFunctionOnSet(f, R)
    <2> HIDE DEF R
    <2> QED
      BY <1>1, SumSame
  <1>3. /\ SumFunctionOnSet(h, S) = h[x] + SumFunctionOnSet(h, R)
        /\ SumFunctionOnSet(f, S) = f[x] + SumFunctionOnSet(f, R)
    BY SumRemove
  <1>4. SumFunctionOnSet(f, R) \in Int
    BY <1>1, SumUnfold
  <1>5. f[x] \in Int /\ h[x] \in Int
    BY DEF IntegerOn
  <1> HIDE DEF R
  <1> QED
    BY <1>2, <1>3, <1>4, <1>5

\* From f to h, x and y exchange a part of their values.
Exchange(S, f, h, x, y) ==
  /\ x \in S /\ y \in S /\ x # y
  /\ h[x] + h[y] = f[x] + f[y]
  /\ \A z \in S : z # x /\ z # y => h[z] = f[z]

\* What one value loses and another gains leaves the sum as it is.
LEMMA SumTransfer ==
  ASSUME NEW S, IsFiniteSet(S), NEW f, NEW h, NEW x, NEW y,
         IntegerOn(f, S), IntegerOn(h, S), Exchange(S, f, h, x, y)
  PROVE  SumFunctionOnSet(h, S) = SumFunctionOnSet(f, S)
  <1> USE DEF Exchange
  <1> DEFINE g == [z \in S |-> IF z = x THEN h[x] ELSE f[z]]
  <1>1. IntegerOn(g, S) /\ g[x] = h[x] /\ g[y] = f[y]
    BY DEF IntegerOn
  <1>2. (\A z \in S \ {x} : g[z] = f[z]) /\ (\A z \in S \ {y} : h[z] = g[z])
    OBVIOUS
  <1> HIDE DEF g
  <1>3. SumFunctionOnSet(g, S) = SumFunctionOnSet(f, S) + g[x] - f[x]
    BY <1>1, <1>2, SumChange
  <1>4. SumFunctionOnSet(h, S) = SumFunctionOnSet(g, S) + h[y] - g[y]
    BY <1>1, <1>2, SumChange
  <1>5. SumFunctionOnSet(f, S) \in Int
    BY SumUnfold
  <1>6. f[x] \in Int /\ f[y] \in Int /\ h[x] \in Int /\ h[y] \in Int
    BY DEF IntegerOn
  <1> QED
    BY <1>1, <1>3, <1>4, <1>5, <1>6

\* Of values that are not negative, fewer have no greater sum.
LEMMA SumSubset ==
  ASSUME NEW S, IsFiniteSet(S), NEW f, IntegerOn(f, S),
         \A x \in S : f[x] >= 0, NEW R \in SUBSET S
  PROVE  SumFunctionOnSet(f, R) <= SumFunctionOnSet(f, S)
  <1> DEFINE F(T) == SumFunctionOnSet(f, T)
             Bad == {T \in SUBSET S : R \subseteq T /\ ~(F(R) <= F(T))}
  <1>1. SUFFICES ASSUME Bad # {} PROVE FALSE
    OBVIOUS
  <1>2. PICK T \in Bad : \A s \in SUBSET T : s # T => s \notin Bad
    <2>1. Bad \in SUBSET SUBSET S
      OBVIOUS
    <2> HIDE DEF Bad
    <2> QED
      BY <1>1, <2>1, SubsetLeast
  <1>3. IsFiniteSet(T) /\ IntegerOn(f, T) /\ F(R) \in Int
    <2>1. IsFiniteSet(R) /\ IntegerOn(f, R)
      BY FS_Subset DEF IntegerOn
    <2> QED
      BY <2>1, FS_Subset, SumUnfold DEF IntegerOn
  <1>4. R # T
    BY <1>3
  <1>5. PICK x \in T : x \notin R
    BY <1>4
  <1> DEFINE U == T \ {x}
  <1>6. F(T) = f[x] + F(U)
    BY <1>3, SumRemove
  <1>7. F(U) \in Int
    <2>1. IsFiniteSet(U) /\ IntegerOn(f, U)
      BY <1>3, FS_RemoveElement DEF IntegerOn
    <2> HIDE DEF U
    <2> QED
      BY <2>1, SumUnfold
  <1>8. F(R) <= F(U)
    <2>1. U \in SUBSET T /\ U # T /\ U \in SUBSET S /\ R \subseteq U
      BY <1>5
    <2> HIDE DEF U, F
    <2> QED
      BY <1>2, <2>1
  <1>9. f[x] \in Int /\ f[x] >= 0 /\ ~(F(R) <= F(T))
    BY <1>3 DEF IntegerOn
  <1> HIDE DEF F, U, Bad
  <1> QED
    BY <1>3, <1>6, <1>7, <1>8, <1>9

-----------------------------------------------------------------------------
(* The concatenation of a sequence of sequences                            *)

\* The equation of FlattenSeq on the first n sequences of s.
FlatStep(s, g, n) ==
  [i \in 1..n |-> IF i = 1 THEN s[i] ELSE g[i - 1] \o s[i]]

FlatFold(s) == CHOOSE g : g = FlatStep(s, g, Len(s))

\* What a solution of the equation says of its values.
LEMMA FlatValues ==
  ASSUME NEW s, NEW n \in Nat, NEW g, g = FlatStep(s, g, n), NEW i \in 1..n
  PROVE  g[i] = IF i = 1 THEN s[i] ELSE g[i - 1] \o s[i]
  <1>1. FlatStep(s, g, n)[i] = IF i = 1 THEN s[i] ELSE g[i - 1] \o s[i]
    BY Zenon DEF FlatStep
  <1> QED
    BY <1>1, Zenon

\* The equation has a solution for any number of sequences.
LEMMA FlatExists ==
  ASSUME NEW s, NEW n \in Nat
  PROVE  \E g : g = FlatStep(s, g, n)
  <1> DEFINE Bad == {k \in Nat : ~ \E g : g = FlatStep(s, g, k)}
  <1>1. SUFFICES ASSUME Bad # {} PROVE FALSE
    OBVIOUS
  <1>2. PICK k \in Bad : \A m \in Bad : k <= m
    <2>1. Bad \in SUBSET Nat
      OBVIOUS
    <2> HIDE DEF Bad
    <2> QED
      BY <1>1, <2>1, NatLeast
  <1>3. k # 0
    <2>1. FlatStep(s, <<>>, 0) = <<>>
      BY DEF FlatStep
    <2> QED
      BY <2>1
  <1>4. k - 1 \in Nat /\ k - 1 \notin Bad
    BY <1>2, <1>3
  <1>5. PICK g : g = FlatStep(s, g, k - 1)
    BY <1>4
  <1> DEFINE h == [i \in 1..k |-> IF i < k THEN g[i]
                                  ELSE IF k = 1 THEN s[k] ELSE g[k - 1] \o s[k]]
  <1>6. ASSUME NEW i \in 1..k
        PROVE  h[i] = IF i = 1 THEN s[i] ELSE h[i - 1] \o s[i]
    <2>1. CASE i = k
      BY <2>1
    <2>2. CASE i # k
      <3>1. i \in 1..(k - 1) /\ h[i] = g[i] /\ (i # 1 => h[i - 1] = g[i - 1])
        BY <2>2
      <3>2. g[i] = IF i = 1 THEN s[i] ELSE g[i - 1] \o s[i]
        BY <1>4, <1>5, <3>1, FlatValues
      <3> HIDE DEF h
      <3> QED
        BY <3>1, <3>2
    <2> QED
      BY <2>1, <2>2
  <1>7. h = FlatStep(s, h, k)
    <2>1. h = [i \in 1..k |-> h[i]]
      OBVIOUS
    <2> HIDE DEF h
    <2> QED
      BY <1>6, <2>1 DEF FlatStep
  <1> QED
    BY <1>7

\* f and g solve the equation for sequences whose first n members agree.
FlatAlike(s, t, f, g, n, k) ==
  /\ f = FlatStep(s, f, n) /\ g = FlatStep(t, g, k)
  /\ n <= k
  /\ \A i \in 1..n : s[i] = t[i]

\* Solutions for sequences that begin alike agree there.
LEMMA FlatAgree ==
  ASSUME NEW s, NEW t, NEW n \in Nat, NEW k \in Nat, NEW f, NEW g,
         FlatAlike(s, t, f, g, n, k)
  PROVE  \A j \in 1..n : f[j] = g[j]
  <1> DEFINE Bad == {i \in 1..n : f[i] # g[i]}
  <1>1. SUFFICES ASSUME Bad # {} PROVE FALSE
    OBVIOUS
  <1>2. PICK i \in Bad : \A m \in Bad : i <= m
    <2>1. Bad \in SUBSET Nat
      OBVIOUS
    <2> HIDE DEF Bad
    <2> QED
      BY <1>1, <2>1, NatLeast
  <1>3. i \in 1..n /\ i \in 1..k /\ s[i] = t[i]
    BY DEF FlatAlike
  <1>4. f[i] = IF i = 1 THEN s[i] ELSE f[i - 1] \o s[i]
    BY <1>3, FlatValues DEF FlatAlike
  <1>5. g[i] = IF i = 1 THEN t[i] ELSE g[i - 1] \o t[i]
    BY <1>3, FlatValues DEF FlatAlike
  <1>6. i # 1 => f[i - 1] = g[i - 1]
    <2>1. i # 1 => i - 1 \in 1..n /\ ~(i <= i - 1)
      BY <1>3
    <2> QED
      BY <1>2, <2>1
  <1> QED
    BY <1>3, <1>4, <1>5, <1>6

\* What FlattenSeq returns, in terms of a solution.
LEMMA FlattenIsFold ==
  ASSUME NEW V, NEW s \in Seq(V)
  PROVE  /\ FlatFold(s) = FlatStep(s, FlatFold(s), Len(s))
         /\ FlattenSeq(s) = IF s = <<>> THEN <<>> ELSE FlatFold(s)[Len(s)]
  <1>1. Len(s) \in Nat /\ (Len(s) = 0 <=> s = <<>>)
    BY LenProperties, EmptySeq
  <1>2. FlatFold(s) = FlatStep(s, FlatFold(s), Len(s))
    BY <1>1, FlatExists DEF FlatFold
  <1>3. FlattenSeq(s) = IF Len(s) = 0 THEN s ELSE FlatFold(s)[Len(s)]
    BY DEF FlattenSeq, FlatFold, FlatStep
  <1> QED
    BY <1>1, <1>2, <1>3

\* The concatenation of sequences over V is one.
LEMMA FlattenType ==
  ASSUME NEW V, NEW s \in Seq(Seq(V))
  PROVE  FlattenSeq(s) \in Seq(V)
  <1> DEFINE f == FlatFold(s)
             n == Len(s)
             Bad == {i \in 1..n : f[i] \notin Seq(V)}
  <1>1. n \in Nat /\ \A i \in 1..n : s[i] \in Seq(V)
    BY LenProperties
  <1>2. f = FlatStep(s, f, n)
    BY FlattenIsFold
  <1>3. Bad = {}
    <2> SUFFICES ASSUME Bad # {} PROVE FALSE
      OBVIOUS
    <2>1. PICK i \in Bad : \A m \in Bad : i <= m
      <3>1. Bad \in SUBSET Nat
        BY <1>1
      <3> HIDE DEF Bad
      <3> QED
        BY <3>1, NatLeast
    <2> HIDE DEF f, n
    <2>2. i \in 1..n /\ f[i] = IF i = 1 THEN s[i] ELSE f[i - 1] \o s[i]
      BY <1>1, <1>2, FlatValues
    <2>3. i # 1 => f[i - 1] \in Seq(V)
      <3>1. i # 1 => i - 1 \in 1..n /\ ~(i <= i - 1)
        BY <1>1, <2>2
      <3> QED
        BY <2>1, <3>1
    <2>4. f[i] \in Seq(V)
      BY <1>1, <2>2, <2>3, ConcatProperties
    <2> QED
      BY <2>4
  <1>4. s # <<>> => n \in 1..n
    BY <1>1, EmptySeq
  <1> HIDE DEF n
  <1>5. s # <<>> => f[n] \in Seq(V)
    BY <1>3, <1>4
  <1> QED
    BY <1>5, FlattenIsFold, EmptySeq DEF n

\* One more sequence is put at the end.
LEMMA FlattenAppend ==
  ASSUME NEW V, NEW s \in Seq(Seq(V)), NEW x \in Seq(V)
  PROVE  FlattenSeq(Append(s, x)) = FlattenSeq(s) \o x
  <1> DEFINE a == Append(s, x)
             n == Len(s)
             f == FlatFold(s)
             g == FlatFold(a)
  <1>1. /\ a \in Seq(Seq(V)) /\ a # <<>> /\ Len(a) = n + 1 /\ n \in Nat
        /\ \A i \in 1..n : a[i] = s[i]
        /\ a[n + 1] = x
    BY AppendProperties, LenProperties
  <1>2. f = FlatStep(s, f, n) /\ g = FlatStep(a, g, n + 1)
    <2>1. g = FlatStep(a, g, Len(a))
      <3> HIDE DEF a
      <3> QED
        BY <1>1, FlattenIsFold
    <2> QED
      BY <1>1, <2>1, FlattenIsFold
  <1>3. FlattenSeq(a) = g[n + 1]
    <2> HIDE DEF a
    <2> QED
      BY <1>1, FlattenIsFold
  <1> HIDE DEF a, n, f, g
  <1>4. g[n + 1] = IF n + 1 = 1 THEN x ELSE g[n] \o x
    BY <1>1, <1>2, FlatValues
  <1>5. CASE s = <<>>
    <2>1. n = 0 /\ FlattenSeq(s) = <<>>
      BY <1>5, EmptySeq, FlattenIsFold DEF n
    <2> QED
      BY <1>3, <1>4, <2>1, ConcatEmptySeq DEF a
  <1>6. CASE s # <<>>
    <2>1. n \in 1..n /\ FlattenSeq(s) = f[n]
      BY <1>1, <1>6, EmptySeq, FlattenIsFold DEF n, f
    <2>2. f[n] = g[n]
      <3>1. FlatAlike(s, a, f, g, n, n + 1) /\ n + 1 \in Nat
        BY <1>1, <1>2 DEF FlatAlike
      <3>2. n \in Nat
        BY <1>1
      <3>3. \A j \in 1..n : f[j] = g[j]
        BY <3>1, <3>2, FlatAgree
      <3> QED
        BY <2>1, <3>3
    <2> QED
      BY <1>1, <1>3, <1>4, <2>1, <2>2 DEF a
  <1> QED
    BY <1>5, <1>6

\* The concatenation of nothing is empty.
LEMMA FlattenNothing == FlattenSeq(<<>>) = <<>>
  <1>1. <<>> \in Seq({})
    BY EmptySeq
  <1> QED
    BY <1>1, FlattenIsFold

Regroup(s, t, u) == (s \o t) \o u = s \o (t \o u)

\* Concatenation is associative, for goals in which SMT does not see it.
LEMMA Associative ==
  ASSUME NEW V, NEW s \in Seq(V), NEW t \in Seq(V), NEW u \in Seq(V)
  PROVE  Regroup(s, t, u)
  BY ConcatAssociative DEF Regroup

\* A sequence is its first n members and the rest.
LEMMA SplitFirst ==
  ASSUME NEW V, NEW w \in Seq(V), NEW n \in 0..Len(w)
  PROVE  /\ SubSeq(w, 1, n) \in Seq(V) /\ SubSeq(w, n + 1, Len(w)) \in Seq(V)
         /\ Len(SubSeq(w, 1, n)) = n
         /\ w = SubSeq(w, 1, n) \o SubSeq(w, n + 1, Len(w))
  <1>1. Len(w) \in Nat
    BY LenProperties
  <1>2. \A i \in 1..Len(w) : w[i] \in V
    BY LenProperties
  <1>3. SubSeq(w, 1, n) \in Seq(V) /\ SubSeq(w, n + 1, Len(w)) \in Seq(V)
    BY <1>1, <1>2, SubSeqProperties
  <1>4. Len(SubSeq(w, 1, n)) = n
    BY <1>1, <1>2
  <1>5. SubSeq(w, 1, Len(w)) = SubSeq(w, 1, n) \o SubSeq(w, n + 1, Len(w))
    <2>1. 1 \in 1..Len(w) + 1 /\ n \in 1 - 1..Len(w) /\ Len(w) \in n..Len(w)
      BY <1>1
    <2> QED
      BY <2>1, ConcatAdjacentSubSeq
  <1> QED
    BY <1>3, <1>4, <1>5, SubSeqFull

\* Three sequences are concatenated in either order: a name for the library's
\* fact, which the provers apply without looking into it.
Associates(a, b, c) == (a \o b) \o c = a \o (b \o c)

LEMMA ConcatThree ==
  ASSUME NEW X, NEW a \in Seq(X), NEW b \in Seq(X), NEW c \in Seq(X)
  PROVE  Associates(a, b, c)
BY ConcatAssociative, SMTT(30) DEF Associates

\* Some concatenation with t at its end is not flattened part by part.
FlattenFails(V, t) ==
  \E s \in Seq(Seq(V)) : FlattenSeq(s \o t) # FlattenSeq(s) \o FlattenSeq(t)

\* FlattenSeq distributes over concatenation.
LEMMA FlattenConcat ==
  ASSUME NEW V, NEW s \in Seq(Seq(V)), NEW t \in Seq(Seq(V))
  PROVE  FlattenSeq(s \o t) = FlattenSeq(s) \o FlattenSeq(t)
  <1> DEFINE W == Seq(V)
             Bad == {n \in Nat : \E u \in Seq(W) : Len(u) = n /\ FlattenFails(V, u)}
  <1>1. SUFFICES ASSUME Bad # {} PROVE FALSE
    BY LenProperties DEF FlattenFails
  <1>2. PICK n \in Bad : \A m \in Bad : n <= m
    <2>1. Bad \in SUBSET Nat
      OBVIOUS
    <2> HIDE DEF Bad
    <2> QED
      BY <1>1, <2>1, NatLeast
  <1>3. PICK u \in Seq(W) : Len(u) = n /\ FlattenFails(V, u)
    BY <1>2
  <1>4. PICK r \in Seq(W) : FlattenSeq(r \o u) # FlattenSeq(r) \o FlattenSeq(u)
    BY <1>3 DEF FlattenFails
  <1>5. FlattenSeq(r) \in Seq(V)
    BY FlattenType
  <1>6. u # <<>>
    <2>1. r \o <<>> = r /\ FlattenSeq(r) \o <<>> = FlattenSeq(r)
      BY <1>5, ConcatEmptySeq
    <2> QED
      BY <1>4, <2>1, FlattenNothing
  <1>7. PICK v \in Seq(W), x \in W : u = Append(v, x)
    BY <1>6, SequenceEmptyOrAppend
  <1>8. ~FlattenFails(V, v)
    <2>1. Len(v) \in Nat /\ Len(u) = Len(v) + 1
      BY <1>7, AppendProperties, LenProperties
    <2>2. Len(v) \notin Bad
      <3> HIDE DEF Bad
      <3> QED
        BY <1>2, <1>3, <2>1
    <2> HIDE DEF W
    <2> QED
      BY <2>1, <2>2
  <1>9. FlattenSeq(r \o v) = FlattenSeq(r) \o FlattenSeq(v)
    BY <1>8 DEF FlattenFails
  <1> HIDE DEF Bad
  <1>10. r \o u = Append(r \o v, x) /\ r \o v \in Seq(W)
    <2>1. <<x>> \in Seq(W)
      OBVIOUS
    <2>2. r \o v \in Seq(W)
      BY ConcatProperties
    <2>3. u = v \o <<x>> /\ Append(r \o v, x) = (r \o v) \o <<x>>
      <3>1. v \o <<x>> = Append(v, x)
        BY AppendIsConcat
      <3>2. (r \o v) \o <<x>> = Append(r \o v, x)
        BY <2>2, AppendIsConcat
      <3> QED
        BY <1>7, <3>1, <3>2
    <2>4. (r \o v) \o <<x>> = r \o (v \o <<x>>)
      <3>1. PICK y \in Seq(W) : y = <<x>>
        BY <2>1
      <3> HIDE DEF W
      <3>2. (r \o v) \o y = r \o (v \o y)
        <4>1. Associates(r, v, y)
          BY ConcatThree, Zenon
        <4> QED BY <4>1 DEF Associates
      <3> QED
        BY <3>1, <3>2
    <2> HIDE DEF W
    <2> QED
      BY <2>2, <2>3, <2>4, Zenon
  <1>11. /\ FlattenSeq(u) = FlattenSeq(v) \o x
         /\ FlattenSeq(r \o u) = FlattenSeq(r \o v) \o x
    <2>1. FlattenSeq(Append(v, x)) = FlattenSeq(v) \o x
      BY FlattenAppend
    <2>2. FlattenSeq(Append(r \o v, x)) = FlattenSeq(r \o v) \o x
      BY <1>10, FlattenAppend
    <2> QED
      BY <1>7, <1>10, <2>1, <2>2
  <1>12. FlattenSeq(v) \in Seq(V)
    BY FlattenType
  <1>13. (FlattenSeq(r) \o FlattenSeq(v)) \o x = FlattenSeq(r) \o (FlattenSeq(v) \o x)
    <2> DEFINE a == FlattenSeq(r)
               b == FlattenSeq(v)
    <2>1. a \in Seq(V) /\ b \in Seq(V) /\ x \in Seq(V)
      BY <1>5, <1>12
    <2> HIDE DEF a, b, W
    <2>2. Regroup(a, b, x)
      BY <2>1, Associative, Zenon
    <2> QED
      BY <2>2 DEF Regroup, a, b
  <1> QED
    BY <1>4, <1>9, <1>11, <1>13

=============================================================================
