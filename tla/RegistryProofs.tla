---------------------------- MODULE RegistryProofs ----------------------------
(***************************************************************************)
(* The books of AsioServer and the count of subjects of Experiment agree,  *)
(* for any number of connections and of requests.                          *)
(***************************************************************************)
EXTENDS Registry, FoldProofs

\* What the experiment counts is what the server keeps; a server that is being
\* stopped has not accepted a subject in between.
BooksAgree ==
  /\ n_subjects \in Nat
  /\ SubjectsReachable

\* emplace with the number of the next subject adds just that number.
LEMMA NextSubject ==
  ASSUME NEW n \in Nat
  PROVE  (0..(n - 1)) \cup {n} = 0..((n + 1) - 1)
OBVIOUS

LEMMA BooksStep ==
  ASSUME BooksAgree, [Next]_vars
  PROVE  BooksAgree'
<1> USE DEF BooksAgree, SubjectsReachable
<1>1. CASE UNCHANGED <<clients, n_subjects, stopped>>
  BY <1>1
<1>2. CASE \E c \in reading : AcceptSubject(c)
  <2>1. PICK c \in reading : AcceptSubject(c)
    BY <1>2
  <2>2. /\ n_subjects' = n_subjects + 1 /\ stopped' = stopped
        /\ DOMAIN clients' = DOMAIN clients \cup {n_subjects}
    BY <2>1 DEF AcceptSubject
  <2> QED BY <2>2, NextSubject
<1>3. CASE Stop
  BY <1>3 DEF Stop
<1>4. CASE \/ Accept \/ Race \/ SendToSubject \/ AbortedRead
           \/ \E c \in reading : AddAdmin(c) \/ AddNobody(c) \/ Hangup(c)
           \/ SetAccepting \/ Command \/ Sent \/ SentToNobody \/ PeerResets
           \/ UNCHANGED vars
  <2>1. UNCHANGED <<clients, n_subjects, stopped>>
    BY <1>4 DEF Accept, Race, SendToSubject, AbortedRead, AddAdmin, AddNobody, Hangup,
       SetAccepting, Command, Sent, SentToNobody, PeerResets, GoDown, books, vars
  <2> QED BY <1>1, <2>1
<1> QED BY <1>2, <1>3, <1>4 DEF Next, IoThread, Console

\* Until Stop has returned, no handler that sends to a subject of the
\* experiment runs into InvalidClientException (asio_server.hh:110-121).
THEOREM SubjectsAlwaysReachable == Spec => []SubjectsReachable
<1>1. Init => BooksAgree
  <2>1. Init => DOMAIN clients = {}
    BY DEF Init
  <2> QED BY <2>1 DEF Init, BooksAgree, SubjectsReachable
<1>2. BooksAgree /\ [Next]_vars => BooksAgree'
  BY BooksStep
<1>3. BooksAgree => SubjectsReachable
  BY DEF BooksAgree
<1> QED BY <1>1, <1>2, <1>3, PTL DEF Spec

-----------------------------------------------------------------------------
(* Compacting a vector with a predicate that looks into it                 *)

\* The equation of the fold of Erase: the elements behind slot i are w.
EraseStep(g, v, i, w) ==
  [s \in SUBSET (1..Len(w)) |->
    IF s = {} THEN [kept |-> SubSeq(v, 1, i - 1), slot |-> v[i]]
    ELSE IF w[Max(s)] = g[s \ {Max(s)}].slot THEN g[s \ {Max(s)}]
    ELSE [kept |-> Append(g[s \ {Max(s)}].kept, w[Max(s)]),
          slot |-> IF Len(g[s \ {Max(s)}].kept) = i - 1 THEN w[Max(s)]
                   ELSE g[s \ {Max(s)}].slot]]

EraseFold(v, i, w) == CHOOSE g : g = EraseStep(g, v, i, w)

\* The equation has a solution.
LEMMA EraseExists ==
  ASSUME NEW S, NEW v \in Seq(S), NEW i \in 1..Len(v), NEW w \in Seq(S)
  PROVE  \E g : g = EraseStep(g, v, i, w)
<1> DEFINE n == Len(w)
           D == 1..n
           V == [kept : Seq(S), slot : S]
           base == [kept |-> SubSeq(v, 1, i - 1), slot |-> v[i]]
           pick == [s \in SUBSET D |-> Max(s)]
           step == [k \in D |-> [acc \in V |->
                      IF w[k] = acc.slot THEN acc
                      ELSE [kept |-> Append(acc.kept, w[k]),
                            slot |-> IF Len(acc.kept) = i - 1 THEN w[k] ELSE acc.slot]]]
<1>1. n \in Nat /\ Len(v) \in Nat /\ (\A k \in D : w[k] \in S) /\ v[i] \in S
  BY LenProperties
<1>2. IsFiniteSet(D)
  BY <1>1, FS_Interval
<1>3. SubSeq(v, 1, i - 1) \in Seq(S)
  <2>1. \A k \in 1..(i - 1) : v[k] \in S
    BY LenProperties
  <2> QED
    BY <1>1, <2>1, SubSeqProperties
<1>4. base \in V
  BY <1>1, <1>3
<1>5. \A s \in SUBSET D : s # {} => pick[s] \in s
  BY <1>1, MaxFacts
<1>6. \A k \in D : step[k] \in [V -> V]
  <2> SUFFICES ASSUME NEW k \in D, NEW acc \in V
               PROVE (IF w[k] = acc.slot THEN acc
                      ELSE [kept |-> Append(acc.kept, w[k]),
                            slot |-> IF Len(acc.kept) = i - 1 THEN w[k] ELSE acc.slot]) \in V
    OBVIOUS
  <2>1. acc.kept \in Seq(S) /\ acc.slot \in S /\ w[k] \in S
    BY <1>1
  <2>2. Append(acc.kept, w[k]) \in Seq(S)
    BY <2>1, AppendProperties
  <2> QED
    BY <2>1, <2>2
<1>7. PICK g : IsFold(g, D, V, base, pick, step)
  <2>1. FoldTyped(D, V, base, pick, step)
    BY <1>4, <1>5, <1>6 DEF FoldTyped
  <2> HIDE DEF D, V, base, pick, step
  <2> QED
    BY <1>2, <2>1, FoldExists
<1>8. g \in [SUBSET D -> V] /\ g = FoldStep(g, D, base, pick, step)
  BY <1>7 DEF IsFold
<1>9. \A s \in SUBSET D : s # {} =>
        step[pick[s]][g[s \ {pick[s]}]]
          = IF w[Max(s)] = g[s \ {Max(s)}].slot THEN g[s \ {Max(s)}]
            ELSE [kept |-> Append(g[s \ {Max(s)}].kept, w[Max(s)]),
                  slot |-> IF Len(g[s \ {Max(s)}].kept) = i - 1 THEN w[Max(s)]
                           ELSE g[s \ {Max(s)}].slot]
  <2> TAKE s \in SUBSET D
  <2> HAVE s # {}
  <2>1. pick[s] = Max(s) /\ Max(s) \in D
    BY <1>5
  <2>2. g[s \ {Max(s)}] \in V
    BY <1>8
  <2> HIDE DEF V, D, pick
  <2> QED
    BY <2>1, <2>2
<1>10. FoldStep(g, D, base, pick, step) = EraseStep(g, v, i, w)
  <2>1. FoldStep(g, D, base, pick, step)
          = [s \in SUBSET D |-> IF s = {} THEN base ELSE step[pick[s]][g[s \ {pick[s]}]]]
    BY DEF FoldStep
  <2>2. EraseStep(g, v, i, w)
          = [s \in SUBSET D |-> IF s = {} THEN base ELSE
               IF w[Max(s)] = g[s \ {Max(s)}].slot THEN g[s \ {Max(s)}]
               ELSE [kept |-> Append(g[s \ {Max(s)}].kept, w[Max(s)]),
                     slot |-> IF Len(g[s \ {Max(s)}].kept) = i - 1 THEN w[Max(s)]
                              ELSE g[s \ {Max(s)}].slot]]
    BY DEF EraseStep
  <2> HIDE DEF D, V, base, pick, step
  <2> QED
    BY <1>9, <2>1, <2>2
<1> QED
  BY <1>8, <1>10

\* What a solution says of the first k elements behind the slot
EraseTable(g, v, i, w) ==
  /\ g[{}] = [kept |-> SubSeq(v, 1, i - 1), slot |-> v[i]]
  /\ \A k \in 1..Len(w) :
       g[1..k] = IF w[k] = g[1..(k - 1)].slot THEN g[1..(k - 1)]
                 ELSE [kept |-> Append(g[1..(k - 1)].kept, w[k]),
                       slot |-> IF Len(g[1..(k - 1)].kept) = i - 1 THEN w[k]
                                ELSE g[1..(k - 1)].slot]

LEMMA EraseValues ==
  ASSUME NEW v, NEW i, NEW w, Len(w) \in Nat, NEW g, g = EraseStep(g, v, i, w)
  PROVE  EraseTable(g, v, i, w)
<1>1. EraseStep(g, v, i, w)[{}] = [kept |-> SubSeq(v, 1, i - 1), slot |-> v[i]]
  BY DEF EraseStep
<1>2. ASSUME NEW k \in 1..Len(w)
      PROVE  EraseStep(g, v, i, w)[1..k]
               = IF w[k] = g[1..(k - 1)].slot THEN g[1..(k - 1)]
                 ELSE [kept |-> Append(g[1..(k - 1)].kept, w[k]),
                       slot |-> IF Len(g[1..(k - 1)].kept) = i - 1 THEN w[k]
                                ELSE g[1..(k - 1)].slot]
  <2>1. 1..k \in SUBSET (1..Len(w)) /\ 1..k # {}
    OBVIOUS
  <2>2. Max(1..k) = k /\ (1..k) \ {k} = 1..(k - 1)
    BY MaxFacts
  <2> QED
    BY <2>1, <2>2, Zenon DEF EraseStep
<1>3. \A s : EraseStep(g, v, i, w)[s] = g[s]
  BY Zenon
<1> QED
  BY <1>1, <1>2, <1>3 DEF EraseTable

\* v without the element in slot i
Without(v, i) == SubSeq(v, 1, i - 1) \o SubSeq(v, i + 1, Len(v))

LEMMA WithoutFacts ==
  ASSUME NEW S, NEW v \in Seq(S), IsInjective(v), NEW i \in DOMAIN v
  PROVE  /\ Without(v, i) \in Seq(S) /\ IsInjective(Without(v, i))
         /\ Range(Without(v, i)) = Range(v) \ {v[i]}
<1> DEFINE a == SubSeq(v, 1, i - 1)
           b == SubSeq(v, i + 1, Len(v))
           u == Without(v, i)
           n == Len(v)
<1>1. n \in Nat /\ DOMAIN v = 1..n /\ i \in 1..n /\ \A k \in 1..n : v[k] \in S
  BY LenProperties
<1>2. a \in Seq(S) /\ Len(a) = i - 1 /\ \A k \in 1..(i - 1) : a[k] = v[k]
  <2>1. \A k \in 1..(i - 1) : v[k] \in S
    BY <1>1
  <2> QED
    BY <1>1, <2>1, SubSeqProperties
<1>3. b \in Seq(S) /\ Len(b) = n - i /\ \A k \in 1..(n - i) : b[k] = v[i + k]
  <2>1. \A k \in (i + 1)..n : v[k] \in S
    BY <1>1
  <2>2. b \in Seq(S)
    BY <1>1, <2>1, SubSeqProperties
  <2> QED
    BY <1>1, <2>2, SMTT(30)
<1> HIDE DEF a, b, n
<1>4. u = a \o b
  BY DEF Without, a, b
<1>5. u \in Seq(S) /\ Len(u) = n - 1 /\ DOMAIN u = 1..(n - 1)
  <2>1. u \in Seq(S) /\ Len(u) = Len(a) + Len(b)
    BY <1>2, <1>3, <1>4, ConcatProperties
  <2> QED
    BY <1>1, <1>2, <1>3, <2>1, LenProperties
<1>6. \A k \in 1..(n - 1) : u[k] = IF k < i THEN v[k] ELSE v[k + 1]
  <2>1. \A k \in 1..(n - 1) : u[k] = IF k <= i - 1 THEN a[k] ELSE b[k - (i - 1)]
    <3>1. \A k \in 1..Len(a) + Len(b) :
            (a \o b)[k] = IF k <= Len(a) THEN a[k] ELSE b[k - Len(a)]
      BY <1>2, <1>3, ConcatProperties
    <3> QED
      BY <1>1, <1>2, <1>3, <1>4, <3>1, SMTT(30)
  <2> TAKE k \in 1..(n - 1)
  <2>2. CASE k < i
    BY <1>1, <1>2, <2>1, <2>2
  <2>3. CASE ~(k < i)
    <3>1. k - (i - 1) \in 1..(n - i) /\ i + (k - (i - 1)) = k + 1 /\ ~(k <= i - 1)
      BY <1>1, <2>3
    <3> QED
      BY <1>3, <2>1, <2>3, <3>1
  <2> QED
    BY <2>2, <2>3
<1> HIDE DEF u
<1>7. IsInjective(u)
  <2> SUFFICES ASSUME NEW j \in 1..(n - 1), NEW k \in 1..(n - 1), u[j] = u[k]
               PROVE  j = k
    BY <1>5 DEF IsInjective
  <2> DEFINE at(x) == IF x < i THEN x ELSE x + 1
  <2>1. at(j) \in 1..n /\ at(k) \in 1..n /\ (at(j) = at(k) => j = k)
    BY <1>1
  <2>2. u[j] = v[at(j)] /\ u[k] = v[at(k)]
    BY <1>6
  <2> HIDE DEF at
  <2> QED
    BY <1>1, <2>1, <2>2 DEF IsInjective
<1>8. \A x \in Range(u) : x \in Range(v) \ {v[i]}
  <2> TAKE x \in Range(u)
  <2>1. PICK k \in 1..(n - 1) : x = u[k]
    BY <1>5 DEF Range
  <2>2. PICK j \in 1..n : j # i /\ x = v[j]
    <3>1. CASE k < i
      BY <1>1, <1>6, <2>1, <3>1
    <3>2. CASE ~(k < i)
      BY <1>1, <1>6, <2>1, <3>2
    <3> QED
      BY <3>1, <3>2
  <2> QED
    BY <1>1, <2>2 DEF IsInjective, Range
<1>9. \A x \in Range(v) \ {v[i]} : x \in Range(u)
  <2> TAKE x \in Range(v) \ {v[i]}
  <2>1. PICK j \in 1..n : j # i /\ x = v[j]
    BY <1>1 DEF Range
  <2>2. CASE j < i
    <3>1. j \in 1..(n - 1) /\ u[j] = x
      BY <1>1, <1>6, <2>1, <2>2
    <3> QED
      BY <1>5, <3>1 DEF Range
  <2>3. CASE ~(j < i)
    <3>1. j - 1 \in 1..(n - 1) /\ u[j - 1] = x
      BY <1>1, <1>6, <2>1, <2>3
    <3> QED
      BY <1>5, <3>1 DEF Range
  <2> QED
    BY <2>2, <2>3
<1> QED
  BY <1>5, <1>7, <1>8, <1>9 DEF u

\* Although each removal would move what the predicate compares with, exactly
\* the one element is erased: ids are given out once, so the element that
\* moves into the slot is equal to none behind it.
LEMMA EraseIsWithout ==
  ASSUME NEW S, NEW v \in Seq(S), IsInjective(v), NEW i \in DOMAIN v
  PROVE  Erase(v, i) = Without(v, i)
<1> DEFINE w == SubSeq(v, i + 1, Len(v))
           a == SubSeq(v, 1, i - 1)
           n == Len(w)
           g == EraseFold(v, i, w)
           at(k) == [kept |-> a \o SubSeq(w, 1, k), slot |-> IF k = 0 THEN v[i] ELSE w[1]]
<1>1. Len(v) \in Nat /\ DOMAIN v = 1..Len(v) /\ i \in 1..Len(v)
      /\ \A k \in 1..Len(v) : v[k] \in S
  BY LenProperties
<1>2. w \in Seq(S) /\ n = Len(v) - i /\ \A k \in 1..n : w[k] = v[i + k]
  <2>1. \A k \in (i + 1)..Len(v) : v[k] \in S
    BY <1>1
  <2>2. w \in Seq(S)
    BY <1>1, <2>1, SubSeqProperties
  <2> QED
    BY <1>1, <2>2, SMTT(30)
<1>3. a \in Seq(S) /\ Len(a) = i - 1
  <2>1. \A k \in 1..(i - 1) : v[k] \in S
    BY <1>1
  <2> QED
    BY <1>1, <2>1, SubSeqProperties
<1>4. n \in Nat /\ DOMAIN w = 1..n
  BY <1>1, <1>2, LenProperties
<1>5. g = EraseStep(g, v, i, w)
  <2>1. \E h : h = EraseStep(h, v, i, w)
    BY <1>1, <1>2, EraseExists
  <2> HIDE DEF w
  <2> QED
    BY <2>1 DEF EraseFold
<1> HIDE DEF w, a, n, g
<1>6. /\ g[{}] = [kept |-> a, slot |-> v[i]]
      /\ \A k \in 1..n :
           g[1..k] = IF w[k] = g[1..(k - 1)].slot THEN g[1..(k - 1)]
                     ELSE [kept |-> Append(g[1..(k - 1)].kept, w[k]),
                           slot |-> IF Len(g[1..(k - 1)].kept) = i - 1 THEN w[k]
                                    ELSE g[1..(k - 1)].slot]
  <2>1. Len(w) \in Nat
    BY <1>4 DEF n
  <2>2. EraseTable(g, v, i, w)
    BY <1>5, <2>1, EraseValues
  <2> QED
    BY <2>2 DEF EraseTable, n, a
<1>7. \A k \in 1..n : w[k] # v[i] /\ (k # 1 => w[k] # w[1])
  <2> TAKE k \in 1..n
  <2>1. w[k] = v[i + k] /\ i + k \in 1..Len(v) /\ i + k # i
    BY <1>1, <1>2
  <2>2. k # 1 => w[1] = v[i + 1] /\ i + 1 \in 1..Len(v) /\ i + k # i + 1
    BY <1>1, <1>2
  <2> QED
    BY <1>1, <2>1, <2>2 DEF IsInjective
<1> DEFINE Bad == {k \in 0..n : g[1..k] # at(k)}
<1>8. Bad = {}
  <2> SUFFICES ASSUME Bad # {} PROVE FALSE
    OBVIOUS
  <2>1. PICK k \in Bad : \A m \in Bad : k <= m
    <3>1. Bad \in SUBSET Nat
      BY <1>4
    <3> HIDE DEF Bad
    <3> QED
      BY <3>1, NatLeast
  <2>2. k \in 0..n /\ g[1..k] # at(k)
    BY <2>1
  <2>3. k # 0
    <3>1. g[1..0] = g[{}]
      <4>1. 1..0 = {}
        OBVIOUS
      <4> QED
        BY <4>1
    <3>2. SubSeq(w, 1, 0) = <<>> /\ a \o <<>> = a
      BY <1>3, SubSeqEmpty, ConcatEmptySeq
    <3> QED
      BY <1>6, <2>2, <3>1, <3>2
  <2>4. k \in 1..n /\ k - 1 \in 0..n /\ k - 1 \notin Bad
    <3>1. k \in 1..n /\ k - 1 \in 0..n /\ ~(k <= k - 1)
      BY <1>4, <2>2, <2>3
    <3> HIDE DEF Bad
    <3> QED
      BY <2>1, <3>1
  <2>5. g[1..(k - 1)] = at(k - 1)
    BY <2>4
  <2> HIDE DEF Bad
  <2> DEFINE p == a \o SubSeq(w, 1, k - 1)
  <2>6. /\ SubSeq(w, 1, k - 1) \in Seq(S) /\ Len(SubSeq(w, 1, k - 1)) = k - 1
        /\ SubSeq(w, 1, k) = SubSeq(w, 1, k - 1) \o <<w[k]>> /\ w[k] \in S
    <3>1. k - 1 \in 0..Len(w) /\ 1 \in 1..Len(w) /\ k \in 1..Len(w)
      BY <1>4, <2>4 DEF n
    <3>2. w[k] \in S
      BY <1>2, <3>1, LenProperties
    <3> QED
      BY <1>2, <3>1, <3>2, SplitFirst, SubSeqRecursiveSecond
  <2>7. p \in Seq(S) /\ Len(p) = (i - 1) + (k - 1)
    <3> DEFINE q == SubSeq(w, 1, k - 1)
    <3>1. q \in Seq(S) /\ Len(q) = k - 1
      BY <2>6
    <3> HIDE DEF q
    <3>2. a \o q \in Seq(S) /\ Len(a \o q) = Len(a) + Len(q)
      BY <1>3, <3>1, ConcatProperties
    <3> QED
      BY <1>3, <3>1, <3>2 DEF q
  <2>8. Append(p, w[k]) = a \o SubSeq(w, 1, k)
    <3> DEFINE q == SubSeq(w, 1, k - 1)
    <3>1. <<w[k]>> \in Seq(S)
      BY <2>6
    <3>2. Regroup(a, q, <<w[k]>>)
      BY <1>3, <2>6, <3>1, Associative, Zenon
    <3>3. Append(p, w[k]) = p \o <<w[k]>>
      BY <2>6, <2>7, AppendIsConcat
    <3> QED
      BY <2>6, <3>2, <3>3 DEF Regroup
  <2> HIDE DEF p
  <2>9. g[1..(k - 1)].kept = p /\ g[1..(k - 1)].slot = (IF k = 1 THEN v[i] ELSE w[1])
    BY <1>4, <2>4, <2>5 DEF p
  <2>10. w[k] # g[1..(k - 1)].slot
    BY <1>7, <2>4, <2>9
  <2>11. Len(p) = i - 1 <=> k = 1
    BY <1>1, <2>4, <2>7
  <2>12. g[1..k] = [kept |-> Append(p, w[k]),
                    slot |-> IF Len(p) = i - 1 THEN w[k] ELSE g[1..(k - 1)].slot]
    BY <1>6, <2>4, <2>9, <2>10
  <2>13. g[1..k] = at(k)
    BY <2>3, <2>8, <2>9, <2>11, <2>12
  <2> QED
    BY <2>2, <2>13
<1>9. g[1..n].kept = a \o w
  <2> HIDE DEF at
  <2>1. \A k \in 0..n : g[1..k] = at(k)
    BY <1>8
  <2>2. g[1..n] = at(n)
    BY <1>4, <2>1
  <2>3. SubSeq(w, 1, n) = w
    BY <1>2, SubSeqFull DEF n
  <2>4. at(n).kept = a \o SubSeq(w, 1, n)
    BY DEF at
  <2> QED
    BY <2>2, <2>3, <2>4
<1>10. Erase(v, i) = g[DOMAIN w].kept
  <2>1. DOMAIN SubSeq(v, i + 1, Len(v)) = 1..Len(w)
    BY <1>4 DEF w, n
  <2> QED
    BY <2>1 DEF Erase, FoldLeft, MapThenFoldSet, EraseFold, EraseStep, g, w
<1> QED
  BY <1>4, <1>9, <1>10 DEF Without, a, w

-----------------------------------------------------------------------------
(* One role for each connection                                            *)

\* A vector keeps its ids apart when a new one is added.
LEMMA AppendNew ==
  ASSUME NEW S, NEW v \in Seq(S), IsInjective(v), NEW x \in S, x \notin Range(v)
  PROVE  /\ Append(v, x) \in Seq(S) /\ IsInjective(Append(v, x))
         /\ Range(Append(v, x)) = Range(v) \cup {x}
<1> DEFINE n == Len(v)
           u == Append(v, x)
<1>1. n \in Nat /\ DOMAIN v = 1..n
  BY LenProperties
<1>2. /\ u \in Seq(S) /\ DOMAIN u = 1..(n + 1) /\ u[n + 1] = x
      /\ \A k \in 1..n : u[k] = v[k]
  BY <1>1, AppendProperties, LenProperties
<1> HIDE DEF n, u
<1>3. \A k \in 1..n : v[k] # x
  BY <1>1 DEF Range
<1>4. IsInjective(u)
  <2> SUFFICES ASSUME NEW j \in 1..(n + 1), NEW k \in 1..(n + 1), u[j] = u[k]
               PROVE  j = k
    BY <1>2 DEF IsInjective
  <2>1. CASE j = n + 1 \/ k = n + 1
    BY <1>1, <1>2, <1>3, <2>1
  <2>2. CASE j \in 1..n /\ k \in 1..n
    BY <1>1, <1>2, <2>2 DEF IsInjective
  <2> QED
    BY <1>1, <2>1, <2>2
<1>5. Range(u) = Range(v) \cup {x}
  <2>1. 1..(n + 1) = (1..n) \cup {n + 1}
    BY <1>1
  <2> QED
    BY <1>1, <1>2, <2>1 DEF Range
<1> QED
  BY <1>2, <1>4, <1>5 DEF u

\* f with one more entry
Extended(f, n, c) ==
  [s \in DOMAIN f \cup {n} |-> IF s \in DOMAIN f THEN f[s] ELSE c]

\* So does the map of the clients.
NewEntry(f, n, c) == n \notin DOMAIN f /\ IsInjective(f) /\ c \notin Range(f)

EntryAdded(f, n, c, g) ==
  /\ IsInjective(g)
  /\ Range(g) = Range(f) \cup {c}
  /\ DOMAIN g = DOMAIN f \cup {n}

LEMMA EmplaceNew ==
  ASSUME NEW n, NEW f, NEW c, NewEntry(f, n, c)
  PROVE  EntryAdded(f, n, c, Extended(f, n, c))
<1> DEFINE g == Extended(f, n, c)
<1>1. /\ DOMAIN g = DOMAIN f \cup {n} /\ g[n] = c
      /\ \A s \in DOMAIN f : g[s] = f[s]
  BY DEF Extended, NewEntry
<1>2. \A s \in DOMAIN f : f[s] # c
  BY DEF Range, NewEntry
<1> HIDE DEF g
<1>3. IsInjective(g)
  BY <1>1, <1>2 DEF IsInjective, NewEntry
<1>4. Range(g) = Range(f) \cup {c}
  BY <1>1 DEF Range
<1> QED
  BY <1>1, <1>3, <1>4 DEF g, EntryAdded

\* The subjects are no more than the ids that have been given out.
LEMMA CountBound ==
  ASSUME NEW n \in Nat, NEW m \in Nat, NEW f, DOMAIN f = 0..(n - 1), f = [s \in DOMAIN f |-> f[s]],
         IsInjective(f), Range(f) \subseteq 0..(m - 1)
  PROVE  n <= m
<1>1. f \in Injection(0..(n - 1), 0..(m - 1))
  BY DEF Injection, Range
<1>2. /\ IsFiniteSet(0..(m - 1))
      /\ Cardinality(0..(n - 1)) = n /\ Cardinality(0..(m - 1)) = m
  <2>1. \A k \in Nat : IsFiniteSet(0..(k - 1)) /\ Cardinality(0..(k - 1)) = k
    <3> TAKE k \in Nat
    <3>1. 0 \in Int /\ k - 1 \in Int
      OBVIOUS
    <3>2. /\ IsFiniteSet(0..(k - 1))
          /\ Cardinality(0..(k - 1)) = IF 0 > k - 1 THEN 0 ELSE (k - 1) - 0 + 1
      BY <3>1, FS_Interval, Zenon
    <3> QED
      BY <3>2
  <2> QED
    BY <2>1
<1>3. Cardinality(0..(n - 1)) <= Cardinality(0..(m - 1))
  BY <1>1, <1>2, FS_Injection
<1> QED
  BY <1>2, <1>3

\* What keeps the books in order: erasing works because the ids in a vector
\* differ; whoever has a role has asked for it; after Stop nothing comes in.
RegistryInvariant ==
  /\ BooksAgree
  /\ TypeOK
  /\ OneRole
  /\ IsInjective(connections)
  /\ stopped => connections = <<>> /\ ~accepting
  /\ ~stopped => \A c \in Subjects \cup Range(admins) : asks[c] >= 1

LEMMA RegistryInit == Init => RegistryInvariant
<1> SUFFICES ASSUME Init PROVE RegistryInvariant
  OBVIOUS
<1>1. /\ connections = <<>> /\ clients = <<>> /\ admins = <<>>
      /\ DOMAIN <<>> = {}
  BY DEF Init
<1>2. Range(<<>>) = {} /\ IsInjective(<<>>)
  BY <1>1 DEF Range, IsInjective
<1>3. TypeOK
  <2>1. <<>> \in Seq(0..(next_id - 1))
    BY EmptySeq
  <2>2. asks \in [Connections -> 0..MaxAsks]
    BY BoundsAssumption DEF Init
  <2>3. next_id = 0 /\ n_subjects = 0 /\ next_id \in 0..MaxConnections
    BY BoundsAssumption DEF Init
  <2>4. /\ accepting \in BOOLEAN /\ stopped \in BOOLEAN /\ up \in BOOLEAN /\ lost \in BOOLEAN
        /\ reading = {} /\ console = "Idle"
    BY DEF Init
  <2>5. Subjects = {}
    BY <1>1, <1>2 DEF Subjects
  <2> QED
    BY <1>1, <2>1, <2>2, <2>3, <2>4, <2>5 DEF TypeOK
<1>4. BooksAgree
  BY <1>1 DEF Init, BooksAgree, SubjectsReachable
<1> QED
  BY <1>1, <1>2, <1>3, <1>4 DEF Init, RegistryInvariant, OneRole, Subjects

\* The facts about the vectors and maps that the steps below need.
LEMMA RegistryFacts ==
  ASSUME RegistryInvariant
  PROVE  /\ next_id \in Nat /\ next_id <= MaxConnections
         /\ connections \in Seq(0..(next_id - 1)) /\ admins \in Seq(0..(next_id - 1))
         /\ Range(connections) \subseteq 0..(next_id - 1)
         /\ Range(admins) \subseteq 0..(next_id - 1)
         /\ Subjects \subseteq 0..(next_id - 1)
         /\ reading \subseteq Connections
         /\ n_subjects \in Nat
<1>1. /\ next_id \in 0..MaxConnections
      /\ connections \in Seq(0..(next_id - 1)) /\ admins \in Seq(0..(next_id - 1))
      /\ Subjects \subseteq 0..(next_id - 1) /\ reading \subseteq 0..(next_id - 1)
      /\ n_subjects \in 0..next_id
  BY DEF RegistryInvariant, TypeOK
<1>2. Range(connections) \subseteq 0..(next_id - 1) /\ Range(admins) \subseteq 0..(next_id - 1)
  BY <1>1, RangeOfSeq
<1> QED
  BY <1>1, <1>2, BoundsAssumption DEF Connections

\* A request is counted; nobody's count goes down.
LEMMA AskedFacts ==
  ASSUME RegistryInvariant, NEW c \in reading, Asks(c)
  PROVE  /\ asks' \in [Connections -> 0..MaxAsks]
         /\ asks'[c] >= 1
         /\ asks[c] >= 1 => asks'[c] > 1
         /\ \A d \in Connections : asks[d] >= 1 => asks'[d] >= 1
         /\ c \in Connections
<1>1. c \in Connections /\ asks \in [Connections -> 0..MaxAsks] /\ MaxAsks \in Nat
  BY RegistryFacts, BoundsAssumption DEF RegistryInvariant, TypeOK
<1>2. asks' = [asks EXCEPT ![c] = @ + 1] /\ asks[c] < MaxAsks
  BY DEF Asks
<1>3. /\ \A d \in Connections : asks'[d] = IF d = c THEN asks[c] + 1 ELSE asks[d]
      /\ \A d \in Connections : asks[d] \in 0..MaxAsks
      /\ DOMAIN asks' = Connections
  BY <1>1, <1>2
<1>4. asks' \in [Connections -> 0..MaxAsks]
  BY <1>1, <1>2
<1> QED
  BY <1>1, <1>2, <1>3, <1>4

LEMMA AcceptKeeps ==
  ASSUME RegistryInvariant, Accept
  PROVE  RegistryInvariant'
<1> DEFINE S == 0..(next_id - 1)
           T == 0..(next_id' - 1)
<1>1. /\ next_id \in Nat /\ next_id < MaxConnections /\ next_id' = next_id + 1
      /\ MaxConnections \in Nat
      /\ UNCHANGED <<accepting, clients, admins, n_subjects, console, stopped, lost, asks>>
      /\ up' \in BOOLEAN
  BY RegistryFacts, BoundsAssumption DEF Accept, RegistryInvariant, TypeOK
<1>2. S \subseteq T /\ next_id \in T /\ next_id \notin S
      /\ next_id' \in 0..MaxConnections /\ n_subjects \in 0..next_id'
  BY <1>1 DEF RegistryInvariant, TypeOK
<1>3. connections \in Seq(T) /\ admins \in Seq(T) /\ Subjects \subseteq T /\ reading \subseteq T
  <2>1. connections \in Seq(S) /\ admins \in Seq(S) /\ Subjects \subseteq S /\ reading \subseteq S
    BY DEF RegistryInvariant, TypeOK
  <2> HIDE DEF S, T
  <2> QED
    BY <1>2, <2>1, SeqMonotonic
<1>4. next_id \notin Range(connections) \cup Subjects \cup Range(admins)
  BY <1>2, RegistryFacts
<1>5. IsInjective(connections)
  BY DEF RegistryInvariant
<1>6. CASE accepting /\ ~lost
  <2>1. connections' = Append(connections, next_id) /\ reading' = reading \cup {next_id}
    BY <1>6 DEF Accept
  <2>2. /\ connections' \in Seq(T) /\ IsInjective(connections')
        /\ Range(connections') = Range(connections) \cup {next_id}
    <3> HIDE DEF T
    <3> QED
      BY <1>2, <1>3, <1>4, <1>5, <2>1, AppendNew
  <2>3. TypeOK'
    BY <1>1, <1>2, <1>3, <2>1, <2>2 DEF RegistryInvariant, TypeOK, Subjects
  <2>4. OneRole'
    BY <1>1, <1>4, <2>1, <2>2 DEF RegistryInvariant, OneRole, Subjects
  <2>5. ~stopped
    BY <1>6 DEF RegistryInvariant
  <2> QED
    BY <1>1, <2>2, <2>3, <2>4, <2>5
    DEF RegistryInvariant, BooksAgree, SubjectsReachable, Subjects
<1>7. CASE ~accepting \/ lost
  <2>1. UNCHANGED <<connections, reading>>
    BY <1>7 DEF Accept
  <2>2. TypeOK'
    BY <1>1, <1>2, <1>3, <2>1 DEF RegistryInvariant, TypeOK, Subjects
  <2> QED
    BY <1>1, <2>1, <2>2
    DEF RegistryInvariant, BooksAgree, SubjectsReachable, Subjects, OneRole
<1> QED
  BY <1>6, <1>7

\* The one who asks moves from connections_ to admins_.
LEMMA AddAdminKeeps ==
  ASSUME RegistryInvariant, NEW c \in reading, AddAdmin(c)
  PROVE  RegistryInvariant'
<1> DEFINE S == 0..(next_id - 1)
<1>1. PICK i \in DOMAIN connections :
        /\ connections[i] = c
        /\ admins' = Append(admins, c)
        /\ connections' = Erase(connections, i)
  BY DEF AddAdmin
<1>2. /\ Asks(c)
      /\ UNCHANGED <<next_id, accepting, clients, n_subjects, reading, console, stopped, up,
                     lost>>
  BY DEF AddAdmin
<1>3. ~stopped /\ IsInjective(connections) /\ OneRole /\ TypeOK
  <2>1. connections # <<>>
    BY <1>1
  <2> QED
    BY <2>1 DEF RegistryInvariant
<1>4. connections \in Seq(S) /\ admins \in Seq(S)
  BY RegistryFacts
<1>5. c \in Range(connections) /\ c \in S
  <2>1. c \in Range(connections)
    BY <1>1 DEF Range
  <2> QED
    BY <2>1, RegistryFacts
<1>6. c \notin Range(admins) /\ c \notin Subjects /\ IsInjective(admins)
  BY <1>3, <1>5 DEF OneRole
<1> HIDE DEF S
<1>7. /\ connections' \in Seq(S) /\ IsInjective(connections')
      /\ Range(connections') = Range(connections) \ {c}
  BY <1>1, <1>3, <1>4, EraseIsWithout, WithoutFacts
<1>8. /\ admins' \in Seq(S) /\ IsInjective(admins')
      /\ Range(admins') = Range(admins) \cup {c}
  BY <1>1, <1>4, <1>5, <1>6, AppendNew
<1>9. /\ asks' \in [Connections -> 0..MaxAsks] /\ asks'[c] >= 1
      /\ \A d \in Connections : asks[d] >= 1 => asks'[d] >= 1
  BY <1>2, AskedFacts
<1>10. TypeOK'
  BY <1>2, <1>3, <1>7, <1>8, <1>9 DEF TypeOK, Subjects, S
<1>11. OneRole'
  BY <1>2, <1>3, <1>5, <1>6, <1>7, <1>8 DEF OneRole, Subjects
<1>12. \A d \in (Subjects \cup Range(admins))' : asks'[d] >= 1
  <2>1. (Subjects \cup Range(admins))' = Subjects \cup Range(admins) \cup {c}
    BY <1>2, <1>8 DEF Subjects
  <2>2. \A d \in Subjects \cup Range(admins) : d \in Connections /\ asks[d] >= 1
    <3>1. \A d \in 0..(next_id - 1) : d \in Connections
      BY RegistryFacts, BoundsAssumption DEF Connections
    <3> QED
      BY <1>3, <3>1, RegistryFacts DEF RegistryInvariant
  <2> QED
    BY <1>9, <2>1, <2>2
<1> QED
  BY <1>2, <1>3, <1>7, <1>10, <1>11, <1>12
  DEF RegistryInvariant, BooksAgree, SubjectsReachable

\* The one who asks moves from connections_ to clients_, as the next subject.
LEMMA AcceptSubjectKeeps ==
  ASSUME RegistryInvariant, NEW c \in reading, AcceptSubject(c)
  PROVE  RegistryInvariant'
<1> DEFINE S == 0..(next_id - 1)
<1>1. PICK i \in DOMAIN connections :
        /\ connections[i] = c
        /\ clients' = Extended(clients, n_subjects, c)
        /\ connections' = Erase(connections, i)
  BY DEF AcceptSubject, Extended
<1>2. /\ Asks(c) /\ n_subjects' = n_subjects + 1
      /\ UNCHANGED <<next_id, accepting, admins, reading, console, stopped, up, lost>>
  BY DEF AcceptSubject
<1>3. ~stopped /\ IsInjective(connections) /\ OneRole /\ TypeOK /\ BooksAgree
  <2>1. connections # <<>>
    BY <1>1
  <2> QED
    BY <2>1 DEF RegistryInvariant
<1>4. connections \in Seq(S) /\ admins \in Seq(S) /\ Subjects \subseteq S
      /\ next_id \in Nat /\ n_subjects \in Nat
  BY RegistryFacts
<1>5. c \in Range(connections) /\ c \in S
  <2>1. c \in Range(connections)
    BY <1>1 DEF Range
  <2> QED
    BY <2>1, RegistryFacts
<1>6. c \notin Range(admins) /\ c \notin Range(clients) /\ IsInjective(clients)
  BY <1>3, <1>5 DEF OneRole, Subjects
<1>7. DOMAIN clients = 0..(n_subjects - 1) /\ n_subjects \notin DOMAIN clients
  BY <1>3, <1>4 DEF BooksAgree, SubjectsReachable
<1> HIDE DEF S
<1>8. /\ connections' \in Seq(S) /\ IsInjective(connections')
      /\ Range(connections') = Range(connections) \ {c}
  BY <1>1, <1>3, <1>4, EraseIsWithout, WithoutFacts
<1>9. /\ IsInjective(clients') /\ Range(clients') = Range(clients) \cup {c}
      /\ DOMAIN clients' = DOMAIN clients \cup {n_subjects}
  <2>1. NewEntry(clients, n_subjects, c)
    BY <1>6, <1>7 DEF NewEntry
  <2>2. EntryAdded(clients, n_subjects, c, Extended(clients, n_subjects, c))
    BY <2>1, EmplaceNew
  <2> QED
    BY <1>1, <2>2 DEF EntryAdded
<1>10. DOMAIN clients' = 0..(n_subjects' - 1)
  BY <1>2, <1>4, <1>7, <1>9
<1>11. Range(clients') \subseteq S
  BY <1>4, <1>5, <1>9 DEF Subjects
<1>12. n_subjects' \in 0..next_id
  <2>1. clients' = [s \in DOMAIN clients' |-> clients'[s]]
    BY <1>1 DEF Extended
  <2>2. n_subjects' \in Nat
    BY <1>2, <1>4
  <2>3. n_subjects' <= next_id
    BY <1>4, <1>9, <1>10, <1>11, <2>1, <2>2, CountBound DEF S
  <2> QED
    BY <1>4, <2>2, <2>3
<1>13. /\ asks' \in [Connections -> 0..MaxAsks] /\ asks'[c] >= 1
       /\ \A d \in Connections : asks[d] >= 1 => asks'[d] >= 1
  BY <1>2, AskedFacts
<1>14. TypeOK'
  BY <1>2, <1>3, <1>8, <1>11, <1>12, <1>13 DEF TypeOK, Subjects, S
<1>15. OneRole'
  BY <1>2, <1>3, <1>5, <1>6, <1>8, <1>9 DEF OneRole, Subjects
<1>16. \A d \in (Subjects \cup Range(admins))' : asks'[d] >= 1
  <2>1. (Subjects \cup Range(admins))' = Subjects \cup Range(admins) \cup {c}
    BY <1>2, <1>9 DEF Subjects
  <2>2. \A d \in Subjects \cup Range(admins) : d \in Connections /\ asks[d] >= 1
    <3>1. \A d \in 0..(next_id - 1) : d \in Connections
      BY RegistryFacts, BoundsAssumption DEF Connections
    <3> QED
      BY <1>3, <3>1, RegistryFacts DEF RegistryInvariant
  <2> QED
    BY <1>13, <2>1, <2>2
<1>17. BooksAgree'
  BY <1>2, <1>4, <1>10 DEF BooksAgree, SubjectsReachable
<1> QED
  BY <1>2, <1>3, <1>8, <1>14, <1>15, <1>16, <1>17 DEF RegistryInvariant

\* A step that leaves the books as they are, or goes down.
LEMMA BooksKept ==
  ASSUME RegistryInvariant,
         UNCHANGED <<next_id, connections, clients, admins, n_subjects, stopped>>,
         accepting' \in BOOLEAN, up' \in BOOLEAN, lost' \in BOOLEAN,
         stopped => accepting' = accepting,
         console' \in {"Idle", "SendAll", "Send", "Stop"},
         reading' \subseteq reading,
         UNCHANGED asks \/ \E c \in reading : Asks(c)
  PROVE  RegistryInvariant'
<1>1. /\ asks' \in [Connections -> 0..MaxAsks]
      /\ \A d \in Connections : asks[d] >= 1 => asks'[d] >= 1
  <2>1. CASE UNCHANGED asks
    BY <2>1 DEF RegistryInvariant, TypeOK
  <2>2. CASE \E c \in reading : Asks(c)
    BY <2>2, AskedFacts
  <2> QED
    BY <2>1, <2>2
<1>2. \A d \in Subjects \cup Range(admins) : d \in Connections
  <2>1. \A d \in 0..(next_id - 1) : d \in Connections
    BY RegistryFacts, BoundsAssumption DEF Connections
  <2> QED
    BY <2>1, RegistryFacts
<1>3. TypeOK'
  BY <1>1 DEF RegistryInvariant, TypeOK, Subjects
<1>4. OneRole'
  BY DEF RegistryInvariant, OneRole, Subjects
<1>5. BooksAgree'
  BY DEF RegistryInvariant, BooksAgree, SubjectsReachable
<1>6. (~stopped => \A c \in Subjects \cup Range(admins) : asks[c] >= 1)'
  BY <1>1, <1>2 DEF RegistryInvariant, Subjects
<1> QED
  BY <1>3, <1>4, <1>5, <1>6 DEF RegistryInvariant

LEMMA StopKeeps ==
  ASSUME RegistryInvariant, Stop
  PROVE  RegistryInvariant'
<1>1. /\ stopped' = TRUE /\ accepting' = FALSE /\ console' = "Idle"
      /\ connections' = <<>> /\ clients' = <<>>
      /\ UNCHANGED <<next_id, admins, n_subjects, reading, up, lost, asks>>
  BY DEF Stop
<1>2. DOMAIN <<>> = {} /\ <<>> \in Seq(0..(next_id - 1))
  BY EmptySeq
<1>3. IsInjective(connections') /\ Range(clients') = {}
  BY <1>1, <1>2 DEF IsInjective, Range
<1>4. TypeOK'
  BY <1>1, <1>2, <1>3 DEF RegistryInvariant, TypeOK, Subjects
<1> QED
  BY <1>1, <1>3, <1>4
  DEF RegistryInvariant, OneRole, BooksAgree, SubjectsReachable

LEMMA RegistryStep ==
  ASSUME RegistryInvariant, [Next]_vars
  PROVE  RegistryInvariant'
<1>1. /\ accepting \in BOOLEAN /\ up \in BOOLEAN /\ lost \in BOOLEAN
      /\ console \in {"Idle", "SendAll", "Send", "Stop"}
  BY DEF RegistryInvariant, TypeOK
<1>2. GoDown => /\ UNCHANGED <<next_id, connections, clients, admins, n_subjects, stopped,
                               accepting, console, reading, lost>>
                /\ up' \in BOOLEAN
  BY DEF GoDown, books
<1>3. CASE Accept
  BY <1>3, AcceptKeeps
<1>4. CASE \E c \in reading : AddAdmin(c)
  BY <1>4, AddAdminKeeps
<1>5. CASE \E c \in reading : AcceptSubject(c)
  BY <1>5, AcceptSubjectKeeps
<1>6. CASE Stop
  BY <1>6, StopKeeps
<1>7. CASE Race
  <2>1. GoDown /\ (UNCHANGED asks \/ \E c \in reading : Asks(c))
    BY <1>7 DEF Race
  <2> QED
    BY <1>1, <1>2, <2>1, BooksKept
<1>8. CASE SendToSubject
  <2>1. GoDown /\ UNCHANGED asks
    BY <1>8 DEF SendToSubject
  <2> QED
    BY <1>1, <1>2, <2>1, BooksKept
<1>9. CASE AbortedRead
  <2>1. /\ UNCHANGED <<next_id, connections, clients, admins, n_subjects, stopped,
                       accepting, console, lost, asks>>
        /\ up' \in BOOLEAN /\ reading' \subseteq reading
    BY <1>1, <1>2, <1>9 DEF AbortedRead, books
  <2> QED
    BY <1>1, <2>1, BooksKept
<1>10. CASE \E c \in reading : AddNobody(c)
  <2>1. GoDown /\ (\E c \in reading : Asks(c))
    BY <1>10 DEF AddNobody
  <2> QED
    BY <1>1, <1>2, <2>1, BooksKept
<1>11. CASE \E c \in reading : Hangup(c)
  <2>1. /\ UNCHANGED <<next_id, connections, clients, admins, n_subjects, stopped,
                       accepting, console, up, lost, asks>>
        /\ reading' \subseteq reading
    BY <1>11 DEF Hangup, books
  <2> QED
    BY <1>1, <2>1, BooksKept
<1>12. CASE SetAccepting
  <2>1. /\ UNCHANGED <<next_id, connections, clients, admins, n_subjects, stopped,
                       console, up, lost, asks, reading>>
        /\ ~stopped /\ accepting' \in BOOLEAN
    BY <1>1, <1>12 DEF SetAccepting
  <2> QED
    BY <1>1, <2>1, BooksKept
<1>13. CASE Command \/ Sent
  <2>1. /\ UNCHANGED <<next_id, connections, clients, admins, n_subjects, stopped,
                       accepting, up, lost, asks, reading>>
        /\ console' \in {"Idle", "SendAll", "Send", "Stop"}
    BY <1>13 DEF Command, Sent, books
  <2> QED
    BY <1>1, <2>1, BooksKept
<1>14. CASE SentToNobody
  <2>1. GoDown /\ UNCHANGED asks
    BY <1>14 DEF SentToNobody
  <2> QED
    BY <1>1, <1>2, <2>1, BooksKept
<1>15. CASE PeerResets
  <2>1. /\ UNCHANGED <<next_id, connections, clients, admins, n_subjects, stopped,
                       accepting, console, up, asks, reading>>
        /\ lost' \in BOOLEAN
    BY <1>15 DEF PeerResets, books
  <2> QED
    BY <1>1, <2>1, BooksKept
<1>16. CASE UNCHANGED vars
  BY <1>1, <1>16, BooksKept DEF vars, books
<1> QED
  BY <1>3, <1>4, <1>5, <1>6, <1>7, <1>8, <1>9, <1>10, <1>11, <1>12, <1>13, <1>14, <1>15,
     <1>16
  DEF Next, IoThread, Console

LEMMA RegistryInvariantHolds == Spec => []RegistryInvariant
<1>1. RegistryInvariant /\ [Next]_vars => RegistryInvariant'
  BY RegistryStep
<1> QED
  BY <1>1, RegistryInit, PTL DEF Spec

\* Every id in the books and every outstanding read is of a connection that
\* has been accepted, and there are no more subjects than connections.
THEOREM RegistryTypes == Spec => []TypeOK
<1>1. RegistryInvariant => TypeOK
  BY DEF RegistryInvariant
<1> QED
  BY <1>1, RegistryInvariantHolds, PTL

\* Until Stop has returned, a connection that the server reads from is waiting,
\* a subject or an admin, and only one of them and only once, although
\* std::erase_if compares with an element of the vector it is compacting.
THEOREM RegistryOneRole == Spec => []OneRole
<1>1. RegistryInvariant => OneRole
  BY DEF RegistryInvariant
<1> QED
  BY <1>1, RegistryInvariantHolds, PTL

\* What takes the server down is the console, a stop, a client that asks for a
\* role again, or accepting a connection that has been reset.
LEMMA DownStep ==
  ASSUME RegistryInvariant, [Next]_vars
  PROVE  [up' # up => \/ stopped \/ console # "Idle"
                      \/ \E c \in Connections : asks'[c] > 1
                      \/ lost /\ next_id' # next_id]_vars
<1> SUFFICES ASSUME up' # up, ~stopped, console = "Idle", ~(lost /\ next_id' # next_id)
             PROVE  \E c \in Connections : asks'[c] > 1
  OBVIOUS
<1>1. BooksAgree /\ OneRole
  BY DEF RegistryInvariant
<1>2. \/ SendToSubject \/ AbortedRead \/ Race \/ SentToNobody
      \/ \E c \in reading : AddNobody(c)
  <2>1. ~Accept
    <3>1. next_id \in Nat
      BY RegistryFacts
    <3> QED
      BY <3>1 DEF Accept
  <2> QED
    BY <2>1 DEF Next, IoThread, Console, AddAdmin, AcceptSubject, Hangup, SetAccepting,
       Command, Sent, Stop, PeerResets, vars
<1>3. ~SendToSubject
  <2>1. DOMAIN clients = 0..(n_subjects - 1)
    BY <1>1 DEF BooksAgree, SubjectsReachable
  <2> QED
    BY <2>1 DEF SendToSubject
<1>4. ~AbortedRead /\ ~Race /\ ~SentToNobody
  BY DEF AbortedRead, Race, SentToNobody
<1>5. PICK c \in reading : AddNobody(c)
  BY <1>2, <1>3, <1>4
<1>6. Asks(c) /\ c \notin Range(connections)
  BY <1>5 DEF AddNobody, Range
<1>7. c \in Subjects \cup Range(admins)
  BY <1>1, <1>6 DEF OneRole
<1>8. asks[c] >= 1
  BY <1>7 DEF RegistryInvariant
<1> QED
  BY <1>6, <1>8, AskedFacts

\* As long as nobody uses the console and no client asks for a role twice, the
\* server stays up until it is stopped or accepts a connection that its peer
\* has already reset.
THEOREM RegistryStaysUp == Spec => StaysUp
<1>1. RegistryInvariant /\ [Next]_vars
        => [up' # up => \/ stopped \/ console # "Idle"
                        \/ \E c \in Connections : asks'[c] > 1
                        \/ lost /\ next_id' # next_id]_vars
  BY DownStep
<1> QED
  BY <1>1, RegistryInvariantHolds, PTL DEF Spec, StaysUp

=============================================================================
