------------------------ MODULE TaskSchedulerProofs ------------------------
(***************************************************************************)
(* Proofs about TaskScheduler: the multiset stays ordered, whatever happens *)
(* to the tasks in it, and every scheduled run is had, awaited or cancelled.*)
(***************************************************************************)
EXTENDS TaskScheduler, FiniteSetTheorems, SequenceTheorems, WellFoundedInduction, TLAPS

Distinct(q) == \A i, j \in DOMAIN q : q[i] = q[j] => i = j
Sorted(q, end) == \A i, j \in DOMAIN q : i <= j => end[q[i]] <= end[q[j]]

\* A holder of tasks of T, each once, in the order of their ends.
Lined(q, T, end) == q \in Seq(T) /\ Distinct(q) /\ Sorted(q, end)

-----------------------------------------------------------------------------
(***************************************************************************)
(* TaskQueue                                                               *)
(***************************************************************************)

LEMMA Least ==
    ASSUME NEW T \in SUBSET Nat, T # {}
    PROVE  \E m \in T : \A k \in T : m <= k
<1> DEFINE R == {ss \in Nat \X Nat : ss[1] < ss[2]}
<1>1. IsWellFoundedOn(R, Nat)
  BY ONLY NatLessThanWellFounded DEF OpToRel
<1>2. \A y, z \in Nat : y < z => <<y, z>> \in R
  OBVIOUS
<1> HIDE DEF R
<1>3. PICK x \in T : \A y \in T : ~(<<y, x>> \in R)
  BY <1>1, WFMin, Zenon
<1>4. \A y \in T : ~(y < x)
  BY <1>2, <1>3
<1> QED
  BY <1>4

LEMMA MembersIn ==
    ASSUME NEW T, NEW q \in Seq(T)
    PROVE  /\ Len(q) \in Nat /\ DOMAIN q = 1 .. Len(q)
           /\ Members(q) = {q[k] : k \in 1 .. Len(q)} /\ Members(q) \subseteq T
  BY DEF Members

\* p is q with t behind its first n tasks, which end no later, before one that ends later.
Between(p, q, t, n, end) ==
    /\ n \in 0 .. Len(q) /\ Len(p) = Len(q) + 1
    /\ \A k \in 1 .. n : end[q[k]] <= end[t]
    /\ n < Len(q) => end[q[n + 1]] > end[t]
    /\ \A i \in 1 .. Len(q) + 1 :
          p[i] = IF i <= n THEN q[i] ELSE IF i = n + 1 THEN t ELSE q[i - 1]

LEMMA BetweenLined ==
    ASSUME NEW T, NEW end \in [T -> Nat], NEW q, Lined(q, T, end), NEW t \in T, t \notin Members(q),
           NEW n, NEW p \in Seq(T), Between(p, q, t, n, end)
    PROVE  Lined(p, T, end) /\ Members(p) = Members(q) \cup {t}
<1> DEFINE L == Len(q)
<1> USE DEF Between
<1>1. /\ q \in Seq(T) /\ L \in Nat /\ DOMAIN q = 1 .. L /\ DOMAIN p = 1 .. L + 1
      /\ \A i \in 1 .. L : q[i] \in T
  BY MembersIn DEF Lined
<1>2. \A i, j \in 1 .. L : (q[i] = q[j] => i = j) /\ (i <= j => end[q[i]] <= end[q[j]])
  BY <1>1 DEF Lined, Distinct, Sorted
<1>3. \A i \in 1 .. L : q[i] # t
  BY <1>1 DEF Members
<1>4. /\ n \in 0 .. L /\ p[n + 1] = t /\ n + 1 \in 1 .. L + 1
      /\ \A i \in 1 .. L + 1 : i <= n => i \in 1 .. L /\ p[i] = q[i]
      /\ \A i \in 1 .. L + 1 : i > n + 1 => i - 1 \in n + 1 .. L /\ i - 1 \in 1 .. L /\ p[i] = q[i - 1]
  BY <1>1
<1>5. \A i \in 1 .. L : end[q[i]] \in Nat
  BY <1>1
<1>6. end[t] \in Nat
  OBVIOUS
<1>7. \A i \in n + 1 .. L : end[t] < end[q[i]]
  BY <1>1, <1>2, <1>5, <1>6
<1>8. \A i \in 1 .. n : end[q[i]] <= end[t]
  OBVIOUS
<1> HIDE DEF L
<1>9. ASSUME NEW i \in 1 .. L + 1, NEW j \in 1 .. L + 1, i < j
      PROVE  p[i] # p[j] /\ end[p[i]] <= end[p[j]]
  <2>1. CASE j <= n
    BY <2>1, <1>9, <1>1, <1>2, <1>4
  <2>2. CASE j = n + 1
    <3>1. i \in 1 .. n /\ i \in 1 .. L /\ p[i] = q[i] /\ p[j] = t
      BY <2>2, <1>9, <1>1, <1>4
    <3> QED
      BY <3>1, <1>3, <1>8
  <2>3. CASE j > n + 1
    <3>1. CASE i <= n
      <4>1. i \in 1 .. L /\ p[i] = q[i] /\ j - 1 \in 1 .. L /\ p[j] = q[j - 1]
        BY <3>1, <2>3, <1>4
      <4>2. i <= j - 1 /\ i # j - 1
        BY <3>1, <2>3, <1>1, <1>4
      <4>3. q[i] # q[j - 1] /\ end[q[i]] <= end[q[j - 1]]
        BY <4>1, <4>2, <1>2
      <4> QED
        BY <4>1, <4>3
    <3>2. CASE i = n + 1
      <4>1. p[i] = t /\ j - 1 \in n + 1 .. L /\ j - 1 \in 1 .. L /\ p[j] = q[j - 1]
        BY <3>2, <2>3, <1>4
      <4>2. end[t] < end[q[j - 1]] /\ q[j - 1] # t /\ end[q[j - 1]] \in Nat
        BY <4>1, <1>3, <1>5, <1>7
      <4> QED
        BY <4>1, <4>2, <1>6
    <3>3. CASE i > n + 1
      <4>1. i - 1 \in 1 .. L /\ j - 1 \in 1 .. L /\ i - 1 <= j - 1 /\ i - 1 # j - 1
        BY <3>3, <2>3, <1>9, <1>1, <1>4
      <4> QED
        <5>1. q[i - 1] # q[j - 1] /\ end[q[i - 1]] <= end[q[j - 1]]
          BY <4>1, <1>2
        <5> QED
          BY <5>1, <3>3, <2>3, <1>4
    <3> QED
      BY <1>1, <1>4, <3>1, <3>2, <3>3
  <2> QED
    BY <1>1, <1>4, <2>1, <2>2, <2>3
<1>10. Lined(p, T, end)
  <2>1. ASSUME NEW i \in 1 .. L + 1, NEW j \in 1 .. L + 1
        PROVE  (p[i] = p[j] => i = j) /\ (i <= j => end[p[i]] <= end[p[j]])
    <3>1. i < j \/ j < i \/ i = j
      BY <1>1
    <3>2. i = j => end[p[i]] <= end[p[j]]
      <4>1. p[i] \in T
        BY <1>1
      <4> QED
        BY <4>1
    <3>3. i <= j => i < j \/ i = j
      BY <1>1
    <3> QED
      BY <3>1, <3>2, <3>3, <1>9
  <2> QED
    BY <1>1, <2>1 DEF Lined, Distinct, Sorted
<1>11. Members(p) = Members(q) \cup {t}
  <2>1. ASSUME NEW i \in 1 .. L + 1 PROVE p[i] \in Members(q) \cup {t}
    <3>1. CASE i <= n
      BY <3>1, <1>1, <1>4 DEF Members
    <3>2. CASE i = n + 1
      BY <3>2, <1>4
    <3>3. CASE i > n + 1
      BY <3>3, <1>1, <1>4 DEF Members
    <3> QED
      BY <1>1, <1>4, <3>1, <3>2, <3>3
  <2>2. ASSUME NEW i \in 1 .. L PROVE \E j \in 1 .. L + 1 : p[j] = q[i]
    <3>1. CASE i <= n
      <4>1. i \in 1 .. L + 1
        BY <1>1
      <4> QED
        BY <4>1, <3>1, <1>4
    <3>2. CASE i > n
      <4>1. i + 1 \in 1 .. L + 1 /\ i + 1 > n + 1 /\ (i + 1) - 1 = i
        BY <3>2, <1>1, <1>4
      <4> QED
        BY <4>1, <1>4
    <3> QED
      BY <1>1, <1>4, <3>1, <3>2
  <2>3. ASSUME NEW u PROVE /\ u \in Members(p) <=> \E i \in 1 .. L + 1 : p[i] = u
                           /\ u \in Members(q) <=> \E i \in 1 .. L : q[i] = u
    BY <1>1 DEF Members
  <2>4. Members(p) \subseteq Members(q) \cup {t}
    BY <2>1, <2>3
  <2>5. Members(q) \cup {t} \subseteq Members(p)
    BY <1>4, <2>2, <2>3
  <2> QED
    BY <2>4, <2>5
<1> QED
  BY <1>10, <1>11

\* Push() keeps the order and adds its task, whatever the ends are.
LEMMA PushLined ==
    ASSUME NEW T, NEW end \in [T -> Nat], NEW q, Lined(q, T, end), NEW t \in T, t \notin Members(q)
    PROVE  Lined(Push(q, t, end), T, end) /\ Members(Push(q, t, end)) = Members(q) \cup {t}
<1> DEFINE L == Len(q)
           Place(n) == /\ \A k \in 1 .. n : end[q[k]] <= end[t]
                       /\ n < L => end[q[n + 1]] > end[t]
           Ahead == {n \in 0 .. L : n < L => end[q[n + 1]] > end[t]}
<1>1. /\ q \in Seq(T) /\ L \in Nat /\ DOMAIN q = 1 .. L /\ \A i \in 1 .. L : q[i] \in T
      /\ end[t] \in Nat /\ \A i \in 1 .. L : end[q[i]] \in Nat
  BY MembersIn DEF Lined
<1>2. \E n \in 0 .. L : Place(n)
  <2>1. L \in Ahead /\ Ahead \in SUBSET Nat
    BY <1>1
  <2> HIDE DEF Ahead
  <2>2. PICK n \in Ahead : \A k \in Ahead : n <= k
    BY <2>1, Least
  <2>3. ASSUME NEW k \in 1 .. n PROVE end[q[k]] <= end[t]
    <3>1. n \in 0 .. L
      BY DEF Ahead
    <3>2. k - 1 \in 0 .. L /\ k - 1 < L /\ ~(n <= k - 1) /\ (k - 1) + 1 = k /\ k \in 1 .. L
      BY <1>1, <3>1
    <3>3. k - 1 \notin Ahead
      BY <2>2, <3>2
    <3>4. ~(end[q[k]] > end[t])
      BY <3>2, <3>3 DEF Ahead
    <3> QED
      BY <1>1, <3>2, <3>4
  <2> QED
    BY <2>2, <2>3 DEF Ahead
<1> DEFINE n == CHOOSE n \in 0 .. L : Place(n)
           a == SubSeq(q, 1, n)
           c == SubSeq(q, n + 1, L)
<1>3. n \in 0 .. L /\ Place(n)
  BY <1>2
<1>4. Push(q, t, end) = (a \o <<t>>) \o c
  BY Zenon DEF Push
<1> HIDE DEF n
<1>5. a \in Seq(T) /\ Len(a) = n /\ \A i \in 1 .. n : a[i] = q[i]
  <2>1. \A i \in 1 .. n : q[i] \in T
    BY <1>1, <1>3
  <2>2. a \in Seq(T) /\ Len(a) = (IF 1 <= n THEN n - 1 + 1 ELSE 0)
        /\ \A i \in 1 .. n - 1 + 1 : a[i] = q[1 + i - 1]
    BY <1>3, <2>1, SubSeqProperties
  <2> HIDE DEF a
  <2> QED
    BY <1>3, <2>2
<1>6. c \in Seq(T) /\ Len(c) = L - n /\ \A i \in 1 .. L - n : c[i] = q[n + i]
  <2>1. \A i \in n + 1 .. L : q[i] \in T
    BY <1>1, <1>3
  <2>2. c \in Seq(T) /\ Len(c) = (IF n + 1 <= L THEN L - (n + 1) + 1 ELSE 0)
        /\ \A i \in 1 .. L - (n + 1) + 1 : c[i] = q[(n + 1) + i - 1]
    BY <1>1, <1>3, <2>1, SubSeqProperties
  <2> HIDE DEF c
  <2>3. L - (n + 1) + 1 = L - n /\ Len(c) = L - n
    <3>1. n \in Int /\ L \in Int /\ n <= L
      BY <1>1, <1>3
    <3> HIDE DEF L
    <3> QED
      BY <3>1, <2>2
  <2>4. ASSUME NEW i \in 1 .. L - n PROVE c[i] = q[n + i]
    <3>1. (n + 1) + i - 1 = n + i
      BY <1>1, <1>3
    <3> QED
      BY <3>1, <2>2, <2>3
  <2> QED
    BY <2>2, <2>3, <2>4
<1> HIDE DEF a, c
<1>7. a \o <<t>> \in Seq(T) /\ Len(a \o <<t>>) = n + 1
      /\ \A i \in 1 .. n + 1 : (a \o <<t>>)[i] = IF i <= n THEN a[i] ELSE t
  <2>1. <<t>> \in Seq(T) /\ Len(<<t>>) = 1 /\ <<t>>[1] = t
    OBVIOUS
  <2> QED
    BY <1>3, <1>5, <2>1, ConcatProperties
<1> DEFINE b == a \o <<t>>
           p == b \o c
<1> HIDE DEF b
<1>8. /\ p \in Seq(T) /\ Len(p) = (n + 1) + (L - n)
      /\ \A i \in 1 .. (n + 1) + (L - n) : p[i] = IF i <= n + 1 THEN b[i] ELSE c[i - (n + 1)]
  <2>1. b \in Seq(T) /\ Len(b) = n + 1
    BY <1>7 DEF b
  <2>2. /\ b \o c \in Seq(T) /\ Len(b \o c) = Len(b) + Len(c)
        /\ \A i \in 1 .. Len(b) + Len(c) : (b \o c)[i] = IF i <= Len(b) THEN b[i] ELSE c[i - Len(b)]
    BY <1>6, <2>1, ConcatProperties
  <2> QED
    BY <1>6, <2>1, <2>2
<1> HIDE DEF p
<1>9. Len(p) = L + 1 /\ \A i \in 1 .. L + 1 :
          p[i] = IF i <= n THEN q[i] ELSE IF i = n + 1 THEN t ELSE q[i - 1]
  <2>1. Len(p) = L + 1 /\ (n + 1) + (L - n) = L + 1
    BY <1>1, <1>3, <1>8
  <2>2. ASSUME NEW i \in 1 .. L + 1
        PROVE  p[i] = IF i <= n THEN q[i] ELSE IF i = n + 1 THEN t ELSE q[i - 1]
    <3>1. p[i] = IF i <= n + 1 THEN b[i] ELSE c[i - (n + 1)]
      BY <1>8, <2>1
    <3>2. CASE i <= n + 1
      BY <3>1, <3>2, <1>1, <1>3, <1>5, <1>7 DEF b
    <3>3. CASE i > n + 1
      <4>1. i - (n + 1) \in 1 .. L - n /\ n + (i - (n + 1)) = i - 1
        BY <3>3, <1>1, <1>3
      <4>2. c[i - (n + 1)] = q[i - 1]
        BY <4>1, <1>6
      <4> QED
        BY <3>1, <3>3, <4>2, <1>1, <1>3
    <3> QED
      BY <1>1, <1>3, <3>2, <3>3
  <2> QED
    BY <2>1, <2>2
<1>10. Lined(p, T, end) /\ Members(p) = Members(q) \cup {t}
  <2>1. p \in Seq(T)
    BY <1>8
  <2>2. Between(p, q, t, n, end)
    BY <1>3, <1>9 DEF Between
  <2> QED
    BY <2>1, <2>2, BetweenLined
<1> QED
  BY <1>4, <1>10 DEF p, b

\* A task that ends no earlier than all of a holder is appended in order.
LEMMA AppendLined ==
    ASSUME NEW T, NEW end \in [T -> Nat], NEW q, Lined(q, T, end), NEW t \in T, t \notin Members(q),
           \A u \in Members(q) : end[u] <= end[t]
    PROVE  Lined(Append(q, t), T, end) /\ Members(Append(q, t)) = Members(q) \cup {t}
<1> DEFINE p == Append(q, t)
<1>1. q \in Seq(T) /\ Len(q) \in Nat /\ DOMAIN q = 1 .. Len(q)
  BY MembersIn DEF Lined
<1>2. /\ p \in Seq(T) /\ Len(p) = Len(q) + 1
      /\ \A i \in 1 .. Len(q) : p[i] = q[i]
      /\ p[Len(q) + 1] = t
  BY <1>1, AppendProperties
<1>3. \A i \in 1 .. Len(q) : q[i] \in Members(q)
  BY <1>1 DEF Members
<1> HIDE DEF p
<1>4. ASSUME NEW i \in 1 .. Len(q) + 1
      PROVE  p[i] = IF i <= Len(q) THEN q[i] ELSE IF i = Len(q) + 1 THEN t ELSE q[i - 1]
  BY <1>1, <1>2
<1>5. Between(p, q, t, Len(q), end)
  <2>1. Len(q) \in 0 .. Len(q) /\ ~(Len(q) < Len(q))
    BY <1>1
  <2>2. \A k \in 1 .. Len(q) : end[q[k]] <= end[t]
    BY <1>3
  <2> QED
    BY <1>2, <1>4, <2>1, <2>2 DEF Between
<1>6. Lined(p, T, end) /\ Members(p) = Members(q) \cup {t}
  BY <1>2, <1>5, BetweenLined
<1> QED
  BY <1>6 DEF p

LEMMA EmptyLined ==
    ASSUME NEW T, NEW end
    PROVE  Lined(<< >>, T, end) /\ Members(<< >>) = {}
<1>1. << >> \in Seq(T) /\ DOMAIN << >> = {}
  BY EmptySeq
<1> QED
  BY <1>1 DEF Lined, Distinct, Sorted, Members

\* The equation of the recursion in RemoveIf, for the first n tasks.
LeftOf(q, S, n, f) ==
    f = [k \in 0 .. n |->
            IF k = 0 THEN << >> ELSE IF q[k] \in S THEN f[k - 1] ELSE Append(f[k - 1], q[k])]

LEMMA LeftExists ==
    ASSUME NEW q, NEW S, NEW n \in Nat
    PROVE  \E f : LeftOf(q, S, n, f)
<1> DEFINE Bad == {m \in Nat : ~ \E f : LeftOf(q, S, m, f)}
           step(k, e) == IF k = 0 THEN << >> ELSE IF q[k] \in S THEN e[k - 1] ELSE Append(e[k - 1], q[k])
<1> SUFFICES ASSUME Bad # {} PROVE FALSE
  OBVIOUS
<1>1. PICK m \in Bad : \A k \in Bad : m <= k
  BY Least
<1>2. CASE m = 0
  <2>1. LeftOf(q, S, 0, [k \in 0 .. 0 |-> << >>])
    BY DEF LeftOf
  <2> QED
    BY <1>1, <1>2, <2>1
<1>3. CASE m # 0
  <2>1. PICK f : LeftOf(q, S, m - 1, f)
    BY <1>1, <1>3
  <2> DEFINE h == [k \in 0 .. m |-> step(k, f)]
  <2>2. f = [k \in 0 .. m - 1 |-> step(k, f)]
    BY <2>1 DEF LeftOf
  <2>3. ASSUME NEW k \in 0 .. m, k # 0 PROVE h[k - 1] = f[k - 1]
    <3>1. k - 1 \in 0 .. m - 1 /\ k - 1 \in 0 .. m
      BY <1>1, <2>3
    <3> HIDE DEF step
    <3> QED
      BY <3>1, <2>2
  <2>4. ASSUME NEW k \in 0 .. m PROVE step(k, f) = step(k, h)
    <3> HIDE DEF h
    <3> QED
      BY <2>3
  <2>5. h = [k \in 0 .. m |-> step(k, h)]
    <3> HIDE DEF step
    <3> QED
      BY <2>4
  <2>6. LeftOf(q, S, m, h)
    <3> HIDE DEF h
    <3> QED
      BY <2>5 DEF LeftOf
  <2> QED
    BY <1>1, <2>6
<1> QED
  BY <1>2, <1>3

\* RemoveIf() takes out the tasks of S and leaves the others in their order.
LEMMA RemoveLined ==
    ASSUME NEW T, NEW end \in [T -> Nat], NEW q, Lined(q, T, end), NEW S
    PROVE  Lined(RemoveIf(q, S), T, end) /\ Members(RemoveIf(q, S)) = Members(q) \ S
<1> DEFINE L == Len(q)
           Upto(k) == {q[i] : i \in 1 .. k}
<1>1. /\ q \in Seq(T) /\ L \in Nat /\ DOMAIN q = 1 .. L /\ \A i \in 1 .. L : q[i] \in T
      /\ Members(q) = Upto(L)
  BY MembersIn DEF Lined
<1>2. \A i, j \in 1 .. L : (q[i] = q[j] => i = j) /\ (i <= j => end[q[i]] <= end[q[j]])
  BY <1>1 DEF Lined, Distinct, Sorted
<1>3. PICK f : LeftOf(q, S, L, f) /\ RemoveIf(q, S) = f[L]
  <2> DEFINE f == CHOOSE e : LeftOf(q, S, L, e)
  <2>1. LeftOf(q, S, L, f)
    BY <1>1, LeftExists
  <2>2. RemoveIf(q, S) = f[L]
    BY DEF RemoveIf, LeftOf
  <2> QED
    BY <2>1, <2>2
<1>4. ASSUME NEW k \in 0 .. L
      PROVE  f[k] = IF k = 0 THEN << >> ELSE IF q[k] \in S THEN f[k - 1] ELSE Append(f[k - 1], q[k])
  BY <1>3, Zenon DEF LeftOf
<1> HIDE DEF L, Upto
<1> DEFINE Good(k) == Lined(f[k], T, end) /\ Members(f[k]) = Upto(k) \ S
           Bad == {k \in 0 .. L : ~Good(k)}
<1>5. Bad = {}
  <2> SUFFICES ASSUME Bad # {} PROVE FALSE
    OBVIOUS
  <2>1. PICK k \in Bad : \A j \in Bad : k <= j
    <3>1. Bad \in SUBSET Nat
      BY <1>1
    <3> HIDE DEF Bad
    <3> QED
      BY <3>1, Least
  <2>2. k \in 0 .. L /\ ~Good(k)
    BY <2>1
  <2>3. CASE k = 0
    <3>1. f[0] = << >> /\ Upto(0) = {}
      BY <1>4, <2>2, <2>3 DEF Upto
    <3> QED
      BY <3>1, <2>2, <2>3, EmptyLined
  <2>4. CASE k # 0
    <3>1. k - 1 \in 0 .. L /\ k \in 1 .. L /\ ~(k <= k - 1) /\ \A i \in 1 .. k - 1 : i \in 1 .. L /\ i # k /\ i <= k
      BY <1>1, <2>2, <2>4
    <3>2. Good(k - 1)
      BY <2>1, <3>1
    <3>3. Upto(k) = Upto(k - 1) \cup {q[k]}
      <4>1. \A i \in 1 .. k : i \in 1 .. k - 1 \/ i = k
        BY <3>1, <1>1
      <4>2. \A i \in 1 .. k - 1 : i \in 1 .. k
        BY <3>1, <1>1
      <4>3. k \in 1 .. k
        BY <3>1, <1>1
      <4> QED
        BY <4>1, <4>2, <4>3 DEF Upto
    <3>4. CASE q[k] \in S
      BY <3>4, <3>2, <3>3, <1>4, <2>2, <2>4
    <3>5. CASE q[k] \notin S
      <4>1. q[k] \notin Members(f[k - 1])
        BY <3>1, <3>2, <1>2 DEF Upto
      <4>2. \A u \in Members(f[k - 1]) : end[u] <= end[q[k]]
        BY <3>1, <3>2, <1>2 DEF Upto
      <4>3. f[k] = Append(f[k - 1], q[k]) /\ q[k] \in T
        BY <3>1, <3>5, <1>1, <1>4, <2>2, <2>4
      <4>4. Lined(f[k], T, end) /\ Members(f[k]) = Members(f[k - 1]) \cup {q[k]}
        BY <4>1, <4>2, <4>3, <3>2, AppendLined
      <4> QED
        BY <4>4, <3>2, <3>3, <3>5, <2>2
    <3> QED
      BY <3>4, <3>5
  <2> QED
    BY <2>3, <2>4
<1>6. Good(L)
  <2>1. L \in 0 .. L
    BY <1>1
  <2> QED
    BY <1>5, <2>1
<1> QED
  BY <1>1, <1>3, <1>6

\* The equation of the recursion in ModifyIf, for the first n tasks.
InsertedOf(q, S, end, n, f) ==
    f = [k \in 0 .. n |->
            IF k = 0 THEN RemoveIf(q, S)
            ELSE IF q[k] \in S THEN Push(f[k - 1], q[k], end) ELSE f[k - 1]]

LEMMA InsertedExists ==
    ASSUME NEW q, NEW S, NEW end, NEW n \in Nat
    PROVE  \E f : InsertedOf(q, S, end, n, f)
<1> DEFINE Bad == {m \in Nat : ~ \E f : InsertedOf(q, S, end, m, f)}
           step(k, e) == IF k = 0 THEN RemoveIf(q, S)
                         ELSE IF q[k] \in S THEN Push(e[k - 1], q[k], end) ELSE e[k - 1]
<1> SUFFICES ASSUME Bad # {} PROVE FALSE
  OBVIOUS
<1>1. PICK m \in Bad : \A k \in Bad : m <= k
  BY Least
<1>2. CASE m = 0
  <2>1. InsertedOf(q, S, end, 0, [k \in 0 .. 0 |-> RemoveIf(q, S)])
    BY DEF InsertedOf
  <2> QED
    BY <1>1, <1>2, <2>1
<1>3. CASE m # 0
  <2>1. PICK f : InsertedOf(q, S, end, m - 1, f)
    BY <1>1, <1>3
  <2> DEFINE h == [k \in 0 .. m |-> step(k, f)]
  <2>2. f = [k \in 0 .. m - 1 |-> step(k, f)]
    BY <2>1 DEF InsertedOf
  <2>3. ASSUME NEW k \in 0 .. m, k # 0 PROVE h[k - 1] = f[k - 1]
    <3>1. k - 1 \in 0 .. m - 1 /\ k - 1 \in 0 .. m
      BY <1>1, <2>3
    <3> HIDE DEF step
    <3> QED
      BY <3>1, <2>2
  <2>4. ASSUME NEW k \in 0 .. m PROVE step(k, f) = step(k, h)
    <3> HIDE DEF h
    <3> QED
      BY <2>3
  <2>5. h = [k \in 0 .. m |-> step(k, h)]
    <3> HIDE DEF step
    <3> QED
      BY <2>4
  <2>6. InsertedOf(q, S, end, m, h)
    <3> HIDE DEF h
    <3> QED
      BY <2>5 DEF InsertedOf
  <2> QED
    BY <1>1, <2>6
<1> QED
  BY <1>2, <1>3

\* ModifyIf() orders the holder by the new ends, when only tasks of S have new ends, and
\* keeps its tasks.
LEMMA ModifyLined ==
    ASSUME NEW T, NEW old \in [T -> Nat], NEW end \in [T -> Nat], NEW q, Lined(q, T, old),
           NEW S, \A t \in T \ S : end[t] = old[t]
    PROVE  Lined(ModifyIf(q, S, end), T, end) /\ Members(ModifyIf(q, S, end)) = Members(q)
<1> DEFINE L == Len(q)
           Upto(k) == {q[i] : i \in 1 .. k}
<1>1. /\ q \in Seq(T) /\ L \in Nat /\ DOMAIN q = 1 .. L /\ \A i \in 1 .. L : q[i] \in T
      /\ Members(q) = Upto(L)
  BY MembersIn DEF Lined
<1>2. \A i, j \in 1 .. L : q[i] = q[j] => i = j
  BY <1>1 DEF Lined, Distinct
<1>3. PICK f : InsertedOf(q, S, end, L, f) /\ ModifyIf(q, S, end) = f[L]
  <2> DEFINE f == CHOOSE e : InsertedOf(q, S, end, L, e)
  <2>1. InsertedOf(q, S, end, L, f)
    BY <1>1, InsertedExists
  <2>2. ModifyIf(q, S, end) = f[L]
    BY DEF ModifyIf, InsertedOf
  <2> QED
    BY <2>1, <2>2
<1>4. ASSUME NEW k \in 0 .. L
      PROVE  f[k] = IF k = 0 THEN RemoveIf(q, S)
                    ELSE IF q[k] \in S THEN Push(f[k - 1], q[k], end) ELSE f[k - 1]
  BY <1>3, Zenon DEF InsertedOf
\* Those that stay are in order of their ends, which are the old ones.
<1>5. Lined(RemoveIf(q, S), T, end) /\ Members(RemoveIf(q, S)) = Upto(L) \ S
  <2> DEFINE r == RemoveIf(q, S)
  <2>1. Lined(r, T, old) /\ Members(r) = Upto(L) \ S
    <3>1. Lined(RemoveIf(q, S), T, old) /\ Members(RemoveIf(q, S)) = Members(q) \ S
      BY RemoveLined
    <3> QED
      BY <3>1, <1>1
  <2> HIDE DEF r, Upto
  <2>2. \A i \in DOMAIN r : r[i] \in T /\ r[i] \notin S
    BY <2>1, MembersIn DEF Lined, Members
  <2>3. \A i \in DOMAIN r : end[r[i]] = old[r[i]]
    BY <2>2
  <2>4. Sorted(r, end)
    BY <2>1, <2>3 DEF Lined, Sorted
  <2>5. Lined(r, T, end) /\ Members(r) = Upto(L) \ S
    BY <2>1, <2>4 DEF Lined
  <2> QED
    BY <2>5 DEF r
<1> HIDE DEF L, Upto
<1> DEFINE Good(k) == Lined(f[k], T, end) /\ Members(f[k]) = (Upto(L) \ S) \cup (Upto(k) \cap S)
           Bad == {k \in 0 .. L : ~Good(k)}
<1>6. Bad = {}
  <2> SUFFICES ASSUME Bad # {} PROVE FALSE
    OBVIOUS
  <2>1. PICK k \in Bad : \A j \in Bad : k <= j
    <3>1. Bad \in SUBSET Nat
      BY <1>1
    <3> HIDE DEF Bad
    <3> QED
      BY <3>1, Least
  <2>2. k \in 0 .. L /\ ~Good(k)
    BY <2>1
  <2>3. CASE k = 0
    <3>1. f[0] = RemoveIf(q, S) /\ Upto(0) = {}
      BY <1>4, <2>2, <2>3 DEF Upto
    <3> QED
      BY <3>1, <2>2, <2>3, <1>5
  <2>4. CASE k # 0
    <3>1. k - 1 \in 0 .. L /\ k \in 1 .. L /\ ~(k <= k - 1) /\ \A i \in 1 .. k - 1 : i \in 1 .. L /\ i # k
      BY <1>1, <2>2, <2>4
    <3>2. Good(k - 1)
      BY <2>1, <3>1
    <3>3. Upto(k) = Upto(k - 1) \cup {q[k]}
      <4>1. \A i \in 1 .. k : i \in 1 .. k - 1 \/ i = k
        BY <3>1, <1>1
      <4>2. \A i \in 1 .. k - 1 : i \in 1 .. k
        BY <3>1, <1>1
      <4>3. k \in 1 .. k
        BY <3>1, <1>1
      <4> QED
        BY <4>1, <4>2, <4>3 DEF Upto
    <3>4. CASE q[k] \in S
      <4>1. q[k] \notin Upto(k - 1)
        BY <3>1, <1>2 DEF Upto
      <4>2. q[k] \notin Members(f[k - 1])
        BY <4>1, <3>2, <3>4
      <4>3. f[k] = Push(f[k - 1], q[k], end) /\ q[k] \in T
        BY <3>1, <3>4, <1>1, <1>4, <2>2, <2>4
      <4>4. Lined(f[k], T, end) /\ Members(f[k]) = Members(f[k - 1]) \cup {q[k]}
        BY <4>2, <4>3, <3>2, PushLined
      <4> QED
        BY <4>4, <3>2, <3>3, <3>4, <2>2
    <3>5. CASE q[k] \notin S
      <4>1. f[k] = f[k - 1]
        BY <3>5, <1>4, <2>2, <2>4
      <4> QED
        BY <4>1, <3>2, <3>3, <3>5, <2>2
    <3> QED
      BY <3>4, <3>5
  <2> QED
    BY <2>3, <2>4
<1>7. Good(L)
  <2>1. L \in 0 .. L
    BY <1>1
  <2> QED
    BY <1>6, <2>1
<1> QED
  BY <1>1, <1>3, <1>7

\* Pop() takes the first task out.
LEMMA TailLined ==
    ASSUME NEW T, NEW end, NEW q, Lined(q, T, end), q # << >>
    PROVE  /\ Lined(Tail(q), T, end) /\ Head(q) \in T
           /\ Members(Tail(q)) = Members(q) \ {Head(q)} /\ Head(q) \in Members(q)
<1> DEFINE p == Tail(q)
<1>1. /\ q \in Seq(T) /\ Len(q) \in Nat /\ Len(q) # 0 /\ DOMAIN q = 1 .. Len(q)
  BY MembersIn, EmptySeq DEF Lined
<1>2. /\ Head(q) = q[1] /\ Head(q) \in T /\ p \in Seq(T) /\ Len(p) = Len(q) - 1
      /\ \A i \in 1 .. Len(p) : p[i] = q[i + 1]
  BY <1>1, HeadTailProperties
<1> HIDE DEF p
<1>3. DOMAIN p = 1 .. Len(q) - 1
  BY <1>2, MembersIn
<1>4. \A i \in 1 .. Len(q) - 1 : i + 1 \in 1 .. Len(q) /\ p[i] = q[i + 1] /\ i + 1 # 1
  BY <1>1, <1>2
<1>5. \A i, j \in 1 .. Len(q) : (q[i] = q[j] => i = j) /\ (i <= j => end[q[i]] <= end[q[j]])
  BY <1>1 DEF Lined, Distinct, Sorted
<1>6. Distinct(p)
  BY <1>1, <1>3, <1>4, <1>5 DEF Distinct
<1>7. ASSUME NEW i \in 1 .. Len(q) - 1, NEW j \in 1 .. Len(q) - 1, i <= j
      PROVE  end[p[i]] <= end[p[j]]
  <2>1. i + 1 <= j + 1
    BY <1>1, <1>7
  <2> QED
    BY <2>1, <1>4, <1>5
<1>8. Lined(p, T, end)
  BY <1>2, <1>3, <1>6, <1>7 DEF Lined, Sorted
<1>9. Members(p) = Members(q) \ {q[1]}
  <2>1. \A i \in 1 .. Len(q) - 1 : p[i] \in Members(q) \ {q[1]}
    <3>1. 1 \in 1 .. Len(q)
      BY <1>1
    <3>2. \A i \in 1 .. Len(q) - 1 : p[i] # q[1]
      BY <3>1, <1>4, <1>5
    <3>3. \A i \in 1 .. Len(q) - 1 : p[i] \in Members(q)
      BY <1>1, <1>4 DEF Members
    <3> QED
      BY <3>2, <3>3
  <2>2. ASSUME NEW i \in 1 .. Len(q), q[i] # q[1] PROVE q[i] \in Members(p)
    <3>1. i - 1 \in 1 .. Len(q) - 1 /\ (i - 1) + 1 = i
      BY <1>1, <2>2
    <3>2. p[i - 1] = q[i]
      BY <3>1, <1>4
    <3> QED
      BY <3>1, <3>2, <1>3 DEF Members
  <2> QED
    BY <1>1, <1>3, <2>1, <2>2 DEF Members
<1>10. q[1] \in Members(q)
  BY <1>1 DEF Members
<1> QED
  BY <1>2, <1>8, <1>9, <1>10 DEF p

-----------------------------------------------------------------------------
(***************************************************************************)
(* Functions on 1 .. n as sequences                                        *)
(***************************************************************************)

LEMMA FunctionIsSeq ==
    ASSUME NEW X, NEW n \in Nat, NEW f \in [1 .. n -> X]
    PROVE  f \in Seq(X) /\ Len(f) = n /\ DOMAIN f = 1 .. n
<1>1. f \in Seq(X)
  BY SeqDef
<1>2. Len(f) \in Nat /\ DOMAIN f = 1 .. Len(f) /\ DOMAIN f = 1 .. n
  BY <1>1, LenProperties
<1>3. Len(f) = n
  BY <1>2
<1> QED
  BY <1>1, <1>2, <1>3

-----------------------------------------------------------------------------
(***************************************************************************)
(* The inductive invariant                                                 *)
(***************************************************************************)
EndsOf(ts) == [t \in DOMAIN ts |-> ts[t].end]

\* What a scheduler knows of its tasks ts, with the holder q, the contexts cx and the
\* cancelled tasks cn, of which rn ran how often.  A task that was invoked and has not been
\* repeated ("fresh") had one run more; any other waits or was cancelled, never both.
Accounts(ts, q, cx, cn, rn, lives) ==
    \A t \in DOMAIN ts :
        /\ t \in Members(q) \cup cn => cx[t] # "fresh"
        /\ t \in Members(q) => t \notin cn
        /\ lives /\ cx[t] # "fresh" => t \in Members(q) \cup cn
        /\ lives => rn[t] = ts[t].repeated + (IF cx[t] = "fresh" THEN 1 ELSE 0)

TaskInv ==
    /\ TypeOK
    /\ Lined(holder, DOMAIN tasks, EndsOf(tasks))
    /\ ~alive => holder = << >>
    /\ Accounts(tasks, holder, contexts, cancelled, runs, alive)

LEMMA TaskFacts ==
    ASSUME NEW ts \in Seq(Task)
    PROVE  /\ Len(ts) \in Nat /\ DOMAIN ts = 1 .. Len(ts) /\ ts \in [DOMAIN ts -> Task]
           /\ EndsOf(ts) \in [DOMAIN ts -> Nat]
           /\ \A t \in DOMAIN ts : EndsOf(ts)[t] = ts[t].end
<1>1. Len(ts) \in Nat /\ DOMAIN ts = 1 .. Len(ts) /\ ts \in [DOMAIN ts -> Task]
  BY LenProperties
<1>2. \A t \in DOMAIN ts : ts[t].end \in Nat
  BY <1>1 DEF Task
<1> QED
  BY <1>1, <1>2 DEF EndsOf

LEMMA InitTaskInv == Init => TaskInv
<1> SUFFICES ASSUME Init PROVE TaskInv
  OBVIOUS
<1> USE DEF Init
<1>1. DOMAIN << >> = {} /\ Len(<< >>) = 0 /\ \A X : << >> \in Seq(X) /\ << >> \in [{} -> X]
  BY EmptySeq
<1>2. TypeOK
  BY <1>1, TaskBounds DEF TypeOK
<1>3. Lined(holder, DOMAIN tasks, EndsOf(tasks))
  BY EmptyLined
<1>4. Accounts(tasks, holder, contexts, cancelled, runs, alive)
  BY <1>1 DEF Accounts
<1> QED
  BY <1>2, <1>3, <1>4 DEF TaskInv

LEMMA CallsTyped == ASSUME TypeOK, Calling PROVE calls' \in 0 .. MaxCalls
  BY TaskBounds DEF TypeOK, Calling

\* Steps that touch no task.
LEMMA OthersKeep ==
    ASSUME TaskInv, TypeOK', UNCHANGED <<tasks, holder, contexts, histVars, alive>>
    PROVE  TaskInv'
  BY DEF TaskInv, histVars

LEMMA OthersTyped ==
    ASSUME TypeOK, UNCHANGED <<tasks, holder, contexts, histVars, alive>>,
           \/ Async \/ SetValidator \/ RunAsync \/ AsyncReturns \/ AsyncsDone \/ TaskReturns
           \/ Finish \/ UNCHANGED vars \/ \E d \in Durations : UpdateBy(d) \/ Update(d)
    PROVE  TypeOK'
<1> USE DEF TypeOK, histVars, queueVars, Calling
<1>1. CASE Async
  BY <1>1, TaskBounds DEF Async
<1>2. CASE SetValidator
  BY <1>2, TaskBounds DEF SetValidator
<1>3. CASE RunAsync
  BY <1>3 DEF RunAsync
<1>4. CASE AsyncReturns
  BY <1>4 DEF AsyncReturns, AfterCallable
<1>5. CASE AsyncsDone
  BY <1>5 DEF AsyncsDone
<1>6. CASE TaskReturns
  BY <1>6 DEF TaskReturns, AfterCallable
<1>7. CASE Finish
  BY <1>7 DEF Finish
<1>8. CASE UNCHANGED vars
  BY <1>8 DEF vars
<1>9. ASSUME NEW d \in Durations, UpdateBy(d) \/ Update(d) PROVE TypeOK'
  <2>1. d \in Nat
    BY DurationsAssumption
  <2>2. TypeOK'
    <3>1. Tick /\ now' \in Nat /\ clock' \in Nat
      BY <1>9, <2>1 DEF UpdateBy, Update
    <3>2. tick' \in 0 .. MaxTicks
      BY <3>1, TaskBounds DEF Tick
    <3>3. pc' \in {"async", "idle"} /\ UNCHANGED <<valid, alive, queueVars, calls, histVars>>
      BY <3>1 DEF Tick, StartDispatch
    <3> QED
      BY <3>1, <3>2, <3>3
  <2> QED
    BY <2>2
<1> QED
  BY <1>1, <1>2, <1>3, <1>4, <1>5, <1>6, <1>7, <1>8, <1>9

-----------------------------------------------------------------------------
(***************************************************************************)
(* The steps that touch tasks                                              *)
(***************************************************************************)

LEMMA CancelAllKeeps == TaskInv /\ CancelAll => TaskInv'
<1> SUFFICES ASSUME TaskInv, CancelAll PROVE TaskInv'
  OBVIOUS
<1> USE DEF TaskInv, CancelAll, Calling
<1>1. holder \in Seq(DOMAIN tasks) /\ Members(holder) \subseteq DOMAIN tasks
  BY MembersIn DEF TypeOK
<1>2. TypeOK'
  BY <1>1, TaskBounds, EmptySeq DEF TypeOK
<1>3. Lined(holder, DOMAIN tasks, EndsOf(tasks))'
  BY EmptyLined
<1>4. Members(holder') = {}
  BY EmptyLined
<1>5. ASSUME NEW t \in DOMAIN tasks
      PROVE  /\ t \in Members(holder') \cup cancelled' => contexts'[t] # "fresh"
             /\ t \in Members(holder') => t \notin cancelled'
             /\ alive' /\ contexts'[t] # "fresh" => t \in Members(holder') \cup cancelled'
             /\ alive' => runs'[t] = tasks'[t].repeated + (IF contexts'[t] = "fresh" THEN 1 ELSE 0)
  BY <1>4 DEF Accounts
<1>6. Accounts(tasks, holder, contexts, cancelled, runs, alive)'
  BY <1>5 DEF Accounts
<1> QED
  BY <1>2, <1>3, <1>6

LEMMA CancelGroupsKeeps == ASSUME NEW G, TaskInv, CancelGroupsOf(G) PROVE TaskInv'
<1> DEFINE S == UNION {InGroup(g) : g \in G}
<1>1. /\ holder' = RemoveIf(holder, S) /\ cancelled' = cancelled \cup (Members(holder) \cap S)
      /\ Calling /\ alive
      /\ UNCHANGED <<pc, now, clock, valid, alive, tasks, contexts, asyncs, tick, runs>>
  BY DEF CancelGroupsOf, Remaining
<1> HIDE DEF S
<1> USE DEF TaskInv
<1>2. holder \in Seq(DOMAIN tasks) /\ Members(holder) \subseteq DOMAIN tasks
      /\ EndsOf(tasks) \in [DOMAIN tasks -> Nat]
  BY MembersIn, TaskFacts DEF TypeOK
<1>3. /\ Lined(holder', DOMAIN tasks, EndsOf(tasks))
      /\ Members(holder') = Members(holder) \ S
  BY <1>1, <1>2, RemoveLined
<1>4. TypeOK'
  BY <1>1, <1>2, <1>3, TaskBounds DEF TypeOK, Lined, Calling
<1>5. ASSUME NEW t \in DOMAIN tasks
      PROVE  /\ t \in Members(holder') \cup cancelled' => contexts[t] # "fresh"
             /\ t \in Members(holder') => t \notin cancelled'
             /\ alive /\ contexts[t] # "fresh" => t \in Members(holder') \cup cancelled'
             /\ alive => runs[t] = tasks[t].repeated + (IF contexts[t] = "fresh" THEN 1 ELSE 0)
  BY <1>1, <1>3 DEF Accounts
<1>6. Accounts(tasks, holder, contexts, cancelled, runs, alive)'
  BY <1>1, <1>5 DEF Accounts
<1> QED
  BY <1>1, <1>3, <1>4, <1>6

LEMMA ModifyKeeps ==
    ASSUME NEW S, NEW newEnd \in [DOMAIN tasks -> Nat], TaskInv, Modify(S, newEnd)
    PROVE  TaskInv'
<1> DEFINE M == Members(holder) \cap S
           changed == [t \in DOMAIN tasks |-> IF t \in M THEN Ending(tasks[t], newEnd[t]) ELSE tasks[t]]
<1>1. /\ tasks' = changed /\ holder' = ModifyIf(holder, M, [t \in DOMAIN tasks |-> changed[t].end])
      /\ Calling /\ alive
      /\ UNCHANGED <<pc, now, clock, valid, alive, contexts, asyncs, tick, histVars>>
  BY DEF Modify
<1> HIDE DEF M
<1> USE DEF TaskInv
<1>2. tasks \in Seq(Task) /\ holder \in Seq(DOMAIN tasks)
  BY DEF TypeOK
<1>3. /\ Len(tasks) \in Nat /\ DOMAIN tasks = 1 .. Len(tasks) /\ \A t \in DOMAIN tasks : tasks[t] \in Task
      /\ EndsOf(tasks) \in [DOMAIN tasks -> Nat]
      /\ \A t \in DOMAIN tasks : EndsOf(tasks)[t] = tasks[t].end
  BY <1>2, TaskFacts
<1>4. ASSUME NEW t \in DOMAIN tasks
      PROVE  /\ changed[t] \in Task /\ changed[t].repeated = tasks[t].repeated
             /\ t \notin M => changed[t].end = tasks[t].end
  <2>1. tasks[t] \in Task /\ newEnd[t] \in Nat
    BY <1>3
  <2>2. CASE t \in M
    <3>1. changed[t] = Ending(tasks[t], newEnd[t])
      BY <2>2
    <3> QED
      BY <3>1, <2>1, <2>2 DEF Ending, Task
  <2>3. CASE t \notin M
    BY <2>1, <2>3
  <2> QED
    BY <2>2, <2>3
<1>5. changed \in [DOMAIN tasks -> Task]
  BY <1>4
<1> HIDE DEF changed
<1>6. tasks' \in Seq(Task) /\ Len(tasks') = Len(tasks) /\ DOMAIN tasks' = DOMAIN tasks
  BY <1>1, <1>3, <1>5, FunctionIsSeq
<1>7. EndsOf(tasks') = [t \in DOMAIN tasks |-> changed[t].end]
  BY <1>1, <1>6 DEF EndsOf
<1>8. EndsOf(tasks') \in [DOMAIN tasks -> Nat]
  BY <1>6, TaskFacts
<1>9. \A t \in DOMAIN tasks \ M : EndsOf(tasks')[t] = EndsOf(tasks)[t]
  BY <1>3, <1>4, <1>7
<1>10. Lined(holder', DOMAIN tasks, EndsOf(tasks')) /\ Members(holder') = Members(holder)
  <2> DEFINE T == DOMAIN tasks
             old == EndsOf(tasks)
             end == EndsOf(tasks')
  <2>1. /\ old \in [T -> Nat] /\ end \in [T -> Nat] /\ Lined(holder, T, old)
        /\ \A t \in T \ M : end[t] = old[t]
    BY <1>3, <1>8, <1>9
  <2>2. holder' = ModifyIf(holder, M, end)
    BY <1>1, <1>7
  <2> HIDE DEF T, old, end
  <2>3. Lined(ModifyIf(holder, M, end), T, end) /\ Members(ModifyIf(holder, M, end)) = Members(holder)
    BY <2>1, ModifyLined
  <2>4. Lined(holder', T, end) /\ Members(holder') = Members(holder)
    BY <2>2, <2>3
  <2> QED
    BY <2>4 DEF T, end
<1>11. TypeOK'
  BY <1>1, <1>6, <1>10, TaskBounds DEF TypeOK, Lined, Calling, histVars
<1>12. ASSUME NEW t \in DOMAIN tasks
       PROVE  /\ t \in Members(holder') \cup cancelled' => contexts'[t] # "fresh"
              /\ t \in Members(holder') => t \notin cancelled'
              /\ alive' /\ contexts'[t] # "fresh" => t \in Members(holder') \cup cancelled'
              /\ alive' => runs'[t] = tasks'[t].repeated + (IF contexts'[t] = "fresh" THEN 1 ELSE 0)
  BY <1>1, <1>4, <1>10 DEF Accounts, histVars
<1>13. Accounts(tasks, holder, contexts, cancelled, runs, alive)'
  BY <1>6, <1>12 DEF Accounts
<1> QED
  BY <1>1, <1>6, <1>10, <1>11, <1>13

LEMMA DelaysKeep ==
    ASSUME NEW d \in Durations, NEW S, TaskInv,
           Modify(S, Delayed(d)) \/ Modify(S, Rescheduled(d))
    PROVE  TaskInv'
<1>1. d \in Nat /\ now \in Nat /\ \A t \in DOMAIN tasks : tasks[t].end \in Nat
  BY DurationsAssumption, TaskFacts DEF TaskInv, TypeOK, Task
<1>2. Delayed(d) \in [DOMAIN tasks -> Nat] /\ Rescheduled(d) \in [DOMAIN tasks -> Nat]
  BY <1>1 DEF Delayed, Rescheduled
<1> QED
  BY <1>2, ModifyKeeps

LEMMA ScheduleKeeps ==
    ASSUME NEW base \in Nat, NEW d \in Durations, NEW g \in Groups \cup {NoGroup},
           TaskInv, Calling, alive, ScheduleAt(base, d, g)
    PROVE  TaskInv'
<1> DEFINE t == Len(tasks) + 1
           new == [end |-> base + d, duration |-> d, group |-> g, repeated |-> 0]
<1>1. /\ t <= MaxTasks /\ tasks' = Append(tasks, new)
      /\ holder' = Push(holder, t, Append(Ends, base + d))
      /\ contexts' = Append(contexts, "none") /\ runs' = Append(runs, 0)
      /\ UNCHANGED <<pc, now, clock, valid, alive, asyncs, tick, cancelled>>
  BY DEF ScheduleAt
<1> USE DEF TaskInv
<1>2. /\ tasks \in Seq(Task) /\ holder \in Seq(DOMAIN tasks) /\ cancelled \subseteq DOMAIN tasks
      /\ contexts \in [DOMAIN tasks -> {"none", "fresh", "consumed"}] /\ runs \in [DOMAIN tasks -> Nat]
  BY DEF TypeOK
<1>3. /\ Len(tasks) \in Nat /\ DOMAIN tasks = 1 .. Len(tasks)
      /\ EndsOf(tasks) \in [1 .. Len(tasks) -> Nat] /\ Ends = EndsOf(tasks)
      /\ \A u \in DOMAIN tasks : EndsOf(tasks)[u] = tasks[u].end
  BY <1>2, TaskFacts DEF Ends, EndsOf
<1>4. d \in Nat /\ base + d \in Nat /\ new \in Task /\ new.end = base + d /\ new.repeated = 0
  BY DurationsAssumption DEF Task
<1> HIDE DEF new
<1>5. /\ tasks' \in Seq(Task) /\ Len(tasks') = Len(tasks) + 1
      /\ DOMAIN tasks' = 1 .. Len(tasks) + 1
      /\ \A u \in 1 .. Len(tasks) : tasks'[u] = tasks[u]
      /\ tasks'[t] = new
  BY <1>1, <1>2, <1>4, AppendProperties, LenProperties
<1>6. /\ DOMAIN tasks \subseteq DOMAIN tasks' /\ t \in DOMAIN tasks' /\ t \notin DOMAIN tasks
      /\ \A u \in DOMAIN tasks' : u = t \/ u \in DOMAIN tasks
  BY <1>3, <1>5
<1>7. /\ Append(Ends, base + d) \in [DOMAIN tasks' -> Nat]
      /\ \A u \in DOMAIN tasks' : Append(Ends, base + d)[u] = IF u = t THEN base + d ELSE EndsOf(tasks)[u]
  <2> DEFINE n == Len(tasks)
             f == EndsOf(tasks)
             e == base + d
  <2>1. n \in Nat /\ f \in [1 .. n -> Nat] /\ e \in Nat
    BY <1>3, <1>4
  <2> HIDE DEF n, f, e
  <2>2. /\ Append(f, e) \in [1 .. n + 1 -> Nat]
        /\ \A i \in 1 .. n : Append(f, e)[i] = f[i]
        /\ Append(f, e)[n + 1] = e
    <3>1. f \in Seq(Nat) /\ Len(f) = n
      BY <2>1, FunctionIsSeq
    <3>2. /\ Append(f, e) \in Seq(Nat) /\ Len(Append(f, e)) = n + 1
          /\ \A i \in 1 .. n : Append(f, e)[i] = f[i]
          /\ Append(f, e)[n + 1] = e
      BY <2>1, <3>1, AppendProperties
    <3>3. Append(f, e) \in [1 .. n + 1 -> Nat]
      BY <3>2, LenProperties
    <3> QED
      BY <3>2, <3>3
  <2> QED
    BY <2>2, <1>3, <1>5, <1>6 DEF n, f, e
<1>8. Append(Ends, base + d) = EndsOf(tasks')
  <2>1. EndsOf(tasks') \in [DOMAIN tasks' -> Nat]
        /\ \A u \in DOMAIN tasks' : EndsOf(tasks')[u] = tasks'[u].end
    BY <1>5, TaskFacts
  <2>2. ASSUME NEW u \in DOMAIN tasks' PROVE Append(Ends, base + d)[u] = EndsOf(tasks')[u]
    <3>1. CASE u = t
      <4>1. Append(Ends, base + d)[t] = base + d /\ tasks'[t].end = base + d
        BY <1>4, <1>5, <1>6, <1>7
      <4> QED
        BY <3>1, <4>1, <2>1, <1>6
    <3>2. CASE u # t
      <4>1. u \in DOMAIN tasks /\ tasks'[u] = tasks[u]
        BY <3>2, <1>3, <1>5, <1>6
      <4>2. Append(Ends, base + d)[u] = tasks[u].end
        BY <3>2, <4>1, <1>3, <1>7
      <4> QED
        BY <4>1, <4>2, <2>1
    <3> QED
      BY <3>1, <3>2
  <2> HIDE DEF t
  <2> QED
    BY <2>1, <2>2, <1>7
<1>9. Lined(holder, DOMAIN tasks', EndsOf(tasks'))
  <2>1. holder \in Seq(DOMAIN tasks')
    BY <1>2, <1>6, SeqMonotonic
  <2>2. \A i \in DOMAIN holder : holder[i] \in DOMAIN tasks
    BY <1>2, MembersIn
  <2>3. \A u \in DOMAIN tasks : EndsOf(tasks')[u] = EndsOf(tasks)[u]
    BY <1>6, <1>7, <1>8
  <2>4. Sorted(holder, EndsOf(tasks'))
    BY <2>2, <2>3 DEF Lined, Sorted
  <2> QED
    BY <2>1, <2>4 DEF Lined
<1>10. t \notin Members(holder)
  BY <1>2, <1>6, MembersIn
<1>11. Lined(holder', DOMAIN tasks', EndsOf(tasks')) /\ Members(holder') = Members(holder) \cup {t}
  <2> DEFINE T == DOMAIN tasks'
             end == EndsOf(tasks')
             added == t
  <2>1. end \in [T -> Nat] /\ Lined(holder, T, end) /\ added \in T /\ added \notin Members(holder)
    BY <1>6, <1>7, <1>8, <1>9, <1>10
  <2>2. holder' = Push(holder, added, end)
    BY <1>1, <1>8
  <2> HIDE DEF T, end, added
  <2>3. Lined(Push(holder, added, end), T, end)
        /\ Members(Push(holder, added, end)) = Members(holder) \cup {added}
    BY <2>1, PushLined
  <2>4. Lined(holder', T, end) /\ Members(holder') = Members(holder) \cup {added}
    BY <2>2, <2>3
  <2> QED
    BY <2>4 DEF T, end, added
<1>12. /\ contexts' \in [DOMAIN tasks' -> {"none", "fresh", "consumed"}]
       /\ \A u \in DOMAIN tasks' : contexts'[u] = IF u = t THEN "none" ELSE contexts[u]
  <2> DEFINE n == Len(tasks)
  <2>1. n \in Nat /\ contexts \in [1 .. n -> {"none", "fresh", "consumed"}]
    BY <1>2, <1>3
  <2> HIDE DEF n
  <2>2. /\ Append(contexts, "none") \in [1 .. n + 1 -> {"none", "fresh", "consumed"}]
        /\ \A i \in 1 .. n : Append(contexts, "none")[i] = contexts[i]
        /\ Append(contexts, "none")[n + 1] = "none"
    <3>1. contexts \in Seq({"none", "fresh", "consumed"}) /\ Len(contexts) = n
      BY <2>1, FunctionIsSeq
    <3>2. /\ Append(contexts, "none") \in Seq({"none", "fresh", "consumed"}) /\ Len(Append(contexts, "none")) = n + 1
          /\ \A i \in 1 .. n : Append(contexts, "none")[i] = contexts[i]
          /\ Append(contexts, "none")[n + 1] = "none"
      BY <2>1, <3>1, AppendProperties
    <3>3. Append(contexts, "none") \in [1 .. n + 1 -> {"none", "fresh", "consumed"}]
      BY <3>2, LenProperties
    <3> QED
      BY <3>2, <3>3
  <2> QED
    BY <2>2, <1>1, <1>3, <1>5, <1>6 DEF n
<1>13. /\ runs' \in [DOMAIN tasks' -> Nat]
       /\ \A u \in DOMAIN tasks' : runs'[u] = IF u = t THEN 0 ELSE runs[u]
  <2> DEFINE n == Len(tasks)
  <2>1. n \in Nat /\ runs \in [1 .. n -> Nat]
    BY <1>2, <1>3
  <2> HIDE DEF n
  <2>2. /\ Append(runs, 0) \in [1 .. n + 1 -> Nat]
        /\ \A i \in 1 .. n : Append(runs, 0)[i] = runs[i]
        /\ Append(runs, 0)[n + 1] = 0
    <3>1. runs \in Seq(Nat) /\ Len(runs) = n
      BY <2>1, FunctionIsSeq
    <3>2. /\ Append(runs, 0) \in Seq(Nat) /\ Len(Append(runs, 0)) = n + 1
          /\ \A i \in 1 .. n : Append(runs, 0)[i] = runs[i]
          /\ Append(runs, 0)[n + 1] = 0
      BY <2>1, <3>1, AppendProperties
    <3>3. Append(runs, 0) \in [1 .. n + 1 -> Nat]
      BY <3>2, LenProperties
    <3> QED
      BY <3>2, <3>3
  <2> QED
    BY <2>2, <1>1, <1>3, <1>5, <1>6 DEF n
<1>14. TypeOK'
  <2>1. cancelled' \subseteq DOMAIN tasks' /\ Len(tasks') <= MaxTasks /\ calls' \in 0 .. MaxCalls
    BY <1>1, <1>2, <1>5, <1>6, TaskBounds DEF TypeOK, Calling
  <2> QED
    BY <2>1, <1>1, <1>5, <1>11, <1>12, <1>13 DEF TypeOK, Lined
<1>15. ASSUME NEW u \in DOMAIN tasks'
       PROVE  /\ u \in Members(holder') \cup cancelled' => contexts'[u] # "fresh"
              /\ u \in Members(holder') => u \notin cancelled'
              /\ alive' /\ contexts'[u] # "fresh" => u \in Members(holder') \cup cancelled'
              /\ alive' => runs'[u] = tasks'[u].repeated + (IF contexts'[u] = "fresh" THEN 1 ELSE 0)
  <2>1. CASE u = t
    BY <2>1, <1>1, <1>2, <1>4, <1>5, <1>6, <1>11, <1>12, <1>13
  <2>2. CASE u # t
    <3>1. u \in DOMAIN tasks /\ contexts'[u] = contexts[u] /\ runs'[u] = runs[u] /\ tasks'[u] = tasks[u]
      BY <2>2, <1>3, <1>5, <1>6, <1>12, <1>13
    <3>2. u \in Members(holder') <=> u \in Members(holder)
      BY <2>2, <1>11
    <3> QED
      BY <3>1, <3>2, <1>1 DEF Accounts
  <2> QED
    BY <2>1, <2>2
<1>16. Accounts(tasks, holder, contexts, cancelled, runs, alive)'
  BY <1>15 DEF Accounts
<1> QED
  BY <1>1, <1>11, <1>14, <1>16

LEMMA RepeatKeeps ==
    ASSUME NEW t \in DOMAIN tasks, NEW d \in Durations, TaskInv, Repeat(t, d)
    PROVE  TaskInv'
<1> DEFINE repeat == [end |-> tasks[t].end + d, duration |-> d, group |-> tasks[t].group,
                      repeated |-> tasks[t].repeated + 1]
           T == DOMAIN tasks
           end == [Ends EXCEPT ![t] = repeat.end]
<1>1. /\ Calling /\ contexts[t] = "fresh" /\ tasks' = [tasks EXCEPT ![t] = repeat]
      /\ contexts' = [contexts EXCEPT ![t] = "consumed"]
      /\ holder' = IF alive THEN Push(holder, t, end) ELSE holder
      /\ UNCHANGED <<pc, now, clock, valid, alive, asyncs, tick, histVars>>
  BY DEF Repeat, AssertOnConsumed, Reinsert
<1> USE DEF TaskInv
<1>2. /\ tasks \in Seq(Task) /\ holder \in Seq(T)
      /\ contexts \in [T -> {"none", "fresh", "consumed"}] /\ runs \in [T -> Nat]
  BY DEF TypeOK
<1>3. /\ Len(tasks) \in Nat /\ T = 1 .. Len(tasks) /\ tasks[t] \in Task
      /\ EndsOf(tasks) \in [T -> Nat] /\ Ends = EndsOf(tasks)
      /\ \A u \in T : EndsOf(tasks)[u] = tasks[u].end
  BY <1>2, TaskFacts DEF Ends, EndsOf
<1>4. repeat \in Task /\ repeat.end \in Nat /\ repeat.repeated = tasks[t].repeated + 1
  BY <1>3, DurationsAssumption DEF Task
<1> HIDE DEF repeat
<1>5. /\ tasks' \in Seq(Task) /\ Len(tasks') = Len(tasks)
      /\ \A u \in 1 .. Len(tasks) : tasks'[u] = IF u = t THEN repeat ELSE tasks[u]
  BY <1>1, <1>2, <1>3, <1>4, ExceptSeq
<1>6. DOMAIN tasks' = T
  BY <1>1
<1>7. EndsOf(tasks') \in [T -> Nat] /\ \A u \in T : EndsOf(tasks')[u] = tasks'[u].end
  BY <1>5, <1>6, TaskFacts
<1>8. end = EndsOf(tasks')
  <2>1. end \in [T -> Nat] /\ \A u \in T : end[u] = IF u = t THEN repeat.end ELSE EndsOf(tasks)[u]
    BY <1>3, <1>4
  <2>2. \A u \in T : end[u] = EndsOf(tasks')[u]
    BY <2>1, <1>3, <1>5, <1>7
  <2> HIDE DEF end, T
  <2> QED
    BY <2>1, <2>2, <1>7
<1> HIDE DEF end, T
<1>9. t \in T /\ t \notin Members(holder) /\ t \notin cancelled
  BY <1>1 DEF Accounts, T
<1>10. Lined(holder, T, end)
  <2>1. \A i \in DOMAIN holder : holder[i] \in T /\ holder[i] # t
    BY <1>2, <1>9, MembersIn DEF Members
  <2>2. \A u \in T : u # t => end[u] = EndsOf(tasks)[u]
    BY <1>3, <1>5, <1>7, <1>8
  <2>3. Lined(holder, T, EndsOf(tasks))
    BY DEF T
  <2>4. Sorted(holder, end)
    BY <2>1, <2>2, <2>3 DEF Lined, Sorted
  <2> QED
    BY <2>3, <2>4 DEF Lined
<1>11. end \in [T -> Nat]
  BY <1>7, <1>8
<1>12. /\ Lined(Push(holder, t, end), T, end)
       /\ Members(Push(holder, t, end)) = Members(holder) \cup {t}
  BY <1>9, <1>10, <1>11, PushLined
<1>13. /\ Lined(holder', T, end)
       /\ Members(holder') = IF alive THEN Members(holder) \cup {t} ELSE Members(holder)
  <2>1. CASE alive
    BY <2>1, <1>1, <1>12
  <2>2. CASE ~alive
    BY <2>2, <1>1, <1>10
  <2> QED
    BY <2>1, <2>2
<1>14. TypeOK'
  <2>1. contexts' \in [T -> {"none", "fresh", "consumed"}] /\ holder' \in Seq(T)
    BY <1>1, <1>2, <1>13 DEF Lined
  <2>2. /\ contexts' \in [DOMAIN tasks' -> {"none", "fresh", "consumed"}]
        /\ holder' \in Seq(DOMAIN tasks')
        /\ runs' \in [DOMAIN tasks' -> Nat] /\ cancelled' \subseteq DOMAIN tasks'
    BY <2>1, <1>1, <1>2, <1>6 DEF TypeOK, histVars, T
  <2>3. tasks' \in Seq(Task) /\ Len(tasks') <= MaxTasks /\ calls' \in 0 .. MaxCalls
    BY <1>1, <1>5, CallsTyped DEF TypeOK
  <2>4. UNCHANGED <<pc, now, clock, valid, alive, asyncs, tick>>
    BY <1>1
  <2> QED
    BY <2>2, <2>3, <2>4 DEF TypeOK
<1>15. ASSUME NEW u \in T
       PROVE  /\ u \in Members(holder') \cup cancelled' => contexts'[u] # "fresh"
              /\ u \in Members(holder') => u \notin cancelled'
              /\ alive' /\ contexts'[u] # "fresh" => u \in Members(holder') \cup cancelled'
              /\ alive' => runs'[u] = tasks'[u].repeated + (IF contexts'[u] = "fresh" THEN 1 ELSE 0)
  <2>1. UNCHANGED <<alive, cancelled, runs>>
    BY <1>1 DEF histVars
  <2>2. CASE u = t
    <3>1. contexts'[t] = "consumed"
      BY <1>1, <1>2, <1>9
    <3>2. alive => runs[t] = tasks[t].repeated + 1
      BY <1>1, <1>9 DEF Accounts, T
    <3>3. tasks[t].repeated + 1 = tasks'[t].repeated /\ tasks'[t].repeated \in Nat
      BY <1>3, <1>4, <1>5, <1>9 DEF Task
    <3>4. alive => runs[t] = tasks'[t].repeated + 0
      BY <3>2, <3>3
    <3>5. alive => t \in Members(holder')
      BY <1>13
    <3> QED
      BY <2>1, <2>2, <3>1, <3>4, <3>5, <1>9
  <2>3. CASE u # t
    <3>1. contexts'[u] = contexts[u] /\ tasks'[u] = tasks[u]
      BY <2>3, <1>1, <1>2, <1>3, <1>5
    <3>2. u \in Members(holder') <=> u \in Members(holder)
      BY <2>3, <1>13
    <3> QED
      BY <2>1, <3>1, <3>2 DEF Accounts, T
  <2> QED
    BY <2>2, <2>3
<1>16. Accounts(tasks, holder, contexts, cancelled, runs, alive)'
  BY <1>6, <1>15 DEF Accounts
<1>17. ~alive' => holder' = << >>
  BY <1>1
<1> QED
  BY <1>6, <1>8, <1>13, <1>14, <1>16, <1>17

LEMMA SetGroupKeeps ==
    ASSUME NEW t \in DOMAIN tasks, NEW g \in Groups \cup {NoGroup}, TaskInv, SetGroup(t, g)
    PROVE  TaskInv'
<1> DEFINE new == [end |-> tasks[t].end, duration |-> tasks[t].duration, group |-> g,
                   repeated |-> tasks[t].repeated]
<1>1. /\ Calling /\ tasks' = [tasks EXCEPT ![t] = new]
      /\ UNCHANGED <<pc, now, clock, valid, alive, holder, contexts, asyncs, tick, histVars>>
  BY DEF SetGroup
<1> USE DEF TaskInv
<1>2. tasks \in Seq(Task)
  BY DEF TypeOK
<1>3. /\ Len(tasks) \in Nat /\ DOMAIN tasks = 1 .. Len(tasks) /\ tasks[t] \in Task
      /\ EndsOf(tasks) \in [DOMAIN tasks -> Nat]
      /\ \A u \in DOMAIN tasks : EndsOf(tasks)[u] = tasks[u].end
  BY <1>2, TaskFacts
<1>4. new \in Task /\ new.end = tasks[t].end /\ new.repeated = tasks[t].repeated
  BY <1>3 DEF Task
<1> HIDE DEF new
<1>5. /\ tasks' \in Seq(Task) /\ Len(tasks') = Len(tasks)
      /\ \A u \in 1 .. Len(tasks) : tasks'[u] = IF u = t THEN new ELSE tasks[u]
  BY <1>1, <1>2, <1>3, <1>4, ExceptSeq
<1>6. DOMAIN tasks' = DOMAIN tasks
  BY <1>1
<1>7. \A u \in DOMAIN tasks : tasks'[u].end = tasks[u].end /\ tasks'[u].repeated = tasks[u].repeated
  BY <1>3, <1>4, <1>5
<1>8. EndsOf(tasks') = EndsOf(tasks)
  BY <1>6, <1>7 DEF EndsOf
<1>9. TypeOK'
  <2>1. calls' \in 0 .. MaxCalls
    BY <1>1, CallsTyped
  <2> QED
    BY <2>1, <1>1, <1>5, <1>6 DEF TypeOK, histVars
<1>10. Accounts(tasks, holder, contexts, cancelled, runs, alive)'
  BY <1>1, <1>6, <1>7 DEF Accounts, histVars
<1> QED
  BY <1>1, <1>6, <1>8, <1>9, <1>10

LEMMA DestroyKeeps == TaskInv /\ Destroy => TaskInv'
<1> SUFFICES ASSUME TaskInv, Destroy PROVE TaskInv'
  OBVIOUS
<1> USE DEF TaskInv, Destroy, histVars
<1>1. TypeOK'
  BY EmptySeq DEF TypeOK
<1>2. Lined(holder, DOMAIN tasks, EndsOf(tasks))' /\ Members(holder') = {}
  BY EmptyLined
<1>3. Accounts(tasks, holder, contexts, cancelled, runs, alive)'
  BY <1>2 DEF Accounts
<1> QED
  BY <1>1, <1>2, <1>3

LEMMA InvokeKeeps == TaskInv /\ Invoke => TaskInv'
<1> SUFFICES ASSUME TaskInv, Invoke PROVE TaskInv'
  OBVIOUS
<1> DEFINE t == Head(holder)
<1>1. /\ holder # << >> /\ holder' = Tail(holder)
      /\ contexts' = [contexts EXCEPT ![t] = "fresh"] /\ runs' = [runs EXCEPT ![t] = @ + 1]
      /\ pc' = "taskRun"
      /\ UNCHANGED <<now, clock, valid, alive, tasks, asyncs, tick, calls, cancelled>>
  BY DEF Invoke, Due, Pop
<1> USE DEF TaskInv
<1>2. /\ holder \in Seq(DOMAIN tasks) /\ tasks \in Seq(Task)
      /\ contexts \in [DOMAIN tasks -> {"none", "fresh", "consumed"}] /\ runs \in [DOMAIN tasks -> Nat]
  BY DEF TypeOK
<1>3. /\ Lined(holder', DOMAIN tasks, EndsOf(tasks)) /\ t \in DOMAIN tasks
      /\ Members(holder') = Members(holder) \ {t} /\ t \in Members(holder)
  BY <1>1, TailLined
<1> HIDE DEF t
<1>4. /\ runs' \in [DOMAIN tasks -> Nat] /\ runs'[t] = runs[t] + 1
      /\ \A u \in DOMAIN tasks : u # t => runs'[u] = runs[u] /\ contexts'[u] = contexts[u]
      /\ contexts' \in [DOMAIN tasks -> {"none", "fresh", "consumed"}] /\ contexts'[t] = "fresh"
  BY <1>1, <1>2, <1>3
<1>5. TypeOK'
  BY <1>1, <1>3, <1>4 DEF TypeOK, Lined
<1>6. ASSUME NEW u \in DOMAIN tasks
      PROVE  /\ u \in Members(holder') \cup cancelled => contexts'[u] # "fresh"
             /\ u \in Members(holder') => u \notin cancelled
             /\ alive /\ contexts'[u] # "fresh" => u \in Members(holder') \cup cancelled
             /\ alive => runs'[u] = tasks[u].repeated + (IF contexts'[u] = "fresh" THEN 1 ELSE 0)
  <2>1. CASE u = t
    <3>1. t \notin cancelled /\ contexts[t] # "fresh"
      BY <1>3 DEF Accounts
    <3>2. alive => runs[t] = tasks[t].repeated + 0
      BY <3>1, <1>3 DEF Accounts
    <3>3. tasks[t].repeated \in Nat
      BY <1>2, <1>3, TaskFacts DEF Task
    <3>4. alive => runs'[t] = tasks[t].repeated + 1
      BY <3>2, <3>3, <1>4
    <3>5. t \notin Members(holder')
      BY <1>3
    <3>6. contexts'[t] = "fresh"
      BY <1>4
    <3> QED
      BY <2>1, <3>1, <3>4, <3>5, <3>6
  <2>2. CASE u # t
    BY <2>2, <1>3, <1>4 DEF Accounts
  <2> QED
    BY <2>1, <2>2
<1>7. Accounts(tasks, holder, contexts, cancelled, runs, alive)'
  BY <1>1, <1>6 DEF Accounts
<1> QED
  BY <1>1, <1>3, <1>5, <1>7

-----------------------------------------------------------------------------
(***************************************************************************)
(* The theorems                                                            *)
(***************************************************************************)
LEMMA TaskStep == TaskInv /\ [Next]_vars => TaskInv'
<1> SUFFICES ASSUME TaskInv, [Next]_vars PROVE TaskInv'
  OBVIOUS
<1>t. TypeOK
  BY DEF TaskInv
\* What touches no task.
<1>1. CASE \/ Async \/ SetValidator \/ RunAsync \/ AsyncReturns \/ AsyncsDone \/ TaskReturns
           \/ Finish \/ UNCHANGED vars \/ \E d \in Durations : UpdateBy(d) \/ Update(d)
  <2>1. UNCHANGED <<tasks, holder, contexts, histVars, alive>>
    BY <1>1 DEF Async, SetValidator, RunAsync, AsyncReturns, AsyncsDone, TaskReturns, Finish, vars,
                UpdateBy, Update, Tick, queueVars
  <2> QED
    BY <1>1, <1>t, <2>1, OthersKeep, OthersTyped
<1>2. CASE CancelAll
  BY <1>2, CancelAllKeeps
<1>3. ASSUME NEW d \in Durations, NEW g \in Groups \cup {NoGroup},
             Schedule(d, g) \/ \E t \in DOMAIN tasks : ContextSchedule(t, d, g)
      PROVE  TaskInv'
  <2>1. now \in Nat /\ \A t \in DOMAIN tasks : tasks[t].end \in Nat
    BY <1>t, TaskFacts DEF TypeOK, Task
  <2>2. PICK base \in Nat : Calling /\ alive /\ ScheduleAt(base, d, g)
    BY <1>3, <2>1 DEF Schedule, ContextSchedule
  <2> QED
    BY <2>2, ScheduleKeeps
<1>4. ASSUME NEW d \in Durations, NEW t \in DOMAIN tasks, Repeat(t, d) PROVE TaskInv'
  BY <1>4, RepeatKeeps
<1>5. ASSUME NEW d \in Durations, NEW S, Modify(S, Delayed(d)) \/ Modify(S, Rescheduled(d)) PROVE TaskInv'
  BY <1>5, DelaysKeep
<1>6. ASSUME NEW d \in Durations,
             \/ DelayAll(d) \/ RescheduleAll(d)
             \/ \E g \in Groups : DelayGroup(g, d) \/ RescheduleGroup(g, d)
      PROVE  TaskInv'
  BY <1>5, <1>6 DEF DelayAll, RescheduleAll, DelayGroup, RescheduleGroup
<1>7. ASSUME NEW G, CancelGroupsOf(G) PROVE TaskInv'
  BY <1>7, CancelGroupsKeeps
<1>8. ASSUME NEW t \in DOMAIN tasks, NEW g \in Groups \cup {NoGroup}, SetGroup(t, g) PROVE TaskInv'
  BY <1>8, SetGroupKeeps
<1>9. CASE Destroy
  BY <1>9, DestroyKeeps
<1>10. CASE Invoke
  BY <1>10, InvokeKeeps
<1>11. CASE Methods
  <2>1. CASE Async \/ CancelAll \/ SetValidator
    BY <2>1, <1>1, <1>2
  <2>2. ASSUME NEW d \in Durations,
               \/ \E g \in Groups \cup {NoGroup} :
                    Schedule(d, g) \/ \E t \in DOMAIN tasks : ContextSchedule(t, d, g)
               \/ \E t \in DOMAIN tasks :
                    Repeat(t, d) \/ ContextDelays(t, d) \/ ContextReschedules(t, d)
               \/ DelayAll(d) \/ RescheduleAll(d)
               \/ \E g \in Groups : DelayGroup(g, d) \/ RescheduleGroup(g, d)
        PROVE  TaskInv'
    BY <2>2, <1>3, <1>4, <1>6 DEF ContextDelays, ContextReschedules
  <2>3. CASE \E G \in SUBSET Groups : CancelGroupsOf(G)
    BY <2>3, <1>7
  <2>4. ASSUME NEW t \in DOMAIN tasks,
               ContextCancels(t) \/ \E g \in Groups \cup {NoGroup} : SetGroup(t, g)
        PROVE  TaskInv'
    BY <2>4, <1>1, <1>2, <1>7, <1>8 DEF ContextCancels
  <2> QED
    BY <1>11, <2>1, <2>2, <2>3, <2>4 DEF Methods
<1>12. CASE Dispatch
  BY <1>12, <1>1, <1>10 DEF Dispatch
<1>13. CASE \E d \in Durations : UpdateBy(d) \/ Update(d)
  BY <1>13, <1>1
<1> QED
  BY <1>1, <1>9, <1>11, <1>12, <1>13 DEF Next

THEOREM TaskInvariant == Spec => []TaskInv
<1>1. Init => TaskInv
  BY InitTaskInv
<1>2. TaskInv /\ [Next]_vars => TaskInv'
  BY TaskStep
<1> QED
  BY <1>1, <1>2, PTL DEF Spec

\* The multiset of the scheduler stays in the order of the ends (First() and each
\* insertion of TaskQueue rely on it), though the ends of its tasks change.
THEOREM OrderKept == Spec => []SchedulerInv
<1>1. TaskInv => SchedulerInv
  <2> SUFFICES ASSUME TaskInv PROVE SchedulerInv
    OBVIOUS
  <2>1. /\ TypeOK /\ Lined(holder, DOMAIN tasks, EndsOf(tasks))
        /\ holder \in Seq(DOMAIN tasks) /\ tasks \in Seq(Task)
    BY DEF TaskInv, TypeOK
  <2>2. Len(holder) \in Nat /\ DOMAIN holder = 1 .. Len(holder)
        /\ \A k \in 1 .. Len(holder) : holder[k] \in DOMAIN tasks
    BY <2>1, MembersIn
  <2>3. \A t \in DOMAIN tasks : EndsOf(tasks)[t] = tasks[t].end
    BY <2>1, TaskFacts
  <2>4. ASSUME NEW k \in 1 .. Len(holder) - 1
        PROVE  tasks[holder[k]].end <= tasks[holder[k + 1]].end
    <3>1. k \in 1 .. Len(holder) /\ k + 1 \in 1 .. Len(holder) /\ k <= k + 1
      BY <2>2
    <3>2. EndsOf(tasks)[holder[k]] <= EndsOf(tasks)[holder[k + 1]]
      BY <3>1, <2>1, <2>2 DEF Lined, Sorted
    <3> QED
      BY <3>1, <3>2, <2>2, <2>3
  <2> QED
    BY <2>1, <2>4 DEF SchedulerInv, Ordered
<1> QED
  BY <1>1, TaskInvariant, PTL

\* Whatever callables and owners do with contexts, groups, delays and cancels, each
\* Schedule() and each Repeat() is one invocation, had, awaited or cancelled.
THEOREM RunsCounted == Spec => []RunsAreScheduled
<1>1. TaskInv => RunsAreScheduled
  <2> SUFFICES ASSUME TaskInv, alive, NEW t \in DOMAIN tasks
               PROVE  runs[t] + Waiting(t) + (IF t \in cancelled THEN 1 ELSE 0) = tasks[t].repeated + 1
    BY DEF RunsAreScheduled
  <2>1. /\ holder \in Seq(DOMAIN tasks) /\ tasks \in Seq(Task) /\ Distinct(holder)
        /\ runs[t] \in Nat
    BY DEF TaskInv, TypeOK, Lined
  <2>2. tasks[t].repeated \in Nat
    BY <2>1, TaskFacts DEF Task
  <2>3. Waiting(t) = IF t \in Members(holder) THEN 1 ELSE 0
    <3>1. CASE t \in Members(holder)
      <4>1. PICK k \in DOMAIN holder : holder[k] = t
        BY <3>1 DEF Members
      <4>2. {j \in DOMAIN holder : holder[j] = t} = {k}
        BY <4>1, <2>1 DEF Distinct
      <4> QED
        BY <3>1, <4>2, FS_Singleton DEF Waiting
    <3>2. CASE t \notin Members(holder)
      <4>1. {j \in DOMAIN holder : holder[j] = t} = {}
        BY <3>2 DEF Members
      <4> QED
        BY <3>2, <4>1, FS_EmptySet DEF Waiting
    <3> QED
      BY <3>1, <3>2
  <2>4. /\ t \in Members(holder) \cup cancelled => contexts[t] # "fresh"
        /\ t \in Members(holder) => t \notin cancelled
        /\ contexts[t] # "fresh" => t \in Members(holder) \cup cancelled
        /\ runs[t] = tasks[t].repeated + (IF contexts[t] = "fresh" THEN 1 ELSE 0)
    BY DEF TaskInv, Accounts
  <2>5. CASE contexts[t] = "fresh"
    BY <2>1, <2>2, <2>3, <2>4, <2>5
  <2>6. CASE contexts[t] # "fresh"
    BY <2>1, <2>2, <2>3, <2>4, <2>6
  <2> QED
    BY <2>5, <2>6
<1> QED
  BY <1>1, TaskInvariant, PTL

\* A cancelled task does not run again: nothing that is left of it can be repeated.
THEOREM CancelsAreFinal == Spec => []CancelledIsFinal
<1>1. TaskInv => CancelledIsFinal
  BY DEF TaskInv, TypeOK, Accounts, CancelledIsFinal
<1> QED
  BY <1>1, TaskInvariant, PTL
=============================================================================
