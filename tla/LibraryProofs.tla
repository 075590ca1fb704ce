--------------------------- MODULE LibraryProofs ---------------------------
(***************************************************************************)
(* Proofs about units of Library, for every value of their constants.      *)
(***************************************************************************)
EXTENDS Library, FiniteSetTheorems, SequenceTheorems, WellFoundedInduction, TLAPS

-----------------------------------------------------------------------------
(***************************************************************************)
(* PacketQueue                                                             *)
(***************************************************************************)

\* Moving the head of a sequence to the end of the one in front changes nothing.
LEMMA HeadMoves ==
    ASSUME NEW S, NEW a \in Seq(S), NEW b \in Seq(S), b # << >>
    PROVE  /\ Append(a, Head(b)) \in Seq(S) /\ Tail(b) \in Seq(S)
           /\ Append(a, Head(b)) \o Tail(b) = a \o b
<1> DEFINE h == Append(a, Head(b))
           t == Tail(b)
<1>1. Head(b) \in S /\ t \in Seq(S) /\ Len(t) = Len(b) - 1 /\ Head(b) = b[1]
      /\ \A i \in 1 .. Len(t) : t[i] = b[i + 1]
  BY HeadTailProperties
<1>2. h \in Seq(S) /\ Len(h) = Len(a) + 1 /\ h[Len(a) + 1] = Head(b)
      /\ \A i \in 1 .. Len(a) : h[i] = a[i]
  BY <1>1
<1>3. Len(a) \in Nat /\ Len(b) \in Nat /\ Len(b) # 0
  BY EmptySeq
<1> HIDE DEF h, t
<1>4. /\ h \o t \in Seq(S) /\ Len(h \o t) = Len(h) + Len(t)
      /\ \A i \in 1 .. Len(h) + Len(t) :
            (h \o t)[i] = IF i <= Len(h) THEN h[i] ELSE t[i - Len(h)]
  BY <1>1, <1>2, ConcatProperties
<1>5. /\ a \o b \in Seq(S) /\ Len(a \o b) = Len(a) + Len(b)
      /\ \A i \in 1 .. Len(a) + Len(b) :
            (a \o b)[i] = IF i <= Len(a) THEN a[i] ELSE b[i - Len(a)]
  BY ConcatProperties
<1>6. Len(h \o t) = Len(a \o b)
  BY <1>1, <1>2, <1>3, <1>4, <1>5
<1>7. ASSUME NEW i \in 1 .. Len(a \o b) PROVE (h \o t)[i] = (a \o b)[i]
  <2>1. i \in 1 .. Len(a) + Len(b) /\ i \in 1 .. Len(h) + Len(t)
    BY <1>1, <1>2, <1>3, <1>5
  <2>2. CASE i <= Len(a)
    BY <2>1, <2>2, <1>2, <1>3, <1>4, <1>5
  <2>3. CASE i = Len(a) + 1
    BY <2>1, <2>3, <1>1, <1>2, <1>3, <1>4, <1>5
  <2>4. CASE i > Len(a) + 1
    <3>1. i - Len(h) \in 1 .. Len(t) /\ (i - Len(h)) + 1 = i - Len(a)
      BY <2>1, <2>4, <1>1, <1>2, <1>3
    <3>2. t[i - Len(h)] = b[i - Len(a)]
      BY <3>1, <1>1
    <3> QED
      BY <3>2, <2>1, <2>4, <1>2, <1>3, <1>4, <1>5
  <2> QED
    BY <1>3, <2>1, <2>2, <2>3, <2>4
<1>8. h \o t = a \o b
  BY <1>4, <1>5, <1>6, <1>7, SeqEqual
<1> QED
  BY <1>1, <1>2, <1>8 DEF h, t

\* What is appended to the second of two sequences is appended to both.
LEMMA AppendMoves ==
    ASSUME NEW S, NEW a \in Seq(S), NEW b \in Seq(S), NEW e \in S
    PROVE  a \o Append(b, e) = Append(a \o b, e)
<1>1. Append(b, e) = b \o <<e>> /\ <<e>> \in Seq(S)
  OBVIOUS
<1>2. a \o b \in Seq(S)
  BY ConcatProperties
<1>3. Append(a \o b, e) = (a \o b) \o <<e>>
  BY <1>2
<1>4. (a \o b) \o <<e>> = a \o (b \o <<e>>)
  BY <1>1, ConcatAssociative
<1> QED
  BY <1>1, <1>3, <1>4

\* The numbers up to n and the next one.
LEMMA NumbersGrow ==
    ASSUME NEW n \in Nat
    PROVE  /\ [i \in 1 .. n |-> i] \in Seq(Nat)
           /\ Append([i \in 1 .. n |-> i], n + 1) = [i \in 1 .. n + 1 |-> i]
<1> DEFINE s == [i \in 1 .. n |-> i]
           t == [i \in 1 .. n + 1 |-> i]
<1>1. s \in Seq(Nat) /\ Len(s) = n /\ t \in Seq(Nat) /\ Len(t) = n + 1
  OBVIOUS
<1>2. /\ Append(s, n + 1) \in Seq(Nat) /\ Len(Append(s, n + 1)) = n + 1
      /\ \A i \in 1 .. n + 1 : Append(s, n + 1)[i] = t[i]
  BY <1>1
<1> QED
  BY <1>1, <1>2, SeqEqual

\* What PacketsInOrder rests on: the destructor comes last.
QueueInv ==
    /\ _queue \in Seq(Nat) /\ container \in Seq(Nat) /\ handled \in Seq(Nat) /\ deleted \in Seq(Nat)
    /\ accepted \in Nat
    /\ deleted # << >> => _queue = << >> /\ container = << >>
    /\ Queue!PacketsInOrder

LEMMA QueueInit == Init => QueueInv
<1> SUFFICES ASSUME Init PROVE QueueInv
  OBVIOUS
<1>1. /\ _queue = << >> /\ container = << >> /\ handled = << >> /\ deleted = << >> /\ accepted = 0
  BY DEF Init, Queue!Init
<1>2. << >> \in Seq(Nat) /\ (((<< >> \o << >>) \o << >>) \o << >>) = << >>
  BY EmptySeq, ConcatEmptySeq
<1>3. [i \in 1 .. 0 |-> i] = << >>
  OBVIOUS
<1> QED
  BY <1>1, <1>2, <1>3 DEF QueueInv, Queue!PacketsInOrder

LEMMA QueueKept == QueueInv /\ [Next]_vars => QueueInv'
<1> SUFFICES ASSUME QueueInv, [Next]_vars PROVE QueueInv'
  OBVIOUS
<1> DEFINE Texts == Seq(Nat)
<1>a. \A a, b \in Texts : b # << >> =>
          /\ Append(a, Head(b)) \in Texts /\ Tail(b) \in Texts
          /\ Append(a, Head(b)) \o Tail(b) = a \o b
  BY HeadMoves
<1>b. \A a, b \in Texts : \A e \in Nat : a \o Append(b, e) = Append(a \o b, e)
  BY AppendMoves
<1>c. \A a, b, c \in Texts : (a \o b) \o c = a \o (b \o c)
  <2>1. \A a, b, c \in Seq(Nat) : (a \o b) \o c = a \o (b \o c)
    BY ConcatAssociative, SMTT(30)
  <2> QED
    BY <2>1
<1>d. \A a, b \in Texts : a \o b \in Texts
  BY ConcatProperties
<1>t. /\ _queue \in Texts /\ container \in Texts /\ handled \in Texts /\ deleted \in Texts
      /\ accepted \in Nat
  BY DEF QueueInv
<1> HIDE DEF Texts
<1> USE DEF QueueInv, Queue!PacketsInOrder
<1>1. /\ handled \o container \in Texts /\ (handled \o container) \o _queue \in Texts
      /\ \A s \in Texts : s \o << >> = s /\ << >> \o s = s
      /\ << >> \in Texts
  BY <1>d, <1>t, ConcatEmptySeq, EmptySeq DEF Texts
<1>2. CASE UNCHANGED queueVars
  BY <1>2 DEF queueVars
<1>3. CASE Queue!AddPacket
  <2>1. /\ deleted = << >> /\ accepted' = accepted + 1 /\ _queue' = Append(_queue, accepted + 1)
        /\ UNCHANGED <<container, handled, deleted>>
    BY <1>3 DEF Queue!AddPacket
  <2>2. accepted + 1 \in Nat /\ _queue' \in Texts
    BY <2>1, <1>t DEF Texts
  <2>3. (handled \o container) \o _queue = [i \in 1 .. accepted |-> i]
    BY <2>1, <1>1
  <2>4. (handled \o container) \o Append(_queue, accepted + 1) = [i \in 1 .. accepted + 1 |-> i]
    <3> HIDE DEF QueueInv
    <3>1. (handled \o container) \o Append(_queue, accepted + 1)
              = Append((handled \o container) \o _queue, accepted + 1)
      BY <1>b, <1>d, <1>t
    <3> QED
      BY <3>1, <2>3, NumbersGrow DEF QueueInv
  <2>5. (handled \o container) \o Append(_queue, accepted + 1) \in Texts
    BY <1>1, <1>d, <2>1, <2>2
  <2> QED
    BY <2>1, <2>2, <2>4, <2>5, <1>1, <1>t DEF Texts
<1>4. ASSUME _queue # << >>, container = << >>, handled' = Append(handled, Head(_queue)),
             _queue' = Tail(_queue), UNCHANGED <<accepted, container, deleted>>
      PROVE  QueueInv'
  <2>1. /\ handled' \in Texts /\ _queue' \in Texts
        /\ handled' \o _queue' = handled \o _queue
    BY <1>4, <1>a, <1>t
  <2>2. ((handled' \o container') \o _queue') \o deleted' = ((handled \o container) \o _queue) \o deleted
    <3>1. handled \o container = handled /\ handled' \o container' = handled'
      BY <1>1, <1>4, <1>t, <2>1
    <3> QED
      BY <3>1, <2>1, <1>4
  <2> QED
    BY <1>4, <1>t, <2>1, <2>2 DEF Texts
<1>5. CASE Queue!GetNextPacket
  BY <1>4, <1>5 DEF Queue!GetNextPacket
<1>6. CASE Queue!GetNextPacketIf
  <2>1. CASE UNCHANGED <<_queue, handled>>
    BY <1>6, <2>1 DEF Queue!GetNextPacketIf
  <2>2. CASE _queue' = Tail(_queue) /\ handled' = Append(handled, result')
    BY <1>4, <1>6, <2>2 DEF Queue!GetNextPacketIf
  <2> QED
    BY <1>6, <2>1, <2>2 DEF Queue!GetNextPacketIf
<1>7. CASE Queue!Collect
  <2>1. /\ _queue # << >> /\ container' = Append(container, Head(_queue)) /\ _queue' = Tail(_queue)
        /\ UNCHANGED <<accepted, handled, deleted>>
    BY <1>7 DEF Queue!Collect
  <2>2. /\ container' \in Texts /\ _queue' \in Texts
        /\ container' \o _queue' = container \o _queue
    BY <2>1, <1>a, <1>t
  <2>3. (handled \o container') \o _queue' = (handled \o container) \o _queue
    <3>1. (handled \o container') \o _queue' = handled \o (container' \o _queue')
      <4>1. \A c, q \in Texts : (handled \o c) \o q = handled \o (c \o q)
        BY <1>c, <1>t, Zenon
      <4> QED
        BY <2>2, <4>1
    <3>2. (handled \o container) \o _queue = handled \o (container \o _queue)
      BY <1>c, <1>t
    <3> QED
      BY <3>1, <3>2, <2>2
  <2>4. deleted' = << >>
    BY <2>1
  <2> QED
    BY <2>1, <2>2, <2>3, <2>4, <1>t DEF Texts
<1>8. CASE Queue!HandleCollected
  <2>1. /\ container # << >> /\ handled' = Append(handled, Head(container)) /\ container' = Tail(container)
        /\ UNCHANGED <<_queue, accepted, deleted>>
    BY <1>8 DEF Queue!HandleCollected
  <2>2. /\ handled' \in Texts /\ container' \in Texts
        /\ handled' \o container' = handled \o container
    BY <2>1, <1>a, <1>t
  <2>3. deleted' = << >>
    BY <2>1
  <2> QED
    BY <2>1, <2>2, <2>3, <1>t DEF Texts
<1>9. CASE Queue!ReadContainer
  <2>1. /\ container # << >> /\ _queue' = container \o _queue /\ container' = << >>
        /\ UNCHANGED <<accepted, handled, deleted>>
    BY <1>9 DEF Queue!ReadContainer
  <2>2. _queue' \in Texts /\ handled \o _queue' = (handled \o container) \o _queue
    <3>1. container \o _queue \in Texts
      BY <1>d, <1>t, Zenon
    <3>2. handled \o (container \o _queue) = (handled \o container) \o _queue
      BY <1>c, <1>t, Zenon
    <3> QED
      BY <2>1, <3>1, <3>2
  <2>3. handled \o container' = handled
    BY <1>1, <1>t, <2>1
  <2>4. deleted' = << >>
    BY <2>1
  <2>5. container' \in Texts
    BY <1>1, <2>1
  <2> QED
    BY <2>1, <2>2, <2>3, <2>4, <2>5, <1>t DEF Texts
<1>10. CASE Queue!Cancel
  BY <1>10 DEF Queue!Cancel
<1>11. CASE Queue!Destroy
  <2>1. /\ container = << >> /\ _queue # << >> /\ deleted' = _queue /\ _queue' = << >>
        /\ UNCHANGED <<accepted, container, handled>>
    BY <1>11 DEF Queue!Destroy
  <2>2. deleted = << >>
    BY <2>1
  <2>3. (handled \o container) \o << >> = handled \o container
    BY <1>1, <1>t
  <2>4. ((handled \o container) \o _queue) \o << >> = (handled \o container) \o _queue
    BY <1>1
  <2> QED
    BY <1>1, <1>t, <2>1, <2>2, <2>3, <2>4 DEF Texts
<1>12. Queue!Next \/ UNCHANGED queueVars
  BY DEF Next, PacketStep, ProcessStep, CallbacksStep, TimerStep, LocationStep, QueueStep, LoginStep,
         CipherStep, vars
<1> QED
  BY <1>2, <1>3, <1>5, <1>6, <1>7, <1>8, <1>9, <1>10, <1>11, <1>12 DEF Queue!Next

\* PacketQueue: packets are handled in the order they were added, each once, whatever
\* check() refused or readd() put back; the rest is what the destructor deletes.
THEOREM OrderCorrect == Spec => []PacketsInOrder
<1>1. QueueInv => PacketsInOrder
  BY DEF QueueInv, PacketsInOrder
<1> QED
  BY <1>1, QueueInit, QueueKept, PTL DEF Spec

-----------------------------------------------------------------------------
(***************************************************************************)
(* AsyncCallbackProcessor                                                  *)
(***************************************************************************)

\* How often c is in a list, in the part of a list behind its first k, in a set.
Occurs(c, list) == Cardinality({i \in DOMAIN list : list[i] = c})
Pending(c, list, k) == Cardinality({i \in k + 1 .. Len(list) : list[i] = c})
Within(c, S) == Cardinality({c} \cap S)

LEMMA WithinCounts ==
    ASSUME NEW c, NEW S
    PROVE  Within(c, S) = IF c \in S THEN 1 ELSE 0
<1>1. CASE c \in S
  <2>1. {c} \cap S = {c}
    BY <1>1
  <2> QED
    BY <1>1, <2>1, FS_Singleton DEF Within
<1>2. CASE c \notin S
  <2>1. {c} \cap S = {}
    BY <1>2
  <2> QED
    BY <1>2, <2>1, FS_EmptySet DEF Within
<1> QED
  BY <1>1, <1>2

LEMMA PendingCounts ==
    ASSUME NEW S, NEW list \in Seq(S), NEW c, NEW k \in 0 .. Len(list)
    PROVE  /\ IsFiniteSet({i \in k + 1 .. Len(list) : list[i] = c})
           /\ Pending(c, list, k) \in Nat
           /\ Pending(c, list, k) = 0 <=> \A i \in k + 1 .. Len(list) : list[i] # c
           /\ Pending(c, list, Len(list)) = 0
           /\ Occurs(c, list) = Pending(c, list, 0)
<1> DEFINE places(j) == {i \in j + 1 .. Len(list) : list[i] = c}
<1>1. Len(list) \in Nat /\ DOMAIN list = 1 .. Len(list)
  BY LenProperties
<1>2. IsFiniteSet(places(k))
  <2>1. IsFiniteSet(k + 1 .. Len(list))
    BY <1>1, FS_Interval
  <2> QED
    BY <2>1, FS_Subset
<1>3. Cardinality(places(k)) \in Nat /\ (Cardinality(places(k)) = 0 <=> places(k) = {})
  BY <1>2, FS_CardinalityType, FS_EmptySet
<1>4. places(Len(list)) = {}
  BY <1>1
<1>5. {i \in DOMAIN list : list[i] = c} = places(0)
  BY <1>1
<1> QED
  BY <1>2, <1>3, <1>4, <1>5, FS_EmptySet DEF Pending, Occurs

LEMMA PendingNext ==
    ASSUME NEW S, NEW list \in Seq(S), NEW c, NEW k \in 0 .. Len(list), k < Len(list)
    PROVE  Pending(c, list, k) = Pending(c, list, k + 1) + (IF list[k + 1] = c THEN 1 ELSE 0)
<1> DEFINE rest == {i \in (k + 1) + 1 .. Len(list) : list[i] = c}
           all == {i \in k + 1 .. Len(list) : list[i] = c}
<1>1. Len(list) \in Nat /\ k + 1 \in 0 .. Len(list)
  BY LenProperties
<1>2. IsFiniteSet(rest) /\ Cardinality(rest) \in Nat
  <2> DEFINE j == k + 1
  <2>1. j \in 0 .. Len(list)
    BY <1>1
  <2> HIDE DEF j
  <2>2. IsFiniteSet({i \in j + 1 .. Len(list) : list[i] = c}) /\ Pending(c, list, j) \in Nat
    BY <2>1, PendingCounts
  <2> QED
    BY <2>2 DEF j, Pending
<1>3. k + 1 \notin rest
  OBVIOUS
<1>6. Pending(c, list, k) = Cardinality(all) /\ Pending(c, list, k + 1) = Cardinality(rest)
  BY DEF Pending
<1>4. CASE list[k + 1] = c
  <2>1. all = rest \cup {k + 1}
    BY <1>1, <1>4
  <2>2. Cardinality(rest \cup {k + 1}) = Cardinality(rest) + 1
    <3> HIDE DEF rest
    <3> QED
      BY <1>2, <1>3, FS_AddElement
  <2> HIDE DEF all, rest
  <2> QED
    BY <1>4, <1>6, <2>1, <2>2
<1>5. CASE list[k + 1] # c
  <2>1. all = rest
    BY <1>1, <1>5
  <2> HIDE DEF all, rest
  <2> QED
    BY <1>2, <1>5, <1>6, <2>1
<1> QED
  BY <1>4, <1>5

LEMMA OccursCounts ==
    ASSUME NEW S, NEW list \in Seq(S), NEW c
    PROVE  /\ IsFiniteSet({i \in DOMAIN list : list[i] = c})
           /\ Occurs(c, list) \in Nat
           /\ Occurs(c, list) = 0 <=> \A i \in 1 .. Len(list) : list[i] # c
<1>1. DOMAIN list = 1 .. Len(list) /\ Len(list) \in Nat /\ 0 \in 0 .. Len(list)
  BY LenProperties
<1>2. {i \in DOMAIN list : list[i] = c} = {i \in 0 + 1 .. Len(list) : list[i] = c}
  BY <1>1
<1>3. IsFiniteSet({i \in 0 + 1 .. Len(list) : list[i] = c})
  BY <1>1, PendingCounts
<1>4. /\ Occurs(c, list) = Pending(c, list, 0) /\ Pending(c, list, 0) \in Nat
      /\ Pending(c, list, 0) = 0 <=> \A i \in 0 + 1 .. Len(list) : list[i] # c
  BY <1>1, PendingCounts
<1>5. 0 + 1 .. Len(list) = 1 .. Len(list)
  OBVIOUS
<1> QED
  BY <1>2, <1>3, <1>4, <1>5

LEMMA OccursEmpty == \A c : Occurs(c, << >>) = 0 /\ Pending(c, << >>, 0) = 0
<1>1. ASSUME NEW c PROVE {i \in DOMAIN << >> : << >>[i] = c} = {}
  OBVIOUS
<1>2. ASSUME NEW c PROVE {i \in 0 + 1 .. Len(<< >>) : << >>[i] = c} = {}
  OBVIOUS
<1> QED
  BY <1>1, <1>2, FS_EmptySet DEF Occurs, Pending

LEMMA OccursAppended ==
    ASSUME NEW S, NEW list \in Seq(S), NEW c, NEW e \in S
    PROVE  Occurs(c, Append(list, e)) = Occurs(c, list) + (IF e = c THEN 1 ELSE 0)
<1> DEFINE n == Len(list)
           old == {i \in DOMAIN list : list[i] = c}
           new == {i \in DOMAIN Append(list, e) : Append(list, e)[i] = c}
<1>1. n \in Nat /\ DOMAIN list = 1 .. n /\ DOMAIN Append(list, e) = 1 .. n + 1
      /\ Append(list, e)[n + 1] = e /\ \A i \in 1 .. n : Append(list, e)[i] = list[i]
  OBVIOUS
<1>2. IsFiniteSet(old) /\ Cardinality(old) \in Nat
  BY OccursCounts DEF Occurs
<1>3. n + 1 \notin old
  BY <1>1
<1>6. Occurs(c, list) = Cardinality(old) /\ Occurs(c, Append(list, e)) = Cardinality(new)
  BY DEF Occurs
<1> HIDE DEF n
<1>4. CASE e = c
  <2>1. new = old \cup {n + 1}
    BY <1>1, <1>4
  <2>2. Cardinality(old \cup {n + 1}) = Cardinality(old) + 1
    <3> HIDE DEF old
    <3> QED
      BY <1>2, <1>3, FS_AddElement
  <2> HIDE DEF old, new
  <2> QED
    BY <1>4, <1>6, <2>1, <2>2
<1>5. CASE e # c
  <2>1. new = old
    BY <1>1, <1>5
  <2> HIDE DEF old, new
  <2> QED
    BY <1>2, <1>5, <1>6, <2>1
<1> QED
  BY <1>4, <1>5

LEMMA OccursJoined ==
    ASSUME NEW S, NEW a \in Seq(S), NEW b \in Seq(S), NEW c
    PROVE  Occurs(c, a \o b) = Occurs(c, a) + Occurs(c, b)
<1> DEFINE n == Len(a)
           A == {i \in DOMAIN a : a[i] = c}
           B == {i \in DOMAIN b : b[i] = c}
           C == {i + n : i \in B}
           D == {i \in DOMAIN (a \o b) : (a \o b)[i] = c}
<1>1. /\ n \in Nat /\ DOMAIN a = 1 .. n /\ Len(b) \in Nat /\ DOMAIN b = 1 .. Len(b)
      /\ DOMAIN (a \o b) = 1 .. n + Len(b)
      /\ \A i \in 1 .. n + Len(b) : (a \o b)[i] = IF i <= n THEN a[i] ELSE b[i - n]
  BY ConcatProperties, LenProperties
<1>2. IsFiniteSet(A) /\ IsFiniteSet(B) /\ Cardinality(A) \in Nat /\ Cardinality(B) \in Nat
  BY OccursCounts DEF Occurs
<1> HIDE DEF n
<1>3. ExistsBijection(B, C)
  <2> DEFINE f == [i \in B |-> i + n]
  <2>1. B \subseteq Nat
    BY <1>1
  <2>2. f \in Injection(B, C)
    BY <1>1, <2>1 DEF Injection, IsInjective
  <2>3. f \in Surjection(B, C)
    BY DEF Surjection
  <2> QED
    BY <2>2, <2>3 DEF ExistsBijection, Bijection
<1>4. IsFiniteSet(C) /\ Cardinality(C) = Cardinality(B)
  <2> HIDE DEF B, C
  <2> QED
    BY <1>2, <1>3, FS_Bijection
<1>5. A \cap C = {}
  BY <1>1
<1>6. D = A \cup C
  <2>1. ASSUME NEW i \in D PROVE i \in A \cup C
    <3>1. CASE i <= n
      BY <2>1, <3>1, <1>1
    <3>2. CASE ~(i <= n)
      <4>1. i \in 1 .. n + Len(b) /\ (a \o b)[i] = c
        BY <2>1, <1>1
      <4>2. b[i - n] = c
        BY <4>1, <3>2, <1>1
      <4>3. i - n \in 1 .. Len(b) /\ (i - n) + n = i
        BY <4>1, <3>2, <1>1
      <4>4. i - n \in B
        BY <4>2, <4>3, <1>1
      <4> QED
        BY <4>3, <4>4
    <3> QED
      BY <3>1, <3>2
  <2>2. ASSUME NEW i \in A PROVE i \in D
    BY <2>2, <1>1
  <2>3. ASSUME NEW j \in B PROVE j + n \in D
    <3>1. j \in 1 .. Len(b) /\ b[j] = c
      BY <1>1
    <3>2. j + n \in 1 .. n + Len(b) /\ ~(j + n <= n) /\ (j + n) - n = j
      BY <3>1, <1>1
    <3> QED
      BY <3>1, <3>2, <1>1
  <2> QED
    BY <2>1, <2>2, <2>3
<1>7. Cardinality(A \cup C) = Cardinality(A) + Cardinality(C)
  <2> HIDE DEF A, C
  <2>1. Cardinality(A \cup C) = Cardinality(A) + Cardinality(C) - Cardinality(A \cap C)
    BY <1>2, <1>4, FS_Union
  <2>2. Cardinality(A \cap C) = 0
    BY <1>5, FS_EmptySet
  <2> QED
    BY <2>1, <2>2, <1>2, <1>4
<1> QED
  BY <1>4, <1>6, <1>7 DEF Occurs

\* EachCallbackOnce, and the types it rests on, of any values of the variables.
ListsOK(n, cbs, up, k, kp, iv, ls) ==
    /\ n \in Nat /\ cbs \in Seq(1 .. n) /\ up \in Seq(1 .. n) /\ kp \in Seq(1 .. n) /\ iv \in Seq(1 .. n)
    /\ k \in 0 .. Len(up) /\ ls \subseteq 1 .. n
    /\ up = << >> => kp = << >>
Once(c, cbs, up, k, kp, iv, ls, rd) ==
    /\ Occurs(c, cbs) + Occurs(c, kp) + Pending(c, up, k) + Occurs(c, iv) + Within(c, ls) = 1
    /\ Occurs(c, iv) = 1 => c \in rd

CallbacksInv ==
    /\ ListsOK(added, callbacks, updateCallbacks, asked, kept, invoked, lost)
    /\ \A c \in 1 .. added : Once(c, callbacks, updateCallbacks, asked, kept, invoked, lost, ready)

\* AsyncCallbacks counts with the same operator.
LEMMA SameCardinality == \A S : Callbacks!Cardinality(S) = Cardinality(S)
  BY DEF Cardinality, Callbacks!Cardinality

LEMMA CallbacksInvIs == CallbacksInv => EachCallbackOnce
<1> SUFFICES ASSUME CallbacksInv, NEW c \in 1 .. added
             PROVE  /\ Callbacks!Waiting(c) + Callbacks!Count(c, invoked)
                          + Callbacks!Cardinality({c} \cap lost) = 1
                    /\ Callbacks!Count(c, invoked) = 1 => c \in ready
  BY DEF EachCallbackOnce, Callbacks!EachCallbackOnce
<1>1. \A list : Callbacks!Count(c, list) = Occurs(c, list)
  BY SameCardinality DEF Callbacks!Count, Occurs
<1>2. Callbacks!Cardinality({c} \cap lost) = Within(c, lost)
  BY SameCardinality DEF Within
<1>3. Callbacks!Waiting(c) = Occurs(c, callbacks) + Occurs(c, kept) + Pending(c, updateCallbacks, asked)
  BY <1>1, SameCardinality DEF Callbacks!Waiting, Pending
<1> QED
  BY <1>1, <1>2, <1>3 DEF CallbacksInv, Once

\* The numbers of places are numbers, and 0 for what was not added.
LEMMA PlacesCount ==
    ASSUME NEW n, NEW cbs, NEW up, NEW k, NEW kp, NEW iv, NEW ls, ListsOK(n, cbs, up, k, kp, iv, ls), NEW c
    PROVE  /\ Occurs(c, cbs) \in Nat /\ Occurs(c, kp) \in Nat /\ Occurs(c, iv) \in Nat
           /\ Pending(c, up, k) \in Nat /\ Within(c, ls) \in {0, 1} /\ (Within(c, ls) = 1 <=> c \in ls)
           /\ c \notin 1 .. n => /\ Occurs(c, cbs) = 0 /\ Occurs(c, kp) = 0 /\ Occurs(c, iv) = 0
                                 /\ Pending(c, up, k) = 0 /\ Within(c, ls) = 0
<1> DEFINE S == 1 .. n
<1>1. /\ cbs \in Seq(S) /\ up \in Seq(S) /\ kp \in Seq(S) /\ iv \in Seq(S) /\ k \in 0 .. Len(up)
      /\ ls \subseteq S
  BY DEF ListsOK
<1>2. ASSUME NEW list \in Seq(S), NEW i \in 1 .. Len(list) PROVE list[i] \in S
  BY ElementOfSeq
<1>6. Len(up) \in Nat
  BY <1>1, LenProperties
<1> HIDE DEF S
<1>3. ASSUME NEW list \in Seq(S)
      PROVE  Occurs(c, list) \in Nat /\ (c \notin S => Occurs(c, list) = 0)
  <2>1. /\ Occurs(c, list) \in Nat
        /\ Occurs(c, list) = 0 <=> \A i \in 1 .. Len(list) : list[i] # c
    BY OccursCounts
  <2>2. \A i \in 1 .. Len(list) : list[i] \in S
    BY <1>2
  <2> QED
    BY <2>1, <2>2
<1>4. Pending(c, up, k) \in Nat /\ (c \notin S => Pending(c, up, k) = 0)
  <2>1. ASSUME NEW i \in k + 1 .. Len(up) PROVE up[i] \in S
    BY <1>1, <1>2, <1>6
  <2>2. /\ Pending(c, up, k) \in Nat
        /\ Pending(c, up, k) = 0 <=> \A i \in k + 1 .. Len(up) : up[i] # c
    BY <1>1, PendingCounts
  <2> QED
    BY <2>1, <2>2
<1>5. Within(c, ls) = IF c \in ls THEN 1 ELSE 0
  BY WithinCounts
<1>7. c \notin S => c \notin ls
  BY <1>1
<1>8. /\ Occurs(c, cbs) \in Nat /\ (c \notin S => Occurs(c, cbs) = 0)
      /\ Occurs(c, kp) \in Nat /\ (c \notin S => Occurs(c, kp) = 0)
      /\ Occurs(c, iv) \in Nat /\ (c \notin S => Occurs(c, iv) = 0)
  BY <1>1, <1>3
<1> QED
  BY <1>4, <1>5, <1>7, <1>8 DEF S

LEMMA CallbacksInit == Init => CallbacksInv
<1> SUFFICES ASSUME Init PROVE CallbacksInv
  OBVIOUS
<1>1. /\ added = 0 /\ callbacks = << >> /\ updateCallbacks = << >> /\ asked = 0 /\ kept = << >>
      /\ invoked = << >> /\ lost = {}
  BY DEF Init, Callbacks!Init
<1>2. << >> \in Seq(1 .. 0) /\ Len(<< >>) = 0
  BY EmptySeq
<1>3. 1 .. 0 = {}
  OBVIOUS
<1> QED
  BY <1>1, <1>2, <1>3 DEF CallbacksInv, ListsOK

LEMMA CallbacksKept == CallbacksInv /\ [Next]_vars => CallbacksInv'
<1> SUFFICES ASSUME CallbacksInv, [Next]_vars PROVE CallbacksInv'
  OBVIOUS
<1> DEFINE S == 1 .. added
           u == updateCallbacks
<1>1. ListsOK(added, callbacks, u, asked, kept, invoked, lost)
  BY DEF CallbacksInv
<1>2. /\ added \in Nat /\ callbacks \in Seq(S) /\ u \in Seq(S) /\ kept \in Seq(S) /\ invoked \in Seq(S)
      /\ asked \in 0 .. Len(u) /\ lost \subseteq S /\ (u = << >> => kept = << >>)
      /\ Len(u) \in Nat
  BY <1>1, LenProperties DEF ListsOK
<1>3. ASSUME NEW c
      PROVE  /\ Occurs(c, callbacks) \in Nat /\ Occurs(c, kept) \in Nat /\ Occurs(c, invoked) \in Nat
             /\ Pending(c, u, asked) \in Nat /\ Within(c, lost) \in {0, 1}
             /\ (Within(c, lost) = 1 <=> c \in lost)
             /\ c \notin S => /\ Occurs(c, callbacks) = 0 /\ Occurs(c, kept) = 0 /\ Occurs(c, invoked) = 0
                              /\ Pending(c, u, asked) = 0 /\ Within(c, lost) = 0
  BY <1>1, PlacesCount
<1>4. ASSUME NEW c \in S
      PROVE  /\ Occurs(c, callbacks) + Occurs(c, kept) + Pending(c, u, asked) + Occurs(c, invoked)
                    + Within(c, lost) = 1
             /\ Occurs(c, invoked) = 1 => c \in ready
  BY DEF CallbacksInv, Once
\* The sum, when a callback is invoked.
<1>0. ASSUME NEW cb \in Nat, NEW kp \in Nat, NEW pd \in Nat, NEW iv \in Nat, NEW ls \in Nat,
             NEW d \in {0, 1}, cb + kp + (pd + d) + iv + ls = 1
      PROVE  /\ cb + kp + pd + (iv + d) + ls = 1
             /\ iv + d = 1 <=> iv = 1 \/ d = 1
             /\ cb + 0 + 0 + (iv + d) + (IF ls = 1 \/ kp # 0 \/ pd # 0 THEN 1 ELSE 0) = 1
  BY <1>0
<1>17. ASSUME u # << >>, asked < Len(u), NEW c \in S,
              \A x : Pending(x, u, asked) =
                        Pending(x, u, asked + 1) + (IF Callbacks!Asking = x THEN 1 ELSE 0),
              Pending(c, u, asked + 1) \in Nat, Callbacks!Asking \in ready,
              NEW iv, iv = Occurs(c, invoked) + (IF Callbacks!Asking = c THEN 1 ELSE 0)
       PROVE  /\ Occurs(c, callbacks) + Occurs(c, kept) + Pending(c, u, asked + 1) + iv + Within(c, lost) = 1
              /\ iv = 1 => c \in ready
              /\ Occurs(c, callbacks) + 0 + 0 + iv
                    + (IF c \in lost \/ Occurs(c, kept) # 0 \/ Pending(c, u, asked + 1) # 0 THEN 1 ELSE 0) = 1
  <2> DEFINE cb == Occurs(c, callbacks)
             kp == Occurs(c, kept)
             pd == Pending(c, u, asked + 1)
             io == Occurs(c, invoked)
             ls == Within(c, lost)
             d == IF Callbacks!Asking = c THEN 1 ELSE 0
  <2>1. cb \in Nat /\ kp \in Nat /\ pd \in Nat /\ io \in Nat /\ ls \in Nat /\ d \in {0, 1}
    BY <1>3, <1>17
  <2>2. cb + kp + Pending(c, u, asked) + io + ls = 1 /\ Pending(c, u, asked) = pd + d /\ iv = io + d
    BY <1>4, <1>17
  <2>3. (io = 1 => c \in ready) /\ (ls = 1 <=> c \in lost) /\ (d = 1 => c \in ready)
    BY <1>3, <1>4, <1>17
  <2> HIDE DEF cb, kp, pd, io, ls, d
  <2>4. cb + kp + (pd + d) + io + ls = 1
    BY <2>2
  <2>5. /\ cb + kp + pd + (io + d) + ls = 1
        /\ io + d = 1 <=> io = 1 \/ d = 1
        /\ cb + 0 + 0 + (io + d) + (IF ls = 1 \/ kp # 0 \/ pd # 0 THEN 1 ELSE 0) = 1
    BY <2>1, <2>4, <1>0
  <2>6. /\ cb + kp + pd + iv + ls = 1
        /\ iv = 1 => c \in ready
        /\ cb + 0 + 0 + iv + (IF c \in lost \/ kp # 0 \/ pd # 0 THEN 1 ELSE 0) = 1
    BY <2>2, <2>3, <2>5
  <2> QED
    BY <2>6 DEF cb, kp, pd, ls
\* One more callback, behind those there are.
<1>5. ASSUME added' = added + 1, callbacks' = Append(callbacks, added + 1)
      PROVE  /\ 1 .. added' = S \cup {added + 1} /\ callbacks' \in Seq(1 .. added')
             /\ \A T : T \in Seq(S) => T \in Seq(1 .. added')
             /\ \A c : Occurs(c, callbacks') = Occurs(c, callbacks) + (IF added + 1 = c THEN 1 ELSE 0)
  <2>1. 1 .. added' = S \cup {added + 1}
    BY <1>2, <1>5
  <2>2. \A T : T \in Seq(S) => T \in Seq(1 .. added')
    <3>1. S \subseteq 1 .. added'
      BY <2>1
    <3> QED
      BY <3>1, SeqMonotonic
  <2>3. callbacks \in Seq(1 .. added') /\ added + 1 \in 1 .. added'
    BY <1>2, <2>1, <2>2
  <2>4. callbacks' \in Seq(1 .. added')
    BY <1>5, <2>3
  <2>5. ASSUME NEW c PROVE Occurs(c, callbacks') = Occurs(c, callbacks) + (IF added + 1 = c THEN 1 ELSE 0)
    <3> DEFINE R == 1 .. added'
    <3>1. callbacks \in Seq(R) /\ added + 1 \in R
      BY <2>3
    <3> HIDE DEF R
    <3> QED
      BY <3>1, <1>5, OccursAppended
  <2> QED
    BY <2>1, <2>2, <2>4, <2>5
<1>6. added + 1 \notin S
  BY <1>2
<1>7. CASE UNCHANGED callbacksVars
  BY <1>7 DEF callbacksVars, CallbacksInv, ListsOK, Once
<1>8. CASE Callbacks!AddCallback
  <2>1. /\ callbacks' = Append(callbacks, added + 1) /\ added' = added + 1
        /\ UNCHANGED <<updateCallbacks, asked, kept, ready, invoked, lost>>
    BY <1>8 DEF Callbacks!AddCallback
  <2>2. ListsOK(added', callbacks', u', asked', kept', invoked', lost')
    BY <1>2, <1>5, <2>1 DEF ListsOK
  <2>3. ASSUME NEW c \in 1 .. added'
        PROVE  Once(c, callbacks', u', asked', kept', invoked', lost', ready')
    <3>1. CASE c \in S
      <4>1. Occurs(c, callbacks') = Occurs(c, callbacks)
        BY <3>1, <1>3, <1>5, <1>6, <2>1
      <4> QED
        BY <3>1, <4>1, <1>4, <2>1 DEF Once
    <3>2. CASE c = added + 1
      BY <3>2, <1>3, <1>5, <1>6, <2>1 DEF Once
    <3> QED
      BY <1>5, <2>1, <3>1, <3>2
  <2> QED
    BY <2>2, <2>3 DEF CallbacksInv
<1>9. CASE Callbacks!ResultArrives
  BY <1>9 DEF Callbacks!ResultArrives, CallbacksInv, ListsOK, Once
<1>10. CASE Callbacks!ProcessReadyCallbacks
  <2>1. /\ u = << >> /\ u' = callbacks /\ callbacks' = << >> /\ asked' = 0 /\ kept' = << >>
        /\ UNCHANGED <<added, ready, invoked, lost>>
    BY <1>10 DEF Callbacks!ProcessReadyCallbacks, Callbacks!Processing
  <2>2. kept = << >> /\ asked = Len(u) /\ << >> \in Seq(S) /\ 0 \in 0 .. Len(callbacks)
    BY <1>2, <2>1, EmptySeq, LenProperties
  <2>3. ListsOK(added', callbacks', u', asked', kept', invoked', lost')
    BY <1>2, <2>1, <2>2 DEF ListsOK
  <2>4. ASSUME NEW c \in 1 .. added'
        PROVE  Once(c, callbacks', u', asked', kept', invoked', lost', ready')
    <3>1. Occurs(c, << >>) = 0
      BY OccursEmpty
    <3>2. Pending(c, u, asked) = 0
      BY <1>2, <2>2, PendingCounts
    <3>3. Pending(c, callbacks, 0) = Occurs(c, callbacks)
      BY <1>2, <2>2, PendingCounts
    <3> QED
      BY <1>3, <1>4, <2>1, <2>2, <3>1, <3>2, <3>3 DEF Once
  <2> QED
    BY <2>3, <2>4 DEF CallbacksInv
\* The callback that is asked next.
<1>11. ASSUME u # << >>, asked < Len(u)
       PROVE  /\ Callbacks!Asking \in S /\ asked + 1 \in 0 .. Len(u)
              /\ \A c : Pending(c, u, asked) =
                        Pending(c, u, asked + 1) + (IF Callbacks!Asking = c THEN 1 ELSE 0)
              /\ \A c : Pending(c, u, asked + 1) \in Nat
              /\ \A list \in Seq(S) : /\ Append(list, Callbacks!Asking) \in Seq(S)
                                      /\ \A c : Occurs(c, Append(list, Callbacks!Asking)) =
                                            Occurs(c, list) + (IF Callbacks!Asking = c THEN 1 ELSE 0)
  <2>1. asked + 1 \in 1 .. Len(u) /\ asked + 1 \in 0 .. Len(u)
    BY <1>2, <1>11
  <2>2. Callbacks!Asking = u[asked + 1] /\ Callbacks!Asking \in S
    BY <1>2, <2>1, ElementOfSeq DEF Callbacks!Asking
  <2>3. ASSUME NEW c
        PROVE  Pending(c, u, asked) = Pending(c, u, asked + 1) + (IF u[asked + 1] = c THEN 1 ELSE 0)
    BY <1>2, <1>11, PendingNext
  <2>4. ASSUME NEW c PROVE Pending(c, u, asked + 1) \in Nat
    <3> DEFINE j == asked + 1
    <3>1. j \in 0 .. Len(u)
      BY <2>1
    <3> HIDE DEF j
    <3>2. Pending(c, u, j) \in Nat
      BY <1>2, <3>1, PendingCounts
    <3> QED
      BY <3>2 DEF j
  <2>5. ASSUME NEW list \in Seq(S), NEW c
        PROVE  /\ Append(list, u[asked + 1]) \in Seq(S)
               /\ Occurs(c, Append(list, u[asked + 1])) =
                      Occurs(c, list) + (IF u[asked + 1] = c THEN 1 ELSE 0)
    <3> DEFINE e == u[asked + 1]
    <3>1. e \in S
      BY <2>2
    <3> HIDE DEF e, S
    <3>2. Append(list, e) \in Seq(S) /\ Occurs(c, Append(list, e)) = Occurs(c, list) + (IF e = c THEN 1 ELSE 0)
      BY <3>1, OccursAppended
    <3> QED
      BY <3>2 DEF e
  <2> QED
    BY <2>1, <2>2, <2>3, <2>4, <2>5
<1>12. CASE Callbacks!NotReady
  <2>1. /\ u # << >> /\ asked < Len(u) /\ asked' = asked + 1
        /\ kept' = Append(kept, Callbacks!Asking)
        /\ UNCHANGED <<callbacks, updateCallbacks, added, ready, invoked, lost>>
    BY <1>12 DEF Callbacks!NotReady, Callbacks!Processing
  <2>2. kept' \in Seq(S)
    BY <1>2, <1>11, <2>1
  <2>3. ListsOK(added', callbacks', u', asked', kept', invoked', lost')
    BY <1>2, <1>11, <2>1, <2>2 DEF ListsOK
  <2>4. ASSUME NEW c \in 1 .. added'
        PROVE  Once(c, callbacks', u', asked', kept', invoked', lost', ready')
    <3>1. Occurs(c, kept') = Occurs(c, kept) + (IF Callbacks!Asking = c THEN 1 ELSE 0)
      BY <1>2, <1>11, <2>1
    <3>2. /\ Pending(c, u, asked) = Pending(c, u, asked + 1) + (IF Callbacks!Asking = c THEN 1 ELSE 0)
          /\ Pending(c, u, asked + 1) \in Nat
      BY <1>11, <2>1
    <3>3. c \in S
      BY <2>1
    <3> DEFINE cb == Occurs(c, callbacks)
               kp == Occurs(c, kept)
               pd == Pending(c, u, asked + 1)
               iv == Occurs(c, invoked)
               ls == Within(c, lost)
               d == IF Callbacks!Asking = c THEN 1 ELSE 0
    <3>4. /\ cb \in Nat /\ kp \in Nat /\ pd \in Nat /\ iv \in Nat /\ ls \in Nat /\ d \in {0, 1}
          /\ Pending(c, u, asked) = pd + d /\ Occurs(c, kept') = kp + d
      BY <1>3, <3>1, <3>2
    <3>5. cb + kp + Pending(c, u, asked) + iv + ls = 1 /\ (iv = 1 => c \in ready)
      BY <1>4, <3>3
    <3> HIDE DEF cb, kp, pd, iv, ls, d
    <3>6. cb + (kp + d) + pd + iv + ls = 1
      BY <3>4, <3>5
    <3>7. cb + Occurs(c, kept') + pd + iv + ls = 1
      BY <3>4, <3>6
    <3> QED
      BY <2>1, <3>5, <3>7 DEF Once, cb, pd, iv, ls
  <2> QED
    BY <2>3, <2>4 DEF CallbacksInv
<1>13. CASE Callbacks!InvokeIfReady
  <2>1. /\ u # << >> /\ asked < Len(u) /\ Callbacks!Asking \in ready /\ asked' = asked + 1
        /\ invoked' = Append(invoked, Callbacks!Asking)
        /\ UNCHANGED <<updateCallbacks, kept, ready, lost>>
    BY <1>13 DEF Callbacks!InvokeIfReady, Callbacks!Processing
  <2>2. invoked' \in Seq(S)
    BY <1>2, <1>11, <2>1
  <2>3. ASSUME NEW c
        PROVE  /\ Occurs(c, invoked') = Occurs(c, invoked) + (IF Callbacks!Asking = c THEN 1 ELSE 0)
               /\ Pending(c, u, asked) = Pending(c, u, asked + 1) + (IF Callbacks!Asking = c THEN 1 ELSE 0)
               /\ Pending(c, u, asked + 1) \in Nat
    BY <1>2, <1>11, <2>1
  <2>6. ASSUME NEW c \in S
        PROVE  /\ Occurs(c, callbacks) + Occurs(c, kept) + Pending(c, u, asked + 1) + Occurs(c, invoked')
                      + Within(c, lost) = 1
               /\ Occurs(c, invoked') = 1 => c \in ready
    <3> DEFINE iv == Occurs(c, invoked')
    <3>1. iv = Occurs(c, invoked) + (IF Callbacks!Asking = c THEN 1 ELSE 0)
      BY <2>3
    <3> HIDE DEF iv
    <3>2. /\ Occurs(c, callbacks) + Occurs(c, kept) + Pending(c, u, asked + 1) + iv + Within(c, lost) = 1
          /\ iv = 1 => c \in ready
      BY <1>17, <2>1, <2>3, <3>1
    <3> QED
      BY <3>2 DEF iv
  <2>4. CASE UNCHANGED <<callbacks, added>>
    <3>1. ListsOK(added', callbacks', u', asked', kept', invoked', lost')
      BY <1>2, <1>11, <2>1, <2>2, <2>4 DEF ListsOK
    <3>2. ASSUME NEW c \in 1 .. added'
          PROVE  Once(c, callbacks', u', asked', kept', invoked', lost', ready')
      <4>1. c \in S
        BY <2>4
      <4> QED
        BY <2>1, <2>4, <2>6, <4>1 DEF Once
    <3> QED
      BY <3>1, <3>2 DEF CallbacksInv
  <2>5. CASE callbacks' = Append(callbacks, added + 1) /\ added' = added + 1
    <3>1. ListsOK(added', callbacks', u', asked', kept', invoked', lost')
      BY <1>2, <1>5, <1>11, <2>1, <2>2, <2>5 DEF ListsOK
    <3>2. ASSUME NEW c \in 1 .. added'
          PROVE  Once(c, callbacks', u', asked', kept', invoked', lost', ready')
      <4>1. Occurs(c, callbacks') = Occurs(c, callbacks) + (IF added + 1 = c THEN 1 ELSE 0)
        BY <1>5, <2>5
      <4>2. CASE c \in S
        <5>1. Occurs(c, callbacks') = Occurs(c, callbacks)
          BY <4>1, <4>2, <1>3, <1>6
        <5> QED
          BY <2>1, <2>6, <4>2, <5>1 DEF Once
      <4>3. CASE c = added + 1
        <5>1. Callbacks!Asking # c
          BY <1>6, <1>11, <2>1, <4>3
        <5> QED
          BY <1>3, <1>6, <2>1, <2>3, <4>1, <4>3, <5>1 DEF Once
      <4> QED
        BY <1>5, <2>5, <4>2, <4>3
    <3> QED
      BY <3>1, <3>2 DEF CallbacksInv
  <2> QED
    BY <1>13, <2>4, <2>5 DEF Callbacks!InvokeIfReady, Callbacks!Invocation
<1>14. CASE Callbacks!CallbackThrows
  <2> DEFINE dropped == {kept[i] : i \in DOMAIN kept} \cup {u[i] : i \in asked + 2 .. Len(u)}
  <2>1. /\ u # << >> /\ asked < Len(u) /\ Callbacks!Asking \in ready
        /\ invoked' = Append(invoked, Callbacks!Asking)
        /\ lost' = lost \cup dropped
        /\ u' = << >> /\ asked' = 0 /\ kept' = << >>
        /\ UNCHANGED ready
    BY <1>14 DEF Callbacks!CallbackThrows, Callbacks!Processing
  <2>2. invoked' \in Seq(S) /\ << >> \in Seq(S) /\ Len(<< >>) = 0
    BY <1>2, <1>11, <2>1, EmptySeq
  <2>3. ASSUME NEW c
        PROVE  c \in dropped <=> Occurs(c, kept) # 0 \/ Pending(c, u, asked + 1) # 0
    <3>1. Occurs(c, kept) # 0 <=> \E i \in DOMAIN kept : kept[i] = c
      <4>1. Occurs(c, kept) = 0 <=> \A i \in 1 .. Len(kept) : kept[i] # c
        BY <1>2, OccursCounts
      <4>2. DOMAIN kept = 1 .. Len(kept)
        BY <1>2, LenProperties
      <4> QED
        BY <4>1, <4>2
    <3>2. Pending(c, u, asked + 1) # 0 <=> \E i \in asked + 2 .. Len(u) : u[i] = c
      <4> DEFINE j == asked + 1
      <4>1. j \in 0 .. Len(u) /\ j + 1 = asked + 2
        BY <1>2, <1>11, <2>1
      <4> HIDE DEF j
      <4>2. Pending(c, u, j) = 0 <=> \A i \in j + 1 .. Len(u) : u[i] # c
        BY <1>2, <4>1, PendingCounts
      <4> QED
        BY <4>1, <4>2 DEF j
    <3> QED
      BY <3>1, <3>2
  <2>4. dropped \subseteq S
    <3>1. ASSUME NEW i \in DOMAIN kept PROVE kept[i] \in S
      BY <1>2, ElementOfSeq, LenProperties
    <3>2. ASSUME NEW i \in asked + 2 .. Len(u) PROVE u[i] \in S
      <4>1. i \in 1 .. Len(u)
        BY <1>2
      <4> QED
        BY <1>2, <4>1, ElementOfSeq
    <3> QED
      BY <3>1, <3>2
  <2> HIDE DEF dropped
  <2>5. /\ << >> \in Seq(S) /\ lost \cup dropped \subseteq S
        /\ \A c : Occurs(c, kept') = 0 /\ Pending(c, u', asked') = 0
    BY <1>2, <2>1, <2>2, <2>4, OccursEmpty
\* A callback that was there.
  <2>6. ASSUME NEW c \in S
        PROVE  /\ Occurs(c, callbacks) + 0 + 0 + Occurs(c, invoked') + Within(c, lost') = 1
               /\ Occurs(c, invoked') = 1 => c \in ready
    <3>1. /\ Occurs(c, invoked') = Occurs(c, invoked) + (IF Callbacks!Asking = c THEN 1 ELSE 0)
          /\ Pending(c, u, asked) = Pending(c, u, asked + 1) + (IF Callbacks!Asking = c THEN 1 ELSE 0)
          /\ Pending(c, u, asked + 1) \in Nat
      BY <1>2, <1>11, <2>1
    <3>2. Within(c, lost') = IF c \in lost \/ c \in dropped THEN 1 ELSE 0
      BY <2>1, WithinCounts
    <3> DEFINE iv == Occurs(c, invoked')
    <3>3. iv = Occurs(c, invoked) + (IF Callbacks!Asking = c THEN 1 ELSE 0)
      BY <3>1
    <3>4. \A x : Pending(x, u, asked) =
                    Pending(x, u, asked + 1) + (IF Callbacks!Asking = x THEN 1 ELSE 0)
      BY <1>11, <2>1
    <3> HIDE DEF iv
    <3>5. /\ iv = 1 => c \in ready
          /\ Occurs(c, callbacks) + 0 + 0 + iv
                + (IF c \in lost \/ Occurs(c, kept) # 0 \/ Pending(c, u, asked + 1) # 0 THEN 1 ELSE 0) = 1
      BY <1>17, <2>1, <3>1, <3>3, <3>4
    <3>6. Within(c, lost') =
              IF c \in lost \/ Occurs(c, kept) # 0 \/ Pending(c, u, asked + 1) # 0 THEN 1 ELSE 0
      BY <2>3, <3>2
    <3>7. /\ Occurs(c, callbacks) + 0 + 0 + iv + Within(c, lost') = 1
          /\ iv = 1 => c \in ready
      BY <3>5, <3>6
    <3> QED
      BY <3>7 DEF iv
  <2>7. CASE UNCHANGED <<callbacks, added>>
    <3>1. ListsOK(added', callbacks', u', asked', kept', invoked', lost')
      BY <1>2, <2>1, <2>2, <2>5, <2>7 DEF ListsOK
    <3>2. ASSUME NEW c \in 1 .. added'
          PROVE  Once(c, callbacks', u', asked', kept', invoked', lost', ready')
      <4>1. c \in S
        BY <2>7
      <4> QED
        BY <2>1, <2>5, <2>6, <2>7, <4>1 DEF Once
    <3> QED
      BY <3>1, <3>2 DEF CallbacksInv
\* The callback added one and threw: it stays in the member.
  <2>8. CASE callbacks' = Append(callbacks, added + 1) /\ added' = added + 1
    <3>1. ListsOK(added', callbacks', u', asked', kept', invoked', lost')
      <4>1. /\ S \subseteq 1 .. added' /\ added' \in Nat /\ callbacks' \in Seq(1 .. added')
            /\ invoked' \in Seq(1 .. added') /\ << >> \in Seq(1 .. added')
        BY <1>2, <1>5, <2>2, <2>8
      <4> QED
        BY <2>1, <2>2, <2>5, <4>1 DEF ListsOK
    <3>2. ASSUME NEW c \in 1 .. added'
          PROVE  Once(c, callbacks', u', asked', kept', invoked', lost', ready')
      <4>1. Occurs(c, callbacks') = Occurs(c, callbacks) + (IF added + 1 = c THEN 1 ELSE 0)
        BY <1>5, <2>8
      <4>2. CASE c \in S
        <5>1. Occurs(c, callbacks') = Occurs(c, callbacks)
          BY <4>1, <4>2, <1>3, <1>6
        <5> QED
          BY <2>1, <2>5, <2>6, <4>2, <5>1 DEF Once
      <4>3. CASE c = added + 1
        <5>1. Callbacks!Asking # c /\ c \notin S
          BY <1>6, <1>11, <2>1, <4>3
        <5>2. Occurs(c, callbacks') = 1
          BY <1>3, <4>1, <4>3, <5>1
        <5>3. Occurs(c, invoked') = 0
          <6>1. Occurs(c, invoked') = Occurs(c, invoked) + (IF Callbacks!Asking = c THEN 1 ELSE 0)
            BY <1>2, <1>11, <2>1
          <6>2. Occurs(c, invoked) = 0
            BY <1>3, <5>1
          <6> QED
            BY <5>1, <6>1, <6>2
        <5>4. Within(c, lost') = 0
          BY <2>1, <2>5, <5>1, WithinCounts
        <5> QED
          BY <2>5, <5>2, <5>3, <5>4 DEF Once
      <4> QED
        BY <1>5, <2>8, <4>2, <4>3
    <3> QED
      BY <3>1, <3>2 DEF CallbacksInv
  <2> QED
    BY <1>14, <2>7, <2>8 DEF Callbacks!CallbackThrows, Callbacks!Invocation
<1>15. CASE Callbacks!PutBack
  <2>1. /\ u # << >> /\ asked = Len(u) /\ callbacks' = callbacks \o kept
        /\ u' = << >> /\ asked' = 0 /\ kept' = << >>
        /\ UNCHANGED <<added, ready, invoked, lost>>
    BY <1>15 DEF Callbacks!PutBack, Callbacks!Processing
  <2>2. callbacks' \in Seq(S) /\ << >> \in Seq(S) /\ Len(<< >>) = 0
    BY <1>2, <2>1, ConcatProperties, EmptySeq
  <2>3. ListsOK(added', callbacks', u', asked', kept', invoked', lost')
    BY <1>2, <2>1, <2>2 DEF ListsOK
  <2>4. ASSUME NEW c \in 1 .. added'
        PROVE  Once(c, callbacks', u', asked', kept', invoked', lost', ready')
    <3>1. Occurs(c, callbacks') = Occurs(c, callbacks) + Occurs(c, kept)
      <4> HIDE DEF S
      <4> QED
        BY <1>2, <2>1, OccursJoined
    <3>2. Occurs(c, kept') = 0 /\ Pending(c, u', asked') = 0
      BY <2>1, OccursEmpty
    <3>3. Pending(c, u, asked) = 0
      BY <1>2, <2>1, PendingCounts
    <3>4. c \in S
      BY <2>1
    <3> QED
      BY <1>3, <1>4, <2>1, <3>1, <3>2, <3>3, <3>4 DEF Once
  <2> QED
    BY <2>3, <2>4 DEF CallbacksInv
<1>16. Callbacks!Next \/ UNCHANGED callbacksVars
  BY DEF Next, PacketStep, ProcessStep, CallbacksStep, TimerStep, LocationStep, QueueStep, LoginStep,
         CipherStep, vars
<1> QED
  BY <1>7, <1>8, <1>9, <1>10, <1>12, <1>13, <1>14, <1>15, <1>16 DEF Callbacks!Next, Callbacks!Process

\* AsyncCallbackProcessor: a callback that was added waits in one place, or was invoked
\* once, with its result there, or was lost with the exception of another one; also one
\* that a callback adds while the list is gone through.
THEOREM CallbacksCorrect == Spec => []EachCallbackOnce
  BY CallbacksInvIs, CallbacksInit, CallbacksKept, PTL DEF Spec

-----------------------------------------------------------------------------
(***************************************************************************)
(* StartProcess()                                                          *)
(***************************************************************************)
ProcessTypes ==
    /\ script \in Seq(Process!Streams)
    /\ child \in {"none", "writing", "silent", "exited", "killed"}
    /\ pipe \in [Process!Streams -> Nat] /\ logged \in Seq(Process!Streams)
    /\ wpc \in {"start", "out", "err", "waiter", "wait", "return", "done"}
    /\ myChild \in BOOLEAN /\ was_terminated \in BOOLEAN
    /\ future \in {"pending", "threw", "ok", "failed"}
    /\ tpc \in {"idle", "found", "kill", "undefined"}

\* Where the worker has got to, and what it knows by then: a stream has ended when its
\* pipe is empty and the child no longer writes.
WorkerKnows ==
    /\ future = "pending" <=> wpc # "done"
    /\ child = "none" <=> wpc = "start" \/ future = "threw"
    /\ child # "writing" => script = << >>
    /\ wpc \in {"start", "out"} \/ future = "threw" => \A i \in DOMAIN logged : logged[i] = "out"
    /\ wpc \notin {"start", "out"} /\ future # "threw" => pipe["out"] = 0 /\ child # "writing"
    /\ wpc \notin {"start", "out", "err"} /\ future # "threw" => pipe["err"] = 0
    /\ wpc \in {"return", "done"} /\ future # "threw" => child \in {"exited", "killed"}
    /\ \A i, j \in DOMAIN logged : i < j /\ logged[i] = "err" => logged[j] = "err"

\* What Terminate() finds: a child only between SetChild and the end of Wait, and a kill
\* is announced before it happens.
OwnerKnows ==
    /\ myChild => wpc = "wait"
    /\ tpc # "idle" => wpc \in {"wait", "return", "done"} /\ future # "threw"
    /\ tpc = "kill" \/ child = "killed" => was_terminated
    /\ future = "ok" => child = "exited" /\ exitCode = 0

ProcessInv == ProcessTypes /\ WorkerKnows /\ OwnerKnows

LEMMA ProcessInvIs == ProcessInv => SuccessIsTheChilds
  BY DEF ProcessInv, ProcessTypes, WorkerKnows, OwnerKnows, SuccessIsTheChilds, Process!SuccessIsTheChilds,
         Process!TerminateIsLate, Process!Streams

LEMMA ProcessInit == Init => ProcessInv
<1> SUFFICES ASSUME Process!Init PROVE ProcessInv
  BY DEF Init
<1>1. << >> \in Seq(Process!Streams) /\ DOMAIN << >> = {}
  BY EmptySeq
<1>2. ProcessTypes
  BY <1>1 DEF Process!Init, ProcessTypes
<1>3. WorkerKnows
  BY <1>1 DEF Process!Init, WorkerKnows
<1>4. OwnerKnows
  BY DEF Process!Init, OwnerKnows
<1> QED
  BY <1>2, <1>3, <1>4 DEF ProcessInv

LEMMA ProcessKept == ProcessInv /\ [Next]_vars => ProcessInv'
<1> SUFFICES ASSUME ProcessInv, [Next]_vars PROVE ProcessInv'
  OBVIOUS
<1> USE DEF ProcessInv, ProcessTypes, WorkerKnows, OwnerKnows, Process!Streams
<1>1. CASE UNCHANGED processVars
  BY <1>1 DEF processVars
<1>2. CASE Process!ChildWrites
  <2>1. script # << >> /\ child = "writing"
    BY <1>2 DEF Process!ChildWrites
  <2>2. Tail(script) \in Seq({"out", "err"}) /\ Head(script) \in {"out", "err"}
    BY <2>1, HeadTailProperties
  <2>3. pipe' \in [{"out", "err"} -> Nat]
    BY <1>2, <2>2 DEF Process!ChildWrites
  <2> QED
    BY <1>2, <2>1, <2>2, <2>3 DEF Process!ChildWrites
<1>3. CASE Process!ChildCloses
  BY <1>3 DEF Process!ChildCloses
<1>4. CASE Process!ChildExits
  BY <1>4 DEF Process!ChildExits
<1>5. CASE Process!Create
  <2>1. ASSUME NEW n \in 0 .. MaxOutput, NEW s \in [1 .. n -> {"out", "err"}] PROVE s \in Seq({"out", "err"})
    BY SeqDef
  <2>2. CASE /\ wpc' = "out" /\ child' = "writing" /\ UNCHANGED future
             /\ script' \in UNION {[1 .. n -> Process!Streams] : n \in 0 .. MaxOutput}
    BY <1>5, <2>1, <2>2 DEF Process!Create
  <2>3. CASE wpc' = "done" /\ future' = "threw" /\ UNCHANGED <<child, script>>
    BY <1>5, <2>3 DEF Process!Create
  <2> QED
    BY <1>5, <2>2, <2>3 DEF Process!Create
<1>6. CASE Process!CopyOutput
  <2>1. ASSUME NEW s \in {"out", "err"}, wpc = s, pipe[s] > 0,
               pipe' = [pipe EXCEPT ![s] = @ - 1], logged' = Append(logged, s),
               UNCHANGED <<script, child, exitCode, wpc, myChild, was_terminated, future, tpc>>
        PROVE  ProcessInv'
    <3>1. /\ logged' \in Seq({"out", "err"}) /\ DOMAIN logged' = DOMAIN logged \cup {Len(logged) + 1}
          /\ DOMAIN logged = 1 .. Len(logged) /\ Len(logged) \in Nat
          /\ logged'[Len(logged) + 1] = s /\ \A i \in DOMAIN logged : logged'[i] = logged[i]
      BY <2>1
    <3>2. pipe' \in [{"out", "err"} -> Nat] /\ \A r \in {"out", "err"} : r # s => pipe'[r] = pipe[r]
      BY <2>1
    <3>3. wpc = "out" => \A i \in DOMAIN logged' : logged'[i] = "out"
      BY <2>1, <3>1
    <3>4. \A i, j \in DOMAIN logged' : i < j /\ logged'[i] = "err" => logged'[j] = "err"
      BY <2>1, <3>1
    <3> QED
      BY <2>1, <3>1, <3>2, <3>3, <3>4
  <2>2. CASE Process!Copy("out", "err")
    <3>1. CASE pipe["out"] > 0
      BY <2>1, <2>2, <3>1 DEF Process!Copy
    <3>2. CASE ~(pipe["out"] > 0)
      BY <2>2, <3>2 DEF Process!Copy
    <3> QED
      BY <3>1, <3>2
  <2>3. CASE Process!Copy("err", "waiter")
    <3>1. CASE pipe["err"] > 0
      BY <2>1, <2>3, <3>1 DEF Process!Copy
    <3>2. CASE ~(pipe["err"] > 0)
      BY <2>3, <3>2 DEF Process!Copy
    <3> QED
      BY <3>1, <3>2
  <2> QED
    BY <1>6, <2>2, <2>3 DEF Process!CopyOutput
<1>7. CASE Process!SetChild
  BY <1>7 DEF Process!SetChild
<1>8. CASE Process!Wait
  BY <1>8 DEF Process!Wait, Process!EXIT_FAILURE
<1>9. CASE Process!Return
  BY <1>9 DEF Process!Return
<1>10. CASE Process!Terminate
  BY <1>10 DEF Process!Terminate
<1>11. CASE Process!SetTerminated
  BY <1>11 DEF Process!SetTerminated
<1>12. CASE Process!Kill
  BY <1>12 DEF Process!Kill
<1>13. Process!Next \/ UNCHANGED processVars
  BY DEF Next, PacketStep, ProcessStep, CallbacksStep, TimerStep, LocationStep, QueueStep, LoginStep,
         CipherStep, vars
<1> QED
  BY <1>1, <1>2, <1>3, <1>4, <1>5, <1>6, <1>7, <1>8, <1>9, <1>10, <1>11, <1>12, <1>13
     DEF Process!Next, Process!Worker, Process!Owner

\* StartProcess(): a result of success is the child's own, with all its output in the
\* log, and Terminate() reaches no child that still writes, however the owner and the
\* worker interleave.
THEOREM ChildCorrect == Spec => []SuccessIsTheChilds
  BY ProcessInvIs, ProcessInit, ProcessKept, PTL DEF Spec

-----------------------------------------------------------------------------
(***************************************************************************)
(* IpLocationStore: the binary search                                      *)
(***************************************************************************)
Ranges == [from : Nat, to : Nat]

\* The induction used here: a set of numbers that is not empty has a least one.
LEMMA Least ==
    ASSUME NEW T \in SUBSET Nat, T # {}
    PROVE  \E m \in T : \A k \in T : m <= k
<1> DEFINE R == {ss \in Nat \X Nat : ss[1] < ss[2]}
<1>1. IsWellFoundedOn(R, Nat)
  BY ONLY NatLessThanWellFounded DEF OpToRel
<1>2. \A y, z \in Nat : y < z => <<y, z>> \in R
  OBVIOUS
<1> HIDE DEF R
<1>3. PICK x \in T : \A y \in T : ~(<<y, x>> \in R)
  BY <1>1, WFMin, Zenon
<1>4. \A y \in T : ~(y < x)
  BY <1>2, <1>3
<1> QED
  BY <1>4

\* The equation of the search in UpperBound, for up to n records.
SearchOf(store, ip, n, f) ==
    f = [len \in 0 .. n |->
            [first \in 1 .. Len(store) + 1 |->
                LET half == len \div 2
                IN IF len = 0 THEN first
                   ELSE IF Location!Before(ip, store[first + half]) THEN f[half][first]
                   ELSE f[len - half - 1][first + half + 1]]]

LEMMA SearchExists ==
    ASSUME NEW store, NEW ip, NEW n \in Nat
    PROVE  \E f : SearchOf(store, ip, n, f)
<1> DEFINE Bad == {m \in Nat : ~ \E f : SearchOf(store, ip, m, f)}
<1> SUFFICES ASSUME Bad # {} PROVE FALSE
  OBVIOUS
<1>1. PICK m \in Bad : \A k \in Bad : m <= k
  BY Least
<1>2. CASE m = 0
  <2>1. SearchOf(store, ip, 0, [len \in 0 .. 0 |-> [first \in 1 .. Len(store) + 1 |-> first]])
    BY DEF SearchOf
  <2> QED
    BY <1>1, <1>2, <2>1
<1>3. CASE m # 0
  <2>1. PICK f : SearchOf(store, ip, m - 1, f)
    BY <1>1, <1>3
  <2> DEFINE step(len, first, e) ==
                 IF len = 0 THEN first
                 ELSE IF Location!Before(ip, store[first + (len \div 2)]) THEN e[len \div 2][first]
                 ELSE e[len - (len \div 2) - 1][first + (len \div 2) + 1]
             row(len, e) == [first \in 1 .. Len(store) + 1 |-> step(len, first, e)]
             h == [len \in 0 .. m |-> IF len = m THEN row(m, f) ELSE f[len]]
  <2>2. f = [len \in 0 .. m - 1 |-> row(len, f)]
    BY <2>1 DEF SearchOf
  <2>3. ASSUME NEW len \in 0 .. m, len # 0
        PROVE  len \div 2 \in 0 .. m - 1 /\ len - (len \div 2) - 1 \in 0 .. m - 1
    BY <1>1, <2>3
  <2>4. ASSUME NEW len \in 0 .. m - 1 PROVE h[len] = f[len]
    BY <1>1, <2>4
  <2>5. ASSUME NEW len \in 0 .. m, NEW first \in 1 .. Len(store) + 1
        PROVE  step(len, first, f) = step(len, first, h)
    <3> HIDE DEF h
    <3> QED
      BY <2>3, <2>4
  <2>6. ASSUME NEW len \in 0 .. m PROVE row(len, f) = row(len, h)
    <3> HIDE DEF h, step
    <3> QED
      BY <2>5
  <2>7. ASSUME NEW len \in 0 .. m PROVE h[len] = row(len, f)
    <3> HIDE DEF row
    <3> QED
      BY <1>1, <1>3, <2>2
  <2>8. h = [len \in 0 .. m |-> row(len, h)]
    <3>1. h = [len \in 0 .. m |-> h[len]]
      OBVIOUS
    <3> HIDE DEF h, row
    <3> QED
      BY <2>6, <2>7, <3>1
  <2>9. SearchOf(store, ip, m, h)
    <3> HIDE DEF h
    <3> QED
      BY <2>8 DEF SearchOf
  <2> QED
    BY <1>1, <2>9
<1> QED
  BY <1>2, <1>3

\* upper_bound() ends at a record that the comparison holds for, or behind the last, and
\* behind one that it does not hold for, or at the first: however the ranges lie.
LEMMA BoundFound ==
    ASSUME NEW store \in Seq(Ranges), NEW ip
    PROVE  LET r == Location!UpperBound(store, ip)
           IN /\ r \in 1 .. Len(store) + 1
              /\ r # Len(store) + 1 => Location!Before(ip, store[r])
              /\ r # 1 => ~Location!Before(ip, store[r - 1])
<1> DEFINE L == Len(store)
           holds(i) == Location!Before(ip, store[i])
           good(first, len, r) == /\ r \in first .. first + len
                                  /\ r # L + 1 => holds(r)
                                  /\ r # 1 => ~holds(r - 1)
           open(first, len) == /\ first + len <= L + 1
                               /\ first + len # L + 1 => holds(first + len)
                               /\ first # 1 => ~holds(first - 1)
<1>1. L \in Nat
  BY LenProperties
<1>2. PICK f : SearchOf(store, ip, L, f) /\ Location!UpperBound(store, ip) = f[L][1]
  <2> DEFINE f == CHOOSE e : SearchOf(store, ip, L, e)
  <2>1. SearchOf(store, ip, L, f)
    BY <1>1, SearchExists
  <2>2. Location!UpperBound(store, ip) = f[L][1]
    BY DEF Location!UpperBound, SearchOf
  <2> QED
    BY <2>1, <2>2
<1>3. ASSUME NEW len \in 0 .. L, NEW first \in 1 .. L + 1
      PROVE  f[len][first] =
                IF len = 0 THEN first
                ELSE IF holds(first + (len \div 2)) THEN f[len \div 2][first]
                ELSE f[len - (len \div 2) - 1][first + (len \div 2) + 1]
  <2>1. f = [k \in 0 .. L |->
                [i \in 1 .. L + 1 |->
                    IF k = 0 THEN i
                    ELSE IF holds(i + (k \div 2)) THEN f[k \div 2][i]
                    ELSE f[k - (k \div 2) - 1][i + (k \div 2) + 1]]]
    BY <1>2 DEF SearchOf
  <2> HIDE DEF holds, L
  <2>2. f[len] = [i \in 1 .. L + 1 |->
                    IF len = 0 THEN i
                    ELSE IF holds(i + (len \div 2)) THEN f[len \div 2][i]
                    ELSE f[len - (len \div 2) - 1][i + (len \div 2) + 1]]
    BY <2>1, Zenon
  <2> QED
    BY <2>2, Zenon
<1> HIDE DEF holds, L
<1> DEFINE Bad == {len \in 0 .. L : \E first \in 1 .. L + 1 :
                                        open(first, len) /\ ~good(first, len, f[len][first])}
<1>4. ASSUME Bad # {} PROVE FALSE
  <2>1. PICK len \in Bad : \A k \in Bad : len <= k
    <3>1. Bad \in SUBSET Nat
      BY <1>1
    <3> HIDE DEF Bad
    <3> QED
      BY <1>4, <3>1, Least
  <2>2. PICK first \in 1 .. L + 1 : open(first, len) /\ ~good(first, len, f[len][first])
    BY <2>1
  <2>3. len \in 0 .. L
    BY <2>1
  <2>b. /\ first + len <= L + 1
        /\ first + len # L + 1 => holds(first + len)
        /\ first # 1 => ~holds(first - 1)
    BY <2>2
  <2>4. len # 0
    <3> SUFFICES ASSUME len = 0 PROVE FALSE
      OBVIOUS
    <3>1. f[len][first] = first
      BY <1>3, <2>2, <2>3
    <3>2. first + len = first /\ first \in first .. first + len
      BY <2>2
    <3>3. good(first, len, first)
      BY <2>b, <3>2
    <3> HIDE DEF good, open
    <3> QED
      BY <2>2, <3>1, <3>3
  <2> DEFINE half == len \div 2
  <2>5. half \in 0 .. len - 1 /\ len - half - 1 \in 0 .. len - 1 /\ first + half \in 1 .. L
    <3>1. len \in Nat /\ len > 0 /\ first \in Nat /\ first >= 1 /\ first + len <= L + 1 /\ L \in Nat
      BY <1>1, <2>3, <2>4, <2>b
    <3>2. half \in Nat /\ half < len
      BY ONLY <3>1
    <3> HIDE DEF half, open, good
    <3> QED
      BY ONLY <3>1, <3>2
  <2>6. ASSUME NEW k \in 0 .. len - 1, NEW i \in 1 .. L + 1, open(i, k) PROVE good(i, k, f[k][i])
    <3>1. k \in 0 .. L /\ ~(len <= k)
      BY <1>1, <2>3
    <3>2. k \notin Bad
      BY <2>1, <3>1
    <3> HIDE DEF good, open
    <3> QED
      BY <2>6, <3>1, <3>2
  <2>7. f[len][first] = IF holds(first + half) THEN f[half][first] ELSE f[len - half - 1][first + half + 1]
    BY <1>3, <2>3, <2>4
  <2> HIDE DEF half
  <2>8. CASE holds(first + half)
    <3>1. open(first, half)
      <4>1. first + half <= L + 1
        BY <1>1, <2>5
      <4> QED
        BY <4>1, <2>8, <2>b
    <3>2. good(first, half, f[half][first])
      BY <2>5, <2>6, <3>1
    <3>3. good(first, len, f[half][first])
      <4>0. first \in Int /\ half \in Int /\ len \in Int /\ half <= len
        BY <1>1, <2>3, <2>5
      <4>1. \A r : r \in first .. first + half => r \in first .. first + len
        BY ONLY <4>0
      <4> QED
        BY <4>1, <3>2
    <3> QED
      BY <2>2, <2>7, <2>8, <3>3
  <2>9. CASE ~holds(first + half)
    <3>0. /\ first + half + 1 \in 1 .. L + 1 /\ (first + half + 1) - 1 = first + half
          /\ (first + half + 1) + (len - half - 1) = first + len
      <4>1. first \in Int /\ half \in Int /\ len \in Int /\ L \in Int
        BY <1>1, <2>3, <2>5
      <4>2. first + half \in 1 .. L
        BY <2>5
      <4>3. first + half + 1 \in 1 .. L + 1
        BY ONLY <4>1, <4>2
      <4>4. (first + half + 1) - 1 = first + half /\ (first + half + 1) + (len - half - 1) = first + len
        BY ONLY <4>1
      <4> QED
        BY <4>3, <4>4
    <3>1. open(first + half + 1, len - half - 1)
      BY <2>2, <2>9, <3>0
    <3>2. good(first + half + 1, len - half - 1, f[len - half - 1][first + half + 1])
      BY <2>5, <2>6, <3>0, <3>1
    <3>3. good(first, len, f[len - half - 1][first + half + 1])
      BY <1>1, <2>2, <2>3, <2>5, <3>0, <3>2
    <3> QED
      BY <2>2, <2>7, <2>9, <3>3
  <2> QED
    BY <2>8, <2>9
<1>5. good(1, L, f[L][1])
  <2>1. open(1, L) /\ L \in 0 .. L /\ 1 \in 1 .. L + 1
    BY <1>1
  <2> HIDE DEF good, open
  <2> QED
    BY <1>4, <2>1
<1> QED
  BY <1>1, <1>2, <1>5 DEF holds, L

\* In a store without overlaps, of ranges that do not end in front of their start, each
\* range ends in front of all later ones.
LEMMA RangesFollow ==
    ASSUME NEW store \in Seq(Ranges), ~Location!Overlap(store),
           \A i \in 1 .. Len(store) : store[i].from <= store[i].to,
           NEW i \in 1 .. Len(store), NEW j \in i + 1 .. Len(store)
    PROVE  store[i].to <= store[j].from
<1> DEFINE Bad == {k \in i + 1 .. Len(store) : ~(store[i].to <= store[k].from)}
<1>1. Len(store) \in Nat /\ \A k \in 1 .. Len(store) : store[k].from \in Nat /\ store[k].to \in Nat
  <2>1. \A k \in 1 .. Len(store) : store[k] \in Ranges
    BY ElementOfSeq
  <2> QED
    BY <2>1, LenProperties DEF Ranges
<1>2. \A k \in 1 .. Len(store) - 1 : store[k].to <= store[k + 1].from
  BY <1>1 DEF Location!Overlap
<1>3. ASSUME Bad # {} PROVE FALSE
  <2>1. PICK m \in Bad : \A k \in Bad : m <= k
    <3>1. Bad \in SUBSET Nat
      BY <1>1
    <3> HIDE DEF Bad
    <3> QED
      BY <1>3, <3>1, Least
  <2>2. m - 1 \in 1 .. Len(store) - 1 /\ (m - 1) + 1 = m /\ m - 1 \in 1 .. Len(store)
    BY <1>1, <2>1
  <2>3. store[m - 1].to <= store[m].from
    BY <1>2, <2>2
  <2>4. CASE m = i + 1
    BY <1>1, <2>1, <2>3, <2>4
  <2>5. CASE m # i + 1
    <3>1. m - 1 \in i + 1 .. Len(store) /\ m - 1 \notin Bad
      BY <1>1, <2>1, <2>5
    <3>2. store[i].to <= store[m - 1].from /\ store[m - 1].from <= store[m - 1].to
      BY <2>2, <3>1
    <3> QED
      BY <1>1, <2>1, <2>2, <2>3, <3>2
  <2> QED
    BY <2>4, <2>5
<1> QED
  BY <1>3

\* A lookup that finds a record finds one that has the address; of ranges that are in
\* order it finds the one that does.
LEMMA LookupFinds ==
    ASSUME NEW store \in Seq(Ranges), NEW ip \in Nat
    PROVE  LET found == Location!GetLocationRecord(store, ip)
           IN /\ \/ found = << >>
                 \/ \E i \in 1 .. Len(store) :
                        found = <<store[i]>> /\ Location!Contains(store[i], ip)
              /\ ~Location!Overlap(store) /\ (\A i \in 1 .. Len(store) : store[i].from <= store[i].to)
                    => \A i \in 1 .. Len(store) :
                            Location!Contains(store[i], ip) => found = <<store[i]>>
<1> DEFINE r == Location!UpperBound(store, ip)
           found == Location!GetLocationRecord(store, ip)
<1>1. Len(store) \in Nat /\ \A k \in 1 .. Len(store) : store[k].from \in Nat /\ store[k].to \in Nat
  <2>1. \A k \in 1 .. Len(store) : store[k] \in Ranges
    BY ElementOfSeq
  <2> QED
    BY <2>1, LenProperties DEF Ranges
<1>2. /\ r \in 1 .. Len(store) + 1
      /\ r # Len(store) + 1 => ip < store[r].to
      /\ r # 1 => ~(ip < store[r - 1].to)
  BY BoundFound DEF Location!Before
<1>3. found = IF r = Len(store) + 1 THEN << >> ELSE IF ip < store[r].from THEN << >> ELSE <<store[r]>>
  BY DEF Location!GetLocationRecord
<1> HIDE DEF r, found
<1>4. \/ found = << >>
      \/ \E i \in 1 .. Len(store) : found = <<store[i]>> /\ Location!Contains(store[i], ip)
  BY <1>1, <1>2, <1>3 DEF Location!Contains
<1>5. ASSUME ~Location!Overlap(store), \A i \in 1 .. Len(store) : store[i].from <= store[i].to,
             NEW i \in 1 .. Len(store), Location!Contains(store[i], ip)
      PROVE  found = <<store[i]>>
  <2>1. store[i].from <= ip /\ ip < store[i].to
    BY <1>5 DEF Location!Contains
  <2>2. ASSUME NEW k \in 1 .. Len(store), NEW l \in k + 1 .. Len(store) PROVE store[k].to <= store[l].from
    BY <1>5, RangesFollow
  <2>3. CASE i < r
    <3>1. r - 1 \in 1 .. Len(store) /\ store[r - 1].to <= ip
      BY <1>1, <1>2, <2>3
    <3>2. CASE i = r - 1
      BY <1>1, <2>1, <3>1, <3>2
    <3>3. CASE i # r - 1
      <4>1. r - 1 \in i + 1 .. Len(store)
        BY <1>1, <1>2, <2>3, <3>3
      <4>2. store[i].to <= store[r - 1].from /\ store[r - 1].from <= store[r - 1].to
        BY <1>5, <2>2, <3>1, <4>1
      <4> QED
        BY <1>1, <2>1, <3>1, <4>2
    <3> QED
      BY <3>2, <3>3
  <2>4. CASE i > r
    <3>1. r \in 1 .. Len(store) /\ i \in r + 1 .. Len(store)
      BY <1>1, <1>2, <2>4
    <3>2. store[r].to <= store[i].from /\ ip < store[r].to
      BY <1>1, <1>2, <2>2, <3>1
    <3> QED
      BY <1>1, <2>1, <3>1, <3>2
  <2>5. CASE i = r
    BY <1>1, <1>3, <2>1, <2>5
  <2> QED
    BY <1>1, <1>2, <2>3, <2>4, <2>5
<1> QED
  BY <1>4, <1>5 DEF found

\* Sorting keeps the records.
LEMMA SortKeeps ==
    ASSUME NEW lines \in Seq(Location!Lines), NEW store \in Location!Sorted(lines)
    PROVE  /\ store \in Seq(Ranges)
           /\ {store[i] : i \in 1 .. Len(store)} = {lines[i].range : i \in Location!RecordsOf(lines)}
<1> DEFINE R == Location!RecordsOf(lines)
<1>1. R \subseteq 1 .. Len(lines) /\ Len(lines) \in Nat /\ DOMAIN lines = 1 .. Len(lines)
  BY LenProperties DEF Location!RecordsOf
<1>2. \A i \in R : lines[i].range \in Ranges
  <2>1. ASSUME NEW i \in R PROVE lines[i].range \in Ranges
    <3>1. i \in 1 .. Len(lines)
      BY <1>1
    <3>2. lines[i] \in Location!Lines
      BY <3>1, ElementOfSeq
    <3>3. lines[i].range # Location!NoRange
      BY DEF Location!RecordsOf
    <3> QED
      BY <3>2, <3>3 DEF Location!Lines, Ranges
  <2> QED
    BY <2>1
<1>3. IsFiniteSet(R) /\ Cardinality(R) \in Nat
  <2>1. IsFiniteSet(1 .. Len(lines))
    BY <1>1, FS_Interval
  <2> HIDE DEF R
  <2> QED
    BY <1>1, <2>1, FS_Subset, FS_CardinalityType
<1>4. PICK p \in [1 .. Cardinality(R) -> R] :
            Location!IsInjective(p) /\ store = [i \in DOMAIN p |-> lines[p[i]].range]
  <2>1. Location!Cardinality(R) = Cardinality(R)
    BY DEF Cardinality, Location!Cardinality
  <2> QED
    BY <2>1 DEF Location!Sorted
<1>5. p \in Injection(1 .. Cardinality(R), R)
  BY <1>4 DEF Location!IsInjective, IsInjective, Injection
<1>6. p \in Surjection(1 .. Cardinality(R), R)
  <2>1. Cardinality(1 .. Cardinality(R)) = Cardinality(R)
    BY <1>3, FS_Interval
  <2> HIDE DEF R
  <2> QED
    BY <1>3, <1>5, <2>1, FS_Injection
<1> HIDE DEF R
<1>7. store = [i \in 1 .. Cardinality(R) |-> lines[p[i]].range] /\ \A i \in 1 .. Cardinality(R) : p[i] \in R
  BY <1>4
<1>8. store \in [1 .. Cardinality(R) -> Ranges]
  BY <1>2, <1>7
<1>9. store \in Seq(Ranges) /\ Len(store) = Cardinality(R)
  BY <1>3, <1>8
<1>10. ASSUME NEW i \in R PROVE \E j \in 1 .. Cardinality(R) : p[j] = i
  BY <1>6 DEF Surjection
<1>11. {store[i] : i \in 1 .. Len(store)} = {lines[i].range : i \in R}
  BY <1>7, <1>9, <1>10
<1> QED
  BY <1>9, <1>11 DEF R

\* The store holds the records of the file that was loaded, and a lookup is one in it.
LocationInv ==
    /\ _ipLocationStore \in Seq(Ranges)
    /\ {_ipLocationStore[i] : i \in 1 .. Len(_ipLocationStore)} = Location!Loaded
    /\ ~aborted => ~Location!Overlap(_ipLocationStore)
    /\ lookup # << >> =>
        ~aborted /\ \E ip \in Addresses : lookup = <<ip, Location!GetLocationRecord(_ipLocationStore, ip)>>

LEMMA LocationInvIs == LocationInv => RangeLookup
<1> SUFFICES ASSUME LocationInv, lookup # << >> PROVE Location!RangeLookup
  BY DEF RangeLookup, Location!RangeLookup
<1> DEFINE store == _ipLocationStore
<1>1. PICK ip \in Addresses : lookup = <<ip, Location!GetLocationRecord(store, ip)>>
  BY DEF LocationInv
<1> DEFINE found == Location!GetLocationRecord(store, ip)
<1>2. /\ store \in Seq(Ranges) /\ ip \in Nat /\ ~Location!Overlap(store)
      /\ \A i \in 1 .. Len(store) : store[i] \in Location!Loaded
      /\ \A rec \in Location!Loaded : \E i \in 1 .. Len(store) : rec = store[i]
  BY LocationAssumption DEF LocationInv
<1>3. /\ found = << >> \/ \E i \in 1 .. Len(store) :
                              found = <<store[i]>> /\ Location!Contains(store[i], ip)
      /\ (\A i \in 1 .. Len(store) : store[i].from <= store[i].to)
            => \A i \in 1 .. Len(store) : Location!Contains(store[i], ip) => found = <<store[i]>>
  BY <1>2, LookupFinds
<1> HIDE DEF found, store
<1>4. lookup[1] = ip /\ lookup[2] = found
  BY <1>1 DEF found
<1>5. found # << >> => found[1] \in Location!Loaded /\ Location!Contains(found[1], ip)
  BY <1>2, <1>3
<1>6. (\A rec \in Location!Loaded : rec.from <= rec.to) =>
          \A rec \in Location!Loaded : Location!Contains(rec, ip) => found = <<rec>>
  BY <1>2, <1>3
<1> QED
  BY <1>4, <1>5, <1>6 DEF Location!RangeLookup

LEMMA LocationInit == Init => LocationInv
<1> SUFFICES ASSUME Location!Init PROVE LocationInv
  BY DEF Init
<1>1. _ipLocationStore = << >> /\ file = << >> /\ lookup = << >>
  BY DEF Location!Init
<1>2. << >> \in Seq(Ranges) /\ Len(<< >>) = 0 /\ DOMAIN << >> = {}
  BY EmptySeq
<1>3. Location!Loaded = {} /\ ~Location!Overlap(<< >>)
  BY <1>1, <1>2 DEF Location!Loaded, Location!RecordsOf, Location!Overlap
<1> QED
  BY <1>1, <1>2, <1>3 DEF LocationInv

LEMMA LocationKept == LocationInv /\ [Next]_vars => LocationInv'
<1> SUFFICES ASSUME LocationInv, [Next]_vars PROVE LocationInv'
  OBVIOUS
<1>1. CASE UNCHANGED locationVars
  BY <1>1 DEF locationVars, LocationInv, Location!Loaded
<1>2. CASE Location!Load
  <2>1. lookup' = << >>
    BY <1>2 DEF Location!Load
  <2>2. CASE _ipLocationStore' = << >> /\ file' = << >>
    <3>1. << >> \in Seq(Ranges) /\ Len(<< >>) = 0 /\ DOMAIN << >> = {}
      BY EmptySeq
    <3>2. Location!Loaded' = {} /\ ~Location!Overlap(<< >>)
      BY <2>2, <3>1 DEF Location!Loaded, Location!RecordsOf, Location!Overlap
    <3> QED
      BY <2>1, <2>2, <3>1, <3>2 DEF LocationInv
  <2>3. ASSUME NEW f \in Files, NEW store \in Location!Sorted(f),
               _ipLocationStore' = store, file' = f, aborted' = Location!Overlap(store)
        PROVE  LocationInv'
    <3>1. f \in Seq(Location!Lines)
      BY LocationAssumption
    <3>2. store \in Seq(Ranges) /\ {store[i] : i \in 1 .. Len(store)} = {f[i].range : i \in Location!RecordsOf(f)}
      BY <3>1, SortKeeps
    <3>3. Location!Loaded' = {f[i].range : i \in Location!RecordsOf(f)}
      BY <2>3 DEF Location!Loaded
    <3> QED
      BY <2>1, <2>3, <3>2, <3>3 DEF LocationInv
  <2> QED
    BY <1>2, <2>2, <2>3 DEF Location!Load
<1>3. CASE Location!LookUp
  BY <1>3 DEF Location!LookUp, LocationInv, Location!Loaded
<1>4. Location!Next \/ UNCHANGED locationVars
  BY DEF Next, PacketStep, ProcessStep, CallbacksStep, TimerStep, LocationStep, QueueStep, LoginStep,
         CipherStep, vars
<1> QED
  BY <1>1, <1>2, <1>3, <1>4 DEF Location!Next

\* IpLocationStore: a lookup gives the range of an address, and only if there is one, for
\* every file and every address; it finds it if no range ends in front of its start.
THEOREM LookupCorrect == Spec => []RangeLookup
  BY LocationInvIs, LocationInit, LocationKept, PTL DEF Spec

-----------------------------------------------------------------------------
(***************************************************************************)
(* Recursive functions                                                     *)
(***************************************************************************)

\* What a set contains from 0 on, each number with the one before it, it contains up to n.
LEMMA Climb ==
    ASSUME NEW n \in Nat, NEW P, 0 \in P, \A i \in 1 .. n : i - 1 \in P => i \in P
    PROVE  \A i \in 0 .. n : i \in P
<1> DEFINE Bad == {i \in 0 .. n : i \notin P}
<1>1. ASSUME Bad # {} PROVE FALSE
  <2>1. Bad \in SUBSET Nat
    OBVIOUS
  <2>2. PICK m \in Bad : \A k \in Bad : m <= k
    <3> HIDE DEF Bad
    <3> QED
      BY <1>1, <2>1, Least
  <2>3. m # 0 /\ m - 1 \in 0 .. n /\ m \in 1 .. n
    BY <2>2
  <2>4. m - 1 \notin Bad
    BY <2>2, <2>3
  <2> QED
    BY <2>2, <2>3, <2>4
<1> QED
  BY <1>1

\* A function that is defined by steps from one number to the next exists.
Stepwise(n, x0, D, f) == f[0] = x0 /\ \A i \in 1 .. n : f[i] = D[<<i, f[i - 1]>>]

LEMMA StepsExist ==
    ASSUME NEW n \in Nat, NEW X, NEW x0 \in X, NEW D \in [(1 .. n) \X X -> X]
    PROVE  \E f \in [0 .. n -> X] : Stepwise(n, x0, D, f)
<1> DEFINE P == {m \in 0 .. n : \E f \in [0 .. m -> X] : Stepwise(m, x0, D, f)}
<1>1. 0 \in P
  <2>1. [k \in 0 .. 0 |-> x0] \in [0 .. 0 -> X] /\ Stepwise(0, x0, D, [k \in 0 .. 0 |-> x0])
    BY DEF Stepwise
  <2> QED
    BY <2>1
<1>2. ASSUME NEW m \in 1 .. n, m - 1 \in P PROVE m \in P
  <2>1. PICK f \in [0 .. m - 1 -> X] : Stepwise(m - 1, x0, D, f)
    BY <1>2
  <2> DEFINE h == [k \in 0 .. m |-> IF k = m THEN D[<<m, f[m - 1]>>] ELSE f[k]]
  <2>2. h \in [0 .. m -> X]
    BY <2>1
  <2>3. Stepwise(m, x0, D, h)
    <3>1. h[0] = x0
      BY <2>1 DEF Stepwise
    <3>2. ASSUME NEW i \in 1 .. m PROVE h[i] = D[<<i, h[i - 1]>>]
      <4>1. i - 1 \in 0 .. m /\ i - 1 # m
        OBVIOUS
      <4>2. h[i - 1] = f[i - 1]
        BY <4>1
      <4>3. CASE i = m
        <5>1. h[m] = D[<<m, f[m - 1]>>]
          OBVIOUS
        <5> HIDE DEF h
        <5> QED
          BY <5>1, <4>2, <4>3
      <4>4. CASE i # m
        <5>1. i \in 1 .. m - 1
          BY <4>4
        <5> QED
          BY <5>1, <4>2, <2>1 DEF Stepwise
      <4> QED
        BY <4>3, <4>4
    <3> HIDE DEF h
    <3> QED
      BY <3>1, <3>2 DEF Stepwise
  <2> HIDE DEF h
  <2> QED
    BY <2>2, <2>3
<1>3. n \in P
  <2> HIDE DEF P
  <2> QED
    BY <1>1, <1>2, Climb
<1> QED
  BY <1>3

-----------------------------------------------------------------------------
(***************************************************************************)
(* Division                                                                *)
(***************************************************************************)
LEMMA Division ==
    ASSUME NEW a \in Int, NEW b \in Nat \ {0}
    PROVE  /\ a \div b \in Int /\ a % b \in 0 .. b - 1
           /\ a = b * (a \div b) + (a % b)
           /\ a \in Nat => a \div b \in Nat
OBVIOUS

LEMMA ProductGrows ==
    ASSUME NEW a \in Int, NEW b \in Nat \ {0}
    PROVE  /\ a >= 1 => b * a >= b
           /\ a <= -1 => b * a <= -b
OBVIOUS

LEMMA DivisionIsUnique ==
    ASSUME NEW b \in Nat \ {0}, NEW q \in Int, NEW r \in 0 .. b - 1
    PROVE  (b * q + r) \div b = q /\ (b * q + r) % b = r
<1> DEFINE a == b * q + r
           q2 == a \div b
           r2 == a % b
<1>1. a \in Int
  OBVIOUS
<1>2. q2 \in Int /\ r2 \in 0 .. b - 1 /\ a = b * q2 + r2
  BY <1>1, Division
<1> HIDE DEF q2, r2
<1>3. b * (q2 - q) = r - r2
  <2>1. b * (q2 - q) = b * q2 - b * q
    BY <1>2
  <2> QED
    BY <1>2, <2>1
<1>4. q2 = q
  <2>1. b * (q2 - q) < b /\ b * (q2 - q) > -b
    BY <1>2, <1>3
  <2>2. ~(q2 - q >= 1) /\ ~(q2 - q <= -1)
    <3> DEFINE d == q2 - q
    <3>1. d \in Int
      BY <1>2
    <3>2. /\ d >= 1 => b * d >= b
          /\ d <= -1 => b * d <= -b
      BY <3>1, ProductGrows
    <3> QED
      BY <2>1, <3>1, <3>2
  <2> QED
    BY <1>2, <2>2
<1> QED
  BY <1>2, <1>4 DEF q2, r2

-----------------------------------------------------------------------------
(***************************************************************************)
(* Pieces of sequences                                                     *)
(***************************************************************************)
LEMMA Joined ==
    ASSUME NEW S, NEW a \in Seq(S), NEW b \in Seq(S)
    PROVE  /\ a \o b \in Seq(S) /\ Len(a \o b) = Len(a) + Len(b)
           /\ \A i \in 1 .. Len(a) : (a \o b)[i] = a[i]
           /\ \A i \in 1 .. Len(b) : (a \o b)[Len(a) + i] = b[i]
           /\ \A i \in 1 .. Len(a) + Len(b) : i > Len(a) => i - Len(a) \in 1 .. Len(b) /\ (a \o b)[i] = b[i - Len(a)]
OBVIOUS

LEMMA Cut ==
    ASSUME NEW S, NEW s \in Seq(S), NEW m \in 0 .. Len(s)
    PROVE  /\ SubSeq(s, 1, m) \in Seq(S) /\ Len(SubSeq(s, 1, m)) = m
           /\ \A i \in 1 .. m : SubSeq(s, 1, m)[i] = s[i]
           /\ SubSeq(s, m + 1, Len(s)) \in Seq(S) /\ Len(SubSeq(s, m + 1, Len(s))) = Len(s) - m
           /\ \A i \in 1 .. Len(s) - m : SubSeq(s, m + 1, Len(s))[i] = s[m + i]
OBVIOUS

-----------------------------------------------------------------------------
(***************************************************************************)
(* Ciphers: the streams                                                    *)
(***************************************************************************)

\* A stream of one way: its sender s and receiver r, the encrypted bytes under way, those
\* that came out, and how many were sent.
Encrypted == [byte : Nat, seed : {1, 2} \X {1, 2}, pos : Nat]
StreamKeys == [seed : {1, 2} \X {1, 2}, pos : Nat]
InStep(s, r, on, out, n) ==
    /\ s \in StreamKeys /\ r \in StreamKeys /\ s.seed = r.seed /\ s.pos = r.pos + Len(on)
    /\ \A i \in 1 .. Len(on) : on[i] = [byte |-> Len(out) + i, seed |-> r.seed, pos |-> r.pos + i]
    /\ on \in Seq(Encrypted) /\ out \in Seq(Nat) /\ n = Len(out) + Len(on)
    /\ \A i \in 1 .. Len(out) : out[i] = i

LEMMA SendInStep ==
    ASSUME NEW s, NEW r, NEW on, NEW out, NEW n, InStep(s, r, on, out, n), NEW k \in Nat
    PROVE  InStep(Cipher!Advance(s, k), r,
                  on \o Cipher!Encrypt(s, [i \in 1 .. k |-> n + i]), out, n + k)
<1> DEFINE new == Cipher!Encrypt(s, [i \in 1 .. k |-> n + i])
           all == on \o new
<1>1. s \in StreamKeys /\ n \in Nat /\ on \in Seq(Encrypted) /\ out \in Seq(Nat) /\ n = Len(out) + Len(on)
  BY DEF InStep
<1>2. new = [i \in 1 .. k |-> [byte |-> n + i, seed |-> s.seed, pos |-> s.pos + i]]
  BY DEF Cipher!Encrypt
<1>3. /\ new \in Seq(Encrypted) /\ Len(new) = k
      /\ \A i \in 1 .. k : new[i] = [byte |-> n + i, seed |-> s.seed, pos |-> s.pos + i]
  <2>1. \A i \in 1 .. k : [byte |-> n + i, seed |-> s.seed, pos |-> s.pos + i] \in Encrypted
    BY <1>1 DEF Encrypted, StreamKeys
  <2> HIDE DEF new
  <2>2. new \in [1 .. k -> Encrypted]
    BY <1>2, <2>1
  <2> QED
    BY <1>2, <2>2
<1> HIDE DEF new
<1>4. /\ all \in Seq(Encrypted) /\ Len(all) = Len(on) + k
      /\ \A i \in 1 .. Len(all) : i <= Len(on) => all[i] = on[i]
      /\ \A i \in 1 .. Len(all) : i > Len(on) => i - Len(on) \in 1 .. k /\ all[i] = new[i - Len(on)]
  <2>1. new \in Seq(Encrypted) /\ Len(new) = k
    BY <1>3
  <2>2. all \in Seq(Encrypted) /\ Len(all) = Len(on) + k
    BY <1>1, <2>1, Joined
  <2>3. \A i \in 1 .. Len(on) : all[i] = on[i]
    BY <1>1, <2>1, Joined
  <2>4. \A i \in 1 .. Len(on) + k : i > Len(on) => i - Len(on) \in 1 .. k /\ all[i] = new[i - Len(on)]
    BY <1>1, <2>1, Joined
  <2>5. Len(on) \in Nat
    BY <1>1
  <2> HIDE DEF all
  <2>6. \A i \in 1 .. Len(all) : i <= Len(on) => i \in 1 .. Len(on)
    BY <2>2, <2>5
  <2> QED
    BY <2>2, <2>3, <2>4, <2>6
<1> HIDE DEF all
<1>5. ASSUME NEW i \in 1 .. Len(all)
      PROVE  all[i] = [byte |-> Len(out) + i, seed |-> r.seed, pos |-> r.pos + i]
  <2>1. CASE i <= Len(on)
    <3>1. i \in 1 .. Len(on)
      BY <1>1, <2>1
    <3>2. on[i] = [byte |-> Len(out) + i, seed |-> r.seed, pos |-> r.pos + i]
      BY <3>1 DEF InStep
    <3> QED
      BY <1>4, <2>1, <3>2
  <2>2. CASE i > Len(on)
    <3> DEFINE j == i - Len(on)
    <3>1. j \in 1 .. k /\ all[i] = new[j]
      BY <1>1, <1>4, <2>2
    <3>2. new[j] = [byte |-> n + j, seed |-> s.seed, pos |-> s.pos + j]
      BY <1>3, <3>1
    <3>3. n + j = Len(out) + i /\ s.pos + j = r.pos + i /\ s.seed = r.seed
      BY <1>1, <3>1 DEF InStep, StreamKeys
    <3> QED
      BY <3>1, <3>2, <3>3
  <2> QED
    BY <1>1, <1>4, <2>1, <2>2
<1>6. Cipher!Advance(s, k) \in StreamKeys /\ Cipher!Advance(s, k).seed = s.seed
      /\ Cipher!Advance(s, k).pos = s.pos + k
  BY <1>1 DEF Cipher!Advance, StreamKeys
<1>7. /\ r \in StreamKeys /\ Cipher!Advance(s, k).seed = r.seed
      /\ Cipher!Advance(s, k).pos = r.pos + Len(all) /\ n + k = Len(out) + Len(all)
      /\ \A i \in 1 .. Len(out) : out[i] = i
  BY <1>1, <1>4, <1>6 DEF InStep, StreamKeys
<1>8. InStep(Cipher!Advance(s, k), r, all, out, n + k)
  BY <1>1, <1>4, <1>5, <1>6, <1>7 DEF InStep
<1> QED
  BY <1>8 DEF all, new

LEMMA ReceiveInStep ==
    ASSUME NEW s, NEW r, NEW on, NEW out, NEW n, InStep(s, r, on, out, n), NEW k \in 1 .. Len(on)
    PROVE  InStep(s, Cipher!Advance(r, k), SubSeq(on, k + 1, Len(on)),
                  out \o Cipher!Decrypt(r, SubSeq(on, 1, k)), n)
<1> DEFINE front == SubSeq(on, 1, k)
           rest == SubSeq(on, k + 1, Len(on))
           new == Cipher!Decrypt(r, front)
           all == out \o new
<1>1. r \in StreamKeys /\ n \in Nat /\ on \in Seq(Encrypted) /\ out \in Seq(Nat) /\ n = Len(out) + Len(on)
      /\ Len(out) \in Nat /\ Len(on) \in Nat /\ k \in Nat
  BY DEF InStep
<1>2. /\ front \in Seq(Encrypted) /\ Len(front) = k /\ \A i \in 1 .. k : front[i] = on[i]
      /\ rest \in Seq(Encrypted) /\ Len(rest) = Len(on) - k
      /\ \A i \in 1 .. Len(rest) : rest[i] = on[k + i]
  <2>1. on \in Seq(Encrypted) /\ k \in 0 .. Len(on)
    BY <1>1
  <2>2. front \in Seq(Encrypted) /\ Len(front) = k
    BY <2>1, Cut
  <2>3. \A i \in 1 .. k : front[i] = on[i]
    BY <2>1, Cut
  <2>4. rest \in Seq(Encrypted) /\ Len(rest) = Len(on) - k
    BY <2>1, Cut
  <2>5. \A i \in 1 .. Len(on) - k : rest[i] = on[k + i]
    BY <2>1, Cut
  <2> HIDE DEF front, rest
  <2> QED
    BY <2>2, <2>3, <2>4, <2>5
<1> HIDE DEF front, rest
<1>3. new = [i \in 1 .. k |-> Len(out) + i]
  <2>1. new = [i \in 1 .. k |-> IF front[i].seed = r.seed /\ front[i].pos = r.pos + i
                                THEN front[i].byte ELSE Cipher!Garbage]
    BY <1>2 DEF Cipher!Decrypt
  <2>2. ASSUME NEW i \in 1 .. k
        PROVE  front[i] = [byte |-> Len(out) + i, seed |-> r.seed, pos |-> r.pos + i]
    <3>1. i \in 1 .. Len(on)
      BY <1>1
    <3> QED
      BY <1>2, <3>1 DEF InStep
  <2>3. \A i \in 1 .. k : /\ front[i].seed = r.seed /\ front[i].pos = r.pos + i
                         /\ front[i].byte = Len(out) + i
    <3>1. TAKE i \in 1 .. k
    <3> DEFINE e == [byte |-> Len(out) + i, seed |-> r.seed, pos |-> r.pos + i]
    <3>2. front[i] = e
      BY <2>2
    <3>3. e.seed = r.seed /\ e.pos = r.pos + i /\ e.byte = Len(out) + i
      OBVIOUS
    <3> HIDE DEF e
    <3> QED
      BY <3>2, <3>3
  <2> HIDE DEF new
  <2> QED
    BY <2>1, <2>3
<1> HIDE DEF new
<1>4. new \in Seq(Nat) /\ Len(new) = k /\ \A i \in 1 .. k : new[i] = Len(out) + i
  <2>1. new \in [1 .. k -> Nat]
    BY <1>1, <1>3
  <2> QED
    BY <1>1, <1>3, <2>1
<1>5. /\ all \in Seq(Nat) /\ Len(all) = Len(out) + k
      /\ \A i \in 1 .. Len(out) : all[i] = out[i]
      /\ \A i \in 1 .. Len(out) + k : i > Len(out) => i - Len(out) \in 1 .. k /\ all[i] = new[i - Len(out)]
  <2>1. new \in Seq(Nat) /\ Len(new) = k
    BY <1>4
  <2>2. all \in Seq(Nat) /\ Len(all) = Len(out) + k
    BY <1>1, <2>1, Joined
  <2>3. \A i \in 1 .. Len(out) : all[i] = out[i]
    BY <1>1, <2>1, Joined
  <2>4. \A i \in 1 .. Len(out) + k : i > Len(out) => i - Len(out) \in 1 .. k /\ all[i] = new[i - Len(out)]
    BY <1>1, <2>1, Joined
  <2> HIDE DEF all
  <2> QED
    BY <2>2, <2>3, <2>4
<1> HIDE DEF all
<1>6. ASSUME NEW i \in 1 .. Len(all) PROVE all[i] = i
  <2>1. CASE i <= Len(out)
    <3>1. i \in 1 .. Len(out)
      BY <1>1, <2>1
    <3>2. out[i] = i
      BY <3>1 DEF InStep
    <3> QED
      BY <1>5, <3>1, <3>2
  <2>2. CASE i > Len(out)
    <3>1. i - Len(out) \in 1 .. k /\ i \in Len(out) + 1 .. Len(out) + k
      BY <1>1, <1>5, <2>2
    <3>2. all[i] = new[i - Len(out)]
      <4>1. i \in 1 .. Len(out) + k /\ i > Len(out)
        BY <1>1, <2>2, <3>1
      <4> QED
        BY <1>5, <4>1
    <3>4. new[i - Len(out)] = Len(out) + (i - Len(out))
      BY <1>4, <3>1
    <3> QED
      BY <1>1, <3>1, <3>2, <3>4
  <2> QED
    BY <1>1, <1>5, <2>1, <2>2
<1>7. Cipher!Advance(r, k) \in StreamKeys /\ Cipher!Advance(r, k).seed = r.seed
      /\ Cipher!Advance(r, k).pos = r.pos + k
  BY <1>1 DEF Cipher!Advance, StreamKeys
<1>8. ASSUME NEW i \in 1 .. Len(rest)
      PROVE  rest[i] = [byte |-> Len(all) + i, seed |-> r.seed, pos |-> (r.pos + k) + i]
  <2>1. k + i \in 1 .. Len(on)
    BY <1>1, <1>2
  <2>2. rest[i] = [byte |-> Len(out) + (k + i), seed |-> r.seed, pos |-> r.pos + (k + i)]
    BY <1>2, <2>1 DEF InStep
  <2>3. Len(out) + (k + i) = Len(all) + i /\ r.pos + (k + i) = (r.pos + k) + i
    <3>1. r.pos \in Nat /\ i \in Nat /\ Len(all) = Len(out) + k
      BY <1>1, <1>2, <1>5 DEF StreamKeys
    <3> QED
      BY <1>1, <3>1
  <2> QED
    BY <2>2, <2>3
<1>9. s \in StreamKeys /\ s.seed = r.seed /\ s.pos = (r.pos + k) + Len(rest) /\ n = Len(all) + Len(rest)
  BY <1>1, <1>2, <1>5 DEF InStep, StreamKeys
<1> QED
  BY <1>2, <1>5, <1>6, <1>7, <1>8, <1>9 DEF InStep, all, new, rest, front

\* The streams of both ways, once there is a key; nothing has been sent before.
StreamInv ==
    /\ DOMAIN wire = {"client", "server"} /\ DOMAIN got = {"client", "server"}
    /\ DOMAIN sent = {"client", "server"}
    /\ wire = [w \in {"client", "server"} |-> wire[w]] /\ got = [w \in {"client", "server"} |-> got[w]]
    /\ sent = [w \in {"client", "server"} |-> sent[w]]
    /\ crypt.initialized \in BOOLEAN
    /\ ~crypt.initialized => \A w \in {"client", "server"} : wire[w] = << >> /\ got[w] = << >> /\ sent[w] = 0
    /\ crypt.initialized =>
        /\ peer = [w \in {"client", "server"} |-> peer[w]]
        /\ InStep(crypt.serverEncrypt, peer["client"], wire["client"], got["client"], sent["client"])
        /\ InStep(peer["server"], crypt.clientDecrypt, wire["server"], got["server"], sent["server"])

LEMMA StreamInit == Init => StreamInv
<1> SUFFICES ASSUME Init PROVE StreamInv
  OBVIOUS
<1>1. /\ crypt = [initialized |-> FALSE]
      /\ wire = [w \in {"client", "server"} |-> << >>] /\ got = [w \in {"client", "server"} |-> << >>]
      /\ sent = [w \in {"client", "server"} |-> 0]
  BY DEF Init, Cipher!Init, Cipher!Ways
<1> QED
  BY <1>1 DEF StreamInv

\* With a new key both ends of a stream are at one place.
LEMMA FreshInStep ==
    ASSUME NEW c \in {1, 2}, NEW K \in {1, 2}, NEW out \in Seq(Nat), \A i \in 1 .. Len(out) : out[i] = i
    PROVE  LET s == Cipher!Advance(Cipher!ARC4Init(<<c, K>>), Drop)
           IN InStep(s, s, << >>, out, Len(out))
<1> DEFINE s == Cipher!Advance(Cipher!ARC4Init(<<c, K>>), Drop)
<1>1. s = [seed |-> <<c, K>>, pos |-> Drop]
  BY CipherAssumption DEF Cipher!Advance, Cipher!ARC4Init
<1>2. s \in StreamKeys
  BY <1>1, CipherAssumption DEF StreamKeys
<1>3. s.pos = s.pos + Len(<< >>) /\ Len(out) = Len(out) + Len(<< >>)
  BY <1>2 DEF StreamKeys
<1> HIDE DEF s
<1>4. << >> \in Seq(Encrypted) /\ Len(<< >>) = 0
  OBVIOUS
<1>5. InStep(s, s, << >>, out, Len(out))
  BY <1>2, <1>3, <1>4 DEF InStep
<1> QED
  BY <1>5 DEF s

LEMMA StreamKept == StreamInv /\ Cipher!Crypt => StreamInv'
<1> SUFFICES ASSUME StreamInv, Cipher!Crypt PROVE StreamInv'
  OBVIOUS
<1> DEFINE Both == {"client", "server"}
<1>0. Cipher!Ways = Both
  BY DEF Cipher!Ways
<1>1. CASE Cipher!AuthInit
  <2>1. PICK K \in {1, 2} :
          /\ crypt' = Cipher!CryptInit(K)
          /\ peer' = [w \in Both |->
              Cipher!Advance(Cipher!ARC4Init(<<IF w = "client" THEN 1 ELSE 2, K>>), Drop)]
    BY <1>1 DEF Cipher!AuthInit, Cipher!Keys, Cipher!Ways, Cipher!ServerEncryptionKey,
                Cipher!ServerDecryptionKey
  <2>2. wire["client"] = << >> /\ wire["server"] = << >>
        /\ wire' = wire /\ got' = got /\ sent' = sent
    BY <1>1 DEF Cipher!AuthInit, Cipher!Ways
  <2> DEFINE s(c) == Cipher!Advance(Cipher!ARC4Init(<<c, K>>), Drop)
  <2>3. crypt' = [initialized |-> TRUE, serverEncrypt |-> s(1), clientDecrypt |-> s(2)]
    BY <2>1 DEF Cipher!CryptInit, Cipher!ServerEncryptionKey, Cipher!ServerDecryptionKey
  <2>4. peer' = [w \in Both |-> s(IF w = "client" THEN 1 ELSE 2)]
    BY <2>1
  <2>5. \A w \in Both : /\ got[w] \in Seq(Nat) /\ sent[w] = Len(got[w])
                        /\ \A i \in 1 .. Len(got[w]) : got[w][i] = i
    <3>1. CASE crypt.initialized
      BY <2>2, <3>1 DEF StreamInv, InStep
    <3>2. CASE ~crypt.initialized
      <4> TAKE w \in Both
      <4>1. got[w] = << >> /\ sent[w] = 0
        BY <3>2 DEF StreamInv
      <4> QED
        BY <4>1
    <3> QED
      BY <3>1, <3>2 DEF StreamInv
  <2>6. \A c \in {1, 2}, w \in Both : InStep(s(c), s(c), << >>, got[w], sent[w])
    <3> TAKE c \in {1, 2}, w \in Both
    <3> HIDE DEF s
    <3>1. got[w] \in Seq(Nat) /\ (\A i \in 1 .. Len(got[w]) : got[w][i] = i)
      BY <2>5
    <3>2. InStep(s(c), s(c), << >>, got[w], Len(got[w]))
      BY <3>1, FreshInStep DEF s
    <3> QED
      BY <2>5, <3>2
  <2> HIDE DEF s
  <2>7. /\ crypt'.initialized = TRUE /\ crypt'.serverEncrypt = s(1) /\ crypt'.clientDecrypt = s(2)
        /\ peer'["client"] = s(1) /\ peer'["server"] = s(2)
        /\ peer' = [w \in Both |-> peer'[w]]
    BY <2>3, <2>4
  <2>8. /\ InStep(crypt'.serverEncrypt, peer'["client"], wire'["client"], got'["client"], sent'["client"])
        /\ InStep(peer'["server"], crypt'.clientDecrypt, wire'["server"], got'["server"], sent'["server"])
    BY <2>2, <2>6, <2>7
  <2> QED
    BY <2>2, <2>7, <2>8 DEF StreamInv
<1>2. CASE Cipher!EncryptSend
  <2>1. PICK n \in 1 .. MaxChunk :
          /\ sent' = [sent EXCEPT !["client"] = @ + n]
          /\ wire' = [wire EXCEPT !["client"] = @ \o Cipher!Encrypt(crypt.serverEncrypt, Cipher!NextBytes("client", n))]
          /\ crypt' = [initialized |-> TRUE, serverEncrypt |-> Cipher!Advance(crypt.serverEncrypt, n),
                       clientDecrypt |-> crypt.clientDecrypt]
    BY <1>2 DEF Cipher!EncryptSend, Cipher!Sends
  <2>2. crypt.initialized /\ peer' = peer /\ got' = got
    BY <1>2 DEF Cipher!EncryptSend
  <2>3. n \in Nat
    BY CipherAssumption
  <2> DEFINE c == crypt.serverEncrypt
             bytes == Cipher!Encrypt(c, [i \in 1 .. n |-> sent["client"] + i])
  <2>4. InStep(Cipher!Advance(c, n), peer["client"], wire["client"] \o bytes, got["client"], sent["client"] + n)
    <3>1. InStep(c, peer["client"], wire["client"], got["client"], sent["client"])
      BY <2>2 DEF StreamInv
    <3> HIDE DEF c
    <3> QED
      BY <2>3, <3>1, SendInStep
  <2>5. wire' = [wire EXCEPT !["client"] = @ \o bytes]
    BY <2>1 DEF Cipher!NextBytes
  <2>6. crypt'.initialized = TRUE /\ crypt'.serverEncrypt = Cipher!Advance(c, n)
        /\ crypt'.clientDecrypt = crypt.clientDecrypt
    BY <2>1
  <2> HIDE DEF c, bytes
  <2>7. /\ wire' = [w \in Both |-> wire'[w]] /\ wire'["client"] = wire["client"] \o bytes
        /\ wire'["server"] = wire["server"]
        /\ sent' = [w \in Both |-> sent'[w]] /\ sent'["client"] = sent["client"] + n
        /\ sent'["server"] = sent["server"] /\ DOMAIN wire' = Both /\ DOMAIN sent' = Both
    BY <2>1, <2>5 DEF StreamInv
  <2>8. /\ InStep(crypt'.serverEncrypt, peer'["client"], wire'["client"], got'["client"], sent'["client"])
        /\ InStep(peer'["server"], crypt'.clientDecrypt, wire'["server"], got'["server"], sent'["server"])
    BY <2>2, <2>4, <2>6, <2>7 DEF StreamInv
  <2> QED
    BY <2>2, <2>6, <2>7, <2>8 DEF StreamInv
<1>3. CASE Cipher!DecryptRecv
  <2>1. PICK n \in 1 .. Len(wire["server"]) :
          /\ got' = [got EXCEPT !["server"] = @ \o Cipher!Decrypt(crypt.clientDecrypt, SubSeq(wire["server"], 1, n))]
          /\ wire' = [wire EXCEPT !["server"] = SubSeq(@, n + 1, Len(@))]
          /\ crypt' = [initialized |-> TRUE, serverEncrypt |-> crypt.serverEncrypt,
                       clientDecrypt |-> Cipher!Advance(crypt.clientDecrypt, n)]
    BY <1>3 DEF Cipher!DecryptRecv
  <2>2. crypt.initialized /\ peer' = peer /\ sent' = sent
    BY <1>3 DEF Cipher!DecryptRecv
  <2> DEFINE c == crypt.clientDecrypt
             on == wire["server"]
             bytes == Cipher!Decrypt(c, SubSeq(on, 1, n))
             rest == SubSeq(on, n + 1, Len(on))
  <2>4. InStep(peer["server"], Cipher!Advance(c, n), rest, got["server"] \o bytes, sent["server"])
    <3>1. InStep(peer["server"], c, on, got["server"], sent["server"])
      BY <2>2 DEF StreamInv
    <3>2. n \in 1 .. Len(on)
      OBVIOUS
    <3> HIDE DEF c, on
    <3> QED
      BY <3>1, <3>2, ReceiveInStep
  <2>5. wire' = [wire EXCEPT !["server"] = rest] /\ got' = [got EXCEPT !["server"] = @ \o bytes]
    BY <2>1 DEF StreamInv
  <2>6. crypt'.initialized = TRUE /\ crypt'.serverEncrypt = crypt.serverEncrypt
        /\ crypt'.clientDecrypt = Cipher!Advance(c, n)
    BY <2>1
  <2> HIDE DEF c, bytes, rest, on
  <2>7. /\ wire' = [w \in Both |-> wire'[w]] /\ wire'["server"] = rest
        /\ wire'["client"] = wire["client"] /\ DOMAIN wire' = Both /\ DOMAIN got' = Both
        /\ got' = [w \in Both |-> got'[w]] /\ got'["server"] = got["server"] \o bytes
        /\ got'["client"] = got["client"]
    BY <2>5 DEF StreamInv
  <2>8. /\ InStep(crypt'.serverEncrypt, peer'["client"], wire'["client"], got'["client"], sent'["client"])
        /\ InStep(peer'["server"], crypt'.clientDecrypt, wire'["server"], got'["server"], sent'["server"])
    BY <2>2, <2>4, <2>6, <2>7 DEF StreamInv
  <2> QED
    BY <2>2, <2>6, <2>7, <2>8 DEF StreamInv
<1>4. CASE Cipher!PeerSends
  <2>1. PICK n \in 1 .. MaxChunk :
          /\ sent' = [sent EXCEPT !["server"] = @ + n]
          /\ wire' = [wire EXCEPT !["server"] = @ \o Cipher!Encrypt(peer["server"], Cipher!NextBytes("server", n))]
          /\ peer' = [peer EXCEPT !["server"] = Cipher!Advance(@, n)]
    BY <1>4 DEF Cipher!PeerSends, Cipher!Sends
  <2>2. crypt.initialized /\ crypt' = crypt /\ got' = got
    BY <1>4 DEF Cipher!PeerSends
  <2>3. n \in Nat
    BY CipherAssumption
  <2> DEFINE c == peer["server"]
             bytes == Cipher!Encrypt(c, [i \in 1 .. n |-> sent["server"] + i])
  <2>4. InStep(Cipher!Advance(c, n), crypt.clientDecrypt, wire["server"] \o bytes, got["server"], sent["server"] + n)
    <3>1. InStep(c, crypt.clientDecrypt, wire["server"], got["server"], sent["server"])
      BY <2>2 DEF StreamInv
    <3> HIDE DEF c
    <3> QED
      BY <2>3, <3>1, SendInStep
  <2>5. wire' = [wire EXCEPT !["server"] = @ \o bytes] /\ peer' = [peer EXCEPT !["server"] = Cipher!Advance(c, n)]
    BY <2>1, <2>2 DEF Cipher!NextBytes, StreamInv
  <2>6. peer = [w \in Both |-> peer[w]]
    BY <2>2 DEF StreamInv
  <2> HIDE DEF c, bytes
  <2>7. /\ wire' = [w \in Both |-> wire'[w]] /\ wire'["server"] = wire["server"] \o bytes
        /\ wire'["client"] = wire["client"]
        /\ sent' = [w \in Both |-> sent'[w]] /\ sent'["server"] = sent["server"] + n
        /\ sent'["client"] = sent["client"] /\ DOMAIN wire' = Both /\ DOMAIN sent' = Both
    BY <2>1, <2>5 DEF StreamInv
  <2>9. /\ peer' = [w \in Both |-> peer'[w]] /\ peer'["client"] = peer["client"]
        /\ peer'["server"] = Cipher!Advance(c, n)
    BY <2>5, <2>6
  <2>8. /\ InStep(crypt'.serverEncrypt, peer'["client"], wire'["client"], got'["client"], sent'["client"])
        /\ InStep(peer'["server"], crypt'.clientDecrypt, wire'["server"], got'["server"], sent'["server"])
    BY <2>2, <2>4, <2>7, <2>9 DEF StreamInv
  <2> QED
    BY <2>2, <2>7, <2>8, <2>9 DEF StreamInv
<1>5. CASE Cipher!PeerReceives
  <2>1. PICK n \in 1 .. Len(wire["client"]) :
          /\ got' = [got EXCEPT !["client"] = @ \o Cipher!Decrypt(peer["client"], SubSeq(wire["client"], 1, n))]
          /\ wire' = [wire EXCEPT !["client"] = SubSeq(@, n + 1, Len(@))]
          /\ peer' = [peer EXCEPT !["client"] = Cipher!Advance(@, n)]
    BY <1>5 DEF Cipher!PeerReceives
  <2>2. crypt.initialized /\ crypt' = crypt /\ sent' = sent
    <3>1. ASSUME ~crypt.initialized PROVE FALSE
      <4>1. wire["client"] = << >>
        BY <3>1 DEF StreamInv
      <4>2. Len(wire["client"]) = 0
        BY <4>1
      <4> QED
        BY <4>2, <2>1
    <3> QED
      BY <1>5, <3>1 DEF Cipher!PeerReceives
  <2> DEFINE c == peer["client"]
             on == wire["client"]
             bytes == Cipher!Decrypt(c, SubSeq(on, 1, n))
             rest == SubSeq(on, n + 1, Len(on))
  <2>4. InStep(crypt.serverEncrypt, Cipher!Advance(c, n), rest, got["client"] \o bytes, sent["client"])
    <3>1. InStep(crypt.serverEncrypt, c, on, got["client"], sent["client"])
      BY <2>2 DEF StreamInv
    <3>2. n \in 1 .. Len(on)
      OBVIOUS
    <3> HIDE DEF c, on
    <3> QED
      BY <3>1, <3>2, ReceiveInStep
  <2>6. peer = [w \in Both |-> peer[w]]
    BY <2>2 DEF StreamInv
  <2>5. wire' = [wire EXCEPT !["client"] = rest] /\ got' = [got EXCEPT !["client"] = @ \o bytes]
        /\ peer' = [peer EXCEPT !["client"] = Cipher!Advance(c, n)]
    BY <2>1, <2>6 DEF StreamInv
  <2> HIDE DEF c, bytes, rest, on
  <2>7. /\ wire' = [w \in Both |-> wire'[w]] /\ wire'["client"] = rest
        /\ wire'["server"] = wire["server"] /\ DOMAIN wire' = Both /\ DOMAIN got' = Both
        /\ got' = [w \in Both |-> got'[w]] /\ got'["client"] = got["client"] \o bytes
        /\ got'["server"] = got["server"]
    BY <2>5 DEF StreamInv
  <2>9. /\ peer' = [w \in Both |-> peer'[w]] /\ peer'["server"] = peer["server"]
        /\ peer'["client"] = Cipher!Advance(c, n)
    BY <2>5, <2>6
  <2>8. /\ InStep(crypt'.serverEncrypt, peer'["client"], wire'["client"], got'["client"], sent'["client"])
        /\ InStep(peer'["server"], crypt'.clientDecrypt, wire'["server"], got'["server"], sent'["server"])
    BY <2>2, <2>4, <2>7, <2>9 DEF StreamInv
  <2> QED
    BY <2>2, <2>7, <2>8, <2>9 DEF StreamInv
<1> QED
  BY <1>1, <1>2, <1>3, <1>4, <1>5 DEF Cipher!Crypt

LEMMA StreamRight == StreamInv => Cipher!StreamsInStep
<1> SUFFICES ASSUME StreamInv, NEW w \in {"client", "server"}, NEW i \in DOMAIN got[w]
             PROVE  got[w][i] = i
  BY DEF Cipher!StreamsInStep, Cipher!Ways
<1>1. CASE crypt.initialized
  <2>1. got[w] \in Seq(Nat) /\ \A j \in 1 .. Len(got[w]) : got[w][j] = j
    BY <1>1 DEF StreamInv, InStep
  <2> QED
    BY <2>1
<1>2. CASE ~crypt.initialized
  <2>1. got[w] = << >>
    BY <1>2 DEF StreamInv
  <2> QED
    BY <2>1
<1> QED
  BY <1>1, <1>2 DEF StreamInv

-----------------------------------------------------------------------------
(***************************************************************************)
(* Ciphers: the generated key                                              *)
(***************************************************************************)

\* A generator's place is the number of bytes it has made, and each byte has its place.
Place(i) == <<(i - 1) \div DIGEST_LENGTH + 1, ((i - 1) % DIGEST_LENGTH) + 1>>
Generators ==
    {s \in [o0 : Nat \ {0}, o0it : 1 .. DIGEST_LENGTH + 1, out : Seq(Nat \X Nat)] :
        /\ DIGEST_LENGTH * (s.o0 - 1) + (s.o0it - 1) = Len(s.out)
        /\ \A i \in 1 .. Len(s.out) : s.out[i] = Place(i)}

LEMMA GeneratesByte ==
    ASSUME NEW s \in Generators
    PROVE  Cipher!GeneratedByte(s) \in Generators
<1> DEFINE D == DIGEST_LENGTH
           used == s.o0it > D
           q == IF used THEN s.o0 + 1 ELSE s.o0
           it == IF used THEN 1 ELSE s.o0it
           n == Len(s.out)
           out == Append(s.out, <<q, it>>)
<1>1. /\ s.o0 \in Nat \ {0} /\ s.o0it \in 1 .. D + 1 /\ s.out \in Seq(Nat \X Nat)
      /\ D * (s.o0 - 1) + (s.o0it - 1) = n
      /\ \A i \in 1 .. n : s.out[i] = Place(i)
      /\ D \in Nat \ {0} /\ n \in Nat
  BY CipherAssumption DEF Generators
<1>2. Cipher!GeneratedByte(s) = [o0 |-> q, o0it |-> it + 1, out |-> out]
  BY DEF Cipher!GeneratedByte
<1> HIDE DEF n, D
<1>3. q \in Nat \ {0} /\ it \in 1 .. D /\ it + 1 \in 1 .. D + 1
  BY <1>1
<1>4. D * (q - 1) + (it - 1) = n
  <2>1. CASE used
    <3>1. s.o0it = D + 1
      BY <1>1, <2>1
    <3>2. D * (s.o0 - 1) + D = D * s.o0
      BY <1>1
    <3> QED
      BY <1>1, <2>1, <3>1, <3>2
  <2>2. CASE ~used
    BY <1>1, <2>2
  <2> QED
    BY <2>1, <2>2
<1> HIDE DEF q, it
<1>5. <<q, it>> = Place(n + 1)
  <2>1. q - 1 \in Int /\ it - 1 \in 0 .. D - 1
    BY <1>3, <1>1
  <2>2. (D * (q - 1) + (it - 1)) \div D = q - 1 /\ (D * (q - 1) + (it - 1)) % D = it - 1
    BY <1>1, <2>1, DivisionIsUnique
  <2>3. n \div D = q - 1 /\ n % D = it - 1
    BY <1>4, <2>2
  <2>4. (n + 1) - 1 = n
    BY <1>1
  <2> QED
    BY <1>3, <2>3, <2>4 DEF Place, D
<1>6. out \in Seq(Nat \X Nat) /\ Len(out) = n + 1 /\ out[n + 1] = <<q, it>>
      /\ \A i \in 1 .. n : out[i] = s.out[i]
  <2>2. <<q, it>> \in Nat \X Nat
    BY <1>1, <1>3
  <2> DEFINE e == <<q, it>>
  <2> HIDE DEF e
  <2> QED
    BY <1>1, <2>2 DEF n, e
<1> HIDE DEF out
<1>7. \A i \in 1 .. n + 1 : out[i] = Place(i)
  <2> TAKE i \in 1 .. n + 1
  <2>1. CASE i = n + 1
    BY <1>5, <1>6, <2>1
  <2>2. CASE i # n + 1
    <3>1. i \in 1 .. n
      BY <1>1, <2>2
    <3> QED
      BY <1>1, <1>6, <3>1
  <2> QED
    BY <2>1, <2>2
<1> DEFINE r == [o0 |-> q, o0it |-> it + 1, out |-> out]
<1>8. r \in [o0 : Nat \ {0}, o0it : 1 .. D + 1, out : Seq(Nat \X Nat)]
      /\ r.o0 = q /\ r.o0it = it + 1 /\ r.out = out
  BY <1>3, <1>6
<1>9. D * (r.o0 - 1) + (r.o0it - 1) = n + 1
  <2>1. (it + 1) - 1 = (it - 1) + 1 /\ it - 1 \in Int
    BY <1>3
  <2>2. D * (q - 1) \in Int
    BY <1>1, <1>3
  <2>3. r.o0 - 1 = q - 1 /\ r.o0it - 1 = (it + 1) - 1
    BY <1>8
  <2> DEFINE x == D * (q - 1)
  <2>4. x + (it - 1) = n /\ x \in Int
    BY <1>4, <2>2
  <2>5. D * (r.o0 - 1) = x
    BY <2>3
  <2> HIDE DEF r, x
  <2> QED
    BY <1>1, <2>1, <2>3, <2>4, <2>5
<1> HIDE DEF r
<1>10. r \in Generators
  BY <1>6, <1>7, <1>8, <1>9 DEF Generators, D
<1> QED
  BY <1>2, <1>10 DEF r

AfterOf(s, n, f) == f = [i \in 0 .. n |-> IF i = 0 THEN s ELSE Cipher!GeneratedByte(f[i - 1])]

LEMMA GeneratesAll ==
    ASSUME NEW s \in Generators, NEW n \in Nat
    PROVE  Cipher!Generated(s, n) \in Generators
<1> DEFINE D == [p \in (1 .. n) \X Generators |-> Cipher!GeneratedByte(p[2])]
           after == CHOOSE f : AfterOf(s, n, f)
<1>1. D \in [(1 .. n) \X Generators -> Generators]
  BY GeneratesByte
<1>2. \E f : AfterOf(s, n, f)
  <2>1. PICK f \in [0 .. n -> Generators] : Stepwise(n, s, D, f)
    <3> HIDE DEF D
    <3> QED
      BY <1>1, StepsExist
  <2>2. \A i \in 0 .. n : f[i] = IF i = 0 THEN s ELSE Cipher!GeneratedByte(f[i - 1])
    <3> TAKE i \in 0 .. n
    <3>1. CASE i = 0
      BY <2>1, <3>1 DEF Stepwise
    <3>2. CASE i # 0
      <4>1. i \in 1 .. n /\ i - 1 \in 0 .. n
        BY <3>2
      <4>2. f[i] = D[<<i, f[i - 1]>>] /\ <<i, f[i - 1]>> \in (1 .. n) \X Generators
        BY <2>1, <4>1 DEF Stepwise
      <4>3. D[<<i, f[i - 1]>>] = Cipher!GeneratedByte(f[i - 1])
        BY <4>2
      <4> QED
        BY <3>2, <4>2, <4>3
    <3> QED
      BY <3>1, <3>2
  <2>3. f = [i \in 0 .. n |-> IF i = 0 THEN s ELSE Cipher!GeneratedByte(f[i - 1])]
    BY <2>1, <2>2
  <2> QED
    BY <2>3 DEF AfterOf
<1>3. AfterOf(s, n, after)
  BY <1>2, Zenon
<1>4. Cipher!Generated(s, n) = after[n]
  BY Zenon DEF Cipher!Generated, AfterOf
<1> HIDE DEF after
<1>5. \A i \in 0 .. n : after[i] = IF i = 0 THEN s ELSE Cipher!GeneratedByte(after[i - 1])
  BY <1>3, Zenon DEF AfterOf
<1> DEFINE P == {i \in 0 .. n : after[i] \in Generators}
<1>6. 0 \in P
  BY <1>5
<1>7. ASSUME NEW i \in 1 .. n, i - 1 \in P PROVE i \in P
  <2>1. i \in 0 .. n /\ i # 0 /\ after[i - 1] \in Generators
    BY <1>7
  <2>2. after[i] = Cipher!GeneratedByte(after[i - 1])
    BY <1>5, <2>1
  <2> QED
    BY <2>1, <2>2, GeneratesByte
<1>8. n \in P
  <2> HIDE DEF P
  <2>1. \A i \in 0 .. n : i \in P
    BY <1>6, <1>7, Climb
  <2> QED
    BY <2>1
<1> QED
  BY <1>4, <1>8

LEMMA GeneratorInit == Init => gen \in Generators
<1> SUFFICES ASSUME Init PROVE gen \in Generators
  OBVIOUS
<1>1. gen = [o0 |-> 1, o0it |-> 1, out |-> << >>]
  BY DEF Init, Cipher!Init, Cipher!SessionKeyGenerator
<1>2. DIGEST_LENGTH * (1 - 1) + (1 - 1) = 0
  BY CipherAssumption
<1>3. gen \in [o0 : Nat \ {0}, o0it : 1 .. DIGEST_LENGTH + 1, out : Seq(Nat \X Nat)]
  BY <1>1, CipherAssumption
<1>4. gen.o0 = 1 /\ gen.o0it = 1 /\ gen.out = << >> /\ Len(gen.out) = 0
  BY <1>1
<1> QED
  BY <1>2, <1>3, <1>4 DEF Generators

LEMMA GeneratorKept == gen \in Generators /\ Cipher!Generate => gen' \in Generators
<1> SUFFICES ASSUME gen \in Generators, Cipher!Generate PROVE gen' \in Generators
  OBVIOUS
<1>1. PICK n \in 1 .. MaxChunk : gen' = Cipher!Generated(gen, n)
  BY DEF Cipher!Generate
<1>2. n \in Nat
  BY CipherAssumption
<1> QED
  BY <1>1, <1>2, GeneratesAll

LEMMA GeneratorRight == gen \in Generators => Cipher!GeneratedInOrder
<1> SUFFICES ASSUME gen \in Generators PROVE Cipher!GeneratedInOrder
  OBVIOUS
<1>1. gen.out \in Seq(Nat \X Nat) /\ \A i \in 1 .. Len(gen.out) : gen.out[i] = Place(i)
  BY DEF Generators
<1>2. DOMAIN gen.out = 1 .. Len(gen.out)
  BY <1>1
<1> QED
  BY <1>1, <1>2 DEF Place, Cipher!GeneratedInOrder

-----------------------------------------------------------------------------
(***************************************************************************)
(* Ciphers: sealed data                                                    *)
(***************************************************************************)

\* Three sequences behind each other: each of them is found again.
LEMMA PartsOf ==
    ASSUME NEW S, NEW a \in Seq(S), NEW b \in Seq(S), NEW c \in Seq(S), NEW s, s = (a \o b) \o c
    PROVE  /\ s \in Seq(S) /\ Len(s) = Len(a) + Len(b) + Len(c)
           /\ SubSeq(s, Len(a) + Len(b) + 1, Len(s)) = c
           /\ SubSeq(s, 1, Len(a) + Len(b)) = a \o b
           /\ SubSeq(a \o b, Len(a) + 1, Len(a) + Len(b)) = b
           /\ SubSeq(s, 1, Len(a)) = a
<1> DEFINE ab == a \o b
<1>0. Len(a) \in Nat /\ Len(b) \in Nat /\ Len(c) \in Nat
  OBVIOUS
<1>1. ab \in Seq(S) /\ Len(ab) = Len(a) + Len(b)
  BY Joined
<1>2. \A i \in 1 .. Len(a) : ab[i] = a[i]
  BY Joined
<1>3. \A i \in 1 .. Len(b) : ab[Len(a) + i] = b[i]
  BY Joined
<1> HIDE DEF ab
<1>4. s = ab \o c
  BY DEF ab
<1>5. s \in Seq(S) /\ Len(s) = Len(ab) + Len(c)
  BY <1>1, <1>4, Joined
<1>6. \A i \in 1 .. Len(ab) : s[i] = ab[i]
  BY <1>1, <1>4, Joined
<1>7. \A i \in 1 .. Len(c) : s[Len(ab) + i] = c[i]
  BY <1>1, <1>4, Joined
<1>8. SubSeq(s, Len(ab) + 1, Len(s)) = c
  <2> DEFINE t == SubSeq(s, Len(ab) + 1, Len(s))
  <2>0. Len(ab) \in 0 .. Len(s)
    BY <1>0, <1>1, <1>5
  <2>1. t \in Seq(S) /\ Len(t) = Len(s) - Len(ab)
    BY <1>5, <2>0, Cut
  <2>2. \A i \in 1 .. Len(s) - Len(ab) : t[i] = s[Len(ab) + i]
    BY <1>5, <2>0, Cut
  <2> HIDE DEF t
  <2>5. Len(s) - Len(ab) = Len(c)
    BY <1>0, <1>1, <1>5
  <2>3. Len(t) = Len(c) /\ \A i \in 1 .. Len(t) : t[i] = c[i]
    <3>1. \A i \in 1 .. Len(c) : t[i] = s[Len(ab) + i]
      BY <2>2, <2>5
    <3> QED
      BY <1>7, <2>1, <2>5, <3>1
  <2>4. t = c
    BY <2>1, <2>3, SeqEqual
  <2> QED
    BY <2>4 DEF t
<1>9. SubSeq(s, 1, Len(ab)) = ab
  <2> DEFINE t == SubSeq(s, 1, Len(ab))
  <2>0. Len(ab) \in 0 .. Len(s)
    BY <1>0, <1>1, <1>5
  <2>1. t \in Seq(S) /\ Len(t) = Len(ab)
    BY <1>5, <2>0, Cut
  <2>2. \A i \in 1 .. Len(ab) : t[i] = s[i]
    BY <1>5, <2>0, Cut
  <2> HIDE DEF t
  <2>4. t = ab
    BY <1>1, <1>6, <2>1, <2>2, SeqEqual
  <2> QED
    BY <2>4 DEF t
<1>10. SubSeq(ab, Len(a) + 1, Len(ab)) = b
  <2> DEFINE t == SubSeq(ab, Len(a) + 1, Len(ab))
  <2>0. Len(a) \in 0 .. Len(ab)
    BY <1>0, <1>1
  <2>1. t \in Seq(S) /\ Len(t) = Len(ab) - Len(a)
    BY <1>1, <2>0, Cut
  <2>2. \A i \in 1 .. Len(ab) - Len(a) : t[i] = ab[Len(a) + i]
    BY <1>1, <2>0, Cut
  <2> HIDE DEF t
  <2>5. Len(ab) - Len(a) = Len(b)
    BY <1>0, <1>1
  <2>3. Len(t) = Len(b) /\ \A i \in 1 .. Len(t) : t[i] = b[i]
    <3>1. \A i \in 1 .. Len(b) : t[i] = ab[Len(a) + i]
      BY <2>2, <2>5
    <3> QED
      BY <1>3, <2>1, <2>5, <3>1
  <2>4. t = b
    BY <2>1, <2>3, SeqEqual
  <2> QED
    BY <2>4 DEF t
<1>11. SubSeq(s, 1, Len(a)) = a
  <2> DEFINE t == SubSeq(s, 1, Len(a))
  <2>0. Len(a) \in 0 .. Len(s)
    BY <1>0, <1>1, <1>5
  <2>1. t \in Seq(S) /\ Len(t) = Len(a)
    BY <1>5, <2>0, Cut
  <2>2. \A i \in 1 .. Len(a) : t[i] = s[i]
    BY <1>5, <2>0, Cut
  <2> HIDE DEF t
  <2>3. \A i \in 1 .. Len(a) : t[i] = a[i]
    <3> TAKE i \in 1 .. Len(a)
    <3>1. i \in 1 .. Len(ab)
      BY <1>0, <1>1
    <3> QED
      BY <1>2, <1>6, <2>2, <3>1
  <2>4. t = a
    BY <2>1, <2>3, SeqEqual
  <2> QED
    BY <2>4 DEF t
<1> QED
  BY <1>1, <1>5, <1>8, <1>9, <1>10, <1>11 DEF ab

\* A sequence is what its three parts make behind each other.
Whole(s, a, b, c) == s = (a \o b) \o c

LEMMA WholeOf ==
    ASSUME NEW S, NEW s \in Seq(S), NEW x \in Nat, NEW y \in Nat, x + y <= Len(s)
    PROVE  /\ Whole(s, SubSeq(s, 1, x), SubSeq(SubSeq(s, 1, x + y), x + 1, x + y),
                    SubSeq(s, x + y + 1, Len(s)))
           /\ SubSeq(s, 1, x) \in Seq(S) /\ Len(SubSeq(s, 1, x)) = x
           /\ SubSeq(s, 1, x + y) \in Seq(S) /\ Len(SubSeq(s, 1, x + y)) = x + y
           /\ SubSeq(SubSeq(s, 1, x + y), x + 1, x + y) \in Seq(S)
           /\ SubSeq(s, x + y + 1, Len(s)) \in Seq(S)
           /\ Len(SubSeq(s, x + y + 1, Len(s))) = Len(s) - (x + y)
<1> DEFINE ab == SubSeq(s, 1, x + y)
           a == SubSeq(s, 1, x)
           b == SubSeq(ab, x + 1, x + y)
           c == SubSeq(s, x + y + 1, Len(s))
           L == Len(s)
<1>0. L \in Nat /\ x \in 0 .. L /\ x + y \in 0 .. L
  OBVIOUS
<1>1. ab \in Seq(S) /\ Len(ab) = x + y
  BY <1>0, Cut
<1>2. \A i \in 1 .. x + y : ab[i] = s[i]
  BY <1>0, Cut
<1>3. a \in Seq(S) /\ Len(a) = x
  BY <1>0, Cut
<1>4. \A i \in 1 .. x : a[i] = s[i]
  BY <1>0, Cut
<1>5. c \in Seq(S) /\ Len(c) = L - (x + y)
  BY <1>0, Cut
<1>6. \A i \in 1 .. L - (x + y) : c[i] = s[(x + y) + i]
  BY <1>0, Cut
<1>7. b \in Seq(S) /\ Len(b) = y /\ \A i \in 1 .. y : b[i] = ab[x + i]
  <2> HIDE DEF ab
  <2>0. x \in 0 .. Len(ab)
    BY <1>1
  <2> DEFINE t == SubSeq(ab, x + 1, Len(ab))
  <2>1. t \in Seq(S) /\ Len(t) = Len(ab) - x
    BY <1>1, <2>0, Cut
  <2>2. \A i \in 1 .. Len(ab) - x : t[i] = ab[x + i]
    BY <1>1, <2>0, Cut
  <2>3. b = t
    BY <1>1
  <2> HIDE DEF t, b
  <2> QED
    BY <1>1, <2>1, <2>2, <2>3
<1> HIDE DEF ab, a, b, c
<1> DEFINE d == a \o b
<1>8. d \in Seq(S) /\ Len(d) = x + y
  BY <1>3, <1>7, Joined
<1>9. \A i \in 1 .. x : d[i] = a[i]
  BY <1>3, <1>7, Joined
<1>10. \A i \in 1 .. y : d[x + i] = b[i]
  <2>0. a \in Seq(S) /\ b \in Seq(S)
    BY <1>3, <1>7
  <2>1. \A i \in 1 .. Len(b) : d[Len(a) + i] = b[i]
    BY ONLY <2>0, Joined
  <2> HIDE DEF d
  <2> QED
    BY <1>3, <1>7, <2>1
<1> HIDE DEF d
<1>11. d = ab
  <2>1. ASSUME NEW i \in 1 .. Len(ab) PROVE d[i] = ab[i]
    <3>1. CASE i <= x
      <4>1. i \in 1 .. x /\ i \in 1 .. x + y
        BY <1>1, <3>1
      <4> QED
        BY <1>2, <1>4, <1>9, <4>1
    <3>2. CASE i > x
      <4> DEFINE j == i - x
      <4>1. j \in 1 .. y /\ x + j = i
        BY <1>1, <3>2
      <4> HIDE DEF j
      <4> QED
        BY <1>7, <1>10, <4>1
    <3> QED
      BY <1>1, <3>1, <3>2
  <2> QED
    BY <1>1, <1>8, <2>1, SeqEqual
<1> DEFINE e == d \o c
<1>12. e \in Seq(S) /\ Len(e) = (x + y) + (L - (x + y))
  BY <1>5, <1>8, Joined
<1>13. \A i \in 1 .. x + y : e[i] = d[i]
  BY <1>5, <1>8, Joined
<1>14. \A i \in 1 .. L - (x + y) : e[(x + y) + i] = c[i]
  BY <1>5, <1>8, Joined
<1> HIDE DEF e
<1>15. s = e
  <2>0. Len(e) = L
    BY <1>0, <1>12
  <2>1. ASSUME NEW i \in 1 .. Len(s) PROVE s[i] = e[i]
    <3>1. CASE i <= x + y
      <4>1. i \in 1 .. x + y
        BY <3>1
      <4> QED
        BY <1>2, <1>11, <1>13, <4>1
    <3>2. CASE i > x + y
      <4> DEFINE j == i - (x + y)
      <4>1. j \in 1 .. L - (x + y) /\ (x + y) + j = i
        BY <3>2
      <4> HIDE DEF j
      <4> QED
        BY <1>6, <1>14, <4>1
    <3> QED
      BY <3>1, <3>2
  <2> QED
    BY <1>12, <2>0, <2>1, SeqEqual
<1>16. s = (a \o b) \o c
  BY <1>15 DEF e, d
<1> QED
  BY <1>1, <1>3, <1>5, <1>7, <1>16 DEF Whole, ab, a, b, c

\* The pieces that what is kept is made of, whatever happens to it.
Pieces(plain, key, iv) ==
    {Cipher!Sealed(key, iv, i, plain[i]) : i \in DOMAIN plain}
      \cup {[is |-> "iv", iv |-> iv, i |-> i] : i \in 1 .. IvSize}
      \cup {[is |-> "tag", key |-> key, iv |-> iv, i |-> i, plain |-> plain] : i \in 1 .. TagSize}
SealedBytes(plain, key, iv) == [i \in DOMAIN plain |-> Cipher!Sealed(key, iv, i, plain[i])]
Envelope(plain, key, iv) ==
    (SealedBytes(plain, key, iv) \o Cipher!IvBytes(iv)) \o Cipher!TagBytes(key, iv, plain)

LEMMA EnvelopePieces ==
    ASSUME NEW plain \in Seq(Nat), NEW key, NEW iv
    PROVE  /\ SealedBytes(plain, key, iv) \in Seq(Pieces(plain, key, iv))
           /\ Len(SealedBytes(plain, key, iv)) = Len(plain)
           /\ Cipher!IvBytes(iv) \in Seq(Pieces(plain, key, iv)) /\ Len(Cipher!IvBytes(iv)) = IvSize
           /\ Cipher!TagBytes(key, iv, plain) \in Seq(Pieces(plain, key, iv))
           /\ Len(Cipher!TagBytes(key, iv, plain)) = TagSize
           /\ Envelope(plain, key, iv) \in Seq(Pieces(plain, key, iv))
<1> DEFINE P == Pieces(plain, key, iv)
           a == SealedBytes(plain, key, iv)
           b == Cipher!IvBytes(iv)
           c == Cipher!TagBytes(key, iv, plain)
<1>1. /\ \A i \in DOMAIN plain : Cipher!Sealed(key, iv, i, plain[i]) \in P
      /\ \A i \in 1 .. IvSize : [is |-> "iv", iv |-> iv, i |-> i] \in P
      /\ \A i \in 1 .. TagSize : [is |-> "tag", key |-> key, iv |-> iv, i |-> i, plain |-> plain] \in P
  BY DEF Pieces
<1> HIDE DEF P
<1>2. a \in Seq(P) /\ Len(a) = Len(plain)
  <2>1. DOMAIN plain = 1 .. Len(plain) /\ Len(plain) \in Nat
    OBVIOUS
  <2>2. a \in [1 .. Len(plain) -> P]
    BY <1>1, <2>1 DEF SealedBytes
  <2> HIDE DEF a
  <2> QED
    BY <2>1, <2>2
<1>3. b \in Seq(P) /\ Len(b) = IvSize
  <2>1. b \in [1 .. IvSize -> P]
    BY <1>1 DEF Cipher!IvBytes
  <2> HIDE DEF b
  <2> QED
    BY <2>1, CipherAssumption
<1>4. c \in Seq(P) /\ Len(c) = TagSize
  <2>1. c \in [1 .. TagSize -> P]
    BY <1>1 DEF Cipher!TagBytes
  <2> HIDE DEF c
  <2> QED
    BY <2>1, CipherAssumption
<1> HIDE DEF a, b, c
<1>5. a \o b \in Seq(P)
  BY <1>2, <1>3, Joined
<1>6. (a \o b) \o c \in Seq(P)
  BY <1>4, <1>5, Joined
<1> QED
  BY <1>2, <1>3, <1>4, <1>6 DEF Envelope, a, b, c, P

\* Bytes lost or exchanged: the others are still pieces.
LEMMA DamagedPieces ==
    ASSUME NEW P, NEW s \in Seq(P)
    PROVE  /\ \A i \in DOMAIN s : Cipher!RemoveAt(s, i) \in Seq(P)
           /\ \A i \in 1 .. Len(s) - 1 : [s EXCEPT ![i] = s[i + 1], ![i + 1] = s[i]] \in Seq(P)
<1>1. ASSUME NEW i \in DOMAIN s PROVE Cipher!RemoveAt(s, i) \in Seq(P)
  <2>1. i \in 1 .. Len(s) /\ Len(s) \in Nat
    OBVIOUS
  <2>2. i \in 0 .. Len(s) /\ i - 1 \in 0 .. Len(s)
    BY <2>1
  <2>3. SubSeq(s, 1, i - 1) \in Seq(P)
    BY <2>2, Cut
  <2>4. SubSeq(s, i + 1, Len(s)) \in Seq(P)
    BY <2>2, Cut
  <2>5. SubSeq(s, 1, i - 1) \o SubSeq(s, i + 1, Len(s)) \in Seq(P)
    BY <2>3, <2>4, Joined
  <2> QED
    BY <2>5 DEF Cipher!RemoveAt
<1>2. ASSUME NEW i \in 1 .. Len(s) - 1
      PROVE  [s EXCEPT ![i] = s[i + 1], ![i + 1] = s[i]] \in Seq(P)
  <2>1. Len(s) \in Nat /\ DOMAIN s = 1 .. Len(s) /\ i + 1 \in 1 .. Len(s) /\ i \in 1 .. Len(s)
    OBVIOUS
  <2> DEFINE t == [s EXCEPT ![i] = s[i + 1], ![i + 1] = s[i]]
  <2>2. s \in [1 .. Len(s) -> P] /\ s[i] \in P /\ s[i + 1] \in P
    BY <2>1
  <2>3. t \in [1 .. Len(s) -> P]
    BY <2>1, <2>2
  <2> HIDE DEF t
  <2>4. t \in Seq(P)
    BY <2>1, <2>3
  <2> QED
    BY <2>4 DEF t
<1> QED
  BY <1>1, <1>2

\* AEDecrypt() finds the tag of its key, its IV and what comes out if and only if the key and
\* all the bytes are the ones that were sealed.
LEMMA Opens ==
    ASSUME NEW plain \in Seq(Nat), NEW key \in {1, 2}, NEW iv \in {1, 2}, NEW k \in {1, 2},
           NEW d \in Seq(Pieces(plain, key, iv)), ~(Len(d) < TagSize + IvSize)
    PROVE  LET n == Len(d)
               tag == Cipher!SplitFromBack(d, TagSize)
               ivb == Cipher!SplitFromBack(SubSeq(d, 1, n - TagSize), IvSize)
               p == Cipher!Processed(SubSeq(d, 1, n - TagSize - IvSize), k, ivb)
           IN /\ Cipher!TagMatches(tag, k, ivb, p) <=> d = Envelope(plain, key, iv) /\ k = key
              /\ Cipher!TagMatches(tag, k, ivb, p) => p = plain
<1> DEFINE n == Len(d)
           tag == Cipher!SplitFromBack(d, TagSize)
           ivb == Cipher!SplitFromBack(SubSeq(d, 1, n - TagSize), IvSize)
           front == SubSeq(d, 1, n - TagSize - IvSize)
           p == Cipher!Processed(front, k, ivb)
           P == Pieces(plain, key, iv)
           a == SealedBytes(plain, key, iv)
           b == Cipher!IvBytes(iv)
           c == Cipher!TagBytes(key, iv, plain)
           x == n - TagSize - IvSize
<1>1. n \in Nat /\ TagSize \in Nat \ {0} /\ IvSize \in Nat /\ x \in Nat /\ x + IvSize = n - TagSize
      /\ x + IvSize <= n /\ n - (x + IvSize) = TagSize /\ x + IvSize + 1 = n - TagSize + 1
  BY CipherAssumption
<1>2. /\ front \in Seq(P) /\ Len(front) = x /\ ivb \in Seq(P)
      /\ tag \in Seq(P) /\ Len(tag) = TagSize
      /\ d = (front \o ivb) \o tag
  <2> DEFINE ab == SubSeq(d, 1, x + IvSize)
  <2> HIDE DEF P, x, n
  <2>0. d \in Seq(P) /\ x \in Nat /\ IvSize \in Nat /\ x + IvSize <= Len(d)
    BY <1>1 DEF P, n
  <2>1. /\ SubSeq(d, 1, x) \in Seq(P) /\ Len(SubSeq(d, 1, x)) = x
        /\ ab \in Seq(P) /\ Len(ab) = x + IvSize
    BY <2>0, WholeOf
  <2>2. /\ SubSeq(ab, x + 1, x + IvSize) \in Seq(P)
        /\ SubSeq(d, x + IvSize + 1, Len(d)) \in Seq(P)
        /\ Len(SubSeq(d, x + IvSize + 1, Len(d))) = Len(d) - (x + IvSize)
    BY <2>0, WholeOf
  <2>4. front = SubSeq(d, 1, x)
    BY DEF x
  <2>5. tag = SubSeq(d, x + IvSize + 1, Len(d))
    BY <1>1 DEF Cipher!SplitFromBack, n
  <2>6. ivb = SubSeq(ab, x + 1, x + IvSize)
    <3>1. SubSeq(d, 1, n - TagSize) = ab
      BY <1>1
    <3>2. ivb = Cipher!SplitFromBack(ab, IvSize)
      BY <3>1
    <3>3. Len(ab) - IvSize + 1 = x + 1
      BY <1>1, <2>1
    <3> HIDE DEF ivb, ab
    <3> QED
      BY <2>1, <3>2, <3>3 DEF Cipher!SplitFromBack
  <2>7. Len(d) - (x + IvSize) = TagSize
    BY <1>1 DEF n
  <2> HIDE DEF front, ivb, tag
  <2>3. d = (front \o ivb) \o tag
    <3>1. Whole(d, SubSeq(d, 1, x), SubSeq(SubSeq(d, 1, x + IvSize), x + 1, x + IvSize),
                SubSeq(d, x + IvSize + 1, Len(d)))
      BY ONLY <2>0, WholeOf
    <3>2. Whole(d, front, ivb, tag)
      BY <2>4, <2>5, <2>6, <3>1
    <3> QED
      BY <3>2 DEF Whole
  <2> HIDE DEF ab
  <2> QED
    BY <2>1, <2>2, <2>3, <2>4, <2>5, <2>6, <2>7
<1>3. p = [i \in 1 .. x |-> IF /\ front[i].is = "data" /\ front[i].key = k /\ front[i].i = i
                               /\ Cipher!IvBytes(front[i].iv) = ivb
                            THEN front[i].d ELSE Cipher!Garbage]
  <2> HIDE DEF front, ivb, x
  <2>1. DOMAIN front = 1 .. x
    BY <1>2
  <2> QED
    BY <2>1 DEF Cipher!Processed
<1>4. /\ a \in Seq(P) /\ Len(a) = Len(plain) /\ b \in Seq(P) /\ Len(b) = IvSize
      /\ c \in Seq(P) /\ Len(c) = TagSize /\ Envelope(plain, key, iv) = (a \o b) \o c
  BY EnvelopePieces DEF Envelope
<1>5. a = [i \in 1 .. Len(plain) |-> Cipher!Sealed(key, iv, i, plain[i])]
  BY DEF SealedBytes
<1>6. Len(plain) \in Nat /\ plain = [i \in 1 .. Len(plain) |-> plain[i]]
      /\ \A i \in 1 .. Len(plain) : plain[i] \in Nat
  OBVIOUS
<1> HIDE DEF front, ivb, tag, x, n
<1>7. ASSUME d = Envelope(plain, key, iv), k = key
      PROVE  Cipher!TagMatches(tag, k, ivb, p)
  <2>1. d = (a \o b) \o c
    BY <1>4, <1>7
  <2> HIDE DEF a, b, c, P
  <2>0. a \in Seq(P) /\ b \in Seq(P) /\ c \in Seq(P)
    BY <1>4
  <2>2. Len(d) = Len(a) + Len(b) + Len(c)
    BY <2>0, <2>1, PartsOf
  <2>3. SubSeq(d, Len(a) + Len(b) + 1, Len(d)) = c
    BY <2>0, <2>1, PartsOf
  <2>4. SubSeq(d, 1, Len(a) + Len(b)) = a \o b
    BY <2>0, <2>1, PartsOf
  <2>5. SubSeq(a \o b, Len(a) + 1, Len(a) + Len(b)) = b
    BY <2>0, <2>1, PartsOf
  <2>6. SubSeq(d, 1, Len(a)) = a
    BY <2>0, <2>1, PartsOf
  <2>7. x = Len(a) /\ x + IvSize = Len(a) + Len(b)
    BY <1>1, <1>4, <1>6, <2>2 DEF x, n
  <2>8. front = a
    BY <2>6, <2>7 DEF front, x
  <2>9. tag = c
    BY <1>1, <2>3, <2>7 DEF tag, n, Cipher!SplitFromBack
  <2>10. ivb = b
    <3>1. SubSeq(d, 1, n - TagSize) = a \o b
      BY <1>1, <2>4, <2>7
    <3>2. Len(a \o b) = x + IvSize
      BY <2>0, <2>7, Joined
    <3>3. ivb = SubSeq(a \o b, Len(a \o b) - IvSize + 1, Len(a \o b))
      BY <3>1 DEF ivb, Cipher!SplitFromBack
    <3>4. Len(a \o b) - IvSize + 1 = Len(a) + 1 /\ Len(a \o b) = Len(a) + Len(b)
      BY <1>1, <2>7, <3>2
    <3> QED
      BY <2>5, <3>3, <3>4
  <2>11. p = plain
    <3>1. x = Len(plain)
      BY <1>4, <2>7
    <3>2. \A i \in 1 .. x : front[i] = Cipher!Sealed(key, iv, i, plain[i])
      BY <1>5, <2>8, <3>1
    <3>3. \A i \in 1 .. x : /\ front[i].is = "data" /\ front[i].key = k /\ front[i].i = i
                            /\ front[i].iv = iv /\ front[i].d = plain[i]
      <4> TAKE i \in 1 .. x
      <4> DEFINE e == Cipher!Sealed(key, iv, i, plain[i])
      <4>1. e.is = "data" /\ e.key = key /\ e.i = i /\ e.iv = iv /\ e.d = plain[i]
        BY DEF Cipher!Sealed
      <4>2. front[i] = e
        BY <3>2
      <4> HIDE DEF e
      <4> QED
        BY <1>7, <4>1, <4>2
    <3>4. \A i \in 1 .. x : Cipher!IvBytes(front[i].iv) = ivb
      BY <2>10, <3>3 DEF b
    <3>5. p = [i \in 1 .. x |-> plain[i]]
      <4> HIDE DEF p
      <4> QED
        BY <1>3, <3>3, <3>4
    <3> QED
      BY <1>6, <3>1, <3>5
  <2> QED
    BY <1>7, <2>9, <2>10, <2>11 DEF Cipher!TagMatches, Cipher!Ivs, b, c
<1>8. ASSUME Cipher!TagMatches(tag, k, ivb, p)
      PROVE  k = key /\ p = plain /\ d = Envelope(plain, key, iv)
  <2> HIDE DEF p
  <2>1. PICK m \in {1, 2} : ivb = Cipher!IvBytes(m) /\ tag = Cipher!TagBytes(k, m, p)
    BY <1>8 DEF Cipher!TagMatches, Cipher!Ivs
  <2>2. tag[1] = [is |-> "tag", key |-> k, iv |-> m, i |-> 1, plain |-> p]
    BY <1>1, <2>1 DEF Cipher!TagBytes
  <2>3. tag[1] \in P
    <3> HIDE DEF P
    <3> QED
      BY <1>1, <1>2
  <2>4. k = key /\ m = iv /\ p = plain
    <3> DEFINE t == tag[1]
    <3>1. t.is = "tag" /\ t.key = k /\ t.iv = m /\ t.plain = p
      BY <2>2
    <3>2. \A i \in DOMAIN plain : Cipher!Sealed(key, iv, i, plain[i]).is = "data"
      BY DEF Cipher!Sealed
    <3>3. \A i \in 1 .. IvSize : [is |-> "iv", iv |-> iv, i |-> i].is = "iv"
      OBVIOUS
    <3>4. \A i \in 1 .. TagSize :
            /\ [is |-> "tag", key |-> key, iv |-> iv, i |-> i, plain |-> plain].key = key
            /\ [is |-> "tag", key |-> key, iv |-> iv, i |-> i, plain |-> plain].iv = iv
            /\ [is |-> "tag", key |-> key, iv |-> iv, i |-> i, plain |-> plain].plain = plain
      OBVIOUS
    <3>5. PICK i \in 1 .. TagSize : t = [is |-> "tag", key |-> key, iv |-> iv, i |-> i, plain |-> plain]
      <4> HIDE DEF t
      <4> QED
        BY <2>3, <3>1, <3>2, <3>3 DEF t, Pieces
    <3> HIDE DEF t
    <3> QED
      BY <3>1, <3>4, <3>5
  <2>5. ivb = b /\ tag = c
    BY <2>1, <2>4
  <2>6. x = Len(plain)
    <3>1. DOMAIN p = 1 .. x /\ DOMAIN plain = 1 .. Len(plain)
      BY <1>3
    <3> QED
      BY <1>1, <1>6, <2>4, <3>1
  <2>7. ASSUME NEW i \in 1 .. x PROVE front[i] = a[i]
    <3> DEFINE t == front[i]
    <3>1. i \in 1 .. Len(plain) /\ p[i] = plain[i] /\ plain[i] \in Nat
      BY <1>6, <2>4, <2>6
    <3>2. p[i] # Cipher!Garbage
      BY <3>1 DEF Cipher!Garbage
    <3>3. t.is = "data" /\ t.key = k /\ t.i = i
      BY <1>3, <3>2
    <3>4. t \in P
      <4> HIDE DEF P
      <4> QED
        BY <1>1, <1>2
    <3> HIDE DEF t
    <3>5. PICK j \in DOMAIN plain : t = Cipher!Sealed(key, iv, j, plain[j])
      BY <3>3, <3>4 DEF Pieces
    <3>6. t.i = j
      BY <3>5 DEF Cipher!Sealed
    <3> QED
      BY <1>5, <3>1, <3>3, <3>5, <3>6 DEF t
  <2>8. front = a
    <3> HIDE DEF P, a
    <3> QED
      BY <1>2, <1>4, <2>6, <2>7, SeqEqual
  <2>9. d = (a \o b) \o c
    BY <1>2, <2>5, <2>8
  <2> QED
    BY <1>4, <2>4, <2>9
<1> HIDE DEF p
<1>9. /\ Cipher!TagMatches(tag, k, ivb, p) <=> d = Envelope(plain, key, iv) /\ k = key
      /\ Cipher!TagMatches(tag, k, ivb, p) => p = plain
  BY <1>7, <1>8
<1> QED
  BY <1>9 DEF p, tag, ivb, n, front

\* What is sealed is an envelope, and what is kept of it its pieces, until it is opened.
SealInv ==
    /\ sealed = Cipher!None => opened = Cipher!None
    /\ sealed # Cipher!None /\ opened = Cipher!None =>
        \E iv \in {1, 2} :
            /\ sealed.plain \in Seq(Nat) /\ sealed.key \in {1, 2}
            /\ sealed.data = Envelope(sealed.plain, sealed.key, iv)
            /\ data \in Seq(Pieces(sealed.plain, sealed.key, iv))
    /\ Cipher!SealedIsOpened

LEMMA SealInit == Init => SealInv
  BY DEF Init, Cipher!Init, SealInv, Cipher!SealedIsOpened

LEMMA SealKept == SealInv /\ Cipher!Seal => SealInv'
<1> SUFFICES ASSUME SealInv, Cipher!Seal PROVE SealInv'
  OBVIOUS
<1>1. CASE Cipher!AEEncryptWithRandomIV
  <2>1. PICK plain \in Plaintexts, key \in {1, 2}, iv \in {1, 2} :
          /\ data' = Envelope(plain, key, iv)
          /\ sealed' = [plain |-> plain, key |-> key, data |-> data', damages |-> 0]
    BY <1>1 DEF Cipher!AEEncryptWithRandomIV, Cipher!Keys, Cipher!Ivs, Envelope, SealedBytes
  <2>2. sealed = Cipher!None /\ opened = Cipher!None /\ opened' = Cipher!None
    BY <1>1 DEF Cipher!AEEncryptWithRandomIV, SealInv
  <2>3. plain \in Seq(Nat)
    BY CipherAssumption
  <2>4. data' \in Seq(Pieces(plain, key, iv))
    BY <2>1, <2>3, EnvelopePieces
  <2>5. sealed'.plain = plain /\ sealed'.key = key /\ sealed'.data = Envelope(plain, key, iv)
    BY <2>1
  <2>6. Cipher!SealedIsOpened'
    BY <2>2 DEF Cipher!SealedIsOpened
  <2>7. \E j \in {1, 2} :
            /\ sealed'.plain \in Seq(Nat) /\ sealed'.key \in {1, 2}
            /\ sealed'.data = Envelope(sealed'.plain, sealed'.key, j)
            /\ data' \in Seq(Pieces(sealed'.plain, sealed'.key, j))
    BY <2>3, <2>4, <2>5
  <2> QED
    BY <2>2, <2>6, <2>7 DEF SealInv
<1>2. CASE Cipher!Damage
  <2>1. /\ sealed # Cipher!None /\ opened = Cipher!None /\ opened' = Cipher!None
        /\ sealed' = [plain |-> sealed.plain, key |-> sealed.key, data |-> sealed.data,
                      damages |-> sealed.damages + 1]
        /\ \/ \E i \in DOMAIN data : data' = Cipher!RemoveAt(data, i)
           \/ \E i \in 1 .. Len(data) - 1 :
                data' = [data EXCEPT ![i] = data[i + 1], ![i + 1] = data[i]]
    BY <1>2 DEF Cipher!Damage
  <2>2. PICK iv \in {1, 2} :
            /\ sealed.plain \in Seq(Nat) /\ sealed.key \in {1, 2}
            /\ sealed.data = Envelope(sealed.plain, sealed.key, iv)
            /\ data \in Seq(Pieces(sealed.plain, sealed.key, iv))
    BY <2>1 DEF SealInv
  <2> DEFINE P == Pieces(sealed.plain, sealed.key, iv)
  <2>3. data' \in Seq(P)
    <3> HIDE DEF P
    <3>0. data \in Seq(P)
      BY <2>2 DEF P
    <3>1. \A i \in DOMAIN data : Cipher!RemoveAt(data, i) \in Seq(P)
      BY <3>0, DamagedPieces
    <3>2. \A i \in 1 .. Len(data) - 1 : [data EXCEPT ![i] = data[i + 1], ![i + 1] = data[i]] \in Seq(P)
      BY <3>0, DamagedPieces
    <3> QED
      BY <2>1, <3>1, <3>2
  <2>4. sealed'.plain = sealed.plain /\ sealed'.key = sealed.key /\ sealed'.data = sealed.data
    BY <2>1
  <2>5. Cipher!SealedIsOpened'
    BY <2>1 DEF Cipher!SealedIsOpened
  <2>6. \E j \in {1, 2} :
            /\ sealed'.plain \in Seq(Nat) /\ sealed'.key \in {1, 2}
            /\ sealed'.data = Envelope(sealed'.plain, sealed'.key, j)
            /\ data' \in Seq(Pieces(sealed'.plain, sealed'.key, j))
    BY <2>2, <2>3, <2>4
  <2> QED
    BY <2>1, <2>5, <2>6 DEF SealInv
<1>3. CASE Cipher!AEDecrypt
  <2>1. sealed # Cipher!None /\ opened = Cipher!None /\ sealed' = sealed
    BY <1>3 DEF Cipher!AEDecrypt
  <2>2. PICK iv \in {1, 2} :
            /\ sealed.plain \in Seq(Nat) /\ sealed.key \in {1, 2}
            /\ sealed.data = Envelope(sealed.plain, sealed.key, iv)
            /\ data \in Seq(Pieces(sealed.plain, sealed.key, iv))
    BY <2>1 DEF SealInv
  <2> DEFINE n == Len(data)
             tag == Cipher!SplitFromBack(data, TagSize)
             ivb == Cipher!SplitFromBack(SubSeq(data, 1, n - TagSize), IvSize)
             p(k) == Cipher!Processed(SubSeq(data, 1, n - TagSize - IvSize), k, ivb)
             matches(k) == Cipher!TagMatches(tag, k, ivb, p(k))
             intact == data = sealed.data
  <2>3. PICK k \in {1, 2} :
          IF n < TagSize + IvSize
          THEN opened' = [result |-> "assert", key |-> k, intact |-> intact] /\ UNCHANGED data
          ELSE /\ opened' = [result |-> IF matches(k) THEN "true" ELSE "false", key |-> k, intact |-> intact]
               /\ data' = p(k)
    BY <1>3 DEF Cipher!AEDecrypt, Cipher!Keys
  <2>4. opened' # Cipher!None
    <3> HIDE DEF n, matches, p, intact
    <3>1. DOMAIN opened' = {"result", "key", "intact"}
      BY <2>3
    <3>2. DOMAIN Cipher!None = {"none"}
      BY DEF Cipher!None
    <3> QED
      BY <3>1, <3>2
  <2>5. /\ opened'.result = "true" <=> opened'.intact /\ opened'.key = sealed.key
        /\ opened'.result = "true" => data' = sealed.plain
    <3>1. CASE n < TagSize + IvSize
      <4>1. ~intact
        <5>1. ASSUME intact PROVE FALSE
          <6> DEFINE P == Pieces(sealed.plain, sealed.key, iv)
                     a == SealedBytes(sealed.plain, sealed.key, iv)
                     b == Cipher!IvBytes(iv)
                     c == Cipher!TagBytes(sealed.key, iv, sealed.plain)
          <6>1. /\ a \in Seq(P) /\ b \in Seq(P) /\ c \in Seq(P)
                /\ Len(b) = IvSize /\ Len(c) = TagSize
            BY <2>2, EnvelopePieces
          <6>2. data = (a \o b) \o c
            BY <2>2, <5>1 DEF Envelope
          <6> HIDE DEF P, a, b, c
          <6>5. a \in Seq(P) /\ b \in Seq(P) /\ c \in Seq(P)
            BY <6>1
          <6>3. Len(data) = Len(a) + Len(b) + Len(c)
            BY ONLY <6>2, <6>5, PartsOf
          <6>4. Len(a) \in Nat
            BY <6>1
          <6> QED
            BY <3>1, <6>1, <6>3, <6>4, CipherAssumption
        <5> QED
          BY <5>1
      <4> HIDE DEF n, matches, p, intact
      <4>2. opened' = [result |-> "assert", key |-> k, intact |-> intact]
        BY <2>3, <3>1
      <4>3. opened'.result = "assert" /\ opened'.intact = intact
        BY <4>2
      <4> QED
        BY <4>1, <4>3
    <3>2. CASE ~(n < TagSize + IvSize)
      <4>1. /\ matches(k) <=> intact /\ k = sealed.key
            /\ matches(k) => p(k) = sealed.plain
        BY <2>2, <3>2, Opens
      <4> HIDE DEF n, matches, p, intact
      <4>2. /\ opened' = [result |-> IF matches(k) THEN "true" ELSE "false", key |-> k, intact |-> intact]
            /\ data' = p(k)
        BY <2>3, <3>2
      <4>3. /\ opened'.result = (IF matches(k) THEN "true" ELSE "false")
            /\ opened'.intact = intact /\ opened'.key = k
        BY <4>2
      <4> QED
        BY <4>1, <4>2, <4>3
    <3> QED
      BY <3>1, <3>2
  <2>6. Cipher!SealedIsOpened'
    BY <2>1, <2>5 DEF Cipher!SealedIsOpened
  <2> QED
    BY <2>1, <2>4, <2>6 DEF SealInv
<1> QED
  BY <1>1, <1>2, <1>3 DEF Cipher!Seal

-----------------------------------------------------------------------------
(***************************************************************************)
(* Ciphers: tokens, and all four                                           *)
(***************************************************************************)

\* The intervals of two times differ by at most one when the times are at most one apart, and
\* by two or more when they are at least two apart.
LEMMA TokenInWindow ==
    ASSUME NEW made \in Int, NEW at \in Int
    PROVE  LET apart == IF made < at THEN at - made ELSE made - at
               ok == Cipher!ValidateToken(Cipher!GenerateToken(made), at)
           IN /\ apart <= TOTP_INTERVAL => ok
              /\ apart >= 2 * TOTP_INTERVAL => ~ok
<1> DEFINE T == TOTP_INTERVAL
           q == made \div T
           r == made % T
           u == at \div T
           v == at % T
           apart == IF made < at THEN at - made ELSE made - at
           ok == Cipher!ValidateToken(Cipher!GenerateToken(made), at)
<1>1. T \in Nat \ {0}
  BY CipherAssumption
<1>2. q \in Int /\ r \in 0 .. T - 1 /\ made = T * q + r
  BY <1>1, Division
<1>3. u \in Int /\ v \in 0 .. T - 1 /\ at = T * u + v
  BY <1>1, Division
<1> HIDE DEF T
<1>4. (at - T) \div T = u - 1 /\ (at + T) \div T = u + 1
  <2>1. T * (u - 1) + v = at - T /\ T * (u + 1) + v = at + T /\ u - 1 \in Int /\ u + 1 \in Int
    <3>1. T * (u - 1) = T * u - T /\ T * (u + 1) = T * u + T
      BY <1>1, <1>3
    <3> DEFINE x == T * u
    <3>2. x \in Int
      BY <1>1, <1>3
    <3> HIDE DEF u, v, x
    <3> QED
      BY <1>1, <1>3, <3>1, <3>2 DEF x
  <2> HIDE DEF u, v
  <2>2. (T * (u - 1) + v) \div T = u - 1
    BY <1>1, <1>3, <2>1, DivisionIsUnique
  <2>3. (T * (u + 1) + v) \div T = u + 1
    BY <1>1, <1>3, <2>1, DivisionIsUnique
  <2> QED
    BY <2>1, <2>2, <2>3
<1>5. ok <=> q = u - 1 \/ q = u \/ q = u + 1
  <2>1. ok <=> q = (at - T) \div T \/ q = u \/ q = (at + T) \div T
    BY DEF Cipher!ValidateToken, Cipher!GenerateToken, T
  <2> HIDE DEF ok, q, u
  <2> QED
    BY <1>4, <2>1
<1> HIDE DEF ok, q, r, u, v
<1> DEFINE x == q - u
<1>6. x \in Int /\ made - at = T * x + (r - v) /\ r - v < T /\ r - v > -T
  <2>1. T * x = T * q - T * u
    BY <1>1, <1>2, <1>3
  <2> QED
    BY <1>1, <1>2, <1>3, <2>1
<1>7. T * (x - 1) = T * x - T /\ T * (x + 1) = T * x + T
  BY <1>1, <1>6
<1>8. ok <=> x \in -1 .. 1
  BY <1>2, <1>3, <1>5
<1>9. T * x \in Int /\ x - 1 \in Int /\ x + 1 \in Int
  BY <1>1, <1>6
<1> DEFINE y == T * x
           e == r - v
<1>13. y \in Int /\ e \in Int /\ made - at = y + e /\ e < T /\ e > -T
  BY <1>2, <1>3, <1>6, <1>9
<1> HIDE DEF x
<1>10. ASSUME apart <= T PROVE ok
  <2>1. made - at <= T /\ made - at >= -T
    BY <1>1, <1>10
  <2>2. T * x < 2 * T /\ T * x > -(2 * T)
    <3>1. y < 2 * T /\ y > -(2 * T)
      <4> HIDE DEF y, e
      <4> QED
        BY <1>1, <1>13, <2>1
    <3> QED
      BY <3>1
  <2>3. ~(x - 1 >= 1)
    <3>1. x - 1 >= 1 => T * (x - 1) >= T
      BY <1>1, <1>9, ProductGrows
    <3> QED
      BY <1>1, <1>7, <1>9, <2>2, <3>1
  <2>4. ~(x + 1 <= -1)
    <3>1. x + 1 <= -1 => T * (x + 1) <= -T
      BY <1>1, <1>9, ProductGrows
    <3> QED
      BY <1>1, <1>7, <1>9, <2>2, <3>1
  <2> QED
    BY <1>6, <1>8, <2>3, <2>4
<1>11. ASSUME apart >= 2 * T, ok PROVE FALSE
  <2>1. made - at >= 2 * T \/ made - at <= -(2 * T)
    BY <1>1, <1>11
  <2>2. x = -1 \/ x = 0 \/ x = 1
    BY <1>6, <1>8, <1>11
  <2>3. y = -T \/ y = 0 \/ y = T
    BY <1>1, <2>2
  <2> HIDE DEF y, e
  <2> QED
    BY <1>1, <1>13, <2>1, <2>3
<1> HIDE DEF apart
<1>12. /\ apart <= T => ok
       /\ apart >= 2 * T => ~ok
  BY <1>10, <1>11
<1> QED
  BY <1>12 DEF apart, ok, T

LEMMA TokenKept == Cipher!Login => Cipher!TokenWindow'
<1> SUFFICES ASSUME Cipher!Login PROVE Cipher!TokenWindow'
  OBVIOUS
<1>1. PICK made \in Times, at \in Times :
        token' = [made |-> made, now |-> at,
                  ok |-> Cipher!ValidateToken(Cipher!GenerateToken(made), at)]
  BY DEF Cipher!Login
<1> DEFINE ok == Cipher!ValidateToken(Cipher!GenerateToken(made), at)
<1>2. token'.made = made /\ token'.now = at /\ token'.ok = ok
  BY <1>1
<1>3. made \in Int /\ at \in Int
  BY CipherAssumption
<1>4. LET apart == IF made < at THEN at - made ELSE made - at
      IN /\ apart <= TOTP_INTERVAL => ok
         /\ apart >= 2 * TOTP_INTERVAL => ~ok
  BY <1>3, TokenInWindow
<1> HIDE DEF ok
<1> QED
  BY <1>2, <1>4 DEF Cipher!TokenWindow

CipherInv == StreamInv /\ gen \in Generators /\ SealInv /\ Cipher!TokenWindow

LEMMA CipherInit == Init => CipherInv
<1>1. Init => Cipher!TokenWindow
  BY DEF Init, Cipher!Init, Cipher!TokenWindow
<1> QED
  BY <1>1, StreamInit, GeneratorInit, SealInit DEF CipherInv

LEMMA CipherKept == CipherInv /\ [Next]_vars => CipherInv'
<1> SUFFICES ASSUME CipherInv, [Next]_vars PROVE CipherInv'
  OBVIOUS
<1>a. UNCHANGED <<crypt, peer, wire, got, sent>> => StreamInv'
  BY DEF CipherInv, StreamInv
<1>b. UNCHANGED gen => (gen \in Generators)'
  BY DEF CipherInv, Generators, Place
<1>c. UNCHANGED <<data, sealed, opened>> => SealInv'
  BY DEF CipherInv, SealInv, Cipher!SealedIsOpened
<1>d. UNCHANGED token => Cipher!TokenWindow'
  BY DEF CipherInv, Cipher!TokenWindow
<1>1. CASE UNCHANGED cipherVars
  BY <1>1, <1>a, <1>b, <1>c, <1>d DEF CipherInv, cipherVars
<1>2. CASE Cipher!Next
  <2>1. CASE Cipher!Crypt
    <3>1. UNCHANGED <<gen, data, sealed, opened, token>>
      BY <2>1 DEF Cipher!Crypt, Cipher!AuthInit, Cipher!EncryptSend, Cipher!DecryptRecv,
                  Cipher!PeerSends, Cipher!PeerReceives, Cipher!sealVars
    <3> QED
      BY <2>1, <3>1, <1>b, <1>c, <1>d, StreamKept DEF CipherInv
  <2>2. CASE Cipher!Generate
    <3>1. UNCHANGED <<crypt, peer, wire, got, sent, data, sealed, opened, token>>
      BY <2>2 DEF Cipher!Generate, Cipher!cryptVars, Cipher!sealVars
    <3> QED
      BY <2>2, <3>1, <1>a, <1>c, <1>d, GeneratorKept DEF CipherInv
  <2>3. CASE Cipher!Seal
    <3>1. UNCHANGED <<crypt, peer, wire, got, sent, gen, token>>
      BY <2>3 DEF Cipher!Seal, Cipher!AEEncryptWithRandomIV, Cipher!Damage, Cipher!AEDecrypt,
                  Cipher!cryptVars
    <3> QED
      BY <2>3, <3>1, <1>a, <1>b, <1>d, SealKept DEF CipherInv
  <2>4. CASE Cipher!Login
    <3>1. UNCHANGED <<crypt, peer, wire, got, sent, gen, data, sealed, opened>>
      BY <2>4 DEF Cipher!Login, Cipher!cryptVars, Cipher!sealVars
    <3> QED
      BY <2>4, <3>1, <1>a, <1>b, <1>c, TokenKept DEF CipherInv
  <2> QED
    BY <1>2, <2>1, <2>2, <2>3, <2>4 DEF Cipher!Next
<1>3. UNCHANGED cipherVars \/ Cipher!Next
  BY DEF Next, PacketStep, ProcessStep, CallbacksStep, TimerStep, LocationStep, QueueStep, LoginStep,
         CipherStep, vars
<1> QED
  BY <1>1, <1>2, <1>3

\* AuthCrypt's streams, the generated key, sealed data and tokens: what one side makes the
\* other side takes, whatever pieces it comes in and whatever happened to it.
THEOREM CiphersRight == Spec => []CiphersAgree
<1>1. CipherInv => CiphersAgree
  BY StreamRight, GeneratorRight
     DEF CipherInv, SealInv, CiphersAgree, Cipher!CiphersAgree
<1> QED
  BY <1>1, CipherInit, CipherKept, PTL DEF Spec

-----------------------------------------------------------------------------
(***************************************************************************)
(* SRP6: numbers in byte arrays                                            *)
(***************************************************************************)
RestOf(n, size, f) == f = [i \in 0 .. size |-> IF i = 0 THEN n ELSE f[i - 1] \div Radix]
RestFrom(n, size) == CHOOSE f : RestOf(n, size, f)

LEMMA RestSteps ==
    ASSUME NEW n \in Nat, NEW size \in Nat
    PROVE  /\ Login!Rest(n, size) = RestFrom(n, size)[size]
           /\ \A i \in 0 .. size : RestFrom(n, size)[i] \in Nat
           /\ \A i \in 0 .. size :
                RestFrom(n, size)[i] = IF i = 0 THEN n ELSE RestFrom(n, size)[i - 1] \div Radix
<1> DEFINE D == [p \in (1 .. size) \X Nat |-> p[2] \div Radix]
           r == RestFrom(n, size)
<1>0. Radix \in Nat \ {0}
  BY LoginAssumption
<1>11. \A a \in Nat : a \div Radix \in Nat
  BY <1>0, Division
<1>1. D \in [(1 .. size) \X Nat -> Nat]
  BY <1>11
<1>2. PICK f \in [0 .. size -> Nat] : Stepwise(size, n, D, f)
  <2> HIDE DEF D
  <2> QED
    BY <1>1, StepsExist
<1>3. \A i \in 0 .. size : f[i] = IF i = 0 THEN n ELSE f[i - 1] \div Radix
  <2> TAKE i \in 0 .. size
  <2>1. CASE i = 0
    BY <1>2, <2>1 DEF Stepwise
  <2>2. CASE i # 0
    <3>1. i \in 1 .. size /\ i - 1 \in 0 .. size
      BY <2>2
    <3>2. f[i] = D[<<i, f[i - 1]>>] /\ <<i, f[i - 1]>> \in (1 .. size) \X Nat
      BY <1>2, <3>1 DEF Stepwise
    <3>3. D[<<i, f[i - 1]>>] = f[i - 1] \div Radix
      BY <3>2
    <3> QED
      BY <2>2, <3>2, <3>3
  <2> QED
    BY <2>1, <2>2
<1>4. RestOf(n, size, f)
  BY <1>2, <1>3 DEF RestOf
<1>5. RestOf(n, size, r)
  BY <1>4, Zenon DEF RestFrom
<1>6. Login!Rest(n, size) = r[size]
  BY Zenon DEF Login!Rest, RestOf, RestFrom
<1> HIDE DEF r
<1>7. \A i \in 0 .. size : r[i] = IF i = 0 THEN n ELSE r[i - 1] \div Radix
  BY <1>5, Zenon DEF RestOf
<1> DEFINE P == {i \in 0 .. size : r[i] \in Nat}
<1>8. 0 \in P
  BY <1>7
<1>9. ASSUME NEW i \in 1 .. size, i - 1 \in P PROVE i \in P
  <2>1. i \in 0 .. size /\ i # 0 /\ r[i - 1] \in Nat
    BY <1>9
  <2>2. r[i] = r[i - 1] \div Radix
    BY <1>7, <2>1
  <2>3. r[i - 1] \div Radix \in Nat
    BY <1>11, <2>1
  <2> QED
    BY <2>1, <2>2, <2>3
<1>10. \A i \in 0 .. size : r[i] \in Nat
  <2>1. \A i \in 0 .. size : i \in P
    <3> HIDE DEF P
    <3> QED
      BY <1>8, <1>9, Climb
  <2> QED
    BY <2>1
<1> QED
  BY <1>6, <1>7, <1>10 DEF r

\* What is left of a number behind one byte more, of a smaller one, and of none.
LEMMA RestGoesOn ==
    ASSUME NEW n \in Nat, NEW k \in Nat
    PROVE  /\ Login!Rest(n, k) \in Nat /\ Login!Rest(n, 0) = n
           /\ Login!Rest(n, k + 1) = Login!Rest(n, k) \div Radix
<1> DEFINE r == RestFrom(n, k)
           s == RestFrom(n, k + 1)
<1>1. Login!Rest(n, k) = r[k] /\ (\A i \in 0 .. k : r[i] \in Nat)
  BY RestSteps
<1>2. \A i \in 0 .. k : r[i] = IF i = 0 THEN n ELSE r[i - 1] \div Radix
  BY RestSteps
<1>3. k + 1 \in Nat
  OBVIOUS
<1>4. Login!Rest(n, k + 1) = s[k + 1]
  BY <1>3, RestSteps
<1>5. \A i \in 0 .. k + 1 : s[i] = IF i = 0 THEN n ELSE s[i - 1] \div Radix
  BY <1>3, RestSteps
<1>6. Login!Rest(n, 0) = n
  <2>1. 0 \in Nat /\ 0 \in 0 .. 0
    OBVIOUS
  <2>2. Login!Rest(n, 0) = RestFrom(n, 0)[0]
    BY <2>1, RestSteps
  <2>3. \A i \in 0 .. 0 : RestFrom(n, 0)[i] = IF i = 0 THEN n ELSE RestFrom(n, 0)[i - 1] \div Radix
    BY <2>1, RestSteps
  <2> QED
    BY <2>1, <2>2, <2>3
<1> HIDE DEF r, s
<1> DEFINE P == {i \in 0 .. k : s[i] = r[i]}
<1>7. 0 \in P
  BY <1>2, <1>5
<1>8. ASSUME NEW i \in 1 .. k, i - 1 \in P PROVE i \in P
  <2>1. i \in 0 .. k /\ i \in 0 .. k + 1 /\ i # 0 /\ s[i - 1] = r[i - 1]
    BY <1>8
  <2>2. r[i] = r[i - 1] \div Radix /\ s[i] = s[i - 1] \div Radix
    BY <1>2, <1>5, <2>1
  <2> QED
    BY <2>1, <2>2
<1>9. s[k] = r[k]
  <2>1. \A i \in 0 .. k : i \in P
    <3> HIDE DEF P
    <3> QED
      BY <1>7, <1>8, Climb
  <2> QED
    BY <2>1
<1>10. s[k + 1] = s[k] \div Radix
  <2>1. k + 1 \in 0 .. k + 1 /\ k + 1 # 0 /\ (k + 1) - 1 = k
    OBVIOUS
  <2> QED
    BY <1>5, <2>1
<1> QED
  BY <1>1, <1>4, <1>6, <1>9, <1>10

LEMMA DivisionGrows ==
    ASSUME NEW a \in Nat, NEW b \in Nat, a <= b, NEW c \in Nat \ {0}
    PROVE  a \div c <= b \div c
<1> DEFINE p == a \div c
           q == b \div c
           d == p - q
<1>1. p \in Int /\ a % c \in 0 .. c - 1 /\ a = c * p + (a % c)
  BY Division
<1>2. q \in Int /\ b % c \in 0 .. c - 1 /\ b = c * q + (b % c)
  BY Division
<1> HIDE DEF p, q
<1>3. d \in Int /\ c * d = c * p - c * q /\ c * d \in Int
  BY <1>1, <1>2
<1>4. d >= 1 => c * d >= c
  BY <1>3, ProductGrows
<1>5. c * p \in Int /\ c * q \in Int
  BY <1>1, <1>2
<1>6. c * d < c
  BY <1>1, <1>2, <1>3, <1>5
<1>7. ~(d >= 1)
  BY <1>3, <1>4, <1>6
<1> QED
  BY <1>1, <1>2, <1>7 DEF p, q

LEMMA SmallerFits ==
    ASSUME NEW n \in Nat, NEW m \in Nat, n <= m, NEW size \in Nat, Login!Fits(m, size)
    PROVE  Login!Fits(n, size)
<1> DEFINE P == {k \in 0 .. size : Login!Rest(n, k) <= Login!Rest(m, k)}
<1>1. 0 \in P
  BY RestGoesOn
<1>2. ASSUME NEW k \in 1 .. size, k - 1 \in P PROVE k \in P
  <2> DEFINE j == k - 1
  <2>1. j \in Nat /\ j + 1 = k /\ Login!Rest(n, j) <= Login!Rest(m, j)
    BY <1>2
  <2> HIDE DEF j
  <2>2. /\ Login!Rest(n, j) \in Nat /\ Login!Rest(m, j) \in Nat
        /\ Login!Rest(n, j + 1) = Login!Rest(n, j) \div Radix
        /\ Login!Rest(m, j + 1) = Login!Rest(m, j) \div Radix
    BY <2>1, RestGoesOn
  <2>3. Radix \in Nat \ {0}
    BY LoginAssumption
  <2>4. Login!Rest(n, j) \div Radix <= Login!Rest(m, j) \div Radix
    BY <2>1, <2>2, <2>3, DivisionGrows
  <2>5. Login!Rest(n, k) <= Login!Rest(m, k)
    BY <2>1, <2>2, <2>4
  <2> QED
    BY <2>5
<1>3. Login!Rest(n, size) <= Login!Rest(m, size)
  <2>1. \A k \in 0 .. size : k \in P
    <3> HIDE DEF P
    <3> QED
      BY <1>1, <1>2, Climb
  <2> QED
    BY <2>1
<1>4. Login!Rest(n, size) \in Nat
  BY RestGoesOn
<1> QED
  BY <1>3, <1>4 DEF Login!Fits

SumOf(bytes, f) ==
    f = [i \in 0 .. Len(bytes) |-> IF i = 0 THEN 0 ELSE f[i - 1] * Radix + bytes[Len(bytes) + 1 - i]]
SumFrom(bytes) == CHOOSE f : SumOf(bytes, f)

LEMMA SumSteps ==
    ASSUME NEW bytes \in Seq(Nat)
    PROVE  /\ Login!SetBinary(bytes) = SumFrom(bytes)[Len(bytes)]
           /\ \A i \in 0 .. Len(bytes) :
                SumFrom(bytes)[i] = IF i = 0 THEN 0
                                    ELSE SumFrom(bytes)[i - 1] * Radix + bytes[Len(bytes) + 1 - i]
<1> DEFINE n == Len(bytes)
           D == [p \in (1 .. n) \X Nat |-> p[2] * Radix + bytes[n + 1 - p[1]]]
           r == SumFrom(bytes)
<1>0. n \in Nat /\ Radix \in Nat
  BY LoginAssumption
<1>1. D \in [(1 .. n) \X Nat -> Nat]
  <2>1. \A i \in 1 .. n, a \in Nat : a * Radix + bytes[n + 1 - i] \in Nat
    <3> TAKE i \in 1 .. n, a \in Nat
    <3>1. n + 1 - i \in 1 .. n
      BY <1>0
    <3>2. bytes[n + 1 - i] \in Nat
      BY <3>1
    <3> QED
      BY <1>0, <3>2
  <2> QED
    BY <2>1
<1>2. PICK f \in [0 .. n -> Nat] : Stepwise(n, 0, D, f)
  <2> HIDE DEF D
  <2> QED
    BY <1>0, <1>1, StepsExist
<1>3. \A i \in 0 .. n : f[i] = IF i = 0 THEN 0 ELSE f[i - 1] * Radix + bytes[n + 1 - i]
  <2> TAKE i \in 0 .. n
  <2>1. CASE i = 0
    BY <1>2, <2>1 DEF Stepwise
  <2>2. CASE i # 0
    <3>1. i \in 1 .. n /\ i - 1 \in 0 .. n
      BY <2>2
    <3>2. f[i] = D[<<i, f[i - 1]>>] /\ <<i, f[i - 1]>> \in (1 .. n) \X Nat
      BY <1>2, <3>1 DEF Stepwise
    <3>3. D[<<i, f[i - 1]>>] = f[i - 1] * Radix + bytes[n + 1 - i]
      BY <3>2
    <3> QED
      BY <2>2, <3>2, <3>3
  <2> QED
    BY <2>1, <2>2
<1>4. SumOf(bytes, f)
  BY <1>2, <1>3 DEF SumOf
<1>5. SumOf(bytes, r)
  BY <1>4, Zenon DEF SumFrom
<1>6. Login!SetBinary(bytes) = r[n]
  BY Zenon DEF Login!SetBinary, SumOf, SumFrom
<1> HIDE DEF r
<1>7. \A i \in 0 .. n : r[i] = IF i = 0 THEN 0 ELSE r[i - 1] * Radix + bytes[n + 1 - i]
  BY <1>5, Zenon DEF SumOf
<1> QED
  BY <1>6, <1>7 DEF r

\* A number that fits is found again in its bytes.
LEMMA BytesCarry ==
    ASSUME NEW n \in Nat, NEW size \in Nat, Login!Fits(n, size)
    PROVE  /\ Login!GetBytes(n, size) \in Seq(Nat)
           /\ Login!SetBinary(Login!GetBytes(n, size)) = n
<1> DEFINE bytes == Login!GetBytes(n, size)
           r == SumFrom(bytes)
<1>0. Radix \in Nat \ {0}
  BY LoginAssumption
<1>1. \A k \in Nat : Login!Rest(n, k) \in Nat /\ Login!Rest(n, k + 1) = Login!Rest(n, k) \div Radix
  BY RestGoesOn
<1>2. bytes = [i \in 1 .. size |-> Login!Rest(n, i - 1) % Radix]
  BY DEF Login!GetBytes
<1>3. \A i \in 1 .. size : Login!Rest(n, i - 1) % Radix \in Nat
  <2> TAKE i \in 1 .. size
  <2>1. Login!Rest(n, i - 1) \in Nat
    BY <1>1
  <2> QED
    BY <1>0, <2>1, Division
<1> HIDE DEF bytes
<1>4. bytes \in Seq(Nat) /\ Len(bytes) = size
  <2>1. bytes \in [1 .. size -> Nat]
    BY <1>2, <1>3
  <2> QED
    BY <2>1
<1>5. Login!SetBinary(bytes) = r[Len(bytes)]
  BY <1>4, SumSteps
<1>6. \A i \in 0 .. Len(bytes) : r[i] = IF i = 0 THEN 0 ELSE r[i - 1] * Radix + bytes[Len(bytes) + 1 - i]
  BY <1>4, SumSteps
<1> HIDE DEF r
<1> DEFINE P == {i \in 0 .. size : r[i] = Login!Rest(n, size - i)}
<1>7. 0 \in P
  <2>1. r[0] = 0
    BY <1>4, <1>6
  <2>2. Login!Rest(n, size - 0) = 0
    BY DEF Login!Fits
  <2> QED
    BY <2>1, <2>2
<1>8. ASSUME NEW i \in 1 .. size, i - 1 \in P PROVE i \in P
  <2> DEFINE k == size - i
             rest == Login!Rest(n, k)
  <2>1. k \in Nat /\ k + 1 = size - (i - 1) /\ size + 1 - i = k + 1 /\ k + 1 \in 1 .. size /\ (k + 1) - 1 = k
    OBVIOUS
  <2>2. r[i - 1] = Login!Rest(n, k + 1)
    BY <1>8, <2>1
  <2> HIDE DEF k
  <2>3. r[i - 1] = rest \div Radix /\ rest \in Nat
    BY <1>1, <2>1, <2>2
  <2>4. bytes[size + 1 - i] = rest % Radix
    BY <1>2, <2>1
  <2>5. r[i] = r[i - 1] * Radix + bytes[size + 1 - i]
    BY <1>4, <1>6
  <2> HIDE DEF rest
  <2>6. rest = Radix * (rest \div Radix) + (rest % Radix) /\ rest \div Radix \in Int
    BY <1>0, <2>3, Division
  <2>7. (rest \div Radix) * Radix = Radix * (rest \div Radix)
    BY <1>0, <2>6
  <2>8. r[i] = rest
    BY <2>3, <2>4, <2>5, <2>6, <2>7
  <2> QED
    BY <2>8 DEF rest, k
<1>9. r[size] = n
  <2>1. \A i \in 0 .. size : i \in P
    <3> HIDE DEF P
    <3> QED
      BY <1>7, <1>8, Climb
  <2>2. r[size] = Login!Rest(n, size - size)
    BY <2>1
  <2>3. Login!Rest(n, 0) = n
    BY RestGoesOn
  <2> QED
    BY <2>2, <2>3
<1> QED
  BY <1>4, <1>5, <1>9 DEF bytes

-----------------------------------------------------------------------------
(***************************************************************************)
(* SRP6: powers modulo m                                                   *)
(***************************************************************************)
LEMMA MultiplesVanish ==
    ASSUME NEW m \in Nat \ {0}, NEW q \in Int, NEW c \in Int
    PROVE  (m * q + c) % m = c % m
<1> DEFINE u == c \div m
           v == c % m
<1>1. u \in Int /\ v \in 0 .. m - 1 /\ c = m * u + v
  BY Division
<1> HIDE DEF u, v
<1>2. q + u \in Int /\ m * (q + u) = m * q + m * u /\ m * q \in Int /\ m * u \in Int
  BY <1>1
<1>3. (m * (q + u) + v) % m = v
  BY <1>1, <1>2, DivisionIsUnique
<1>4. m * (q + u) + v = m * q + c
  BY <1>1, <1>2
<1> QED
  BY <1>3, <1>4 DEF v

LEMMA ModOnce ==
    ASSUME NEW m \in Nat \ {0}, NEW a \in Nat, NEW b \in Nat
    PROVE  ((a % m) * b) % m = (a * b) % m /\ (b * (a % m)) % m = (b * a) % m
<1> DEFINE u == a \div m
           v == a % m
<1>0. a \in Int
  OBVIOUS
<1>6. u \in Int /\ v \in 0 .. m - 1 /\ a = m * u + v
  BY <1>0, Division
<1>7. a \in Nat => u \in Nat
  BY <1>0, Division
<1>1. u \in Nat /\ v \in 0 .. m - 1 /\ a = m * u + v
  BY <1>6, <1>7
<1> HIDE DEF u, v
<1>2. u * b \in Int /\ v * b \in Int /\ (m * u + v) * b = m * (u * b) + v * b
  BY <1>1
<1>3. (m * (u * b) + v * b) % m = (v * b) % m
  BY <1>2, MultiplesVanish
<1>4. (a * b) % m = (v * b) % m
  BY <1>1, <1>2, <1>3
<1>5. b * v = v * b /\ b * a = a * b
  BY <1>1
<1> QED
  BY <1>4, <1>5 DEF v

PowerOf(b, e, m, f) == f = [i \in 0 .. e |-> IF i = 0 THEN 1 % m ELSE (f[i - 1] * b) % m]
PowerFrom(b, e, m) == CHOOSE f : PowerOf(b, e, m, f)

LEMMA PowerSteps ==
    ASSUME NEW b \in Nat, NEW e \in Nat, NEW m \in Nat \ {0}
    PROVE  /\ Login!ModExp(b, e, m) = PowerFrom(b, e, m)[e]
           /\ \A i \in 0 .. e :
                PowerFrom(b, e, m)[i] = IF i = 0 THEN 1 % m ELSE (PowerFrom(b, e, m)[i - 1] * b) % m
<1> DEFINE X == 0 .. m - 1
           D == [p \in (1 .. e) \X X |-> (p[2] * b) % m]
           r == PowerFrom(b, e, m)
<1>0. \A a \in Int : a % m \in X
  BY Division
<1>1. D \in [(1 .. e) \X X -> X]
  <2>1. \A a \in X : a * b \in Int
    OBVIOUS
  <2>2. \A a \in X : (a * b) % m \in X
    BY <1>0, <2>1
  <2> QED
    BY <2>2
<1>2. PICK f \in [0 .. e -> X] : Stepwise(e, 1 % m, D, f)
  <2>1. 1 % m \in X
    BY <1>0
  <2> HIDE DEF D, X
  <2> QED
    BY <1>1, <2>1, StepsExist
<1>3. \A i \in 0 .. e : f[i] = IF i = 0 THEN 1 % m ELSE (f[i - 1] * b) % m
  <2> TAKE i \in 0 .. e
  <2>1. CASE i = 0
    BY <1>2, <2>1 DEF Stepwise
  <2>2. CASE i # 0
    <3>1. i \in 1 .. e /\ i - 1 \in 0 .. e
      BY <2>2
    <3>2. f[i] = D[<<i, f[i - 1]>>] /\ <<i, f[i - 1]>> \in (1 .. e) \X X
      BY <1>2, <3>1 DEF Stepwise
    <3>3. D[<<i, f[i - 1]>>] = (f[i - 1] * b) % m
      BY <3>2
    <3> QED
      BY <2>2, <3>2, <3>3
  <2> QED
    BY <2>1, <2>2
<1>4. PowerOf(b, e, m, f)
  BY <1>2, <1>3 DEF PowerOf
<1>5. PowerOf(b, e, m, r)
  BY <1>4, Zenon DEF PowerFrom
<1>6. Login!ModExp(b, e, m) = r[e]
  BY Zenon DEF Login!ModExp, PowerOf, PowerFrom
<1> HIDE DEF r
<1>7. \A i \in 0 .. e : r[i] = IF i = 0 THEN 1 % m ELSE (r[i - 1] * b) % m
  BY <1>5, Zenon DEF PowerOf
<1> QED
  BY <1>6, <1>7 DEF r

LEMMA PowerGoesOn ==
    ASSUME NEW b \in Nat, NEW m \in Nat \ {0}
    PROVE  /\ Login!ModExp(b, 0, m) = 1 % m
           /\ \A e \in Nat : /\ Login!ModExp(b, e, m) \in 0 .. m - 1
                             /\ Login!ModExp(b, e + 1, m) = (Login!ModExp(b, e, m) * b) % m
<1>1. Login!ModExp(b, 0, m) = 1 % m
  <2>1. 0 \in Nat /\ 0 \in 0 .. 0
    OBVIOUS
  <2>2. Login!ModExp(b, 0, m) = PowerFrom(b, 0, m)[0]
    BY <2>1, PowerSteps
  <2>3. \A i \in 0 .. 0 :
          PowerFrom(b, 0, m)[i] = IF i = 0 THEN 1 % m ELSE (PowerFrom(b, 0, m)[i - 1] * b) % m
    BY <2>1, PowerSteps
  <2> QED
    BY <2>1, <2>2, <2>3
<1>2. ASSUME NEW e \in Nat
      PROVE  /\ Login!ModExp(b, e, m) \in 0 .. m - 1
             /\ Login!ModExp(b, e + 1, m) = (Login!ModExp(b, e, m) * b) % m
  <2> DEFINE r == PowerFrom(b, e, m)
             s == PowerFrom(b, e + 1, m)
  <2>1. Login!ModExp(b, e, m) = r[e]
    BY PowerSteps
  <2>2. \A i \in 0 .. e : r[i] = IF i = 0 THEN 1 % m ELSE (r[i - 1] * b) % m
    BY PowerSteps
  <2>3. e + 1 \in Nat
    OBVIOUS
  <2>4. Login!ModExp(b, e + 1, m) = s[e + 1]
    BY <2>3, PowerSteps
  <2>5. \A i \in 0 .. e + 1 : s[i] = IF i = 0 THEN 1 % m ELSE (s[i - 1] * b) % m
    BY <2>3, PowerSteps
  <2> HIDE DEF r, s
  <2>0. \A a \in Int : a % m \in 0 .. m - 1
    BY Division
  <2> DEFINE P == {i \in 0 .. e : s[i] = r[i] /\ r[i] \in 0 .. m - 1}
  <2>7. 0 \in P
    BY <2>0, <2>2, <2>5
  <2>8. ASSUME NEW i \in 1 .. e, i - 1 \in P PROVE i \in P
    <3>1. i \in 0 .. e /\ i \in 0 .. e + 1 /\ i # 0 /\ s[i - 1] = r[i - 1] /\ r[i - 1] \in 0 .. m - 1
      BY <2>8
    <3>2. r[i] = (r[i - 1] * b) % m /\ s[i] = (s[i - 1] * b) % m
      BY <2>2, <2>5, <3>1
    <3>3. r[i - 1] * b \in Int
      BY <3>1
    <3> QED
      BY <2>0, <3>1, <3>2, <3>3
  <2>9. s[e] = r[e] /\ r[e] \in 0 .. m - 1
    <3>1. \A i \in 0 .. e : i \in P
      <4> HIDE DEF P
      <4> QED
        BY <2>7, <2>8, Climb
    <3> QED
      BY <3>1
  <2>10. s[e + 1] = (s[e] * b) % m
    <3>1. e + 1 \in 0 .. e + 1 /\ e + 1 # 0 /\ (e + 1) - 1 = e
      OBVIOUS
    <3> QED
      BY <2>5, <3>1
  <2> QED
    BY <2>1, <2>4, <2>9, <2>10
<1> QED
  BY <1>1, <1>2

\* The base counts modulo m only.
LEMMA PowerOfRemainder ==
    ASSUME NEW b \in Nat, NEW e \in Nat, NEW m \in Nat \ {0}
    PROVE  Login!ModExp(b % m, e, m) = Login!ModExp(b, e, m)
<1> DEFINE c == b % m
           P == {i \in 0 .. e : Login!ModExp(c, i, m) = Login!ModExp(b, i, m)}
<1>0. c \in Nat
  BY Division
<1>1. 0 \in P
  BY <1>0, PowerGoesOn
<1>2. ASSUME NEW i \in 1 .. e, i - 1 \in P PROVE i \in P
  <2> DEFINE j == i - 1
             x == Login!ModExp(b, j, m)
  <2>1. j \in Nat /\ j + 1 = i /\ Login!ModExp(c, j, m) = x
    BY <1>2
  <2> HIDE DEF j, c
  <2>2. x \in Nat /\ Login!ModExp(b, j + 1, m) = (x * b) % m
    BY <2>1, PowerGoesOn
  <2>3. Login!ModExp(c, j + 1, m) = (x * c) % m
    BY <1>0, <2>1, PowerGoesOn
  <2> HIDE DEF x
  <2>4. (x * (b % m)) % m = (x * b) % m
    BY <2>2, ModOnce
  <2>5. Login!ModExp(c, i, m) = Login!ModExp(b, i, m)
    BY <2>1, <2>2, <2>3, <2>4 DEF c
  <2> QED
    BY <2>5
<1>3. \A i \in 0 .. e : i \in P
  <2> HIDE DEF P
  <2> QED
    BY <1>1, <1>2, Climb
<1> QED
  BY <1>3

LEMMA PowersMultiply ==
    ASSUME NEW b \in Nat, NEW a \in Nat, NEW e \in Nat, NEW m \in Nat \ {0}
    PROVE  Login!ModExp(b, a + e, m) = (Login!ModExp(b, a, m) * Login!ModExp(b, e, m)) % m
<1> DEFINE x == Login!ModExp(b, a, m)
           P == {i \in 0 .. e : Login!ModExp(b, a + i, m) = (x * Login!ModExp(b, i, m)) % m}
<1>0. x \in 0 .. m - 1
  BY PowerGoesOn
<1>1. 0 \in P
  <2>1. x % m = x
    <3>1. m * 0 + x = x
      BY <1>0
    <3>2. (m * 0 + x) % m = x
      BY <1>0, DivisionIsUnique
    <3> QED
      BY <3>1, <3>2
  <2>2. Login!ModExp(b, 0, m) = 1 % m /\ a + 0 = a
    BY PowerGoesOn
  <2> HIDE DEF x
  <2>3. (x * (1 % m)) % m = (x * 1) % m
    BY <1>0, ModOnce
  <2>4. (x * Login!ModExp(b, 0, m)) % m = x
    BY <1>0, <2>1, <2>2, <2>3
  <2> QED
    BY <2>2, <2>4 DEF x
<1>2. ASSUME NEW i \in 1 .. e, i - 1 \in P PROVE i \in P
  <2> DEFINE j == i - 1
             y == Login!ModExp(b, j, m)
             z == Login!ModExp(b, a + j, m)
  <2>1. j \in Nat /\ j + 1 = i /\ a + j \in Nat /\ (a + j) + 1 = a + i /\ z = (x * y) % m
    BY <1>2
  <2> HIDE DEF j, x
  <2>2. y \in Nat /\ Login!ModExp(b, j + 1, m) = (y * b) % m
    BY <2>1, PowerGoesOn
  <2>3. z \in Nat /\ Login!ModExp(b, (a + j) + 1, m) = (z * b) % m
    BY <2>1, PowerGoesOn
  <2> HIDE DEF y, z
  <2>4. x * y \in Nat /\ y * b \in Nat /\ x \in Nat /\ (x * y) * b = x * (y * b)
    BY <1>0, <2>2
  <2>5. (((x * y) % m) * b) % m = ((x * y) * b) % m
    BY <2>4, ModOnce
  <2>6. (x * ((y * b) % m)) % m = (x * (y * b)) % m
    BY <2>4, ModOnce
  <2>7. Login!ModExp(b, a + i, m) = (x * Login!ModExp(b, i, m)) % m
    BY <2>1, <2>2, <2>3, <2>4, <2>5, <2>6
  <2> QED
    BY <2>7
<1>3. \A i \in 0 .. e : i \in P
  <2> HIDE DEF P
  <2> QED
    BY <1>1, <1>2, Climb
<1> QED
  BY <1>3

LEMMA PowerOfPower ==
    ASSUME NEW b \in Nat, NEW a \in Nat, NEW e \in Nat, NEW m \in Nat \ {0}
    PROVE  Login!ModExp(Login!ModExp(b, a, m), e, m) = Login!ModExp(b, a * e, m)
<1> DEFINE x == Login!ModExp(b, a, m)
           P == {i \in 0 .. e : Login!ModExp(x, i, m) = Login!ModExp(b, a * i, m)}
<1>0. x \in Nat
  BY PowerGoesOn
<1>1. 0 \in P
  <2>1. a * 0 = 0
    OBVIOUS
  <2> QED
    BY <1>0, <2>1, PowerGoesOn
<1>2. ASSUME NEW i \in 1 .. e, i - 1 \in P PROVE i \in P
  <2> DEFINE j == i - 1
             y == Login!ModExp(b, a * j, m)
  <2>1. j \in Nat /\ j + 1 = i /\ a * j \in Nat /\ a * j + a = a * i /\ Login!ModExp(x, j, m) = y
    <3>1. j \in Nat /\ j + 1 = i
      OBVIOUS
    <3>2. a * j + a = a * i
      OBVIOUS
    <3>3. a * j \in Nat
      BY <3>1
    <3> QED
      BY <1>2, <3>1, <3>2, <3>3
  <2>2. Login!ModExp(x, j + 1, m) = (y * x) % m
    <3> HIDE DEF j, x, y
    <3> QED
      BY <1>0, <2>1, PowerGoesOn
  <2>3. Login!ModExp(b, a * j + a, m) = (y * x) % m
    <3> DEFINE aj == a * j
    <3>1. aj \in Nat
      BY <2>1
    <3> HIDE DEF aj
    <3>2. Login!ModExp(b, aj + a, m) = (Login!ModExp(b, aj, m) * Login!ModExp(b, a, m)) % m
      BY <3>1, PowersMultiply
    <3> QED
      BY <3>2 DEF aj
  <2> HIDE DEF j, x, y
  <2>4. Login!ModExp(x, i, m) = Login!ModExp(b, a * i, m)
    BY <2>1, <2>2, <2>3
  <2> QED
    BY <2>4
<1>3. \A i \in 0 .. e : i \in P
  <2> HIDE DEF P
  <2> QED
    BY <1>1, <1>2, Climb
<1> QED
  BY <1>3

-----------------------------------------------------------------------------
(***************************************************************************)
(* SRP6: the two ways to the key                                           *)
(***************************************************************************)

\* The client takes 3v off B again: what is left is g ^ b.
LEMMA BaseOfClient ==
    ASSUME NEW G \in 0 .. N - 1, NEW v \in 0 .. N - 1
    PROVE  (((G + v * 3) % N) + N * 3 - 3 * v) % N = G
<1> DEFINE s == G + v * 3
           q == s \div N
           r == s % N
<1>0. N \in Nat \ {0}
  BY LoginAssumption
<1>1. s \in Int
  BY <1>0
<1>2. q \in Int /\ r \in 0 .. N - 1 /\ s = N * q + r
  <2> HIDE DEF s
  <2> QED
    BY <1>0, <1>1, Division
<1> HIDE DEF q, r
<1>3. 3 - q \in Int /\ N * (3 - q) = N * 3 - N * q /\ N * q \in Int
  BY <1>0, <1>2
<1>4. (N * (3 - q) + G) % N = G
  BY <1>0, <1>3, DivisionIsUnique
<1>5. r + N * 3 - 3 * v = N * (3 - q) + G
  BY <1>0, <1>2, <1>3
<1> QED
  BY <1>4, <1>5 DEF r, s

\* g ^ b to the power a + ux, and g ^ a times v ^ u, with v = g ^ x, to the power b.
LEMMA SameKey ==
    ASSUME NEW a \in Nat, NEW b \in Nat, NEW u \in Nat, NEW x \in Nat
    PROVE  Login!ModExp(Login!ModExp(g, b, N), a + u * x, N)
             = Login!ModExp(Login!ModExp(g, a, N) * Login!ModExp(Login!ModExp(g, x, N), u, N), b, N)
<1> DEFINE P(e) == Login!ModExp(g, e, N)
           e == a + x * u
           W == Login!ModExp(P(x), u, N)
<1>0. N \in Nat \ {0} /\ g \in Nat
  BY LoginAssumption
<1>1. x * u \in Nat /\ u * x = x * u /\ e \in Nat /\ e * b \in Nat /\ b * e = e * b
  OBVIOUS
<1>2. W = P(x * u)
  BY <1>0, PowerOfPower
<1>3. P(a) \in Nat /\ P(x * u) \in Nat
  <2>1. \A k \in Nat : P(k) \in 0 .. N - 1
    BY <1>0, PowerGoesOn
  <2> QED
    BY <1>0, <1>1, <2>1
<1>4. P(e) = (P(a) * P(x * u)) % N
  <2> DEFINE c == x * u
  <2>1. c \in Nat
    BY <1>1
  <2> HIDE DEF c
  <2>2. P(a + c) = (P(a) * P(c)) % N
    BY <1>0, <2>1, PowersMultiply
  <2> QED
    BY <2>2 DEF c
<1>5. Login!ModExp(P(b), e, N) = P(b * e)
  <2> HIDE DEF e
  <2> QED
    BY <1>0, <1>1, PowerOfPower
<1>6. Login!ModExp(P(e), b, N) = P(e * b)
  <2> HIDE DEF e
  <2> QED
    BY <1>0, <1>1, PowerOfPower
<1>7. Login!ModExp(P(a) * W, b, N) = Login!ModExp(P(e), b, N)
  <2> DEFINE y == P(a) * P(x * u)
  <2>1. y \in Nat
    BY <1>3
  <2> HIDE DEF y
  <2>2. Login!ModExp(y % N, b, N) = Login!ModExp(y, b, N)
    BY <1>0, <2>1, PowerOfRemainder
  <2>3. y = P(a) * W /\ y % N = P(e)
    BY <1>2, <1>4 DEF y
  <2> HIDE DEF e, W
  <2> QED
    BY <2>2, <2>3
<1>8. Login!ModExp(P(b), e, N) = Login!ModExp(P(a) * W, b, N)
  BY <1>1, <1>5, <1>6, <1>7
<1>9. a + u * x = e
  BY <1>1
<1> HIDE DEF e
<1> QED
  BY <1>8, <1>9

\* A power fits an array, and is found again in it.
LEMMA PowerFits ==
    ASSUME NEW e \in Nat
    PROVE  /\ Login!ModExp(g, e, N) \in 0 .. N - 1
           /\ Login!Fits(Login!ModExp(g, e, N), KEY_LENGTH)
           /\ Login!SetBinary(Login!GetBytes(Login!ModExp(g, e, N), KEY_LENGTH)) = Login!ModExp(g, e, N)
           /\ Login!GetBytes(Login!ModExp(g, e, N), KEY_LENGTH) \in Seq(Nat)
<1> DEFINE p == Login!ModExp(g, e, N)
<1>0. N \in Nat \ {0} /\ g \in Nat /\ KEY_LENGTH \in Nat /\ Login!Fits(N, KEY_LENGTH)
  BY LoginAssumption
<1>1. p \in 0 .. N - 1
  BY <1>0, PowerGoesOn
<1> HIDE DEF p
<1>2. p \in Nat /\ p <= N /\ N \in Nat
  BY <1>0, <1>1
<1>3. Login!Fits(p, KEY_LENGTH)
  BY <1>0, <1>2, SmallerFits
<1>4. Login!GetBytes(p, KEY_LENGTH) \in Seq(Nat)
  BY <1>0, <1>2, <1>3, BytesCarry
<1>5. Login!SetBinary(Login!GetBytes(p, KEY_LENGTH)) = p
  BY <1>0, <1>2, <1>3, BytesCarry
<1> QED
  BY <1>1, <1>3, <1>4, <1>5 DEF p

LEMMA SumIsNumber ==
    ASSUME NEW bytes \in Seq(Nat)
    PROVE  Login!SetBinary(bytes) \in Nat
<1> DEFINE n == Len(bytes)
           r == SumFrom(bytes)
           P == {i \in 0 .. n : r[i] \in Nat}
<1>0. n \in Nat /\ Radix \in Nat
  BY LoginAssumption
<1>1. Login!SetBinary(bytes) = r[n]
  BY SumSteps
<1>2. \A i \in 0 .. n : r[i] = IF i = 0 THEN 0 ELSE r[i - 1] * Radix + bytes[n + 1 - i]
  BY SumSteps
<1> HIDE DEF r
<1>3. 0 \in P
  BY <1>0, <1>2
<1>4. ASSUME NEW i \in 1 .. n, i - 1 \in P PROVE i \in P
  <2>1. n + 1 - i \in 1 .. n
    BY <1>0
  <2>2. bytes[n + 1 - i] \in Nat /\ r[i - 1] \in Nat
    BY <1>4, <2>1
  <2>3. r[i] = r[i - 1] * Radix + bytes[n + 1 - i]
    BY <1>2
  <2>4. r[i - 1] * Radix \in Nat
    BY <1>0, <2>2
  <2> QED
    BY <2>2, <2>3, <2>4
<1>5. \A i \in 0 .. n : i \in P
  <2> HIDE DEF P, n
  <2> QED
    BY <1>0, <1>3, <1>4, Climb
<1> QED
  BY <1>0, <1>1, <1>5

\* The bytes of B, a sum modulo N.
LEMMA SumFits ==
    ASSUME NEW k \in Nat
    PROVE  /\ Login!SetBinary(Login!GetBytes(k % N, KEY_LENGTH)) = k % N
           /\ Login!GetBytes(k % N, KEY_LENGTH) \in Seq(Nat)
<1> DEFINE p == k % N
<1>0. N \in Nat \ {0} /\ KEY_LENGTH \in Nat /\ Login!Fits(N, KEY_LENGTH)
  BY LoginAssumption
<1>6. k \in Int /\ N \in Nat \ {0}
  BY <1>0
<1>1. p \in 0 .. N - 1
  BY ONLY <1>6, Division
<1> HIDE DEF p
<1>2. p \in Nat /\ p <= N /\ N \in Nat
  BY <1>0, <1>1
<1>3. Login!Fits(p, KEY_LENGTH)
  BY <1>0, <1>2, SmallerFits
<1>4. Login!GetBytes(p, KEY_LENGTH) \in Seq(Nat)
  BY <1>0, <1>2, <1>3, BytesCarry
<1>5. Login!SetBinary(Login!GetBytes(p, KEY_LENGTH)) = p
  BY <1>0, <1>2, <1>3, BytesCarry
<1> QED
  BY <1>4, <1>5 DEF p

\* With the verifier of its password the client comes to the server's key.
LEMMA ClientsKey ==
    ASSUME NEW password \in Nat, NEW salt \in Nat, NEW a \in Nat, NEW b \in Nat, NEW v, NEW A, NEW B,
           v = Login!ModExp(g, Login!PasswordHash(salt, password), N),
           A = Login!GetBytes(Login!ModExp(g, a, N), KEY_LENGTH),
           B = Login!EphemeralB(b, v)
    PROVE  Login!ClientKey(password, salt, B, a)
             = Login!SHA1Interleave(Login!GetBytes(
                 Login!ModExp(Login!SetBinary(A) * Login!ModExp(v, Login!ScrambleHash(A, B), N), b, N),
                 KEY_LENGTH))
<1> DEFINE x == Login!PasswordHash(salt, password)
           u == Login!ScrambleHash(A, B)
           G == Login!ModExp(g, b, N)
           base == (Login!SetBinary(B) + N * 3 - 3 * Login!ModExp(g, x, N)) % N
<1>0. N \in Nat \ {0}
  BY LoginAssumption
<1>1. x \in Nat
  BY DEF Login!PasswordHash
<1> HIDE DEF x
<1>2. v = Login!ModExp(g, x, N) /\ v \in 0 .. N - 1
  BY <1>1, PowerFits DEF x
<1>3. G \in 0 .. N - 1
  BY PowerFits
<1>4. Login!SetBinary(A) = Login!ModExp(g, a, N) /\ A \in Seq(Nat)
  BY PowerFits
<1> DEFINE k == G + v * 3
<1>5. k \in Nat /\ B = Login!GetBytes(k % N, KEY_LENGTH)
  BY <1>2, <1>3 DEF Login!EphemeralB
<1> HIDE DEF k, G
<1>6. Login!SetBinary(B) = k % N /\ B \in Seq(Nat)
  BY <1>5, SumFits
<1>7. base = G
  <2>1. (((G + v * 3) % N) + N * 3 - 3 * v) % N = G
    BY <1>2, <1>3, BaseOfClient
  <2> QED
    BY <1>2, <1>6, <2>1 DEF k
<1>8. u \in Nat
  <2>1. Login!SetBinary(A) \in Nat /\ Login!SetBinary(B) \in Nat
    BY <1>4, <1>6, SumIsNumber
  <2> QED
    BY <2>1 DEF Login!ScrambleHash
<1> HIDE DEF u, base
<1>9. Login!ModExp(Login!ModExp(g, b, N), a + u * x, N)
        = Login!ModExp(Login!ModExp(g, a, N) * Login!ModExp(Login!ModExp(g, x, N), u, N), b, N)
  BY <1>1, <1>8, SameKey
<1>10. Login!ModExp(base, a + u * x, N) = Login!ModExp(Login!SetBinary(A) * Login!ModExp(v, u, N), b, N)
  BY <1>2, <1>4, <1>7, <1>9 DEF G
<1>11. Login!ClientKey(password, salt, B, a)
         = Login!SHA1Interleave(Login!GetBytes(Login!ModExp(base, a + u * x, N), KEY_LENGTH))
  BY DEF Login!ClientKey, x, u, base
<1> QED
  BY <1>10, <1>11 DEF u

-----------------------------------------------------------------------------
(***************************************************************************)
(* SRP6: a login                                                           *)
(***************************************************************************)

\* What the server and the client hold follows from the account and from their secrets.
Answered ==
    \E password \in Nat, a \in Nat :
        /\ response.password = password
        /\ response.A = Login!GetBytes(Login!ModExp(g, a, N), KEY_LENGTH)
        /\ response.K = Login!ClientKey(password, srp.s, srp.B, a)
LoginInv ==
    /\ account = Login!None => srp = Login!None
    /\ srp = Login!None => response = Login!None
    /\ response = Login!None => outcome = "none"
    /\ account # Login!None =>
        /\ account.password \in Nat /\ account.salt \in Nat
        /\ account.verifier = Login!CalculateVerifier(account.password, account.salt)
    /\ srp # Login!None =>
        /\ srp.b \in Nat /\ srp.v = Login!SetBinary(account.verifier) /\ srp.s = account.salt
        /\ srp.B = Login!EphemeralB(srp.b, srp.v)
    /\ response # Login!None =>
        /\ response.M = Login!Proof(srp.s, response.A, srp.B, response.K)
        /\ Answered \/ Login!SetBinary(response.A) % N = 0
    /\ Login!KeysAgree

LEMMA LoginInit == Init => LoginInv
<1> SUFFICES ASSUME Init PROVE LoginInv
  OBVIOUS
<1>1. account = Login!None /\ srp = Login!None /\ response = Login!None /\ outcome = "none"
  BY DEF Init, Login!Init
<1>2. Login!KeysAgree
  BY <1>1 DEF Login!KeysAgree
<1> QED
  BY <1>1, <1>2 DEF LoginInv

\* The verifier is the power of the password's hash.
LEMMA VerifierIs ==
    ASSUME NEW password \in Nat, NEW salt \in Nat
    PROVE  LET v == Login!SetBinary(Login!CalculateVerifier(password, salt))
           IN v = Login!ModExp(g, Login!PasswordHash(salt, password), N) /\ Login!Fits(v, KEY_LENGTH)
<1> DEFINE x == Login!PasswordHash(salt, password)
<1>1. x \in Nat
  BY DEF Login!PasswordHash
<1> HIDE DEF x
<1>2. /\ Login!Fits(Login!ModExp(g, x, N), KEY_LENGTH)
      /\ Login!SetBinary(Login!GetBytes(Login!ModExp(g, x, N), KEY_LENGTH)) = Login!ModExp(g, x, N)
  BY <1>1, PowerFits
<1> QED
  BY <1>2 DEF Login!CalculateVerifier, x

LEMMA ServerFits ==
    ASSUME LoginInv, srp # Login!None
    PROVE  Login!Fits(srp.v, KEY_LENGTH) /\ Login!Fits(N, KEY_LENGTH)
<1>1. /\ account.password \in Nat /\ account.salt \in Nat
      /\ account.verifier = Login!CalculateVerifier(account.password, account.salt)
      /\ srp.v = Login!SetBinary(account.verifier)
  BY DEF LoginInv
<1>2. Login!Fits(Login!SetBinary(Login!CalculateVerifier(account.password, account.salt)), KEY_LENGTH)
  BY <1>1, VerifierIs
<1> QED
  BY <1>1, <1>2, LoginAssumption

\* A client that knows the password has the server's key.
LEMMA KnowsPassword ==
    ASSUME LoginInv, srp # Login!None, Answered,
           Login!CheckLogin(response.password, account.salt, account.verifier)
    PROVE  response.K = Login!SHA1Interleave(Login!GetBytes(Login!Premaster(response.A), KEY_LENGTH))
<1>1. PICK password \in Nat, a \in Nat :
        /\ response.password = password
        /\ response.A = Login!GetBytes(Login!ModExp(g, a, N), KEY_LENGTH)
        /\ response.K = Login!ClientKey(password, srp.s, srp.B, a)
  BY DEF Answered
<1>2. /\ account.salt \in Nat /\ srp.s = account.salt
      /\ srp.b \in Nat /\ srp.v = Login!SetBinary(account.verifier)
      /\ srp.B = Login!EphemeralB(srp.b, srp.v)
  BY DEF LoginInv
<1>3. account.verifier = Login!CalculateVerifier(password, account.salt)
  BY <1>1 DEF Login!CheckLogin
<1>4. srp.v = Login!ModExp(g, Login!PasswordHash(srp.s, password), N)
  <2>1. Login!SetBinary(Login!CalculateVerifier(password, account.salt))
          = Login!ModExp(g, Login!PasswordHash(account.salt, password), N)
    BY <1>2, VerifierIs
  <2> QED
    BY <1>2, <1>3, <2>1
<1> DEFINE s == srp.s
           b == srp.b
           v == srp.v
           A == response.A
           B == srp.B
<1>5. s \in Nat /\ b \in Nat
  BY <1>2
<1>6. /\ v = Login!ModExp(g, Login!PasswordHash(s, password), N)
      /\ A = Login!GetBytes(Login!ModExp(g, a, N), KEY_LENGTH)
      /\ B = Login!EphemeralB(b, v)
  BY <1>1, <1>2, <1>4
<1>7. Login!Premaster(response.A)
        = Login!ModExp(Login!SetBinary(A) * Login!ModExp(v, Login!ScrambleHash(A, B), N), b, N)
  BY DEF Login!Premaster
<1>8. response.K = Login!ClientKey(password, s, B, a)
  BY <1>1
<1> HIDE DEF s, b, v, A, B
<1>9. Login!ClientKey(password, s, B, a)
        = Login!SHA1Interleave(Login!GetBytes(
            Login!ModExp(Login!SetBinary(A) * Login!ModExp(v, Login!ScrambleHash(A, B), N), b, N),
            KEY_LENGTH))
  BY <1>5, <1>6, ClientsKey
<1> QED
  BY <1>7, <1>8, <1>9

LEMMA LoginKept == LoginInv /\ Login!Next => LoginInv'
<1> SUFFICES ASSUME LoginInv, Login!Next PROVE LoginInv'
  OBVIOUS
<1>1. CASE Login!MakeRegistrationData
  <2>1. PICK password \in Passwords, salt \in Salts :
          account' = [password |-> password, salt |-> salt,
                      verifier |-> Login!CalculateVerifier(password, salt)]
    BY <1>1 DEF Login!MakeRegistrationData
  <2>2. /\ srp = Login!None /\ response = Login!None /\ outcome = "none"
        /\ srp' = srp /\ response' = response /\ outcome' = outcome
    BY <1>1 DEF Login!MakeRegistrationData, LoginInv
  <2>3. /\ account'.password = password /\ account'.salt = salt
        /\ account'.verifier = Login!CalculateVerifier(password, salt)
    BY <2>1
  <2>4. password \in Nat /\ salt \in Nat
    BY LoginAssumption
  <2>5. Login!KeysAgree'
    BY <2>2 DEF Login!KeysAgree
  <2> QED
    BY <2>2, <2>3, <2>4, <2>5 DEF LoginInv
<1>2. CASE Login!Construct
  <2>1. PICK b \in Exponents :
          srp' = [b |-> b, v |-> Login!SetBinary(account.verifier), s |-> account.salt, used |-> FALSE,
                  B |-> Login!EphemeralB(b, Login!SetBinary(account.verifier))]
    BY <1>2 DEF Login!Construct
  <2>2. /\ account # Login!None /\ response = Login!None /\ outcome = "none"
        /\ account' = account /\ response' = response /\ outcome' = outcome
    BY <1>2 DEF Login!Construct, LoginInv
  <2>3. /\ srp'.b = b /\ srp'.v = Login!SetBinary(account.verifier) /\ srp'.s = account.salt
        /\ srp'.B = Login!EphemeralB(b, Login!SetBinary(account.verifier))
    BY <2>1
  <2>4. b \in Nat
    BY LoginAssumption
  <2>5. Login!KeysAgree'
    <3>1. /\ account.password \in Nat /\ account.salt \in Nat
          /\ account.verifier = Login!CalculateVerifier(account.password, account.salt)
      BY <2>2 DEF LoginInv
    <3>2. Login!Fits(Login!SetBinary(Login!CalculateVerifier(account.password, account.salt)), KEY_LENGTH)
      BY <3>1, VerifierIs
    <3>3. Login!Fits(srp'.v, KEY_LENGTH)
      BY <2>3, <3>1, <3>2
    <3> QED
      BY <2>2, <3>3, LoginAssumption DEF Login!KeysAgree
  <2> QED
    BY <2>2, <2>3, <2>4, <2>5 DEF LoginInv
<1>3. CASE Login!Respond
  <2>1. PICK password \in Passwords, a \in Exponents :
          LET A == Login!GetBytes(Login!ModExp(g, a, N), KEY_LENGTH)
              K == Login!ClientKey(password, srp.s, srp.B, a)
          IN response' = [password |-> password, A |-> A, K |-> K,
                          M |-> Login!Proof(srp.s, A, srp.B, K)]
    BY <1>3 DEF Login!Respond
  <2>2. /\ srp # Login!None /\ outcome = "none"
        /\ account' = account /\ srp' = srp /\ outcome' = outcome
    BY <1>3 DEF Login!Respond, LoginInv
  <2>3. password \in Nat /\ a \in Nat
    BY LoginAssumption
  <2>4. /\ response'.password = password
        /\ response'.A = Login!GetBytes(Login!ModExp(g, a, N), KEY_LENGTH)
        /\ response'.K = Login!ClientKey(password, srp.s, srp.B, a)
        /\ response'.M = Login!Proof(srp.s, response'.A, srp.B, response'.K)
    BY <2>1
  <2>5. Answered'
    BY <2>2, <2>3, <2>4 DEF Answered
  <2>6. Login!KeysAgree'
    BY <2>2, ServerFits DEF Login!KeysAgree
  <2> QED
    BY <2>2, <2>4, <2>5, <2>6 DEF LoginInv
<1>4. CASE Login!RespondZero
  <2>1. PICK n \in {0, N} :
          LET A == Login!GetBytes(n, KEY_LENGTH)
              K == Login!SHA1Interleave(Login!GetBytes(0, KEY_LENGTH))
          IN response' = [password |-> account.password, A |-> A, K |-> K,
                          M |-> Login!Proof(srp.s, A, srp.B, K)]
    BY <1>4 DEF Login!RespondZero
  <2>2. /\ srp # Login!None /\ outcome = "none"
        /\ account' = account /\ srp' = srp /\ outcome' = outcome
    BY <1>4 DEF Login!RespondZero, LoginInv
  <2>3. /\ response'.A = Login!GetBytes(n, KEY_LENGTH)
        /\ response'.M = Login!Proof(srp.s, response'.A, srp.B, response'.K)
    BY <2>1
  <2>4. Login!SetBinary(response'.A) % N = 0
    <3>0. N \in Nat \ {0} /\ KEY_LENGTH \in Nat /\ Login!Fits(N, KEY_LENGTH)
      BY LoginAssumption
    <3>1. n \in Nat /\ n <= N /\ N \in Nat
      BY <3>0
    <3>2. Login!Fits(n, KEY_LENGTH)
      BY <3>0, <3>1, SmallerFits
    <3>3. Login!SetBinary(Login!GetBytes(n, KEY_LENGTH)) = n
      BY <3>0, <3>1, <3>2, BytesCarry
    <3>4. n % N = 0
      <4>1. (N * 0 + 0) % N = 0 /\ (N * 1 + 0) % N = 0
        BY <3>0, DivisionIsUnique
      <4>2. N * 0 + 0 = 0 /\ N * 1 + 0 = N
        BY <3>0
      <4> QED
        BY <4>1, <4>2
    <3> QED
      BY <2>3, <3>3, <3>4
  <2>5. Login!KeysAgree'
    BY <2>2, ServerFits DEF Login!KeysAgree
  <2> QED
    BY <2>2, <2>3, <2>4, <2>5 DEF LoginInv
<1>5. CASE Login!VerifyChallengeResponse
  <2>1. /\ response # Login!None /\ srp # Login!None /\ account # Login!None
        /\ account' = account /\ response' = response
    BY <1>5 DEF Login!VerifyChallengeResponse, LoginInv
  <2>2. CASE srp.used
    <3>1. outcome' = "assert" /\ srp' = srp
      BY <1>5, <2>2 DEF Login!VerifyChallengeResponse
    <3>2. Login!KeysAgree'
      BY <2>1, <3>1, ServerFits DEF Login!KeysAgree
    <3>3. Answered => Answered'
      BY <2>1, <3>1 DEF Answered
    <3> QED
      BY <2>1, <3>1, <3>2, <3>3 DEF LoginInv
  <2>3. CASE ~srp.used
    <3> DEFINE K == Login!SHA1Interleave(Login!GetBytes(Login!Premaster(response.A), KEY_LENGTH))
               zero == Login!SetBinary(response.A) % N = 0
    <3>1. /\ srp' = [b |-> srp.b, v |-> srp.v, s |-> srp.s, used |-> TRUE, B |-> srp.B]
          /\ outcome' = IF ~zero /\ Login!Proof(srp.s, response.A, srp.B, K) = response.M
                        THEN "key" ELSE "refused"
      BY <1>5, <2>3 DEF Login!VerifyChallengeResponse
    <3>2. srp'.b = srp.b /\ srp'.v = srp.v /\ srp'.s = srp.s /\ srp'.B = srp.B
      BY <3>1
    <3>3. srp' # Login!None
      <4>1. DOMAIN srp' = {"b", "v", "s", "used", "B"} /\ DOMAIN Login!None = {"none"}
        BY <3>1 DEF Login!None
      <4> QED
        BY <4>1
    <3>4. response.M = Login!Proof(srp.s, response.A, srp.B, response.K)
      BY <2>1 DEF LoginInv
    <3>5. Login!Proof(srp.s, response.A, srp.B, K) = response.M <=> K = response.K
      <4> HIDE DEF K
      <4> QED
        BY <3>4 DEF Login!Proof
    <3>6. outcome' \in {"key", "refused"} /\ (outcome' = "key" <=> ~zero /\ K = response.K)
      <4> HIDE DEF K, zero
      <4> QED
        BY <3>1, <3>5
    <3>7. Login!CheckLogin(response.password, account.salt, account.verifier) /\ ~zero => outcome' = "key"
      <4> SUFFICES ASSUME Login!CheckLogin(response.password, account.salt, account.verifier), ~zero
                   PROVE  outcome' = "key"
        OBVIOUS
      <4>1. Answered
        BY <2>1 DEF LoginInv
      <4>2. response.K = K
        BY <2>1, <4>1, KnowsPassword
      <4> HIDE DEF K, zero
      <4> QED
        BY <3>6, <4>2
    <3>8. Login!Premaster(response.A)' = Login!Premaster(response.A)
      BY <2>1, <3>2 DEF Login!Premaster
    <3>9. Login!KeysAgree'
      <4>1. Login!Fits(srp'.v, KEY_LENGTH) /\ Login!Fits(N, KEY_LENGTH)
        BY <2>1, <3>2, ServerFits
      <4>2. /\ outcome' = "key" <=> ~(Login!SetBinary(response'.A) % N = 0)
                  /\ Login!SHA1Interleave(Login!GetBytes(Login!Premaster(response.A)', KEY_LENGTH)) = response'.K
            /\ Login!CheckLogin(response'.password, account'.salt, account'.verifier)
                  /\ ~(Login!SetBinary(response'.A) % N = 0) => outcome' = "key"
        BY <2>1, <3>6, <3>7, <3>8
      <4> QED
        BY <4>1, <4>2 DEF Login!KeysAgree
    <3>10. Answered => Answered'
      BY <2>1, <3>2 DEF Answered
    <3> QED
      BY <2>1, <3>2, <3>3, <3>4, <3>9, <3>10 DEF LoginInv
  <2> QED
    BY <2>2, <2>3
<1> QED
  BY <1>1, <1>2, <1>3, <1>4, <1>5 DEF Login!Next

LEMMA LoginStays == LoginInv /\ [Next]_vars => LoginInv'
<1> SUFFICES ASSUME LoginInv, [Next]_vars PROVE LoginInv'
  OBVIOUS
<1>1. CASE UNCHANGED loginVars
  <2>1. account' = account /\ srp' = srp /\ response' = response /\ outcome' = outcome
    BY <1>1 DEF loginVars
  <2>2. Answered => Answered'
    BY <2>1 DEF Answered
  <2>3. Login!KeysAgree'
    BY <2>1 DEF LoginInv, Login!KeysAgree, Login!Premaster
  <2> QED
    BY <2>1, <2>2, <2>3 DEF LoginInv
<1>2. CASE Login!Next
  BY <1>2, LoginKept
<1>3. UNCHANGED loginVars \/ Login!Next
  BY DEF Next, PacketStep, ProcessStep, CallbacksStep, TimerStep, LocationStep, QueueStep, LoginStep,
         CipherStep, vars
<1> QED
  BY <1>1, <1>2, <1>3

\* SRP6: a client that knows the password and the server come to one key along their
\* different ways, for every modulus, generator and secrets; another key, or a multiple of N
\* for A, is refused.
THEOREM LoginRight == Spec => []KeysAgree
<1>1. LoginInv => KeysAgree
  BY DEF LoginInv, KeysAgree
<1> QED
  BY <1>1, LoginInit, LoginStays, PTL DEF Spec

-----------------------------------------------------------------------------
(***************************************************************************)
(* Timers: the clock                                                       *)
(***************************************************************************)

\* The difference of two readings is the time between them, less one for a wrap.
LEMMA ClockSteps ==
    ASSUME NEW t \in Nat, NEW step \in 0 .. WordSize - 1
    PROVE  LET d == Timer!getMSTimeDiff(t % WordSize, (t + step) % WordSize)
           IN /\ d \in Nat /\ d <= step
              /\ d + (t + step) \div WordSize = step + t \div WordSize
<1> DEFINE W == WordSize
           q == t \div W
           r == t % W
           s == (t + step) % W
           u == (t + step) \div W
           d == Timer!getMSTimeDiff(r, s)
<1>0. W \in Nat \ {0} /\ t \in Int
  BY TimerAssumption
<1>1. q \in Int /\ r \in 0 .. W - 1 /\ t = W * q + r
  BY <1>0, Division
<1> HIDE DEF W
<1>2. W * q \in Int /\ W * (q + 1) = W * q + W /\ q + 1 \in Int
  BY <1>0, <1>1
<1> HIDE DEF q, r
<1>d. d = IF r > s THEN (W - 1 - r) + s ELSE s - r
  BY DEF Timer!getMSTimeDiff, W, r, s
<1> HIDE DEF d
<1>3. CASE r + step < W
  <2>1. r + step \in 0 .. W - 1
    BY <1>0, <1>1, <1>3
  <2>2. t + step = W * q + (r + step)
    BY <1>1, <1>2
  <2>3. u = q /\ s = r + step
    <3>1. (W * q + (r + step)) \div W = q /\ (W * q + (r + step)) % W = r + step
      BY <1>0, <1>1, <2>1, DivisionIsUnique
    <3> QED
      BY <2>2, <3>1
  <2>4. d = step
    BY <1>0, <1>1, <1>d, <2>3
  <2> QED
    BY <1>0, <1>1, <2>3, <2>4 DEF d, q, u, r, s, W
<1>4. CASE ~(r + step < W)
  <2>1. r + step - W \in 0 .. W - 1
    BY <1>0, <1>1, <1>4 DEF W
  <2>2. t + step = W * (q + 1) + (r + step - W)
    BY <1>0, <1>1, <1>2
  <2>3. u = q + 1 /\ s = r + step - W
    <3>1. (W * (q + 1) + (r + step - W)) \div W = q + 1 /\ (W * (q + 1) + (r + step - W)) % W = r + step - W
      BY <1>0, <1>2, <2>1, DivisionIsUnique
    <3> QED
      BY <2>2, <3>1
  <2>4. step < W
    BY TimerAssumption DEF W
  <2>5. d = step - 1 /\ step >= 1
    BY <1>0, <1>1, <1>4, <1>d, <2>3, <2>4
  <2>6. d + u = step + q /\ d \in Nat /\ d <= step
    BY <1>1, <2>3, <2>5
  <2> QED
    BY <2>6 DEF d, q, u, r, s, W
<1> QED
  BY <1>3, <1>4

\* Whatever lies between two readings, their difference is no longer.
LEMMA NoLonger ==
    ASSUME NEW t \in Nat, NEW v \in Nat, t <= v
    PROVE  LET d == Timer!getMSTimeDiff(t % WordSize, v % WordSize)
           IN d \in Int /\ d <= v - t
<1> DEFINE W == WordSize
           q == t \div W
           r == t % W
           u == v \div W
           s == v % W
           d == Timer!getMSTimeDiff(r, s)
<1>0. W \in Nat \ {0} /\ t \in Int /\ v \in Int
  BY TimerAssumption
<1>1. q \in Int /\ r \in 0 .. W - 1 /\ t = W * q + r
  BY <1>0, Division
<1>2. u \in Int /\ s \in 0 .. W - 1 /\ v = W * u + s
  BY <1>0, Division
<1>3. d = IF r > s THEN (W - 1 - r) + s ELSE s - r
  BY DEF Timer!getMSTimeDiff
<1> HIDE DEF W, q, r, u, s, d
<1> DEFINE e == u - q
           p == W * e
<1>4. e \in Int /\ p \in Int /\ v - t = p + (s - r)
  <2>1. W * e = W * u - W * q
    BY <1>0, <1>1, <1>2
  <2> QED
    BY <1>0, <1>1, <1>2, <2>1
<1>5. (e >= 1 => p >= W) /\ (e <= -1 => p <= -W) /\ (e = 0 => p = 0)
  <2>1. e = 0 => p = 0
    BY <1>0
  <2>2. e >= 1 => p >= W
    BY <1>0, <1>4, ProductGrows
  <2>3. e <= -1 => p <= -W
    BY <1>0, <1>4, ProductGrows
  <2> QED
    BY <2>1, <2>2, <2>3
<1> HIDE DEF e, p
<1>6. p + (s - r) >= 0
  BY <1>0, <1>1, <1>2, <1>4
<1>7. d \in Int /\ d <= p + (s - r)
  BY <1>0, <1>1, <1>2, <1>3, <1>4, <1>5, <1>6
<1> QED
  BY <1>4, <1>7 DEF d, r, s, W

-----------------------------------------------------------------------------
(***************************************************************************)
(* Timers: the four of them                                                *)
(***************************************************************************)
LEMMA WholeIsMost ==
    ASSUME NEW p \in Nat, NEW I \in Nat \ {0}, NEW m \in Nat, p * I <= m
    PROVE  p <= m \div I
<1>1. p * I \in Nat /\ (p * I) \div I <= m \div I
  BY DivisionGrows
<1>2. (I * p + 0) \div I = p
  BY DivisionIsUnique
<1>3. I * p + 0 = p * I
  OBVIOUS
<1> QED
  BY <1>1, <1>2, <1>3

OnTime(t, I, m) == t.interval = I /\ t.current = m % I

\* The interval timer holds the rest of the time measured, and passed at most as often as
\* whole intervals went by; as often, unless a difference was longer.
LEMMA IntervalTicks ==
    ASSUME NEW I \in Nat \ {0}, NEW m \in Nat, NEW d \in Nat, NEW t, OnTime(t, I, m)
    PROVE  /\ OnTime(Timer!IntervalUpdate(t, d), I, m + d)
           /\ Timer!IntervalPassed(t, d) => (m + d) \div I >= (m \div I) + 1
           /\ Timer!IntervalPassed(t, d) /\ d <= I => (m + d) \div I = (m \div I) + 1
           /\ ~Timer!IntervalPassed(t, d) => (m + d) \div I = m \div I
<1> DEFINE q == m \div I
           c == m % I
           u == (m + d) \div I
           v == (m + d) % I
<1>1. q \in Int /\ c \in 0 .. I - 1 /\ m = I * q + c
  <2>1. m \in Int
    OBVIOUS
  <2> QED
    BY <2>1, Division
<1>2. u \in Int /\ v \in 0 .. I - 1 /\ m + d = I * u + v
  <2> DEFINE n == m + d
  <2>1. n \in Int
    OBVIOUS
  <2> HIDE DEF n
  <2>2. n \div I \in Int /\ n % I \in 0 .. I - 1 /\ n = I * (n \div I) + (n % I)
    BY <2>1, Division
  <2> QED
    BY <2>2 DEF n
<1> HIDE DEF q, c, u, v
<1>3. c + d \in Int /\ I * q \in Int /\ m + d = I * q + (c + d)
  BY <1>1
<1>4. v = (c + d) % I
  <2>1. (I * q + (c + d)) % I = (c + d) % I
    BY <1>1, <1>3, MultiplesVanish
  <2> QED
    BY <1>3, <2>1 DEF v
<1>5. Timer!IntervalPassed(t, d) <=> c + d >= I
  BY DEF Timer!IntervalPassed, OnTime, c
<1>6. c + d < I => u = q /\ v = c + d
  <2> SUFFICES ASSUME c + d < I PROVE u = q /\ v = c + d
    OBVIOUS
  <2>1. c + d \in 0 .. I - 1
    BY <1>1
  <2>2. (I * q + (c + d)) \div I = q /\ (I * q + (c + d)) % I = c + d
    BY <1>1, <2>1, DivisionIsUnique
  <2> QED
    BY <1>3, <2>2 DEF u, v
<1>7. /\ Timer!IntervalUpdate(t, d).interval = I
      /\ Timer!IntervalUpdate(t, d).current = IF c + d >= I THEN (c + d) % I ELSE c + d
  BY <1>5 DEF Timer!IntervalUpdate, OnTime, c
<1>8. c + d >= I => u >= q + 1
  <2> SUFFICES ASSUME c + d >= I, ~(u >= q + 1) PROVE FALSE
    OBVIOUS
  <2> DEFINE e == u - q
  <2>1. e \in Int /\ e <= 0
    BY <1>1, <1>2
  <2>2. I * e = I * u - I * q /\ I * e \in Int /\ I * u \in Int
    BY <1>1, <1>2
  <2>3. I * e = (c + d) - v
    BY <1>1, <1>2, <1>3, <2>2
  <2>4. I * e > 0
    BY <1>2, <1>3, <2>3
  <2>5. e <= -1 => I * e <= -I
    BY <2>1, ProductGrows
  <2>6. e = 0 => I * e = 0
    OBVIOUS
  <2> HIDE DEF e
  <2> QED
    BY <2>1, <2>2, <2>4, <2>5, <2>6
<1>9. c + d >= I /\ d <= I => u = q + 1
  <2> SUFFICES ASSUME c + d >= I, d <= I PROVE u = q + 1
    OBVIOUS
  <2>1. c + d - I \in 0 .. I - 1 /\ q + 1 \in Int
    BY <1>1
  <2>2. (I * (q + 1) + (c + d - I)) \div I = q + 1
    BY <2>1, DivisionIsUnique
  <2>3. I * (q + 1) = I * q + I
    BY <1>1
  <2>4. I * (q + 1) + (c + d - I) = m + d
    BY <1>1, <1>3, <2>3
  <2> QED
    BY <2>2, <2>4 DEF u
<1>10. c + d >= I \/ c + d < I
  BY <1>3
<1> QED
  BY <1>4, <1>5, <1>6, <1>7, <1>8, <1>9, <1>10 DEF OnTime, u, v, q

\* The tracker and the periodic timer: every pass took an interval of the time measured.
LEMMA TrackerTicks ==
    ASSUME NEW I \in Nat \ {0}, NEW m \in Nat, NEW d \in Nat, NEW p \in Nat,
           NEW t, t.interval = I, t.expiry \in 1 .. I, p * I + I - t.expiry <= m
    PROVE  LET q == p + (IF Timer!TrackerPassed(t, d) THEN 1 ELSE 0)
               e == Timer!TrackerUpdate(t, d).expiry
           IN /\ Timer!TrackerUpdate(t, d).interval = I
              /\ e \in 1 .. I /\ q * I + I - e <= m + d
<1> DEFINE x == t.expiry
           y == p * I
           e == IF x - d <= 0 THEN I ELSE x - d
           q == p + (IF x - d <= 0 THEN 1 ELSE 0)
<1>1. /\ Timer!TrackerUpdate(t, d).interval = I /\ Timer!TrackerUpdate(t, d).expiry = e
      /\ Timer!TrackerPassed(t, d) <=> x - d <= 0
  BY DEF Timer!TrackerUpdate, Timer!TrackerPassed
<1>2. y \in Nat /\ (p + 1) * I = y + I /\ y + I - x <= m
  OBVIOUS
<1>3. q * I = IF x - d <= 0 THEN y + I ELSE y
  BY <1>2
<1> DEFINE z == q * I
<1> HIDE DEF x, y, z
<1>4. e \in 1 .. I /\ z + I - e <= m + d
  BY <1>2, <1>3 DEF x, z
<1> QED
  BY <1>1, <1>4 DEF x, z

LEMMA PeriodicTicks ==
    ASSUME NEW I \in Nat \ {0}, NEW m \in Nat, NEW d \in Nat, NEW p \in Nat,
           NEW t, t.interval = I, t.expire \in 1 .. I, p * I + I - t.expire <= m
    PROVE  LET q == p + (IF Timer!PeriodicPassed(t, d) THEN 1 ELSE 0)
               e == Timer!PeriodicUpdate(t, d).expire
           IN /\ Timer!PeriodicUpdate(t, d).interval = I
              /\ e \in 1 .. I /\ q * I + I - e <= m + d
<1> DEFINE x == t.expire
           y == p * I
           e == IF ~(x - d <= 0) THEN x - d ELSE x - d + (IF I > d THEN I ELSE d)
           q == p + (IF x - d <= 0 THEN 1 ELSE 0)
<1>1. /\ Timer!PeriodicUpdate(t, d).interval = I /\ Timer!PeriodicUpdate(t, d).expire = e
      /\ Timer!PeriodicPassed(t, d) <=> x - d <= 0
  BY DEF Timer!PeriodicUpdate, Timer!PeriodicPassed
<1>2. y \in Nat /\ (p + 1) * I = y + I /\ y + I - x <= m
  OBVIOUS
<1>3. q * I = IF x - d <= 0 THEN y + I ELSE y
  BY <1>2
<1> DEFINE z == q * I
<1> HIDE DEF x, y, z
<1>4. e \in 1 .. I /\ z + I - e <= m + d
  BY <1>2, <1>3 DEF x, z
<1> QED
  BY <1>1, <1>4 DEF x, z

Logged(r, I, p, v) ==
    r.interval = I /\ \E t \in Nat : t <= v /\ r.last = t % WordSize /\ p * (I + 1) <= t

\* A line that is due is more than the interval behind the last one.
LEMMA RecordTicks ==
    ASSUME NEW I \in Nat \ {0}, NEW w \in Nat, NEW v \in Nat, w <= v, NEW p \in Nat,
           NEW r, Logged(r, I, p, w)
    PROVE  Logged(Timer!RecordUpdateTime(r, v % WordSize), I,
                  p + (IF Timer!RecordDue(r, v % WordSize) THEN 1 ELSE 0), v)
<1>0. PICK t \in Nat : t <= w /\ r.last = t % WordSize /\ p * (I + 1) <= t
  BY DEF Logged
<1> DEFINE ms == v % WordSize
           d == Timer!getMSTimeDiff(t % WordSize, ms)
           due == Timer!RecordDue(r, ms)
           q == p + (IF due THEN 1 ELSE 0)
           s == Timer!RecordUpdateTime(r, ms)
           y == p * (I + 1)
<1>a. t <= v /\ r.interval = I
  BY <1>0 DEF Logged
<1>1. d \in Int /\ d <= v - t
  BY <1>a, NoLonger
<1> HIDE DEF d, ms
<1>2. due <=> d > I
  BY <1>0, <1>a DEF Timer!RecordDue, d
<1>3. y \in Nat /\ (p + 1) * (I + 1) = y + (I + 1) /\ (p + 0) * (I + 1) = y
  OBVIOUS
<1>4. s = IF due THEN [interval |-> I, last |-> ms] ELSE r
  BY <1>a DEF Timer!RecordUpdateTime
<1>5. CASE due
  <2>1. s.interval = I /\ s.last = v % WordSize
    BY <1>4, <1>5 DEF ms
  <2>2. q * (I + 1) = y + (I + 1)
    BY <1>3, <1>5
  <2>3. y + (I + 1) <= v
    <3> HIDE DEF y
    <3> QED
      BY <1>0, <1>1, <1>2, <1>3, <1>5 DEF y
  <2> QED
    BY <2>1, <2>2, <2>3 DEF ms, Logged
<1>6. CASE ~due
  <2>1. s.interval = I /\ s.last = t % WordSize
    BY <1>0, <1>a, <1>4, <1>6
  <2>2. q * (I + 1) = y
    BY <1>3, <1>6
  <2> QED
    BY <1>0, <1>a, <2>1, <2>2 DEF ms, Logged
<1> QED
  BY <1>5, <1>6

Ticking(I) ==
    /\ timers.tracker.interval = I /\ timers.periodic.interval = I
    /\ timers.interval.current = measured % I /\ passes.interval <= measured \div I
    /\ (\A i \in DOMAIN diffs : diffs[i] <= I) => passes.interval = measured \div I
    /\ timers.tracker.expiry \in 1 .. I
    /\ passes.tracker * I + I - timers.tracker.expiry <= measured
    /\ timers.periodic.expire \in 1 .. I
    /\ passes.periodic * I + I - timers.periodic.expire <= measured
    /\ Logged(timers.record, I, passes.record, now)

\* What is measured lags behind the clock by its wraps, and the timers follow it.
TimerInv ==
    /\ now \in Nat /\ measured \in Nat /\ seen = now % WordSize
    /\ measured + now \div WordSize = now
    /\ diffs \in Seq(Nat)
    /\ passes.interval \in Nat /\ passes.tracker \in Nat /\ passes.periodic \in Nat /\ passes.record \in Nat
    /\ timers = << >> =>
        /\ now = 0 /\ measured = 0 /\ diffs = << >>
        /\ passes = [interval |-> 0, tracker |-> 0, periodic |-> 0, record |-> 0]
    /\ timers # << >> /\ undefined # TRUE =>
        timers.interval.interval \in Nat
          /\ (timers.interval.interval > 0 => Ticking(timers.interval.interval))

LEMMA ZeroDivides ==
    ASSUME NEW b \in Nat \ {0}
    PROVE  0 \div b = 0 /\ 0 % b = 0
<1>1. (b * 0 + 0) \div b = 0 /\ (b * 0 + 0) % b = 0
  BY DivisionIsUnique
<1>2. b * 0 + 0 = 0
  OBVIOUS
<1> QED
  BY <1>1, <1>2

LEMMA TimerInit == Init => TimerInv
<1> SUFFICES ASSUME Init PROVE TimerInv
  OBVIOUS
<1>1. /\ now = 0 /\ seen = 0 /\ measured = 0 /\ diffs = << >> /\ undefined = FALSE /\ timers = << >>
      /\ passes = [interval |-> 0, tracker |-> 0, periodic |-> 0, record |-> 0]
  BY DEF Init, Timer!Init
<1>2. 0 \div WordSize = 0 /\ 0 % WordSize = 0
  BY TimerAssumption, ZeroDivides
<1>3. << >> \in Seq(Nat)
  OBVIOUS
<1> QED
  BY <1>1, <1>2, <1>3 DEF TimerInv

LEMMA TimersBegin == TimerInv /\ Timer!Begin => TimerInv'
<1> SUFFICES ASSUME TimerInv, Timer!Begin PROVE TimerInv'
  OBVIOUS
<1>1. PICK I \in Intervals :
        timers' = [interval |-> [interval |-> I, current |-> 0],
                   tracker  |-> [interval |-> I, expiry |-> I],
                   periodic |-> [interval |-> I, expire |-> I],
                   record   |-> [interval |-> I, last |-> 0]]
  BY DEF Timer!Begin
<1>2. /\ now' = now /\ seen' = seen /\ measured' = measured /\ diffs' = diffs /\ undefined' = undefined
      /\ passes' = passes /\ timers = << >>
  BY DEF Timer!Begin
<1>3. /\ now = 0 /\ measured = 0 /\ diffs = << >>
      /\ passes.interval = 0 /\ passes.tracker = 0 /\ passes.periodic = 0 /\ passes.record = 0
      /\ passes = [interval |-> 0, tracker |-> 0, periodic |-> 0, record |-> 0]
  BY <1>2 DEF TimerInv
<1>4. I \in Nat
  BY TimerAssumption
<1>5. /\ timers'.interval.interval = I /\ timers'.tracker.interval = I /\ timers'.periodic.interval = I
      /\ timers'.record.interval = I /\ timers'.interval.current = 0 /\ timers'.tracker.expiry = I
      /\ timers'.periodic.expire = I /\ timers'.record.last = 0
  BY <1>1
<1>6. I > 0 => Ticking(I)'
  <2> SUFFICES ASSUME I > 0 PROVE Ticking(I)'
    OBVIOUS
  <2>1. 0 % I = 0 /\ 0 \div I = 0 /\ 0 % WordSize = 0
    BY <1>4, TimerAssumption, ZeroDivides
  <2>2. 0 * I + I - I <= 0 /\ 0 * (I + 1) <= 0 /\ I \in 1 .. I
    BY <1>4
  <2>3. /\ now' = 0 /\ measured' = 0 /\ passes'.interval = 0 /\ passes'.tracker = 0
        /\ passes'.periodic = 0 /\ passes'.record = 0
    BY <1>2, <1>3
  <2>4. Logged(timers'.record, I, passes'.record, now')
    <3>1. 0 <= now' /\ timers'.record.last = 0 % WordSize /\ passes'.record * (I + 1) <= 0
      BY <1>5, <2>1, <2>2, <2>3
    <3> QED
      BY <1>5, <3>1 DEF Logged
  <2>5. /\ passes'.tracker * I + I - timers'.tracker.expiry <= measured'
        /\ passes'.periodic * I + I - timers'.periodic.expire <= measured'
    BY <1>5, <2>2, <2>3
  <2>6. /\ timers'.interval.current = measured' % I /\ passes'.interval <= measured' \div I
        /\ passes'.interval = measured' \div I
    BY <1>5, <2>1, <2>3
  <2> QED
    BY <1>5, <2>2, <2>4, <2>5, <2>6 DEF Ticking
<1> QED
  BY <1>2, <1>3, <1>4, <1>5, <1>6 DEF TimerInv

LEMMA TimersPass == TimerInv /\ Timer!Pass => TimerInv'
<1> SUFFICES ASSUME TimerInv, Timer!Pass PROVE TimerInv'
  OBVIOUS
<1>1. PICK step \in Steps :
        LET diff == Timer!getMSTimeDiff(seen, Timer!getMSTime(now + step))
            tick(passed) == IF passed THEN 1 ELSE 0
        IN /\ timers # << >> /\ ~undefined /\ Len(diffs) < MaxPasses
           /\ now' = now + step /\ seen' = Timer!getMSTime(now')
           /\ measured' = measured + diff /\ diffs' = Append(diffs, diff)
           /\ stats' = Timer!UpdateWithDiff(stats, diff)
           /\ passes' = [interval |-> passes.interval + tick(Timer!IntervalPassed(timers.interval, diff)),
                         tracker  |-> passes.tracker + tick(Timer!TrackerPassed(timers.tracker, diff)),
                         periodic |-> passes.periodic + tick(Timer!PeriodicPassed(timers.periodic, diff)),
                         record   |-> passes.record + tick(Timer!RecordDue(timers.record, seen'))]
           /\ IF timers.interval.interval = 0
              THEN undefined' = TRUE /\ UNCHANGED timers
              ELSE /\ timers' = [interval |-> Timer!IntervalUpdate(timers.interval, diff),
                                 tracker  |-> Timer!TrackerUpdate(timers.tracker, diff),
                                 periodic |-> Timer!PeriodicUpdate(timers.periodic, diff),
                                 record   |-> Timer!RecordUpdateTime(timers.record, seen')]
                   /\ UNCHANGED undefined
  BY DEF Timer!Pass
<1> DEFINE tick(passed) == IF passed THEN 1 ELSE 0
           e == Timer!getMSTimeDiff(seen, Timer!getMSTime(now + step))
<1>2. step \in 0 .. WordSize - 1 /\ step \in Nat
  <2>1. step \in 0 .. WordSize - 1 /\ WordSize \in Nat
    BY <1>1, TimerAssumption
  <2> QED
    BY <2>1
<1>3. now \in Nat /\ measured \in Nat /\ seen = now % WordSize /\ measured + now \div WordSize = now
      /\ diffs \in Seq(Nat)
  BY DEF TimerInv
<1>4. e \in Nat /\ e <= step /\ e + (now + step) \div WordSize = step + now \div WordSize
  <2>1. e = Timer!getMSTimeDiff(now % WordSize, (now + step) % WordSize)
    BY <1>3 DEF Timer!getMSTime
  <2> QED
    BY <1>2, <1>3, <2>1, ClockSteps
<1>5. /\ now' = now + step /\ seen' = now' % WordSize /\ measured' = measured + e
      /\ diffs' = Append(diffs, e) /\ timers # << >> /\ ~undefined
      /\ passes'.interval = passes.interval + tick(Timer!IntervalPassed(timers.interval, e))
      /\ passes'.tracker = passes.tracker + tick(Timer!TrackerPassed(timers.tracker, e))
      /\ passes'.periodic = passes.periodic + tick(Timer!PeriodicPassed(timers.periodic, e))
      /\ passes'.record = passes.record + tick(Timer!RecordDue(timers.record, now' % WordSize))
  BY <1>1 DEF Timer!getMSTime
<1>6. timers.interval.interval = 0 => undefined' = TRUE /\ timers' = timers
  BY <1>1
<1>7. timers.interval.interval # 0 =>
        /\ timers' = [interval |-> Timer!IntervalUpdate(timers.interval, e),
                      tracker  |-> Timer!TrackerUpdate(timers.tracker, e),
                      periodic |-> Timer!PeriodicUpdate(timers.periodic, e),
                      record   |-> Timer!RecordUpdateTime(timers.record, now' % WordSize)]
        /\ undefined' = undefined
  BY <1>1 DEF Timer!getMSTime
<1> HIDE DEF e
<1>8. now' \in Nat /\ measured' \in Nat /\ measured' + now' \div WordSize = now' /\ diffs' \in Seq(Nat)
  <2> DEFINE x == now \div WordSize
             y == (now + step) \div WordSize
  <2>1. WordSize \in Nat \ {0} /\ now \in Int /\ now + step \in Int
    BY <1>2, <1>3, TimerAssumption
  <2>2. x \in Int
    BY <2>1, Division
  <2>3. y \in Int
    BY <2>1, Division
  <2>4. now' \div WordSize = y
    BY <1>5
  <2> HIDE DEF x, y
  <2>5. measured + x = now /\ e + y = step + x
    BY <1>3, <1>4 DEF x, y
  <2> QED
    BY <1>2, <1>3, <1>4, <1>5, <2>2, <2>3, <2>4, <2>5
<1>9. /\ passes'.interval \in Nat /\ passes'.tracker \in Nat /\ passes'.periodic \in Nat
      /\ passes'.record \in Nat
  <2>2. /\ passes.interval \in Nat /\ passes.tracker \in Nat /\ passes.periodic \in Nat
        /\ passes.record \in Nat
    BY DEF TimerInv
  <2>3. \A p \in Nat : p + 1 \in Nat /\ p + 0 \in Nat
    OBVIOUS
  <2>4. passes'.interval \in {passes.interval + 1, passes.interval + 0}
    BY <1>5
  <2>5. passes'.tracker \in {passes.tracker + 1, passes.tracker + 0}
    BY <1>5
  <2>6. passes'.periodic \in {passes.periodic + 1, passes.periodic + 0}
    BY <1>5
  <2>7. passes'.record \in {passes.record + 1, passes.record + 0}
    BY <1>5
  <2> QED
    BY <2>2, <2>3, <2>4, <2>5, <2>6, <2>7
<1>10. timers' # << >>
  <2>1. CASE timers.interval.interval = 0
    BY <1>5, <1>6, <2>1
  <2>2. CASE timers.interval.interval # 0
    <3>1. DOMAIN timers' = {"interval", "tracker", "periodic", "record"} /\ DOMAIN << >> = {}
      BY <1>7, <2>2
    <3> QED
      BY <3>1
  <2> QED
    BY <2>1, <2>2
<1>11. ASSUME timers.interval.interval # 0
       PROVE  /\ timers'.interval.interval \in Nat /\ Ticking(timers.interval.interval)'
              /\ timers'.interval.interval = timers.interval.interval
  <2> DEFINE I == timers.interval.interval
             m == measured
  <2>1. I \in Nat \ {0} /\ Ticking(I)
    <3>1. undefined # TRUE /\ timers # << >>
      BY <1>5
    <3>2. I \in Nat /\ (I > 0 => Ticking(I))
      BY <3>1 DEF TimerInv
    <3> QED
      BY <1>11, <3>2
  <2>2. /\ timers'.interval = Timer!IntervalUpdate(timers.interval, e)
        /\ timers'.tracker = Timer!TrackerUpdate(timers.tracker, e)
        /\ timers'.periodic = Timer!PeriodicUpdate(timers.periodic, e)
        /\ timers'.record = Timer!RecordUpdateTime(timers.record, now' % WordSize)
    BY <1>7, <1>11
  <2> HIDE DEF m
  <2>a. m \in Nat /\ e \in Nat
    BY <1>3, <1>4 DEF m
  <2>3. /\ timers'.interval.interval = I
        /\ timers'.interval.current = (m + e) % I
        /\ Timer!IntervalPassed(timers.interval, e) => (m + e) \div I >= (m \div I) + 1
        /\ Timer!IntervalPassed(timers.interval, e) /\ e <= I => (m + e) \div I = (m \div I) + 1
        /\ ~Timer!IntervalPassed(timers.interval, e) => (m + e) \div I = m \div I
    <3> DEFINE t == timers.interval
               J == I
    <3>1. OnTime(t, J, m) /\ J \in Nat \ {0}
      BY <2>1 DEF Ticking, OnTime, m
    <3> HIDE DEF t, J
    <3>2. OnTime(Timer!IntervalUpdate(t, e), J, m + e)
      BY ONLY <2>a, <3>1, IntervalTicks
    <3>3. /\ Timer!IntervalPassed(t, e) => (m + e) \div J >= (m \div J) + 1
          /\ Timer!IntervalPassed(t, e) /\ e <= J => (m + e) \div J = (m \div J) + 1
          /\ ~Timer!IntervalPassed(t, e) => (m + e) \div J = m \div J
      BY <2>a, <3>1, IntervalTicks
    <3> QED
      BY <2>2, <3>2, <3>3 DEF OnTime, t, J
  <2>4. /\ timers'.tracker.interval = I /\ timers'.tracker.expiry \in 1 .. I
        /\ passes'.tracker * I + I - timers'.tracker.expiry <= m + e
    <3> DEFINE t == timers.tracker
               J == I
               p == passes.tracker
    <3>1. t.interval = J /\ J \in Nat \ {0} /\ p \in Nat /\ t.expiry \in 1 .. J /\ p * J + J - t.expiry <= m
      BY <2>1 DEF Ticking, TimerInv, m
    <3> HIDE DEF t, J, p
    <3>2. LET q == p + (IF Timer!TrackerPassed(t, e) THEN 1 ELSE 0)
              x == Timer!TrackerUpdate(t, e).expiry
          IN /\ Timer!TrackerUpdate(t, e).interval = J
             /\ x \in 1 .. J /\ q * J + J - x <= m + e
      BY <2>a, <3>1, TrackerTicks
    <3> QED
      BY <1>5, <2>2, <3>2 DEF t, J, p
  <2>5. /\ timers'.periodic.interval = I /\ timers'.periodic.expire \in 1 .. I
        /\ passes'.periodic * I + I - timers'.periodic.expire <= m + e
    <3> DEFINE t == timers.periodic
               J == I
               p == passes.periodic
    <3>1. t.interval = J /\ J \in Nat \ {0} /\ p \in Nat /\ t.expire \in 1 .. J /\ p * J + J - t.expire <= m
      BY <2>1 DEF Ticking, TimerInv, m
    <3> HIDE DEF t, J, p
    <3>2. LET q == p + (IF Timer!PeriodicPassed(t, e) THEN 1 ELSE 0)
              x == Timer!PeriodicUpdate(t, e).expire
          IN /\ Timer!PeriodicUpdate(t, e).interval = J
             /\ x \in 1 .. J /\ q * J + J - x <= m + e
      BY <2>a, <3>1, PeriodicTicks
    <3> QED
      BY <1>5, <2>2, <3>2 DEF t, J, p
  <2>6. Logged(timers'.record, I, passes'.record, now')
    <3> DEFINE r == timers.record
               J == I
               p == passes.record
               v == now'
    <3>1. J \in Nat \ {0} /\ p \in Nat /\ now \in Nat /\ v \in Nat
      BY <1>3, <1>8, <2>1 DEF TimerInv
    <3>2. Logged(r, J, p, now)
      BY <2>1 DEF Ticking
    <3>3. now <= v
      BY <1>2, <1>3, <1>5
    <3> HIDE DEF r, J, p, v
    <3>4. Logged(Timer!RecordUpdateTime(r, v % WordSize), J,
                 p + (IF Timer!RecordDue(r, v % WordSize) THEN 1 ELSE 0), v)
      BY ONLY <3>1, <3>2, <3>3, RecordTicks
    <3> QED
      BY <1>5, <2>2, <3>4 DEF r, J, p, v
  <2>7. /\ passes'.interval <= (m + e) \div I
        /\ (\A i \in DOMAIN diffs' : diffs'[i] <= I) => passes'.interval = (m + e) \div I
    <3> DEFINE q == m \div I
               u == (m + e) \div I
               passed == Timer!IntervalPassed(timers.interval, e)
               p == passes.interval
    <3>1. /\ passed => u >= q + 1
          /\ passed /\ e <= I => u = q + 1
          /\ ~passed => u = q
      BY <2>3
    <3>2. p <= q /\ p \in Nat /\ ((\A i \in DOMAIN diffs : diffs[i] <= I) => p = q)
      BY <2>1 DEF Ticking, TimerInv, m
    <3>3. passes'.interval = p + (IF passed THEN 1 ELSE 0)
      BY <1>5
    <3>4. (\A i \in DOMAIN diffs' : diffs'[i] <= I) => e <= I /\ (\A i \in DOMAIN diffs : diffs[i] <= I)
      <4> SUFFICES ASSUME \A i \in DOMAIN diffs' : diffs'[i] <= I
                   PROVE  e <= I /\ (\A i \in DOMAIN diffs : diffs[i] <= I)
        OBVIOUS
      <4>1. /\ DOMAIN diffs = 1 .. Len(diffs) /\ DOMAIN diffs' = 1 .. Len(diffs) + 1 /\ Len(diffs) \in Nat
            /\ diffs'[Len(diffs) + 1] = e /\ \A i \in 1 .. Len(diffs) : diffs'[i] = diffs[i]
        BY <1>3, <1>4, <1>5
      <4> QED
        BY <4>1
    <3>5. q \in Int /\ u \in Int
      <4>1. m \in Int /\ m + e \in Int /\ I \in Nat \ {0}
        BY <2>1, <2>a
      <4>2. q \in Int
        BY <4>1, Division
      <4>3. u \in Int
        BY <4>1, Division
      <4> QED
        BY <4>2, <4>3
    <3> HIDE DEF q, u, p, passed
    <3>6. passes'.interval <= u /\ (e <= I /\ p = q => passes'.interval = u)
      BY <3>1, <3>2, <3>3, <3>5
    <3> QED
      BY <3>2, <3>4, <3>6 DEF u
  <2>8. measured' = m + e
    BY <1>5 DEF m
  <2>9. Ticking(I)'
    <3> DEFINE J == I
    <3>1. timers'.interval.interval = J
      BY <2>3
    <3> QED
      BY <2>3, <2>4, <2>5, <2>6, <2>7, <2>8 DEF Ticking
  <2> QED
    BY <2>1, <2>3, <2>9 DEF I
<1>12. timers' # << >> /\ undefined' # TRUE => timers.interval.interval # 0 /\ undefined' = undefined
  BY <1>6, <1>7
<1>13. timers' # << >> /\ undefined' # TRUE =>
         timers'.interval.interval \in Nat
           /\ (timers'.interval.interval > 0 => Ticking(timers.interval.interval)')
  BY <1>11, <1>12
<1> QED
  BY <1>5, <1>8, <1>9, <1>10, <1>13 DEF TimerInv

LEMMA TimersRight == TimerInv => Timer!TimersKeepPace
<1> SUFFICES ASSUME TimerInv PROVE Timer!TimersKeepPace
  OBVIOUS
<1>1. measured + now \div WordSize = now
  BY DEF TimerInv
<1>2. ASSUME timers # << >>, ~undefined, timers.interval.interval > 0
      PROVE  LET interval == timers.interval.interval
                 whole == measured \div interval
             IN /\ timers.interval.current = measured % interval
                /\ passes.interval <= whole
                /\ (\A i \in DOMAIN diffs : diffs[i] <= interval) => passes.interval = whole
                /\ timers.tracker.expiry \in 1 .. interval /\ passes.tracker <= whole
                /\ timers.periodic.expire \in 1 .. interval /\ passes.periodic <= whole
                /\ passes.record * (interval + 1) <= now
  <2> DEFINE I == timers.interval.interval
  <2>1. I \in Nat \ {0} /\ Ticking(I) /\ measured \in Nat /\ passes.tracker \in Nat /\ passes.periodic \in Nat
        /\ passes.record \in Nat /\ now \in Nat
    <3>1. undefined # TRUE
      BY <1>2
    <3>2. I \in Nat /\ (I > 0 => Ticking(I))
      BY <1>2, <3>1 DEF TimerInv
    <3> QED
      BY <1>2, <3>2 DEF TimerInv
  <2> HIDE DEF I
  <2>2. passes.tracker <= measured \div I
    <3> DEFINE y == passes.tracker * I
    <3>1. y \in Nat /\ y + I - timers.tracker.expiry <= measured /\ timers.tracker.expiry \in 1 .. I
      BY <2>1 DEF Ticking
    <3>2. y <= measured
      <4> HIDE DEF y
      <4> QED
        BY <2>1, <3>1
    <3> QED
      BY <2>1, <3>2, WholeIsMost
  <2>3. passes.periodic <= measured \div I
    <3> DEFINE y == passes.periodic * I
    <3>1. y \in Nat /\ y + I - timers.periodic.expire <= measured /\ timers.periodic.expire \in 1 .. I
      BY <2>1 DEF Ticking
    <3>2. y <= measured
      <4> HIDE DEF y
      <4> QED
        BY <2>1, <3>1
    <3> QED
      BY <2>1, <3>2, WholeIsMost
  <2>4. passes.record * (I + 1) <= now
    <3>1. PICK t \in Nat : t <= now /\ passes.record * (I + 1) <= t
      BY <2>1 DEF Ticking, Logged
    <3> DEFINE y == passes.record * (I + 1)
    <3>2. y \in Nat
      BY <2>1
    <3> HIDE DEF y
    <3>3. y <= now
      BY <2>1, <3>1, <3>2 DEF y
    <3> QED
      BY <3>3 DEF y
  <2> QED
    BY <2>1, <2>2, <2>3, <2>4 DEF Ticking, I
<1> QED
  BY <1>1, <1>2 DEF Timer!TimersKeepPace

-----------------------------------------------------------------------------
(***************************************************************************)
(* Timers: sums and maxima                                                 *)
(***************************************************************************)
AddedOf(list, f) == f = [i \in 0 .. Len(list) |-> IF i = 0 THEN 0 ELSE f[i - 1] + list[i]]
Added(list) == CHOOSE f : AddedOf(list, f)

LEMMA SumGrows ==
    ASSUME NEW list \in Seq(Nat)
    PROVE  /\ Timer!Sum(list) = Added(list)[Len(list)]
           /\ Added(list)[0] = 0
           /\ \A i \in 0 .. Len(list) : Added(list)[i] \in Nat
           /\ \A i \in 1 .. Len(list) : Added(list)[i] = Added(list)[i - 1] + list[i]
<1> DEFINE n == Len(list)
           D == [p \in (1 .. n) \X Nat |-> p[2] + list[p[1]]]
           r == Added(list)
<1>0. n \in Nat /\ \A i \in 1 .. n : list[i] \in Nat
  OBVIOUS
<1>1. D \in [(1 .. n) \X Nat -> Nat]
  BY <1>0
<1>2. PICK f \in [0 .. n -> Nat] : Stepwise(n, 0, D, f)
  <2> HIDE DEF D
  <2> QED
    BY <1>0, <1>1, StepsExist
<1>3. \A i \in 0 .. n : f[i] = IF i = 0 THEN 0 ELSE f[i - 1] + list[i]
  <2> TAKE i \in 0 .. n
  <2>1. CASE i = 0
    BY <1>2, <2>1 DEF Stepwise
  <2>2. CASE i # 0
    <3>1. i \in 1 .. n /\ i - 1 \in 0 .. n
      BY <2>2
    <3>2. f[i] = D[<<i, f[i - 1]>>] /\ <<i, f[i - 1]>> \in (1 .. n) \X Nat
      BY <1>2, <3>1 DEF Stepwise
    <3>3. D[<<i, f[i - 1]>>] = f[i - 1] + list[i]
      BY <3>2
    <3> QED
      BY <2>2, <3>2, <3>3
  <2> QED
    BY <2>1, <2>2
<1>4. AddedOf(list, f)
  BY <1>2, <1>3 DEF AddedOf
<1>5. AddedOf(list, r)
  BY <1>4, Zenon DEF Added
<1>6. Timer!Sum(list) = r[n]
  BY Zenon DEF Timer!Sum, AddedOf, Added
<1> HIDE DEF r
<1>7. \A i \in 0 .. n : r[i] = IF i = 0 THEN 0 ELSE r[i - 1] + list[i]
  BY <1>5, Zenon DEF AddedOf
<1>8. r[0] = 0
  BY <1>0, <1>7
<1>9. ASSUME NEW i \in 1 .. n PROVE r[i] = r[i - 1] + list[i]
  BY <1>7
<1> DEFINE P == {i \in 0 .. n : r[i] \in Nat}
<1>10. 0 \in P
  BY <1>0, <1>8
<1>11. ASSUME NEW i \in 1 .. n, i - 1 \in P PROVE i \in P
  <2>1. r[i - 1] \in Nat /\ list[i] \in Nat
    BY <1>0, <1>11
  <2> QED
    BY <1>9, <2>1
<1>12. \A i \in 0 .. n : i \in P
  <2> HIDE DEF P
  <2> QED
    BY <1>0, <1>10, <1>11, Climb
<1> QED
  BY <1>6, <1>8, <1>9, <1>12 DEF r

LEMMA SumIsNatural ==
    ASSUME NEW list \in Seq(Nat)
    PROVE  Timer!Sum(list) \in Nat
<1>1. Len(list) \in 0 .. Len(list)
  OBVIOUS
<1>2. Added(list)[Len(list)] \in Nat
  BY <1>1, SumGrows
<1> QED
  BY <1>2, SumGrows

LEMMA SumOfNone == Timer!Sum(<< >>) = 0
<1>1. << >> \in Seq(Nat) /\ Len(<< >>) = 0
  OBVIOUS
<1> QED
  BY <1>1, SumGrows

\* An element more, at the end or at the front; another element instead.
LEMMA SumOfAppend ==
    ASSUME NEW list \in Seq(Nat), NEW x \in Nat
    PROVE  Timer!Sum(Append(list, x)) = Timer!Sum(list) + x
<1> DEFINE n == Len(list)
           more == Append(list, x)
           r == Added(list)
           s == Added(more)
<1>1. n \in Nat /\ more \in Seq(Nat) /\ Len(more) = n + 1 /\ more[n + 1] = x
      /\ \A i \in 1 .. n : more[i] = list[i]
  OBVIOUS
<1> HIDE DEF more
<1>2. r[0] = 0 /\ \A i \in 1 .. n : r[i] = r[i - 1] + list[i]
  BY SumGrows
<1>3. s[0] = 0 /\ \A i \in 1 .. n + 1 : s[i] = s[i - 1] + more[i]
  <2>1. Added(more)[0] = 0 /\ \A i \in 1 .. Len(more) : Added(more)[i] = Added(more)[i - 1] + more[i]
    BY <1>1, SumGrows
  <2> QED
    BY <1>1, <2>1
<1>4. Timer!Sum(list) = r[n]
  BY SumGrows
<1>5. Timer!Sum(more) = s[n + 1]
  BY <1>1, SumGrows
<1> HIDE DEF r, s
<1> DEFINE P == {i \in 0 .. n : s[i] = r[i]}
<1>6. 0 \in P
  BY <1>1, <1>2, <1>3
<1>7. ASSUME NEW i \in 1 .. n, i - 1 \in P PROVE i \in P
  <2>1. s[i] = s[i - 1] + more[i] /\ r[i] = r[i - 1] + list[i] /\ more[i] = list[i]
    BY <1>1, <1>2, <1>3
  <2> QED
    BY <1>7, <2>1
<1>8. \A i \in 0 .. n : i \in P
  <2> HIDE DEF P
  <2> QED
    BY <1>1, <1>6, <1>7, Climb
<1>9. s[n + 1] = s[n] + x /\ s[n] = r[n]
  <2>1. n + 1 \in 1 .. n + 1 /\ (n + 1) - 1 = n
    BY <1>1
  <2>2. s[n + 1] = s[(n + 1) - 1] + more[n + 1]
    BY <1>3, <2>1
  <2>3. s[n] = r[n]
    BY <1>1, <1>8
  <2> QED
    BY <1>1, <2>1, <2>2, <2>3
<1> QED
  BY <1>4, <1>5, <1>9 DEF more

LEMMA SumOfTail ==
    ASSUME NEW list \in Seq(Nat), list # << >>
    PROVE  Timer!Sum(list) = list[1] + Timer!Sum(Tail(list))
<1> DEFINE n == Len(list)
           rest == Tail(list)
           r == Added(list)
           s == Added(rest)
<1>1. n \in Nat \ {0} /\ rest \in Seq(Nat) /\ Len(rest) = n - 1 /\ list[1] \in Nat
      /\ \A i \in 1 .. n - 1 : rest[i] = list[i + 1]
  OBVIOUS
<1> HIDE DEF rest
<1>2. r[0] = 0 /\ \A i \in 1 .. n : r[i] = r[i - 1] + list[i]
  BY SumGrows
<1>3. s[0] = 0 /\ (\A i \in 1 .. n - 1 : s[i] = s[i - 1] + rest[i]) /\ \A i \in 0 .. n - 1 : s[i] \in Nat
  <2>1. /\ Added(rest)[0] = 0
        /\ \A i \in 1 .. Len(rest) : Added(rest)[i] = Added(rest)[i - 1] + rest[i]
        /\ \A i \in 0 .. Len(rest) : Added(rest)[i] \in Nat
    BY <1>1, SumGrows
  <2> QED
    BY <1>1, <2>1
<1>4. Timer!Sum(list) = r[n]
  BY SumGrows
<1>5. Timer!Sum(rest) = s[n - 1]
  BY <1>1, SumGrows
<1>a. \A i \in 1 .. n : list[i] \in Nat
  OBVIOUS
<1> HIDE DEF r, s
<1> DEFINE P == {i \in 0 .. n - 1 : r[i + 1] = list[1] + s[i]}
<1>6. 0 \in P
  <2>1. r[0 + 1] = r[1 - 1] + list[1]
    BY <1>1, <1>2
  <2> QED
    BY <1>1, <1>2, <1>3, <2>1
<1>7. ASSUME NEW i \in 1 .. n - 1, i - 1 \in P PROVE i \in P
  <2>1. i + 1 \in 1 .. n /\ (i + 1) - 1 = i /\ (i - 1) + 1 = i /\ i - 1 \in 0 .. n - 1
    BY <1>1
  <2>2. r[i + 1] = r[i] + list[i + 1]
    BY <1>2, <2>1
  <2>3. s[i] = s[i - 1] + rest[i] /\ rest[i] = list[i + 1]
    BY <1>1, <1>3
  <2>4. r[i] = list[1] + s[i - 1]
    BY <1>7, <2>1
  <2>5. s[i - 1] \in Nat /\ list[i + 1] \in Nat
    BY <1>3, <1>a, <2>1
  <2> QED
    BY <1>1, <2>2, <2>3, <2>4, <2>5
<1>8. \A i \in 0 .. n - 1 : i \in P
  <2>1. n - 1 \in Nat
    BY <1>1
  <2> HIDE DEF P
  <2> QED
    BY <2>1, <1>6, <1>7, Climb
<1>9. r[n] = list[1] + s[n - 1]
  <2>1. n - 1 \in 0 .. n - 1 /\ (n - 1) + 1 = n
    BY <1>1
  <2>2. r[(n - 1) + 1] = list[1] + s[n - 1]
    BY <1>8, <2>1
  <2> QED
    BY <2>1, <2>2
<1> QED
  BY <1>4, <1>5, <1>9 DEF rest

LEMMA SumOfExcept ==
    ASSUME NEW list \in Seq(Nat), NEW k \in 1 .. Len(list), NEW x \in Nat
    PROVE  Timer!Sum([list EXCEPT ![k] = x]) = Timer!Sum(list) - list[k] + x
<1> DEFINE n == Len(list)
           more == [list EXCEPT ![k] = x]
           r == Added(list)
           s == Added(more)
<1>1. n \in Nat /\ more \in Seq(Nat) /\ Len(more) = n /\ list[k] \in Nat
      /\ \A i \in 1 .. n : list[i] \in Nat /\ more[i] = IF i = k THEN x ELSE list[i]
  OBVIOUS
<1> HIDE DEF more
<1>2. r[0] = 0 /\ (\A i \in 1 .. n : r[i] = r[i - 1] + list[i]) /\ \A i \in 0 .. n : r[i] \in Nat
  BY SumGrows
<1>3. s[0] = 0 /\ \A i \in 1 .. n : s[i] = s[i - 1] + more[i]
  <2>1. Added(more)[0] = 0 /\ \A i \in 1 .. Len(more) : Added(more)[i] = Added(more)[i - 1] + more[i]
    BY <1>1, SumGrows
  <2> QED
    BY <1>1, <2>1
<1>4. Timer!Sum(list) = r[n]
  BY SumGrows
<1>5. Timer!Sum(more) = s[n]
  BY <1>1, SumGrows
<1> HIDE DEF r, s
<1> DEFINE P == {i \in 0 .. n : s[i] = IF i < k THEN r[i] ELSE r[i] - list[k] + x}
<1>6. 0 \in P
  BY <1>1, <1>2, <1>3
<1>7. ASSUME NEW i \in 1 .. n, i - 1 \in P PROVE i \in P
  <2>1. s[i] = s[i - 1] + more[i] /\ r[i] = r[i - 1] + list[i] /\ more[i] = IF i = k THEN x ELSE list[i]
    BY <1>1, <1>2, <1>3
  <2>2. s[i - 1] = IF i - 1 < k THEN r[i - 1] ELSE r[i - 1] - list[k] + x
    BY <1>7
  <2>3. r[i - 1] \in Nat /\ list[i] \in Nat
    BY <1>1, <1>2
  <2> QED
    BY <1>1, <2>1, <2>2, <2>3
<1>8. \A i \in 0 .. n : i \in P
  <2> HIDE DEF P
  <2> QED
    BY <1>1, <1>6, <1>7, Climb
<1>9. s[n] = r[n] - list[k] + x
  BY <1>1, <1>8
<1> QED
  BY <1>4, <1>5, <1>9 DEF more

TopOf(list, f) == f = [i \in 0 .. Len(list) |-> IF i = 0 THEN 0 ELSE Timer!Larger(f[i - 1], list[i])]
Top(list) == CHOOSE f : TopOf(list, f)

LEMMA MaximumGrows ==
    ASSUME NEW list \in Seq(Nat)
    PROVE  /\ Timer!Maximum(list) = Top(list)[Len(list)]
           /\ Top(list)[0] = 0
           /\ \A i \in 1 .. Len(list) : Top(list)[i] = Timer!Larger(Top(list)[i - 1], list[i])
<1> DEFINE n == Len(list)
           D == [p \in (1 .. n) \X Nat |-> Timer!Larger(p[2], list[p[1]])]
           r == Top(list)
<1>0. n \in Nat /\ \A i \in 1 .. n : list[i] \in Nat
  OBVIOUS
<1>1. D \in [(1 .. n) \X Nat -> Nat]
  BY <1>0 DEF Timer!Larger
<1>2. PICK f \in [0 .. n -> Nat] : Stepwise(n, 0, D, f)
  <2> HIDE DEF D
  <2> QED
    BY <1>0, <1>1, StepsExist
<1>3. \A i \in 0 .. n : f[i] = IF i = 0 THEN 0 ELSE Timer!Larger(f[i - 1], list[i])
  <2> TAKE i \in 0 .. n
  <2>1. CASE i = 0
    BY <1>2, <2>1 DEF Stepwise
  <2>2. CASE i # 0
    <3>1. i \in 1 .. n /\ i - 1 \in 0 .. n
      BY <2>2
    <3>2. f[i] = D[<<i, f[i - 1]>>] /\ <<i, f[i - 1]>> \in (1 .. n) \X Nat
      BY <1>2, <3>1 DEF Stepwise
    <3>3. D[<<i, f[i - 1]>>] = Timer!Larger(f[i - 1], list[i])
      BY <3>2
    <3> QED
      BY <2>2, <3>2, <3>3
  <2> QED
    BY <2>1, <2>2
<1>4. TopOf(list, f)
  BY <1>2, <1>3 DEF TopOf
<1>5. TopOf(list, r)
  BY <1>4, Zenon DEF Top
<1>6. Timer!Maximum(list) = r[n]
  BY Zenon DEF Timer!Maximum, TopOf, Top
<1> HIDE DEF r
<1>7. \A i \in 0 .. n : r[i] = IF i = 0 THEN 0 ELSE Timer!Larger(r[i - 1], list[i])
  BY <1>5, Zenon DEF TopOf
<1>8. r[0] = 0
  BY <1>0, <1>7
<1>9. ASSUME NEW i \in 1 .. n PROVE r[i] = Timer!Larger(r[i - 1], list[i])
  BY <1>7
<1> QED
  BY <1>6, <1>8, <1>9 DEF r

\* The maximum is the least number that no element exceeds.
LEMMA MaximumIsLeast ==
    ASSUME NEW list \in Seq(Nat)
    PROVE  /\ Timer!Maximum(list) \in Nat
           /\ \A i \in 1 .. Len(list) : list[i] <= Timer!Maximum(list)
           /\ \A u \in Nat : (\A i \in 1 .. Len(list) : list[i] <= u) => Timer!Maximum(list) <= u
<1> DEFINE n == Len(list)
           r == Top(list)
<1>0. n \in Nat /\ \A i \in 1 .. n : list[i] \in Nat
  OBVIOUS
<1>1. r[0] = 0 /\ \A i \in 1 .. n : r[i] = Timer!Larger(r[i - 1], list[i])
  BY MaximumGrows
<1>2. Timer!Maximum(list) = r[n]
  BY MaximumGrows
<1> HIDE DEF r
<1> DEFINE P == {i \in 0 .. n : /\ r[i] \in Nat
                                /\ \A j \in 1 .. i : list[j] <= r[i]
                                /\ \A u \in Nat : (\A j \in 1 .. n : list[j] <= u) => r[i] <= u}
<1>3. 0 \in P
  BY <1>0, <1>1
<1>4. ASSUME NEW i \in 1 .. n, i - 1 \in P PROVE i \in P
  <2>1. r[i] = IF r[i - 1] > list[i] THEN r[i - 1] ELSE list[i]
    BY <1>1 DEF Timer!Larger
  <2>2. /\ r[i - 1] \in Nat /\ list[i] \in Nat
        /\ \A j \in 1 .. i - 1 : list[j] <= r[i - 1]
        /\ \A u \in Nat : (\A j \in 1 .. n : list[j] <= u) => r[i - 1] <= u
    BY <1>0, <1>4
  <2>3. r[i] \in Nat /\ r[i - 1] <= r[i] /\ list[i] <= r[i]
    BY <2>1, <2>2
  <2>4. ASSUME NEW j \in 1 .. i PROVE list[j] <= r[i]
    <3>1. CASE j = i
      BY <2>3, <3>1
    <3>2. CASE j # i
      <4>1. j \in 1 .. i - 1 /\ j \in 1 .. n
        BY <1>0, <3>2
      <4>2. list[j] <= r[i - 1] /\ list[j] \in Nat
        BY <1>0, <2>2, <4>1
      <4> QED
        BY <2>2, <2>3, <4>2
    <3> QED
      BY <3>1, <3>2
  <2>5. ASSUME NEW u \in Nat, \A j \in 1 .. n : list[j] <= u PROVE r[i] <= u
    <3>1. r[i - 1] <= u /\ list[i] <= u
      BY <2>2, <2>5
    <3> QED
      BY <2>1, <3>1
  <2> QED
    BY <2>3, <2>4, <2>5
<1>5. \A i \in 0 .. n : i \in P
  <2> HIDE DEF P
  <2> QED
    BY <1>0, <1>3, <1>4, Climb
<1>6. n \in P
  BY <1>0, <1>5
<1> QED
  BY <1>2, <1>6

LEMMA MaximumOfAppend ==
    ASSUME NEW list \in Seq(Nat), NEW x \in Nat
    PROVE  Timer!Maximum(Append(list, x)) = Timer!Larger(Timer!Maximum(list), x)
<1> DEFINE n == Len(list)
           more == Append(list, x)
           a == Timer!Maximum(list)
           b == Timer!Maximum(more)
<1>1. n \in Nat /\ more \in Seq(Nat) /\ Len(more) = n + 1 /\ more[n + 1] = x
      /\ (\A i \in 1 .. n : more[i] = list[i]) /\ \A i \in 1 .. n : list[i] \in Nat
  OBVIOUS
<1> HIDE DEF more
<1>2. /\ a \in Nat /\ \A i \in 1 .. n : list[i] <= a
      /\ \A u \in Nat : (\A i \in 1 .. n : list[i] <= u) => a <= u
  BY MaximumIsLeast
<1>3. /\ b \in Nat /\ \A i \in 1 .. n + 1 : more[i] <= b
      /\ \A u \in Nat : (\A i \in 1 .. n + 1 : more[i] <= u) => b <= u
  <2>1. /\ b \in Nat /\ \A i \in 1 .. Len(more) : more[i] <= b
        /\ \A u \in Nat : (\A i \in 1 .. Len(more) : more[i] <= u) => b <= u
    BY <1>1, MaximumIsLeast
  <2> QED
    BY <1>1, <2>1
<1> HIDE DEF a, b
<1>4. x <= b
  <2>1. n + 1 \in 1 .. n + 1
    BY <1>1
  <2> QED
    BY <1>1, <1>3, <2>1
<1>5. a <= b
  <2>1. ASSUME NEW i \in 1 .. n PROVE list[i] <= b
    <3>1. i \in 1 .. n + 1 /\ more[i] = list[i]
      BY <1>1
    <3> QED
      BY <1>3, <3>1
  <2> QED
    BY <1>2, <1>3, <2>1
<1> DEFINE c == IF a > x THEN a ELSE x
<1>6. c \in Nat /\ a <= c /\ x <= c
  BY <1>2
<1>7. b <= c
  <2>1. ASSUME NEW i \in 1 .. n + 1 PROVE more[i] <= c
    <3>1. CASE i = n + 1
      BY <1>1, <1>6, <3>1
    <3>2. CASE i # n + 1
      <4>1. i \in 1 .. n
        BY <1>1, <3>2
      <4>2. more[i] <= a /\ more[i] \in Nat
        BY <1>1, <1>2, <4>1
      <4> QED
        BY <1>2, <1>6, <4>2
    <3> QED
      BY <3>1, <3>2
  <2> HIDE DEF c
  <2> QED
    BY <1>3, <1>6, <2>1
<1>8. b = c
  BY <1>2, <1>3, <1>4, <1>5, <1>7
<1> QED
  BY <1>8 DEF Timer!Larger, a, b, more

-----------------------------------------------------------------------------
(***************************************************************************)
(* Timers: the last differences                                            *)
(***************************************************************************)
WindowOf(list) == SubSeq(list, Timer!Larger(1, Len(list) - AVG_DIFF_COUNT + 1), Len(list))

LEMMA WindowHolds ==
    ASSUME NEW list \in Seq(Nat)
    PROVE  LET n == Len(list)
               m == IF n < AVG_DIFF_COUNT THEN n ELSE AVG_DIFF_COUNT
           IN /\ WindowOf(list) \in Seq(Nat) /\ Len(WindowOf(list)) = m
              /\ \A i \in 1 .. m : WindowOf(list)[i] = list[n - m + i]
<1> DEFINE n == Len(list)
           C == AVG_DIFF_COUNT
           m == IF n < C THEN n ELSE C
           a == IF 1 > n - C + 1 THEN 1 ELSE n - C + 1
<1>1. n \in Nat /\ C \in Nat \ {0} /\ m \in 0 .. n
  BY TimerAssumption
<1>2. WindowOf(list) = SubSeq(list, a, n)
  BY DEF WindowOf, Timer!Larger
<1>m. (n < C => m = n /\ a = 1) /\ (~(n < C) => m = C /\ a = n - C + 1)
  BY <1>1
<1>n. n = Len(list)
  OBVIOUS
<1> HIDE DEF C, n, m, a
<1>3. a = (n - m) + 1 /\ n - m \in 0 .. n /\ n - (n - m) = m
  BY <1>1, <1>m
<1>4. /\ SubSeq(list, (n - m) + 1, n) \in Seq(Nat) /\ Len(SubSeq(list, (n - m) + 1, n)) = n - (n - m)
      /\ \A i \in 1 .. n - (n - m) : SubSeq(list, (n - m) + 1, n)[i] = list[(n - m) + i]
  <2> DEFINE k == n - m
  <2>1. k \in 0 .. n
    BY <1>3
  <2> HIDE DEF k
  <2>2. /\ SubSeq(list, k + 1, n) \in Seq(Nat) /\ Len(SubSeq(list, k + 1, n)) = n - k
        /\ \A i \in 1 .. n - k : SubSeq(list, k + 1, n)[i] = list[k + i]
    BY <1>n, <2>1, Cut
  <2> QED
    BY <2>2 DEF k
<1>5. /\ WindowOf(list) \in Seq(Nat) /\ Len(WindowOf(list)) = m
      /\ \A i \in 1 .. m : WindowOf(list)[i] = list[n - m + i]
  BY <1>2, <1>3, <1>4
<1> QED
  BY <1>5 DEF C, n, m

\* A difference more enters the window, and the first one leaves it when it is full.
LEMMA WindowMoves ==
    ASSUME NEW list \in Seq(Nat), NEW x \in Nat
    PROVE  WindowOf(Append(list, x)) =
             Append(IF Len(list) < AVG_DIFF_COUNT THEN WindowOf(list) ELSE Tail(WindowOf(list)), x)
<1> DEFINE n == Len(list)
           C == AVG_DIFF_COUNT
           m == IF n < C THEN n ELSE C
           more == Append(list, x)
           u == IF n + 1 < C THEN n + 1 ELSE C
           w == WindowOf(list)
           v == WindowOf(more)
<1>1. n \in Nat /\ C \in Nat \ {0} /\ more \in Seq(Nat) /\ Len(more) = n + 1 /\ more[n + 1] = x
      /\ \A i \in 1 .. n : more[i] = list[i]
  BY TimerAssumption
<1> HIDE DEF more
<1>2. w \in Seq(Nat) /\ Len(w) = m /\ \A i \in 1 .. m : w[i] = list[n - m + i]
  BY WindowHolds
<1>3. v \in Seq(Nat) /\ Len(v) = u /\ \A i \in 1 .. u : v[i] = more[n + 1 - u + i]
  <2>1. LET k == Len(more)
            l == IF k < AVG_DIFF_COUNT THEN k ELSE AVG_DIFF_COUNT
        IN v \in Seq(Nat) /\ Len(v) = l /\ \A i \in 1 .. l : v[i] = more[k - l + i]
    BY <1>1, WindowHolds
  <2>2. (IF Len(more) < AVG_DIFF_COUNT THEN Len(more) ELSE AVG_DIFF_COUNT) = u
    BY <1>1
  <2> HIDE DEF v, u
  <2>3. v \in Seq(Nat) /\ Len(v) = u /\ \A i \in 1 .. u : v[i] = more[Len(more) - u + i]
    BY <2>1, <2>2
  <2>4. Len(more) = n + 1
    BY <1>1
  <2> DEFINE l == Len(more)
             k == n + 1
  <2>5. l = k /\ \A i \in 1 .. u : v[i] = more[l - u + i]
    BY <2>3, <2>4
  <2> HIDE DEF l, k
  <2>6. \A i \in 1 .. u : v[i] = more[k - u + i]
    BY <2>5
  <2> QED
    BY <2>3, <2>6 DEF k
<1> HIDE DEF C, w, v
<1>4. CASE n < C
  <2>1. m = n /\ u = n + 1
    BY <1>1, <1>4
  <2>2. Append(w, x) \in Seq(Nat) /\ Len(Append(w, x)) = n + 1 /\ Append(w, x)[n + 1] = x
        /\ \A i \in 1 .. n : Append(w, x)[i] = w[i]
    BY <1>2, <2>1
  <2>3. ASSUME NEW i \in 1 .. n + 1 PROVE v[i] = Append(w, x)[i]
    <3>1. v[i] = more[i]
      <4>1. \A k \in Nat : k + 1 - (k + 1) + i = i
        OBVIOUS
      <4> QED
        BY <1>1, <1>3, <2>1, <4>1
    <3>2. CASE i = n + 1
      BY <1>1, <2>2, <3>1, <3>2
    <3>3. CASE i # n + 1
      <4>1. i \in 1 .. n /\ n - m + i = i
        BY <1>1, <2>1, <3>3
      <4>2. w[i] = list[i]
        BY <1>2, <2>1, <4>1
      <4> QED
        BY <1>1, <2>2, <3>1, <4>1, <4>2
    <3> QED
      BY <3>2, <3>3
  <2>4. v = Append(w, x)
    <3>1. v \in Seq(Nat) /\ Len(v) = n + 1
      BY <1>3, <2>1
    <3> QED
      BY <2>2, <2>3, <3>1
  <2> QED
    BY <1>4, <2>4 DEF C, w, v, more
<1>5. CASE ~(n < C)
  <2>1. m = C /\ u = C
    BY <1>1, <1>5
  <2>2. Tail(w) \in Seq(Nat) /\ Len(Tail(w)) = C - 1 /\ \A i \in 1 .. C - 1 : Tail(w)[i] = w[i + 1]
    BY <1>1, <1>2, <2>1
  <2> DEFINE t == Tail(w)
  <2> HIDE DEF t
  <2>3. Append(t, x) \in Seq(Nat) /\ Len(Append(t, x)) = C /\ Append(t, x)[C] = x
        /\ \A i \in 1 .. C - 1 : Append(t, x)[i] = w[i + 1]
    BY <1>1, <2>2 DEF t
  <2>4. ASSUME NEW i \in 1 .. C PROVE v[i] = Append(t, x)[i]
    <3>1. v[i] = more[n + 1 - C + i]
      BY <1>3, <2>1
    <3>2. CASE i = C
      <4>1. n + 1 - C + i = n + 1
        BY <1>1, <3>2
      <4> QED
        BY <1>1, <2>3, <3>1, <3>2, <4>1
    <3>3. CASE i # C
      <4>1. i \in 1 .. C - 1 /\ i + 1 \in 1 .. C /\ n - C + (i + 1) = n + 1 - C + i /\ n + 1 - C + i \in 1 .. n
        BY <1>1, <1>5, <3>3
      <4>2. w[i + 1] = list[n + 1 - C + i]
        <5>1. w[i + 1] = list[n - C + (i + 1)]
          BY <1>2, <2>1, <4>1
        <5> QED
          BY <4>1, <5>1
      <4>3. more[n + 1 - C + i] = list[n + 1 - C + i]
        BY <1>1, <4>1
      <4> QED
        BY <2>3, <3>1, <4>1, <4>2, <4>3
    <3> QED
      BY <3>2, <3>3
  <2>5. v = Append(t, x)
    <3>1. v \in Seq(Nat) /\ Len(v) = C
      BY <1>3, <2>1
    <3> QED
      BY <2>3, <2>4, <3>1
  <2> QED
    BY <1>5, <2>5 DEF C, w, v, t, more
<1> QED
  BY <1>4, <1>5

\* Before the index the table holds the last differences, from it on those before them.
At(list, p) == IF p \in 1 .. Len(list) THEN list[p] ELSE 0
Holds(n, k, i) == IF i < k THEN n - k + i + 1 ELSE n - k - AVG_DIFF_COUNT + i + 1

TableTells(table, index, list) ==
    /\ table \in [Timer!Slots -> Nat] /\ index \in Timer!Slots
    /\ index <= Len(list) /\ (Len(list) < AVG_DIFF_COUNT => index = Len(list))
    /\ \A i \in Timer!Slots : table[i] = At(list, Holds(Len(list), index, i))

NextSlot(k) == IF k + 1 = AVG_DIFF_COUNT THEN 0 ELSE k + 1

LEMMA SlotsFollow ==
    ASSUME NEW k \in Timer!Slots
    PROVE  (k + 1) % AVG_DIFF_COUNT = NextSlot(k) /\ NextSlot(k) \in Timer!Slots
<1> DEFINE C == AVG_DIFF_COUNT
<1>1. C \in Nat \ {0} /\ k \in 0 .. C - 1
  BY TimerAssumption DEF Timer!Slots
<1> HIDE DEF C
<1>2. CASE k + 1 = C
  <2>1. (C * 1 + 0) % C = 0
    <3>1. 1 \in Int /\ 0 \in 0 .. C - 1
      BY <1>1
    <3> QED
      BY <1>1, <3>1, DivisionIsUnique
  <2>2. C * 1 + 0 = k + 1
    BY <1>1, <1>2
  <2>3. (k + 1) % C = 0
    BY <2>1, <2>2
  <2> QED
    BY <1>1, <1>2, <2>3 DEF C, NextSlot, Timer!Slots
<1>3. CASE k + 1 # C
  <2>1. 0 \in Int /\ k + 1 \in 0 .. C - 1
    BY <1>1, <1>3
  <2>2. (C * 0 + (k + 1)) % C = k + 1
    BY <1>1, <2>1, DivisionIsUnique
  <2>3. C * 0 + (k + 1) = k + 1
    BY <1>1
  <2>4. (k + 1) % C = k + 1
    BY <2>2, <2>3
  <2> QED
    BY <1>3, <2>1, <2>4 DEF C, NextSlot, Timer!Slots
<1> QED
  BY <1>2, <1>3

LEMMA TableMoves ==
    ASSUME NEW list \in Seq(Nat), NEW d \in Nat, NEW table, NEW k, TableTells(table, k, list)
    PROVE  TableTells([table EXCEPT ![k] = d], NextSlot(k), Append(list, d))
<1> DEFINE C == AVG_DIFF_COUNT
           n == Len(list)
           more == Append(list, d)
           t == [table EXCEPT ![k] = d]
           l == NextSlot(k)
<1>1. C \in Nat \ {0} /\ k \in 0 .. C - 1 /\ n \in Nat /\ k <= n /\ (n < C => k = n)
  BY TimerAssumption DEF TableTells, Timer!Slots
<1>2. more \in Seq(Nat) /\ Len(more) = n + 1 /\ more[n + 1] = d /\ \A p \in 1 .. n : more[p] = list[p]
  OBVIOUS
<1>3. t \in [Timer!Slots -> Nat] /\ \A i \in Timer!Slots : t[i] = IF i = k THEN d ELSE table[i]
  BY DEF TableTells
<1>4. l = (IF k + 1 = C THEN 0 ELSE k + 1) /\ l \in Timer!Slots
  <2>1. k \in Timer!Slots
    BY DEF TableTells
  <2> QED
    BY <2>1, SlotsFollow DEF NextSlot
<1> HIDE DEF more, t, l
<1>5. l <= n + 1 /\ (n + 1 < C => l = n + 1)
  BY <1>1, <1>4
<1>6. ASSUME NEW i \in Timer!Slots PROVE t[i] = At(more, Holds(n + 1, l, i))
  <2>1. i \in 0 .. C - 1
    BY DEF Timer!Slots
  <2>2. CASE i = k
    <3>1. Holds(n + 1, l, i) = n + 1
      BY <1>1, <1>4, <2>2 DEF Holds
    <3>2. At(more, n + 1) = d
      BY <1>1, <1>2 DEF At
    <3> QED
      BY <1>3, <2>2, <3>1, <3>2
  <2>3. CASE i # k
    <3>1. Holds(n + 1, l, i) = Holds(n, k, i) /\ Holds(n, k, i) \in Int /\ Holds(n, k, i) <= n
      <4>0. l = IF k + 1 = C THEN 0 ELSE k + 1
        BY <1>4
      <4>1. Holds(n + 1, l, i) = IF i < l THEN (n + 1) - l + i + 1 ELSE (n + 1) - l - C + i + 1
        BY DEF Holds
      <4>2. Holds(n, k, i) = IF i < k THEN n - k + i + 1 ELSE n - k - C + i + 1
        BY DEF Holds
      <4> DEFINE x == Holds(n + 1, l, i)
                 y == Holds(n, k, i)
      <4> HIDE DEF C, n, x, y
      <4>3. x = y /\ y \in Int /\ y <= n
        <5>1. CASE k + 1 = C
          BY <1>1, <4>0, <4>1, <4>2, <2>1, <2>3, <5>1 DEF x, y
        <5>2. CASE k + 1 # C
          BY <1>1, <4>0, <4>1, <4>2, <2>1, <2>3, <5>2 DEF x, y
        <5> QED
          BY <5>1, <5>2
      <4> QED
        BY <4>3 DEF x, y, n
    <3>2. table[i] = At(list, Holds(n, k, i))
      BY DEF TableTells
    <3>3. At(more, Holds(n, k, i)) = At(list, Holds(n, k, i))
      <4> DEFINE p == Holds(n, k, i)
      <4>1. p \in Int /\ p <= n
        BY <3>1
      <4> SUFFICES At(more, p) = At(list, p)
        OBVIOUS
      <4> HIDE DEF p
      <4>2. CASE p \in 1 .. n
        <5>1. p \in 1 .. n + 1
          BY <1>1, <4>2
        <5> QED
          BY <1>2, <4>2, <5>1 DEF At
      <4>3. CASE p \notin 1 .. n
        <5>1. p \notin 1 .. n + 1
          BY <1>1, <4>1, <4>3
        <5> QED
          BY <1>2, <4>3, <5>1 DEF At
      <4> QED
        BY <4>2, <4>3
    <3> QED
      BY <1>3, <2>3, <3>1, <3>2, <3>3
  <2> QED
    BY <2>2, <2>3
<1> QED
  BY <1>2, <1>3, <1>4, <1>5, <1>6 DEF TableTells, t, l, more

\* What the next difference replaces is the one that leaves the window.
LEMMA OldestLeaves ==
    ASSUME NEW list \in Seq(Nat), NEW table, NEW k, TableTells(table, k, list)
    PROVE  /\ table[k] \in Nat
           /\ Len(list) < AVG_DIFF_COUNT => table[k] = 0
           /\ ~(Len(list) < AVG_DIFF_COUNT) => WindowOf(list) # << >> /\ table[k] = WindowOf(list)[1]
<1> DEFINE C == AVG_DIFF_COUNT
           n == Len(list)
<1>1. C \in Nat \ {0} /\ k \in 0 .. C - 1 /\ n \in Nat /\ k <= n
  BY TimerAssumption DEF TableTells, Timer!Slots
<1>2. table[k] \in Nat /\ table[k] = At(list, Holds(n, k, k))
  BY DEF TableTells
<1>3. Holds(n, k, k) = n - C + 1
  BY <1>1 DEF Holds
<1>4. CASE n < C
  <2>1. n - C + 1 \notin 1 .. n
    BY <1>1, <1>4
  <2> QED
    BY <1>2, <1>3, <1>4, <2>1 DEF At
<1>5. CASE ~(n < C)
  <2>1. n - C + 1 \in 1 .. n /\ 1 \in 1 .. C
    BY <1>1, <1>5
  <2>2. Len(WindowOf(list)) = C /\ \A i \in 1 .. C : WindowOf(list)[i] = list[n - C + i]
    BY <1>5, WindowHolds
  <2>3. WindowOf(list)[1] = list[n - C + 1]
    BY <2>1, <2>2
  <2>4. WindowOf(list) # << >>
    <3>1. Len(WindowOf(list)) # 0
      BY <1>1, <2>2
    <3>2. Len(<< >>) = 0
      OBVIOUS
    <3> QED
      BY <3>1, <3>2
  <2> QED
    BY <1>2, <1>3, <1>5, <2>1, <2>3, <2>4 DEF At
<1> QED
  BY <1>4, <1>5

-----------------------------------------------------------------------------
(***************************************************************************)
(* Timers: the total                                                       *)
(***************************************************************************)
Listed(table) == [i \in 1 .. AVG_DIFF_COUNT |-> table[i - 1]]

TotalTells(total, table, list) ==
    total = Timer!Sum(WindowOf(list)) % WordSize /\ total = Timer!Sum(Listed(table)) % WordSize

LEMMA ShiftedRest ==
    ASSUME NEW a \in Int, NEW b \in Int
    PROVE  ((a % WordSize) + b) % WordSize = (a + b) % WordSize
<1> DEFINE W == WordSize
           q == a \div W
           r == a % W
<1>1. W \in Nat \ {0}
  BY TimerAssumption
<1>2. q \in Int /\ r \in 0 .. W - 1 /\ a = W * q + r
  BY <1>1, Division
<1> HIDE DEF W, q, r
<1>3. r + b \in Int
  BY <1>1, <1>2
<1>4. (W * q + (r + b)) % W = (r + b) % W
  BY <1>1, <1>2, <1>3, MultiplesVanish
<1>5. W * q + (r + b) = a + b
  BY <1>1, <1>2
<1> QED
  BY <1>4, <1>5 DEF W, r

LEMMA ListedTable ==
    ASSUME NEW table \in [Timer!Slots -> Nat]
    PROVE  /\ Listed(table) \in Seq(Nat) /\ Len(Listed(table)) = AVG_DIFF_COUNT
           /\ \A i \in 1 .. AVG_DIFF_COUNT : Listed(table)[i] = table[i - 1] /\ i - 1 \in Timer!Slots
<1>1. AVG_DIFF_COUNT \in Nat
  BY TimerAssumption
<1>2. \A i \in 1 .. AVG_DIFF_COUNT : i - 1 \in Timer!Slots
  BY <1>1 DEF Timer!Slots
<1>3. \A i \in 1 .. AVG_DIFF_COUNT : table[i - 1] \in Nat
  BY <1>2
<1>4. Listed(table) \in [1 .. AVG_DIFF_COUNT -> Nat]
  BY <1>3 DEF Listed
<1>5. Listed(table) \in Seq(Nat) /\ Len(Listed(table)) = AVG_DIFF_COUNT
  BY <1>1, <1>4
<1>6. \A i \in 1 .. AVG_DIFF_COUNT : Listed(table)[i] = table[i - 1]
  BY DEF Listed
<1> QED
  BY <1>2, <1>5, <1>6

LEMMA TotalMoves ==
    ASSUME NEW list \in Seq(Nat), NEW d \in Nat, NEW table, NEW k, TableTells(table, k, list),
           NEW total, TotalTells(total, table, list)
    PROVE  TotalTells((total - table[k] + d) % WordSize, [table EXCEPT ![k] = d], Append(list, d))
<1> DEFINE old == table[k]
           a == Timer!Sum(WindowOf(list))
           b == Timer!Sum(Listed(table))
           t == [table EXCEPT ![k] = d]
<1>1. old \in Nat
  BY OldestLeaves
<1>2. WindowOf(list) \in Seq(Nat)
  BY WindowHolds
<1>3. a \in Nat
  BY <1>2, SumIsNatural
<1>4. Timer!Sum(WindowOf(Append(list, d))) = a + (d - old)
  <2>1. CASE Len(list) < AVG_DIFF_COUNT
    <3>1. WindowOf(Append(list, d)) = Append(WindowOf(list), d)
      BY <2>1, WindowMoves
    <3>2. Timer!Sum(Append(WindowOf(list), d)) = a + d
      BY <1>2, SumOfAppend
    <3>3. old = 0
      BY <2>1, OldestLeaves
    <3> QED
      BY <1>3, <3>1, <3>2, <3>3
  <2>2. CASE ~(Len(list) < AVG_DIFF_COUNT)
    <3> DEFINE w == WindowOf(list)
    <3>1. WindowOf(Append(list, d)) = Append(Tail(w), d)
      BY <2>2, WindowMoves
    <3>2. w # << >> /\ old = w[1]
      BY <2>2, OldestLeaves
    <3> HIDE DEF w
    <3>3. w \in Seq(Nat) /\ Tail(w) \in Seq(Nat)
      BY <1>2, <3>2 DEF w
    <3>4. Timer!Sum(Append(Tail(w), d)) = Timer!Sum(Tail(w)) + d
      BY <3>3, SumOfAppend
    <3>5. Timer!Sum(w) = w[1] + Timer!Sum(Tail(w))
      BY <3>2, <3>3, SumOfTail
    <3>6. Timer!Sum(Tail(w)) \in Nat
      BY <3>3, SumIsNatural
    <3>7. a = old + Timer!Sum(Tail(w))
      BY <3>2, <3>5 DEF w
    <3> QED
      BY <1>1, <3>1, <3>4, <3>6, <3>7
  <2> QED
    BY <2>1, <2>2
<1>5. table \in [Timer!Slots -> Nat] /\ k \in 0 .. AVG_DIFF_COUNT - 1 /\ AVG_DIFF_COUNT \in Nat
      /\ k \in Timer!Slots
  BY TimerAssumption DEF TableTells, Timer!Slots
<1>6. Timer!Sum(Listed(t)) = b + (d - old) /\ b \in Nat
  <2> DEFINE l == Listed(table)
  <2>1. l \in Seq(Nat) /\ Len(l) = AVG_DIFF_COUNT /\ \A i \in 1 .. AVG_DIFF_COUNT : l[i] = table[i - 1]
    BY <1>5, ListedTable
  <2>2. k + 1 \in 1 .. Len(l) /\ (k + 1) - 1 = k
    BY <1>5, <2>1
  <2>3. l[k + 1] = old
    BY <2>1, <2>2
  <2>4. t \in [Timer!Slots -> Nat] /\ \A i \in Timer!Slots : t[i] = IF i = k THEN d ELSE table[i]
    BY <1>5
  <2> HIDE DEF t
  <2>5. Listed(t) \in Seq(Nat) /\ Len(Listed(t)) = AVG_DIFF_COUNT
        /\ \A i \in 1 .. AVG_DIFF_COUNT : Listed(t)[i] = t[i - 1] /\ i - 1 \in Timer!Slots
    BY <2>4, ListedTable
  <2> DEFINE e == [l EXCEPT ![k + 1] = d]
             m == Listed(t)
  <2>6. e \in Seq(Nat) /\ Len(e) = AVG_DIFF_COUNT
        /\ \A i \in 1 .. AVG_DIFF_COUNT : e[i] = IF i = k + 1 THEN d ELSE l[i]
    BY <2>1, <2>2
  <2> HIDE DEF l, e, m
  <2>7. ASSUME NEW i \in 1 .. AVG_DIFF_COUNT PROVE m[i] = e[i]
    <3>1. m[i] = IF i - 1 = k THEN d ELSE table[i - 1]
      BY <2>4, <2>5 DEF m
    <3>2. i - 1 = k <=> i = k + 1
      BY <1>5
    <3> QED
      BY <2>1, <2>6, <3>1, <3>2
  <2>8. m = e
    BY <2>5, <2>6, <2>7 DEF m
  <2>9. Timer!Sum(e) = Timer!Sum(l) - l[k + 1] + d
    BY <2>1, <2>2, SumOfExcept DEF e
  <2>10. b \in Nat
    BY <2>1, SumIsNatural DEF l
  <2> QED
    BY <1>1, <2>3, <2>8, <2>9, <2>10 DEF m, l
<1> HIDE DEF old, a, b, t
<1> DEFINE c == d - old
<1>7. c \in Int /\ a \in Int /\ b \in Int
  BY <1>1, <1>3, <1>6
<1>8. total = a % WordSize /\ total = b % WordSize /\ total \in Int /\ total - old + d = total + c
  <2>1. total = a % WordSize /\ total = b % WordSize
    BY DEF TotalTells, a, b
  <2>2. total \in Int
    <3>1. WordSize \in Nat \ {0} /\ a \in Int
      BY <1>3, TimerAssumption
    <3>2. a % WordSize \in 0 .. WordSize - 1
      BY <3>1, Division
    <3> QED
      BY <2>1, <3>1, <3>2
  <2> QED
    BY <1>1, <2>1, <2>2
<1> HIDE DEF c
<1>9. (total + c) % WordSize = (a + c) % WordSize
  BY <1>7, <1>8, ShiftedRest
<1>10. (total + c) % WordSize = (b + c) % WordSize
  BY <1>7, <1>8, ShiftedRest
<1> QED
  BY <1>4, <1>6, <1>8, <1>9, <1>10 DEF TotalTells, t, c, old

-----------------------------------------------------------------------------
(***************************************************************************)
(* Timers: maxima and average                                              *)
(***************************************************************************)

\* The maximum of the current table is that of the differences since the index was 0, the
\* maximum of the last one that of a table before them.
MaximaTell(max, current, last_, index, list) ==
    /\ max = Timer!Maximum(list) /\ current \in Nat /\ last_ \in Nat /\ current <= max /\ last_ <= max
    /\ \A p \in 1 .. Len(list) : p > Len(list) - index => list[p] <= current
    /\ \A p \in 1 .. Len(list) :
         p <= Len(list) - index /\ p > Len(list) - index - AVG_DIFF_COUNT => list[p] <= last_

LEMMA MaximaMove ==
    ASSUME NEW list \in Seq(Nat), NEW d \in Nat, NEW k \in Timer!Slots,
           NEW max, NEW cur, NEW lst, MaximaTell(max, cur, lst, k, list)
    PROVE  MaximaTell(Timer!Larger(max, d),
                      IF NextSlot(k) = 0 THEN 0 ELSE Timer!Larger(cur, d),
                      IF NextSlot(k) = 0 THEN Timer!Larger(cur, d) ELSE lst,
                      NextSlot(k), Append(list, d))
<1> DEFINE C == AVG_DIFF_COUNT
           n == Len(list)
           more == Append(list, d)
           l == NextSlot(k)
           b == Timer!Larger(max, d)
           c == Timer!Larger(cur, d)
           cur2 == IF l = 0 THEN 0 ELSE c
           lst2 == IF l = 0 THEN c ELSE lst
<1>1. C \in Nat \ {0} /\ k \in 0 .. C - 1 /\ n \in Nat
  BY TimerAssumption DEF Timer!Slots
<1>2. more \in Seq(Nat) /\ Len(more) = n + 1 /\ more[n + 1] = d /\ \A p \in 1 .. n : more[p] = list[p]
  OBVIOUS
<1>3. l = (IF k + 1 = C THEN 0 ELSE k + 1)
  BY DEF NextSlot
<1>4. /\ max = Timer!Maximum(list) /\ cur \in Nat /\ lst \in Nat /\ cur <= max /\ lst <= max
      /\ \A p \in 1 .. n : p > n - k => list[p] <= cur
      /\ \A p \in 1 .. n : p <= n - k /\ p > n - k - C => list[p] <= lst
  BY DEF MaximaTell
<1>5. max \in Nat
  BY <1>4, MaximumIsLeast
<1>6. b = Timer!Maximum(more)
  BY <1>4, MaximumOfAppend
<1>7. /\ b \in Nat /\ c \in Nat /\ max <= b /\ c <= b /\ cur <= c /\ d <= c
  BY <1>4, <1>5 DEF Timer!Larger
<1>e. \A p \in 1 .. n : list[p] \in Nat
  OBVIOUS
<1> HIDE DEF C, n, more, l, b, c
<1>8. cur2 \in Nat /\ lst2 \in Nat /\ cur2 <= b /\ lst2 <= b
  BY <1>4, <1>5, <1>7
<1>9. ASSUME NEW p \in 1 .. n + 1, p > n + 1 - l PROVE more[p] <= cur2
  <2>1. l = k + 1 /\ l # 0 /\ p > n - k
    BY <1>1, <1>3, <1>9
  <2>2. CASE p = n + 1
    BY <1>2, <1>7, <2>1, <2>2
  <2>3. CASE p # n + 1
    <3>1. p \in 1 .. n
      BY <1>1, <2>3
    <3>2. more[p] = list[p] /\ list[p] <= cur /\ list[p] \in Nat
      BY <1>2, <1>4, <1>e, <2>1, <3>1
    <3> QED
      BY <1>4, <1>7, <2>1, <3>2
  <2> QED
    BY <2>2, <2>3
<1>10. ASSUME NEW p \in 1 .. n + 1, p <= n + 1 - l, p > n + 1 - l - C PROVE more[p] <= lst2
  <2>1. CASE l = 0
    <3>1. k + 1 = C /\ p > n - k
      BY <1>1, <1>3, <1>10, <2>1
    <3>2. CASE p = n + 1
      BY <1>2, <1>7, <2>1, <3>2
    <3>3. CASE p # n + 1
      <4>1. p \in 1 .. n
        BY <1>1, <3>3
      <4>2. more[p] = list[p] /\ list[p] <= cur /\ list[p] \in Nat
        BY <1>2, <1>4, <1>e, <3>1, <4>1
      <4> QED
        BY <1>4, <1>7, <2>1, <4>2
    <3> QED
      BY <3>2, <3>3
  <2>2. CASE l # 0
    <3>1. l = k + 1 /\ p <= n - k /\ p > n - k - C /\ p \in 1 .. n
      BY <1>1, <1>3, <1>10, <2>2
    <3>2. more[p] = list[p] /\ list[p] <= lst
      BY <1>2, <1>4, <3>1
    <3> QED
      BY <2>2, <3>2
  <2> QED
    BY <2>1, <2>2
<1>l. l \in Nat
  BY <1>1, <1>3
<1>11. /\ \A p \in 1 .. Len(more) : p > Len(more) - l => more[p] <= cur2
       /\ \A p \in 1 .. Len(more) : p <= Len(more) - l /\ p > Len(more) - l - C => more[p] <= lst2
  <2>1. ASSUME NEW p \in 1 .. Len(more), p > Len(more) - l PROVE more[p] <= cur2
    <3>1. p \in 1 .. n + 1 /\ p > n + 1 - l
      BY <1>1, <1>2, <1>l, <2>1
    <3> QED
      BY <1>9, <3>1
  <2>2. ASSUME NEW p \in 1 .. Len(more), p <= Len(more) - l, p > Len(more) - l - C PROVE more[p] <= lst2
    <3>1. p \in 1 .. n + 1 /\ p <= n + 1 - l /\ p > n + 1 - l - C
      BY <1>1, <1>2, <1>l, <2>2
    <3> QED
      BY <1>10, <3>1
  <2> QED
    BY <2>1, <2>2
<1>12. MaximaTell(b, cur2, lst2, l, more)
  <2> HIDE DEF cur2, lst2
  <2> QED
    BY <1>6, <1>8, <1>11 DEF MaximaTell, C
<1> QED
  BY <1>12 DEF cur2, lst2, b, c, l, more

\* The table is taken for full when its last slot is not zero.
AverageTells(average, total, table, list) ==
    list # << >> /\ (Len(list) < AVG_DIFF_COUNT \/ table[AVG_DIFF_COUNT - 1] # 0)
      => average = total \div Len(WindowOf(list))

LEMMA AverageMoves ==
    ASSUME NEW list \in Seq(Nat), NEW d \in Nat, NEW t, NEW l, TableTells(t, l, Append(list, d)),
           NEW average, NEW total, NEW average2,
           t[AVG_DIFF_COUNT - 1] # 0 => average2 = total \div AVG_DIFF_COUNT,
           t[AVG_DIFF_COUNT - 1] = 0 /\ l # 0 => average2 = total \div l
    PROVE  AverageTells(average2, total, t, Append(list, d))
<1> DEFINE C == AVG_DIFF_COUNT
           n == Len(list)
           more == Append(list, d)
<1>1. C \in Nat \ {0} /\ n \in Nat
  BY TimerAssumption
<1>2. more \in Seq(Nat) /\ Len(more) = n + 1
  OBVIOUS
<1> HIDE DEF more
<1>3. l \in 0 .. C - 1 /\ l <= n + 1 /\ (n + 1 < C => l = n + 1)
      /\ \A i \in 0 .. C - 1 : t[i] = At(more, Holds(n + 1, l, i))
  BY <1>2 DEF TableTells, Timer!Slots, more
<1>4. Len(WindowOf(more)) = IF n + 1 < C THEN n + 1 ELSE C
  BY <1>2, WindowHolds
<1>5. CASE n + 1 < C
  <2>1. l = n + 1 /\ l # 0
    BY <1>1, <1>3, <1>5
  <2>2. C - 1 \in 0 .. C - 1 /\ Holds(n + 1, l, C - 1) = 0
    BY <1>1, <1>5, <2>1 DEF Holds
  <2>3. At(more, 0) = 0
    BY DEF At
  <2>4. t[C - 1] = 0
    BY <1>3, <2>2, <2>3
  <2>5. average2 = total \div l
    BY <2>1, <2>4
  <2>6. Len(WindowOf(more)) = l
    BY <1>4, <1>5, <2>1
  <2> QED
    BY <2>5, <2>6 DEF AverageTells, more
<1>6. CASE ~(n + 1 < C)
  <2>1. Len(WindowOf(more)) = C
    BY <1>4, <1>6
  <2> QED
    BY <1>2, <1>6, <2>1 DEF AverageTells, more
<1> QED
  BY <1>5, <1>6

StatsTell(s, list) ==
    /\ TableTells(s.table, s.index, list) /\ TotalTells(s.total, s.table, list)
    /\ MaximaTell(s.max, s.maxOfCurrent, s.maxOfLast, s.index, list)
    /\ AverageTells(s.average, s.total, s.table, list)

LEMMA StatsMove ==
    ASSUME NEW list \in Seq(Nat), NEW d \in Nat, NEW s, StatsTell(s, list)
    PROVE  StatsTell(Timer!UpdateWithDiff(s, d), Append(list, d))
<1> DEFINE u == Timer!UpdateWithDiff(s, d)
           more == Append(list, d)
           C == AVG_DIFF_COUNT
<1>1. /\ TableTells(s.table, s.index, list) /\ TotalTells(s.total, s.table, list)
      /\ MaximaTell(s.max, s.maxOfCurrent, s.maxOfLast, s.index, list)
  BY DEF StatsTell
<1>2. s.index \in Timer!Slots
  BY <1>1 DEF TableTells
<1>3. (s.index + 1) % C = NextSlot(s.index)
  BY <1>2, SlotsFollow
<1>4. /\ u.table = [s.table EXCEPT ![s.index] = d]
      /\ u.total = (s.total - s.table[s.index] + d) % WordSize
      /\ u.index = (s.index + 1) % C
      /\ u.max = Timer!Larger(s.max, d)
      /\ u.maxOfCurrent = IF (s.index + 1) % C = 0 THEN 0 ELSE Timer!Larger(s.maxOfCurrent, d)
      /\ u.maxOfLast = IF (s.index + 1) % C = 0 THEN Timer!Larger(s.maxOfCurrent, d) ELSE s.maxOfLast
  BY DEF Timer!UpdateWithDiff
<1>5. u.average = CASE u.table[C - 1] # 0 -> u.total \div C
                    [] u.table[C - 1] = 0 /\ u.index # 0 -> u.total \div u.index
                    [] OTHER -> s.average
  BY DEF Timer!UpdateWithDiff
<1> HIDE DEF u
<1>6. TableTells(u.table, u.index, more)
  <2> DEFINE table == s.table
             k == s.index
  <2>1. TableTells(table, k, list)
    BY <1>1
  <2>2. u.table = [table EXCEPT ![k] = d] /\ u.index = NextSlot(k)
    BY <1>3, <1>4
  <2> HIDE DEF table, k
  <2>3. TableTells([table EXCEPT ![k] = d], NextSlot(k), Append(list, d))
    BY ONLY <2>1, list \in Seq(Nat), d \in Nat, TableMoves
  <2> QED
    BY <2>2, <2>3
<1>7. TotalTells(u.total, u.table, more)
  <2> DEFINE table == s.table
             k == s.index
             total == s.total
  <2>1. TableTells(table, k, list) /\ TotalTells(total, table, list)
    BY <1>1
  <2>2. u.table = [table EXCEPT ![k] = d] /\ u.total = (total - table[k] + d) % WordSize
    BY <1>4
  <2> HIDE DEF table, k, total
  <2>3. TotalTells((total - table[k] + d) % WordSize, [table EXCEPT ![k] = d], Append(list, d))
    BY ONLY <2>1, list \in Seq(Nat), d \in Nat, TotalMoves
  <2> QED
    BY <2>2, <2>3
<1>8. MaximaTell(u.max, u.maxOfCurrent, u.maxOfLast, u.index, more)
  <2> DEFINE k == s.index
             cur == s.maxOfCurrent
             lst == s.maxOfLast
             max == s.max
  <2>1. k \in Timer!Slots /\ MaximaTell(max, cur, lst, k, list)
    BY <1>1, <1>2
  <2>2. /\ u.index = NextSlot(k) /\ u.max = Timer!Larger(max, d)
        /\ u.maxOfCurrent = IF NextSlot(k) = 0 THEN 0 ELSE Timer!Larger(cur, d)
        /\ u.maxOfLast = IF NextSlot(k) = 0 THEN Timer!Larger(cur, d) ELSE lst
    BY <1>3, <1>4
  <2> HIDE DEF k, cur, lst, max
  <2>3. MaximaTell(Timer!Larger(max, d),
                   IF NextSlot(k) = 0 THEN 0 ELSE Timer!Larger(cur, d),
                   IF NextSlot(k) = 0 THEN Timer!Larger(cur, d) ELSE lst,
                   NextSlot(k), more)
    BY ONLY <2>1, list \in Seq(Nat), d \in Nat, MaximaMove DEF more
  <2> QED
    BY <2>2, <2>3
<1>9. AverageTells(u.average, u.total, u.table, more)
  <2>1. u.table[C - 1] # 0 => u.average = u.total \div C
    BY <1>5
  <2>2. u.table[C - 1] = 0 /\ u.index # 0 => u.average = u.total \div u.index
    BY <1>5
  <2> QED
    BY <1>6, <2>1, <2>2, AverageMoves
<1> QED
  BY <1>6, <1>7, <1>8, <1>9 DEF StatsTell, u

-----------------------------------------------------------------------------
(***************************************************************************)
(* Timers: the weighted average                                            *)
(***************************************************************************)
SquaresOf(table, f) ==
    f = [i \in 0 .. AVG_DIFF_COUNT |->
           IF i = 0 THEN 0 ELSE (f[i - 1] + table[i - 1] * table[i - 1]) % WordSize]
Squares(table) == CHOOSE f : SquaresOf(table, f)
WeightsOf(table, f) ==
    f = [i \in 0 .. AVG_DIFF_COUNT |-> IF i = 0 THEN 0 ELSE (f[i - 1] + table[i - 1]) % WordSize]
Weights(table) == CHOOSE f : WeightsOf(table, f)

LEMMA SquaresGrow ==
    ASSUME NEW table \in [Timer!Slots -> Nat]
    PROVE  /\ Squares(table)[0] = 0
           /\ \A i \in 1 .. AVG_DIFF_COUNT :
                Squares(table)[i] = (Squares(table)[i - 1] + table[i - 1] * table[i - 1]) % WordSize
<1> DEFINE n == AVG_DIFF_COUNT
           D == [p \in (1 .. n) \X Nat |-> (p[2] + table[p[1] - 1] * table[p[1] - 1]) % WordSize]
           r == Squares(table)
<1>0. n \in Nat /\ WordSize \in Nat \ {0} /\ \A i \in 1 .. n : table[i - 1] \in Nat
  BY TimerAssumption DEF Timer!Slots
<1>a. ASSUME NEW i \in 1 .. n, NEW x \in Nat PROVE (x + table[i - 1] * table[i - 1]) % WordSize \in Nat
  <2> DEFINE y == x + table[i - 1] * table[i - 1]
  <2>1. y \in Int
    BY <1>0
  <2> HIDE DEF y
  <2>2. y % WordSize \in 0 .. WordSize - 1
    BY <1>0, <2>1, Division
  <2> QED
    BY <1>0, <2>2 DEF y
<1>1. D \in [(1 .. n) \X Nat -> Nat]
  <2>1. ASSUME NEW p \in (1 .. n) \X Nat
        PROVE  (p[2] + table[p[1] - 1] * table[p[1] - 1]) % WordSize \in Nat
    BY <1>a
  <2> QED
    BY <2>1
<1>2. PICK f \in [0 .. n -> Nat] : Stepwise(n, 0, D, f)
  <2> HIDE DEF D
  <2> QED
    BY <1>0, <1>1, StepsExist
<1>3. \A i \in 0 .. n : f[i] = IF i = 0 THEN 0 ELSE (f[i - 1] + table[i - 1] * table[i - 1]) % WordSize
  <2> TAKE i \in 0 .. n
  <2>1. CASE i = 0
    BY <1>2, <2>1 DEF Stepwise
  <2>2. CASE i # 0
    <3>1. i \in 1 .. n /\ i - 1 \in 0 .. n
      BY <1>0, <2>2
    <3>2. f[i] = D[<<i, f[i - 1]>>] /\ <<i, f[i - 1]>> \in (1 .. n) \X Nat
      BY <1>2, <3>1 DEF Stepwise
    <3>3. D[<<i, f[i - 1]>>] = (f[i - 1] + table[i - 1] * table[i - 1]) % WordSize
      BY <3>2
    <3> QED
      BY <2>2, <3>2, <3>3
  <2> QED
    BY <2>1, <2>2
<1>4. SquaresOf(table, f)
  BY <1>2, <1>3 DEF SquaresOf
<1>5. SquaresOf(table, r)
  BY <1>4, Zenon DEF Squares
<1> HIDE DEF r
<1>7. \A i \in 0 .. n : r[i] = IF i = 0 THEN 0 ELSE (r[i - 1] + table[i - 1] * table[i - 1]) % WordSize
  BY <1>5, Zenon DEF SquaresOf
<1>8. r[0] = 0
  BY <1>0, <1>7
<1>9. ASSUME NEW i \in 1 .. n PROVE r[i] = (r[i - 1] + table[i - 1] * table[i - 1]) % WordSize
  <2>1. i \in 0 .. n /\ i # 0
    OBVIOUS
  <2> QED
    BY <1>7, <2>1, Zenon
<1> QED
  BY <1>8, <1>9 DEF r

LEMMA WeightsGrow ==
    ASSUME NEW table \in [Timer!Slots -> Nat]
    PROVE  /\ Weights(table)[0] = 0
           /\ \A i \in 1 .. AVG_DIFF_COUNT :
                Weights(table)[i] = (Weights(table)[i - 1] + table[i - 1]) % WordSize
<1> DEFINE n == AVG_DIFF_COUNT
           D == [p \in (1 .. n) \X Nat |-> (p[2] + table[p[1] - 1]) % WordSize]
           r == Weights(table)
<1>0. n \in Nat /\ WordSize \in Nat \ {0} /\ \A i \in 1 .. n : table[i - 1] \in Nat
  BY TimerAssumption DEF Timer!Slots
<1>a. ASSUME NEW i \in 1 .. n, NEW x \in Nat PROVE (x + table[i - 1]) % WordSize \in Nat
  <2> DEFINE y == x + table[i - 1]
  <2>1. y \in Int
    BY <1>0
  <2> HIDE DEF y
  <2>2. y % WordSize \in 0 .. WordSize - 1
    BY <1>0, <2>1, Division
  <2> QED
    BY <1>0, <2>2 DEF y
<1>1. D \in [(1 .. n) \X Nat -> Nat]
  <2>1. ASSUME NEW p \in (1 .. n) \X Nat PROVE (p[2] + table[p[1] - 1]) % WordSize \in Nat
    BY <1>a
  <2> QED
    BY <2>1
<1>2. PICK f \in [0 .. n -> Nat] : Stepwise(n, 0, D, f)
  <2> HIDE DEF D
  <2> QED
    BY <1>0, <1>1, StepsExist
<1>3. \A i \in 0 .. n : f[i] = IF i = 0 THEN 0 ELSE (f[i - 1] + table[i - 1]) % WordSize
  <2> TAKE i \in 0 .. n
  <2>1. CASE i = 0
    BY <1>2, <2>1 DEF Stepwise
  <2>2. CASE i # 0
    <3>1. i \in 1 .. n /\ i - 1 \in 0 .. n
      BY <1>0, <2>2
    <3>2. f[i] = D[<<i, f[i - 1]>>] /\ <<i, f[i - 1]>> \in (1 .. n) \X Nat
      BY <1>2, <3>1 DEF Stepwise
    <3>3. D[<<i, f[i - 1]>>] = (f[i - 1] + table[i - 1]) % WordSize
      BY <3>2
    <3> QED
      BY <2>2, <3>2, <3>3
  <2> QED
    BY <2>1, <2>2
<1>4. WeightsOf(table, f)
  BY <1>2, <1>3 DEF WeightsOf
<1>5. WeightsOf(table, r)
  BY <1>4, Zenon DEF Weights
<1> HIDE DEF r
<1>7. \A i \in 0 .. n : r[i] = IF i = 0 THEN 0 ELSE (r[i - 1] + table[i - 1]) % WordSize
  BY <1>5, Zenon DEF WeightsOf
<1>8. r[0] = 0
  BY <1>0, <1>7
<1>9. ASSUME NEW i \in 1 .. n PROVE r[i] = (r[i - 1] + table[i - 1]) % WordSize
  <2>1. i \in 0 .. n /\ i # 0
    OBVIOUS
  <2> QED
    BY <1>7, <2>1, Zenon
<1> QED
  BY <1>8, <1>9 DEF r

\* Bounds of squares.
LEMMA SquareBounds ==
    ASSUME NEW t \in Nat, NEW M \in Nat, t <= M, NEW q \in Nat
    PROVE  /\ t * t \in Nat /\ t * t <= M * M /\ t <= t * t /\ t * t <= M * t
           /\ t * t + q * q >= 2 * (q * t)
<1>1. t * t \in Nat /\ t <= t * t
  <2>1. t = 0 => t * t = 0
    OBVIOUS
  <2>2. t # 0 => t * t >= t
    OBVIOUS
  <2> QED
    BY <2>1, <2>2
<1>2. t * t <= M * t /\ M * t <= M * M
  <2> DEFINE e == M - t
  <2>1. e \in Nat /\ e * t \in Nat /\ M * t = t * t + e * t
    OBVIOUS
  <2>2. M * e \in Nat /\ M * M = M * t + M * e
    BY <2>1
  <2> DEFINE x == t * t
             y == M * t
             z == M * M
             u == e * t
             v == M * e
  <2>3. x \in Int /\ y \in Int /\ z \in Int /\ u \in Nat /\ v \in Nat /\ y = x + u /\ z = y + v
    BY <2>1, <2>2
  <2> HIDE DEF x, y, z, u, v
  <2>4. x <= y /\ y <= z
    BY <2>3
  <2> QED
    BY <2>4 DEF x, y, z
<1>3. t * t <= M * M
  <2> DEFINE x == t * t
             y == M * t
             z == M * M
  <2>1. x \in Int /\ y \in Int /\ z \in Int /\ x <= y /\ y <= z
    BY <1>2
  <2> HIDE DEF x, y, z
  <2>2. x <= z
    BY <2>1
  <2> QED
    BY <2>2 DEF x, z
<1>4. t * t + q * q >= 2 * (q * t)
  <2> DEFINE e == t - q
  <2>1. e * e >= 0 /\ e * e = t * t + q * q - 2 * (q * t)
    OBVIOUS
  <2> DEFINE w == e * e
             x == t * t
             y == q * q
             z == q * t
  <2>2. w >= 0 /\ w = x + y - 2 * z /\ w \in Int /\ x \in Int /\ y \in Int /\ z \in Int
    BY <2>1
  <2> HIDE DEF w, x, y, z
  <2>3. x + y >= 2 * z
    BY <2>2
  <2> QED
    BY <2>3 DEF x, y, z
<1> QED
  BY <1>1, <1>2, <1>3, <1>4

LEMMA SmallRest ==
    ASSUME NEW a \in Nat, a < WordSize
    PROVE  a % WordSize = a
<1>1. WordSize \in Nat \ {0} /\ a \in 0 .. WordSize - 1 /\ 0 \in Int
  BY TimerAssumption
<1>2. (WordSize * 0 + a) % WordSize = a
  BY <1>1, DivisionIsUnique
<1>3. WordSize * 0 + a = a
  BY <1>1
<1> QED
  BY <1>2, <1>3

\* Of i slots up to M: the sum w and the sum z of their squares.
Bounded(i, M, q, w, z) ==
    /\ w \in Nat /\ z \in Nat /\ w <= z /\ z <= i * (M * M) /\ z <= M * w
    /\ z + i * (q * q) >= 2 * (q * w)

\* One slot more keeps the sums in their bounds, and so from wrapping.
LEMMA SlotAdds ==
    ASSUME NEW C \in Nat, NEW M \in Nat, NEW q \in Nat, NEW i \in 1 .. C, C * (M * M) < WordSize,
           NEW t \in Nat, t <= M, NEW w, NEW z, Bounded(i - 1, M, q, w, z)
    PROVE  Bounded(i, M, q, w + t, z + t * t) /\ z + t * t < WordSize
<1>0. /\ w \in Nat /\ z \in Nat
      /\ w <= z /\ z <= (i - 1) * (M * M) /\ z <= M * w /\ z + (i - 1) * (q * q) >= 2 * (q * w)
  BY DEF Bounded
<1>1. /\ t * t \in Nat /\ t * t <= M * M /\ t <= t * t /\ t * t <= M * t
      /\ t * t + q * q >= 2 * (q * t)
  BY SquareBounds
<1>w. WordSize \in Nat
  BY TimerAssumption
<1> DEFINE s == t * t
           m == M * M
           k == q * q
           h == i - 1
           hm == h * m
           hk == h * k
           im == i * m
           ik == i * k
           cm == C * m
           j == C - i
           jm == j * m
           mw == M * w
           mt == M * t
           mv == M * (w + t)
           qw == q * w
           qt == q * t
           qv == q * (w + t)
<1>2. m \in Nat /\ k \in Nat
  OBVIOUS
<1>3. h \in Nat /\ j \in Nat /\ i = h + 1 /\ C = i + j
  OBVIOUS
<1> HIDE DEF m, k, h, j
<1>4. im \in Nat /\ hm \in Nat /\ im = hm + m
  BY <1>2, <1>3
<1>5. ik \in Nat /\ hk \in Nat /\ ik = hk + k
  BY <1>2, <1>3
<1>6. cm \in Nat /\ jm \in Nat /\ cm = im + jm
  BY <1>2, <1>3
<1>7. mw \in Nat /\ mt \in Nat /\ mv = mw + mt
  BY <1>0
<1>8. qw \in Nat /\ qt \in Nat /\ qv = qw + qt
  BY <1>0
<1>9. s \in Nat /\ s <= m /\ t <= s /\ s <= mt /\ s + k >= 2 * qt
  BY <1>1 DEF m, k
<1>10. z <= hm /\ z <= mw /\ z + hk >= 2 * qw /\ cm < WordSize
  BY <1>0 DEF m, k, h
<1> HIDE DEF s, hm, hk, im, ik, cm, jm, mw, mt, mv, qw, qt, qv
<1>11. /\ w + t \in Nat /\ z + s \in Nat /\ w + t <= z + s /\ z + s < WordSize /\ z + s <= im /\ z + s <= mv /\ z + s + ik >= 2 * qv
  BY <1>0, <1>w, <1>2, <1>4, <1>5, <1>6, <1>7, <1>8, <1>9, <1>10
<1> QED
  BY <1>11 DEF Bounded, s, im, mv, ik, qv, m, k

\* While the squares fit a word, the weighted average is between the average and the maximum.
LEMMA WeightedAverage ==
    ASSUME NEW table \in [Timer!Slots -> Nat], NEW M \in Nat, \A i \in Timer!Slots : table[i] <= M,
           AVG_DIFF_COUNT * (M * M) < WordSize,
           NEW total, total = Timer!Sum(Listed(table)) % WordSize,
           NEW s, s.table = table
    PROVE  Timer!GetTimeWeightedAverageUpdateTime(s) \in total \div AVG_DIFF_COUNT .. M
<1> DEFINE C == AVG_DIFF_COUNT
           list == Listed(table)
           v == Added(list)
           w == Weights(table)
           z == Squares(table)
           q == total \div C
<1>1. C \in Nat \ {0} /\ WordSize \in Nat \ {0} /\ C \in 0 .. C
  BY TimerAssumption
<1>2. list \in Seq(Nat) /\ Len(list) = C /\ \A i \in 1 .. C : list[i] = table[i - 1]
  BY ListedTable
<1>3. Timer!Sum(list) = v[C] /\ v[0] = 0 /\ \A i \in 1 .. C : v[i] = v[i - 1] + list[i]
  <2> HIDE DEF list
  <2>1. /\ Timer!Sum(list) = v[Len(list)] /\ v[0] = 0
        /\ \A i \in 1 .. Len(list) : v[i] = v[i - 1] + list[i]
    BY <1>2, SumGrows
  <2> QED
    BY <1>2, <2>1
<1>4. w[0] = 0 /\ \A i \in 1 .. C : w[i] = (w[i - 1] + table[i - 1]) % WordSize
  BY WeightsGrow
<1>5. z[0] = 0 /\ \A i \in 1 .. C : z[i] = (z[i - 1] + table[i - 1] * table[i - 1]) % WordSize
  BY SquaresGrow
<1>6. Timer!GetTimeWeightedAverageUpdateTime(s) = IF w[C] = 0 THEN 0 ELSE z[C] \div w[C]
  <2>1. Timer!GetTimeWeightedAverageUpdateTime(s) =
          IF Weights(s.table)[AVG_DIFF_COUNT] = 0 THEN 0
          ELSE Squares(s.table)[AVG_DIFF_COUNT] \div Weights(s.table)[AVG_DIFF_COUNT]
    BY Zenon DEF Timer!GetTimeWeightedAverageUpdateTime, Squares, SquaresOf, Weights, WeightsOf
  <2> QED
    BY <2>1
<1>7. total \in Nat /\ q \in Nat
  <2> DEFINE S == Timer!Sum(list)
  <2>1. S \in Int
    BY <1>2, SumIsNatural
  <2> HIDE DEF S
  <2>2. S % WordSize \in 0 .. WordSize - 1
    BY <1>1, <2>1, Division
  <2>3. total \in Nat
    BY <1>1, <2>2 DEF S
  <2>4. total \in Int
    BY <2>3
  <2> QED
    BY <1>1, <2>3, <2>4, Division
<1>8. \A i \in 1 .. C : table[i - 1] \in Nat /\ table[i - 1] <= M
  <2> TAKE i \in 1 .. C
  <2>1. i - 1 \in Timer!Slots
    BY <1>1 DEF Timer!Slots
  <2> QED
    BY <2>1
<1>9. C * (M * M) < WordSize
  OBVIOUS
<1> HIDE DEF C, v, w, z, q
<1> DEFINE P == {i \in 0 .. C : w[i] = v[i] /\ Bounded(i, M, q, w[i], z[i]) /\ (i # 0 => z[i] < WordSize)}
<1>10. 0 \in P
  <2>1. 0 * (M * M) = 0 /\ M * 0 = 0 /\ 0 * (q * q) = 0 /\ 2 * (q * 0) = 0
    BY <1>7
  <2> QED
    BY <1>1, <1>3, <1>4, <1>5, <2>1 DEF Bounded
<1>11. ASSUME NEW i \in 1 .. C, i - 1 \in P PROVE i \in P
  <2> DEFINE t == table[i - 1]
             a == w[i - 1]
             b == z[i - 1]
  <2>1. t \in Nat /\ t <= M
    BY <1>8
  <2>2. a = v[i - 1] /\ Bounded(i - 1, M, q, a, b) /\ a \in Nat /\ b \in Nat
    BY <1>11 DEF Bounded
  <2>3. w[i] = (a + t) % WordSize /\ z[i] = (b + t * t) % WordSize /\ v[i] = v[i - 1] + t
    BY <1>2, <1>3, <1>4, <1>5 DEF C
  <2> HIDE DEF t, a, b
  <2>4. Bounded(i, M, q, a + t, b + t * t) /\ b + t * t < WordSize
    <3>1. C \in Nat
      BY <1>1
    <3> QED
      BY ONLY <1>7, <1>9, <2>1, <2>2, <3>1, i \in 1 .. C, M \in Nat, SlotAdds
  <2>5. a + t \in Nat /\ b + t * t \in Nat /\ a + t < WordSize
    <3>1. t * t \in Nat
      BY <2>1
    <3> DEFINE x == t * t
    <3> HIDE DEF x
    <3>2. x \in Nat /\ a + t <= b + x /\ b + x < WordSize
      BY <2>4, <3>1 DEF Bounded, x
    <3>3. a + t \in Nat /\ b + x \in Nat /\ a + t < WordSize
      BY <1>1, <2>1, <2>2, <3>2
    <3> QED
      BY <3>3 DEF x
  <2>6. w[i] = a + t
    BY <2>3, <2>5, SmallRest
  <2>7. z[i] = b + t * t
    <3>1. b + t * t < WordSize
      BY <2>4
    <3>2. (b + t * t) % WordSize = b + t * t
      BY <2>5, <3>1, SmallRest
    <3> QED
      BY <2>3, <3>2
  <2>8. v[i] = a + t
    BY <2>2, <2>3
  <2>9. i \in 0 .. C
    BY <1>1
  <2> DEFINE x == b + t * t
             y == a + t
  <2> HIDE DEF x, y
  <2>10. /\ w[i] = y /\ z[i] = x /\ v[i] = y /\ y \in Nat /\ x \in Nat
    BY <2>5, <2>6, <2>7, <2>8 DEF x, y
  <2>11. Bounded(i, M, q, y, x) /\ x < WordSize
    BY <2>4 DEF x, y
  <2> QED
    BY <2>9, <2>10, <2>11
<1>12. \A i \in 0 .. C : i \in P
  <2>1. C \in Nat
    BY <1>1
  <2> HIDE DEF P
  <2> QED
    BY <2>1, <1>10, <1>11, Climb
<1> DEFINE S == w[C]
           Q == z[C]
<1>13. /\ S = v[C] /\ S \in Nat /\ Q \in Nat /\ S <= Q /\ Q <= M * S
       /\ Q + C * (q * q) >= 2 * (q * S) /\ Q < WordSize
  <2>1. C \in P /\ C # 0
    BY <1>1, <1>12
  <2> QED
    BY <2>1 DEF Bounded
<1>14. total = S
  <2>1. total = S % WordSize
    BY <1>3, <1>13 DEF list
  <2>2. S < WordSize
    BY <1>1, <1>13
  <2> QED
    BY <1>13, <2>1, <2>2, SmallRest
<1> HIDE DEF S, Q
<1>15. q = S \div C
  BY <1>14 DEF q
<1>16. CASE S = 0
  <2>1. 0 \div C = 0
    BY <1>1, ZeroDivides
  <2>2. q = 0
    BY <1>15, <1>16, <2>1
  <2>3. Timer!GetTimeWeightedAverageUpdateTime(s) = 0
    BY <1>6, <1>16 DEF S
  <2> QED
    BY <2>2, <2>3 DEF q, C
<1>17. CASE S # 0
  <2>1. S \in Nat \ {0} /\ S \in Int
    BY <1>13, <1>17
  <2>2. Timer!GetTimeWeightedAverageUpdateTime(s) = Q \div S
    BY <1>6, <1>17 DEF S, Q
  <2>3. Q \div S <= M
    <3>1. M * S \in Nat
      BY <1>13
    <3>2. Q \div S <= (M * S) \div S
      BY <1>13, <2>1, <3>1, DivisionGrows
    <3>3. (S * M + 0) \div S = M
      <4>1. M \in Int /\ 0 \in 0 .. S - 1
        BY <2>1
      <4> QED
        BY <2>1, <4>1, DivisionIsUnique
    <3>4. S * M + 0 = M * S
      BY <2>1
    <3> QED
      BY <3>2, <3>3, <3>4
  <2>4. q <= Q \div S
    <3>1. S % C \in 0 .. C - 1 /\ S = C * (S \div C) + (S % C)
      BY <1>1, <2>1, Division
    <3>2. C * q <= S
      <4> DEFINE x == C * q
                 y == S % C
      <4>1. x \in Int /\ y \in Nat /\ S = x + y
        BY <1>1, <1>7, <1>15, <3>1
      <4> HIDE DEF x, y
      <4>2. x <= S
        BY <4>1
      <4> QED
        BY <4>2 DEF x
    <3>3. C * (q * q) <= q * S
      <4> DEFINE e == S - C * q
      <4>1. e \in Nat
        BY <1>1, <1>7, <2>1, <3>2
      <4>2. q * S = C * (q * q) + q * e
        BY <1>1, <1>7, <2>1
      <4> HIDE DEF e
      <4>3. q * e \in Nat
        BY <1>7, <4>1
      <4> DEFINE x == C * (q * q)
                 y == q * S
                 u == q * e
      <4>4. x \in Int /\ y \in Int
        BY <1>1, <1>7, <2>1
      <4> HIDE DEF x, y, u
      <4>5. y = x + u /\ u \in Nat
        BY <4>2, <4>3 DEF x, y, u
      <4>6. x <= y
        BY <4>4, <4>5
      <4> QED
        BY <4>6 DEF x, y
    <3>4. q * S <= Q
      <4> DEFINE x == C * (q * q)
                 y == q * S
      <4>1. x \in Int /\ y \in Int
        BY <1>1, <1>7, <2>1
      <4>2. x <= y /\ Q + x >= 2 * y
        BY <1>13, <3>3
      <4> HIDE DEF x, y
      <4>3. y <= Q
        BY <1>13, <4>1, <4>2
      <4> QED
        BY <4>3 DEF y
    <3> QED
      BY <1>7, <1>13, <2>1, <3>4, WholeIsMost
  <2>5. Q \div S \in Int
    <3>1. Q \in Int
      BY <1>13
    <3> QED
      BY <2>1, <3>1, Division
  <2> QED
    BY <1>7, <2>2, <2>3, <2>4, <2>5 DEF q, C
<1> QED
  BY <1>16, <1>17

LEMMA StatsBegin == StatsTell(Timer!NewStats, << >>)
<1> DEFINE C == AVG_DIFF_COUNT
           z == [i \in Timer!Slots |-> 0]
<1>1. C \in Nat \ {0} /\ WordSize \in Nat \ {0}
  BY TimerAssumption
<1>2. << >> \in Seq(Nat) /\ Len(<< >>) = 0
  OBVIOUS
<1>3. TableTells(z, 0, << >>)
  <2>1. ASSUME NEW i \in Timer!Slots PROVE z[i] = At(<< >>, Holds(Len(<< >>), 0, i))
    BY <1>2 DEF At
  <2>2. 0 \in Timer!Slots
    BY <1>1 DEF Timer!Slots
  <2>3. z \in [Timer!Slots -> Nat]
    OBVIOUS
  <2> HIDE DEF z
  <2>4. 0 <= Len(<< >>) /\ 0 = Len(<< >>)
    BY <1>2
  <2> QED
    BY <2>1, <2>2, <2>3, <2>4 DEF TableTells
<1>4. TotalTells(0, z, << >>)
  <2>1. WindowOf(<< >>) = << >>
    <3>1. WindowOf(<< >>) \in Seq(Nat) /\ Len(WindowOf(<< >>)) = 0
      <4> DEFINE e == << >>
                 w == WindowOf(e)
      <4>1. e \in Seq(Nat) /\ Len(e) = 0 /\ 0 < AVG_DIFF_COUNT
        BY <1>1, <1>2
      <4> HIDE DEF e, w
      <4>2. w \in Seq(Nat) /\ Len(w) = IF Len(e) < AVG_DIFF_COUNT THEN Len(e) ELSE AVG_DIFF_COUNT
        BY <4>1, WindowHolds DEF w
      <4>3. w \in Seq(Nat) /\ Len(w) = 0
        BY <4>1, <4>2
      <4> QED
        BY <4>3 DEF w, e
    <3> QED
      BY <3>1
  <2>2. Timer!Sum(Listed(z)) = 0
    <3> DEFINE l == Listed(z)
               r == Added(l)
    <3>1. z \in [Timer!Slots -> Nat] /\ \A i \in Timer!Slots : z[i] = 0
      OBVIOUS
    <3> HIDE DEF z
    <3>2. l \in Seq(Nat) /\ Len(l) = C /\ \A i \in 1 .. C : l[i] = 0
      BY <3>1, ListedTable
    <3> HIDE DEF l
    <3>3. Timer!Sum(l) = r[C] /\ r[0] = 0 /\ \A i \in 1 .. C : r[i] = r[i - 1] + l[i]
      <4>1. /\ Timer!Sum(l) = r[Len(l)] /\ r[0] = 0 /\ \A i \in 1 .. Len(l) : r[i] = r[i - 1] + l[i]
        BY <3>2, SumGrows
      <4> QED
        BY <3>2, <4>1
    <3> HIDE DEF r, C
    <3> DEFINE P == {i \in 0 .. C : r[i] = 0}
    <3>4. 0 \in P
      BY <1>1, <3>3
    <3>5. ASSUME NEW i \in 1 .. C, i - 1 \in P PROVE i \in P
      BY <1>1, <3>2, <3>3, <3>5
    <3>6. \A i \in 0 .. C : i \in P
      <4>1. C \in Nat
        BY <1>1
      <4> HIDE DEF P
      <4> QED
        BY <4>1, <3>4, <3>5, Climb
    <3>7. r[C] = 0
      BY <1>1, <3>6
    <3> QED
      BY <3>3, <3>7 DEF l
  <2>3. 0 % WordSize = 0
    BY <1>1, ZeroDivides
  <2> QED
    BY <2>1, <2>2, <2>3, SumOfNone DEF TotalTells
<1>5. MaximaTell(0, 0, 0, 0, << >>)
  <2>1. Timer!Maximum(<< >>) = 0
    BY <1>2, MaximumGrows
  <2>2. 1 .. Len(<< >>) = {}
    BY <1>2
  <2> QED
    BY <2>1, <2>2 DEF MaximaTell
<1>6. AverageTells(0, 0, z, << >>)
  BY DEF AverageTells
<1>7. /\ Timer!NewStats.table = z /\ Timer!NewStats.index = 0 /\ Timer!NewStats.total = 0
      /\ Timer!NewStats.average = 0 /\ Timer!NewStats.max = 0 /\ Timer!NewStats.maxOfCurrent = 0
      /\ Timer!NewStats.maxOfLast = 0
  BY DEF Timer!NewStats
<1> HIDE DEF z
<1> QED
  BY <1>3, <1>4, <1>5, <1>6, <1>7 DEF StatsTell

LEMMA StatsRight ==
    ASSUME diffs \in Seq(Nat), StatsTell(stats, diffs)
    PROVE  Timer!StatisticsOfWindow
<1> DEFINE n == Len(diffs)
           C == AVG_DIFF_COUNT
           m == IF n < C THEN n ELSE C
           w == WindowOf(diffs)
           k == stats.index
           M == Timer!Maximum(w)
<1>1. C \in Nat \ {0} /\ n \in Nat /\ WordSize \in Nat \ {0}
  BY TimerAssumption
<1>2. Timer!Window = w
  BY DEF Timer!Window, WindowOf
<1>3. w \in Seq(Nat) /\ Len(w) = m /\ \A i \in 1 .. m : w[i] = diffs[n - m + i]
  BY WindowHolds
<1>4. /\ TableTells(stats.table, k, diffs) /\ TotalTells(stats.total, stats.table, diffs)
      /\ MaximaTell(stats.max, stats.maxOfCurrent, stats.maxOfLast, k, diffs)
      /\ AverageTells(stats.average, stats.total, stats.table, diffs)
  BY DEF StatsTell
<1>5. /\ stats.table \in [Timer!Slots -> Nat] /\ k \in 0 .. C - 1 /\ k <= n /\ (n < C => k = n)
      /\ \A i \in Timer!Slots : stats.table[i] = At(diffs, Holds(n, k, i))
  BY <1>4 DEF TableTells, Timer!Slots
<1>6. /\ M \in Nat /\ \A i \in 1 .. m : w[i] <= M
      /\ \A u \in Nat : (\A i \in 1 .. m : w[i] <= u) => M <= u
  <2> DEFINE v == w
  <2>1. v \in Seq(Nat) /\ Len(v) = m
    BY <1>3
  <2> HIDE DEF v
  <2>2. /\ Timer!Maximum(v) \in Nat /\ \A i \in 1 .. Len(v) : v[i] <= Timer!Maximum(v)
        /\ \A u \in Nat : (\A i \in 1 .. Len(v) : v[i] <= u) => Timer!Maximum(v) <= u
    BY <2>1, MaximumIsLeast
  <2> QED
    BY <2>1, <2>2 DEF v
<1>7. \A p \in 1 .. n : diffs[p] \in Nat
  OBVIOUS
<1>8. stats.total = Timer!Sum(w) % WordSize /\ stats.total = Timer!Sum(Listed(stats.table)) % WordSize
  BY <1>4 DEF TotalTells
<1>m. m \in Nat /\ m <= n /\ m <= C /\ (n < C => m = n) /\ (~(n < C) => m = C)
  BY <1>1
<1> HIDE DEF w, M, k, m
<1>9. ASSUME diffs # << >> PROVE Timer!GetLastUpdateTime(stats) = Timer!Last(diffs)
  <2> DEFINE i == IF k # 0 THEN k - 1 ELSE C - 1
  <2>1. i \in 0 .. C - 1 /\ Holds(n, k, i) = n
    BY <1>1, <1>5 DEF Holds
  <2>2. Timer!GetLastUpdateTime(stats) = stats.table[i]
    BY DEF Timer!GetLastUpdateTime, k
  <2>3. i \in Timer!Slots
    BY <2>1 DEF Timer!Slots
  <2> HIDE DEF i
  <2>4. stats.table[i] = At(diffs, n)
    BY <1>5, <2>1, <2>3
  <2>5. n \in 1 .. n
    BY <1>9
  <2> QED
    BY <2>2, <2>4, <2>5 DEF At, Timer!Last
<1>10. /\ stats.max = Timer!Maximum(diffs)
       /\ stats.maxOfCurrent \in Nat /\ stats.maxOfLast \in Nat
       /\ stats.maxOfCurrent <= stats.max /\ stats.maxOfLast <= stats.max
       /\ \A p \in 1 .. n : p > n - k => diffs[p] <= stats.maxOfCurrent
       /\ \A p \in 1 .. n : p <= n - k /\ p > n - k - C => diffs[p] <= stats.maxOfLast
  BY <1>4 DEF MaximaTell, k
<1> DEFINE recent == Timer!GetMaxUpdateTimeOfCurrentTable(stats)
<1>11. recent \in Nat /\ stats.maxOfCurrent <= recent /\ stats.maxOfLast <= recent /\ recent <= stats.max
  <2>1. recent = IF stats.maxOfCurrent > stats.maxOfLast THEN stats.maxOfCurrent ELSE stats.maxOfLast
    BY DEF Timer!GetMaxUpdateTimeOfCurrentTable, Timer!Larger
  <2> QED
    BY <1>10, <2>1
<1> HIDE DEF recent
<1>12. M <= recent
  <2>1. ASSUME NEW i \in 1 .. m PROVE w[i] <= recent
    <3> DEFINE p == n - m + i
    <3>1. p \in 1 .. n /\ p > n - k - C
      BY <1>1, <1>5, <1>m
    <3>2. w[i] = diffs[p]
      BY <1>3
    <3> HIDE DEF p
    <3>3. diffs[p] \in Nat
      BY <1>7, <3>1
    <3>4. CASE p > n - k
      <4>1. diffs[p] <= stats.maxOfCurrent
        BY <1>10, <3>1, <3>4
      <4> QED
        BY <1>10, <1>11, <3>2, <3>3, <4>1
    <3>5. CASE ~(p > n - k)
      <4>1. p <= n - k
        BY <1>1, <1>5, <3>1, <3>5
      <4>2. diffs[p] <= stats.maxOfLast
        BY <1>10, <3>1, <4>1
      <4> QED
        BY <1>10, <1>11, <3>2, <3>3, <4>2
    <3> QED
      BY <3>4, <3>5
  <2> QED
    BY <1>6, <1>11, <2>1
<1>13. ASSUME C * M * M < WordSize
       PROVE  Timer!GetTimeWeightedAverageUpdateTime(stats) \in stats.total \div C .. M
  <2>1. C * (M * M) < WordSize
    <3>1. C * M * M = C * (M * M)
      BY <1>1, <1>6
    <3> QED
      BY <1>13, <3>1
  <2>2. ASSUME NEW i \in Timer!Slots PROVE stats.table[i] <= M
    <3> DEFINE p == Holds(n, k, i)
    <3>1. p \in Int /\ p <= n /\ p > n - C
      <4>1. i \in 0 .. C - 1
        BY DEF Timer!Slots
      <4> QED
        BY <1>1, <1>5, <4>1 DEF Holds
    <3>2. stats.table[i] = At(diffs, p)
      BY <1>5
    <3> HIDE DEF p
    <3>3. CASE p \in 1 .. n
      <4> DEFINE j == p - (n - m)
      <4>1. j \in 1 .. m /\ n - m + j = p
        BY <1>1, <1>m, <3>1, <3>3
      <4> HIDE DEF j
      <4>2. w[j] = diffs[p]
        <5>1. w[j] = diffs[n - m + j]
          BY <1>3, <4>1
        <5> QED
          BY <4>1, <5>1
      <4>3. w[j] <= M
        BY <1>6, <4>1
      <4>4. stats.table[i] = diffs[p]
        BY <3>2, <3>3 DEF At
      <4> QED
        BY <4>2, <4>3, <4>4
    <3>4. CASE p \notin 1 .. n
      <4>1. stats.table[i] = 0
        BY <3>2, <3>4 DEF At
      <4> QED
        BY <1>6, <4>1
    <3> QED
      BY <3>3, <3>4
  <2> DEFINE table == stats.table
             total == stats.total
  <2>3. table \in [Timer!Slots -> Nat] /\ (\A i \in Timer!Slots : table[i] <= M)
        /\ total = Timer!Sum(Listed(table)) % WordSize /\ stats.table = table
    BY <1>5, <1>8, <2>2
  <2> HIDE DEF table, total
  <2>4. Timer!GetTimeWeightedAverageUpdateTime(stats) \in total \div AVG_DIFF_COUNT .. M
    BY <1>6, <2>1, <2>3, WeightedAverage
  <2> QED
    BY <2>4 DEF total
<1>14. ASSUME diffs # << >>, n < C \/ stats.table[C - 1] # 0
       PROVE  stats.average = stats.total \div Len(w)
  BY <1>4, <1>14 DEF AverageTells, w
<1> SUFFICES ASSUME diffs # << >>
             PROVE  /\ stats.total = Timer!Sum(w) % WordSize
                    /\ Timer!GetLastUpdateTime(stats) = Timer!Last(diffs)
                    /\ stats.max = Timer!Maximum(diffs) /\ M <= recent /\ recent <= stats.max
                    /\ C * M * M < WordSize =>
                         Timer!GetTimeWeightedAverageUpdateTime(stats) \in stats.total \div C .. M
                    /\ n < C \/ stats.table[C - 1] # 0 => stats.average = stats.total \div Len(w)
  BY <1>2 DEF Timer!StatisticsOfWindow, M, recent, C, n
<1> QED
  BY <1>8, <1>9, <1>10, <1>11, <1>12, <1>13, <1>14

-----------------------------------------------------------------------------
(***************************************************************************)
(* Timers: the text of a duration                                          *)
(***************************************************************************)
LEMMA NestedDivision ==
    ASSUME NEW a \in Int, NEW b \in Nat \ {0}, NEW c \in Nat \ {0}
    PROVE  a \div (b * c) = (a \div b) \div c
<1> DEFINE q == a \div b
           r == a % b
           u == q \div c
           v == q % c
           m == b * c
           s == b * v + r
<1>1. q \in Int /\ r \in 0 .. b - 1 /\ a = b * q + r
  BY Division
<1> HIDE DEF q, r
<1>2. u \in Int /\ v \in 0 .. c - 1 /\ q = c * u + v
  BY <1>1, Division
<1> HIDE DEF u, v
<1>3. m \in Nat \ {0}
  OBVIOUS
<1>4. b * (c * u + v) = m * u + b * v
  BY <1>2
<1>5. s \in 0 .. m - 1
  <2> DEFINE w == c - 1 - v
             x == b * w
             y == b * v
  <2>1. w \in Nat /\ y \in Nat
    BY <1>2
  <2>2. m = y + x + b /\ x \in Nat
    <3>1. b * w \in Nat
      BY <2>1
    <3>2. b * c = b * v + b * w + b
      BY <1>2
    <3> QED
      BY <3>1, <3>2
  <2> HIDE DEF x, y, m
  <2>3. y + r \in 0 .. m - 1
    BY <1>1, <1>3, <2>1, <2>2
  <2> QED
    BY <2>3 DEF y, m
<1>6. (m * u + s) \div m = u
  <2> HIDE DEF m, s
  <2> QED
    BY <1>2, <1>3, <1>5, DivisionIsUnique
<1>7. m * u + s = a
  <2> DEFINE x == m * u
             y == b * v
  <2>1. x \in Int /\ y \in Int
    BY <1>2, <1>3
  <2>2. b * q = x + y
    BY <1>2, <1>4
  <2> DEFINE z == b * q
  <2>3. a = z + r /\ z = x + y
    BY <1>1, <2>2
  <2> HIDE DEF x, y, z
  <2>4. x + (y + r) = a
    BY <1>1, <2>1, <2>3
  <2> QED
    BY <2>4 DEF x, y
<1> QED
  BY <1>6, <1>7 DEF q, u, m

UpOf(f) == f = [k \in 0 .. Len(Radices) |-> IF k = 0 THEN 1 ELSE f[k - 1] * Radices[k]]
Up == CHOOSE f : UpOf(f)

\* Every unit is a multiple of the next one, and the last one is 1.
LEMMA UnitsNest ==
    /\ DOMAIN Timer!Units = 1 .. Len(Radices) + 1 /\ Len(Timer!Units) = Len(Radices) + 1
    /\ \A k \in 1 .. Len(Radices) + 1 : Timer!Units[k] \in Nat \ {0}
    /\ Timer!Units[Len(Radices) + 1] = 1
    /\ \A k \in 2 .. Len(Radices) + 1 :
         /\ Radices[Len(Radices) + 2 - k] \in Nat \ {0}
         /\ Timer!Units[k - 1] = Timer!Units[k] * Radices[Len(Radices) + 2 - k]
<1> DEFINE n == Len(Radices)
           X == Nat \ {0}
           D == [p \in (1 .. n) \X X |-> p[2] * Radices[p[1]]]
           r == Up
<1>0. n \in Nat /\ \A i \in 1 .. n : Radices[i] \in X
  BY TimerAssumption
<1>1. D \in [(1 .. n) \X X -> X]
  <2>1. \A a \in X, b \in X : a * b \in X
    OBVIOUS
  <2> QED
    BY <1>0, <2>1
<1>2. PICK f \in [0 .. n -> X] : Stepwise(n, 1, D, f)
  <2>1. 1 \in X
    OBVIOUS
  <2> HIDE DEF D, X
  <2> QED
    BY <1>0, <1>1, <2>1, StepsExist
<1>3. \A i \in 0 .. n : f[i] = IF i = 0 THEN 1 ELSE f[i - 1] * Radices[i]
  <2> TAKE i \in 0 .. n
  <2>1. CASE i = 0
    BY <1>2, <2>1 DEF Stepwise
  <2>2. CASE i # 0
    <3>1. i \in 1 .. n /\ i - 1 \in 0 .. n
      BY <1>0, <2>2
    <3>2. f[i] = D[<<i, f[i - 1]>>] /\ <<i, f[i - 1]>> \in (1 .. n) \X X
      BY <1>2, <3>1 DEF Stepwise
    <3>3. D[<<i, f[i - 1]>>] = f[i - 1] * Radices[i]
      BY <3>2
    <3> QED
      BY <2>2, <3>2, <3>3
  <2> QED
    BY <2>1, <2>2
<1>4. UpOf(f)
  BY <1>2, <1>3 DEF UpOf
<1>5. UpOf(r)
  BY <1>4, Zenon DEF Up
<1>6. Timer!Units = [k \in 1 .. n + 1 |-> r[n + 1 - k]]
  BY Zenon DEF Timer!Units, UpOf, Up
<1> HIDE DEF r
<1>7. \A i \in 0 .. n : r[i] = IF i = 0 THEN 1 ELSE r[i - 1] * Radices[i]
  BY <1>5, Zenon DEF UpOf
<1>8. r[0] = 1
  BY <1>0, <1>7
<1>9. ASSUME NEW i \in 1 .. n PROVE r[i] = r[i - 1] * Radices[i]
  BY <1>0, <1>7
<1> DEFINE P == {i \in 0 .. n : r[i] \in X}
<1>10. 0 \in P
  BY <1>0, <1>8
<1>11. ASSUME NEW i \in 1 .. n, i - 1 \in P PROVE i \in P
  <2>1. r[i - 1] \in X /\ Radices[i] \in X
    BY <1>0, <1>11
  <2>2. r[i - 1] * Radices[i] \in X
    BY <2>1
  <2> QED
    BY <1>0, <1>9, <2>2
<1>12. \A i \in 0 .. n : i \in P
  <2> HIDE DEF P
  <2> QED
    BY <1>0, <1>10, <1>11, Climb
<1>13. \A k \in 1 .. n + 1 : Timer!Units[k] = r[n + 1 - k]
  BY <1>6
<1>14. ASSUME NEW k \in 1 .. n + 1 PROVE Timer!Units[k] \in X
  <2>1. n + 1 - k \in 0 .. n
    BY <1>0
  <2>2. r[n + 1 - k] \in X
    BY <1>12, <2>1
  <2> QED
    BY <1>13, <2>2
<1>15. Timer!Units[n + 1] = 1
  <2>1. n + 1 \in 1 .. n + 1 /\ n + 1 - (n + 1) = 0
    BY <1>0
  <2>2. Timer!Units[n + 1] = r[n + 1 - (n + 1)]
    BY <1>13, <2>1
  <2> QED
    BY <1>8, <2>1, <2>2
<1>16. ASSUME NEW k \in 2 .. n + 1
       PROVE  Radices[n + 2 - k] \in X /\ Timer!Units[k - 1] = Timer!Units[k] * Radices[n + 2 - k]
  <2> DEFINE i == n + 2 - k
  <2>1. i \in 1 .. n /\ n + 1 - (k - 1) = i /\ n + 1 - k = i - 1 /\ k - 1 \in 1 .. n + 1 /\ k \in 1 .. n + 1
    BY <1>0
  <2> HIDE DEF i
  <2>2. r[i] = r[i - 1] * Radices[i]
    BY <1>9, <2>1
  <2>3. Timer!Units[k - 1] = r[i]
    <3>1. Timer!Units[k - 1] = r[n + 1 - (k - 1)]
      BY <1>13, <2>1
    <3> QED
      BY <2>1, <3>1
  <2>4. Timer!Units[k] = r[i - 1]
    <3>1. Timer!Units[k] = r[n + 1 - k]
      BY <1>13, <2>1
    <3> QED
      BY <2>1, <3>1
  <2>5. Radices[i] \in X
    BY <1>0, <2>1
  <2> QED
    BY <2>2, <2>3, <2>4, <2>5 DEF i
<1>17. DOMAIN Timer!Units = 1 .. n + 1 /\ Len(Timer!Units) = n + 1
  <2>1. n + 1 \in Nat
    BY <1>0
  <2> QED
    BY <1>6, <2>1
<1> QED
  BY <1>14, <1>15, <1>16, <1>17

Value(duration, k) ==
    LET n == duration \div Timer!Units[k]
    IN IF k = 1 THEN n ELSE n % Radices[Len(Radices) + 2 - k]
Leading(duration, k) == IF k = 0 THEN 0 ELSE Timer!Units[k] * (duration \div Timer!Units[k])

\* The parts of the first k units are what a division by the k-th tells.
LEMMA LeadingGrows ==
    ASSUME NEW duration \in Nat, NEW k \in 1 .. Len(Radices) + 1
    PROVE  /\ Value(duration, k) \in Nat /\ Leading(duration, k) \in Nat
           /\ Leading(duration, k) = Leading(duration, k - 1) + Value(duration, k) * Timer!Units[k]
           /\ Leading(duration, k) <= duration /\ duration - Leading(duration, k) < Timer!Units[k]
<1> DEFINE U == Timer!Units[k]
           q == duration \div U
           h == U * q
<1>1. U \in Nat \ {0} /\ Len(Radices) \in Nat /\ duration \in Int
  BY UnitsNest, TimerAssumption
<1> HIDE DEF U
<1>2. q \in Nat /\ duration % U \in 0 .. U - 1 /\ duration = U * q + (duration % U)
  BY <1>1, Division
<1>3. Leading(duration, k) = h
  BY DEF Leading, U
<1>4. h \in Nat /\ h <= duration /\ duration - h < U
  <2> DEFINE r == duration % U
  <2>1. h \in Nat /\ r \in 0 .. U - 1 /\ duration = h + r
    BY <1>1, <1>2
  <2> HIDE DEF h, r
  <2> QED
    BY <1>1, <2>1
<1>5. CASE k = 1
  <2>1. Value(duration, k) = q
    BY <1>5 DEF Value, U
  <2>2. Leading(duration, k - 1) = 0
    BY <1>5 DEF Leading
  <2>3. h = 0 + q * U
    BY <1>1, <1>2
  <2> QED
    BY <1>2, <1>3, <1>4, <2>1, <2>2, <2>3 DEF U
<1>6. CASE k # 1
  <2> DEFINE R == Radices[Len(Radices) + 2 - k]
             V == Timer!Units[k - 1]
  <2>1. k \in 2 .. Len(Radices) + 1
    BY <1>1, <1>6
  <2>2. R \in Nat \ {0} /\ V = U * R
    BY <2>1, UnitsNest DEF U
  <2>3. Value(duration, k) = q % R
    BY <1>6 DEF Value, U
  <2>4. Leading(duration, k - 1) = V * (duration \div V)
    <3>1. k - 1 # 0
      BY <1>6
    <3> QED
      BY <3>1 DEF Leading
  <2> HIDE DEF q, R, V
  <2>5. duration \div V = q \div R
    <3>1. duration \div (U * R) = (duration \div U) \div R
      BY <1>1, <2>2, NestedDivision
    <3> QED
      BY <2>2, <3>1 DEF q
  <2>6. q \div R \in Int /\ q % R \in 0 .. R - 1 /\ q = R * (q \div R) + (q % R)
    <3>1. q \in Int
      BY <1>2
    <3> QED
      BY <2>2, <3>1, Division
  <2> DEFINE x == q \div R
             y == q % R
  <2> HIDE DEF x, y
  <2>7. x \in Int /\ y \in Nat /\ q = R * x + y
    BY <2>2, <2>6 DEF x, y
  <2>8. U * (R * x + y) = (U * R) * x + y * U
    BY <1>1, <2>2, <2>7
  <2>9. h = V * x + y * U
    BY <2>2, <2>7, <2>8
  <2> QED
    BY <1>3, <1>4, <2>3, <2>4, <2>5, <2>7, <2>9 DEF U, x, y
<1> QED
  BY <1>5, <1>6

Items == [unit : Nat, value : Nat]
Parts(text) == [i \in DOMAIN text |-> text[i].value * text[i].unit]

LEMMA PartsAdd ==
    ASSUME NEW text \in Seq(Items), NEW e \in Items
    PROVE  Timer!Sum(Parts(text)) \in Nat
           /\ Timer!Sum(Parts(Append(text, e))) = Timer!Sum(Parts(text)) + e.value * e.unit
<1> DEFINE n == Len(text)
           more == Append(text, e)
           x == e.value * e.unit
<1>1. n \in Nat /\ DOMAIN text = 1 .. n /\ \A i \in 1 .. n : text[i] \in Items
  OBVIOUS
<1>2. more \in Seq(Items) /\ DOMAIN more = 1 .. n + 1 /\ more[n + 1] = e /\ \A i \in 1 .. n : more[i] = text[i]
  OBVIOUS
<1>3. \A f \in Items : f.value * f.unit \in Nat
  BY DEF Items
<1>4. x \in Nat
  BY <1>3
<1> HIDE DEF more, x
<1>5. Parts(text) = [i \in 1 .. n |-> text[i].value * text[i].unit]
  BY <1>1 DEF Parts
<1>6. \A i \in 1 .. n : text[i].value * text[i].unit \in Nat
  BY <1>1, <1>3
<1>7. Parts(text) \in Seq(Nat) /\ Len(Parts(text)) = n
      /\ \A i \in 1 .. n : Parts(text)[i] = text[i].value * text[i].unit
  <2>1. Parts(text) \in [1 .. n -> Nat]
    BY <1>5, <1>6
  <2> QED
    BY <1>1, <1>5, <2>1
<1>8. Parts(more) = [i \in 1 .. n + 1 |-> more[i].value * more[i].unit]
  BY <1>2 DEF Parts
<1>9. more[n + 1].value * more[n + 1].unit = x /\ \A i \in 1 .. n : more[i].value * more[i].unit = Parts(text)[i]
  BY <1>2, <1>7 DEF x
<1> DEFINE a == Parts(text)
           b == Append(a, x)
<1>10. b \in Seq(Nat) /\ Len(b) = n + 1 /\ b[n + 1] = x /\ \A i \in 1 .. n : b[i] = a[i]
  BY <1>4, <1>7
<1> HIDE DEF a, b
<1>11. Parts(more) = b
  <2>1. ASSUME NEW i \in 1 .. n + 1 PROVE Parts(more)[i] = b[i]
    <3>1. Parts(more)[i] = more[i].value * more[i].unit
      BY <1>8
    <3>2. CASE i = n + 1
      BY <1>9, <1>10, <3>1, <3>2
    <3>3. CASE i # n + 1
      <4>1. i \in 1 .. n
        BY <1>1, <3>3
      <4> QED
        BY <1>9, <1>10, <3>1, <4>1 DEF a
    <3> QED
      BY <3>2, <3>3
  <2>2. DOMAIN Parts(more) = 1 .. n + 1
    BY <1>8
  <2>3. b = [i \in 1 .. n + 1 |-> b[i]]
    BY <1>10
  <2>4. Parts(more) = [i \in 1 .. n + 1 |-> b[i]]
    BY <1>8, <2>1
  <2> QED
    BY <2>3, <2>4
<1>12. Timer!Sum(Append(a, x)) = Timer!Sum(a) + x /\ Timer!Sum(a) \in Nat
  BY <1>4, <1>7, SumOfAppend, SumIsNatural DEF a
<1> QED
  BY <1>11, <1>12 DEF a, b, x, more

TextOf(duration, outCount, f) ==
    f = [k \in 0 .. Len(Radices) + 1 |->
           IF k = 0 THEN << >>
           ELSE IF Value(duration, k) # 0 /\ Len(f[k - 1]) < outCount
                THEN Append(f[k - 1], [unit |-> Timer!Units[k], value |-> Value(duration, k)])
                ELSE f[k - 1]]
TextFrom(duration, outCount) == CHOOSE f : TextOf(duration, outCount, f)

LEMMA TextGrows ==
    ASSUME NEW duration \in Nat, NEW outCount \in Nat
    PROVE  LET f == TextFrom(duration, outCount)
           IN /\ Timer!ToTimeString(duration, outCount) = f[Len(Radices) + 1]
              /\ f[0] = << >>
              /\ \A k \in 1 .. Len(Radices) + 1 :
                   f[k] = IF Value(duration, k) # 0 /\ Len(f[k - 1]) < outCount
                          THEN Append(f[k - 1], [unit |-> Timer!Units[k], value |-> Value(duration, k)])
                          ELSE f[k - 1]
<1> DEFINE n == Len(Radices) + 1
           X == Seq(Items)
           e(k) == [unit |-> Timer!Units[k], value |-> Value(duration, k)]
           E(k, t) == IF Value(duration, k) # 0 /\ Len(t) < outCount THEN Append(t, e(k)) ELSE t
           D == [p \in (1 .. n) \X X |-> E(p[1], p[2])]
           r == TextFrom(duration, outCount)
<1>0. n \in Nat /\ << >> \in X
  BY TimerAssumption
<1>a. \A k \in 1 .. n : e(k) \in Items
  <2> TAKE k \in 1 .. n
  <2>1. Timer!Units[k] \in Nat /\ Value(duration, k) \in Nat
    BY UnitsNest, LeadingGrows
  <2> QED
    BY <2>1 DEF Items
<1>b. \A k \in 1 .. n, t \in X : E(k, t) \in X
  <2> TAKE k \in 1 .. n, t \in X
  <2>1. e(k) \in Items
    BY <1>a
  <2> HIDE DEF e
  <2>2. Append(t, e(k)) \in X
    BY <2>1
  <2> QED
    BY <2>2
<1> HIDE DEF E, X
<1>1. D \in [(1 .. n) \X X -> X]
  BY <1>b
<1>2. PICK f \in [0 .. n -> X] : Stepwise(n, << >>, D, f)
  <2> HIDE DEF D, n
  <2> QED
    BY <1>0, <1>1, StepsExist
<1>3. \A k \in 0 .. n : f[k] = IF k = 0 THEN << >> ELSE E(k, f[k - 1])
  <2> TAKE k \in 0 .. n
  <2>1. CASE k = 0
    BY <1>2, <2>1 DEF Stepwise
  <2>2. CASE k # 0
    <3>1. k \in 1 .. n /\ k - 1 \in 0 .. n
      BY <1>0, <2>2
    <3>2. f[k] = D[<<k, f[k - 1]>>] /\ <<k, f[k - 1]>> \in (1 .. n) \X X
      BY <1>2, <3>1 DEF Stepwise
    <3>3. D[<<k, f[k - 1]>>] = E(k, f[k - 1])
      BY <3>2
    <3> QED
      BY <2>2, <3>2, <3>3
  <2> QED
    BY <2>1, <2>2
<1>4. TextOf(duration, outCount, f)
  <2>1. f = [k \in 0 .. n |-> IF k = 0 THEN << >> ELSE E(k, f[k - 1])]
    BY <1>2, <1>3
  <2> QED
    BY <2>1, Zenon DEF TextOf, E, e, n
<1>5. TextOf(duration, outCount, r)
  BY <1>4, Zenon DEF TextFrom
<1>6. Timer!ToTimeString(duration, outCount) = r[n]
  BY Zenon DEF Timer!ToTimeString, TextOf, TextFrom, Value
<1> HIDE DEF r
<1>7. r = [k \in 0 .. n |-> IF k = 0 THEN << >> ELSE E(k, r[k - 1])]
  BY <1>5, Zenon DEF TextOf, E, e, n
<1> HIDE DEF n
<1>8. r[0] = << >>
  <2>1. 0 \in 0 .. n
    BY <1>0
  <2> QED
    BY <1>7, <2>1
<1>9. ASSUME NEW k \in 1 .. n PROVE r[k] = E(k, r[k - 1])
  <2>1. k \in 0 .. n /\ k # 0
    BY <1>0
  <2>2. r[k] = IF k = 0 THEN << >> ELSE E(k, r[k - 1])
    BY <1>7, <2>1
  <2> QED
    BY <2>1, <2>2
<1> QED
  BY <1>6, <1>8, <1>9 DEF r, n, E, e

\* The text of the first k units: exact while parts may be added, and never short of a last unit.
Told(text, k, duration, outCount) ==
    /\ text \in Seq(Items)
    /\ Timer!Sum(Parts(text)) <= duration
    /\ Len(text) < outCount => Timer!Sum(Parts(text)) = Leading(duration, k)
    /\ text # << >> => duration - Timer!Sum(Parts(text)) < text[Len(text)].unit

LEMMA TextAdds ==
    ASSUME NEW duration \in Nat, NEW outCount \in Nat, NEW k \in 1 .. Len(Radices) + 1,
           NEW text, Told(text, k - 1, duration, outCount)
    PROVE  Told(IF Value(duration, k) # 0 /\ Len(text) < outCount
                THEN Append(text, [unit |-> Timer!Units[k], value |-> Value(duration, k)])
                ELSE text, k, duration, outCount)
<1> DEFINE v == Value(duration, k)
           u == Timer!Units[k]
           e == [unit |-> u, value |-> v]
           s == Timer!Sum(Parts(text))
           h == Leading(duration, k)
           before == Leading(duration, k - 1)
<1>1. /\ v \in Nat /\ h \in Nat /\ h = before + v * u /\ h <= duration /\ duration - h < u
  BY LeadingGrows
<1>2. u \in Nat
  BY UnitsNest
<1>3. text \in Seq(Items) /\ s <= duration /\ (Len(text) < outCount => s = before)
      /\ (text # << >> => duration - s < text[Len(text)].unit)
  BY DEF Told
<1> HIDE DEF v, u
<1>4. e \in Items /\ e.value = v /\ e.unit = u
  BY <1>1, <1>2 DEF Items
<1> HIDE DEF e
<1>5. s \in Nat /\ Timer!Sum(Parts(Append(text, e))) = s + v * u
  <2>1. s \in Nat /\ Timer!Sum(Parts(Append(text, e))) = s + e.value * e.unit
    BY <1>3, <1>4, PartsAdd
  <2> QED
    BY <1>4, <2>1
<1> HIDE DEF s, h, before
<1>6. CASE v # 0 /\ Len(text) < outCount
  <2> DEFINE more == Append(text, e)
  <2>1. more \in Seq(Items) /\ Len(more) = Len(text) + 1 /\ more[Len(more)] = e
    BY <1>3, <1>4
  <2> HIDE DEF more
  <2>2. Timer!Sum(Parts(more)) = h
    BY <1>1, <1>3, <1>5, <1>6 DEF more
  <2>3. Told(more, k, duration, outCount)
    BY <1>1, <1>4, <2>1, <2>2 DEF Told, h
  <2> QED
    BY <1>6, <2>3 DEF more, e, u, v
<1>7. CASE ~(v # 0 /\ Len(text) < outCount)
  <2>1. Len(text) < outCount => s = h
    <3> SUFFICES ASSUME Len(text) < outCount PROVE s = h
      OBVIOUS
    <3>1. v = 0 /\ s = before
      BY <1>3, <1>7
    <3>2. v * u = 0
      BY <1>2, <3>1
    <3> QED
      BY <1>1, <1>5, <3>1, <3>2
  <2>2. Told(text, k, duration, outCount)
    BY <1>3, <2>1 DEF Told, s, h
  <2> QED
    BY <1>7, <2>2 DEF v
<1> QED
  BY <1>6, <1>7

LEMMA TextRight ==
    ASSUME NEW duration \in Nat, NEW outCount \in Nat
    PROVE  Told(Timer!ToTimeString(duration, outCount), Len(Radices) + 1, duration, outCount)
<1> DEFINE n == Len(Radices) + 1
           f == TextFrom(duration, outCount)
           P == {k \in 0 .. n : Told(f[k], k, duration, outCount)}
<1>0. n \in Nat
  BY TimerAssumption
<1>1. /\ Timer!ToTimeString(duration, outCount) = f[n] /\ f[0] = << >>
      /\ \A k \in 1 .. n :
           f[k] = IF Value(duration, k) # 0 /\ Len(f[k - 1]) < outCount
                  THEN Append(f[k - 1], [unit |-> Timer!Units[k], value |-> Value(duration, k)])
                  ELSE f[k - 1]
  BY TextGrows
<1> HIDE DEF f
<1>2. 0 \in P
  <2>1. Parts(<< >>) = << >>
    BY DEF Parts
  <2>2. Timer!Sum(Parts(<< >>)) = 0
    BY <2>1, SumOfNone
  <2>3. Leading(duration, 0) = 0
    BY DEF Leading
  <2>4. Told(<< >>, 0, duration, outCount)
    BY <2>2, <2>3 DEF Told
  <2> QED
    BY <1>0, <1>1, <2>4
<1>3. ASSUME NEW k \in 1 .. n, k - 1 \in P PROVE k \in P
  <2> DEFINE text == f[k - 1]
  <2>1. Told(text, k - 1, duration, outCount)
    BY <1>3
  <2> HIDE DEF text
  <2>2. Told(IF Value(duration, k) # 0 /\ Len(text) < outCount
             THEN Append(text, [unit |-> Timer!Units[k], value |-> Value(duration, k)])
             ELSE text, k, duration, outCount)
    BY <2>1, TextAdds
  <2>3. Told(f[k], k, duration, outCount)
    <3>1. f[k] = IF Value(duration, k) # 0 /\ Len(text) < outCount
                 THEN Append(text, [unit |-> Timer!Units[k], value |-> Value(duration, k)])
                 ELSE text
      BY <1>1 DEF text
    <3> QED
      BY <2>2, <3>1
  <2> QED
    BY <1>0, <2>3
<1>4. \A k \in 0 .. n : k \in P
  <2> HIDE DEF P, n
  <2> QED
    BY <1>0, <1>2, <1>3, Climb
<1>5. n \in P
  BY <1>0, <1>4
<1> QED
  BY <1>1, <1>5

LEMMA TextsRight ==
    ASSUME measured \in Nat
    PROVE  Timer!TextsTell
<1> SUFFICES ASSUME NEW outCount \in 1 .. Len(Timer!Units)
             PROVE  LET text == Timer!ToTimeString(measured, outCount)
                        rest == measured - Timer!Sum([i \in DOMAIN text |-> text[i].value * text[i].unit])
                    IN /\ rest >= 0 /\ (Len(text) < outCount => rest = 0)
                       /\ text # << >> => rest < text[Len(text)].unit
  BY DEF Timer!TextsTell
<1> DEFINE text == Timer!ToTimeString(measured, outCount)
           s == Timer!Sum(Parts(text))
           n == Len(Radices) + 1
<1>1. outCount \in Nat /\ n \in 1 .. n
  BY UnitsNest, TimerAssumption
<1>2. Told(text, n, measured, outCount)
  BY <1>1, TextRight
<1> HIDE DEF text
<1>3. text \in Seq(Items) /\ s <= measured /\ (Len(text) < outCount => s = Leading(measured, n))
      /\ (text # << >> => measured - s < text[Len(text)].unit)
  BY <1>2 DEF Told
<1>4. s \in Nat
  <2>1. [unit |-> 0, value |-> 0] \in Items
    BY DEF Items
  <2> QED
    BY <1>3, <2>1, PartsAdd
<1>5. Leading(measured, n) = measured
  <2>1. Timer!Units[n] = 1 /\ n # 0
    BY <1>1, UnitsNest
  <2>2. Leading(measured, n) = 1 * (measured \div 1)
    BY <2>1 DEF Leading
  <2>3. 1 * (measured \div 1) = measured
    OBVIOUS
  <2> QED
    BY <2>2, <2>3
<1>6. s = Timer!Sum([i \in DOMAIN text |-> text[i].value * text[i].unit])
  BY DEF Parts
<1> HIDE DEF s, n
<1>7. /\ measured - s >= 0 /\ (Len(text) < outCount => measured - s = 0)
      /\ (text # << >> => measured - s < text[Len(text)].unit)
  BY <1>3, <1>4, <1>5
<1> QED
  BY <1>6, <1>7 DEF text

-----------------------------------------------------------------------------
(***************************************************************************)
(* Timers: the invariant                                                   *)
(***************************************************************************)
LEMMA PassTells ==
    ASSUME TimerInv, Timer!Pass
    PROVE  \E d \in Nat : diffs' = Append(diffs, d) /\ stats' = Timer!UpdateWithDiff(stats, d)
<1>1. PICK step \in Steps :
        LET diff == Timer!getMSTimeDiff(seen, Timer!getMSTime(now + step))
        IN diffs' = Append(diffs, diff) /\ stats' = Timer!UpdateWithDiff(stats, diff)
  BY DEF Timer!Pass
<1> DEFINE e == Timer!getMSTimeDiff(seen, Timer!getMSTime(now + step))
<1>2. step \in 0 .. WordSize - 1 /\ now \in Nat /\ seen = now % WordSize
  BY <1>1, TimerAssumption DEF TimerInv
<1>3. e \in Nat
  <2>1. e = Timer!getMSTimeDiff(now % WordSize, (now + step) % WordSize)
    BY <1>2 DEF Timer!getMSTime
  <2> QED
    BY <1>2, <2>1, ClockSteps
<1> QED
  BY <1>1, <1>3

ClockInv == TimerInv /\ StatsTell(stats, diffs)

LEMMA ClockInit == Init => ClockInv
<1> SUFFICES ASSUME Init PROVE ClockInv
  OBVIOUS
<1>1. stats = Timer!NewStats /\ diffs = << >>
  BY DEF Init, Timer!Init
<1> QED
  BY <1>1, TimerInit, StatsBegin DEF ClockInv

LEMMA ClockKept == ClockInv /\ [Next]_vars => ClockInv'
<1> SUFFICES ASSUME ClockInv, [Next]_vars PROVE ClockInv'
  OBVIOUS
<1>a. TimerInv /\ StatsTell(stats, diffs)
  BY DEF ClockInv
<1>1. CASE UNCHANGED timerVars
  <2>1. /\ now' = now /\ seen' = seen /\ measured' = measured /\ diffs' = diffs /\ timers' = timers
        /\ passes' = passes /\ stats' = stats /\ undefined' = undefined
    BY <1>1 DEF timerVars
  <2>2. TimerInv'
    BY <1>a, <2>1 DEF TimerInv, Ticking
  <2>3. StatsTell(stats, diffs)'
    BY <1>a, <2>1
  <2> QED
    BY <2>2, <2>3 DEF ClockInv
<1>2. CASE Timer!Next
  <2>1. CASE Timer!Begin
    <3>1. TimerInv'
      BY <1>a, <2>1, TimersBegin
    <3>2. stats' = stats /\ diffs' = diffs
      BY <2>1 DEF Timer!Begin
    <3>3. StatsTell(stats, diffs)'
      BY <1>a, <3>2
    <3> QED
      BY <3>1, <3>3 DEF ClockInv
  <2>2. CASE Timer!Pass
    <3>1. TimerInv'
      BY <1>a, <2>2, TimersPass
    <3>2. PICK d \in Nat : diffs' = Append(diffs, d) /\ stats' = Timer!UpdateWithDiff(stats, d)
      BY <1>a, <2>2, PassTells
    <3>3. diffs \in Seq(Nat)
      BY <1>a DEF TimerInv
    <3>4. StatsTell(Timer!UpdateWithDiff(stats, d), Append(diffs, d))
      BY <1>a, <3>3, StatsMove
    <3>5. StatsTell(stats', diffs')
      BY <3>2, <3>4
    <3> QED
      BY <3>1, <3>5 DEF ClockInv
  <2> QED
    BY <1>2, <2>1, <2>2 DEF Timer!Next
<1>3. UNCHANGED timerVars \/ Timer!Next
  BY DEF Next, PacketStep, ProcessStep, CallbacksStep, TimerStep, LocationStep, QueueStep, LoginStep,
         CipherStep, vars
<1> QED
  BY <1>1, <1>2, <1>3

\* The clock loses a millisecond at a wrap and no more, no timer drifts or runs ahead of it,
\* the statistics of UpdateTime are those of the last passes, and a text of the time is
\* exact down to its last part: for every step, interval, table and set of units.
THEOREM ClockRight == Spec => []TimersKeepPace
<1>1. ClockInv => TimersKeepPace
  <2> SUFFICES ASSUME ClockInv PROVE TimersKeepPace
    OBVIOUS
  <2>1. TimerInv /\ StatsTell(stats, diffs) /\ diffs \in Seq(Nat) /\ measured \in Nat
    BY DEF ClockInv, TimerInv
  <2>2. Timer!TimersKeepPace
    BY <2>1, TimersRight
  <2>3. Timer!StatisticsOfWindow
    BY <2>1, StatsRight
  <2>4. Timer!TextsTell
    BY <2>1, TextsRight
  <2> QED
    BY <2>2, <2>3, <2>4 DEF TimersKeepPace
<1> QED
  BY <1>1, ClockInit, ClockKept, PTL DEF Spec
=============================================================================
