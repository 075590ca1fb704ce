---------------------------- MODULE QueueProofs ----------------------------
(***************************************************************************)
(* Proofs about the two queues of Threading: MPSCQueue, for every number   *)
(* of producers and of nodes and for both kinds of queue, then PCQueue,    *)
(* for every number of consumers and of pushes.                            *)
(***************************************************************************)
EXTENDS MPSCQueue, LockedQueue, FiniteSetTheorems, SequenceTheorems, TLAPS

InChain(n) == \E i \in DOMAIN chain : chain[i] = n

Distinct == \A i, j \in DOMAIN chain : chain[i] = chain[j] => i = j

\* A node whose exchange is still to come is in no one else's hands; a node that is to
\* be linked is in the chain, behind the one it is to be linked to.
InEnqueue ==
    \A t \in Threads :
        /\ pc[t] = "exchange" =>
              /\ node[t] \in Links /\ next[node[t]] = Null /\ ~InChain(node[t])
              /\ \A u \in Threads : pc[u] = "exchange" /\ node[u] = node[t] => u = t
        /\ pc[t] = "link" =>
              \E i \in 1 .. Len(chain) - 1 : prev[t] = chain[i] /\ node[t] = chain[i + 1]

\* The list as the threads see it.
ListInv == LinksChain /\ Distinct /\ InEnqueue

\* Every node is given up, in the chain or on its way into it.
Accounted ==
    phase # "gone" =>
        \A n \in Nodes : n \in unused \/ InChain(n) \/ \E t \in Threads : pc[t] = "exchange" /\ node[t] = n

\* Where the dummy is: producers never have it, the consumer has it inside its own
\* Enqueue() only, and appends it only when it is not in the list.
DummyInv ==
    /\ \A p \in Producers : pc[p] = "out" \/ node[p] \in Nodes
    /\ pc[Consumer] # "out" => node[Consumer] = Dummy /\ dq = "dummy"
    /\ dq \in {"second", "head", "dummy", "last"} => intrusive /\ tail # Dummy
    /\ dq = "dummy" /\ pc[Consumer] # "link" => ~InChain(Dummy)
    /\ dq = "advance" => ~intrusive /\ next[tail] # Null
    /\ ~intrusive => ~InChain(Dummy)

\* A Dequeue() during which no producer was between its two steps sees the whole list.
QuietInv ==
    dq # "out" /\ quiet =>
        /\ \A p \in Producers : pc[p] # "link"
        /\ dq = "head" => tail = head
        /\ dq = "dummy" => IF pc[Consumer] = "link" THEN prev[Consumer] = tail ELSE tail = head
        /\ dq = "last" => next[tail] # Null

\* The destructor is alone.
ClosingInv ==
    /\ phase # "open" => \A p \in Producers : pc[p] = "out"
    /\ phase = "closing" /\ dq # "out" => quiet
    /\ phase = "gone" => dq = "out" /\ unused = Nodes

\* The inductive invariant.
QueueInv ==
    /\ TypeOK /\ ListInv /\ NoUseAfterFree /\ Accounted
    /\ DummyInv /\ QuietInv /\ ClosingInv

-----------------------------------------------------------------------------
(***************************************************************************)
(* The list, step by step                                                  *)
(***************************************************************************)

LEMMA One == ASSUME NEW S, NEW q \in Seq(S), q # << >>, ~(Len(q) >= 2) PROVE Len(q) = 1
<1> DEFINE k == Len(q)
<1>1. k \in Nat /\ k # 0
  OBVIOUS
<1> HIDE DEF k
<1>2. ~(k >= 2) => k = 1
  BY <1>1
<1> QED
  BY <1>2 DEF k

LEMMA NotEmpty == ASSUME NEW q, Len(q) >= 1 PROVE q # << >>
OBVIOUS

\* What the links say of a chain with these nodes.
LEMMA ChainFacts ==
    ASSUME TypeOK, LinksChain
    PROVE  /\ Len(chain) \in Nat /\ Len(chain) > 0 /\ DOMAIN chain = 1 .. Len(chain)
           /\ \A i \in 1 .. Len(chain) : chain[i] \in Links
           /\ InChain(head) /\ InChain(tail)
<1>1. chain \in Seq(Links) /\ chain # << >>
  BY DEF TypeOK, LinksChain
<1>2. /\ Len(chain) \in Nat /\ Len(chain) > 0 /\ DOMAIN chain = 1 .. Len(chain)
      /\ \A i \in 1 .. Len(chain) : chain[i] \in Links
  BY <1>1
<1> QED
  BY <1>2 DEF LinksChain, InChain

\* The links after a step, of nodes of the state before it or after it.
LinkingNext(m) == {t \in Threads : pc'[t] = "link" /\ prev'[t] = m}
JoinedNext(m, n) ==
    \/ next'[m] = n /\ LinkingNext(m) = {}
    \/ next'[m] = Null /\ \E t \in Threads : LinkingNext(m) = {t} /\ node'[t] = n

LEMMA LinksNext ==
    LinksChain' <=>
        /\ chain' # << >> /\ chain'[1] = tail' /\ chain'[Len(chain')] = head'
        /\ \A i \in 1 .. Len(chain') - 1 : JoinedNext(chain'[i], chain'[i + 1])
        /\ next'[head'] = Null /\ LinkingNext(head') = {}
BY DEF LinksChain, Joined, Linking, JoinedNext, LinkingNext

LEMMA JoinedFrame ==
    ASSUME NEW m, NEW n, Joined(m, n), next'[m] = next[m], LinkingNext(m) = Linking(m),
           \A t \in Linking(m) : node'[t] = node[t]
    PROVE  JoinedNext(m, n)
BY DEF Joined, JoinedNext

\* The first step of Enqueue() touches a node outside the chain.
LEMMA StoreNullList ==
    ASSUME TypeOK, ListInv, NEW t \in Threads, NEW n \in Links, StoreNull(t, n), ~InChain(n),
           \A u \in Threads : pc[u] = "exchange" => node[u] # n
    PROVE  ListInv'
<1> USE ChainFacts DEF ListInv, TypeOK
<1>1. /\ UNCHANGED <<head, tail, prev, chain>> /\ pc[t] = "out"
      /\ next'[n] = Null /\ \A m \in Links : m # n => next'[m] = next[m]
      /\ pc'[t] = "exchange" /\ node'[t] = n
      /\ \A u \in Threads : u # t => pc'[u] = pc[u] /\ node'[u] = node[u]
  BY DEF StoreNull
<1>2. \A m : LinkingNext(m) = Linking(m)
  BY <1>1 DEF Linking, LinkingNext
<1>3. \A i \in 1 .. Len(chain) : chain[i] # n
  BY DEF InChain
<1>4. \A i \in 1 .. Len(chain) : next'[chain[i]] = next[chain[i]]
  BY <1>1, <1>3
<1>5. \A m : \A u \in Linking(m) : node'[u] = node[u]
  BY <1>1 DEF Linking
<1>6. ASSUME NEW i \in 1 .. Len(chain) - 1 PROVE JoinedNext(chain[i], chain[i + 1])
  BY <1>2, <1>4, <1>5, JoinedFrame DEF LinksChain
<1>7. LinksChain'
  BY <1>1, <1>2, <1>4, <1>6, LinksNext DEF LinksChain
<1>8. Distinct'
  BY <1>1 DEF Distinct
<1>9. InEnqueue'
  BY <1>1 DEF InEnqueue, InChain
<1> QED
  BY <1>7, <1>8, <1>9

\* The exchange puts a node behind the head, with its link to come.
LEMMA ExchangeList ==
    ASSUME TypeOK, ListInv, NEW t \in Threads, Exchange(t)
    PROVE  /\ ListInv' /\ Len(chain') = Len(chain) + 1
           /\ \A n : InChain(n)' <=> InChain(n) \/ n = node[t]
           /\ chain' \in Seq(Links)
<1> USE ChainFacts DEF ListInv, TypeOK
<1> DEFINE k == Len(chain)
<1>1. /\ UNCHANGED <<tail, next, node>> /\ pc[t] = "exchange" /\ head' = node[t]
      /\ chain' = Append(chain, node[t])
      /\ pc'[t] = "link" /\ prev'[t] = head
      /\ \A u \in Threads : u # t => pc'[u] = pc[u] /\ prev'[u] = prev[u]
  BY DEF Exchange
<1>2. node[t] \in Links /\ next[node[t]] = Null /\ ~InChain(node[t])
  BY <1>1 DEF InEnqueue
<1>3. /\ chain' \in Seq(Links) /\ Len(chain') = k + 1 /\ DOMAIN chain' = 1 .. k + 1
      /\ chain'[k + 1] = node[t] /\ \A i \in 1 .. k : chain'[i] = chain[i]
  BY <1>1, <1>2
<1>4. \A n : InChain(n)' <=> InChain(n) \/ n = node[t]
  <2> SUFFICES ASSUME NEW n PROVE InChain(n)' <=> InChain(n) \/ n = node[t]
    OBVIOUS
  <2>1. ASSUME InChain(n) PROVE InChain(n)'
    BY <1>3, <2>1, SMTT(30) DEF InChain
  <2>2. ASSUME InChain(n)' PROVE InChain(n) \/ n = node[t]
    BY <1>3, <2>2 DEF InChain
  <2>3. InChain(node[t])'
    <3>1. k + 1 \in DOMAIN chain' /\ chain'[k + 1] = node'[t]
      BY <1>1, <1>3
    <3> QED
      BY <3>1 DEF InChain
  <2>4. n = node[t] => InChain(n)'
    BY <1>1, <2>3 DEF InChain
  <2> QED
    BY <2>1, <2>2, <2>4
<1>5. \A m : m # head => LinkingNext(m) = Linking(m)
  BY <1>1 DEF Linking, LinkingNext
<1>6. LinkingNext(head) = {t}
  BY <1>1 DEF Linking, LinkingNext, LinksChain
<1>7. chain[k] = head /\ next[head] = Null /\ chain[1] = tail
  BY DEF LinksChain
<1>8. ASSUME NEW i \in 1 .. k PROVE JoinedNext(chain'[i], chain'[i + 1])
  <2>1. CASE i = k
    <3>1. chain'[i] = head /\ chain'[i + 1] = node[t]
      BY <1>3, <1>7, <2>1
    <3> QED
      BY <1>1, <1>6, <1>7, <3>1 DEF JoinedNext
  <2>2. CASE i # k
    <3>1. /\ i \in 1 .. k - 1 /\ chain'[i] = chain[i] /\ chain'[i + 1] = chain[i + 1]
          /\ chain[i] # head /\ Joined(chain[i], chain[i + 1])
      BY <1>3, <1>7, <2>2 DEF LinksChain, Distinct
    <3> QED
      BY <1>1, <1>5, <3>1, JoinedFrame
  <2> QED
    BY <2>1, <2>2
<1>9. next'[head'] = Null /\ LinkingNext(head') = {}
  <2>1. node[t] # head
    BY <1>2
  <2>2. \A u \in Threads : pc[u] = "link" => prev[u] # node[t]
    BY <1>2 DEF InEnqueue, InChain
  <2> QED
    BY <1>1, <1>2, <2>1, <2>2 DEF LinkingNext
<1>10. LinksChain'
  <2>1. chain' # << >> /\ chain'[1] = tail' /\ chain'[Len(chain')] = head'
    BY <1>1, <1>3, <1>7
  <2>2. \A i \in 1 .. Len(chain') - 1 : JoinedNext(chain'[i], chain'[i + 1])
    BY <1>3, <1>8
  <2> QED
    BY <1>9, <2>1, <2>2, LinksNext
<1>11. Distinct'
  BY <1>2, <1>3, SMTT(30) DEF Distinct, InChain
<1>12. InEnqueue'
  <2> SUFFICES ASSUME NEW u \in Threads
               PROVE  /\ pc'[u] = "exchange" =>
                            /\ node'[u] \in Links /\ next'[node'[u]] = Null /\ ~InChain(node[u])'
                            /\ \A v \in Threads : pc'[v] = "exchange" /\ node'[v] = node'[u] => v = u
                      /\ pc'[u] = "link" =>
                            \E i \in 1 .. Len(chain') - 1 :
                               prev'[u] = chain'[i] /\ node'[u] = chain'[i + 1]
    BY DEF InEnqueue
  <2>1. CASE u = t
    <3>1. k \in 1 .. Len(chain') - 1 /\ prev'[u] = chain'[k] /\ node'[u] = chain'[k + 1]
      BY <1>1, <1>3, <1>7, <2>1
    <3> QED
      BY <1>1, <2>1, <3>1
  <2>2. CASE u # t
    <3>1. ASSUME pc[u] = "exchange"
          PROVE  /\ node'[u] \in Links /\ next'[node'[u]] = Null /\ ~InChain(node[u])'
                 /\ \A v \in Threads : pc'[v] = "exchange" /\ node'[v] = node'[u] => v = u
      <4>1. node[u] # node[t]
        BY <1>1, <2>2, <3>1 DEF InEnqueue
      <4>2. ~InChain(node[u])'
        BY <1>1, <1>4, <3>1, <4>1 DEF InEnqueue, InChain
      <4> QED
        BY <1>1, <3>1, <4>2 DEF InEnqueue
    <3>2. ASSUME pc[u] = "link"
          PROVE  \E i \in 1 .. Len(chain') - 1 : prev'[u] = chain'[i] /\ node'[u] = chain'[i + 1]
      <4>1. PICK i \in 1 .. k - 1 : prev[u] = chain[i] /\ node[u] = chain[i + 1]
        BY <3>2 DEF InEnqueue
      <4>2. i \in 1 .. Len(chain') - 1 /\ chain'[i] = chain[i] /\ chain'[i + 1] = chain[i + 1]
        BY <1>3
      <4> QED
        BY <1>1, <2>2, <4>1, <4>2
    <3> QED
      BY <1>1, <2>2, <3>1, <3>2
  <2> QED
    BY <2>1, <2>2
<1> QED
  BY <1>3, <1>4, <1>10, <1>11, <1>12

\* The link is the one the chain waits for.
LEMMA LinkList ==
    ASSUME TypeOK, ListInv, NEW t \in Threads, Link(t)
    PROVE  /\ ListInv' /\ prev[t] \in Links /\ node[t] \in Links
           /\ \A m \in Links : next[m] # Null => next'[m] = next[m]
           /\ next' \in [Links -> Links \cup {Null}]
<1> USE ChainFacts DEF ListInv, TypeOK
<1> DEFINE k == Len(chain)
<1>1. /\ UNCHANGED <<head, tail, chain>> /\ pc[t] = "link" /\ pc'[t] = "out"
      /\ next' = [next EXCEPT ![prev[t]] = node[t]]
      /\ \A u \in Threads : u # t => pc'[u] = pc[u] /\ prev'[u] = prev[u] /\ node'[u] = node[u]
  BY DEF Link, Linked
<1>2. PICK i \in 1 .. k - 1 : prev[t] = chain[i] /\ node[t] = chain[i + 1]
  BY <1>1 DEF InEnqueue
<1>3. /\ chain[i] \in Links /\ chain[i + 1] \in Links /\ i \in DOMAIN chain
      /\ next'[chain[i]] = chain[i + 1]
      /\ \A m \in Links : m # chain[i] => next'[m] = next[m]
  BY <1>1, <1>2
<1>4. Linking(chain[i]) = {t} /\ next[chain[i]] = Null
  <2>1. t \in Linking(chain[i])
    BY <1>1, <1>2 DEF Linking
  <2> QED
    BY <1>2, <2>1 DEF LinksChain, Joined
<1>5. LinkingNext(chain[i]) = {}
  <2> SUFFICES ASSUME NEW u \in Threads, pc'[u] = "link", prev'[u] = chain[i] PROVE FALSE
    BY DEF LinkingNext
  <2> QED
    BY <1>1, <1>4 DEF Linking
<1>6. \A m : m # chain[i] => LinkingNext(m) = Linking(m) /\ t \notin Linking(m)
  BY <1>1, <1>2 DEF Linking, LinkingNext
<1>7. ASSUME NEW j \in 1 .. k - 1 PROVE JoinedNext(chain[j], chain[j + 1])
  <2>1. CASE j = i
    BY <1>3, <1>5, <2>1 DEF JoinedNext
  <2>2. CASE j # i
    <3>1. chain[j] # chain[i] /\ chain[j] \in Links /\ Joined(chain[j], chain[j + 1])
      BY <1>3, <2>2 DEF Distinct, LinksChain
    <3>2. \A u \in Linking(chain[j]) : node'[u] = node[u]
      BY <1>1, <1>6, <3>1 DEF Linking
    <3> QED
      BY <1>3, <1>6, <3>1, <3>2, JoinedFrame
  <2> QED
    BY <2>1, <2>2
<1>8. head # chain[i]
  BY <1>2, <1>3 DEF LinksChain, Distinct
<1>9. LinksChain'
  <2>1. head \in Links /\ next'[head] = Null /\ LinkingNext(head) = {}
    BY <1>3, <1>6, <1>8 DEF LinksChain
  <2> QED
    BY <1>1, <1>7, <2>1, LinksNext DEF LinksChain
<1>10. Distinct'
  BY <1>1 DEF Distinct
<1>11. InEnqueue'
  <2>1. \A n : InChain(n)' <=> InChain(n)
    BY <1>1 DEF InChain
  <2>2. ASSUME NEW u \in Threads, pc'[u] = "exchange"
        PROVE  /\ node'[u] \in Links /\ next'[node'[u]] = Null /\ ~InChain(node[u])'
               /\ \A v \in Threads : pc'[v] = "exchange" /\ node'[v] = node'[u] => v = u
    <3>1. u # t /\ pc[u] = "exchange" /\ node'[u] = node[u] /\ ~InChain(node[u]) /\ node[u] \in Links
      BY <1>1, <2>2 DEF InEnqueue
    <3>2. node[u] # chain[i]
      BY <1>3, <3>1 DEF InChain
    <3>3. ~InChain(node[u])'
      BY <1>1, <3>1 DEF InChain
    <3> QED
      <4>1. next'[node'[u]] = Null
        BY <1>3, <3>1, <3>2 DEF InEnqueue
      <4>2. \A v \in Threads : pc'[v] = "exchange" /\ node'[v] = node'[u] => v = u
        BY <1>1, <3>1 DEF InEnqueue
      <4> QED
        BY <3>1, <3>3, <4>1, <4>2
  <2>3. ASSUME NEW u \in Threads, pc'[u] = "link"
        PROVE  \E j \in 1 .. k - 1 : prev'[u] = chain[j] /\ node'[u] = chain[j + 1]
    BY <1>1, <2>3 DEF InEnqueue
  <2> QED
    BY <1>1, <2>2, <2>3 DEF InEnqueue
<1> QED
  BY <1>1, <1>2, <1>3, <1>4, <1>9, <1>10, <1>11

\* The tail moves along a link that is there.
LEMMA PopList ==
    ASSUME TypeOK, ListInv, next[tail] # Null, tail' = next[tail], chain' = Tail(chain),
           UNCHANGED <<head, next, enqVars>>
    PROVE  /\ ListInv' /\ chain' \in Seq(Links) /\ Len(chain) >= 2 /\ Len(chain') = Len(chain) - 1
           /\ chain[2] = next[tail] /\ Linking(tail) = {}
           /\ tail' \in Links /\ tail' # tail
           /\ \A n : InChain(n)' <=> InChain(n) /\ n # tail
<1> USE ChainFacts DEF ListInv, TypeOK, enqVars
<1> DEFINE k == Len(chain)
<1>1. k >= 2 /\ chain[1] = tail /\ chain[k] = head
  BY DEF LinksChain
<1>2. Joined(tail, chain[2])
  BY <1>1 DEF LinksChain
<1>3. next[tail] = chain[2] /\ Linking(tail) = {}
  BY <1>2 DEF Joined
<1>4. /\ chain' \in Seq(Links) /\ Len(chain') = k - 1 /\ DOMAIN chain' = 1 .. k - 1
      /\ \A i \in 1 .. k - 1 : chain'[i] = chain[i + 1]
  OBVIOUS
<1>5. tail' = chain'[1] /\ tail' \in Links /\ tail' # tail
  BY <1>1, <1>3, <1>4 DEF Distinct
<1>6. \A m : LinkingNext(m) = Linking(m)
  BY DEF Linking, LinkingNext
<1>7. ASSUME NEW i \in 1 .. k - 2 PROVE JoinedNext(chain'[i], chain'[i + 1])
  <2>1. chain'[i] = chain[i + 1] /\ chain'[i + 1] = chain[i + 2] /\ i + 1 \in 1 .. k - 1
    BY <1>1, <1>4
  <2>2. Joined(chain[i + 1], chain[(i + 1) + 1]) /\ (i + 1) + 1 = i + 2
    BY <2>1 DEF LinksChain
  <2> QED
    BY <1>6, <2>1, <2>2, JoinedFrame
<1>8. LinksChain'
  <2>1. chain' # << >> /\ chain'[1] = tail' /\ chain'[Len(chain')] = head'
    <3>1. Len(chain') \in 1 .. k - 1 /\ chain'[Len(chain')] = chain[(k - 1) + 1] /\ (k - 1) + 1 = k
      BY <1>1, <1>4
    <3>2. chain' # << >>
      BY <1>1, <1>4, NotEmpty, SMTT(30)
    <3> QED
      BY <1>1, <1>5, <3>1, <3>2
  <2>2. \A i \in 1 .. Len(chain') - 1 : JoinedNext(chain'[i], chain'[i + 1])
    BY <1>4, <1>7
  <2>3. next'[head'] = Null /\ LinkingNext(head') = {}
    BY <1>6 DEF LinksChain
  <2> QED
    BY <2>1, <2>2, <2>3, LinksNext
<1>9. Distinct'
  BY <1>4 DEF Distinct
<1>10. \A n : InChain(n)' <=> InChain(n) /\ n # tail
  <2> SUFFICES ASSUME NEW n PROVE InChain(n)' <=> InChain(n) /\ n # tail
    OBVIOUS
  <2>1. ASSUME InChain(n)' PROVE InChain(n) /\ n # tail
    <3>1. PICK i \in 1 .. k - 1 : chain[i + 1] = n
      BY <1>4, <2>1 DEF InChain
    <3>2. i + 1 \in DOMAIN chain /\ i + 1 # 1 /\ 1 \in DOMAIN chain
      BY <3>1
    <3> QED
      BY <1>1, <3>1, <3>2 DEF InChain, Distinct
  <2>2. ASSUME InChain(n), n # tail PROVE InChain(n)'
    <3>1. PICK j \in 1 .. k : chain[j] = n
      BY <2>2 DEF InChain
    <3>2. j - 1 \in DOMAIN chain' /\ chain'[j - 1] = n
      BY <1>1, <1>4, <2>2, <3>1
    <3> QED
      BY <3>2 DEF InChain
  <2> QED
    BY <2>1, <2>2
<1>11. InEnqueue'
  <2>1. ASSUME NEW t \in Threads, pc[t] = "exchange" PROVE ~InChain(node[t])'
    BY <1>10, <2>1 DEF InEnqueue, InChain
  <2>2. ASSUME NEW t \in Threads, pc[t] = "link"
        PROVE  \E i \in 1 .. Len(chain') - 1 : prev[t] = chain'[i] /\ node[t] = chain'[i + 1]
    <3>1. PICK i \in 1 .. k - 1 : prev[t] = chain[i] /\ node[t] = chain[i + 1]
      BY <2>2 DEF InEnqueue
    <3>2. i # 1
      BY <1>1, <1>3, <2>2, <3>1 DEF Linking
    <3>3. /\ i - 1 \in 1 .. Len(chain') - 1 /\ chain'[i - 1] = chain[i]
          /\ chain'[(i - 1) + 1] = chain[i + 1]
      BY <1>1, <1>4, <3>1, <3>2
    <3> QED
      BY <3>1, <3>3
  <2> QED
    BY <2>1, <2>2 DEF InEnqueue
<1> QED
  BY <1>1, <1>3, <1>4, <1>5, <1>8, <1>9, <1>10, <1>11

-----------------------------------------------------------------------------
(***************************************************************************)
(* The other parts, action by action                                       *)
(***************************************************************************)

\* Nothing behind the tail and no one about to link: the tail is all there is.
LEMMA TailIsLast ==
    ASSUME TypeOK, ListInv, next[tail] = Null, Linking(tail) = {}
    PROVE  tail = head /\ Len(chain) = 1
<1> USE ChainFacts DEF ListInv, TypeOK
<1>1. ~(Len(chain) >= 2)
  <2> SUFFICES ASSUME Len(chain) >= 2 PROVE FALSE
    OBVIOUS
  <2>1. Joined(tail, chain[2]) /\ chain[2] \in Links
    BY DEF LinksChain
  <2> QED
    BY <2>1, LinksAssumption DEF Joined
<1>2. Len(chain) = 1
  BY <1>1, One DEF LinksChain
<1> QED
  BY <1>2 DEF LinksChain

LEMMA OnlyTail ==
    ASSUME TypeOK, ListInv, tail = head
    PROVE  Len(chain) = 1 /\ \A n : InChain(n) <=> n = tail
<1> USE ChainFacts DEF ListInv
<1>1. Len(chain) = 1
  <2>1. 1 \in DOMAIN chain /\ Len(chain) \in DOMAIN chain
    OBVIOUS
  <2>2. chain[1] = chain[Len(chain)]
    BY DEF LinksChain
  <2> QED
    BY <2>1, <2>2 DEF Distinct
<1> QED
  BY <1>1 DEF LinksChain, InChain

LEMMA NoneLinking ==
    ASSUME TypeOK, DummyInv, dq # "dummy", \A p \in Producers : pc[p] # "link", NEW m
    PROVE  Linking(m) = {}
BY DEF DummyInv, Linking, Threads

LEMMA EnqueueInv ==
    ASSUME QueueInv, NEW p \in Producers, NEW n \in Nodes, Enqueue(p, n)
    PROVE  QueueInv'
<1> USE DEF QueueInv
<1>1. /\ UNCHANGED <<intrusive, head, tail, prev, dq, out, phase, chain, quiet>> /\ pc[p] = "out"
      /\ next' = [next EXCEPT ![n] = Null] /\ pc' = [pc EXCEPT ![p] = "exchange"]
      /\ node' = [node EXCEPT ![p] = n] /\ unused' = unused \ {n}
      /\ phase = "open" /\ n \in unused
  BY DEF Enqueue, StoreNull
<1>2. p \in Threads /\ n \in Links /\ p # Consumer /\ n # Dummy
  BY LinksAssumption DEF Threads, Links
<1>3. ~InChain(n) /\ \A u \in Threads : pc[u] = "exchange" => node[u] # n
  BY <1>1 DEF NoUseAfterFree, InChain
<1>4. /\ next'[n] = Null /\ \A m \in Links : m # n => next'[m] = next[m]
      /\ pc'[p] = "exchange" /\ node'[p] = n
      /\ \A u \in Threads : u # p => pc'[u] = pc[u] /\ node'[u] = node[u]
  BY <1>1, <1>2 DEF TypeOK
<1>5. TypeOK'
  BY <1>1, <1>2 DEF TypeOK
<1>6. ListInv'
  BY <1>2, <1>3, StoreNullList DEF Enqueue
<1>7. NoUseAfterFree'
  BY <1>1, <1>4 DEF NoUseAfterFree
<1>8. \A m : InChain(m)' <=> InChain(m)
  BY <1>1 DEF InChain
<1>9. Accounted'
  BY <1>1, <1>2, <1>4, <1>8 DEF Accounted
<1>10. Consumer \in Threads /\ pc'[Consumer] = pc[Consumer] /\ node'[Consumer] = node[Consumer]
  BY <1>2, <1>4 DEF Threads
<1>11. next'[tail] = next[tail]
  BY <1>3, <1>4, ChainFacts DEF ListInv, TypeOK
<1>12. DummyInv'
  BY <1>1, <1>4, <1>8, <1>10, <1>11 DEF DummyInv, Threads
<1>13. QuietInv'
  BY <1>1, <1>4, <1>10, <1>11 DEF QuietInv, Threads
<1>14. ClosingInv'
  BY <1>1 DEF ClosingInv
<1> QED
  BY <1>5, <1>6, <1>7, <1>9, <1>12, <1>13, <1>14

LEMMA ExchangeInv ==
    ASSUME QueueInv, NEW t \in Threads, Exchange(t)
    PROVE  QueueInv'
<1> USE DEF QueueInv
<1>1. /\ UNCHANGED <<intrusive, tail, next, unused, node, dq, out, phase>> /\ pc[t] = "exchange"
      /\ head' = node[t] /\ prev' = [prev EXCEPT ![t] = head] /\ pc' = [pc EXCEPT ![t] = "link"]
      /\ quiet' = (quiet /\ t = Consumer)
  BY DEF Exchange
<1>2. /\ pc'[t] = "link" /\ prev'[t] = head
      /\ \A u \in Threads : u # t => pc'[u] = pc[u] /\ prev'[u] = prev[u]
  BY <1>1 DEF TypeOK
<1>3. /\ ListInv' /\ chain' \in Seq(Links)
      /\ \A n : InChain(n)' <=> InChain(n) \/ n = node[t]
  BY ExchangeList
<1>4. node[t] \in Links
  BY <1>1 DEF ListInv, InEnqueue
<1>5. TypeOK'
  BY <1>1, <1>3, <1>4 DEF TypeOK
<1>6. phase # "gone"
  BY <1>1 DEF ClosingInv, DummyInv, Threads
<1>7. NoUseAfterFree'
  <2>1. ASSUME NEW n \in unused
        PROVE  /\ ~InChain(n)'
               /\ \A u \in Threads : (pc'[u] # "out" => node'[u] # n) /\ (pc'[u] = "link" => prev'[u] # n)
    <3>1. ~InChain(n) /\ \A u \in Threads : (pc[u] # "out" => node[u] # n) /\ (pc[u] = "link" => prev[u] # n)
      BY <1>6 DEF NoUseAfterFree, InChain
    <3>2. n # head
      BY <3>1, ChainFacts DEF ListInv
    <3> QED
      BY <1>1, <1>2, <1>3, <3>1, <3>2
  <2> QED
    BY <1>1, <2>1 DEF NoUseAfterFree, InChain
<1>8. Accounted'
  BY <1>1, <1>2, <1>3, <1>6 DEF Accounted
<1>9. DummyInv'
  <2>1. \A p \in Producers : pc'[p] = "out" \/ node'[p] \in Nodes
    BY <1>1, <1>2 DEF DummyInv, Threads
  <2>2. pc'[Consumer] # "out" => node'[Consumer] = Dummy /\ dq' = "dummy"
    BY <1>1, <1>2 DEF DummyInv, Threads
  <2>3. /\ dq' \in {"second", "head", "dummy", "last"} => intrusive' /\ tail' # Dummy
        /\ dq' = "advance" => ~intrusive' /\ next'[tail'] # Null
    BY <1>1 DEF DummyInv
  <2>4. dq' = "dummy" /\ pc'[Consumer] # "link" => ~InChain(Dummy)'
    <3> SUFFICES ASSUME dq = "dummy", pc'[Consumer] # "link" PROVE ~InChain(Dummy)'
      BY <1>1
    <3>1. t # Consumer /\ t \in Producers
      BY <1>2 DEF Threads
    <3>2. pc[Consumer] # "link" /\ node[t] # Dummy
      BY <1>1, <1>2, <3>1, LinksAssumption DEF DummyInv, Threads
    <3> QED
      BY <1>3, <3>2 DEF DummyInv
  <2>5. ~intrusive' => ~InChain(Dummy)'
    <3> SUFFICES ASSUME ~intrusive PROVE ~InChain(Dummy)'
      BY <1>1
    <3>1. t # Consumer
      BY <1>1 DEF DummyInv
    <3>2. node[t] # Dummy
      BY <1>1, <3>1, LinksAssumption DEF DummyInv, Threads
    <3> QED
      BY <1>3, <3>2 DEF DummyInv
  <2> QED
    BY <2>1, <2>2, <2>3, <2>4, <2>5 DEF DummyInv
<1>10. QuietInv'
  <2> SUFFICES ASSUME dq' # "out", quiet'
               PROVE  /\ \A p \in Producers : pc'[p] # "link"
                      /\ dq' = "head" => tail' = head'
                      /\ dq' = "dummy" => IF pc'[Consumer] = "link" THEN prev'[Consumer] = tail' ELSE tail' = head'
                      /\ dq' = "last" => next'[tail'] # Null
    BY DEF QuietInv
  <2>1. t = Consumer /\ quiet /\ dq = "dummy" /\ Consumer \notin Producers
    BY <1>1, LinksAssumption DEF DummyInv
  <2>2. tail = head /\ \A p \in Producers : pc[p] # "link"
    BY <1>1, <2>1 DEF QuietInv
  <2> QED
    BY <1>1, <1>2, <2>1, <2>2 DEF Threads
<1>11. ClosingInv'
  <2>1. phase # "open" => t = Consumer
    BY <1>1 DEF ClosingInv, Threads
  <2>2. phase # "open" => \A p \in Producers : pc'[p] = "out"
    BY <1>2, <2>1, LinksAssumption DEF ClosingInv, Threads
  <2> QED
    BY <1>1, <1>6, <2>1, <2>2 DEF ClosingInv
<1> QED
  BY <1>3, <1>5, <1>7, <1>8, <1>9, <1>10, <1>11

LEMMA LinkInv ==
    ASSUME QueueInv, NEW t \in Threads, Link(t)
    PROVE  QueueInv'
<1> USE DEF QueueInv
<1>1. /\ UNCHANGED <<intrusive, head, tail, unused, out, phase, chain, quiet>> /\ pc[t] = "link"
      /\ pc' = [pc EXCEPT ![t] = "out"]
      /\ node' = [node EXCEPT ![t] = Null] /\ prev' = [prev EXCEPT ![t] = Null]
      /\ dq' = IF t = Consumer THEN "last" ELSE dq
      /\ next' = [next EXCEPT ![prev[t]] = node[t]]
  BY DEF Link, Linked
<1>2. /\ pc'[t] = "out" /\ node'[t] = Null /\ prev'[t] = Null
      /\ \A u \in Threads : u # t => pc'[u] = pc[u] /\ prev'[u] = prev[u] /\ node'[u] = node[u]
  BY <1>1 DEF TypeOK
<1>3. /\ ListInv' /\ prev[t] \in Links /\ node[t] \in Links
      /\ \A m \in Links : next[m] # Null => next'[m] = next[m]
      /\ next' \in [Links -> Links \cup {Null}]
  BY LinkList
<1>4. TypeOK'
  BY <1>1, <1>3 DEF TypeOK
<1>5. \A n : InChain(n)' <=> InChain(n)
  BY <1>1 DEF InChain
<1>6. NoUseAfterFree'
  BY <1>1, <1>2 DEF NoUseAfterFree
<1>7. Accounted'
  BY <1>1, <1>2, <1>5 DEF Accounted
<1>8. next[tail] # Null => next'[tail] # Null
  BY <1>3 DEF TypeOK
<1>9. t = Consumer => dq = "dummy" /\ intrusive /\ tail # Dummy /\ node[t] = Dummy
  BY <1>1 DEF DummyInv
<1>10. DummyInv'
  <2>1. \A p \in Producers : pc'[p] = "out" \/ node'[p] \in Nodes
    BY <1>1, <1>2 DEF DummyInv, Threads
  <2>2. pc'[Consumer] # "out" => node'[Consumer] = Dummy /\ dq' = "dummy"
    BY <1>1, <1>2 DEF DummyInv, Threads
  <2>3. /\ dq' \in {"second", "head", "dummy", "last"} => intrusive' /\ tail' # Dummy
        /\ dq' = "advance" => ~intrusive' /\ next'[tail'] # Null
    BY <1>1, <1>8, <1>9 DEF DummyInv
  <2>4. dq' = "dummy" /\ pc'[Consumer] # "link" => ~InChain(Dummy)'
    BY <1>1, <1>2, <1>5 DEF DummyInv, Threads
  <2> QED
    BY <1>1, <1>5, <2>1, <2>2, <2>3, <2>4 DEF DummyInv
<1>11. QuietInv'
  <2> SUFFICES ASSUME dq' # "out", quiet'
               PROVE  /\ \A p \in Producers : pc'[p] # "link"
                      /\ dq' = "head" => tail' = head'
                      /\ dq' = "dummy" => IF pc'[Consumer] = "link" THEN prev'[Consumer] = tail' ELSE tail' = head'
                      /\ dq' = "last" => next'[tail'] # Null
    BY DEF QuietInv
  <2>1. quiet /\ dq # "out"
    BY <1>1, <1>9
  <2>2. t = Consumer
    BY <1>1, <2>1 DEF QuietInv, Threads
  <2>3. prev[t] = tail /\ \A p \in Producers : pc[p] # "link"
    BY <1>1, <1>9, <2>1, <2>2 DEF QuietInv
  <2>4. next'[tail] = Dummy
    BY <1>1, <1>9, <2>2, <2>3 DEF TypeOK
  <2> QED
    BY <1>1, <1>2, <2>2, <2>3, <2>4, LinksAssumption DEF Threads, Links
<1>12. ClosingInv'
  <2>1. phase # "gone" /\ (phase # "open" => t = Consumer)
    BY <1>1, <1>9 DEF ClosingInv, Threads
  <2>2. phase # "open" => \A p \in Producers : pc'[p] = "out"
    BY <1>2, <2>1, LinksAssumption DEF ClosingInv, Threads
  <2> QED
    BY <1>1, <1>9, <2>1, <2>2 DEF ClosingInv
<1> QED
  BY <1>3, <1>4, <1>6, <1>7, <1>10, <1>11, <1>12

\* The consumer outside Enqueue().
LEMMA ConsumerOut ==
    ASSUME QueueInv, dq # "dummy"
    PROVE  pc[Consumer] = "out"
BY DEF QueueInv, DummyInv

\* Nothing seen behind the tail in a Dequeue() that was quiet: the tail is the head.
LEMMA QuietTail ==
    ASSUME QueueInv, dq # "dummy", QuietSoFar, next[tail] = Null
    PROVE  tail = head
<1> USE DEF QueueInv
<1>1. \A p \in Producers : pc[p] # "link"
  BY DEF QuietSoFar, QuietInv
<1>2. Linking(tail) = {}
  BY <1>1, NoneLinking
<1> QED
  BY <1>2, TailIsLast

LEMMA ClosingQuiet ==
    ASSUME QueueInv, phase = "closing"
    PROVE  QuietSoFar
BY DEF QueueInv, ClosingInv, QuietSoFar

\* Dequeue() returns false: the destructor has emptied the list then.
LEMMA ReturnFalseInv ==
    ASSUME QueueInv, ReturnFalse, ReturnsFalse, phase # "gone"
    PROVE  QueueInv'
<1> USE DEF QueueInv
<1>1. /\ dq' = "out" /\ UNCHANGED <<intrusive, head, next, enqVars, tail, out, chain>>
      /\ quiet' = QuietSoFar
      /\ phase' = (IF phase = "closing" THEN "gone" ELSE phase)
      /\ unused' = (IF phase = "closing" /\ ~intrusive THEN unused \cup {head} ELSE unused)
  BY DEF ReturnFalse, Goes
<1>2. dq # "dummy" /\ pc[Consumer] = "out"
  BY ConsumerOut DEF ReturnsFalse
<1>3. quiet' \in BOOLEAN
  BY <1>1 DEF QuietSoFar, TypeOK
<1>4. head \in Links /\ (~intrusive => head \in Nodes)
  BY ChainFacts DEF ListInv, DummyInv, TypeOK, Links
<1>5. TypeOK'
  BY <1>1, <1>3, <1>4 DEF TypeOK, enqVars
<1>6. ListInv'
  BY <1>1 DEF ListInv, LinksChain, Joined, Linking, Distinct, InEnqueue, InChain, enqVars
<1>7. \A n : InChain(n)' <=> InChain(n)
  BY <1>1 DEF InChain
<1>8. DummyInv'
  BY <1>1, <1>2, <1>7 DEF DummyInv, enqVars
<1>9. QuietInv'
  BY <1>1 DEF QuietInv
<1>10. CASE phase = "closing"
  <2>1. QuietSoFar /\ \A p \in Producers : pc[p] = "out"
    BY <1>10, ClosingQuiet DEF ClosingInv
  <2>2. dq = "out" /\ (intrusive => tail = Dummy) /\ next[tail] = Null
    BY <2>1 DEF ReturnsFalse, QuietSoFar, QuietInv
  <2>3. tail = head
    BY <1>2, <2>1, <2>2, QuietTail
  <2>4. \A n : InChain(n) <=> n = tail
    BY <2>3, OnlyTail
  <2>5. \A n \in Nodes : n \in unused \/ n = head
    BY <1>2, <1>10, <2>1, <2>3, <2>4 DEF Accounted, Threads
  <2>6. unused' = Nodes
    <3>1. CASE intrusive
      <4>1. head \notin Nodes
        BY <2>2, <2>3, <3>1, LinksAssumption
      <4>2. unused \subseteq Nodes /\ \A n \in Nodes : n \in unused
        BY <2>5, <4>1 DEF TypeOK
      <4> QED
        BY <1>1, <3>1, <4>2
    <3>2. CASE ~intrusive
      BY <1>1, <1>4, <1>10, <2>5, <3>2 DEF TypeOK
    <3> QED
      BY <3>1, <3>2
  <2>7. ClosingInv'
    BY <1>1, <1>10, <2>1, <2>6 DEF ClosingInv, enqVars
  <2>8. NoUseAfterFree' /\ Accounted'
    BY <1>1, <1>10 DEF NoUseAfterFree, Accounted
  <2> QED
    BY <1>5, <1>6, <1>8, <1>9, <2>7, <2>8
<1>11. CASE phase # "closing"
  <2>1. ClosingInv'
    BY <1>1, <1>11 DEF ClosingInv, TypeOK, enqVars
  <2>2. NoUseAfterFree'
    BY <1>1, <1>11 DEF NoUseAfterFree, enqVars
  <2>3. Accounted'
    BY <1>1, <1>7, <1>11 DEF Accounted, enqVars
  <2> QED
    BY <1>5, <1>6, <1>8, <1>9, <2>1, <2>2, <2>3
<1> QED
  BY <1>10, <1>11

\* A step of Dequeue() that leaves the list alone.
LEMMA GoesFrame ==
    ASSUME QueueInv, NEW s, Goes(s), UNCHANGED <<tail, unused, out, phase, chain>>,
           s \in {"head", "dummy", "advance"}, dq # "dummy", phase # "gone"
    PROVE  /\ TypeOK' /\ ListInv' /\ NoUseAfterFree' /\ Accounted' /\ ClosingInv'
           /\ pc[Consumer] = "out" /\ (\A n : InChain(n)' <=> InChain(n))
           /\ QuietSoFar => \A p \in Producers : pc[p] # "link"
<1> USE DEF QueueInv
<1>1. dq' = s /\ UNCHANGED <<intrusive, head, next, enqVars>> /\ quiet' = QuietSoFar
  BY DEF Goes
<1>2. pc[Consumer] = "out"
  BY ConsumerOut
<1>3. quiet' \in BOOLEAN
  BY <1>1 DEF QuietSoFar, TypeOK
<1>4. TypeOK'
  BY <1>1, <1>3 DEF TypeOK, enqVars
<1>5. ListInv'
  BY <1>1 DEF ListInv, LinksChain, Joined, Linking, Distinct, InEnqueue, InChain, enqVars
<1>6. NoUseAfterFree'
  BY <1>1 DEF NoUseAfterFree, enqVars
<1>7. \A n : InChain(n)' <=> InChain(n)
  BY <1>1 DEF InChain
<1>8. Accounted'
  BY <1>1, <1>7 DEF Accounted, enqVars
<1>9. ClosingInv'
  <2>1. phase = "closing" => quiet'
    BY <1>1, ClosingQuiet
  <2> QED
    BY <1>1, <2>1 DEF ClosingInv, enqVars
<1>10. QuietSoFar => \A p \in Producers : pc[p] # "link"
  BY DEF QuietSoFar, QuietInv
<1> QED
  BY <1>2, <1>4, <1>5, <1>6, <1>7, <1>8, <1>9, <1>10

LEMMA LoadInv ==
    ASSUME QueueInv, Load
    PROVE  QueueInv'
<1>1. /\ phase # "gone" /\ dq = "out" /\ ~intrusive /\ next[tail] # Null
      /\ Goes("advance") /\ UNCHANGED <<tail, unused, out, phase, chain>>
  BY DEF Load, Begins
<1>2. dq' = "advance" /\ UNCHANGED <<intrusive, head, next, enqVars>> /\ quiet' = QuietSoFar
  BY <1>1 DEF Goes
<1>3. /\ TypeOK' /\ ListInv' /\ NoUseAfterFree' /\ Accounted' /\ ClosingInv'
      /\ pc[Consumer] = "out" /\ (\A n : InChain(n)' <=> InChain(n))
      /\ QuietSoFar => \A p \in Producers : pc[p] # "link"
  BY <1>1, GoesFrame
<1>4. DummyInv'
  BY <1>1, <1>2, <1>3 DEF DummyInv, enqVars, QueueInv
<1>5. QuietInv'
  BY <1>2, <1>3 DEF QuietInv, enqVars
<1> QED
  BY <1>3, <1>4, <1>5 DEF QueueInv

LEMMA NoLinkInv ==
    ASSUME QueueInv, NoLink
    PROVE  QueueInv'
<1>1. /\ phase # "gone" /\ dq \in {"out", "second"} /\ intrusive /\ next[tail] = Null /\ tail # Dummy
      /\ Goes("head") /\ UNCHANGED <<tail, unused, out, phase, chain>>
  BY DEF NoLink, AtItem, Begins, QueueInv, DummyInv, ClosingInv
<1>2. dq' = "head" /\ UNCHANGED <<intrusive, head, next, enqVars>> /\ quiet' = QuietSoFar
  BY <1>1 DEF Goes
<1>3. /\ TypeOK' /\ ListInv' /\ NoUseAfterFree' /\ Accounted' /\ ClosingInv'
      /\ pc[Consumer] = "out" /\ (\A n : InChain(n)' <=> InChain(n))
      /\ QuietSoFar => \A p \in Producers : pc[p] # "link"
  BY <1>1, GoesFrame
<1>4. DummyInv'
  BY <1>1, <1>2, <1>3 DEF DummyInv, enqVars, QueueInv
<1>5. QuietSoFar => tail = head
  BY <1>1, QuietTail
<1>6. QuietInv'
  BY <1>1, <1>2, <1>3, <1>5 DEF QuietInv, enqVars
<1> QED
  BY <1>3, <1>4, <1>6 DEF QueueInv

LEMMA ToDummyInv ==
    ASSUME QueueInv, dq = "head", tail = head, Goes("dummy"),
           UNCHANGED <<tail, unused, out, phase, chain>>
    PROVE  QueueInv'
<1>1. phase # "gone" /\ intrusive /\ tail # Dummy
  BY DEF QueueInv, DummyInv, ClosingInv
<1>2. dq' = "dummy" /\ UNCHANGED <<intrusive, head, next, enqVars>> /\ quiet' = QuietSoFar
  BY DEF Goes
<1>3. /\ TypeOK' /\ ListInv' /\ NoUseAfterFree' /\ Accounted' /\ ClosingInv'
      /\ pc[Consumer] = "out" /\ (\A n : InChain(n)' <=> InChain(n))
      /\ QuietSoFar => \A p \in Producers : pc[p] # "link"
  BY <1>1, GoesFrame
<1>4. ~InChain(Dummy)
  BY <1>1, OnlyTail DEF QueueInv
<1>5. DummyInv'
  BY <1>1, <1>2, <1>3, <1>4 DEF DummyInv, enqVars, QueueInv
<1>6. QuietInv'
  BY <1>2, <1>3 DEF QuietInv, enqVars
<1> QED
  BY <1>3, <1>5, <1>6 DEF QueueInv

\* The consumer appends the dummy, which is in no one's hands.
LEMMA EnqueueDummyInv ==
    ASSUME QueueInv, EnqueueDummy
    PROVE  QueueInv'
<1> USE DEF QueueInv
<1>1. /\ UNCHANGED <<intrusive, head, tail, prev, dq, out, phase, chain, quiet, unused>>
      /\ pc[Consumer] = "out" /\ dq = "dummy"
      /\ next' = [next EXCEPT ![Dummy] = Null] /\ pc' = [pc EXCEPT ![Consumer] = "exchange"]
      /\ node' = [node EXCEPT ![Consumer] = Dummy]
  BY DEF EnqueueDummy, StoreNull
<1>2. Consumer \in Threads /\ Dummy \in Links /\ Dummy \notin Nodes /\ Consumer \notin Producers
  BY LinksAssumption DEF Threads, Links
<1>3. ~InChain(Dummy) /\ tail # Dummy /\ intrusive /\ phase # "gone"
  BY <1>1 DEF DummyInv, ClosingInv
<1>4. \A u \in Threads : pc[u] = "exchange" => node[u] # Dummy
  BY <1>1, <1>2 DEF DummyInv, Threads
<1>5. /\ \A m \in Links : m # Dummy => next'[m] = next[m]
      /\ pc'[Consumer] = "exchange" /\ node'[Consumer] = Dummy
      /\ \A u \in Threads : u # Consumer => pc'[u] = pc[u] /\ node'[u] = node[u]
  BY <1>1, <1>2 DEF TypeOK
<1>6. TypeOK'
  BY <1>1, <1>2 DEF TypeOK
<1>7. ListInv'
  BY <1>2, <1>3, <1>4, StoreNullList DEF EnqueueDummy
<1>8. \A n : InChain(n)' <=> InChain(n)
  BY <1>1 DEF InChain
<1>9. NoUseAfterFree'
  BY <1>1, <1>2, <1>5 DEF NoUseAfterFree, TypeOK
<1>10. Accounted'
  BY <1>1, <1>5, <1>8 DEF Accounted
<1>11. DummyInv'
  BY <1>1, <1>2, <1>3, <1>5, <1>8 DEF DummyInv, Threads
<1>12. QuietInv'
  BY <1>1, <1>2, <1>5 DEF QuietInv, Threads
<1>13. ClosingInv'
  BY <1>1, <1>2, <1>5 DEF ClosingInv, Threads
<1> QED
  BY <1>6, <1>7, <1>9, <1>10, <1>11, <1>12, <1>13

\* Dequeue() hands an item over and gives the old tail up.
LEMMA HandOverInv ==
    ASSUME QueueInv, NEW n \in Nodes, HandOver(n), next[tail] # Null, tail # Dummy,
           dq # "dummy", phase # "gone"
    PROVE  QueueInv'
<1> USE DEF QueueInv
<1>1. /\ dq' = "out" /\ UNCHANGED <<intrusive, head, next, enqVars, phase>> /\ quiet' = QuietSoFar
      /\ tail' = next[tail] /\ unused' = unused \cup {tail} /\ out' = n /\ chain' = Tail(chain)
  BY DEF HandOver, Goes
<1>2. /\ ListInv' /\ chain' \in Seq(Links) /\ Linking(tail) = {}
      /\ tail' \in Links /\ tail' # tail
      /\ \A m : InChain(m)' <=> InChain(m) /\ m # tail
  BY <1>1, PopList
<1>3. pc[Consumer] = "out" /\ tail \in Nodes
  BY ConsumerOut DEF TypeOK, Links
<1>4. quiet' \in BOOLEAN
  BY <1>1 DEF QuietSoFar, TypeOK
<1>5. TypeOK'
  BY <1>1, <1>2, <1>3, <1>4 DEF TypeOK, enqVars
<1>6. \A t \in Threads : (pc[t] # "out" => node[t] # tail) /\ (pc[t] = "link" => prev[t] # tail)
  <2> SUFFICES ASSUME NEW t \in Threads
               PROVE  (pc[t] # "out" => node[t] # tail) /\ (pc[t] = "link" => prev[t] # tail)
    OBVIOUS
  <2>1. ASSUME pc[t] = "exchange" PROVE node[t] # tail
    BY <2>1, ChainFacts DEF ListInv, InEnqueue
  <2>2. ASSUME pc[t] = "link" PROVE node[t] # tail /\ prev[t] # tail
    <3>1. PICK i \in 1 .. Len(chain) - 1 : prev[t] = chain[i] /\ node[t] = chain[i + 1]
      BY <2>2 DEF ListInv, InEnqueue
    <3>2. chain[1] = tail /\ 1 \in DOMAIN chain /\ i + 1 \in DOMAIN chain /\ i + 1 # 1
      BY ChainFacts DEF ListInv, LinksChain
    <3> QED
      BY <1>2, <2>2, <3>1, <3>2 DEF ListInv, Distinct, Linking
  <2> QED
    BY <2>1, <2>2 DEF TypeOK
<1>7. NoUseAfterFree'
  <2> SUFFICES ASSUME NEW m \in unused'
               PROVE  /\ ~InChain(m)'
                      /\ \A t \in Threads : (pc[t] # "out" => node[t] # m) /\ (pc[t] = "link" => prev[t] # m)
    BY <1>1 DEF NoUseAfterFree, InChain, enqVars
  <2>1. CASE m = tail
    BY <1>2, <1>6, <2>1
  <2>2. CASE m \in unused
    BY <1>2, <2>2 DEF NoUseAfterFree, InChain
  <2> QED
    BY <1>1, <2>1, <2>2
<1>8. Accounted'
  BY <1>1, <1>2 DEF Accounted, enqVars
<1>9. DummyInv'
  BY <1>1, <1>2, <1>3 DEF DummyInv, enqVars
<1>10. QuietInv'
  BY <1>1 DEF QuietInv
<1>11. ClosingInv'
  BY <1>1 DEF ClosingInv, enqVars
<1> QED
  BY <1>2, <1>5, <1>7, <1>8, <1>9, <1>10, <1>11

\* The tail leaves the dummy behind.
LEMMA SkipDummyInv ==
    ASSUME QueueInv, SkipDummy
    PROVE  QueueInv'
<1> USE DEF QueueInv
<1>1. /\ dq' = "second" /\ UNCHANGED <<intrusive, head, next, enqVars, unused, out, phase>>
      /\ quiet' = QuietSoFar /\ phase # "gone" /\ dq = "out" /\ intrusive /\ tail = Dummy
      /\ next[tail] # Null /\ tail' = next[tail] /\ chain' = Tail(chain)
  BY DEF SkipDummy, Begins, Goes
<1>2. /\ ListInv' /\ chain' \in Seq(Links)
      /\ tail' \in Links /\ tail' # tail
      /\ \A m : InChain(m)' <=> InChain(m) /\ m # tail
  BY <1>1, PopList
<1>3. pc[Consumer] = "out" /\ Dummy \notin Nodes
  BY <1>1, ConsumerOut, LinksAssumption
<1>4. quiet' \in BOOLEAN
  BY <1>1 DEF QuietSoFar, TypeOK
<1>5. TypeOK'
  BY <1>1, <1>2, <1>4 DEF TypeOK, enqVars
<1>6. NoUseAfterFree'
  <2> SUFFICES ASSUME NEW m \in unused
               PROVE  /\ ~InChain(m)'
                      /\ \A t \in Threads : (pc[t] # "out" => node[t] # m) /\ (pc[t] = "link" => prev[t] # m)
    BY <1>1 DEF NoUseAfterFree, InChain, enqVars
  <2> QED
    BY <1>1, <1>2 DEF NoUseAfterFree, InChain
<1>7. Accounted'
  BY <1>1, <1>2, <1>3 DEF Accounted, enqVars
<1>8. DummyInv'
  BY <1>1, <1>2, <1>3 DEF DummyInv, enqVars
<1>9. QuietInv'
  BY <1>1 DEF QuietInv, QuietSoFar, enqVars
<1>10. ClosingInv'
  <2>1. phase = "closing" => quiet'
    BY <1>1, ClosingQuiet
  <2> QED
    BY <1>1, <2>1 DEF ClosingInv, enqVars
<1> QED
  BY <1>2, <1>5, <1>6, <1>7, <1>8, <1>9, <1>10

LEMMA DestroyInv ==
    ASSUME QueueInv, Destroy
    PROVE  QueueInv'
<1> USE DEF QueueInv
<1>1. /\ phase = "open" /\ dq = "out" /\ (\A t \in Threads : pc[t] = "out") /\ phase' = "closing"
      /\ UNCHANGED <<intrusive, head, tail, next, unused, enqVars, dq, out, chain, quiet>>
  BY DEF Destroy
<1>2. TypeOK'
  BY <1>1 DEF TypeOK, enqVars
<1>3. ListInv'
  BY <1>1 DEF ListInv, LinksChain, Joined, Linking, Distinct, InEnqueue, InChain, enqVars
<1>4. NoUseAfterFree' /\ Accounted'
  BY <1>1 DEF NoUseAfterFree, Accounted, InChain, enqVars
<1>5. DummyInv' /\ QuietInv'
  BY <1>1 DEF DummyInv, QuietInv, InChain, enqVars
<1>6. ClosingInv'
  BY <1>1 DEF ClosingInv, Threads, enqVars
<1> QED
  BY <1>2, <1>3, <1>4, <1>5, <1>6

LEMMA StutterInv ==
    ASSUME QueueInv, UNCHANGED vars
    PROVE  QueueInv'
<1> USE DEF QueueInv, vars, enqVars
<1>1. TypeOK'
  BY DEF TypeOK
<1>2. ListInv'
  BY DEF ListInv, LinksChain, Joined, Linking, Distinct, InEnqueue, InChain
<1>3. NoUseAfterFree' /\ Accounted'
  BY DEF NoUseAfterFree, Accounted, InChain
<1>4. DummyInv' /\ QuietInv' /\ ClosingInv'
  BY DEF DummyInv, QuietInv, ClosingInv, InChain
<1> QED
  BY <1>1, <1>2, <1>3, <1>4

-----------------------------------------------------------------------------
(***************************************************************************)
(* The chain without the dummy                                             *)
(***************************************************************************)
LEMMA TailOfOne == ASSUME NEW S, NEW q \in Seq(S), Len(q) = 1 PROVE Tail(q) = << >>
<1>1. q # << >>
  OBVIOUS
<1>2. Tail(q) \in Seq(S) /\ Len(Tail(q)) = 0
  BY <1>1, HeadTailProperties
<1> QED
  BY <1>2, EmptySeq

LEMMA TailOfMore ==
    ASSUME NEW S, NEW q \in Seq(S), Len(q) >= 2
    PROVE  Tail(q) # << >> /\ Head(Tail(q)) = q[2]
<1> DEFINE t == Tail(q)
           k == Len(q)
<1>1. q # << >> /\ k \in Nat
  OBVIOUS
<1>2. t \in Seq(S) /\ Len(t) = k - 1 /\ \A i \in 1 .. k - 1 : t[i] = q[i + 1]
  BY <1>1, HeadTailProperties
<1> HIDE DEF t
<1>3. t # << >> /\ 1 \in 1 .. k - 1
  BY <1>1, <1>2
<1>4. Head(t) = q[2]
  BY <1>2, <1>3
<1> QED
  BY <1>3, <1>4 DEF t

\* What is left of q without the only x, which is at d.
LEMMA WithoutAt ==
    ASSUME NEW S, NEW q \in Seq(S), NEW x, NEW d \in 1 .. Len(q), q[d] = x,
           \A i \in 1 .. Len(q) : q[i] = x => i = d
    PROVE  /\ Without(q, x) \in Seq(S) /\ Len(Without(q, x)) = Len(q) - 1
           /\ \A i \in 1 .. Len(q) - 1 : Without(q, x)[i] = IF i < d THEN q[i] ELSE q[i + 1]
<1> DEFINE w == [i \in 1 .. Len(q) - 1 |-> IF i < d THEN q[i] ELSE q[i + 1]]
<1>1. Len(q) \in Nat /\ DOMAIN q = 1 .. Len(q) /\ Len(q) - 1 \in Nat
  OBVIOUS
<1>2. (CHOOSE i \in DOMAIN q : q[i] = x) = d
  BY <1>1
<1>3. Without(q, x) = w
  BY <1>1, <1>2 DEF Without
<1>4. w \in Seq(S)
  BY <1>1
<1>5. Len(w) = Len(q) - 1
  BY <1>1
<1>6. \A i \in 1 .. Len(q) - 1 : w[i] = IF i < d THEN q[i] ELSE q[i + 1]
  OBVIOUS
<1> QED
  BY <1>3, <1>4, <1>5, <1>6

LEMMA WithoutNone ==
    ASSUME NEW q, NEW x, \A i \in DOMAIN q : q[i] # x
    PROVE  Without(q, x) = q
BY DEF Without

LEMMA WithoutAppend ==
    ASSUME NEW S, NEW q \in Seq(S), NEW x, NEW y \in S, x # y,
           \A i, j \in 1 .. Len(q) : q[i] = x /\ q[j] = x => i = j
    PROVE  /\ Without(q, x) \in Seq(S)
           /\ Without(Append(q, y), x) = Append(Without(q, x), y)
<1> DEFINE a == Append(q, y)
<1>1. a \in Seq(S) /\ Len(a) = Len(q) + 1 /\ a[Len(q) + 1] = y /\ Len(q) \in Nat
      /\ \A i \in 1 .. Len(q) : a[i] = q[i]
  OBVIOUS
<1>2. DOMAIN a = 1 .. Len(q) + 1 /\ DOMAIN q = 1 .. Len(q)
  BY <1>1
<1> HIDE DEF a
<1>3. CASE \A i \in 1 .. Len(q) : q[i] # x
  <2>1. Without(q, x) = q
    BY <1>2, <1>3, WithoutNone
  <2>2. \A i \in DOMAIN a : a[i] # x
    BY <1>1, <1>2, <1>3
  <2>3. Without(a, x) = a
    BY <2>2, WithoutNone
  <2> QED
    BY <2>1, <2>3 DEF a
<1>4. CASE \E i \in 1 .. Len(q) : q[i] = x
  <2>1. PICK d \in 1 .. Len(q) : q[d] = x
    BY <1>4
  <2>2. /\ Without(q, x) \in Seq(S) /\ Len(Without(q, x)) = Len(q) - 1
        /\ \A i \in 1 .. Len(q) - 1 : Without(q, x)[i] = IF i < d THEN q[i] ELSE q[i + 1]
    BY <2>1, WithoutAt
  <2>3. /\ Without(a, x) \in Seq(S) /\ Len(Without(a, x)) = Len(q)
        /\ \A i \in 1 .. Len(q) : Without(a, x)[i] = IF i < d THEN a[i] ELSE a[i + 1]
    <3>1. d \in 1 .. Len(a) /\ a[d] = x /\ \A i \in 1 .. Len(a) : a[i] = x => i = d
      BY <1>1, <2>1
    <3>2. /\ Without(a, x) \in Seq(S) /\ Len(Without(a, x)) = Len(a) - 1
          /\ \A i \in 1 .. Len(a) - 1 : Without(a, x)[i] = IF i < d THEN a[i] ELSE a[i + 1]
      <4>1. a \in Seq(S)
        BY <1>1
      <4> QED
        BY <3>1, <4>1, WithoutAt
    <3>3. Len(a) - 1 = Len(q)
      BY <1>1
    <3> QED
      BY <3>2, <3>3
  <2> DEFINE w == Append(Without(q, x), y)
  <2>4. /\ w \in Seq(S) /\ Len(w) = Len(q) /\ w[Len(q)] = y
        /\ \A i \in 1 .. Len(q) - 1 : w[i] = Without(q, x)[i]
    BY <2>2, AppendProperties
  <2> HIDE DEF w
  <2>5. ASSUME NEW i \in 1 .. Len(q) PROVE Without(a, x)[i] = w[i]
    <3>1. CASE i = Len(q)
      <4>1. ~(i < d) /\ a[i + 1] = y
        BY <1>1, <3>1
      <4> QED
        BY <2>3, <2>4, <3>1, <4>1
    <3>2. CASE i # Len(q)
      <4>1. i \in 1 .. Len(q) - 1 /\ a[i] = q[i] /\ a[i + 1] = q[i + 1]
        BY <1>1, <3>2
      <4> QED
        BY <2>2, <2>3, <2>4, <4>1
    <3> QED
      BY <3>1, <3>2
  <2>6. Without(a, x) = w
    BY <2>3, <2>4, <2>5, SeqEqual
  <2> QED
    BY <2>2, <2>6 DEF w, a
<1> QED
  BY <1>3, <1>4

LEMMA WithoutAppended ==
    ASSUME NEW S, NEW q \in Seq(S), NEW x \in S, \A i \in 1 .. Len(q) : q[i] # x
    PROVE  Without(Append(q, x), x) = q
<1> DEFINE a == Append(q, x)
           d == Len(q) + 1
<1>1. a \in Seq(S) /\ Len(a) = d /\ a[d] = x /\ Len(q) \in Nat
      /\ \A i \in 1 .. Len(q) : a[i] = q[i]
  OBVIOUS
<1>2. d \in 1 .. d /\ d - 1 = Len(q) /\ \A i \in 1 .. Len(q) : i < d
  BY <1>1
<1>3. \A i \in 1 .. d : i \in 1 .. Len(q) \/ i = d
  BY <1>1
<1> HIDE DEF a, d
<1>4. /\ a \in Seq(S) /\ d \in 1 .. Len(a) /\ a[d] = x
      /\ \A i \in 1 .. Len(a) : a[i] = x => i = d
  BY <1>1, <1>2, <1>3
<1>5. /\ Without(a, x) \in Seq(S) /\ Len(Without(a, x)) = Len(a) - 1
      /\ \A i \in 1 .. Len(a) - 1 : Without(a, x)[i] = IF i < d THEN a[i] ELSE a[i + 1]
  BY <1>4, WithoutAt, Zenon
<1>6. \A i \in 1 .. Len(q) : Without(a, x)[i] = q[i]
  BY <1>1, <1>2, <1>5
<1>7. Without(a, x) = q
  BY <1>1, <1>2, <1>5, <1>6, SeqEqual
<1> QED
  BY <1>7 DEF a

LEMMA WithoutHead ==
    ASSUME NEW S, NEW q \in Seq(S), q # << >>,
           \A i \in 2 .. Len(q) : q[i] # q[1]
    PROVE  Without(q, q[1]) = Tail(q)
<1>1. Len(q) \in Nat /\ Len(q) > 0 /\ Tail(q) \in Seq(S) /\ Len(Tail(q)) = Len(q) - 1
      /\ \A i \in 1 .. Len(q) - 1 : Tail(q)[i] = q[i + 1]
  OBVIOUS
<1>2. 1 \in 1 .. Len(q) /\ \A i \in 1 .. Len(q) : q[i] = q[1] => i = 1
  BY <1>1
<1>3. /\ Without(q, q[1]) \in Seq(S) /\ Len(Without(q, q[1])) = Len(q) - 1
      /\ \A i \in 1 .. Len(q) - 1 : Without(q, q[1])[i] = IF i < 1 THEN q[i] ELSE q[i + 1]
  BY <1>2, WithoutAt
<1>4. ASSUME NEW i \in 1 .. Len(q) - 1 PROVE Without(q, q[1])[i] = Tail(q)[i]
  <2>1. ~(i < 1)
    BY <1>1
  <2>2. Without(q, q[1])[i] = q[i + 1]
    BY <1>3, <2>1
  <2> QED
    BY <1>1, <2>2
<1> QED
  BY <1>1, <1>3, <1>4, SeqEqual

LEMMA WithoutTail ==
    ASSUME NEW S, NEW q \in Seq(S), NEW x, q # << >>, q[1] # x,
           \A i, j \in 1 .. Len(q) : q[i] = x /\ q[j] = x => i = j
    PROVE  /\ Without(q, x) # << >> /\ Head(Without(q, x)) = q[1]
           /\ Without(Tail(q), x) = Tail(Without(q, x))
<1> DEFINE t == Tail(q)
<1>1. Len(q) \in Nat /\ Len(q) > 0 /\ t \in Seq(S) /\ Len(t) = Len(q) - 1
      /\ \A i \in 1 .. Len(q) - 1 : t[i] = q[i + 1]
  OBVIOUS
<1>2. DOMAIN t = 1 .. Len(q) - 1 /\ DOMAIN q = 1 .. Len(q)
  BY <1>1
<1> HIDE DEF t
<1>3. CASE \A i \in 1 .. Len(q) : q[i] # x
  <2>1. Without(q, x) = q
    BY <1>2, <1>3, WithoutNone
  <2>2. \A i \in DOMAIN t : t[i] # x
    BY <1>1, <1>2, <1>3
  <2>3. Without(t, x) = t
    BY <2>2, WithoutNone
  <2> QED
    BY <2>1, <2>3 DEF t
<1>4. CASE \E i \in 1 .. Len(q) : q[i] = x
  <2>1. PICK d \in 1 .. Len(q) : q[d] = x
    BY <1>4
  <2>2. d \in 2 .. Len(q) /\ Len(q) >= 2
    BY <1>1, <2>1
  <2> DEFINE w == Without(q, x)
  <2>3. /\ w \in Seq(S) /\ Len(w) = Len(q) - 1
        /\ \A i \in 1 .. Len(q) - 1 : w[i] = IF i < d THEN q[i] ELSE q[i + 1]
    BY <2>1, WithoutAt
  <2> HIDE DEF w
  <2>4. w # << >> /\ w[1] = q[1]
    BY <1>1, <2>2, <2>3
  <2>5. Head(w) = q[1]
    BY <2>3, <2>4
  <2>6. PICK e \in 1 .. Len(t) :
           e + 1 = d /\ t[e] = x /\ \A i \in 1 .. Len(t) : t[i] = x => i = e
    <3>1. d - 1 \in 1 .. Len(q) - 1 /\ (d - 1) + 1 = d
      BY <2>2
    <3>2. ASSUME NEW i \in 1 .. Len(q) - 1, t[i] = x PROVE i = d - 1
      <4>1. q[i + 1] = x /\ i + 1 \in 1 .. Len(q)
        BY <1>1, <3>2
      <4>2. i + 1 = d
        BY <2>1, <4>1
      <4> QED
        BY <4>2
    <3> QED
      BY <1>1, <2>1, <3>1, <3>2
  <2>7. /\ Without(t, x) \in Seq(S) /\ Len(Without(t, x)) = Len(t) - 1
        /\ \A i \in 1 .. Len(t) - 1 : Without(t, x)[i] = IF i < e THEN t[i] ELSE t[i + 1]
    <3>1. t \in Seq(S)
      BY <1>1
    <3> QED
      BY <2>6, <3>1, WithoutAt
  <2>8. /\ Tail(w) \in Seq(S) /\ Len(Tail(w)) = Len(q) - 2
        /\ \A i \in 1 .. Len(q) - 2 : Tail(w)[i] = w[i + 1]
    BY <1>1, <2>3, <2>4
  <2>9. ASSUME NEW i \in 1 .. Len(q) - 2 PROVE Without(t, x)[i] = Tail(w)[i]
    <3>1. /\ i \in 1 .. Len(t) - 1 /\ i \in 1 .. Len(q) - 1 /\ i + 1 \in 1 .. Len(q) - 1
          /\ t[i] = q[i + 1] /\ t[i + 1] = q[(i + 1) + 1]
      BY <1>1
    <3>2. (i < e) <=> (i + 1 < d)
      BY <2>6
    <3>3. Without(t, x)[i] = IF i < e THEN q[i + 1] ELSE q[(i + 1) + 1]
      BY <2>7, <3>1
    <3>4. w[i + 1] = IF i + 1 < d THEN q[i + 1] ELSE q[(i + 1) + 1]
      BY <2>3, <3>1
    <3> QED
      BY <2>8, <3>2, <3>3, <3>4
  <2>10. Len(t) - 1 = Len(q) - 2
    BY <1>1
  <2>11. Without(t, x) = Tail(w)
    BY <2>7, <2>8, <2>9, <2>10, SeqEqual
  <2> QED
    BY <2>4, <2>5, <2>11 DEF w, t
<1> QED
  BY <1>3, <1>4

-----------------------------------------------------------------------------
(***************************************************************************)
(* The theorems                                                            *)
(***************************************************************************)
LEMMA InitQueueInv == Init => QueueInv
<1> SUFFICES ASSUME Init PROVE QueueInv
  OBVIOUS
<1>1. /\ head \in Links /\ (intrusive => head = Dummy) /\ (~intrusive => head \in Nodes)
      /\ tail = head /\ unused = Nodes \ {head} /\ intrusive \in BOOLEAN
      /\ next = [n \in Links |-> Null] /\ pc = [t \in Threads |-> "out"]
      /\ node = [t \in Threads |-> Null] /\ prev = [t \in Threads |-> Null]
      /\ dq = "out" /\ out = Null /\ phase = "open" /\ chain = <<head>> /\ quiet = TRUE
  BY DEF Init, Links
<1>2. /\ chain \in Seq(Links) /\ Len(chain) = 1 /\ DOMAIN chain = {1} /\ chain[1] = head
      /\ chain # << >>
  BY <1>1
<1>3. TypeOK
  BY <1>1, <1>2 DEF TypeOK
<1>4. \A n : InChain(n) <=> n = head
  BY <1>2 DEF InChain
<1>5. Linking(head) = {}
  BY <1>1 DEF Linking
<1>6. ListInv
  <2>1. LinksChain
    BY <1>1, <1>2, <1>5 DEF LinksChain
  <2> QED
    BY <1>1, <1>2, <2>1 DEF ListInv, Distinct, InEnqueue
<1>7. NoUseAfterFree /\ Accounted
  <2>1. NoUseAfterFree
    BY <1>1, <1>2 DEF NoUseAfterFree
  <2>2. Accounted
    BY <1>1, <1>4 DEF Accounted
  <2> QED
    BY <2>1, <2>2
<1>8. DummyInv
  BY <1>1, <1>4, LinksAssumption DEF DummyInv, Threads
<1>9. QuietInv /\ ClosingInv
  BY <1>1 DEF QuietInv, ClosingInv, Threads
<1> QED
  BY <1>3, <1>6, <1>7, <1>8, <1>9 DEF QueueInv

\* What a node that is handed over is: the tail or, without a dummy, the one behind it.
LEMMA HandOvers ==
    ASSUME QueueInv, Advance \/ Found \/ LastFound
    PROVE  /\ next[tail] # Null /\ tail # Dummy /\ dq # "dummy" /\ phase # "gone"
           /\ \E n \in Nodes : HandOver(n) /\ n = IF intrusive THEN tail ELSE next[tail]
<1> USE DEF QueueInv
<1>1. CASE Advance
  <2>1. dq = "advance" /\ HandOver(next[tail]) /\ ~intrusive /\ next[tail] # Null /\ phase # "gone"
    BY <1>1 DEF Advance, DummyInv, ClosingInv
  <2>2. InChain(tail) /\ ~InChain(Dummy)
    BY <2>1, ChainFacts DEF ListInv, DummyInv
  <2>3. next[tail] = chain[2] /\ Len(chain) >= 2
    <3>1. tail' = next[tail] /\ chain' = Tail(chain) /\ UNCHANGED <<head, next, enqVars>>
      BY <2>1 DEF HandOver, Goes
    <3> QED
      BY <2>1, <3>1, PopList
  <2>4. next[tail] # Dummy
    BY <2>2, <2>3, ChainFacts DEF ListInv, InChain
  <2> QED
    BY <2>1, <2>2, <2>4 DEF TypeOK, Links
<1>2. CASE Found \/ LastFound
  <2>1. /\ dq # "dummy" /\ phase # "gone" /\ intrusive /\ tail # Dummy /\ next[tail] # Null
        /\ HandOver(tail)
    BY <1>2 DEF Found, LastFound, AtItem, Begins, DummyInv, ClosingInv
  <2> QED
    BY <2>1 DEF TypeOK, Links
<1> QED
  BY <1>1, <1>2

LEMMA FalseReturns ==
    ASSUME QueueInv, FindsNothing \/ (LoadHead /\ ~Goes("dummy")) \/ LastNotFound
    PROVE  ReturnFalse /\ ReturnsFalse /\ phase # "gone"
<1>1. dq # "out" => phase # "gone"
  BY DEF QueueInv, ClosingInv
<1> QED
  BY <1>1 DEF FindsNothing, LoadHead, LastNotFound, Begins, ReturnsFalse, HeadBehind

LEMMA NextQueueInv == QueueInv /\ [Next]_vars => QueueInv'
<1> SUFFICES ASSUME QueueInv, [Next]_vars PROVE QueueInv'
  OBVIOUS
<1>1. Producers \subseteq Threads /\ Consumer \in Threads
  BY DEF Threads
<1>2. CASE FindsNothing \/ (LoadHead /\ ~Goes("dummy")) \/ LastNotFound
  BY <1>2, FalseReturns, ReturnFalseInv
<1>3. CASE LoadHead /\ Goes("dummy")
  <2>1. dq = "head" /\ tail = head /\ UNCHANGED <<tail, unused, out, phase, chain>>
    BY <1>3 DEF LoadHead, HeadBehind, ReturnFalse, Goes
  <2> QED
    BY <1>3, <2>1, ToDummyInv
<1>4. CASE Load
  BY <1>4, LoadInv
<1>5. CASE SkipDummy
  BY <1>5, SkipDummyInv
<1>6. CASE NoLink
  BY <1>6, NoLinkInv
<1>7. CASE EnqueueDummy
  BY <1>7, EnqueueDummyInv
<1>8. CASE Exchange(Consumer) \/ Link(Consumer)
  BY <1>1, <1>8, ExchangeInv, LinkInv
<1>9. CASE Advance \/ Found \/ LastFound
  <2>1. PICK n \in Nodes : HandOver(n)
    BY <1>9, HandOvers
  <2> QED
    BY <1>9, <2>1, HandOvers, HandOverInv
<1>10. CASE Destroy
  BY <1>10, DestroyInv
<1>11. ASSUME NEW p \in Producers, Exchange(p) \/ Link(p) \/ \E n \in Nodes : Enqueue(p, n)
       PROVE  QueueInv'
  BY <1>1, <1>11, ExchangeInv, LinkInv, EnqueueInv
<1>12. CASE UNCHANGED vars
  BY <1>12, StutterInv
<1> QED
  BY <1>2, <1>3, <1>4, <1>5, <1>6, <1>7, <1>8, <1>9, <1>10, <1>11, <1>12 DEF Next, Dequeue

THEOREM QueueInvariant == Spec => []QueueInv
BY InitQueueInv, NextQueueInv, PTL DEF Spec

\* However many producers there are and wherever they are delayed in Enqueue(), the
\* list from _tail to _head is never broken, no one uses a node that Dequeue() has
\* given up, and the destructor gives up all of them.
THEOREM MemoryCorrect == Spec => []MemorySafe
<1>1. QueueInv => MemorySafe
  BY DEF QueueInv, ListInv, MemorySafe, AllFreed, ClosingInv
<1> QED
  BY <1>1, QueueInvariant, PTL

\* Dequeue() returns false on a queue with items only when an Enqueue() was between
\* its exchange and its link during the call.
THEOREM FalseCorrect == Spec => []FalseMeansPending
<1>1. QueueInv => FalseMeansPending
  <2> SUFFICES ASSUME QueueInv, ReturnsFalse, QuietSoFar PROVE Queue = << >>
    BY DEF FalseMeansPending
  <2> USE DEF QueueInv
  <2>1. dq = "out" /\ (intrusive => tail = Dummy) /\ next[tail] = Null
    BY DEF ReturnsFalse, QuietSoFar, QuietInv
  <2>2. tail = head
    BY <2>1, QuietTail
  <2>3. /\ chain \in Seq(Links) /\ chain # << >> /\ Len(chain) = 1 /\ chain[1] = tail
        /\ \A i \in 2 .. Len(chain) : chain[i] # chain[1]
    BY <2>2, OnlyTail, ChainFacts DEF TypeOK, ListInv, LinksChain
  <2>4. Tail(chain) = << >>
    BY <2>3, TailOfOne
  <2>5. Without(chain, tail) = << >>
    BY <2>3, <2>4, WithoutHead
  <2> QED
    BY <2>1, <2>4, <2>5 DEF Queue
<1> QED
  BY <1>1, QueueInvariant, PTL

-----------------------------------------------------------------------------
(***************************************************************************)
(* The queue is a FIFO queue                                               *)
(***************************************************************************)
LEMMA QueueSame ==
    ASSUME UNCHANGED <<intrusive, chain, out>>
    PROVE  UNCHANGED <<Queue, out>>
BY DEF Queue

\* The exchange of a producer is the abstract Enqueue(), that of the dummy is nothing.
LEMMA ExchangeFifo ==
    ASSUME QueueInv, NEW t \in Threads, Exchange(t)
    PROVE  (\E n \in Nodes : Queue' = Append(Queue, n) /\ UNCHANGED out) \/ UNCHANGED <<Queue, out>>
<1> USE DEF QueueInv
<1>1. UNCHANGED <<intrusive, out>> /\ pc[t] = "exchange" /\ chain' = Append(chain, node[t])
  BY DEF Exchange
<1>2. /\ chain \in Seq(Links) /\ chain # << >> /\ DOMAIN chain = 1 .. Len(chain)
      /\ \A i, j \in 1 .. Len(chain) : chain[i] = chain[j] => i = j
  BY ChainFacts DEF TypeOK, ListInv, LinksChain, Distinct
<1>3. CASE t \in Producers
  <2>1. node[t] \in Nodes /\ node[t] # Dummy /\ node[t] \in Links
    BY <1>1, <1>3, LinksAssumption DEF DummyInv, Links
  <2>2. \A i, j \in 1 .. Len(chain) : chain[i] = Dummy /\ chain[j] = Dummy => i = j
    BY <1>2
  <2>3. Without(Append(chain, node[t]), Dummy) = Append(Without(chain, Dummy), node[t])
    BY <1>2, <2>1, <2>2, WithoutAppend
  <2>4. Tail(Append(chain, node[t])) = Append(Tail(chain), node[t])
    BY <1>2, HeadTailAppend
  <2>5. Queue' = Append(Queue, node[t])
    BY <1>1, <2>3, <2>4 DEF Queue
  <2> QED
    BY <1>1, <2>1, <2>5
<1>4. CASE t = Consumer
  <2>1. node[t] = Dummy /\ Dummy \in Links /\ intrusive /\ ~InChain(Dummy)
    BY <1>1, <1>4 DEF DummyInv, Links
  <2>2. \A i \in 1 .. Len(chain) : chain[i] # Dummy
    BY <1>2, <2>1 DEF InChain
  <2>3. Without(Append(chain, Dummy), Dummy) = chain
    BY <1>2, <2>1, <2>2, WithoutAppended
  <2>4. Without(chain, Dummy) = chain
    BY <1>2, <2>2, WithoutNone
  <2>5. Queue' = Queue
    BY <1>1, <2>1, <2>3, <2>4 DEF Queue
  <2> QED
    BY <1>1, <2>5
<1> QED
  BY <1>3, <1>4 DEF Threads

\* Handing over is the abstract Dequeue().
LEMMA HandOverFifo ==
    ASSUME QueueInv, NEW n \in Nodes, HandOver(n), next[tail] # Null, tail # Dummy,
           n = IF intrusive THEN tail ELSE next[tail]
    PROVE  Queue # << >> /\ out' = Head(Queue) /\ Queue' = Tail(Queue)
<1> USE DEF QueueInv
<1>1. /\ UNCHANGED <<intrusive, head, next, enqVars>>
      /\ tail' = next[tail] /\ out' = n /\ chain' = Tail(chain)
  BY DEF HandOver, Goes
<1>2. /\ chain \in Seq(Links) /\ chain # << >> /\ DOMAIN chain = 1 .. Len(chain) /\ chain[1] = tail
      /\ \A i, j \in 1 .. Len(chain) : chain[i] = chain[j] => i = j
  BY ChainFacts DEF TypeOK, ListInv, LinksChain, Distinct
<1>3. Len(chain) >= 2 /\ chain[2] = next[tail]
  BY <1>1, PopList
<1>4. CASE intrusive
  <2>1. \A i, j \in 1 .. Len(chain) : chain[i] = Dummy /\ chain[j] = Dummy => i = j
    BY <1>2
  <2>2. /\ Without(chain, Dummy) # << >> /\ Head(Without(chain, Dummy)) = chain[1]
        /\ Without(Tail(chain), Dummy) = Tail(Without(chain, Dummy))
    BY <1>2, <2>1, WithoutTail
  <2> QED
    BY <1>1, <1>2, <1>4, <2>2 DEF Queue
<1>5. CASE ~intrusive
  <2>1. Tail(chain) # << >> /\ Head(Tail(chain)) = chain[2]
    BY <1>2, <1>3, TailOfMore
  <2> QED
    BY <1>1, <1>3, <1>5, <2>1 DEF Queue
<1> QED
  BY <1>4, <1>5

\* The dummy at the tail was no item.
LEMMA SkipDummyFifo ==
    ASSUME QueueInv, SkipDummy
    PROVE  UNCHANGED <<Queue, out>>
<1> USE DEF QueueInv
<1>1. intrusive /\ UNCHANGED <<intrusive, out>> /\ tail = Dummy /\ chain' = Tail(chain)
  BY DEF SkipDummy, Goes
<1>2. /\ chain \in Seq(Links) /\ chain # << >> /\ DOMAIN chain = 1 .. Len(chain) /\ chain[1] = Dummy
      /\ \A i, j \in 1 .. Len(chain) : chain[i] = chain[j] => i = j
  BY <1>1, ChainFacts DEF TypeOK, ListInv, LinksChain, Distinct
<1>3. \A i \in 2 .. Len(chain) : chain[i] # chain[1]
  BY <1>2
<1>4. Without(chain, Dummy) = Tail(chain)
  BY <1>2, <1>3, WithoutHead
<1>5. \A i \in DOMAIN Tail(chain) : Tail(chain)[i] # Dummy
  BY <1>2, <1>3, HeadTailProperties
<1>6. Without(Tail(chain), Dummy) = Tail(chain)
  BY <1>5, WithoutNone
<1> QED
  BY <1>1, <1>4, <1>6 DEF Queue

LEMMA NextFifo ==
    ASSUME QueueInv, [Next]_vars
    PROVE  [Fifo!Next]_<<Queue, out>>
<1>1. CASE UNCHANGED <<intrusive, chain, out>>
  BY <1>1, QueueSame
<1>2. ASSUME NEW t \in Threads, Exchange(t) PROVE [Fifo!Next]_<<Queue, out>>
  BY <1>2, ExchangeFifo DEF Fifo!Next, Fifo!Enqueue
<1>3. CASE Advance \/ Found \/ LastFound
  <2>1. PICK n \in Nodes : HandOver(n) /\ n = IF intrusive THEN tail ELSE next[tail]
    BY <1>3, HandOvers
  <2>2. next[tail] # Null /\ tail # Dummy
    BY <1>3, HandOvers
  <2>3. Queue # << >> /\ out' = Head(Queue) /\ Queue' = Tail(Queue)
    BY <2>1, <2>2, HandOverFifo
  <2> QED
    BY <2>3 DEF Fifo!Next, Fifo!Dequeue
<1>4. CASE SkipDummy
  BY <1>4, SkipDummyFifo
<1>5. \/ \E t \in Threads : Exchange(t)
      \/ Advance \/ Found \/ LastFound \/ SkipDummy
      \/ UNCHANGED <<intrusive, chain, out>>
  <2>1. CASE FindsNothing \/ LoadHead \/ LastNotFound \/ Load \/ NoLink
    BY <2>1 DEF FindsNothing, LoadHead, LastNotFound, Load, NoLink, ReturnFalse, Goes
  <2>2. CASE EnqueueDummy \/ Destroy \/ \E p \in Producers : \E n \in Nodes : Enqueue(p, n)
    BY <2>2 DEF EnqueueDummy, Destroy, Enqueue, StoreNull
  <2>3. CASE \E t \in Threads : Link(t)
    BY <2>3 DEF Link
  <2>4. CASE UNCHANGED vars
    BY <2>4 DEF vars
  <2> QED
    BY <2>1, <2>2, <2>3, <2>4 DEF Next, Dequeue, Threads
<1> QED
  BY <1>1, <1>2, <1>3, <1>4, <1>5

LEMMA InitFifo == Init => Fifo!Init
<1> SUFFICES ASSUME Init PROVE Queue = << >> /\ out = Null
  BY DEF Fifo!Init
<1>1. head \in Links /\ (intrusive => head = Dummy) /\ chain = <<head>> /\ out = Null
  BY DEF Init, Links
<1>2. /\ chain \in Seq(Links) /\ chain # << >> /\ chain[1] = head /\ Tail(chain) = << >>
      /\ \A i \in 2 .. Len(chain) : chain[i] # chain[1]
  BY <1>1
<1>3. Without(chain, head) = << >>
  BY <1>2, WithoutHead
<1> QED
  BY <1>1, <1>2, <1>3 DEF Queue

\* Both queues implement the FIFO queue: a producer's exchange is the moment its item
\* is enqueued, the move of the tail the moment it is dequeued.
THEOREM ImplementsFifo == Spec => FifoSpec
<1>1. QueueInv /\ [Next]_vars => [Fifo!Next]_<<Queue, out>>
  BY NextFifo
<1> QED
  BY <1>1, QueueInvariant, InitFifo, PTL DEF Spec, FifoSpec, Fifo!Spec
-----------------------------------------------------------------------------
(***************************************************************************)
(* PCQueue: its values keep their order, and none is lost                  *)
(***************************************************************************)
\* The operator that PCQueue knows.
LEMMA SameCardinality == \A S : Locked!Cardinality(S) = Cardinality(S)
BY DEF Cardinality, Locked!Cardinality

\* The types rest on the order of the values (Cancel() deletes at most what was
\* pushed), so the two are one inductive invariant; the order of what is handed out
\* needs that nothing is handed out any more once something was deleted.
LockedInv ==
    /\ Locked!TypeOK /\ Locked!NothingLost
    /\ ~shutdown => deleted = 0

LEMMA InitQueue == Locked!Init => LockedInv
<1> SUFFICES ASSUME Locked!Init PROVE LockedInv
  OBVIOUS
<1>1. queue = << >> /\ taken = << >> /\ pushed = 0 /\ deleted = 0 /\ shutdown = FALSE
  BY DEF Locked!Init
<1>2. Locked!TypeOK
  <2>1. << >> \in Seq(1 .. 0) /\ 0 \in 0 .. MaxPushes /\ 0 \in 0 .. 0
    BY PushBound
  <2>2. place \in [Consumers -> {"out", "waiting", "woken"}]
    BY DEF Locked!Init
  <2> QED
    BY <1>1, <2>1, <2>2 DEF Locked!TypeOK
<1>3. Locked!NothingLost
  BY <1>1 DEF Locked!NothingLost
<1> QED
  BY <1>1, <1>2, <1>3 DEF LockedInv

\* One thread's move keeps place a function from consumers to places.
LEMMA PcType ==
    ASSUME Locked!TypeOK,
           \/ place' = place
           \/ \E c \in Consumers, s \in {"out", "waiting", "woken"} : place' = [place EXCEPT ![c] = s]
    PROVE  place' \in [Consumers -> {"out", "waiting", "woken"}]
  BY DEF Locked!TypeOK

\* A value pushed behind the others.
LEMMA PushQueue == ASSUME LockedInv, Locked!Push PROVE LockedInv'
<1> USE DEF LockedInv
<1>1. place' \in [Consumers -> {"out", "waiting", "woken"}]
  BY PcType DEF Locked!Push, Locked!NotifyOne, Locked!Waiting
<1>2. pushed \in Nat /\ pushed' = pushed + 1 /\ pushed' \in 0 .. MaxPushes
  BY PushBound DEF Locked!Push, Locked!TypeOK
<1>3. queue \in Seq(1 .. pushed') /\ taken \in Seq(1 .. pushed') /\ deleted \in 0 .. pushed'
  BY <1>2 DEF Locked!TypeOK
<1>4. Locked!TypeOK'
  BY <1>1, <1>2, <1>3 DEF Locked!Push, Locked!TypeOK
<1>5. Locked!NothingLost'
  <2>1. queue' = Append(queue, pushed + 1) /\ UNCHANGED <<taken, deleted>>
    BY DEF Locked!Push
  <2>2. /\ Len(queue') = Len(queue) + 1 /\ Len(queue) \in Nat
        /\ \A k \in 1 .. Len(queue') :
              queue'[k] = IF k = Len(queue) + 1 THEN pushed + 1 ELSE queue[k]
    BY <2>1, <1>2, <1>3
  <2>3. \A k \in 1 .. Len(queue') : queue'[k] = pushed' - Len(queue') + k
    BY <1>2, <2>2 DEF Locked!NothingLost
  <2>4. Len(taken') + deleted' + Len(queue') = pushed'
    BY <1>2, <1>3, <2>1, <2>2 DEF Locked!NothingLost
  <2> QED
    BY <2>1, <2>3, <2>4 DEF Locked!NothingLost
<1> QED
  BY <1>4, <1>5 DEF Locked!Push

\* The front handed out, or nothing.
LEMMA LeaveQueue == ASSUME LockedInv, NEW c \in Consumers, Locked!Leave(c) PROVE LockedInv'
<1> USE DEF LockedInv
<1>1. place' \in [Consumers -> {"out", "waiting", "woken"}]
  BY PcType DEF Locked!Leave
<1>2. CASE queue = << >> \/ shutdown
  BY <1>1, <1>2 DEF Locked!Leave, Locked!TypeOK, Locked!NothingLost
<1>3. CASE ~(queue = << >> \/ shutdown)
  <2>1. Locked!Take /\ UNCHANGED <<shutdown, pushed, deleted>>
    BY <1>3 DEF Locked!Leave
  <2>2. /\ queue' \in Seq(1 .. pushed) /\ Len(queue') = Len(queue) - 1
        /\ \A k \in 1 .. Len(queue') : queue'[k] = queue[k + 1]
        /\ Head(queue) = queue[1] /\ Head(queue) \in 1 .. pushed
    BY <1>3, <2>1 DEF Locked!Take, Locked!TypeOK
  <2>3. Locked!TypeOK'
    BY <1>1, <2>1, <2>2 DEF Locked!Take, Locked!TypeOK
  <2>4. deleted = 0 /\ Len(queue) \in Nat /\ Len(taken) \in Nat /\ pushed \in Nat
    BY <1>3 DEF Locked!TypeOK
  <2>5. /\ Len(taken') = Len(taken) + 1
        /\ \A k \in 1 .. Len(taken') :
              taken'[k] = IF k = Len(taken) + 1 THEN Head(queue) ELSE taken[k]
    BY <2>1, <2>2 DEF Locked!Take, Locked!TypeOK
  <2>6. Head(queue) = Len(taken) + 1
    BY <1>3, <2>2, <2>4 DEF Locked!NothingLost
  <2>7. Locked!NothingLost'
    <3>1. \A k \in 1 .. Len(taken') : taken'[k] = k
      BY <2>4, <2>5, <2>6 DEF Locked!NothingLost
    <3>2. \A k \in 1 .. Len(queue') : queue'[k] = pushed' - Len(queue') + k
      <4> SUFFICES ASSUME NEW k \in 1 .. Len(queue') PROVE queue'[k] = pushed' - Len(queue') + k
        OBVIOUS
      <4>1. queue'[k] = queue[k + 1] /\ k + 1 \in 1 .. Len(queue)
        BY <2>2, <2>4
      <4>2. queue[k + 1] = pushed - Len(queue) + (k + 1)
        BY <4>1 DEF Locked!NothingLost
      <4> QED
        BY <2>1, <2>2, <2>4, <4>1, <4>2
    <3>3. Len(taken') + deleted' + Len(queue') = pushed'
      <4>1. Len(taken) + deleted + Len(queue) = pushed
        BY DEF Locked!NothingLost
      <4>2. deleted' = deleted /\ pushed' = pushed
        BY <2>1
      <4> QED
        BY <4>1, <4>2, <2>2, <2>4, <2>5
    <3> QED
      BY <3>1, <3>2, <3>3 DEF Locked!NothingLost
  <2> QED
    BY <2>1, <2>3, <2>7, <2>4
<1> QED
  BY <1>2, <1>3

LEMMA CancelQueue == ASSUME LockedInv, Locked!Cancel PROVE LockedInv'
<1> USE DEF LockedInv
<1>1. place' \in [Consumers -> {"out", "waiting", "woken"}]
  BY DEF Locked!Cancel, Locked!NotifyAll, Locked!TypeOK
<1>2. /\ queue' = << >> /\ deleted' = deleted + Len(queue) /\ shutdown' = TRUE
      /\ UNCHANGED <<pushed, taken>>
  BY DEF Locked!Cancel
<1>3. Len(taken) \in Nat /\ Len(queue) \in Nat /\ deleted \in Nat /\ pushed \in Nat
  BY DEF Locked!TypeOK
<1>4. Len(queue') = 0 /\ queue' \in Seq(1 .. pushed)
  BY <1>2
<1>5. deleted' \in 0 .. pushed
  BY <1>2, <1>3 DEF Locked!NothingLost
<1>6. Locked!TypeOK'
  BY <1>1, <1>2, <1>4, <1>5 DEF Locked!TypeOK
<1>7. Locked!NothingLost'
  BY <1>2, <1>3, <1>4 DEF Locked!NothingLost
<1> QED
  BY <1>2, <1>6, <1>7

LEMMA NextQueue ==
    LockedInv /\ [Locked!Next]_lockedVars => LockedInv'
<1> SUFFICES ASSUME LockedInv, [Locked!Next]_lockedVars PROVE LockedInv'
  OBVIOUS
<1>1. CASE Locked!Push
  BY <1>1, PushQueue
<1>2. CASE Locked!Cancel
  BY <1>2, CancelQueue
<1>3. ASSUME NEW c \in Consumers, Locked!Leave(c) PROVE LockedInv'
  BY <1>3, LeaveQueue
<1>4. ASSUME NEW c \in Consumers, Locked!Wait(c) \/ Locked!SpuriousWakeup(c) PROVE LockedInv'
  <2>1. place' \in [Consumers -> {"out", "waiting", "woken"}]
    BY <1>4, PcType DEF LockedInv, Locked!Wait, Locked!SpuriousWakeup
  <2> QED
    BY <1>4, <2>1 DEF LockedInv, Locked!TypeOK, Locked!NothingLost, Locked!Wait, Locked!SpuriousWakeup
<1>5. CASE UNCHANGED lockedVars
  BY <1>5 DEF lockedVars, LockedInv, Locked!TypeOK, Locked!NothingLost
<1> QED
  BY <1>1, <1>2, <1>3, <1>4, <1>5 DEF Locked!Next, Locked!Pop, Locked!WaitAndPop, Locked!Resume

\* The variables keep their types.
THEOREM TypeCorrect == LockedSpec => []LockedTypes
<1>1. Locked!Init => LockedInv
  BY InitQueue
<1>2. LockedInv /\ [Locked!Next]_lockedVars => LockedInv'
  BY NextQueue
<1>3. LockedInv => LockedTypes
  BY DEF LockedInv, LockedTypes
<1> QED
  BY <1>1, <1>2, <1>3, PTL DEF LockedSpec, Locked!Spec, Locked!vars, lockedVars

\* Whatever the threads do, values are handed out in the order they were pushed,
\* each once, and none disappears but by Cancel().
THEOREM QueueCorrect == LockedSpec => []NothingLost
<1>1. Locked!Init => LockedInv
  BY InitQueue
<1>2. LockedInv /\ [Locked!Next]_lockedVars => LockedInv'
  BY NextQueue
<1>3. LockedInv => NothingLost
  BY DEF LockedInv, NothingLost
<1> QED
  BY <1>1, <1>2, <1>3, PTL DEF LockedSpec, Locked!Spec, Locked!vars, lockedVars
-----------------------------------------------------------------------------
(***************************************************************************)
(* No wakeup is lost.                                                      *)
(***************************************************************************)
Places == {"out", "waiting", "woken"}

LEMMA WokenFinite ==
    IsFiniteSet(Locked!Woken) /\ Cardinality(Locked!Woken) \in Nat
<1>1. Locked!Woken \subseteq Consumers
  BY DEF Locked!Woken
<1> QED
  BY <1>1, FS_Subset, FS_CardinalityType, ConsumersAssumption

LEMMA OneLess ==
    ASSUME NEW S, IsFiniteSet(S), NEW c
    PROVE  Cardinality(S \ {c}) \in Nat /\ Cardinality(S \ {c}) >= Cardinality(S) - 1
<1>1. IsFiniteSet(S \ {c}) /\ Cardinality(S \ {c}) = IF c \in S THEN Cardinality(S) - 1 ELSE Cardinality(S)
  BY FS_RemoveElement
<1>2. Cardinality(S) \in Nat /\ Cardinality(S \ {c}) \in Nat
  BY <1>1, FS_CardinalityType
<1> QED
  BY <1>1, <1>2

\* What one thread's move does to the sets of waiting and of woken threads.
LEMMA Moves ==
    ASSUME Locked!TypeOK, NEW c \in Consumers, NEW s \in Places, place' = [place EXCEPT ![c] = s]
    PROVE  /\ Locked!Waiting' = IF s = "waiting" THEN Locked!Waiting \cup {c} ELSE Locked!Waiting \ {c}
           /\ Locked!Woken' = IF s = "woken" THEN Locked!Woken \cup {c} ELSE Locked!Woken \ {c}
  BY DEF Locked!TypeOK, Locked!Waiting, Locked!Woken, Places

LEMMA PushWakes == ASSUME Locked!TypeOK, Locked!NoLostWakeup, Locked!Push PROVE Locked!NoLostWakeup'
<1>1. Len(queue') = Len(queue) + 1 /\ Len(queue) \in Nat /\ shutdown' = shutdown
  BY DEF Locked!Push, Locked!TypeOK
<1>2. CASE Locked!Waiting = {}
  <2>1. Locked!Waiting' = {}
    BY <1>2 DEF Locked!Push, Locked!NotifyOne, Locked!Waiting
  <2> QED
    BY <2>1, SameCardinality DEF Locked!NoLostWakeup
<1>3. CASE Locked!Waiting # {}
  <2>1. PICK c \in Locked!Waiting : place' = [place EXCEPT ![c] = "woken"]
    BY <1>3 DEF Locked!Push, Locked!NotifyOne
  <2>2. c \in Consumers /\ c \notin Locked!Woken
    BY DEF Locked!Waiting, Locked!Woken
  <2>3. Locked!Woken' = Locked!Woken \cup {c}
    BY <2>1, <2>2, Moves DEF Places
  <2>4. Cardinality(Locked!Woken') = Cardinality(Locked!Woken) + 1
    BY <2>2, <2>3, WokenFinite, FS_AddElement
  <2> QED
    BY <1>1, <1>3, <2>4, WokenFinite, SameCardinality DEF Locked!NoLostWakeup
<1> QED
  BY <1>2, <1>3

\* A thread that does not wait leaves: with a value, unless there is none.
LEMMA LeaveWakes ==
    ASSUME Locked!TypeOK, Locked!NoLostWakeup, NEW c \in Consumers, Locked!Leave(c), place[c] # "waiting"
    PROVE  Locked!NoLostWakeup'
<1>1. Locked!Waiting' = Locked!Waiting /\ Locked!Woken' = Locked!Woken \ {c}
  BY Moves DEF Locked!Leave, Places, Locked!Waiting
<1>2. Cardinality(Locked!Woken') \in Nat /\ Cardinality(Locked!Woken') >= Cardinality(Locked!Woken) - 1
  BY <1>1, WokenFinite, OneLess
<1>3. CASE queue = << >> \/ shutdown
  <2>1. Len(queue') = Len(queue) /\ shutdown' = shutdown /\ queue' = queue
    BY <1>3 DEF Locked!Leave
  <2>2. queue = << >> => Len(queue) = 0
    OBVIOUS
  <2> QED
    BY <1>1, <1>2, <1>3, <2>1, <2>2, SameCardinality DEF Locked!NoLostWakeup
<1>4. CASE ~(queue = << >> \/ shutdown)
  <2>1. Len(queue') = Len(queue) - 1 /\ Len(queue) \in Nat /\ shutdown' = shutdown
    BY <1>4 DEF Locked!Leave, Locked!Take, Locked!TypeOK
  <2> QED
    BY <1>1, <1>2, <2>1, WokenFinite, SameCardinality DEF Locked!NoLostWakeup
<1> QED
  BY <1>3, <1>4

LEMMA WaitWakes == ASSUME Locked!TypeOK, Locked!NoLostWakeup, NEW c \in Consumers, Locked!Wait(c) PROVE Locked!NoLostWakeup'
<1>1. queue' = << >> /\ ~shutdown'
  BY DEF Locked!Wait, Locked!MustWait
<1>2. Len(queue') = 0
  BY <1>1
<1>3. Locked!Woken' = Locked!Woken \ {c}
  BY Moves DEF Locked!Wait, Places
<1>4. Cardinality(Locked!Woken') \in Nat
  BY <1>3, WokenFinite, OneLess
<1> QED
  BY <1>1, <1>2, <1>4, SameCardinality DEF Locked!NoLostWakeup

LEMMA SpuriousWakes ==
    ASSUME Locked!TypeOK, Locked!NoLostWakeup, NEW c \in Consumers, Locked!SpuriousWakeup(c) PROVE Locked!NoLostWakeup'
<1>1. Locked!Woken' = Locked!Woken \cup {c} /\ Locked!Waiting' = Locked!Waiting \ {c} /\ c \notin Locked!Woken
  BY Moves DEF Locked!SpuriousWakeup, Places, Locked!Woken
<1>2. Cardinality(Locked!Woken') = Cardinality(Locked!Woken) + 1
  BY <1>1, WokenFinite, FS_AddElement
<1>3. Len(queue') = Len(queue) /\ Len(queue) \in Nat /\ shutdown' = shutdown
  BY DEF Locked!SpuriousWakeup, Locked!TypeOK
<1> QED
  BY <1>1, <1>2, <1>3, WokenFinite, SameCardinality DEF Locked!NoLostWakeup

LEMMA NextWakes ==
    Locked!TypeOK /\ Locked!NoLostWakeup /\ [Locked!Next]_lockedVars => Locked!NoLostWakeup'
<1> SUFFICES ASSUME Locked!TypeOK, Locked!NoLostWakeup, [Locked!Next]_lockedVars PROVE Locked!NoLostWakeup'
  OBVIOUS
<1>1. CASE Locked!Push
  BY <1>1, PushWakes
<1>2. CASE Locked!Cancel
  <2>1. Locked!Waiting' = {}
    BY <1>2 DEF Locked!Cancel, Locked!NotifyAll, Locked!Waiting
  <2> QED
    BY <2>1, SameCardinality DEF Locked!NoLostWakeup
<1>3. ASSUME NEW c \in Consumers, Locked!Pop(c) \/ Locked!WaitAndPop(c) \/ Locked!Resume(c) PROVE Locked!NoLostWakeup'
  BY <1>3, LeaveWakes, WaitWakes DEF Locked!Pop, Locked!WaitAndPop, Locked!Resume
<1>4. ASSUME NEW c \in Consumers, Locked!SpuriousWakeup(c) PROVE Locked!NoLostWakeup'
  BY <1>4, SpuriousWakes
<1>5. CASE UNCHANGED lockedVars
  <2>1. UNCHANGED <<queue, shutdown, place>>
    BY <1>5 DEF lockedVars
  <2>2. Locked!Waiting' = Locked!Waiting /\ Locked!Woken' = Locked!Woken
    BY <2>1 DEF Locked!Waiting, Locked!Woken
  <2> QED
    BY <2>1, <2>2, SameCardinality DEF Locked!NoLostWakeup
<1> QED
  BY <1>1, <1>2, <1>3, <1>4, <1>5 DEF Locked!Next

\* While a thread waits, a woken thread is on its way for every value in the queue,
\* and none waits after Cancel(): notify_one() after each Push() is enough, for any
\* number of threads.
THEOREM WakeupCorrect == LockedSpec => []NoLostWakeup
<1>1. Locked!Init => Locked!NoLostWakeup
  BY DEF Locked!Init, Locked!NoLostWakeup, Locked!Waiting
<1>2. Locked!TypeOK /\ Locked!NoLostWakeup /\ [Locked!Next]_lockedVars => Locked!NoLostWakeup'
  BY NextWakes
<1>3. LockedSpec => []LockedTypes
  BY TypeCorrect
<1>4. LockedTypes => Locked!TypeOK
  BY DEF LockedTypes
<1>5. Locked!NoLostWakeup => NoLostWakeup
  BY DEF NoLostWakeup
<1> QED
  BY <1>1, <1>2, <1>3, <1>4, <1>5, PTL DEF LockedSpec, Locked!Spec, Locked!vars, lockedVars
=============================================================================
